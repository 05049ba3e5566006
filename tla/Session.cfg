SPECIFICATION Spec
CONSTANTS
    a = a
    b = b
    Users = {a, b}
    Account <- MCAccount
    NoUser = NoUser
    Tasks = {t1, t2}
    MaxSessions = 2
    MaxExpiries = 1
    MaxFaults = 1
    MaxReloads = 1
INVARIANTS WaitersHaveRefresh SessionCoherent RetryKeepsIdentity RefreshScheduled
CHECK_DEADLOCK FALSE
