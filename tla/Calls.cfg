SPECIFICATION Spec
CONSTANTS
    Admins = {a1, a2}
    Tabs = {u1, u2}
    MaxCalls = 2
    MaxDrops = 1
    MaxUnderway = 3
    MaxStranded = 1
    MaxOdd = 0
CONSTRAINT Calm
INVARIANTS RegistrySound MicOnlyInCall PartiesAgree RecordAgrees AudioComesUp
CHECK_DEADLOCK FALSE
SYMMETRY Symmetry
