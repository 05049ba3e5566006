SPECIFICATION Spec
CONSTANTS
  o1 = o1
  o2 = o2
  None = None
  Orders = {o1}
  Market = {o1}
  Guarded = {o1}
  Bracketed = {o1}
  MaxDeliver = 3
  MaxCrashes = 2
  Faults = TRUE
  LongOutage = TRUE
INVARIANT FillReportsAreTrue
CHECK_DEADLOCK FALSE
