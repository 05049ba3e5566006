SPECIFICATION Spec
CONSTANTS
  o1 = o1
  o2 = o2
  None = None
  Orders = {o1, o2}
  Market = {o1}
  Guarded = {o1}
  Bracketed = {o1}
  MaxDeliver = 2
  MaxCrashes = 1
  Faults = FALSE
  LongOutage = FALSE
INVARIANTS AtMostOneFill CancelExcludesFill IndexedIsCached OutcomeReported AckMeansSettled
CHECK_DEADLOCK FALSE
