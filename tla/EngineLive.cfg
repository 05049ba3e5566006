SPECIFICATION FairSpec
CONSTANTS
  o1 = o1
  o2 = o2
  None = None
  Orders = {o1, o2}
  Market = {o1, o2}
  Guarded = {}
  Bracketed = {o2}
  MaxDeliver = 1
  MaxCrashes = 1
  Faults = FALSE
  LongOutage = FALSE
PROPERTIES LifecycleSpec IndexedMarketOrderEnds FillIsReported
CHECK_DEADLOCK FALSE
