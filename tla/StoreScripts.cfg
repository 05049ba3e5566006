SPECIFICATION Spec
CONSTANTS
  None = None
  Junk = Junk
  Ids = {p1, p2, p3}
  Editors = {}
  Levels = {}
  MaxSize = 2
  StopOuts = {"LIQUIDATED"}
  Switching = FALSE
INVARIANTS OpenIndexed OneNetPosition OpenIsListed StopOutCloses
SYMMETRY Symmetry
CONSTRAINT Few
