SPECIFICATION Spec
CONSTANTS
  None = None
  Junk = Junk
  Ids = {p1}
  Editors = {e1, e2}
  Levels = {l1}
  MaxSize = 2
  StopOuts = {}
  Switching = TRUE
INVARIANT ArmedIsShown
PROPERTY RestoresSize
SYMMETRY Symmetry
