SPECIFICATION Spec
CONSTANTS
  o1 = o1
  None = None
  Orders = {o1}
  Cash = 2
  Bonus = 4
  Margin = 4
  Profits <- MCProfits
  MaxReopens = 1
  MaxFaults = 1
  MaxUnderway = 3
CONSTRAINT Few
INVARIANTS WalletSound ExposureCovered
PROPERTIES AccountSpec 
CHECK_DEADLOCK FALSE
