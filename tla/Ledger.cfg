SPECIFICATION Spec
CONSTANTS
  None = None
  Handlers = {h1, h2}
  w1 = w1
  Deposits = {d1}
  Withdrawals = {w1}
  Directs = {x1}
  Commissions = {c1}
  Amount <- MCAmount
  Start = 2
  Margin = 1
  MaxFaults = 1
CONSTRAINT Few
INVARIANTS LedgerExplainsWallet StatusTellsMoney NoOverdraft
PROPERTY SettledStays
CHECK_DEADLOCK FALSE
SYMMETRY Symmetry
