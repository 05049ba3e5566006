SPECIFICATION Spec
CONSTANTS
    a = a
    b = b
    k1 = k1
    k2 = k2
    Components = {k1, k2}
    Symbols = {s1}
    Second = 3
    MaxTokens = 2
    Owner <- MCOwner
    MaxSockets = 4
    MaxDrops = 1
    MaxFaults = 1
    MaxMoves = 2
CONSTRAINT Calm
INVARIANTS SocketsSound TicksFlow
CHECK_DEADLOCK FALSE
PROPERTY SymbolsArrive
