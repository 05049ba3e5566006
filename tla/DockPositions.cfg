SPECIFICATION Spec
CONSTANTS
    Orders = {}
    Positions = {p1}
    MaxAnswers = 2
    MaxDrops = 1
    MaxVisits = 1
CONSTRAINTS Calm Focused
INVARIANT OpenIsShown
CHECK_DEADLOCK FALSE
PROPERTY AppendedStays
