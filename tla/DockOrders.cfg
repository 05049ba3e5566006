SPECIFICATION Spec
CONSTANTS
    Orders = {o1}
    Positions = {}
    MaxAnswers = 1
    MaxDrops = 1
    MaxVisits = 0
CONSTRAINTS Calm Focused
INVARIANTS ListSound 
 
CHECK_DEADLOCK FALSE
