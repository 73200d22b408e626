SPECIFICATION Spec
CONSTANTS
    Conns = {c1, c2}
    Ids = {a, b}
    Quantities = {2}
    Positions = {1}
    Ticks = {TRUE, FALSE}
    MaxToggles = 3
INVARIANTS IInv OneOrderPerId
PROPERTIES OneAtATimeIsExact EveryCommandEnds
CHECK_DEADLOCK FALSE
