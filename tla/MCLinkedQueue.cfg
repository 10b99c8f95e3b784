SPECIFICATION Spec
CONSTANTS
    Item = {x, y}
    Goroutine = {g1, g2, g3}
    NoItem = NoItem
    MaxItems = 3
INVARIANTS
    TypeOK
    NoLostWakeup
PROPERTIES
    ImplementsContract
CHECK_DEADLOCK FALSE
