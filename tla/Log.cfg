SPECIFICATION LogSpec
CONSTANTS
    Writers = {w1, w2}
    MaxLines = 3
    MaxSize = 2
    Split = 1
    MaxDays = 1
    NoItem = NoItem
    Items <- MCItems
INVARIANTS LinesKept FilesBounded
PROPERTIES LinesInOrder ImplementsFifo QueueDrains
CHECK_DEADLOCK FALSE
