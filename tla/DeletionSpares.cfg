SPECIFICATION StoreSpec
CONSTANTS
    Clients = {c1, c2}
    Objects = {o1}
    NoTask = NoTask
    MaxCount = 1
    SLICE_SIZE = 2
    Steady = {c1, c2}
    Failing = {}
    MaxFaults = 0
    MaxRestarts = 0
    Jobs = {j1}
SYMMETRY Symmetry
PROPERTY DeletionSparesOthers
CHECK_DEADLOCK FALSE
