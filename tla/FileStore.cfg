SPECIFICATION StoreSpec
CONSTANTS
    Clients = {c1, c2}
    Objects = {o1}
    NoTask = NoTask
    MaxCount = 1
    SLICE_SIZE = 2
    Steady = {c1, c2}
    Failing = {"unlink", "unrefer", "purge", "copy", "forget", "point"}
    MaxFaults = 1
    MaxRestarts = 1
    Jobs = {j1, j2}
SYMMETRY Symmetry
INVARIANTS ReferCovers PurgedInTime ServedWhole
CHECK_DEADLOCK FALSE
