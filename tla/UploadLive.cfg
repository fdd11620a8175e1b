SPECIFICATION FairSpec
CONSTANTS
    Clients = {c1, c2}
    Objects = {o1, o2}
    NoTask = NoTask
    MaxCount = 2
    SLICE_SIZE = 2
    Steady = {c1}
    Failing = {"select", "link"}
    MaxFaults = 1
    MaxRestarts = 0
INVARIANT NoSliceForgotten
PROPERTIES RoundRobin SteadyClientFinishes
