SPECIFICATION Spec
CONSTANTS
    Clients = {c1, c2}
    Objects = {o1, o2}
    NoTask = NoTask
    MaxCount = 2
    SLICE_SIZE = 2
    Steady = {}
    Failing = {"refer", "link", "clear", "insert", "save", "open", "write"}
    MaxFaults = 1
    MaxRestarts = 1
SYMMETRY Symmetry
INVARIANTS ReceivedIsStored RegisteredIsStored CompletionNotLost ReferExact ReferNeverLow
