SPECIFICATION TreeSpec
CONSTANTS
    Sessions = {w1, w2}
    Passwords = {p1, p2}
    None = None
    Names = {"u", "a"}
    User = "u"
    MaxRows = 4
    MaxDepth = 4
    MaxOps = 2
    MaxTroubles = 1
SYMMETRY Symmetry
INVARIANTS AccountKept TreeWhole ListedOnce RenameWhole
CHECK_DEADLOCK FALSE
