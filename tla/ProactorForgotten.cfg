SPECIFICATION FairSpec
CONSTANTS
    Workers = {w1}
    Sockets = {s1}
    None = None
    MaxQueue = 1
    Header = 1
    Body = 1
    Parts = 2
    Piecemeal = {s1}
    Refusable = {}
    MaxAnswers = 2
PROPERTY ReadIsQueued
CHECK_DEADLOCK FALSE
