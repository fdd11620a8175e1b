SPECIFICATION FairSpec
CONSTANTS
    Workers = {w1, w2}
    Sockets = {s1, s2}
    None = None
    MaxQueue = 2
    Header = 2
    Body = 2
    Parts = 2
    Piecemeal = {s2}
    Refusable = {s1}
    MaxAnswers = 2
INVARIANTS OneWorker WokenForEach AnswersWhole
PROPERTIES NotResetUnderWorker Answered
CHECK_DEADLOCK FALSE
