SPECIFICATION FairSpec
CONSTANTS
    Timers = {a, b}
    NULL = NULL
    Free = Free
    File = File
    MaxFd = 2
    MAX_FD = 1
    Slots = 2
    MaxBack = 0
    Refusable = {a}
    MaxRequests = 2
    Parts = 2
INVARIANTS OpenIsTimed TimerAlive UsersNotOverstated TimersOwn EventsCurrent AnswersOwn
PROPERTIES SilentIsClosed
