SPECIFICATION FairSpec
CONSTANTS
    Headers = {1, 2, 3, 4, 5}
    Files = {0, 1, 2, 3, 6}
    IntMax = 15
INVARIANT InOrder
PROPERTY EveryResponseEnds
CHECK_DEADLOCK FALSE
