SPECIFICATION Spec
CONSTANTS
    Timers = {t1, t2, t3, t4}
    NULL = NULL
    Slots = 3
    MaxBack = 2
INVARIANT Linked
PROPERTIES ImplementsQueue
