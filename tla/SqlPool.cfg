SPECIFICATION Spec
CONSTANTS
    Threads = {t1, t2, t3, t4}
    MaxConn = 4
SYMMETRY Symmetry
INVARIANTS NoSharing PopFindsConnection NoneClosed EnoughForAll
