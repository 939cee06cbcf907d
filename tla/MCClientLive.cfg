SPECIFICATION FairSpec
CONSTANTS
    Workers = {w1, w2}
    Callers = {t1}
    Conns = {c1}
    NoConn = NoConn
    Pieces = 2
CHECK_DEADLOCK FALSE
PROPERTY Settles
