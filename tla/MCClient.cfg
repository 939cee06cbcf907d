SPECIFICATION Spec
CONSTANTS
    Workers = {w1, w2}
    Callers = {t1}
    Conns = {c1, c2}
    NoConn = NoConn
    Pieces = 2
VIEW LiveView
SYMMETRY Symm
CHECK_DEADLOCK FALSE
INVARIANTS TypeOK OneDriver LiveUntilTail ListExact CountersExact
PROPERTY OwnershipKept
