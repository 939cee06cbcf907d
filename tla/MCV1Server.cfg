SPECIFICATION Spec
CONSTANTS
    Workers = {w1, w2, w3}
    Conns = {c1, c2}
    NoConn = NoConn
    Accepts = 2
    Pieces = 3
    Handlers = {"post_recv", "post_send", "freesock", "nothing"}
SYMMETRY Symm
CHECK_DEADLOCK FALSE
INVARIANTS TypeOK AloneOnLiveMemory AcceptPool
PROPERTIES LostWays OwnershipKept
