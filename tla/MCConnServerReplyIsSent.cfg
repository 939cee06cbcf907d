SPECIFICATION Spec
CONSTANTS
    Workers = {w1, w2}
    Conns = {c1}
    NoConn = NoConn
    Accepts = 1
    Pieces = 1
INVARIANT ReplyIsSent
