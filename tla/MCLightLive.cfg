SPECIFICATION FairSpec
CONSTANTS
    Workers = {w1, w2, w3}
    Conns = {c1}
    NoWheel = NoWheel
    NoConn = NoConn
    ATSIZEA = 2
    MaxAccepts = 1
CHECK_DEADLOCK FALSE
PROPERTIES Served MissedWays LeavingCancels
