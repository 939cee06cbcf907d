SPECIFICATION Spec
CONSTANTS
    Workers = {w1, w2}
    Conns = {c1, c2}
    NoWheel = NoWheel
    NoConn = NoConn
    ATSIZEA = 2
    MaxAccepts = 2
VIEW LiveView
SYMMETRY Symm
CHECK_DEADLOCK FALSE
INVARIANTS TypeOK OtIsTimers WheelsOutliveUse
PROPERTY OneOwnerBreaks
