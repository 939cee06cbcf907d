SPECIFICATION FairSpec
CONSTANTS
    WHLCST = 3
    ATSIZEA = 2
    Timeout = 1
    Ops = {o1, o2}
    NoOp = NoOp
PROPERTY WatchedTimesOut
