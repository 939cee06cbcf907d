SPECIFICATION Spec
CONSTANTS
    WHLCST = 3
    ATSIZEA = 3
    Timeout = 1
    Ops = {o1, o2}
    NoOp = NoOp
VIEW LiveView
SYMMETRY Symm
INVARIANTS TypeOK BucketsIndexed OneOwner NeverEarly StrayOnlyAfterFailedPost
PROPERTIES LostOnlyByStaleUnlink LeakWays TimersKept
