SPECIFICATION FairSpec
CONSTANTS
    Workers = {w1, w2}
    Conns = {c1}
    NoConn = NoConn
    Accepts = 2
    Pieces = 2
INVARIANTS TypeOK OneDriver RefCountExact NoUseAfterFree NoOrphanOperation ArgumentsNeverPending MonitorSafe CounterExact AcceptPool
PROPERTIES AbandonedTwoWays OwnershipKept Settles
