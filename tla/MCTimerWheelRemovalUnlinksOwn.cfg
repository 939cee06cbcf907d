SPECIFICATION Spec
CONSTANTS
    WHLCST = 4
    ATSIZEA = 3
    Timeout = 2
    Ops = {o1, o2}
    NoOp = NoOp
SYMMETRY Symm
PROPERTY RemovalUnlinksOwn
