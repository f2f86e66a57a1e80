\* Small enough for every conflict: both candidate sets of an address fill up.
SPECIFICATION Spec
CONSTANTS
    Addr = {a1, a2, a3, a4, a5}
    Block = {b1, b2}
    a1 = a1
    a2 = a2
    a3 = a3
    s1 = s1
    s2 = s2
    TagSet = {s1}
    SkewSet <- OneSet
    TagWays = 2
    NumWay = 1
    Threshold = 2
    MshrSize = 1
    WqSize = 1
    DramWqSize = 1
    NoAddr = NoAddr
    NoBlock = NoBlock
    NoEntry = NoEntry
SYMMETRY Symmetry
INVARIANTS TypeOK TagsBacked OneTagPerAddress StoresAgree ThresholdKept MismatchOnlyAfterRefusal
PROPERTIES DirtyWrittenBack
CHECK_DEADLOCK FALSE
