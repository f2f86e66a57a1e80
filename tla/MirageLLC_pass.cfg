\* One way in a tag set and two in a data set: with both candidate sets full, a way past
\* the end of the set may be drawn.
SPECIFICATION Spec
CONSTANTS
    Addr = {a1, a2, a3}
    a1 = a1
    a2 = a2
    a3 = a3
    NumSet = 2
    TagWays = 1
    NumWay = 2
    Block = {b1, b2}
    SkewSet <- Skewed
    MshrSize = 1
    WqSize = 1
    DramWqSize = 1
    NoAddr = NoAddr
    NoBlock = NoBlock
    NoEntry = NoEntry
SYMMETRY Symmetry
INVARIANTS TypeOK StoresMatch LookupExact
CHECK_DEADLOCK FALSE
