\* Liveness, on two sets per skew and without symmetry.
SPECIFICATION FairSpec
CONSTANTS
    Addr = {a1, a2, a3}
    Block = {b1}
    a1 = a1
    a2 = a2
    a3 = a3
    s1 = s1
    s2 = s2
    TagSet = {s1, s2}
    SkewSet <- Skewed
    TagWays = 2
    NumWay = 1
    Threshold = 1
    MshrSize = 1
    WqSize = 1
    DramWqSize = 1
    NoAddr = NoAddr
    NoBlock = NoBlock
    NoEntry = NoEntry
PROPERTIES MissCompletes WritebackCompletes
CHECK_DEADLOCK FALSE
