\* One block: a load misses, and a store to the block arrives while it is in flight.
SPECIFICATION FairSpec
CONSTANTS
    Addr = {x, y}
    NoAddr = NoAddr
    Way <- One
    RqSize <- LowerTwo
    WqSize <- One
    PqSize <- LowerTwo
    MshrSize <- Two
PROPERTY RfoMarksDirty
