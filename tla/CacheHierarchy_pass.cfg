\* Two blocks compete for the one way of each cache.
SPECIFICATION FairSpec
CONSTANTS
    Addr = {x, y}
    NoAddr = NoAddr
    Way <- One
    RqSize <- One
    WqSize <- One
    PqSize <- LowerTwo
    MshrSize <- One
INVARIANTS TypeOK AnswersMatch NoOvertaking LoadsTracked
PROPERTIES Drains
