\* Four instructions through a buffer of three entries.  The model stops at the end of the
\* trace, which the code starts again; a core that stops earlier violates TraceRetires.
SPECIFICATION FairSpec
CHECK_DEADLOCK FALSE
CONSTANTS
    r = r
    s = s
    x = x
    y = y
    Reg = {r, s}
    Addr = {x, y}
    Kinds <- MixedKinds
    TraceLen = 4
    RobSize = 3
    LqSize = 2
    SqSize = 1
    SchedulerSize = 3
INVARIANTS TypeOK OperandsReady LoadSources NoLostWakeup OpsCounted
PROPERTIES RetiresInOrder TraceRetires
