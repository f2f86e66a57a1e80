\* Every fill level, at every place of the wrap, with repeated addresses.
SPECIFICATION Spec
CONSTANTS
    Packet = {p1, p2, p3}
    Empty = Empty
    Size = 4
INVARIANTS TypeOK SlotsMatch
PROPERTIES QueueSpec
