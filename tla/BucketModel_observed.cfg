\* What the comment on init_buckets_done says of the statistics.
SPECIFICATION Spec
CONSTANTS
    Skew0 = {p1, p2}
    Skew1 = {q1, q2}
    Ball1 = {x1, x2, x3, x4}
    Ball0 = {y1, y2, y3, y4}
    SpillThreshold = 2
    NoBucket = NoBucket
    NoBall = NoBall
INVARIANTS ObservedAfterInit
