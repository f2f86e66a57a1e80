\* As many balls as the buckets hold: every throw may have to search for the one free place.
SPECIFICATION FairSpec
CONSTANTS
    Skew0 = {p1, p2}
    Skew1 = {q1, q2}
    Ball1 = {x1, x2, x3, x4}
    Ball0 = {y1, y2, y3, y4}
    SpillThreshold = 2
    NoBucket = NoBucket
    NoBall = NoBall
INVARIANTS TypeOK CountsMatch LoadBounded OnlyHandOut
PROPERTIES PlacementSpec RoundsGoOn
