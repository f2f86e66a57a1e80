--------------------------- MODULE BallPlacement ---------------------------
(***************************************************************************)
(* What the bucket experiment promises about where its balls are: balls    *)
(* are taken out and put back one at a time, two balls may trade places,   *)
(* and no bucket ever takes a ball beyond its capacity.  How a bucket with *)
(* room is found is left to BucketModel, which implements this module.     *)
(***************************************************************************)
EXTENDS Integers, FiniteSets

CONSTANTS Ball, Bucket, Capacity, NoBucket

VARIABLE place     \* the bucket of each ball, NoBucket while the ball is out

Load(i) == Cardinality({b \in Ball : place[b] = i})

Init == place = [b \in Ball |-> NoBucket]

Put(b, i) ==
    /\ place[b] = NoBucket
    /\ Load(i) < Capacity
    /\ place' = [place EXCEPT ![b] = i]

Take(b) ==
    /\ place[b] # NoBucket
    /\ place' = [place EXCEPT ![b] = NoBucket]

\* Ball b leaves and ball c takes its place.
Replace(b, c) ==
    /\ place[b] # NoBucket /\ place[c] # NoBucket
    /\ place' = [place EXCEPT ![b] = NoBucket, ![c] = place[b]]

Trade(b, c) ==
    /\ place[b] # NoBucket /\ place[c] # NoBucket
    /\ place' = [place EXCEPT ![b] = place[c], ![c] = place[b]]

Next ==
    \E b \in Ball :
        \/ Take(b)
        \/ \E i \in Bucket : Put(b, i)
        \/ \E c \in Ball \ {b} : Replace(b, c) \/ Trade(b, c)

Spec == Init /\ [][Next]_place
=============================================================================
