---------------------------- MODULE BucketModel ----------------------------
(***************************************************************************)
(* The buckets-and-balls experiment behind the security argument for Maya. *)
(* A bucket is a tag set, a ball a tag: the balls of balls[] have data     *)
(* (priority 1), those of balls0[] do not.  A round throws a priority-0    *)
(* ball, lets one ball of each priority trade places, and throws a         *)
(* priority-1 ball.  A throw goes to the less loaded of one random bucket  *)
(* per skew; a ball that finds it full is spilled from skew to skew until  *)
(* a bucket has room.                                                      *)
(***************************************************************************)
EXTENDS Integers, FiniteSets

CONSTANTS
    Skew0, Skew1,     \* the buckets of each skew
    Ball1, Ball0,     \* the indices of balls[] and of balls0[]
    SpillThreshold,   \* SPILL_THRESHOLD
    NoBucket, NoBall

Bucket == Skew0 \cup Skew1
Ball == Ball1 \cup Ball0

\* SPILL_THRESHOLD is at least the number of balls per bucket.
ASSUME BucketAssumption ==
    /\ \A S \in {Skew0, Skew1, Ball1, Ball0} : IsFiniteSet(S) /\ S # {}
    /\ Skew0 \cap Skew1 = {} /\ Ball1 \cap Ball0 = {}
    /\ SpillThreshold \in Nat
    /\ Cardinality(Ball) <= SpillThreshold * Cardinality(Bucket)
    /\ NoBucket \notin Bucket /\ NoBall \notin Ball

VARIABLES
    at,          \* balls and balls0: the bucket of a ball
    count,       \* count[1] is bucket, count[0] is bucket0
    phase,       \* the next call of main
    hand,        \* the ball being thrown
    spillFrom,   \* index in the loop of spill_ball, NoBucket outside it
    initDone,    \* init_buckets_done
    observed     \* an entry of bucket_fill_observed was counted

vars == <<at, count, phase, hand, spillFrom, initDone, observed>>

Phases == {"init0", "init1", "remove0", "insert0", "trade", "remove1", "insert1"}

\* Operators named Faulty... are what a slip in the code would make of the definition that
\* follows them; no specification uses them.

TypeOK ==
    /\ at \in [Ball -> Bucket \cup {NoBucket}]
    /\ count \in [{0, 1} -> [Bucket -> Nat]]
    /\ phase \in Phases
    /\ hand \in Ball \cup {NoBall}
    /\ spillFrom \in Bucket \cup {NoBucket}
    /\ initDone \in BOOLEAN /\ observed \in BOOLEAN

Init ==
    /\ at = [b \in Ball |-> NoBucket]
    /\ count = [p \in {0, 1} |-> [i \in Bucket |-> 0]]
    /\ phase = "init0"
    /\ hand = NoBall
    /\ spillFrom = NoBucket
    /\ initDone = FALSE
    /\ observed = FALSE

Priority(b) == IF b \in Ball1 THEN 1 ELSE 0
Load(i) == count[1][i] + count[0][i]
OtherSkew(i) == IF i \in Skew0 THEN Skew1 ELSE Skew0

\* Load-aware skew selection; a tie goes either way.
LessLoaded(i, j) == {k \in {i, j} : Load(k) <= Load(i) /\ Load(k) <= Load(j)}

FaultySpills(k) == Load(k) > SpillThreshold
Spills(k) == Load(k) >= SpillThreshold

AfterThrow(p) ==
    CASE p = "insert0" -> "trade" [] p = "insert1" -> "remove0" [] OTHER -> p

-----------------------------------------------------------------------------
\* insert_ball, up to the loop of spill_ball: a spilled ball is counted and discounted
\* again in the full bucket.
InsertBall(b) ==
    \E i \in Skew0, j \in Skew1 : \E k \in LessLoaded(i, j) :
        /\ at' = [at EXCEPT ![b] = k]
        /\ IF Spills(k)
             THEN /\ spillFrom' = k
                  /\ hand' = b
                  /\ UNCHANGED <<count, phase>>
             ELSE /\ count' = [count EXCEPT ![Priority(b)][k] = @ + 1]
                  /\ hand' = NoBall
                  /\ phase' = AfterThrow(phase)
                  /\ UNCHANGED spillFrom
        /\ observed' = (observed \/ initDone)
        /\ UNCHANGED initDone

\* init_buckets inserts the balls of one priority in turn.
InitInsert(b) ==
    /\ phase = IF Priority(b) = 1 THEN "init1" ELSE "init0"
    /\ spillFrom = NoBucket
    /\ at[b] = NoBucket
    /\ InsertBall(b)

FaultyPlaced(p) == \E b \in Ball : Priority(b) = p /\ at[b] # NoBucket
Placed(p) == \A b \in Ball : Priority(b) = p => at[b] # NoBucket

EndInit(p) ==
    /\ phase = IF p = 1 THEN "init1" ELSE "init0"
    /\ spillFrom = NoBucket
    /\ Placed(p)
    /\ phase' = IF p = 1 THEN "remove0" ELSE "init1"
    /\ initDone' = TRUE
    /\ UNCHANGED <<at, count, hand, spillFrom, observed>>

\* One iteration of the loop in spill_ball: a random bucket of the other skew has room ...
SpillPlace ==
    /\ spillFrom # NoBucket
    /\ \E i \in OtherSkew(spillFrom) :
          /\ ~Spills(i)
          /\ count' = [count EXCEPT ![Priority(hand)][i] = @ + 1]
          /\ at' = [at EXCEPT ![hand] = i]
    /\ spillFrom' = NoBucket
    /\ hand' = NoBall
    /\ phase' = AfterThrow(phase)
    /\ UNCHANGED <<initDone, observed>>

FaultyGoesOnAt(i) == spillFrom
GoesOnAt(i) == i

\* ... or is full itself.
SpillMove ==
    /\ spillFrom # NoBucket
    /\ \E i \in OtherSkew(spillFrom) :
          /\ Spills(i)
          /\ spillFrom' = GoesOnAt(i)
    /\ UNCHANGED <<at, count, phase, hand, initDone, observed>>

-----------------------------------------------------------------------------
\* remove_ball(0)
Remove0(b) ==
    /\ phase = "remove0"
    /\ at' = [at EXCEPT ![b] = NoBucket]
    /\ count' = [count EXCEPT ![0][at[b]] = @ - 1]
    /\ hand' = b
    /\ phase' = "insert0"
    /\ UNCHANGED <<spillFrom, initDone, observed>>

\* bucket0 and bucket after a step, and a counter array when a ball goes from i to j.
Counts(n0, n1) == [p \in {0, 1} |-> IF p = 0 THEN n0 ELSE n1]
Moved(n, i, j) == [[n EXCEPT ![i] = @ - 1] EXCEPT ![j] = @ + 1]

FaultyReplaced(b, c) ==
    Counts([count[0] EXCEPT ![at[b]] = @ + 1], [count[1] EXCEPT ![at[b]] = @ - 1])
FaultyVacated(b, c) ==
    Counts([count[0] EXCEPT ![at[c]] = @ - 1], [count[1] EXCEPT ![at[b]] = @ - 1])

\* Ball c of balls0 stands where ball b of balls was.
Replaced(b, c) == Counts(Moved(count[0], at[c], at[b]), [count[1] EXCEPT ![at[b]] = @ - 1])

\* remove_ball(1): the ball's place is taken by a ball of priority 0.
Remove1(b) ==
    /\ phase = "remove1"
    /\ \E c \in Ball0 :
          /\ at' = [at EXCEPT ![b] = NoBucket, ![c] = at[b]]
          /\ count' = Replaced(b, c)
    /\ hand' = b
    /\ phase' = "insert1"
    /\ UNCHANGED <<spillFrom, initDone, observed>>

ThrowInsert ==
    /\ phase \in {"insert0", "insert1"}
    /\ spillFrom = NoBucket
    /\ InsertBall(hand)

\* upgrade_and_downgrade: ball c of balls0 and ball b of balls trade places.
Trade(b, c) ==
    /\ phase = "trade"
    /\ at' = [at EXCEPT ![c] = at[b], ![b] = at[c]]
    /\ count' = Counts(Moved(count[0], at[c], at[b]), Moved(count[1], at[b], at[c]))
    /\ phase' = "remove1"
    /\ UNCHANGED <<hand, spillFrom, initDone, observed>>

Next ==
    \/ \E b \in Ball : InitInsert(b)
    \/ \E p \in {0, 1} : EndInit(p)
    \/ \E b \in Ball0 : Remove0(b)
    \/ \E b \in Ball1 : Remove1(b) \/ \E c \in Ball0 : Trade(b, c)
    \/ ThrowInsert
    \/ SpillPlace
    \/ SpillMove

Spec == Init /\ [][Next]_vars

\* The program runs on, and random draws do not miss a bucket with room for ever.
FairSpec == Spec /\ WF_vars(Next) /\ SF_vars(SpillPlace)

-----------------------------------------------------------------------------
(* Properties *)

\* The ball a spill is moving is in no bucket, though balls[] still names the full one.
Moving(b) == spillFrom # NoBucket /\ b = hand
InBucket(p, i) == {b \in Ball : Priority(b) = p /\ at[b] = i /\ ~Moving(b)}

\* bucket and bucket0 count the balls that balls and balls0 place in each bucket; with
\* OnlyHandOut, no ball is lost and the totals are those sanity_check compares.
CountsMatch == \A p \in {0, 1} : \A i \in Bucket : count[p][i] = Cardinality(InBucket(p, i))

\* No bucket is fuller than the spill threshold: the assert in spill_ball holds, and as
\* SPILL_THRESHOLD is at most 17, no statistic is counted beyond MAX_FILL.
LoadBounded == \A i \in Bucket : Load(i) <= SpillThreshold

\* Only the ball in hand is out of its bucket once the buckets are initialised: the asserts
\* of remove_ball, insert_ball and upgrade_and_downgrade hold.
OnlyHandOut ==
    phase \notin {"init0", "init1"} =>
        \A b \in Ball : at[b] = NoBucket <=>
            (phase \in {"insert0", "insert1"} /\ spillFrom = NoBucket /\ b = hand)

\* Every spill ends, so the rounds go on for ever.
RoundsGoOn == []<>(phase = "trade")

\* The ball that is spilled counts as out of its bucket.
Placement ==
    INSTANCE BallPlacement
    WITH place <- [b \in Ball |-> IF Moving(b) THEN NoBucket ELSE at[b]],
         Capacity <- SpillThreshold
PlacementSpec == Placement!Spec

\* What the comment on init_buckets_done says: the statistics leave out initialization.
ObservedAfterInit == observed => phase \notin {"init0", "init1"}

=============================================================================
