------------------------- MODULE BucketModel_proofs -------------------------
(***************************************************************************)
(* The bucket experiment keeps its books right and implements              *)
(* BallPlacement, for every number of buckets and balls.  The inductive    *)
(* invariant adds to the properties which ball a step may move: the one    *)
(* that is spilled, or the one that remove_ball has just taken out.        *)
(***************************************************************************)
EXTENDS BucketModel, FiniteSetTheorems, TLAPS

SpillPhases == {"init0", "init1", "insert0", "insert1"}

HandKnown ==
    /\ spillFrom # NoBucket =>
          hand \in Ball /\ at[hand] # NoBucket /\ phase \in SpillPhases
    /\ phase \in {"insert0", "insert1"} => hand \in Ball
    /\ phase = "init1" => Placed(0)

IInv == TypeOK /\ CountsMatch /\ LoadBounded /\ OnlyHandOut /\ HandKnown

-----------------------------------------------------------------------------
(* Lemmas about the operators *)

LEMMA PriorityType ==
    /\ \A b \in Ball : Priority(b) \in {0, 1}
    /\ \A b \in Ball1 : b \in Ball /\ Priority(b) = 1
    /\ \A b \in Ball0 : b \in Ball /\ Priority(b) = 0
    /\ \A b \in Ball1, c \in Ball0 : b # c
BY BucketAssumption DEF Priority, Ball

LEMMA BucketsFinite == IsFiniteSet(Ball)
BY BucketAssumption, FS_Union DEF Ball

LEMMA SkewsAreBuckets ==
    /\ Skew0 \subseteq Bucket /\ Skew1 \subseteq Bucket
    /\ \A i : OtherSkew(i) \subseteq Bucket
    /\ NoBucket \notin Bucket
BY BucketAssumption DEF Bucket, OtherSkew

\* A set of balls that gains or loses a ball.
LEMMA OneBallMore ==
    ASSUME NEW S \in SUBSET Ball, NEW b \in Ball
    PROVE  /\ Cardinality(S) \in Nat
           /\ b \notin S => Cardinality(S \cup {b}) = Cardinality(S) + 1
           /\ b \in S => Cardinality(S \ {b}) = Cardinality(S) - 1 /\ Cardinality(S) > 0
<1>1. IsFiniteSet(S)
  BY BucketsFinite, FS_Subset
<1>2. Cardinality(S) \in Nat /\ (Cardinality(S) = 0 <=> S = {})
  BY <1>1, FS_CardinalityType, FS_EmptySet
<1>3. b \notin S => Cardinality(S \cup {b}) = Cardinality(S) + 1
  BY <1>1, FS_AddElement
<1>4. b \in S => Cardinality(S \ {b}) = Cardinality(S) - 1
  BY <1>1, FS_RemoveElement
<1>. QED BY <1>2, <1>3, <1>4

\* The less loaded bucket of a throw, and a bucket where a spill may stop, are buckets.
LEMMA ThrowTargets ==
    ASSUME NEW i \in Skew0, NEW j \in Skew1, NEW k \in LessLoaded(i, j)
    PROVE  k \in Bucket
BY SkewsAreBuckets DEF LessLoaded

-----------------------------------------------------------------------------
(* The counters *)

\* One ball of priority p enters bucket k.
LEMMA CountsGain ==
    ASSUME TypeOK, CountsMatch, NEW b \in Ball, NEW k \in Bucket,
           \A p \in {0, 1} : b \notin InBucket(p, k),
           count' = [count EXCEPT ![Priority(b)][k] = @ + 1],
           \A p \in {0, 1} : \A i \in Bucket :
              InBucket(p, i)' = IF p = Priority(b) /\ i = k THEN InBucket(p, i) \cup {b}
                                                            ELSE InBucket(p, i)
    PROVE  CountsMatch'
<1>. SUFFICES ASSUME NEW p \in {0, 1}, NEW i \in Bucket
              PROVE  count'[p][i] = Cardinality(InBucket(p, i)')
  BY DEF CountsMatch
<1>1. InBucket(p, i) \in SUBSET Ball /\ count[p][i] = Cardinality(InBucket(p, i))
  BY DEF InBucket, CountsMatch
<1>2. Priority(b) \in {0, 1}
  BY PriorityType
<1>3. count'[p][i] = IF p = Priority(b) /\ i = k THEN count[p][i] + 1 ELSE count[p][i]
  BY <1>2 DEF TypeOK
<1>. QED BY <1>1, <1>3, OneBallMore

LEMMA CountsUnchanged ==
    ASSUME CountsMatch, count' = count,
           \A p \in {0, 1} : \A i \in Bucket : InBucket(p, i)' = InBucket(p, i)
    PROVE  CountsMatch'
BY DEF CountsMatch

\* A counter of a bucket that holds a ball is positive.
LEMMA CountPositive ==
    ASSUME TypeOK, CountsMatch, NEW b \in Ball, at[b] # NoBucket, spillFrom = NoBucket
    PROVE  at[b] \in Bucket /\ count[Priority(b)][at[b]] > 0
<1>1. at[b] \in Bucket /\ Priority(b) \in {0, 1}
  BY PriorityType DEF TypeOK
<1>2. b \in InBucket(Priority(b), at[b])
  BY DEF InBucket, Moving
<1>3. InBucket(Priority(b), at[b]) \in SUBSET Ball
  BY DEF InBucket
<1>. QED BY <1>1, <1>2, <1>3, OneBallMore DEF CountsMatch

-----------------------------------------------------------------------------
(* The steps *)

\* insert_ball on a ball that is out of its bucket.
LEMMA InsertKeepsBooks ==
    ASSUME TypeOK, CountsMatch, LoadBounded, spillFrom = NoBucket,
           NEW b \in Ball, at[b] = NoBucket, InsertBall(b)
    PROVE  TypeOK' /\ CountsMatch' /\ LoadBounded'
<1>1. PICK i \in Skew0, j \in Skew1 : \E k \in LessLoaded(i, j) :
        /\ at' = [at EXCEPT ![b] = k]
        /\ IF Spills(k)
             THEN /\ spillFrom' = k
                  /\ hand' = b
                  /\ UNCHANGED <<count, phase>>
             ELSE /\ count' = [count EXCEPT ![Priority(b)][k] = @ + 1]
                  /\ hand' = NoBall
                  /\ phase' = AfterThrow(phase)
                  /\ UNCHANGED spillFrom
        /\ observed' = (observed \/ initDone)
        /\ UNCHANGED initDone
  BY DEF InsertBall
<1>2. PICK k \in LessLoaded(i, j) :
        /\ at' = [at EXCEPT ![b] = k]
        /\ IF Spills(k)
             THEN /\ spillFrom' = k
                  /\ hand' = b
                  /\ UNCHANGED <<count, phase>>
             ELSE /\ count' = [count EXCEPT ![Priority(b)][k] = @ + 1]
                  /\ hand' = NoBall
                  /\ phase' = AfterThrow(phase)
                  /\ UNCHANGED spillFrom
        /\ observed' = (observed \/ initDone)
        /\ UNCHANGED initDone
  BY <1>1
<1>3. k \in Bucket /\ k # NoBucket
  BY ThrowTargets, SkewsAreBuckets
<1>4. at' \in [Ball -> Bucket \cup {NoBucket}] /\ AfterThrow(phase) \in Phases
  BY <1>2, <1>3 DEF TypeOK, AfterThrow, Phases
<1>5. observed' \in BOOLEAN /\ initDone' \in BOOLEAN
  BY <1>2, Zenon DEF TypeOK
<1>6. \A p \in {0, 1} : b \notin InBucket(p, k)
  BY <1>3 DEF InBucket
<1>7. Priority(b) \in {0, 1}
  BY PriorityType
<1>8. CASE Spills(k)
  <2>1. \A p \in {0, 1} : \A x \in Bucket : InBucket(p, x)' = InBucket(p, x)
    BY <1>2, <1>3, <1>8, SkewsAreBuckets DEF InBucket, Moving, TypeOK, Priority
  <2>2. CountsMatch'
    BY <1>2, <1>8, <2>1, CountsUnchanged
  <2>3. TypeOK'
    BY <1>2, <1>3, <1>4, <1>5, <1>8 DEF TypeOK
  <2>4. LoadBounded'
    BY <1>2, <1>8 DEF LoadBounded, Load
  <2>. QED BY <2>2, <2>3, <2>4
<1>9. CASE ~Spills(k)
  <2>1. \A p \in {0, 1} : \A x \in Bucket :
          InBucket(p, x)' = IF p = Priority(b) /\ x = k THEN InBucket(p, x) \cup {b}
                                                        ELSE InBucket(p, x)
    BY <1>2, <1>3, <1>9, SkewsAreBuckets DEF InBucket, Moving, TypeOK, Priority
  <2>2. CountsMatch'
    BY <1>2, <1>3, <1>6, <1>9, <2>1, CountsGain
  <2>3. TypeOK'
    BY <1>2, <1>3, <1>4, <1>5, <1>7, <1>9 DEF TypeOK
  <2>4. LoadBounded'
    BY <1>2, <1>3, <1>7, <1>9, BucketAssumption DEF TypeOK, LoadBounded, Load, Spills
  <2>. QED BY <2>2, <2>3, <2>4
<1>. QED BY <1>8, <1>9

LEMMA SpillPlaceKeepsBooks ==
    ASSUME TypeOK, CountsMatch, LoadBounded, HandKnown, SpillPlace
    PROVE  TypeOK' /\ CountsMatch' /\ LoadBounded'
<1>1. PICK i \in OtherSkew(spillFrom) :
        /\ ~Spills(i)
        /\ count' = [count EXCEPT ![Priority(hand)][i] = @ + 1]
        /\ at' = [at EXCEPT ![hand] = i]
  BY DEF SpillPlace
<1>2. i \in Bucket /\ hand \in Ball /\ Priority(hand) \in {0, 1}
  BY SkewsAreBuckets, PriorityType DEF SpillPlace, HandKnown
<1>3. /\ spillFrom # NoBucket /\ spillFrom' = NoBucket
      /\ hand' = NoBall /\ phase' = AfterThrow(phase)
      /\ UNCHANGED <<initDone, observed>>
  BY DEF SpillPlace
<1>4. \A p \in {0, 1} : hand \notin InBucket(p, i)
  BY <1>3 DEF InBucket, Moving
<1>5. \A p \in {0, 1} : \A x \in Bucket :
        InBucket(p, x)' = IF p = Priority(hand) /\ x = i THEN InBucket(p, x) \cup {hand}
                                                         ELSE InBucket(p, x)
  BY <1>1, <1>2, <1>3, SkewsAreBuckets DEF InBucket, Moving, TypeOK, Priority
<1>6. CountsMatch'
  BY <1>1, <1>2, <1>4, <1>5, CountsGain
<1>7. AfterThrow(phase) \in Phases
  BY DEF TypeOK, AfterThrow, Phases
<1>8. TypeOK'
  BY <1>1, <1>2, <1>3, <1>7 DEF TypeOK
<1>9. LoadBounded'
  BY <1>1, <1>2, BucketAssumption DEF TypeOK, LoadBounded, Load, Spills
<1>. QED BY <1>6, <1>8, <1>9

\* What the counters count, as functions, outside a spill.
Contents(p) == [i \in Bucket |-> InBucket(p, i)]

LEMMA ContentsCounted ==
    ASSUME TypeOK, CountsMatch, spillFrom = NoBucket, NEW p \in {0, 1}
    PROVE  /\ count[p] \in [Bucket -> Nat]
           /\ Contents(p) \in [Bucket -> SUBSET Ball]
           /\ \A i \in Bucket : count[p][i] = Cardinality(Contents(p)[i])
           /\ \A i \in Bucket : Contents(p)[i] = {x \in Ball : Priority(x) = p /\ at[x] = i}
           /\ \A x \in Ball : Priority(x) = p =>
                 \A i \in Bucket : x \in Contents(p)[i] <=> i = at[x]
BY DEF TypeOK, CountsMatch, Contents, InBucket, Moving

\* Bucket i once ball x of priority p stands in bucket t.
WithBall(p, i, x, t) == IF i = t THEN Contents(p)[i] \cup {x} ELSE Contents(p)[i] \ {x}

\* A ball that goes from its bucket to bucket t moves one unit between their counters.
LEMMA BallMoves ==
    ASSUME TypeOK, CountsMatch, spillFrom = NoBucket,
           NEW x \in Ball, NEW p \in {0, 1}, p = Priority(x),
           NEW f \in Bucket, f = at[x], NEW t \in Bucket
    PROVE  /\ Moved(count[p], f, t) \in [Bucket -> Nat]
           /\ \A i \in Bucket : Moved(count[p], f, t)[i] = Cardinality(WithBall(p, i, x, t))
<1> DEFINE n == count[p]
           m == Moved(n, f, t)
<1>1. n \in [Bucket -> Nat]
  BY ContentsCounted
<1>2. \A i \in Bucket : m[i] = IF i = f THEN IF i = t THEN n[i] ELSE n[i] - 1
                                        ELSE IF i = t THEN n[i] + 1 ELSE n[i]
  BY <1>1 DEF Moved
<1>3. m = [i \in Bucket |-> m[i]]
  BY <1>1 DEF Moved
<1>. HIDE DEF m
<1>4. ASSUME NEW i \in Bucket
      PROVE  /\ m[i] \in Nat
             /\ m[i] = Cardinality(WithBall(p, i, x, t))
  <2> DEFINE S == Contents(p)[i]
  <2>1. S \in SUBSET Ball /\ n[i] = Cardinality(S) /\ n[i] \in Nat /\ (x \in S <=> i = f)
    BY ContentsCounted
  <2>. HIDE DEF S, n
  <2>2. CASE i = f
    <3>1. S \cup {x} = S
      BY <2>1, <2>2
    <3>2. Cardinality(S \ {x}) = n[i] - 1 /\ n[i] > 0
      BY <2>1, <2>2, OneBallMore
    <3>3. Cardinality(S \cup {x}) = n[i]
      BY <2>1, <3>1
    <3>. QED BY <1>2, <2>1, <2>2, <3>2, <3>3 DEF S, WithBall
  <2>3. CASE i # f
    <3>1. S \ {x} = S
      BY <2>1, <2>3
    <3>2. Cardinality(S \cup {x}) = n[i] + 1
      BY <2>1, <2>3, OneBallMore
    <3>3. Cardinality(S \ {x}) = n[i]
      BY <2>1, <3>1
    <3>. QED BY <1>2, <2>1, <2>3, <3>2, <3>3 DEF S, WithBall
  <2>. QED BY <2>2, <2>3
<1>5. m \in [Bucket -> Nat]
  BY <1>3, <1>4
<1>. QED BY <1>4, <1>5 DEF m

\* The counter of a bucket that loses a ball.
LEMMA BallLeaves ==
    ASSUME TypeOK, CountsMatch, spillFrom = NoBucket,
           NEW x \in Ball, NEW p \in {0, 1}, p = Priority(x), NEW f \in Bucket, f = at[x]
    PROVE  /\ [count[p] EXCEPT ![f] = @ - 1] \in [Bucket -> Nat]
           /\ \A i \in Bucket :
                 [count[p] EXCEPT ![f] = @ - 1][i] = Cardinality(Contents(p)[i] \ {x})
<1> DEFINE n == count[p]
           m == [n EXCEPT ![f] = @ - 1]
<1>1. n \in [Bucket -> Nat]
  BY ContentsCounted
<1>2. \A i \in Bucket : m[i] = IF i = f THEN n[i] - 1 ELSE n[i]
  BY <1>1
<1>3. m = [i \in Bucket |-> m[i]]
  BY <1>1
<1>. HIDE DEF m
<1>4. ASSUME NEW i \in Bucket PROVE m[i] = Cardinality(Contents(p)[i] \ {x}) /\ m[i] \in Nat
  <2> DEFINE S == Contents(p)[i]
  <2>1. S \in SUBSET Ball /\ n[i] = Cardinality(S) /\ n[i] \in Nat /\ (x \in S <=> i = f)
    BY ContentsCounted
  <2>. HIDE DEF S, n
  <2>2. CASE i = f
    <3>1. Cardinality(S \ {x}) = n[i] - 1 /\ n[i] > 0
      BY <2>1, <2>2, OneBallMore
    <3>. QED BY <1>2, <2>1, <2>2, <3>1 DEF S
  <2>3. CASE i # f
    <3>1. S \ {x} = S
      BY <2>1, <2>3
    <3>. QED BY <1>2, <2>1, <2>3, <3>1 DEF S
  <2>. QED BY <2>2, <2>3
<1>5. m \in [Bucket -> Nat]
  BY <1>3, <1>4
<1>. QED BY <1>4, <1>5 DEF m

LEMMA Remove0KeepsBooks ==
    ASSUME TypeOK, CountsMatch, LoadBounded, spillFrom = NoBucket,
           NEW b \in Ball0, at[b] # NoBucket, Remove0(b)
    PROVE  TypeOK' /\ CountsMatch' /\ LoadBounded'
<1>1. /\ at' = [at EXCEPT ![b] = NoBucket]
      /\ count' = [count EXCEPT ![0][at[b]] = @ - 1]
      /\ hand' = b /\ phase' = "insert0"
      /\ UNCHANGED <<spillFrom, initDone, observed>>
  BY DEF Remove0
<1>2. b \in Ball /\ Priority(b) = 0 /\ at[b] \in Bucket
  BY PriorityType DEF TypeOK
<1> DEFINE m == [count[0] EXCEPT ![at[b]] = @ - 1]
<1>3. m \in [Bucket -> Nat] /\ \A i \in Bucket : m[i] = Cardinality(Contents(0)[i] \ {b})
  <2>. HIDE DEF m
  <2>1. m = [count[0] EXCEPT ![at[b]] = @ - 1]
    BY DEF m
  <2>. QED BY <1>2, <2>1, BallLeaves
<1>4. count' = [count EXCEPT ![0] = m]
  BY <1>1, <1>2 DEF TypeOK
<1>5. \A i \in Bucket : InBucket(0, i)' = Contents(0)[i] \ {b}
  BY <1>1, <1>2, SkewsAreBuckets DEF InBucket, Moving, Contents, TypeOK, Priority
<1>6. \A i \in Bucket : InBucket(1, i)' = InBucket(1, i)
  BY <1>1, <1>2, SkewsAreBuckets DEF InBucket, Moving, TypeOK, Priority
<1>7. count'[0] = m /\ count'[1] = count[1]
  BY <1>4 DEF TypeOK
<1>. HIDE DEF m
<1>8. CountsMatch'
  BY <1>3, <1>5, <1>6, <1>7 DEF CountsMatch
<1>9. TypeOK'
  BY <1>1, <1>2, <1>3, <1>4 DEF TypeOK, Phases
<1>10. LoadBounded'
  <2>1. \A i \in Bucket : m[i] <= count[0][i]
    BY <1>2 DEF m, TypeOK
  <2>. QED BY <1>3, <1>7, <2>1, BucketAssumption DEF LoadBounded, Load, TypeOK
<1>. QED BY <1>8, <1>9, <1>10

LEMMA Remove1KeepsBooks ==
    ASSUME TypeOK, CountsMatch, LoadBounded, spillFrom = NoBucket,
           \A x \in Ball : at[x] # NoBucket,
           NEW b \in Ball1, Remove1(b)
    PROVE  TypeOK' /\ CountsMatch' /\ LoadBounded'
<1>1. PICK c \in Ball0 :
        /\ at' = [at EXCEPT ![b] = NoBucket, ![c] = at[b]]
        /\ count' = Replaced(b, c)
  BY DEF Remove1
<1>2. /\ hand' = b /\ phase' = "insert1"
      /\ UNCHANGED <<spillFrom, initDone, observed>>
  BY DEF Remove1
<1>3. /\ b \in Ball /\ Priority(b) = 1 /\ at[b] \in Bucket
      /\ c \in Ball /\ Priority(c) = 0 /\ at[c] \in Bucket
      /\ b # c
  BY PriorityType DEF TypeOK
<1> DEFINE m1 == [count[1] EXCEPT ![at[b]] = @ - 1]
           m0 == Moved(count[0], at[c], at[b])
<1>. HIDE DEF m0, m1
<1>4. m1 \in [Bucket -> Nat] /\ \A i \in Bucket : m1[i] = Cardinality(Contents(1)[i] \ {b})
  <2>1. m1 = [count[1] EXCEPT ![at[b]] = @ - 1]
    BY DEF m1
  <2>. QED BY <1>3, <2>1, BallLeaves
<1>5. /\ m0 \in [Bucket -> Nat]
      /\ \A i \in Bucket : m0[i] = Cardinality(WithBall(0, i, c, at[b]))
  <2>1. 0 \in {0, 1} /\ 0 = Priority(c)
    BY <1>3
  <2>2. m0 = Moved(count[0], at[c], at[b])
    BY DEF m0
  <2>. QED BY <1>3, <2>1, <2>2, BallMoves
<1>6. count' = [p \in {0, 1} |-> IF p = 0 THEN m0 ELSE m1]
  BY <1>1 DEF Replaced, Counts, m0, m1
<1>7. count'[0] = m0 /\ count'[1] = m1
  BY <1>6
<1>8. \A i \in Bucket : InBucket(1, i)' = Contents(1)[i] \ {b}
  BY <1>1, <1>2, <1>3, SkewsAreBuckets DEF InBucket, Moving, Contents, TypeOK, Priority
<1>9. \A i \in Bucket : InBucket(0, i)' = WithBall(0, i, c, at[b])
  BY <1>1, <1>2, <1>3, SkewsAreBuckets DEF WithBall, InBucket, Moving, Contents, TypeOK, Priority
<1>10. \A i \in Bucket : m1[i] + m0[i] <= count[1][i] + count[0][i]
  BY <1>3 DEF TypeOK, Moved, m0, m1
<1>11. CountsMatch'
  <2>1. \A i \in Bucket : count'[1][i] = Cardinality(InBucket(1, i)')
    BY <1>4, <1>7, <1>8
  <2>2. \A i \in Bucket : count'[0][i] = Cardinality(InBucket(0, i)')
    BY <1>5, <1>7, <1>9
  <2>. QED BY <2>1, <2>2 DEF CountsMatch
<1>12. TypeOK'
  <2>1. at' \in [Ball -> Bucket \cup {NoBucket}]
    BY <1>1, <1>3 DEF TypeOK
  <2>2. count' \in [{0, 1} -> [Bucket -> Nat]]
    BY <1>4, <1>5, <1>6
  <2>. QED BY <1>2, <1>3, <2>1, <2>2 DEF TypeOK, Phases
<1>13. LoadBounded'
  BY <1>4, <1>5, <1>7, <1>10, BucketAssumption DEF LoadBounded, Load, TypeOK
<1>. QED BY <1>11, <1>12, <1>13

LEMMA TradeKeepsBooks ==
    ASSUME TypeOK, CountsMatch, LoadBounded, spillFrom = NoBucket,
           \A x \in Ball : at[x] # NoBucket,
           NEW b \in Ball1, NEW c \in Ball0, Trade(b, c)
    PROVE  TypeOK' /\ CountsMatch' /\ LoadBounded'
<1>1. /\ at' = [at EXCEPT ![c] = at[b], ![b] = at[c]]
      /\ phase' = "remove1"
      /\ UNCHANGED <<hand, spillFrom, initDone, observed>>
  BY DEF Trade
<1>2. /\ b \in Ball /\ Priority(b) = 1 /\ at[b] \in Bucket
      /\ c \in Ball /\ Priority(c) = 0 /\ at[c] \in Bucket
      /\ b # c
  BY PriorityType DEF TypeOK
<1> DEFINE m1 == Moved(count[1], at[b], at[c])
           m0 == Moved(count[0], at[c], at[b])
<1>. HIDE DEF m0, m1
<1>3. /\ m1 \in [Bucket -> Nat]
      /\ \A i \in Bucket : m1[i] = Cardinality(WithBall(1, i, b, at[c]))
  <2>1. 1 \in {0, 1} /\ 1 = Priority(b)
    BY <1>2
  <2>2. m1 = Moved(count[1], at[b], at[c])
    BY DEF m1
  <2>. QED BY <1>2, <2>1, <2>2, BallMoves
<1>4. /\ m0 \in [Bucket -> Nat]
      /\ \A i \in Bucket : m0[i] = Cardinality(WithBall(0, i, c, at[b]))
  <2>1. 0 \in {0, 1} /\ 0 = Priority(c)
    BY <1>2
  <2>2. m0 = Moved(count[0], at[c], at[b])
    BY DEF m0
  <2>. QED BY <1>2, <2>1, <2>2, BallMoves
<1>5. count' = [p \in {0, 1} |-> IF p = 0 THEN m0 ELSE m1]
  BY DEF Trade, Counts, m0, m1
<1>6. count'[0] = m0 /\ count'[1] = m1
  BY <1>5
<1>7. \A i \in Bucket : InBucket(1, i)' = WithBall(1, i, b, at[c])
  BY <1>1, <1>2, SkewsAreBuckets DEF WithBall, InBucket, Moving, Contents, TypeOK, Priority
<1>8. \A i \in Bucket : InBucket(0, i)' = WithBall(0, i, c, at[b])
  BY <1>1, <1>2, SkewsAreBuckets DEF WithBall, InBucket, Moving, Contents, TypeOK, Priority
<1>9. \A i \in Bucket : m1[i] + m0[i] = count[1][i] + count[0][i]
  BY <1>2 DEF TypeOK, Moved, m0, m1
<1>10. CountsMatch'
  <2>1. \A i \in Bucket : count'[1][i] = Cardinality(InBucket(1, i)')
    BY <1>3, <1>6, <1>7
  <2>2. \A i \in Bucket : count'[0][i] = Cardinality(InBucket(0, i)')
    BY <1>4, <1>6, <1>8
  <2>. QED BY <2>1, <2>2 DEF CountsMatch
<1>11. TypeOK'
  <2>1. at' \in [Ball -> Bucket \cup {NoBucket}]
    BY <1>1, <1>2 DEF TypeOK
  <2>2. count' \in [{0, 1} -> [Bucket -> Nat]]
    BY <1>3, <1>4, <1>5
  <2>. QED BY <1>1, <2>1, <2>2 DEF TypeOK, Phases
<1>12. LoadBounded'
  BY <1>3, <1>4, <1>6, <1>9, BucketAssumption DEF LoadBounded, Load, TypeOK
<1>. QED BY <1>10, <1>11, <1>12

-----------------------------------------------------------------------------
(* The inductive invariant *)

LEMMA InitEstablishesInv == Init => IInv
<1>. SUFFICES ASSUME Init PROVE IInv
  OBVIOUS
<1>1. TypeOK
  <2>1. initDone \in BOOLEAN /\ observed \in BOOLEAN
    BY Zenon DEF Init
  <2>. QED BY <2>1 DEF Init, TypeOK, Phases
<1>2. \A p \in {0, 1} : \A i \in Bucket : InBucket(p, i) = {}
  BY SkewsAreBuckets DEF Init, InBucket
<1>3. Cardinality({}) = 0
  BY FS_EmptySet
<1>4. CountsMatch
  BY <1>2, <1>3 DEF Init, CountsMatch
<1>5. LoadBounded
  BY BucketAssumption DEF Init, LoadBounded, Load
<1>6. OnlyHandOut /\ HandKnown
  BY DEF Init, OnlyHandOut, HandKnown
<1>. QED BY <1>1, <1>4, <1>5, <1>6 DEF IInv

\* insert_ball leaves every other ball where it is.
LEMMA InsertKeepsHand ==
    ASSUME IInv, NEW b \in Ball, at[b] = NoBucket, InsertBall(b), spillFrom = NoBucket,
           phase \in SpillPhases,
           phase \in {"insert0", "insert1"} => b = hand
    PROVE  OnlyHandOut' /\ HandKnown'
<1>1. PICK k \in Bucket :
        /\ at' = [at EXCEPT ![b] = k]
        /\ \/ /\ spillFrom' = k /\ hand' = b
              /\ phase' = phase
           \/ /\ spillFrom' = NoBucket
              /\ phase' = AfterThrow(phase)
  BY ThrowTargets DEF InsertBall
<1>2. k # NoBucket /\ at'[b] = k /\ \A x \in Ball : x # b => at'[x] = at[x]
  BY <1>1, SkewsAreBuckets DEF IInv, TypeOK
<1>3. phase \in {"init0", "init1"} => AfterThrow(phase) = phase
  BY DEF AfterThrow
<1>4. phase \in {"insert0", "insert1"} => AfterThrow(phase) \in {"trade", "remove0"}
  BY DEF AfterThrow
<1>5. OnlyHandOut'
  BY <1>1, <1>2, <1>3, <1>4 DEF IInv, OnlyHandOut, SpillPhases
<1>6. HandKnown'
  BY <1>1, <1>2, <1>3, <1>4 DEF IInv, HandKnown, SpillPhases, Placed, Priority
<1>. QED BY <1>5, <1>6

LEMMA NextKeepsInv == IInv /\ [Next]_vars => IInv'
<1>. SUFFICES ASSUME IInv, [Next]_vars PROVE IInv'
  OBVIOUS
<1>1. ASSUME NEW b \in Ball, InitInsert(b) PROVE IInv'
  <2>1. /\ spillFrom = NoBucket /\ at[b] = NoBucket /\ InsertBall(b)
        /\ phase \in {"init0", "init1"}
    BY <1>1 DEF InitInsert
  <2>2. OnlyHandOut' /\ HandKnown'
    BY <2>1, InsertKeepsHand DEF SpillPhases
  <2>. QED BY <2>1, <2>2, InsertKeepsBooks DEF IInv
<1>2. ASSUME NEW p \in {0, 1}, EndInit(p) PROVE IInv'
  <2>1. /\ UNCHANGED <<at, count, hand, spillFrom, observed>> /\ initDone' = TRUE
        /\ spillFrom = NoBucket /\ Placed(p)
        /\ \/ p = 1 /\ phase = "init1" /\ phase' = "remove0"
           \/ p = 0 /\ phase = "init0" /\ phase' = "init1"
    BY <1>2 DEF EndInit
  <2>2. TypeOK'
    BY <2>1 DEF IInv, TypeOK, Phases
  <2>3. CountsMatch' /\ LoadBounded'
    BY <2>1 DEF IInv, CountsMatch, LoadBounded, Load, InBucket, Moving
  <2>4. OnlyHandOut'
    BY <2>1, PriorityType DEF IInv, OnlyHandOut, HandKnown, Placed
  <2>5. HandKnown'
    BY <2>1 DEF HandKnown, Placed
  <2>. QED BY <2>2, <2>3, <2>4, <2>5 DEF IInv
<1>3. ASSUME ThrowInsert PROVE IInv'
  <2>1. /\ spillFrom = NoBucket /\ InsertBall(hand) /\ hand \in Ball /\ at[hand] = NoBucket
        /\ phase \in {"insert0", "insert1"}
    BY <1>3 DEF ThrowInsert, IInv, HandKnown, OnlyHandOut
  <2>2. OnlyHandOut' /\ HandKnown'
    BY <2>1, InsertKeepsHand DEF SpillPhases
  <2>. QED BY <2>1, <2>2, InsertKeepsBooks DEF IInv
<1>4. ASSUME SpillPlace PROVE IInv'
  <2>1. PICK i \in Bucket : at' = [at EXCEPT ![hand] = i]
    BY <1>4, SkewsAreBuckets DEF SpillPlace
  <2>2. /\ hand \in Ball /\ phase \in SpillPhases /\ spillFrom # NoBucket
        /\ spillFrom' = NoBucket /\ phase' = AfterThrow(phase)
    BY <1>4 DEF SpillPlace, IInv, HandKnown
  <2>3. i # NoBucket /\ at'[hand] = i /\ \A x \in Ball : x # hand => at'[x] = at[x]
    BY <2>1, <2>2, SkewsAreBuckets DEF IInv, TypeOK
  <2>4. /\ phase \in {"init0", "init1"} => AfterThrow(phase) = phase
        /\ phase \in {"insert0", "insert1"} => AfterThrow(phase) \in {"trade", "remove0"}
    BY DEF AfterThrow
  <2>5. OnlyHandOut'
    BY <2>2, <2>3, <2>4 DEF IInv, OnlyHandOut, SpillPhases
  <2>6. HandKnown'
    BY <2>2, <2>3, <2>4 DEF IInv, HandKnown, SpillPhases, Placed, Priority
  <2>. QED BY <1>4, <2>5, <2>6, SpillPlaceKeepsBooks DEF IInv
<1>5. ASSUME SpillMove PROVE IInv'
  <2>1. PICK i \in Bucket : spillFrom' = i
    BY <1>5, SkewsAreBuckets DEF SpillMove, GoesOnAt
  <2>2. /\ UNCHANGED <<at, count, phase, hand, initDone, observed>>
        /\ spillFrom # NoBucket /\ i # NoBucket
    BY <1>5, <2>1, SkewsAreBuckets DEF SpillMove
  <2>3. TypeOK' /\ LoadBounded'
    BY <2>1, <2>2 DEF IInv, TypeOK, LoadBounded, Load
  <2>4. CountsMatch'
    BY <2>1, <2>2 DEF IInv, CountsMatch, InBucket, Moving
  <2>5. OnlyHandOut' /\ HandKnown'
    BY <2>1, <2>2 DEF IInv, OnlyHandOut, HandKnown, Placed
  <2>. QED BY <2>3, <2>4, <2>5 DEF IInv
\* The remaining calls start with every ball in a bucket.
<1>6. phase \in {"remove0", "trade", "remove1"} =>
        spillFrom = NoBucket /\ \A x \in Ball : at[x] # NoBucket
  BY DEF IInv, HandKnown, OnlyHandOut, SpillPhases
<1>7. ASSUME NEW b \in Ball0, Remove0(b) PROVE IInv'
  <2>1. /\ at' = [at EXCEPT ![b] = NoBucket] /\ hand' = b /\ phase' = "insert0"
        /\ spillFrom' = spillFrom /\ phase = "remove0" /\ b \in Ball
    BY <1>7, PriorityType DEF Remove0
  <2>2. OnlyHandOut' /\ HandKnown'
    BY <1>6, <2>1 DEF IInv, TypeOK, OnlyHandOut, HandKnown
  <2>. QED BY <1>6, <1>7, <2>1, <2>2, Remove0KeepsBooks DEF IInv
<1>8. ASSUME NEW b \in Ball1, Remove1(b) PROVE IInv'
  <2>1. /\ hand' = b /\ phase' = "insert1" /\ spillFrom' = spillFrom
        /\ phase = "remove1" /\ b \in Ball
    BY <1>8, PriorityType DEF Remove1
  <2>2. PICK c \in Ball0 : at' = [at EXCEPT ![b] = NoBucket, ![c] = at[b]]
    BY <1>8 DEF Remove1
  <2>3. c \in Ball /\ b # c
    BY PriorityType
  <2>4. OnlyHandOut' /\ HandKnown'
    BY <1>6, <2>1, <2>2, <2>3 DEF IInv, TypeOK, OnlyHandOut, HandKnown
  <2>. QED BY <1>6, <1>8, <2>1, <2>4, Remove1KeepsBooks DEF IInv
<1>9. ASSUME NEW b \in Ball1, NEW c \in Ball0, Trade(b, c) PROVE IInv'
  <2>1. /\ at' = [at EXCEPT ![c] = at[b], ![b] = at[c]]
        /\ phase' = "remove1" /\ spillFrom' = spillFrom /\ phase = "trade"
        /\ b \in Ball /\ c \in Ball
    BY <1>9, PriorityType DEF Trade
  <2>2. OnlyHandOut' /\ HandKnown'
    BY <1>6, <2>1 DEF IInv, TypeOK, OnlyHandOut, HandKnown
  <2>. QED BY <1>6, <1>9, <2>1, <2>2, TradeKeepsBooks DEF IInv
<1>10. CASE UNCHANGED vars
  BY <1>10 DEF vars, IInv, TypeOK, CountsMatch, LoadBounded, OnlyHandOut, HandKnown, Load,
               InBucket, Moving, Placed
<1>. QED BY <1>1, <1>2, <1>3, <1>4, <1>5, <1>7, <1>8, <1>9, <1>10 DEF Next

LEMMA InvAlways == Spec => []IInv
<1>. QED BY InitEstablishesInv, NextKeepsInv, PTL DEF Spec

-----------------------------------------------------------------------------
(* BucketModel implements BallPlacement *)

Where == [b \in Ball |-> IF Moving(b) THEN NoBucket ELSE at[b]]

\* The two counters of a bucket add up to the balls that stand in it.
LEMMA LoadIsContents ==
    ASSUME TypeOK, CountsMatch, NEW i \in Bucket
    PROVE  Placement!Load(i) = Load(i)
<1>1. {b \in Ball : Where[b] = i} = InBucket(1, i) \cup InBucket(0, i)
  BY SkewsAreBuckets, PriorityType DEF Where, InBucket
<1>2. InBucket(1, i) \cap InBucket(0, i) = {}
  BY DEF InBucket
<1>3. /\ InBucket(1, i) \in SUBSET Ball /\ InBucket(0, i) \in SUBSET Ball
      /\ count[1][i] = Cardinality(InBucket(1, i))
      /\ count[0][i] = Cardinality(InBucket(0, i))
  BY DEF InBucket, CountsMatch
<1>4. IsFiniteSet(InBucket(1, i)) /\ IsFiniteSet(InBucket(0, i))
  BY <1>3, BucketsFinite, FS_Subset
<1>5. Cardinality(InBucket(1, i) \cup InBucket(0, i)) = count[1][i] + count[0][i]
  <2>1. Cardinality({}) = 0
    BY FS_EmptySet
  <2>2. Cardinality(InBucket(1, i) \cup InBucket(0, i)) =
          Cardinality(InBucket(1, i)) + Cardinality(InBucket(0, i))
            - Cardinality(InBucket(1, i) \cap InBucket(0, i))
    BY <1>4, FS_Union
  <2>3. count[1][i] \in Nat /\ count[0][i] \in Nat
    BY DEF TypeOK
  <2>4. Cardinality(InBucket(1, i) \cap InBucket(0, i)) = 0
    BY <1>2, <2>1
  <2>5. Cardinality(InBucket(1, i)) \in Nat /\ Cardinality(InBucket(0, i)) \in Nat
    BY <1>3, <2>3
  <2>6. Cardinality(InBucket(1, i) \cup InBucket(0, i)) =
          Cardinality(InBucket(1, i)) + Cardinality(InBucket(0, i))
    BY <2>2, <2>4, <2>5
  <2>. QED BY <1>3, <2>6
<1>6. \A S : Placement!Cardinality(S) = Cardinality(S)
  BY Zenon DEF Placement!Cardinality, Cardinality
<1>. QED BY <1>1, <1>5, <1>6 DEF Placement!Load, Load, Where

\* A ball that is out of its bucket enters one with room.
LEMMA PutAllowed ==
    ASSUME IInv, NEW b \in Ball, NEW i \in Bucket, ~Spills(i),
           Where[b] = NoBucket, Where' = [Where EXCEPT ![b] = i]
    PROVE  Placement!Next
<1>1. Placement!Load(i) < SpillThreshold
  BY LoadIsContents, BucketAssumption DEF IInv, TypeOK, Spills, Load
<1>2. Placement!Put(b, i)
  BY <1>1 DEF Placement!Put, Where
<1>. QED BY <1>2 DEF Placement!Next

LEMMA StepsImplement == IInv /\ [Next]_vars => [Placement!Next]_Where
<1>. SUFFICES ASSUME IInv, [Next]_vars, Where' # Where PROVE Placement!Next
  OBVIOUS
<1>. USE DEF IInv
<1>1. ASSUME NEW b \in Ball, spillFrom = NoBucket, at[b] = NoBucket, InsertBall(b)
      PROVE  Placement!Next
  <2>1. PICK k \in Bucket :
          /\ at' = [at EXCEPT ![b] = k]
          /\ \/ spillFrom' = k /\ hand' = b
             \/ ~Spills(k) /\ spillFrom' = NoBucket
    BY <1>1, ThrowTargets DEF InsertBall
  <2>2. CASE spillFrom' = k /\ hand' = b
    <3>1. k # NoBucket
      BY SkewsAreBuckets
    <3>2. \A x \in Ball : Where'[x] = Where[x]
      BY <1>1, <2>1, <2>2, <3>1 DEF Where, Moving, TypeOK
    <3>. QED BY <3>2 DEF Where
  <2>3. CASE ~Spills(k) /\ spillFrom' = NoBucket
    <3>1. Where' = [Where EXCEPT ![b] = k] /\ Where[b] = NoBucket
      BY <1>1, <2>1, <2>3 DEF Where, Moving, TypeOK
    <3>. QED BY <2>3, <3>1, PutAllowed
  <2>. QED BY <2>1, <2>2, <2>3
<1>2. ASSUME NEW b \in Ball, InitInsert(b) PROVE Placement!Next
  BY <1>1, <1>2 DEF InitInsert
<1>3. ASSUME NEW p \in {0, 1}, EndInit(p) PROVE FALSE
  BY <1>3 DEF EndInit, Where, Moving
<1>4. CASE ThrowInsert
  BY <1>1, <1>4 DEF ThrowInsert, HandKnown, OnlyHandOut
<1>5. CASE SpillPlace
  <2>1. PICK i \in Bucket : ~Spills(i) /\ at' = [at EXCEPT ![hand] = i]
    BY <1>5, SkewsAreBuckets DEF SpillPlace
  <2>2. hand \in Ball /\ spillFrom # NoBucket /\ spillFrom' = NoBucket
    BY <1>5 DEF SpillPlace, HandKnown
  <2>3. Where[hand] = NoBucket /\ Where' = [Where EXCEPT ![hand] = i]
    BY <2>1, <2>2 DEF Where, Moving, TypeOK
  <2>. QED BY <2>1, <2>2, <2>3, PutAllowed
<1>6. CASE SpillMove
  <2>1. UNCHANGED <<at, hand>> /\ spillFrom # NoBucket /\ spillFrom' # NoBucket
    BY <1>6, SkewsAreBuckets DEF SpillMove, GoesOnAt
  <2>. QED BY <2>1 DEF Where, Moving
\* Outside a spill the balls are where at says.
<1>7. phase \in {"remove0", "trade", "remove1"} =>
        spillFrom = NoBucket /\ \A x \in Ball : at[x] # NoBucket
  BY DEF HandKnown, OnlyHandOut, SpillPhases
<1>8. ASSUME spillFrom = NoBucket, spillFrom' = NoBucket PROVE Where = at /\ Where' = at'
  <2>1. \A x \in Ball : Where[x] = at[x]
    BY <1>8 DEF Where, Moving
  <2>2. \A x \in Ball : Where'[x] = at'[x]
    BY <1>8 DEF Where, Moving
  <2>3. TypeOK'
    BY NextKeepsInv
  <2>. QED BY <2>1, <2>2, <2>3 DEF Where, TypeOK
<1>9. ASSUME NEW b \in Ball0, Remove0(b) PROVE Placement!Next
  <2>1. at' = [at EXCEPT ![b] = NoBucket] /\ spillFrom' = spillFrom /\ phase = "remove0"
    BY <1>9 DEF Remove0
  <2>2. Placement!Take(b)
    BY <1>7, <1>8, <2>1, PriorityType DEF Placement!Take, Where
  <2>. QED BY <2>2, PriorityType DEF Placement!Next
<1>10. ASSUME NEW b \in Ball1, Remove1(b) PROVE Placement!Next
  <2>1. PICK c \in Ball0 : at' = [at EXCEPT ![b] = NoBucket, ![c] = at[b]]
    BY <1>10 DEF Remove1
  <2>2. spillFrom' = spillFrom /\ phase = "remove1"
    BY <1>10 DEF Remove1
  <2>3. b \in Ball /\ c \in Ball \ {b}
    BY PriorityType
  <2>4. Placement!Replace(b, c)
    BY <1>7, <1>8, <2>1, <2>2, <2>3 DEF Placement!Replace, Where
  <2>. QED BY <2>3, <2>4 DEF Placement!Next
<1>11. ASSUME NEW b \in Ball1, NEW c \in Ball0, Trade(b, c) PROVE Placement!Next
  <2>1. /\ at' = [at EXCEPT ![c] = at[b], ![b] = at[c]]
        /\ spillFrom' = spillFrom /\ phase = "trade"
    BY <1>11 DEF Trade
  <2>2. b \in Ball /\ c \in Ball \ {b}
    BY PriorityType
  <2>3. Placement!Trade(c, b)
    BY <1>7, <1>8, <2>1, <2>2 DEF Placement!Trade, Where
  <2>. QED BY <2>2, <2>3 DEF Placement!Next
<1>12. CASE UNCHANGED vars
  BY <1>12 DEF vars, Where, Moving
<1>. QED BY <1>2, <1>3, <1>4, <1>5, <1>6, <1>9, <1>10, <1>11, <1>12 DEF Next

-----------------------------------------------------------------------------
(* The theorems *)

\* Throws, spills, trades and removals keep every variable in its type: a counter is never
\* taken below zero, and no ball is placed anywhere but in a bucket.
THEOREM BucketTypes == Spec => []TypeOK
<1>1. IInv => TypeOK
  BY DEF IInv
<1>. QED BY <1>1, InvAlways, PTL

\* The counters bucket and bucket0 always equal what balls and balls0 say, so the asserts
\* that a counter is not zero hold when remove_ball and upgrade_and_downgrade take a ball.
THEOREM CountsAlwaysMatch == Spec => []CountsMatch
<1>1. IInv => CountsMatch
  BY DEF IInv
<1>. QED BY <1>1, InvAlways, PTL

\* No bucket ever holds more balls than the spill threshold: the assert of spill_ball.
THEOREM LoadAlwaysBounded == Spec => []LoadBounded
<1>1. IInv => LoadBounded
  BY DEF IInv
<1>. QED BY <1>1, InvAlways, PTL

\* Between the calls of a round every ball but the one in hand is in a bucket: the asserts
\* on balls and balls0.
THEOREM OnlyHandEverOut == Spec => []OnlyHandOut
<1>1. IInv => OnlyHandOut
  BY DEF IInv
<1>. QED BY <1>1, InvAlways, PTL

\* Throwing, spilling, removing and trading implement the abstract placement of balls in
\* buckets of bounded capacity.
THEOREM ImplementsPlacement == Spec => PlacementSpec
<1>1. Init => Placement!Init
  BY DEF Init, Placement!Init, Moving
<1>2. IInv /\ [Next]_vars => [Placement!Next]_Where
  BY StepsImplement
<1>. QED BY <1>1, <1>2, InvAlways, PTL DEF Spec, PlacementSpec, Placement!Spec, Where
=============================================================================
