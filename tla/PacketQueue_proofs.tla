------------------------- MODULE PacketQueue_proofs -------------------------
(* The ring of PacketQueue is a bounded queue, for every size and set of packets. *)
EXTENDS PacketQueue, SequenceTheorems, TLAPS

IInv == TypeOK /\ SlotsMatch

-----------------------------------------------------------------------------
(* Places: the k-th packet from the head and the entry it is in *)

LEMMA PlaceInSlot ==
    ASSUME TypeOK, NEW k \in 1 .. Size
    PROVE  Place(k) \in Slot /\ Rank(Place(k)) = k - 1
  BY QueueAssumption DEF TypeOK, Slot, Place, Rank

LEMMA RankInverse ==
    ASSUME TypeOK, NEW i \in Slot
    PROVE  Rank(i) \in 0 .. Size - 1 /\ Place(Rank(i) + 1) = i
  BY QueueAssumption DEF TypeOK, Slot, Place, Rank

\* The walk covers exactly the first occupancy places.
LEMMA InUseIsRank ==
    ASSUME IInv, NEW i \in Slot
    PROVE  i \in InUse <=> Rank(i) < occupancy
<1>1. CASE occupancy = 0
  BY <1>1, RankInverse DEF IInv, InUse
<1>2. CASE occupancy # 0 /\ head < tail
  <2>1. InUse = head .. tail - 1
    BY <1>2 DEF InUse
  <2> QED  BY <1>2, <2>1, QueueAssumption DEF IInv, TypeOK, SlotsMatch, Slot, Rank
<1>3. CASE occupancy # 0 /\ ~(head < tail)
  <2>1. InUse = (head .. Size - 1) \cup (0 .. tail - 1)
    BY <1>3 DEF InUse
  <2> QED  BY <1>3, <2>1, QueueAssumption DEF IInv, TypeOK, SlotsMatch, Slot, Rank
<1> QED  BY <1>1, <1>2, <1>3

\* What SlotsMatch says of an entry, in terms of its rank.
LEMMA UsedByRank ==
    ASSUME IInv, NEW i \in Slot
    PROVE  entry[i] # Empty <=> Rank(i) < occupancy
  BY InUseIsRank DEF IInv, SlotsMatch

\* CheckQueue finds the packet with the smallest k.
LEMMA CheckQueueFirst ==
    ASSUME IInv, NEW p \in Packet, NEW i \in CheckQueue(p)
    PROVE  /\ i \in Slot /\ entry[i] = p
           /\ Rank(i) < occupancy
           /\ \A k \in 1 .. Rank(i) : entry[Place(k)] # p
<1>1. i \in InUse /\ entry[i] = p
  BY DEF CheckQueue
<1>2. i \in Slot
  BY <1>1, QueueAssumption DEF IInv, TypeOK, InUse, Slot
<1>3. Rank(i) < occupancy
  BY <1>1, <1>2, InUseIsRank
<1>4. ASSUME NEW k \in 1 .. Rank(i), entry[Place(k)] = p PROVE FALSE
  <2>1. k \in 1 .. Size /\ Place(k) \in Slot /\ Rank(Place(k)) = k - 1
    BY <1>2, RankInverse, PlaceInSlot, QueueAssumption DEF IInv
  <2>2. Place(k) \in InUse
    BY <2>1, <1>2, <1>3, RankInverse, InUseIsRank DEF IInv, TypeOK
  <2>3. Rank(i) <= Rank(Place(k))
    BY <2>2, <1>4 DEF CheckQueue
  <2> QED  BY <2>1, <2>3, <1>2, RankInverse DEF IInv
<1> QED  BY <1>1, <1>2, <1>3, <1>4

\* Where the ring ends and what one step along it does to the rank.
LEMMA RankOfTail ==
    ASSUME IInv
    PROVE  /\ occupancy < Size => Rank(tail) = occupancy
           /\ occupancy > 0 => Before(tail) \in Slot /\ Rank(Before(tail)) = occupancy - 1
  BY QueueAssumption DEF IInv, TypeOK, SlotsMatch, Slot, Rank, Before

LEMMA RankOfNext ==
    ASSUME TypeOK, NEW i \in Slot, Rank(i) < Size - 1
    PROVE  After(i) \in Slot /\ Rank(After(i)) = Rank(i) + 1
  BY QueueAssumption DEF TypeOK, Slot, Rank, After

LEMMA RankInjective ==
    ASSUME TypeOK, NEW i \in Slot, NEW j \in Slot, Rank(i) = Rank(j)
    PROVE  i = j
  BY QueueAssumption DEF TypeOK, Slot, Rank

\* The entries that move are those from the removed one to the last but one.
LEMMA MovesByRank ==
    ASSUME IInv, NEW index \in Slot, index # head, Rank(index) < occupancy,
           NEW i \in Slot, i # Before(tail)
    PROVE  i \in Moves(index) <=> Rank(index) <= Rank(i) /\ Rank(i) < occupancy - 1
<1>1. CASE index > head /\ head >= tail
  <2>1. i \in Moves(index) <=> index <= i \/ (tail # 0 /\ i < Before(tail))
    BY <1>1 DEF Moves
  <2> QED  BY <1>1, <2>1, QueueAssumption DEF IInv, TypeOK, SlotsMatch, Slot, Rank, Before
<1>2. CASE ~(index > head /\ head >= tail)
  <2>1. i \in Moves(index) <=> index <= i /\ i < Before(tail)
    BY <1>2 DEF Moves
  <2> QED  BY <1>2, <2>1, QueueAssumption DEF IInv, TypeOK, SlotsMatch, Slot, Rank, Before
<1> QED  BY <1>1, <1>2

LEMMA ClosedByRank ==
    ASSUME IInv, NEW index \in Slot, index # head, Rank(index) < occupancy, NEW i \in Slot
    PROVE  Closed(index)[i] = CASE Rank(i) < Rank(index) -> entry[i]
                                [] Rank(i) >= Rank(index) /\ Rank(i) < occupancy - 1
                                     -> entry[After(i)]
                                [] OTHER -> Empty
<1>0. Rank(i) \in Nat /\ Rank(index) \in Nat /\ occupancy \in Nat
  BY RankInverse DEF IInv, TypeOK
<1>1. Closed(index)[i] = CASE i = Before(tail) -> Empty
                           [] i # Before(tail) /\ i \in Moves(index) -> entry[After(i)]
                           [] OTHER -> entry[i]
  BY DEF Closed
<1>2. CASE i = Before(tail)
  <2>1. Rank(i) = occupancy - 1
    BY <1>2, <1>0, RankOfTail
  <2> QED  BY <1>0, <1>1, <1>2, <2>1
<1>3. CASE i # Before(tail) /\ i \in Moves(index)
  BY <1>0, <1>1, <1>3, MovesByRank
<1>4. CASE i # Before(tail) /\ i \notin Moves(index)
  <2>1. Closed(index)[i] = entry[i]
    BY <1>1, <1>4
  <2>2. Rank(i) < Rank(index) \/ Rank(i) >= occupancy - 1
    BY <1>0, <1>4, MovesByRank
  <2>3. Rank(i) # occupancy - 1
    BY <1>0, <1>4, RankOfTail, RankInjective DEF IInv
  <2>4. Rank(i) >= occupancy - 1 => entry[i] = Empty
    BY <1>0, <2>3, UsedByRank
  <2> QED  BY <1>0, <2>1, <2>2, <2>3, <2>4
<1> QED  BY <1>2, <1>3, <1>4

-----------------------------------------------------------------------------
(* The inductive invariant *)

\* IInv in terms of ranks, the form the steps preserve.
RankInv ==
    /\ TypeOK
    /\ tail = IF head + occupancy < Size THEN head + occupancy ELSE head + occupancy - Size
    /\ \A i \in Slot : entry[i] # Empty <=> Rank(i) < occupancy

LEMMA RankInvIff == IInv <=> RankInv
<1>1. ASSUME IInv PROVE RankInv
  BY <1>1, UsedByRank DEF RankInv, IInv, SlotsMatch
<1>2. ASSUME RankInv PROVE IInv
  <2> SUFFICES ASSUME NEW i \in Slot PROVE i \in InUse <=> Rank(i) < occupancy
    BY <1>2 DEF RankInv, IInv, SlotsMatch
  <2>1. CASE occupancy = 0
    BY <1>2, <2>1, RankInverse DEF RankInv, InUse
  <2>2. CASE occupancy # 0 /\ head < tail
    <3>1. InUse = head .. tail - 1
      BY <2>2 DEF InUse
    <3> QED  BY <1>2, <2>2, <3>1, QueueAssumption DEF RankInv, TypeOK, Slot, Rank
  <2>3. CASE occupancy # 0 /\ ~(head < tail)
    <3>1. InUse = (head .. Size - 1) \cup (0 .. tail - 1)
      BY <2>3 DEF InUse
    <3> QED  BY <1>2, <2>3, <3>1, QueueAssumption DEF RankInv, TypeOK, Slot, Rank
  <2> QED  BY <2>1, <2>2, <2>3
<1> QED  BY <1>1, <1>2

LEMMA InitRankInv == Init => RankInv
  BY QueueAssumption DEF Init, RankInv, TypeOK, Slot, Rank

LEMMA AddQueueRankInv ==
    ASSUME IInv, NEW p \in Packet, AddQueue(p)
    PROVE  RankInv'
<1>1. TypeOK'
  BY QueueAssumption DEF IInv, TypeOK, AddQueue, Slot, After
<1>2. (tail = IF head + occupancy < Size THEN head + occupancy ELSE head + occupancy - Size)'
  BY QueueAssumption DEF IInv, TypeOK, SlotsMatch, AddQueue, Slot, After
<1>3. ASSUME NEW i \in Slot PROVE (entry[i] # Empty <=> Rank(i) < occupancy)'
  <2>1. Rank(i)' = Rank(i) /\ Rank(i) \in Nat /\ occupancy' = occupancy + 1
    BY RankInverse DEF IInv, AddQueue, Rank
  <2>2. CASE i = tail
    BY <2>1, <2>2, RankOfTail, QueueAssumption DEF IInv, TypeOK, AddQueue
  <2>3. CASE i # tail
    <3>1. Rank(i) # occupancy
      BY <2>3, RankOfTail, RankInjective DEF IInv, TypeOK, AddQueue
    <3> QED  BY <2>1, <2>3, <3>1, UsedByRank DEF IInv, TypeOK, AddQueue
  <2> QED  BY <2>2, <2>3
<1> QED  BY <1>1, <1>2, <1>3 DEF RankInv

LEMMA RemoveQueueRankInv ==
    ASSUME IInv, RemoveQueue
    PROVE  RankInv'
<1>1. TypeOK'
  BY QueueAssumption DEF IInv, TypeOK, RemoveQueue, Slot, After
<1>2. (tail = IF head + occupancy < Size THEN head + occupancy ELSE head + occupancy - Size)'
  BY QueueAssumption DEF IInv, TypeOK, SlotsMatch, RemoveQueue, Slot, After
<1>3. ASSUME NEW i \in Slot PROVE (entry[i] # Empty <=> Rank(i) < occupancy)'
  <2>1. Rank(i) \in Nat /\ occupancy' = occupancy - 1 /\ occupancy \in 1 .. Size
    BY RankInverse DEF IInv, TypeOK, RemoveQueue
  <2>2. CASE i = head
    <3>1. Rank(i)' = Size - 1
      BY <2>2, QueueAssumption DEF IInv, TypeOK, RemoveQueue, Slot, Rank, After
    <3> QED  BY <2>1, <2>2, <3>1, QueueAssumption DEF IInv, TypeOK, RemoveQueue
  <2>3. CASE i # head
    <3>1. Rank(i)' = Rank(i) - 1
      BY <2>3, QueueAssumption DEF IInv, TypeOK, RemoveQueue, Slot, Rank, After
    <3> QED  BY <2>1, <2>3, <3>1, UsedByRank DEF IInv, TypeOK, RemoveQueue
  <2> QED  BY <2>2, <2>3
<1> QED  BY <1>1, <1>2, <1>3 DEF RankInv

\* The second case of RemoveQueueAtIndex.
RemoveMiddle(index) ==
    /\ index # head
    /\ entry' = Closed(index)
    /\ tail' = Before(tail)
    /\ occupancy' = occupancy - 1
    /\ UNCHANGED head

LEMMA RemoveMiddleRankInv ==
    ASSUME IInv, NEW index \in Slot, Rank(index) < occupancy, RemoveMiddle(index)
    PROVE  RankInv'
<1>0. Rank(index) \in Nat /\ occupancy \in 1 .. Size /\ occupancy' = occupancy - 1
  BY RankInverse DEF IInv, TypeOK, RemoveMiddle
<1>1. TypeOK'
  <2>1. \A i \in Slot : Closed(index)[i] \in Packet \cup {Empty}
    <3> SUFFICES ASSUME NEW i \in Slot PROVE Closed(index)[i] \in Packet \cup {Empty}
      OBVIOUS
    <3>1. Rank(i) \in Nat /\ entry[i] \in Packet \cup {Empty}
      BY RankInverse DEF IInv, TypeOK
    <3>2. Rank(i) < occupancy - 1 => entry[After(i)] \in Packet \cup {Empty}
      BY <1>0, <3>1, RankOfNext, QueueAssumption DEF IInv, TypeOK
    <3> QED  BY <1>0, <3>1, <3>2, ClosedByRank DEF RemoveMiddle
  <2>2. Closed(index) \in [Slot -> Packet \cup {Empty}]
    BY <2>1 DEF Closed
  <2> QED  BY <1>0, <2>2, RankOfTail, QueueAssumption DEF IInv, TypeOK, RemoveMiddle
<1>2. (tail = IF head + occupancy < Size THEN head + occupancy ELSE head + occupancy - Size)'
  BY <1>0, QueueAssumption DEF IInv, TypeOK, SlotsMatch, RemoveMiddle, Slot, Before
<1>3. ASSUME NEW i \in Slot PROVE (entry[i] # Empty <=> Rank(i) < occupancy)'
  <2>1. Rank(i)' = Rank(i) /\ Rank(i) \in Nat
    BY RankInverse DEF IInv, RemoveMiddle, Rank
  <2>2. entry'[i] = Closed(index)[i]
    BY DEF RemoveMiddle
  <2>3. CASE Rank(i) < Rank(index)
    BY <1>0, <2>1, <2>2, <2>3, ClosedByRank, UsedByRank DEF RemoveMiddle
  <2>4. CASE Rank(i) >= Rank(index) /\ Rank(i) < occupancy - 1
    <3>1. After(i) \in Slot /\ Rank(After(i)) = Rank(i) + 1
      BY <1>0, <2>1, <2>4, RankOfNext, QueueAssumption DEF IInv
    <3>2. entry[After(i)] # Empty
      BY <1>0, <2>1, <2>4, <3>1, UsedByRank
    <3> QED  BY <1>0, <2>1, <2>2, <2>4, <3>2, ClosedByRank DEF RemoveMiddle
  <2>5. CASE Rank(i) >= occupancy - 1
    BY <1>0, <2>1, <2>2, <2>5, ClosedByRank DEF RemoveMiddle
  <2> QED  BY <1>0, <2>1, <2>3, <2>4, <2>5
<1> QED  BY <1>1, <1>2, <1>3 DEF RankInv

\* RemoveQueueAtIndex is one of the two removals.
LEMMA RemoveAtCases ==
    ASSUME IInv, NEW p \in Packet, NEW index \in CheckQueue(p),
           \/ index = head /\ RemoveQueue
           \/ RemoveMiddle(index)
    PROVE  RankInv'
  BY RemoveQueueRankInv, RemoveMiddleRankInv, CheckQueueFirst

LEMMA NextRankInv == IInv /\ [Next]_vars => RankInv'
<1> SUFFICES ASSUME IInv, [Next]_vars PROVE RankInv'
  OBVIOUS
<1>1. CASE RemoveQueue
  BY <1>1, RemoveQueueRankInv
<1>2. ASSUME NEW p \in Packet, AddQueue(p) PROVE RankInv'
  BY <1>2, AddQueueRankInv
<1>3. ASSUME NEW p \in Packet, RemoveQueueAtIndex(p) PROVE RankInv'
  BY <1>3, RemoveAtCases DEF RemoveQueueAtIndex, RemoveMiddle
<1>4. CASE UNCHANGED vars
  <2>1. RankInv
    BY RankInvIff
  <2> QED  BY <1>4, <2>1 DEF vars, RankInv, TypeOK, Rank
<1> QED  BY <1>1, <1>2, <1>3, <1>4 DEF Next

LEMMA RingInvariant == Spec => []IInv
<1>1. Init => IInv
  BY InitRankInv, RankInvIff
<1>2. IInv /\ [Next]_vars => IInv'
  BY NextRankInv, RankInvIff, PTL
<1> QED  BY <1>1, <1>2, PTL DEF Spec

\* The fields of the ring keep their types: head, tail and occupancy never leave their
\* ranges (the assert at the end of remove_queue_at_index).
THEOREM RingTypes == Spec => []TypeOK
  BY RingInvariant, PTL DEF IInv

\* Packets are exactly between head and tail, whatever is added or removed in whatever
\* order, so no assert of the queue fails.
THEOREM SlotsAlwaysMatch == Spec => []SlotsMatch
  BY RingInvariant, PTL DEF IInv

-----------------------------------------------------------------------------
(* Refinement *)

LEMMA RemoveAtDef ==
    ASSUME NEW S, NEW s \in Seq(S), NEW k \in 1 .. Len(s)
    PROVE  Abstract!RemoveAt(s, k) = [j \in 1 .. Len(s) - 1 |-> IF j < k THEN s[j] ELSE s[j + 1]]
<1> DEFINE r == [j \in 1 .. Len(s) - 1 |-> IF j < k THEN s[j] ELSE s[j + 1]]
<1>1. Abstract!RemoveAt(s, k) = SubSeq(s, 1, k - 1) \o SubSeq(s, k + 1, Len(s))
  BY DEF Abstract!RemoveAt
<1>2. SubSeq(s, 1, k - 1) \in Seq(S) /\ Len(SubSeq(s, 1, k - 1)) = k - 1
      /\ \A j \in 1 .. k - 1 : SubSeq(s, 1, k - 1)[j] = s[j]
  OBVIOUS
<1>3. SubSeq(s, k + 1, Len(s)) \in Seq(S) /\ Len(SubSeq(s, k + 1, Len(s))) = Len(s) - k
      /\ \A j \in 1 .. Len(s) - k : SubSeq(s, k + 1, Len(s))[j] = s[k + j]
  OBVIOUS
<1> DEFINE u == SubSeq(s, 1, k - 1)
           v == SubSeq(s, k + 1, Len(s))
<1>4. u \in Seq(S) /\ v \in Seq(S) /\ Len(u) = k - 1 /\ Len(v) = Len(s) - k
      /\ (\A j \in 1 .. k - 1 : u[j] = s[j]) /\ (\A j \in 1 .. Len(s) - k : v[j] = s[k + j])
  BY <1>2, <1>3
<1> HIDE DEF u, v, r
<1>5. u \o v \in Seq(S) /\ Len(u \o v) = Len(s) - 1
  BY <1>4
<1>6. ASSUME NEW j \in 1 .. Len(s) - 1 PROVE (u \o v)[j] = r[j]
  <2>1. CASE j < k
    BY <1>4, <2>1 DEF r
  <2>2. CASE j >= k
    <3>1. (u \o v)[j] = v[j - (k - 1)] /\ j - (k - 1) \in 1 .. Len(s) - k
      BY <1>4, <2>2
    <3>2. v[j - (k - 1)] = s[k + (j - (k - 1))] /\ k + (j - (k - 1)) = j + 1
      BY <1>4, <3>1
    <3> QED  BY <2>2, <3>1, <3>2 DEF r
  <2>3. j < k \/ j >= k
    OBVIOUS
  <2> QED  BY <2>1, <2>2, <2>3
<1>7. r \in Seq(S) /\ Len(r) = Len(s) - 1
  BY DEF r
<1>8. u \o v = r
  BY <1>5, <1>6, <1>7, SeqEqual
<1> QED  BY <1>1, <1>8 DEF u, v, r

LEMMA ContentsType ==
    ASSUME IInv
    PROVE  Contents \in Seq(Packet) /\ Len(Contents) = occupancy
<1>1. ASSUME NEW k \in 1 .. occupancy PROVE entry[Place(k)] \in Packet
  <2>1. k \in 1 .. Size /\ Place(k) \in Slot /\ Rank(Place(k)) = k - 1
    BY PlaceInSlot, QueueAssumption DEF IInv, TypeOK
  <2> QED  BY <2>1, UsedByRank DEF IInv, TypeOK
<1> QED  BY <1>1 DEF Contents, IInv, TypeOK

LEMMA AddQueueRefines ==
    ASSUME IInv, NEW p \in Packet, AddQueue(p)
    PROVE  Abstract!Put(p)
<1>1. Contents \in Seq(Packet) /\ Len(Contents) = occupancy /\ occupancy < Size
  BY ContentsType DEF AddQueue
<1>2. occupancy \in Nat /\ occupancy' = occupancy + 1 /\ head' = head
  BY DEF IInv, TypeOK, AddQueue
<1>3. ASSUME NEW k \in 1 .. occupancy + 1
      PROVE  entry'[Place(k)'] = IF k = occupancy + 1 THEN p ELSE entry[Place(k)]
  <2>1. Place(k)' = Place(k) /\ k \in 1 .. Size
    BY <1>1, <1>2, QueueAssumption DEF Place
  <2>2. Place(k) \in Slot /\ Rank(Place(k)) = k - 1
    BY <2>1, PlaceInSlot DEF IInv
  <2>3. tail \in Slot /\ Rank(tail) = occupancy
    BY <1>1, RankOfTail DEF IInv, TypeOK
  <2>4. k = occupancy + 1 <=> Place(k) = tail
    BY <1>2, <2>2, <2>3, RankInjective DEF IInv
  <2>5. entry' = [entry EXCEPT ![tail] = p] /\ entry \in [Slot -> Packet \cup {Empty}]
    BY DEF AddQueue, IInv, TypeOK
  <2> QED  BY <2>1, <2>2, <2>4, <2>5
<1>4. Contents' = [k \in 1 .. occupancy + 1 |-> IF k = occupancy + 1 THEN p ELSE entry[Place(k)]]
  BY <1>2, <1>3 DEF Contents
<1>5. Append(Contents, p)
        = [k \in 1 .. occupancy + 1 |-> IF k = occupancy + 1 THEN p ELSE entry[Place(k)]]
  BY <1>1, <1>2 DEF Contents
<1> QED  BY <1>1, <1>4, <1>5 DEF Abstract!Put

LEMMA RemoveQueueRefines ==
    ASSUME IInv, RemoveQueue
    PROVE  Abstract!Take
<1>1. Contents \in Seq(Packet) /\ Len(Contents) = occupancy /\ occupancy \in 1 .. Size
  BY ContentsType DEF RemoveQueue, IInv, TypeOK
<1>2. occupancy' = occupancy - 1
  BY DEF RemoveQueue
<1>3. ASSUME NEW k \in 1 .. occupancy - 1
      PROVE  entry'[Place(k)'] = entry[Place(k + 1)]
  <2>1. Place(k)' = Place(k + 1)
    BY <1>1, QueueAssumption DEF RemoveQueue, IInv, TypeOK, Slot, Place, After
  <2>2. Place(k + 1) \in Slot /\ Place(k + 1) # head
    BY <1>1, QueueAssumption DEF IInv, TypeOK, Slot, Place
  <2> QED  BY <2>1, <2>2 DEF RemoveQueue, IInv, TypeOK
<1>4. Contents' = [k \in 1 .. occupancy - 1 |-> entry[Place(k + 1)]]
  BY <1>2, <1>3 DEF Contents
<1>5. Tail(Contents) = [k \in 1 .. occupancy - 1 |-> entry[Place(k + 1)]]
  BY <1>1 DEF Contents
<1>6. Contents # <<>>
  BY <1>1
<1> QED  BY <1>4, <1>5, <1>6 DEF Abstract!Take

LEMMA RemoveMiddleRefines ==
    ASSUME IInv, NEW p \in Packet, NEW index \in CheckQueue(p), RemoveMiddle(index)
    PROVE  Abstract!TakeOut(p)
<1> DEFINE n == Rank(index) + 1
<1>1. index \in Slot /\ entry[index] = p /\ Rank(index) \in Nat
      /\ Rank(index) < occupancy /\ \A k \in 1 .. Rank(index) : entry[Place(k)] # p
  BY CheckQueueFirst, RankInverse DEF IInv
<1>2. Contents \in Seq(Packet) /\ Len(Contents) = occupancy /\ occupancy \in 1 .. Size
      /\ Size \in Nat
  BY <1>1, ContentsType, QueueAssumption DEF IInv, TypeOK
<1>3. occupancy' = occupancy - 1 /\ head' = head /\ entry' = Closed(index) /\ index # head
  BY DEF RemoveMiddle
<1>4. n \in 1 .. occupancy /\ Contents[n] = p /\ \A j \in 1 .. n - 1 : Contents[j] # p
  <2>1. Place(n) = index
    BY <1>1, RankInverse DEF IInv
  <2> QED  BY <1>1, <1>2, <2>1 DEF Contents
<1>5. ASSUME NEW k \in 1 .. occupancy - 1
      PROVE  entry'[Place(k)'] = IF k < n THEN entry[Place(k)] ELSE entry[Place(k + 1)]
  <2>1. Place(k)' = Place(k)
    BY <1>3 DEF Place
  <2>2. Place(k) \in Slot /\ Rank(Place(k)) = k - 1
    BY <1>2, PlaceInSlot DEF IInv
  <2>3. After(Place(k)) = Place(k + 1)
    BY <1>2, <2>2, QueueAssumption DEF IInv, TypeOK, Slot, Place, After
  <2>4. CASE k < n
    BY <1>1, <1>2, <1>3, <2>1, <2>2, <2>4, ClosedByRank
  <2>5. CASE k >= n
    BY <1>1, <1>2, <1>3, <2>1, <2>2, <2>3, <2>5, ClosedByRank
  <2> QED  BY <1>1, <2>4, <2>5
<1>6. Contents' = [k \in 1 .. occupancy - 1 |->
                     IF k < n THEN entry[Place(k)] ELSE entry[Place(k + 1)]]
  BY <1>3, <1>5 DEF Contents
<1>7. Abstract!RemoveAt(Contents, n)
        = [k \in 1 .. occupancy - 1 |-> IF k < n THEN Contents[k] ELSE Contents[k + 1]]
  BY <1>2, <1>4, RemoveAtDef
<1>8. ASSUME NEW k \in 1 .. occupancy - 1
      PROVE  Contents[k] = entry[Place(k)] /\ Contents[k + 1] = entry[Place(k + 1)]
  BY <1>2 DEF Contents
<1>9. Contents' = Abstract!RemoveAt(Contents, n)
  BY <1>6, <1>7, <1>8
<1> QED  BY <1>2, <1>4, <1>9 DEF Abstract!TakeOut

\* Taking out the head is taking out the first packet of its address.
LEMMA RemoveHeadRefines ==
    ASSUME IInv, NEW p \in Packet, head \in CheckQueue(p), RemoveQueue
    PROVE  Abstract!Next
  BY RemoveQueueRefines DEF Abstract!Next

LEMMA StepRefines ==
    ASSUME IInv, [Next]_vars
    PROVE  [Abstract!Next]_Contents
<1>1. CASE RemoveQueue
  BY <1>1, RemoveQueueRefines DEF Abstract!Next
<1>2. ASSUME NEW p \in Packet, AddQueue(p) PROVE Abstract!Next
  BY <1>2, AddQueueRefines DEF Abstract!Next
<1>3. ASSUME NEW p \in Packet, RemoveQueueAtIndex(p) PROVE Abstract!Next
  <2>1. PICK index \in CheckQueue(p) : (index = head /\ RemoveQueue) \/ RemoveMiddle(index)
    BY <1>3 DEF RemoveQueueAtIndex, RemoveMiddle
  <2>2. CASE index = head /\ RemoveQueue
    BY <2>2, RemoveHeadRefines
  <2>3. CASE RemoveMiddle(index)
    BY <2>3, RemoveMiddleRefines DEF Abstract!Next
  <2> QED  BY <2>1, <2>2, <2>3
<1>4. CASE UNCHANGED vars
  BY <1>4 DEF vars, Contents, Place
<1> QED  BY <1>1, <1>2, <1>3, <1>4 DEF Next

\* The ring is a bounded queue for its callers: nothing is lost, duplicated or reordered
\* when it wraps, is full, or has a packet removed from its middle.
THEOREM RingIsQueue == Spec => QueueSpec
<1>1. Init => Contents = <<>>
  BY DEF Init, Contents
<1>2. IInv /\ [Next]_vars => [Abstract!Next]_Contents
  BY StepRefines
<1> QED  BY <1>1, <1>2, RingInvariant, PTL DEF Spec, QueueSpec, Abstract!Spec
=============================================================================
