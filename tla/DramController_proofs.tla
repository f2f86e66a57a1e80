------------------------ MODULE DramController_proofs ------------------------
(* The bookkeeping of DramController is consistent, for every number of banks, rows and
   addresses and every size of the tables. *)
EXTENDS DramController, FiniteSetTheorems, WellFoundedInduction, NaturalsInduction, TLAPS

EntryType == [addr : Addr \cup {NoAddr}, scheduled : BOOLEAN]
BankType == [serving : Kind \cup {"none"}, index : Int, row : Row \cup {NoRow}]

\* TypeOK without the ranges of the counters, which follow from CountsExact.
TypeInv ==
    /\ entry = [k \in Kind |-> entry[k]]
    /\ \A k \in Kind : entry[k] \in [Slot(k) -> EntryType]
    /\ occupancy \in [Kind -> Int]
    /\ bank \in [Bank -> BankType]
    /\ scheduled \in [Kind -> Int]
    /\ toSchedule \in [Kind -> BOOLEAN]
    /\ nextProcess = [k \in Kind |-> nextProcess[k]]
    /\ writeMode \in BOOLEAN
    /\ at \in {"mode", "schedule", "process"}
    /\ waiting \subseteq Addr

IInv == TypeInv /\ BanksMatch /\ CountsExact /\ IndicesFresh /\ ReadsTracked

-----------------------------------------------------------------------------
(* Counting slots and banks *)

LEMMA ModeIsKind == TypeInv => Mode \in Kind
  BY DEF TypeInv, Mode, Kind

LEMMA OneLess ==
    ASSUME NEW S, NEW T, NEW x \in S, IsFiniteSet(S), T = S \ {x}
    PROVE  Cardinality(T) = Cardinality(S) - 1
  BY FS_RemoveElement, FS_CardinalityType

LEMMA SlotsFinite ==
    ASSUME NEW k \in Kind
    PROVE  /\ Size[k] \in Nat \ {0}
           /\ IsFiniteSet(Slot(k)) /\ Cardinality(Slot(k)) = Size[k]
<1>1. Size[k] \in Nat \ {0}
  BY DramAssumption
<1>2. IsFiniteSet(0 .. Size[k] - 1) /\ Cardinality(0 .. Size[k] - 1) = Size[k]
  <2> DEFINE n == Size[k] - 1
  <2>1. n \in Nat /\ n + 1 = Size[k]
    BY <1>1
  <2> HIDE DEF n
  <2>2. IsFiniteSet(0 .. n) /\ Cardinality(0 .. n) = n + 1
    BY <2>1, FS_Interval
  <2> QED  BY <2>1, <2>2 DEF n
<1> QED  BY <1>1, <1>2 DEF Slot

LEMMA QueuedFinite ==
    ASSUME NEW k \in Kind
    PROVE  /\ IsFiniteSet(Queued(k)) /\ Cardinality(Queued(k)) \in 0 .. Size[k]
           /\ Cardinality(Queued(k)) = Size[k] => Queued(k) = Slot(k)
<1>1. Queued(k) \subseteq Slot(k)
  BY DEF Queued
<1> QED  BY <1>1, SlotsFinite, FS_Subset, FS_CardinalityType

LEMMA ServingFinite ==
    ASSUME NEW k \in Kind
    PROVE  /\ IsFiniteSet({c \in Bank : bank[c].serving = k})
           /\ Cardinality({c \in Bank : bank[c].serving = k}) \in 0 .. Cardinality(Bank)
<1>1. {c \in Bank : bank[c].serving = k} \subseteq Bank
  OBVIOUS
<1> QED  BY <1>1, DramAssumption, FS_Subset, FS_CardinalityType

LEMMA TypesFollow == IInv => TypeOK
<1> SUFFICES ASSUME IInv PROVE TypeOK
  OBVIOUS
<1>1. \A k \in Kind : occupancy[k] \in 0 .. Size[k]
  BY QueuedFinite DEF IInv, CountsExact
<1>2. scheduled \in [Kind -> 0 .. Cardinality(Bank)]
  BY ServingFinite DEF IInv, TypeInv, CountsExact
<1>3. \A k \in Kind : nextProcess[k] \in Slot(k) \cup {Size[k]}
  BY DEF IInv, TypeInv, IndicesFresh, InService
<1> QED  BY <1>1, <1>2, <1>3 DEF IInv, TypeInv, TypeOK, EntryType, BankType

-----------------------------------------------------------------------------
(* Initial states *)

LEMMA InitIInv == Init => IInv
<1> SUFFICES ASSUME Init PROVE IInv
  OBVIOUS
<1>1. \A k \in Kind : Size[k] \in Nat \ {0}
  BY DramAssumption
<1>2. TypeInv
  <2>1. entry = [k \in Kind |-> entry[k]]
        /\ \A k \in Kind : entry[k] \in [Slot(k) -> EntryType]
    BY DEF Init, EntryType, Unused
  <2>2. bank \in [Bank -> BankType]
    BY DEF Init, BankType, Idle
  <2>3. nextProcess = [k \in Kind |-> nextProcess[k]]
    BY DramAssumption DEF Init
  <2>4. occupancy \in [Kind -> Int] /\ scheduled \in [Kind -> Int]
    BY DEF Init
  <2>5. toSchedule \in [Kind -> BOOLEAN] /\ writeMode \in BOOLEAN
    BY DEF Init
  <2>6. at \in {"mode", "schedule", "process"} /\ waiting \subseteq Addr
    BY DEF Init
  <2> QED  BY <2>1, <2>2, <2>3, <2>4, <2>5, <2>6 DEF TypeInv
<1>3. \A k \in Kind : Queued(k) = {} /\ InService(entry[k]) = {}
  BY DEF Init, Queued, InService, Unused, Kind
<1>4. \A k \in Kind : {b \in Bank : bank[b].serving = k} = {}
  BY DEF Init, Idle, Kind
<1>5. BanksMatch
  BY <1>3 DEF Init, BanksMatch, Idle
<1>6. CountsExact
  BY <1>3, <1>4, FS_EmptySet DEF Init, CountsExact
<1>7. IndicesFresh
  BY <1>3 DEF Init, IndicesFresh
<1>8. ReadsTracked
  BY <1>3 DEF Init, ReadsTracked, AddressesIn, Kind
<1> QED  BY <1>2, <1>5, <1>6, <1>7, <1>8 DEF IInv

-----------------------------------------------------------------------------
(* Steps.  Each lemma first says what the step does to every entry and every bank. *)

\* An entry of a table, by its parts.
LEMMA EntryParts ==
    ASSUME TypeInv, NEW k \in Kind, NEW i \in Slot(k)
    PROVE  /\ entry[k][i] = [addr |-> entry[k][i].addr, scheduled |-> entry[k][i].scheduled]
           /\ entry[k][i].addr \in Addr \cup {NoAddr} /\ entry[k][i].scheduled \in BOOLEAN
           /\ i \in Queued(k) <=> entry[k][i].addr \in Addr
           /\ i \in InService(entry[k]) <=> entry[k][i].scheduled
<1>1. entry[k] \in [Slot(k) -> EntryType]
  BY DEF TypeInv
<1>2. entry[k][i] \in EntryType /\ DOMAIN entry[k] = Slot(k)
  BY <1>1
<1> QED  BY <1>2, DramAssumption DEF EntryType, Queued, InService

LEMMA QueuedAddr ==
    ASSUME TypeInv, NEW k \in Kind, NEW i \in Queued(k)
    PROVE  /\ i \in Slot(k) /\ entry[k][i].addr \in Addr
           /\ BankFor(k, i) \in Bank /\ RowOf[entry[k][i].addr] \in Row
<1>1. i \in Slot(k)
  BY DEF Queued
<1>2. entry[k][i].addr \in Addr
  BY <1>1, EntryParts
<1> QED  BY <1>1, <1>2, DramAssumption DEF BankFor

LEMMA InServiceSlots ==
    ASSUME NEW k, NEW es \in [Slot(k) -> EntryType]
    PROVE  InService(es) = {i \in Slot(k) : es[i].scheduled}
  BY DEF InService

\* A cached index taken from Due is fresh.
LEMMA DueFresh ==
    ASSUME NEW k \in Kind, NEW es \in [Slot(k) -> EntryType], NEW n \in Due(es, Size[k])
    PROVE  IF n = Size[k] THEN InService(es) = {} ELSE n \in InService(es)
<1>1. Size[k] \notin Slot(k)
  BY SlotsFinite DEF Slot
<1>2. Size[k] \notin InService(es)
  BY <1>1 DEF InService
<1> QED  BY <1>2 DEF Due

LEMMA EntryFields ==
    ASSUME NEW x, NEW z \in BOOLEAN
    PROVE  [addr |-> x, scheduled |-> z].addr = x /\ [addr |-> x, scheduled |-> z].scheduled = z
  OBVIOUS

LEMMA ScheduledTo ==
    ASSUME NEW x, NEW y \in BOOLEAN, NEW z \in BOOLEAN
    PROVE  [[addr |-> x, scheduled |-> y] EXCEPT !.scheduled = z] = [addr |-> x, scheduled |-> z]
  OBVIOUS

\* A step that moves no address leaves the sets of queued requests alone.
LEMMA AddressesKept ==
    ASSUME IInv, UNCHANGED waiting,
           \A k \in Kind : \A j \in Slot(k) : entry'[k][j].addr = entry[k][j].addr
    PROVE  /\ \A k \in Kind : Queued(k)' = Queued(k)
           /\ ReadsTracked'
<1>1. ReadsTracked
  BY DEF IInv
<1>2. \A k \in Kind : Queued(k)' = Queued(k)
  BY DEF Queued
<1>3. \A k \in Kind : \A j \in Queued(k) : entry'[k][j].addr = entry[k][j].addr
  BY DEF Queued
<1>4. \A k \in Kind : AddressesIn(k)' = AddressesIn(k)
  BY <1>2, <1>3 DEF AddressesIn
<1>5. waiting' = AddressesIn("read")'
  BY <1>1, <1>4 DEF ReadsTracked, Kind
<1> QED  BY <1>1, <1>2, <1>3, <1>5 DEF ReadsTracked

LEMMA ScheduleInv ==
    ASSUME IInv, ScheduleOne
    PROVE  IInv'
<1>0. PICK m \in Kind : m = Mode
  BY ModeIsKind DEF IInv
<1>1. PICK i \in Schedulable(m) :
        /\ bank' = [bank EXCEPT ![BankFor(m, i)] =
                      [serving |-> m, index |-> i, row |-> RowOf[entry[m][i].addr]]]
        /\ scheduled' = [scheduled EXCEPT ![m] = @ + 1]
        /\ entry' = [entry EXCEPT ![m][i].scheduled = TRUE]
        /\ toSchedule' = [toSchedule EXCEPT ![m] = Pending(entry'[m])]
        /\ \E n \in Due(entry'[m], Size[m]) : nextProcess' = [nextProcess EXCEPT ![m] = n]
  BY <1>0 DEF ScheduleOne, RowHits
<1>2. TypeInv
  BY DEF IInv
<1> DEFINE a == entry[m][i].addr
           b == BankOf[a]
<1>3. /\ i \in Slot(m) /\ i \in Queued(m) /\ a \in Addr /\ ~entry[m][i].scheduled
      /\ b \in Bank /\ bank[b].serving = "none" /\ RowOf[a] \in Row
  BY <1>1, <1>2, EntryParts, DramAssumption DEF Schedulable, Queued, BankFor
<1>4. UNCHANGED <<occupancy, writeMode, waiting>> /\ at' = "process" /\ Mode' = m
  BY <1>0 DEF ScheduleOne, Mode
<1>5. entry' = [entry EXCEPT ![m] = [entry[m] EXCEPT ![i] = [addr |-> a, scheduled |-> TRUE]]]
  <2>1. entry[m][i] = [addr |-> a, scheduled |-> entry[m][i].scheduled]
    BY <1>2, <1>3, EntryParts
  <2>2. [entry[m][i] EXCEPT !.scheduled = TRUE] = [addr |-> a, scheduled |-> TRUE]
    BY <1>2, <1>3, <2>1, EntryParts, ScheduledTo
  <2>3. entry' = [entry EXCEPT ![m] =
                    [entry[m] EXCEPT ![i] = [entry[m][i] EXCEPT !.scheduled = TRUE]]]
    BY <1>1
  <2> QED  BY <2>2, <2>3
<1>6. \A k \in Kind : \A j \in Slot(k) :
         entry'[k][j] = IF k = m /\ j = i THEN [addr |-> a, scheduled |-> TRUE] ELSE entry[k][j]
  BY <1>2, <1>3, <1>5 DEF TypeInv
<1>7. \A c \in Bank : bank'[c] = IF c = b THEN [serving |-> m, index |-> i, row |-> RowOf[a]]
                                          ELSE bank[c]
  BY <1>1, <1>2, <1>3 DEF TypeInv, BankFor
<1>8. TypeInv'
  <2>1. [addr |-> a, scheduled |-> TRUE] \in EntryType
    BY <1>3 DEF EntryType
  <2>2. \A k \in Kind : entry'[k] \in [Slot(k) -> EntryType]
    BY <1>2, <1>3, <1>5, <2>1 DEF TypeInv
  <2>3. [serving |-> m, index |-> i, row |-> RowOf[a]] \in BankType
    BY <1>3, SlotsFinite DEF BankType, Slot
  <2>4. bank' \in [Bank -> BankType]
    BY <1>1, <1>2, <1>3, <2>3 DEF TypeInv, BankFor
  <2>5. scheduled' \in [Kind -> Int] /\ toSchedule' \in [Kind -> BOOLEAN]
    BY <1>1, <1>2 DEF TypeInv, Pending
  <2>6. entry' = [k \in Kind |-> entry'[k]] /\ nextProcess' = [k \in Kind |-> nextProcess'[k]]
    BY <1>1, <1>2, <1>5 DEF TypeInv
  <2> QED  BY <1>2, <1>4, <2>2, <2>4, <2>5, <2>6 DEF TypeInv
<1>9. (\A k \in Kind : Queued(k)' = Queued(k)) /\ ReadsTracked'
  <2>1. \A k \in Kind : \A j \in Slot(k) : entry'[k][j].addr = entry[k][j].addr
    BY <1>6
  <2> QED  BY <1>4, <2>1, AddressesKept
<1>10. \A k \in Kind : InService(entry'[k]) =
                          IF k = m THEN InService(entry[k]) \cup {i} ELSE InService(entry[k])
  <2>1. \A k \in Kind : /\ InService(entry'[k]) = {j \in Slot(k) : entry'[k][j].scheduled}
                        /\ InService(entry[k]) = {j \in Slot(k) : entry[k][j].scheduled}
    BY <1>2, <1>8, InServiceSlots DEF TypeInv
  <2>2. InService(entry'[m]) = InService(entry[m]) \cup {i}
    <3>1. \A j \in Slot(m) : entry'[m][j].scheduled <=> (j = i \/ entry[m][j].scheduled)
      BY <1>3, <1>6
    <3> QED  BY <1>3, <2>1, <3>1
  <2>3. ASSUME NEW k \in Kind, k # m
        PROVE  InService(entry'[k]) = InService(entry[k])
    <3>1. \A j \in Slot(k) : entry'[k][j].scheduled <=> entry[k][j].scheduled
      BY <1>6, <2>3
    <3> QED  BY <2>1, <3>1
  <2> QED  BY <2>2, <2>3
<1>11. BanksMatch'
  <2>1. BanksMatch
    BY DEF IInv
  <2>2. ASSUME NEW k \in Kind, NEW j \in InService(entry'[k])
        PROVE  /\ j \in Queued(k)'
               /\ bank'[BankFor(k, j)'] = [serving |-> k, index |-> j,
                                           row |-> RowOf[entry'[k][j].addr]]
    <3>1. j \in Slot(k) /\ entry'[k][j].addr = entry[k][j].addr
      BY <1>6, <1>8, <2>2, InServiceSlots DEF TypeInv
    <3>2. CASE k = m /\ j = i
      BY <1>3, <1>7, <1>9, <3>1, <3>2 DEF BankFor
    <3>3. CASE ~(k = m /\ j = i)
      <4>1. j \in InService(entry[k])
        BY <1>10, <2>2, <3>3
      <4>2. j \in Queued(k) /\ bank[BankFor(k, j)] = [serving |-> k, index |-> j,
                                                      row |-> RowOf[entry[k][j].addr]]
        BY <2>1, <4>1 DEF BanksMatch
      <4>3. BankFor(k, j) \in Bank
        BY <1>2, <3>1, <4>2, EntryParts, DramAssumption DEF BankFor
      <4>4. bank[BankFor(k, j)].serving # "none"
        BY <4>2 DEF Kind
      <4> QED  BY <1>3, <1>7, <1>9, <3>1, <4>2, <4>3, <4>4 DEF BankFor
    <3> QED  BY <3>2, <3>3
  <2>3. ASSUME NEW c \in Bank, bank'[c].serving # "none"
        PROVE  /\ bank'[c].index \in InService(entry'[bank'[c].serving])
               /\ BankOf[entry'[bank'[c].serving][bank'[c].index].addr] = c
    <3>1. CASE c = b
      <4>1. bank'[c].serving = m /\ bank'[c].index = i
        BY <1>7, <3>1
      <4>2. i \in InService(entry'[m]) /\ entry'[m][i].addr = a
        <5>1. entry'[m][i] = [addr |-> a, scheduled |-> TRUE]
          BY <1>3, <1>6
        <5>2. i \in InService(entry'[m])
          BY <1>10
        <5> QED  BY <5>1, <5>2
      <4>3. b = c
        BY <3>1
      <4> QED  BY <4>1, <4>2, <4>3
    <3>2. CASE c # b
      <4>1. bank'[c] = bank[c] /\ bank[c].serving \in Kind
        BY <1>2, <1>7, <2>3, <3>2 DEF TypeInv, BankType
      <4>2. /\ bank[c].index \in InService(entry[bank[c].serving])
            /\ BankFor(bank[c].serving, bank[c].index) = c
        BY <2>1, <2>3, <4>1 DEF BanksMatch
      <4>3. bank[c].index \in Slot(bank[c].serving)
        BY <1>2, <4>1, <4>2, InServiceSlots DEF TypeInv
      <4>4. entry'[bank[c].serving][bank[c].index].addr = entry[bank[c].serving][bank[c].index].addr
        BY <1>6, <4>1, <4>3
      <4> QED  BY <1>10, <4>1, <4>2, <4>4 DEF BankFor
    <3> QED  BY <3>1, <3>2
  <2> QED  BY <2>2, <2>3 DEF BanksMatch, BankFor
<1>12. CountsExact'
  <2> DEFINE serving(k) == {c \in Bank : bank[c].serving = k}
  <2>1. CountsExact
    BY DEF IInv
  <2>2. serving(m)' = serving(m) \cup {b} /\ b \notin serving(m)
    BY <1>3, <1>7 DEF Kind
  <2>3. \A k \in Kind : k # m => serving(k)' = serving(k)
    BY <1>3, <1>7 DEF Kind
  <2>4. Cardinality(serving(m)') = Cardinality(serving(m)) + 1
    <3>1. IsFiniteSet(serving(m))
      BY ServingFinite
    <3> HIDE DEF serving
    <3> QED  BY <2>2, <3>1, FS_AddElement
  <2>5. \A k \in Kind : scheduled'[k] = IF k = m THEN scheduled[k] + 1 ELSE scheduled[k]
    BY <1>1, <1>2 DEF TypeInv
  <2>6. \A k \in Kind : scheduled'[k] = Cardinality(serving(k)')
    BY <2>1, <2>3, <2>4, <2>5 DEF CountsExact
  <2>7. \A k \in Kind : occupancy'[k] = Cardinality(Queued(k)')
    BY <1>4, <1>9, <2>1 DEF CountsExact
  <2>8. \A k \in Kind : k # Mode' => scheduled'[k] = 0
    BY <1>0, <1>4, <2>1, <2>5 DEF CountsExact
  <2> QED  BY <2>6, <2>7, <2>8 DEF CountsExact
<1>13. IndicesFresh'
  <2>1. IndicesFresh
    BY DEF IInv
  <2>2. ASSUME NEW k \in Kind
        PROVE  toSchedule'[k] <=> \E j \in Queued(k)' : ~entry'[k][j].scheduled
    <3>1. CASE k = m
      <4>1. toSchedule'[k] <=> Pending(entry'[m])
        BY <1>1, <1>2, <3>1 DEF TypeInv
      <4>2. DOMAIN entry'[m] = Slot(m)
        BY <1>8 DEF TypeInv
      <4> QED  BY <3>1, <4>1, <4>2 DEF Pending, Queued
    <3>2. CASE k # m
      <4>1. toSchedule'[k] = toSchedule[k]
        BY <1>1, <1>2, <3>2 DEF TypeInv
      <4>2. \A j \in Queued(k) : entry'[k][j] = entry[k][j]
        BY <1>6, <3>2 DEF Queued
      <4> QED  BY <1>9, <2>1, <4>1, <4>2 DEF IndicesFresh
    <3> QED  BY <3>1, <3>2
  <2>3. ASSUME NEW k \in Kind
        PROVE  IF nextProcess'[k] = Size[k] THEN InService(entry'[k]) = {}
                                            ELSE nextProcess'[k] \in InService(entry'[k])
    <3>1. CASE k = m
      <4>1. nextProcess'[m] \in Due(entry'[m], Size[m])
        BY <1>1, <1>2 DEF TypeInv
      <4> QED  BY <1>8, <3>1, <4>1, DueFresh DEF TypeInv
    <3>2. CASE k # m
      BY <1>1, <1>2, <1>10, <2>1, <3>2 DEF TypeInv, IndicesFresh
    <3> QED  BY <3>1, <3>2
  <2> QED  BY <2>2, <2>3 DEF IndicesFresh
<1> QED  BY <1>8, <1>9, <1>11, <1>12, <1>13 DEF IInv

LEMMA ResetInv ==
    ASSUME IInv, NEW k \in Kind, k = Mode, ResetRemainRequests(k), Mode' # k,
           UNCHANGED <<occupancy, waiting>>, at' = "schedule", writeMode' \in BOOLEAN
    PROVE  IInv'
<1>1. TypeInv /\ BanksMatch /\ CountsExact
  BY DEF IInv
<1>2. /\ entry' = [entry EXCEPT ![k] = [i \in Slot(k) |-> [entry[k][i] EXCEPT !.scheduled = FALSE]]]
      /\ \E opened \in SUBSET Freed(k) :
            bank' = [b \in Bank |->
                       IF b \in Freed(k) THEN Idle(IF b \in opened THEN bank[b].row ELSE NoRow)
                                         ELSE bank[b]]
      /\ scheduled' = [j \in Kind |->
                         scheduled[j] - Cardinality({b \in Freed(k) : bank[b].serving = j})]
      /\ toSchedule' = [j \in Kind |-> Pending(entry'[j])]
      /\ \E r \in Due(entry'["read"], Size["read"]), w \in Due(entry'["write"], Size["write"]) :
            nextProcess' = [read |-> r, write |-> w]
  <2> DEFINE es == [entry EXCEPT ![k] = [i \in Slot(k) |-> [@[i] EXCEPT !.scheduled = FALSE]]]
  <2>1. entry' = es
    BY DEF ResetRemainRequests
  <2>2. /\ toSchedule' = [j \in Kind |-> Pending(es[j])]
        /\ \E r \in Due(es["read"], Size["read"]), w \in Due(es["write"], Size["write"]) :
              nextProcess' = [read |-> r, write |-> w]
    BY DEF ResetRemainRequests
  <2>3. es = [entry EXCEPT ![k] = [i \in Slot(k) |-> [entry[k][i] EXCEPT !.scheduled = FALSE]]]
    OBVIOUS
  <2> HIDE DEF es
  <2> QED  BY <2>1, <2>2, <2>3 DEF ResetRemainRequests
<1>3. entry' = [entry EXCEPT ![k] =
                  [i \in Slot(k) |-> [addr |-> entry[k][i].addr, scheduled |-> FALSE]]]
  <2>1. ASSUME NEW i \in Slot(k)
        PROVE  [entry[k][i] EXCEPT !.scheduled = FALSE]
                 = [addr |-> entry[k][i].addr, scheduled |-> FALSE]
    <3>1. /\ entry[k][i] = [addr |-> entry[k][i].addr, scheduled |-> entry[k][i].scheduled]
          /\ entry[k][i].scheduled \in BOOLEAN
      BY <1>1, EntryParts
    <3> QED  BY <3>1, ScheduledTo
  <2>2. [i \in Slot(k) |-> [entry[k][i] EXCEPT !.scheduled = FALSE]]
          = [i \in Slot(k) |-> [addr |-> entry[k][i].addr, scheduled |-> FALSE]]
    BY <2>1
  <2> QED  BY <1>2, <2>2
<1>4. /\ \A j \in Kind : j # k => entry'[j] = entry[j]
      /\ \A i \in Slot(k) : entry'[k][i] = [addr |-> entry[k][i].addr, scheduled |-> FALSE]
  BY <1>1, <1>3 DEF TypeInv
<1>5. Freed(k) = {b \in Bank : bank[b].serving = k}
  <2>1. ASSUME NEW i \in InService(entry[k])
        PROVE  BankFor(k, i) \in Bank /\ bank[BankFor(k, i)].serving = k
    <3>1. i \in Queued(k) /\ bank[BankFor(k, i)] = [serving |-> k, index |-> i,
                                                    row |-> RowOf[entry[k][i].addr]]
      BY <1>1 DEF BanksMatch
    <3> QED  BY <1>1, <3>1, QueuedAddr
  <2>2. ASSUME NEW b \in Bank, bank[b].serving = k
        PROVE  \E i \in InService(entry[k]) : b = BankFor(k, i)
    BY <1>1, <2>2 DEF BanksMatch, Kind
  <2> QED  BY <2>1, <2>2 DEF Freed
<1>6. \A b \in Bank : IF bank[b].serving = k THEN bank'[b].serving = "none" ELSE bank'[b] = bank[b]
  BY <1>2, <1>5 DEF Idle
<1>7. TypeInv'
  <2>1. \A j \in Kind : entry'[j] \in [Slot(j) -> EntryType]
    <3>1. \A i \in Slot(k) : [addr |-> entry[k][i].addr, scheduled |-> FALSE] \in EntryType
      BY <1>1, EntryParts DEF EntryType
    <3>2. [i \in Slot(k) |-> [addr |-> entry[k][i].addr, scheduled |-> FALSE]]
             \in [Slot(k) -> EntryType]
      BY <3>1
    <3> QED  BY <1>1, <1>3, <3>2 DEF TypeInv
  <2>2. bank' \in [Bank -> BankType]
    <3>1. \A b \in Bank : bank[b] \in BankType /\ bank[b].row \in Row \cup {NoRow}
      BY <1>1 DEF TypeInv, BankType
    <3>2. \A row \in Row \cup {NoRow} : Idle(row) \in BankType
      BY DEF Idle, BankType
    <3> QED  BY <1>2, <3>1, <3>2
  <2>3. scheduled' \in [Kind -> Int]
    <3> DEFINE n(j) == Cardinality({b \in Freed(k) : bank[b].serving = j})
    <3>1. ASSUME NEW j \in Kind PROVE n(j) \in Int
      <4> DEFINE S == {b \in Freed(k) : bank[b].serving = j}
      <4>1. S \subseteq Bank
        BY <1>5
      <4> HIDE DEF S
      <4>2. Cardinality(S) \in Int
        BY <4>1, DramAssumption, FS_Subset, FS_CardinalityType
      <4> QED  BY <4>2 DEF S
    <3>2. scheduled' = [j \in Kind |-> scheduled[j] - n(j)]
      BY <1>2
    <3> HIDE DEF n
    <3> QED  BY <1>1, <3>1, <3>2 DEF TypeInv
  <2>4. toSchedule' \in [Kind -> BOOLEAN]
    BY <1>2 DEF Pending
  <2>5. entry' = [j \in Kind |-> entry'[j]] /\ nextProcess' = [j \in Kind |-> nextProcess'[j]]
    <3>1. entry' = [j \in Kind |-> entry'[j]]
      BY <1>1, <1>3 DEF TypeInv
    <3>2. nextProcess' = [j \in Kind |-> nextProcess'[j]]
      BY <1>2 DEF Kind
    <3> QED  BY <3>1, <3>2
  <2> QED  BY <1>1, <2>1, <2>2, <2>3, <2>4, <2>5 DEF TypeInv
<1>8. (\A j \in Kind : Queued(j)' = Queued(j)) /\ ReadsTracked'
  <2>1. \A j \in Kind : \A i \in Slot(j) : entry'[j][i].addr = entry[j][i].addr
    <3>1. \A i \in Slot(k) : entry'[k][i].addr = entry[k][i].addr
      BY <1>4, EntryFields
    <3> QED  BY <1>4, <3>1
  <2> QED  BY <2>1, AddressesKept
<1>9. \A j \in Kind : IF j = k THEN InService(entry'[j]) = {} ELSE entry'[j] = entry[j]
  <2>1. InService(entry'[k]) = {}
    <3>1. InService(entry'[k]) = {i \in Slot(k) : entry'[k][i].scheduled}
      BY <1>7, InServiceSlots DEF TypeInv
    <3>2. \A i \in Slot(k) : ~entry'[k][i].scheduled
      BY <1>4, EntryFields
    <3> QED  BY <3>1, <3>2
  <2> QED  BY <1>4, <2>1
<1>10. BanksMatch'
  <2>1. ASSUME NEW j \in Kind, NEW i \in InService(entry'[j])
        PROVE  /\ i \in Queued(j)'
               /\ bank'[BankFor(j, i)'] = [serving |-> j, index |-> i,
                                           row |-> RowOf[entry'[j][i].addr]]
    <3>1. j # k /\ entry'[j] = entry[j] /\ i \in InService(entry[j])
      BY <1>9, <2>1
    <3>2. i \in Queued(j) /\ bank[BankFor(j, i)] = [serving |-> j, index |-> i,
                                                    row |-> RowOf[entry[j][i].addr]]
      BY <1>1, <3>1 DEF BanksMatch
    <3>3. BankFor(j, i) \in Bank /\ bank[BankFor(j, i)].serving # k
      BY <1>1, <3>1, <3>2, QueuedAddr
    <3>4. BankFor(j, i)' = BankFor(j, i)
      BY <3>1 DEF BankFor
    <3> QED  BY <1>6, <1>8, <3>1, <3>2, <3>3, <3>4
  <2>2. ASSUME NEW c \in Bank, bank'[c].serving # "none"
        PROVE  /\ bank'[c].index \in InService(entry'[bank'[c].serving])
               /\ BankOf[entry'[bank'[c].serving][bank'[c].index].addr] = c
    <3>1. bank'[c] = bank[c] /\ bank[c].serving \in Kind /\ bank[c].serving # k
      BY <1>1, <1>6, <2>2 DEF TypeInv, BankType
    <3>2. /\ bank[c].index \in InService(entry[bank[c].serving])
          /\ BankOf[entry[bank[c].serving][bank[c].index].addr] = c
      BY <1>1, <2>2, <3>1 DEF BanksMatch, BankFor
    <3> QED  BY <1>9, <3>1, <3>2
  <2> QED  BY <2>1, <2>2 DEF BanksMatch, BankFor
<1>11. CountsExact'
  <2> DEFINE serving(j) == {b \in Bank : bank[b].serving = j}
             freed(j) == {b \in Freed(k) : bank[b].serving = j}
  <2>1. scheduled'[k] = 0 /\ serving(k)' = {}
    <3>1. serving(k)' = {}
      BY <1>6 DEF Kind
    <3>2. freed(k) = serving(k)
      BY <1>5
    <3>3. scheduled[k] = Cardinality(serving(k)) /\ scheduled[k] \in Int
      BY <1>1 DEF CountsExact, TypeInv
    <3>4. scheduled'[k] = scheduled[k] - Cardinality(freed(k))
      BY <1>2
    <3> HIDE DEF freed, serving
    <3> QED  BY <3>1, <3>2, <3>3, <3>4
  <2>2. ASSUME NEW j \in Kind, j # k
        PROVE  scheduled'[j] = scheduled[j] /\ serving(j)' = serving(j)
    <3>1. freed(j) = {} /\ scheduled[j] \in Int
      BY <1>1, <1>5, <2>2 DEF TypeInv
    <3>2. scheduled'[j] = scheduled[j] - Cardinality(freed(j))
      BY <1>2
    <3>3. serving(j)' = serving(j)
      BY <1>6, <2>2 DEF Kind
    <3> HIDE DEF freed, serving
    <3> QED  BY <3>1, <3>2, <3>3, FS_EmptySet
  <2>3. \A j \in Kind : scheduled'[j] = Cardinality(serving(j)')
    BY <1>1, <2>1, <2>2, FS_EmptySet DEF CountsExact
  <2>4. \A j \in Kind : j # Mode' => scheduled'[j] = 0
    <3>1. Mode' \in Kind
      BY DEF Mode, Kind
    <3> QED  BY <2>1, <3>1 DEF Kind
  <2>5. \A j \in Kind : occupancy'[j] = Cardinality(Queued(j)')
    BY <1>1, <1>8 DEF CountsExact
  <2> QED  BY <2>3, <2>4, <2>5 DEF CountsExact
<1>12. IndicesFresh'
  <2>1. ASSUME NEW j \in Kind
        PROVE  toSchedule'[j] <=> \E i \in Queued(j)' : ~entry'[j][i].scheduled
    <3>1. toSchedule'[j] <=> Pending(entry'[j])
      BY <1>2
    <3>2. DOMAIN entry'[j] = Slot(j)
      BY <1>7 DEF TypeInv
    <3> QED  BY <3>1, <3>2 DEF Pending, Queued
  <2>2. ASSUME NEW j \in Kind
        PROVE  IF nextProcess'[j] = Size[j] THEN InService(entry'[j]) = {}
                                            ELSE nextProcess'[j] \in InService(entry'[j])
    <3>1. nextProcess'[j] \in Due(entry'[j], Size[j])
      BY <1>2 DEF Kind
    <3> QED  BY <1>7, <3>1, DueFresh DEF TypeInv
  <2> QED  BY <2>1, <2>2 DEF IndicesFresh
<1> QED  BY <1>7, <1>8, <1>10, <1>11, <1>12 DEF IInv

LEMMA ProcessInv ==
    ASSUME IInv, ProcessOne
    PROVE  IInv'
<1>1. TypeInv /\ BanksMatch /\ CountsExact /\ IndicesFresh /\ ReadsTracked
  BY DEF IInv
<1>2. PICK m \in Kind : m = Mode
  BY <1>1, ModeIsKind
<1>3. PICK i : i = nextProcess[m]
  OBVIOUS
<1> DEFINE a == entry[m][i].addr
           b == BankOf[a]
<1>4. /\ i # Size[m]
      /\ bank' = [bank EXCEPT ![b] = Idle(@.row)]
      /\ scheduled' = [scheduled EXCEPT ![m] = @ - 1]
      /\ waiting' = IF writeMode THEN waiting ELSE waiting \ {a}
      /\ entry' = [entry EXCEPT ![m][i] = Unused]
      /\ occupancy' = [occupancy EXCEPT ![m] = @ - 1]
      /\ \E n \in Due(entry'[m], Size[m]) : nextProcess' = [nextProcess EXCEPT ![m] = n]
      /\ UNCHANGED <<toSchedule, writeMode>> /\ at' = "mode"
  BY <1>2, <1>3 DEF ProcessOne
<1>5. i \in InService(entry[m])
  BY <1>1, <1>3, <1>4 DEF IndicesFresh
<1>6. /\ i \in Queued(m) /\ i \in Slot(m) /\ entry[m][i].scheduled /\ a \in Addr /\ b \in Bank
      /\ bank[b].serving = m /\ bank[b].index = i
  <2>1. i \in Queued(m) /\ bank[b] = [serving |-> m, index |-> i, row |-> RowOf[a]]
    BY <1>1, <1>5 DEF BanksMatch, BankFor
  <2>2. i \in Slot(m) /\ a \in Addr /\ b \in Bank
    BY <1>1, <2>1, QueuedAddr DEF BankFor
  <2> QED  BY <1>5, <2>1, <2>2 DEF InService
<1>7. /\ \A k \in Kind : k # m => entry'[k] = entry[k]
      /\ \A j \in Slot(m) : j # i => entry'[m][j] = entry[m][j]
      /\ entry'[m][i] = Unused
      /\ entry'[m] \in [Slot(m) -> EntryType] /\ entry' = [k \in Kind |-> entry'[k]]
  <2>1. Unused \in EntryType
    BY DEF Unused, EntryType
  <2> QED  BY <1>1, <1>4, <1>6, <2>1 DEF TypeInv
<1>8. entry'[m][i].addr = NoAddr /\ ~entry'[m][i].scheduled
  BY <1>7, EntryFields DEF Unused
<1>9. \A c \in Bank : IF c = b THEN bank'[c].serving = "none" ELSE bank'[c] = bank[c]
  BY <1>1, <1>4, <1>6 DEF TypeInv, Idle
<1>10. TypeInv'
  <2>1. \A row \in Row \cup {NoRow} : Idle(row) \in BankType
    BY DEF Idle, BankType
  <2>2. bank[b].row \in Row \cup {NoRow}
    BY <1>1, <1>6 DEF TypeInv, BankType
  <2>3. bank' \in [Bank -> BankType]
    BY <1>1, <1>4, <1>6, <2>1, <2>2 DEF TypeInv
  <2>4. \A k \in Kind : entry'[k] \in [Slot(k) -> EntryType]
    BY <1>1, <1>7 DEF TypeInv
  <2>5. occupancy' \in [Kind -> Int] /\ scheduled' \in [Kind -> Int]
    BY <1>1, <1>4 DEF TypeInv
  <2>6. nextProcess' = [k \in Kind |-> nextProcess'[k]]
    BY <1>1, <1>4 DEF TypeInv
  <2>7. toSchedule' \in [Kind -> BOOLEAN] /\ writeMode' \in BOOLEAN
    BY <1>1, <1>4 DEF TypeInv
  <2>8. waiting' \subseteq Addr
    BY <1>1, <1>4 DEF TypeInv
  <2> QED  BY <1>4, <1>7, <2>3, <2>4, <2>5, <2>6, <2>7, <2>8 DEF TypeInv
<1>11. \A k \in Kind : k # m => Queued(k)' = Queued(k) /\ InService(entry'[k]) = InService(entry[k])
  BY <1>7 DEF Queued
<1>12. Queued(m)' = Queued(m) \ {i}
  BY <1>7, <1>8 DEF Queued
<1>13. InService(entry'[m]) = InService(entry[m]) \ {i}
  <2>1. /\ InService(entry'[m]) = {j \in Slot(m) : entry'[m][j].scheduled}
        /\ InService(entry[m]) = {j \in Slot(m) : entry[m][j].scheduled}
    BY <1>1, <1>7, InServiceSlots DEF TypeInv
  <2> QED  BY <1>7, <1>8, <2>1
<1>14. BanksMatch'
  <2>1. ASSUME NEW k \in Kind, NEW j \in InService(entry'[k])
        PROVE  /\ j \in Queued(k)'
               /\ bank'[BankFor(k, j)'] = [serving |-> k, index |-> j,
                                           row |-> RowOf[entry'[k][j].addr]]
    <3>1. j \in InService(entry[k]) /\ ~(k = m /\ j = i)
      BY <1>11, <1>13, <2>1
    <3>2. j \in Queued(k) /\ bank[BankFor(k, j)] = [serving |-> k, index |-> j,
                                                    row |-> RowOf[entry[k][j].addr]]
      BY <1>1, <3>1 DEF BanksMatch
    <3>3. j \in Slot(k) /\ BankFor(k, j) \in Bank
      BY <1>1, <3>2, QueuedAddr
    <3>4. bank[BankFor(k, j)].serving = k /\ bank[BankFor(k, j)].index = j
      BY <3>2
    <3>5. BankFor(k, j) # b
      BY <1>6, <3>1, <3>4
    <3>6. entry'[k][j] = entry[k][j]
      BY <1>7, <3>1, <3>3
    <3>7. BankFor(k, j)' = BankFor(k, j) /\ j \in Queued(k)'
      BY <1>11, <1>12, <3>1, <3>2, <3>6 DEF BankFor
    <3> QED  BY <1>9, <3>2, <3>3, <3>5, <3>6, <3>7
  <2>2. ASSUME NEW c \in Bank, bank'[c].serving # "none"
        PROVE  /\ bank'[c].index \in InService(entry'[bank'[c].serving])
               /\ BankOf[entry'[bank'[c].serving][bank'[c].index].addr] = c
    <3>1. PICK k, j : k = bank[c].serving /\ j = bank[c].index
      OBVIOUS
    <3>2. c # b /\ bank'[c] = bank[c] /\ k \in Kind
      BY <1>1, <1>9, <2>2, <3>1 DEF TypeInv, BankType
    <3>3. j \in InService(entry[k]) /\ BankOf[entry[k][j].addr] = c
      BY <1>1, <2>2, <3>1, <3>2 DEF BanksMatch, BankFor
    <3>4. ~(k = m /\ j = i)
      BY <3>2, <3>3
    <3>5. j \in InService(entry'[k])
      BY <1>11, <1>13, <3>2, <3>3, <3>4
    <3>6. j \in Slot(k)
      BY <1>1, <3>2, <3>3, InServiceSlots DEF TypeInv
    <3>7. entry'[k][j] = entry[k][j]
      BY <1>7, <3>2, <3>4, <3>6
    <3> QED  BY <3>1, <3>2, <3>3, <3>5, <3>7
  <2> QED  BY <2>1, <2>2 DEF BanksMatch, BankFor
<1>15. CountsExact'
  <2> DEFINE serving(k) == {c \in Bank : bank[c].serving = k}
  <2>1. serving(m)' = serving(m) \ {b} /\ b \in serving(m)
    BY <1>6, <1>9 DEF Kind
  <2>2. \A k \in Kind : k # m => serving(k)' = serving(k)
    BY <1>6, <1>9 DEF Kind
  <2>3. Cardinality(serving(m)') = Cardinality(serving(m)) - 1
    <3>1. IsFiniteSet(serving(m))
      BY ServingFinite
    <3> HIDE DEF serving
    <3> QED  BY <2>1, <3>1, OneLess
  <2>4. Cardinality(Queued(m)') = Cardinality(Queued(m)) - 1
    BY <1>6, <1>12, QueuedFinite, OneLess
  <2>5. \A k \in Kind : /\ scheduled'[k] = IF k = m THEN scheduled[k] - 1 ELSE scheduled[k]
                        /\ occupancy'[k] = IF k = m THEN occupancy[k] - 1 ELSE occupancy[k]
    BY <1>1, <1>4 DEF TypeInv
  <2>6. \A k \in Kind : scheduled'[k] = Cardinality(serving(k)')
    BY <1>1, <2>2, <2>3, <2>5 DEF CountsExact
  <2>7. \A k \in Kind : occupancy'[k] = Cardinality(Queued(k)')
    BY <1>1, <1>11, <2>4, <2>5 DEF CountsExact
  <2>8. \A k \in Kind : k # Mode' => scheduled'[k] = 0
    <3>1. Mode' = m
      BY <1>2, <1>4 DEF Mode
    <3> QED  BY <1>1, <1>2, <2>5, <3>1 DEF CountsExact
  <2> QED  BY <2>6, <2>7, <2>8 DEF CountsExact
<1>16. IndicesFresh'
  <2>1. ASSUME NEW k \in Kind
        PROVE  toSchedule'[k] <=> \E j \in Queued(k)' : ~entry'[k][j].scheduled
    <3>1. toSchedule[k] <=> \E j \in Queued(k) : ~entry[k][j].scheduled
      BY <1>1 DEF IndicesFresh
    <3>2. CASE k = m
      <4>1. \A j \in Queued(m) : j # i => entry'[m][j] = entry[m][j]
        BY <1>7 DEF Queued
      <4> QED  BY <1>4, <1>6, <1>12, <3>1, <3>2, <4>1
    <3>3. CASE k # m
      BY <1>4, <1>7, <1>11, <3>1, <3>3
    <3> QED  BY <3>2, <3>3
  <2>2. ASSUME NEW k \in Kind
        PROVE  IF nextProcess'[k] = Size[k] THEN InService(entry'[k]) = {}
                                            ELSE nextProcess'[k] \in InService(entry'[k])
    <3>1. CASE k = m
      <4>1. nextProcess'[m] \in Due(entry'[m], Size[m])
        BY <1>1, <1>4 DEF TypeInv
      <4> QED  BY <1>7, <3>1, <4>1, DueFresh
    <3>2. CASE k # m
      BY <1>1, <1>4, <1>11, <3>2 DEF TypeInv, IndicesFresh
    <3> QED  BY <3>1, <3>2
  <2> QED  BY <2>1, <2>2 DEF IndicesFresh
<1>17. ReadsTracked'
  <2>1. \A j \in Queued(m) \ {i} : entry'[m][j] = entry[m][j] /\ entry[m][j].addr # a
    BY <1>1, <1>6, <1>7 DEF ReadsTracked, Queued
  <2>2. \A k \in Kind : AddressesIn(k)' = IF k = m THEN AddressesIn(k) \ {a} ELSE AddressesIn(k)
    <3>1. AddressesIn(m)' = AddressesIn(m) \ {a}
      BY <1>6, <1>12, <2>1 DEF AddressesIn
    <3>2. \A k \in Kind : k # m => AddressesIn(k)' = AddressesIn(k)
      BY <1>7, <1>11 DEF AddressesIn
    <3> QED  BY <3>1, <3>2
  <2>3. waiting' = AddressesIn("read")'
    BY <1>1, <1>2, <1>4, <2>2 DEF ReadsTracked, Mode, Kind
  <2>4. \A k \in Kind : \A j, l \in Queued(k)' : entry'[k][j].addr = entry'[k][l].addr => j = l
    <3>1. \A k \in Kind : \A j \in Queued(k)' : j \in Queued(k) /\ entry'[k][j] = entry[k][j]
      BY <1>7, <1>11, <1>12, <2>1
    <3> QED  BY <1>1, <3>1 DEF ReadsTracked
  <2> QED  BY <2>3, <2>4 DEF ReadsTracked
<1> QED  BY <1>10, <1>14, <1>15, <1>16, <1>17 DEF IInv

\* A table that is not full has exactly one first unused entry.
LEMMA FirstUnusedExists ==
    ASSUME NEW k \in Kind, Queued(k) # Slot(k)
    PROVE  \E f \in Slot(k) \ Queued(k) : FirstUnused(k) = {f}
<1> DEFINE U == Slot(k) \ Queued(k)
           R == OpToRel(<, Nat)
<1>1. U # {} /\ U \subseteq Nat
  BY SlotsFinite DEF Queued, Slot
<1>2. \A i, j \in Nat : i < j => <<i, j>> \in R
  BY DEF OpToRel
<1>3. IsWellFoundedOn(R, Nat)
  BY NatLessThanWellFounded
<1> HIDE DEF R, U
<1>4. PICK f \in U : \A j \in U : ~(<<j, f>> \in R)
  BY <1>1, <1>3, WFMin
<1>5. ASSUME NEW j \in U PROVE f <= j
  <2>1. j \in Nat /\ f \in Nat
    BY <1>1
  <2>2. ~(j < f)
    <3>1. j < f => <<j, f>> \in R
      BY <1>2, <2>1
    <3> QED  BY <1>4, <3>1
  <2> QED  BY <2>1, <2>2
<1>6. \A i \in U : (\A j \in U : i <= j) <=> i = f
  BY <1>1, <1>5
<1> QED  BY <1>6 DEF FirstUnused, U

LEMMA InsertInv ==
    ASSUME IInv, NEW k \in Kind, NEW a \in Addr, AsksRoom(k), a \notin AddressesIn(k),
           Insert(k, a), waiting' = IF k = "read" THEN waiting \cup {a} ELSE waiting
    PROVE  IInv'
<1>1. TypeInv /\ BanksMatch /\ CountsExact /\ IndicesFresh /\ ReadsTracked
  BY DEF IInv
<1>2. PICK f \in Slot(k) \ Queued(k) : FirstUnused(k) = {f}
  <2>1. Queued(k) # Slot(k)
    BY <1>1, SlotsFinite DEF CountsExact, AsksRoom
  <2> QED  BY <2>1, FirstUnusedExists
<1>3. /\ entry' = [entry EXCEPT ![k] = [i \in Slot(k) |->
                     IF i = f THEN [addr |-> a, scheduled |-> FALSE] ELSE entry[k][i]]]
      /\ occupancy' = [occupancy EXCEPT ![k] = @ + 1]
      /\ toSchedule' = [toSchedule EXCEPT ![k] = Pending(entry'[k])]
      /\ UNCHANGED <<bank, scheduled, nextProcess, writeMode, at>>
  <2>1. \A i : i \in FirstUnused(k) <=> i = f
    BY <1>2
  <2>2. Cardinality(FirstUnused(k)) = 1
    BY <1>2, FS_Singleton
  <2> QED  BY <2>1, <2>2 DEF Insert
<1>4. /\ \A l \in Kind : l # k => entry'[l] = entry[l]
      /\ \A j \in Slot(k) : j # f => entry'[k][j] = entry[k][j]
      /\ entry'[k][f] = [addr |-> a, scheduled |-> FALSE]
      /\ entry' = [l \in Kind |-> entry'[l]]
  BY <1>1, <1>2, <1>3 DEF TypeInv
<1>5. entry'[k][f].addr = a /\ ~entry'[k][f].scheduled
  BY <1>4, EntryFields
<1>6. \A l \in Kind : entry'[l] \in [Slot(l) -> EntryType]
  <2>1. [addr |-> a, scheduled |-> FALSE] \in EntryType
    BY DEF EntryType
  <2>2. entry'[k] \in [Slot(k) -> EntryType]
    BY <1>1, <1>3, <2>1 DEF TypeInv
  <2> QED  BY <1>1, <1>4, <2>2 DEF TypeInv
<1>7. TypeInv'
  <2>1. occupancy' \in [Kind -> Int] /\ toSchedule' \in [Kind -> BOOLEAN]
    BY <1>1, <1>3 DEF TypeInv, Pending
  <2>2. waiting' \subseteq Addr
    BY <1>1 DEF TypeInv
  <2> QED  BY <1>1, <1>3, <1>4, <1>6, <2>1, <2>2 DEF TypeInv
<1>8. \A l \in Kind : l # k => Queued(l)' = Queued(l)
  BY <1>4 DEF Queued
<1>9. Queued(k)' = Queued(k) \cup {f}
  BY <1>2, <1>4, <1>5, DramAssumption DEF Queued
<1>10. \A l \in Kind : InService(entry'[l]) = InService(entry[l])
  <2>1. f \notin InService(entry[k])
    BY <1>1, <1>2 DEF BanksMatch
  <2>2. /\ InService(entry'[k]) = {j \in Slot(k) : entry'[k][j].scheduled}
        /\ InService(entry[k]) = {j \in Slot(k) : entry[k][j].scheduled}
    BY <1>1, <1>6, InServiceSlots DEF TypeInv
  <2>3. InService(entry'[k]) = InService(entry[k])
    BY <1>4, <1>5, <2>1, <2>2
  <2> QED  BY <1>4, <2>3
<1>11. \A l \in Kind : \A j \in Queued(l) : j \in Queued(l)' /\ entry'[l][j] = entry[l][j]
  BY <1>2, <1>4, <1>8, <1>9 DEF Queued
<1>12. BanksMatch'
  <2>1. ASSUME NEW l \in Kind, NEW j \in InService(entry'[l])
        PROVE  /\ j \in Queued(l)'
               /\ bank'[BankFor(l, j)'] = [serving |-> l, index |-> j,
                                           row |-> RowOf[entry'[l][j].addr]]
    <3>1. j \in Queued(l) /\ bank[BankFor(l, j)] = [serving |-> l, index |-> j,
                                                    row |-> RowOf[entry[l][j].addr]]
      BY <1>1, <1>10, <2>1 DEF BanksMatch
    <3>2. j \in Queued(l)' /\ entry'[l][j] = entry[l][j] /\ BankFor(l, j)' = BankFor(l, j)
      BY <1>11, <3>1 DEF BankFor
    <3> QED  BY <1>3, <3>1, <3>2
  <2>2. ASSUME NEW c \in Bank, bank'[c].serving # "none"
        PROVE  /\ bank'[c].index \in InService(entry'[bank'[c].serving])
               /\ BankOf[entry'[bank'[c].serving][bank'[c].index].addr] = c
    <3>1. PICK l, j : l = bank[c].serving /\ j = bank[c].index
      OBVIOUS
    <3>2. bank'[c] = bank[c] /\ l \in Kind
      BY <1>1, <1>3, <2>2, <3>1 DEF TypeInv, BankType
    <3>3. j \in InService(entry[l]) /\ BankOf[entry[l][j].addr] = c
      BY <1>1, <2>2, <3>1, <3>2 DEF BanksMatch, BankFor
    <3>4. j \in Queued(l)
      BY <1>1, <3>2, <3>3 DEF BanksMatch
    <3> QED  BY <1>10, <1>11, <3>1, <3>2, <3>3, <3>4
  <2> QED  BY <2>1, <2>2 DEF BanksMatch, BankFor
<1>13. CountsExact'
  <2>1. Cardinality(Queued(k)') = Cardinality(Queued(k)) + 1
    BY <1>2, <1>9, QueuedFinite, FS_AddElement
  <2>2. \A l \in Kind : occupancy'[l] = IF l = k THEN occupancy[l] + 1 ELSE occupancy[l]
    BY <1>1, <1>3 DEF TypeInv
  <2>3. \A l \in Kind : occupancy'[l] = Cardinality(Queued(l)')
    BY <1>1, <1>8, <2>1, <2>2 DEF CountsExact
  <2>4. Mode' = Mode
    BY <1>3 DEF Mode
  <2> QED  BY <1>1, <1>3, <2>3, <2>4 DEF CountsExact
<1>14. IndicesFresh'
  <2>1. ASSUME NEW l \in Kind
        PROVE  toSchedule'[l] <=> \E j \in Queued(l)' : ~entry'[l][j].scheduled
    <3>1. CASE l = k
      <4>1. toSchedule'[k] <=> Pending(entry'[k])
        BY <1>1, <1>3 DEF TypeInv
      <4>2. DOMAIN entry'[k] = Slot(k)
        BY <1>6
      <4> QED  BY <3>1, <4>1, <4>2 DEF Pending, Queued
    <3>2. CASE l # k
      <4>1. toSchedule'[l] = toSchedule[l]
        BY <1>1, <1>3, <3>2 DEF TypeInv
      <4> QED  BY <1>1, <1>4, <1>8, <3>2, <4>1 DEF IndicesFresh
    <3> QED  BY <3>1, <3>2
  <2> QED  BY <1>1, <1>3, <1>10, <2>1 DEF IndicesFresh
<1>15. ReadsTracked'
  <2>1. /\ AddressesIn(k)' = AddressesIn(k) \cup {a}
        /\ \A l \in Kind : l # k => AddressesIn(l)' = AddressesIn(l)
    <3>1. AddressesIn(k)' = AddressesIn(k) \cup {a}
      BY <1>5, <1>9, <1>11 DEF AddressesIn
    <3>2. \A l \in Kind : l # k => AddressesIn(l)' = AddressesIn(l)
      BY <1>4, <1>8 DEF AddressesIn
    <3> QED  BY <3>1, <3>2
  <2>2. waiting' = AddressesIn("read")'
    BY <1>1, <2>1 DEF ReadsTracked, Kind
  <2>3. \A j, l \in Queued(k)' : entry'[k][j].addr = entry'[k][l].addr => j = l
    <3>1. \A j \in Queued(k) : entry'[k][j].addr = entry[k][j].addr /\ entry[k][j].addr # a
      BY <1>11 DEF AddressesIn
    <3> QED  BY <1>1, <1>5, <1>9, <3>1 DEF ReadsTracked
  <2>4. ASSUME NEW h \in Kind, h # k
        PROVE  \A j, l \in Queued(h)' : entry'[h][j].addr = entry'[h][l].addr => j = l
    BY <1>1, <1>4, <1>8, <2>4 DEF ReadsTracked
  <2> QED  BY <2>2, <2>3, <2>4 DEF ReadsTracked
<1> QED  BY <1>7, <1>12, <1>13, <1>14, <1>15 DEF IInv

-----------------------------------------------------------------------------
(* The invariant *)

\* No read is ever merged with one in the read table: the LLC waits for those already.
LEMMA RequestInv ==
    ASSUME IInv, NewRequest
    PROVE  IInv'
<1>1. PICK a \in Addr : AddRq(a) \/ AddWq(a)
  BY DEF NewRequest
<1>2. CASE AddRq(a)
  <2>1. a \notin AddressesIn("read")
    BY <1>2 DEF AddRq, IInv, ReadsTracked
  <2> QED  BY <1>2, <2>1, InsertInv DEF AddRq, Kind
<1>3. CASE AddWq(a)
  BY <1>3, InsertInv DEF AddWq, Kind
<1> QED  BY <1>1, <1>2, <1>3

LEMMA StandsStill ==
    ASSUME IInv, at' \in {"mode", "schedule", "process"},
           UNCHANGED <<entry, occupancy, bank, scheduled, toSchedule, nextProcess, writeMode,
                       waiting>>
    PROVE  IInv'
<1>1. /\ \A k \in Kind : Queued(k)' = Queued(k) /\ AddressesIn(k)' = AddressesIn(k)
      /\ Mode' = Mode
  BY DEF Queued, AddressesIn, Mode
<1>2. TypeInv'
  BY DEF IInv, TypeInv
<1>3. BanksMatch'
  BY <1>1 DEF IInv, BanksMatch, BankFor
<1>4. CountsExact'
  BY <1>1 DEF IInv, CountsExact
<1>5. IndicesFresh'
  BY <1>1 DEF IInv, IndicesFresh
<1>6. ReadsTracked'
  BY <1>1 DEF IInv, ReadsTracked, Kind
<1> QED  BY <1>2, <1>3, <1>4, <1>5, <1>6 DEF IInv

LEMMA SwitchInv ==
    ASSUME IInv, SwitchMode
    PROVE  IInv'
<1>1. TypeInv
  BY DEF IInv
<1>2. CASE StartsWriting /\ writeMode' = TRUE /\ ResetRemainRequests("read")
  <2>1. Mode = "read" /\ Mode' # "read" /\ "read" \in Kind
    BY <1>2 DEF StartsWriting, Mode, Kind
  <2> QED  BY <1>2, <2>1, ResetInv DEF SwitchMode
<1>3. CASE StopsWriting /\ writeMode' = FALSE /\ ResetRemainRequests("write")
  <2>1. Mode = "write" /\ Mode' # "write" /\ "write" \in Kind
    BY <1>3 DEF StopsWriting, Mode, Kind
  <2> QED  BY <1>3, <2>1, ResetInv DEF SwitchMode
<1>4. CASE UNCHANGED <<entry, bank, scheduled, toSchedule, nextProcess, writeMode>>
  BY <1>4, StandsStill DEF SwitchMode
<1> QED  BY <1>2, <1>3, <1>4 DEF SwitchMode

LEMMA IdleInv ==
    ASSUME IInv, NotDue \/ UNCHANGED vars
    PROVE  IInv'
<1>1. CASE NotDue
  BY <1>1, StandsStill DEF NotDue
<1>2. CASE UNCHANGED vars
  <2>1. at' \in {"mode", "schedule", "process"}
    BY <1>2 DEF vars, IInv, TypeInv
  <2> QED  BY <1>2, <2>1, StandsStill DEF vars
<1> QED  BY <1>1, <1>2

\* Every reachable state satisfies the invariant.
THEOREM DramInvariant == Spec => []IInv
<1>1. IInv /\ [Next]_vars => IInv'
  BY ScheduleInv, ProcessInv, SwitchInv, IdleInv, RequestInv DEF Next, Operate
<1> QED  BY <1>1, InitIInv, PTL DEF Spec

\* The tables, banks and counters keep their types and ranges, whatever requests arrive.
THEOREM DramTypes == Spec => []TypeOK
  BY DramInvariant, TypesFollow, PTL

\* A scheduled request and the bank serving it always name each other, so the assertions in
\* process, and the index it takes from the bank, are right.
THEOREM BanksAlwaysMatch == Spec => []BanksMatch
<1>1. IInv => BanksMatch
  BY DEF IInv
<1> QED  BY <1>1, DramInvariant, PTL

\* The counters never drift from what they count, so the watermarks of operate and the tests
\* for room see the true occupancy and reset_remain_requests leaves nothing scheduled.
THEOREM CountsAlwaysExact == Spec => []CountsExact
<1>1. IInv => CountsExact
  BY DEF IInv
<1> QED  BY <1>1, DramInvariant, PTL

\* The cached indices of schedule and process are never stale.
THEOREM IndicesAlwaysFresh == Spec => []IndicesFresh
<1>1. IInv => IndicesFresh
  BY DEF IInv
<1> QED  BY <1>1, DramInvariant, PTL

\* No read is lost in the tables or queued twice: the LLC waits for exactly what is queued.
THEOREM ReadsAlwaysTracked == Spec => []ReadsTracked
<1>1. IInv => ReadsTracked
  BY DEF IInv
<1> QED  BY <1>1, DramInvariant, PTL
=============================================================================
