------------------------ MODULE OooCpuProgress_proofs ------------------------
(***************************************************************************)
(* When the core cannot stop.  The simulator stops at an assert when an    *)
(* executed store finds a dependent load that names another producer, and  *)
(* its core wedges when the oldest instruction can neither move nor        *)
(* retire.  For instructions with one load and one store at most, and a    *)
(* scheduling window no larger than the load queue, neither happens.       *)
(***************************************************************************)
EXTENDS OooCpu_proofs, SequenceTheorems

OneLoad == \A k \in Kinds : \A a, b \in k.load : a = b
OneStore == \A k \in Kinds : \A a, b \in k.store : a = b

\* A store lists only loads that it is the youngest older store for, and a load that is
\* done has been forwarded or waited for.
Listed(i) == \A j \in rob[i].memDependents : \E a \in Addr : LastStore(j, a, i)
Forwards(i, a) ==
    rob[i].load[a] = "done" => \A p \in Older(i) : LastStore(i, a, p) => rob[p].store[a] = "done"
Linked == \A i \in InRob : Listed(i) /\ \A a \in Addr : Forwards(i, a)

\* An instruction is looked at again as long as it has an operand to add, and is running
\* once it has none; only the scheduling window is scheduled.
Opened(i) ==
    /\ rob[i].front # "none"
    /\ rob[i].scheduled = "inflight" => TodoLoads(i) \cup TodoStores(i) # {}
    /\ rob[i].scheduled = "done" /\ IsMemory(i) =>
          TodoLoads(i) \cup TodoStores(i) = {} /\ rob[i].executed # "no"
    /\ rob[i].scheduled # "no" => i - head < SchedulerSize

\* Fetch stalls for a branch that has yet to complete.
BranchPending ==
    stall = "yes" => \E i \in InRob : rob[i].ins.miss /\ rob[i].executed # "done"

PInv ==
    /\ IInv /\ Linked /\ BranchPending
    /\ \A i \in InRob : Opened(i)

-----------------------------------------------------------------------------
(* Loads and the stores they wait for *)

LEMMA LastStoreUnique ==
    ASSUME TypeOK, NEW i \in InRob, NEW a, NEW p, NEW q, LastStore(i, a, p), LastStore(i, a, q)
    PROVE  p = q
<1>1. i \in Nat /\ head \in Nat
  BY WindowIsId
<1>. QED BY <1>1 DEF LastStore, Older

\* A step inside the window.
LEMMA LinkedKept ==
    ASSUME IInv, Linked, UNCHANGED <<head, tail>>,
           \A i \in InRob :
              /\ rob'[i].ins = rob[i].ins
              /\ \A j \in rob'[i].memDependents :
                    j \in rob[i].memDependents \/ (j \in InRob /\ \E a \in Addr : LastStore(j, a, i))
              /\ \A a \in Addr :
                    /\ rob[i].store[a] = "done" => rob'[i].store[a] = "done"
                    /\ rob'[i].load[a] = "done" =>
                          \/ rob[i].load[a] = "done"
                          \/ \A p \in Older(i) : LastStore(i, a, p) => rob'[p].store[a] = "done"
    PROVE  Linked'
<1>1. /\ InRob' = InRob /\ \A i : Older(i)' = Older(i)
      /\ \A i \in InRob : Older(i) \subseteq InRob /\ i \in Nat
      /\ head \in Nat /\ tail \in Nat
  BY WindowIsId DEF IInv, InRob, Older
<1>2. ASSUME NEW j \in InRob, NEW a, NEW p
      PROVE  LastStore(j, a, p)' <=> LastStore(j, a, p)
  <2>1. CASE p \in Older(j)
    <3>1. \A q \in p .. j - 1 : q \in InRob
      BY <1>1, <2>1 DEF Older, InRob
    <3>2. \A q \in p + 1 .. j - 1 : rob'[q].ins = rob[q].ins
      BY <1>1, <2>1, <3>1 DEF Older
    <3>3. rob'[p].ins = rob[p].ins
      BY <1>1, <2>1
    <3>. QED BY <1>1, <3>2, <3>3 DEF LastStore
  <2>2. CASE p \notin Older(j)
    BY <1>1, <2>2 DEF LastStore
  <2>. QED BY <2>1, <2>2
<1>3. ASSUME NEW i \in InRob PROVE Listed(i)'
  <2>1. ASSUME NEW j \in rob'[i].memDependents PROVE \E a \in Addr : LastStore(j, a, i)'
    <3>1. PICK a \in Addr : LastStore(j, a, i)
      BY <2>1 DEF Linked, Listed
    <3>2. j \in InRob
      <4>1. CASE j \in rob[i].memDependents
        BY <1>1, <4>1 DEF IInv, Named, InRob
      <4>2. CASE j \notin rob[i].memDependents
        BY <1>1, <2>1, <4>2
      <4>. QED BY <4>1, <4>2
    <3>. QED BY <1>2, <3>1, <3>2
  <2>. QED BY <2>1 DEF Listed
<1>4. ASSUME NEW i \in InRob, NEW a \in Addr PROVE Forwards(i, a)'
  <2>1. SUFFICES ASSUME rob'[i].load[a] = "done", NEW p \in Older(i), LastStore(i, a, p)
                 PROVE  rob'[p].store[a] = "done"
    BY <1>1, <1>2 DEF Forwards
  <2>. QED BY <1>1, <2>1 DEF Linked, Forwards
<1>. QED BY <1>1, <1>3, <1>4 DEF Linked

LEMMA ReadTraceLinked ==
    ASSUME IInv, Linked, NEW k \in Kinds, ReadTrace(k)
    PROVE  Linked'
<1>1. /\ head' = head /\ InRob' = InRob \cup {tail} /\ tail \notin InRob
      /\ \A i \in InRob : rob'[i] = rob[i] /\ i \in Nat /\ i < tail
      /\ \A i : Older(i)' = Older(i)
      /\ \A i \in InRob : Older(i) \subseteq InRob
      /\ head \in Nat /\ tail \in Nat
  BY ReadTraceEffect, WindowIsId DEF IInv, InRob, Older
<1>2. ASSUME NEW j \in InRob, NEW a, NEW p
      PROVE  LastStore(j, a, p)' <=> LastStore(j, a, p)
  <2>1. CASE p \in Older(j)
    <3>1. \A q \in p .. j - 1 : q \in InRob
      BY <1>1, <2>1 DEF Older, InRob
    <3>2. \A q \in p + 1 .. j - 1 : rob'[q].ins = rob[q].ins
      BY <1>1, <2>1, <3>1 DEF Older
    <3>3. rob'[p].ins = rob[p].ins
      BY <1>1, <2>1
    <3>. QED BY <1>1, <3>2, <3>3 DEF LastStore
  <2>2. CASE p \notin Older(j)
    BY <1>1, <2>2 DEF LastStore
  <2>. QED BY <2>1, <2>2
<1>3. rob'[tail] = Fresh(k)
  BY ReadTraceEffect
<1>4. rob'[tail].memDependents = {} /\ \A a \in Addr : rob'[tail].load[a] # "done"
  BY <1>3 DEF Fresh
<1>5. ASSUME NEW i \in InRob PROVE Listed(i)'
  <2>1. \A j \in rob[i].memDependents : j \in InRob
    BY <1>1 DEF IInv, Named, InRob
  <2>2. rob'[i].memDependents = rob[i].memDependents /\ Listed(i)
    BY <1>1 DEF Linked
  <2>. QED BY <1>2, <2>1, <2>2 DEF Listed
<1>6. ASSUME NEW i \in InRob, NEW a \in Addr PROVE Forwards(i, a)'
  <2>1. Forwards(i, a) /\ rob'[i] = rob[i] /\ \A p \in Older(i) : rob'[p] = rob[p]
    BY <1>1 DEF Linked
  <2>. QED BY <1>1, <1>2, <2>1 DEF Forwards
<1>7. ASSUME NEW i, i = tail PROVE Listed(i)' /\ \A a \in Addr : Forwards(i, a)'
  BY <1>4, <1>7 DEF Listed, Forwards
<1>. QED BY <1>1, <1>5, <1>6, <1>7 DEF Linked

LEMMA RetireLinked ==
    ASSUME IInv, Linked, Retire
    PROVE  Linked'
<1>1. /\ head \in Nat /\ head' = head + 1 /\ tail' = tail /\ InRob' = InRob \ {head}
      /\ \A i \in InRob' : rob'[i] = rob[i] /\ i \in Nat /\ i > head
      /\ \A i \in InRob' : Older(i)' = Older(i) \ {head} /\ Older(i)' \subseteq InRob'
  <2>1. head \in Nat /\ tail \in Nat /\ InRob \subseteq Id /\ \A i \in InRob : i \in Nat
    BY WindowIsId DEF IInv
  <2>2. /\ head' = head + 1 /\ tail' = tail /\ InRob' = InRob \ {head}
        /\ \A i \in Id : i # head => rob'[i] = rob[i]
    BY RetireEffect
  <2>. QED BY <2>1, <2>2 DEF InRob, Older
<1>2. ASSUME NEW j \in InRob', NEW a, NEW p, p # head
      PROVE  LastStore(j, a, p)' <=> LastStore(j, a, p)
  <2>1. CASE p \in Older(j)
    <3>1. \A q \in p .. j - 1 : q \in InRob'
      BY <1>1, <1>2, <2>1 DEF Older, InRob
    <3>2. \A q \in p + 1 .. j - 1 : rob'[q] = rob[q]
      BY <1>1, <2>1, <3>1 DEF Older
    <3>3. rob'[p] = rob[p] /\ p \in Older(j)'
      BY <1>1, <1>2, <2>1
    <3>. QED BY <1>1, <2>1, <3>2, <3>3 DEF LastStore
  <2>2. CASE p \notin Older(j)
    BY <1>1, <2>2 DEF LastStore
  <2>. QED BY <2>1, <2>2
<1>3. ASSUME NEW i \in InRob' PROVE Listed(i)'
  <2>1. i \in InRob /\ i # head /\ tail' = tail /\ tail \in Nat /\ head \in Nat /\ i \in Nat
    BY <1>1, WindowIsId DEF IInv
  <2>2. \A j \in rob[i].memDependents : j \in InRob'
    BY <1>1, <2>1 DEF IInv, Named, InRob
  <2>3. rob'[i].memDependents = rob[i].memDependents /\ Listed(i)
    BY <1>1, <2>1 DEF Linked
  <2>. QED BY <1>2, <2>1, <2>2, <2>3 DEF Listed
<1>4. ASSUME NEW i \in InRob', NEW a \in Addr PROVE Forwards(i, a)'
  <2>1. /\ Forwards(i, a) /\ rob'[i] = rob[i]
        /\ \A p \in Older(i)' : rob'[p] = rob[p] /\ p # head /\ p \in Older(i)
    BY <1>1 DEF Linked
  <2>. QED BY <1>2, <2>1 DEF Forwards
<1>. QED BY <1>3, <1>4 DEF Linked

LEMMA MovedLinked ==
    ASSUME IInv, Linked, UNCHANGED <<head, tail>>, \A i \in Id : Moved(i)
    PROVE  Linked'
<1>1. ASSUME NEW i \in InRob
      PROVE  /\ rob'[i].ins = rob[i].ins /\ rob'[i].memDependents = rob[i].memDependents
             /\ \A a \in Addr : /\ rob[i].store[a] = "done" => rob'[i].store[a] = "done"
                                /\ rob'[i].load[a] = "done" => rob[i].load[a] = "done"
  <2>1. SameSources(i)
    BY WindowIsId DEF IInv, Moved
  <2>. QED BY <2>1 DEF SameSources, SameLoad, SameStore
<1>. QED BY <1>1, LinkedKept

LEMMA LoadDoneLinked ==
    ASSUME IInv, Linked, NEW i \in Id, NEW a \in Addr, LoadDone(i, a)
    PROVE  Linked'
<1>1. NoStore(i, a) /\ i \in InRob /\ InRob \subseteq Id
  BY LoadDoneEffect, WindowIsId DEF IInv, Sourced
<1>2. ASSUME NEW j \in InRob
      PROVE  /\ rob'[j].ins = rob[j].ins /\ rob'[j].memDependents = rob[j].memDependents
             /\ \A b \in Addr : /\ rob[j].store[b] = "done" => rob'[j].store[b] = "done"
                                /\ rob'[j].load[b] = "done" =>
                                      rob[j].load[b] = "done" \/ (j = i /\ b = a)
  <2>1. CASE j = i
    BY <2>1, LoadDoneEffect
  <2>2. CASE j # i
    BY <1>1, <2>2, LoadDoneEffect
  <2>. QED BY <2>1, <2>2
<1>3. \A p \in Older(i) : ~LastStore(i, a, p)
  BY <1>1 DEF NoStore, LastStore
<1>4. UNCHANGED <<head, tail>>
  BY LoadDoneEffect
<1>. QED BY <1>2, <1>3, <1>4, LinkedKept

LEMMA ExecuteStoreLinked ==
    ASSUME IInv, Linked, NEW i \in Id, NEW a \in Addr, ExecuteStore(i, a)
    PROVE  Linked'
<1>1. /\ i \in InRob /\ InRob \subseteq Id /\ UNCHANGED <<head, tail>>
      /\ Dependents(i, a) \subseteq InRob
      /\ \A j \in Dependents(i, a) : rob[j].load[a] = "waiting" /\ rob[j].from[a] = i
  BY DependentsWait, ExecuteStoreEffect, WindowIsId DEF IInv
<1>2. \A j \in Dependents(i, a) : LastStore(j, a, i)
  BY <1>1 DEF IInv, Sourced
<1>3. \A j \in Dependents(i, a) : \A p \in Older(j) : LastStore(j, a, p) => p = i
  BY <1>1, <1>2, LastStoreUnique DEF IInv
<1>4. rob'[i].store[a] = "done"
  BY ExecuteStoreEffect
<1>5. ASSUME NEW j \in InRob
      PROVE  /\ rob'[j].ins = rob[j].ins /\ rob'[j].memDependents = rob[j].memDependents
             /\ \A b \in Addr : /\ rob[j].store[b] = "done" => rob'[j].store[b] = "done"
                                /\ rob'[j].load[b] = "done" =>
                                      rob[j].load[b] = "done" \/ (j \in Dependents(i, a) /\ b = a)
  BY <1>1, ExecuteStoreEffect
<1>. QED BY <1>1, <1>3, <1>4, <1>5, LinkedKept

LEMMA RegistersLinked ==
    ASSUME IInv, Linked, NEW i \in Id, Schedule(i) \/ Execute(i) \/ Complete(i)
    PROVE  Linked'
<1>1. UNCHANGED <<head, tail>> /\ InRob \subseteq Id
  BY ScheduleEffect, ExecuteEffect, CompleteEffect, WindowIsId DEF IInv
<1>2. \A j \in Id : /\ rob'[j].ins = rob[j].ins /\ rob'[j].memDependents = rob[j].memDependents
                    /\ rob'[j].load = rob[j].load /\ rob'[j].store = rob[j].store
  BY ScheduleEffect, ExecuteEffect, CompleteEffect
<1>. QED BY <1>1, <1>2, LinkedKept

LEMMA MemScheduleLinked ==
    ASSUME IInv, Linked, NEW i \in Id, MemSchedule(i)
    PROVE  Linked'
<1>1. i \in InRob /\ InRob \subseteq Id /\ UNCHANGED <<head, tail>>
  BY MemSchedulable, WindowIsId DEF IInv
<1>2. PICK L \in SUBSET TodoLoads(i), S \in SUBSET TodoStores(i) : MemAdded(i, L, S)
  BY MemScheduleEffect
<1>3. L \subseteq Addr /\ \A a \in Addr : rob[i].store[a] = "done" => a \notin S
  BY DEF TodoLoads, TodoStores
<1>4. ASSUME NEW j \in InRob, NEW k \in rob'[j].memDependents
      PROVE  k \in rob[j].memDependents \/ (k \in InRob /\ \E a \in Addr : LastStore(k, a, j))
  <2>1. CASE j = i
    BY <1>2, <1>4, <2>1 DEF MemAdded
  <2>2. CASE j # i /\ k \notin rob[j].memDependents
    <3>1. k = i /\ \E a \in L : MemProducer(i, a) = j
      <4>1. rob'[j].memDependents = rob[j].memDependents
                \cup {m \in {i} : \E a \in L : MemProducer(i, a) = j}
        BY <1>1, <1>2, <2>2 DEF MemAdded
      <4>. QED BY <1>4, <2>2, <4>1
    <3>2. j # 0 /\ TypeOK
      BY <1>1, CoreAssumption DEF IInv, Id
    <3>3. PICK a \in L : MemProducer(i, a) = j
      BY <3>1
    <3>4. a \in Addr /\ LastStore(i, a, j)
      BY <1>1, <1>3, <3>2, <3>3, MemProducerIs
    <3>. QED BY <1>1, <3>1, <3>4
  <2>. QED BY <2>1, <2>2
<1>5. ASSUME NEW j \in InRob, NEW a \in Addr
      PROVE  /\ rob[j].store[a] = "done" => rob'[j].store[a] = "done"
             /\ rob'[j].load[a] = "done" =>
                   rob[j].load[a] = "done" \/ (j = i /\ a \in Forwarded(i, L))
  <2>1. CASE j = i
    BY <1>2, <1>3, <2>1 DEF MemAdded, Enters
  <2>2. CASE j # i
    BY <1>1, <1>2, <2>2 DEF MemAdded
  <2>. QED BY <2>1, <2>2
<1>6. ASSUME NEW a \in Forwarded(i, L), NEW p \in Older(i), LastStore(i, a, p)
      PROVE  rob'[p].store[a] = "done"
  <2>1. a \in Addr /\ MemProducer(i, a) # 0 /\ rob[MemProducer(i, a)].store[a] = "done"
    BY <1>3 DEF Forwarded
  <2>2. LastStore(i, a, MemProducer(i, a))
    BY <1>1, <2>1, MemProducerIs DEF IInv
  <2>3. p = MemProducer(i, a) /\ p \in InRob
    BY <1>1, <1>6, <2>2, LastStoreUnique, WindowIsId DEF IInv
  <2>. QED BY <1>5, <2>1, <2>3
<1>7. \A j \in InRob : rob'[j].ins = rob[j].ins
  BY <1>1, <1>2 DEF MemAdded
<1>. QED BY <1>1, <1>4, <1>5, <1>6, <1>7, LinkedKept

LEMMA StutterLinked ==
    ASSUME IInv, Linked, ResumeFetch \/ UNCHANGED vars
    PROVE  Linked'
<1>1. UNCHANGED <<head, tail, rob>>
  BY DEF ResumeFetch, vars, retirement
<1>. QED BY <1>1, LinkedKept

LEMMA NextLinked == IInv /\ Linked /\ [Next]_vars => Linked'
<1>. SUFFICES ASSUME IInv, Linked, [Next]_vars PROVE Linked'
  OBVIOUS
<1>1. CASE UNCHANGED vars
  BY <1>1, StutterLinked
<1>2. CASE FrontEnd
  <2>1. {"read", "translating", "translated", "fetching", "fetched"} \subseteq Stage
    BY DEF Stage
  <2>2. CASE \E k \in Kinds : ReadTrace(k)
    BY <2>2, ReadTraceLinked
  <2>3. CASE ResumeFetch
    BY <2>3, StutterLinked
  <2>4. ASSUME NEW i \in Id, SendToItlb(i) \/ ItlbDone(i) \/ SendToL1I(i) \/ L1IDone(i)
        PROVE  Linked'
    <3>1. PICK old, new \in Stage : SetFront(i, old, new)
      BY <2>1, <2>4 DEF SendToItlb, ItlbDone, SendToL1I, L1IDone
    <3>2. UNCHANGED <<head, tail>> /\ \A j \in Id : Moved(j)
      BY <3>1, SetFrontMoves DEF SetFront, retirement
    <3>. QED BY <3>2, MovedLinked
  <2>. QED BY <1>2, <2>2, <2>3, <2>4 DEF FrontEnd
<1>3. CASE Registers
  BY <1>3, RegistersLinked DEF Registers
<1>4. CASE Memory
  <2>1. ASSUME NEW i \in Id, MemSchedule(i) PROVE Linked'
    BY <2>1, MemScheduleLinked
  <2>2. ASSUME NEW i \in Id, NEW a \in Addr, StoreToDtlb(i, a) \/ StoreTranslated(i, a)
        PROVE  Linked'
    <3>1. UNCHANGED <<head, tail>> /\ \A j \in Id : Moved(j)
      BY <2>2, SetStoreMoves DEF StoreToDtlb, StoreTranslated, SetStore, retirement
    <3>. QED BY <3>1, MovedLinked
  <2>3. ASSUME NEW i \in Id, NEW a \in Addr,
               LoadToDtlb(i, a) \/ LoadTranslated(i, a) \/ ExecuteLoad(i, a)
        PROVE  Linked'
    <3>1. UNCHANGED <<head, tail>> /\ \A j \in Id : Moved(j)
      BY <2>3, SetLoadMoves DEF LoadToDtlb, LoadTranslated, ExecuteLoad, SetLoad, retirement
    <3>. QED BY <3>1, MovedLinked
  <2>4. ASSUME NEW i \in Id, NEW a \in Addr, ExecuteStore(i, a) \/ LoadDone(i, a)
        PROVE  Linked'
    BY <2>4, ExecuteStoreLinked, LoadDoneLinked
  <2>. QED BY <1>4, <2>1, <2>2, <2>3, <2>4 DEF Memory
<1>5. CASE Retire
  BY <1>5, RetireLinked
<1>. QED BY <1>1, <1>2, <1>3, <1>4, <1>5 DEF Next

LEMMA LinkedAlways == Spec => [](IInv /\ Linked)
<1>1. Init => Linked
  BY DEF Init, Linked, InRob
<1>. QED BY <1>1, NextLinked, InvAlways, PTL DEF Spec

\* The assert of execute_store: each load that a store finds waits for that store.
StoreAssertHolds ==
    \A i \in InRob, a \in Addr :
        rob[i].store[a] = "ready" => \A j \in Dependents(i, a) : WaitsOn(j, i, a)

LEMMA StoreFindsWaiting == IInv /\ Linked /\ OneStore => StoreAssertHolds
<1>. SUFFICES ASSUME IInv, Linked, OneStore, NEW i \in InRob, NEW a \in Addr,
                     rob[i].store[a] = "ready", NEW j \in Dependents(i, a)
              PROVE  WaitsOn(j, i, a)
  BY DEF StoreAssertHolds
<1>1. /\ j \in rob[i].memDependents /\ rob[j].load[a] \notin {"none", "todo"}
      /\ j \in InRob /\ j \in Id /\ i \in Nat
  BY WindowIsId DEF Dependents, IInv, Named, InRob
<1>2. PICK b \in Addr : LastStore(j, b, i)
  BY <1>1 DEF Linked, Listed
<1>3. LastStore(j, a, i) /\ i \in Older(j)
  <2>1. rob[i].ins \in Kinds /\ a \in rob[i].ins.store /\ b \in rob[i].ins.store
    BY <1>2 DEF IInv, Entered, LastStore
  <2>. QED BY <1>2, <2>1 DEF OneStore, LastStore
<1>4. rob[j].load[a] \in {"waiting", "queued", "translating", "ready", "issued", "done"}
  <2>1. rob[j].load[a] \in LoadState
    BY <1>1, EntryTypes DEF IInv
  <2>. QED BY <1>1, <2>1 DEF LoadState
<1>5. ~NoStore(j, a)
  BY <1>3 DEF LastStore, NoStore
<1>6. rob[j].load[a] = "waiting"
  BY <1>1, <1>3, <1>4, <1>5 DEF IInv, Sourced, Linked, Forwards
<1>7. rob[j].from[a] = i
  BY <1>1, <1>3, <1>6, LastStoreUnique DEF IInv, Sourced
<1>. QED BY <1>6, <1>7 DEF WaitsOn

\* No assert of execute_store fails, whatever the order in which stores execute and loads
\* enter their queue, as long as an instruction stores to one place at most.  (With two
\* places it fails when a load of the second one depends on a younger store for it.)
THEOREM StoreAssertAlwaysHolds == Spec /\ OneStore => []StoreAssertHolds
<1>. SUFFICES ASSUME OneStore PROVE Spec => []StoreAssertHolds
  OBVIOUS
<1>1. IInv /\ Linked => StoreAssertHolds
  BY StoreFindsWaiting
<1>. QED BY <1>1, LinkedAlways, PTL

-----------------------------------------------------------------------------
(* The stages of an instruction *)

FrontKept(i) == rob'[i].front = rob[i].front

LEMMA RegistersKeepFront ==
    ASSUME TypeOK, NEW i \in Id, Schedule(i) \/ Execute(i) \/ Complete(i)
    PROVE  \A j \in Id : FrontKept(j)
<1>1. rob \in [Id -> Entry] /\ \A j \in Id : rob[j] \in Entry
  BY DEF TypeOK
<1>2. ASSUME NEW r \in Entry, NEW x, NEW y
      PROVE  /\ [r EXCEPT !.scheduled = x, !.numRegDependent = y].front = r.front
             /\ [r EXCEPT !.regDependents = x].front = r.front
             /\ [r EXCEPT !.executed = x].front = r.front
             /\ [r EXCEPT !.numRegDependent = x].front = r.front
  BY DEF Entry
<1>3. CASE Schedule(i)
  BY <1>1, <1>2, <1>3 DEF Schedule, FrontKept
<1>4. CASE Execute(i)
  BY <1>1, <1>2, <1>4 DEF Execute, FrontKept
<1>5. CASE Complete(i)
  BY <1>1, <1>2, <1>5 DEF Complete, FrontKept
<1>. QED BY <1>3, <1>4, <1>5

LEMMA MemScheduleKeepsFront ==
    ASSUME TypeOK, NEW i \in Id, MemSchedule(i)
    PROVE  \A j \in Id : FrontKept(j)
<1>1. rob \in [Id -> Entry] /\ \A j \in Id : rob[j] \in Entry
  BY DEF TypeOK
<1>2. ASSUME NEW r \in Entry, NEW x PROVE [r EXCEPT !.memDependents = x].front = r.front
  BY DEF Entry
<1>3. ASSUME NEW r \in Entry, NEW l, NEW f, NEW s, NEW n, NEW c, NEW x
      PROVE  [r EXCEPT !.load = l, !.from = f, !.store = s, !.numMemOps = n,
                       !.scheduled = c, !.executed = x].front = r.front
  BY DEF Entry
<1>4. \A L, S : Added(i, L, S).front = rob[i].front
  BY <1>1, <1>3 DEF Added
<1>5. PICK L, S :
         rob' = [j \in Id |->
              IF j = i THEN Added(i, L, S)
              ELSE IF \E a \in L : MemProducer(i, a) = j
                     THEN [rob[j] EXCEPT !.memDependents = @ \cup {i}]
                     ELSE rob[j]]
  BY DEF MemSchedule
<1>6. ASSUME NEW j \in Id PROVE rob'[j].front = rob[j].front
  <2>1. CASE j = i
    BY <1>4, <1>5, <2>1
  <2>2. CASE j # i
    BY <1>1, <1>2, <1>5, <2>2
  <2>. QED BY <2>1, <2>2
<1>. QED BY <1>6 DEF FrontKept

LEMMA OperandKeepsFront ==
    ASSUME TypeOK, NEW i \in Id, NEW a \in Addr,
           \/ LoadDone(i, a) \/ ExecuteStore(i, a)
           \/ \E old, new : SetLoad(i, a, old, new) \/ SetStore(i, a, old, new)
    PROVE  \A j \in Id : FrontKept(j)
<1>1. rob \in [Id -> Entry] /\ \A j \in Id : rob[j] \in Entry
  BY DEF TypeOK
<1>2. ASSUME NEW r \in Entry, NEW x, NEW y, NEW z
      PROVE  /\ [r EXCEPT !.load = x, !.from = y, !.numMemOps = z].front = r.front
             /\ [r EXCEPT !.load = x, !.numMemOps = z].front = r.front
             /\ [r EXCEPT !.store = x, !.numMemOps = z].front = r.front
             /\ [r EXCEPT !.load = x].front = r.front
             /\ [r EXCEPT !.store = x].front = r.front
  BY DEF Entry
<1>3. CASE LoadDone(i, a)
  <2>1. rob' = [rob EXCEPT ![i] = [rob[i] EXCEPT !.load = [rob[i].load EXCEPT ![a] = "done"],
                     !.from = [rob[i].from EXCEPT ![a] = written[a]],
                     !.numMemOps = rob[i].numMemOps - 1]]
    BY <1>1, <1>3 DEF LoadDone, Entry
  <2>. QED BY <1>1, <1>2, <2>1 DEF FrontKept
<1>4. CASE ExecuteStore(i, a)
  <2>. DEFINE e == [rob[i] EXCEPT !.store = [rob[i].store EXCEPT ![a] = "done"],
                                 !.numMemOps = rob[i].numMemOps - 1]
              d(j) == [rob[j] EXCEPT !.load = [rob[j].load EXCEPT ![a] = "done"],
                                     !.numMemOps = rob[j].numMemOps - 1]
  <2>1. rob' = [j \in Id |-> IF j = i THEN e ELSE IF j \in Dependents(i, a) THEN d(j) ELSE rob[j]]
    BY <1>1, <1>4 DEF ExecuteStore
  <2>2. e.front = rob[i].front /\ \A j \in Id : d(j).front = rob[j].front
    BY <1>1, <1>2
  <2>. HIDE DEF e, d
  <2>. QED BY <2>1, <2>2 DEF FrontKept
<1>5. ASSUME NEW old, NEW new, SetLoad(i, a, old, new) PROVE \A j \in Id : FrontKept(j)
  <2>1. rob' = [rob EXCEPT ![i] = [rob[i] EXCEPT !.load = [rob[i].load EXCEPT ![a] = new]]]
    BY <1>1, <1>5 DEF SetLoad
  <2>. QED BY <1>1, <1>2, <2>1 DEF FrontKept
<1>6. ASSUME NEW old, NEW new, SetStore(i, a, old, new) PROVE \A j \in Id : FrontKept(j)
  <2>1. rob' = [rob EXCEPT ![i] = [rob[i] EXCEPT !.store = [rob[i].store EXCEPT ![a] = new]]]
    BY <1>1, <1>6 DEF SetStore
  <2>. QED BY <1>1, <1>2, <2>1 DEF FrontKept
<1>. QED BY <1>3, <1>4, <1>5, <1>6

LEMMA FrontBegins ==
    ASSUME TypeOK, NEW i \in Id, NEW old, NEW new, SetFront(i, old, new), new # "none"
    PROVE  \A j \in InRob : rob[j].front # "none" => rob'[j].front # "none"
<1>1. rob \in [Id -> Entry] /\ \A j \in Id : rob[j] \in Entry
  BY DEF TypeOK
<1>2. rob' = [rob EXCEPT ![i] = [rob[i] EXCEPT !.front = new]]
  BY <1>1 DEF SetFront
<1>3. [rob[i] EXCEPT !.front = new].front = new
  BY <1>1 DEF Entry
<1>. QED BY <1>1, <1>2, <1>3, WindowIsId

\* What keeps an instruction open: its front end and progress do not go back, and no
\* operand is added.
LEMMA OpenedKept ==
    ASSUME TypeOK, NEW i \in InRob, Opened(i), head' \in {head, head + 1},
           rob'[i].ins = rob[i].ins, rob'[i].front # "none",
           rob'[i].scheduled = rob[i].scheduled,
           rob[i].executed # "no" => rob'[i].executed # "no",
           \A a \in Addr : /\ rob'[i].load[a] = "todo" <=> rob[i].load[a] = "todo"
                           /\ rob'[i].store[a] = "todo" <=> rob[i].store[a] = "todo"
    PROVE  Opened(i)'
<1>1. TodoLoads(i)' = TodoLoads(i) /\ TodoStores(i)' = TodoStores(i)
  BY DEF TodoLoads, TodoStores
<1>2. IsMemory(i)' = IsMemory(i)
  BY MemoryKept
<1>3. i \in Nat /\ head \in Nat /\ SchedulerSize \in Nat
  BY WindowIsId, CoreAssumption
<1>4. rob[i].scheduled # "no" => i - head' < SchedulerSize
  <2>1. rob[i].scheduled # "no" => i - head < SchedulerSize
    BY DEF Opened
  <2>2. head' \in Nat /\ head' >= head
    BY <1>3
  <2>3. \A h, k \in Nat : k >= h /\ i - h < SchedulerSize => i - k < SchedulerSize
    BY <1>3
  <2>. QED BY <1>3, <2>1, <2>2, <2>3, Zenon
<1>5. rob'[i].scheduled = "inflight" => (TodoLoads(i) \cup TodoStores(i) # {})'
  BY <1>1 DEF Opened
<1>6. rob'[i].scheduled = "done" /\ IsMemory(i)' =>
         (TodoLoads(i) \cup TodoStores(i) = {})' /\ rob'[i].executed # "no"
  BY <1>1, <1>2 DEF Opened
<1>. QED BY <1>4, <1>5, <1>6 DEF Opened

LEMMA MovedOpened ==
    ASSUME IInv, \A i \in InRob : Opened(i), UNCHANGED <<head, tail>>, \A i \in Id : Moved(i),
           \A i \in InRob : rob'[i].front # "none"
    PROVE  (\A i \in InRob : Opened(i))'
<1>1. InRob' = InRob /\ InRob \subseteq Id
  BY WindowIsId DEF IInv, InRob
<1>2. ASSUME NEW i \in InRob PROVE Opened(i)'
  <2>1. SameOps(i) /\ rob'[i].scheduled = rob[i].scheduled
    BY <1>1 DEF Moved
  <2>2. \A a \in Addr : /\ rob'[i].load[a] = "todo" <=> rob[i].load[a] = "todo"
                        /\ rob'[i].store[a] = "todo" <=> rob[i].store[a] = "todo"
    BY <2>1 DEF SameOps, SameLoad, SameStore
  <2>3. rob'[i].ins = rob[i].ins /\ rob'[i].executed = rob[i].executed
    BY <2>1 DEF SameOps
  <2>. QED BY <1>1, <2>1, <2>2, <2>3, OpenedKept DEF IInv
<1>. QED BY <1>1, <1>2

LEMMA ReadTraceOpened ==
    ASSUME IInv, \A i \in InRob : Opened(i), NEW k \in Kinds, ReadTrace(k)
    PROVE  (\A i \in InRob : Opened(i))'
<1>1. /\ InRob' = InRob \cup {tail} /\ rob'[tail] = Fresh(k) /\ head' = head
      /\ \A i \in InRob : rob'[i] = rob[i]
  BY ReadTraceEffect, WindowIsId DEF IInv
<1>2. ASSUME NEW i \in InRob PROVE Opened(i)'
  BY <1>1, OpenedKept DEF IInv, Opened
<1>3. rob'[tail].front = "read" /\ rob'[tail].scheduled = "no"
  BY <1>1 DEF Fresh
<1>4. ASSUME NEW i, i = tail PROVE Opened(i)'
  BY <1>3, <1>4 DEF Opened
<1>. QED BY <1>1, <1>2, <1>4

LEMMA RetireOpened ==
    ASSUME IInv, \A i \in InRob : Opened(i), Retire
    PROVE  (\A i \in InRob : Opened(i))'
<1>1. /\ InRob' = InRob \ {head} /\ head' = head + 1
      /\ \A i \in InRob : i # head => rob'[i] = rob[i]
  BY RetireEffect, WindowIsId DEF IInv
<1>2. ASSUME NEW i \in InRob, i # head PROVE Opened(i)'
  BY <1>1, <1>2, OpenedKept DEF IInv, Opened
<1>. QED BY <1>1, <1>2

LEMMA LoadDoneOpened ==
    ASSUME IInv, \A i \in InRob : Opened(i), NEW i \in Id, NEW a \in Addr, LoadDone(i, a)
    PROVE  (\A j \in InRob : Opened(j))'
<1>1. InRob' = InRob /\ head' = head /\ InRob \subseteq Id
  BY LoadDoneEffect, WindowIsId DEF IInv, InRob
<1>2. ASSUME NEW j \in InRob PROVE Opened(j)'
  <2>1. rob'[j].front # "none"
    BY <1>1, OperandKeepsFront DEF IInv, FrontKept, Opened
  <2>2. CASE j = i
    <3>1. \A b \in Addr : /\ rob'[j].load[b] = "todo" <=> rob[j].load[b] = "todo"
                          /\ rob'[j].store[b] = "todo" <=> rob[j].store[b] = "todo"
      BY <2>2, LoadDoneEffect
    <3>2. /\ rob'[j].ins = rob[j].ins /\ rob'[j].scheduled = rob[j].scheduled
          /\ rob'[j].executed = rob[j].executed
      BY <2>2, LoadDoneEffect
    <3>. QED BY <1>1, <2>1, <3>1, <3>2, OpenedKept DEF IInv
  <2>3. CASE j # i
    <3>1. rob'[j] = rob[j]
      BY <1>1, <2>3, LoadDoneEffect
    <3>. QED BY <1>1, <2>1, <3>1, OpenedKept DEF IInv
  <2>. QED BY <2>2, <2>3
<1>. QED BY <1>1, <1>2

LEMMA ExecuteStoreOpened ==
    ASSUME IInv, \A i \in InRob : Opened(i), NEW i \in Id, NEW a \in Addr, ExecuteStore(i, a)
    PROVE  (\A j \in InRob : Opened(j))'
<1>1. InRob' = InRob /\ head' = head /\ InRob \subseteq Id
  BY ExecuteStoreEffect, WindowIsId DEF IInv, InRob
<1>2. ASSUME NEW j \in InRob PROVE Opened(j)'
  <2>1. rob'[j].front # "none"
    BY <1>1, OperandKeepsFront DEF IInv, FrontKept, Opened
  <2>2. rob[i].store[a] = "ready" /\ \A d \in Dependents(i, a) : rob[d].load[a] = "waiting"
    BY DependentsWait
  <2>3. /\ \A b \in Addr : rob'[j].load[b] = (IF j \in Dependents(i, a) /\ b = a
                                                THEN "done" ELSE rob[j].load[b])
        /\ \A b \in Addr : rob'[j].store[b] = IF j = i /\ b = a THEN "done" ELSE rob[j].store[b]
        /\ rob'[j].ins = rob[j].ins /\ rob'[j].scheduled = rob[j].scheduled
        /\ rob'[j].executed = rob[j].executed
    BY <1>1, ExecuteStoreEffect
  <2>4. \A b \in Addr : /\ rob'[j].load[b] = "todo" <=> rob[j].load[b] = "todo"
                        /\ rob'[j].store[b] = "todo" <=> rob[j].store[b] = "todo"
    BY <2>2, <2>3
  <2>. QED BY <1>1, <2>1, <2>3, <2>4, OpenedKept DEF IInv
<1>. QED BY <1>1, <1>2

LEMMA ExecuteOpened ==
    ASSUME IInv, \A i \in InRob : Opened(i), NEW i \in Id, Execute(i) \/ Complete(i)
    PROVE  (\A j \in InRob : Opened(j))'
<1>1. InRob' = InRob /\ head' = head /\ InRob \subseteq Id
  BY ExecuteEffect, CompleteEffect, WindowIsId DEF IInv, InRob
<1>2. rob'[i].executed # "no" /\ \A j \in Id : j # i => rob'[j].executed = rob[j].executed
  BY ExecuteEffect, CompleteEffect
<1>3. \A j \in Id : /\ rob'[j].ins = rob[j].ins /\ rob'[j].scheduled = rob[j].scheduled
                    /\ rob'[j].load = rob[j].load /\ rob'[j].store = rob[j].store
  BY ExecuteEffect, CompleteEffect
<1>4. ASSUME NEW j \in InRob PROVE Opened(j)'
  <2>1. rob'[j].front # "none"
    BY <1>1, RegistersKeepFront DEF IInv, FrontKept, Opened
  <2>. QED BY <1>1, <1>2, <1>3, <2>1, OpenedKept DEF IInv
<1>. QED BY <1>1, <1>4

LEMMA ScheduleOpened ==
    ASSUME IInv, \A i \in InRob : Opened(i), NEW i \in Id, Schedule(i)
    PROVE  (\A j \in InRob : Opened(j))'
<1>1. /\ InRob' = InRob /\ head' = head /\ InRob \subseteq Id /\ i \in InRob
      /\ rob[i].scheduled = "no" /\ rob[i].executed = "no"
      /\ rob'[i].scheduled = IF IsMemory(i) THEN "inflight" ELSE "done"
  BY ScheduleEffect, WindowIsId DEF IInv
<1>2. \A j \in Id : /\ j # i => rob'[j].scheduled = rob[j].scheduled
                    /\ rob'[j].ins = rob[j].ins /\ rob'[j].executed = rob[j].executed
                    /\ rob'[j].load = rob[j].load /\ rob'[j].store = rob[j].store
  BY ScheduleEffect
<1>3. \A j \in InRob : rob'[j].front # "none"
  BY <1>1, RegistersKeepFront DEF IInv, FrontKept, Opened
<1>4. ASSUME NEW j \in InRob, j # i PROVE Opened(j)'
  BY <1>1, <1>2, <1>3, <1>4, OpenedKept DEF IInv
<1>5. Opened(i)'
  <2>1. TodoLoads(i)' = TodoLoads(i) /\ TodoStores(i)' = TodoStores(i) /\ IsMemory(i)' = IsMemory(i)
    BY <1>1, <1>2, MemoryKept DEF TodoLoads, TodoStores
  <2>2. IsMemory(i) => TodoLoads(i) \cup TodoStores(i) # {}
    <3>1. ASSUME IsMemory(i) PROVE TodoLoads(i) \cup TodoStores(i) # {}
      <4>1. rob[i].ins.load \subseteq Addr /\ rob[i].ins.store \subseteq Addr
        BY <1>1, EntryTypes DEF IInv
      <4>2. PICK a \in Addr : a \in rob[i].ins.load \cup rob[i].ins.store
        BY <3>1, <4>1 DEF IsMemory
      <4>3. rob[i].load[a] # "none" \/ rob[i].store[a] # "none"
        BY <1>1, <4>2 DEF IInv, Entered
      <4>4. rob[i].load[a] \in {"none", "todo"} /\ rob[i].store[a] \in {"none", "todo"}
        BY <1>1 DEF IInv, Staged, RegReady, Begun
      <4>. QED BY <4>3, <4>4 DEF TodoLoads, TodoStores
    <3>. QED BY <3>1
  <2>3. i - head < SchedulerSize
    BY DEF Schedule, InWindow
  <2>. QED BY <1>1, <1>3, <2>1, <2>2, <2>3 DEF Opened
<1>. QED BY <1>1, <1>4, <1>5

LEMMA MemScheduleOpened ==
    ASSUME IInv, \A i \in InRob : Opened(i), NEW i \in Id, MemSchedule(i)
    PROVE  (\A j \in InRob : Opened(j))'
<1>1. /\ InRob' = InRob /\ head' = head /\ InRob \subseteq Id /\ i \in InRob
      /\ rob[i].scheduled = "inflight"
  BY MemSchedulable, WindowIsId DEF IInv
<1>2. PICK L \in SUBSET TodoLoads(i), S \in SUBSET TodoStores(i) : MemAdded(i, L, S)
  BY MemScheduleEffect
<1>3. \A j \in InRob : rob'[j].front # "none"
  BY <1>1, MemScheduleKeepsFront DEF IInv, FrontKept, Opened
<1>4. ASSUME NEW j \in InRob, j # i PROVE Opened(j)'
  <2>1. /\ rob'[j].scheduled = rob[j].scheduled /\ rob'[j].executed = rob[j].executed
        /\ rob'[j].load = rob[j].load /\ rob'[j].store = rob[j].store /\ rob'[j].ins = rob[j].ins
    BY <1>1, <1>2, <1>4 DEF MemAdded
  <2>. QED BY <1>1, <1>3, <2>1, OpenedKept DEF IInv
<1>5. Opened(i)'
  <2>1. \A a \in Addr : /\ rob'[i].load[a] = (IF a \in L THEN Enters(i, L, a) ELSE rob[i].load[a])
                        /\ rob'[i].store[a] = (IF a \in S THEN "queued" ELSE rob[i].store[a])
    BY <1>2 DEF MemAdded
  <2>2. TodoLoads(i)' = TodoLoads(i) \ L /\ TodoStores(i)' = TodoStores(i) \ S
    BY <2>1 DEF TodoLoads, TodoStores, Enters
  <2>3. IF L = TodoLoads(i) /\ S = TodoStores(i)
          THEN rob'[i].scheduled = "done" /\ rob'[i].executed = "inflight"
          ELSE rob'[i].scheduled = "inflight"
    BY <1>2 DEF MemAdded
  <2>4. i - head < SchedulerSize
    BY <1>1 DEF Opened
  <2>5. L \subseteq TodoLoads(i) /\ S \subseteq TodoStores(i)
    OBVIOUS
  <2>6. CASE L = TodoLoads(i) /\ S = TodoStores(i)
    BY <1>1, <1>3, <2>2, <2>3, <2>4, <2>6 DEF Opened
  <2>7. CASE ~(L = TodoLoads(i) /\ S = TodoStores(i))
    <3>1. (TodoLoads(i) \cup TodoStores(i) # {})'
      BY <2>2, <2>5, <2>7
    <3>. QED BY <1>1, <1>3, <2>3, <2>4, <2>7, <3>1 DEF Opened
  <2>. QED BY <2>6, <2>7
<1>. QED BY <1>1, <1>4, <1>5

-----------------------------------------------------------------------------
(* The stall of a mispredicted branch *)

LEMMA BranchKept ==
    ASSUME BranchPending, UNCHANGED stall,
           \A i \in InRob : rob[i].executed # "done" =>
              i \in InRob' /\ rob'[i].ins = rob[i].ins /\ rob'[i].executed # "done"
    PROVE  BranchPending'
  BY DEF BranchPending

LEMMA MovedBranch ==
    ASSUME IInv, BranchPending, UNCHANGED <<head, tail, stall>>, \A i \in Id : Moved(i)
    PROVE  BranchPending'
<1>1. InRob' = InRob /\ InRob \subseteq Id
  BY WindowIsId DEF IInv, InRob
<1>2. \A i \in InRob : rob'[i].ins = rob[i].ins /\ rob'[i].executed = rob[i].executed
  BY <1>1 DEF Moved, SameOps
<1>. QED BY <1>1, <1>2, BranchKept

LEMMA ReadTraceBranch ==
    ASSUME IInv, NEW k \in Kinds, ReadTrace(k)
    PROVE  BranchPending'
<1>1. InRob' = InRob \cup {tail} /\ rob'[tail] = Fresh(k)
  BY ReadTraceEffect
<1>2. rob'[tail].ins = k /\ rob'[tail].executed = "no"
  BY <1>1 DEF Fresh
<1>3. stall' = IF k.miss THEN "yes" ELSE "no"
  BY DEF ReadTrace
<1>. QED BY <1>1, <1>2, <1>3 DEF BranchPending

LEMMA RetireBranch ==
    ASSUME IInv, BranchPending, Retire
    PROVE  BranchPending'
<1>1. /\ rob[head].executed = "done" /\ InRob' = InRob \ {head} /\ InRob \subseteq Id
      /\ \A i \in Id : i # head => rob'[i] = rob[i]
  BY RetireEffect, WindowIsId DEF IInv
<1>2. stall' = stall
  BY DEF Retire
<1>. QED BY <1>1, <1>2, BranchKept

LEMMA CompleteBranch ==
    ASSUME IInv, BranchPending, NEW i \in Id, Complete(i)
    PROVE  BranchPending'
<1>1. /\ InRob' = InRob /\ InRob \subseteq Id
      /\ \A j \in Id : /\ j # i => rob'[j].executed = rob[j].executed
                       /\ rob'[j].ins = rob[j].ins
  BY CompleteEffect, WindowIsId DEF IInv
<1>2. stall' = IF rob[i].ins.miss THEN "resume" ELSE stall
  BY DEF Complete
<1>3. CASE rob[i].ins.miss
  BY <1>2, <1>3 DEF BranchPending
<1>4. CASE ~rob[i].ins.miss /\ stall' = "yes"
  <2>1. PICK p \in InRob : rob[p].ins.miss /\ rob[p].executed # "done"
    BY <1>2, <1>4 DEF BranchPending
  <2>2. p # i
    BY <1>4, <2>1
  <2>. QED BY <1>1, <2>1, <2>2 DEF BranchPending
<1>. QED BY <1>3, <1>4 DEF BranchPending

LEMMA OthersKeepBranch ==
    ASSUME IInv, BranchPending, NEW i \in Id, NEW a \in Addr,
           LoadDone(i, a) \/ ExecuteStore(i, a)
    PROVE  BranchPending'
<1>1. InRob \subseteq Id /\ InRob' = InRob /\ stall' = stall
  BY LoadDoneEffect, ExecuteStoreEffect, WindowIsId DEF IInv, InRob
<1>2. \A j \in Id : rob'[j].ins = rob[j].ins /\ rob'[j].executed = rob[j].executed
  <2>1. CASE LoadDone(i, a)
    BY <2>1, LoadDoneEffect
  <2>2. CASE ExecuteStore(i, a)
    BY <2>2, ExecuteStoreEffect
  <2>. QED BY <2>1, <2>2
<1>. QED BY <1>1, <1>2, BranchKept

LEMMA BeginningKeepsBranch ==
    ASSUME IInv, BranchPending, NEW i \in Id, Schedule(i) \/ Execute(i) \/ MemSchedule(i)
    PROVE  BranchPending'
<1>1. InRob \subseteq Id /\ InRob' = InRob /\ stall' = stall
  BY ScheduleEffect, ExecuteEffect, MemSchedulable, WindowIsId DEF IInv
<1>2. \A j \in Id : /\ rob'[j].ins = rob[j].ins
                    /\ rob[j].executed # "done" => rob'[j].executed # "done"
  <2>1. CASE Schedule(i)
    BY <2>1, ScheduleEffect
  <2>2. CASE Execute(i)
    BY <2>2, ExecuteEffect
  <2>3. CASE MemSchedule(i)
    <3>1. PICK L \in SUBSET TodoLoads(i), S \in SUBSET TodoStores(i) : MemAdded(i, L, S)
      BY <2>3, MemScheduleEffect
    <3>2. \A j \in Id : rob'[j].ins = rob[j].ins
      BY <3>1 DEF MemAdded
    <3>3. rob'[i].executed # "done" /\ \A j \in Id \ {i} : rob'[j].executed = rob[j].executed
      BY <3>1 DEF MemAdded
    <3>. QED BY <3>2, <3>3
  <2>. QED BY <2>1, <2>2, <2>3
<1>. QED BY <1>1, <1>2, BranchKept

LEMMA MovedKeepsProgress ==
    ASSUME PInv, IInv', UNCHANGED <<head, tail, stall>>, \A i \in Id : Moved(i),
           \A i \in InRob : rob'[i].front # "none"
    PROVE  PInv'
  BY MovedLinked, MovedBranch, MovedOpened DEF PInv

LEMMA FrontEndKeepsProgress ==
    ASSUME PInv, IInv', FrontEnd
    PROVE  PInv'
<1>1. IInv /\ TypeOK /\ Linked /\ BranchPending /\ \A i \in InRob : Opened(i)
  BY DEF PInv, IInv
<1>2. CASE \E k \in Kinds : ReadTrace(k)
  BY <1>1, <1>2, ReadTraceLinked, ReadTraceOpened, ReadTraceBranch DEF PInv
<1>3. CASE ResumeFetch
  <2>1. UNCHANGED <<head, tail, rob>> /\ stall' = "no"
    BY <1>3 DEF ResumeFetch, retirement
  <2>2. \A i \in Id : Moved(i)
    BY <2>1 DEF Moved, SameRegs, SameLists, SameSources, SameOps, SameLoad, SameStore
  <2>3. \A i \in InRob : rob'[i].front # "none"
    BY <1>1, <2>1 DEF Opened
  <2>4. BranchPending'
    BY <2>1 DEF BranchPending
  <2>. QED BY <1>1, <2>1, <2>2, <2>3, <2>4, MovedLinked, MovedOpened DEF PInv
<1>4. ASSUME NEW i \in Id, SendToItlb(i) \/ ItlbDone(i) \/ SendToL1I(i) \/ L1IDone(i)
      PROVE  PInv'
  <2>1. {"read", "translating", "translated", "fetching", "fetched"} \subseteq Stage \ {"none"}
    BY DEF Stage
  <2>2. PICK old, new \in Stage \ {"none"} : SetFront(i, old, new)
    BY <1>4, <2>1 DEF SendToItlb, ItlbDone, SendToL1I, L1IDone
  <2>3. new \in Stage /\ new # "none"
    OBVIOUS
  <2>4. UNCHANGED <<head, tail, stall>> /\ \A j \in Id : Moved(j)
    BY <1>1, <2>2, <2>3, SetFrontMoves DEF SetFront, retirement
  <2>5. \A j \in InRob : rob'[j].front # "none"
    BY <1>1, <2>2, <2>3, FrontBegins DEF Opened
  <2>. QED BY <2>4, <2>5, MovedKeepsProgress
<1>. QED BY <1>2, <1>3, <1>4 DEF FrontEnd

LEMMA OperandKeepsProgress ==
    ASSUME PInv, IInv', NEW i \in Id, NEW a \in Addr, NEW old, NEW new,
           \/ /\ {old, new} \subseteq {"queued", "translating", "ready"}
              /\ SetStore(i, a, old, new)
           \/ /\ {old, new} \subseteq {"queued", "translating", "ready", "issued"}
              /\ SetLoad(i, a, old, new)
    PROVE  PInv'
<1>1. IInv /\ TypeOK /\ \A j \in InRob : Opened(j) /\ j \in Id
  BY WindowIsId DEF PInv, IInv
<1>2. UNCHANGED <<head, tail, stall>> /\ \A j \in Id : Moved(j)
  BY <1>1, SetStoreMoves, SetLoadMoves DEF SetStore, SetLoad, retirement
<1>3. \A j \in InRob : rob'[j].front # "none"
  BY <1>1, OperandKeepsFront DEF FrontKept, Opened
<1>. QED BY <1>2, <1>3, MovedKeepsProgress

LEMMA NextProgress == PInv /\ [Next]_vars => PInv'
<1>. SUFFICES ASSUME PInv, [Next]_vars PROVE PInv'
  OBVIOUS
<1>1. IInv /\ IInv' /\ TypeOK /\ Linked /\ BranchPending /\ \A i \in InRob : Opened(i)
  BY NextInv DEF PInv, IInv
<1>2. Linked'
  BY <1>1, NextLinked
<1>3. CASE UNCHANGED vars
  <2>1. UNCHANGED <<head, tail, rob, stall>>
    BY <1>3 DEF vars, retirement
  <2>2. \A i \in Id : Moved(i)
    BY <2>1 DEF Moved, SameRegs, SameLists, SameSources, SameOps, SameLoad, SameStore
  <2>3. \A i \in InRob : rob'[i].front # "none"
    BY <1>1, <2>1 DEF Opened
  <2>. QED BY <1>1, <2>1, <2>2, <2>3, MovedKeepsProgress
<1>4. CASE FrontEnd
  BY <1>1, <1>4, FrontEndKeepsProgress
<1>5. CASE Registers
  <2>1. PICK i \in Id : Schedule(i) \/ Execute(i) \/ Complete(i)
    BY <1>5 DEF Registers
  <2>2. BranchPending'
    BY <1>1, <2>1, BeginningKeepsBranch, CompleteBranch
  <2>3. (\A j \in InRob : Opened(j))'
    BY <1>1, <2>1, ScheduleOpened, ExecuteOpened
  <2>. QED BY <1>1, <1>2, <2>2, <2>3 DEF PInv
<1>6. CASE Memory
  <2>1. ASSUME NEW i \in Id, MemSchedule(i) PROVE PInv'
    BY <1>1, <1>2, <2>1, BeginningKeepsBranch, MemScheduleOpened DEF PInv
  <2>2. ASSUME NEW i \in Id, NEW a \in Addr, StoreToDtlb(i, a) \/ StoreTranslated(i, a)
        PROVE  PInv'
    BY <1>1, <2>2, OperandKeepsProgress DEF StoreToDtlb, StoreTranslated
  <2>3. ASSUME NEW i \in Id, NEW a \in Addr,
               LoadToDtlb(i, a) \/ LoadTranslated(i, a) \/ ExecuteLoad(i, a)
        PROVE  PInv'
    BY <1>1, <2>3, OperandKeepsProgress DEF LoadToDtlb, LoadTranslated, ExecuteLoad
  <2>4. ASSUME NEW i \in Id, NEW a \in Addr, ExecuteStore(i, a) \/ LoadDone(i, a)
        PROVE  PInv'
    BY <1>1, <1>2, <2>4, OthersKeepBranch, ExecuteStoreOpened, LoadDoneOpened DEF PInv
  <2>. QED BY <1>6, <2>1, <2>2, <2>3, <2>4 DEF Memory
<1>7. CASE Retire
  BY <1>1, <1>2, <1>7, RetireBranch, RetireOpened DEF PInv
<1>. QED BY <1>3, <1>4, <1>5, <1>6, <1>7 DEF Next

-----------------------------------------------------------------------------
(* Stores enter their queue in program order *)

StaInOrder ==
    /\ \A n \in 1 .. Len(sta) : sta[n] \in InRob /\ TodoStores(sta[n]) # {}
    /\ \A m, n \in 1 .. Len(sta) : m < n => sta[m] < sta[n]
    /\ \A i \in InRob : TodoStores(i) # {} => \E n \in 1 .. Len(sta) : sta[n] = i
QueueInOrder ==
    \A i, j \in InRob, b \in Addr :
        TodoStores(i) # {} /\ rob[j].store[b] \notin {"none", "todo"} => j <= i
StoresInOrder == StaInOrder /\ QueueInOrder

LEMMA OneTodoStore ==
    ASSUME IInv, OneStore, NEW i \in InRob
    PROVE  \A a, b \in Addr : rob[i].store[a] # "none" /\ rob[i].store[b] # "none" => a = b
  BY DEF IInv, Entered, OneStore

LEMMA StoresKept ==
    ASSUME StoresInOrder, UNCHANGED <<head, tail, sta>>,
           \A i \in InRob, a \in Addr :
              /\ rob'[i].store[a] = "todo" <=> rob[i].store[a] = "todo"
              /\ rob'[i].store[a] \in {"none", "todo"} <=> rob[i].store[a] \in {"none", "todo"}
    PROVE  StoresInOrder'
<1>1. InRob' = InRob
  BY DEF InRob
<1>2. \A i \in InRob : TodoStores(i)' = TodoStores(i)
  BY DEF TodoStores
<1>3. StaInOrder'
  <2>1. \A n \in 1 .. Len(sta) : sta[n] \in InRob
    BY DEF StoresInOrder, StaInOrder
  <2>2. \A n \in 1 .. Len(sta) : TodoStores(sta[n])' = TodoStores(sta[n])
    BY <2>1 DEF TodoStores
  <2>3. (\A n \in 1 .. Len(sta) : sta[n] \in InRob /\ TodoStores(sta[n]) # {})'
    <3>1. SUFFICES ASSUME NEW n \in 1 .. Len(sta)
                   PROVE  sta[n] \in InRob /\ {a \in Addr : rob'[sta[n]].store[a] = "todo"} # {}
      BY <1>1 DEF TodoStores
    <3>. QED BY <2>1, <2>2 DEF StoresInOrder, StaInOrder, TodoStores
  <2>. QED BY <1>1, <1>2, <2>3 DEF StoresInOrder, StaInOrder
<1>4. QueueInOrder'
  BY <1>1, <1>2 DEF StoresInOrder, QueueInOrder
<1>. QED BY <1>3, <1>4 DEF StoresInOrder

LEMMA ReadTraceStores ==
    ASSUME IInv, OneStore, StoresInOrder, NEW k \in Kinds, ReadTrace(k)
    PROVE  StoresInOrder'
<1>1. /\ InRob' = InRob \cup {tail} /\ tail \notin InRob /\ rob'[tail] = Fresh(k) /\ k \in Instr
      /\ \A i \in InRob : rob'[i] = rob[i] /\ i \in Nat /\ i < tail
      /\ tail \in Nat /\ sta \in Seq(Id) /\ IsFiniteSet(k.store) /\ k.store \subseteq Addr
  <2>1. TypeOK /\ Id \subseteq Nat
    BY CoreAssumption DEF IInv, Id
  <2>2. /\ InRob' = InRob \cup {tail} /\ tail \notin InRob /\ rob'[tail] = Fresh(k) /\ k \in Instr
        /\ \A i \in Id : i # tail => rob'[i] = rob[i]
    BY ReadTraceEffect
  <2>3. /\ tail \in Nat /\ head \in Nat /\ InRob \subseteq Id
        /\ \A i \in InRob : i \in Nat /\ i < tail
    BY <2>1, WindowIsId DEF InRob
  <2>4. \A i \in InRob : rob'[i] = rob[i]
    BY <2>2, <2>3
  <2>5. sta \in Seq(Id)
    BY <2>1 DEF TypeOK
  <2>. QED BY <2>2, <2>3, <2>4, <2>5, FreshIsEntry
<1>2. /\ \A a \in Addr : rob'[tail].store[a] = IF a \in k.store THEN "todo" ELSE "none"
      /\ {a \in Addr : rob'[tail].store[a] = "todo"} = k.store
  BY <1>1 DEF Fresh
<1>3. \A i \in InRob : TodoStores(i)' = TodoStores(i)
  BY <1>1 DEF TodoStores
<1>4. QueueInOrder'
  <2>1. SUFFICES ASSUME NEW i \in InRob', NEW j \in InRob', NEW b \in Addr,
                        TodoStores(i)' # {}, rob'[j].store[b] \notin {"none", "todo"}
                 PROVE  j <= i
    BY DEF QueueInOrder
  <2>2. j \in InRob
    BY <1>1, <1>2, <2>1
  <2>3. CASE i \in InRob
    <3>1. TodoStores(i) # {} /\ rob[j].store[b] \notin {"none", "todo"}
      BY <1>1, <1>3, <2>1, <2>2, <2>3
    <3>. QED BY <2>2, <2>3, <3>1 DEF StoresInOrder, QueueInOrder
  <2>4. CASE i = tail
    BY <1>1, <2>2, <2>4
  <2>. QED BY <1>1, <2>3, <2>4
<1>5. StaInOrder'
  <2>1. CASE k.store = {}
    <3>1. sta' = sta
      <4>1. Cardinality(k.store) = 0 /\ sta' = sta \o [n \in 1 .. Cardinality(k.store) |-> tail]
        BY <2>1, FS_EmptySet DEF ReadTrace
      <4>. QED BY <1>1, <4>1
    <3>2. (\A n \in 1 .. Len(sta) : sta[n] \in InRob /\ TodoStores(sta[n]) # {})'
      <4>1. SUFFICES ASSUME NEW n \in 1 .. Len(sta)
                     PROVE  sta[n] \in InRob' /\ {a \in Addr : rob'[sta[n]].store[a] = "todo"} # {}
        BY <3>1 DEF TodoStores
      <4>2. sta[n] \in InRob /\ TodoStores(sta[n]) # {}
        BY DEF StoresInOrder, StaInOrder
      <4>. QED BY <1>1, <4>2 DEF TodoStores
    <3>3. ASSUME NEW i \in InRob', TodoStores(i)' # {} PROVE i \in InRob /\ TodoStores(i) # {}
      <4>1. i # tail
        BY <1>2, <2>1, <3>3 DEF TodoStores
      <4>. QED BY <1>1, <1>3, <3>3, <4>1
    <3>. QED BY <3>1, <3>2, <3>3 DEF StoresInOrder, StaInOrder
  <2>2. CASE k.store # {}
    <3>1. sta' = sta \o <<tail>>
      <4>1. PICK a \in k.store : k.store = {a}
        BY <2>2 DEF OneStore
      <4>2. Cardinality(k.store) = 1
        BY <4>1, FS_Singleton
      <4>3. sta' = sta \o [n \in 1 .. 1 |-> tail]
        BY <4>2 DEF ReadTrace
      <4>4. [n \in 1 .. 1 |-> tail] = <<tail>>
        OBVIOUS
      <4>. QED BY <4>3, <4>4
    <3>2. /\ Len(sta') = Len(sta) + 1 /\ sta'[Len(sta) + 1] = tail /\ Len(sta) \in Nat
          /\ \A n \in 1 .. Len(sta) : sta'[n] = sta[n]
      BY <1>1, <3>1
    <3>3. \A n \in 1 .. Len(sta') : n \in 1 .. Len(sta) \/ n = Len(sta) + 1
      BY <3>2
    <3>4. ASSUME NEW n \in 1 .. Len(sta')
          PROVE  sta'[n] \in InRob' /\ {a \in Addr : rob'[sta'[n]].store[a] = "todo"} # {}
      <4>1. CASE n \in 1 .. Len(sta)
        <5>1. sta'[n] = sta[n] /\ sta[n] \in InRob /\ TodoStores(sta[n]) # {}
          BY <3>2, <4>1 DEF StoresInOrder, StaInOrder
        <5>. QED BY <1>1, <5>1 DEF TodoStores
      <4>2. CASE n = Len(sta) + 1
        BY <1>1, <1>2, <2>2, <3>2, <4>2
      <4>. QED BY <3>3, <4>1, <4>2
    <3>5. ASSUME NEW m \in 1 .. Len(sta'), NEW n \in 1 .. Len(sta'), m < n
          PROVE  sta'[m] < sta'[n]
      <4>1. m \in 1 .. Len(sta) /\ sta'[m] = sta[m] /\ sta[m] \in InRob
        BY <3>2, <3>3, <3>5 DEF StoresInOrder, StaInOrder
      <4>2. CASE n \in 1 .. Len(sta)
        BY <3>2, <3>5, <4>1, <4>2 DEF StoresInOrder, StaInOrder
      <4>3. CASE n = Len(sta) + 1
        BY <1>1, <3>2, <4>1, <4>3
      <4>. QED BY <3>3, <4>2, <4>3
    <3>6. ASSUME NEW i \in InRob', TodoStores(i)' # {}
          PROVE  \E n \in 1 .. Len(sta') : sta'[n] = i
      <4>1. CASE i \in InRob
        <5>1. PICK n \in 1 .. Len(sta) : sta[n] = i
          BY <1>3, <3>6, <4>1 DEF StoresInOrder, StaInOrder
        <5>. QED BY <3>2, <5>1
      <4>2. CASE i = tail
        <5>1. Len(sta) + 1 \in 1 .. Len(sta')
          BY <3>2
        <5>. QED BY <3>2, <4>2, <5>1
      <4>. QED BY <1>1, <4>1, <4>2
    <3>. QED BY <3>4, <3>5, <3>6 DEF StaInOrder, TodoStores
  <2>. QED BY <2>1, <2>2
<1>. QED BY <1>4, <1>5 DEF StoresInOrder

LEMMA RetireStores ==
    ASSUME IInv, StoresInOrder, Retire
    PROVE  StoresInOrder'
<1>1. /\ InRob' = InRob \ {head} /\ sta' = sta /\ head \in InRob /\ rob[head].executed = "done"
      /\ \A i \in InRob : i # head => rob'[i] = rob[i]
  BY RetireEffect, WindowIsId DEF IInv, Retire
<1>2. TodoStores(head) = {}
  BY <1>1, CompletedIsDone DEF TodoStores
<1>3. \A i \in InRob : i # head => TodoStores(i)' = TodoStores(i)
  BY <1>1 DEF TodoStores
<1>4. QueueInOrder'
  BY <1>1, <1>3 DEF StoresInOrder, QueueInOrder
<1>5. ASSUME NEW n \in 1 .. Len(sta)
      PROVE  sta[n] \in InRob' /\ {a \in Addr : rob'[sta[n]].store[a] = "todo"} # {}
  <2>1. sta[n] \in InRob /\ TodoStores(sta[n]) # {}
    BY DEF StoresInOrder, StaInOrder
  <2>2. sta[n] # head
    BY <1>2, <2>1
  <2>. QED BY <1>1, <2>1, <2>2 DEF TodoStores
<1>6. StaInOrder'
  BY <1>1, <1>3, <1>5 DEF StoresInOrder, StaInOrder, TodoStores
<1>. QED BY <1>4, <1>6 DEF StoresInOrder

LEMMA MemScheduleStores ==
    ASSUME IInv, OneStore, StoresInOrder, NEW i \in Id, MemSchedule(i)
    PROVE  StoresInOrder'
<1>1. /\ i \in InRob /\ InRob \subseteq Id /\ InRob' = InRob /\ UNCHANGED <<head, tail>>
      /\ \A j \in InRob : j \in Nat
  BY MemSchedulable, WindowIsId DEF IInv
<1>2. PICK L \in SUBSET TodoLoads(i), S \in SUBSET TodoStores(i) : MemAdded(i, L, S)
  BY MemScheduleEffect
<1>3. /\ sta' = SubSeq(sta, Cardinality(S) + 1, Len(sta)) /\ sta \in Seq(Id)
      /\ S # {} => Head(sta) = i
      /\ \A a \in Addr : rob'[i].store[a] = (IF a \in S THEN "queued" ELSE rob[i].store[a])
      /\ \A j \in InRob : j # i => rob'[j].store = rob[j].store
  BY <1>1, <1>2 DEF MemAdded, IInv, TypeOK
<1>4. CASE S = {}
  <2>1. sta' = sta
    <3>1. sta' = SubSeq(sta, 1, Len(sta))
      BY <1>3, <1>4, FS_EmptySet
    <3>. QED BY <1>3, <3>1, SubSeqFull
  <2>2. \A j \in InRob, a \in Addr : rob'[j].store[a] = rob[j].store[a]
    BY <1>3, <1>4
  <2>. QED BY <1>1, <2>1, <2>2, StoresKept
<1>5. CASE S # {}
  <2>1. PICK a \in S : TRUE
    BY <1>5
  <2>2. /\ a \in Addr /\ rob[i].store[a] = "todo"
        /\ TodoStores(i) = {a} /\ S = {a}
    <3>1. a \in TodoStores(i)
      BY <2>1
    <3>2. \A b \in TodoStores(i) : b = a
      BY <1>1, <3>1, OneTodoStore DEF TodoStores
    <3>. QED BY <2>1, <3>1, <3>2 DEF TodoStores
  <2>3. /\ TodoStores(i)' = {}
        /\ \A j \in InRob : j # i => TodoStores(j)' = TodoStores(j)
    BY <1>3, <2>2 DEF TodoStores
  <2>4. /\ Len(sta) \in Nat /\ Len(sta) >= 1 /\ sta[1] = i
        /\ Len(sta') = Len(sta) - 1
        /\ \A n \in 1 .. Len(sta') : sta'[n] = sta[n + 1] /\ n + 1 \in 1 .. Len(sta)
    <3>1. \E p \in 1 .. Len(sta) : sta[p] = i
      BY <1>1, <2>2 DEF StoresInOrder, StaInOrder
    <3>2. sta' = SubSeq(sta, 2, Len(sta))
      <4>1. Cardinality(S) = 1
        BY <2>2, FS_Singleton
      <4>. QED BY <1>3, <4>1
    <3>3. Len(sta) \in Nat /\ Len(sta) >= 1 /\ Head(sta) = sta[1]
      BY <1>3, <3>1
    <3>4. \A n \in 2 .. Len(sta) : sta[n] \in Id
      BY <1>3, <3>3
    <3>5. /\ Len(sta') = IF 2 <= Len(sta) THEN Len(sta) - 2 + 1 ELSE 0
          /\ \A n \in 1 .. Len(sta) - 2 + 1 : sta'[n] = sta[2 + n - 1]
      BY <3>2, <3>3, <3>4, SubSeqProperties
    <3>6. Len(sta') = Len(sta) - 1
      <4>1. CASE 2 <= Len(sta)
        BY <3>3, <3>5, <4>1
      <4>2. CASE ~(2 <= Len(sta))
        <5>1. Len(sta) \in Nat /\ Len(sta) >= 1
          BY <3>3
        <5>2. Len(sta) = 1
          <6>1. \A l \in Nat : l >= 1 => l = 1 \/ 2 <= l
            OBVIOUS
          <6>. QED BY <4>2, <5>1, <6>1, Zenon
        <5>3. Len(sta') = 0
          BY <3>5, <4>2, Zenon
        <5>. QED BY <5>2, <5>3
      <4>. QED BY <4>1, <4>2
    <3>7. \A n \in 1 .. Len(sta') : /\ n \in 1 .. Len(sta) - 2 + 1 /\ 2 + n - 1 = n + 1
                                    /\ n + 1 \in 1 .. Len(sta)
      BY <3>3, <3>6
    <3>. QED BY <1>3, <1>5, <3>3, <3>5, <3>6, <3>7
  <2>5. ASSUME NEW n \in 1 .. Len(sta')
        PROVE  sta'[n] \in InRob' /\ {b \in Addr : rob'[sta'[n]].store[b] = "todo"} # {}
    <3>1. sta'[n] = sta[n + 1] /\ n + 1 \in 1 .. Len(sta) /\ 1 \in 1 .. Len(sta) /\ 1 < n + 1
      BY <2>4
    <3>2. /\ sta[n + 1] \in InRob /\ TodoStores(sta[n + 1]) # {} /\ sta[1] < sta[n + 1]
      BY <3>1 DEF StoresInOrder, StaInOrder
    <3>3. sta'[n] \in InRob /\ sta'[n] # i
      BY <1>1, <2>4, <3>1, <3>2
    <3>4. rob'[sta'[n]].store = rob[sta[n + 1]].store
      BY <1>3, <3>1, <3>3
    <3>5. PICK b \in Addr : rob[sta[n + 1]].store[b] = "todo"
      BY <3>2 DEF TodoStores
    <3>. QED BY <1>1, <3>3, <3>4, <3>5
  <2>6. ASSUME NEW m \in 1 .. Len(sta'), NEW n \in 1 .. Len(sta'), m < n
        PROVE  sta'[m] < sta'[n]
    BY <2>4, <2>6 DEF StoresInOrder, StaInOrder
  <2>7. ASSUME NEW j \in InRob', TodoStores(j)' # {} PROVE \E n \in 1 .. Len(sta') : sta'[n] = j
    <3>1. j \in InRob /\ j # i /\ TodoStores(j) # {}
      BY <1>1, <2>3, <2>7
    <3>2. PICK n \in 1 .. Len(sta) : sta[n] = j
      BY <3>1 DEF StoresInOrder, StaInOrder
    <3>3. n - 1 \in 1 .. Len(sta') /\ (n - 1) + 1 = n
      BY <2>4, <3>1, <3>2
    <3>. QED BY <2>4, <3>2, <3>3
  <2>8. StaInOrder'
    BY <2>5, <2>6, <2>7 DEF StaInOrder, TodoStores
  <2>9. ASSUME NEW k \in InRob, NEW j \in InRob, NEW b \in Addr,
               TodoStores(k)' # {}, rob'[j].store[b] \notin {"none", "todo"}
        PROVE  j <= k
    <3>1. k # i /\ TodoStores(k) # {}
      BY <2>3, <2>9
    <3>2. CASE j = i
      <4>1. PICK n \in 1 .. Len(sta) : sta[n] = k
        BY <3>1 DEF StoresInOrder, StaInOrder
      <4>2. n # 1 /\ sta[1] < sta[n]
        BY <2>4, <3>1, <4>1 DEF StoresInOrder, StaInOrder
      <4>. QED BY <1>1, <2>4, <3>2, <4>1, <4>2
    <3>3. CASE j # i
      BY <1>3, <2>9, <3>1, <3>3 DEF StoresInOrder, QueueInOrder
    <3>. QED BY <3>2, <3>3
  <2>10. QueueInOrder'
    BY <1>1, <2>9 DEF QueueInOrder
  <2>. QED BY <2>8, <2>10 DEF StoresInOrder
<1>. QED BY <1>4, <1>5

LEMMA MovedStores ==
    ASSUME IInv, StoresInOrder, UNCHANGED <<head, tail, sta>>, \A i \in Id : Moved(i)
    PROVE  StoresInOrder'
<1>1. ASSUME NEW i \in InRob, NEW a \in Addr
      PROVE  /\ rob'[i].store[a] = "todo" <=> rob[i].store[a] = "todo"
             /\ rob'[i].store[a] \in {"none", "todo"} <=> rob[i].store[a] \in {"none", "todo"}
  <2>1. SameStore(rob[i].store[a], rob'[i].store[a])
    BY WindowIsId DEF IInv, Moved, SameOps
  <2>. QED BY <2>1 DEF SameStore
<1>. QED BY <1>1, StoresKept

LEMMA OthersKeepStores ==
    ASSUME IInv, StoresInOrder, NEW i \in Id,
           \/ Schedule(i) \/ Execute(i) \/ Complete(i)
           \/ \E a \in Addr : LoadDone(i, a) \/ ExecuteStore(i, a)
    PROVE  StoresInOrder'
<1>1. InRob \subseteq Id
  BY WindowIsId DEF IInv
<1>2. CASE Schedule(i) \/ Execute(i) \/ Complete(i)
  <2>1. UNCHANGED <<head, tail, sta>> /\ \A j \in Id : rob'[j].store = rob[j].store
    BY <1>2, ScheduleEffect, ExecuteEffect, CompleteEffect
  <2>. QED BY <1>1, <2>1, StoresKept
<1>3. ASSUME NEW a \in Addr, LoadDone(i, a) PROVE StoresInOrder'
  <2>1. UNCHANGED <<head, tail, sta>> /\ \A j \in Id : rob'[j].store = rob[j].store
    BY <1>3, LoadDoneEffect
  <2>. QED BY <1>1, <2>1, StoresKept
<1>4. ASSUME NEW a \in Addr, ExecuteStore(i, a) PROVE StoresInOrder'
  <2>1. rob[i].store[a] = "ready" /\ UNCHANGED <<head, tail, sta>>
    BY <1>4, DependentsWait, ExecuteStoreEffect
  <2>2. \A j \in Id, b \in Addr :
           rob'[j].store[b] = IF j = i /\ b = a THEN "done" ELSE rob[j].store[b]
    BY <1>4, ExecuteStoreEffect
  <2>. QED BY <1>1, <2>1, <2>2, StoresKept
<1>. QED BY <1>2, <1>3, <1>4

LEMMA NextStores == IInv /\ OneStore /\ StoresInOrder /\ [Next]_vars => StoresInOrder'
<1>. SUFFICES ASSUME IInv, OneStore, StoresInOrder, [Next]_vars PROVE StoresInOrder'
  OBVIOUS
<1>1. CASE ResumeFetch \/ UNCHANGED vars
  <2>1. UNCHANGED <<head, tail, sta, rob>>
    BY <1>1 DEF ResumeFetch, vars, retirement, queues
  <2>. QED BY <2>1, StoresKept
<1>2. CASE \E k \in Kinds : ReadTrace(k)
  BY <1>2, ReadTraceStores
<1>3. ASSUME NEW i \in Id, SendToItlb(i) \/ ItlbDone(i) \/ SendToL1I(i) \/ L1IDone(i)
      PROVE  StoresInOrder'
  <2>1. {"read", "translating", "translated", "fetching", "fetched"} \subseteq Stage
    BY DEF Stage
  <2>2. PICK old, new \in Stage : SetFront(i, old, new)
    BY <1>3, <2>1 DEF SendToItlb, ItlbDone, SendToL1I, L1IDone
  <2>3. UNCHANGED <<head, tail, sta>> /\ \A j \in Id : Moved(j)
    BY <2>2, SetFrontMoves DEF SetFront, retirement, queues
  <2>. QED BY <2>3, MovedStores
<1>4. CASE Registers
  BY <1>4, OthersKeepStores DEF Registers
<1>5. CASE Memory
  <2>1. ASSUME NEW i \in Id, MemSchedule(i) PROVE StoresInOrder'
    BY <2>1, MemScheduleStores
  <2>2. ASSUME NEW i \in Id, NEW a \in Addr, StoreToDtlb(i, a) \/ StoreTranslated(i, a)
        PROVE  StoresInOrder'
    <3>1. UNCHANGED <<head, tail, sta>> /\ \A j \in Id : Moved(j)
      BY <2>2, SetStoreMoves DEF StoreToDtlb, StoreTranslated, SetStore, retirement, queues
    <3>. QED BY <3>1, MovedStores
  <2>3. ASSUME NEW i \in Id, NEW a \in Addr,
               LoadToDtlb(i, a) \/ LoadTranslated(i, a) \/ ExecuteLoad(i, a)
        PROVE  StoresInOrder'
    <3>1. UNCHANGED <<head, tail, sta>> /\ \A j \in Id : Moved(j)
      BY <2>3, SetLoadMoves DEF LoadToDtlb, LoadTranslated, ExecuteLoad, SetLoad, retirement, queues
    <3>. QED BY <3>1, MovedStores
  <2>4. ASSUME NEW i \in Id, NEW a \in Addr, ExecuteStore(i, a) \/ LoadDone(i, a)
        PROVE  StoresInOrder'
    BY <2>4, OthersKeepStores
  <2>. QED BY <1>5, <2>1, <2>2, <2>3, <2>4 DEF Memory
<1>6. CASE Retire
  BY <1>6, RetireStores
<1>. QED BY <1>1, <1>2, <1>3, <1>4, <1>5, <1>6 DEF Next, FrontEnd

LEMMA ProgressAlways ==
    ASSUME OneStore
    PROVE  Spec => [](PInv /\ StoresInOrder)
<1>1. Init => PInv /\ StoresInOrder
  <2>1. ASSUME Init PROVE PInv /\ StoresInOrder
    <3>1. IInv /\ InRob = {} /\ stall = "no" /\ Len(sta) = 0
      BY <2>1, InitInv DEF Init, InRob
    <3>. QED BY <3>1 DEF PInv, Linked, BranchPending, StoresInOrder, StaInOrder, QueueInOrder
  <2>. QED BY <2>1
<1>2. PInv /\ StoresInOrder /\ [Next]_vars => PInv' /\ StoresInOrder'
  BY NextProgress, NextStores DEF PInv
<1>. QED BY <1>1, <1>2, PTL DEF Spec

-----------------------------------------------------------------------------
(* The oldest instruction *)

\* The guard of one of the actions of instruction i.
CanMove(i) ==
    \/ rob[i].front = "read" /\ \A j \in Older(i) : rob[j].front # "read"
    \/ rob[i].front \in {"translating", "fetching"}
    \/ rob[i].front = "translated" /\ \A j \in Older(i) : rob[j].front \in {"fetching", "fetched"}
    \/ /\ InWindow(i) /\ rob[i].scheduled = "no"
       /\ \A j \in Older(i) : rob[j].scheduled # "no"
    \/ i \in rte
    \/ /\ inflightReg + inflightMem > 0
       /\ rob[i].executed = "inflight" /\ (IsMemory(i) => rob[i].numMemOps = 0)
    \/ /\ CanAdd(i) /\ \A j \in Older(i) : ~CanAdd(j)
       /\ LoadsAdded(i) # {} /\ StoresAdded(i) # {}
    \/ \E a \in Addr :
          \/ rob[i].load[a] \in {"queued", "translating", "ready", "issued"}
          \/ rob[i].store[a] \in {"queued", "translating"}
          \/ rob[i].store[a] = "ready" /\ \A j \in Dependents(i, a) : WaitsOn(j, i, a)
    \/ i = head /\ Retirable

\* The core never stops: the oldest instruction of the buffer can always move, and an empty
\* buffer can be filled.
NeverStuck ==
    /\ head < tail => CanMove(head)
    /\ head = tail => stall # "yes"

LEMMA HeadReady ==
    ASSUME IInv, head < tail
    PROVE  /\ head \in InRob /\ head \in Id /\ Older(head) = {}
           /\ rob[head].scheduled # "no" => RegReady(head)
<1>1. head \in InRob /\ head \in Id /\ Older(head) = {} /\ head \in Nat
  BY WindowIsId DEF IInv, InRob, Older
<1>2. HeldBy(head) = {}
  <2>1. Unfinished(head) = {}
    BY <1>1 DEF Unfinished
  <2>. QED BY <2>1 DEF HeldBy
<1>3. rob[head].numRegDependent = 0
  BY <1>1, <1>2, FS_EmptySet DEF IInv, Held
<1>. QED BY <1>1, <1>3 DEF RegReady

\* The loads in LQ are loads of other instructions of the window, one each.
LEMMA LqHasRoom ==
    ASSUME PInv, OneLoad, SchedulerSize <= LqSize, head < tail, TodoLoads(head) # {}
    PROVE  lqOccupancy < LqSize
<1>. DEFINE T == head + 1 .. head + SchedulerSize - 1
<1>1. IInv /\ TypeOK /\ \A i \in InRob : Opened(i)
  BY DEF PInv, IInv
<1>2. /\ head \in Nat /\ tail \in Nat /\ head \in InRob /\ IsFiniteSet(InRob)
      /\ SchedulerSize \in Nat \ {0} /\ LqSize \in Nat
      /\ lqOccupancy = Cardinality(InLq) /\ IsFiniteSet(InLq)
  BY <1>1, HeadReady, WindowIsId, CountersAre, CountedFinite, CoreAssumption DEF IInv
<1>3. \A i \in InRob : \A a, b \in Addr : rob[i].load[a] # "none" /\ rob[i].load[b] # "none" => a = b
  BY <1>1 DEF IInv, Entered, OneLoad
<1>4. ASSUME NEW d \in InLq PROVE d[1] \in T
  <2>1. d[1] \in InRob /\ d[2] \in Addr /\ rob[d[1]].load[d[2]] \notin {"none", "todo"}
    BY DEF InLq
  <2>2. rob[d[1]].scheduled # "no"
    BY <1>1, <2>1 DEF IInv, Staged, Begun, RegReady
  <2>3. d[1] - head < SchedulerSize
    BY <1>1, <2>1, <2>2 DEF Opened
  <2>4. d[1] # head
    <3>1. PICK a \in Addr : rob[head].load[a] = "todo"
      BY DEF TodoLoads
    <3>2. ASSUME d[1] = head PROVE FALSE
      <4>1. d[2] = a
        BY <1>2, <1>3, <2>1, <3>1, <3>2
      <4>. QED BY <2>1, <3>1, <3>2, <4>1
    <3>. QED BY <3>2
  <2>5. d[1] \in Nat /\ d[1] >= head
    BY <1>1, <1>2, <2>1, WindowIsId DEF InRob
  <2>. QED BY <1>2, <2>3, <2>4, <2>5
<1>5. \A c, d \in InLq : c[1] = d[1] => c = d
  <2>1. ASSUME NEW c \in InLq, NEW d \in InLq, c[1] = d[1] PROVE c = d
    <3>1. /\ c \in InRob \X Addr /\ rob[c[1]].load[c[2]] # "none"
          /\ d \in InRob \X Addr /\ rob[d[1]].load[d[2]] # "none"
      BY DEF InLq
    <3>2. c[1] \in InRob /\ c[2] \in Addr /\ d[2] \in Addr /\ c = <<c[1], c[2]>> /\ d = <<d[1], d[2]>>
      BY <3>1
    <3>3. c[2] = d[2]
      BY <1>3, <2>1, <3>1, <3>2
    <3>. QED BY <2>1, <3>2, <3>3
  <2>. QED BY <2>1
<1>6. IsFiniteSet(T) /\ Cardinality(T) = SchedulerSize - 1
  BY <1>2, FS_Interval
<1>7. Cardinality(InLq) <= Cardinality(T)
  <2>. DEFINE f == [d \in InLq |-> d[1]]
  <2>1. f \in [InLq -> T] /\ \A c, d \in InLq : f[c] = f[d] => c = d
    BY <1>4, <1>5
  <2>. HIDE DEF f
  <2>2. f \in Injection(InLq, T)
    BY <2>1 DEF Injection, IsInjective
  <2>. QED BY <1>2, <1>6, <2>2, FS_Injection DEF ExistsInjection
<1>. QED BY <1>2, <1>6, <1>7, FS_CardinalityType

\* When the oldest instruction has a store to add, no store is in SQ before it.
LEMMA SqHasRoom ==
    ASSUME IInv, OneStore, StoresInOrder, head < tail, TodoStores(head) # {}
    PROVE  sqOccupancy < SqSize /\ Head(sta) = head
<1>1. /\ head \in Nat /\ head \in InRob /\ TypeOK /\ \A i \in InRob : i \in Nat /\ i >= head
      /\ SqSize \in Nat \ {0} /\ sqOccupancy = Cardinality(InSq) /\ sta \in Seq(Id)
  <2>1. IInv /\ TypeOK /\ head \in InRob
    BY HeadReady DEF IInv
  <2>2. sqOccupancy = Cardinality(InSq)
    BY <2>1, CountersAre DEF IInv
  <2>3. \A i \in InRob : i \in Nat /\ i >= head
    BY <2>1, WindowIsId DEF InRob
  <2>4. SqSize \in Nat \ {0} /\ sta \in Seq(Id) /\ head \in Nat
    BY <2>1, CoreAssumption, WindowIsId DEF TypeOK
  <2>. QED BY <2>1, <2>2, <2>3, <2>4
<1>2. PICK a \in Addr : rob[head].store[a] = "todo"
  BY DEF TodoStores
<1>3. ASSUME NEW d \in InSq PROVE FALSE
  <2>1. d[1] \in InRob /\ d[2] \in Addr /\ rob[d[1]].store[d[2]] \notin {"none", "todo"}
    BY DEF InSq
  <2>2. d[1] = head
    <3>1. d[1] <= head
      BY <1>1, <2>1 DEF StoresInOrder, QueueInOrder
    <3>2. d[1] \in Nat /\ d[1] >= head /\ head \in Nat
      BY <1>1, <2>1
    <3>3. \A k, l \in Nat : k <= l /\ k >= l => k = l
      OBVIOUS
    <3>. QED BY <3>1, <3>2, <3>3
  <2>. QED BY <1>1, <1>2, <2>1, <2>2, OneTodoStore
<1>4. sqOccupancy = 0
  <2>1. InSq = {}
    BY <1>3
  <2>. QED BY <1>1, <2>1, FS_EmptySet
<1>5. PICK n \in 1 .. Len(sta) : sta[n] = head
  BY <1>1 DEF StoresInOrder, StaInOrder
<1>6. Len(sta) \in Nat /\ 1 \in 1 .. Len(sta) /\ Head(sta) = sta[1] /\ n \in Nat
  BY <1>1, <1>5
<1>7. n = 1
  <2>1. sta[1] \in InRob /\ (1 < n => sta[1] < sta[n])
    BY <1>5, <1>6 DEF StoresInOrder, StaInOrder
  <2>2. ~(1 < n)
    <3>1. sta[1] \in Nat /\ sta[1] >= head /\ head \in Nat
      BY <1>1, <2>1
    <3>2. \A k, l \in Nat : k >= l => ~(k < l)
      OBVIOUS
    <3>. QED BY <1>5, <2>1, <3>1, <3>2, Zenon
  <2>. QED BY <1>5, <1>6, <2>2
<1>. QED BY <1>1, <1>4, <1>5, <1>6, <1>7

\* Then all its operands find room.
LEMMA HeadAdds ==
    ASSUME PInv, StoresInOrder, OneLoad, OneStore, SchedulerSize <= LqSize, head < tail,
           rob[head].scheduled = "inflight"
    PROVE  /\ CanAdd(head) /\ \A j \in Older(head) : ~CanAdd(j)
           /\ LoadsAdded(head) # {} /\ StoresAdded(head) # {}
<1>. DEFINE L == TodoLoads(head)
            S == TodoStores(head)
<1>1. IInv /\ TypeOK /\ \A i \in InRob : Opened(i)
  BY DEF PInv, IInv
<1>2. head \in InRob /\ Older(head) = {} /\ RegReady(head) /\ L \cup S # {}
  BY <1>1, HeadReady DEF Opened
<1>3. /\ lqOccupancy \in Nat /\ sqOccupancy \in Nat /\ LqSize \in Nat /\ SqSize \in Nat
      /\ lqOccupancy <= LqSize /\ sqOccupancy <= SqSize
  BY <1>1, CoreAssumption DEF TypeOK
<1>4. L # {} => CanAddLoad(head)
  BY LqHasRoom DEF CanAddLoad
<1>5. S # {} => CanAddStore(head)
  BY <1>1, SqHasRoom DEF CanAddStore
<1>6. CanAdd(head)
  BY <1>2, <1>4, <1>5 DEF CanAdd
<1>7. lqOccupancy + Cardinality(Queued(head, L)) <= LqSize
  <2>1. \A a, b \in L : a = b
    BY <1>1, <1>2 DEF IInv, Entered, OneLoad, TodoLoads
  <2>2. CASE Queued(head, L) = {}
    BY <1>3, <2>2, FS_EmptySet
  <2>3. CASE Queued(head, L) # {}
    <3>1. Queued(head, L) \subseteq L
      BY DEF Queued
    <3>2. PICK a \in L : Queued(head, L) = {a}
      BY <2>1, <2>3, <3>1
    <3>3. Cardinality(Queued(head, L)) = 1
      BY <3>2, FS_Singleton
    <3>4. lqOccupancy < LqSize
      <4>1. L # {}
        BY <3>2
      <4>. QED BY <4>1, LqHasRoom
    <3>. QED BY <1>3, <3>3, <3>4
  <2>. QED BY <2>2, <2>3
<1>8. sqOccupancy + Cardinality(S) <= SqSize
  <2>1. \A a, b \in S : a = b
    BY <1>1, <1>2, OneTodoStore DEF TodoStores
  <2>2. CASE S = {}
    BY <1>3, <2>2, FS_EmptySet
  <2>3. CASE S # {}
    <3>1. PICK a \in S : S = {a}
      BY <2>1, <2>3
    <3>2. Cardinality(S) = 1 /\ sqOccupancy < SqSize
      BY <1>1, <2>3, <3>1, FS_Singleton, SqHasRoom
    <3>. QED BY <1>3, <3>2
  <2>. QED BY <2>2, <2>3
<1>9. L \in LoadsAdded(head)
  BY <1>4, <1>7 DEF LoadsAdded
<1>10. S \in StoresAdded(head)
  BY <1>5, <1>8 DEF StoresAdded
<1>. QED BY <1>2, <1>6, <1>9, <1>10

\* An instruction whose counts are not yet zero is waiting for one of its own operands.
LEMMA HeadRuns ==
    ASSUME PInv, OneStore, head < tail, rob[head].executed = "inflight"
    PROVE  CanMove(head)
<1>1. IInv /\ TypeOK /\ Linked /\ head \in InRob /\ Older(head) = {}
  BY HeadReady DEF PInv, IInv
<1>2. /\ rob[head].numMemOps = Cardinality(PendingLoads(head)) + Cardinality(PendingStores(head))
      /\ inflightReg = Cardinality(RunningReg) /\ inflightMem = Cardinality(RunningMem)
      /\ IsFiniteSet(RunningReg) /\ IsFiniteSet(RunningMem)
  BY <1>1, CountersAre, CountedFinite DEF IInv
<1>3. inflightReg \in Nat /\ inflightMem \in Nat
  BY <1>1 DEF TypeOK
<1>4. CASE ~IsMemory(head)
  <2>1. head \in RunningReg
    BY <1>1, <1>4 DEF RunningReg
  <2>2. inflightReg # 0
    BY <1>2, <2>1, FS_EmptySet
  <2>. QED BY <1>3, <1>4, <2>2 DEF CanMove
<1>5. CASE IsMemory(head) /\ rob[head].numMemOps = 0
  <2>1. head \in RunningMem
    BY <1>1, <1>5 DEF RunningMem
  <2>2. inflightMem # 0
    BY <1>2, <2>1, FS_EmptySet
  <2>. QED BY <1>3, <1>5, <2>2 DEF CanMove
<1>6. CASE rob[head].numMemOps # 0
  <2>1. PendingLoads(head) # {} \/ PendingStores(head) # {}
    BY <1>2, <1>6, FS_EmptySet
  <2>2. rob[head].executed # "no" /\ IsMemory(head)
    <3>1. PICK a \in Addr : a \in PendingLoads(head) \cup PendingStores(head)
      BY <2>1 DEF PendingLoads, PendingStores, Pending
    <3>. QED BY <1>1, <3>1, PendingKeepsOpen
  <2>3. TodoLoads(head) = {} /\ TodoStores(head) = {}
    <3>1. rob[head].scheduled = "done"
      <4>1. rob[head].scheduled \in Progress
        BY <1>1, EntryTypes, WindowIsId
      <4>. QED BY <1>1, <2>2, <4>1 DEF IInv, Staged, Begun, RegReady, Progress
    <3>. QED BY <1>1, <2>2, <3>1 DEF PInv, Opened
  <2>4. rob[head].load \in [Addr -> LoadState] /\ rob[head].store \in [Addr -> StoreState]
    BY <1>1, EntryTypes, WindowIsId
  <2>5. ASSUME NEW a \in PendingLoads(head) PROVE CanMove(head)
    <3>1. a \in Addr /\ rob[head].load[a] \in LoadState \ {"none", "todo", "done"}
      BY <2>3, <2>4 DEF PendingLoads, Pending, TodoLoads
    <3>2. rob[head].load[a] # "waiting"
      BY <1>1, <3>1 DEF IInv, Sourced, LastStore
    <3>3. rob[head].load[a] \in {"queued", "translating", "ready", "issued"}
      BY <3>1, <3>2 DEF LoadState
    <3>. QED BY <3>1, <3>3 DEF CanMove
  <2>6. ASSUME NEW a \in PendingStores(head) PROVE CanMove(head)
    <3>1. a \in Addr /\ rob[head].store[a] \in StoreState \ {"none", "todo", "done"}
      BY <2>3, <2>4 DEF PendingStores, Pending, TodoStores
    <3>2. rob[head].store[a] \in {"queued", "translating", "ready"}
      BY <3>1 DEF StoreState
    <3>3. rob[head].store[a] = "ready" => \A j \in Dependents(head, a) : WaitsOn(j, head, a)
      BY <1>1, <3>1, StoreFindsWaiting DEF StoreAssertHolds
    <3>. QED BY <3>1, <3>2, <3>3 DEF CanMove
  <2>. QED BY <2>1, <2>5, <2>6
<1>. QED BY <1>4, <1>5, <1>6

LEMMA HeadMoves ==
    ASSUME PInv, StoresInOrder, OneLoad, OneStore, SchedulerSize <= LqSize, head < tail
    PROVE  CanMove(head)
<1>1. /\ IInv /\ TypeOK /\ head \in InRob /\ head \in Id /\ head \in Nat /\ Older(head) = {}
      /\ Opened(head)
  BY HeadReady, WindowIsId DEF PInv, IInv
<1>2. /\ rob[head].front \in Stage /\ rob[head].scheduled \in Progress
      /\ rob[head].executed \in Progress
  BY <1>1, EntryTypes
<1>3. CASE rob[head].front # "fetched"
  <2>1. rob[head].front \in {"read", "translating", "translated", "fetching"}
    BY <1>1, <1>2, <1>3 DEF Opened, Stage
  <2>. QED BY <1>1, <2>1 DEF CanMove
<1>4. CASE rob[head].front = "fetched" /\ rob[head].scheduled = "no"
  <2>1. SchedulerSize \in Nat \ {0} /\ head .. head = {head} /\ head - head < SchedulerSize
    BY <1>1, CoreAssumption
  <2>2. InWindow(head)
    BY <1>1, <1>4, <2>1 DEF InWindow
  <2>. QED BY <1>1, <1>4, <2>2 DEF CanMove
<1>5. CASE rob[head].scheduled = "inflight"
  BY <1>5, HeadAdds DEF CanMove
<1>6. CASE rob[head].scheduled = "done"
  <2>1. CASE rob[head].executed = "no"
    <3>1. ~IsMemory(head) /\ RegReady(head)
      BY <1>1, <1>6, <2>1, HeadReady DEF Opened
    <3>2. head \in rte
      BY <1>1, <2>1, <3>1 DEF IInv, Held
    <3>. QED BY <3>2 DEF CanMove
  <2>2. CASE rob[head].executed = "inflight"
    BY <2>2, HeadRuns
  <2>3. CASE rob[head].executed = "done"
    BY <2>3 DEF CanMove, Retirable
  <2>. QED BY <1>2, <2>1, <2>2, <2>3 DEF Progress
<1>. QED BY <1>2, <1>3, <1>4, <1>5, <1>6 DEF Progress

\* With one load and one store per instruction and a load queue as large as the scheduling
\* window, the core cannot wedge, however many instructions the buffer holds and however
\* small the store queue: STA keeps the place in SQ for the oldest store, and the window
\* keeps one in LQ for the oldest load.  (A load queue that is smaller can fill with
\* younger loads that wait for a store, which waits for the oldest load.)
THEOREM CoreNeverStuck ==
    Spec /\ OneLoad /\ OneStore /\ SchedulerSize <= LqSize => []NeverStuck
<1>. SUFFICES ASSUME OneLoad, OneStore, SchedulerSize <= LqSize PROVE Spec => []NeverStuck
  OBVIOUS
<1>1. PInv /\ StoresInOrder => NeverStuck
  <2>1. SUFFICES ASSUME PInv, StoresInOrder PROVE NeverStuck
    OBVIOUS
  <2>2. head < tail => CanMove(head)
    BY <2>1, HeadMoves
  <2>3. head = tail => stall # "yes"
    <3>1. head = tail => InRob = {}
      BY <2>1, WindowIsId DEF PInv, IInv, InRob
    <3>. QED BY <2>1, <3>1 DEF PInv, BranchPending
  <2>. QED BY <2>2, <2>3 DEF NeverStuck
<1>2. Spec => [](PInv /\ StoresInOrder)
  BY ProgressAlways
<1>. QED BY <1>1, <1>2, PTL
=============================================================================
