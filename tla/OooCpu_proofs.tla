---------------------------- MODULE OooCpu_proofs ----------------------------
(***************************************************************************)
(* Invariants of OooCpu for every trace, every set of instructions and     *)
(* registers and every size of the buffer and its queues, and that the     *)
(* core implements ProgramOrder.                                           *)
(***************************************************************************)
EXTENDS OooCpu, FiniteSetTheorems, FunctionTheorems, WellFoundedInduction, TLAPS

\* An instruction whose operands have begun to move: it is executing, or has an operand in
\* a queue.
Begun(i) ==
    \/ rob[i].executed # "no"
    \/ \E a \in Addr : \/ rob[i].load[a] \notin {"none", "todo"}
                       \/ rob[i].store[a] \notin {"none", "todo"}

\* What holds of an entry by itself.
Entered(i) ==
    /\ rob[i].ins \in Kinds
    /\ \A a \in Addr : /\ rob[i].load[a] = "none" <=> a \notin rob[i].ins.load
                       /\ rob[i].store[a] = "none" <=> a \notin rob[i].ins.store
Staged(i) ==
    /\ ~IsMemory(i) => rob[i].scheduled # "inflight"
    /\ rob[i].scheduled = "inflight" => rob[i].executed = "no"
    /\ rob[i].executed = "done" => rob[i].numMemOps = 0
    /\ Begun(i) => RegReady(i)

\* The dependence lists name younger instructions, and those for registers scheduled ones.
Named(p) ==
    /\ rob[p].memDependents \subseteq p + 1 .. tail - 1
    /\ \A d \in rob[p].regDependents : d[1] \in p + 1 .. tail - 1 /\ rob[d[1]].scheduled # "no"

\* p is the youngest writer of register r before i.
LastWriter(i, r, p) ==
    /\ p \in Older(i) /\ r \in rob[p].ins.dst
    /\ \A q \in p + 1 .. i - 1 : r \notin rob[q].ins.dst
\* What holds i back: pairs of an instruction that has not completed and a place in its list.
Unfinished(i) == {p \in Older(i) : rob[p].executed # "done"}
HeldBy(i) == UNION {{p} \X {d \in rob[p].regDependents : d[1] = i} : p \in Unfinished(i)}
Held(i) ==
    /\ rob[i].scheduled # "no" =>
          \A r \in rob[i].ins.src, p \in Unfinished(i) :
             LastWriter(i, r, p) => <<i, r>> \in rob[p].regDependents
    /\ rob[i].numRegDependent = Cardinality(HeldBy(i))
    /\ i \in rte <=> ~IsMemory(i) /\ RegReady(i) /\ rob[i].executed = "no"

\* The youngest older store of the buffer to a is by p; there is none.
LastStore(i, a, p) ==
    /\ p \in Older(i) /\ a \in rob[p].ins.store
    /\ \A q \in p + 1 .. i - 1 : a \notin rob[q].ins.store
NoStore(i, a) == \A q \in Older(i) : a \notin rob[q].ins.store
Sourced(i, a) ==
    /\ rob[i].load[a] = "waiting" =>
          LET p == rob[i].from[a]
          IN LastStore(i, a, p) /\ i \in rob[p].memDependents /\ rob[p].store[a] # "done"
    /\ rob[i].load[a] \in {"queued", "translating", "ready", "issued"} => NoStore(i, a)
    /\ rob[i].load[a] = "done" =>
          \/ LastStore(i, a, rob[i].from[a])
          \/ NoStore(i, a) /\ rob[i].from[a] = written[a]

IInv ==
    /\ TypeOK
    /\ rte \subseteq InRob
    /\ \A i \in InRob : Entered(i) /\ Staged(i) /\ Named(i) /\ Held(i)
    /\ \A i \in InRob, a \in Addr : Sourced(i, a)
    /\ OpsCounted

-----------------------------------------------------------------------------
(* Sets *)

LEMMA DisjointUnion ==
    ASSUME NEW S, NEW T, IsFiniteSet(S), IsFiniteSet(T), S \cap T = {}
    PROVE  IsFiniteSet(S \cup T) /\ Cardinality(S \cup T) = Cardinality(S) + Cardinality(T)
  BY FS_Union, FS_EmptySet, FS_CardinalityType

LEMMA SubsetRemoved ==
    ASSUME NEW S, NEW T, IsFiniteSet(S), T \subseteq S
    PROVE  /\ IsFiniteSet(T) /\ IsFiniteSet(S \ T)
           /\ Cardinality(S \ T) = Cardinality(S) - Cardinality(T)
<1>1. IsFiniteSet(T) /\ IsFiniteSet(S \ T)
  BY FS_Subset, FS_Difference
<1>2. S \cap T = T
  OBVIOUS
<1>. QED BY <1>1, <1>2, FS_Difference

LEMMA BijectionKeepsSize ==
    ASSUME NEW S, NEW T, IsFiniteSet(S), NEW f \in [S -> T],
           \A x, y \in S : f[x] = f[y] => x = y,
           \A y \in T : \E x \in S : f[x] = y
    PROVE  IsFiniteSet(T) /\ Cardinality(T) = Cardinality(S)
<1>1. f \in Bijection(S, T)
  BY DEF Bijection, Injection, Surjection, IsInjective
<1>. QED BY <1>1, FS_Bijection DEF ExistsBijection

\* A set of numbers with an upper bound has a greatest element.
LEMMA GreatestExists ==
    ASSUME NEW b \in Nat, NEW S \in SUBSET (1 .. b), S # {}
    PROVE  \E i \in S : \A j \in S : j <= i
<1> DEFINE T == {n \in Nat : b - n \in S}
<1>1. T # {} /\ T \subseteq Nat
  <2>1. PICK i \in S : TRUE
    OBVIOUS
  <2>2. i \in 1 .. b /\ b - i \in Nat /\ b - (b - i) = i
    OBVIOUS
  <2>. QED BY <2>1, <2>2
<1>2. PICK m \in T : \A n \in T : ~(<<n, m>> \in OpToRel(<, Nat))
  BY <1>1, NatLessThanWellFounded, WFMin
<1>3. m \in Nat /\ b - m \in S
  OBVIOUS
<1>4. ASSUME NEW j \in S PROVE j <= b - m
  <2>1. b - j \in Nat /\ b - (b - j) = j
    OBVIOUS
  <2>2. b - j \in T
    BY <2>1
  <2>3. ~(b - j < m)
    BY <1>2, <1>3, <2>1, <2>2 DEF OpToRel
  <2>. QED BY <1>3, <2>1, <2>3
<1>. QED BY <1>3, <1>4

LEMMA YoungestOf ==
    ASSUME NEW b \in Nat, NEW S \in SUBSET (1 .. b)
    PROVE  /\ S = {} => Youngest(S) = 0
           /\ S # {} => Youngest(S) \in S /\ \A j \in S : j <= Youngest(S)
           /\ Youngest(S) # 0 <=> S # {}
<1>1. CASE S = {}
  BY <1>1 DEF Youngest
<1>2. CASE S # {}
  <2>1. \E i \in S : \A j \in S : j <= i
    BY <1>2, GreatestExists
  <2>2. Youngest(S) \in S /\ \A j \in S : j <= Youngest(S)
    BY <1>2, <2>1 DEF Youngest
  <2>3. Youngest(S) # 0
    <3>1. Youngest(S) \in 1 .. b
      BY <2>2
    <3>. QED BY <3>1
  <2>. QED BY <1>2, <2>2, <2>3
<1>. QED BY <1>1, <1>2

-----------------------------------------------------------------------------
(* Instructions and entries *)

LEMMA WindowIsId ==
    ASSUME TypeOK
    PROVE  /\ head \in Nat \ {0} /\ tail \in Nat \ {0} /\ head <= tail
           /\ InRob \subseteq Id /\ IsFiniteSet(InRob) /\ IsFiniteSet(Id)
           /\ \A i \in InRob : /\ Older(i) \subseteq InRob /\ Older(i) \in SUBSET (1 .. TraceLen)
                               /\ i \notin Older(i) /\ IsFiniteSet(Older(i)) /\ i \in Nat
                               /\ \A p \in Older(i) : p < i
<1>1. TraceLen \in Nat /\ head \in Nat \ {0} /\ tail \in Nat \ {0} /\ head <= tail
      /\ tail <= TraceLen + 1
  BY CoreAssumption DEF TypeOK
<1>2. InRob \subseteq Id
  BY <1>1 DEF InRob, Id
<1>3. IsFiniteSet(Id)
  BY <1>1, FS_Interval DEF Id
<1>4. ASSUME NEW i \in InRob
      PROVE  /\ Older(i) \subseteq InRob /\ Older(i) \subseteq Id /\ i \notin Older(i) /\ i \in Nat
             /\ \A p \in Older(i) : p < i
  BY <1>1 DEF InRob, Older, Id
<1>5. \A i \in InRob : IsFiniteSet(Older(i))
  BY <1>2, <1>3, <1>4, FS_Subset
<1>. QED BY <1>1, <1>2, <1>3, <1>4, <1>5, FS_Subset DEF Id

LEMMA EntryTypes ==
    ASSUME TypeOK, NEW i \in Id
    PROVE  /\ rob[i] \in Entry
           /\ rob[i].ins \in Instr
           /\ rob[i].ins.src \subseteq Reg /\ rob[i].ins.dst \subseteq Reg
           /\ rob[i].ins.load \subseteq Addr /\ rob[i].ins.store \subseteq Addr
           /\ rob[i].front \in Stage
           /\ rob[i].scheduled \in Progress /\ rob[i].executed \in Progress
           /\ rob[i].regDependents \in SUBSET (Id \X Reg)
           /\ rob[i].numRegDependent \in Int
           /\ rob[i].memDependents \in SUBSET Id
           /\ rob[i].numMemOps \in Int
           /\ rob[i].load \in [Addr -> LoadState] /\ rob[i].from \in [Addr -> Nat]
           /\ rob[i].store \in [Addr -> StoreState]
<1>1. rob[i] \in Entry
  BY DEF TypeOK
<1>. QED BY <1>1 DEF Entry, Instr

\* The type of an entry when one field changes.
LEMMA EntryUpdates ==
    ASSUME NEW e \in Entry
    PROVE  /\ \A v \in Stage : [e EXCEPT !.front = v] \in Entry
           /\ \A v \in Progress : [e EXCEPT !.executed = v] \in Entry
           /\ \A v \in SUBSET (Id \X Reg) : [e EXCEPT !.regDependents = v] \in Entry
           /\ \A v \in Int : [e EXCEPT !.numRegDependent = v] \in Entry
           /\ \A v \in SUBSET Id : [e EXCEPT !.memDependents = v] \in Entry
           /\ \A v \in [Addr -> LoadState] : [e EXCEPT !.load = v] \in Entry
           /\ \A v \in [Addr -> StoreState] : [e EXCEPT !.store = v] \in Entry
  BY DEF Entry

\* What holds i back, element by element.
LEMMA HeldByElements ==
    ASSUME NEW i
    PROVE  \A x : x \in HeldBy(i) <=>
              \E p \in Unfinished(i) : \E d \in rob[p].regDependents : d[1] = i /\ x = <<p, d>>
  BY DEF HeldBy

LEMMA HeldByFinite ==
    ASSUME TypeOK, NEW i \in InRob
    PROVE  IsFiniteSet(HeldBy(i)) /\ HeldBy(i) \subseteq Id \X (Id \X Reg)
<1>1. IsFiniteSet(Id \X (Id \X Reg))
  BY WindowIsId, CoreAssumption, FS_Product
<1>2. HeldBy(i) \subseteq Id \X (Id \X Reg)
  <2>1. ASSUME NEW x \in HeldBy(i) PROVE x \in Id \X (Id \X Reg)
    <3>1. PICK p \in Unfinished(i) : \E d \in rob[p].regDependents : d[1] = i /\ x = <<p, d>>
      BY HeldByElements
    <3>4. PICK d \in rob[p].regDependents : d[1] = i /\ x = <<p, d>>
      BY <3>1
    <3>2. p \in Id
      BY WindowIsId DEF Unfinished
    <3>3. d \in Id \X Reg
      BY <3>2, EntryTypes
    <3>. QED BY <3>2, <3>3, <3>4
  <2>. QED BY <2>1
<1>. QED BY <1>1, <1>2, FS_Subset

-----------------------------------------------------------------------------
(* Steps that only move a front end, a load or a store on *)

SameLoad(x, y) == x = y \/ {x, y} \subseteq {"queued", "translating", "ready", "issued"}
SameStore(x, y) == x = y \/ {x, y} \subseteq {"queued", "translating", "ready"}

\* What a step leaves of the registers' part of an entry.
SameLists(i) ==
    /\ rob'[i].ins = rob[i].ins
    /\ rob'[i].regDependents = rob[i].regDependents
    /\ rob'[i].numRegDependent = rob[i].numRegDependent
    /\ rob'[i].scheduled = "no" <=> rob[i].scheduled = "no"
    /\ rob'[i].executed = "done" <=> rob[i].executed = "done"
SameRegs(i) == SameLists(i) /\ (~IsMemory(i) => rob'[i].executed = rob[i].executed)

\* What it leaves of the sources of loads.
SameSources(i) ==
    /\ rob'[i].ins = rob[i].ins /\ rob'[i].from = rob[i].from
    /\ rob'[i].memDependents = rob[i].memDependents
    /\ \A a \in Addr : SameLoad(rob[i].load[a], rob'[i].load[a])
                      /\ SameStore(rob[i].store[a], rob'[i].store[a])

\* What it leaves of the operations that are counted.
SameOps(i) ==
    /\ rob'[i].ins = rob[i].ins /\ rob'[i].numMemOps = rob[i].numMemOps
    /\ rob'[i].executed = rob[i].executed
    /\ \A a \in Addr : SameLoad(rob[i].load[a], rob'[i].load[a])
                      /\ SameStore(rob[i].store[a], rob'[i].store[a])

LEMMA MemoryKept ==
    ASSUME NEW i, rob'[i].ins = rob[i].ins
    PROVE  IsMemory(i)' = IsMemory(i)
  BY DEF IsMemory

\* Held(i) is a matter of i and the instructions before it; the head may have retired.
LEMMA HeldUnder ==
    ASSUME TypeOK, NEW i \in InRob, Held(i),
           \/ head' = head
           \/ head' = head + 1 /\ i # head /\ rob[head].executed = "done",
           \A p \in head' .. i : SameLists(p),
           (i \in rte <=> ~IsMemory(i) /\ RegReady(i) /\ rob[i].executed = "no")'
    PROVE  Held(i)'
<1>1. /\ i \in Nat /\ head \in Nat /\ head' \in Nat /\ head <= i /\ head' <= i
      /\ head' = head \/ (head' = head + 1 /\ rob[head].executed = "done")
  <2>1. i \in Nat /\ head \in Nat /\ head <= i
    <3>1. i \in Nat /\ head \in Nat /\ tail \in Nat
      BY WindowIsId
    <3>2. i \in head .. tail - 1
      BY DEF InRob
    <3>. QED BY <3>1, <3>2
  <2>2. CASE head' = head
    BY <2>1, <2>2
  <2>3. CASE head' = head + 1 /\ i # head /\ rob[head].executed = "done"
    BY <2>1, <2>3
  <2>. QED BY <2>1, <2>2, <2>3
<1>2. /\ Older(i)' \subseteq Older(i) /\ Older(i)' \subseteq head' .. i /\ i \in head' .. i
      /\ \A p \in Older(i) : p \notin Older(i)' => rob[p].executed = "done"
  BY <1>1 DEF Older
<1>3. Unfinished(i)' = Unfinished(i)
  BY <1>2 DEF Unfinished, SameLists
<1>4. \A p \in Unfinished(i) : p \in Older(i)' /\ rob'[p].regDependents = rob[p].regDependents
  BY <1>2 DEF Unfinished, SameLists
<1>5. HeldBy(i)' = HeldBy(i)
  BY <1>3, <1>4 DEF HeldBy
<1>6. ASSUME NEW r, NEW p \in Unfinished(i) PROVE LastWriter(i, r, p)' => LastWriter(i, r, p)
  <2>1. p \in head' .. i /\ p \in Older(i) /\ \A q \in p + 1 .. i - 1 : q \in head' .. i
    BY <1>1, <1>2, <1>4 DEF Older
  <2>. QED BY <2>1 DEF LastWriter, SameLists
<1>7. SameLists(i)
  BY <1>2
<1>8. (rob[i].numRegDependent = Cardinality(HeldBy(i)))'
  BY <1>5, <1>7 DEF Held, SameLists
<1>9. (rob[i].scheduled # "no" =>
          \A r \in rob[i].ins.src, p \in Unfinished(i) :
             LastWriter(i, r, p) => <<i, r>> \in rob[p].regDependents)'
  BY <1>3, <1>4, <1>6, <1>7 DEF Held, SameLists
<1>. QED BY <1>8, <1>9 DEF Held

LEMMA HeldAt ==
    ASSUME TypeOK, NEW i \in InRob, Held(i),
           \/ head' = head
           \/ head' = head + 1 /\ i # head /\ rob[head].executed = "done",
           i \in rte' <=> i \in rte,
           \A p \in head' .. i : SameRegs(p)
    PROVE  Held(i)'
<1>1. i \in Nat /\ head' \in Nat /\ head' <= i
  <2>1. i \in Nat /\ head \in Nat /\ head <= i
    <3>1. i \in Nat /\ head \in Nat /\ tail \in Nat
      BY WindowIsId
    <3>2. i \in head .. tail - 1
      BY DEF InRob
    <3>. QED BY <3>1, <3>2
  <2>2. CASE head' = head
    BY <2>1, <2>2
  <2>3. CASE head' = head + 1 /\ i # head
    BY <2>1, <2>3
  <2>. QED BY <2>2, <2>3
<1>2. SameRegs(i) /\ \A p \in head' .. i : SameLists(p)
  BY <1>1 DEF SameRegs
<1>3. IsMemory(i)' = IsMemory(i) /\ RegReady(i)' = RegReady(i)
  BY <1>2, MemoryKept DEF SameRegs, SameLists, RegReady
<1>4. (i \in rte <=> ~IsMemory(i) /\ RegReady(i) /\ rob[i].executed = "no")'
  BY <1>2, <1>3 DEF Held, SameRegs
<1>. QED BY <1>2, <1>4, HeldUnder

LEMMA HeldKept ==
    ASSUME IInv, UNCHANGED <<head, tail, rte>>, \A i \in Id : SameRegs(i)
    PROVE  (\A i \in InRob : Held(i))'
<1> SUFFICES ASSUME NEW i \in InRob PROVE Held(i)'
  BY DEF InRob
<1>1. Held(i) /\ i \in Id
  BY WindowIsId DEF IInv
<1>2. \A p \in head .. i : p \in Id
  BY <1>1, WindowIsId, CoreAssumption DEF IInv, Id
<1>. QED BY <1>1, <1>2, HeldAt DEF IInv

\* Sourced(i, a) likewise; no instruction retires.
LEMMA SourcedAt ==
    ASSUME TypeOK, NEW i \in InRob, NEW a \in Addr, Sourced(i, a),
           UNCHANGED <<head, written>>,
           \A p \in Older(i) : /\ rob'[p].ins = rob[p].ins
                             /\ rob[p].memDependents \subseteq rob'[p].memDependents,
           rob'[i].from[a] = rob[i].from[a],
           SameLoad(rob[i].load[a], rob'[i].load[a]),
           rob[i].load[a] = "waiting" => rob'[rob[i].from[a]].store[a] # "done"
    PROVE  Sourced(i, a)'
<1>1. /\ Older(i)' = Older(i) /\ i \in Nat /\ head \in Nat
  BY WindowIsId DEF Older
<1>2. \A q \in Older(i) : rob'[q].ins = rob[q].ins
  OBVIOUS
<1>3. NoStore(i, a)' = NoStore(i, a)
  BY <1>1, <1>2 DEF NoStore
<1>4. ASSUME NEW p PROVE LastStore(i, a, p)' = LastStore(i, a, p)
  <2>1. p \in Older(i) => \A q \in p + 1 .. i - 1 : q \in Older(i)
    BY <1>1 DEF Older
  <2>. QED BY <1>1, <1>2, <2>1 DEF LastStore
<1>5. rob'[i].from[a] = rob[i].from[a] /\ SameLoad(rob[i].load[a], rob'[i].load[a])
  OBVIOUS
<1>6. CASE rob'[i].load[a] = "waiting"
  <2>1. rob[i].load[a] = "waiting"
    BY <1>5, <1>6 DEF SameLoad
  <2> DEFINE p == rob[i].from[a]
  <2>2. LastStore(i, a, p) /\ i \in rob[p].memDependents /\ rob[p].store[a] # "done"
    BY <2>1 DEF Sourced
  <2>3. p \in Older(i)
    BY <2>2 DEF LastStore
  <2>4. i \in rob'[p].memDependents /\ rob'[p].store[a] # "done"
    BY <2>1, <2>2, <2>3
  <2>. QED BY <1>4, <1>5, <1>6, <2>2, <2>4 DEF Sourced
<1>7. CASE rob'[i].load[a] \in {"queued", "translating", "ready", "issued"}
  <2>1. rob[i].load[a] \in {"queued", "translating", "ready", "issued"}
    BY <1>5, <1>7 DEF SameLoad
  <2>. QED BY <1>1, <1>3, <1>7, <2>1 DEF Sourced
<1>8. CASE rob'[i].load[a] = "done"
  <2>1. rob[i].load[a] = "done"
    BY <1>5, <1>8 DEF SameLoad
  <2>. QED BY <1>1, <1>3, <1>4, <1>5, <1>8, <2>1 DEF Sourced
<1>. QED BY <1>6, <1>7, <1>8 DEF Sourced

LEMMA SourcesKept ==
    ASSUME IInv, UNCHANGED <<head, tail, written>>, \A i \in Id : SameSources(i)
    PROVE  (\A i \in InRob, a \in Addr : Sourced(i, a))'
<1> SUFFICES ASSUME NEW i \in InRob, NEW a \in Addr PROVE Sourced(i, a)'
  BY DEF InRob
<1>1. Sourced(i, a) /\ i \in Id
  BY WindowIsId DEF IInv
<1>2. \A p \in head .. i : p \in Id
  BY <1>1, WindowIsId, CoreAssumption DEF IInv, Id
<1>3. SameSources(i) /\ Older(i) \subseteq Id
  BY <1>1, WindowIsId DEF IInv
<1>4. \A p \in Older(i) : /\ rob'[p].ins = rob[p].ins
                          /\ rob[p].memDependents \subseteq rob'[p].memDependents
  BY <1>3 DEF SameSources
<1>5. rob[i].load[a] = "waiting" => rob'[rob[i].from[a]].store[a] # "done"
  <2>1. ASSUME rob[i].load[a] = "waiting" PROVE rob'[rob[i].from[a]].store[a] # "done"
    <3>1. rob[i].from[a] \in Id /\ rob[rob[i].from[a]].store[a] # "done"
      BY <1>1, <1>3, <2>1 DEF Sourced, LastStore
    <3>. QED BY <3>1 DEF SameSources, SameStore
  <2>. QED BY <2>1
<1>6. rob'[i].from[a] = rob[i].from[a] /\ SameLoad(rob[i].load[a], rob'[i].load[a])
  BY <1>3 DEF SameSources
<1>. QED BY <1>1, <1>4, <1>5, <1>6, SourcedAt DEF IInv

\* The sets whose sizes OpsCounted compares with the counters.
PendingLoads(i) == Pending(rob[i].load, {"done"})
PendingStores(i) == Pending(rob[i].store, {"done"})
RunningReg == {i \in InRob : ~IsMemory(i) /\ rob[i].executed = "inflight"}
RunningMem == {i \in InRob : IsMemory(i) /\ rob[i].numMemOps = 0 /\ rob[i].executed # "done"}
InLq == {d \in InRob \X Addr : rob[d[1]].load[d[2]] \notin {"none", "todo", "done"}}
InSq == {d \in InRob \X Addr : rob[d[1]].store[d[2]] \notin {"none", "todo"}}

LEMMA CountersAre ==
    OpsCounted <=>
        /\ \A i \in InRob :
              rob[i].numMemOps = Cardinality(PendingLoads(i)) + Cardinality(PendingStores(i))
        /\ inflightReg = Cardinality(RunningReg) /\ inflightMem = Cardinality(RunningMem)
        /\ lqOccupancy = Cardinality(InLq) /\ sqOccupancy = Cardinality(InSq)
  BY Zenon DEF OpsCounted, PendingLoads, PendingStores, RunningReg, RunningMem, InLq, InSq

LEMMA CountersAreNext ==
    OpsCounted' <=>
        /\ (\A i \in InRob :
              rob[i].numMemOps = Cardinality(PendingLoads(i)) + Cardinality(PendingStores(i)))'
        /\ inflightReg' = Cardinality(RunningReg') /\ inflightMem' = Cardinality(RunningMem')
        /\ lqOccupancy' = Cardinality(InLq') /\ sqOccupancy' = Cardinality(InSq')
  BY Zenon DEF OpsCounted, PendingLoads, PendingStores, RunningReg, RunningMem, InLq, InSq

LEMMA CountedFinite ==
    ASSUME TypeOK
    PROVE  /\ IsFiniteSet(Addr)
           /\ \A i : IsFiniteSet(PendingLoads(i)) /\ IsFiniteSet(PendingStores(i))
           /\ IsFiniteSet(RunningReg) /\ IsFiniteSet(RunningMem)
           /\ IsFiniteSet(InLq) /\ IsFiniteSet(InSq)
<1>1. IsFiniteSet(Addr) /\ IsFiniteSet(InRob)
  BY WindowIsId, CoreAssumption
<1>2. IsFiniteSet(InRob \X Addr)
  BY <1>1, FS_Product
<1>3. RunningReg \subseteq InRob /\ RunningMem \subseteq InRob
  BY DEF RunningReg, RunningMem
<1>4. InLq \subseteq InRob \X Addr /\ InSq \subseteq InRob \X Addr
  BY DEF InLq, InSq
<1>5. \A i : PendingLoads(i) \subseteq Addr /\ PendingStores(i) \subseteq Addr
  BY DEF PendingLoads, PendingStores, Pending
<1>. QED BY <1>1, <1>2, <1>3, <1>4, <1>5, FS_Subset

\* A step that moves no operation in or out of one of these sets.
LEMMA OpSetsKept ==
    ASSUME NEW i, SameOps(i)
    PROVE  /\ PendingLoads(i)' = PendingLoads(i) /\ PendingStores(i)' = PendingStores(i)
           /\ rob'[i].numMemOps = rob[i].numMemOps
           /\ IsMemory(i)' = IsMemory(i) /\ rob'[i].executed = rob[i].executed
           /\ \A a \in Addr :
                 /\ rob'[i].load[a] \in {"none", "todo", "done"} <=> rob[i].load[a] \in {"none", "todo", "done"}
                 /\ rob'[i].store[a] \in {"none", "todo"} <=> rob[i].store[a] \in {"none", "todo"}
<1>1. IsMemory(i)' = IsMemory(i) /\ rob'[i].executed = rob[i].executed
      /\ rob'[i].numMemOps = rob[i].numMemOps
  BY MemoryKept DEF SameOps
<1>2. \A a \in Addr :
         /\ rob'[i].load[a] \in {"none", "todo", "done"} <=> rob[i].load[a] \in {"none", "todo", "done"}
         /\ rob'[i].load[a] \in {"none", "done"} <=> rob[i].load[a] \in {"none", "done"}
  BY DEF SameOps, SameLoad
<1>3. \A a \in Addr :
         /\ rob'[i].store[a] \in {"none", "todo"} <=> rob[i].store[a] \in {"none", "todo"}
         /\ rob'[i].store[a] \in {"none", "done"} <=> rob[i].store[a] \in {"none", "done"}
  BY DEF SameOps, SameStore
<1>4. PendingLoads(i)' = PendingLoads(i) /\ PendingStores(i)' = PendingStores(i)
  BY <1>2, <1>3 DEF PendingLoads, PendingStores, Pending
<1>. QED BY <1>1, <1>2, <1>3, <1>4

LEMMA QueueSetsKept ==
    ASSUME TypeOK, UNCHANGED <<head, tail>>, \A i \in Id : SameOps(i)
    PROVE  InLq' = InLq /\ InSq' = InSq
<1>1. InRob' = InRob /\ InRob \subseteq Id
  BY WindowIsId DEF InRob
<1>2. \A i \in InRob, a \in Addr :
         /\ rob'[i].load[a] \in {"none", "todo", "done"} <=> rob[i].load[a] \in {"none", "todo", "done"}
         /\ rob'[i].store[a] \in {"none", "todo"} <=> rob[i].store[a] \in {"none", "todo"}
  BY <1>1, OpSetsKept
<1>3. \A d \in InRob \X Addr : d[1] \in InRob /\ d[2] \in Addr
  OBVIOUS
<1>. QED BY <1>1, <1>2, <1>3 DEF InLq, InSq

LEMMA OpsKept ==
    ASSUME IInv, UNCHANGED <<head, tail, lqOccupancy, sqOccupancy, inflight>>,
           \A i \in Id : SameOps(i)
    PROVE  OpsCounted'
<1>1. InRob' = InRob /\ InRob \subseteq Id
  BY WindowIsId DEF IInv, InRob
<1>2. InLq' = InLq /\ InSq' = InSq
  BY QueueSetsKept DEF IInv
<1>3. RunningReg' = RunningReg /\ RunningMem' = RunningMem
  BY <1>1, OpSetsKept DEF RunningReg, RunningMem
<1>4. \A i \in InRob : /\ PendingLoads(i)' = PendingLoads(i)
                        /\ PendingStores(i)' = PendingStores(i)
                        /\ rob'[i].numMemOps = rob[i].numMemOps
  BY <1>1, OpSetsKept
<1>. QED BY <1>1, <1>2, <1>3, <1>4, CountersAre, CountersAreNext DEF IInv, inflight

\* A step that only moves front ends, loads and stores on keeps the invariant but for types.
Moved(i) ==
    /\ SameRegs(i) /\ SameSources(i) /\ SameOps(i)
    /\ rob'[i].scheduled = rob[i].scheduled

LEMMA MovedKeepsEntries ==
    ASSUME IInv, UNCHANGED <<head, tail, rte>>, \A i \in Id : Moved(i)
    PROVE  /\ (rte \subseteq InRob)'
           /\ (\A i \in InRob : Entered(i) /\ Staged(i) /\ Named(i))'
<1>1. InRob' = InRob /\ InRob \subseteq Id
  BY WindowIsId DEF IInv, InRob
<1>2. (rte \subseteq InRob)'
  BY <1>1 DEF IInv
<1>3. ASSUME NEW i \in InRob PROVE Entered(i)'
  <2>1. Entered(i) /\ Moved(i)
    BY <1>1 DEF IInv
  <2>. QED BY <2>1 DEF Entered, Moved, SameRegs, SameLists, SameSources, SameLoad, SameStore
<1>4. ASSUME NEW i \in InRob PROVE Staged(i)'
  <2>1. Staged(i) /\ Moved(i)
    BY <1>1, <1>3 DEF IInv
  <2>2. IsMemory(i)' = IsMemory(i) /\ RegReady(i)' = RegReady(i)
    BY <2>1, MemoryKept DEF Moved, SameRegs, SameLists, RegReady
  <2>3. Begun(i)' => Begun(i)
    BY <2>1 DEF Begun, Moved, SameOps, SameLoad, SameStore
  <2>. QED BY <2>1, <2>2, <2>3 DEF Staged, Moved, SameOps
<1>5. ASSUME NEW i \in InRob PROVE Named(i)'
  <2>1. Named(i) /\ Moved(i) /\ \A j \in Id : Moved(j)
    BY <1>1 DEF IInv
  <2>2. i \in Nat /\ head \in Nat /\ tail \in Nat /\ i >= head
    BY WindowIsId DEF IInv, InRob
  <2>3. \A j \in i + 1 .. tail - 1 : j \in Id
    BY <1>1, <2>2 DEF InRob
  <2>. QED BY <2>1, <2>3 DEF Named, Moved, SameRegs, SameLists, SameSources
<1>. QED BY <1>1, <1>2, <1>3, <1>4, <1>5

LEMMA MovedKeepsInv ==
    ASSUME IInv, TypeOK', UNCHANGED <<head, tail, rte, written>>,
           UNCHANGED <<lqOccupancy, sqOccupancy, inflight>>,
           \A i \in Id : Moved(i)
    PROVE  IInv'
<1>1. \A i \in Id : SameRegs(i) /\ SameSources(i) /\ SameOps(i)
  BY DEF Moved
<1>2. (\A i \in InRob : Held(i))'
  BY <1>1, HeldKept
<1>3. (\A i \in InRob, a \in Addr : Sourced(i, a))'
  BY <1>1, SourcesKept
<1>4. OpsCounted'
  BY <1>1, OpsKept
<1>. QED BY <1>2, <1>3, <1>4, MovedKeepsEntries DEF IInv

LEMMA StutterKeepsInv ==
    ASSUME IInv, UNCHANGED vars
    PROVE  IInv'
<1>. USE DEF vars, queues, inflight, retirement
<1>1. TypeOK'
  BY DEF IInv, TypeOK
<1>2. \A i \in Id : Moved(i)
  BY DEF Moved, SameRegs, SameLists, SameSources, SameOps, SameLoad, SameStore
<1>. QED BY <1>1, <1>2, MovedKeepsInv

LEMMA ResumeKeepsInv ==
    ASSUME IInv, ResumeFetch
    PROVE  IInv'
<1>. USE DEF ResumeFetch, queues, inflight, retirement
<1>1. TypeOK'
  BY DEF IInv, TypeOK
<1>2. \A i \in Id : Moved(i)
  BY DEF Moved, SameRegs, SameLists, SameSources, SameOps, SameLoad, SameStore
<1>. QED BY <1>1, <1>2, MovedKeepsInv

\* What the steps of one front end, load or store do.
LEMMA SetFrontMoves ==
    ASSUME IInv, NEW i \in Id, NEW old, NEW new \in Stage, SetFront(i, old, new)
    PROVE  TypeOK' /\ \A j \in Id : Moved(j)
<1>. USE DEF queues, inflight, retirement
<1>1. rob' = [rob EXCEPT ![i].front = new] /\ rob \in [Id -> Entry]
  BY DEF SetFront, IInv, TypeOK
<1>2. [rob[i] EXCEPT !.front = new] \in Entry
  BY <1>1, EntryUpdates
<1>3. rob' \in [Id -> Entry]
  BY <1>1, <1>2
<1>4. TypeOK'
  BY <1>3 DEF SetFront, IInv, TypeOK
<1>5. ASSUME NEW j \in Id PROVE Moved(j)
  <2>1. rob[i] \in Entry /\ rob[j] \in Entry
    BY <1>1
  <2>2. /\ rob'[j].ins = rob[j].ins /\ rob'[j].regDependents = rob[j].regDependents
        /\ rob'[j].numRegDependent = rob[j].numRegDependent /\ rob'[j].scheduled = rob[j].scheduled
        /\ rob'[j].executed = rob[j].executed /\ rob'[j].from = rob[j].from
        /\ rob'[j].memDependents = rob[j].memDependents /\ rob'[j].numMemOps = rob[j].numMemOps
        /\ rob'[j].load = rob[j].load /\ rob'[j].store = rob[j].store
    BY <1>1, <2>1 DEF Entry
  <2>. QED BY <2>2 DEF Moved, SameRegs, SameLists, SameSources, SameOps, SameLoad, SameStore
<1>. QED BY <1>4, <1>5

LEMMA SetFrontKeepsInv ==
    ASSUME IInv, NEW i \in Id, NEW old, NEW new \in Stage, SetFront(i, old, new)
    PROVE  IInv'
  BY SetFrontMoves, MovedKeepsInv DEF SetFront, queues, inflight, retirement

LEMMA SetLoadMoves ==
    ASSUME IInv, NEW i \in Id, NEW a \in Addr, NEW old, NEW new,
           {old, new} \subseteq {"queued", "translating", "ready", "issued"},
           SetLoad(i, a, old, new)
    PROVE  TypeOK' /\ \A j \in Id : Moved(j)
<1>. USE DEF queues, inflight, retirement
<1>1. rob' = [rob EXCEPT ![i].load[a] = new] /\ rob \in [Id -> Entry]
  BY DEF SetLoad, IInv, TypeOK
<1>2. [rob[i] EXCEPT !.load = [rob[i].load EXCEPT ![a] = new]] \in Entry
  <2>1. new \in LoadState
    BY DEF LoadState
  <2>2. rob[i].load \in [Addr -> LoadState] /\ [rob[i].load EXCEPT ![a] = new] \in [Addr -> LoadState]
    BY <2>1, EntryTypes DEF IInv
  <2>. QED BY <1>1, <2>2, EntryUpdates
<1>3. rob' \in [Id -> Entry]
  BY <1>1, <1>2
<1>4. TypeOK'
  BY <1>3 DEF SetLoad, IInv, TypeOK
<1>5. ASSUME NEW j \in Id PROVE Moved(j)
  <2>1. rob[i] \in Entry /\ rob[j] \in Entry /\ rob[j].load \in [Addr -> LoadState]
    BY <1>1, EntryTypes DEF IInv
  <2>2. /\ rob'[j].ins = rob[j].ins /\ rob'[j].regDependents = rob[j].regDependents
        /\ rob'[j].numRegDependent = rob[j].numRegDependent /\ rob'[j].scheduled = rob[j].scheduled
        /\ rob'[j].executed = rob[j].executed /\ rob'[j].from = rob[j].from
        /\ rob'[j].memDependents = rob[j].memDependents /\ rob'[j].numMemOps = rob[j].numMemOps
        /\ rob'[j].store = rob[j].store
    BY <1>1, <2>1 DEF Entry
  <2>3. \A b \in Addr : rob'[j].load[b] = IF j = i /\ b = a THEN new ELSE rob[j].load[b]
    BY <1>1, <2>1 DEF Entry
  <2>4. \A b \in Addr : SameLoad(rob[j].load[b], rob'[j].load[b])
    BY <2>3 DEF SetLoad, SameLoad
  <2>. QED BY <2>2, <2>4 DEF Moved, SameRegs, SameLists, SameSources, SameOps, SameStore
<1>. QED BY <1>4, <1>5

LEMMA SetLoadKeepsInv ==
    ASSUME IInv, NEW i \in Id, NEW a \in Addr, NEW old, NEW new,
           {old, new} \subseteq {"queued", "translating", "ready", "issued"},
           SetLoad(i, a, old, new)
    PROVE  IInv'
  BY SetLoadMoves, MovedKeepsInv DEF SetLoad, queues, inflight, retirement

LEMMA SetStoreMoves ==
    ASSUME IInv, NEW i \in Id, NEW a \in Addr, NEW old, NEW new,
           {old, new} \subseteq {"queued", "translating", "ready"},
           SetStore(i, a, old, new)
    PROVE  TypeOK' /\ \A j \in Id : Moved(j)
<1>. USE DEF queues, inflight, retirement
<1>1. rob' = [rob EXCEPT ![i].store[a] = new] /\ rob \in [Id -> Entry]
  BY DEF SetStore, IInv, TypeOK
<1>2. [rob[i] EXCEPT !.store = [rob[i].store EXCEPT ![a] = new]] \in Entry
  <2>1. new \in StoreState
    BY DEF StoreState
  <2>2. rob[i].store \in [Addr -> StoreState] /\ [rob[i].store EXCEPT ![a] = new] \in [Addr -> StoreState]
    BY <2>1, EntryTypes DEF IInv
  <2>. QED BY <1>1, <2>2, EntryUpdates
<1>3. rob' \in [Id -> Entry]
  BY <1>1, <1>2
<1>4. TypeOK'
  BY <1>3 DEF SetStore, IInv, TypeOK
<1>5. ASSUME NEW j \in Id PROVE Moved(j)
  <2>1. rob[i] \in Entry /\ rob[j] \in Entry /\ rob[j].store \in [Addr -> StoreState]
    BY <1>1, EntryTypes DEF IInv
  <2>2. /\ rob'[j].ins = rob[j].ins /\ rob'[j].regDependents = rob[j].regDependents
        /\ rob'[j].numRegDependent = rob[j].numRegDependent /\ rob'[j].scheduled = rob[j].scheduled
        /\ rob'[j].executed = rob[j].executed /\ rob'[j].from = rob[j].from
        /\ rob'[j].memDependents = rob[j].memDependents /\ rob'[j].numMemOps = rob[j].numMemOps
        /\ rob'[j].load = rob[j].load
    BY <1>1, <2>1 DEF Entry
  <2>3. \A b \in Addr : rob'[j].store[b] = IF j = i /\ b = a THEN new ELSE rob[j].store[b]
    BY <1>1, <2>1 DEF Entry
  <2>4. \A b \in Addr : SameStore(rob[j].store[b], rob'[j].store[b])
    BY <2>3 DEF SetStore, SameStore
  <2>. QED BY <2>2, <2>4 DEF Moved, SameRegs, SameLists, SameSources, SameOps, SameLoad
<1>. QED BY <1>4, <1>5

LEMMA SetStoreKeepsInv ==
    ASSUME IInv, NEW i \in Id, NEW a \in Addr, NEW old, NEW new,
           {old, new} \subseteq {"queued", "translating", "ready"},
           SetStore(i, a, old, new)
    PROVE  IInv'
  BY SetStoreMoves, MovedKeepsInv DEF SetStore, queues, inflight, retirement

-----------------------------------------------------------------------------
(* ReadTrace *)

LEMMA FreshIsEntry ==
    ASSUME NEW k \in Instr
    PROVE  /\ Fresh(k) \in Entry /\ IsFiniteSet(k.load) /\ IsFiniteSet(k.store)
           /\ k.load \subseteq Addr /\ k.store \subseteq Addr
           /\ NumOps(k) \in Nat /\ (NumOps(k) = 0 <=> k.load \cup k.store = {})
<1>1. k.load \subseteq Addr /\ k.store \subseteq Addr
  BY DEF Instr
<1>2. IsFiniteSet(k.load) /\ IsFiniteSet(k.store)
  BY <1>1, CoreAssumption, FS_Subset
<1>3. NumOps(k) \in Nat /\ (NumOps(k) = 0 <=> k.load \cup k.store = {})
  BY <1>2, FS_CardinalityType, FS_EmptySet DEF NumOps
<1>4. Fresh(k) \in Entry
  BY <1>3 DEF Fresh, Entry, Stage, Progress, LoadState, StoreState
<1>. QED BY <1>1, <1>2, <1>3, <1>4

LEMMA ReadTraceEffect ==
    ASSUME IInv, NEW k \in Kinds, ReadTrace(k)
    PROVE  /\ tail \in Id /\ k \in Instr
           /\ UNCHANGED <<head, rte, written, lqOccupancy, sqOccupancy, inflight>>
           /\ InRob' = InRob \cup {tail} /\ tail \notin InRob
           /\ rob'[tail] = Fresh(k)
           /\ \A i \in Id : i # tail => rob'[i] = rob[i]
           /\ TypeOK'
<1>. USE DEF queues, inflight, retirement
<1>1. tail \in Id /\ k \in Instr /\ tail <= TraceLen /\ tail' = tail + 1 /\ TraceLen \in Nat
  BY WindowIsId, CoreAssumption DEF ReadTrace, IInv, Id
<1>2. rob' = [rob EXCEPT ![tail] = Fresh(k)] /\ rob \in [Id -> Entry]
  BY DEF ReadTrace, IInv, TypeOK
<1>3. rob' \in [Id -> Entry]
  BY <1>1, <1>2, FreshIsEntry
<1>4. sta' \in Seq(Id)
  <2>1. Cardinality(k.store) \in Nat
    BY <1>1, FreshIsEntry, FS_CardinalityType
  <2>2. [n \in 1 .. Cardinality(k.store) |-> tail] \in Seq(Id)
    BY <1>1, <2>1
  <2>. QED BY <2>2 DEF ReadTrace, IInv, TypeOK
<1>5. InRob' = InRob \cup {tail} /\ tail \notin InRob
  BY <1>1, WindowIsId DEF ReadTrace, IInv, InRob
<1>6. /\ head \in Nat \ {0} /\ tail \in Nat /\ head <= tail /\ tail - head < RobSize
      /\ head' = head
  BY WindowIsId DEF ReadTrace, RobRoom, IInv
<1>7. /\ head' \in 1 .. TraceLen + 1 /\ tail' \in head' .. TraceLen + 1
      /\ tail' - head' <= RobSize
  BY <1>1, <1>6, CoreAssumption
<1>8. TypeOK'
  BY <1>3, <1>4, <1>7 DEF ReadTrace, IInv, TypeOK
<1>. QED BY <1>1, <1>2, <1>5, <1>8 DEF ReadTrace

\* The new instruction, now the youngest.
LEMMA ReadTraceNew ==
    ASSUME IInv, NEW k \in Kinds, ReadTrace(k), NEW i, i = tail
    PROVE  /\ Entered(i)' /\ Staged(i)' /\ Named(i)' /\ Held(i)'
           /\ \A a \in Addr : Sourced(i, a)'
<1>1. /\ rob'[i] = Fresh(k) /\ i \in Id /\ i \notin rte' /\ k \in Instr
      /\ \A p \in InRob : rob'[p] = rob[p] /\ p \in Id
  BY ReadTraceEffect, WindowIsId DEF IInv
<1>2. /\ rob'[i].ins = k /\ rob'[i].scheduled = "no" /\ rob'[i].executed = "no"
      /\ rob'[i].regDependents = {} /\ rob'[i].memDependents = {} /\ rob'[i].numRegDependent = 0
      /\ rob'[i].load = [a \in Addr |-> IF a \in k.load THEN "todo" ELSE "none"]
      /\ rob'[i].store = [a \in Addr |-> IF a \in k.store THEN "todo" ELSE "none"]
  BY <1>1 DEF Fresh
<1>3. /\ \A a \in Addr : rob'[i].load[a] = IF a \in k.load THEN "todo" ELSE "none"
      /\ \A a \in Addr : rob'[i].store[a] = IF a \in k.store THEN "todo" ELSE "none"
  BY <1>2
<1>4. Entered(i)'
  BY <1>2, <1>3 DEF Entered
<1>5. Staged(i)'
  <2>1. ~Begun(i)'
    BY <1>2, <1>3 DEF Begun
  <2>. QED BY <1>2, <2>1 DEF Staged
<1>6. Named(i)'
  BY <1>2 DEF Named
<1>7. Held(i)'
  <2>1. Older(i)' = InRob
    BY ReadTraceEffect DEF Older, InRob
  <2>2. ASSUME NEW p \in InRob, NEW d \in rob'[p].regDependents PROVE d[1] # i
    <3>1. Named(p) /\ rob'[p] = rob[p] /\ tail \in Nat /\ p \in Nat
      BY <1>1, WindowIsId DEF IInv
    <3>2. d[1] \in p + 1 .. tail - 1
      BY <2>2, <3>1 DEF Named
    <3>. QED BY <3>1, <3>2
  <2>3. HeldBy(i)' = {}
    BY <2>1, <2>2 DEF HeldBy, Unfinished
  <2>4. ~RegReady(i)'
    BY <1>2 DEF RegReady
  <2>. QED BY <1>1, <1>2, <2>3, <2>4, FS_EmptySet DEF Held
<1>8. \A a \in Addr : Sourced(i, a)'
  BY <1>3 DEF Sourced
<1>. QED BY <1>4, <1>5, <1>6, <1>7, <1>8

LEMMA ReadTraceOld ==
    ASSUME IInv, NEW k \in Kinds, ReadTrace(k), NEW i \in InRob
    PROVE  /\ Entered(i)' /\ Staged(i)' /\ Named(i)' /\ Held(i)'
           /\ \A a \in Addr : Sourced(i, a)'
<1>1. /\ head' = head /\ rte' = rte /\ written' = written /\ tail' = tail + 1
      /\ \A p \in InRob : rob'[p] = rob[p]
      /\ i \in Nat /\ tail \in Nat /\ head \in Nat
      /\ Entered(i) /\ Staged(i) /\ Named(i) /\ Held(i)
  BY ReadTraceEffect, WindowIsId DEF IInv, ReadTrace
<1>2. \A p \in head .. i : p \in InRob
  BY <1>1, WindowIsId DEF IInv, InRob
<1>3. \A p \in head .. i : SameRegs(p)
  BY <1>1, <1>2 DEF SameRegs, SameLists
<1>4. Held(i)'
  BY <1>1, <1>3, HeldAt DEF IInv
<1>5. ASSUME NEW a \in Addr PROVE Sourced(i, a)'
  <2>1. \A p \in Older(i) : p \in InRob /\ rob'[p] = rob[p]
    BY <1>1, WindowIsId DEF IInv
  <2>2. Sourced(i, a)
    BY DEF IInv
  <2>3. rob[i].load[a] = "waiting" => rob'[rob[i].from[a]].store[a] # "done"
    BY <2>1, <2>2 DEF Sourced, LastStore
  <2>. QED BY <1>1, <2>1, <2>2, <2>3, SourcedAt DEF IInv, SameLoad
<1>6. Entered(i)' /\ Staged(i)'
  BY <1>1 DEF Entered, Staged, Begun, RegReady, IsMemory
<1>7. Named(i)'
  <2>1. \A j \in i + 1 .. tail - 1 : j \in InRob /\ j \in i + 1 .. tail' - 1
    BY <1>1, WindowIsId DEF IInv, InRob
  <2>. QED BY <1>1, <2>1 DEF Named
<1>. QED BY <1>4, <1>5, <1>6, <1>7

LEMMA ReadTraceCounts ==
    ASSUME IInv, NEW k \in Kinds, ReadTrace(k)
    PROVE  OpsCounted'
<1>. USE DEF inflight
<1>1. /\ UNCHANGED <<lqOccupancy, sqOccupancy, inflight>>
      /\ InRob' = InRob \cup {tail} /\ tail \notin InRob
      /\ rob'[tail] = Fresh(k) /\ k \in Instr
      /\ \A i \in InRob : rob'[i] = rob[i]
  BY ReadTraceEffect, WindowIsId DEF IInv
<1>2. /\ rob'[tail].ins = k /\ rob'[tail].executed = "no" /\ rob'[tail].numMemOps = NumOps(k)
      /\ \A a \in Addr : rob'[tail].load[a] = IF a \in k.load THEN "todo" ELSE "none"
      /\ \A a \in Addr : rob'[tail].store[a] = IF a \in k.store THEN "todo" ELSE "none"
  BY <1>1 DEF Fresh
<1>3. \A i \in InRob : /\ PendingLoads(i)' = PendingLoads(i) /\ PendingStores(i)' = PendingStores(i)
                        /\ rob'[i].numMemOps = rob[i].numMemOps
  BY <1>1 DEF PendingLoads, PendingStores
<1>4. ASSUME NEW i, i = tail
      PROVE  rob'[i].numMemOps = Cardinality(PendingLoads(i)') + Cardinality(PendingStores(i)')
  <2>1. k.load \subseteq Addr /\ k.store \subseteq Addr
    BY <1>1, FreshIsEntry
  <2>2. PendingLoads(i)' = k.load
    BY <1>2, <1>4, <2>1 DEF PendingLoads, Pending
  <2>3. PendingStores(i)' = k.store
    BY <1>2, <1>4, <2>1 DEF PendingStores, Pending
  <2>. QED BY <1>2, <1>4, <2>2, <2>3 DEF NumOps
<1>5. RunningReg' = RunningReg
  BY <1>1, <1>2 DEF RunningReg, IsMemory
<1>6. RunningMem' = RunningMem
  <2>1. NumOps(k) = 0 => k.load \cup k.store = {}
    BY <1>1, FreshIsEntry
  <2>. QED BY <1>1, <1>2, <2>1 DEF RunningMem, IsMemory
<1>7. InLq' = InLq /\ InSq' = InSq
  <2>1. \A a \in Addr : rob'[tail].load[a] \in {"none", "todo"} /\ rob'[tail].store[a] \in {"none", "todo"}
    BY <1>2
  <2>. QED BY <1>1, <2>1 DEF InLq, InSq
<1>8. \A i \in InRob' :
        rob'[i].numMemOps = Cardinality(PendingLoads(i)') + Cardinality(PendingStores(i)')
  BY <1>1, <1>3, <1>4, CountersAre DEF IInv
<1>. QED BY <1>1, <1>5, <1>6, <1>7, <1>8, CountersAre, CountersAreNext DEF IInv

LEMMA ReadTraceKeepsInv ==
    ASSUME IInv, NEW k \in Kinds, ReadTrace(k)
    PROVE  IInv'
<1>1. TypeOK' /\ InRob' = InRob \cup {tail} /\ rte' = rte
  BY ReadTraceEffect
<1>2. (\A i \in InRob : Entered(i) /\ Staged(i) /\ Named(i) /\ Held(i))'
  BY <1>1, ReadTraceNew, ReadTraceOld
<1>3. (\A i \in InRob, a \in Addr : Sourced(i, a))'
  BY <1>1, ReadTraceNew, ReadTraceOld
<1>. QED BY <1>1, <1>2, <1>3, ReadTraceCounts DEF IInv

-----------------------------------------------------------------------------
(* Retire *)

LEMMA EmptyIsEntry == Empty \in Entry
<1> DEFINE k == [src |-> {}, dst |-> {}, load |-> {}, store |-> {}, miss |-> FALSE]
<1>1. k \in Instr
  BY DEF Instr
<1>2. Fresh(k) \in Entry
  BY <1>1, FreshIsEntry
<1>3. Empty = [Fresh(k) EXCEPT !.front = "none"]
  BY DEF Empty
<1>. HIDE DEF k
<1>4. [Fresh(k) EXCEPT !.front = "none"] \in Entry
  BY <1>2, EntryUpdates DEF Stage
<1>. QED BY <1>3, <1>4

\* An instruction that has completed has done all its loads and stores.
LEMMA CompletedIsDone ==
    ASSUME IInv, NEW i \in InRob, rob[i].executed = "done"
    PROVE  \A a \in Addr : /\ rob[i].load[a] = (IF a \in rob[i].ins.load THEN "done" ELSE "none")
                           /\ rob[i].store[a] = (IF a \in rob[i].ins.store THEN "done" ELSE "none")
<1>1. rob[i].numMemOps = 0 /\ Entered(i)
  BY DEF IInv, Staged
<1>2. /\ rob[i].numMemOps = Cardinality(PendingLoads(i)) + Cardinality(PendingStores(i))
      /\ Cardinality(PendingLoads(i)) \in Nat /\ Cardinality(PendingStores(i)) \in Nat
      /\ IsFiniteSet(PendingLoads(i)) /\ IsFiniteSet(PendingStores(i))
  BY CountersAre, CountedFinite, FS_CardinalityType DEF IInv
<1>3. Cardinality(PendingLoads(i)) = 0 /\ Cardinality(PendingStores(i)) = 0
  BY <1>1, <1>2
<1>4. PendingLoads(i) = {} /\ PendingStores(i) = {}
  BY <1>2, <1>3, FS_EmptySet
<1>5. \A a \in Addr : rob[i].load[a] \in {"none", "done"} /\ rob[i].store[a] \in {"none", "done"}
  BY <1>4 DEF PendingLoads, PendingStores, Pending
<1>. QED BY <1>1, <1>5 DEF Entered

LEMMA RetireEffect ==
    ASSUME IInv, Retire
    PROVE  /\ head \in InRob /\ head \in Id /\ head' = head + 1 /\ tail' = tail /\ rte' = rte
           /\ UNCHANGED <<lqOccupancy, inflight>>
           /\ rob[head].executed = "done"
           /\ InRob' = InRob \ {head}
           /\ rob' \in [Id -> Entry]
           /\ \A i \in Id : i # head => rob'[i] = rob[i]
           /\ head \notin rte
           /\ \A a \in Addr : written'[a] = IF a \in rob[head].ins.store THEN head ELSE written[a]
<1>. USE DEF inflight
<1>1. head \in InRob /\ head \in Id /\ head' = head + 1 /\ tail' = tail /\ rte' = rte
  BY WindowIsId DEF Retire, Retirable, IInv, InRob
<1>2. rob' = [rob EXCEPT ![head] = Empty] /\ rob \in [Id -> Entry]
  BY DEF Retire, IInv, TypeOK
<1>3. rob' \in [Id -> Entry] /\ \A i \in Id : i # head => rob'[i] = rob[i]
  BY <1>2, EmptyIsEntry
<1>4. InRob' = InRob \ {head}
  BY <1>1, WindowIsId DEF IInv, InRob
<1>5. head \notin rte
  BY <1>1 DEF IInv, Held, Retire, Retirable
<1>. QED BY <1>1, <1>3, <1>4, <1>5 DEF Retire, Retirable

LEMMA RetireSources ==
    ASSUME IInv, Retire, NEW i \in InRob, i # head, NEW a \in Addr
    PROVE  Sourced(i, a)'
<1>1. /\ head \in InRob /\ head' = head + 1 /\ rob[head].executed = "done" /\ rob'[i] = rob[i]
      /\ \A p \in InRob : p # head => rob'[p] = rob[p]
      /\ written'[a] = IF a \in rob[head].ins.store THEN head ELSE written[a]
      /\ i \in Nat /\ head \in Nat /\ head < i /\ Sourced(i, a)
  <2>1. head \in Nat /\ i \in Nat /\ tail \in Nat /\ i \in head .. tail - 1 /\ InRob \subseteq Id
    BY WindowIsId DEF IInv, InRob
  <2>2. head < i
    BY <2>1
  <2>. QED BY <2>1, <2>2, RetireEffect DEF IInv
<1>2. /\ Older(i)' = Older(i) \ {head} /\ head \in Older(i)
      /\ \A p \in Older(i)' : p \in InRob /\ p # head /\ rob'[p] = rob[p]
  <2>1. Older(i)' = Older(i) \ {head} /\ head \in Older(i)
    BY <1>1 DEF Older
  <2>. QED BY <1>1, <2>1, WindowIsId DEF IInv
<1>3. a \in rob[head].ins.store => rob[head].store[a] = "done"
  BY <1>1, CompletedIsDone
<1>4. NoStore(i, a) => NoStore(i, a)' /\ written'[a] = written[a]
  BY <1>1, <1>2 DEF NoStore
<1>5. ASSUME NEW p, p # head, LastStore(i, a, p) PROVE LastStore(i, a, p)'
  <2>1. p \in Older(i)' /\ p \in Nat /\ \A q \in p + 1 .. i - 1 : q \in Older(i)'
    BY <1>1, <1>2, <1>5 DEF LastStore, Older
  <2>. QED BY <1>2, <1>5, <2>1 DEF LastStore
<1>6. LastStore(i, a, head) => NoStore(i, a)' /\ written'[a] = head
  <2>1. \A q \in Older(i)' : q \in head + 1 .. i - 1
    BY <1>1 DEF Older
  <2>. QED BY <1>1, <1>2, <2>1 DEF LastStore, NoStore
<1>7. CASE rob[i].load[a] = "waiting"
  <2> DEFINE p == rob[i].from[a]
  <2>1. LastStore(i, a, p) /\ i \in rob[p].memDependents /\ rob[p].store[a] # "done"
    BY <1>1, <1>7 DEF Sourced
  <2>2. p # head
    BY <1>3, <2>1 DEF LastStore
  <2>3. rob'[p] = rob[p]
    BY <1>2, <2>1, <2>2 DEF LastStore
  <2>. QED BY <1>1, <1>5, <1>7, <2>1, <2>2, <2>3 DEF Sourced
<1>8. CASE rob[i].load[a] \in {"queued", "translating", "ready", "issued"}
  BY <1>1, <1>4, <1>8 DEF Sourced
<1>9. CASE rob[i].load[a] = "done"
  <2> DEFINE p == rob[i].from[a]
  <2>1. CASE LastStore(i, a, p) /\ p # head
    <3>1. PICK q : q = rob[i].from[a]
      OBVIOUS
    <3>2. LastStore(i, a, q)'
      BY <1>5, <2>1, <3>1
    <3>. QED BY <1>1, <1>9, <3>1, <3>2 DEF Sourced
  <2>2. CASE LastStore(i, a, p) /\ p = head
    BY <1>1, <1>6, <1>9, <2>2 DEF Sourced
  <2>3. CASE NoStore(i, a) /\ p = written[a]
    BY <1>1, <1>4, <1>9, <2>3 DEF Sourced
  <2>. QED BY <1>1, <1>9, <2>1, <2>2, <2>3 DEF Sourced
<1>. QED BY <1>1, <1>7, <1>8, <1>9 DEF Sourced

LEMMA RetireEntries ==
    ASSUME IInv, Retire, NEW i \in InRob, i # head
    PROVE  Entered(i)' /\ Staged(i)' /\ Named(i)' /\ Held(i)'
<1>1. /\ head' = head + 1 /\ rob[head].executed = "done" /\ tail' = tail /\ rte' = rte
      /\ rob'[i] = rob[i]
      /\ \A p \in InRob : p # head => rob'[p] = rob[p]
      /\ Entered(i) /\ Staged(i) /\ Named(i) /\ Held(i)
  BY RetireEffect, WindowIsId DEF IInv
<1>2. head \in Nat /\ i \in Nat /\ tail \in Nat /\ i \in head .. tail - 1 /\ head < i
  <2>1. head \in Nat /\ i \in Nat /\ tail \in Nat /\ i \in head .. tail - 1
    BY WindowIsId DEF IInv, InRob
  <2>. QED BY <2>1
<1>3. Entered(i)' /\ Staged(i)'
  BY <1>1 DEF Entered, Staged, Begun, RegReady, IsMemory
<1>4. \A p \in head' .. tail - 1 : p \in InRob /\ p # head
  BY <1>1, <1>2 DEF InRob
<1>5. Named(i)'
  <2>1. \A j \in i + 1 .. tail - 1 : j \in head' .. tail - 1
    BY <1>1, <1>2
  <2>. QED BY <1>1, <1>4, <2>1 DEF Named
<1>6. \A p \in head' .. i : SameRegs(p)
  <2>1. \A p \in head' .. i : p \in head' .. tail - 1
    BY <1>1, <1>2
  <2>. QED BY <1>1, <1>4, <2>1 DEF SameRegs, SameLists
<1>7. Held(i)'
  BY <1>1, <1>6, HeldAt DEF IInv
<1>. QED BY <1>3, <1>5, <1>7

LEMMA RetireCounts ==
    ASSUME IInv, Retire
    PROVE  OpsCounted' /\ sqOccupancy' \in 0 .. SqSize
<1>. USE DEF inflight
<1>1. /\ head \in InRob /\ head \in Id /\ UNCHANGED <<lqOccupancy, inflight>>
      /\ rob[head].executed = "done" /\ InRob' = InRob \ {head}
      /\ \A p \in InRob : p # head => rob'[p] = rob[p]
  BY RetireEffect, WindowIsId DEF IInv
<1>2. \A a \in Addr : /\ rob[head].load[a] \in {"none", "done"}
                      /\ rob[head].store[a] # "none" => rob[head].store[a] = "done"
                      /\ rob[head].store[a] = "done" <=> a \in rob[head].ins.store
  BY <1>1, CompletedIsDone
<1>3. \A i \in InRob' :
        rob'[i].numMemOps = Cardinality(PendingLoads(i)') + Cardinality(PendingStores(i)')
  BY <1>1, CountersAre DEF IInv, PendingLoads, PendingStores
<1>4. RunningReg' = RunningReg /\ RunningMem' = RunningMem
  BY <1>1 DEF RunningReg, RunningMem, IsMemory
<1>5. InLq' = InLq
  BY <1>1, <1>2 DEF InLq
<1> DEFINE S == rob[head].ins.store
           P == {head} \X S
<1>6. S \subseteq Addr /\ IsFiniteSet(S)
  BY <1>1, EntryTypes, CoreAssumption, FS_Subset DEF IInv
<1>7. InSq' = InSq \ P /\ P \subseteq InSq
  <2>1. \A a \in Addr : rob[head].store[a] \notin {"none", "todo"} <=> a \in S
    BY <1>2
  <2>2. P \subseteq InSq
    BY <1>1, <1>6, <2>1 DEF InSq
  <2>3. \A d \in InSq : d[1] = head => d \in P
    BY <1>6, <2>1 DEF InSq
  <2>4. InSq' = {d \in (InRob \ {head}) \X Addr : rob[d[1]].store[d[2]] \notin {"none", "todo"}}
    BY <1>1 DEF InSq
  <2>5. \A d \in P : d[1] = head
    OBVIOUS
  <2> HIDE DEF P, S
  <2>6. \A d : d \in InSq' => d \in InSq /\ d[1] # head
    BY <2>4 DEF InSq
  <2>7. \A d : d \in InSq /\ d[1] # head => d \in InSq'
    BY <2>4 DEF InSq
  <2>. QED BY <2>2, <2>3, <2>5, <2>6, <2>7
<1>8. IsFiniteSet(P) /\ Cardinality(P) = Cardinality(S) /\ Cardinality(S) \in Nat
  <2>1. IsFiniteSet({head}) /\ Cardinality({head}) = 1
    BY FS_Singleton
  <2>2. Cardinality(P) = Cardinality({head}) * Cardinality(S) /\ IsFiniteSet(P)
    BY <1>6, <2>1, FS_Product
  <2>3. Cardinality(S) \in Nat
    BY <1>6, FS_CardinalityType
  <2>. QED BY <2>1, <2>2, <2>3
<1>9. IsFiniteSet(InSq') /\ Cardinality(InSq') = Cardinality(InSq) - Cardinality(S)
  <2>. HIDE DEF P, S
  <2>. QED BY <1>7, <1>8, SubsetRemoved, CountedFinite DEF IInv
<1>10. sqOccupancy' = sqOccupancy - Cardinality(S)
  BY DEF Retire
<1>11. sqOccupancy' = Cardinality(InSq') /\ sqOccupancy' \in Nat
  BY <1>9, <1>10, CountersAre, FS_CardinalityType DEF IInv
<1>12. sqOccupancy' \in 0 .. SqSize
  BY <1>8, <1>10, <1>11, CoreAssumption DEF IInv, TypeOK
<1>. QED BY <1>1, <1>3, <1>4, <1>5, <1>11, <1>12, CountersAre, CountersAreNext DEF IInv

LEMMA RetireKeepsInv ==
    ASSUME IInv, Retire
    PROVE  IInv'
<1>1. /\ InRob' = InRob \ {head} /\ rte' = rte /\ head \notin rte /\ rob' \in [Id -> Entry]
      /\ head' = head + 1 /\ tail' = tail
  BY RetireEffect
<1>2. head' \in 1 .. TraceLen + 1 /\ tail' \in head' .. TraceLen + 1 /\ tail' - head' <= RobSize
  BY <1>1, CoreAssumption DEF Retire, Retirable, IInv, TypeOK
<1>3. written' \in [Addr -> Nat] /\ DOMAIN seen' \subseteq Addr
  <2>1. head \in Nat /\ rob[head].ins.load \subseteq Addr
    BY RetireEffect, EntryTypes, WindowIsId DEF IInv
  <2>. QED BY <2>1 DEF Retire, IInv, TypeOK
<1>4. TypeOK'
  BY <1>1, <1>2, <1>3, RetireCounts DEF Retire, IInv, TypeOK, inflight
<1>5. (\A i \in InRob : Entered(i) /\ Staged(i) /\ Named(i) /\ Held(i))'
  BY <1>1, RetireEntries
<1>6. (\A i \in InRob, a \in Addr : Sourced(i, a))'
  BY <1>1, RetireSources
<1>. QED BY <1>1, <1>4, <1>5, <1>6, RetireCounts DEF IInv

-----------------------------------------------------------------------------
(* LoadDone and ExecuteStore: operations end *)

\* An instruction with an operation pending is not complete.
LEMMA PendingKeepsOpen ==
    ASSUME IInv, NEW i \in InRob, NEW a \in Addr, a \in PendingLoads(i) \cup PendingStores(i)
    PROVE  /\ rob[i].numMemOps \in Nat /\ rob[i].numMemOps > 0
           /\ rob[i].executed # "done" /\ IsMemory(i)
<1>1. /\ rob[i].numMemOps = Cardinality(PendingLoads(i)) + Cardinality(PendingStores(i))
      /\ Cardinality(PendingLoads(i)) \in Nat /\ Cardinality(PendingStores(i)) \in Nat
      /\ IsFiniteSet(PendingLoads(i)) /\ IsFiniteSet(PendingStores(i))
  BY CountersAre, CountedFinite, FS_CardinalityType DEF IInv
<1>2. Cardinality(PendingLoads(i)) # 0 \/ Cardinality(PendingStores(i)) # 0
  BY <1>1, FS_EmptySet
<1>3. rob[i].numMemOps \in Nat /\ rob[i].numMemOps > 0
  BY <1>1, <1>2
<1>4. rob[i].executed # "done" /\ Entered(i)
  BY <1>3 DEF IInv, Staged
<1>5. IsMemory(i)
  BY <1>4 DEF Entered, IsMemory, PendingLoads, PendingStores, Pending
<1>. QED BY <1>3, <1>4, <1>5

\* The instructions of F each end one operation.
LEMMA EndedCounts ==
    ASSUME IInv, UNCHANGED <<head, tail, inflightReg>>, NEW F \in SUBSET InRob,
           \A i \in InRob : /\ rob'[i].ins = rob[i].ins
                            /\ rob'[i].executed = rob[i].executed
                            /\ i \notin F => rob'[i].numMemOps = rob[i].numMemOps,
           \A i \in F : /\ rob[i].numMemOps > 0 /\ rob[i].executed # "done" /\ IsMemory(i)
                        /\ rob'[i].numMemOps = rob[i].numMemOps - 1,
           inflightMem' = inflightMem + Cardinality({i \in F : rob[i].numMemOps = 1})
    PROVE  /\ inflightReg' = Cardinality(RunningReg') /\ inflightMem' = Cardinality(RunningMem')
           /\ inflightReg' \in Nat /\ inflightMem' \in Nat
<1>1. InRob' = InRob /\ InRob \subseteq Id /\ \A i \in InRob : IsMemory(i)' = IsMemory(i)
  BY WindowIsId, MemoryKept DEF InRob, IInv
<1>2. RunningReg' = RunningReg
  BY <1>1 DEF RunningReg
<1> DEFINE L == {i \in F : rob[i].numMemOps = 1}
<1>3. \A i \in InRob : rob[i].numMemOps \in Int
  BY <1>1, EntryTypes DEF IInv
<1>4. RunningMem' = RunningMem \cup L /\ RunningMem \cap L = {}
  BY <1>1, <1>3 DEF RunningMem
<1>5. IsFiniteSet(RunningMem) /\ IsFiniteSet(L)
  BY WindowIsId, CountedFinite, FS_Subset DEF IInv
<1>. HIDE DEF L
<1>6. Cardinality(RunningMem') = Cardinality(RunningMem) + Cardinality(L) /\ IsFiniteSet(RunningMem')
  BY <1>4, <1>5, DisjointUnion
<1>7. inflightReg = Cardinality(RunningReg) /\ inflightMem = Cardinality(RunningMem)
  BY CountersAre DEF IInv
<1>8. IsFiniteSet(RunningReg)
  BY CountedFinite DEF IInv
<1>. QED BY <1>2, <1>6, <1>7, <1>8, FS_CardinalityType DEF L

LEMMA LoadDoneEffect ==
    ASSUME IInv, NEW i \in Id, NEW a \in Addr, LoadDone(i, a)
    PROVE  /\ i \in InRob /\ rob[i].load[a] = "issued" /\ rob' \in [Id -> Entry]
           /\ UNCHANGED <<head, tail, rte, written, sta, sqOccupancy, inflightReg, stall, seen>>
           /\ \A j \in Id : j # i => rob'[j] = rob[j]
           /\ rob'[i].ins = rob[i].ins /\ rob'[i].regDependents = rob[i].regDependents
           /\ rob'[i].numRegDependent = rob[i].numRegDependent
           /\ rob'[i].scheduled = rob[i].scheduled /\ rob'[i].executed = rob[i].executed
           /\ rob'[i].memDependents = rob[i].memDependents /\ rob'[i].store = rob[i].store
           /\ rob'[i].numMemOps = rob[i].numMemOps - 1
           /\ \A b \in Addr : /\ rob'[i].load[b] = IF b = a THEN "done" ELSE rob[i].load[b]
                              /\ rob'[i].from[b] = IF b = a THEN written[a] ELSE rob[i].from[b]
<1>. DEFINE e == [rob[i] EXCEPT !.load = [rob[i].load EXCEPT ![a] = "done"],
                               !.from = [rob[i].from EXCEPT ![a] = written[a]],
                               !.numMemOps = rob[i].numMemOps - 1]
<1>1. rob' = [rob EXCEPT ![i] = e] /\ rob \in [Id -> Entry] /\ written[a] \in Nat
  BY DEF LoadDone, IInv, TypeOK
<1>2. /\ rob[i] \in Entry /\ [rob[i].load EXCEPT ![a] = "done"] \in [Addr -> LoadState]
      /\ [rob[i].from EXCEPT ![a] = written[a]] \in [Addr -> Nat] /\ rob[i].numMemOps - 1 \in Int
  BY <1>1, EntryTypes DEF IInv, LoadState
<1>3. ASSUME NEW r \in Entry, NEW l \in [Addr -> LoadState], NEW f \in [Addr -> Nat], NEW n \in Int
      PROVE  [r EXCEPT !.load = l, !.from = f, !.numMemOps = n] \in Entry
  BY DEF Entry
<1>4. e \in Entry
  BY <1>2, <1>3
<1>5. rob' \in [Id -> Entry] /\ rob'[i] = e /\ \A j \in Id : j # i => rob'[j] = rob[j]
  BY <1>1, <1>4
<1>6. /\ e.ins = rob[i].ins /\ e.regDependents = rob[i].regDependents
      /\ e.numRegDependent = rob[i].numRegDependent
      /\ e.scheduled = rob[i].scheduled /\ e.executed = rob[i].executed
      /\ e.memDependents = rob[i].memDependents /\ e.store = rob[i].store
      /\ e.numMemOps = rob[i].numMemOps - 1
      /\ e.load = [rob[i].load EXCEPT ![a] = "done"]
      /\ e.from = [rob[i].from EXCEPT ![a] = written[a]]
  BY <1>2 DEF Entry
<1>7. \A b \in Addr : /\ e.load[b] = IF b = a THEN "done" ELSE rob[i].load[b]
                      /\ e.from[b] = IF b = a THEN written[a] ELSE rob[i].from[b]
  <2>1. rob[i].load \in [Addr -> LoadState] /\ rob[i].from \in [Addr -> Nat]
    BY EntryTypes DEF IInv
  <2>. QED BY <1>6, <2>1
<1>. HIDE DEF e
<1>. QED BY <1>5, <1>6, <1>7 DEF LoadDone, retirement, inflight, queues

LEMMA LoadDoneCounts ==
    ASSUME IInv, NEW i \in Id, NEW a \in Addr, LoadDone(i, a)
    PROVE  OpsCounted' /\ inflightMem' \in Nat /\ lqOccupancy' \in 0 .. LqSize
<1>1. /\ i \in InRob /\ InRob' = InRob /\ InRob \subseteq Id /\ a \in PendingLoads(i)
      /\ rob[i].load[a] = "issued"
      /\ \A j \in InRob : j # i => rob'[j] = rob[j]
  BY LoadDoneEffect, WindowIsId DEF IInv, InRob, PendingLoads, Pending
<1>2. /\ rob[i].numMemOps \in Nat /\ rob[i].numMemOps > 0 /\ rob[i].executed # "done" /\ IsMemory(i)
      /\ rob'[i].numMemOps = rob[i].numMemOps - 1
  BY <1>1, PendingKeepsOpen, LoadDoneEffect
<1>3. inflightMem' = inflightMem + Cardinality({j \in {i} : rob[j].numMemOps = 1})
  <2>1. inflightMem \in Nat
    BY DEF IInv, TypeOK
  <2>2. CASE rob[i].numMemOps = 1
    <3>1. {j \in {i} : rob[j].numMemOps = 1} = {i}
      BY <2>2
    <3>2. inflightMem' = inflightMem + 1
      BY <2>2 DEF LoadDone
    <3>. QED BY <3>1, <3>2, FS_Singleton
  <2>3. CASE rob[i].numMemOps # 1
    <3>1. {j \in {i} : rob[j].numMemOps = 1} = {}
      BY <2>3
    <3>2. inflightMem' = inflightMem + 0
      BY <2>3 DEF LoadDone
    <3>. QED BY <3>1, <3>2, FS_EmptySet
  <2>. QED BY <2>2, <2>3
<1>4. /\ inflightReg' = Cardinality(RunningReg') /\ inflightMem' = Cardinality(RunningMem')
      /\ inflightMem' \in Nat
  <2>1. {i} \in SUBSET InRob
    BY <1>1
  <2>2. \A j \in InRob : /\ rob'[j].ins = rob[j].ins /\ rob'[j].executed = rob[j].executed
                         /\ j \notin {i} => rob'[j].numMemOps = rob[j].numMemOps
    BY <1>1, LoadDoneEffect
  <2>3. UNCHANGED <<head, tail, inflightReg>>
    BY LoadDoneEffect
  <2>. QED BY <1>2, <1>3, <2>1, <2>2, <2>3, EndedCounts
<1>5. PendingLoads(i)' = PendingLoads(i) \ {a} /\ PendingStores(i)' = PendingStores(i)
  <2>1. \A b \in Addr : rob'[i].load[b] = (IF b = a THEN "done" ELSE rob[i].load[b])
                        /\ rob'[i].store = rob[i].store
    BY LoadDoneEffect
  <2>. QED BY <2>1 DEF PendingLoads, PendingStores, Pending
<1>6. ASSUME NEW j \in InRob
      PROVE  rob'[j].numMemOps = Cardinality(PendingLoads(j)') + Cardinality(PendingStores(j)')
  <2>1. /\ rob[j].numMemOps = Cardinality(PendingLoads(j)) + Cardinality(PendingStores(j))
        /\ IsFiniteSet(PendingLoads(j)) /\ IsFiniteSet(PendingStores(j))
    BY CountersAre, CountedFinite DEF IInv
  <2>2. CASE j # i
    BY <1>1, <2>1, <2>2 DEF PendingLoads, PendingStores
  <2>3. CASE j = i
    <3>1. Cardinality(PendingLoads(i) \ {a}) = Cardinality(PendingLoads(i)) - 1
      BY <1>1, <2>1, <2>3, FS_RemoveElement
    <3>2. Cardinality(PendingLoads(i)) \in Nat /\ Cardinality(PendingStores(i)) \in Nat
      BY <2>1, <2>3, FS_CardinalityType
    <3>3. rob'[i].numMemOps = Cardinality(PendingLoads(i)') + Cardinality(PendingStores(i)')
      BY <1>2, <1>5, <2>1, <2>3, <3>1, <3>2
    <3>. QED BY <2>3, <3>3 DEF PendingLoads, PendingStores
  <2>. QED BY <2>2, <2>3
<1>7. InLq' = InLq \ {<<i, a>>} /\ <<i, a>> \in InLq
  <2>1. ASSUME NEW d \in InRob \X Addr
        PROVE  rob'[d[1]].load[d[2]] = IF d = <<i, a>> THEN "done" ELSE rob[d[1]].load[d[2]]
    BY <1>1, LoadDoneEffect
  <2>. QED BY <1>1, <2>1 DEF InLq
<1>8. InSq' = InSq
  <2>1. \A j \in InRob : rob'[j].store = rob[j].store
    BY <1>1, LoadDoneEffect
  <2>. QED BY <1>1, <2>1 DEF InSq
<1>9. lqOccupancy' = Cardinality(InLq') /\ lqOccupancy' \in 0 .. LqSize
  <2>1. IsFiniteSet(InLq) /\ lqOccupancy = Cardinality(InLq) /\ lqOccupancy \in 0 .. LqSize
    BY CountersAre, CountedFinite DEF IInv, TypeOK
  <2>2. IsFiniteSet(InLq') /\ Cardinality(InLq') = Cardinality(InLq) - 1
    BY <1>7, <2>1, FS_RemoveElement
  <2>3. Cardinality(InLq') \in Nat
    BY <2>2, FS_CardinalityType
  <2>. QED BY <2>1, <2>2, <2>3, CoreAssumption DEF LoadDone
<1>10. sqOccupancy' = Cardinality(InSq')
  BY <1>8, LoadDoneEffect, CountersAre DEF IInv
<1>. QED BY <1>1, <1>4, <1>6, <1>9, <1>10, CountersAreNext

LEMMA LoadDoneKeepsInv ==
    ASSUME IInv, NEW i \in Id, NEW a \in Addr, LoadDone(i, a)
    PROVE  IInv'
<1>1. TypeOK'
  BY LoadDoneEffect, LoadDoneCounts DEF IInv, TypeOK
<1>2. InRob' = InRob /\ InRob \subseteq Id /\ i \in InRob /\ rte' = rte /\ tail' = tail /\ head' = head
  BY LoadDoneEffect, WindowIsId DEF IInv, InRob
<1>3. \A j \in Id : /\ rob'[j].ins = rob[j].ins /\ rob'[j].regDependents = rob[j].regDependents
                    /\ rob'[j].numRegDependent = rob[j].numRegDependent
                    /\ rob'[j].scheduled = rob[j].scheduled /\ rob'[j].executed = rob[j].executed
                    /\ rob'[j].memDependents = rob[j].memDependents /\ rob'[j].store = rob[j].store
  BY LoadDoneEffect
<1>4. (\A j \in InRob : Held(j))'
  BY <1>2, <1>3, HeldKept DEF SameRegs, SameLists
<1>5. ASSUME NEW j \in InRob PROVE Entered(j)' /\ Staged(j)' /\ Named(j)'
  <2>1. Entered(j) /\ Staged(j) /\ Named(j) /\ j \in Id /\ j \in Nat /\ j \in head .. tail - 1
        /\ head \in Nat /\ tail \in Nat
    BY <1>2, WindowIsId DEF IInv, InRob
  <2>2. Entered(j)'
    <3>1. \A b \in Addr : rob'[j].load[b] = "none" <=> rob[j].load[b] = "none"
      BY <1>2, LoadDoneEffect
    <3>. QED BY <1>3, <2>1, <3>1 DEF Entered
  <2>3. Staged(j)'
    <3>1. IsMemory(j)' = IsMemory(j) /\ RegReady(j)' = RegReady(j)
      BY <1>3, <2>1, MemoryKept DEF RegReady
    <3>2. Begun(j)' => Begun(j)
      BY <1>3, <2>1, LoadDoneEffect DEF Begun
    <3>3. rob'[j].executed = "done" => rob'[j].numMemOps = 0
      <4>1. rob[i].executed # "done"
        BY <1>2, LoadDoneEffect, PendingKeepsOpen DEF PendingLoads, Pending
      <4>. QED BY <1>3, <2>1, <4>1, LoadDoneEffect DEF Staged
    <3>. QED BY <1>3, <2>1, <3>1, <3>2, <3>3 DEF Staged
  <2>4. Named(j)'
    <3>1. \A p \in j + 1 .. tail - 1 : p \in Id
      BY <1>2, <2>1 DEF InRob
    <3>. QED BY <1>2, <1>3, <2>1, <3>1 DEF Named
  <2>. QED BY <2>2, <2>3, <2>4
<1>6. ASSUME NEW j \in InRob, NEW b \in Addr PROVE Sourced(j, b)'
  <2>1. Sourced(j, b) /\ j \in Id /\ Older(j) \subseteq Id /\ Older(j)' = Older(j)
    BY <1>2, WindowIsId DEF IInv, Older
  <2>2. CASE j = i /\ b = a
    <3>1. rob'[i].load[a] = "done" /\ rob'[i].from[a] = written[a] /\ written' = written
      BY LoadDoneEffect
    <3>2. NoStore(i, a)
      BY <2>1, <2>2, LoadDoneEffect DEF Sourced
    <3>3. NoStore(i, a)'
      BY <1>3, <2>1, <2>2, <3>2 DEF NoStore
    <3>. QED BY <2>2, <3>1, <3>3 DEF Sourced
  <2>3. CASE ~(j = i /\ b = a)
    <3>1. rob'[j].load[b] = rob[j].load[b] /\ rob'[j].from[b] = rob[j].from[b]
      BY <2>1, <2>3, LoadDoneEffect
    <3>2. rob[j].load[b] = "waiting" => rob'[rob[j].from[b]].store[b] # "done"
      BY <1>3, <2>1 DEF Sourced, LastStore
    <3>. QED BY <1>2, <1>3, <2>1, <3>1, <3>2, LoadDoneEffect, SourcedAt DEF IInv, SameLoad
  <2>. QED BY <2>2, <2>3
<1>7. (\A j \in InRob : Entered(j) /\ Staged(j) /\ Named(j))'
  BY <1>2, <1>5
<1>8. (\A j \in InRob, b \in Addr : Sourced(j, b))'
  BY <1>2, <1>6
<1>. QED BY <1>1, <1>2, <1>4, <1>7, <1>8, LoadDoneCounts DEF IInv

\* The loads a store ends are those that wait for it, of younger instructions.
LEMMA DependentsWait ==
    ASSUME IInv, NEW i \in Id, NEW a \in Addr, ExecuteStore(i, a)
    PROVE  /\ i \in InRob /\ rob[i].store[a] = "ready"
           /\ Dependents(i, a) \subseteq InRob /\ i \notin Dependents(i, a)
           /\ \A j \in Dependents(i, a) : rob[j].load[a] = "waiting" /\ rob[j].from[a] = i
           /\ \A j \in InRob : rob[j].load[a] = "waiting" /\ rob[j].from[a] = i => j \in Dependents(i, a)
<1>1. /\ i \in InRob /\ rob[i].store[a] = "ready"
      /\ \A j \in Dependents(i, a) : rob[j].load[a] = "waiting" /\ rob[j].from[a] = i
  BY DEF ExecuteStore, WaitsOn
<1>2. /\ Named(i) /\ i \in Nat /\ head \in Nat /\ tail \in Nat /\ i \in head .. tail - 1
  BY <1>1, WindowIsId DEF IInv, InRob
<1>3. \A j \in Dependents(i, a) : j \in i + 1 .. tail - 1
  BY <1>2 DEF Named, Dependents
<1>4. \A j \in InRob : rob[j].load[a] = "waiting" /\ rob[j].from[a] = i => j \in Dependents(i, a)
  BY DEF IInv, Sourced, Dependents
<1>. QED BY <1>1, <1>2, <1>3, <1>4 DEF InRob

LEMMA ExecuteStoreEffect ==
    ASSUME IInv, NEW i \in Id, NEW a \in Addr, ExecuteStore(i, a)
    PROVE  /\ rob' \in [Id -> Entry]
           /\ UNCHANGED <<head, tail, rte, written, sta, sqOccupancy, inflightReg, stall, seen>>
           /\ \A j \in Id :
                 /\ rob'[j].ins = rob[j].ins /\ rob'[j].regDependents = rob[j].regDependents
                 /\ rob'[j].numRegDependent = rob[j].numRegDependent
                 /\ rob'[j].scheduled = rob[j].scheduled /\ rob'[j].executed = rob[j].executed
                 /\ rob'[j].memDependents = rob[j].memDependents /\ rob'[j].from = rob[j].from
                 /\ rob'[j].numMemOps = (IF j \in {i} \cup Dependents(i, a)
                                           THEN rob[j].numMemOps - 1 ELSE rob[j].numMemOps)
                 /\ \A b \in Addr :
                       /\ rob'[j].load[b] = (IF j \in Dependents(i, a) /\ b = a
                                               THEN "done" ELSE rob[j].load[b])
                       /\ rob'[j].store[b] = IF j = i /\ b = a THEN "done" ELSE rob[j].store[b]
<1>. DEFINE D == Dependents(i, a)
            s == [rob[i] EXCEPT !.store = [rob[i].store EXCEPT ![a] = "done"],
                                !.numMemOps = rob[i].numMemOps - 1]
            l(j) == [rob[j] EXCEPT !.load = [rob[j].load EXCEPT ![a] = "done"],
                                   !.numMemOps = rob[j].numMemOps - 1]
<1>1. rob' = [j \in Id |-> IF j = i THEN s ELSE IF j \in D THEN l(j) ELSE rob[j]]
  BY DEF ExecuteStore
<1>2. \A j \in Id : /\ rob[j] \in Entry /\ rob[j].numMemOps - 1 \in Int
                    /\ rob[j].load \in [Addr -> LoadState] /\ rob[j].store \in [Addr -> StoreState]
                    /\ [rob[j].load EXCEPT ![a] = "done"] \in [Addr -> LoadState]
                    /\ [rob[j].store EXCEPT ![a] = "done"] \in [Addr -> StoreState]
  BY EntryTypes DEF IInv, LoadState, StoreState
<1>3. ASSUME NEW r \in Entry, NEW v \in [Addr -> LoadState], NEW n \in Int
      PROVE  [r EXCEPT !.load = v, !.numMemOps = n] \in Entry
  BY DEF Entry
<1>4. ASSUME NEW r \in Entry, NEW v \in [Addr -> StoreState], NEW n \in Int
      PROVE  [r EXCEPT !.store = v, !.numMemOps = n] \in Entry
  BY DEF Entry
<1>5. s \in Entry /\ \A j \in Id : l(j) \in Entry
  BY <1>2, <1>3, <1>4
<1>6. /\ s.ins = rob[i].ins /\ s.regDependents = rob[i].regDependents
      /\ s.numRegDependent = rob[i].numRegDependent
      /\ s.scheduled = rob[i].scheduled /\ s.executed = rob[i].executed
      /\ s.memDependents = rob[i].memDependents /\ s.from = rob[i].from
      /\ s.numMemOps = rob[i].numMemOps - 1
      /\ s.load = rob[i].load
      /\ s.store = [rob[i].store EXCEPT ![a] = "done"]
  BY <1>2 DEF Entry
<1>7. ASSUME NEW j \in Id
      PROVE  /\ l(j).ins = rob[j].ins /\ l(j).regDependents = rob[j].regDependents
             /\ l(j).numRegDependent = rob[j].numRegDependent
             /\ l(j).scheduled = rob[j].scheduled /\ l(j).executed = rob[j].executed
             /\ l(j).memDependents = rob[j].memDependents /\ l(j).from = rob[j].from
             /\ l(j).numMemOps = rob[j].numMemOps - 1
             /\ l(j).store = rob[j].store
             /\ l(j).load = [rob[j].load EXCEPT ![a] = "done"]
  BY <1>2 DEF Entry
<1>8. i \notin D
  BY DependentsWait
<1>. HIDE DEF s, l, D
<1>9. rob' \in [Id -> Entry]
  BY <1>1, <1>2, <1>5
<1>10. ASSUME NEW j \in Id
       PROVE  /\ rob'[j].ins = rob[j].ins /\ rob'[j].regDependents = rob[j].regDependents
              /\ rob'[j].numRegDependent = rob[j].numRegDependent
              /\ rob'[j].scheduled = rob[j].scheduled /\ rob'[j].executed = rob[j].executed
              /\ rob'[j].memDependents = rob[j].memDependents /\ rob'[j].from = rob[j].from
              /\ rob'[j].numMemOps = (IF j \in {i} \cup D THEN rob[j].numMemOps - 1 ELSE rob[j].numMemOps)
              /\ \A b \in Addr :
                    /\ rob'[j].load[b] = (IF j \in D /\ b = a THEN "done" ELSE rob[j].load[b])
                    /\ rob'[j].store[b] = IF j = i /\ b = a THEN "done" ELSE rob[j].store[b]
  <2>1. CASE j = i
    BY <1>1, <1>2, <1>6, <1>8, <2>1
  <2>2. CASE j # i /\ j \in D
    BY <1>1, <1>2, <1>7, <2>2
  <2>3. CASE j # i /\ j \notin D
    BY <1>1, <2>3
  <2>. QED BY <2>1, <2>2, <2>3
<1>. QED BY <1>9, <1>10 DEF D, ExecuteStore, retirement

LEMMA ExecuteStoreCounts ==
    ASSUME IInv, NEW i \in Id, NEW a \in Addr, ExecuteStore(i, a)
    PROVE  OpsCounted' /\ inflightMem' \in Nat /\ lqOccupancy' \in 0 .. LqSize
<1>. DEFINE D == Dependents(i, a)
            F == {i} \cup D
<1>1. /\ i \in InRob /\ D \in SUBSET InRob /\ i \notin D /\ InRob' = InRob /\ InRob \subseteq Id
      /\ rob[i].store[a] = "ready" /\ a \in PendingStores(i)
      /\ \A j \in D : rob[j].load[a] = "waiting" /\ a \in PendingLoads(j)
  BY DependentsWait, ExecuteStoreEffect, WindowIsId
     DEF IInv, InRob, PendingLoads, PendingStores, Pending
<1>2. \A j \in InRob :
         /\ rob'[j].numMemOps = (IF j \in F THEN rob[j].numMemOps - 1 ELSE rob[j].numMemOps)
         /\ rob'[j].ins = rob[j].ins /\ rob'[j].executed = rob[j].executed
         /\ \A b \in Addr :
               /\ rob'[j].load[b] = (IF j \in D /\ b = a THEN "done" ELSE rob[j].load[b])
               /\ rob'[j].store[b] = IF j = i /\ b = a THEN "done" ELSE rob[j].store[b]
  BY <1>1, ExecuteStoreEffect
<1>3. /\ inflightMem' = inflightMem + Cardinality({j \in F : rob[j].numMemOps = 1})
      /\ lqOccupancy' = lqOccupancy - Cardinality(D)
      /\ UNCHANGED <<head, tail, inflightReg, sqOccupancy>>
  BY ExecuteStoreEffect DEF ExecuteStore
<1>. HIDE DEF D
<1>4. F \in SUBSET InRob
  BY <1>1
<1>5. \A j \in F : rob[j].numMemOps > 0 /\ rob[j].executed # "done" /\ IsMemory(j)
  BY <1>1, PendingKeepsOpen
<1>. HIDE DEF F
<1>6. /\ inflightReg' = Cardinality(RunningReg') /\ inflightMem' = Cardinality(RunningMem')
      /\ inflightMem' \in Nat
  BY <1>2, <1>3, <1>4, <1>5, EndedCounts
<1>7. ASSUME NEW j \in InRob
      PROVE  /\ PendingLoads(j)' = (IF j \in D THEN PendingLoads(j) \ {a} ELSE PendingLoads(j))
             /\ PendingStores(j)' = IF j = i THEN PendingStores(j) \ {a} ELSE PendingStores(j)
  BY <1>2 DEF PendingLoads, PendingStores, Pending
<1>8. ASSUME NEW j \in InRob
      PROVE  rob'[j].numMemOps = Cardinality(PendingLoads(j)') + Cardinality(PendingStores(j)')
  <2>1. /\ rob[j].numMemOps = Cardinality(PendingLoads(j)) + Cardinality(PendingStores(j))
        /\ IsFiniteSet(PendingLoads(j)) /\ IsFiniteSet(PendingStores(j))
        /\ Cardinality(PendingLoads(j)) \in Nat /\ Cardinality(PendingStores(j)) \in Nat
    BY CountersAre, CountedFinite, FS_CardinalityType DEF IInv
  <2>2. CASE j = i
    <3>1. Cardinality(PendingStores(j) \ {a}) = Cardinality(PendingStores(j)) - 1
      BY <1>1, <2>1, <2>2, FS_RemoveElement
    <3>2. PendingLoads(j)' = PendingLoads(j) /\ PendingStores(j)' = PendingStores(j) \ {a}
      BY <1>1, <1>7, <2>2
    <3>3. rob'[j].numMemOps = rob[j].numMemOps - 1
      BY <1>2, <2>2 DEF F
    <3>. QED BY <2>1, <3>1, <3>2, <3>3
  <2>3. CASE j \in D
    <3>1. Cardinality(PendingLoads(j) \ {a}) = Cardinality(PendingLoads(j)) - 1
      BY <1>1, <2>1, <2>3, FS_RemoveElement
    <3>2. PendingLoads(j)' = PendingLoads(j) \ {a} /\ PendingStores(j)' = PendingStores(j)
      BY <1>1, <1>7, <2>3
    <3>3. rob'[j].numMemOps = rob[j].numMemOps - 1
      BY <1>2, <2>3 DEF F
    <3>. QED BY <2>1, <3>1, <3>2, <3>3
  <2>4. CASE j # i /\ j \notin D
    BY <1>2, <1>7, <2>1, <2>4 DEF F
  <2>. QED BY <2>2, <2>3, <2>4
<1>. DEFINE P == D \X {a}
<1>9. InLq' = InLq \ P /\ P \subseteq InLq
  <2>1. ASSUME NEW d \in InRob \X Addr
        PROVE  rob'[d[1]].load[d[2]] = IF d \in P THEN "done" ELSE rob[d[1]].load[d[2]]
    <3>1. d[1] \in InRob /\ d[2] \in Addr /\ (d \in P <=> d[1] \in D /\ d[2] = a)
      OBVIOUS
    <3>. HIDE DEF P
    <3>. QED BY <1>2, <3>1
  <2>2. P \subseteq InLq
    BY <1>1 DEF InLq
  <2>. HIDE DEF P
  <2>. QED BY <1>1, <2>1, <2>2 DEF InLq
<1>10. InSq' = InSq
  <2>1. ASSUME NEW d \in InRob \X Addr
        PROVE  rob'[d[1]].store[d[2]] \in {"none", "todo"} <=> rob[d[1]].store[d[2]] \in {"none", "todo"}
    BY <1>1, <1>2
  <2>. QED BY <1>1, <2>1 DEF InSq
<1>11. IsFiniteSet(P) /\ Cardinality(P) = Cardinality(D) /\ Cardinality(D) \in Nat
  <2>1. IsFiniteSet({a}) /\ Cardinality({a}) = 1
    BY FS_Singleton
  <2>2. IsFiniteSet(D) /\ Cardinality(D) \in Nat
    BY <1>1, WindowIsId, FS_Subset, FS_CardinalityType DEF IInv
  <2>3. IsFiniteSet(P) /\ Cardinality(P) = Cardinality(D) * Cardinality({a})
    BY <2>1, <2>2, FS_Product
  <2>. QED BY <2>1, <2>2, <2>3
<1>. HIDE DEF P
<1>12. lqOccupancy' = Cardinality(InLq') /\ lqOccupancy' \in 0 .. LqSize
  <2>1. IsFiniteSet(InLq) /\ lqOccupancy = Cardinality(InLq) /\ lqOccupancy \in 0 .. LqSize
    BY CountersAre, CountedFinite DEF IInv, TypeOK
  <2>2. IsFiniteSet(InLq') /\ Cardinality(InLq') = Cardinality(InLq) - Cardinality(P)
    BY <1>9, <2>1, SubsetRemoved
  <2>3. Cardinality(InLq') \in Nat
    BY <2>2, FS_CardinalityType
  <2>. QED BY <1>3, <1>11, <2>1, <2>2, <2>3, CoreAssumption
<1>13. sqOccupancy' = Cardinality(InSq')
  BY <1>3, <1>10, CountersAre DEF IInv
<1>. QED BY <1>1, <1>6, <1>8, <1>12, <1>13, CountersAreNext

LEMMA ExecuteStoreKeepsInv ==
    ASSUME IInv, NEW i \in Id, NEW a \in Addr, ExecuteStore(i, a)
    PROVE  IInv'
<1>. DEFINE D == Dependents(i, a)
<1>1. TypeOK'
  BY ExecuteStoreEffect, ExecuteStoreCounts DEF IInv, TypeOK
<1>2. /\ InRob' = InRob /\ InRob \subseteq Id /\ i \in InRob /\ rte' = rte /\ tail' = tail /\ head' = head
      /\ written' = written
      /\ D \subseteq InRob /\ i \notin D /\ rob[i].store[a] = "ready"
      /\ \A j \in D : rob[j].load[a] = "waiting" /\ rob[j].from[a] = i
      /\ \A j \in InRob : rob[j].load[a] = "waiting" /\ rob[j].from[a] = i => j \in D
  BY ExecuteStoreEffect, DependentsWait, WindowIsId DEF IInv, InRob
<1>3. \A j \in Id :
         /\ rob'[j].ins = rob[j].ins /\ rob'[j].regDependents = rob[j].regDependents
         /\ rob'[j].numRegDependent = rob[j].numRegDependent
         /\ rob'[j].scheduled = rob[j].scheduled /\ rob'[j].executed = rob[j].executed
         /\ rob'[j].memDependents = rob[j].memDependents /\ rob'[j].from = rob[j].from
         /\ rob'[j].numMemOps = (IF j \in {i} \cup D THEN rob[j].numMemOps - 1 ELSE rob[j].numMemOps)
         /\ \A b \in Addr :
               /\ rob'[j].load[b] = (IF j \in D /\ b = a THEN "done" ELSE rob[j].load[b])
               /\ rob'[j].store[b] = IF j = i /\ b = a THEN "done" ELSE rob[j].store[b]
  BY ExecuteStoreEffect
<1>. HIDE DEF D
<1>4. (\A j \in InRob : Held(j))'
  BY <1>2, <1>3, HeldKept DEF SameRegs, SameLists
<1>5. ASSUME NEW j \in InRob PROVE Entered(j)' /\ Staged(j)' /\ Named(j)'
  <2>1. Entered(j) /\ Staged(j) /\ Named(j) /\ j \in Id /\ j \in Nat /\ j \in head .. tail - 1
        /\ head \in Nat /\ tail \in Nat
    BY <1>2, WindowIsId DEF IInv, InRob
  <2>2. Entered(j)'
    BY <1>2, <1>3, <2>1 DEF Entered
  <2>3. Staged(j)'
    <3>1. IsMemory(j)' = IsMemory(j) /\ RegReady(j)' = RegReady(j)
      BY <1>3, <2>1, MemoryKept DEF RegReady
    <3>2. Begun(j)' => Begun(j)
      BY <1>2, <1>3, <2>1 DEF Begun
    <3>3. rob'[j].executed = "done" => rob'[j].numMemOps = 0
      <4>1. a \in PendingStores(i) /\ \A k \in D : k \in InRob /\ a \in PendingLoads(k)
        BY <1>2 DEF PendingLoads, PendingStores, Pending
      <4>2. \A k \in {i} \cup D : rob[k].executed # "done"
        BY <1>2, <4>1, PendingKeepsOpen
      <4>. QED BY <1>3, <2>1, <4>2 DEF Staged
    <3>. QED BY <1>3, <2>1, <3>1, <3>2, <3>3 DEF Staged
  <2>4. Named(j)'
    <3>1. \A p \in j + 1 .. tail - 1 : p \in Id
      BY <1>2, <2>1 DEF InRob
    <3>. QED BY <1>2, <1>3, <2>1, <3>1 DEF Named
  <2>. QED BY <2>2, <2>3, <2>4
<1>6. ASSUME NEW j \in InRob, NEW b \in Addr PROVE Sourced(j, b)'
  <2>1. /\ Sourced(j, b) /\ j \in Id /\ Older(j) \subseteq Id /\ Older(j)' = Older(j)
        /\ j \in Nat /\ head \in Nat
    BY <1>2, WindowIsId DEF IInv, Older
  <2>2. CASE j \in D /\ b = a
    <3>1. rob'[j].load[b] = "done" /\ rob'[j].from[b] = i
      BY <1>2, <1>3, <2>1, <2>2
    <3>2. LastStore(j, b, i)
      BY <1>2, <2>1, <2>2 DEF Sourced
    <3>3. \A q \in i + 1 .. j - 1 : q \in Older(j)
      BY <2>1, <3>2 DEF LastStore, Older
    <3>4. LastStore(j, b, i)'
      BY <1>3, <2>1, <3>2, <3>3 DEF LastStore
    <3>. QED BY <3>1, <3>4 DEF Sourced
  <2>3. CASE ~(j \in D /\ b = a)
    <3>1. rob'[j].load[b] = rob[j].load[b] /\ rob'[j].from[b] = rob[j].from[b]
      BY <1>3, <2>1, <2>3
    <3>2. rob[j].load[b] = "waiting" => rob'[rob[j].from[b]].store[b] # "done"
      <4>1. ASSUME rob[j].load[b] = "waiting" PROVE rob'[rob[j].from[b]].store[b] # "done"
        <5>1. rob[j].from[b] \in Id /\ rob[rob[j].from[b]].store[b] # "done"
          BY <2>1, <4>1 DEF Sourced, LastStore
        <5>2. ~(rob[j].from[b] = i /\ b = a)
          BY <1>2, <2>3, <4>1
        <5>. QED BY <1>3, <5>1, <5>2
      <4>. QED BY <4>1
    <3>3. \A p \in Older(j) : /\ rob'[p].ins = rob[p].ins
                              /\ rob[p].memDependents \subseteq rob'[p].memDependents
      BY <1>3, <2>1
    <3>4. TypeOK /\ SameLoad(rob[j].load[b], rob'[j].load[b])
      BY <3>1 DEF IInv, SameLoad
    <3>5. UNCHANGED <<head, written>>
      BY <1>2
    <3>. QED BY <2>1, <3>1, <3>2, <3>3, <3>4, <3>5, SourcedAt
  <2>. QED BY <2>2, <2>3
<1>7. (\A j \in InRob : Entered(j) /\ Staged(j) /\ Named(j))'
  BY <1>2, <1>5
<1>8. (\A j \in InRob, b \in Addr : Sourced(j, b))'
  BY <1>2, <1>6
<1>. QED BY <1>1, <1>2, <1>4, <1>7, <1>8, ExecuteStoreCounts DEF IInv

-----------------------------------------------------------------------------
(* Execute *)

LEMMA ExecuteEffect ==
    ASSUME IInv, NEW i \in Id, Execute(i)
    PROVE  /\ i \in InRob /\ InRob' = InRob
           /\ ~IsMemory(i) /\ RegReady(i) /\ rob[i].executed = "no"
           /\ rob[i].scheduled = "done"
           /\ rob' \in [Id -> Entry] /\ rte' = rte \ {i} /\ inflightReg' = inflightReg + 1
           /\ UNCHANGED <<head, tail, lqOccupancy, sqOccupancy, sta, inflightMem, stall, written, seen>>
           /\ rob'[i].executed = "inflight"
           /\ \A j \in Id :
                 /\ j # i => rob'[j].executed = rob[j].executed
                 /\ rob'[j].ins = rob[j].ins /\ rob'[j].regDependents = rob[j].regDependents
                 /\ rob'[j].numRegDependent = rob[j].numRegDependent
                 /\ rob'[j].scheduled = rob[j].scheduled
                 /\ rob'[j].memDependents = rob[j].memDependents /\ rob'[j].from = rob[j].from
                 /\ rob'[j].numMemOps = rob[j].numMemOps
                 /\ rob'[j].load = rob[j].load /\ rob'[j].store = rob[j].store
<1>. DEFINE e == [rob[i] EXCEPT !.executed = "inflight"]
<1>1. i \in InRob /\ Held(i) /\ Staged(i)
  BY DEF Execute, IInv
<1>2. ~IsMemory(i) /\ RegReady(i) /\ rob[i].executed = "no"
  BY <1>1 DEF Execute, Held
<1>3. rob[i].scheduled = "done"
  BY <1>1, <1>2, EntryTypes DEF Staged, RegReady, Progress, IInv
<1>4. rob' = [rob EXCEPT ![i] = e] /\ rob \in [Id -> Entry] /\ rob[i] \in Entry
  BY DEF Execute, IInv, TypeOK
<1>5. e \in Entry
  <2>1. "inflight" \in Progress
    BY DEF Progress
  <2>. QED BY <1>4, <2>1, EntryUpdates
<1>6. /\ e.executed = "inflight"
      /\ e.ins = rob[i].ins /\ e.regDependents = rob[i].regDependents
      /\ e.numRegDependent = rob[i].numRegDependent
      /\ e.scheduled = rob[i].scheduled
      /\ e.memDependents = rob[i].memDependents /\ e.from = rob[i].from
      /\ e.numMemOps = rob[i].numMemOps
      /\ e.load = rob[i].load /\ e.store = rob[i].store
  BY <1>4 DEF Entry
<1>. HIDE DEF e
<1>7. rob' \in [Id -> Entry] /\ rob'[i] = e /\ \A j \in Id : j # i => rob'[j] = rob[j]
  BY <1>4, <1>5
<1>. QED BY <1>1, <1>2, <1>3, <1>6, <1>7 DEF Execute, queues, retirement, InRob

LEMMA ExecuteCounts ==
    ASSUME IInv, NEW i \in Id, Execute(i)
    PROVE  OpsCounted'
<1>1. /\ i \in InRob /\ InRob' = InRob /\ InRob \subseteq Id /\ ~IsMemory(i)
      /\ rob[i].executed = "no" /\ rob'[i].executed = "inflight"
      /\ UNCHANGED <<lqOccupancy, sqOccupancy, inflightMem>>
      /\ inflightReg' = inflightReg + 1
  BY ExecuteEffect, WindowIsId DEF IInv
<1>2. \A j \in InRob : /\ j # i => rob'[j].executed = rob[j].executed
                       /\ rob'[j].ins = rob[j].ins /\ rob'[j].numMemOps = rob[j].numMemOps
                       /\ rob'[j].load = rob[j].load /\ rob'[j].store = rob[j].store
  BY <1>1, ExecuteEffect
<1>3. \A j \in InRob : IsMemory(j)' = IsMemory(j)
  BY <1>2, MemoryKept
<1>4. \A j \in InRob :
        rob'[j].numMemOps = Cardinality(PendingLoads(j)') + Cardinality(PendingStores(j)')
  BY <1>2, CountersAre DEF IInv, PendingLoads, PendingStores
<1>5. RunningMem' = RunningMem
  BY <1>1, <1>2, <1>3 DEF RunningMem
<1>6. RunningReg' = RunningReg \cup {i} /\ i \notin RunningReg
  BY <1>1, <1>2, <1>3 DEF RunningReg
<1>7. Cardinality(RunningReg') = Cardinality(RunningReg) + 1
  BY <1>6, CountedFinite, FS_AddElement DEF IInv
<1>8. InLq' = InLq /\ InSq' = InSq
  BY <1>1, <1>2 DEF InLq, InSq
<1>. QED BY <1>1, <1>4, <1>5, <1>7, <1>8, CountersAre, CountersAreNext DEF IInv

LEMMA ExecuteKeepsInv ==
    ASSUME IInv, NEW i \in Id, Execute(i)
    PROVE  IInv'
<1>1. TypeOK'
  BY ExecuteEffect DEF IInv, TypeOK
<1>2. /\ i \in InRob /\ InRob' = InRob /\ InRob \subseteq Id /\ ~IsMemory(i) /\ RegReady(i)
      /\ rob[i].executed = "no" /\ rob[i].scheduled = "done" /\ rob'[i].executed = "inflight"
      /\ head' = head /\ tail' = tail /\ written' = written /\ rte' = rte \ {i}
  BY ExecuteEffect, WindowIsId DEF IInv
<1>3. \A j \in Id :
         /\ j # i => rob'[j].executed = rob[j].executed
         /\ rob'[j].ins = rob[j].ins /\ rob'[j].regDependents = rob[j].regDependents
         /\ rob'[j].numRegDependent = rob[j].numRegDependent
         /\ rob'[j].scheduled = rob[j].scheduled
         /\ rob'[j].memDependents = rob[j].memDependents /\ rob'[j].from = rob[j].from
         /\ rob'[j].numMemOps = rob[j].numMemOps
         /\ rob'[j].load = rob[j].load /\ rob'[j].store = rob[j].store
  BY ExecuteEffect
<1>4. ASSUME NEW j \in InRob PROVE Entered(j)' /\ Staged(j)' /\ Named(j)' /\ Held(j)'
  <2>1. /\ Entered(j) /\ Staged(j) /\ Named(j) /\ Held(j) /\ j \in Id /\ j \in Nat
        /\ j \in head .. tail - 1 /\ head \in Nat /\ tail \in Nat
    BY <1>2, WindowIsId DEF IInv, InRob
  <2>2. Entered(j)'
    BY <1>2, <1>3, <2>1 DEF Entered
  <2>3. IsMemory(j)' = IsMemory(j) /\ RegReady(j)' = RegReady(j)
    BY <1>3, <2>1, MemoryKept DEF RegReady
  <2>4. Staged(j)'
    <3>1. Begun(j)' => Begun(j) \/ j = i
      BY <1>2, <1>3, <2>1 DEF Begun
    <3>. QED BY <1>2, <1>3, <2>1, <2>3, <3>1 DEF Staged
  <2>5. Named(j)'
    <3>1. \A p \in j + 1 .. tail - 1 : p \in Id
      BY <1>2, <2>1 DEF InRob
    <3>. QED BY <1>2, <1>3, <2>1, <3>1 DEF Named
  <2>6. \A p \in head' .. j : SameLists(p)
    <3>1. \A p \in head .. j : p \in Id
      BY <1>2, <2>1 DEF InRob
    <3>. QED BY <1>2, <1>3, <3>1 DEF SameLists
  <2>7. (j \in rte <=> ~IsMemory(j) /\ RegReady(j) /\ rob[j].executed = "no")'
    BY <1>2, <1>3, <2>1, <2>3 DEF Held
  <2>8. Held(j)'
    BY <1>2, <2>1, <2>6, <2>7, HeldUnder DEF IInv
  <2>. QED BY <2>2, <2>4, <2>5, <2>8
<1>5. (\A j \in InRob : Entered(j) /\ Staged(j) /\ Named(j) /\ Held(j))'
  BY <1>2, <1>4
<1>6. (\A j \in InRob, a \in Addr : Sourced(j, a))'
  BY <1>2, <1>3, SourcesKept DEF SameSources, SameLoad, SameStore
<1>7. (rte \subseteq InRob)'
  BY <1>2 DEF IInv
<1>. QED BY <1>1, <1>5, <1>6, <1>7, ExecuteCounts DEF IInv

-----------------------------------------------------------------------------
(* Complete *)

\* The entries of the list of i that name j; Releases(i, j) is their number.
Naming(i, j) == {d \in rob[i].regDependents : d[1] = j}

LEMMA NamingFinite ==
    ASSUME TypeOK, NEW i \in Id, NEW j
    PROVE  /\ IsFiniteSet(Naming(i, j)) /\ Releases(i, j) = Cardinality(Naming(i, j))
           /\ Releases(i, j) \in Nat /\ (Releases(i, j) = 0 <=> Naming(i, j) = {})
<1>1. IsFiniteSet(Id \X Reg) /\ Naming(i, j) \subseteq Id \X Reg
  BY WindowIsId, CoreAssumption, FS_Product, EntryTypes DEF Naming
<1>2. IsFiniteSet(Naming(i, j)) /\ Releases(i, j) = Cardinality(Naming(i, j))
  BY <1>1, FS_Subset DEF Releases, Naming
<1>. QED BY <1>2, FS_CardinalityType, FS_EmptySet

LEMMA CompleteEffect ==
    ASSUME IInv, NEW i \in Id, Complete(i)
    PROVE  /\ i \in InRob /\ InRob' = InRob /\ rob[i].executed = "inflight"
           /\ Naming(i, i) = {} /\ rob[i].numMemOps = 0
           /\ rob' \in [Id -> Entry]
           /\ UNCHANGED <<head, tail, lqOccupancy, sqOccupancy, sta, written, seen>>
           /\ rob'[i].executed = "done"
           /\ \A j \in Id :
                 /\ j # i => rob'[j].executed = rob[j].executed
                 /\ rob'[j].ins = rob[j].ins /\ rob'[j].regDependents = rob[j].regDependents
                 /\ rob'[j].numRegDependent = rob[j].numRegDependent - Releases(i, j)
                 /\ rob'[j].scheduled = rob[j].scheduled
                 /\ rob'[j].memDependents = rob[j].memDependents /\ rob'[j].from = rob[j].from
                 /\ rob'[j].numMemOps = rob[j].numMemOps
                 /\ rob'[j].load = rob[j].load /\ rob'[j].store = rob[j].store
<1>. DEFINE e == [rob[i] EXCEPT !.executed = "done"]
            c(j) == [rob[j] EXCEPT !.numRegDependent = rob[j].numRegDependent - Releases(i, j)]
<1>1. i \in InRob /\ rob[i].executed = "inflight" /\ Named(i) /\ Entered(i)
  BY DEF Complete, IInv
<1>2. Naming(i, i) = {}
  <2>1. i \in Nat /\ tail \in Nat
    BY <1>1, WindowIsId DEF IInv
  <2>2. \A d \in rob[i].regDependents : d[1] \in i + 1 .. tail - 1
    BY <1>1 DEF Named
  <2>3. i \notin i + 1 .. tail - 1
    BY <2>1
  <2>. QED BY <2>2, <2>3 DEF Naming
<1>3. rob[i].numMemOps = 0
  <2>1. CASE IsMemory(i)
    BY <2>1 DEF Complete
  <2>2. CASE ~IsMemory(i)
    <3>1. PendingLoads(i) = {} /\ PendingStores(i) = {}
      BY <1>1, <2>2 DEF Entered, IsMemory, PendingLoads, PendingStores, Pending
    <3>2. rob[i].numMemOps = Cardinality(PendingLoads(i)) + Cardinality(PendingStores(i))
      BY <1>1, CountersAre DEF IInv
    <3>. QED BY <3>1, <3>2, FS_EmptySet
  <2>. QED BY <2>1, <2>2
<1>4. rob' = [j \in Id |-> IF j = i THEN e ELSE c(j)]
  BY DEF Complete
<1>5. \A j \in Id : /\ rob[j] \in Entry /\ rob[j].numRegDependent \in Int /\ Releases(i, j) \in Nat
                    /\ rob[j].numRegDependent - Releases(i, j) \in Int
  BY EntryTypes, NamingFinite DEF IInv
<1>6. e \in Entry /\ \A j \in Id : c(j) \in Entry
  <2>1. "done" \in Progress
    BY DEF Progress
  <2>. QED BY <1>5, <2>1, EntryUpdates
<1>7. /\ e.executed = "done" /\ e.ins = rob[i].ins /\ e.regDependents = rob[i].regDependents
      /\ e.numRegDependent = rob[i].numRegDependent
      /\ e.scheduled = rob[i].scheduled
      /\ e.memDependents = rob[i].memDependents /\ e.from = rob[i].from
      /\ e.numMemOps = rob[i].numMemOps
      /\ e.load = rob[i].load /\ e.store = rob[i].store
  BY <1>5 DEF Entry
<1>8. ASSUME NEW j \in Id
      PROVE  /\ c(j).executed = rob[j].executed /\ c(j).ins = rob[j].ins
             /\ c(j).regDependents = rob[j].regDependents
             /\ c(j).numRegDependent = rob[j].numRegDependent - Releases(i, j)
             /\ c(j).scheduled = rob[j].scheduled
             /\ c(j).memDependents = rob[j].memDependents /\ c(j).from = rob[j].from
             /\ c(j).numMemOps = rob[j].numMemOps
             /\ c(j).load = rob[j].load /\ c(j).store = rob[j].store
  BY <1>5 DEF Entry
<1>. HIDE DEF e, c
<1>9. rob' \in [Id -> Entry] /\ rob'[i] = e /\ \A j \in Id : j # i => rob'[j] = c(j)
  BY <1>4, <1>6
<1>10. e.numRegDependent = rob[i].numRegDependent - Releases(i, i)
  BY <1>2, <1>5, <1>7, NamingFinite DEF IInv
<1>11. ASSUME NEW j \in Id
       PROVE  /\ j # i => rob'[j].executed = rob[j].executed
              /\ rob'[j].ins = rob[j].ins /\ rob'[j].regDependents = rob[j].regDependents
              /\ rob'[j].numRegDependent = rob[j].numRegDependent - Releases(i, j)
              /\ rob'[j].scheduled = rob[j].scheduled
              /\ rob'[j].memDependents = rob[j].memDependents /\ rob'[j].from = rob[j].from
              /\ rob'[j].numMemOps = rob[j].numMemOps
              /\ rob'[j].load = rob[j].load /\ rob'[j].store = rob[j].store
  <2>1. CASE j = i
    BY <1>7, <1>9, <1>10, <2>1
  <2>2. CASE j # i
    BY <1>8, <1>9, <2>2
  <2>. QED BY <2>1, <2>2
<1>. QED BY <1>1, <1>2, <1>3, <1>7, <1>9, <1>11 DEF Complete, queues, retirement, InRob

LEMMA CompleteCounts ==
    ASSUME IInv, NEW i \in Id, Complete(i)
    PROVE  OpsCounted' /\ inflightReg' \in Nat /\ inflightMem' \in Nat
<1>1. /\ i \in InRob /\ InRob' = InRob /\ InRob \subseteq Id
      /\ rob[i].executed = "inflight" /\ rob'[i].executed = "done" /\ rob[i].numMemOps = 0
      /\ UNCHANGED <<lqOccupancy, sqOccupancy>>
  BY CompleteEffect, WindowIsId DEF IInv
<1>2. \A j \in InRob : /\ j # i => rob'[j].executed = rob[j].executed
                       /\ rob'[j].ins = rob[j].ins /\ rob'[j].numMemOps = rob[j].numMemOps
                       /\ rob'[j].load = rob[j].load /\ rob'[j].store = rob[j].store
  BY <1>1, CompleteEffect
<1>3. \A j \in InRob : IsMemory(j)' = IsMemory(j)
  BY <1>2, MemoryKept
<1>4. \A j \in InRob :
        rob'[j].numMemOps = Cardinality(PendingLoads(j)') + Cardinality(PendingStores(j)')
  BY <1>2, CountersAre DEF IInv, PendingLoads, PendingStores
<1>5. InLq' = InLq /\ InSq' = InSq
  BY <1>1, <1>2 DEF InLq, InSq
<1>6. /\ IsFiniteSet(RunningReg) /\ IsFiniteSet(RunningMem)
      /\ Cardinality(RunningReg) \in Nat /\ Cardinality(RunningMem) \in Nat
      /\ inflightReg = Cardinality(RunningReg) /\ inflightMem = Cardinality(RunningMem)
  BY CountersAre, CountedFinite, FS_CardinalityType DEF IInv
<1>7. /\ inflightReg' = Cardinality(RunningReg') /\ inflightMem' = Cardinality(RunningMem')
      /\ inflightReg' \in Nat /\ inflightMem' \in Nat
  <2>1. CASE IsMemory(i)
    <3>1. RunningReg' = RunningReg /\ RunningMem' = RunningMem \ {i} /\ i \in RunningMem
      BY <1>1, <1>2, <1>3, <2>1 DEF RunningReg, RunningMem
    <3>2. inflightMem' = inflightMem - 1 /\ inflightReg' = inflightReg
      BY <2>1 DEF Complete
    <3>3. Cardinality(RunningMem') = Cardinality(RunningMem) - 1 /\ IsFiniteSet(RunningMem')
      BY <1>6, <3>1, FS_RemoveElement
    <3>4. Cardinality(RunningMem') \in Nat
      BY <3>3, FS_CardinalityType
    <3>. QED BY <1>6, <3>1, <3>2, <3>3, <3>4
  <2>2. CASE ~IsMemory(i)
    <3>1. RunningMem' = RunningMem /\ RunningReg' = RunningReg \ {i} /\ i \in RunningReg
      BY <1>1, <1>2, <1>3, <2>2 DEF RunningReg, RunningMem
    <3>2. inflightReg' = inflightReg - 1 /\ inflightMem' = inflightMem
      BY <2>2 DEF Complete
    <3>3. Cardinality(RunningReg') = Cardinality(RunningReg) - 1 /\ IsFiniteSet(RunningReg')
      BY <1>6, <3>1, FS_RemoveElement
    <3>4. Cardinality(RunningReg') \in Nat
      BY <3>3, FS_CardinalityType
    <3>. QED BY <1>6, <3>1, <3>2, <3>3, <3>4
  <2>. QED BY <2>1, <2>2
<1>. QED BY <1>1, <1>4, <1>5, <1>7, CountersAre, CountersAreNext DEF IInv

\* What i held back of j, it no longer does.
LEMMA CompleteHeldBy ==
    ASSUME IInv, NEW i \in Id, Complete(i), NEW j \in InRob
    PROVE  /\ Unfinished(j)' = Unfinished(j) \ {i}
           /\ HeldBy(j)' \subseteq HeldBy(j)
           /\ IsFiniteSet(HeldBy(j)')
           /\ Cardinality(HeldBy(j)') = Cardinality(HeldBy(j)) - Releases(i, j)
<1>1. /\ i \in InRob /\ InRob \subseteq Id /\ rob[i].executed = "inflight" /\ rob'[i].executed = "done"
      /\ head' = head
  BY CompleteEffect, WindowIsId DEF IInv
<1>2. \A p \in Id : /\ p # i => rob'[p].executed = rob[p].executed
                    /\ rob'[p].regDependents = rob[p].regDependents
  BY CompleteEffect
<1>3. Older(j) \subseteq Id /\ Older(j)' = Older(j) /\ j \in Nat /\ i \in Nat
      /\ head \in Nat /\ tail \in Nat
  BY <1>1, WindowIsId DEF IInv, Older
<1>4. Unfinished(j)' = Unfinished(j) \ {i}
  BY <1>1, <1>2, <1>3 DEF Unfinished
<1>5. Unfinished(j) \subseteq Id
  BY <1>3 DEF Unfinished
<1>. DEFINE P == {i} \X Naming(i, j)
<1>6. \A x : x \in HeldBy(j) <=>
         \E p \in Unfinished(j) : \E d \in rob[p].regDependents : d[1] = j /\ x = <<p, d>>
  BY HeldByElements
<1>7. \A x : x \in HeldBy(j)' <=>
         \E p \in Unfinished(j) \ {i} : \E d \in rob[p].regDependents : d[1] = j /\ x = <<p, d>>
  <2>1. HeldBy(j)' = UNION {{p} \X {d \in rob'[p].regDependents : d[1] = j} : p \in Unfinished(j) \ {i}}
    BY <1>4 DEF HeldBy
  <2>2. \A p \in Unfinished(j) \ {i} : rob'[p].regDependents = rob[p].regDependents
    BY <1>2, <1>5
  <2>. QED BY <2>1, <2>2
<1>8. HeldBy(j)' = HeldBy(j) \ P
  <2>1. \A x : x \in P <=> \E d \in rob[i].regDependents : d[1] = j /\ x = <<i, d>>
    BY DEF Naming
  <2>. HIDE DEF P
  <2>2. ASSUME NEW x \in HeldBy(j)' PROVE x \in HeldBy(j) /\ x \notin P
    BY <1>6, <1>7, <2>1
  <2>3. ASSUME NEW x \in HeldBy(j), x \notin P PROVE x \in HeldBy(j)'
    BY <1>6, <1>7, <2>1, <2>3
  <2>. QED BY <2>2, <2>3
<1>9. P \subseteq HeldBy(j)
  <2>1. ASSUME NEW d \in Naming(i, j) PROVE i \in Unfinished(j)
    <3>1. j \in i + 1 .. tail - 1 /\ i \in head .. tail - 1
      BY <1>1 DEF Naming, IInv, Named, InRob
    <3>2. i \in Older(j)
      BY <1>3, <3>1 DEF Older
    <3>. QED BY <1>1, <3>2 DEF Unfinished
  <2>2. ASSUME NEW d \in Naming(i, j) PROVE <<i, d>> \in HeldBy(j)
    BY <1>6, <2>1 DEF Naming
  <2>. QED BY <2>2
<1>10. IsFiniteSet(Naming(i, j)) /\ Releases(i, j) = Cardinality(Naming(i, j)) /\ Releases(i, j) \in Nat
  BY <1>1, NamingFinite DEF IInv
<1>11. IsFiniteSet(P) /\ Cardinality(P) = Releases(i, j)
  <2>1. IsFiniteSet({i}) /\ Cardinality({i}) = 1
    BY FS_Singleton
  <2>2. Cardinality(P) = Cardinality({i}) * Cardinality(Naming(i, j)) /\ IsFiniteSet(P)
    BY <1>10, <2>1, FS_Product
  <2>. QED BY <1>10, <2>1, <2>2
<1>. HIDE DEF P
<1>12. IsFiniteSet(HeldBy(j))
  BY HeldByFinite DEF IInv
<1>. QED BY <1>4, <1>8, <1>9, <1>11, <1>12, SubsetRemoved

LEMMA CompleteEntries ==
    ASSUME IInv, NEW i \in Id, Complete(i), NEW j \in InRob
    PROVE  Entered(j)' /\ Staged(j)' /\ Named(j)' /\ Held(j)'
<1>1. /\ i \in InRob /\ InRob' = InRob /\ InRob \subseteq Id /\ head' = head /\ tail' = tail
      /\ rob[i].executed = "inflight" /\ rob'[i].executed = "done" /\ rob[i].numMemOps = 0
      /\ Naming(i, i) = {}
  BY CompleteEffect, WindowIsId DEF IInv
<1>2. \A p \in Id :
         /\ p # i => rob'[p].executed = rob[p].executed
         /\ rob'[p].ins = rob[p].ins /\ rob'[p].regDependents = rob[p].regDependents
         /\ rob'[p].numRegDependent = rob[p].numRegDependent - Releases(i, p)
         /\ rob'[p].scheduled = rob[p].scheduled
         /\ rob'[p].memDependents = rob[p].memDependents
         /\ rob'[p].numMemOps = rob[p].numMemOps
         /\ rob'[p].load = rob[p].load /\ rob'[p].store = rob[p].store
  BY CompleteEffect
<1>3. /\ Entered(j) /\ Staged(j) /\ Named(j) /\ Held(j) /\ j \in Id /\ j \in Nat
      /\ j \in head .. tail - 1 /\ head \in Nat /\ tail \in Nat /\ Older(j) \subseteq Id
  BY <1>1, WindowIsId DEF IInv, InRob
<1>4. /\ Unfinished(j)' = Unfinished(j) \ {i} /\ HeldBy(j)' \subseteq HeldBy(j)
      /\ IsFiniteSet(HeldBy(j)')
      /\ Cardinality(HeldBy(j)') = Cardinality(HeldBy(j)) - Releases(i, j)
  BY CompleteHeldBy
<1>5. /\ rob'[j].numRegDependent = Cardinality(HeldBy(j)')
      /\ rob'[j].numRegDependent = rob[j].numRegDependent - Releases(i, j)
      /\ rob'[j].numRegDependent \in Nat /\ rob[j].numRegDependent \in Nat /\ Releases(i, j) \in Nat
  <2>1. rob'[j].numRegDependent = rob[j].numRegDependent - Releases(i, j)
    BY <1>2, <1>3
  <2>2. rob[j].numRegDependent = Cardinality(HeldBy(j))
    BY <1>3 DEF Held
  <2>3. Cardinality(HeldBy(j)) \in Nat /\ Cardinality(HeldBy(j)') \in Nat
    BY <1>4, HeldByFinite, FS_CardinalityType DEF IInv
  <2>4. Releases(i, j) \in Nat
    BY NamingFinite DEF IInv
  <2>. QED BY <1>4, <2>1, <2>2, <2>3, <2>4
<1>6. IsMemory(j)' = IsMemory(j) /\ (RegReady(j) => RegReady(j)')
  <2>1. RegReady(j) => RegReady(j)'
    BY <1>2, <1>3, <1>5 DEF RegReady
  <2>. QED BY <1>2, <1>3, <2>1, MemoryKept
<1>7. Entered(j)'
  BY <1>2, <1>3 DEF Entered
<1>8. Staged(j)'
  <2>1. Begun(j)' => Begun(j)
    BY <1>1, <1>2, <1>3 DEF Begun
  <2>. QED BY <1>1, <1>2, <1>3, <1>6, <2>1 DEF Staged
<1>9. Named(j)'
  <2>1. \A p \in j + 1 .. tail - 1 : p \in Id
    BY <1>1, <1>3 DEF InRob
  <2>. QED BY <1>1, <1>2, <1>3, <2>1 DEF Named
<1>10. j \in rte' <=> \/ j \in rte
                       \/ /\ Releases(i, j) > 0 /\ rob[j].numRegDependent = Releases(i, j)
                          /\ ~IsMemory(j)
  <2>1. rte' = rte \cup {k \in Released(i) : ~IsMemory(k)}
    BY DEF Complete
  <2>2. j \in Released(i) <=> Releases(i, j) > 0 /\ rob[j].numRegDependent = Releases(i, j)
    BY <1>3 DEF Released
  <2>. QED BY <2>1, <2>2
<1>11. Releases(i, j) > 0 => rob[j].scheduled # "no" /\ j # i
  <2>1. ASSUME Releases(i, j) > 0 PROVE Naming(i, j) # {}
    BY <2>1, NamingFinite DEF IInv
  <2>. QED BY <1>1, <2>1 DEF IInv, Named, Naming
<1>12. (j \in rte <=> ~IsMemory(j) /\ RegReady(j) /\ rob[j].executed = "no")'
  <2>1. j \in rte <=> ~IsMemory(j) /\ RegReady(j) /\ rob[j].executed = "no"
    BY <1>3 DEF Held
  <2>2. RegReady(j)' <=> rob[j].scheduled # "no" /\ rob'[j].numRegDependent = 0
    BY <1>2, <1>3 DEF RegReady
  <2>3. CASE Releases(i, j) = 0
    <3>1. rob'[j].numRegDependent = rob[j].numRegDependent
      BY <1>5, <2>3
    <3>2. RegReady(j)' <=> RegReady(j)
      BY <2>2, <3>1 DEF RegReady
    <3>3. rob'[j].executed = "no" <=> rob[j].executed = "no"
      BY <1>1, <1>2, <1>3
    <3>4. j \in rte' <=> j \in rte
      BY <1>10, <2>3
    <3>. QED BY <1>6, <2>1, <3>2, <3>3, <3>4
  <2>4. CASE Releases(i, j) > 0
    <3>1. j # i /\ rob[j].scheduled # "no" /\ rob'[j].executed = rob[j].executed
      BY <1>2, <1>3, <1>11, <2>4
    <3>2. rob[j].numRegDependent # 0 /\ ~RegReady(j)
      BY <1>5, <2>4 DEF RegReady
    <3>3. rob[j].executed = "no"
      BY <1>3, <3>2 DEF Staged, Begun
    <3>4. RegReady(j)' <=> rob[j].numRegDependent = Releases(i, j)
      BY <1>5, <2>2, <3>1
    <3>. QED BY <1>6, <1>10, <2>1, <2>4, <3>1, <3>2, <3>3, <3>4
  <2>. QED BY <1>5, <2>3, <2>4
<1>13. (rob[j].scheduled # "no" =>
          \A r \in rob[j].ins.src, p \in Unfinished(j) :
             LastWriter(j, r, p) => <<j, r>> \in rob[p].regDependents)'
  <2>1. Older(j)' = Older(j) /\ Unfinished(j) \subseteq Older(j)
    BY <1>1 DEF Older, Unfinished
  <2>2. ASSUME NEW r, NEW p \in Unfinished(j) PROVE LastWriter(j, r, p)' => LastWriter(j, r, p)
    <3>1. \A q \in p + 1 .. j - 1 : q \in Id
      BY <1>1, <1>3, <2>1 DEF Older, InRob
    <3>. QED BY <1>2, <1>3, <2>1, <3>1 DEF LastWriter
  <2>. QED BY <1>2, <1>3, <1>4, <2>1, <2>2 DEF Held
<1>14. (rob[j].numRegDependent = Cardinality(HeldBy(j)))'
  BY <1>5
<1>. QED BY <1>7, <1>8, <1>9, <1>12, <1>13, <1>14 DEF Held

LEMMA CompleteKeepsInv ==
    ASSUME IInv, NEW i \in Id, Complete(i)
    PROVE  IInv'
<1>1. /\ InRob' = InRob /\ InRob \subseteq Id /\ rob' \in [Id -> Entry]
      /\ UNCHANGED <<head, tail, lqOccupancy, sqOccupancy, sta, written, seen>>
      /\ i \in InRob
  BY CompleteEffect, WindowIsId DEF IInv
<1>2. rte' \subseteq InRob
  <2>1. \A j \in Released(i) : j \in InRob
    <3>1. ASSUME NEW j \in Released(i) PROVE j \in InRob
      <4>1. Naming(i, j) # {}
        BY <1>1, NamingFinite DEF IInv, Released
      <4>2. j \in i + 1 .. tail - 1
        BY <1>1, <4>1 DEF IInv, Named, Naming
      <4>3. i \in head .. tail - 1 /\ head \in Nat /\ i \in Nat /\ tail \in Nat
        BY <1>1, WindowIsId DEF IInv, InRob
      <4>. QED BY <4>2, <4>3 DEF InRob
    <3>. QED BY <3>1
  <2>. QED BY <2>1 DEF Complete, IInv
<1>3. TypeOK'
  BY <1>1, <1>2, CompleteCounts DEF Complete, IInv, TypeOK
<1>4. (\A j \in InRob : Entered(j) /\ Staged(j) /\ Named(j) /\ Held(j))'
  BY <1>1, CompleteEntries
<1>5. (\A j \in InRob, a \in Addr : Sourced(j, a))'
  <2>1. \A j \in Id : SameSources(j)
    BY CompleteEffect DEF SameSources, SameLoad, SameStore
  <2>. QED BY <1>1, <2>1, SourcesKept
<1>. QED BY <1>1, <1>2, <1>3, <1>4, <1>5, CompleteCounts DEF IInv

-----------------------------------------------------------------------------
(* Schedule *)

\* reg_RAW_dependency finds the youngest older writer that has not completed.
LEMMA RegProducerIs ==
    ASSUME TypeOK, NEW i \in InRob, NEW r
    PROVE  /\ RegProducer(i, r) # 0 =>
                 /\ RegProducer(i, r) \in Unfinished(i) /\ r \in rob[RegProducer(i, r)].ins.dst
                 /\ \A q \in Unfinished(i) : r \in rob[q].ins.dst => q <= RegProducer(i, r)
           /\ \A p \in Unfinished(i) : r \in rob[p].ins.dst => RegProducer(i, r) # 0
<1>. DEFINE W == {p \in Older(i) : r \in rob[p].ins.dst /\ rob[p].executed # "done"}
<1>1. W \in SUBSET (1 .. TraceLen) /\ TraceLen \in Nat
  BY WindowIsId, CoreAssumption
<1>2. RegProducer(i, r) = Youngest(W)
  BY DEF RegProducer
<1>3. \A p : p \in W <=> p \in Unfinished(i) /\ r \in rob[p].ins.dst
  BY DEF Unfinished
<1>. HIDE DEF W
<1>4. /\ W # {} => Youngest(W) \in W /\ \A q \in W : q <= Youngest(W)
      /\ Youngest(W) # 0 <=> W # {}
  BY <1>1, YoungestOf
<1>. QED BY <1>2, <1>3, <1>4

LEMMA ScheduleEffect ==
    ASSUME IInv, NEW i \in Id, Schedule(i)
    PROVE  /\ i \in InRob /\ InRob' = InRob /\ rob[i].scheduled = "no" /\ rob[i].executed = "no"
           /\ rob' \in [Id -> Entry]
           /\ UNCHANGED <<head, tail, lqOccupancy, sqOccupancy, sta, inflight, stall, written, seen>>
           /\ rob'[i].scheduled = IF IsMemory(i) THEN "inflight" ELSE "done"
           /\ rob'[i].numRegDependent = rob[i].numRegDependent + Cardinality(Awaited(i))
           /\ IsFiniteSet(Awaited(i)) /\ Awaited(i) \subseteq Reg
           /\ \A j \in Id :
                 /\ j # i => /\ rob'[j].scheduled = rob[j].scheduled
                             /\ rob'[j].numRegDependent = rob[j].numRegDependent
                 /\ rob'[j].regDependents = rob[j].regDependents \cup ({i} \X WaitsFor(i, j))
                 /\ WaitsFor(i, j) # {} => j \in Unfinished(i)
                 /\ rob'[j].ins = rob[j].ins /\ rob'[j].executed = rob[j].executed
                 /\ rob'[j].memDependents = rob[j].memDependents /\ rob'[j].from = rob[j].from
                 /\ rob'[j].numMemOps = rob[j].numMemOps
                 /\ rob'[j].load = rob[j].load /\ rob'[j].store = rob[j].store
<1>. DEFINE e == [rob[i] EXCEPT !.scheduled = IF IsMemory(i) THEN "inflight" ELSE "done",
                                !.numRegDependent = rob[i].numRegDependent + Cardinality(Awaited(i))]
            c(j) == [rob[j] EXCEPT !.regDependents = rob[j].regDependents \cup ({i} \X WaitsFor(i, j))]
<1>1. i \in InRob /\ rob[i].scheduled = "no" /\ Staged(i)
  BY DEF Schedule, InWindow, IInv
<1>2. rob[i].executed = "no"
  BY <1>1 DEF Staged, Begun, RegReady
<1>3. rob' = [j \in Id |-> IF j = i THEN e ELSE c(j)]
  BY DEF Schedule
<1>4. Awaited(i) \subseteq Reg /\ IsFiniteSet(Awaited(i)) /\ Cardinality(Awaited(i)) \in Nat
  <2>1. Awaited(i) \subseteq Reg
    BY EntryTypes DEF IInv, Awaited
  <2>. QED BY <2>1, CoreAssumption, FS_Subset, FS_CardinalityType
<1>5. \A j \in Id : /\ rob[j] \in Entry /\ rob[j].numRegDependent \in Int
                    /\ rob[j].regDependents \in SUBSET (Id \X Reg)
  BY EntryTypes DEF IInv
<1>6. \A j \in Id : WaitsFor(i, j) # {} => j \in Unfinished(i)
  <2>1. 0 \notin Id
    BY CoreAssumption DEF Id
  <2>. QED BY <1>1, <2>1, RegProducerIs DEF IInv, WaitsFor
<1>7. e \in Entry
  <2>1. (IF IsMemory(i) THEN "inflight" ELSE "done") \in Progress
        /\ rob[i].numRegDependent + Cardinality(Awaited(i)) \in Int
    BY <1>4, <1>5 DEF Progress
  <2>2. ASSUME NEW r \in Entry, NEW v \in Progress, NEW n \in Int
        PROVE  [r EXCEPT !.scheduled = v, !.numRegDependent = n] \in Entry
    BY DEF Entry
  <2>. QED BY <1>5, <2>1, <2>2
<1>8. ASSUME NEW j \in Id PROVE c(j) \in Entry
  <2>1. WaitsFor(i, j) \subseteq Reg
    BY EntryTypes DEF IInv, WaitsFor
  <2>2. rob[j].regDependents \cup ({i} \X WaitsFor(i, j)) \in SUBSET (Id \X Reg)
    BY <1>5, <2>1
  <2>. QED BY <1>5, <2>2, EntryUpdates
<1>9. /\ e.scheduled = (IF IsMemory(i) THEN "inflight" ELSE "done")
      /\ e.numRegDependent = rob[i].numRegDependent + Cardinality(Awaited(i))
      /\ e.regDependents = rob[i].regDependents
      /\ e.ins = rob[i].ins /\ e.executed = rob[i].executed
      /\ e.memDependents = rob[i].memDependents /\ e.from = rob[i].from
      /\ e.numMemOps = rob[i].numMemOps
      /\ e.load = rob[i].load /\ e.store = rob[i].store
  BY <1>5 DEF Entry
<1>10. ASSUME NEW j \in Id
       PROVE  /\ c(j).scheduled = rob[j].scheduled /\ c(j).numRegDependent = rob[j].numRegDependent
              /\ c(j).regDependents = rob[j].regDependents \cup ({i} \X WaitsFor(i, j))
              /\ c(j).ins = rob[j].ins /\ c(j).executed = rob[j].executed
              /\ c(j).memDependents = rob[j].memDependents /\ c(j).from = rob[j].from
              /\ c(j).numMemOps = rob[j].numMemOps
              /\ c(j).load = rob[j].load /\ c(j).store = rob[j].store
  BY <1>5 DEF Entry
<1>11. e.regDependents = rob[i].regDependents \cup ({i} \X WaitsFor(i, i))
  <2>1. i \notin Unfinished(i)
    BY <1>1, WindowIsId DEF IInv, Unfinished
  <2>2. WaitsFor(i, i) = {}
    BY <1>6, <2>1
  <2>. QED BY <1>9, <2>2
<1>. HIDE DEF e, c
<1>12. rob' \in [Id -> Entry] /\ rob'[i] = e /\ \A j \in Id : j # i => rob'[j] = c(j)
  BY <1>3, <1>7, <1>8
<1>13. ASSUME NEW j \in Id
       PROVE  /\ j # i => /\ rob'[j].scheduled = rob[j].scheduled
                          /\ rob'[j].numRegDependent = rob[j].numRegDependent
              /\ rob'[j].regDependents = rob[j].regDependents \cup ({i} \X WaitsFor(i, j))
              /\ rob'[j].ins = rob[j].ins /\ rob'[j].executed = rob[j].executed
              /\ rob'[j].memDependents = rob[j].memDependents /\ rob'[j].from = rob[j].from
              /\ rob'[j].numMemOps = rob[j].numMemOps
              /\ rob'[j].load = rob[j].load /\ rob'[j].store = rob[j].store
  <2>1. CASE j = i
    BY <1>9, <1>11, <1>12, <2>1
  <2>2. CASE j # i
    BY <1>10, <1>12, <2>2
  <2>. QED BY <2>1, <2>2
<1>14. UNCHANGED <<head, tail, lqOccupancy, sqOccupancy, sta, inflight, stall, written, seen>> /\ InRob' = InRob
  BY DEF Schedule, queues, retirement, InRob
<1>. QED BY <1>1, <1>2, <1>4, <1>6, <1>9, <1>12, <1>13, <1>14

\* An instruction is held back by the writers it was put on the lists of.
LEMMA ScheduleHeldBy ==
    ASSUME IInv, NEW i \in Id, Schedule(i), NEW j \in InRob
    PROVE  /\ Unfinished(j)' = Unfinished(j)
           /\ j # i => HeldBy(j)' = HeldBy(j)
           /\ j = i => /\ rob[i].numRegDependent = 0
                       /\ Cardinality(HeldBy(i)') = Cardinality(Awaited(i))
<1>1. /\ i \in InRob /\ InRob \subseteq Id /\ rob[i].scheduled = "no" /\ head' = head
  BY ScheduleEffect, WindowIsId DEF IInv
<1>2. \A p \in Id : /\ rob'[p].executed = rob[p].executed
                    /\ rob'[p].regDependents = rob[p].regDependents \cup ({i} \X WaitsFor(i, p))
  BY ScheduleEffect
<1>3. Older(j) \subseteq Id /\ Older(j) \subseteq InRob /\ Older(j)' = Older(j)
  BY <1>1, WindowIsId DEF IInv, Older
<1>4. Unfinished(j)' = Unfinished(j) /\ Unfinished(j) \subseteq Id /\ Unfinished(j) \subseteq InRob
  BY <1>2, <1>3 DEF Unfinished
<1>5. HeldBy(j)' = UNION {{p} \X {d \in rob'[p].regDependents : d[1] = j} : p \in Unfinished(j)}
  BY <1>4 DEF HeldBy
<1>6. ASSUME j # i PROVE HeldBy(j)' = HeldBy(j)
  <2>1. ASSUME NEW p \in Unfinished(j)
        PROVE  {d \in rob'[p].regDependents : d[1] = j} = {d \in rob[p].regDependents : d[1] = j}
    BY <1>2, <1>4, <1>6
  <2>. QED BY <1>5, <2>1 DEF HeldBy
<1>7. ASSUME j = i
      PROVE  /\ rob[i].numRegDependent = 0
             /\ Cardinality(HeldBy(i)') = Cardinality(Awaited(i))
  <2>1. \A p \in Unfinished(i) : \A d \in rob[p].regDependents : d[1] # i
    BY <1>1, <1>4, <1>7 DEF IInv, Named
  <2>2. HeldBy(i) = {}
    BY <2>1 DEF HeldBy
  <2>3. rob[i].numRegDependent = 0
    BY <1>1, <2>2, FS_EmptySet DEF IInv, Held
  <2>. DEFINE f == [r \in Awaited(i) |-> <<RegProducer(i, r), <<i, r>>>>]
  <2>4. \A x : x \in HeldBy(i)' <=>
           \E p \in Unfinished(i) : \E d \in rob'[p].regDependents : d[1] = i /\ x = <<p, d>>
    BY <1>5, <1>7
  <2>5. \A r \in Awaited(i) : /\ RegProducer(i, r) \in Unfinished(i)
                              /\ r \in WaitsFor(i, RegProducer(i, r))
    BY <1>1, RegProducerIs DEF IInv, Awaited, WaitsFor
  <2>6. \A r \in Awaited(i) : f[r] \in HeldBy(i)'
    <3>1. ASSUME NEW r \in Awaited(i) PROVE f[r] \in HeldBy(i)'
      <4>1. <<i, r>> \in rob'[RegProducer(i, r)].regDependents
        BY <1>2, <1>4, <1>7, <2>5
      <4>. QED BY <2>4, <2>5, <4>1
    <3>. QED BY <3>1
  <2>7. \A x \in HeldBy(i)' : \E r \in Awaited(i) : f[r] = x
    <3>1. ASSUME NEW x \in HeldBy(i)' PROVE \E r \in Awaited(i) : f[r] = x
      <4>1. PICK p \in Unfinished(i) : \E d \in rob'[p].regDependents : d[1] = i /\ x = <<p, d>>
        BY <2>4
      <4>2. PICK d \in rob'[p].regDependents : d[1] = i /\ x = <<p, d>>
        BY <4>1
      <4>3. d \in {i} \X WaitsFor(i, p)
        BY <1>2, <1>4, <1>7, <2>1, <4>2
      <4>4. PICK r \in WaitsFor(i, p) : d = <<i, r>>
        BY <4>3
      <4>5. p # 0
        BY <1>4, <1>7, CoreAssumption DEF Id
      <4>6. r \in Awaited(i) /\ RegProducer(i, r) = p
        BY <4>4, <4>5 DEF WaitsFor, Awaited
      <4>. QED BY <4>2, <4>4, <4>6
    <3>. QED BY <3>1
  <2>8. f \in [Awaited(i) -> HeldBy(i)']
    BY <2>6
  <2>9. \A r, q \in Awaited(i) : f[r] = f[q] => r = q
    OBVIOUS
  <2>10. IsFiniteSet(Awaited(i))
    BY ScheduleEffect
  <2>. HIDE DEF f
  <2>11. Cardinality(HeldBy(i)') = Cardinality(Awaited(i))
    BY <2>7, <2>8, <2>9, <2>10, BijectionKeepsSize
  <2>. QED BY <2>3, <2>11
<1>. QED BY <1>4, <1>6, <1>7

LEMMA ScheduleEntries ==
    ASSUME IInv, NEW i \in Id, Schedule(i), NEW j \in InRob
    PROVE  Entered(j)' /\ Staged(j)' /\ Named(j)' /\ Held(j)'
<1>1. /\ i \in InRob /\ InRob' = InRob /\ InRob \subseteq Id /\ head' = head /\ tail' = tail
      /\ rob[i].scheduled = "no" /\ rob[i].executed = "no"
      /\ rob'[i].scheduled = (IF IsMemory(i) THEN "inflight" ELSE "done")
      /\ rob'[i].numRegDependent = rob[i].numRegDependent + Cardinality(Awaited(i))
      /\ IsFiniteSet(Awaited(i))
  BY ScheduleEffect, WindowIsId DEF IInv
<1>2. \A p \in Id :
         /\ p # i => /\ rob'[p].scheduled = rob[p].scheduled
                     /\ rob'[p].numRegDependent = rob[p].numRegDependent
         /\ rob'[p].regDependents = rob[p].regDependents \cup ({i} \X WaitsFor(i, p))
         /\ WaitsFor(i, p) # {} => p \in Unfinished(i)
         /\ rob'[p].ins = rob[p].ins /\ rob'[p].executed = rob[p].executed
         /\ rob'[p].memDependents = rob[p].memDependents
         /\ rob'[p].numMemOps = rob[p].numMemOps
         /\ rob'[p].load = rob[p].load /\ rob'[p].store = rob[p].store
  BY ScheduleEffect
<1>3. /\ Entered(j) /\ Staged(j) /\ Named(j) /\ Held(j) /\ j \in Id /\ j \in Nat
      /\ j \in head .. tail - 1 /\ head \in Nat /\ tail \in Nat /\ Older(j) \subseteq Id
      /\ Older(j)' = Older(j)
  BY <1>1, WindowIsId DEF IInv, InRob, Older
<1>4. /\ Unfinished(j)' = Unfinished(j)
      /\ j # i => HeldBy(j)' = HeldBy(j)
      /\ j = i => /\ rob[i].numRegDependent = 0
                  /\ Cardinality(HeldBy(i)') = Cardinality(Awaited(i))
      /\ Unfinished(j) \subseteq Older(j)
  <2>1. /\ Unfinished(j)' = Unfinished(j)
        /\ j # i => HeldBy(j)' = HeldBy(j)
        /\ j = i => /\ rob[i].numRegDependent = 0
                    /\ Cardinality(HeldBy(i)') = Cardinality(Awaited(i))
    BY ScheduleHeldBy
  <2>. QED BY <2>1 DEF Unfinished
<1>5. Entered(j)'
  BY <1>2, <1>3 DEF Entered
<1>6. IsMemory(j)' = IsMemory(j) /\ (j # i => RegReady(j)' = RegReady(j))
  BY <1>2, <1>3, MemoryKept DEF RegReady
<1>7. ~RegReady(i) /\ i \notin rte /\ ~Begun(i)
  <2>1. ~RegReady(i)
    BY <1>1 DEF RegReady
  <2>2. Held(i) /\ Staged(i)
    BY <1>1 DEF IInv
  <2>. QED BY <2>1, <2>2 DEF Held, Staged
<1>8. Begun(j)' = Begun(j)
  BY <1>2, <1>3 DEF Begun
<1>9. Staged(j)'
  <2>1. CASE j = i
    <3>1. (IsMemory(i))' = IsMemory(i) /\ (Begun(i))' = Begun(i) /\ rob'[i].executed = "no"
      BY <1>1, <1>2, <1>6, <1>8, <2>1
    <3>2. Staged(i)'
      BY <1>1, <1>7, <3>1 DEF Staged
    <3>. QED BY <2>1, <3>2
  <2>2. CASE j # i
    BY <1>2, <1>3, <1>6, <1>8, <2>2 DEF Staged
  <2>. QED BY <2>1, <2>2
<1>10. Named(j)'
  <2>1. \A p \in j + 1 .. tail - 1 : p \in Id
    BY <1>1, <1>3 DEF InRob
  <2>2. rob'[j].memDependents \subseteq j + 1 .. tail - 1
    BY <1>2, <1>3 DEF Named
  <2>3. ASSUME NEW d \in rob[j].regDependents
        PROVE  d[1] \in j + 1 .. tail - 1 /\ rob'[d[1]].scheduled # "no"
    <3>1. d[1] \in j + 1 .. tail - 1 /\ rob[d[1]].scheduled # "no" /\ d[1] # i
      BY <1>1, <1>3 DEF Named
    <3>. QED BY <1>2, <2>1, <3>1
  <2>4. ASSUME NEW r \in WaitsFor(i, j)
        PROVE  i \in j + 1 .. tail - 1 /\ rob'[i].scheduled # "no"
    <3>1. j \in head .. i - 1
      BY <1>2, <1>3 DEF Unfinished, Older
    <3>2. i \in head .. tail - 1 /\ i \in Nat
      BY <1>1, WindowIsId DEF IInv, InRob
    <3>. QED BY <1>1, <1>3, <3>1, <3>2
  <2>5. \A d \in rob'[j].regDependents : d \in rob[j].regDependents \/ (d[1] = i /\ d[2] \in WaitsFor(i, j))
    BY <1>2, <1>3
  <2>6. \A d \in rob'[j].regDependents : d[1] \in j + 1 .. tail - 1 /\ rob'[d[1]].scheduled # "no"
    <3>1. ASSUME NEW d \in rob'[j].regDependents
          PROVE  d[1] \in j + 1 .. tail - 1 /\ rob'[d[1]].scheduled # "no"
      <4>1. CASE d \in rob[j].regDependents
        BY <2>3, <4>1
      <4>2. CASE d[1] = i /\ d[2] \in WaitsFor(i, j)
        BY <2>4, <4>2
      <4>. QED BY <2>5, <4>1, <4>2
    <3>. QED BY <3>1
  <2>. QED BY <1>1, <2>2, <2>6 DEF Named
<1>11. (rob[j].numRegDependent = Cardinality(HeldBy(j)))'
  <2>1. CASE j = i
    <3>1. rob'[i].numRegDependent = Cardinality(HeldBy(i)')
      <4>1. Cardinality(Awaited(i)) \in Nat
        BY <1>1, FS_CardinalityType
      <4>. QED BY <1>1, <1>4, <2>1, <4>1
    <3>. QED BY <2>1, <3>1 DEF HeldBy
  <2>2. CASE j # i
    BY <1>2, <1>3, <1>4, <2>2 DEF Held
  <2>. QED BY <2>1, <2>2
<1>12. (j \in rte <=> ~IsMemory(j) /\ RegReady(j) /\ rob[j].executed = "no")'
  <2>1. rte' = IF Awaited(i) = {} /\ ~IsMemory(i) THEN rte \cup {i} ELSE rte
    BY DEF Schedule
  <2>2. CASE j = i
    <3>1. rob'[i].numRegDependent = Cardinality(Awaited(i)) /\ rob'[i].scheduled # "no"
      <4>1. Cardinality(Awaited(i)) \in Nat
        BY <1>1, FS_CardinalityType
      <4>. QED BY <1>1, <1>4, <2>2, <4>1
    <3>2. rob'[i].numRegDependent = 0 <=> Awaited(i) = {}
      BY <1>1, <3>1, FS_EmptySet
    <3>3. RegReady(j)' <=> Awaited(i) = {}
      BY <2>2, <3>1, <3>2 DEF RegReady
    <3>4. rob'[j].executed = "no"
      BY <1>1, <1>2, <2>2
    <3>5. j \in rte' <=> Awaited(i) = {} /\ ~IsMemory(i)
      BY <1>7, <2>1, <2>2
    <3>. QED BY <1>6, <2>2, <3>3, <3>4, <3>5
  <2>3. CASE j # i
    <3>1. j \in rte' <=> j \in rte
      BY <2>1, <2>3
    <3>. QED BY <1>2, <1>3, <1>6, <2>3, <3>1 DEF Held
  <2>. QED BY <2>2, <2>3
<1>13. (rob[j].scheduled # "no" =>
          \A r \in rob[j].ins.src, p \in Unfinished(j) :
             LastWriter(j, r, p) => <<j, r>> \in rob[p].regDependents)'
  <2>1. SUFFICES ASSUME rob'[j].scheduled # "no", NEW r \in rob'[j].ins.src,
                        NEW p \in Unfinished(j)', LastWriter(j, r, p)'
                 PROVE  <<j, r>> \in rob'[p].regDependents
    OBVIOUS
  <2>2. p \in Unfinished(j) /\ p \in Older(j) /\ p \in Id /\ r \in rob[j].ins.src
    BY <1>2, <1>3, <1>4
  <2>3. \A q \in p + 1 .. j - 1 : q \in Older(j)
    BY <1>3, <2>2 DEF Older
  <2>4. LastWriter(j, r, p)
    BY <1>2, <1>3, <2>1, <2>2, <2>3 DEF LastWriter
  <2>5. CASE j = i
    <3>1. /\ RegProducer(i, r) \in Unfinished(i) /\ r \in rob[RegProducer(i, r)].ins.dst
          /\ p <= RegProducer(i, r)
      BY <1>1, <2>2, <2>4, <2>5, RegProducerIs DEF IInv, LastWriter
    <3>2. RegProducer(i, r) \in head .. i - 1 /\ p \in head .. i - 1
      BY <2>2, <2>5, <3>1 DEF Unfinished, Older
    <3>3. RegProducer(i, r) = p
      BY <1>3, <2>4, <2>5, <3>1, <3>2 DEF LastWriter
    <3>. QED BY <1>2, <2>2, <2>5, <3>3 DEF WaitsFor
  <2>6. CASE j # i
    BY <1>2, <1>3, <2>1, <2>2, <2>4, <2>6 DEF Held
  <2>. QED BY <2>5, <2>6
<1>. QED BY <1>5, <1>9, <1>10, <1>11, <1>12, <1>13 DEF Held

LEMMA ScheduleKeepsInv ==
    ASSUME IInv, NEW i \in Id, Schedule(i)
    PROVE  IInv'
<1>1. /\ InRob' = InRob /\ InRob \subseteq Id /\ rob' \in [Id -> Entry] /\ i \in InRob
      /\ UNCHANGED <<head, tail, lqOccupancy, sqOccupancy, sta, inflight, stall, written, seen>>
  BY ScheduleEffect, WindowIsId DEF IInv
<1>2. rte' \subseteq InRob
  BY <1>1 DEF Schedule, IInv
<1>3. TypeOK'
  BY <1>1, <1>2 DEF IInv, TypeOK, inflight
<1>4. (\A j \in InRob : Entered(j) /\ Staged(j) /\ Named(j) /\ Held(j))'
  BY <1>1, ScheduleEntries
<1>5. (\A j \in InRob, a \in Addr : Sourced(j, a))'
  <2>1. \A j \in Id : SameSources(j)
    BY ScheduleEffect DEF SameSources, SameLoad, SameStore
  <2>. QED BY <1>1, <2>1, SourcesKept
<1>6. OpsCounted'
  <2>1. \A j \in Id : SameOps(j)
    BY ScheduleEffect DEF SameOps, SameLoad, SameStore
  <2>. QED BY <1>1, <2>1, OpsKept
<1>. QED BY <1>1, <1>2, <1>3, <1>4, <1>5, <1>6 DEF IInv

-----------------------------------------------------------------------------
(* MemSchedule *)

\* mem_RAW_dependency finds the youngest older store to the address.
LEMMA MemProducerIs ==
    ASSUME TypeOK, NEW i \in InRob, NEW a
    PROVE  /\ MemProducer(i, a) # 0 => LastStore(i, a, MemProducer(i, a))
           /\ MemProducer(i, a) = 0 => NoStore(i, a)
<1>. DEFINE W == {p \in Older(i) : a \in rob[p].ins.store}
<1>1. W \in SUBSET (1 .. TraceLen) /\ TraceLen \in Nat
  BY WindowIsId, CoreAssumption
<1>2. MemProducer(i, a) = Youngest(W)
  BY DEF MemProducer
<1>3. \A p : p \in W <=> p \in Older(i) /\ a \in rob[p].ins.store
  OBVIOUS
<1>. HIDE DEF W
<1>4. /\ W # {} => Youngest(W) \in W /\ \A q \in W : q <= Youngest(W)
      /\ Youngest(W) # 0 <=> W # {}
  BY <1>1, YoungestOf
<1>5. ASSUME W # {} PROVE LastStore(i, a, Youngest(W))
  <2>1. /\ Youngest(W) \in Older(i) /\ a \in rob[Youngest(W)].ins.store
        /\ \A q \in W : q <= Youngest(W)
    BY <1>3, <1>4, <1>5
  <2>2. i \in Nat /\ head \in Nat
    BY WindowIsId
  <2>3. ASSUME NEW q \in Youngest(W) + 1 .. i - 1 PROVE a \notin rob[q].ins.store
    <3>1. q \in Older(i) /\ ~(q <= Youngest(W))
      BY <2>1, <2>2 DEF Older
    <3>. QED BY <1>3, <2>1, <3>1
  <2>. QED BY <2>1, <2>3 DEF LastStore
<1>. QED BY <1>2, <1>3, <1>4, <1>5 DEF NoStore

\* What MemSchedule(i) does when it adds the loads of L and the stores of S.
Enters(i, L, a) == IF a \in Forwarded(i, L) THEN "done"
                   ELSE IF MemProducer(i, a) # 0 THEN "waiting" ELSE "queued"
MemAdded(i, L, S) ==
    /\ L \subseteq TodoLoads(i) /\ S \subseteq TodoStores(i)
    /\ lqOccupancy' = lqOccupancy + Cardinality(Queued(i, L)) /\ lqOccupancy' <= LqSize
    /\ sqOccupancy' = sqOccupancy + Cardinality(S) /\ sqOccupancy' <= SqSize
    /\ inflightMem' = inflightMem +
         (IF L # {} /\ rob[i].numMemOps = Cardinality(Forwarded(i, L)) THEN 1 ELSE 0)
    /\ sta' \in Seq(Id) /\ sta' = SubSeq(sta, Cardinality(S) + 1, Len(sta))
    /\ S # {} => Head(sta) = i
    /\ rob' \in [Id -> Entry]
    /\ rob'[i].numMemOps = rob[i].numMemOps - Cardinality(Forwarded(i, L))
    /\ IF L = TodoLoads(i) /\ S = TodoStores(i)
         THEN rob'[i].scheduled = "done" /\ rob'[i].executed = "inflight"
         ELSE rob'[i].scheduled = "inflight" /\ rob'[i].executed = "no"
    /\ rob'[i].memDependents = rob[i].memDependents
    /\ \A a \in Addr :
          /\ rob'[i].load[a] = (IF a \in L THEN Enters(i, L, a) ELSE rob[i].load[a])
          /\ rob'[i].from[a] = (IF a \in L THEN MemProducer(i, a) ELSE rob[i].from[a])
          /\ rob'[i].store[a] = (IF a \in S THEN "queued" ELSE rob[i].store[a])
    /\ \A j \in Id : /\ rob'[j].ins = rob[j].ins
                     /\ rob'[j].regDependents = rob[j].regDependents
                     /\ rob'[j].numRegDependent = rob[j].numRegDependent
    /\ \A j \in Id \ {i} :
          /\ rob'[j].scheduled = rob[j].scheduled /\ rob'[j].executed = rob[j].executed
          /\ rob'[j].numMemOps = rob[j].numMemOps /\ rob'[j].from = rob[j].from
          /\ rob'[j].load = rob[j].load /\ rob'[j].store = rob[j].store
          /\ rob'[j].memDependents = rob[j].memDependents
                \cup {k \in {i} : \E a \in L : MemProducer(i, a) = j}

LEMMA MemSchedulable ==
    ASSUME IInv, NEW i \in Id, MemSchedule(i)
    PROVE  /\ i \in InRob /\ IsMemory(i) /\ RegReady(i)
           /\ rob[i].scheduled = "inflight" /\ rob[i].executed = "no"
           /\ TodoLoads(i) # {} \/ TodoStores(i) # {}
           /\ InRob' = InRob
           /\ UNCHANGED <<head, tail, rte, inflightReg, stall, written, seen>>
<1>1. /\ i \in InRob /\ RegReady(i) /\ rob[i].scheduled = "inflight"
      /\ TodoLoads(i) # {} \/ TodoStores(i) # {}
  BY DEF MemSchedule, CanAdd, CanAddLoad, CanAddStore
<1>2. UNCHANGED <<head, tail, rte, inflightReg, stall, written, seen>>
  BY DEF MemSchedule, retirement
<1>. QED BY <1>1, <1>2 DEF IInv, Staged, InRob

LEMMA MemScheduleEffect ==
    ASSUME IInv, NEW i \in Id, MemSchedule(i)
    PROVE  \E L \in SUBSET TodoLoads(i), S \in SUBSET TodoStores(i) : MemAdded(i, L, S)
<1>1. i \in InRob /\ rob[i].scheduled = "inflight" /\ rob[i].executed = "no"
  BY MemSchedulable
<1>2. PICK L \in LoadsAdded(i), S \in StoresAdded(i) :
         /\ rob' = [j \in Id |->
              IF j = i THEN Added(i, L, S)
              ELSE IF \E a \in L : MemProducer(i, a) = j
                     THEN [rob[j] EXCEPT !.memDependents = @ \cup {i}]
                     ELSE rob[j]]
         /\ lqOccupancy' = lqOccupancy + Cardinality(Queued(i, L))
         /\ sqOccupancy' = sqOccupancy + Cardinality(S)
         /\ sta' = SubSeq(sta, Cardinality(S) + 1, Len(sta))
         /\ inflightMem' = inflightMem +
              (IF L # {} /\ rob[i].numMemOps = Cardinality(Forwarded(i, L)) THEN 1 ELSE 0)
  BY DEF MemSchedule
<1>3. /\ L \in SUBSET TodoLoads(i) /\ S \in SUBSET TodoStores(i)
      /\ lqOccupancy + Cardinality(Queued(i, L)) <= LqSize
      /\ sqOccupancy + Cardinality(S) <= SqSize
      /\ S # {} => Head(sta) = i
  BY DEF LoadsAdded, StoresAdded, CanAddStore
<1>4. /\ TodoLoads(i) \subseteq Addr /\ TodoStores(i) \subseteq Addr
      /\ IsFiniteSet(S) /\ IsFiniteSet(Forwarded(i, L))
      /\ Cardinality(S) \in Nat /\ Cardinality(Forwarded(i, L)) \in Nat
  <2>1. TodoLoads(i) \subseteq Addr /\ TodoStores(i) \subseteq Addr
    BY DEF TodoLoads, TodoStores
  <2>2. S \subseteq Addr /\ Forwarded(i, L) \subseteq Addr
    BY <1>3, <2>1 DEF Forwarded
  <2>. QED BY <2>1, <2>2, CoreAssumption, FS_Subset, FS_CardinalityType
<1>5. sta' \in Seq(Id)
  <2>1. sta \in Seq(Id)
    BY DEF IInv, TypeOK
  <2>. QED BY <1>2, <1>4, <2>1
<1>. DEFINE all == L = TodoLoads(i) /\ S = TodoStores(i)
            l == [a \in Addr |-> IF a \in L THEN Enters(i, L, a) ELSE rob[i].load[a]]
            f == [a \in Addr |-> IF a \in L THEN MemProducer(i, a) ELSE rob[i].from[a]]
            s == [a \in Addr |-> IF a \in S THEN "queued" ELSE rob[i].store[a]]
            n == rob[i].numMemOps - Cardinality(Forwarded(i, L))
            c == IF all THEN "done" ELSE rob[i].scheduled
            x == IF all /\ rob[i].executed = "no" THEN "inflight" ELSE rob[i].executed
            e == [rob[i] EXCEPT !.load = l, !.from = f, !.store = s, !.numMemOps = n,
                                !.scheduled = c, !.executed = x]
            d(j) == [rob[j] EXCEPT !.memDependents = rob[j].memDependents \cup {i}]
<1>6. Added(i, L, S) = e
  BY DEF Added, Enters
<1>7. rob' = [j \in Id |-> IF j = i THEN e ELSE IF \E a \in L : MemProducer(i, a) = j THEN d(j) ELSE rob[j]]
  BY <1>2, <1>6
<1>8. /\ \A j \in Id : rob[j] \in Entry /\ rob[j].memDependents \cup {i} \in SUBSET Id
      /\ rob[i].load \in [Addr -> LoadState] /\ rob[i].from \in [Addr -> Nat]
      /\ rob[i].store \in [Addr -> StoreState] /\ rob[i].numMemOps \in Int
  BY EntryTypes DEF IInv
<1>9. /\ l \in [Addr -> LoadState] /\ f \in [Addr -> Nat] /\ s \in [Addr -> StoreState]
      /\ n \in Int /\ c \in Progress /\ x \in Progress
  <2>1. \A a \in Addr : Enters(i, L, a) \in LoadState
    BY DEF Enters, LoadState
  <2>2. \A a \in Addr : MemProducer(i, a) \in Nat
    <3>1. ASSUME NEW a \in Addr, MemProducer(i, a) # 0 PROVE MemProducer(i, a) \in Nat
      <4>1. MemProducer(i, a) \in Older(i)
        BY <1>1, <3>1, MemProducerIs DEF IInv, LastStore
      <4>. QED BY <1>1, <4>1, WindowIsId DEF IInv
    <3>. QED BY <3>1
  <2>3. "queued" \in StoreState /\ {"no", "inflight", "done"} \subseteq Progress
    BY DEF StoreState, Progress
  <2>. QED BY <1>1, <1>4, <1>8, <2>1, <2>2, <2>3
<1>. HIDE DEF l, f, s, n, c, x
<1>10. ASSUME NEW r \in Entry
       PROVE  [r EXCEPT !.load = l, !.from = f, !.store = s, !.numMemOps = n,
                        !.scheduled = c, !.executed = x] \in Entry
  BY <1>9 DEF Entry
<1>11. e \in Entry /\ \A j \in Id : d(j) \in Entry
  BY <1>8, <1>10, EntryUpdates
<1>12. /\ e.load = l /\ e.from = f /\ e.store = s /\ e.numMemOps = n /\ e.scheduled = c /\ e.executed = x
       /\ e.ins = rob[i].ins /\ e.regDependents = rob[i].regDependents
       /\ e.numRegDependent = rob[i].numRegDependent /\ e.memDependents = rob[i].memDependents
  BY <1>8 DEF Entry
<1>13. ASSUME NEW j \in Id
       PROVE  /\ d(j).memDependents = rob[j].memDependents \cup {i}
              /\ d(j).load = rob[j].load /\ d(j).from = rob[j].from /\ d(j).store = rob[j].store
              /\ d(j).numMemOps = rob[j].numMemOps /\ d(j).scheduled = rob[j].scheduled
              /\ d(j).executed = rob[j].executed
              /\ d(j).ins = rob[j].ins /\ d(j).regDependents = rob[j].regDependents
              /\ d(j).numRegDependent = rob[j].numRegDependent
  BY <1>8 DEF Entry
<1>. HIDE DEF e, d
<1>14. rob' \in [Id -> Entry] /\ rob'[i] = e
  BY <1>7, <1>8, <1>11
<1>15. ASSUME NEW j \in Id \ {i}
       PROVE  /\ rob'[j].ins = rob[j].ins /\ rob'[j].regDependents = rob[j].regDependents
              /\ rob'[j].numRegDependent = rob[j].numRegDependent
              /\ rob'[j].scheduled = rob[j].scheduled /\ rob'[j].executed = rob[j].executed
              /\ rob'[j].numMemOps = rob[j].numMemOps /\ rob'[j].from = rob[j].from
              /\ rob'[j].load = rob[j].load /\ rob'[j].store = rob[j].store
              /\ rob'[j].memDependents = rob[j].memDependents
                    \cup {k \in {i} : \E a \in L : MemProducer(i, a) = j}
  <2>1. CASE \E a \in L : MemProducer(i, a) = j
    <3>1. rob'[j] = d(j) /\ {k \in {i} : \E a \in L : MemProducer(i, a) = j} = {i}
      BY <1>7, <2>1
    <3>. QED BY <1>13, <3>1
  <2>2. CASE ~\E a \in L : MemProducer(i, a) = j
    <3>1. rob'[j] = rob[j] /\ {k \in {i} : \E a \in L : MemProducer(i, a) = j} = {}
      BY <1>7, <2>2
    <3>. QED BY <3>1
  <2>. QED BY <2>1, <2>2
<1>16. /\ IF all THEN c = "done" /\ x = "inflight" ELSE c = "inflight" /\ x = "no"
       /\ n = rob[i].numMemOps - Cardinality(Forwarded(i, L))
  BY <1>1 DEF c, x, n
<1>17. \A a \in Addr : /\ l[a] = (IF a \in L THEN Enters(i, L, a) ELSE rob[i].load[a])
                       /\ f[a] = (IF a \in L THEN MemProducer(i, a) ELSE rob[i].from[a])
                       /\ s[a] = (IF a \in S THEN "queued" ELSE rob[i].store[a])
  BY DEF l, f, s
<1>18. MemAdded(i, L, S)
  <2>1. \A j \in Id : /\ rob'[j].ins = rob[j].ins
                      /\ rob'[j].regDependents = rob[j].regDependents
                      /\ rob'[j].numRegDependent = rob[j].numRegDependent
    <3>1. ASSUME NEW j \in Id
          PROVE  /\ rob'[j].ins = rob[j].ins
                 /\ rob'[j].regDependents = rob[j].regDependents
                 /\ rob'[j].numRegDependent = rob[j].numRegDependent
      <4>1. CASE j = i
        BY <1>12, <1>14, <4>1
      <4>2. CASE j # i
        BY <1>15, <4>2
      <4>. QED BY <4>1, <4>2
    <3>. QED BY <3>1
  <2>2. /\ rob'[i].numMemOps = n /\ rob'[i].scheduled = c /\ rob'[i].executed = x
        /\ rob'[i].memDependents = rob[i].memDependents
        /\ rob'[i].load = l /\ rob'[i].from = f /\ rob'[i].store = s
    BY <1>12, <1>14
  <2>3. lqOccupancy' <= LqSize /\ sqOccupancy' <= SqSize
    BY <1>2, <1>3
  <2>. QED BY <1>2, <1>3, <1>5, <1>14, <1>15, <1>16, <1>17, <2>1, <2>2, <2>3 DEF MemAdded
<1>. QED BY <1>3, <1>18

LEMMA MemScheduleRegs ==
    ASSUME IInv, NEW i \in Id, MemSchedule(i)
    PROVE  (\A j \in InRob : Entered(j) /\ Staged(j) /\ Named(j) /\ Held(j))'
<1>1. /\ i \in InRob /\ InRob' = InRob /\ InRob \subseteq Id /\ head' = head /\ tail' = tail
      /\ rte' = rte /\ IsMemory(i) /\ RegReady(i)
      /\ rob[i].scheduled = "inflight" /\ rob[i].executed = "no"
  BY MemSchedulable, WindowIsId DEF IInv
<1>2. PICK L \in SUBSET TodoLoads(i), S \in SUBSET TodoStores(i) : MemAdded(i, L, S)
  BY MemScheduleEffect
<1>3. /\ rob'[i].scheduled \in {"inflight", "done"} /\ rob'[i].executed \in {"no", "inflight"}
      /\ rob'[i].scheduled = "inflight" => rob'[i].executed = "no"
      /\ rob'[i].memDependents = rob[i].memDependents
  BY <1>2 DEF MemAdded
<1>4. \A j \in Id : /\ rob'[j].ins = rob[j].ins
                    /\ rob'[j].regDependents = rob[j].regDependents
                    /\ rob'[j].numRegDependent = rob[j].numRegDependent
  BY <1>2 DEF MemAdded
<1>5. \A j \in Id \ {i} :
         /\ rob'[j].scheduled = rob[j].scheduled /\ rob'[j].executed = rob[j].executed
         /\ rob'[j].numMemOps = rob[j].numMemOps
         /\ rob'[j].load = rob[j].load /\ rob'[j].store = rob[j].store
         /\ rob'[j].memDependents = rob[j].memDependents
               \cup {k \in {i} : \E a \in L : MemProducer(i, a) = j}
  BY <1>2 DEF MemAdded
<1>6. (\A j \in InRob : Held(j))'
  <2>1. ASSUME NEW j \in Id PROVE SameRegs(j)
    <3>1. CASE j = i
      BY <1>1, <1>3, <1>4, <3>1 DEF SameRegs, SameLists
    <3>2. CASE j # i
      BY <1>4, <1>5, <3>2 DEF SameRegs, SameLists
    <3>. QED BY <3>1, <3>2
  <2>. QED BY <1>1, <2>1, HeldKept
<1>7. ASSUME NEW j \in InRob PROVE Entered(j)' /\ Staged(j)' /\ Named(j)'
  <2>1. /\ Entered(j) /\ Staged(j) /\ Named(j) /\ j \in Id /\ j \in Nat
        /\ j \in head .. tail - 1 /\ head \in Nat /\ tail \in Nat
    BY <1>1, WindowIsId DEF IInv, InRob
  <2>2. IsMemory(j)' = IsMemory(j)
    BY <1>4, <2>1, MemoryKept
  <2>3. RegReady(j)' = RegReady(j)
    <3>1. rob'[j].scheduled = "no" <=> rob[j].scheduled = "no"
      BY <1>1, <1>3, <1>5, <2>1
    <3>. QED BY <1>4, <2>1, <3>1 DEF RegReady
  <2>4. Entered(j)'
    <3>1. CASE j = i
      <4>1. ASSUME NEW a \in Addr
            PROVE  /\ rob'[i].load[a] = "none" <=> rob[i].load[a] = "none"
                   /\ rob'[i].store[a] = "none" <=> rob[i].store[a] = "none"
        <5>1. /\ rob'[i].load[a] = (IF a \in L THEN Enters(i, L, a) ELSE rob[i].load[a])
              /\ rob'[i].store[a] = (IF a \in S THEN "queued" ELSE rob[i].store[a])
          BY <1>2 DEF MemAdded
        <5>2. (a \in L => rob[i].load[a] = "todo") /\ (a \in S => rob[i].store[a] = "todo")
          BY DEF TodoLoads, TodoStores
        <5>3. Enters(i, L, a) # "none"
          BY DEF Enters
        <5>. QED BY <5>1, <5>2, <5>3
      <4>2. Entered(i)'
        BY <1>4, <2>1, <3>1, <4>1 DEF Entered
      <4>. QED BY <3>1, <4>2
    <3>2. CASE j # i
      BY <1>4, <1>5, <2>1, <3>2 DEF Entered
    <3>. QED BY <3>1, <3>2
  <2>5. Staged(j)'
    <3>1. CASE j = i
      <4>1. Staged(i)' <=> /\ ~IsMemory(j)' => rob'[i].scheduled # "inflight"
                           /\ rob'[i].scheduled = "inflight" => rob'[i].executed = "no"
                           /\ rob'[i].executed = "done" => rob'[i].numMemOps = 0
                           /\ Begun(i)' => RegReady(j)'
        BY <3>1 DEF Staged
      <4>2. Staged(i)'
        BY <1>1, <1>3, <2>2, <2>3, <3>1, <4>1
      <4>. QED BY <3>1, <4>2
    <3>2. CASE j # i
      <4>1. Begun(j)' = Begun(j)
        BY <1>5, <2>1, <3>2 DEF Begun
      <4>. QED BY <1>5, <2>1, <2>2, <2>3, <3>2, <4>1 DEF Staged
    <3>. QED BY <3>1, <3>2
  <2>6. Named(j)'
    <3>1. \A p \in j + 1 .. tail - 1 : p \in Id
      BY <1>1, <2>1 DEF InRob
    <3>2. \A p \in Id : rob'[p].scheduled = "no" => rob[p].scheduled = "no"
      BY <1>1, <1>3, <1>5
    <3>3. \A d \in rob'[j].regDependents :
             d[1] \in j + 1 .. tail - 1 /\ rob'[d[1]].scheduled # "no"
      BY <1>4, <2>1, <3>1, <3>2 DEF Named
    <3>4. rob'[j].memDependents \subseteq j + 1 .. tail - 1
      <4>1. CASE j = i
        BY <1>3, <2>1, <4>1 DEF Named
      <4>2. CASE j # i
        <5>1. ASSUME NEW a \in L, MemProducer(i, a) = j PROVE i \in j + 1 .. tail - 1
          <6>1. j # 0
            BY <2>1, CoreAssumption DEF Id
          <6>2. j \in Older(i)
            BY <1>1, <5>1, <6>1, MemProducerIs DEF IInv, LastStore
          <6>3. i \in head .. tail - 1 /\ i \in Nat
            BY <1>1, WindowIsId DEF IInv, InRob
          <6>. QED BY <2>1, <6>2, <6>3 DEF Older
        <5>. QED BY <1>5, <2>1, <4>2, <5>1 DEF Named
      <4>. QED BY <4>1, <4>2
    <3>. QED BY <1>1, <3>3, <3>4 DEF Named
  <2>. QED BY <2>4, <2>5, <2>6
<1>. QED BY <1>1, <1>6, <1>7

LEMMA MemScheduleSources ==
    ASSUME IInv, NEW i \in Id, MemSchedule(i), NEW j \in InRob, NEW b \in Addr
    PROVE  Sourced(j, b)'
<1>1. /\ i \in InRob /\ InRob \subseteq Id /\ head' = head /\ written' = written /\ TypeOK
  BY MemSchedulable, WindowIsId DEF IInv
<1>2. PICK L \in SUBSET TodoLoads(i), S \in SUBSET TodoStores(i) : MemAdded(i, L, S)
  BY MemScheduleEffect
<1>3. \A p \in Id : rob'[p].ins = rob[p].ins
  BY <1>2 DEF MemAdded
<1>4. \A a \in Addr :
         /\ rob'[i].load[a] = (IF a \in L THEN Enters(i, L, a) ELSE rob[i].load[a])
         /\ rob'[i].from[a] = (IF a \in L THEN MemProducer(i, a) ELSE rob[i].from[a])
         /\ rob'[i].store[a] = (IF a \in S THEN "queued" ELSE rob[i].store[a])
  BY <1>2 DEF MemAdded
<1>5. rob'[i].memDependents = rob[i].memDependents
  BY <1>2 DEF MemAdded
<1>6. \A p \in Id \ {i} :
         /\ rob'[p].from = rob[p].from
         /\ rob'[p].load = rob[p].load /\ rob'[p].store = rob[p].store
         /\ rob'[p].memDependents = rob[p].memDependents
               \cup {k \in {i} : \E a \in L : MemProducer(i, a) = p}
  BY <1>2 DEF MemAdded
<1>7. /\ Sourced(j, b) /\ j \in Id /\ Older(j) \subseteq Id /\ Older(j)' = Older(j)
      /\ j \in Nat /\ head \in Nat /\ j \notin Older(j)
  BY <1>1, WindowIsId DEF IInv, Older
<1>8. \A p \in Older(j) : /\ rob'[p].ins = rob[p].ins
                          /\ rob[p].memDependents \subseteq rob'[p].memDependents
  BY <1>3, <1>5, <1>6, <1>7
<1>9. \A p \in Id : rob[p].store[b] # "done" => rob'[p].store[b] # "done"
  BY <1>4, <1>6
<1>10. CASE j = i /\ b \in L
  <2>1. rob'[j].load[b] = Enters(i, L, b) /\ rob'[j].from[b] = MemProducer(i, b)
    BY <1>4, <1>10
  <2>. DEFINE p == MemProducer(i, b)
  <2>2. CASE p = 0
    <3>1. NoStore(j, b)
      BY <1>1, <1>10, <2>2, MemProducerIs
    <3>2. NoStore(j, b)'
      BY <1>3, <1>7, <3>1 DEF NoStore
    <3>3. rob'[j].load[b] = "queued"
      BY <2>1, <2>2 DEF Enters, Forwarded
    <3>. QED BY <3>2, <3>3 DEF Sourced
  <2>3. CASE p # 0
    <3>1. LastStore(i, b, p)
      BY <1>1, <2>3, MemProducerIs
    <3>2. PICK q : q = p
      OBVIOUS
    <3>3. LastStore(j, b, q) /\ q \in Older(j) /\ q \in Id /\ q # i
      BY <1>7, <1>10, <3>1, <3>2 DEF LastStore
    <3>4. \A u \in q + 1 .. j - 1 : u \in Older(j)
      BY <1>7, <3>3 DEF Older
    <3>5. LastStore(j, b, q)'
      BY <1>3, <1>7, <3>3, <3>4 DEF LastStore
    <3>6. rob'[j].from[b] = q
      BY <2>1, <3>2
    <3>7. CASE rob[q].store[b] = "done"
      <4>1. rob'[j].load[b] = "done"
        BY <1>10, <2>1, <2>3, <3>2, <3>7 DEF Enters, Forwarded
      <4>. QED BY <3>5, <3>6, <4>1 DEF Sourced
    <3>8. CASE rob[q].store[b] # "done"
      <4>1. rob'[j].load[b] = "waiting"
        BY <2>1, <2>3, <3>2, <3>8 DEF Enters, Forwarded
      <4>2. j \in rob'[q].memDependents
        BY <1>6, <1>10, <3>2, <3>3
      <4>3. rob'[q].store[b] # "done"
        BY <1>9, <3>3, <3>8
      <4>. QED BY <3>5, <3>6, <4>1, <4>2, <4>3 DEF Sourced
    <3>. QED BY <3>7, <3>8
  <2>. QED BY <2>2, <2>3
<1>11. CASE ~(j = i /\ b \in L)
  <2>1. rob'[j].load[b] = rob[j].load[b] /\ rob'[j].from[b] = rob[j].from[b]
    BY <1>4, <1>6, <1>7, <1>11
  <2>2. rob[j].load[b] = "waiting" => rob'[rob[j].from[b]].store[b] # "done"
    <3>1. ASSUME rob[j].load[b] = "waiting" PROVE rob'[rob[j].from[b]].store[b] # "done"
      <4>1. rob[j].from[b] \in Id /\ rob[rob[j].from[b]].store[b] # "done"
        BY <1>7, <3>1 DEF Sourced, LastStore
      <4>. QED BY <1>9, <4>1
    <3>. QED BY <3>1
  <2>3. SameLoad(rob[j].load[b], rob'[j].load[b])
    BY <2>1 DEF SameLoad
  <2>4. UNCHANGED <<head, written>>
    BY <1>1
  <2>. QED BY <1>1, <1>7, <1>8, <2>1, <2>2, <2>3, <2>4, SourcedAt
<1>. QED BY <1>10, <1>11

LEMMA MemScheduleCounts ==
    ASSUME IInv, NEW i \in Id, MemSchedule(i)
    PROVE  /\ OpsCounted' /\ inflightMem' \in Nat
           /\ lqOccupancy' \in 0 .. LqSize /\ sqOccupancy' \in 0 .. SqSize
<1>1. /\ i \in InRob /\ InRob' = InRob /\ InRob \subseteq Id /\ inflightReg' = inflightReg
      /\ IsMemory(i) /\ rob[i].executed = "no"
      /\ TodoLoads(i) # {} \/ TodoStores(i) # {}
  BY MemSchedulable, WindowIsId DEF IInv
<1>2. PICK L \in SUBSET TodoLoads(i), S \in SUBSET TodoStores(i) : MemAdded(i, L, S)
  BY MemScheduleEffect
<1>. DEFINE F == Forwarded(i, L)
            Q == Queued(i, L)
<1>3. /\ lqOccupancy' = lqOccupancy + Cardinality(Q) /\ lqOccupancy' <= LqSize
      /\ sqOccupancy' = sqOccupancy + Cardinality(S) /\ sqOccupancy' <= SqSize
      /\ inflightMem' = inflightMem +
           (IF L # {} /\ rob[i].numMemOps = Cardinality(F) THEN 1 ELSE 0)
      /\ rob'[i].numMemOps = rob[i].numMemOps - Cardinality(F)
      /\ rob'[i].executed \in {"no", "inflight"}
  BY <1>2 DEF MemAdded
<1>4. \A a \in Addr :
         /\ rob'[i].load[a] = (IF a \in L THEN Enters(i, L, a) ELSE rob[i].load[a])
         /\ rob'[i].store[a] = (IF a \in S THEN "queued" ELSE rob[i].store[a])
  BY <1>2 DEF MemAdded
<1>5. \A j \in InRob : rob'[j].ins = rob[j].ins /\ IsMemory(j)' = IsMemory(j)
  BY <1>1, <1>2, MemoryKept DEF MemAdded
<1>6. \A j \in InRob : j # i =>
         /\ rob'[j].executed = rob[j].executed /\ rob'[j].numMemOps = rob[j].numMemOps
         /\ rob'[j].load = rob[j].load /\ rob'[j].store = rob[j].store
  BY <1>1, <1>2 DEF MemAdded
<1>7. /\ L \subseteq Addr /\ S \subseteq Addr /\ F \subseteq L /\ Q = L \ F
      /\ \A a \in L : rob[i].load[a] = "todo"
      /\ \A a \in S : rob[i].store[a] = "todo"
      /\ IsFiniteSet(L) /\ IsFiniteSet(S) /\ IsFiniteSet(F) /\ IsFiniteSet(Q)
      /\ Cardinality(S) \in Nat /\ Cardinality(F) \in Nat /\ Cardinality(Q) \in Nat
  <2>1. /\ L \subseteq Addr /\ S \subseteq Addr /\ F \subseteq L /\ Q = L \ F
        /\ \A a \in L : rob[i].load[a] = "todo"
        /\ \A a \in S : rob[i].store[a] = "todo"
    BY DEF TodoLoads, TodoStores, Forwarded, Queued
  <2>2. IsFiniteSet(Addr)
    BY CoreAssumption
  <2>3. IsFiniteSet(L) /\ IsFiniteSet(S) /\ IsFiniteSet(F) /\ IsFiniteSet(Q)
    BY <2>1, <2>2, FS_Subset
  <2>. QED BY <2>1, <2>3, FS_CardinalityType
<1>8. \A a \in L : /\ a \in F => Enters(i, L, a) = "done"
                   /\ a \notin F => Enters(i, L, a) \in {"waiting", "queued"}
  BY DEF Enters
<1>. HIDE DEF F, Q
<1>9. PendingLoads(i)' = PendingLoads(i) \ F /\ F \subseteq PendingLoads(i)
  <2>1. \A a \in Addr : rob'[i].load[a] \in {"none", "done"} <=> a \in F \/ rob[i].load[a] \in {"none", "done"}
    BY <1>4, <1>7, <1>8
  <2>2. F \subseteq PendingLoads(i)
    BY <1>7 DEF PendingLoads, Pending
  <2>3. \A a : a \in PendingLoads(i)' <=> a \in Addr /\ rob'[i].load[a] \notin {"none", "done"}
    BY DEF PendingLoads, Pending
  <2>4. \A a : a \in PendingLoads(i) <=> a \in Addr /\ rob[i].load[a] \notin {"none", "done"}
    BY DEF PendingLoads, Pending
  <2>5. \A a : a \in PendingLoads(i)' <=> a \in PendingLoads(i) \ F
    BY <2>1, <2>3, <2>4
  <2>. QED BY <2>2, <2>5
<1>10. PendingStores(i)' = PendingStores(i)
  BY <1>4, <1>7 DEF PendingStores, Pending
<1>11. /\ rob[i].numMemOps = Cardinality(PendingLoads(i)) + Cardinality(PendingStores(i))
       /\ IsFiniteSet(PendingLoads(i)) /\ IsFiniteSet(PendingStores(i))
       /\ Cardinality(PendingLoads(i)) \in Nat /\ Cardinality(PendingStores(i)) \in Nat
  BY <1>1, CountersAre, CountedFinite, FS_CardinalityType DEF IInv
<1>12. ASSUME NEW j \in InRob
       PROVE  rob'[j].numMemOps = Cardinality(PendingLoads(j)') + Cardinality(PendingStores(j)')
  <2>1. CASE j # i
    BY <1>6, <2>1, CountersAre DEF IInv, PendingLoads, PendingStores
  <2>2. CASE j = i
    <3>1. Cardinality(PendingLoads(i)') = Cardinality(PendingLoads(i)) - Cardinality(F)
      BY <1>9, <1>11, SubsetRemoved
    <3>2. rob'[i].numMemOps = Cardinality(PendingLoads(i)') + Cardinality(PendingStores(i)')
      BY <1>3, <1>7, <1>10, <1>11, <3>1
    <3>. QED BY <2>2, <3>2 DEF PendingLoads, PendingStores
  <2>. QED BY <2>1, <2>2
<1>13. /\ rob[i].numMemOps \in Nat /\ rob[i].numMemOps > 0
       /\ (rob[i].numMemOps = Cardinality(F) => L # {})
  <2>1. \E a \in Addr : a \in PendingLoads(i) \cup PendingStores(i)
    BY <1>1 DEF TodoLoads, TodoStores, PendingLoads, PendingStores, Pending
  <2>2. rob[i].numMemOps \in Nat /\ rob[i].numMemOps > 0
    BY <1>1, <2>1, PendingKeepsOpen
  <2>. QED BY <1>7, <2>2, FS_EmptySet
<1>14. RunningReg' = RunningReg
  BY <1>1, <1>5, <1>6 DEF RunningReg
<1>15. inflightMem' = Cardinality(RunningMem') /\ inflightMem' \in Nat
  <2>1. IsFiniteSet(RunningMem) /\ inflightMem = Cardinality(RunningMem) /\ inflightMem \in Nat
    BY CountersAre, CountedFinite DEF IInv, TypeOK
  <2>2. CASE rob[i].numMemOps = Cardinality(F)
    <3>1. rob'[i].numMemOps = 0 /\ rob'[i].executed # "done" /\ IsMemory(i)'
      BY <1>1, <1>3, <1>5, <1>7, <2>2
    <3>2. RunningMem' = RunningMem \cup {i} /\ i \notin RunningMem
      BY <1>1, <1>5, <1>6, <1>13, <3>1 DEF RunningMem
    <3>3. inflightMem' = inflightMem + 1
      BY <1>3, <1>13, <2>2
    <3>. QED BY <2>1, <3>2, <3>3, FS_AddElement
  <2>3. CASE rob[i].numMemOps # Cardinality(F)
    <3>1. rob'[i].numMemOps # 0
      BY <1>3, <1>7, <1>13, <2>3
    <3>2. RunningMem' = RunningMem
      BY <1>1, <1>5, <1>6, <1>13, <3>1 DEF RunningMem
    <3>3. inflightMem' = inflightMem + 0
      BY <1>3, <2>3
    <3>. QED BY <2>1, <3>2, <3>3
  <2>. QED BY <2>2, <2>3
<1>16. ASSUME NEW T \in SUBSET Addr, IsFiniteSet(T)
       PROVE  IsFiniteSet({i} \X T) /\ Cardinality({i} \X T) = Cardinality(T)
  <2>1. IsFiniteSet({i}) /\ Cardinality({i}) = 1
    BY FS_Singleton
  <2>2. Cardinality({i} \X T) = Cardinality({i}) * Cardinality(T) /\ IsFiniteSet({i} \X T)
    BY <1>16, <2>1, FS_Product
  <2>3. Cardinality(T) \in Nat
    BY <1>16, FS_CardinalityType
  <2>. QED BY <2>1, <2>2, <2>3
<1>17. lqOccupancy' = Cardinality(InLq')
  <2>. DEFINE P == {i} \X Q
  <2>1. \A d : d \in P <=> d \in InRob \X Addr /\ d[1] = i /\ d[2] \in Q
    BY <1>1, <1>7
  <2>. HIDE DEF P
  <2>2. ASSUME NEW d \in InRob \X Addr
        PROVE  d \in InLq' <=> d \in InLq \cup P
    <3>1. CASE d[1] = i
      <4>1. rob'[i].load[d[2]] \in {"none", "todo", "done"}
               <=> rob[i].load[d[2]] \in {"none", "todo", "done"} /\ d[2] \notin Q
        BY <1>4, <1>7, <1>8
      <4>. QED BY <1>1, <2>1, <3>1, <4>1 DEF InLq
    <3>2. CASE d[1] # i
      BY <1>1, <1>6, <2>1, <3>2 DEF InLq
    <3>. QED BY <3>1, <3>2
  <2>3. InLq' = InLq \cup P
    <3>1. InLq' \subseteq InRob \X Addr /\ InLq \subseteq InRob \X Addr
      BY <1>1 DEF InLq
    <3>. QED BY <2>1, <2>2, <3>1
  <2>4. InLq \cap P = {}
    BY <1>7, <2>1 DEF InLq
  <2>5. IsFiniteSet(InLq) /\ lqOccupancy = Cardinality(InLq)
    BY CountersAre, CountedFinite DEF IInv
  <2>6. IsFiniteSet(P) /\ Cardinality(P) = Cardinality(Q)
    BY <1>7, <1>16 DEF P
  <2>. QED BY <1>3, <2>3, <2>4, <2>5, <2>6, DisjointUnion
<1>18. sqOccupancy' = Cardinality(InSq')
  <2>. DEFINE P == {i} \X S
  <2>1. \A d : d \in P <=> d \in InRob \X Addr /\ d[1] = i /\ d[2] \in S
    BY <1>1, <1>7
  <2>. HIDE DEF P
  <2>2. ASSUME NEW d \in InRob \X Addr
        PROVE  d \in InSq' <=> d \in InSq \cup P
    <3>1. CASE d[1] = i
      <4>1. rob'[i].store[d[2]] \in {"none", "todo"}
               <=> rob[i].store[d[2]] \in {"none", "todo"} /\ d[2] \notin S
        BY <1>4, <1>7
      <4>. QED BY <1>1, <2>1, <3>1, <4>1 DEF InSq
    <3>2. CASE d[1] # i
      BY <1>1, <1>6, <2>1, <3>2 DEF InSq
    <3>. QED BY <3>1, <3>2
  <2>3. InSq' = InSq \cup P
    <3>1. InSq' \subseteq InRob \X Addr /\ InSq \subseteq InRob \X Addr
      BY <1>1 DEF InSq
    <3>. QED BY <2>1, <2>2, <3>1
  <2>4. InSq \cap P = {}
    BY <1>7, <2>1 DEF InSq
  <2>5. IsFiniteSet(InSq) /\ sqOccupancy = Cardinality(InSq)
    BY CountersAre, CountedFinite DEF IInv
  <2>6. IsFiniteSet(P) /\ Cardinality(P) = Cardinality(S)
    BY <1>7, <1>16 DEF P
  <2>. QED BY <1>3, <2>3, <2>4, <2>5, <2>6, DisjointUnion
<1>19. lqOccupancy' \in 0 .. LqSize /\ sqOccupancy' \in 0 .. SqSize
  BY <1>3, <1>7, CoreAssumption DEF IInv, TypeOK
<1>. QED
  BY <1>1, <1>12, <1>14, <1>15, <1>17, <1>18, <1>19, CountersAre, CountersAreNext DEF IInv

LEMMA MemScheduleKeepsInv ==
    ASSUME IInv, NEW i \in Id, MemSchedule(i)
    PROVE  IInv'
<1>1. /\ InRob' = InRob
      /\ UNCHANGED <<head, tail, rte, inflightReg, stall, written, seen>>
  BY MemSchedulable
<1>2. rob' \in [Id -> Entry] /\ sta' \in Seq(Id)
  BY MemScheduleEffect DEF MemAdded
<1>3. TypeOK'
  BY <1>1, <1>2, MemScheduleCounts DEF IInv, TypeOK
<1>4. (rte \subseteq InRob)'
  BY <1>1 DEF IInv
<1>5. (\A j \in InRob, a \in Addr : Sourced(j, a))'
  BY <1>1, MemScheduleSources
<1>. QED BY <1>3, <1>4, <1>5, MemScheduleRegs, MemScheduleCounts DEF IInv

-----------------------------------------------------------------------------
(* The invariant *)

LEMMA InitInv == Init => IInv
<1>. SUFFICES ASSUME Init PROVE IInv
  OBVIOUS
<1>1. InRob = {} /\ \A i \in Id : rob[i] = Empty
  BY DEF Init, InRob
<1>2. TypeOK
  <2>1. rob \in [Id -> Entry]
    BY EmptyIsEntry DEF Init
  <2>2. head = 1 /\ tail = 1 /\ 1 \in 1 .. TraceLen + 1 /\ 1 - 1 <= RobSize
    BY CoreAssumption DEF Init
  <2>3. sta \in Seq(Id)
    BY DEF Init
  <2>4. written \in [Addr -> Nat] /\ DOMAIN seen \subseteq Addr
    BY DEF Init
  <2>5. lqOccupancy \in 0 .. LqSize /\ sqOccupancy \in 0 .. SqSize
    BY CoreAssumption DEF Init
  <2>. QED BY <2>1, <2>2, <2>3, <2>4, <2>5 DEF Init, TypeOK
<1>3. RunningReg = {} /\ RunningMem = {} /\ InLq = {} /\ InSq = {}
  BY <1>1 DEF RunningReg, RunningMem, InLq, InSq
<1>4. OpsCounted
  BY <1>1, <1>3, CountersAre, FS_EmptySet DEF Init
<1>. QED BY <1>1, <1>2, <1>4 DEF IInv, Init

LEMMA NextInv == IInv /\ [Next]_vars => IInv'
<1>. SUFFICES ASSUME IInv, [Next]_vars PROVE IInv'
  OBVIOUS
<1>1. CASE UNCHANGED vars
  BY <1>1, StutterKeepsInv
<1>2. CASE FrontEnd
  <2>1. {"read", "translating", "translated", "fetching", "fetched"} \subseteq Stage
    BY DEF Stage
  <2>2. CASE \E k \in Kinds : ReadTrace(k)
    BY <2>2, ReadTraceKeepsInv
  <2>3. CASE ResumeFetch
    BY <2>3, ResumeKeepsInv
  <2>4. ASSUME NEW i \in Id, SendToItlb(i) \/ ItlbDone(i) \/ SendToL1I(i) \/ L1IDone(i)
        PROVE  IInv'
    BY <2>1, <2>4, SetFrontKeepsInv DEF SendToItlb, ItlbDone, SendToL1I, L1IDone
  <2>. QED BY <1>2, <2>2, <2>3, <2>4 DEF FrontEnd
<1>3. CASE Registers
  <2>1. ASSUME NEW i \in Id, Schedule(i) \/ Execute(i) \/ Complete(i)
        PROVE  IInv'
    BY <2>1, ScheduleKeepsInv, ExecuteKeepsInv, CompleteKeepsInv
  <2>. QED BY <1>3, <2>1 DEF Registers
<1>4. CASE Memory
  <2>1. ASSUME NEW i \in Id, MemSchedule(i) PROVE IInv'
    BY <2>1, MemScheduleKeepsInv
  <2>2. ASSUME NEW i \in Id, NEW a \in Addr, StoreToDtlb(i, a) \/ StoreTranslated(i, a)
        PROVE  IInv'
    BY <2>2, SetStoreKeepsInv DEF StoreToDtlb, StoreTranslated
  <2>3. ASSUME NEW i \in Id, NEW a \in Addr,
               LoadToDtlb(i, a) \/ LoadTranslated(i, a) \/ ExecuteLoad(i, a)
        PROVE  IInv'
    BY <2>3, SetLoadKeepsInv DEF LoadToDtlb, LoadTranslated, ExecuteLoad
  <2>4. ASSUME NEW i \in Id, NEW a \in Addr, ExecuteStore(i, a) \/ LoadDone(i, a)
        PROVE  IInv'
    BY <2>4, ExecuteStoreKeepsInv, LoadDoneKeepsInv
  <2>. QED BY <1>4, <2>1, <2>2, <2>3, <2>4 DEF Memory
<1>5. CASE Retire
  BY <1>5, RetireKeepsInv
<1>. QED BY <1>1, <1>2, <1>3, <1>4, <1>5 DEF Next

LEMMA InvAlways == Spec => []IInv
  BY InitInv, NextInv, PTL DEF Spec

-----------------------------------------------------------------------------
(* What it gives *)

\* The buffer never holds more than its size, no queue is overfilled, and every entry,
\* list and counter stays in its range.
THEOREM TypeAlwaysOK == Spec => []TypeOK
<1>1. IInv => TypeOK
  BY DEF IInv
<1>. QED BY <1>1, InvAlways, PTL

\* No instruction begins to execute, and no load or store enters its queue, before the
\* youngest older writer of each register it reads has completed: with reg_RAW_release
\* letting go of what reg_dependency found, the walk back over the buffer is enough.
THEOREM OperandsAlwaysReady == Spec => []OperandsReady
<1>1. IInv => OperandsReady
  <2>. SUFFICES ASSUME IInv, NEW i \in InRob, Begun(i), NEW r \in rob[i].ins.src
                PROVE  LET p == Youngest({q \in Older(i) : r \in rob[q].ins.dst})
                       IN p = 0 \/ rob[p].executed = "done"
    BY DEF OperandsReady, Begun
  <2>. DEFINE W == {q \in Older(i) : r \in rob[q].ins.dst}
  <2>1. W \in SUBSET (1 .. TraceLen) /\ TraceLen \in Nat
    BY WindowIsId, CoreAssumption DEF IInv
  <2>2. \A q : q \in W <=> q \in Older(i) /\ r \in rob[q].ins.dst
    OBVIOUS
  <2>. HIDE DEF W
  <2>3. SUFFICES ASSUME NEW p, p = Youngest(W), p # 0, rob[p].executed # "done"
                 PROVE  FALSE
    BY DEF W
  <2>4. p \in W /\ \A q \in W : q <= p
    BY <2>1, <2>3, YoungestOf
  <2>5. p \in Unfinished(i) /\ p \in Older(i)
    BY <2>2, <2>3, <2>4 DEF Unfinished
  <2>6. LastWriter(i, r, p)
    <3>1. i \in Nat /\ head \in Nat
      BY WindowIsId DEF IInv
    <3>2. \A q \in p + 1 .. i - 1 : q \in Older(i) /\ ~(q <= p)
      BY <2>5, <3>1 DEF Older
    <3>. QED BY <2>2, <2>4, <3>2 DEF LastWriter
  <2>7. rob[i].scheduled # "no" /\ rob[i].numRegDependent = 0
    BY DEF IInv, Staged, RegReady
  <2>8. <<i, r>> \in rob[p].regDependents
    BY <2>5, <2>6, <2>7 DEF IInv, Held
  <2>9. <<p, <<i, r>>>> \in HeldBy(i)
    BY <2>5, <2>8, HeldByElements
  <2>10. HeldBy(i) = {}
    BY <2>7, HeldByFinite, FS_EmptySet DEF IInv, Held
  <2>. QED BY <2>9, <2>10
<1>. QED BY <1>1, InvAlways, PTL

\* A load that is done has the value of the youngest older store of the trace, whether it
\* was forwarded or came from the L1D, and none that the L1D is asked for has such a store
\* still in the buffer.
THEOREM LoadsAlwaysSourced == Spec => []LoadSources
<1>1. IInv => LoadSources
  BY DEF IInv, Sourced, LastStore, NoStore, LoadSources, IsSource
<1>. QED BY <1>1, InvAlways, PTL

\* Every waiting load is on the list of a store that has not executed, every count of
\* awaited registers is the number of list entries still to be released, and RTE0 and RTE1
\* hold exactly the instructions ready to execute.
THEOREM WakeupsNeverLost == Spec => []NoLostWakeup
<1>1. IInv => NoLostWakeup
  <2>. SUFFICES ASSUME IInv PROVE NoLostWakeup
    OBVIOUS
  <2>1. ASSUME NEW i \in InRob, NEW a \in Addr, rob[i].load[a] = "waiting",
               NEW p, p = rob[i].from[a]
        PROVE  /\ p \in Older(i) /\ i \in rob[p].memDependents
               /\ rob[p].store[a] \notin {"none", "done"}
    <3>1. LastStore(i, a, p) /\ i \in rob[p].memDependents /\ rob[p].store[a] # "done"
      BY <2>1 DEF IInv, Sourced
    <3>2. p \in Older(i) /\ p \in InRob /\ a \in rob[p].ins.store
      BY <3>1, WindowIsId DEF IInv, LastStore
    <3>3. rob[p].store[a] # "none"
      BY <3>2 DEF IInv, Entered
    <3>. QED BY <3>1, <3>2, <3>3
  <2>2. ASSUME NEW i \in InRob
        PROVE  /\ rob[i].numRegDependent = Cardinality(UNION
                     {{p} \X {d \in rob[p].regDependents : d[1] = i} :
                         p \in {q \in Older(i) : rob[q].executed # "done"}})
               /\ i \in rte <=> ~IsMemory(i) /\ RegReady(i) /\ rob[i].executed = "no"
    BY DEF IInv, Held, HeldBy, Unfinished
  <2>. QED BY <2>1, <2>2 DEF NoLostWakeup
<1>. QED BY <1>1, InvAlways, PTL

\* num_mem_ops, the inflight counts and the queue occupancies always count what they stand
\* for.
THEOREM OpsAlwaysCounted == Spec => []OpsCounted
<1>1. IInv => OpsCounted
  BY DEF IInv
<1>. QED BY <1>1, InvAlways, PTL

-----------------------------------------------------------------------------
(* The refinement *)

LEMMA RetireFollowsProgram ==
    ASSUME IInv, Retire
    PROVE  Program!Next
<1>1. /\ head \in InRob /\ rob[head].executed = "done" /\ head' = head + 1
      /\ head \in Nat /\ head <= TraceLen /\ TraceLen \in Nat
  <2>1. head \in Nat /\ tail \in Nat /\ TraceLen \in Nat /\ tail <= TraceLen + 1 /\ head < tail
    BY WindowIsId, CoreAssumption DEF Retire, Retirable, IInv, TypeOK
  <2>. QED BY <2>1, RetireEffect
<1>2. rob[head].ins \in Kinds /\ Entered(head)
  BY <1>1 DEF IInv, Entered
<1>3. rob[head].ins.load \subseteq Addr
  BY <1>1, WindowIsId, EntryTypes DEF IInv
<1>4. \A a \in rob[head].ins.load : rob[head].from[a] = written[a]
  <2>1. ASSUME NEW a \in rob[head].ins.load PROVE rob[head].from[a] = written[a]
    <3>1. a \in Addr /\ rob[head].load[a] = "done"
      BY <1>1, <1>2, <1>3, CompletedIsDone DEF Entered
    <3>2. Older(head) = {}
      BY <1>1 DEF Older
    <3>3. ~LastStore(head, a, rob[head].from[a])
      BY <3>2 DEF LastStore
    <3>. QED BY <1>1, <3>1, <3>3 DEF IInv, Sourced
  <2>. QED BY <2>1
<1>5. Program!Retire(rob[head].ins)
  <2>1. head - 1 < TraceLen /\ head' - 1 = (head - 1) + 1 /\ (head - 1) + 1 = head
    BY <1>1
  <2>2. seen' = [a \in rob[head].ins.load |-> written[a]]
    BY <1>4 DEF Retire
  <2>3. written' = [a \in Addr |-> IF a \in rob[head].ins.store THEN (head - 1) + 1 ELSE written[a]]
    BY <2>1 DEF Retire
  <2>. QED BY <2>1, <2>2, <2>3 DEF Program!Retire
<1>. QED BY <1>2, <1>5 DEF Program!Next

LEMMA OthersRetireNothing ==
    FrontEnd \/ Registers \/ Memory => UNCHANGED retirement
<1>1. FrontEnd => UNCHANGED retirement
  BY DEF FrontEnd, ReadTrace, ResumeFetch, SetFront, SendToItlb, ItlbDone, SendToL1I, L1IDone
<1>2. Registers => UNCHANGED retirement
  BY DEF Registers, Schedule, Execute, Complete
<1>3. Memory => UNCHANGED retirement
  <2>1. ASSUME NEW i, MemSchedule(i) PROVE UNCHANGED retirement
    BY <2>1 DEF MemSchedule
  <2>2. ASSUME NEW i, NEW a, \/ StoreToDtlb(i, a) \/ StoreTranslated(i, a) \/ LoadToDtlb(i, a)
                             \/ LoadTranslated(i, a) \/ ExecuteLoad(i, a)
        PROVE  UNCHANGED retirement
    BY <2>2 DEF SetStore, SetLoad, StoreToDtlb, StoreTranslated, LoadToDtlb, LoadTranslated,
                ExecuteLoad
  <2>3. ASSUME NEW i, NEW a, ExecuteStore(i, a) \/ LoadDone(i, a) PROVE UNCHANGED retirement
    BY <2>3 DEF ExecuteStore, LoadDone
  <2>. QED BY <2>1, <2>2, <2>3 DEF Memory
<1>. QED BY <1>1, <1>2, <1>3

\* Whatever order the core executes in, instructions retire in the order of the trace, each
\* load with the value of the program's last store before it.
THEOREM RetiresAsProgram == Spec => RetiresInOrder
<1>1. Init => Program!Init
  BY DEF Init, Program!Init
<1>2. IInv /\ [Next]_vars => [Program!Next]_Program!vars
  <2>. SUFFICES ASSUME IInv, [Next]_vars PROVE [Program!Next]_Program!vars
    OBVIOUS
  <2>1. CASE UNCHANGED retirement
    BY <2>1 DEF retirement, Program!vars
  <2>2. CASE Retire
    BY <2>2, RetireFollowsProgram
  <2>3. Retire \/ UNCHANGED retirement
    BY OthersRetireNothing DEF Next, vars
  <2>. QED BY <2>1, <2>2, <2>3
<1>. QED BY <1>1, <1>2, InvAlways, PTL DEF Spec, RetiresInOrder, Program!Spec

=============================================================================
