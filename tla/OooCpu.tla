------------------------------- MODULE OooCpu -------------------------------
(***************************************************************************)
(* O3_CPU: one core.  Instructions of the trace enter the reorder buffer   *)
(* in order, are translated and fetched, wait for the registers they read, *)
(* and execute out of order: loads and stores through the load and store   *)
(* queues, a load taking its value from an older store of the buffer when  *)
(* there is one and from the L1D otherwise.  They retire in order, and a   *)
(* store reaches the L1D when it retires.                                  *)
(*                                                                         *)
(* An instruction is named by its place in the trace; the ring of the      *)
(* buffer shows only where a scan stops at its end.  RTS0, RTS1, RTL0 and  *)
(* RTL1 are states of a store or a load.  Widths and cycle counts are      *)
(* abstracted: a stage that may act in this cycle or in a later one acts   *)
(* in any.  A value is the number of the instruction that stored it.       *)
(***************************************************************************)
EXTENDS Integers, Sequences, FiniteSets

CONSTANTS
    Reg, Addr,       \* registers and addresses of data
    Kinds,           \* the instructions a trace may hold
    TraceLen,        \* instructions in the trace
    RobSize, LqSize, SqSize, SchedulerSize

\* source_registers, destination_registers, source_memory, destination_memory, and
\* whether a branch will be mispredicted.
Instr == [src : SUBSET Reg, dst : SUBSET Reg, load : SUBSET Addr, store : SUBSET Addr,
          miss : BOOLEAN]

ASSUME CoreAssumption ==
    /\ IsFiniteSet(Reg) /\ IsFiniteSet(Addr)
    /\ Kinds \subseteq Instr
    /\ TraceLen \in Nat
    /\ RobSize \in Nat \ {0} /\ LqSize \in Nat \ {0} /\ SqSize \in Nat \ {0}
    /\ SchedulerSize \in Nat \ {0}

\* Operators named Faulty... are what a slip in the code would make of the definition that
\* follows them; no specification uses them.

VARIABLES
    rob,          \* ROB.entry, by instruction, with its entries in LQ and SQ
    head, tail,   \* ROB holds the instructions head .. tail - 1
    lqOccupancy, sqOccupancy,
    sta,          \* STA: one entry for each store not yet in SQ, in program order
    rte,          \* the instructions in RTE0 and RTE1
    inflightReg, inflightMem,   \* inflight_reg_executions, inflight_mem_executions
    stall,        \* fetch_stall, and "resume" once fetch_resume_cycle is set
    written,      \* for each address, the last retired instruction that stored to it
    seen          \* the loads of the instruction that retired last, and what each saw

queues == <<lqOccupancy, sqOccupancy, sta>>
inflight == <<inflightReg, inflightMem>>
retirement == <<head, written, seen>>
vars == <<rob, tail, queues, rte, inflight, stall, retirement>>

Id == 1 .. TraceLen
Stage == {"none", "read", "translating", "translated", "fetching", "fetched"}
Progress == {"no", "inflight", "done"}
LoadState == {"none", "todo", "waiting", "queued", "translating", "ready", "issued", "done"}
StoreState == {"none", "todo", "queued", "translating", "ready", "done"}

Entry == [ins : Instr, front : Stage, scheduled : Progress, executed : Progress,
          regDependents : SUBSET (Id \X Reg),   \* registers_index_depend_on_me
          numRegDependent : Int,
          memDependents : SUBSET Id,            \* memory_instrs_depend_on_me
          numMemOps : Int,
          load : [Addr -> LoadState],
          from : [Addr -> Nat],   \* producer_id of a waiting load, 0 for none; of a load
                                  \* that is done, the instruction whose value it has
          store : [Addr -> StoreState]]

TypeOK ==
    /\ rob \in [Id -> Entry]
    /\ head \in 1 .. TraceLen + 1 /\ tail \in head .. TraceLen + 1 /\ tail - head <= RobSize
    /\ lqOccupancy \in 0 .. LqSize /\ sqOccupancy \in 0 .. SqSize
    /\ sta \in Seq(Id)
    /\ rte \subseteq Id
    /\ inflightReg \in Nat /\ inflightMem \in Nat
    /\ stall \in {"no", "yes", "resume"}
    /\ written \in [Addr -> Nat]
    /\ DOMAIN seen \subseteq Addr

NumOps(k) == Cardinality(k.load) + Cardinality(k.store)

Fresh(k) ==
    [ins |-> k, front |-> "read", scheduled |-> "no", executed |-> "no",
     regDependents |-> {}, numRegDependent |-> 0,
     memDependents |-> {}, numMemOps |-> NumOps(k),
     load |-> [a \in Addr |-> IF a \in k.load THEN "todo" ELSE "none"],
     from |-> [a \in Addr |-> 0],
     store |-> [a \in Addr |-> IF a \in k.store THEN "todo" ELSE "none"]]

Empty == [Fresh([src |-> {}, dst |-> {}, load |-> {}, store |-> {}, miss |-> FALSE])
             EXCEPT !.front = "none"]

Init ==
    /\ rob = [i \in Id |-> Empty]
    /\ head = 1 /\ tail = 1
    /\ lqOccupancy = 0 /\ sqOccupancy = 0
    /\ sta = <<>>
    /\ rte = {}
    /\ inflightReg = 0 /\ inflightMem = 0
    /\ stall = "no"
    /\ written = [a \in Addr |-> 0]
    /\ seen = <<>>

InRob == head .. tail - 1
Older(i) == head .. i - 1
IsMemory(i) == rob[i].ins.load \cup rob[i].ins.store # {}
RegReady(i) == rob[i].scheduled # "no" /\ rob[i].numRegDependent = 0

\* The youngest instruction of S, 0 when there is none.
Youngest(S) == IF S = {} THEN 0 ELSE CHOOSE i \in S : \A j \in S : j <= i

-----------------------------------------------------------------------------
(* The front end: handle_branch, fetch_instruction, complete_instr_fetch *)

FaultyRobRoom == tail - head <= RobSize
RobRoom == tail - head < RobSize

ReadTrace(k) ==
    /\ stall = "no" /\ RobRoom /\ tail <= TraceLen
    /\ rob' = [rob EXCEPT ![tail] = Fresh(k)]
    /\ tail' = tail + 1
    /\ sta' = sta \o [n \in 1 .. Cardinality(k.store) |-> tail]
    /\ stall' = IF k.miss THEN "yes" ELSE "no"
    /\ UNCHANGED <<lqOccupancy, sqOccupancy, rte, inflight, retirement>>

ResumeFetch ==
    /\ stall = "resume"
    /\ stall' = "no"
    /\ UNCHANGED <<rob, tail, queues, rte, inflight, retirement>>

\* The ITLB and then the L1I take requests in program order, and answer in any.
SetFront(i, old, new) ==
    /\ i \in InRob /\ rob[i].front = old
    /\ rob' = [rob EXCEPT ![i].front = new]
    /\ UNCHANGED <<tail, queues, rte, inflight, stall, retirement>>

SendToItlb(i) ==
    /\ \A j \in Older(i) : rob[j].front # "read"
    /\ SetFront(i, "read", "translating")
ItlbDone(i) == SetFront(i, "translating", "translated")
SendToL1I(i) ==
    /\ \A j \in Older(i) : rob[j].front \in {"fetching", "fetched"}
    /\ SetFront(i, "translated", "fetching")
L1IDone(i) == SetFront(i, "fetching", "fetched")

FrontEnd ==
    \/ \E k \in Kinds : ReadTrace(k)
    \/ ResumeFetch
    \/ \E i \in Id : SendToItlb(i) \/ ItlbDone(i) \/ SendToL1I(i) \/ L1IDone(i)

-----------------------------------------------------------------------------
(* Registers: schedule_instruction, execute_instruction, complete_execution *)

\* The scan starts at the head; next_fetch[1] stays 0, so that it ends with the ring.
Lap(i) == (i - 1) \div RobSize
InWindow(i) ==
    /\ i \in InRob /\ Lap(i) = Lap(head) /\ i - head < SchedulerSize
    /\ \A j \in head .. i : rob[j].front = "fetched"

FaultyRegProducer(i, r) ==
    Youngest({p \in Older(i) : r \in rob[p].ins.dst /\ rob[p].executed = "no"})

\* reg_dependency and reg_RAW_dependency.
RegProducer(i, r) ==
    Youngest({p \in Older(i) : r \in rob[p].ins.dst /\ rob[p].executed # "done"})
WaitsFor(i, p) == {r \in rob[i].ins.src : RegProducer(i, r) = p}
Awaited(i) == {r \in rob[i].ins.src : RegProducer(i, r) # 0}

Schedule(i) ==
    /\ InWindow(i) /\ rob[i].scheduled = "no"
    /\ \A j \in Older(i) : rob[j].scheduled # "no"
    /\ rob' = [j \in Id |->
         IF j = i
           THEN [rob[i] EXCEPT !.scheduled = IF IsMemory(i) THEN "inflight" ELSE "done",
                               !.numRegDependent = @ + Cardinality(Awaited(i))]
           ELSE [rob[j] EXCEPT !.regDependents = @ \cup ({i} \X WaitsFor(i, j))]]
    /\ rte' = IF Awaited(i) = {} /\ ~IsMemory(i) THEN rte \cup {i} ELSE rte
    /\ UNCHANGED <<tail, queues, inflight, stall, retirement>>

Execute(i) ==
    /\ i \in rte
    /\ rte' = rte \ {i}
    /\ rob' = [rob EXCEPT ![i].executed = "inflight"]
    /\ inflightReg' = inflightReg + 1
    /\ UNCHANGED <<tail, queues, inflightMem, stall, retirement>>

\* reg_RAW_release: what i still holds back of j, and those nothing else holds back.
Releases(i, j) == Cardinality({d \in rob[i].regDependents : d[1] = j})
Released(i) == {j \in Id : Releases(i, j) > 0 /\ rob[j].numRegDependent = Releases(i, j)}

Complete(i) ==
    /\ inflightReg + inflightMem > 0
    /\ i \in InRob /\ rob[i].executed = "inflight"
    /\ IsMemory(i) => rob[i].numMemOps = 0
    /\ rob' = [j \in Id |->
         IF j = i THEN [rob[i] EXCEPT !.executed = "done"]
                  ELSE [rob[j] EXCEPT !.numRegDependent = @ - Releases(i, j)]]
    /\ rte' = rte \cup {j \in Released(i) : ~IsMemory(j)}
    /\ IF IsMemory(i)
         THEN inflightMem' = inflightMem - 1 /\ UNCHANGED inflightReg
         ELSE inflightReg' = inflightReg - 1 /\ UNCHANGED inflightMem
    /\ stall' = IF rob[i].ins.miss THEN "resume" ELSE stall
    /\ UNCHANGED <<tail, queues, retirement>>

Registers == \E i \in Id : Schedule(i) \/ Execute(i) \/ Complete(i)

-----------------------------------------------------------------------------
(* Loads and stores: schedule_memory_instruction *)

FaultyMemProducer(i, a) ==
    Youngest({p \in Older(i) : rob[p].store[a] \notin {"none", "todo"}})

\* mem_RAW_dependency: the youngest older store of the buffer to the address, whether or
\* not it has reached SQ.
MemProducer(i, a) == Youngest({p \in Older(i) : a \in rob[p].ins.store})

TodoLoads(i) == {a \in Addr : rob[i].load[a] = "todo"}
TodoStores(i) == {a \in Addr : rob[i].store[a] = "todo"}

CanAddLoad(i) == TodoLoads(i) # {} /\ lqOccupancy < LqSize
FaultyCanAddStore(i) == TodoStores(i) # {} /\ sqOccupancy < SqSize
CanAddStore(i) == TodoStores(i) # {} /\ sqOccupancy < SqSize /\ Head(sta) = i
CanAdd(i) ==
    /\ i \in InRob /\ rob[i].scheduled = "inflight" /\ RegReady(i)
    /\ CanAddLoad(i) \/ CanAddStore(i)

\* add_load_queue: the store is already executed, and its value forwarded at once.
Forwarded(i, L) ==
    {a \in L : MemProducer(i, a) # 0 /\ rob[MemProducer(i, a)].store[a] = "done"}
FaultyQueued(i, L) == L
Queued(i, L) == L \ Forwarded(i, L)

\* The sets of operands check_and_add_lsq may add: it goes through them in their order
\* until a queue is full, and a forwarded load has left LQ before the next is looked at.
LoadsAdded(i) ==
    {L \in SUBSET TodoLoads(i) :
        /\ L # {} => CanAddLoad(i)
        /\ lqOccupancy + Cardinality(Queued(i, L)) <= LqSize
        /\ L # TodoLoads(i) => lqOccupancy + Cardinality(Queued(i, L)) = LqSize}
StoresAdded(i) ==
    {S \in SUBSET TodoStores(i) :
        /\ S # {} => CanAddStore(i)
        /\ sqOccupancy + Cardinality(S) <= SqSize
        /\ CanAddStore(i) /\ S # TodoStores(i) => sqOccupancy + Cardinality(S) = SqSize}

Added(i, L, S) ==
    LET all == L = TodoLoads(i) /\ S = TodoStores(i)
        Enters(a) == IF a \in Forwarded(i, L) THEN "done"
                     ELSE IF MemProducer(i, a) # 0 THEN "waiting" ELSE "queued"
    IN [rob[i] EXCEPT
           !.load = [a \in Addr |-> IF a \in L THEN Enters(a) ELSE @[a]],
           !.from = [a \in Addr |-> IF a \in L THEN MemProducer(i, a) ELSE @[a]],
           !.store = [a \in Addr |-> IF a \in S THEN "queued" ELSE @[a]],
           !.numMemOps = @ - Cardinality(Forwarded(i, L)),
           !.scheduled = IF all THEN "done" ELSE @,
           !.executed = IF all /\ @ = "no" THEN "inflight" ELSE @]

MemSchedule(i) ==
    /\ CanAdd(i)
    /\ \A j \in Older(i) : ~CanAdd(j)
    /\ \E L \in LoadsAdded(i), S \in StoresAdded(i) :
         /\ rob' = [j \in Id |->
              IF j = i THEN Added(i, L, S)
              ELSE IF \E a \in L : MemProducer(i, a) = j
                     THEN [rob[j] EXCEPT !.memDependents = @ \cup {i}]
                     ELSE rob[j]]
         /\ lqOccupancy' = lqOccupancy + Cardinality(Queued(i, L))
         /\ sqOccupancy' = sqOccupancy + Cardinality(S)
         /\ sta' = SubSeq(sta, Cardinality(S) + 1, Len(sta))
         /\ inflightMem' = inflightMem +
              (IF L # {} /\ rob[i].numMemOps = Cardinality(Forwarded(i, L)) THEN 1 ELSE 0)
    /\ UNCHANGED <<tail, rte, inflightReg, stall, retirement>>

-----------------------------------------------------------------------------
(* operate_lsq and complete_data_fetch; a load or store is an instruction and an address *)

SetStore(i, a, old, new) ==
    /\ i \in InRob /\ rob[i].store[a] = old
    /\ rob' = [rob EXCEPT ![i].store[a] = new]
    /\ UNCHANGED <<tail, queues, rte, inflight, stall, retirement>>

SetLoad(i, a, old, new) ==
    /\ i \in InRob /\ rob[i].load[a] = old
    /\ rob' = [rob EXCEPT ![i].load[a] = new]
    /\ UNCHANGED <<tail, queues, rte, inflight, stall, retirement>>

StoreToDtlb(i, a) == SetStore(i, a, "queued", "translating")
StoreTranslated(i, a) == SetStore(i, a, "translating", "ready")
LoadToDtlb(i, a) == SetLoad(i, a, "queued", "translating")
LoadTranslated(i, a) == SetLoad(i, a, "translating", "ready")
ExecuteLoad(i, a) == SetLoad(i, a, "ready", "issued")

\* The loads that execute_store finds: dependents of the instruction that have put a load
\* of this address in LQ.
FaultyDependents(i, a) == {j \in rob[i].memDependents : rob[j].load[a] = "queued"}
Dependents(i, a) == {j \in rob[i].memDependents : rob[j].load[a] \notin {"none", "todo"}}
WaitsOn(j, i, a) == rob[j].load[a] = "waiting" /\ rob[j].from[a] = i

\* The program stops at an assert when a dependent's entry in LQ names another producer, or
\* has left LQ and its slot has not been taken by another load of this store, which passes
\* the assert: that case, of instructions with two stores, is taken as a stop as well.
ExecuteStore(i, a) ==
    /\ i \in InRob /\ rob[i].store[a] = "ready"
    /\ \A j \in Dependents(i, a) : WaitsOn(j, i, a)
    /\ rob' = [j \in Id |->
         IF j = i
           THEN [rob[i] EXCEPT !.store[a] = "done", !.numMemOps = @ - 1]
         ELSE IF j \in Dependents(i, a)
           THEN [rob[j] EXCEPT !.load[a] = "done", !.numMemOps = @ - 1]
         ELSE rob[j]]
    /\ inflightMem' = inflightMem
          + Cardinality({j \in {i} \cup Dependents(i, a) : rob[j].numMemOps = 1})
    /\ lqOccupancy' = lqOccupancy - Cardinality(Dependents(i, a))
    /\ UNCHANGED <<tail, sqOccupancy, sta, rte, inflightReg, stall, retirement>>

\* The L1D answers, alone or with the loads merged into its request.
LoadDone(i, a) ==
    /\ i \in InRob /\ rob[i].load[a] = "issued"
    /\ rob' = [rob EXCEPT ![i].load[a] = "done", ![i].from[a] = written[a],
                          ![i].numMemOps = @ - 1]
    /\ inflightMem' = inflightMem + (IF rob[i].numMemOps = 1 THEN 1 ELSE 0)
    /\ lqOccupancy' = lqOccupancy - 1
    /\ UNCHANGED <<tail, sqOccupancy, sta, rte, inflightReg, stall, retirement>>

Memory ==
    \E i \in Id :
        \/ MemSchedule(i)
        \/ \E a \in Addr :
             \/ StoreToDtlb(i, a) \/ StoreTranslated(i, a)
             \/ ExecuteStore(i, a)
             \/ LoadToDtlb(i, a) \/ LoadTranslated(i, a) \/ ExecuteLoad(i, a)
             \/ LoadDone(i, a)

-----------------------------------------------------------------------------
(* retire_rob: the stores go to the write queue of the L1D, whose reads look there first *)

FaultyRetirable == head < tail /\ rob[head].executed # "no"
Retirable == head < tail /\ rob[head].executed = "done"

Retire ==
    /\ Retirable
    /\ written' = [a \in Addr |-> IF a \in rob[head].ins.store THEN head ELSE written[a]]
    /\ seen' = [a \in rob[head].ins.load |-> rob[head].from[a]]
    /\ sqOccupancy' = sqOccupancy - Cardinality(rob[head].ins.store)
    /\ rob' = [rob EXCEPT ![head] = Empty]
    /\ head' = head + 1
    /\ UNCHANGED <<tail, lqOccupancy, sta, rte, inflight, stall>>

Next == FrontEnd \/ Registers \/ Memory \/ Retire

Spec == Init /\ [][Next]_vars

\* The simulation loop calls every stage in every cycle.
FairSpec == Spec /\ WF_vars(Next)

-----------------------------------------------------------------------------
(* Properties *)

Pending(f, ended) == {a \in Addr : f[a] \notin {"none"} \cup ended}

\* An instruction that has begun to execute, or put an operand in a queue, does not run
\* ahead of the youngest older writer of a register it reads (reg_dependency looks only at
\* writers that have not executed, and reg_RAW_release lets it go).
OperandsReady ==
    \A i \in InRob :
        \/ /\ rob[i].executed = "no"
           /\ \A a \in Addr : /\ rob[i].load[a] \in {"none", "todo"}
                             /\ rob[i].store[a] \in {"none", "todo"}
        \/ \A r \in rob[i].ins.src :
              LET p == Youngest({q \in Older(i) : r \in rob[q].ins.dst})
              IN p = 0 \/ rob[p].executed = "done"

\* p is where a load of a by instruction i must take its value: the youngest older store
\* of the buffer, or what the last retired store left in the L1D.
IsSource(i, a, p) ==
    \/ /\ p \in Older(i) /\ a \in rob[p].ins.store
       /\ \A q \in p + 1 .. i - 1 : a \notin rob[q].ins.store
    \/ p = written[a] /\ \A q \in Older(i) : a \notin rob[q].ins.store

\* A finished load has the value of the program's last store before it, and a load sent to
\* the L1D can no longer be overtaken by an older store.
LoadSources ==
    \A i \in InRob, a \in Addr :
        /\ rob[i].load[a] = "done" => IsSource(i, a, rob[i].from[a])
        /\ rob[i].load[a] \in {"queued", "translating", "ready", "issued"} =>
              IsSource(i, a, written[a])

\* Nobody waits for what has already happened: a waiting load is listed by a store that has
\* yet to execute, and a register count is the number of writers still to complete.
NoLostWakeup ==
    /\ \A i \in InRob, a \in Addr : rob[i].load[a] = "waiting" =>
          LET p == rob[i].from[a]
          IN /\ p \in Older(i) /\ i \in rob[p].memDependents
             /\ rob[p].store[a] \notin {"none", "done"}
    /\ \A i \in InRob :
          /\ rob[i].numRegDependent = Cardinality(UNION
                {{p} \X {d \in rob[p].regDependents : d[1] = i} :
                    p \in {q \in Older(i) : rob[q].executed # "done"}})
          /\ i \in rte <=> /\ ~IsMemory(i) /\ RegReady(i)
                           /\ rob[i].executed = "no"

\* The counters that decide when an instruction is complete, when complete_execution is
\* looked at, and whether a queue has room.
OpsCounted ==
    /\ \A i \in InRob :
          rob[i].numMemOps = Cardinality(Pending(rob[i].load, {"done"}))
                           + Cardinality(Pending(rob[i].store, {"done"}))
    /\ inflightReg = Cardinality({i \in InRob : ~IsMemory(i) /\ rob[i].executed = "inflight"})
    /\ inflightMem = Cardinality({i \in InRob : /\ IsMemory(i) /\ rob[i].numMemOps = 0
                                                /\ rob[i].executed # "done"})
    /\ lqOccupancy = Cardinality({d \in InRob \X Addr :
          rob[d[1]].load[d[2]] \notin {"none", "todo", "done"}})
    /\ sqOccupancy = Cardinality({d \in InRob \X Addr :
          rob[d[1]].store[d[2]] \notin {"none", "todo"}})

\* Whatever the order of execution, the program that retires is the one in the trace.
Program == INSTANCE ProgramOrder WITH retired <- head - 1, memory <- written
RetiresInOrder == Program!Spec

\* Every instruction of the trace retires.
TraceRetires == <>(head = TraceLen + 1)
=============================================================================
