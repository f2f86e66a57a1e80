--------------------------- MODULE DramController ---------------------------
(***************************************************************************)
(* MEMORY_CONTROLLER: one DRAM channel after warm-up.  Requests wait in a  *)
(* read and a write table; a scheduled request occupies its bank until it  *)
(* is processed, or until the controller changes between reads and writes  *)
(* and takes back what it has scheduled.                                   *)
(*                                                                         *)
(* operate() is three steps: the change of mode, schedule, process.  The   *)
(* LLC calls add_rq and add_wq between two calls of operate().  Cycle      *)
(* counts are abstracted: a gate that compares cycles may be open or shut, *)
(* and the oldest of several requests may be any of them.                  *)
(***************************************************************************)
EXTENDS Integers, FiniteSets

CONSTANTS
    Addr, NoAddr,      \* block addresses, and address 0 of an unused entry
    Bank, Row, NoRow,  \* banks (rank and bank), rows, and UINT32_MAX
    BankOf, RowOf,     \* dram_get_rank and dram_get_bank; dram_get_row
    Size,              \* DRAM_RQ_SIZE and DRAM_WQ_SIZE
    HighWM, LowWM      \* DRAM_WRITE_HIGH_WM, DRAM_WRITE_LOW_WM

Kind == {"read", "write"}

ASSUME DramAssumption ==
    /\ NoAddr \notin Addr /\ NoRow \notin Row
    /\ BankOf \in [Addr -> Bank] /\ RowOf \in [Addr -> Row]
    /\ IsFiniteSet(Bank)
    /\ Size \in [Kind -> Nat \ {0}]
    /\ LowWM \in 1 .. HighWM /\ HighWM \in 1 .. Size["write"]

\* Operators named Faulty... are what a slip in the code would make of the definition that
\* follows them; no specification uses them.

VARIABLES
    entry,        \* RQ.entry and WQ.entry: address and scheduled flag
    occupancy,    \* RQ.occupancy and WQ.occupancy
    bank,         \* bank_request; serving is working, is_read and is_write in one
    scheduled,    \* scheduled_reads and scheduled_writes
    toSchedule,   \* whether next_schedule_index < SIZE and has a cycle (before the first
                  \* request the index is 0, and its cycle UINT64_MAX keeps it shut)
    nextProcess,  \* next_process_index, SIZE also while its cycle is UINT64_MAX
    writeMode,
    at,           \* the next step of operate()
    waiting       \* the addresses the LLC has an MSHR in flight for

vars == <<entry, occupancy, bank, scheduled, toSchedule, nextProcess, writeMode, at, waiting>>

Slot(k) == 0 .. Size[k] - 1
Unused == [addr |-> NoAddr, scheduled |-> FALSE]
Idle(row) == [serving |-> "none", index |-> -1, row |-> row]

TypeOK ==
    /\ \A k \in Kind : entry[k] \in [Slot(k) -> [addr : Addr \cup {NoAddr}, scheduled : BOOLEAN]]
    /\ \A k \in Kind : occupancy[k] \in 0 .. Size[k]
    /\ bank \in [Bank -> [serving : Kind \cup {"none"}, index : Int, row : Row \cup {NoRow}]]
    /\ scheduled \in [Kind -> 0 .. Cardinality(Bank)]
    /\ toSchedule \in [Kind -> BOOLEAN]
    /\ \A k \in Kind : nextProcess[k] \in Slot(k) \cup {Size[k]}
    /\ writeMode \in BOOLEAN
    /\ at \in {"mode", "schedule", "process"}
    /\ waiting \subseteq Addr

Init ==
    /\ entry = [k \in Kind |-> [i \in Slot(k) |-> Unused]]
    /\ occupancy = [k \in Kind |-> 0]
    /\ bank = [b \in Bank |-> Idle(NoRow)]
    /\ scheduled = [k \in Kind |-> 0]
    /\ toSchedule = [k \in Kind |-> FALSE]
    /\ nextProcess = Size
    /\ writeMode = FALSE
    /\ at = "mode"
    /\ waiting = {}

-----------------------------------------------------------------------------
(* The tables *)

Queued(k) == {i \in Slot(k) : entry[k][i].addr # NoAddr}
AddressesIn(k) == {entry[k][i].addr : i \in Queued(k)}
InService(es) == {i \in DOMAIN es : es[i].scheduled}
BankFor(k, i) == BankOf[entry[k][i].addr]

\* update_schedule_cycle and update_process_cycle for a table es of the given size: is
\* there a request to schedule, and which scheduled request is the next to process.
FaultyFromOne(es) == \E i \in DOMAIN es \ {0} : es[i].addr # NoAddr /\ ~es[i].scheduled
FaultyPending(es) == \E i \in DOMAIN es : es[i].addr # NoAddr
Pending(es) == \E i \in DOMAIN es : es[i].addr # NoAddr /\ ~es[i].scheduled
Due(es, size) == IF InService(es) = {} THEN {size} ELSE InService(es)

\* check_dram_queue finds the address: the request is merged, or a read answered from the
\* write table, and no table changes.  Otherwise it takes the first unused entry.
FirstUnused(k) ==
    {i \in Slot(k) \ Queued(k) : \A j \in Slot(k) \ Queued(k) : i <= j}

Insert(k, a) ==
    /\ entry' = [entry EXCEPT ![k] = [i \in Slot(k) |->
                    IF i \in FirstUnused(k) THEN [addr |-> a, scheduled |-> FALSE]
                                            ELSE entry[k][i]]]
    /\ occupancy' = [occupancy EXCEPT ![k] = @ + Cardinality(FirstUnused(k))]
    /\ toSchedule' = [toSchedule EXCEPT ![k] = Pending(entry'[k])]
    /\ UNCHANGED <<bank, scheduled, nextProcess, writeMode, at>>

\* The LLC sends a read for an address without an MSHR, and either kind of request only
\* after it has compared get_occupancy with get_size.
FaultyAsksRoom(k) == TRUE
AsksRoom(k) == occupancy[k] # Size[k]

AddRq(a) ==
    /\ at = "mode" /\ AsksRoom("read") /\ a \notin waiting
    /\ a \notin AddressesIn("write")
    /\ waiting' = waiting \cup {a}
    /\ IF a \in AddressesIn("read")
         THEN UNCHANGED <<entry, occupancy, bank, scheduled, toSchedule, nextProcess,
                          writeMode, at>>
         ELSE Insert("read", a)

AddWq(a) ==
    /\ at = "mode" /\ AsksRoom("write")
    /\ a \notin AddressesIn("write")
    /\ Insert("write", a)
    /\ UNCHANGED waiting

-----------------------------------------------------------------------------
(* operate *)

\* reset_remain_requests: every scheduled request of table k goes back to waiting and its
\* bank is free.  The row stays open if the bank had opened it by now.
FaultyFreed(k) == {}
Freed(k) == {BankFor(k, i) : i \in InService(entry[k])}

ResetRemainRequests(k) ==
    LET es == [entry EXCEPT ![k] = [i \in Slot(k) |-> [@[i] EXCEPT !.scheduled = FALSE]]]
    IN  /\ entry' = es
        /\ \E opened \in SUBSET Freed(k) :
              bank' = [b \in Bank |->
                         IF b \in Freed(k)
                           THEN Idle(IF b \in opened THEN bank[b].row ELSE NoRow)
                           ELSE bank[b]]
        /\ scheduled' = [j \in Kind |->
                           scheduled[j] - Cardinality({b \in Freed(k) : bank[b].serving = j})]
        /\ toSchedule' = [j \in Kind |-> Pending(es[j])]
        /\ \E r \in Due(es["read"], Size["read"]), w \in Due(es["write"], Size["write"]) :
              nextProcess' = [read |-> r, write |-> w]

\* Writes are drained in bursts, or when there is nothing to read.
FaultyStartsWriting == ~writeMode /\ occupancy["read"] = 0 /\ occupancy["write"] > 0
StartsWriting ==
    /\ ~writeMode
    /\ \/ occupancy["write"] >= HighWM
       \/ occupancy["read"] = 0 /\ occupancy["write"] > 0

StopsWriting ==
    /\ writeMode
    /\ \/ occupancy["write"] = 0
       \/ occupancy["read"] > 0 /\ occupancy["write"] < LowWM

SwitchMode ==
    /\ at = "mode" /\ at' = "schedule"
    /\ \/ StartsWriting /\ writeMode' = TRUE /\ ResetRemainRequests("read")
       \/ StopsWriting /\ writeMode' = FALSE /\ ResetRemainRequests("write")
       \/ /\ ~StartsWriting /\ ~StopsWriting
          /\ UNCHANGED <<entry, bank, scheduled, toSchedule, nextProcess, writeMode>>
    /\ UNCHANGED <<occupancy, waiting>>

Mode == IF writeMode THEN "write" ELSE "read"

\* schedule: a request that hits an open row before any other, and none for a busy bank.
FaultySchedulable(k) == {i \in Queued(k) : ~entry[k][i].scheduled}
Schedulable(k) ==
    {i \in Queued(k) : ~entry[k][i].scheduled /\ bank[BankFor(k, i)].serving = "none"}
RowHits(k) == {i \in Schedulable(k) : bank[BankFor(k, i)].row = RowOf[entry[k][i].addr]}

ScheduleOne ==
    /\ at = "schedule" /\ at' = "process"
    /\ toSchedule[Mode]
    /\ \E i \in IF RowHits(Mode) # {} THEN RowHits(Mode) ELSE Schedulable(Mode) :
          LET es == [entry EXCEPT ![Mode][i].scheduled = TRUE]
          IN  /\ bank' = [bank EXCEPT ![BankFor(Mode, i)] =
                            [serving |-> Mode, index |-> i,
                             row |-> RowOf[entry[Mode][i].addr]]]
              /\ scheduled' = [scheduled EXCEPT ![Mode] = @ + 1]
              /\ entry' = es
              /\ toSchedule' = [toSchedule EXCEPT ![Mode] = Pending(es[Mode])]
              /\ \E n \in Due(es[Mode], Size[Mode]) :
                    nextProcess' = [nextProcess EXCEPT ![Mode] = n]
    /\ UNCHANGED <<occupancy, writeMode, waiting>>

\* process: the bank has delivered and the data bus is free.  A read is answered.
ProcessOne ==
    /\ at = "process" /\ at' = "mode"
    /\ nextProcess[Mode] # Size[Mode]
    /\ LET i == nextProcess[Mode]
           a == entry[Mode][i].addr
           es == [entry EXCEPT ![Mode][i] = Unused]
       IN  /\ bank[BankOf[a]].index = i
           /\ bank' = [bank EXCEPT ![BankOf[a]] = Idle(@.row)]
           /\ scheduled' = [scheduled EXCEPT ![Mode] = @ - 1]
           /\ waiting' = IF writeMode THEN waiting ELSE waiting \ {a}
           /\ entry' = es
           /\ occupancy' = [occupancy EXCEPT ![Mode] = @ - 1]
           /\ \E n \in Due(es[Mode], Size[Mode]) :
                 nextProcess' = [nextProcess EXCEPT ![Mode] = n]
    /\ UNCHANGED <<toSchedule, writeMode>>

\* A cycle in which schedule or process is not yet due, or finds nothing.
NotDue ==
    /\ \/ at = "schedule" /\ at' = "process"
       \/ at = "process" /\ at' = "mode"
    /\ UNCHANGED <<entry, occupancy, bank, scheduled, toSchedule, nextProcess, writeMode,
                   waiting>>

Operate == SwitchMode \/ ScheduleOne \/ ProcessOne \/ NotDue

NewRequest == \E a \in Addr : AddRq(a) \/ AddWq(a)

Next == Operate \/ NewRequest

Spec == Init /\ [][Next]_vars

\* main calls operate() in every cycle, and every latency passes.
Fairness ==
    /\ WF_vars(Operate)
    /\ SF_vars(ScheduleOne) /\ SF_vars(ProcessOne)

FairSpec == Spec /\ Fairness

-----------------------------------------------------------------------------
(* Properties *)

\* A scheduled request and its bank name each other, across the two tables: process
\* asserts it before it uses the bank.
BanksMatch ==
    /\ \A k \in Kind : \A i \in InService(entry[k]) :
          i \in Queued(k) /\ bank[BankFor(k, i)] = [serving |-> k, index |-> i,
                                                    row |-> RowOf[entry[k][i].addr]]
    /\ \A b \in Bank : bank[b].serving # "none" =>
          /\ bank[b].index \in InService(entry[bank[b].serving])
          /\ BankFor(bank[b].serving, bank[b].index) = b

\* The counters count: what reset_remain_requests asserts after a change of mode, and what
\* the watermarks and the LLC's tests for room rely on.
CountsExact ==
    \A k \in Kind : /\ scheduled[k] = Cardinality({b \in Bank : bank[b].serving = k})
                    /\ occupancy[k] = Cardinality(Queued(k))
                    /\ (k # Mode) => scheduled[k] = 0

\* The cached indices are up to date: a request that could be scheduled or processed is
\* not overlooked because of a stale index, and no removed one is processed.
IndicesFresh ==
    \A k \in Kind :
        /\ toSchedule[k] <=> \E i \in Queued(k) : ~entry[k][i].scheduled
        /\ IF nextProcess[k] = Size[k] THEN InService(entry[k]) = {}
                                       ELSE nextProcess[k] \in InService(entry[k])

\* The LLC waits for exactly the reads that are queued, each queued once, so every MSHR is
\* answered once.
ReadsTracked ==
    /\ waiting = AddressesIn("read")
    /\ \A k \in Kind : \A i, j \in Queued(k) : entry[k][i].addr = entry[k][j].addr => i = j

\* A full write table gets room again, whatever requests arrive: the LLC's fills and
\* write-backs wait for it.
RoomReturns == occupancy["write"] = Size["write"] ~> occupancy["write"] < Size["write"]

\* When requests stop arriving, every read is answered: reads wait for ever only behind
\* writes, or behind hits in an open row, that never stop.
ReadsAnswered ==
    <>[][~NewRequest]_vars => \A a \in Addr : a \in waiting ~> a \notin waiting
=============================================================================
