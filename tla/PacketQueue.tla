---------------------------- MODULE PacketQueue ----------------------------
(***************************************************************************)
(* PACKET_QUEUE of block.h and block.cc: the ring buffer behind RQ, WQ, PQ *)
(* and PROCESSED of every cache.  A packet is its address, and address 0   *)
(* marks an empty entry.  The callers test occupancy before they add and   *)
(* remove, and take the index they remove at from check_queue.             *)
(* MSHR and the DRAM queues use the same type as a table and call          *)
(* remove_queue on any entry: they never read head, and are not modelled   *)
(* here.                                                                   *)
(***************************************************************************)
EXTENDS Integers

CONSTANTS
    Packet,    \* addresses of the packets
    Empty,     \* the address of an unused entry (0)
    Size       \* SIZE

ASSUME QueueAssumption == Size \in Nat \ {0} /\ Empty \notin Packet

\* Operators named Faulty... are what a slip in the code would make of the definition that
\* follows them; no specification uses them.

VARIABLES entry, head, tail, occupancy

vars == <<entry, head, tail, occupancy>>

Slot == 0 .. Size - 1

TypeOK ==
    /\ entry \in [Slot -> Packet \cup {Empty}]
    /\ head \in Slot /\ tail \in Slot
    /\ occupancy \in 0 .. Size

Init ==
    /\ entry = [i \in Slot |-> Empty]
    /\ head = 0 /\ tail = 0 /\ occupancy = 0

FaultyAfter(i) == i + 1
After(i) == IF i + 1 >= Size THEN 0 ELSE i + 1
Before(i) == IF i = 0 THEN Size - 1 ELSE i - 1

\* The entries that check_queue and the asserts of remove_queue_at_index walk over: with
\* head = tail the queue is empty or full, and occupancy tells which.
InUse ==
    CASE occupancy = 0 -> {}
      [] occupancy # 0 /\ head < tail -> head .. tail - 1
      [] OTHER -> (head .. Size - 1) \cup (0 .. tail - 1)

\* The order of the walk: from head to the end, then from the start.
Rank(i) == IF i >= head THEN i - head ELSE i + Size - head

\* check_queue: the first entry with the address, if any.
CheckQueue(p) ==
    {i \in InUse : /\ entry[i] = p
                   /\ \A j \in InUse : entry[j] = p => Rank(i) <= Rank(j)}

AddQueue(p) ==
    /\ occupancy < Size
    /\ entry' = [entry EXCEPT ![tail] = p]
    /\ tail' = After(tail)
    /\ occupancy' = occupancy + 1
    /\ UNCHANGED head

RemoveQueue ==
    /\ occupancy > 0
    /\ entry' = [entry EXCEPT ![head] = Empty]
    /\ head' = After(head)
    /\ occupancy' = occupancy - 1
    /\ UNCHANGED tail

FaultyMoves(index) == {i \in Slot : index <= i /\ i < tail - 1}

\* remove_queue_at_index moves these entries one place towards the head.  No loop reads
\* an entry it has written before, so all of them move at once.
Moves(index) ==
    IF index > head /\ head >= tail
      THEN {i \in Slot : index <= i \/ (tail # 0 /\ i < Before(tail))}
      ELSE {i \in Slot : index <= i /\ i < Before(tail)}

FaultyClosed(index) ==
    [i \in Slot |-> IF i \in Moves(index) THEN entry[After(i)] ELSE entry[i]]

Closed(index) ==
    [i \in Slot |->
        CASE i = Before(tail) -> Empty
          [] i # Before(tail) /\ i \in Moves(index) -> entry[After(i)]
          [] OTHER -> entry[i]]

\* The head leaves as in remove_queue; any other entry is overwritten by those behind it.
RemoveQueueAtIndex(p) ==
    \E index \in CheckQueue(p) :
        \/ index = head /\ RemoveQueue
        \/ /\ index # head
           /\ entry' = Closed(index)
           /\ tail' = Before(tail)
           /\ occupancy' = occupancy - 1
           /\ UNCHANGED head

Next == RemoveQueue \/ \E p \in Packet : AddQueue(p) \/ RemoveQueueAtIndex(p)

Spec == Init /\ [][Next]_vars

-----------------------------------------------------------------------------
(* Properties *)

\* What the asserts of add_rq, add_wq, add_pq and remove_queue_at_index say: the entries
\* between head and tail hold packets and no other entry does, so that the next place to
\* write is empty whenever there is room.
SlotsMatch ==
    /\ \A i \in Slot : entry[i] # Empty <=> i \in InUse
    /\ tail = IF head + occupancy < Size THEN head + occupancy ELSE head + occupancy - Size

\* The ring is the queue its callers expect: first in, first out, with the first packet
\* of an address taken from any place and the order of the others kept.
Place(k) == IF head + k - 1 < Size THEN head + k - 1 ELSE head + k - 1 - Size
Contents == [k \in 1 .. occupancy |-> entry[Place(k)]]
Abstract == INSTANCE BoundedQueue WITH queue <- Contents, Capacity <- Size
QueueSpec == Abstract!Spec
=============================================================================
