---------------------------- MODULE BoundedQueue ----------------------------
(***************************************************************************)
(* What the caches expect of a PACKET_QUEUE: a bounded first-in-first-out  *)
(* queue from which the oldest packet of a given address can be taken out  *)
(* of turn without disturbing the order of the others.                     *)
(***************************************************************************)
EXTENDS Naturals, Sequences, SequencesExt

CONSTANTS Packet, Capacity

VARIABLE queue

Put(p) == Len(queue) < Capacity /\ queue' = Append(queue, p)

Take == queue # <<>> /\ queue' = Tail(queue)

TakeOut(p) ==
    \E k \in DOMAIN queue :
        /\ queue[k] = p
        /\ \A j \in 1 .. k - 1 : queue[j] # p
        /\ queue' = RemoveAt(queue, k)

Next == Take \/ \E p \in Packet : Put(p) \/ TakeOut(p)

Spec == queue = <<>> /\ [][Next]_queue
=============================================================================
