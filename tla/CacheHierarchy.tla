--------------------------- MODULE CacheHierarchy ---------------------------
(***************************************************************************)
(* The L1D and the L2C of one core, both a CACHE: a read, a write and a    *)
(* prefetch queue, an MSHR and the blocks of one set.  operate() runs      *)
(* handle_fill, handle_writeback, handle_read and handle_prefetch on the   *)
(* heads of the queues; a miss of the L1D goes to the queues of the L2C,   *)
(* which answers by return_data, and a dirty victim to its write queue.    *)
(*                                                                         *)
(* The core and its prefetchers put requests in the queues at any time;    *)
(* the LLC answers each miss of the L2C once, in any order, and may refuse *)
(* a request for as long as its queues are full.  Latencies are            *)
(* abstracted: a step that is due may happen later.                        *)
(***************************************************************************)
EXTENDS Integers, Sequences, FiniteSets

CONSTANTS
    Addr, NoAddr,    \* block addresses, and the address of an invalid way
    Way,             \* by cache: the number of ways
    RqSize, WqSize, PqSize, MshrSize

Cache == {"L1D", "L2C"}
Level == [c \in Cache |-> IF c = "L1D" THEN 1 ELSE 2]   \* FILL_L1, FILL_L2

ASSUME HierarchyAssumption ==
    /\ IsFiniteSet(Addr) /\ NoAddr \notin Addr
    /\ Way \in [Cache -> Nat \ {0}]
    /\ RqSize \in [Cache -> Nat \ {0}] /\ WqSize \in [Cache -> Nat \ {0}]
    /\ PqSize \in [Cache -> Nat \ {0}] /\ MshrSize \in [Cache -> Nat \ {0}]
    /\ MshrSize["L1D"] <= RqSize["L2C"]   \* 16 and 32

\* Operators named Faulty... are what a slip in the code would make of the definition that
\* follows them; no specification uses them.

VARIABLES
    block,      \* by cache and way: address and, for the L1D, dirty: what the L2C evicts goes
                \* to the LLC, which is not part of this module
    rq, wq,     \* the addresses in RQ and WQ; in WQ of the L1D, once for each word stored
    pq,         \* the addresses in PQ, with their fill_level
    mshr,       \* by cache and address: type, fill_level and returned
    waiting     \* the addresses whose loads the core has not seen in PROCESSED

vars == <<block, rq, wq, pq, mshr, waiting>>

Kind == {"none", "load", "rfo", "prefetch"}
NoMiss == [kind |-> "none", fill |-> 0, returned |-> FALSE]
Prefetch == [addr : Addr, fill : 1 .. 2]

TypeOK ==
    /\ \A c \in Cache :
          /\ block[c] \in [1 .. Way[c] -> [addr : Addr \cup {NoAddr}, dirty : BOOLEAN]]
          /\ rq[c] \in Seq(Addr) /\ Len(rq[c]) <= RqSize[c]
          /\ wq[c] \in Seq(Addr) /\ Len(wq[c]) <= WqSize[c]
          /\ pq[c] \in Seq(Prefetch) /\ Len(pq[c]) <= PqSize[c]
          /\ mshr[c] \in [Addr -> [kind : Kind, fill : 0 .. 2, returned : BOOLEAN]]
          /\ Cardinality({a \in Addr : mshr[c][a].kind # "none"}) <= MshrSize[c]
    /\ waiting \subseteq Addr

Init ==
    /\ block = [c \in Cache |-> [w \in 1 .. Way[c] |-> [addr |-> NoAddr, dirty |-> FALSE]]]
    /\ rq = [c \in Cache |-> <<>>] /\ wq = [c \in Cache |-> <<>>]
    /\ pq = [c \in Cache |-> <<>>]
    /\ mshr = [c \in Cache |-> [a \in Addr |-> NoMiss]]
    /\ waiting = {}

-----------------------------------------------------------------------------
(* The queues *)

Elements(q) == {q[n] : n \in 1 .. Len(q)}
Prefetched(q) == {q[n].addr : n \in 1 .. Len(q)}
Push(q, e) == IF e \in Elements(q) THEN q ELSE Append(q, e)

\* check_queue and remove_queue_at_index: the entry of this address, if there is one.
RemoveAt(q, i) == [n \in 1 .. Len(q) - 1 |-> IF n < i THEN q[n] ELSE q[n + 1]]
Drop(q, a) ==
    IF a \in Elements(q) THEN RemoveAt(q, CHOOSE i \in 1 .. Len(q) : q[i] = a) ELSE q
DropPrefetch(q, a) ==
    IF a \in Prefetched(q) THEN RemoveAt(q, CHOOSE i \in 1 .. Len(q) : q[i].addr = a) ELSE q

\* add_pq: an entry for the address takes the lower of the two fill levels.
FaultyPushPrefetch(q, a, fill) ==
    IF a \in Prefetched(q) THEN q ELSE Append(q, [addr |-> a, fill |-> fill])

PushPrefetch(q, a, fill) ==
    IF a \in Prefetched(q)
      THEN [n \in 1 .. Len(q) |->
              IF q[n].addr = a /\ fill < q[n].fill THEN [q[n] EXCEPT !.fill = fill] ELSE q[n]]
      ELSE Append(q, [addr |-> a, fill |-> fill])

Missing(c, a) == mshr[c][a].kind # "none"
InFlight(c, a) == Missing(c, a) /\ ~mshr[c][a].returned
MshrRoom(c) == Cardinality({a \in Addr : Missing(c, a)}) < MshrSize[c]
Miss(kind, fill) == [kind |-> kind, fill |-> fill, returned |-> FALSE]
Lower(m, fill) == [m EXCEPT !.fill = IF fill < @ THEN fill ELSE @]

FaultyDemand(m, kind) == Lower(m, 1)

\* A demand that meets a prefetch in the MSHR takes its entry over, except for returned.
Demand(m, kind) ==
    IF m.kind = "prefetch" THEN [m EXCEPT !.kind = kind, !.fill = 1] ELSE Lower(m, 1)

\* return_data, which asserts that the address is in the MSHR.
Answerable(a) == Missing("L1D", a)
Answered(m, a) == [m EXCEPT ![a].returned = TRUE]

-----------------------------------------------------------------------------
(* Blocks *)

Ways(c) == 1 .. Way[c]
Hits(c, a) == {w \in Ways(c) : block[c][w].addr = a}
Hit(c, a) == Hits(c, a) # {}
FirstHit(c, a) == {w \in Hits(c, a) : \A x \in Hits(c, a) : w <= x}

\* find_victim: an invalid way if there is one, otherwise any.
Victims(c) == IF Hits(c, NoAddr) = {} THEN Ways(c)
              ELSE {w \in Hits(c, NoAddr) : \A x \in Hits(c, NoAddr) : w <= x}

\* The block replaces a victim, whose dirty data needs a place in the next write queue.
FaultyVictimRoom(c, w) == TRUE
VictimRoom(c, w) ==
    c = "L1D" /\ block[c][w].dirty => Len(wq["L2C"]) < WqSize["L2C"]
Replace(c, w, a, dirty) ==
    block' = [block EXCEPT ![c][w] = [addr |-> a, dirty |-> dirty]]
WithVictim(q, c, w) ==
    IF c = "L1D" /\ block[c][w].dirty
      THEN [q EXCEPT !["L2C"] = Push(@, block[c][w].addr)] ELSE q

-----------------------------------------------------------------------------
(* The core, the prefetchers and the LLC *)

\* The write queue of the L1D is searched by full_addr: a queued store answers a load or a
\* prefetch of its own word, and takes in a store to it, which changes nothing here.  The
\* steps below are those of another word, which pass by the queued stores of the block.

\* execute_load: add_rq of the L1D.
CoreLoad(a) ==
    /\ a \in Elements(rq["L1D"]) \/ Len(rq["L1D"]) < RqSize["L1D"]
    /\ rq' = [rq EXCEPT !["L1D"] = Push(@, a)]
    /\ waiting' = waiting \cup {a}
    /\ UNCHANGED <<block, wq, pq, mshr>>

\* retire_rob: add_wq of the L1D, after a look at its occupancy.
CoreStore(a) ==
    /\ Len(wq["L1D"]) < WqSize["L1D"]
    /\ wq' = [wq EXCEPT !["L1D"] = Append(@, a)]
    /\ UNCHANGED <<block, rq, pq, mshr, waiting>>

\* prefetch_line: into this cache or, from the L1D, into the next.
PrefetchLine(c, a, fill) ==
    /\ Level[c] <= fill
    /\ Len(pq[c]) < PqSize[c]
    /\ c = "L2C" => a \notin Elements(wq[c])
    /\ pq' = [pq EXCEPT ![c] = PushPrefetch(@, a, fill)]
    /\ UNCHANGED <<block, rq, wq, mshr, waiting>>

LlcAnswers(a) ==
    /\ InFlight("L2C", a)
    /\ mshr' = [mshr EXCEPT !["L2C"] = Answered(@, a)]
    /\ UNCHANGED <<block, rq, wq, pq, waiting>>

-----------------------------------------------------------------------------
(* What the L1D sends to the L2C, as new values of the L2C's queue and the L1D's MSHR m *)

FaultySent(a, m) == m

\* add_rq: a read whose address is in WQ is answered from there.
Sent(a, m) == IF a \in Elements(wq["L2C"]) THEN Answered(m, a) ELSE m

\* Otherwise it is merged, or dropped when RQ is full: the L1D does not look at the result.
ReadSent(a) ==
    IF a \in Elements(wq["L2C"]) \/ Len(rq["L2C"]) = RqSize["L2C"] THEN rq["L2C"]
    ELSE Push(rq["L2C"], a)

NewMiss(a, kind) ==
    /\ MshrRoom("L1D")
    /\ mshr' = [mshr EXCEPT !["L1D"] = Sent(a, [@ EXCEPT ![a] = Miss(kind, 1)])]
    /\ rq' = [rq EXCEPT !["L2C"] = ReadSent(a)]

-----------------------------------------------------------------------------
(* handle_fill *)

\* What the fill takes out of RQ: a read whose answer this fill is.
Leaves(c, a) == c = "L2C" /\ mshr[c][a].fill < Level[c]

HandleFill(c, a) ==
    /\ Missing(c, a) /\ mshr[c][a].returned
    /\ mshr[c][a].fill < Level[c] => Answerable(a)
    /\ \E w \in Victims(c) :
         /\ VictimRoom(c, w)
         /\ Replace(c, w, a, c = "L1D" /\ mshr[c][a].kind = "rfo")
         /\ wq' = WithVictim(wq, c, w)
    /\ mshr' = [d \in Cache |->
         IF d = c THEN [mshr[d] EXCEPT ![a] = NoMiss]
         ELSE IF mshr[c][a].fill < Level[c] THEN Answered(mshr[d], a) ELSE mshr[d]]
    /\ rq' = IF Leaves(c, a) THEN [rq EXCEPT ![c] = Drop(@, a)] ELSE rq
    /\ waiting' = IF c = "L1D" /\ mshr[c][a].kind # "prefetch" THEN waiting \ {a} ELSE waiting
    /\ UNCHANGED pq

-----------------------------------------------------------------------------
(* handle_writeback: stores of the core at the L1D, evicted blocks at the L2C *)

Pop(q, c) == [q EXCEPT ![c] = Tail(@)]

WriteHit(c, a) ==
    /\ \E w \in FirstHit(c, a) : Replace(c, w, a, c = "L1D")
    /\ wq' = Pop(wq, c)
    /\ UNCHANGED <<rq, pq, mshr, waiting>>

StoreMiss(a) ==
    /\ ~Hit("L1D", a)
    /\ \/ ~Missing("L1D", a) /\ NewMiss(a, "rfo")
       \/ /\ Missing("L1D", a)
          /\ mshr' = [mshr EXCEPT !["L1D"][a] = Demand(@, "rfo")]
          /\ UNCHANGED rq
    /\ wq' = Pop(wq, "L1D")
    /\ UNCHANGED <<block, pq, waiting>>

\* The evicted block takes a way at once, whatever the MSHR holds.
AllocateMiss(a) ==
    /\ ~Hit("L2C", a)
    /\ \E w \in Victims("L2C") : Replace("L2C", w, a, FALSE)
    /\ wq' = Pop(wq, "L2C")
    /\ UNCHANGED <<rq, pq, mshr, waiting>>

HandleWriteback(c) ==
    /\ wq[c] # <<>>
    /\ LET a == Head(wq[c])
       IN WriteHit(c, a) \/ (c = "L1D" /\ StoreMiss(a)) \/ (c = "L2C" /\ AllocateMiss(a))

-----------------------------------------------------------------------------
(* handle_read *)

ReadHitL1(a) ==
    /\ Hit("L1D", a)
    /\ waiting' = waiting \ {a}
    /\ rq' = Pop(rq, "L1D")
    /\ UNCHANGED <<block, wq, pq, mshr>>

ReadHitL2(a) ==
    /\ Hit("L2C", a) /\ Answerable(a)
    /\ mshr' = [mshr EXCEPT !["L1D"] = Answered(@, a)]
    /\ rq' = Pop(rq, "L2C")
    /\ UNCHANGED <<block, wq, pq, waiting>>

LoadNewMiss(a) ==
    /\ ~Hit("L1D", a) /\ ~Missing("L1D", a)
    /\ MshrRoom("L1D")
    /\ mshr' = [mshr EXCEPT !["L1D"] = Sent(a, [@ EXCEPT ![a] = Miss("load", 1)])]
    /\ rq' = [rq EXCEPT !["L1D"] = Tail(@), !["L2C"] = ReadSent(a)]
    /\ UNCHANGED <<block, wq, pq, waiting>>

\* A load that meets a prefetch in flight sends a read after it (add_read_to_lower_level)
\* and takes the prefetch out of the L2C's queue, before it takes over the MSHR entry.
LatePrefetch(a) == mshr["L1D"][a].kind = "prefetch" /\ InFlight("L1D", a)

Merged(a) == Missing("L1D", a) /\ ~LatePrefetch(a)

LoadMerges(a) ==
    /\ ~Hit("L1D", a)
    /\ \/ Merged(a) /\ rq' = Pop(rq, "L1D") /\ UNCHANGED pq
       \/ /\ LatePrefetch(a) /\ Len(rq["L2C"]) < RqSize["L2C"]
          /\ rq' = [rq EXCEPT !["L1D"] = Tail(@), !["L2C"] = ReadSent(a)]
          /\ pq' = [pq EXCEPT !["L2C"] = DropPrefetch(@, a)]
    /\ mshr' = [mshr EXCEPT !["L1D"][a] = Demand(@, "load")]
    /\ UNCHANGED <<block, wq, waiting>>

ReadMissL2(a) ==
    /\ ~Hit("L2C", a)
    /\ \/ /\ ~Missing("L2C", a) /\ MshrRoom("L2C")
          /\ mshr' = [mshr EXCEPT !["L2C"][a] = Miss("load", 1)]
       \/ /\ Missing("L2C", a)
          /\ mshr' = [mshr EXCEPT !["L2C"][a] = Demand(@, "load")]
    /\ rq' = Pop(rq, "L2C")
    /\ UNCHANGED <<block, wq, pq, waiting>>

HandleRead(c) ==
    /\ rq[c] # <<>>
    /\ LET a == Head(rq[c])
       IN \/ c = "L1D" /\ (ReadHitL1(a) \/ LoadNewMiss(a) \/ LoadMerges(a))
          \/ c = "L2C" /\ (ReadHitL2(a) \/ ReadMissL2(a))

-----------------------------------------------------------------------------
(* handle_prefetch *)

\* add_pq of the L2C: its write queue answers a prefetch the L1D waits for.
PrefetchSent(a, fill) ==
    IF a \in Elements(wq["L2C"]) THEN pq["L2C"] ELSE PushPrefetch(pq["L2C"], a, fill)

PrefetchHit(c, p) ==
    /\ Hit(c, p.addr)
    /\ p.fill < Level[c] => Answerable(p.addr)
    /\ mshr' = IF p.fill < Level[c] THEN [mshr EXCEPT !["L1D"] = Answered(@, p.addr)] ELSE mshr
    /\ pq' = Pop(pq, c)

FaultyKeepsMiss(p) == FALSE
KeepsMiss(p) == p.fill <= 1

PrefetchMissL1(p) ==
    /\ ~Hit("L1D", p.addr) /\ ~Missing("L1D", p.addr) /\ MshrRoom("L1D")
    /\ Len(pq["L2C"]) < PqSize["L2C"]
    /\ mshr' = [mshr EXCEPT !["L1D"] =
                  IF KeepsMiss(p)
                    THEN Sent(p.addr, [@ EXCEPT ![p.addr] = Miss("prefetch", 1)]) ELSE @]
    /\ pq' = [pq EXCEPT !["L1D"] = Tail(@), !["L2C"] = PrefetchSent(p.addr, p.fill)]

PrefetchMissL2(p) ==
    /\ ~Hit("L2C", p.addr) /\ ~Missing("L2C", p.addr) /\ MshrRoom("L2C")
    /\ mshr' = [mshr EXCEPT !["L2C"][p.addr] = Miss("prefetch", p.fill)]
    /\ pq' = Pop(pq, "L2C")

PrefetchMerges(c, p) ==
    /\ ~Hit(c, p.addr) /\ Missing(c, p.addr)
    /\ mshr' = [mshr EXCEPT ![c][p.addr] = Lower(@, p.fill)]
    /\ pq' = Pop(pq, c)

HandlePrefetch(c) ==
    /\ pq[c] # <<>>
    /\ LET p == Head(pq[c])
       IN \/ PrefetchHit(c, p) \/ PrefetchMerges(c, p)
          \/ c = "L1D" /\ PrefetchMissL1(p)
          \/ c = "L2C" /\ PrefetchMissL2(p)
    /\ UNCHANGED <<block, rq, wq, waiting>>

-----------------------------------------------------------------------------
Operate(c) ==
    \/ \E a \in Addr : HandleFill(c, a)
    \/ HandleWriteback(c) \/ HandleRead(c) \/ HandlePrefetch(c)

NewRequest ==
    \E a \in Addr :
        \/ CoreLoad(a) \/ CoreStore(a)
        \/ \E c \in Cache, fill \in 1 .. 2 : PrefetchLine(c, a, fill)

Served == (\E c \in Cache : Operate(c)) \/ \E a \in Addr : LlcAnswers(a)

Next == NewRequest \/ Served

Spec == Init /\ [][Next]_vars

\* operate() of every cache runs in every cycle, and the LLC answers what it is asked.
Fairness == WF_vars(Served)

FairSpec == Spec /\ Fairness

-----------------------------------------------------------------------------
(* Properties *)

\* A request below that will answer the L1D about this address.
Asks(a) ==
    \/ a \in Elements(rq["L2C"])
    \/ [addr |-> a, fill |-> 1] \in Elements(pq["L2C"])
    \/ Missing("L2C", a) /\ mshr["L2C"][a].fill = 1

\* The L1D waits for exactly the addresses the L2C is going to answer: no miss is dropped
\* by the add_rq whose result it ignores or by the removal of a redundant read, and
\* return_data finds its MSHR entry (its assert).
AnswersMatch ==
    \A a \in Addr : InFlight("L1D", a) <=> Asks(a)

\* A miss does not overtake the write-back of its own block, whose data it would not see.
NoOvertaking ==
    \A a \in Addr : InFlight("L1D", a) => a \notin Elements(wq["L2C"])

\* "RFO marks cache line dirty": a store leaves the write queue of the L1D for a dirty
\* block, or for a miss whose fill will be dirty.
RfoMarksDirty ==
    [][Len(wq'["L1D"]) < Len(wq["L1D"]) =>
          LET a == Head(wq["L1D"])
          IN \/ \E w \in Ways("L1D") : block'["L1D"][w] = [addr |-> a, dirty |-> TRUE]
             \/ mshr'["L1D"][a].kind = "rfo"]_vars

\* A load the core waits for is still to be read, or in a miss that will report it: the
\* fill of a prefetch does not.
LoadsTracked ==
    \A a \in waiting : a \in Elements(rq["L1D"]) \/ mshr["L1D"][a].kind \in {"load", "rfo"}

\* The two caches never wait for one another: once the core and the prefetchers stop
\* asking, every load is answered, every store and write-back is done and every miss ends.
Quiet ==
    /\ waiting = {}
    /\ \A c \in Cache : /\ rq[c] = <<>> /\ wq[c] = <<>> /\ pq[c] = <<>>
                         /\ \A a \in Addr : ~Missing(c, a)
Drains == <>[][~NewRequest]_vars => []<>Quiet
=============================================================================
