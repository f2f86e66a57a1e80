------------------------------ MODULE MirageLLC ------------------------------
(***************************************************************************)
(* The Mirage last-level cache, the design the Maya cache starts from: a   *)
(* skewed tag store with spare ways in front of a data store of which any  *)
(* block may hold any address.  Every tag has data: a fill or a write-back *)
(* takes a random block, removes the tag that led there, and installs its  *)
(* own tag in the less loaded of the two candidate sets.                   *)
(*                                                                         *)
(* handle_fill and handle_writeback of one LLC with MIRAGE = 1 and         *)
(* INTERCONNECT_ON = 0, with the MSHR and the queues they serve, as in     *)
(* MayaLLC.  A way drawn beyond the end of a tag set names an entry of the *)
(* next set, which follows it in memory.                                   *)
(***************************************************************************)
EXTENDS Integers, Sequences, FiniteSets

CONSTANTS
    Addr,        \* block addresses
    NumSet,      \* sets of each skew of the tag store        (LLC_SET)
    TagWays,     \* ways of a tag set                         (extra_tag_ways, 14)
    NumWay,      \* the range random_way() draws from         (LLC_WAY, 16)
    Block,       \* the blocks of the data store              (LLC_SET x LLC_WAY)
    SkewSet,     \* SkewSet[s][a]: the set of address a in skew s
    MshrSize, WqSize, DramWqSize,
    NoAddr, NoBlock, NoEntry

Skew == {0, 1}
TagSet == 0 .. NumSet - 1
Entry == Skew \X TagSet \X (0 .. TagWays - 1)

ASSUME MirageAssumption ==
    /\ IsFiniteSet(Addr) /\ IsFiniteSet(Block)
    /\ NumSet \in Nat \ {0} /\ TagWays \in Nat \ {0} /\ NumWay \in 1 .. 2 * TagWays
    /\ SkewSet \in [Skew -> [Addr -> TagSet]]
    /\ {MshrSize, WqSize, DramWqSize} \subseteq Nat \ {0}
    /\ NoAddr \notin Addr /\ NoBlock \notin Block /\ NoEntry \notin Entry

\* Operators named Faulty... are what a slip in the code would make of the definition that
\* follows them; no specification uses them.

VARIABLES
    tags,        \* tag0 and tag1
    block,       \* the data store
    mshr,        \* per address: no entry, in flight, or data returned
    wq,          \* WQ of the LLC, oldest first
    dramWQ,      \* addresses in the write queue of the DRAM channel
    refused,     \* remove_block_based_on_tag_array has returned early
    strayed,     \* a tag has been placed past the end of its set
    refilled,    \* the addresses whose fill has found them tagged
    halt         \* why the program stopped, "no" while it runs

stores == <<tags, block, refused, strayed, refilled>>
vars == <<stores, mshr, wq, dramWQ, halt>>

\* An entry is valid when it has data, a block when it has an owner.
NoTag == [addr |-> NoAddr, data |-> NoBlock]
NoData == [addr |-> NoAddr, dirty |-> FALSE, owner |-> NoEntry]

TypeOK ==
    /\ tags \in [Entry -> [addr : Addr \cup {NoAddr}, data : Block \cup {NoBlock}]]
    /\ block \in [Block -> [addr : Addr \cup {NoAddr}, dirty : BOOLEAN,
                            owner : Entry \cup {NoEntry}]]
    /\ mshr \in [Addr -> {"idle", "waiting", "returned"}]
    /\ Cardinality({a \in Addr : mshr[a] # "idle"}) <= MshrSize
    /\ wq \in Seq(Addr) /\ Len(wq) <= WqSize
    /\ dramWQ \subseteq Addr \cup {NoAddr} /\ Cardinality(dramWQ) <= DramWqSize
    /\ refused \in BOOLEAN /\ strayed \in BOOLEAN
    /\ refilled \subseteq Addr
    /\ halt \in {"no", "owner_mismatch", "outside_tags"}

Init ==
    /\ tags = [e \in Entry |-> NoTag]
    /\ block = [b \in Block |-> NoData]
    /\ mshr = [a \in Addr |-> "idle"]
    /\ wq = <<>>
    /\ dramWQ = {}
    /\ refused = FALSE /\ strayed = FALSE /\ refilled = {}
    /\ halt = "no"

-----------------------------------------------------------------------------
(* Lookup and replacement in the tag store *)

Valid(e) == tags[e].data # NoBlock
BlockValid(b) == block[b].owner # NoEntry

SetOf(s, a) == {e \in Entry : e[1] = s /\ e[2] = SkewSet[s][a]}
Candidates(a) == SetOf(0, a) \cup SetOf(1, a)

FaultyLookup(a) == {e \in SetOf(0, a) : Valid(e) /\ tags[e].addr = a}

\* check_hit_tag: the valid entries that hold a; it returns the first of them, way by way.
Lookup(a) == {e \in Candidates(a) : Valid(e) /\ tags[e].addr = a}
First(a) ==
    {e \in Lookup(a) : \A f \in Lookup(a) : e[3] < f[3] \/ (e[3] = f[3] /\ e[1] <= f[1])}

\* llc_find_victim_tag: the first invalid way of the skew with more invalid ways, either
\* skew on a tie; with both sets full, a way drawn by random_way() in either skew.
FreeWays(s, a) == {e \in SetOf(s, a) : ~Valid(e)}
LessLoaded(a) ==
    {s \in Skew : Cardinality(FreeWays(s, a)) >= Cardinality(FreeWays(1 - s, a))}

\* The entry that tag_way names in memory, where tag1 follows tag0.
At(s, set, way) ==
    IF way < TagWays THEN <<s, set, way>>
    ELSE IF set + 1 < NumSet THEN <<s, set + 1, way - TagWays>>
    ELSE IF s = 0 THEN <<1, 0, way - TagWays>>
    ELSE NoEntry

VictimTags(a) ==
    UNION {IF FreeWays(s, a) = {}
             THEN {At(s, SkewSet[s][a], way) : way \in 0 .. NumWay - 1}
             ELSE {e \in FreeWays(s, a) : \A f \in FreeWays(s, a) : e[3] <= f[3]} :
           s \in LessLoaded(a)}

-----------------------------------------------------------------------------
(* Giving entry e and block b to address a *)

\* remove_tag_entry_from_block: its asserts, and the tag store without the tag of block b.
OwnerAgrees(b) == Valid(block[b].owner) /\ tags[block[b].owner].addr = block[b].addr
Untagged(b) == IF BlockValid(b) THEN [tags EXCEPT ![block[b].owner] = NoTag] ELSE tags

\* add_wq of a displaced dirty block, valid or not; while the DRAM queue is full it stays.
HasRoom(queue) == Cardinality(queue) < DramWqSize
FaultyCanDisplace(b) == TRUE
CanDisplace(b) == block[b].dirty => HasRoom(dramWQ)
DisplacedTo(queue, b) == IF block[b].dirty THEN queue \cup {block[b].addr} ELSE queue

\* remove_block_based_on_tag_array frees the block of a valid victim tag, unless the block
\* is dirty and the DRAM queue is full; the callers ignore that result.  The dirty bit stays.
Refuses(t, queue) == t.data # NoBlock /\ block[t.data].dirty /\ ~HasRoom(queue)
FaultyEvicts(t, queue) == FALSE
Evicts(t, queue) == t.data # NoBlock /\ ~Refuses(t, queue)
Emptied(b) == [block[b] EXCEPT !.addr = NoAddr, !.owner = NoEntry]

Halt(why) ==
    /\ halt' = why
    /\ UNCHANGED <<stores, mshr, wq, dramWQ>>

Place(a, e, b, dirty) ==
    LET queue == DisplacedTo(dramWQ, b)
        old == Untagged(b)[e]          \* what e still holds
    IN /\ tags' = [Untagged(b) EXCEPT ![e] = [addr |-> a, data |-> b]]
       /\ block' = [c \in Block |->
                      IF c = b THEN [addr |-> a, dirty |-> dirty, owner |-> e]
                      ELSE IF Evicts(old, queue) /\ c = old.data THEN Emptied(c)
                      ELSE block[c]]
       /\ dramWQ' = IF Evicts(old, queue) THEN DisplacedTo(queue, old.data) ELSE queue
       /\ refused' = (refused \/ Refuses(old, queue))
       /\ strayed' = (strayed \/ e \notin Candidates(a))

\* The common part of the two handlers: a failed assert, or a write outside the tag store,
\* stops the program; done stands for what the handler does after the placement.
Install(a, dirty, done) ==
    \E e \in VictimTags(a), b \in Block :
        /\ CanDisplace(b)
        /\ IF BlockValid(b) /\ ~OwnerAgrees(b) THEN Halt("owner_mismatch")
           ELSE IF e = NoEntry THEN Halt("outside_tags")
           ELSE Place(a, e, b, dirty) /\ done /\ UNCHANGED halt

\* handle_fill does not look for a tag of the address.
HandleFill(a) ==
    /\ halt = "no" /\ mshr[a] = "returned"
    /\ Install(a, FALSE,
               /\ mshr' = [mshr EXCEPT ![a] = "idle"]
               /\ refilled' = IF Lookup(a) = {} THEN refilled ELSE refilled \cup {a}
               /\ UNCHANGED wq)

-----------------------------------------------------------------------------
(* handle_writeback: the oldest packet of the write queue *)

WbReady(a) == halt = "no" /\ wq # <<>> /\ a = Head(wq)

WbHit(a) ==
    /\ WbReady(a)
    /\ \E e \in First(a) : block' = [block EXCEPT ![tags[e].data].dirty = TRUE]
    /\ wq' = Tail(wq)
    /\ UNCHANGED <<tags, refused, strayed, refilled, mshr, dramWQ, halt>>

WbMiss(a) ==
    /\ WbReady(a) /\ Lookup(a) = {}
    /\ Install(a, TRUE, wq' = Tail(wq) /\ UNCHANGED <<mshr, refilled>>)

HandleWriteback(a) == WbHit(a) \/ WbMiss(a)

-----------------------------------------------------------------------------
(* The rest of the cycle: requests, the upper level and DRAM *)

\* handle_read and handle_prefetch: a request without a tag takes an MSHR and goes to DRAM.
StartMiss(a) ==
    /\ halt = "no" /\ Lookup(a) = {} /\ mshr[a] = "idle"
    /\ Cardinality({x \in Addr : mshr[x] # "idle"}) < MshrSize
    /\ mshr' = [mshr EXCEPT ![a] = "waiting"]
    /\ UNCHANGED <<stores, wq, dramWQ, halt>>

\* return_data, called by the DRAM controller.
ReturnData(a) ==
    /\ halt = "no" /\ mshr[a] = "waiting"
    /\ mshr' = [mshr EXCEPT ![a] = "returned"]
    /\ UNCHANGED <<stores, wq, dramWQ, halt>>

\* add_wq, called by the L2 cache: a packet already queued is merged.
AddWq(a) ==
    /\ halt = "no" /\ Len(wq) < WqSize
    /\ \A i \in DOMAIN wq : wq[i] # a
    /\ wq' = Append(wq, a)
    /\ UNCHANGED <<stores, mshr, dramWQ, halt>>

\* The DRAM controller writes one of its queued packets.
DramWrite(a) ==
    /\ halt = "no" /\ a \in dramWQ
    /\ dramWQ' = dramWQ \ {a}
    /\ UNCHANGED <<stores, mshr, wq, halt>>

Next ==
    \/ \E a \in Addr :
          HandleFill(a) \/ HandleWriteback(a) \/ StartMiss(a) \/ ReturnData(a) \/ AddWq(a)
    \/ \E a \in Addr \cup {NoAddr} : DramWrite(a)

Spec == Init /\ [][Next]_vars

-----------------------------------------------------------------------------
(* Properties *)

\* A valid tag leads to a valid block with its address that points back to it, what
\* handle_read, handle_writeback and remove_block_based_on_tag_array assert; and, until an
\* eviction is refused by a full DRAM queue, a valid block is the data of the tag it
\* points to, so that no data is out of reach.
TagsBacked ==
    \A e \in Entry : Valid(e) =>
        /\ tags[e].data \in Block
        /\ block[tags[e].data].owner = e
        /\ block[tags[e].data].addr = tags[e].addr
BlocksOwned ==
    \A b \in Block : BlockValid(b) => tags[block[b].owner].data = b
StoresMatch == TagsBacked /\ (~refused => BlocksOwned)

\* check_hit_tag finds every tag in the sets that get_tag_set gives for its address, until
\* a way is drawn past the end of a set; and finds one only, unless a fill met a tag that a
\* write-back had installed while the fill was on its way.
LookupExact ==
    ~strayed =>
        /\ \A e \in Entry : Valid(e) => tags[e].addr \in Addr /\ e \in Candidates(tags[e].addr)
        /\ \A e, f \in Entry :
              Valid(e) /\ Valid(f) /\ tags[e].addr = tags[f].addr =>
                  e = f \/ tags[e].addr \in refilled
=============================================================================
