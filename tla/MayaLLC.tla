------------------------------ MODULE MayaLLC ------------------------------
(***************************************************************************)
(* The Maya last-level cache: a skewed tag store with more entries than    *)
(* the data store, whose surplus entries hold a tag without data.          *)
(*                                                                         *)
(* A tag entry has priority -1 (invalid), 0 (tag only) or 1 (tag and       *)
(* data).  A miss installs a priority-0 tag; a second miss on the address, *)
(* or a write-back, gives it a random data block and priority 1.  The      *)
(* block that is displaced downgrades its own tag to priority 0.           *)
(*                                                                         *)
(* handle_fill and handle_writeback of one LLC with MAYA = 1 and           *)
(* INTERCONNECT_ON = 0, the MSHR, the write queue they serve and the DRAM  *)
(* write queue they fill.  Which packet heads RQ and PQ is left open.      *)
(* A failed assert, and a loop that cannot end, stop the program: the      *)
(* variable halt keeps the reason and no further step is possible.         *)
(***************************************************************************)
EXTENDS Integers, Sequences, FiniteSets

CONSTANTS
    Addr,        \* block addresses
    TagSet,      \* sets of each skew of the tag store       (LLC_SET)
    TagWays,     \* ways of a tag set                        (extra_tag_ways)
    NumWay,      \* ways of a data set: the range random_way() draws from
    Block,       \* the blocks of the data store             (LLC_SET x LLC_WAY)
    SkewSet,     \* SkewSet[s][a]: the set of address a in skew s
    Threshold,   \* bound on the priority-0 tags             (threshold_pr0)
    MshrSize, WqSize, DramWqSize,
    NoAddr, NoBlock, NoEntry

Skew == {0, 1}
Entry == Skew \X TagSet \X (0 .. TagWays - 1)

ASSUME ConstantAssumption ==
    /\ IsFiniteSet(Addr) /\ IsFiniteSet(TagSet) /\ IsFiniteSet(Block)
    /\ TagWays \in Nat \ {0} /\ NumWay \in 1 .. TagWays
    /\ Threshold \in Nat
    /\ SkewSet \in [Skew -> [Addr -> TagSet]]
    /\ {MshrSize, WqSize, DramWqSize} \subseteq Nat \ {0}
    /\ NoAddr \notin Addr /\ NoBlock \notin Block /\ NoEntry \notin Entry

\* Operators named Faulty... are what a slip in the code would make of the definition that
\* follows them; no specification uses them.

VARIABLES
    tags,        \* tag0 and tag1
    block,       \* the data store
    numPr0,      \* num_pr0
    mshr,        \* per address: no entry, in flight, or data returned
    wq,          \* WQ of the LLC, oldest first
    dramWQ,      \* addresses in the write queue of the DRAM channel
    saeRefused,  \* remove_block_based_on_tag_array has returned early
    halt         \* why the program stopped, "no" while it runs

vars == <<tags, block, numPr0, mshr, wq, dramWQ, saeRefused, halt>>

NoTag == [addr |-> NoAddr, priority |-> -1, data |-> NoBlock]
NoData == [addr |-> NoAddr, dirty |-> FALSE, owner |-> NoEntry]
TagOnly(a) == [addr |-> a, priority |-> 0, data |-> NoBlock]
TagWithData(a, b) == [addr |-> a, priority |-> 1, data |-> b]

Stop == {"no", "fill_hit_data", "owner_mismatch", "wb_no_free_way", "random_tag_spins"}

TypeOK ==
    /\ tags \in [Entry -> [addr : Addr \cup {NoAddr}, priority : {-1, 0, 1},
                           data : Block \cup {NoBlock}]]
    /\ block \in [Block -> [addr : Addr \cup {NoAddr}, dirty : BOOLEAN,
                            owner : Entry \cup {NoEntry}]]
    /\ numPr0 \in Int
    /\ mshr \in [Addr -> {"idle", "waiting", "returned"}]
    /\ Cardinality({a \in Addr : mshr[a] # "idle"}) <= MshrSize
    /\ wq \in Seq(Addr) /\ Len(wq) <= WqSize
    /\ dramWQ \subseteq Addr /\ Cardinality(dramWQ) <= DramWqSize
    /\ saeRefused \in BOOLEAN
    /\ halt \in Stop

Init ==
    /\ tags = [e \in Entry |-> NoTag]
    /\ block = [b \in Block |-> NoData]
    /\ numPr0 = 0
    /\ mshr = [a \in Addr |-> "idle"]
    /\ wq = <<>>
    /\ dramWQ = {}
    /\ saeRefused = FALSE
    /\ halt = "no"

-----------------------------------------------------------------------------
(* Lookup and replacement in the tag store *)

Valid(t) == t.priority # -1
BlockValid(b) == block[b].owner # NoEntry

\* The entries that may hold address a in skew s.
SetOf(s, a) == {e \in Entry : e[1] = s /\ e[2] = SkewSet[s][a]}
Candidates(a) == SetOf(0, a) \cup SetOf(1, a)

FaultyLookup(a) == {e \in SetOf(0, a) : Valid(tags[e]) /\ tags[e].addr = a}

\* check_hit_tag: the valid entries that hold a.
Lookup(a) == {e \in Candidates(a) : Valid(tags[e]) /\ tags[e].addr = a}

\* llc_find_victim_tag: the first invalid way of the skew with more invalid ways, either
\* skew on a tie; with both sets full, a way drawn by random_way() in either skew.
FreeWays(s, a) == {e \in SetOf(s, a) : ~Valid(tags[e])}
LessLoaded(a) ==
    {s \in Skew : Cardinality(FreeWays(s, a)) >= Cardinality(FreeWays(1 - s, a))}
VictimTags(a) ==
    UNION {IF FreeWays(s, a) = {}
             THEN {e \in SetOf(s, a) : e[3] < NumWay}
             ELSE {e \in FreeWays(s, a) : \A f \in FreeWays(s, a) : e[3] <= f[3]} :
           s \in LessLoaded(a)}

FaultyRandomTags(ts, s, a) ==
    {e \in Entry : e[1] = s /\ Valid(ts[e]) /\ ts[e].addr # a}

\* remove_random_tag: the entries of skew s of the tag store ts the loop may stop at.
RandomTags(ts, s, a) ==
    {e \in Entry : e[1] = s /\ ts[e].priority = 0 /\ ts[e].addr # a}

\* The tag store and the count once the threshold is enforced in skew s for address a.
Trimmed(ts, n, s, a) ==
    IF n >= Threshold THEN {[ts EXCEPT ![r] = NoTag] : r \in RandomTags(ts, s, a)} ELSE {ts}
FaultyTrimmedCount(n) == IF n > Threshold THEN n - 1 ELSE n
FaultyTrimmedKept(n) == n
TrimmedCount(n) == IF n >= Threshold THEN n - 1 ELSE n

\* remove_tag_entry_from_block: a valid block that loses its place downgrades its tag.
OwnerAgrees(b) ==
    LET t == tags[block[b].owner] IN Valid(t) /\ t.addr = block[b].addr
FaultyDowngraded(b) == tags
Downgraded(b) ==
    IF BlockValid(b)
      THEN [tags EXCEPT ![block[b].owner] =
              [addr |-> tags[block[b].owner].addr, priority |-> 0, data |-> NoBlock]]
      ELSE tags
DowngradedCount(b) == IF BlockValid(b) THEN numPr0 + 1 ELSE numPr0

DramHasRoom == Cardinality(dramWQ) < DramWqSize

FaultyCanDisplace(b) == TRUE
FaultyCleanOnly(b) == ~block[b].dirty
FaultyDisplacedTo(b) == dramWQ

\* add_wq of a displaced dirty block; while the DRAM queue is full the victim stays.
CanDisplace(b) == block[b].dirty => DramHasRoom
DisplacedTo(b) == IF block[b].dirty THEN dramWQ \cup {block[b].addr} ELSE dramWQ

Halt(why) ==
    /\ halt' = why
    /\ UNCHANGED <<tags, block, numPr0, mshr, wq, dramWQ, saeRefused>>

-----------------------------------------------------------------------------
(* handle_fill: data for address a came back from DRAM *)

FillReady(a) == halt = "no" /\ mshr[a] = "returned"

\* The tag already has data: the handler asserts.
FillMeetsData(a) ==
    /\ FillReady(a)
    /\ \E e \in Lookup(a) : tags[e].priority = 1
    /\ Halt("fill_hit_data")

\* The tag is there without data: a random block is freed, its tag downgraded, and the
\* block becomes the data of a.
FillUpgrade(a) ==
    /\ FillReady(a)
    /\ \E e \in Lookup(a), b \in Block :
          /\ tags[e].priority = 0
          /\ CanDisplace(b)
          /\ IF BlockValid(b) /\ ~OwnerAgrees(b)
               THEN Halt("owner_mismatch")
               ELSE /\ tags' = [Downgraded(b) EXCEPT ![e] = TagWithData(a, b)]
                    /\ block' = [block EXCEPT ![b] =
                                   [addr |-> a, dirty |-> FALSE, owner |-> e]]
                    /\ numPr0' = DowngradedCount(b) - 1
                    /\ mshr' = [mshr EXCEPT ![a] = "idle"]
                    /\ dramWQ' = DisplacedTo(b)
                    /\ UNCHANGED <<wq, saeRefused, halt>>

\* remove_block_based_on_tag_array on a valid priority-1 victim: frees its block, unless
\* the block is dirty and the DRAM queue is full; the caller ignores that result.
Evict(t) ==
    IF CanDisplace(t.data)
      THEN /\ block' = [block EXCEPT ![t.data] = NoData]
           /\ dramWQ' = DisplacedTo(t.data)
           /\ UNCHANGED saeRefused
      ELSE /\ saeRefused' = TRUE
           /\ UNCHANGED <<block, dramWQ>>

\* No tag for a: keep the priority-0 tags under the threshold, evict what the chosen
\* entry still holds, and install a without data.
FillInstall(a) ==
    /\ FillReady(a)
    /\ Lookup(a) = {}
    /\ \E e \in VictimTags(a) :
          \/ /\ Trimmed(tags, numPr0, e[1], a) = {}
             /\ Halt("random_tag_spins")
          \/ \E ts \in Trimmed(tags, numPr0, e[1], a) :
                /\ IF ts[e].priority = 1
                     THEN Evict(ts[e])
                     ELSE UNCHANGED <<block, dramWQ, saeRefused>>
                /\ tags' = [ts EXCEPT ![e] = TagOnly(a)]
                /\ numPr0' = IF ts[e].priority = 0 THEN TrimmedCount(numPr0)
                                                   ELSE TrimmedCount(numPr0) + 1
                /\ mshr' = [mshr EXCEPT ![a] = "idle"]
                /\ UNCHANGED <<wq, halt>>

HandleFill(a) == FillMeetsData(a) \/ FillUpgrade(a) \/ FillInstall(a)

-----------------------------------------------------------------------------
(* handle_writeback: the oldest packet of the write queue *)

WbReady(a) == halt = "no" /\ wq # <<>> /\ a = Head(wq)

\* The address has data: mark it dirty.
WbHit(a) ==
    /\ WbReady(a)
    /\ \E e \in Lookup(a) :
          /\ tags[e].priority = 1
          /\ block' = [block EXCEPT ![tags[e].data].dirty = TRUE]
    /\ wq' = Tail(wq)
    /\ UNCHANGED <<tags, numPr0, mshr, dramWQ, saeRefused, halt>>

\* Give entry e the block b and the dirty data of a: displace what b holds, enforce the
\* threshold, then fill tag and block.  gone is 1 when e was a priority-0 tag.
WbPlace(a, e, b, gone) ==
    /\ CanDisplace(b)
    /\ IF BlockValid(b) /\ ~OwnerAgrees(b) THEN Halt("owner_mismatch")
       ELSE \/ /\ Trimmed(Downgraded(b), DowngradedCount(b), e[1], a) = {}
               /\ Halt("random_tag_spins")
            \/ \E ts \in Trimmed(Downgraded(b), DowngradedCount(b), e[1], a) :
                  /\ tags' = [ts EXCEPT ![e] = TagWithData(a, b)]
                  /\ block' = [block EXCEPT ![b] = [addr |-> a, dirty |-> TRUE, owner |-> e]]
                  /\ numPr0' = TrimmedCount(DowngradedCount(b)) - gone
                  /\ wq' = Tail(wq)
                  /\ dramWQ' = DisplacedTo(b)
                  /\ UNCHANGED <<mshr, saeRefused, halt>>

\* The address has a tag without data.
WbUpgrade(a) ==
    /\ WbReady(a)
    /\ \E e \in Lookup(a), b \in Block : tags[e].priority = 0 /\ WbPlace(a, e, b, 1)

\* The address has no tag.  The handler asserts that the chosen entry is invalid.
WbInstall(a) ==
    /\ WbReady(a)
    /\ Lookup(a) = {}
    /\ \E e \in VictimTags(a) :
          IF Valid(tags[e]) THEN Halt("wb_no_free_way")
                            ELSE \E b \in Block : WbPlace(a, e, b, 0)

HandleWriteback(a) == WbHit(a) \/ WbUpgrade(a) \/ WbInstall(a)

-----------------------------------------------------------------------------
(* The rest of the cycle: requests, the upper level and DRAM *)

\* handle_read and handle_prefetch: a request that finds no data takes an MSHR and goes to
\* DRAM; one that finds an MSHR for its address merges, one that finds data or no free MSHR
\* changes nothing here.
StartMiss(a) ==
    /\ halt = "no"
    /\ ~\E e \in Lookup(a) : tags[e].priority = 1
    /\ mshr[a] = "idle"
    /\ Cardinality({x \in Addr : mshr[x] # "idle"}) < MshrSize
    /\ mshr' = [mshr EXCEPT ![a] = "waiting"]
    /\ UNCHANGED <<tags, block, numPr0, wq, dramWQ, saeRefused, halt>>

\* return_data, called by the DRAM controller.
ReturnData(a) ==
    /\ halt = "no" /\ mshr[a] = "waiting"
    /\ mshr' = [mshr EXCEPT ![a] = "returned"]
    /\ UNCHANGED <<tags, block, numPr0, wq, dramWQ, saeRefused, halt>>

\* add_wq, called by the L2 cache: a packet already queued is merged.
AddWq(a) ==
    /\ halt = "no"
    /\ \A i \in DOMAIN wq : wq[i] # a
    /\ Len(wq) < WqSize
    /\ wq' = Append(wq, a)
    /\ UNCHANGED <<tags, block, numPr0, mshr, dramWQ, saeRefused, halt>>

\* The DRAM controller writes one of its queued packets.
DramWrite(a) ==
    /\ halt = "no" /\ a \in dramWQ
    /\ dramWQ' = dramWQ \ {a}
    /\ UNCHANGED <<tags, block, numPr0, mshr, wq, saeRefused, halt>>

Next ==
    \E a \in Addr :
        \/ HandleFill(a) \/ HandleWriteback(a)
        \/ StartMiss(a) \/ ReturnData(a)
        \/ AddWq(a) \/ DramWrite(a)

Spec == Init /\ [][Next]_vars

\* operate() tries a fill and then a write-back in every cycle, each with a fresh random
\* block, so neither is passed over for ever once it can succeed again and again.  DRAM
\* answers every read, and takes a packet out of its write queue whenever that is full.
Fairness ==
    /\ \A a \in Addr : /\ SF_vars(HandleFill(a)) /\ SF_vars(HandleWriteback(a))
                      /\ WF_vars(ReturnData(a))
    /\ WF_vars(~DramHasRoom /\ \E a \in Addr : DramWrite(a))

FairSpec == Spec /\ Fairness

-----------------------------------------------------------------------------
(* Properties *)

\* A priority-1 tag always leads to a valid block with the same address that points back
\* to it: what handle_read, handle_writeback and remove_block_based_on_tag_array assert
\* before they use the block.
TagsBacked ==
    \A e \in Entry :
        tags[e].priority = 1 =>
            /\ tags[e].data \in Block
            /\ block[tags[e].data].owner = e
            /\ block[tags[e].data].addr = tags[e].addr

\* No address has two tags: check_hit_tag would find only one of them and the other
\* copy would go stale.
OneTagPerAddress ==
    \A a \in Addr : \A e, f \in Entry :
        (Valid(tags[e]) /\ Valid(tags[f]) /\ tags[e].addr = a /\ tags[f].addr = a) => e = f

\* Every valid block is the data of the priority-1 tag it points to, so no data is out of
\* reach of a lookup.
BlocksOwned ==
    \A b \in Block : BlockValid(b) => /\ tags[block[b].owner].priority = 1
                                      /\ tags[block[b].owner].data = b

\* num_pr0 counts the priority-0 tags.
CountExact == numPr0 = Cardinality({e \in Entry : tags[e].priority = 0})

\* Unless an eviction was refused by a full DRAM queue, the two stores agree.
StoresAgree == ~saeRefused => BlocksOwned /\ CountExact

\* The tag-only entries stay within the bound the design relies on, whatever fails.
ThresholdKept == numPr0 <= Threshold

\* Dirty data leaves the data store only into the DRAM write queue.
HoldsDirty(a) == \E b \in Block : block[b].dirty /\ block[b].addr = a
DirtyWrittenBack ==
    [][\A a \in Addr : HoldsDirty(a) /\ ~HoldsDirty(a)' => a \in dramWQ']_vars

\* The asserts of remove_tag_entry_from_block fire only after such a refusal.
MismatchOnlyAfterRefusal == halt = "owner_mismatch" => saeRefused

\* A miss whose data has returned is filled and gives its MSHR back, a queued
\* write-back is absorbed, unless the program stops.
MissCompletes ==
    \A a \in Addr : mshr[a] # "idle" ~> (mshr[a] = "idle" \/ halt # "no")
WritebackCompletes ==
    \A a \in Addr :
        (\E i \in DOMAIN wq : wq[i] = a) ~> (halt # "no" \/ \A i \in DOMAIN wq : wq[i] # a)

\* What the assert in handle_fill says: a fill never finds its tag with data.
FillFindsNoData == halt # "fill_hit_data"

\* What the asserts in remove_tag_entry_from_block say: a valid block's tag entry is
\* valid and holds the block's address.
VictimOwnerAgrees == halt # "owner_mismatch"

=============================================================================
