--------------------------- MODULE MayaLLC_proofs ---------------------------
(***************************************************************************)
(* Invariants of MayaLLC for every number of addresses, sets, ways and     *)
(* blocks.  IInv is inductive: TagsBacked alone is not, because the        *)
(* displaced block must lead to the one tag that may point to it, and      *)
(* OneTagPerAddress needs every tag to stand where a lookup searches.      *)
(***************************************************************************)
EXTENDS MayaLLC, FiniteSetTheorems, TLAPS

Tag == [addr : Addr \cup {NoAddr}, priority : {-1, 0, 1}, data : Block \cup {NoBlock}]
Datum == [addr : Addr \cup {NoAddr}, dirty : BOOLEAN, owner : Entry \cup {NoEntry}]

\* The part of TypeOK about single values.
Types ==
    /\ tags \in [Entry -> Tag]
    /\ block \in [Block -> Datum]
    /\ numPr0 \in Int
    /\ mshr \in [Addr -> {"idle", "waiting", "returned"}]
    /\ wq \in Seq(Addr)
    /\ dramWQ \subseteq Addr
    /\ saeRefused \in BOOLEAN
    /\ halt \in Stop

\* A valid tag holds an address and stands in a set where that address is looked up.
TagsInPlace ==
    \A e \in Entry : Valid(tags[e]) =>
        /\ tags[e].addr \in Addr
        /\ e \in Candidates(tags[e].addr)

\* A dirty block is valid, and a valid block holds an address.
BlocksInShape ==
    \A b \in Block : /\ block[b].dirty => BlockValid(b)
                     /\ BlockValid(b) => block[b].addr \in Addr

\* The two stores: what every handler must restore before it ends.
StoresInv ==
    /\ TagsInPlace /\ BlocksInShape
    /\ TagsBacked /\ OneTagPerAddress
    /\ ~saeRefused => BlocksOwned

\* The bounds of TypeOK on what the queues and the MSHR hold.
QueuesBounded ==
    /\ Cardinality({x \in Addr : mshr[x] # "idle"}) <= MshrSize
    /\ Len(wq) <= WqSize
    /\ Cardinality(dramWQ) <= DramWqSize

IInv ==
    /\ Types /\ StoresInv /\ QueuesBounded
    /\ ~saeRefused => CountExact
    /\ ThresholdKept /\ MismatchOnlyAfterRefusal

-----------------------------------------------------------------------------
(* Lemmas about the operators *)

\* Lookups and victims are entries of the address's candidate sets.
LEMMA LookupInCandidates ==
    ASSUME NEW a \in Addr
    PROVE  /\ Candidates(a) \subseteq Entry
           /\ Lookup(a) \subseteq Candidates(a)
           /\ VictimTags(a) \subseteq Candidates(a)
<1>1. Candidates(a) \subseteq Entry /\ Lookup(a) \subseteq Candidates(a)
  BY DEF Candidates, SetOf, Lookup
<1>2. ASSUME NEW e \in VictimTags(a) PROVE e \in Candidates(a)
  <2>1. PICK s \in LessLoaded(a) :
          e \in IF FreeWays(s, a) = {}
                  THEN {x \in SetOf(s, a) : x[3] < NumWay}
                  ELSE {x \in FreeWays(s, a) : \A f \in FreeWays(s, a) : x[3] <= f[3]}
    BY <1>2 DEF VictimTags
  <2>2. e \in SetOf(s, a)
    BY <2>1 DEF FreeWays
  <2>3. s \in {0, 1}
    BY <2>1 DEF LessLoaded, Skew
  <2>. QED BY <2>2, <2>3 DEF Candidates
<1>. QED BY <1>1, <1>2

\* remove_random_tag drops at most one entry, of priority 0 and another address.
LEMMA TrimmedDropsOne ==
    ASSUME NEW t0 \in [Entry -> Tag], NEW n, NEW s, NEW a, NEW ts \in Trimmed(t0, n, s, a)
    PROVE  /\ ts \in [Entry -> Tag]
           /\ \A f \in Entry : \/ ts[f] = t0[f]
                               \/ /\ ts[f] = NoTag
                                  /\ t0[f].priority = 0 /\ t0[f].addr # a
<1>1. NoTag \in Tag
  BY DEF NoTag, Tag
<1>2. CASE n >= Threshold
  <2>1. PICK r \in RandomTags(t0, s, a) : ts = [t0 EXCEPT ![r] = NoTag]
    BY <1>2 DEF Trimmed
  <2>2. r \in Entry /\ t0[r].priority = 0 /\ t0[r].addr # a
    BY DEF RandomTags
  <2>. QED BY <2>1, <2>2, <1>1
<1>3. CASE ~(n >= Threshold)
  BY <1>3 DEF Trimmed
<1>. QED BY <1>2, <1>3

\* remove_tag_entry_from_block only lowers the priority of the entry that owns the block.
LEMMA DowngradedLowersOwner ==
    ASSUME Types, NEW b \in Block
    PROVE  /\ Downgraded(b) \in [Entry -> Tag]
           /\ \A f \in Entry : f # block[b].owner => Downgraded(b)[f] = tags[f]
           /\ \A f \in Entry : f = block[b].owner =>
                 Downgraded(b)[f].addr = tags[f].addr /\ Downgraded(b)[f].priority = 0
<1>1. CASE BlockValid(b)
  <2>1. block[b].owner \in Entry
    BY <1>1 DEF Types, Datum, BlockValid
  <2> DEFINE low == [addr |-> tags[block[b].owner].addr, priority |-> 0, data |-> NoBlock]
  <2>2. low \in Tag
    BY <2>1 DEF Types, Tag
  <2>3. Downgraded(b) = [tags EXCEPT ![block[b].owner] = low]
    BY <1>1 DEF Downgraded
  <2>. HIDE DEF low
  <2>4. Downgraded(b) \in [Entry -> Tag]
    BY <2>1, <2>2, <2>3 DEF Types
  <2>5. Downgraded(b)[block[b].owner] = low
    BY <2>1, <2>3 DEF Types
  <2>6. \A f \in Entry : f # block[b].owner => Downgraded(b)[f] = tags[f]
    BY <2>3 DEF Types
  <2>7. low.addr = tags[block[b].owner].addr /\ low.priority = 0
    BY DEF low
  <2>. QED BY <2>4, <2>5, <2>6, <2>7
<1>2. CASE ~BlockValid(b)
  <2>1. block[b].owner \notin Entry
    BY <1>2, ConstantAssumption DEF BlockValid
  <2>. QED BY <1>2, <2>1 DEF Downgraded, Types
<1>. QED BY <1>1, <1>2

\* Without a refused eviction the tag of a valid block always passes the asserts.
LEMMA OwnersAgree ==
    ASSUME Types, StoresInv, ~saeRefused, NEW b \in Block, BlockValid(b)
    PROVE  OwnerAgrees(b) /\ tags[block[b].owner].priority = 1
<1>1. block[b].owner \in Entry
  BY DEF Types, Datum, BlockValid
<1>2. tags[block[b].owner].priority = 1 /\ tags[block[b].owner].data = b
  BY DEF StoresInv, BlocksOwned
<1>. QED BY <1>1, <1>2 DEF StoresInv, TagsBacked, OwnerAgrees, Valid

\* The threshold is restored with room for one more priority-0 tag.
LEMMA TrimmedCountLeavesRoom ==
    ASSUME NEW n \in Int, n <= Threshold + 1
    PROVE  /\ TrimmedCount(n) \in Int
           /\ TrimmedCount(n) <= Threshold
           /\ n <= Threshold => TrimmedCount(n) + 1 <= Threshold
BY ConstantAssumption DEF TrimmedCount

LEMMA DowngradedCountType ==
    ASSUME numPr0 \in Int, NEW b \in Block
    PROVE  DowngradedCount(b) \in Int /\ DowngradedCount(b) <= numPr0 + 1
BY DEF DowngradedCount

LEMMA DisplacedToType ==
    ASSUME Types, StoresInv, NEW b \in Block
    PROVE  DisplacedTo(b) \subseteq Addr
BY DEF DisplacedTo, Types, StoresInv, BlocksInShape

LEMMA DisplacedToBounded ==
    ASSUME Types, QueuesBounded, NEW b \in Block, CanDisplace(b)
    PROVE  Cardinality(DisplacedTo(b)) <= DramWqSize
<1>1. IsFiniteSet(dramWQ)
  BY FS_Subset, ConstantAssumption DEF Types
<1>2. Cardinality(dramWQ) \in Nat /\ DramWqSize \in Nat
  BY <1>1, FS_CardinalityType, ConstantAssumption
<1>3. CASE block[b].dirty
  <2>1. Cardinality(dramWQ) + 1 <= DramWqSize
    BY <1>2, <1>3 DEF CanDisplace, DramHasRoom
  <2>2. \/ Cardinality(dramWQ \cup {block[b].addr}) = Cardinality(dramWQ)
        \/ Cardinality(dramWQ \cup {block[b].addr}) = Cardinality(dramWQ) + 1
    BY <1>1, FS_AddElement
  <2>. QED BY <1>2, <1>3, <2>1, <2>2 DEF DisplacedTo
<1>4. CASE ~block[b].dirty
  BY <1>4 DEF DisplacedTo, QueuesBounded
<1>. QED BY <1>3, <1>4

\* A set that only shrinks keeps its bound: entries leave the MSHR and the DRAM queue.
LEMMA SubsetKeepsBound ==
    ASSUME NEW S \in SUBSET Addr, NEW T \in SUBSET S, NEW n \in Nat, Cardinality(S) <= n
    PROVE  Cardinality(T) <= n
<1>1. IsFiniteSet(S)
  BY FS_Subset, ConstantAssumption
<1>2. IsFiniteSet(T) /\ Cardinality(T) <= Cardinality(S)
  BY <1>1, FS_Subset
<1>. QED BY <1>1, <1>2, FS_CardinalityType

-----------------------------------------------------------------------------
(* Counting the priority-0 tags *)

TagOnlyEntries(ts) == {e \in Entry : ts[e].priority = 0}

LEMMA EntryFinite == IsFiniteSet(Entry)
<1> DEFINE W == 0 .. TagWays - 1
           P == (Skew \X TagSet) \X W
           f == [e \in Entry |-> <<<<e[1], e[2]>>, e[3]>>]
<1>1. IsFiniteSet(Skew)
  <2>1. Skew = {0} \cup {1}
    BY DEF Skew
  <2>. QED BY <2>1, FS_Singleton, FS_AddElement
<1>2. IsFiniteSet(W)
  BY FS_Interval, ConstantAssumption
<1>3. IsFiniteSet(Skew \X TagSet)
  BY <1>1, FS_Product, ConstantAssumption
<1>4. IsFiniteSet(P)
  BY <1>2, <1>3, FS_Product
<1>5. \A e \in Entry : e = <<e[1], e[2], e[3]>> /\ e[1] \in Skew /\ e[2] \in TagSet /\ e[3] \in W
  BY DEF Entry
<1>6. f \in [Entry -> P]
  BY <1>5
<1>7. f \in Injection(Entry, P)
  <2>1. \A x, y \in Entry : f[x] = f[y] => x = y
    BY <1>5
  <2>. QED BY <1>6, <2>1, Zenon DEF Injection, IsInjective
<1>. QED BY <1>4, <1>7, FS_Injection

\* What one write to the tag store does to the number of priority-0 tags.
LEMMA CountAfterWrite ==
    ASSUME NEW ts \in [Entry -> Tag], NEW e \in Entry, NEW t \in Tag
    PROVE  /\ Cardinality(TagOnlyEntries(ts)) \in Nat
           /\ Cardinality(TagOnlyEntries([ts EXCEPT ![e] = t])) =
                Cardinality(TagOnlyEntries(ts))
                  - (IF ts[e].priority = 0 THEN 1 ELSE 0)
                  + (IF t.priority = 0 THEN 1 ELSE 0)
<1> DEFINE S == TagOnlyEntries(ts)
           R == S \ {e}
           S2 == TagOnlyEntries([ts EXCEPT ![e] = t])
<1>1. IsFiniteSet(S) /\ IsFiniteSet(R)
  BY EntryFinite, FS_Subset, FS_RemoveElement DEF TagOnlyEntries
<1>2. Cardinality(S) \in Nat /\ Cardinality(R) \in Nat
  BY <1>1, FS_CardinalityType
<1>3. Cardinality(R) = IF e \in S THEN Cardinality(S) - 1 ELSE Cardinality(S)
  BY <1>1, FS_RemoveElement
<1>4. e \in S <=> ts[e].priority = 0
  BY DEF TagOnlyEntries
<1>5. S2 = IF t.priority = 0 THEN R \cup {e} ELSE R
  BY DEF TagOnlyEntries
<1>6. Cardinality(R \cup {e}) = Cardinality(R) + 1
  BY <1>1, FS_AddElement
<1>. HIDE DEF S, R, S2
<1>7. Cardinality(S2) = Cardinality(S) - (IF ts[e].priority = 0 THEN 1 ELSE 0)
                                       + (IF t.priority = 0 THEN 1 ELSE 0)
  BY <1>2, <1>3, <1>4, <1>5, <1>6
<1>. QED BY <1>2, <1>7 DEF S, S2

\* remove_random_tag keeps the count.
LEMMA TrimmedKeepsCount ==
    ASSUME NEW t0 \in [Entry -> Tag], NEW n, n = Cardinality(TagOnlyEntries(t0)),
           NEW s, NEW a, NEW ts \in Trimmed(t0, n, s, a)
    PROVE  TrimmedCount(n) = Cardinality(TagOnlyEntries(ts))
<1>1. NoTag \in Tag /\ NoTag.priority = -1
  BY DEF NoTag, Tag
<1>2. CASE n >= Threshold
  <2>1. PICK r \in RandomTags(t0, s, a) : ts = [t0 EXCEPT ![r] = NoTag]
    BY <1>2 DEF Trimmed
  <2>2. r \in Entry /\ t0[r].priority = 0
    BY DEF RandomTags
  <2>3. /\ Cardinality(TagOnlyEntries(t0)) \in Nat
        /\ Cardinality(TagOnlyEntries([t0 EXCEPT ![r] = NoTag])) =
             Cardinality(TagOnlyEntries(t0))
               - (IF t0[r].priority = 0 THEN 1 ELSE 0)
               + (IF NoTag.priority = 0 THEN 1 ELSE 0)
    BY <1>1, <2>2, CountAfterWrite
  <2>4. Cardinality(TagOnlyEntries(ts)) = n - 1
    BY <1>1, <2>1, <2>2, <2>3
  <2>. QED BY <1>2, <2>4 DEF TrimmedCount
<1>3. CASE ~(n >= Threshold)
  BY <1>3 DEF Trimmed, TrimmedCount
<1>. QED BY <1>2, <1>3

\* remove_tag_entry_from_block keeps the count when the owner had data.
LEMMA DowngradedKeepsCount ==
    ASSUME Types, CountExact, NEW b \in Block,
           BlockValid(b) => tags[block[b].owner].priority = 1
    PROVE  DowngradedCount(b) = Cardinality(TagOnlyEntries(Downgraded(b)))
<1>1. numPr0 = Cardinality(TagOnlyEntries(tags))
  BY DEF CountExact, TagOnlyEntries
<1>2. CASE BlockValid(b)
  <2> DEFINE low == [addr |-> tags[block[b].owner].addr, priority |-> 0, data |-> NoBlock]
  <2>1. block[b].owner \in Entry
    BY <1>2 DEF Types, Datum, BlockValid
  <2>2. low \in Tag /\ low.priority = 0
    BY <2>1 DEF Types, Tag
  <2>3. Downgraded(b) = [tags EXCEPT ![block[b].owner] = low]
    BY <1>2 DEF Downgraded
  <2>. HIDE DEF low
  <2>4. /\ Cardinality(TagOnlyEntries(tags)) \in Nat
        /\ Cardinality(TagOnlyEntries([tags EXCEPT ![block[b].owner] = low])) =
             Cardinality(TagOnlyEntries(tags))
               - (IF tags[block[b].owner].priority = 0 THEN 1 ELSE 0)
               + (IF low.priority = 0 THEN 1 ELSE 0)
    BY <2>1, <2>2, CountAfterWrite DEF Types
  <2>. QED BY <1>1, <1>2, <2>2, <2>3, <2>4 DEF DowngradedCount
<1>3. CASE ~BlockValid(b)
  BY <1>1, <1>3 DEF Downgraded, DowngradedCount
<1>. QED BY <1>2, <1>3

-----------------------------------------------------------------------------
(* The steps *)

\* Entry e, free or tag-only, takes block b for address a after the tag that owned b was
\* lowered and perhaps a tag-only entry of another address dropped: the two stores agree
\* again.  Both handlers end this way.
LEMMA PlacingKeepsStores ==
    ASSUME Types, StoresInv,
           NEW a \in Addr, NEW b \in Block, NEW e \in Candidates(a), NEW d \in BOOLEAN,
           e \in Lookup(a) \/ Lookup(a) = {},
           tags[e].priority # 1,
           BlockValid(b) => OwnerAgrees(b),
           NEW ts \in [Entry -> Tag],
           \A f \in Entry : \/ ts[f] = Downgraded(b)[f]
                            \/ ts[f] = NoTag /\ Downgraded(b)[f].priority = 0,
           tags' = [ts EXCEPT ![e] = TagWithData(a, b)],
           block' = [block EXCEPT ![b] = [addr |-> a, dirty |-> d, owner |-> e]],
           saeRefused' = saeRefused
    PROVE  /\ tags' \in [Entry -> Tag]
           /\ block' \in [Block -> Datum]
           /\ StoresInv'
<1>1. e \in Entry
  BY LookupInCandidates
<1>2. tags' \in [Entry -> Tag] /\ block' \in [Block -> Datum]
  <2>1. TagWithData(a, b) \in Tag
    BY DEF TagWithData, Tag
  <2>2. [addr |-> a, dirty |-> d, owner |-> e] \in Datum
    BY <1>1 DEF Datum
  <2>. QED BY <1>1, <2>1, <2>2 DEF Types
<1>3. tags'[e] = TagWithData(a, b)
  BY <1>1
<1>4. \A f \in Entry : f # e => tags'[f] = ts[f]
  BY <1>1
<1>5. block'[b] = [addr |-> a, dirty |-> d, owner |-> e]
  BY DEF Types
<1>6. \A c \in Block : c # b => block'[c] = block[c]
  BY DEF Types
\* What a tag of priority 1, and what any valid tag, was before the step.
<1>7. ASSUME NEW f \in Entry, f # e, tags'[f].priority = 1
      PROVE  tags[f] = tags'[f] /\ f # block[b].owner
  <2>1. tags'[f] = Downgraded(b)[f]
    BY <1>4, <1>7 DEF NoTag
  <2>. QED BY <1>7, <2>1, DowngradedLowersOwner
<1>8. ASSUME NEW f \in Entry, f # e, Valid(tags'[f])
      PROVE  Valid(tags[f]) /\ tags'[f].addr = tags[f].addr
  <2>1. tags'[f] = Downgraded(b)[f]
    BY <1>4, <1>8 DEF NoTag, Valid
  <2>2. CASE f # block[b].owner
    BY <1>8, <2>1, <2>2, DowngradedLowersOwner
  <2>3. CASE f = block[b].owner
    <3>1. tags'[f].addr = tags[f].addr
      BY <2>1, <2>3, DowngradedLowersOwner
    <3>2. BlockValid(b)
      BY <2>3, ConstantAssumption DEF BlockValid
    <3>. QED BY <2>3, <3>1, <3>2 DEF OwnerAgrees
  <2>. QED BY <2>2, <2>3
<1>9. TagsInPlace'
  <2>. SUFFICES ASSUME NEW f \in Entry, Valid(tags'[f])
                PROVE  tags'[f].addr \in Addr /\ f \in Candidates(tags'[f].addr)
    BY DEF TagsInPlace, Candidates, SetOf
  <2>1. CASE f = e
    BY <1>3, <2>1 DEF TagWithData
  <2>2. CASE f # e
    BY <1>8, <2>2 DEF StoresInv, TagsInPlace
  <2>. QED BY <2>1, <2>2
<1>10. BlocksInShape'
  <2>. SUFFICES ASSUME NEW c \in Block
                PROVE  /\ block'[c].dirty => block'[c].owner # NoEntry
                       /\ block'[c].owner # NoEntry => block'[c].addr \in Addr
    BY DEF BlocksInShape, BlockValid
  <2>1. CASE c = b
    BY <1>1, <1>5, <2>1, ConstantAssumption
  <2>2. CASE c # b
    BY <1>6, <2>2 DEF StoresInv, BlocksInShape, BlockValid
  <2>. QED BY <2>1, <2>2
<1>11. TagsBacked'
  <2>. SUFFICES ASSUME NEW f \in Entry, tags'[f].priority = 1
                PROVE  /\ tags'[f].data \in Block
                       /\ block'[tags'[f].data].owner = f
                       /\ block'[tags'[f].data].addr = tags'[f].addr
    BY DEF TagsBacked
  <2>1. CASE f = e
    BY <1>3, <1>5, <2>1 DEF TagWithData
  <2>2. CASE f # e
    <3>1. tags[f] = tags'[f] /\ f # block[b].owner
      BY <1>7, <2>2
    <3>2. /\ tags[f].data \in Block
          /\ block[tags[f].data].owner = f
          /\ block[tags[f].data].addr = tags[f].addr
      BY <3>1 DEF StoresInv, TagsBacked
    <3>. QED BY <1>6, <3>1, <3>2
  <2>. QED BY <2>1, <2>2
<1>12. OneTagPerAddress'
  <2>1. ASSUME NEW f \in Entry, f # e, Valid(tags'[f]) PROVE tags'[f].addr # a
    <3>1. SUFFICES ASSUME tags'[f].addr = a PROVE FALSE
      OBVIOUS
    <3>2. Valid(tags[f]) /\ tags[f].addr = a
      BY <1>8, <2>1, <3>1
    <3>3. f \in Lookup(a)
      BY <3>2 DEF StoresInv, TagsInPlace, Lookup
    <3>4. e \in Lookup(a)
      BY <3>3
    <3>. QED BY <1>1, <2>1, <3>2, <3>4 DEF StoresInv, OneTagPerAddress, Lookup
  <2>. SUFFICES ASSUME NEW x \in Addr, NEW f \in Entry, NEW g \in Entry,
                       Valid(tags'[f]), Valid(tags'[g]),
                       tags'[f].addr = x, tags'[g].addr = x
                PROVE  f = g
    BY DEF OneTagPerAddress
  <2>2. tags'[e].addr = a
    BY <1>3 DEF TagWithData
  <2>3. CASE f = e \/ g = e
    BY <2>1, <2>2, <2>3
  <2>4. CASE f # e /\ g # e
    BY <1>8, <2>4 DEF StoresInv, OneTagPerAddress
  <2>. QED BY <2>3, <2>4
<1>13. ASSUME ~saeRefused PROVE BlocksOwned'
  <2>. SUFFICES ASSUME NEW c \in Block, block'[c].owner # NoEntry
                PROVE  /\ tags'[block'[c].owner].priority = 1
                       /\ tags'[block'[c].owner].data = c
    BY DEF BlocksOwned, BlockValid
  <2>1. CASE c = b
    BY <1>3, <1>5, <2>1 DEF TagWithData
  <2>2. CASE c # b
    <3> DEFINE o == block[c].owner
    <3>1. block'[c].owner = o /\ o \in Entry
      BY <1>6, <2>2 DEF Types, Datum
    <3>2. tags[o].priority = 1 /\ tags[o].data = c
      BY <1>13, <3>1 DEF StoresInv, BlocksOwned, BlockValid
    <3>3. o # e
      BY <3>2
    <3>4. o # block[b].owner
      <4>. SUFFICES ASSUME o = block[b].owner PROVE FALSE
        OBVIOUS
      <4>1. BlockValid(b)
        BY <3>1 DEF BlockValid
      <4>. QED BY <1>13, <2>2, <3>2, <4>1 DEF StoresInv, BlocksOwned
    <3>5. Downgraded(b)[o] = tags[o]
      BY <3>1, <3>4, DowngradedLowersOwner
    <3>6. tags'[o] = tags[o]
      BY <1>4, <3>1, <3>2, <3>3, <3>5
    <3>. QED BY <3>1, <3>2, <3>6
  <2>. QED BY <2>1, <2>2
<1>. QED BY <1>2, <1>9, <1>10, <1>11, <1>12, <1>13 DEF StoresInv

\* Steps that leave both stores alone.
LEMMA StoresUnchanged ==
    ASSUME StoresInv, UNCHANGED <<tags, block, saeRefused>>
    PROVE  StoresInv'
BY DEF StoresInv, TagsInPlace, BlocksInShape, TagsBacked, OneTagPerAddress, BlocksOwned,
       Valid, BlockValid, Candidates, SetOf

LEMMA HaltKeepsInv ==
    ASSUME IInv, NEW why \in Stop, Halt(why), why = "owner_mismatch" => saeRefused
    PROVE  IInv'
<1>1. UNCHANGED <<tags, block, numPr0, mshr, wq, dramWQ, saeRefused>> /\ halt' = why
  BY DEF Halt
<1>2. StoresInv'
  BY <1>1, StoresUnchanged DEF IInv
<1>3. Types' /\ QueuesBounded' /\ (~saeRefused => CountExact)'
  BY <1>1 DEF IInv, Types, QueuesBounded, CountExact
<1>4. ThresholdKept' /\ MismatchOnlyAfterRefusal'
  BY <1>1 DEF IInv, ThresholdKept, MismatchOnlyAfterRefusal
<1>. QED BY <1>2, <1>3, <1>4 DEF IInv

\* The asserts in remove_tag_entry_from_block fire only after a refusal.
LEMMA MismatchKeepsInv ==
    ASSUME IInv, NEW b \in Block, BlockValid(b), ~OwnerAgrees(b), Halt("owner_mismatch")
    PROVE  IInv'
<1>1. saeRefused
  BY OwnersAgree DEF IInv
<1>2. "owner_mismatch" \in Stop
  BY DEF Stop
<1>. QED BY <1>1, <1>2, HaltKeepsInv

\* An MSHR entry that is given back keeps the types and the bound.
LEMMA MshrFreed ==
    ASSUME Types, QueuesBounded, NEW a \in Addr, mshr' = [mshr EXCEPT ![a] = "idle"]
    PROVE  /\ mshr' \in [Addr -> {"idle", "waiting", "returned"}]
           /\ Cardinality({x \in Addr : mshr'[x] # "idle"}) <= MshrSize
<1>1. mshr' \in [Addr -> {"idle", "waiting", "returned"}]
  BY DEF Types
<1>2. {x \in Addr : mshr'[x] # "idle"} \subseteq {x \in Addr : mshr[x] # "idle"}
  BY DEF Types
<1>. QED BY <1>1, <1>2, SubsetKeepsBound, ConstantAssumption DEF QueuesBounded

\* A handled write-back leaves the queue.
LEMMA WqPopped ==
    ASSUME Types, QueuesBounded, wq # <<>>, wq' = Tail(wq)
    PROVE  wq' \in Seq(Addr) /\ Len(wq') <= WqSize
<1>1. wq' \in Seq(Addr) /\ Len(wq') = Len(wq) - 1
  BY DEF Types
<1>2. Len(wq) \in Nat /\ WqSize \in Nat
  BY ConstantAssumption DEF Types
<1>. QED BY <1>1, <1>2 DEF QueuesBounded

LEMMA FillUpgradeKeepsInv ==
    ASSUME IInv, NEW a \in Addr, FillUpgrade(a)
    PROVE  IInv'
<1>1. PICK e \in Lookup(a), b \in Block :
        /\ tags[e].priority = 0
        /\ CanDisplace(b)
        /\ IF BlockValid(b) /\ ~OwnerAgrees(b)
             THEN Halt("owner_mismatch")
             ELSE /\ tags' = [Downgraded(b) EXCEPT ![e] = TagWithData(a, b)]
                  /\ block' = [block EXCEPT ![b] =
                                 [addr |-> a, dirty |-> FALSE, owner |-> e]]
                  /\ numPr0' = DowngradedCount(b) - 1
                  /\ mshr' = [mshr EXCEPT ![a] = "idle"]
                  /\ dramWQ' = DisplacedTo(b)
                  /\ UNCHANGED <<wq, saeRefused, halt>>
  BY DEF FillUpgrade
<1>2. CASE BlockValid(b) /\ ~OwnerAgrees(b)
  BY <1>1, <1>2, MismatchKeepsInv
<1>3. CASE ~(BlockValid(b) /\ ~OwnerAgrees(b))
  <2>1. /\ tags' = [Downgraded(b) EXCEPT ![e] = TagWithData(a, b)]
        /\ block' = [block EXCEPT ![b] = [addr |-> a, dirty |-> FALSE, owner |-> e]]
        /\ numPr0' = DowngradedCount(b) - 1
        /\ mshr' = [mshr EXCEPT ![a] = "idle"]
        /\ dramWQ' = DisplacedTo(b)
        /\ UNCHANGED <<wq, saeRefused, halt>>
    BY <1>1, <1>3
  <2>2. e \in Candidates(a) /\ e \in Entry
    BY LookupInCandidates
  <2>3. Downgraded(b) \in [Entry -> Tag]
    BY DowngradedLowersOwner DEF IInv
  <2>4. tags' \in [Entry -> Tag] /\ block' \in [Block -> Datum] /\ StoresInv'
    <3>1. Types /\ StoresInv /\ tags[e].priority # 1 /\ (BlockValid(b) => OwnerAgrees(b))
      BY <1>1, <1>3 DEF IInv
    <3>. QED BY <2>1, <2>2, <2>3, <3>1, PlacingKeepsStores
  <2>5. DowngradedCount(b) \in Int /\ DowngradedCount(b) <= numPr0 + 1
    BY DowngradedCountType DEF IInv, Types
  <2>6. Types'
    BY <2>1, <2>4, <2>5, MshrFreed, DisplacedToType DEF IInv, Types
  <2>7. QueuesBounded'
    BY <1>1, <2>1, MshrFreed, DisplacedToBounded DEF IInv, QueuesBounded
  <2>8. ThresholdKept'
    BY <2>1, <2>5, ConstantAssumption DEF IInv, Types, ThresholdKept
  <2>9. MismatchOnlyAfterRefusal'
    BY <2>1 DEF IInv, MismatchOnlyAfterRefusal
  <2>10. ASSUME ~saeRefused PROVE CountExact'
    <3>1. DowngradedCount(b) = Cardinality(TagOnlyEntries(Downgraded(b)))
      BY <2>10, DowngradedKeepsCount, OwnersAgree DEF IInv
    <3>2. TagWithData(a, b) \in Tag /\ TagWithData(a, b).priority = 1
      BY DEF TagWithData, Tag
    <3>3. Downgraded(b)[e].priority = 0
      BY <1>1, <2>2, DowngradedLowersOwner DEF IInv
    <3>4. /\ Cardinality(TagOnlyEntries(Downgraded(b))) \in Nat
          /\ Cardinality(TagOnlyEntries([Downgraded(b) EXCEPT ![e] = TagWithData(a, b)])) =
               Cardinality(TagOnlyEntries(Downgraded(b)))
                 - (IF Downgraded(b)[e].priority = 0 THEN 1 ELSE 0)
                 + (IF TagWithData(a, b).priority = 0 THEN 1 ELSE 0)
      BY <2>2, <2>3, <3>2, CountAfterWrite
    <3>5. numPr0' = Cardinality(TagOnlyEntries(tags'))
      BY <2>1, <3>1, <3>2, <3>3, <3>4
    <3>. QED BY <3>5 DEF CountExact, TagOnlyEntries
  <2>. QED BY <2>1, <2>4, <2>6, <2>7, <2>8, <2>9, <2>10 DEF IInv
<1>. QED BY <1>2, <1>3

\* A handler that ends in WbPlace: the fill of a write-back.
LEMMA WbPlaceKeepsInv ==
    ASSUME IInv, NEW a \in Addr, WbReady(a), NEW e \in Candidates(a), NEW b \in Block,
           e \in Lookup(a) \/ Lookup(a) = {},
           NEW gone \in {0, 1}, gone = 1 => tags[e].priority = 0 /\ e \in Lookup(a),
           gone = 0 => ~Valid(tags[e]),
           WbPlace(a, e, b, gone)
    PROVE  IInv'
<1>1. CASE BlockValid(b) /\ ~OwnerAgrees(b)
  BY <1>1, MismatchKeepsInv DEF WbPlace
<1>2. CASE Halt("random_tag_spins")
  BY <1>2, HaltKeepsInv DEF Stop
<1>3. CASE /\ ~(BlockValid(b) /\ ~OwnerAgrees(b))
           /\ ~Halt("random_tag_spins")
  <2>1. PICK ts \in Trimmed(Downgraded(b), DowngradedCount(b), e[1], a) :
          /\ tags' = [ts EXCEPT ![e] = TagWithData(a, b)]
          /\ block' = [block EXCEPT ![b] = [addr |-> a, dirty |-> TRUE, owner |-> e]]
          /\ numPr0' = TrimmedCount(DowngradedCount(b)) - gone
          /\ wq' = Tail(wq)
          /\ dramWQ' = DisplacedTo(b)
          /\ UNCHANGED <<mshr, saeRefused, halt>>
    BY <1>3 DEF WbPlace
  <2>2. e \in Entry
    BY LookupInCandidates
  <2>3. Downgraded(b) \in [Entry -> Tag]
    BY DowngradedLowersOwner DEF IInv
  <2>4. /\ ts \in [Entry -> Tag]
        /\ \A f \in Entry : \/ ts[f] = Downgraded(b)[f]
                            \/ /\ ts[f] = NoTag
                               /\ Downgraded(b)[f].priority = 0
                               /\ Downgraded(b)[f].addr # a
    BY <2>3, TrimmedDropsOne
  <2>5. tags' \in [Entry -> Tag] /\ block' \in [Block -> Datum] /\ StoresInv'
    <3>1. Types /\ StoresInv /\ tags[e].priority # 1 /\ (BlockValid(b) => OwnerAgrees(b))
      BY <1>3 DEF IInv, Valid
    <3>2. \A f \in Entry : \/ ts[f] = Downgraded(b)[f]
                           \/ ts[f] = NoTag /\ Downgraded(b)[f].priority = 0
      BY <2>4
    <3>. QED BY <2>1, <2>4, <3>1, <3>2, PlacingKeepsStores
  <2>6. DowngradedCount(b) \in Int /\ DowngradedCount(b) <= Threshold + 1
    BY DowngradedCountType, ConstantAssumption DEF IInv, Types, ThresholdKept
  <2>7. /\ TrimmedCount(DowngradedCount(b)) \in Int
        /\ TrimmedCount(DowngradedCount(b)) <= Threshold
    BY <2>6, TrimmedCountLeavesRoom
  <2>8. wq' \in Seq(Addr) /\ Len(wq') <= WqSize
    BY <2>1, WqPopped DEF IInv, WbReady
  <2>9. Types'
    <3>1. dramWQ' \subseteq Addr
      BY <2>1, DisplacedToType DEF IInv
    <3>2. numPr0' \in Int
      BY <2>1, <2>7
    <3>. QED BY <2>1, <2>5, <2>8, <3>1, <3>2 DEF IInv, Types
  <2>10. QueuesBounded'
    BY <2>1, <2>8, DisplacedToBounded DEF IInv, QueuesBounded, WbPlace
  <2>11. ThresholdKept'
    BY <2>1, <2>7, ConstantAssumption DEF ThresholdKept
  <2>12. MismatchOnlyAfterRefusal'
    BY <2>1 DEF IInv, MismatchOnlyAfterRefusal
  <2>13. ASSUME ~saeRefused PROVE CountExact'
    <3>1. DowngradedCount(b) = Cardinality(TagOnlyEntries(Downgraded(b)))
      BY <2>13, DowngradedKeepsCount, OwnersAgree DEF IInv
    <3>2. TrimmedCount(DowngradedCount(b)) = Cardinality(TagOnlyEntries(ts))
      BY <2>3, <3>1, TrimmedKeepsCount
    <3>3. TagWithData(a, b) \in Tag /\ TagWithData(a, b).priority = 1
      BY DEF TagWithData, Tag
    <3>4. ts[e].priority = 0 <=> gone = 1
      <4>1. CASE gone = 1
        <5>1. Downgraded(b)[e].priority = 0 /\ Downgraded(b)[e].addr = a
          BY <2>2, <4>1, DowngradedLowersOwner DEF IInv, Lookup
        <5>. QED BY <2>2, <2>4, <4>1, <5>1
      <4>2. CASE gone = 0
        <5>1. e # block[b].owner
          <6>1. SUFFICES ASSUME e = block[b].owner PROVE FALSE
            OBVIOUS
          <6>2. BlockValid(b)
            BY <2>2, <6>1, ConstantAssumption DEF BlockValid
          <6>. QED BY <1>3, <4>2, <6>1, <6>2 DEF OwnerAgrees
        <5>2. Downgraded(b)[e].priority = -1
          BY <2>2, <4>2, <5>1, DowngradedLowersOwner DEF IInv, Valid
        <5>. QED BY <2>2, <2>4, <4>2, <5>2 DEF NoTag
      <4>. QED BY <4>1, <4>2
    <3>5. /\ Cardinality(TagOnlyEntries(ts)) \in Nat
          /\ Cardinality(TagOnlyEntries([ts EXCEPT ![e] = TagWithData(a, b)])) =
               Cardinality(TagOnlyEntries(ts))
                 - (IF ts[e].priority = 0 THEN 1 ELSE 0)
                 + (IF TagWithData(a, b).priority = 0 THEN 1 ELSE 0)
      BY <2>2, <2>4, <3>3, CountAfterWrite
    <3>6. numPr0' = Cardinality(TagOnlyEntries(tags'))
      BY <2>1, <3>2, <3>3, <3>4, <3>5
    <3>. QED BY <3>6 DEF CountExact, TagOnlyEntries
  <2>. QED BY <2>1, <2>5, <2>9, <2>10, <2>11, <2>12, <2>13 DEF IInv
<1>. QED BY <1>1, <1>2, <1>3

LEMMA HandleWritebackKeepsInv ==
    ASSUME IInv, NEW a \in Addr, HandleWriteback(a)
    PROVE  IInv'
<1>1. WbReady(a)
  BY DEF HandleWriteback, WbHit, WbUpgrade, WbInstall
<1>2. CASE WbHit(a)
  <2>1. PICK e \in Lookup(a) :
          tags[e].priority = 1 /\ block' = [block EXCEPT ![tags[e].data].dirty = TRUE]
    BY <1>2 DEF WbHit
  <2>2. /\ wq' = Tail(wq)
        /\ UNCHANGED <<tags, numPr0, mshr, dramWQ, saeRefused, halt>>
    BY <1>2 DEF WbHit
  <2>3. e \in Entry
    BY LookupInCandidates
  <2>4. tags[e].data \in Block /\ block[tags[e].data].owner = e
    BY <2>1, <2>3 DEF IInv, StoresInv, TagsBacked
  <2>5. block' \in [Block -> Datum]
    BY <2>1, <2>4 DEF IInv, Types, Datum
  <2>6. \A c \in Block : /\ block'[c].owner = block[c].owner
                         /\ block'[c].addr = block[c].addr
                         /\ block'[c].dirty => block[c].dirty \/ c = tags[e].data
    BY <2>1, <2>4 DEF IInv, Types, Datum
  <2>7. BlocksInShape'
    BY <2>3, <2>4, <2>6, ConstantAssumption DEF IInv, StoresInv, BlocksInShape, BlockValid
  <2>8. TagsInPlace' /\ OneTagPerAddress'
    BY <2>2 DEF IInv, StoresInv, TagsInPlace, OneTagPerAddress, Valid, Candidates, SetOf
  <2>9. TagsBacked'
    BY <2>2, <2>6 DEF IInv, StoresInv, TagsBacked
  <2>10. (~saeRefused => BlocksOwned)'
    BY <2>2, <2>6 DEF IInv, StoresInv, BlocksOwned, BlockValid
  <2>11. wq' \in Seq(Addr) /\ Len(wq') <= WqSize
    BY <1>1, <2>2, WqPopped DEF IInv, WbReady
  <2>12. Types' /\ QueuesBounded'
    BY <2>2, <2>5, <2>11 DEF IInv, Types, QueuesBounded
  <2>13. (~saeRefused => CountExact)' /\ ThresholdKept' /\ MismatchOnlyAfterRefusal'
    BY <2>2 DEF IInv, CountExact, ThresholdKept, MismatchOnlyAfterRefusal
  <2>. QED BY <2>7, <2>8, <2>9, <2>10, <2>12, <2>13 DEF IInv, StoresInv
<1>3. CASE WbUpgrade(a)
  <2>1. PICK e \in Lookup(a), b \in Block : tags[e].priority = 0 /\ WbPlace(a, e, b, 1)
    BY <1>3 DEF WbUpgrade
  <2>2. e \in Candidates(a)
    BY LookupInCandidates
  <2>. QED BY <1>1, <2>1, <2>2, WbPlaceKeepsInv
<1>4. CASE WbInstall(a)
  <2>1. Lookup(a) = {}
    BY <1>4 DEF WbInstall
  <2>2. PICK e \in VictimTags(a) :
          IF Valid(tags[e]) THEN Halt("wb_no_free_way")
                            ELSE \E b \in Block : WbPlace(a, e, b, 0)
    BY <1>4 DEF WbInstall
  <2>3. e \in Candidates(a)
    BY LookupInCandidates
  <2>4. CASE Valid(tags[e])
    BY <2>2, <2>4, HaltKeepsInv DEF Stop
  <2>5. CASE ~Valid(tags[e])
    <3>1. PICK b \in Block : WbPlace(a, e, b, 0)
      BY <2>2, <2>5
    <3>. QED BY <1>1, <2>1, <2>3, <2>5, <3>1, WbPlaceKeepsInv
  <2>. QED BY <2>4, <2>5
<1>. QED BY <1>2, <1>3, <1>4 DEF HandleWriteback

\* A fill without a tag evicts what its entry still holds and installs the address without
\* data.  A refused eviction leaves the block behind; saeRefused records it.
LEMMA FillInstallKeepsInv ==
    ASSUME IInv, NEW a \in Addr, FillInstall(a)
    PROVE  IInv'
<1>1. Lookup(a) = {}
  BY DEF FillInstall
<1>2. PICK e \in VictimTags(a) :
        \/ Halt("random_tag_spins")
        \/ \E ts \in Trimmed(tags, numPr0, e[1], a) :
              /\ IF ts[e].priority = 1
                   THEN Evict(ts[e])
                   ELSE UNCHANGED <<block, dramWQ, saeRefused>>
              /\ tags' = [ts EXCEPT ![e] = TagOnly(a)]
              /\ numPr0' = IF ts[e].priority = 0 THEN TrimmedCount(numPr0)
                                                 ELSE TrimmedCount(numPr0) + 1
              /\ mshr' = [mshr EXCEPT ![a] = "idle"]
              /\ UNCHANGED <<wq, halt>>
  BY DEF FillInstall
<1>3. e \in Candidates(a) /\ e \in Entry
  BY LookupInCandidates
<1>4. CASE Halt("random_tag_spins")
  BY <1>4, HaltKeepsInv DEF Stop
<1>5. CASE ~Halt("random_tag_spins")
  <2>1. PICK ts \in Trimmed(tags, numPr0, e[1], a) :
          /\ IF ts[e].priority = 1
               THEN Evict(ts[e])
               ELSE UNCHANGED <<block, dramWQ, saeRefused>>
          /\ tags' = [ts EXCEPT ![e] = TagOnly(a)]
          /\ numPr0' = IF ts[e].priority = 0 THEN TrimmedCount(numPr0)
                                             ELSE TrimmedCount(numPr0) + 1
          /\ mshr' = [mshr EXCEPT ![a] = "idle"]
          /\ UNCHANGED <<wq, halt>>
    BY <1>2, <1>5
  <2>2. /\ ts \in [Entry -> Tag]
        /\ \A f \in Entry : \/ ts[f] = tags[f]
                            \/ ts[f] = NoTag /\ tags[f].priority = 0
    BY TrimmedDropsOne DEF IInv, Types
  <2>3. TagOnly(a) \in Tag /\ TagOnly(a).priority = 0 /\ TagOnly(a).addr = a
    BY DEF TagOnly, Tag
  <2>4. /\ tags' \in [Entry -> Tag]
        /\ tags'[e] = TagOnly(a)
        /\ \A f \in Entry : f # e => tags'[f] = ts[f]
    BY <1>3, <2>1, <2>2, <2>3
  \* The entry with data that is evicted leads to its block; every other block stays.
  <2>5. ts[e].priority = 1 => /\ ts[e] = tags[e]
                              /\ ts[e].data \in Block
                              /\ block[ts[e].data].owner = e
    BY <1>3, <2>2 DEF NoTag, IInv, StoresInv, TagsBacked
  <2>6. /\ block' \in [Block -> Datum]
        /\ \A c \in Block : \/ block'[c] = block[c]
                            \/ /\ block'[c] = NoData
                               /\ ts[e].priority = 1 /\ c = ts[e].data
    <3>1. NoData \in Datum
      BY DEF NoData, Datum
    <3>2. CASE ts[e].priority = 1
      <4>1. \/ block' = [block EXCEPT ![ts[e].data] = NoData]
            \/ block' = block
        BY <2>1, <3>2 DEF Evict
      <4>. QED BY <2>5, <3>1, <3>2, <4>1 DEF IInv, Types
    <3>3. CASE ts[e].priority # 1
      BY <2>1, <3>3 DEF IInv, Types
    <3>. QED BY <3>2, <3>3
  <2>7. TagsInPlace'
    <3>. SUFFICES ASSUME NEW f \in Entry, tags'[f].priority # -1
                  PROVE  tags'[f].addr \in Addr /\ f \in Candidates(tags'[f].addr)
      BY DEF TagsInPlace, Valid, Candidates, SetOf
    <3>1. CASE f = e
      BY <1>3, <2>3, <2>4, <3>1
    <3>2. CASE f # e
      BY <2>2, <2>4, <3>2 DEF IInv, StoresInv, TagsInPlace, Valid, NoTag
    <3>. QED BY <3>1, <3>2
  <2>8. BlocksInShape'
    BY <2>6 DEF IInv, StoresInv, BlocksInShape, BlockValid, NoData
  <2>9. TagsBacked'
    <3>. SUFFICES ASSUME NEW f \in Entry, tags'[f].priority = 1
                  PROVE  /\ tags'[f].data \in Block
                         /\ block'[tags'[f].data].owner = f
                         /\ block'[tags'[f].data].addr = tags'[f].addr
      BY DEF TagsBacked
    <3>1. f # e /\ tags'[f] = tags[f]
      BY <2>2, <2>3, <2>4 DEF NoTag
    <3>2. /\ tags[f].data \in Block
          /\ block[tags[f].data].owner = f
          /\ block[tags[f].data].addr = tags[f].addr
      BY <3>1 DEF IInv, StoresInv, TagsBacked
    <3>3. block'[tags[f].data] = block[tags[f].data]
      BY <2>5, <2>6, <3>1, <3>2
    <3>. QED BY <3>1, <3>2, <3>3
  <2>10. OneTagPerAddress'
    <3>1. ASSUME NEW f \in Entry, f # e, tags'[f].priority # -1
          PROVE  Valid(tags[f]) /\ tags'[f].addr = tags[f].addr /\ tags'[f].addr # a
      <4>1. tags'[f] = tags[f] /\ Valid(tags[f])
        BY <2>2, <2>4, <3>1 DEF NoTag, Valid
      <4>2. tags[f].addr # a
        BY <1>1, <4>1 DEF IInv, StoresInv, TagsInPlace, Lookup
      <4>. QED BY <4>1, <4>2
    <3>. SUFFICES ASSUME NEW x \in Addr, NEW f \in Entry, NEW g \in Entry,
                         tags'[f].priority # -1, tags'[g].priority # -1,
                         tags'[f].addr = x, tags'[g].addr = x
                  PROVE  f = g
      BY DEF OneTagPerAddress, Valid
    <3>2. CASE f = e \/ g = e
      BY <2>3, <2>4, <3>1, <3>2
    <3>3. CASE f # e /\ g # e
      BY <3>1, <3>3 DEF IInv, StoresInv, OneTagPerAddress
    <3>. QED BY <3>2, <3>3
  <2>11. saeRefused => saeRefused'
    BY <2>1 DEF Evict, IInv, Types
  <2>12. ASSUME ~saeRefused' PROVE BlocksOwned'
    <3>. SUFFICES ASSUME NEW c \in Block, block'[c].owner # NoEntry
                  PROVE  /\ tags'[block'[c].owner].priority = 1
                         /\ tags'[block'[c].owner].data = c
      BY DEF BlocksOwned, BlockValid
    <3> DEFINE o == block[c].owner
    <3>1. block'[c] = block[c] /\ o # NoEntry /\ o \in Entry
      BY <2>6 DEF NoData, IInv, Types, Datum
    <3>2. tags[o].priority = 1 /\ tags[o].data = c
      BY <2>11, <2>12, <3>1 DEF IInv, StoresInv, BlocksOwned, BlockValid
    <3>3. ts[o] = tags[o]
      BY <2>2, <3>1, <3>2
    <3>4. o # e
      <4>. SUFFICES ASSUME o = e PROVE FALSE
        OBVIOUS
      <4>1. ts[e].priority = 1 /\ ts[e].data = c
        BY <3>2, <3>3
      <4>2. block' = [block EXCEPT ![c] = NoData]
        BY <2>1, <2>12, <4>1 DEF Evict
      <4>3. block'[c] = NoData
        BY <4>2 DEF IInv, Types
      <4>. QED BY <3>1, <4>3 DEF NoData
    <3>. QED BY <2>4, <3>1, <3>2, <3>3, <3>4
  <2>13. StoresInv'
    BY <2>7, <2>8, <2>9, <2>10, <2>12 DEF StoresInv
  <2>14. /\ numPr0' \in Int
         /\ numPr0' <= Threshold
    BY <2>1, TrimmedCountLeavesRoom, ConstantAssumption DEF IInv, Types, ThresholdKept
  <2>15. /\ dramWQ' \subseteq Addr
         /\ Cardinality(dramWQ') <= DramWqSize
    <3>1. CASE ts[e].priority = 1
      BY <2>1, <2>5, <3>1, DisplacedToType, DisplacedToBounded
         DEF Evict, IInv, Types, QueuesBounded
    <3>2. CASE ts[e].priority # 1
      BY <2>1, <3>2 DEF IInv, Types, QueuesBounded
    <3>. QED BY <3>1, <3>2
  <2>16. saeRefused' \in BOOLEAN
    BY <2>1 DEF Evict, IInv, Types
  <2>17. Types' /\ QueuesBounded'
    BY <2>1, <2>4, <2>6, <2>14, <2>15, <2>16, MshrFreed DEF IInv, Types, QueuesBounded
  <2>18. ThresholdKept' /\ MismatchOnlyAfterRefusal'
    BY <2>1, <2>11, <2>14 DEF IInv, ThresholdKept, MismatchOnlyAfterRefusal
  <2>19. ASSUME ~saeRefused' PROVE CountExact'
    <3>1. numPr0 = Cardinality(TagOnlyEntries(tags))
      BY <2>11, <2>19 DEF IInv, CountExact, TagOnlyEntries
    <3>2. TrimmedCount(numPr0) = Cardinality(TagOnlyEntries(ts))
      BY <3>1, TrimmedKeepsCount DEF IInv, Types
    <3>3. /\ Cardinality(TagOnlyEntries(ts)) \in Nat
          /\ Cardinality(TagOnlyEntries([ts EXCEPT ![e] = TagOnly(a)])) =
               Cardinality(TagOnlyEntries(ts))
                 - (IF ts[e].priority = 0 THEN 1 ELSE 0)
                 + (IF TagOnly(a).priority = 0 THEN 1 ELSE 0)
      BY <1>3, <2>2, <2>3, CountAfterWrite
    <3>4. numPr0' = Cardinality(TagOnlyEntries(tags'))
      BY <2>1, <2>3, <3>2, <3>3
    <3>. QED BY <3>4 DEF CountExact, TagOnlyEntries
  <2>. QED BY <2>13, <2>17, <2>18, <2>19 DEF IInv
<1>. QED BY <1>4, <1>5

LEMMA HandleFillKeepsInv ==
    ASSUME IInv, NEW a \in Addr, HandleFill(a)
    PROVE  IInv'
<1>1. CASE FillMeetsData(a)
  BY <1>1, HaltKeepsInv DEF FillMeetsData, Stop
<1>. QED BY <1>1, FillUpgradeKeepsInv, FillInstallKeepsInv DEF HandleFill

\* Requests, answers from DRAM and the queues do not touch the stores.
LEMMA QueueStepKeepsInv ==
    ASSUME IInv, NEW a \in Addr,
           StartMiss(a) \/ ReturnData(a) \/ AddWq(a) \/ DramWrite(a)
    PROVE  IInv'
<1>1. UNCHANGED <<tags, block, numPr0, saeRefused, halt>>
  BY DEF StartMiss, ReturnData, AddWq, DramWrite
<1>2. /\ StoresInv' /\ (~saeRefused => CountExact)'
      /\ ThresholdKept' /\ MismatchOnlyAfterRefusal'
  BY <1>1, StoresUnchanged
     DEF IInv, CountExact, ThresholdKept, MismatchOnlyAfterRefusal
<1>3. Types'
  BY <1>1 DEF IInv, Types, StartMiss, ReturnData, AddWq, DramWrite
<1>4. QueuesBounded'
  <2>1. CASE StartMiss(a)
    <3> DEFINE S == {x \in Addr : mshr[x] # "idle"}
    <3>1. IsFiniteSet(S)
      <4>1. S \in SUBSET Addr
        OBVIOUS
      <4>. HIDE DEF S
      <4>. QED BY <4>1, FS_Subset, ConstantAssumption
    <3>2. {x \in Addr : mshr'[x] # "idle"} = S \cup {a}
      BY <2>1 DEF StartMiss, IInv, Types
    <3>3. Cardinality(S) \in Nat /\ Cardinality(S) < MshrSize /\ a \notin S
      BY <2>1, <3>1, FS_CardinalityType DEF StartMiss
    <3>4. Cardinality(S \cup {a}) = Cardinality(S) + 1
      BY <3>1, <3>3, FS_AddElement
    <3>5. Cardinality(S \cup {a}) <= MshrSize
      <4>1. MshrSize \in Nat
        BY ConstantAssumption
      <4>. HIDE DEF S
      <4>. QED BY <3>3, <3>4, <4>1
    <3>. QED BY <2>1, <3>2, <3>5 DEF StartMiss, IInv, QueuesBounded
  <2>2. CASE ReturnData(a)
    <3>1. {x \in Addr : mshr'[x] # "idle"} = {x \in Addr : mshr[x] # "idle"}
      BY <2>2 DEF ReturnData, IInv, Types
    <3>. QED BY <2>2, <3>1 DEF ReturnData, IInv, QueuesBounded
  <2>3. CASE AddWq(a)
    <3>1. Len(wq') = Len(wq) + 1 /\ Len(wq) \in Nat /\ WqSize \in Nat
      BY <2>3, ConstantAssumption DEF AddWq, IInv, Types
    <3>. QED BY <2>3, <3>1 DEF AddWq, IInv, QueuesBounded
  <2>4. CASE DramWrite(a)
    <3>1. Cardinality(dramWQ') <= DramWqSize
      BY <2>4, SubsetKeepsBound, ConstantAssumption
         DEF DramWrite, IInv, Types, QueuesBounded
    <3>. QED BY <2>4, <3>1 DEF DramWrite, IInv, QueuesBounded
  <2>. QED BY <2>1, <2>2, <2>3, <2>4
<1>. QED BY <1>2, <1>3, <1>4 DEF IInv

-----------------------------------------------------------------------------
(* The theorems *)

LEMMA InitEstablishesInv == Init => IInv
<1>. SUFFICES ASSUME Init PROVE IInv
  OBVIOUS
<1>1. NoTag \in Tag /\ NoTag.priority = -1
  BY DEF NoTag, Tag
<1>2. NoData \in Datum /\ NoData.owner = NoEntry /\ ~NoData.dirty
  BY DEF NoData, Datum
<1>3. Types
  <2>1. wq \in Seq(Addr)
    BY DEF Init
  <2>2. tags \in [Entry -> Tag] /\ block \in [Block -> Datum]
    BY <1>1, <1>2 DEF Init
  <2>3. mshr \in [Addr -> {"idle", "waiting", "returned"}]
    BY DEF Init
  <2>4. numPr0 = 0 /\ dramWQ = {}
    BY DEF Init
  <2>5. saeRefused \in BOOLEAN
    BY Zenon DEF Init
  <2>6. halt \in Stop
    BY DEF Init, Stop
  <2>. QED BY <2>1, <2>2, <2>3, <2>4, <2>5, <2>6 DEF Types
<1>4. StoresInv
  BY <1>1, <1>2 DEF Init, StoresInv, TagsInPlace, BlocksInShape, TagsBacked, OneTagPerAddress,
                    BlocksOwned, Valid, BlockValid
<1>5. {a \in Addr : mshr[a] # "idle"} = {} /\ dramWQ = {} /\ Len(wq) = 0
  BY DEF Init
<1>6. QueuesBounded
  <2>1. Cardinality({}) = 0
    BY FS_EmptySet
  <2>2. MshrSize \in Nat /\ WqSize \in Nat /\ DramWqSize \in Nat
    BY ConstantAssumption
  <2>3. Cardinality({x \in Addr : mshr[x] # "idle"}) = 0
    BY <1>5, <2>1
  <2>. QED BY <1>5, <2>1, <2>2, <2>3 DEF QueuesBounded
<1>7. {e \in Entry : tags[e].priority = 0} = {}
  BY <1>1 DEF Init
<1>8. CountExact
  BY <1>7, FS_EmptySet DEF Init, CountExact
<1>9. ThresholdKept /\ MismatchOnlyAfterRefusal
  BY ConstantAssumption DEF Init, ThresholdKept, MismatchOnlyAfterRefusal
<1>. QED BY <1>3, <1>4, <1>6, <1>8, <1>9 DEF IInv

LEMMA NextKeepsInv == IInv /\ [Next]_vars => IInv'
<1>1. ASSUME IInv, Next PROVE IInv'
  <2>1. PICK a \in Addr :
          \/ HandleFill(a) \/ HandleWriteback(a)
          \/ StartMiss(a)
          \/ ReturnData(a) \/ AddWq(a) \/ DramWrite(a)
    BY <1>1 DEF Next
  <2>2. CASE HandleFill(a)
    BY <1>1, <2>2, HandleFillKeepsInv
  <2>3. CASE HandleWriteback(a)
    BY <1>1, <2>3, HandleWritebackKeepsInv
  <2>4. CASE StartMiss(a)
    BY <1>1, <2>4, QueueStepKeepsInv
  <2>5. CASE ReturnData(a) \/ AddWq(a) \/ DramWrite(a)
    BY <1>1, <2>5, QueueStepKeepsInv
  <2>. QED BY <2>1, <2>2, <2>3, <2>4, <2>5
<1>2. ASSUME IInv, UNCHANGED vars PROVE IInv'
  BY <1>2, StoresUnchanged
     DEF vars, IInv, Types, QueuesBounded, CountExact, ThresholdKept, MismatchOnlyAfterRefusal
<1>. QED BY <1>1, <1>2

LEMMA InvAlways == Spec => []IInv
<1>. QED BY InitEstablishesInv, NextKeepsInv, PTL DEF Spec

\* Every variable keeps its type, and MSHR and queues their sizes, in every run of the LLC.
THEOREM TypeCorrect == Spec => []TypeOK
<1>1. IInv => TypeOK
  BY DEF IInv, Types, QueuesBounded, TypeOK, Tag, Datum
<1>. QED BY <1>1, InvAlways, PTL

\* A priority-1 tag always leads to its block and back, so the asserts of handle_read,
\* handle_writeback and remove_block_based_on_tag_array on a hit never fail.
THEOREM TagsAlwaysBacked == Spec => []TagsBacked
<1>1. IInv => TagsBacked
  BY DEF IInv, StoresInv
<1>. QED BY <1>1, InvAlways, PTL

\* Fills and write-backs never give an address a second tag, in either skew.
THEOREM TagsStayUnique == Spec => []OneTagPerAddress
<1>1. IInv => OneTagPerAddress
  BY DEF IInv, StoresInv
<1>. QED BY <1>1, InvAlways, PTL

\* Until remove_block_based_on_tag_array first returns early, the data store and the count
\* of priority-0 tags agree with the tag store.
THEOREM StoresAlwaysAgree == Spec => []StoresAgree
<1>1. IInv => StoresAgree
  BY DEF IInv, StoresInv, StoresAgree
<1>. QED BY <1>1, InvAlways, PTL

\* The count of priority-0 tags never passes threshold_pr0.
THEOREM ThresholdAlwaysKept == Spec => []ThresholdKept
<1>1. IInv => ThresholdKept
  BY DEF IInv
<1>. QED BY <1>1, InvAlways, PTL

\* The asserts of remove_tag_entry_from_block fail only after such an early return.
THEOREM MismatchNeedsRefusal == Spec => []MismatchOnlyAfterRefusal
<1>1. IInv => MismatchOnlyAfterRefusal
  BY DEF IInv
<1>. QED BY <1>1, InvAlways, PTL

\* A step keeps dirty block c, or puts its address into the DRAM write queue.
LEMMA DirtyKeptOrQueued ==
    ASSUME IInv, Next, NEW c \in Block, block[c].dirty
    PROVE  \/ block'[c].dirty /\ block'[c].addr = block[c].addr
           \/ block[c].addr \in dramWQ'
<1>1. c \in DOMAIN block /\ DOMAIN block = Block /\ block[c].dirty = TRUE
  BY DEF IInv, Types, Datum
<1>2. ASSUME NEW b \in Block, NEW d, block' = [block EXCEPT ![b] = d], dramWQ' = DisplacedTo(b)
      PROVE  block'[c] = block[c] \/ block[c].addr \in dramWQ'
  BY <1>1, <1>2 DEF DisplacedTo
<1>3. PICK a \in Addr :
        \/ HandleFill(a) \/ HandleWriteback(a)
        \/ StartMiss(a)
        \/ ReturnData(a) \/ AddWq(a) \/ DramWrite(a)
  BY DEF Next
<1>4. CASE FillMeetsData(a)
  BY <1>4 DEF FillMeetsData, Halt
<1>5. CASE FillUpgrade(a)
  <2>1. PICK e \in Lookup(a), b \in Block :
          \/ block' = block
          \/ /\ block' = [block EXCEPT ![b] = [addr |-> a, dirty |-> FALSE, owner |-> e]]
             /\ dramWQ' = DisplacedTo(b)
    BY <1>5 DEF FillUpgrade, Halt
  <2>. QED BY <1>2, <2>1
<1>6. CASE FillInstall(a)
  <2>1. \/ block' = block
        \/ \E e \in VictimTags(a) : \E ts \in Trimmed(tags, numPr0, e[1], a) :
              ts[e].priority = 1 /\ Evict(ts[e])
    BY <1>6 DEF FillInstall, Halt
  <2>2. CASE \E e \in VictimTags(a) : \E ts \in Trimmed(tags, numPr0, e[1], a) :
               ts[e].priority = 1 /\ Evict(ts[e])
    <3>. PICK e \in VictimTags(a) : \E ts \in Trimmed(tags, numPr0, e[1], a) :
           ts[e].priority = 1 /\ Evict(ts[e])
      BY <2>2
    <3>1. PICK ts \in Trimmed(tags, numPr0, e[1], a) : ts[e].priority = 1 /\ Evict(ts[e])
      OBVIOUS
    <3>2. e \in Entry
      BY LookupInCandidates
    <3>3. ts[e] = tags[e]
      BY <3>1, <3>2, TrimmedDropsOne DEF NoTag, IInv, Types
    <3>4. ts[e].data \in Block
      BY <3>1, <3>2, <3>3 DEF IInv, StoresInv, TagsBacked
    <3>. QED BY <1>2, <3>1, <3>4 DEF Evict
  <2>. QED BY <2>1, <2>2
<1>7. CASE WbHit(a)
  <2>1. PICK e \in Lookup(a) : block' = [block EXCEPT ![tags[e].data].dirty = TRUE]
    BY <1>7 DEF WbHit
  <2>. QED BY <1>1, <2>1
<1>8. ASSUME NEW e, NEW b \in Block, NEW gone, WbPlace(a, e, b, gone)
      PROVE  block'[c] = block[c] \/ block[c].addr \in dramWQ'
  <2>1. \/ block' = block
        \/ /\ block' = [block EXCEPT ![b] = [addr |-> a, dirty |-> TRUE, owner |-> e]]
           /\ dramWQ' = DisplacedTo(b)
    BY <1>8 DEF WbPlace, Halt
  <2>. QED BY <1>2, <2>1
<1>9. CASE WbUpgrade(a)
  BY <1>8, <1>9 DEF WbUpgrade
<1>10. CASE WbInstall(a)
  <2>1. \/ block' = block
        \/ \E e \in VictimTags(a), b \in Block : WbPlace(a, e, b, 0)
    BY <1>10 DEF WbInstall, Halt
  <2>. QED BY <1>8, <2>1
<1>11. CASE StartMiss(a) \/ ReturnData(a) \/ AddWq(a) \/ DramWrite(a)
  BY <1>11 DEF StartMiss, ReturnData, AddWq, DramWrite
<1>. QED BY <1>3, <1>4, <1>5, <1>6, <1>7, <1>9, <1>10, <1>11 DEF HandleFill, HandleWriteback

\* Dirty data leaves the data store only into the DRAM write queue: no fill, write-back or
\* eviction, refused or not, drops it.
THEOREM DirtyAlwaysWrittenBack == Spec => DirtyWrittenBack
<1>1. IInv /\ [Next]_vars =>
        [\A a \in Addr : HoldsDirty(a) /\ ~HoldsDirty(a)' => a \in dramWQ']_vars
  <2>. SUFFICES ASSUME IInv, Next, NEW a \in Addr, HoldsDirty(a), ~HoldsDirty(a)'
                PROVE  a \in dramWQ'
    OBVIOUS
  <2>1. PICK c \in Block : block[c].dirty /\ block[c].addr = a
    BY DEF HoldsDirty
  <2>2. ~(block'[c].dirty /\ block'[c].addr = a)
    BY DEF HoldsDirty
  <2>. QED BY <2>1, <2>2, DirtyKeptOrQueued
<1>. QED BY <1>1, InvAlways, PTL DEF Spec, DirtyWrittenBack
=============================================================================
