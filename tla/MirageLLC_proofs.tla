-------------------------- MODULE MirageLLC_proofs --------------------------
(***************************************************************************)
(* Invariants of MirageLLC for every number of addresses, sets, ways and   *)
(* blocks.  The conjunction of the three properties the model checker      *)
(* checks is inductive: a tag must lead to a block that leads back for the *)
(* removal of a displaced block's tag to remove that tag and no other.     *)
(***************************************************************************)
EXTENDS MirageLLC, FiniteSetTheorems, TLAPS

Tag == [addr : Addr \cup {NoAddr}, data : Block \cup {NoBlock}]
Datum == [addr : Addr \cup {NoAddr}, dirty : BOOLEAN, owner : Entry \cup {NoEntry}]

\* The part of TypeOK about the two stores, and about the queues.
StoreTypes ==
    /\ tags \in [Entry -> Tag]
    /\ block \in [Block -> Datum]
    /\ refused \in BOOLEAN /\ strayed \in BOOLEAN
    /\ refilled \subseteq Addr
MissTypes ==
    /\ mshr \in [Addr -> {"idle", "waiting", "returned"}]
    /\ Cardinality({a \in Addr : mshr[a] # "idle"}) <= MshrSize
WqTypes == wq \in Seq(Addr) /\ Len(wq) <= WqSize
DramTypes == dramWQ \subseteq Addr \cup {NoAddr} /\ Cardinality(dramWQ) <= DramWqSize
HaltTypes == halt \in {"no", "owner_mismatch", "outside_tags"}

StoresInv == StoreTypes /\ StoresMatch /\ LookupExact
IInv == StoresInv /\ MissTypes /\ WqTypes /\ DramTypes /\ HaltTypes

-----------------------------------------------------------------------------
(* Lemmas about the operators *)

LEMMA CandidatesAreEntries ==
    ASSUME NEW a \in Addr
    PROVE  Candidates(a) \subseteq Entry /\ Lookup(a) \subseteq Candidates(a)
BY DEF Candidates, SetOf, Lookup

\* A way drawn at random names an entry of the tag store or lies behind it.
LEMMA AtIsEntry ==
    ASSUME NEW s \in Skew, NEW t \in TagSet, NEW way \in 0 .. NumWay - 1
    PROVE  At(s, t, way) \in Entry \cup {NoEntry}
BY MirageAssumption, Z3 DEF At, Entry, Skew, TagSet

LEMMA VictimsAreEntries ==
    ASSUME NEW a \in Addr
    PROVE  VictimTags(a) \subseteq Entry \cup {NoEntry}
<1>1. ASSUME NEW s \in Skew PROVE SkewSet[s][a] \in TagSet
  BY <1>1, MirageAssumption
<1>2. ASSUME NEW s \in Skew
      PROVE  {At(s, SkewSet[s][a], way) : way \in 0 .. NumWay - 1} \subseteq Entry \cup {NoEntry}
  BY <1>1, <1>2, AtIsEntry
<1>3. ASSUME NEW s \in Skew PROVE FreeWays(s, a) \subseteq Entry
  BY DEF FreeWays, SetOf
<1>4. LessLoaded(a) \subseteq Skew
  BY DEF LessLoaded
<1>. QED BY <1>2, <1>3, <1>4 DEF VictimTags

\* A displaced dirty block fits in the DRAM queue, which has been looked at.
LEMMA DisplacedFits ==
    ASSUME NEW queue \in SUBSET (Addr \cup {NoAddr}), NEW b \in Block,
           Cardinality(queue) <= DramWqSize,
           block \in [Block -> Datum], block[b].dirty => HasRoom(queue)
    PROVE  /\ DisplacedTo(queue, b) \subseteq Addr \cup {NoAddr}
           /\ Cardinality(DisplacedTo(queue, b)) <= DramWqSize
<1>1. block[b].addr \in Addr \cup {NoAddr}
  BY DEF Datum
<1>2. IsFiniteSet(queue)
  <2>1. IsFiniteSet(Addr \cup {NoAddr})
    BY MirageAssumption, FS_AddElement
  <2>. QED BY <2>1, FS_Subset
<1>3. Cardinality(queue) \in Nat /\ DramWqSize \in Nat
  BY <1>2, FS_CardinalityType, MirageAssumption
<1>4. CASE block[b].dirty
  <2>1. Cardinality(queue) + 1 <= DramWqSize
    BY <1>3, <1>4 DEF HasRoom
  <2>2. \/ Cardinality(queue \cup {block[b].addr}) = Cardinality(queue)
        \/ Cardinality(queue \cup {block[b].addr}) = Cardinality(queue) + 1
    BY <1>2, FS_AddElement
  <2>. QED BY <1>1, <1>3, <1>4, <2>1, <2>2 DEF DisplacedTo
<1>5. CASE ~block[b].dirty
  BY <1>5 DEF DisplacedTo
<1>. QED BY <1>4, <1>5

\* What remove_tag_entry_from_block leaves: every other tag, and none that leads to b.
LEMMA UntaggedKeepsOthers ==
    ASSUME StoreTypes, StoresMatch, NEW b \in Block, NEW f \in Entry
    PROVE  /\ Untagged(b) \in [Entry -> Tag]
           /\ Untagged(b)[f].data # NoBlock => Untagged(b)[f] = tags[f] /\ tags[f].data # b
           /\ (BlockValid(b) /\ f = block[b].owner) \/ Untagged(b)[f] = tags[f]
<1>1. NoTag \in Tag /\ NoTag.data = NoBlock
  BY DEF NoTag, Tag
<1>2. BlockValid(b) => block[b].owner \in Entry
  BY DEF BlockValid, StoreTypes, Datum
<1>3. tags[f].data = b => BlockValid(b) /\ block[b].owner = f
  BY MirageAssumption DEF StoresMatch, TagsBacked, Valid, BlockValid
<1>. QED BY <1>1, <1>2, <1>3 DEF Untagged, StoreTypes

-----------------------------------------------------------------------------
(* Place keeps the stores in shape *)

LEMMA PlaceKeepsStores ==
    ASSUME StoresInv, DramTypes, NEW a \in Addr, NEW e \in Entry, NEW b \in Block,
           NEW dirty \in BOOLEAN, CanDisplace(b), Place(a, e, b, dirty),
           refilled' \in SUBSET Addr, refilled \subseteq refilled',
           Lookup(a) = {} \/ a \in refilled'
    PROVE  StoresInv' /\ DramTypes'
<1> DEFINE queue == DisplacedTo(dramWQ, b)
           old == Untagged(b)[e]
<1>1. /\ tags' = [Untagged(b) EXCEPT ![e] = [addr |-> a, data |-> b]]
      /\ block' = [c \in Block |->
                     IF c = b THEN [addr |-> a, dirty |-> dirty, owner |-> e]
                     ELSE IF Evicts(old, queue) /\ c = old.data THEN Emptied(c)
                     ELSE block[c]]
      /\ dramWQ' = IF Evicts(old, queue) THEN DisplacedTo(queue, old.data) ELSE queue
      /\ refused' = (refused \/ Refuses(old, queue))
      /\ strayed' = (strayed \/ e \notin Candidates(a))
  BY DEF Place
<1>2. old \in Tag /\ (old.data # NoBlock => old = tags[e] /\ old.data \in Block /\ old.data # b)
  BY UntaggedKeepsOthers DEF StoresInv, Tag
<1>3. [addr |-> a, data |-> b] \in Tag
  BY DEF Tag
<1>4. Untagged(b) \in [Entry -> Tag]
  BY UntaggedKeepsOthers DEF StoresInv
<1>5. /\ tags'[e] = [addr |-> a, data |-> b]
      /\ \A f \in Entry : f # e => tags'[f] = Untagged(b)[f]
      /\ tags' \in [Entry -> Tag]
  BY <1>1, <1>3, <1>4
<1>6. [addr |-> a, dirty |-> dirty, owner |-> e] \in Datum
  BY DEF Datum
<1>7. \A c \in Block : Emptied(c) \in Datum /\ Emptied(c).owner = NoEntry
  BY DEF Emptied, Datum, StoresInv, StoreTypes
<1>8. StoreTypes'
  <2>1. block' \in [Block -> Datum]
    BY <1>1, <1>6, <1>7 DEF StoresInv, StoreTypes
  <2>2. refused' \in BOOLEAN /\ strayed' \in BOOLEAN
    BY <1>1, Zenon
  <2>. QED BY <1>5, <2>1, <2>2 DEF StoreTypes
<1>9. TagsBacked'
  <2>. SUFFICES ASSUME NEW f \in Entry, tags'[f].data # NoBlock
                PROVE  /\ tags'[f].data \in Block
                       /\ block'[tags'[f].data].owner = f
                       /\ block'[tags'[f].data].addr = tags'[f].addr
    BY DEF TagsBacked, Valid
  <2>1. CASE f = e
    BY <2>1, <1>1, <1>5
  <2>2. CASE f # e
    <3>1. tags'[f] = tags[f] /\ tags[f].data # b
      BY <2>2, <1>5, UntaggedKeepsOthers DEF StoresInv
    <3>2. /\ tags[f].data \in Block /\ block[tags[f].data].owner = f
          /\ block[tags[f].data].addr = tags[f].addr
      BY <3>1 DEF StoresInv, StoresMatch, TagsBacked, Valid
    <3>3. Evicts(old, queue) => tags[f].data # old.data
      <4>. SUFFICES ASSUME old.data # NoBlock, tags[f].data = old.data PROVE FALSE
        BY DEF Evicts
      <4>1. old = tags[e] /\ block[tags[e].data].owner = e
        BY <1>2 DEF StoresInv, StoresMatch, TagsBacked, Valid
      <4>. QED BY <2>2, <3>2, <4>1
    <3>4. block'[tags[f].data] = block[tags[f].data]
      BY <1>1, <3>1, <3>2, <3>3
    <3>. QED BY <3>1, <3>2, <3>4
  <2>. QED BY <2>1, <2>2
<1>10. ~refused' => BlocksOwned'
  <2>. SUFFICES ASSUME ~refused', NEW c \in Block, block'[c].owner # NoEntry
                PROVE  tags'[block'[c].owner].data = c
    BY DEF BlocksOwned, BlockValid
  <2>1. CASE c = b
    BY <2>1, <1>1, <1>5
  <2>2. CASE c # b
    <3>1. ~(Evicts(old, queue) /\ c = old.data) /\ block'[c] = block[c]
      BY <2>2, <1>1, <1>7
    <3>2. ~refused /\ ~Refuses(old, queue)
      BY <1>1
    <3>3. block[c].owner \in Entry /\ tags[block[c].owner].data = c /\ c # NoBlock
      BY <3>1, <3>2, MirageAssumption
         DEF StoresInv, StoresMatch, BlocksOwned, BlockValid, StoreTypes, Datum
    <3>4. Untagged(b)[block[c].owner] = tags[block[c].owner]
      <4>1. BlockValid(b) => tags[block[b].owner].data = b
        BY <3>2 DEF StoresInv, StoresMatch, BlocksOwned
      <4>. QED BY <2>2, <3>3, <4>1, UntaggedKeepsOthers DEF StoresInv
    <3>5. block[c].owner # e
      <4>1. block[c].owner = e => old.data = c
        BY <3>3, <3>4
      <4>. QED BY <3>1, <3>2, <3>3, <4>1 DEF Evicts
    <3>. QED BY <1>5, <3>1, <3>3, <3>4, <3>5
  <2>. QED BY <2>1, <2>2
<1>11. LookupExact'
  <2>1. \A f \in Entry : tags'[f].data # NoBlock =>
            f = e \/ (tags'[f] = tags[f] /\ Valid(f))
    BY <1>5, UntaggedKeepsOthers DEF StoresInv, Valid
  <2>. SUFFICES ASSUME ~strayed'
                PROVE  /\ \A f \in Entry : tags'[f].data # NoBlock =>
                             tags'[f].addr \in Addr /\ f \in Candidates(tags'[f].addr)
                       /\ \A f, g \in Entry :
                             /\ tags'[f].data # NoBlock /\ tags'[g].data # NoBlock
                             /\ tags'[f].addr = tags'[g].addr
                             => f = g \/ tags'[f].addr \in refilled'
    BY DEF LookupExact, Valid, Candidates, SetOf
  <2>2. ~strayed /\ e \in Candidates(a)
    BY <1>1
  <2>3. /\ \A f \in Entry : Valid(f) =>
              tags[f].addr \in Addr /\ f \in Candidates(tags[f].addr)
        /\ \A f, g \in Entry :
              Valid(f) /\ Valid(g) /\ tags[f].addr = tags[g].addr =>
                  f = g \/ tags[f].addr \in refilled
    BY <2>2 DEF StoresInv, LookupExact
  <2>4. \A f \in Entry : Valid(f) /\ tags[f].addr = a => a \in refilled'
    BY <2>3 DEF Lookup
  <2>5. ASSUME NEW f \in Entry, tags'[f].data # NoBlock
        PROVE  tags'[f].addr \in Addr /\ f \in Candidates(tags'[f].addr)
    <3>1. CASE f = e
      BY <3>1, <1>5, <2>2
    <3>2. CASE f # e
      BY <3>2, <2>5, <2>1, <2>3
    <3>. QED BY <3>1, <3>2
  <2>6. ASSUME NEW f \in Entry, NEW g \in Entry,
               tags'[f].data # NoBlock, tags'[g].data # NoBlock,
               tags'[f].addr = tags'[g].addr, f # g
        PROVE  tags'[f].addr \in refilled'
    <3>1. CASE f = e
      BY <2>6, <3>1, <1>5, <2>1, <2>4
    <3>2. CASE g = e
      BY <2>6, <3>2, <1>5, <2>1, <2>4
    <3>3. CASE f # e /\ g # e
      BY <2>6, <3>3, <2>1, <2>3
    <3>. QED BY <3>1, <3>2, <3>3
  <2>. QED BY <2>5, <2>6
<1>12. DramTypes'
  <2>1. queue \subseteq Addr \cup {NoAddr} /\ Cardinality(queue) <= DramWqSize
    BY DisplacedFits DEF CanDisplace, DramTypes, StoresInv, StoreTypes
  <2>2. CASE Evicts(old, queue)
    <3>1. old.data \in Block /\ (block[old.data].dirty => HasRoom(queue))
      BY <1>2, <2>2 DEF Evicts, Refuses
    <3>2. /\ DisplacedTo(queue, old.data) \subseteq Addr \cup {NoAddr}
          /\ Cardinality(DisplacedTo(queue, old.data)) <= DramWqSize
      BY <2>1, <3>1, DisplacedFits DEF StoresInv, StoreTypes
    <3>. QED BY <1>1, <2>2, <3>2 DEF DramTypes
  <2>3. CASE ~Evicts(old, queue)
    BY <1>1, <2>1, <2>3 DEF DramTypes
  <2>. QED BY <2>2, <2>3
<1>. QED BY <1>8, <1>9, <1>10, <1>11, <1>12 DEF StoresInv, StoresMatch

-----------------------------------------------------------------------------
(* The steps *)

\* What the properties say of the stores depends on the stores alone.
LEMMA StoresUnchanged ==
    ASSUME StoresInv, UNCHANGED stores
    PROVE  StoresInv'
BY DEF StoresInv, StoreTypes, StoresMatch, TagsBacked, BlocksOwned, LookupExact, Valid,
       BlockValid, Candidates, SetOf, stores

LEMMA HaltKeepsInv ==
    ASSUME IInv, NEW why \in {"owner_mismatch", "outside_tags"}, Halt(why)
    PROVE  IInv'
<1>1. UNCHANGED <<stores, mshr, wq, dramWQ>> /\ HaltTypes'
  BY DEF Halt, HaltTypes
<1>2. StoresInv'
  BY <1>1, StoresUnchanged DEF IInv
<1>. QED BY <1>1, <1>2 DEF IInv, MissTypes, WqTypes, DramTypes

\* An MSHR entry that is freed, or that changes between in flight and returned.
LEMMA MissAnswered ==
    ASSUME MissTypes, NEW a \in Addr, NEW new \in {"idle", "returned"}, mshr[a] # "idle",
           mshr' = [mshr EXCEPT ![a] = new]
    PROVE  MissTypes'
<1> DEFINE S == {x \in Addr : mshr[x] # "idle"}
           T == {x \in Addr : mshr'[x] # "idle"}
<1>1. mshr' \in [Addr -> {"idle", "waiting", "returned"}]
  BY DEF MissTypes
<1>2. T \subseteq S
  BY DEF MissTypes
<1>3. IsFiniteSet(S)
  BY MirageAssumption, FS_Subset
<1>4. IsFiniteSet(T) /\ Cardinality(T) <= Cardinality(S)
  BY <1>2, <1>3, FS_Subset
<1>5. Cardinality(S) \in Nat /\ Cardinality(T) \in Nat /\ MshrSize \in Nat
  BY <1>3, <1>4, FS_CardinalityType, MirageAssumption
<1>6. Cardinality(S) <= MshrSize
  BY DEF MissTypes
<1>7. Cardinality(T) <= MshrSize
  BY <1>4, <1>5, <1>6
<1>. QED BY <1>1, <1>7 DEF MissTypes

LEMMA MissStarted ==
    ASSUME MissTypes, NEW a \in Addr, mshr[a] = "idle",
           Cardinality({x \in Addr : mshr[x] # "idle"}) < MshrSize,
           mshr' = [mshr EXCEPT ![a] = "waiting"]
    PROVE  MissTypes'
<1> DEFINE S == {x \in Addr : mshr[x] # "idle"}
           T == {x \in Addr : mshr'[x] # "idle"}
<1>1. mshr' \in [Addr -> {"idle", "waiting", "returned"}]
  BY DEF MissTypes
<1>2. T = S \cup {a} /\ a \notin S
  BY DEF MissTypes
<1>3. IsFiniteSet(S)
  BY MirageAssumption, FS_Subset
<1>4. Cardinality(T) = Cardinality(S) + 1
  BY <1>2, <1>3, FS_AddElement
<1>5. Cardinality(S) \in Nat /\ MshrSize \in Nat
  BY <1>3, FS_CardinalityType, MirageAssumption
<1>6. Cardinality(S) < MshrSize
  OBVIOUS
<1>7. Cardinality(T) <= MshrSize
  BY <1>4, <1>5, <1>6
<1>. QED BY <1>1, <1>7 DEF MissTypes

LEMMA WqPopped ==
    ASSUME WqTypes, wq # <<>>, wq' = Tail(wq)
    PROVE  WqTypes' /\ Head(wq) \in Addr
BY MirageAssumption DEF WqTypes

LEMMA HandleFillKeepsInv ==
    ASSUME IInv, NEW a \in Addr, HandleFill(a)
    PROVE  IInv'
<1>1. PICK e \in VictimTags(a), b \in Block :
        /\ CanDisplace(b)
        /\ IF BlockValid(b) /\ ~OwnerAgrees(b) THEN Halt("owner_mismatch")
           ELSE IF e = NoEntry THEN Halt("outside_tags")
           ELSE /\ Place(a, e, b, FALSE) /\ UNCHANGED halt
                /\ mshr' = [mshr EXCEPT ![a] = "idle"]
                /\ refilled' = IF Lookup(a) = {} THEN refilled ELSE refilled \cup {a}
                /\ UNCHANGED wq
  BY DEF HandleFill, Install
<1>2. CASE Halt("owner_mismatch") \/ Halt("outside_tags")
  BY <1>2, HaltKeepsInv
<1>3. CASE /\ e # NoEntry /\ Place(a, e, b, FALSE) /\ UNCHANGED <<halt, wq>>
           /\ mshr' = [mshr EXCEPT ![a] = "idle"]
           /\ refilled' = IF Lookup(a) = {} THEN refilled ELSE refilled \cup {a}
  <2>1. e \in Entry
    BY <1>3, VictimsAreEntries
  <2>2. /\ refilled' \in SUBSET Addr /\ refilled \subseteq refilled'
        /\ Lookup(a) = {} \/ a \in refilled'
    BY <1>3 DEF IInv, StoresInv, StoreTypes
  <2>3. StoresInv' /\ DramTypes'
    BY <1>1, <1>3, <2>1, <2>2, PlaceKeepsStores DEF IInv
  <2>4. MissTypes'
    BY <1>3, MissAnswered DEF IInv, HandleFill
  <2>. QED BY <1>3, <2>3, <2>4 DEF IInv, WqTypes, HaltTypes
<1>. QED BY <1>1, <1>2, <1>3

LEMMA WbMissKeepsInv ==
    ASSUME IInv, NEW a \in Addr, WbMiss(a)
    PROVE  IInv'
<1>1. PICK e \in VictimTags(a), b \in Block :
        /\ CanDisplace(b)
        /\ IF BlockValid(b) /\ ~OwnerAgrees(b) THEN Halt("owner_mismatch")
           ELSE IF e = NoEntry THEN Halt("outside_tags")
           ELSE /\ Place(a, e, b, TRUE) /\ UNCHANGED halt
                /\ wq' = Tail(wq) /\ UNCHANGED <<mshr, refilled>>
  BY DEF WbMiss, Install
<1>2. CASE Halt("owner_mismatch") \/ Halt("outside_tags")
  BY <1>2, HaltKeepsInv
<1>3. CASE /\ e # NoEntry /\ Place(a, e, b, TRUE) /\ UNCHANGED <<halt, mshr, refilled>>
           /\ wq' = Tail(wq)
  <2>1. e \in Entry
    BY <1>3, VictimsAreEntries
  <2>2. refilled' \in SUBSET Addr /\ refilled \subseteq refilled' /\ Lookup(a) = {}
    BY <1>3 DEF IInv, StoresInv, StoreTypes, WbMiss
  <2>3. StoresInv' /\ DramTypes'
    BY <1>1, <1>3, <2>1, <2>2, PlaceKeepsStores DEF IInv
  <2>4. WqTypes'
    BY <1>3, WqPopped DEF IInv, WbMiss, WbReady
  <2>. QED BY <1>3, <2>3, <2>4 DEF IInv, MissTypes, HaltTypes
<1>. QED BY <1>1, <1>2, <1>3

LEMMA WbHitKeepsInv ==
    ASSUME IInv, NEW a \in Addr, WbHit(a)
    PROVE  IInv'
<1>1. PICK e \in First(a) : block' = [block EXCEPT ![tags[e].data].dirty = TRUE]
  BY DEF WbHit
<1>2. /\ wq' = Tail(wq) /\ wq # <<>>
      /\ UNCHANGED <<tags, refused, strayed, refilled, mshr, dramWQ, halt>>
  BY DEF WbHit, WbReady
<1>3. /\ block' \in [Block -> Datum]
      /\ \A b \in Block : block'[b].owner = block[b].owner /\ block'[b].addr = block[b].addr
  BY <1>1 DEF IInv, StoresInv, StoreTypes, Datum
<1>4. StoreTypes'
  BY <1>2, <1>3 DEF IInv, StoresInv, StoreTypes
<1>5. StoresMatch' /\ LookupExact'
  BY <1>2, <1>3 DEF IInv, StoresInv, StoresMatch, TagsBacked, BlocksOwned, LookupExact, Valid,
                    BlockValid, Candidates, SetOf
<1>6. WqTypes'
  BY <1>2, WqPopped DEF IInv
<1>. QED BY <1>2, <1>4, <1>5, <1>6 DEF IInv, StoresInv, MissTypes, DramTypes, HaltTypes

\* The steps that leave the two stores alone.
LEMMA QueueStepKeepsInv ==
    ASSUME IInv, NEW a \in Addr \cup {NoAddr},
           \/ a \in Addr /\ (StartMiss(a) \/ ReturnData(a) \/ AddWq(a))
           \/ DramWrite(a)
    PROVE  IInv'
<1>1. UNCHANGED stores /\ UNCHANGED halt
  BY DEF StartMiss, ReturnData, AddWq, DramWrite
<1>2. StoresInv' /\ HaltTypes'
  BY <1>1, StoresUnchanged DEF IInv, HaltTypes
<1>3. CASE a \in Addr /\ StartMiss(a)
  <2>1. MissTypes'
    BY <1>3, MissStarted DEF IInv, StartMiss
  <2>. QED BY <1>2, <1>3, <2>1 DEF IInv, StartMiss, WqTypes, DramTypes
<1>4. CASE a \in Addr /\ ReturnData(a)
  <2>1. MissTypes'
    BY <1>4, MissAnswered DEF IInv, ReturnData
  <2>. QED BY <1>2, <1>4, <2>1 DEF IInv, ReturnData, WqTypes, DramTypes
<1>5. CASE a \in Addr /\ AddWq(a)
  <2>1. WqTypes'
    BY <1>5, MirageAssumption DEF IInv, AddWq, WqTypes
  <2>. QED BY <1>2, <1>5, <2>1 DEF IInv, AddWq, MissTypes, DramTypes
<1>6. CASE DramWrite(a)
  <2>1. IsFiniteSet(dramWQ)
    <3>1. IsFiniteSet(Addr \cup {NoAddr})
      BY MirageAssumption, FS_AddElement
    <3>. QED BY <3>1, FS_Subset DEF IInv, DramTypes
  <2>2. dramWQ' \subseteq dramWQ
    BY <1>6 DEF DramWrite
  <2>3. IsFiniteSet(dramWQ') /\ Cardinality(dramWQ') <= Cardinality(dramWQ)
    BY <2>1, <2>2, FS_Subset
  <2>4. Cardinality(dramWQ) \in Nat /\ Cardinality(dramWQ') \in Nat /\ DramWqSize \in Nat
    BY <2>1, <2>3, FS_CardinalityType, MirageAssumption
  <2>5. DramTypes'
    BY <2>2, <2>3, <2>4 DEF IInv, DramTypes
  <2>. QED BY <1>2, <1>6, <2>5 DEF IInv, DramWrite, MissTypes, WqTypes
<1>. QED BY <1>3, <1>4, <1>5, <1>6

-----------------------------------------------------------------------------
(* The theorems *)

LEMMA InitEstablishesInv == Init => IInv
<1>. SUFFICES ASSUME Init PROVE IInv
  OBVIOUS
<1>1. NoTag \in Tag /\ NoTag.data = NoBlock
  BY DEF NoTag, Tag
<1>2. NoData \in Datum /\ NoData.owner = NoEntry
  BY DEF NoData, Datum
<1>3. StoreTypes
  <2>1. tags \in [Entry -> Tag] /\ block \in [Block -> Datum]
    BY <1>1, <1>2 DEF Init
  <2>2. refused \in BOOLEAN /\ strayed \in BOOLEAN
    BY Zenon DEF Init
  <2>. QED BY <2>1, <2>2 DEF Init, StoreTypes
<1>4. StoresMatch /\ LookupExact
  BY <1>1, <1>2 DEF Init, StoresMatch, TagsBacked, BlocksOwned, LookupExact, Valid, BlockValid
<1>5. MissTypes /\ DramTypes
  <2>1. {a \in Addr : mshr[a] # "idle"} = {} /\ dramWQ = {}
    BY DEF Init
  <2>2. Cardinality({}) = 0 /\ MshrSize \in Nat /\ DramWqSize \in Nat
    BY FS_EmptySet, MirageAssumption
  <2>3. Cardinality({a \in Addr : mshr[a] # "idle"}) <= MshrSize
    BY <2>1, <2>2
  <2>4. mshr \in [Addr -> {"idle", "waiting", "returned"}]
    BY DEF Init
  <2>. QED BY <2>1, <2>2, <2>3, <2>4 DEF MissTypes, DramTypes
<1>6. WqTypes /\ HaltTypes
  BY MirageAssumption DEF Init, WqTypes, HaltTypes
<1>. QED BY <1>3, <1>4, <1>5, <1>6 DEF IInv, StoresInv

LEMMA NextKeepsInv == IInv /\ [Next]_vars => IInv'
<1>1. ASSUME IInv, Next PROVE IInv'
  <2>1. CASE \E a \in Addr : HandleFill(a) \/ HandleWriteback(a)
    BY <1>1, <2>1, HandleFillKeepsInv, WbMissKeepsInv, WbHitKeepsInv DEF HandleWriteback
  <2>2. CASE \E a \in Addr : StartMiss(a) \/ ReturnData(a) \/ AddWq(a)
    BY <1>1, <2>2, QueueStepKeepsInv
  <2>3. CASE \E a \in Addr \cup {NoAddr} : DramWrite(a)
    BY <1>1, <2>3, QueueStepKeepsInv
  <2>. QED BY <1>1, <2>1, <2>2, <2>3 DEF Next
<1>2. ASSUME IInv, UNCHANGED vars PROVE IInv'
  BY <1>2, StoresUnchanged DEF vars, IInv, MissTypes, WqTypes, DramTypes, HaltTypes
<1>. QED BY <1>1, <1>2

LEMMA InvAlways == Spec => []IInv
<1>. QED BY InitEstablishesInv, NextKeepsInv, PTL DEF Spec

\* Every variable keeps its type, and MSHR and queues their sizes.
THEOREM MirageTypes == Spec => []TypeOK
<1>1. IInv => TypeOK
  BY DEF IInv, StoresInv, StoreTypes, MissTypes, WqTypes, DramTypes, HaltTypes, TypeOK, Tag, Datum
<1>. QED BY <1>1, InvAlways, PTL

\* A tag always leads to its block and back, so the asserts of the handlers on a hit never
\* fail; and no valid block is out of reach until an eviction is refused.
THEOREM StoresAlwaysMatch == Spec => []StoresMatch
<1>1. IInv => StoresMatch
  BY DEF IInv, StoresInv
<1>. QED BY <1>1, InvAlways, PTL

\* As long as no way past the end of a tag set is drawn, a lookup misses no tag; and only a
\* fill, which does not look for a tag of its address, can give an address a second one.
THEOREM LookupAlwaysExact == Spec => []LookupExact
<1>1. IInv => LookupExact
  BY DEF IInv, StoresInv
<1>. QED BY <1>1, InvAlways, PTL
=============================================================================
