------------------------ MODULE CacheHierarchy_proofs ------------------------
(***************************************************************************)
(* Invariants of CacheHierarchy for every number of blocks and ways and    *)
(* for queues and MSHRs of every size.  Link is inductive with the types   *)
(* and the uniqueness of queue entries: that the L1D waits for what the    *)
(* L2C will answer needs that at most one of queue, prefetch queue and     *)
(* MSHR is going to answer, which needs that no write-back puts a block    *)
(* into the L2C that the L1D waits for.                                    *)
(***************************************************************************)
EXTENDS CacheHierarchy, FiniteSetTheorems, TLAPS

Line == [addr : Addr \cup {NoAddr}, dirty : BOOLEAN]
MshrEntry == [kind : Kind, fill : 0 .. 2, returned : BOOLEAN]

\* The part of TypeOK about single values, and that what is dirty is a block, and what is
\* missing has a level to fill.
BlockTypes ==
    /\ DOMAIN block = Cache
    /\ \A c \in Cache : block[c] \in [Ways(c) -> Line]
    /\ \A c \in Cache : \A w \in Ways(c) : block[c][w].dirty => block[c][w].addr \in Addr
MshrTypes ==
    /\ mshr \in [Cache -> [Addr -> MshrEntry]]
    /\ \A c \in Cache, a \in Addr : Missing(c, a) => mshr[c][a].fill \in 1 .. 2
    /\ \A c \in Cache : Cardinality({a \in Addr : mshr[c][a].kind # "none"}) <= MshrSize[c]
RqTypes == rq \in [Cache -> Seq(Addr)] /\ \A c \in Cache : Len(rq[c]) <= RqSize[c]
WqTypes == wq \in [Cache -> Seq(Addr)] /\ \A c \in Cache : Len(wq[c]) <= WqSize[c]
PqTypes == pq \in [Cache -> Seq(Prefetch)] /\ \A c \in Cache : Len(pq[c]) <= PqSize[c]

\* The queues hold an address once.
Once(q) == \A m, n \in 1 .. Len(q) : q[m] = q[n] => m = n
OnceByAddr(q) == \A m, n \in 1 .. Len(q) : q[m].addr = q[n].addr => m = n

\* What the two caches know of address a.
Expects(a) == InFlight("L1D", a)
Read(a) == a \in Elements(rq["L2C"])
Ahead(a) == [addr |-> a, fill |-> 1] \in Elements(pq["L2C"])
Below(a) == Missing("L2C", a) /\ mshr["L2C"][a].fill = 1
Back(a) == a \in Elements(wq["L2C"])
Tracked(a) ==
    a \in waiting => a \in Elements(rq["L1D"]) \/ mshr["L1D"][a].kind \in {"load", "rfo"}

Link(a) ==
    /\ Expects(a) <=> Read(a) \/ Ahead(a) \/ Below(a)
    /\ ~(Read(a) /\ Ahead(a)) /\ ~(Ahead(a) /\ Below(a))
    /\ Expects(a) => ~Back(a)
    /\ Below(a) => ~Hit("L2C", a)
    /\ Missing("L1D", a) => ~Hit("L1D", a)

Types ==
    /\ BlockTypes /\ MshrTypes /\ RqTypes /\ WqTypes /\ PqTypes
    /\ waiting \subseteq Addr
    /\ Once(rq["L2C"])
    /\ \A c \in Cache : OnceByAddr(pq[c])
IInv == Types /\ (\A a \in Addr : Link(a)) /\ (\A a \in Addr : Tracked(a))

-----------------------------------------------------------------------------
(* The queues *)

LEMMA PushAdds ==
    ASSUME NEW S, NEW q \in Seq(S), NEW e \in S
    PROVE  /\ Push(q, e) \in Seq(S)
           /\ Len(Push(q, e)) = (IF e \in Elements(q) THEN Len(q) ELSE Len(q) + 1)
           /\ \A x : x \in Elements(Push(q, e)) <=> x = e \/ x \in Elements(q)
           /\ Once(q) => Once(Push(q, e))
<1>1. CASE e \in Elements(q)
  BY <1>1 DEF Push
<1>2. CASE e \notin Elements(q)
  <2>1. Push(q, e) = Append(q, e) /\ Append(q, e) \in Seq(S)
    BY <1>2 DEF Push
  <2>2. /\ Len(Append(q, e)) = Len(q) + 1 /\ Append(q, e)[Len(q) + 1] = e
        /\ \A n \in 1 .. Len(q) : Append(q, e)[n] = q[n]
    OBVIOUS
  <2>3. \A x : x \in Elements(Append(q, e)) <=> x = e \/ x \in Elements(q)
    BY <2>2 DEF Elements
  <2>4. Once(q) => Once(Append(q, e))
    BY <1>2, <2>2 DEF Once, Elements
  <2>. QED BY <1>2, <2>1, <2>2, <2>3, <2>4
<1>. QED BY <1>1, <1>2

LEMMA TailDrops ==
    ASSUME NEW S, NEW q \in Seq(S), q # <<>>
    PROVE  /\ Head(q) \in S /\ Head(q) \in Elements(q)
           /\ Tail(q) \in Seq(S) /\ Len(Tail(q)) = Len(q) - 1
           /\ \A x : x \in Elements(q) <=> x = Head(q) \/ x \in Elements(Tail(q))
           /\ Once(q) => Once(Tail(q)) /\ Head(q) \notin Elements(Tail(q))
           /\ OnceByAddr(q) =>
                 /\ OnceByAddr(Tail(q))
                 /\ \A x \in Elements(Tail(q)) : x.addr # Head(q).addr
<1>1. /\ Len(q) \in Nat \ {0} /\ Head(q) = q[1] /\ q[1] \in S
      /\ Tail(q) \in Seq(S) /\ Len(Tail(q)) = Len(q) - 1
      /\ \A n \in 1 .. Len(q) - 1 : Tail(q)[n] = q[n + 1]
  OBVIOUS
<1>2. \A x : x \in Elements(q) <=> x = Head(q) \/ x \in Elements(Tail(q))
  <2>1. ASSUME NEW x, x \in Elements(q) PROVE x = Head(q) \/ x \in Elements(Tail(q))
    <3>1. PICK n \in 1 .. Len(q) : x = q[n]
      BY <2>1 DEF Elements
    <3>2. CASE n > 1
      <4>1. n - 1 \in 1 .. Len(q) - 1 /\ Tail(q)[n - 1] = q[n]
        BY <1>1, <3>2
      <4>. QED BY <1>1, <3>1, <4>1 DEF Elements
    <3>. QED BY <1>1, <3>1, <3>2
  <2>2. ASSUME NEW x, x \in Elements(Tail(q)) PROVE x \in Elements(q)
    BY <1>1, <2>2 DEF Elements
  <2>3. Head(q) \in Elements(q)
    BY <1>1 DEF Elements
  <2>. QED BY <2>1, <2>2, <2>3
<1>3. Once(q) => Once(Tail(q)) /\ Head(q) \notin Elements(Tail(q))
  BY <1>1 DEF Once, Elements
<1>4. OnceByAddr(q) =>
        OnceByAddr(Tail(q)) /\ \A x \in Elements(Tail(q)) : x.addr # Head(q).addr
  BY <1>1 DEF OnceByAddr, Elements
<1>. QED BY <1>1, <1>2, <1>3, <1>4

LEMMA RemoveAtDrops ==
    ASSUME NEW S, NEW q \in Seq(S), NEW i \in 1 .. Len(q)
    PROVE  /\ RemoveAt(q, i) \in Seq(S) /\ Len(RemoveAt(q, i)) = Len(q) - 1
           /\ \A x : x \in Elements(RemoveAt(q, i)) <=>
                        \E n \in 1 .. Len(q) : n # i /\ x = q[n]
           /\ Once(q) => Once(RemoveAt(q, i))
           /\ OnceByAddr(q) => OnceByAddr(RemoveAt(q, i))
<1> DEFINE r == RemoveAt(q, i)
<1>1. /\ Len(q) \in Nat \ {0} /\ \A n \in 1 .. Len(q) : q[n] \in S
      /\ r = [n \in 1 .. Len(q) - 1 |-> IF n < i THEN q[n] ELSE q[n + 1]]
  BY DEF RemoveAt
<1>2. \A n \in 1 .. Len(q) - 1 : r[n] = (IF n < i THEN q[n] ELSE q[n + 1]) /\ r[n] \in S
  BY <1>1
<1>3. r \in Seq(S) /\ Len(r) = Len(q) - 1
  BY <1>1, <1>2
<1> HIDE DEF r
<1>4. ASSUME NEW x, x \in Elements(r) PROVE \E n \in 1 .. Len(q) : n # i /\ x = q[n]
  <2>1. PICK n \in 1 .. Len(q) - 1 : x = r[n]
    BY <1>3, <1>4 DEF Elements
  <2>2. CASE n < i
    BY <1>1, <1>2, <2>1, <2>2
  <2>3. CASE ~(n < i)
    <3>1. n + 1 \in 1 .. Len(q) /\ n + 1 # i /\ x = q[n + 1]
      BY <1>1, <1>2, <2>1, <2>3
    <3>. QED BY <3>1
  <2>. QED BY <2>2, <2>3
<1>5. ASSUME NEW n \in 1 .. Len(q), n # i PROVE q[n] \in Elements(r)
  <2>1. CASE n < i
    <3>1. n \in 1 .. Len(q) - 1 /\ r[n] = q[n]
      BY <1>1, <1>2, <2>1
    <3>. QED BY <1>3, <3>1 DEF Elements
  <2>2. CASE ~(n < i)
    <3>1. n - 1 \in 1 .. Len(q) - 1 /\ ~(n - 1 < i) /\ (n - 1) + 1 = n
      BY <1>1, <1>5, <2>2
    <3>2. r[n - 1] = q[n]
      BY <1>2, <3>1
    <3>. QED BY <1>3, <3>1, <3>2 DEF Elements
  <2>. QED BY <2>1, <2>2
<1>6. Once(q) => Once(r)
  BY <1>1, <1>2, <1>3 DEF Once
<1>7. OnceByAddr(q) => OnceByAddr(r)
  BY <1>1, <1>2, <1>3 DEF OnceByAddr
<1>. QED BY <1>3, <1>4, <1>5, <1>6, <1>7 DEF r

LEMMA DropLeaves ==
    ASSUME NEW q \in Seq(Addr), NEW a \in Addr, Once(q)
    PROVE  /\ Drop(q, a) \in Seq(Addr) /\ Once(Drop(q, a)) /\ Len(Drop(q, a)) <= Len(q)
           /\ \A x : x \in Elements(Drop(q, a)) <=> x \in Elements(q) /\ x # a
<1>1. CASE a \in Elements(q)
  <2> DEFINE i == CHOOSE i \in 1 .. Len(q) : q[i] = a
  <2>1. i \in 1 .. Len(q) /\ q[i] = a
    BY <1>1 DEF Elements
  <2>2. Drop(q, a) = RemoveAt(q, i)
    BY <1>1 DEF Drop
  <2> HIDE DEF i
  <2>3. \A n \in 1 .. Len(q) : n # i <=> q[n] # a
    BY <2>1 DEF Once
  <2>4. Len(q) \in Nat
    OBVIOUS
  <2>5. \A x : x \in Elements(Drop(q, a)) <=> \E n \in 1 .. Len(q) : n # i /\ x = q[n]
    BY <2>1, <2>2, RemoveAtDrops
  <2>6. \A x : x \in Elements(Drop(q, a)) <=> x \in Elements(q) /\ x # a
    BY <2>3, <2>5 DEF Elements
  <2>7. /\ Drop(q, a) \in Seq(Addr) /\ Once(Drop(q, a)) /\ Len(Drop(q, a)) = Len(q) - 1
    BY <2>1, <2>2, RemoveAtDrops
  <2>. QED BY <2>4, <2>6, <2>7
<1>2. CASE a \notin Elements(q)
  BY <1>2 DEF Drop
<1>. QED BY <1>1, <1>2

LEMMA DropPrefetchLeaves ==
    ASSUME NEW q \in Seq(Prefetch), NEW a \in Addr, OnceByAddr(q)
    PROVE  /\ DropPrefetch(q, a) \in Seq(Prefetch) /\ OnceByAddr(DropPrefetch(q, a))
           /\ Len(DropPrefetch(q, a)) <= Len(q)
           /\ \A x : x \in Elements(DropPrefetch(q, a)) <=> x \in Elements(q) /\ x.addr # a
<1>1. CASE a \in Prefetched(q)
  <2> DEFINE i == CHOOSE i \in 1 .. Len(q) : q[i].addr = a
  <2>1. i \in 1 .. Len(q) /\ q[i].addr = a
    BY <1>1 DEF Prefetched
  <2>2. DropPrefetch(q, a) = RemoveAt(q, i)
    BY <1>1 DEF DropPrefetch
  <2> HIDE DEF i
  <2>3. \A n \in 1 .. Len(q) : n # i <=> q[n].addr # a
    BY <2>1 DEF OnceByAddr
  <2>4. Len(q) \in Nat
    OBVIOUS
  <2>5. \A x : x \in Elements(DropPrefetch(q, a)) <=>
                 \E n \in 1 .. Len(q) : n # i /\ x = q[n]
    BY <2>1, <2>2, RemoveAtDrops
  <2>6. ASSUME NEW x
        PROVE  x \in Elements(DropPrefetch(q, a)) <=> x \in Elements(q) /\ x.addr # a
    <3>1. x \in Elements(q) <=> \E n \in 1 .. Len(q) : x = q[n]
      BY DEF Elements
    <3>. QED BY <2>3, <2>5, <3>1, Zenon
  <2>7. /\ DropPrefetch(q, a) \in Seq(Prefetch) /\ OnceByAddr(DropPrefetch(q, a))
        /\ Len(DropPrefetch(q, a)) = Len(q) - 1
    BY <2>1, <2>2, RemoveAtDrops
  <2>. QED BY <2>4, <2>6, <2>7
<1>2. CASE a \notin Prefetched(q)
  BY <1>2 DEF DropPrefetch, Prefetched, Elements
<1>. QED BY <1>1, <1>2

Lowered(p, fill) == [p EXCEPT !.fill = fill]

LEMMA LowerFill ==
    ASSUME NEW p \in Prefetch, NEW fill \in 1 .. 2
    PROVE  /\ Lowered(p, fill) \in Prefetch
           /\ Lowered(p, fill).addr = p.addr /\ Lowered(p, fill).fill = fill
BY DEF Prefetch, Lowered

LEMMA PrefetchRecord ==
    ASSUME NEW p \in Prefetch
    PROVE  /\ p.addr \in Addr /\ p.fill \in 1 .. 2
           /\ \A x, f : p = [addr |-> x, fill |-> f] <=> p.addr = x /\ p.fill = f
BY DEF Prefetch

\* add_pq: entries of other addresses stay, and the address has one entry, for the lower
\* of the two levels.
LEMMA PushPrefetchAdds ==
    ASSUME NEW q \in Seq(Prefetch), NEW a \in Addr, NEW fill \in 1 .. 2, OnceByAddr(q)
    PROVE  /\ PushPrefetch(q, a, fill) \in Seq(Prefetch)
           /\ OnceByAddr(PushPrefetch(q, a, fill))
           /\ Len(PushPrefetch(q, a, fill)) <= Len(q) + 1
           /\ \A x \in Addr : x # a =>
                 \A f : [addr |-> x, fill |-> f] \in Elements(PushPrefetch(q, a, fill)) <=>
                        [addr |-> x, fill |-> f] \in Elements(q)
           /\ [addr |-> a, fill |-> 1] \in Elements(PushPrefetch(q, a, fill)) <=>
                 fill = 1 \/ [addr |-> a, fill |-> 1] \in Elements(q)
<1> DEFINE r == PushPrefetch(q, a, fill)
<1>0. Len(q) \in Nat /\ \A n \in 1 .. Len(q) : q[n] \in Prefetch /\ q[n].fill \in 1 .. 2
  BY PrefetchRecord
<1>1. CASE a \in Prefetched(q)
  <2>1. r = [n \in 1 .. Len(q) |->
              IF q[n].addr = a /\ fill < q[n].fill THEN Lowered(q[n], fill) ELSE q[n]]
    BY <1>1 DEF PushPrefetch, Lowered
  <2>2. \A n \in 1 .. Len(q) :
          /\ r[n] \in Prefetch /\ r[n].addr = q[n].addr
          /\ q[n].addr # a => r[n] = q[n]
          /\ q[n].addr = a => r[n].fill = IF fill < q[n].fill THEN fill ELSE q[n].fill
    BY <1>0, <2>1, LowerFill
  <2>3. r \in Seq(Prefetch) /\ Len(r) = Len(q)
    BY <1>0, <2>1, <2>2
  <2> HIDE DEF r
  <2>4. OnceByAddr(r)
    BY <2>2, <2>3 DEF OnceByAddr
  <2>5. ASSUME NEW x \in Addr, x # a, NEW f
        PROVE  [addr |-> x, fill |-> f] \in Elements(r) <=> [addr |-> x, fill |-> f] \in Elements(q)
    <3> DEFINE e == [addr |-> x, fill |-> f]
    <3>1. e.addr = x
      OBVIOUS
    <3> HIDE DEF e
    <3>2. \A n \in 1 .. Len(q) : r[n] = e <=> q[n] = e
      BY <1>0, <2>2, <2>5, <3>1
    <3>3. e \in Elements(r) <=> e \in Elements(q)
      BY <2>3, <3>2 DEF Elements
    <3>. QED BY <3>3 DEF e
  <2>6. [addr |-> a, fill |-> 1] \in Elements(r) <=>
           fill = 1 \/ [addr |-> a, fill |-> 1] \in Elements(q)
    <3> DEFINE e == [addr |-> a, fill |-> 1]
    <3>0. \A p \in Prefetch : p = e <=> p.addr = a /\ p.fill = 1
      BY PrefetchRecord
    <3> HIDE DEF e
    <3>1. PICK n \in 1 .. Len(q) : q[n].addr = a
      BY <1>1 DEF Prefetched
    <3>2. \A m \in 1 .. Len(q) : q[m].addr = a => m = n
      BY <3>1 DEF OnceByAddr
    <3>3. \A m \in 1 .. Len(q) : q[m] = e <=> m = n /\ q[n].fill = 1
      BY <1>0, <3>0, <3>1, <3>2
    <3>4. \A m \in 1 .. Len(q) : r[m] = e <=> m = n /\ r[n].fill = 1
      BY <2>2, <3>0, <3>1, <3>2
    <3>5. e \in Elements(q) <=> q[n].fill = 1
      BY <3>1, <3>3 DEF Elements
    <3>6. e \in Elements(r) <=> r[n].fill = 1
      BY <2>3, <3>1, <3>4 DEF Elements
    <3>7. r[n].fill = 1 <=> fill = 1 \/ q[n].fill = 1
      BY <1>0, <2>2, <3>1
    <3>. QED BY <3>5, <3>6, <3>7 DEF e
  <2>. QED BY <1>0, <2>3, <2>4, <2>5, <2>6 DEF r
<1>2. CASE a \notin Prefetched(q)
  <2> DEFINE e == [addr |-> a, fill |-> fill]
  <2>1. e \in Prefetch /\ e.addr = a /\ r = Append(q, e)
    BY <1>2 DEF Prefetch, PushPrefetch
  <2> HIDE DEF r
  <2>2. /\ r \in Seq(Prefetch) /\ Len(r) = Len(q) + 1 /\ r[Len(q) + 1] = e
        /\ \A n \in 1 .. Len(q) : r[n] = q[n]
    BY <2>1
  <2>3. \A x : x \in Elements(r) <=> x = e \/ x \in Elements(q)
    BY <2>2 DEF Elements
  <2>4. OnceByAddr(r)
    BY <1>2, <2>1, <2>2 DEF OnceByAddr, Prefetched
  <2>5. \A f : [addr |-> a, fill |-> f] \notin Elements(q)
    BY <1>2 DEF Elements, Prefetched
  <2>. QED BY <1>0, <2>2, <2>3, <2>4, <2>5 DEF r
<1>. QED BY <1>1, <1>2

-----------------------------------------------------------------------------
(* The MSHR *)

Marked(m) == [m EXCEPT !.returned = TRUE]

LEMMA EntryFields ==
    ASSUME NEW kind \in Kind, NEW fill \in 0 .. 2, NEW returned \in BOOLEAN
    PROVE  /\ [kind |-> kind, fill |-> fill, returned |-> returned] \in MshrEntry
           /\ \A m \in MshrEntry : m.kind \in Kind /\ m.fill \in 0 .. 2 /\ m.returned \in BOOLEAN
BY DEF MshrEntry

LEMMA MarkedFields ==
    ASSUME NEW m \in MshrEntry
    PROVE  /\ Marked(m) \in MshrEntry
           /\ Marked(m).kind = m.kind /\ Marked(m).fill = m.fill /\ Marked(m).returned
BY DEF Marked, MshrEntry

LEMMA LowerFields ==
    ASSUME NEW m \in MshrEntry, NEW fill \in 1 .. 2
    PROVE  /\ Lower(m, fill) \in MshrEntry
           /\ Lower(m, fill).kind = m.kind /\ Lower(m, fill).returned = m.returned
           /\ Lower(m, fill).fill = IF fill < m.fill THEN fill ELSE m.fill
BY DEF Lower, MshrEntry

LEMMA DemandFields ==
    ASSUME NEW m \in MshrEntry, NEW kind \in {"load", "rfo"}
    PROVE  /\ Demand(m, kind) \in MshrEntry
           /\ Demand(m, kind).returned = m.returned
           /\ Demand(m, kind).kind = IF m.kind = "prefetch" THEN kind ELSE m.kind
           /\ m.kind = "prefetch" => Demand(m, kind).fill = 1
           /\ m.fill \in 1 .. 2 => Demand(m, kind).fill = 1
<1>1. CASE m.kind = "prefetch"
  <2>1. Demand(m, kind) = [kind |-> kind, fill |-> 1, returned |-> m.returned]
    BY <1>1 DEF Demand, MshrEntry
  <2>2. kind \in Kind /\ 1 \in 0 .. 2 /\ m.returned \in BOOLEAN
    BY DEF MshrEntry, Kind
  <2>3. Demand(m, kind) \in MshrEntry
    BY <2>1, <2>2, EntryFields
  <2>. QED BY <1>1, <2>1, <2>3
<1>2. CASE m.kind # "prefetch"
  BY <1>2, LowerFields DEF Demand, MshrEntry
<1>. QED BY <1>1, <1>2

LEMMA MissFields ==
    ASSUME NEW kind \in {"load", "rfo", "prefetch"}, NEW fill \in 1 .. 2
    PROVE  /\ Miss(kind, fill) \in MshrEntry
           /\ Miss(kind, fill).kind = kind /\ Miss(kind, fill).fill = fill
           /\ ~Miss(kind, fill).returned
           /\ NoMiss \in MshrEntry /\ NoMiss.kind = "none"
<1>1. FALSE \in BOOLEAN /\ kind \in Kind /\ fill \in 0 .. 2 /\ "none" \in Kind /\ 0 \in 0 .. 2
  BY DEF Kind
<1>2. Miss(kind, fill) \in MshrEntry /\ NoMiss \in MshrEntry
  BY <1>1, EntryFields, Zenon DEF Miss, NoMiss
<1>3. Miss(kind, fill).kind = kind /\ Miss(kind, fill).fill = fill
  BY DEF Miss
<1>4. ~Miss(kind, fill).returned
  BY DEF Miss
<1>5. NoMiss.kind = "none"
  BY DEF NoMiss
<1>. QED BY <1>2, <1>3, <1>4, <1>5

LEMMA AnsweredFields ==
    ASSUME NEW m \in [Addr -> MshrEntry], NEW a \in Addr
    PROVE  /\ Answered(m, a) \in [Addr -> MshrEntry]
           /\ Answered(m, a)[a] = Marked(m[a])
           /\ \A x \in Addr : x # a => Answered(m, a)[x] = m[x]
           /\ \A x \in Addr : /\ Answered(m, a)[x].kind = m[x].kind
                              /\ Answered(m, a)[x].fill = m[x].fill
           /\ Answered(m, a)[a].returned
<1>1. Answered(m, a) = [m EXCEPT ![a] = Marked(m[a])]
  BY DEF Answered, Marked
<1>. QED BY <1>1, MarkedFields

\* A miss takes an entry that was free, so the MSHR keeps its bound.
LEMMA MshrFits ==
    ASSUME MshrTypes, NEW c \in Cache, NEW a \in Addr,
           \A x \in Addr : x # a => (mshr'[c][x].kind # "none" => Missing(c, x)),
           mshr'[c][a].kind # "none" => Missing(c, a) \/ MshrRoom(c)
    PROVE  Cardinality({x \in Addr : mshr'[c][x].kind # "none"}) <= MshrSize[c]
<1> DEFINE S == {x \in Addr : mshr[c][x].kind # "none"}
           T == {x \in Addr : mshr'[c][x].kind # "none"}
<1>1. IsFiniteSet(S) /\ IsFiniteSet(T)
  BY HierarchyAssumption, FS_Subset
<1>2. Cardinality(S) \in Nat /\ Cardinality(T) \in Nat /\ MshrSize[c] \in Nat
  BY <1>1, FS_CardinalityType, HierarchyAssumption
<1>3. Cardinality(S) <= MshrSize[c]
  BY DEF MshrTypes
<1>4. CASE T \subseteq S
  <2>1. Cardinality(T) <= Cardinality(S)
    BY <1>1, <1>4, FS_Subset
  <2>2. Cardinality(T) <= MshrSize[c]
    BY <1>2, <1>3, <2>1
  <2>. QED BY <2>2
<1>5. CASE ~(T \subseteq S)
  <2>1. T \subseteq S \cup {a} /\ mshr'[c][a].kind # "none" /\ ~Missing(c, a)
    BY <1>5 DEF Missing
  <2>2. Cardinality(S) < MshrSize[c]
    BY <2>1 DEF MshrRoom, Missing
  <2>3. IsFiniteSet(S \cup {a}) /\ Cardinality(S \cup {a}) <= Cardinality(S) + 1
    <3>. HIDE DEF S
    <3>1. /\ IsFiniteSet(S \cup {a})
          /\ \/ Cardinality(S \cup {a}) = Cardinality(S)
             \/ Cardinality(S \cup {a}) = Cardinality(S) + 1
      BY <1>1, FS_AddElement
    <3>. QED BY <1>2, <3>1
  <2>4. Cardinality(T) <= Cardinality(S \cup {a})
    BY <2>1, <2>3, FS_Subset
  <2>5. Cardinality(S \cup {a}) \in Nat
    BY <2>3, FS_CardinalityType
  <2>6. Cardinality(T) <= MshrSize[c]
    BY <1>2, <2>2, <2>3, <2>4, <2>5
  <2>. QED BY <2>6
<1>. QED BY <1>4, <1>5

\* The queue of the L2C has room for a new miss of the L1D: each read in it is a miss the
\* L1D waits for.  This is why the code may ignore the result of add_rq.
LEMMA RoomForMiss ==
    ASSUME IInv, MshrRoom("L1D")
    PROVE  Len(rq["L2C"]) < RqSize["L2C"]
<1> DEFINE S == {x \in Addr : Missing("L1D", x)}
           q == rq["L2C"]
<1>1. q \in Seq(Addr) /\ Once(q) /\ Len(q) \in Nat
  BY DEF IInv, Types, RqTypes, Cache
<1>2. \A n \in 1 .. Len(q) : q[n] \in S
  <2>. SUFFICES ASSUME NEW n \in 1 .. Len(q) PROVE q[n] \in S
    OBVIOUS
  <2>1. q[n] \in Addr /\ Read(q[n])
    BY <1>1 DEF Read, Elements
  <2>2. Expects(q[n])
    BY <2>1 DEF IInv, Link
  <2>. QED BY <2>1, <2>2 DEF Expects, InFlight
<1>3. IsFiniteSet(S)
  BY HierarchyAssumption, FS_Subset
<1>4. Cardinality(1 .. Len(q)) <= Cardinality(S)
  <2> DEFINE f == [n \in 1 .. Len(q) |-> q[n]]
  <2>1. f \in [1 .. Len(q) -> S]
    BY <1>2
  <2>2. \A m, n \in 1 .. Len(q) : f[m] = f[n] => m = n
    BY <1>1 DEF Once
  <2>3. f \in Injection(1 .. Len(q), S)
    BY <2>1, <2>2, Zenon DEF Injection, IsInjective
  <2>. QED BY <1>3, <2>3, FS_Injection
<1>5. Cardinality(1 .. Len(q)) = Len(q)
  BY <1>1, FS_Interval
<1>6. Cardinality(S) < MshrSize["L1D"]
  BY DEF MshrRoom
<1>7. /\ Cardinality(S) \in Nat /\ MshrSize["L1D"] \in Nat /\ RqSize["L2C"] \in Nat
      /\ MshrSize["L1D"] <= RqSize["L2C"]
  BY <1>3, FS_CardinalityType, HierarchyAssumption DEF Cache
<1>. QED BY <1>1, <1>4, <1>5, <1>6, <1>7

-----------------------------------------------------------------------------
(* Blocks *)

LEMMA ReplaceKeepsBlocks ==
    ASSUME BlockTypes, NEW c \in Cache, NEW w \in Ways(c), NEW a \in Addr,
           NEW dirty \in BOOLEAN, Replace(c, w, a, dirty)
    PROVE  /\ BlockTypes'
           /\ \A d \in Cache, x \in Addr : Hit(d, x)' => Hit(d, x) \/ (d = c /\ x = a)
<1>1. [addr |-> a, dirty |-> dirty] \in Line
  BY DEF Line
<1>2. block' = [block EXCEPT ![c] = [block[c] EXCEPT ![w] = [addr |-> a, dirty |-> dirty]]]
  BY DEF Replace
<1>3. \A d \in Cache : Ways(d)' = Ways(d)
  BY DEF Ways
<1>4. /\ DOMAIN block' = Cache
      /\ \A d \in Cache : d # c => block'[d] = block[d]
      /\ \A v \in Ways(c) : block'[c][v] = IF v = w THEN [addr |-> a, dirty |-> dirty]
                                                   ELSE block[c][v]
      /\ block'[c] \in [Ways(c) -> Line]
  BY <1>1, <1>2 DEF BlockTypes
<1>5. \A d \in Cache : block'[d] \in [Ways(d) -> Line]
  BY <1>4 DEF BlockTypes
<1>6. \A d \in Cache : \A v \in Ways(d) : block'[d][v].dirty => block'[d][v].addr \in Addr
  BY <1>4 DEF BlockTypes
<1>7. \A d \in Cache, x \in Addr : Hit(d, x)' => Hit(d, x) \/ (d = c /\ x = a)
  BY <1>3, <1>4 DEF Hit, Hits
<1>. QED BY <1>3, <1>4, <1>5, <1>6, <1>7 DEF BlockTypes

LEMMA VictimsAreWays == ASSUME NEW c PROVE Victims(c) \subseteq Ways(c)
BY DEF Victims, Hits
-----------------------------------------------------------------------------
(* Changes of one part of the state *)

LEMMA MshrChange ==
    ASSUME MshrTypes, NEW a \in Addr,
           mshr' \in [Cache -> [Addr -> MshrEntry]],
           \A c \in Cache, x \in Addr : x # a => mshr'[c][x] = mshr[c][x],
           \A c \in Cache : mshr'[c][a].kind # "none" =>
               mshr'[c][a].fill \in 1 .. 2 /\ (Missing(c, a) \/ MshrRoom(c))
    PROVE  MshrTypes'
<1>1. \A c \in Cache, x \in Addr : Missing(c, x)' => mshr'[c][x].fill \in 1 .. 2
  BY DEF MshrTypes, Missing
<1>2. ASSUME NEW c \in Cache
      PROVE  Cardinality({x \in Addr : mshr'[c][x].kind # "none"}) <= MshrSize[c]
  <2>1. \A x \in Addr : x # a => (mshr'[c][x].kind # "none" => Missing(c, x))
    BY DEF Missing
  <2>. QED BY <2>1, MshrFits
<1>. QED BY <1>1, <1>2 DEF MshrTypes

\* One entry of one MSHR is written.
Writes(c, a, e) == mshr' = [mshr EXCEPT ![c][a] = e]

LEMMA MshrWritten ==
    ASSUME MshrTypes, NEW c \in Cache, NEW a \in Addr, NEW e \in MshrEntry,
           e.kind # "none" => e.fill \in 1 .. 2 /\ (Missing(c, a) \/ MshrRoom(c)),
           Writes(c, a, e)
    PROVE  /\ MshrTypes' /\ mshr'[c][a] = e
           /\ \A d \in Cache, x \in Addr : d # c \/ x # a => mshr'[d][x] = mshr[d][x]
<1>1. /\ mshr' \in [Cache -> [Addr -> MshrEntry]] /\ mshr'[c][a] = e
      /\ \A d \in Cache, x \in Addr : d # c \/ x # a => mshr'[d][x] = mshr[d][x]
  BY DEF MshrTypes, Writes
<1>2. \A d \in Cache : mshr'[d][a].kind # "none" =>
         mshr'[d][a].fill \in 1 .. 2 /\ (Missing(d, a) \/ MshrRoom(d))
  BY <1>1 DEF MshrTypes, Missing
<1>. QED BY <1>1, <1>2, MshrChange

\* return_data at the L1D.
LEMMA MshrAnswered ==
    ASSUME MshrTypes, NEW a \in Addr, mshr' = [mshr EXCEPT !["L1D"] = Answered(@, a)]
    PROVE  /\ MshrTypes' /\ ~Expects(a)'
           /\ \A d \in Cache, x \in Addr : mshr'[d][x].kind = mshr[d][x].kind
           /\ \A d \in Cache, x \in Addr : d # "L1D" \/ x # a => mshr'[d][x] = mshr[d][x]
<1>1. mshr["L1D"] \in [Addr -> MshrEntry] /\ "L1D" \in Cache
  BY DEF MshrTypes, Cache
<1>2. /\ Answered(mshr["L1D"], a) \in [Addr -> MshrEntry]
      /\ Answered(mshr["L1D"], a)[a].returned
      /\ \A x \in Addr : x # a => Answered(mshr["L1D"], a)[x] = mshr["L1D"][x]
      /\ \A x \in Addr : /\ Answered(mshr["L1D"], a)[x].kind = mshr["L1D"][x].kind
                         /\ Answered(mshr["L1D"], a)[x].fill = mshr["L1D"][x].fill
  BY <1>1, AnsweredFields
<1>3. /\ mshr' \in [Cache -> [Addr -> MshrEntry]]
      /\ mshr'["L1D"] = Answered(mshr["L1D"], a)
      /\ \A d \in Cache : d # "L1D" => mshr'[d] = mshr[d]
  BY <1>1, <1>2 DEF MshrTypes
<1>4. \A d \in Cache, x \in Addr : /\ mshr'[d][x].kind = mshr[d][x].kind
                                   /\ mshr'[d][x].fill = mshr[d][x].fill
                                   /\ d # "L1D" \/ x # a => mshr'[d][x] = mshr[d][x]
  BY <1>2, <1>3
<1>5. \A c \in Cache : mshr'[c][a].kind # "none" => mshr'[c][a].fill \in 1 .. 2 /\ Missing(c, a)
  BY <1>4 DEF MshrTypes, Missing
<1>6. MshrTypes'
  BY <1>3, <1>4, <1>5, MshrChange
<1>. QED BY <1>2, <1>3, <1>4, <1>6 DEF Expects, InFlight

\* A new miss of the L1D: it waits unless the write queue below answered at once.
LEMMA MissSent ==
    ASSUME MshrTypes, NEW a \in Addr, NEW kind \in {"load", "rfo", "prefetch"},
           MshrRoom("L1D"),
           mshr' = [mshr EXCEPT !["L1D"] = Sent(a, [@ EXCEPT ![a] = Miss(kind, 1)])]
    PROVE  /\ MshrTypes' /\ mshr'["L1D"][a].kind = kind
           /\ Expects(a)' <=> ~Back(a)
           /\ \A d \in Cache, x \in Addr : d # "L1D" \/ x # a => mshr'[d][x] = mshr[d][x]
<1> DEFINE m == [mshr["L1D"] EXCEPT ![a] = Miss(kind, 1)]
           e == IF Back(a) THEN Marked(Miss(kind, 1)) ELSE Miss(kind, 1)
<1>1. /\ Miss(kind, 1) \in MshrEntry
      /\ Miss(kind, 1).kind = kind /\ Miss(kind, 1).fill = 1 /\ ~Miss(kind, 1).returned
  BY MissFields
<1>2. e \in MshrEntry /\ e.kind = kind /\ e.fill = 1 /\ (e.returned <=> Back(a))
  BY <1>1, MarkedFields
<1>3. mshr["L1D"] \in [Addr -> MshrEntry] /\ "L1D" \in Cache
  BY DEF MshrTypes, Cache
<1>4. Sent(a, m) = [mshr["L1D"] EXCEPT ![a] = e]
  <2>1. CASE Back(a)
    <3>1. Sent(a, m) = [m EXCEPT ![a] = Marked(m[a])]
      BY <2>1 DEF Sent, Answered, Back, Marked
    <3>. QED BY <1>3, <2>1, <3>1
  <2>2. CASE ~Back(a)
    BY <2>2 DEF Sent, Back
  <2>. QED BY <2>1, <2>2
<1> HIDE DEF e
<1>5. /\ mshr' \in [Cache -> [Addr -> MshrEntry]] /\ mshr'["L1D"][a] = e
      /\ \A d \in Cache, x \in Addr : d # "L1D" \/ x # a => mshr'[d][x] = mshr[d][x]
  BY <1>2, <1>3, <1>4 DEF MshrTypes
<1>6. \A c \in Cache : mshr'[c][a].kind # "none" =>
        mshr'[c][a].fill \in 1 .. 2 /\ (Missing(c, a) \/ MshrRoom(c))
  BY <1>2, <1>5 DEF MshrTypes, Missing
<1>7. MshrTypes'
  BY <1>5, <1>6, MshrChange
<1>8. kind # "none"
  OBVIOUS
<1>. QED BY <1>2, <1>5, <1>7, <1>8 DEF Expects, InFlight, Missing

\* The read that goes with it finds its place.
LEMMA ReadPlaced ==
    ASSUME RqTypes, Once(rq["L2C"]), NEW a \in Addr, Len(rq["L2C"]) < RqSize["L2C"]
    PROVE  /\ ReadSent(a) \in Seq(Addr) /\ Once(ReadSent(a))
           /\ Len(ReadSent(a)) <= RqSize["L2C"]
           /\ \A x : x \in Elements(ReadSent(a)) <=> Read(x) \/ (x = a /\ ~Back(a))
<1>1. rq["L2C"] \in Seq(Addr) /\ RqSize["L2C"] \in Nat
  BY HierarchyAssumption DEF RqTypes, Cache
<1>2. /\ Push(rq["L2C"], a) \in Seq(Addr)
      /\ Len(Push(rq["L2C"], a)) = (IF a \in Elements(rq["L2C"]) THEN Len(rq["L2C"])
                                                              ELSE Len(rq["L2C"]) + 1)
      /\ \A x : x \in Elements(Push(rq["L2C"], a)) <=> x = a \/ x \in Elements(rq["L2C"])
      /\ Once(Push(rq["L2C"], a))
  BY <1>1, PushAdds
<1>3. CASE Back(a)
  <2>1. ReadSent(a) = rq["L2C"]
    BY <1>3 DEF ReadSent, Back
  <2>. QED BY <1>1, <1>3, <2>1 DEF Read, RqTypes
<1>4. CASE ~Back(a)
  <2>1. ReadSent(a) = Push(rq["L2C"], a)
    BY <1>1, <1>4 DEF ReadSent, Back
  <2>2. Len(Push(rq["L2C"], a)) <= RqSize["L2C"]
    BY <1>1, <1>2
  <2>. QED BY <1>2, <1>4, <2>1, <2>2 DEF Read
<1>. QED BY <1>3, <1>4

\* An address whose part of the two caches a step leaves alone.
LEMMA LinkFrame ==
    ASSUME NEW x \in Addr, Link(x),
           \A c \in Cache : mshr'[c][x] = mshr[c][x],
           Read(x)' <=> Read(x), Ahead(x)' <=> Ahead(x), Back(x)' => Back(x) \/ ~Expects(x),
           \A c \in Cache : Hit(c, x)' => Hit(c, x)
    PROVE  Link(x)'
<1>1. "L1D" \in Cache /\ "L2C" \in Cache
  BY DEF Cache
<1>2. Expects(x)' <=> Expects(x)
  BY <1>1 DEF Expects, InFlight, Missing
<1>3. Below(x)' <=> Below(x)
  BY <1>1 DEF Below, Missing
<1>4. Missing("L1D", x)' <=> Missing("L1D", x)
  BY <1>1 DEF Missing
<1>. QED BY <1>1, <1>2, <1>3, <1>4 DEF Link

LEMMA BlocksUnchanged ==
    ASSUME UNCHANGED block
    PROVE  /\ BlockTypes => BlockTypes'
           /\ \A c \in Cache, x \in Addr : Hit(c, x)' <=> Hit(c, x)
BY DEF BlockTypes, Ways, Hit, Hits
-----------------------------------------------------------------------------
(* The steps of the core, the prefetchers and the LLC *)

LEMMA CoreStepKeepsInv ==
    ASSUME IInv, NEW a \in Addr, CoreLoad(a) \/ CoreStore(a)
    PROVE  IInv'
<1>0. /\ rq["L1D"] \in Seq(Addr) /\ wq["L1D"] \in Seq(Addr)
      /\ RqSize["L1D"] \in Nat /\ WqSize["L1D"] \in Nat
  BY HierarchyAssumption DEF IInv, Types, RqTypes, WqTypes, Cache
<1>1. CASE CoreLoad(a)
  <2>1. /\ Push(rq["L1D"], a) \in Seq(Addr) /\ Len(Push(rq["L1D"], a)) <= RqSize["L1D"]
        /\ \A x : x \in Elements(Push(rq["L1D"], a)) <=> x = a \/ x \in Elements(rq["L1D"])
    <3>1. Len(rq["L1D"]) <= RqSize["L1D"] /\ Len(rq["L1D"]) \in Nat
      BY <1>0 DEF IInv, Types, RqTypes, Cache
    <3>2. /\ Push(rq["L1D"], a) \in Seq(Addr)
          /\ Len(Push(rq["L1D"], a)) = (IF a \in Elements(rq["L1D"]) THEN Len(rq["L1D"])
                                                                  ELSE Len(rq["L1D"]) + 1)
          /\ \A x : x \in Elements(Push(rq["L1D"], a)) <=> x = a \/ x \in Elements(rq["L1D"])
      BY <1>0, PushAdds
    <3>3. a \in Elements(rq["L1D"]) \/ Len(rq["L1D"]) < RqSize["L1D"]
      BY <1>1 DEF CoreLoad
    <3>. QED BY <1>0, <3>1, <3>2, <3>3
  <2>2. rq' = [rq EXCEPT !["L1D"] = Push(rq["L1D"], a)] /\ UNCHANGED <<block, wq, pq, mshr>>
    BY <1>1 DEF CoreLoad
  <2>3. RqTypes' /\ rq'["L2C"] = rq["L2C"] /\ rq'["L1D"] = Push(rq["L1D"], a)
    BY <2>1, <2>2 DEF IInv, Types, RqTypes, Cache
  <2>4. Types'
    BY <1>1, <2>2, <2>3, BlocksUnchanged
       DEF CoreLoad, IInv, Types, MshrTypes, WqTypes, PqTypes, Missing
  <2>5. ASSUME NEW x \in Addr PROVE Link(x)'
    BY <2>2, <2>3, BlocksUnchanged, LinkFrame DEF IInv, Read, Ahead, Back
  <2>6. ASSUME NEW x \in Addr PROVE Tracked(x)'
    BY <1>1, <2>1, <2>2, <2>3 DEF CoreLoad, IInv, Tracked
  <2>. QED BY <2>4, <2>5, <2>6 DEF IInv
<1>2. CASE CoreStore(a)
  <2>1. Append(wq["L1D"], a) \in Seq(Addr) /\ Len(Append(wq["L1D"], a)) <= WqSize["L1D"]
    <3>1. Append(wq["L1D"], a) \in Seq(Addr) /\ Len(Append(wq["L1D"], a)) = Len(wq["L1D"]) + 1
      BY <1>0
    <3>2. Len(wq["L1D"]) < WqSize["L1D"] /\ Len(wq["L1D"]) \in Nat
      BY <1>0, <1>2 DEF CoreStore
    <3>. QED BY <1>0, <3>1, <3>2
  <2>2. wq' = [wq EXCEPT !["L1D"] = Append(wq["L1D"], a)]
        /\ UNCHANGED <<block, rq, pq, mshr, waiting>>
    BY <1>2 DEF CoreStore
  <2>3. WqTypes' /\ wq'["L2C"] = wq["L2C"]
    BY <2>1, <2>2 DEF IInv, Types, WqTypes, Cache
  <2>4. Types'
    BY <2>2, <2>3, BlocksUnchanged DEF IInv, Types, MshrTypes, RqTypes, PqTypes, Missing
  <2>5. ASSUME NEW x \in Addr PROVE Link(x)'
    BY <2>2, <2>3, BlocksUnchanged, LinkFrame DEF IInv, Read, Ahead, Back
  <2>6. ASSUME NEW x \in Addr PROVE Tracked(x)'
    BY <2>2 DEF IInv, Tracked
  <2>. QED BY <2>4, <2>5, <2>6 DEF IInv
<1>. QED BY <1>1, <1>2

LEMMA PrefetchLineKeepsInv ==
    ASSUME IInv, NEW a \in Addr, NEW c \in Cache, NEW fill \in 1 .. 2, PrefetchLine(c, a, fill)
    PROVE  IInv'
<1> DEFINE q == PushPrefetch(pq[c], a, fill)
<1>1. pq[c] \in Seq(Prefetch) /\ OnceByAddr(pq[c]) /\ Len(pq[c]) < PqSize[c] /\ PqSize[c] \in Nat
  BY HierarchyAssumption DEF PrefetchLine, IInv, Types, PqTypes
<1>2. /\ q \in Seq(Prefetch) /\ OnceByAddr(q) /\ Len(q) <= Len(pq[c]) + 1
      /\ \A x \in Addr : x # a => \A f : [addr |-> x, fill |-> f] \in Elements(q) <=>
                                        [addr |-> x, fill |-> f] \in Elements(pq[c])
      /\ [addr |-> a, fill |-> 1] \in Elements(q) <=>
            fill = 1 \/ [addr |-> a, fill |-> 1] \in Elements(pq[c])
  BY <1>1, PushPrefetchAdds
<1>3. Len(q) <= PqSize[c]
  BY <1>1, <1>2
<1>4. pq' = [pq EXCEPT ![c] = q] /\ UNCHANGED <<block, rq, wq, mshr, waiting>>
  BY DEF PrefetchLine
<1>5. c = "L2C" => fill = 2
  BY DEF PrefetchLine, Level, Cache
<1> HIDE DEF q
<1>6. /\ PqTypes' /\ pq'[c] = q /\ \A d \in Cache : d # c => pq'[d] = pq[d]
      /\ \A d \in Cache : OnceByAddr(pq'[d])
  BY <1>2, <1>3, <1>4 DEF IInv, Types, PqTypes
<1>7. \A x \in Addr : [addr |-> x, fill |-> 1] \in Elements(pq'["L2C"]) <=> Ahead(x)
  <2>1. CASE c = "L2C"
    BY <1>2, <1>5, <1>6, <2>1 DEF Ahead
  <2>2. CASE c # "L2C"
    BY <1>6, <2>2 DEF Ahead, Cache
  <2>. QED BY <2>1, <2>2
<1>8. Types'
  BY <1>4, <1>6, BlocksUnchanged DEF IInv, Types, MshrTypes, RqTypes, WqTypes, Missing
<1>9. ASSUME NEW x \in Addr PROVE Link(x)'
  <2>1. Ahead(x)' <=> Ahead(x)
    BY <1>7 DEF Ahead
  <2>. QED BY <1>4, <2>1, BlocksUnchanged, LinkFrame DEF IInv, Read, Back
<1>10. ASSUME NEW x \in Addr PROVE Tracked(x)'
  BY <1>4 DEF IInv, Tracked
<1>. QED BY <1>8, <1>9, <1>10 DEF IInv

LEMMA LlcAnswersKeepsInv ==
    ASSUME IInv, NEW a \in Addr, LlcAnswers(a)
    PROVE  IInv'
<1>1. /\ mshr' = [mshr EXCEPT !["L2C"] = Answered(mshr["L2C"], a)]
      /\ UNCHANGED <<block, rq, wq, pq, waiting>> /\ Missing("L2C", a)
  BY DEF LlcAnswers, InFlight
<1>2. mshr["L2C"] \in [Addr -> MshrEntry] /\ "L2C" \in Cache /\ "L1D" \in Cache
  BY DEF IInv, Types, MshrTypes, Cache
<1>3. /\ Answered(mshr["L2C"], a) \in [Addr -> MshrEntry]
      /\ \A x \in Addr : x # a => Answered(mshr["L2C"], a)[x] = mshr["L2C"][x]
      /\ \A x \in Addr : /\ Answered(mshr["L2C"], a)[x].kind = mshr["L2C"][x].kind
                         /\ Answered(mshr["L2C"], a)[x].fill = mshr["L2C"][x].fill
  BY <1>2, AnsweredFields
<1>4. /\ mshr' \in [Cache -> [Addr -> MshrEntry]]
      /\ mshr'["L2C"] = Answered(mshr["L2C"], a) /\ mshr'["L1D"] = mshr["L1D"]
      /\ \A d \in Cache : d # "L2C" => mshr'[d] = mshr[d]
  BY <1>1, <1>2, <1>3 DEF IInv, Types, MshrTypes
<1>5. \A d \in Cache, x \in Addr : /\ mshr'[d][x].kind = mshr[d][x].kind
                                   /\ mshr'[d][x].fill = mshr[d][x].fill
                                   /\ x # a => mshr'[d][x] = mshr[d][x]
  BY <1>3, <1>4
<1>6. \A c \in Cache : mshr'[c][a].kind # "none" => mshr'[c][a].fill \in 1 .. 2 /\ Missing(c, a)
  BY <1>5 DEF IInv, Types, MshrTypes, Missing
<1>7. MshrTypes'
  BY <1>4, <1>5, <1>6, MshrChange DEF IInv, Types
<1>8. Types'
  BY <1>1, <1>7, BlocksUnchanged DEF IInv, Types, RqTypes, WqTypes, PqTypes
<1>9. ASSUME NEW x \in Addr PROVE Link(x)'
  <2>1. (Expects(x)' <=> Expects(x)) /\ (Missing("L1D", x)' <=> Missing("L1D", x))
    BY <1>4 DEF Expects, InFlight, Missing
  <2>2. Below(x)' <=> Below(x)
    BY <1>2, <1>5 DEF Below, Missing
  <2>3. /\ (Read(x)' <=> Read(x)) /\ (Ahead(x)' <=> Ahead(x)) /\ (Back(x)' <=> Back(x))
        /\ \A d \in Cache : Hit(d, x)' <=> Hit(d, x)
    BY <1>1, BlocksUnchanged DEF Read, Ahead, Back
  <2>. QED BY <1>2, <2>1, <2>2, <2>3 DEF IInv, Link
<1>10. ASSUME NEW x \in Addr PROVE Tracked(x)'
  BY <1>1, <1>2, <1>5 DEF IInv, Tracked
<1>. QED BY <1>8, <1>9, <1>10 DEF IInv
-----------------------------------------------------------------------------
(* handle_fill *)

\* A fill of the L1D: what it evicts was not missing there, so no answer is due for it.
LEMMA FillL1KeepsInv ==
    ASSUME IInv, NEW a \in Addr, HandleFill("L1D", a)
    PROVE  IInv'
<1>1. PICK w \in Victims("L1D") :
        /\ VictimRoom("L1D", w)
        /\ Replace("L1D", w, a, mshr["L1D"][a].kind = "rfo")
        /\ wq' = WithVictim(wq, "L1D", w)
  BY DEF HandleFill
<1>2. "L1D" \in Cache /\ "L2C" \in Cache /\ w \in Ways("L1D")
  BY <1>1, VictimsAreWays DEF Cache
<1>3. mshr["L1D"][a] \in MshrEntry /\ mshr["L1D"][a].fill \in 1 .. 2
      /\ Missing("L1D", a) /\ mshr["L1D"][a].returned
  BY <1>2 DEF HandleFill, IInv, Types, MshrTypes
<1>4. /\ BlockTypes'
      /\ \A d \in Cache, x \in Addr : Hit(d, x)' => Hit(d, x) \/ (d = "L1D" /\ x = a)
  <2>1. PICK dirty \in BOOLEAN : dirty <=> mshr["L1D"][a].kind = "rfo"
    OBVIOUS
  <2>2. Replace("L1D", w, a, dirty)
    BY <1>1, <2>1 DEF Replace
  <2>. QED BY <1>2, <2>2, ReplaceKeepsBlocks DEF IInv, Types
<1>5. Writes("L1D", a, NoMiss)
  <2>1. ~(mshr["L1D"][a].fill < Level["L1D"])
    BY <1>3 DEF Level, Cache
  <2>2. mshr' = [d \in Cache |-> IF d = "L1D" THEN [mshr[d] EXCEPT ![a] = NoMiss] ELSE mshr[d]]
    BY <2>1 DEF HandleFill
  <2>. QED BY <2>2 DEF IInv, Types, MshrTypes, Writes
<1>6. NoMiss \in MshrEntry /\ NoMiss.kind = "none"
  BY MissFields
<1>7. /\ MshrTypes' /\ mshr'["L1D"][a] = NoMiss
      /\ \A d \in Cache, x \in Addr : d # "L1D" \/ x # a => mshr'[d][x] = mshr[d][x]
  <2>1. MshrTypes
    BY DEF IInv, Types
  <2>. QED BY <1>2, <1>5, <1>6, <2>1, MshrWritten
<1>8. UNCHANGED <<rq, pq>>
  BY DEF HandleFill, Leaves
<1>9. /\ WqTypes'
      /\ \A x \in Addr : x \in Elements(wq'["L2C"]) => Back(x) \/ Hit("L1D", x)
  <2>0. wq["L2C"] \in Seq(Addr) /\ WqSize["L2C"] \in Nat
    BY <1>2, HierarchyAssumption DEF IInv, Types, WqTypes
  <2>1. CASE block["L1D"][w].dirty
    <3>1. PICK v \in Addr : v = block["L1D"][w].addr
      BY <1>2, <2>1 DEF IInv, Types, BlockTypes
    <3>2. Hit("L1D", v)
      BY <1>2, <3>1 DEF Hit, Hits
    <3>3. wq' = [wq EXCEPT !["L2C"] = Push(wq["L2C"], v)] /\ Len(wq["L2C"]) < WqSize["L2C"]
      BY <1>1, <2>1, <3>1 DEF WithVictim, VictimRoom
    <3>4. /\ Push(wq["L2C"], v) \in Seq(Addr)
          /\ Len(Push(wq["L2C"], v)) = (IF v \in Elements(wq["L2C"]) THEN Len(wq["L2C"])
                                                                  ELSE Len(wq["L2C"]) + 1)
          /\ \A x : x \in Elements(Push(wq["L2C"], v)) <=> x = v \/ x \in Elements(wq["L2C"])
      BY <2>0, PushAdds
    <3>5. Len(Push(wq["L2C"], v)) <= WqSize["L2C"]
      BY <2>0, <3>3, <3>4
    <3>6. WqTypes' /\ wq'["L2C"] = Push(wq["L2C"], v)
      BY <1>2, <3>3, <3>4, <3>5 DEF IInv, Types, WqTypes
    <3>. QED BY <3>2, <3>4, <3>6 DEF Back
  <2>2. CASE ~block["L1D"][w].dirty
    BY <1>1, <2>2 DEF WithVictim, IInv, Types, WqTypes, Back
  <2>. QED BY <2>1, <2>2
<1>10. Types'
  BY <1>4, <1>7, <1>8, <1>9 DEF HandleFill, IInv, Types, RqTypes, PqTypes
<1>11. ASSUME NEW x \in Addr PROVE Link(x)'
  <2>1. Link(x)
    BY DEF IInv
  <2>2. (Read(x)' <=> Read(x)) /\ (Ahead(x)' <=> Ahead(x))
    BY <1>8 DEF Read, Ahead
  <2>3. Back(x)' => Back(x) \/ ~Expects(x)
    BY <1>9, <2>1 DEF Back, Link, Expects, InFlight
  <2>4. CASE x = a
    <3>1. ~Expects(x) /\ ~Expects(x)' /\ ~Missing("L1D", x)'
      BY <1>3, <1>6, <1>7, <2>4 DEF Expects, InFlight, Missing
    <3>2. Below(x)' <=> Below(x)
      BY <1>2, <1>7, <2>4 DEF Below, Missing
    <3>3. Hit("L2C", x)' => Hit("L2C", x)
      BY <1>2, <1>4
    <3>. QED BY <2>1, <2>2, <3>1, <3>2, <3>3 DEF Link
  <2>5. CASE x # a
    BY <1>4, <1>7, <2>1, <2>2, <2>3, <2>5, LinkFrame
  <2>. QED BY <2>4, <2>5
<1>12. ASSUME NEW x \in Addr PROVE Tracked(x)'
  <2>1. Tracked(x)
    BY DEF IInv
  <2>2. CASE x = a
    BY <1>8, <2>1, <2>2 DEF HandleFill, Tracked
  <2>3. CASE x # a
    BY <1>2, <1>7, <1>8, <2>1, <2>3 DEF HandleFill, Tracked
  <2>. QED BY <2>2, <2>3
<1>. QED BY <1>10, <1>11, <1>12 DEF IInv

\* A fill of the L2C, which ends its miss and, when the L1D asked for it, answers: then
\* neither a read nor a prefetch of the L1D is left behind.
LEMMA FillL2KeepsInv ==
    ASSUME IInv, NEW a \in Addr, HandleFill("L2C", a)
    PROVE  IInv'
<1>1. PICK w \in Victims("L2C") :
        Replace("L2C", w, a, FALSE) /\ wq' = WithVictim(wq, "L2C", w)
  BY DEF HandleFill
<1>2. "L1D" \in Cache /\ "L2C" \in Cache /\ w \in Ways("L2C")
  BY <1>1, VictimsAreWays DEF Cache
<1>3. /\ BlockTypes'
      /\ \A d \in Cache, x \in Addr : Hit(d, x)' => Hit(d, x) \/ (d = "L2C" /\ x = a)
  BY <1>1, <1>2, ReplaceKeepsBlocks DEF IInv, Types
<1>4. UNCHANGED <<wq, pq, waiting>>
  BY <1>1 DEF HandleFill, WithVictim
<1>5. mshr["L2C"][a].fill \in 1 .. 2 /\ Missing("L2C", a) /\ Level["L2C"] = 2
  BY <1>2 DEF HandleFill, IInv, Types, MshrTypes, Level, Cache
<1> DEFINE m == IF Below(a) THEN Answered(mshr["L1D"], a) ELSE mshr["L1D"]
           n == [mshr["L2C"] EXCEPT ![a] = NoMiss]
           q == IF Below(a) THEN Drop(rq["L2C"], a) ELSE rq["L2C"]
<1>6. Below(a) <=> mshr["L2C"][a].fill < Level["L2C"]
  BY <1>5 DEF Below
<1>7. mshr' = [d \in Cache |-> IF d = "L2C" THEN n ELSE m]
  BY <1>6 DEF HandleFill, Cache
<1>8. rq' = [rq EXCEPT !["L2C"] = q]
  <2>1. Leaves("L2C", a) <=> Below(a)
    BY <1>6 DEF Leaves
  <2>. QED BY <1>2, <2>1 DEF HandleFill, IInv, Types, RqTypes
<1>9. /\ mshr["L1D"] \in [Addr -> MshrEntry] /\ mshr["L2C"] \in [Addr -> MshrEntry]
      /\ NoMiss \in MshrEntry /\ NoMiss.kind = "none"
  BY <1>2, MissFields DEF IInv, Types, MshrTypes
<1>10. /\ m \in [Addr -> MshrEntry] /\ (Below(a) => m[a].returned)
       /\ \A x \in Addr : m[x].kind = mshr["L1D"][x].kind /\ m[x].fill = mshr["L1D"][x].fill
       /\ \A x \in Addr : x # a \/ ~Below(a) => m[x] = mshr["L1D"][x]
  <2>1. CASE Below(a)
    BY <1>9, <2>1, AnsweredFields
  <2>2. CASE ~Below(a)
    BY <1>9, <2>2
  <2>. QED BY <2>1, <2>2
<1>11. /\ n \in [Addr -> MshrEntry] /\ n[a] = NoMiss
       /\ \A x \in Addr : x # a => n[x] = mshr["L2C"][x]
  BY <1>9
<1>12. /\ q \in Seq(Addr) /\ Once(q) /\ Len(q) <= RqSize["L2C"]
       /\ \A x : x \in Elements(q) <=> Read(x) /\ ~(x = a /\ Below(a))
  <2>1. rq["L2C"] \in Seq(Addr) /\ Once(rq["L2C"]) /\ Len(rq["L2C"]) <= RqSize["L2C"]
        /\ RqSize["L2C"] \in Nat
    BY <1>2, HierarchyAssumption DEF IInv, Types, RqTypes
  <2>2. CASE Below(a)
    <3>1. /\ q \in Seq(Addr) /\ Once(q) /\ Len(q) <= Len(rq["L2C"])
          /\ \A x : x \in Elements(q) <=> x \in Elements(rq["L2C"]) /\ x # a
      BY <2>1, <2>2, DropLeaves
    <3>2. Len(q) \in Nat /\ Len(rq["L2C"]) \in Nat
      BY <2>1, <3>1
    <3>3. Len(q) <= RqSize["L2C"]
      BY <2>1, <3>1, <3>2
    <3>. QED BY <2>2, <3>1, <3>3 DEF Read
  <2>3. CASE ~Below(a)
    BY <2>1, <2>3 DEF Read
  <2>. QED BY <2>2, <2>3
<1> HIDE DEF m, n, q
<1>13. /\ mshr' \in [Cache -> [Addr -> MshrEntry]]
       /\ mshr'["L2C"] = n /\ mshr'["L1D"] = m
       /\ rq'["L2C"] = q /\ rq'["L1D"] = rq["L1D"] /\ RqTypes'
  BY <1>2, <1>7, <1>8, <1>10, <1>11, <1>12 DEF IInv, Types, RqTypes
<1>14. MshrTypes'
  <2>1. \A c \in Cache, x \in Addr : x # a => mshr'[c][x] = mshr[c][x]
    BY <1>10, <1>11, <1>13 DEF Cache
  <2>2. \A c \in Cache : mshr'[c][a].kind # "none" =>
          mshr'[c][a].fill \in 1 .. 2 /\ Missing(c, a)
    BY <1>2, <1>9, <1>10, <1>11, <1>13 DEF Cache, IInv, Types, MshrTypes, Missing
  <2>. QED BY <1>13, <2>1, <2>2, MshrChange DEF IInv, Types
<1>15. Types'
  BY <1>3, <1>4, <1>12, <1>13, <1>14 DEF IInv, Types, WqTypes, PqTypes
<1>16. ASSUME NEW x \in Addr PROVE Link(x)'
  <2>1. Link(x)
    BY DEF IInv
  <2>2. /\ (Ahead(x)' <=> Ahead(x)) /\ (Back(x)' <=> Back(x))
        /\ Read(x)' <=> Read(x) /\ ~(x = a /\ Below(a))
    BY <1>4, <1>12, <1>13 DEF Ahead, Back, Read
  <2>3. CASE x = a
    <3>1. ~Below(x)'
      BY <1>9, <1>11, <1>13, <2>3 DEF Below, Missing
    <3>2. Expects(x)' <=> Expects(x) /\ ~Below(a)
      BY <1>10, <1>13, <2>3 DEF Expects, InFlight, Missing
    <3>3. (Missing("L1D", x)' <=> Missing("L1D", x)) /\ (Hit("L1D", x)' => Hit("L1D", x))
      BY <1>2, <1>3, <1>10, <1>13 DEF Missing
    <3>. QED BY <2>1, <2>2, <2>3, <3>1, <3>2, <3>3 DEF Link
  <2>4. CASE x # a
    <3>1. \A c \in Cache : mshr'[c][x] = mshr[c][x]
      BY <1>10, <1>11, <1>13, <2>4 DEF Cache
    <3>2. \A c \in Cache : Hit(c, x)' => Hit(c, x)
      BY <1>3, <2>4
    <3>. QED BY <2>1, <2>2, <2>4, <3>1, <3>2, LinkFrame
  <2>. QED BY <2>3, <2>4
<1>17. ASSUME NEW x \in Addr PROVE Tracked(x)'
  BY <1>4, <1>10, <1>13 DEF IInv, Tracked
<1>. QED BY <1>15, <1>16, <1>17 DEF IInv
-----------------------------------------------------------------------------
(* handle_writeback *)

LEMMA WqPopped ==
    ASSUME WqTypes, NEW c \in Cache, wq[c] # <<>>, wq' = Pop(wq, c)
    PROVE  /\ WqTypes' /\ Head(wq[c]) \in Addr /\ Head(wq[c]) \in Elements(wq[c])
           /\ \A d \in Cache : \A x : x \in Elements(wq'[d]) => x \in Elements(wq[d])
<1>1. wq[c] \in Seq(Addr) /\ Len(wq[c]) <= WqSize[c] /\ WqSize[c] \in Nat
  BY HierarchyAssumption DEF WqTypes
<1>2. /\ Head(wq[c]) \in Addr /\ Head(wq[c]) \in Elements(wq[c])
      /\ Tail(wq[c]) \in Seq(Addr) /\ Len(Tail(wq[c])) = Len(wq[c]) - 1
      /\ \A x : x \in Elements(wq[c]) <=> x = Head(wq[c]) \/ x \in Elements(Tail(wq[c]))
  BY <1>1, TailDrops
<1>3. Len(Tail(wq[c])) <= WqSize[c]
  BY <1>1, <1>2
<1>4. wq' = [wq EXCEPT ![c] = Tail(wq[c])]
  BY DEF Pop
<1>5. WqTypes' /\ wq'[c] = Tail(wq[c]) /\ \A d \in Cache : d # c => wq'[d] = wq[d]
  BY <1>2, <1>3, <1>4 DEF WqTypes
<1>. QED BY <1>2, <1>5

LEMMA WriteHitKeepsInv ==
    ASSUME IInv, NEW c \in Cache, wq[c] # <<>>, WriteHit(c, Head(wq[c]))
    PROVE  IInv'
<1>1. PICK a \in Addr : a = Head(wq[c])
  BY WqPopped DEF WriteHit, IInv, Types
<1>2. PICK w \in FirstHit(c, a), dirty \in BOOLEAN : Replace(c, w, a, dirty)
  BY <1>1 DEF WriteHit
<1>3. w \in Ways(c) /\ Hit(c, a)
  BY <1>2 DEF FirstHit, Hits, Hit
<1>4. wq' = Pop(wq, c) /\ UNCHANGED <<rq, pq, mshr, waiting>>
  BY DEF WriteHit
<1>5. WqTypes' /\ \A d \in Cache : \A x : x \in Elements(wq'[d]) => x \in Elements(wq[d])
  BY <1>4, WqPopped DEF IInv, Types
<1>6. /\ BlockTypes'
      /\ \A d \in Cache, x \in Addr : Hit(d, x)' => Hit(d, x)
  BY <1>2, <1>3, ReplaceKeepsBlocks DEF IInv, Types
<1>7. Types'
  BY <1>4, <1>5, <1>6 DEF IInv, Types, MshrTypes, RqTypes, PqTypes, Missing
<1>8. ASSUME NEW x \in Addr PROVE Link(x)'
  <2>1. Back(x)' => Back(x)
    BY <1>5 DEF Back, Cache
  <2>. QED BY <1>4, <1>6, <2>1, LinkFrame DEF IInv, Read, Ahead
<1>9. ASSUME NEW x \in Addr PROVE Tracked(x)'
  BY <1>4 DEF IInv, Tracked
<1>. QED BY <1>7, <1>8, <1>9 DEF IInv

\* An evicted block that takes a way of the L2C has been in its write queue until now, so
\* the L1D does not wait for it and the L2C is not missing it on the L1D's behalf.
LEMMA AllocateMissKeepsInv ==
    ASSUME IInv, wq["L2C"] # <<>>, AllocateMiss(Head(wq["L2C"]))
    PROVE  IInv'
<1>0. "L2C" \in Cache /\ "L1D" \in Cache
  BY DEF Cache
<1>1. PICK a \in Addr : a = Head(wq["L2C"])
  BY <1>0, WqPopped DEF AllocateMiss, IInv, Types
<1>2. PICK w \in Victims("L2C") : Replace("L2C", w, a, FALSE)
  BY <1>1 DEF AllocateMiss
<1>3. w \in Ways("L2C")
  BY VictimsAreWays
<1>4. wq' = Pop(wq, "L2C") /\ UNCHANGED <<rq, pq, mshr, waiting>>
  BY DEF AllocateMiss
<1>5. /\ WqTypes' /\ Back(a)
      /\ \A d \in Cache : \A x : x \in Elements(wq'[d]) => x \in Elements(wq[d])
  BY <1>0, <1>1, <1>4, WqPopped DEF IInv, Types, Back
<1>6. /\ BlockTypes'
      /\ \A d \in Cache, x \in Addr : Hit(d, x)' => Hit(d, x) \/ (d = "L2C" /\ x = a)
  BY <1>0, <1>2, <1>3, ReplaceKeepsBlocks DEF IInv, Types
<1>7. Types'
  BY <1>4, <1>5, <1>6 DEF IInv, Types, MshrTypes, RqTypes, PqTypes, Missing
<1>8. ASSUME NEW x \in Addr PROVE Link(x)'
  <2>1. Link(x)
    BY DEF IInv
  <2>2. /\ Back(x)' => Back(x)
        /\ (Read(x)' <=> Read(x)) /\ (Ahead(x)' <=> Ahead(x)) /\ (Below(x)' <=> Below(x))
        /\ (Expects(x)' <=> Expects(x)) /\ (Missing("L1D", x)' <=> Missing("L1D", x))
    BY <1>0, <1>4, <1>5 DEF Back, Read, Ahead, Below, Expects, InFlight, Missing
  <2>3. Hit("L1D", x)' => Hit("L1D", x)
    BY <1>0, <1>6
  <2>4. Hit("L2C", x)' => Hit("L2C", x) \/ ~Below(x)
    BY <1>0, <1>5, <1>6, <2>1 DEF Link
  <2>. QED BY <2>1, <2>2, <2>3, <2>4 DEF Link
<1>9. ASSUME NEW x \in Addr PROVE Tracked(x)'
  BY <1>4 DEF IInv, Tracked
<1>. QED BY <1>7, <1>8, <1>9 DEF IInv

\* A demand that merges into a miss of the L1D.
LEMMA DemandMerges ==
    ASSUME MshrTypes, NEW c \in Cache, NEW a \in Addr, NEW kind \in {"load", "rfo"}, Missing(c, a),
           mshr' = [mshr EXCEPT ![c][a] = Demand(@, kind)]
    PROVE  /\ MshrTypes' /\ mshr'[c][a].kind \in {"load", "rfo"} /\ mshr'[c][a].fill = 1
           /\ mshr'[c][a].returned = mshr[c][a].returned
           /\ \A d \in Cache, x \in Addr : d # c \/ x # a => mshr'[d][x] = mshr[d][x]
<1>1. PICK m \in MshrEntry : m = mshr[c][a]
  BY DEF MshrTypes
<1>2. m.fill \in 1 .. 2 /\ m.kind \in Kind /\ m.kind # "none"
  BY <1>1 DEF MshrTypes, Missing, MshrEntry
<1>3. PICK e \in MshrEntry : e = Demand(m, kind)
  BY DemandFields
<1>4. e.returned = m.returned /\ e.fill = 1 /\ e.kind \in {"load", "rfo"}
  BY <1>2, <1>3, DemandFields DEF Kind
<1>5. Writes(c, a, e)
  BY <1>1, <1>3 DEF Writes
<1>6. e.kind # "none" => e.fill \in 1 .. 2 /\ (Missing(c, a) \/ MshrRoom(c))
  BY <1>4
<1>7. /\ MshrTypes' /\ mshr'[c][a] = e
      /\ \A d \in Cache, x \in Addr : d # c \/ x # a => mshr'[d][x] = mshr[d][x]
  BY <1>5, <1>6, MshrWritten
<1>. QED BY <1>1, <1>4, <1>7

\* A store that misses: its block is not in the L1D, and a read goes out with a new miss.
LEMMA StoreMissKeepsInv ==
    ASSUME IInv, wq["L1D"] # <<>>, StoreMiss(Head(wq["L1D"]))
    PROVE  IInv'
<1>0. "L2C" \in Cache /\ "L1D" \in Cache
  BY DEF Cache
<1>1. PICK a \in Addr : a = Head(wq["L1D"])
  BY <1>0, WqPopped DEF StoreMiss, IInv, Types
<1>2. /\ wq' = [wq EXCEPT !["L1D"] = Tail(wq["L1D"])] /\ wq' = Pop(wq, "L1D")
      /\ UNCHANGED <<block, pq, waiting>>
  BY DEF StoreMiss, Pop
<1>3. WqTypes' /\ wq'["L2C"] = wq["L2C"]
  BY <1>0, <1>2, WqPopped DEF IInv, Types, WqTypes
<1>4. MshrTypes /\ RqTypes /\ Once(rq["L2C"])
  BY DEF IInv, Types
<1>5. \A x \in Addr : /\ Link(x) /\ Tracked(x)
                      /\ (Ahead(x)' <=> Ahead(x)) /\ (Back(x)' <=> Back(x))
                      /\ \A d \in Cache : Hit(d, x)' <=> Hit(d, x)
  BY <1>2, <1>3, BlocksUnchanged DEF IInv, Ahead, Back
<1>6. CASE ~Missing("L1D", a) /\ NewMiss(a, "rfo")
  <2>1. /\ mshr' = [mshr EXCEPT !["L1D"] = Sent(a, [@ EXCEPT ![a] = Miss("rfo", 1)])]
        /\ rq' = [rq EXCEPT !["L2C"] = ReadSent(a)] /\ MshrRoom("L1D")
    BY <1>6 DEF NewMiss
  <2>2. /\ MshrTypes' /\ mshr'["L1D"][a].kind = "rfo" /\ (Expects(a)' <=> ~Back(a))
        /\ \A d \in Cache, x \in Addr : d # "L1D" \/ x # a => mshr'[d][x] = mshr[d][x]
    BY <1>4, <2>1, MissSent
  <2>3. Len(rq["L2C"]) < RqSize["L2C"]
    BY <2>1, RoomForMiss
  <2>4. /\ ReadSent(a) \in Seq(Addr) /\ Once(ReadSent(a)) /\ Len(ReadSent(a)) <= RqSize["L2C"]
        /\ \A x : x \in Elements(ReadSent(a)) <=> Read(x) \/ (x = a /\ ~Back(a))
    BY <1>4, <2>3, ReadPlaced
  <2>5. RqTypes' /\ rq'["L2C"] = ReadSent(a) /\ rq'["L1D"] = rq["L1D"]
    BY <1>0, <1>4, <2>1, <2>4 DEF RqTypes
  <2>6. Types'
    BY <1>2, <1>3, <2>2, <2>4, <2>5, BlocksUnchanged DEF IInv, Types, PqTypes
  <2>7. ASSUME NEW x \in Addr PROVE Link(x)'
    <3>1. Read(x)' <=> Read(x) \/ (x = a /\ ~Back(a))
      BY <2>4, <2>5 DEF Read
    <3>2. CASE x = a
      <4>1. ~Hit("L1D", a) /\ ~Expects(a)
        BY <1>1, <1>6 DEF StoreMiss, Expects, InFlight
      <4>2. Below(a)' <=> Below(a)
        BY <1>0, <2>2 DEF Below, Missing
      <4>. QED BY <1>0, <1>5, <2>2, <3>1, <3>2, <4>1, <4>2 DEF Link
    <3>3. CASE x # a
      BY <1>5, <2>2, <3>1, <3>3, LinkFrame
    <3>. QED BY <3>2, <3>3
  <2>8. ASSUME NEW x \in Addr PROVE Tracked(x)'
    BY <1>0, <1>2, <1>5, <2>2, <2>5 DEF Tracked
  <2>. QED BY <2>6, <2>7, <2>8 DEF IInv
<1>7. CASE /\ Missing("L1D", a)
           /\ mshr' = [mshr EXCEPT !["L1D"][a] = Demand(@, "rfo")] /\ UNCHANGED rq
  <2>1. /\ MshrTypes' /\ mshr'["L1D"][a].kind \in {"load", "rfo"}
        /\ mshr'["L1D"][a].returned = mshr["L1D"][a].returned
        /\ \A d \in Cache, x \in Addr : d # "L1D" \/ x # a => mshr'[d][x] = mshr[d][x]
    BY <1>0, <1>4, <1>7, DemandMerges
  <2>2. Types'
    BY <1>2, <1>3, <1>7, <2>1, BlocksUnchanged DEF IInv, Types, PqTypes, RqTypes
  <2>3. ASSUME NEW x \in Addr PROVE Link(x)'
    <3>1. Read(x)' <=> Read(x)
      BY <1>7 DEF Read
    <3>2. CASE x = a
      <4>1. (Expects(a)' <=> Expects(a)) /\ Missing("L1D", a)' /\ Missing("L1D", a)
        BY <1>7, <2>1 DEF Expects, InFlight, Missing
      <4>2. Below(a)' <=> Below(a)
        BY <1>0, <2>1 DEF Below, Missing
      <4>. QED BY <1>0, <1>5, <3>1, <3>2, <4>1, <4>2 DEF Link
    <3>3. CASE x # a
      BY <1>5, <2>1, <3>1, <3>3, LinkFrame
    <3>. QED BY <3>2, <3>3
  <2>4. ASSUME NEW x \in Addr PROVE Tracked(x)'
    BY <1>0, <1>2, <1>5, <1>7, <2>1 DEF Tracked
  <2>. QED BY <2>2, <2>3, <2>4 DEF IInv
<1>. QED BY <1>1, <1>6, <1>7 DEF StoreMiss
-----------------------------------------------------------------------------
(* handle_read *)

LEMMA RqPopped ==
    ASSUME RqTypes, NEW c \in Cache, rq[c] # <<>>
    PROVE  /\ Head(rq[c]) \in Addr /\ Head(rq[c]) \in Elements(rq[c])
           /\ Tail(rq[c]) \in Seq(Addr) /\ Len(Tail(rq[c])) <= RqSize[c]
           /\ \A x : x \in Elements(rq[c]) <=> x = Head(rq[c]) \/ x \in Elements(Tail(rq[c]))
           /\ Once(rq[c]) => Once(Tail(rq[c])) /\ Head(rq[c]) \notin Elements(Tail(rq[c]))
<1>1. rq[c] \in Seq(Addr) /\ Len(rq[c]) <= RqSize[c] /\ RqSize[c] \in Nat
  BY HierarchyAssumption DEF RqTypes
<1>2. /\ Head(rq[c]) \in Addr /\ Head(rq[c]) \in Elements(rq[c])
      /\ Tail(rq[c]) \in Seq(Addr) /\ Len(Tail(rq[c])) = Len(rq[c]) - 1
      /\ \A x : x \in Elements(rq[c]) <=> x = Head(rq[c]) \/ x \in Elements(Tail(rq[c]))
      /\ Once(rq[c]) => Once(Tail(rq[c])) /\ Head(rq[c]) \notin Elements(Tail(rq[c]))
  BY <1>1, TailDrops
<1>3. Len(Tail(rq[c])) <= RqSize[c]
  BY <1>1, <1>2
<1>. QED BY <1>2, <1>3

\* The read queue of one cache changes.
LEMMA RqWritten ==
    ASSUME RqTypes, NEW c \in Cache, NEW q \in Seq(Addr), Len(q) <= RqSize[c],
           rq' = [rq EXCEPT ![c] = q]
    PROVE  RqTypes' /\ rq'[c] = q /\ \A d \in Cache : d # c => rq'[d] = rq[d]
BY DEF RqTypes

LEMMA ReadHitKeepsInv ==
    ASSUME IInv, NEW c \in Cache, rq[c] # <<>>,
           \/ c = "L1D" /\ ReadHitL1(Head(rq[c]))
           \/ c = "L2C" /\ ReadHitL2(Head(rq[c]))
    PROVE  IInv'
<1>0. "L2C" \in Cache /\ "L1D" \in Cache /\ RqTypes /\ MshrTypes /\ Once(rq["L2C"])
  BY DEF IInv, Types, Cache
<1>1. PICK q \in Seq(Addr), a \in Addr :
        /\ q = Tail(rq[c]) /\ a = Head(rq[c]) /\ Len(q) <= RqSize[c] /\ a \in Elements(rq[c])
        /\ \A x : x \in Elements(rq[c]) <=> x = a \/ x \in Elements(q)
        /\ Once(rq[c]) => Once(q) /\ a \notin Elements(q)
  BY <1>0, RqPopped
<1>2. rq' = [rq EXCEPT ![c] = q] /\ UNCHANGED <<block, wq, pq>>
  BY <1>1 DEF ReadHitL1, ReadHitL2, Pop
<1>3. RqTypes' /\ rq'[c] = q /\ \A d \in Cache : d # c => rq'[d] = rq[d]
  BY <1>0, <1>1, <1>2, RqWritten
<1>4. Once(rq'["L2C"])
  BY <1>0, <1>1, <1>3
<1>5. \A x \in Addr : /\ Link(x) /\ Tracked(x)
                      /\ (Ahead(x)' <=> Ahead(x)) /\ (Back(x)' <=> Back(x))
                      /\ \A d \in Cache : Hit(d, x)' <=> Hit(d, x)
  BY <1>2, BlocksUnchanged DEF IInv, Ahead, Back
<1>6. CASE c = "L1D" /\ ReadHitL1(a)
  <2>1. UNCHANGED mshr /\ waiting' = waiting \ {a} /\ rq'["L2C"] = rq["L2C"]
    BY <1>0, <1>3, <1>6 DEF ReadHitL1
  <2>2. Types'
    BY <1>2, <1>3, <1>4, <2>1, BlocksUnchanged
       DEF IInv, Types, PqTypes, WqTypes, MshrTypes, Missing
  <2>3. ASSUME NEW x \in Addr PROVE Link(x)'
    BY <1>5, <2>1, LinkFrame DEF Read
  <2>4. ASSUME NEW x \in Addr PROVE Tracked(x)'
    BY <1>1, <1>3, <1>5, <1>6, <2>1 DEF Tracked
  <2>. QED BY <2>2, <2>3, <2>4 DEF IInv
<1>7. CASE c = "L2C" /\ ReadHitL2(a)
  <2>1. /\ mshr' = [mshr EXCEPT !["L1D"] = Answered(@, a)] /\ UNCHANGED waiting
        /\ Hit("L2C", a) /\ rq'["L1D"] = rq["L1D"]
    BY <1>0, <1>3, <1>7 DEF ReadHitL2
  <2>2. /\ MshrTypes' /\ ~Expects(a)'
        /\ \A d \in Cache, x \in Addr : mshr'[d][x].kind = mshr[d][x].kind
        /\ \A d \in Cache, x \in Addr : d # "L1D" \/ x # a => mshr'[d][x] = mshr[d][x]
    BY <1>0, <2>1, MshrAnswered
  <2>3. Types'
    BY <1>2, <1>3, <1>4, <2>1, <2>2, BlocksUnchanged DEF IInv, Types, PqTypes, WqTypes
  <2>4. ASSUME NEW x \in Addr PROVE Link(x)'
    <3>1. Read(x)' <=> Read(x) /\ x # a
      BY <1>0, <1>1, <1>3, <1>7 DEF Read
    <3>2. CASE x = a
      <4>1. Read(a) /\ ~Below(a) /\ ~Ahead(a)
        BY <1>1, <1>5, <1>7, <2>1 DEF Link, Read
      <4>2. (Below(a)' <=> Below(a)) /\ (Missing("L1D", a)' <=> Missing("L1D", a))
        BY <1>0, <2>2 DEF Below, Missing
      <4>. QED BY <1>0, <1>5, <2>2, <3>1, <3>2, <4>1, <4>2 DEF Link
    <3>3. CASE x # a
      BY <1>5, <2>2, <3>1, <3>3, LinkFrame
    <3>. QED BY <3>2, <3>3
  <2>5. ASSUME NEW x \in Addr PROVE Tracked(x)'
    BY <1>0, <1>5, <2>1, <2>2 DEF Tracked
  <2>. QED BY <2>3, <2>4, <2>5 DEF IInv
<1>. QED BY <1>1, <1>6, <1>7

LEMMA LoadNewMissKeepsInv ==
    ASSUME IInv, rq["L1D"] # <<>>, LoadNewMiss(Head(rq["L1D"]))
    PROVE  IInv'
<1>0. "L2C" \in Cache /\ "L1D" \in Cache /\ RqTypes /\ MshrTypes /\ Once(rq["L2C"])
  BY DEF IInv, Types, Cache
<1>1. PICK q \in Seq(Addr), a \in Addr :
        /\ q = Tail(rq["L1D"]) /\ a = Head(rq["L1D"]) /\ Len(q) <= RqSize["L1D"]
        /\ \A x : x \in Elements(rq["L1D"]) <=> x = a \/ x \in Elements(q)
  BY <1>0, RqPopped
<1>2. /\ ~Hit("L1D", a) /\ ~Missing("L1D", a) /\ MshrRoom("L1D")
      /\ mshr' = [mshr EXCEPT !["L1D"] = Sent(a, [@ EXCEPT ![a] = Miss("load", 1)])]
      /\ rq' = [rq EXCEPT !["L1D"] = q, !["L2C"] = ReadSent(a)]
      /\ UNCHANGED <<block, wq, pq, waiting>>
  BY <1>1 DEF LoadNewMiss
<1>3. /\ MshrTypes' /\ mshr'["L1D"][a].kind = "load" /\ (Expects(a)' <=> ~Back(a))
      /\ \A d \in Cache, x \in Addr : d # "L1D" \/ x # a => mshr'[d][x] = mshr[d][x]
  BY <1>0, <1>2, MissSent
<1>4. Len(rq["L2C"]) < RqSize["L2C"]
  BY <1>2, RoomForMiss
<1>5. /\ ReadSent(a) \in Seq(Addr) /\ Once(ReadSent(a)) /\ Len(ReadSent(a)) <= RqSize["L2C"]
      /\ \A x : x \in Elements(ReadSent(a)) <=> Read(x) \/ (x = a /\ ~Back(a))
  BY <1>0, <1>4, ReadPlaced
<1>6. RqTypes' /\ rq'["L2C"] = ReadSent(a) /\ rq'["L1D"] = q
  BY <1>0, <1>1, <1>2, <1>5 DEF RqTypes, Cache
<1>7. \A x \in Addr : /\ Link(x) /\ Tracked(x)
                      /\ (Ahead(x)' <=> Ahead(x)) /\ (Back(x)' <=> Back(x))
                      /\ \A d \in Cache : Hit(d, x)' <=> Hit(d, x)
  BY <1>2, BlocksUnchanged DEF IInv, Ahead, Back
<1>8. Types'
  BY <1>2, <1>3, <1>5, <1>6, BlocksUnchanged DEF IInv, Types, PqTypes, WqTypes
<1>9. ASSUME NEW x \in Addr PROVE Link(x)'
  <2>1. Read(x)' <=> Read(x) \/ (x = a /\ ~Back(a))
    BY <1>5, <1>6 DEF Read
  <2>2. CASE x = a
    <3>1. ~Expects(a)
      BY <1>2 DEF Expects, InFlight
    <3>2. Below(a)' <=> Below(a)
      BY <1>0, <1>3 DEF Below, Missing
    <3>. QED BY <1>0, <1>2, <1>3, <1>7, <2>1, <2>2, <3>1, <3>2 DEF Link
  <2>3. CASE x # a
    BY <1>3, <1>7, <2>1, <2>3, LinkFrame
  <2>. QED BY <2>2, <2>3
<1>10. ASSUME NEW x \in Addr PROVE Tracked(x)'
  BY <1>0, <1>1, <1>2, <1>3, <1>6, <1>7 DEF Tracked
<1>. QED BY <1>8, <1>9, <1>10 DEF IInv

\* A load that meets a miss: a prefetch still in flight is replaced by a read below.
LEMMA LoadMergesKeepsInv ==
    ASSUME IInv, rq["L1D"] # <<>>, LoadMerges(Head(rq["L1D"]))
    PROVE  IInv'
<1>0. /\ "L2C" \in Cache /\ "L1D" \in Cache /\ RqTypes /\ MshrTypes /\ Once(rq["L2C"])
      /\ PqTypes /\ OnceByAddr(pq["L2C"])
  BY DEF IInv, Types, Cache
<1>1. PICK q \in Seq(Addr), a \in Addr :
        /\ q = Tail(rq["L1D"]) /\ a = Head(rq["L1D"]) /\ Len(q) <= RqSize["L1D"]
        /\ \A x : x \in Elements(rq["L1D"]) <=> x = a \/ x \in Elements(q)
  BY <1>0, RqPopped
<1>2. /\ ~Hit("L1D", a) /\ Missing("L1D", a)
      /\ mshr' = [mshr EXCEPT !["L1D"][a] = Demand(@, "load")]
      /\ UNCHANGED <<block, wq, waiting>>
  BY <1>1 DEF LoadMerges, Merged, LatePrefetch, InFlight
<1>3. /\ MshrTypes' /\ mshr'["L1D"][a].kind \in {"load", "rfo"}
      /\ mshr'["L1D"][a].returned = mshr["L1D"][a].returned
      /\ \A d \in Cache, x \in Addr : d # "L1D" \/ x # a => mshr'[d][x] = mshr[d][x]
  BY <1>0, <1>2, DemandMerges
<1>4. \A x \in Addr : /\ Link(x) /\ Tracked(x) /\ (Back(x)' <=> Back(x))
                      /\ \A d \in Cache : Hit(d, x)' <=> Hit(d, x)
  BY <1>2, BlocksUnchanged DEF IInv, Back
<1>5. /\ Expects(a)' <=> Expects(a)
      /\ Missing("L1D", a)' /\ (Below(a)' <=> Below(a))
  BY <1>0, <1>2, <1>3 DEF Expects, InFlight, Missing, Below
<1>6. CASE Merged(a) /\ rq' = Pop(rq, "L1D") /\ UNCHANGED pq
  <2>1. rq' = [rq EXCEPT !["L1D"] = q]
    BY <1>1, <1>6 DEF Pop
  <2>2. RqTypes' /\ rq'["L2C"] = rq["L2C"] /\ rq'["L1D"] = q
    BY <1>0, <1>1, <2>1, RqWritten
  <2>3. Types'
    BY <1>2, <1>3, <1>6, <2>2, BlocksUnchanged DEF IInv, Types, PqTypes, WqTypes
  <2>4. ASSUME NEW x \in Addr PROVE Link(x)'
    <3>1. (Read(x)' <=> Read(x)) /\ (Ahead(x)' <=> Ahead(x))
      BY <1>6, <2>2 DEF Read, Ahead
    <3>2. CASE x = a
      BY <1>0, <1>2, <1>4, <1>5, <3>1, <3>2 DEF Link
    <3>3. CASE x # a
      BY <1>3, <1>4, <3>1, <3>3, LinkFrame
    <3>. QED BY <3>2, <3>3
  <2>5. ASSUME NEW x \in Addr PROVE Tracked(x)'
    BY <1>0, <1>1, <1>2, <1>3, <1>4, <2>2 DEF Tracked
  <2>. QED BY <2>3, <2>4, <2>5 DEF IInv
<1>7. CASE /\ LatePrefetch(a) /\ Len(rq["L2C"]) < RqSize["L2C"]
           /\ rq' = [rq EXCEPT !["L1D"] = Tail(@), !["L2C"] = ReadSent(a)]
           /\ pq' = [pq EXCEPT !["L2C"] = DropPrefetch(@, a)]
  <2>1. /\ ReadSent(a) \in Seq(Addr) /\ Once(ReadSent(a)) /\ Len(ReadSent(a)) <= RqSize["L2C"]
        /\ \A x : x \in Elements(ReadSent(a)) <=> Read(x) \/ (x = a /\ ~Back(a))
    BY <1>0, <1>7, ReadPlaced
  <2>2. rq' = [rq EXCEPT !["L1D"] = q, !["L2C"] = ReadSent(a)]
    BY <1>1, <1>7
  <2>3. RqTypes' /\ rq'["L2C"] = ReadSent(a) /\ rq'["L1D"] = q
    BY <1>0, <1>1, <2>1, <2>2 DEF RqTypes, Cache
  <2>4. Expects(a) /\ ~Back(a)
    BY <1>4, <1>7 DEF LatePrefetch, Expects, Link
  <2>5. pq["L2C"] \in Seq(Prefetch) /\ Len(pq["L2C"]) <= PqSize["L2C"] /\ PqSize["L2C"] \in Nat
    BY <1>0, HierarchyAssumption DEF PqTypes
  <2>6. PICK p \in Seq(Prefetch) :
          /\ p = DropPrefetch(pq["L2C"], a) /\ OnceByAddr(p) /\ Len(p) <= Len(pq["L2C"])
          /\ \A x : x \in Elements(p) <=> x \in Elements(pq["L2C"]) /\ x.addr # a
    BY <1>0, <2>5, DropPrefetchLeaves
  <2>7. Len(p) <= PqSize["L2C"]
    BY <2>5, <2>6
  <2>8. pq' = [pq EXCEPT !["L2C"] = p]
    BY <1>7, <2>6
  <2>9. PqTypes' /\ pq'["L2C"] = p /\ pq'["L1D"] = pq["L1D"] /\ \A d \in Cache : OnceByAddr(pq'[d])
    BY <1>0, <2>6, <2>7, <2>8 DEF IInv, Types, PqTypes, Cache
  <2>10. Types'
    BY <1>2, <1>3, <2>1, <2>3, <2>9, BlocksUnchanged DEF IInv, Types, WqTypes
  <2>11. ASSUME NEW x \in Addr PROVE Link(x)'
    <3>1. Read(x)' <=> Read(x) \/ x = a
      BY <2>1, <2>3, <2>4 DEF Read
    <3>2. Ahead(x)' <=> Ahead(x) /\ x # a
      <4>1. [addr |-> x, fill |-> 1].addr = x
        OBVIOUS
      <4>. QED BY <2>6, <2>9, <4>1 DEF Ahead
    <3>3. CASE x = a
      BY <1>0, <1>2, <1>4, <1>5, <2>4, <3>1, <3>2, <3>3 DEF Link
    <3>4. CASE x # a
      BY <1>3, <1>4, <3>1, <3>2, <3>4, LinkFrame
    <3>. QED BY <3>3, <3>4
  <2>12. ASSUME NEW x \in Addr PROVE Tracked(x)'
    BY <1>0, <1>1, <1>2, <1>3, <1>4, <2>3 DEF Tracked
  <2>. QED BY <2>10, <2>11, <2>12 DEF IInv
<1>. QED BY <1>1, <1>6, <1>7 DEF LoadMerges
\* A read that misses at the L2C leaves its queue for the MSHR, which will answer.
LEMMA ReadMissKeepsInv ==
    ASSUME IInv, rq["L2C"] # <<>>, ReadMissL2(Head(rq["L2C"]))
    PROVE  IInv'
<1>0. "L2C" \in Cache /\ "L1D" \in Cache /\ RqTypes /\ MshrTypes /\ Once(rq["L2C"])
  BY DEF IInv, Types, Cache
<1>1. PICK q \in Seq(Addr), a \in Addr :
        /\ q = Tail(rq["L2C"]) /\ a = Head(rq["L2C"]) /\ Len(q) <= RqSize["L2C"]
        /\ \A x : x \in Elements(rq["L2C"]) <=> x = a \/ x \in Elements(q)
        /\ Once(q) /\ a \notin Elements(q)
  BY <1>0, RqPopped
<1>2. /\ rq' = [rq EXCEPT !["L2C"] = q] /\ ~Hit("L2C", a)
      /\ UNCHANGED <<block, wq, pq, waiting>>
  BY <1>1 DEF ReadMissL2, Pop
<1>3. RqTypes' /\ rq'["L2C"] = q /\ rq'["L1D"] = rq["L1D"]
  BY <1>0, <1>1, <1>2, RqWritten
<1>4. /\ MshrTypes' /\ mshr'["L2C"][a].kind # "none" /\ mshr'["L2C"][a].fill = 1
      /\ \A d \in Cache, x \in Addr : d # "L2C" \/ x # a => mshr'[d][x] = mshr[d][x]
  <2>1. CASE /\ ~Missing("L2C", a) /\ MshrRoom("L2C")
             /\ mshr' = [mshr EXCEPT !["L2C"][a] = Miss("load", 1)]
    <3>1. PICK e \in MshrEntry : e = Miss("load", 1) /\ e.kind = "load" /\ e.fill = 1
      BY MissFields
    <3>2. Writes("L2C", a, e)
      BY <2>1, <3>1 DEF Writes
    <3>3. /\ MshrTypes' /\ mshr'["L2C"][a] = e
          /\ \A d \in Cache, x \in Addr : d # "L2C" \/ x # a => mshr'[d][x] = mshr[d][x]
      BY <1>0, <2>1, <3>1, <3>2, MshrWritten
    <3>. QED BY <3>1, <3>3
  <2>2. CASE Missing("L2C", a) /\ mshr' = [mshr EXCEPT !["L2C"][a] = Demand(@, "load")]
    BY <1>0, <2>2, DemandMerges
  <2>. QED BY <1>1, <2>1, <2>2 DEF ReadMissL2
<1>5. \A x \in Addr : /\ Link(x) /\ Tracked(x)
                      /\ (Ahead(x)' <=> Ahead(x)) /\ (Back(x)' <=> Back(x))
                      /\ \A d \in Cache : Hit(d, x)' <=> Hit(d, x)
  BY <1>2, BlocksUnchanged DEF IInv, Ahead, Back
<1>6. Types'
  BY <1>1, <1>2, <1>3, <1>4, BlocksUnchanged DEF IInv, Types, PqTypes, WqTypes
<1>7. ASSUME NEW x \in Addr PROVE Link(x)'
  <2>1. Read(x)' <=> Read(x) /\ x # a
    BY <1>1, <1>3 DEF Read
  <2>2. CASE x = a
    <3>1. Read(a) /\ Below(a)'
      BY <1>1, <1>4 DEF Read, Below, Missing
    <3>2. (Expects(a)' <=> Expects(a)) /\ (Missing("L1D", a)' <=> Missing("L1D", a))
      BY <1>0, <1>4 DEF Expects, InFlight, Missing
    <3>. QED BY <1>0, <1>2, <1>5, <2>1, <2>2, <3>1, <3>2 DEF Link
  <2>3. CASE x # a
    BY <1>4, <1>5, <2>1, <2>3, LinkFrame
  <2>. QED BY <2>2, <2>3
<1>8. ASSUME NEW x \in Addr PROVE Tracked(x)'
  BY <1>0, <1>2, <1>3, <1>4, <1>5 DEF Tracked
<1>. QED BY <1>6, <1>7, <1>8 DEF IInv

-----------------------------------------------------------------------------
(* handle_prefetch *)

\* The queue loses its first entry: for the L2C, the one prefetch of its address.
LEMMA PqPopped ==
    ASSUME PqTypes, \A d \in Cache : OnceByAddr(pq[d]), NEW c \in Cache, pq[c] # <<>>
    PROVE  /\ Head(pq[c]) \in Prefetch /\ Head(pq[c]) \in Elements(pq[c])
           /\ Tail(pq[c]) \in Seq(Prefetch) /\ Len(Tail(pq[c])) <= PqSize[c]
           /\ OnceByAddr(Tail(pq[c]))
           /\ \A x, f : [addr |-> x, fill |-> f] \in Elements(Tail(pq[c])) <=>
                 [addr |-> x, fill |-> f] \in Elements(pq[c]) /\ x # Head(pq[c]).addr
<1>1. pq[c] \in Seq(Prefetch) /\ Len(pq[c]) <= PqSize[c] /\ PqSize[c] \in Nat
  BY HierarchyAssumption DEF PqTypes
<1>2. /\ Head(pq[c]) \in Prefetch /\ Head(pq[c]) \in Elements(pq[c])
      /\ Tail(pq[c]) \in Seq(Prefetch) /\ Len(Tail(pq[c])) = Len(pq[c]) - 1
      /\ \A x : x \in Elements(pq[c]) <=> x = Head(pq[c]) \/ x \in Elements(Tail(pq[c]))
      /\ OnceByAddr(Tail(pq[c]))
      /\ \A x \in Elements(Tail(pq[c])) : x.addr # Head(pq[c]).addr
  BY <1>1, TailDrops
<1>3. Len(Tail(pq[c])) <= PqSize[c]
  BY <1>1, <1>2
<1>4. ASSUME NEW x, NEW f
      PROVE  [addr |-> x, fill |-> f] \in Elements(Tail(pq[c])) <=>
                [addr |-> x, fill |-> f] \in Elements(pq[c]) /\ x # Head(pq[c]).addr
  <2> DEFINE e == [addr |-> x, fill |-> f]
  <2>1. e.addr = x
    OBVIOUS
  <2>2. e = Head(pq[c]) => x = Head(pq[c]).addr
    BY <2>1
  <2> HIDE DEF e
  <2>3. e \in Elements(Tail(pq[c])) <=> e \in Elements(pq[c]) /\ x # Head(pq[c]).addr
    BY <1>2, <2>1, <2>2
  <2>. QED BY <2>3 DEF e
<1>. QED BY <1>2, <1>3, <1>4

LEMMA PqWritten ==
    ASSUME PqTypes, \A d \in Cache : OnceByAddr(pq[d]), NEW c \in Cache,
           NEW q \in Seq(Prefetch), Len(q) <= PqSize[c], OnceByAddr(q),
           pq' = [pq EXCEPT ![c] = q]
    PROVE  /\ PqTypes' /\ pq'[c] = q
           /\ \A d \in Cache : OnceByAddr(pq'[d]) /\ (d # c => pq'[d] = pq[d])
BY DEF PqTypes

\* A prefetch that hits, or that merges into a miss.
LEMMA PrefetchEndsKeepsInv ==
    ASSUME IInv, NEW c \in Cache, pq[c] # <<>>, UNCHANGED <<block, rq, wq, waiting>>,
           PrefetchHit(c, Head(pq[c])) \/ PrefetchMerges(c, Head(pq[c]))
    PROVE  IInv'
<1>0. /\ "L2C" \in Cache /\ "L1D" \in Cache /\ MshrTypes
      /\ PqTypes /\ \A d \in Cache : OnceByAddr(pq[d])
  BY DEF IInv, Types, Cache
<1>1. PICK q \in Seq(Prefetch), p \in Prefetch :
        /\ q = Tail(pq[c]) /\ p = Head(pq[c]) /\ Len(q) <= PqSize[c] /\ OnceByAddr(q)
        /\ p \in Elements(pq[c])
        /\ \A x, f : [addr |-> x, fill |-> f] \in Elements(q) <=>
              [addr |-> x, fill |-> f] \in Elements(pq[c]) /\ x # p.addr
  BY <1>0, PqPopped
<1>2. PICK a \in Addr, fill \in 1 .. 2 : p.addr = a /\ p.fill = fill /\ p = [addr |-> a, fill |-> fill]
  BY PrefetchRecord
<1>3. pq' = [pq EXCEPT ![c] = q]
  BY <1>1 DEF PrefetchHit, PrefetchMerges, Pop
<1>4. /\ PqTypes' /\ pq'[c] = q
      /\ \A d \in Cache : OnceByAddr(pq'[d]) /\ (d # c => pq'[d] = pq[d])
  BY <1>0, <1>1, <1>3, PqWritten
<1>5. \A x \in Addr : Ahead(x)' <=> Ahead(x) /\ ~(c = "L2C" /\ x = a)
  BY <1>0, <1>1, <1>2, <1>4 DEF Ahead
<1>6. c = "L2C" /\ fill = 1 => Ahead(a)
  BY <1>1, <1>2 DEF Ahead
<1>7. c = "L2C" /\ fill = 2 => ~Ahead(a)
  <2>. SUFFICES ASSUME c = "L2C", fill = 2, Ahead(a) PROVE FALSE
    OBVIOUS
  <2>1. pq["L2C"] \in Seq(Prefetch)
    BY <1>0 DEF PqTypes
  <2>2. PICK i \in 1 .. Len(pq["L2C"]) : pq["L2C"][i] = [addr |-> a, fill |-> 1]
    BY DEF Ahead, Elements
  <2>3. PICK j \in 1 .. Len(pq["L2C"]) : pq["L2C"][j] = p
    BY <1>1 DEF Elements
  <2>4. pq["L2C"][i].addr = a /\ pq["L2C"][i].fill = 1
    BY <2>2
  <2>5. i = j
    BY <1>0, <1>2, <2>3, <2>4 DEF OnceByAddr
  <2>. QED BY <1>2, <2>3, <2>4, <2>5
<1>8. \A x \in Addr : /\ Link(x) /\ Tracked(x)
                      /\ (Read(x)' <=> Read(x)) /\ (Back(x)' <=> Back(x))
                      /\ \A d \in Cache : Hit(d, x)' <=> Hit(d, x)
  BY BlocksUnchanged DEF IInv, Read, Back
<1>9. CASE PrefetchHit(c, p)
  <2>1. (fill < Level[c]) <=> c = "L2C" /\ fill = 1
    BY DEF Level, Cache
  <2>2. CASE c = "L2C" /\ fill = 1
    <3>1. mshr' = [mshr EXCEPT !["L1D"] = Answered(@, a)] /\ Hit("L2C", a)
      BY <1>2, <1>9, <2>1, <2>2 DEF PrefetchHit
    <3>2. /\ MshrTypes' /\ ~Expects(a)'
          /\ \A d \in Cache, x \in Addr : mshr'[d][x].kind = mshr[d][x].kind
          /\ \A d \in Cache, x \in Addr : d # "L1D" \/ x # a => mshr'[d][x] = mshr[d][x]
      BY <1>0, <3>1, MshrAnswered
    <3>3. Types'
      BY <1>4, <3>2, BlocksUnchanged DEF IInv, Types, RqTypes, WqTypes
    <3>4. ASSUME NEW x \in Addr PROVE Link(x)'
      <4>1. CASE x = a
        <5>1. Ahead(a) /\ ~Read(a) /\ ~Below(a)
          BY <1>6, <1>8, <2>2 DEF Link
        <5>2. (Below(a)' <=> Below(a)) /\ (Missing("L1D", a)' <=> Missing("L1D", a))
          BY <1>0, <3>2 DEF Below, Missing
        <5>. QED BY <1>0, <1>5, <1>8, <2>2, <3>2, <4>1, <5>1, <5>2 DEF Link
      <4>2. CASE x # a
        BY <1>5, <1>8, <3>2, <4>2, LinkFrame
      <4>. QED BY <4>1, <4>2
    <3>5. ASSUME NEW x \in Addr PROVE Tracked(x)'
      BY <1>0, <1>8, <3>2 DEF Tracked
    <3>. QED BY <3>3, <3>4, <3>5 DEF IInv
  <2>3. CASE ~(c = "L2C" /\ fill = 1)
    <3>1. UNCHANGED mshr
      BY <1>2, <1>9, <2>1, <2>3 DEF PrefetchHit
    <3>2. Types'
      BY <1>4, <3>1, BlocksUnchanged DEF IInv, Types, RqTypes, WqTypes, MshrTypes, Missing
    <3>3. ASSUME NEW x \in Addr PROVE Link(x)'
      <4>1. fill \in 1 .. 2 /\ (Ahead(x)' <=> Ahead(x))
        BY <1>5, <1>7, <2>3
      <4>. QED BY <1>8, <3>1, <4>1, LinkFrame
    <3>4. ASSUME NEW x \in Addr PROVE Tracked(x)'
      BY <1>8, <3>1 DEF Tracked
    <3>. QED BY <3>2, <3>3, <3>4 DEF IInv
  <2>. QED BY <2>2, <2>3
<1>10. CASE PrefetchMerges(c, p)
  <2>1. /\ ~Hit(c, a) /\ Missing(c, a) /\ mshr' = [mshr EXCEPT ![c][a] = Lower(@, fill)]
    BY <1>2, <1>10 DEF PrefetchMerges
  <2>2. PICK m \in MshrEntry : m = mshr[c][a]
    BY <1>0 DEF MshrTypes
  <2>3. m.fill \in 1 .. 2
    BY <1>0, <2>1, <2>2 DEF MshrTypes
  <2>4. PICK e \in MshrEntry : /\ e = Lower(m, fill) /\ e.kind = m.kind
                               /\ e.returned = m.returned
                               /\ e.fill = IF fill < m.fill THEN fill ELSE m.fill
    BY LowerFields
  <2>5. Writes(c, a, e)
    BY <2>1, <2>2, <2>4 DEF Writes
  <2>6. e.fill \in 1 .. 2
    BY <2>3, <2>4
  <2>7. /\ MshrTypes' /\ mshr'[c][a] = e
        /\ \A d \in Cache, x \in Addr : d # c \/ x # a => mshr'[d][x] = mshr[d][x]
    BY <1>0, <2>1, <2>5, <2>6, MshrWritten
  <2>8. Types'
    BY <1>4, <2>7, BlocksUnchanged DEF IInv, Types, RqTypes, WqTypes
  <2>9. /\ Expects(a)' <=> Expects(a)
        /\ Missing("L1D", a)' <=> Missing("L1D", a)
    <3>1. mshr'["L1D"][a].kind = mshr["L1D"][a].kind
          /\ mshr'["L1D"][a].returned = mshr["L1D"][a].returned
      BY <1>0, <2>2, <2>4, <2>7
    <3>. QED BY <3>1 DEF Expects, InFlight, Missing
  <2>10. Below(a)' <=> Below(a) \/ (c = "L2C" /\ fill = 1)
    <3>1. CASE c = "L2C"
      <4>1. Missing("L2C", a) /\ Missing("L2C", a)'
        BY <2>1, <2>2, <2>4, <2>7, <3>1 DEF Missing
      <4>2. e.fill = 1 <=> m.fill = 1 \/ fill = 1
        BY <2>3, <2>4
      <4>. QED BY <2>2, <2>7, <3>1, <4>1, <4>2 DEF Below
    <3>2. CASE c # "L2C"
      BY <1>0, <2>7, <3>2 DEF Below, Missing
    <3>. QED BY <3>1, <3>2
  <2>11. ASSUME NEW x \in Addr PROVE Link(x)'
    <3>1. CASE x = a
      <4>1. CASE c = "L2C" /\ fill = 1
        <5>1. Ahead(a) /\ ~Hit("L2C", a)
          BY <1>6, <2>1, <4>1
        <5>. QED BY <1>0, <1>5, <1>8, <2>9, <2>10, <3>1, <4>1, <5>1 DEF Link
      <4>2. CASE ~(c = "L2C" /\ fill = 1)
        <5>1. Ahead(a)' <=> Ahead(a)
          BY <1>5, <1>7, <4>2
        <5>. QED BY <1>0, <1>8, <2>9, <2>10, <3>1, <4>2, <5>1 DEF Link
      <4>. QED BY <4>1, <4>2
    <3>2. CASE x # a
      BY <1>5, <1>8, <2>7, <3>2, LinkFrame
    <3>. QED BY <3>1, <3>2
  <2>12. ASSUME NEW x \in Addr PROVE Tracked(x)'
    <3>1. mshr'["L1D"][x].kind = mshr["L1D"][x].kind
      BY <1>0, <2>2, <2>4, <2>7
    <3>. QED BY <1>8, <3>1 DEF Tracked
  <2>. QED BY <2>8, <2>11, <2>12 DEF IInv
<1>. QED BY <1>1, <1>9, <1>10
\* A prefetch of the L1D that misses: with fill level 1 the L1D waits for the prefetch it
\* passes on, unless the write queue of the L2C answered; with level 2 it forgets it.
LEMMA PrefetchMissL1KeepsInv ==
    ASSUME IInv, pq["L1D"] # <<>>, UNCHANGED <<block, rq, wq, waiting>>,
           PrefetchMissL1(Head(pq["L1D"]))
    PROVE  IInv'
<1>0. /\ "L2C" \in Cache /\ "L1D" \in Cache /\ MshrTypes
      /\ PqTypes /\ \A d \in Cache : OnceByAddr(pq[d])
  BY DEF IInv, Types, Cache
<1>1. PICK q \in Seq(Prefetch), p \in Prefetch :
        q = Tail(pq["L1D"]) /\ p = Head(pq["L1D"]) /\ Len(q) <= PqSize["L1D"] /\ OnceByAddr(q)
  BY <1>0, PqPopped
<1>2. PICK a \in Addr, fill \in 1 .. 2 : p.addr = a /\ p.fill = fill
  BY PrefetchRecord
<1>3. /\ ~Hit("L1D", a) /\ ~Missing("L1D", a) /\ MshrRoom("L1D")
      /\ Len(pq["L2C"]) < PqSize["L2C"]
  BY <1>1, <1>2 DEF PrefetchMissL1
<1>4. pq["L2C"] \in Seq(Prefetch) /\ OnceByAddr(pq["L2C"]) /\ PqSize["L2C"] \in Nat
  BY <1>0, HierarchyAssumption DEF PqTypes
<1>5. PICK r \in Seq(Prefetch) :
        /\ r = PrefetchSent(a, fill) /\ OnceByAddr(r) /\ Len(r) <= PqSize["L2C"]
        /\ \A x \in Addr : [addr |-> x, fill |-> 1] \in Elements(r) <=>
              Ahead(x) \/ (x = a /\ fill = 1 /\ ~Back(a))
  <2>1. CASE Back(a)
    <3>1. PrefetchSent(a, fill) = pq["L2C"] /\ Len(pq["L2C"]) <= PqSize["L2C"]
      BY <1>0, <2>1 DEF PrefetchSent, Back, PqTypes
    <3>. QED BY <1>4, <2>1, <3>1 DEF Ahead
  <2>2. CASE ~Back(a)
    <3>1. PrefetchSent(a, fill) = PushPrefetch(pq["L2C"], a, fill)
      BY <2>2 DEF PrefetchSent, Back
    <3>2. /\ PrefetchSent(a, fill) \in Seq(Prefetch) /\ OnceByAddr(PrefetchSent(a, fill))
          /\ Len(PrefetchSent(a, fill)) <= Len(pq["L2C"]) + 1
          /\ \A x \in Addr : x # a =>
                \A f : [addr |-> x, fill |-> f] \in Elements(PrefetchSent(a, fill)) <=>
                       [addr |-> x, fill |-> f] \in Elements(pq["L2C"])
          /\ [addr |-> a, fill |-> 1] \in Elements(PrefetchSent(a, fill)) <=>
                fill = 1 \/ [addr |-> a, fill |-> 1] \in Elements(pq["L2C"])
      BY <1>4, <3>1, PushPrefetchAdds
    <3>3. Len(PrefetchSent(a, fill)) <= PqSize["L2C"]
      BY <1>3, <1>4, <3>2
    <3>. QED BY <2>2, <3>2, <3>3 DEF Ahead
  <2>. QED BY <2>1, <2>2
<1>6. pq' = [pq EXCEPT !["L1D"] = q, !["L2C"] = r]
  BY <1>1, <1>2, <1>5 DEF PrefetchMissL1
<1>7. /\ PqTypes' /\ pq'["L2C"] = r /\ pq'["L1D"] = q
      /\ \A d \in Cache : OnceByAddr(pq'[d])
  BY <1>0, <1>1, <1>5, <1>6 DEF PqTypes, Cache
<1>8. \A x \in Addr : Ahead(x)' <=> Ahead(x) \/ (x = a /\ fill = 1 /\ ~Back(a))
  BY <1>5, <1>7 DEF Ahead
<1>9. \A x \in Addr : /\ Link(x) /\ Tracked(x)
                      /\ (Read(x)' <=> Read(x)) /\ (Back(x)' <=> Back(x))
                      /\ \A d \in Cache : Hit(d, x)' <=> Hit(d, x)
  BY BlocksUnchanged DEF IInv, Read, Back
<1>10. CASE fill = 1
  <2>1. mshr' = [mshr EXCEPT !["L1D"] = Sent(a, [@ EXCEPT ![a] = Miss("prefetch", 1)])]
    <3>1. KeepsMiss(p) /\ p.addr = a
      BY <1>2, <1>10 DEF KeepsMiss
    <3>2. PrefetchMissL1(p)
      BY <1>1
    <3>. QED BY <3>1, <3>2 DEF PrefetchMissL1
  <2>2. /\ MshrTypes' /\ mshr'["L1D"][a].kind = "prefetch" /\ (Expects(a)' <=> ~Back(a))
        /\ \A d \in Cache, x \in Addr : d # "L1D" \/ x # a => mshr'[d][x] = mshr[d][x]
    BY <1>0, <1>3, <2>1, MissSent
  <2>3. Types'
    BY <1>7, <2>2, BlocksUnchanged DEF IInv, Types, RqTypes, WqTypes
  <2>4. ASSUME NEW x \in Addr PROVE Link(x)'
    <3>1. CASE x = a
      <4>1. ~Expects(a)
        BY <1>3 DEF Expects, InFlight
      <4>2. Below(a)' <=> Below(a)
        BY <1>0, <2>2 DEF Below, Missing
      <4>. QED BY <1>0, <1>3, <1>8, <1>9, <1>10, <2>2, <3>1, <4>1, <4>2 DEF Link
    <3>2. CASE x # a
      BY <1>8, <1>9, <2>2, <3>2, LinkFrame
    <3>. QED BY <3>1, <3>2
  <2>5. ASSUME NEW x \in Addr PROVE Tracked(x)'
    <3>1. CASE x = a
      BY <1>3, <1>9, <3>1 DEF Tracked, Missing
    <3>2. CASE x # a
      BY <1>0, <1>9, <2>2, <3>2 DEF Tracked
    <3>. QED BY <3>1, <3>2
  <2>. QED BY <2>3, <2>4, <2>5 DEF IInv
<1>11. CASE fill = 2
  <2>1. UNCHANGED mshr
    <3>1. ~KeepsMiss(p)
      BY <1>2, <1>11 DEF KeepsMiss
    <3>2. mshr' = [mshr EXCEPT !["L1D"] = mshr["L1D"]]
      BY <1>1, <3>1 DEF PrefetchMissL1
    <3>. QED BY <1>0, <3>2 DEF MshrTypes
  <2>2. Types'
    BY <1>7, <2>1, BlocksUnchanged DEF IInv, Types, RqTypes, WqTypes, MshrTypes, Missing
  <2>3. ASSUME NEW x \in Addr PROVE Link(x)'
    BY <1>8, <1>9, <1>11, <2>1, LinkFrame
  <2>4. ASSUME NEW x \in Addr PROVE Tracked(x)'
    BY <1>9, <2>1 DEF Tracked
  <2>. QED BY <2>2, <2>3, <2>4 DEF IInv
<1>. QED BY <1>2, <1>10, <1>11

\* A prefetch that misses at the L2C leaves its queue for the MSHR, with its fill level.
LEMMA PrefetchMissL2KeepsInv ==
    ASSUME IInv, pq["L2C"] # <<>>, UNCHANGED <<block, rq, wq, waiting>>,
           PrefetchMissL2(Head(pq["L2C"]))
    PROVE  IInv'
<1>0. /\ "L2C" \in Cache /\ "L1D" \in Cache /\ MshrTypes
      /\ PqTypes /\ \A d \in Cache : OnceByAddr(pq[d])
  BY DEF IInv, Types, Cache
<1>1. PICK q \in Seq(Prefetch), p \in Prefetch :
        /\ q = Tail(pq["L2C"]) /\ p = Head(pq["L2C"]) /\ Len(q) <= PqSize["L2C"]
        /\ OnceByAddr(q) /\ p \in Elements(pq["L2C"])
        /\ \A x, f : [addr |-> x, fill |-> f] \in Elements(q) <=>
              [addr |-> x, fill |-> f] \in Elements(pq["L2C"]) /\ x # p.addr
  BY <1>0, PqPopped
<1>2. PICK a \in Addr, fill \in 1 .. 2 : p.addr = a /\ p.fill = fill /\ p = [addr |-> a, fill |-> fill]
  BY PrefetchRecord
<1>3. /\ ~Hit("L2C", a) /\ ~Missing("L2C", a) /\ MshrRoom("L2C")
      /\ mshr' = [mshr EXCEPT !["L2C"][a] = Miss("prefetch", fill)]
      /\ pq' = [pq EXCEPT !["L2C"] = q]
  BY <1>1, <1>2 DEF PrefetchMissL2, Pop
<1>4. /\ PqTypes' /\ pq'["L2C"] = q
      /\ \A d \in Cache : OnceByAddr(pq'[d]) /\ (d # "L2C" => pq'[d] = pq[d])
  BY <1>0, <1>1, <1>3, PqWritten
<1>5. \A x \in Addr : Ahead(x)' <=> Ahead(x) /\ x # a
  BY <1>1, <1>2, <1>4 DEF Ahead
<1>6. Ahead(a) <=> fill = 1
  <2>1. fill = 1 => Ahead(a)
    BY <1>1, <1>2 DEF Ahead
  <2>2. ASSUME Ahead(a) PROVE fill = 1
    <3>1. pq["L2C"] \in Seq(Prefetch)
      BY <1>0 DEF PqTypes
    <3>2. PICK i \in 1 .. Len(pq["L2C"]) : pq["L2C"][i] = [addr |-> a, fill |-> 1]
      BY <2>2 DEF Ahead, Elements
    <3>3. PICK j \in 1 .. Len(pq["L2C"]) : pq["L2C"][j] = p
      BY <1>1 DEF Elements
    <3>4. pq["L2C"][i].addr = a /\ pq["L2C"][i].fill = 1
      BY <3>2
    <3>5. i = j
      BY <1>0, <1>2, <3>3, <3>4 DEF OnceByAddr
    <3>. QED BY <1>2, <3>3, <3>4, <3>5
  <2>. QED BY <2>1, <2>2
<1>7. PICK e \in MshrEntry : /\ e = Miss("prefetch", fill)
                             /\ e.kind = "prefetch" /\ e.fill = fill
  BY MissFields
<1>8. Writes("L2C", a, e)
  BY <1>3, <1>7 DEF Writes
<1>9. /\ MshrTypes' /\ mshr'["L2C"][a] = e
      /\ \A d \in Cache, x \in Addr : d # "L2C" \/ x # a => mshr'[d][x] = mshr[d][x]
  BY <1>0, <1>3, <1>7, <1>8, MshrWritten
<1>10. \A x \in Addr : /\ Link(x) /\ Tracked(x)
                       /\ (Read(x)' <=> Read(x)) /\ (Back(x)' <=> Back(x))
                       /\ \A d \in Cache : Hit(d, x)' <=> Hit(d, x)
  BY BlocksUnchanged DEF IInv, Read, Back
<1>11. Types'
  BY <1>4, <1>9, BlocksUnchanged DEF IInv, Types, RqTypes, WqTypes
<1>12. ASSUME NEW x \in Addr PROVE Link(x)'
  <2>1. CASE x = a
    <3>1. (Below(a)' <=> fill = 1) /\ ~Below(a)
      BY <1>3, <1>7, <1>9 DEF Below, Missing
    <3>2. (Expects(a)' <=> Expects(a)) /\ (Missing("L1D", a)' <=> Missing("L1D", a))
      BY <1>0, <1>9 DEF Expects, InFlight, Missing
    <3>. QED BY <1>0, <1>3, <1>5, <1>6, <1>10, <2>1, <3>1, <3>2 DEF Link
  <2>2. CASE x # a
    BY <1>5, <1>9, <1>10, <2>2, LinkFrame
  <2>. QED BY <2>1, <2>2
<1>13. ASSUME NEW x \in Addr PROVE Tracked(x)'
  BY <1>0, <1>9, <1>10 DEF Tracked
<1>. QED BY <1>11, <1>12, <1>13 DEF IInv

-----------------------------------------------------------------------------
(* The theorems *)

LEMMA InitEstablishesInv == Init => IInv
<1>. SUFFICES ASSUME Init PROVE IInv
  OBVIOUS
<1>0. "L2C" \in Cache /\ "L1D" \in Cache
  BY DEF Cache
<1>1. BlockTypes
  <2>1. [addr |-> NoAddr, dirty |-> FALSE] \in Line /\ ~[addr |-> NoAddr, dirty |-> FALSE].dirty
    BY DEF Line
  <2>. QED BY <2>1 DEF Init, BlockTypes, Ways
<1>2. NoMiss \in MshrEntry /\ NoMiss.kind = "none"
  BY MissFields
<1>3. /\ mshr \in [Cache -> [Addr -> MshrEntry]]
      /\ \A c \in Cache, a \in Addr : mshr[c][a].kind = "none" /\ ~Missing(c, a)
  BY <1>2 DEF Init, Missing
<1>4. MshrTypes
  <2>1. ASSUME NEW c \in Cache
        PROVE  Cardinality({a \in Addr : mshr[c][a].kind # "none"}) <= MshrSize[c]
    <3> DEFINE S == {a \in Addr : mshr[c][a].kind # "none"}
    <3>1. S = {}
      BY <1>3
    <3> HIDE DEF S
    <3>2. Cardinality(S) = 0 /\ MshrSize[c] \in Nat
      BY <3>1, FS_EmptySet, HierarchyAssumption
    <3>3. Cardinality(S) <= MshrSize[c]
      BY <3>2
    <3>. QED BY <3>3 DEF S
  <2>. QED BY <1>3, <2>1 DEF MshrTypes
<1>5. /\ RqTypes /\ WqTypes /\ PqTypes
      /\ \A c \in Cache : rq[c] = <<>> /\ wq[c] = <<>> /\ pq[c] = <<>>
  BY HierarchyAssumption DEF Init, RqTypes, WqTypes, PqTypes
<1>6. Types
  BY <1>0, <1>1, <1>4, <1>5 DEF Init, Types, Once, OnceByAddr
<1>7. ASSUME NEW a \in Addr PROVE Link(a)
  <2>1. ~Read(a) /\ ~Ahead(a) /\ ~Back(a)
    BY <1>0, <1>5 DEF Read, Ahead, Back, Elements
  <2>2. ~Expects(a) /\ ~Below(a) /\ ~Missing("L1D", a)
    BY <1>0, <1>3 DEF Expects, Below, InFlight
  <2>. QED BY <2>1, <2>2 DEF Link
<1>8. ASSUME NEW a \in Addr PROVE Tracked(a)
  BY DEF Init, Tracked
<1>. QED BY <1>6, <1>7, <1>8 DEF IInv

LEMMA OperateKeepsInv ==
    ASSUME IInv, NEW c \in Cache, Operate(c)
    PROVE  IInv'
<1>1. CASE \E a \in Addr : HandleFill(c, a)
  BY <1>1, FillL1KeepsInv, FillL2KeepsInv DEF Cache
<1>2. CASE HandleWriteback(c)
  BY <1>2, WriteHitKeepsInv, StoreMissKeepsInv, AllocateMissKeepsInv DEF HandleWriteback
<1>3. CASE HandleRead(c)
  <2>1. rq[c] # <<>>
    BY <1>3 DEF HandleRead
  <2>2. CASE \/ c = "L1D" /\ ReadHitL1(Head(rq[c]))
             \/ c = "L2C" /\ ReadHitL2(Head(rq[c]))
    BY <2>1, <2>2, ReadHitKeepsInv
  <2>3. CASE c = "L1D" /\ LoadNewMiss(Head(rq[c]))
    BY <2>1, <2>3, LoadNewMissKeepsInv
  <2>4. CASE c = "L1D" /\ LoadMerges(Head(rq[c]))
    BY <2>1, <2>4, LoadMergesKeepsInv
  <2>5. CASE c = "L2C" /\ ReadMissL2(Head(rq[c]))
    BY <2>1, <2>5, ReadMissKeepsInv
  <2>. QED BY <1>3, <2>2, <2>3, <2>4, <2>5 DEF HandleRead
<1>4. CASE HandlePrefetch(c)
  BY <1>4, PrefetchEndsKeepsInv, PrefetchMissL1KeepsInv, PrefetchMissL2KeepsInv
     DEF HandlePrefetch
<1>. QED BY <1>1, <1>2, <1>3, <1>4 DEF Operate

LEMMA NextKeepsInv == IInv /\ [Next]_vars => IInv'
<1>1. ASSUME IInv, Next PROVE IInv'
  <2>1. CASE Served
    BY <1>1, <2>1, OperateKeepsInv, LlcAnswersKeepsInv DEF Served
  <2>2. CASE NewRequest
    BY <1>1, <2>2, CoreStepKeepsInv, PrefetchLineKeepsInv DEF NewRequest
  <2>. QED BY <1>1, <2>1, <2>2 DEF Next
<1>2. ASSUME IInv, UNCHANGED vars PROVE IInv'
  <2>1. UNCHANGED <<block, rq, wq, pq, mshr, waiting>>
    BY <1>2 DEF vars
  <2>2. Types'
    BY <1>2, <2>1, BlocksUnchanged DEF IInv, Types, MshrTypes, RqTypes, WqTypes, PqTypes, Missing
  <2>3. ASSUME NEW x \in Addr PROVE Link(x)' /\ Tracked(x)'
    BY <1>2, <2>1, BlocksUnchanged, LinkFrame DEF IInv, Read, Ahead, Back, Tracked
  <2>. QED BY <2>2, <2>3 DEF IInv
<1>. QED BY <1>1, <1>2

LEMMA InvAlways == Spec => []IInv
<1>. QED BY InitEstablishesInv, NextKeepsInv, PTL DEF Spec

\* Queues and MSHRs keep their sizes, and what they hold has its type.
THEOREM HierarchyTypes == Spec => []TypeOK
<1>1. IInv => TypeOK
  BY DEF IInv, Types, BlockTypes, MshrTypes, RqTypes, WqTypes, PqTypes, TypeOK, Line,
         MshrEntry, Ways
<1>. QED BY <1>1, InvAlways, PTL

\* The L1D waits for exactly what the L2C is going to answer: no miss is lost or answered
\* twice, whatever the sizes, as long as the L2C's read queue is no shorter than the L1D's
\* MSHR.
THEOREM AnswersAlwaysMatch == Spec => []AnswersMatch
<1>1. IInv => AnswersMatch
  BY DEF IInv, Link, Expects, Read, Ahead, Below, AnswersMatch, Asks
<1>. QED BY <1>1, InvAlways, PTL

\* No miss of the L1D is under way below while the write queue of the L2C holds its block.
THEOREM NeverOvertaking == Spec => []NoOvertaking
<1>1. IInv => NoOvertaking
  BY DEF IInv, Link, Expects, Back, NoOvertaking
<1>. QED BY <1>1, InvAlways, PTL

\* A load the core waits for is in the read queue or in a miss that will report it.
THEOREM LoadsAlwaysTracked == Spec => []LoadsTracked
<1>1. IInv => LoadsTracked
  BY DEF IInv, Types, Tracked, LoadsTracked
<1>. QED BY <1>1, InvAlways, PTL
=============================================================================
