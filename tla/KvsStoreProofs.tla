--------------------------- MODULE KvsStoreProofs ---------------------------
(***************************************************************************)
(* The FlexKVS store, for any number of workers, keys and segments: every  *)
(* reference count is exact, every byte of a segment is accounted for, and *)
(* the store is the map it promises to be, while items are overwritten,    *)
(* relocated and freed under the hands of those who read them.             *)
(***************************************************************************)
EXTENDS KvsStore, ListLemmas, FiniteSetTheorems

-----------------------------------------------------------------------------
(* Types.                                                                  *)

SegType == [offset : 0 .. SegSize, freed : Nat, inactive : BOOLEAN, cleaned : BOOLEAN]
ItemType ==
  [refcount : Nat, key : Keys \cup {NULL}, val : Vals \cup {NULL}, size : Nat \ {0}]
Items == UNION {[D -> ItemType] : D \in SUBSET Addrs}
AddrOrNull == Addrs \cup {NULL}

HeapType ==
  [segs : [Segs -> SegType], free_segments : Seq(Segs), seg_alloced : Nat, items : Items,
   direct : [1 .. BucketItems -> AddrOrNull], chain : Seq(Addrs)]
AllocatorType ==
  [reserved : Segs \cup {NULL}, log : Seq(Segs), cleanup_queue : Seq(Addrs),
   cleanup_count : Nat, cleaning : Segs \cup {NULL}, clean_offset : 0 .. SegSize]
WorkerType ==
  [pc : {"poll", "get", "respond", "alloc", "put", "unref", "clean", "copy", "replace", "drop"},
   op : {"none", "get", "set"}, key : Keys \cup {NULL}, val : Vals \cup {NULL},
   it : AddrOrNull, nit : AddrOrNull, idle : BOOLEAN]
MaintenanceType ==
  [pc : {"walk", "scan"}, w : Workers, i : Nat \ {0}, cand : Segs \cup {NULL}]

TypeOK ==
  /\ heap \in HeapType
  /\ ia \in [Workers -> AllocatorType]
  /\ wk \in [Workers -> WorkerType]
  /\ mt \in MaintenanceType
  /\ reqs \in 0 .. MaxReqs

-----------------------------------------------------------------------------
(* The inductive invariant.  Its part about the heap is a predicate of the *)
(* heap hp, of the segments L in the logs and V in reserve, and of the     *)
(* number r[a] of references that threads and queues have to item a, so    *)
(* that it can be followed through the heaps inside one step.              *)

Free(hp) == {hp.free_segments[i] : i \in 1 .. Len(hp.free_segments)}

\* Every segment has one place.
PlacesInv(hp, L, V) ==
  /\ L \subseteq 1 .. hp.seg_alloced /\ V \subseteq 1 .. hp.seg_alloced
  /\ Free(hp) \subseteq 1 .. hp.seg_alloced /\ hp.seg_alloced <= NSegs
  /\ 1 .. hp.seg_alloced \subseteq L \cup V \cup Free(hp)
  /\ L \cap V = {} /\ L \cap Free(hp) = {} /\ V \cap Free(hp) = {}
  /\ \A i, j \in 1 .. Len(hp.free_segments) :
       hp.free_segments[i] = hp.free_segments[j] => i = j

\* The items of a log segment are below its offset; elsewhere all are dead,
\* and a reserved segment and one never used have none.
ItemsInv(hp, L, V) ==
  /\ \A a \in DOMAIN hp.items :
       /\ a[1] \in 1 .. hp.seg_alloced /\ a[1] \notin V
       /\ a[2] + hp.items[a].size <= SegSize
       /\ a[1] \in L => a[2] + hp.items[a].size <= hp.segs[a[1]].offset
       /\ a[1] \notin L => hp.items[a].refcount = 0
       /\ hp.items[a].refcount > 0 =>
            hp.items[a].key \in Keys /\ hp.items[a].size = Size(hp.items[a].key)
  /\ \A s \in V : hp.segs[s].offset = 0 /\ hp.segs[s].freed = 0

\* The bytes of a set of items, and those alive in a segment.
Bytes(items, S) == MapThenSumSet(LAMBDA a : items[a].size, S)
Alive(hp, s) == {a \in DOMAIN hp.items : a[1] = s /\ hp.items[a].refcount > 0}
BytesInv(hp, L) ==
  \A s \in L : hp.segs[s].offset - hp.segs[s].freed = Bytes(hp.items, Alive(hp, s))

\* The table has one item of a key.
InTable(hp, a) ==
  \/ \E i \in 1 .. BucketItems : hp.direct[i] = a
  \/ \E i \in 1 .. Len(hp.chain) : hp.chain[i] = a
KeyAt(hp, a) == hp.items[a].key
TableInv(hp) ==
  /\ \A i \in 1 .. BucketItems : hp.direct[i] # NULL => hp.direct[i] \in DOMAIN hp.items
  /\ \A i \in 1 .. Len(hp.chain) : hp.chain[i] \in DOMAIN hp.items
  /\ \A i, j \in 1 .. BucketItems :
       hp.direct[i] # NULL /\ hp.direct[j] # NULL /\ KeyAt(hp, hp.direct[i]) = KeyAt(hp, hp.direct[j])
         => i = j
  /\ \A i, j \in 1 .. Len(hp.chain) :
       KeyAt(hp, hp.chain[i]) = KeyAt(hp, hp.chain[j]) => i = j
  /\ \A i \in 1 .. BucketItems, j \in 1 .. Len(hp.chain) :
       hp.direct[i] # NULL => KeyAt(hp, hp.direct[i]) # KeyAt(hp, hp.chain[j])

\* The count of an item is that of the table and of the threads.
CountInv(hp, r) ==
  /\ r \in [Addrs -> Nat]
  /\ \A a \in DOMAIN hp.items :
       hp.items[a].refcount = (IF InTable(hp, a) THEN 1 ELSE 0) + r[a]
  /\ \A a \in Addrs : r[a] # 0 => a \in DOMAIN hp.items

HeapInv(hp, L, V, r) ==
  /\ hp \in HeapType
  /\ PlacesInv(hp, L, V) /\ ItemsInv(hp, L, V) /\ BytesInv(hp, L)
  /\ TableInv(hp) /\ CountInv(hp, r)

\* What the allocators y and the threads x have.
Elems(s) == {s[i] : i \in 1 .. Len(s)}
Logs(y) == UNION {Elems(y[w].log) : w \in Workers}
Reserves(y) == {y[w].reserved : w \in Workers} \ {NULL}
Holders(x, a) == {w \in Workers : x[w].it = a}
Copiers(x, a) == {w \in Workers : x[w].nit = a}
Queued(y, a) ==
  {p \in Workers \X (1 .. CqSize) :
     p[2] <= Len(y[p[1]].cleanup_queue) /\ y[p[1]].cleanup_queue[p[2]] = a}
Held(x, y) ==
  [a \in Addrs |-> Cardinality(Holders(x, a)) + Cardinality(Copiers(x, a))
                   + Cardinality(Queued(y, a))]

\* No two logs, no two places of a log and no two reserves have a segment in
\* common; a log is never empty, and a queue no longer than it may be.
AllocatorsInv(y) ==
  /\ \A w \in Workers : Len(y[w].log) > 0 /\ Len(y[w].cleanup_queue) <= CqSize
  /\ \A v, w \in Workers :
       /\ y[v].reserved # NULL /\ y[v].reserved = y[w].reserved => v = w
       /\ \A i \in 1 .. Len(y[v].log), j \in 1 .. Len(y[w].log) :
            y[v].log[i] = y[w].log[j] => v = w /\ i = j

\* A worker t has an item while it works on it, and the copy of an item has its
\* key and its value.
WorkerInv(hp, t) ==
  /\ t.it # NULL => t.pc \in {"respond", "put", "unref", "copy", "replace", "drop"}
  /\ t.pc \in {"put", "unref", "copy", "replace", "drop"} => t.it # NULL
  /\ t.nit # NULL => t.pc \in {"replace", "drop"}
  /\ t.pc = "replace" =>
       /\ t.nit # NULL /\ hp.items[t.nit].key = hp.items[t.it].key
       /\ hp.items[t.nit].val = hp.items[t.it].val
  /\ t.pc = "put" => hp.items[t.it].key = t.key /\ hp.items[t.it].val = t.val
  /\ t.pc \in {"get", "respond"} => t.op = "get"
  /\ t.pc \in {"alloc", "put", "unref"} => t.op = "set"
  /\ t.op = "none" <=> t.pc \in {"poll", "clean", "copy", "replace", "drop"}
  /\ t.op # "none" => t.key \in Keys
  /\ t.op = "set" => t.val \in Vals
  /\ t.pc = "get" => t.val = NULL
WorkersInv == \A w \in Workers : WorkerInv(heap, wk[w])

\* The maintenance thread scans a segment it has chosen.
ScanInv == mt.pc = "scan" => ia[mt.w].cleaning # NULL

IndInv ==
  /\ TypeOK /\ HeapInv(heap, Logs(ia), Reserves(ia), Held(wk, ia))
  /\ AllocatorsInv(ia) /\ WorkersInv /\ ScanInv

-----------------------------------------------------------------------------
(* Sums of bytes.  MapThenSumSet takes the elements in the order of CHOOSE; *)
(* the sum is the same in every order.                                     *)

Pick(s) == CHOOSE x \in s : TRUE
Sums(items, S, g) ==
  g = [s \in SUBSET S |-> IF s = {} THEN 0 ELSE items[Pick(s)].size + g[s \ {Pick(s)}]]

\* The sum as a value of the function CHOOSE takes.
LEMMA BytesIs ==
  ASSUME NEW items, NEW S
  PROVE  Bytes(items, S) = (CHOOSE g : Sums(items, S, g))[S]
BY DEF Bytes, MapThenSumSet, MapThenFoldSet, Sums, Pick

\* The element taken is one of the set.
LEMMA PickIn == ASSUME NEW s, s # {} PROVE Pick(s) \in s
BY DEF Pick

\* Taking an element from a subset of a finite set makes it smaller.
LEMMA Smaller ==
  ASSUME NEW S, IsFiniteSet(S), NEW s \in SUBSET S, NEW x \in s
  PROVE  /\ Cardinality(s) \in Nat /\ Cardinality(s \ {x}) \in Nat
         /\ Cardinality(s) = Cardinality(s \ {x}) + 1
<1>1. IsFiniteSet(s)
  BY FS_Subset
<1>2. IsFiniteSet(s \ {x}) /\ Cardinality(s \ {x}) = Cardinality(s) - 1
  BY <1>1, FS_RemoveElement
<1>3. Cardinality(s) \in Nat /\ Cardinality(s \ {x}) \in Nat
  BY <1>1, <1>2, FS_CardinalityType
<1> QED
  BY <1>2, <1>3

\* Two solutions of the equation of the sums agree.
LEMMA SumsUnique ==
  ASSUME NEW items, NEW S, IsFiniteSet(S), NEW g, Sums(items, S, g), NEW h, Sums(items, S, h)
  PROVE  g = h
<1> DEFINE N == {n \in Nat : \A s \in SUBSET S : Cardinality(s) = n => g[s] = h[s]}
<1>1. ASSUME NEW s \in SUBSET S, s # {}, g[s \ {Pick(s)}] = h[s \ {Pick(s)}]
      PROVE  g[s] = h[s]
  BY <1>1 DEF Sums
<1>2. 0 \in N
  <2> SUFFICES ASSUME NEW s \in SUBSET S, Cardinality(s) = 0 PROVE g[s] = h[s]
    OBVIOUS
  <2>1. s = {}
    BY FS_Subset, FS_EmptySet
  <2> QED
    BY <2>1 DEF Sums
<1>3. ASSUME NEW n \in Nat, n \in N
      PROVE  n + 1 \in N
  <2> SUFFICES ASSUME NEW s \in SUBSET S, Cardinality(s) = n + 1 PROVE g[s] = h[s]
    OBVIOUS
  <2>1. s # {}
    BY FS_EmptySet
  <2>2. Cardinality(s \ {Pick(s)}) = n
    BY <2>1, PickIn, Smaller
  <2>3. s \ {Pick(s)} \in SUBSET S
    OBVIOUS
  <2> QED
    BY <1>1, <1>3, <2>1, <2>2, <2>3
<1> HIDE DEF N
<1>4. \A n \in Nat : n \in N
  BY <1>2, <1>3, SetInduction
<1>5. ASSUME NEW s \in SUBSET S
      PROVE  g[s] = h[s]
  <2>1. Cardinality(s) \in Nat
    BY FS_Subset, FS_CardinalityType
  <2> QED
    BY <1>4, <2>1 DEF N
<1> QED
  BY <1>5 DEF Sums

\* The equation has a solution: it is built up to every size.
LEMMA SumsExist ==
  ASSUME NEW items, NEW S, IsFiniteSet(S), \A a \in S : items[a].size \in Nat
  PROVE  \E g \in [SUBSET S -> Nat] : Sums(items, S, g)
<1> DEFINE Step(g, s) == IF s = {} THEN 0 ELSE items[Pick(s)].size + g[s \ {Pick(s)}]
           N == {n \in Nat : \E g \in [SUBSET S -> Nat] :
                   \A s \in SUBSET S : Cardinality(s) <= n => g[s] = Step(g, s)}
<1>1. 0 \in N
  <2> DEFINE g == [s \in SUBSET S |-> 0]
  <2>1. g \in [SUBSET S -> Nat]
    OBVIOUS
  <2>2. ASSUME NEW s \in SUBSET S, Cardinality(s) <= 0
        PROVE  g[s] = Step(g, s)
    <3>1. IsFiniteSet(s)
      BY FS_Subset
    <3>2. Cardinality(s) = 0
      BY <2>2, <3>1, FS_CardinalityType
    <3>3. s = {}
      BY <3>1, <3>2, FS_EmptySet
    <3> QED
      BY <3>3
  <2> QED
    BY <2>1, <2>2
<1>2. ASSUME NEW n \in Nat, n \in N
      PROVE  n + 1 \in N
  <2>1. PICK g \in [SUBSET S -> Nat] :
             \A s \in SUBSET S : Cardinality(s) <= n => g[s] = Step(g, s)
    BY <1>2
  <2> DEFINE h == [s \in SUBSET S |-> Step(g, s)]
  <2>2. h \in [SUBSET S -> Nat]
    <3>1. ASSUME NEW s \in SUBSET S, s # {}
          PROVE  items[Pick(s)].size \in Nat /\ g[s \ {Pick(s)}] \in Nat
      BY <3>1, PickIn
    <3> QED
      BY <3>1
  <2>3. ASSUME NEW s \in SUBSET S, Cardinality(s) <= n + 1
        PROVE  h[s] = Step(h, s)
    <3>1. CASE s = {}
      BY <3>1
    <3>2. CASE s # {}
      <4> DEFINE t == s \ {Pick(s)}
      <4>1. t \in SUBSET S /\ Cardinality(t) <= n
        BY <2>3, <3>2, PickIn, Smaller
      <4>2. g[t] = h[t]
        BY <2>1, <4>1
      <4> QED
        BY <3>2, <4>1, <4>2
    <3> QED
      BY <3>1, <3>2
  <2> HIDE DEF h, Step
  <2> QED
    BY <2>2, <2>3
<1> HIDE DEF N
<1>3. Cardinality(S) \in Nat /\ Cardinality(S) \in N
  BY <1>1, <1>2, SetInduction, FS_CardinalityType
<1>4. PICK g \in [SUBSET S -> Nat] :
           \A s \in SUBSET S : Cardinality(s) <= Cardinality(S) => g[s] = Step(g, s)
  BY <1>3 DEF N
<1>5. \A s \in SUBSET S : g[s] = Step(g, s)
  BY <1>3, <1>4, FS_Subset
<1>6. Sums(items, S, g)
  BY <1>5 DEF Sums
<1> QED
  BY <1>6

\* One solution for a set gives the bytes of all its subsets.
LEMMA BytesFrom ==
  ASSUME NEW items, NEW S, IsFiniteSet(S), NEW g, Sums(items, S, g), NEW T \in SUBSET S
  PROVE  Bytes(items, T) = g[T]
<1> DEFINE h == [s \in SUBSET T |-> g[s]]
<1>1. Sums(items, T, h)
  <2>1. ASSUME NEW s \in SUBSET T
        PROVE  h[s] = IF s = {} THEN 0 ELSE items[Pick(s)].size + h[s \ {Pick(s)}]
    BY <2>1 DEF Sums
  <2> HIDE DEF h
  <2>2. h = [s \in SUBSET T |-> h[s]]
    BY DEF h
  <2> QED
    BY <2>1, <2>2 DEF Sums
<1>2. IsFiniteSet(T)
  BY FS_Subset
<1> DEFINE c == CHOOSE f : Sums(items, T, f)
<1>3. Sums(items, T, c)
  BY <1>1
<1> HIDE DEF h
<1>4. c = h
  BY <1>1, <1>2, <1>3, SumsUnique
<1>5. Bytes(items, T) = c[T]
  BY BytesIs
<1> QED
  BY <1>4, <1>5 DEF h

\* No items have no bytes.
LEMMA BytesEmpty == ASSUME NEW items PROVE Bytes(items, {}) = 0
<1>1. PICK g \in [SUBSET {} -> Nat] : Sums(items, {}, g)
  BY SumsExist, FS_EmptySet
<1>2. Bytes(items, {}) = g[{}]
  BY <1>1, BytesFrom, FS_EmptySet
<1> QED
  BY <1>1, <1>2 DEF Sums

\* Any element may be taken first.
LEMMA BytesRemove ==
  ASSUME NEW items, NEW S, IsFiniteSet(S), \A a \in S : items[a].size \in Nat, NEW x \in S
  PROVE  /\ Bytes(items, S) \in Nat /\ Bytes(items, S \ {x}) \in Nat
         /\ Bytes(items, S) = items[x].size + Bytes(items, S \ {x})
<1>1. PICK g \in [SUBSET S -> Nat] : Sums(items, S, g)
  BY SumsExist
<1> DEFINE N == {n \in Nat : \A s \in SUBSET S : Cardinality(s) = n =>
                               \A y \in s : g[s] = items[y].size + g[s \ {y}]}
<1>2. 0 \in N
  BY FS_Subset, FS_EmptySet
<1>3. ASSUME NEW n \in Nat, n \in N
      PROVE  n + 1 \in N
  <2> SUFFICES ASSUME NEW s \in SUBSET S, Cardinality(s) = n + 1, NEW y \in s
               PROVE  g[s] = items[y].size + g[s \ {y}]
    OBVIOUS
  <2> DEFINE p == Pick(s)
  <2>1. p \in s
    BY PickIn
  <2>2. g[s] = items[p].size + g[s \ {p}]
    BY <1>1, <2>1 DEF Sums
  <2>3. CASE y = p
    BY <2>2, <2>3
  <2>4. CASE y # p
    <3>1. Cardinality(s \ {p}) = n /\ Cardinality(s \ {y}) = n
      BY <2>1, Smaller
    <3>2. s \ {p} \in SUBSET S /\ s \ {y} \in SUBSET S /\ y \in s \ {p} /\ p \in s \ {y}
      BY <2>1, <2>4
    <3>3. g[s \ {p}] = items[y].size + g[(s \ {p}) \ {y}]
      BY <1>3, <3>1, <3>2
    <3>4. g[s \ {y}] = items[p].size + g[(s \ {y}) \ {p}]
      BY <1>3, <3>1, <3>2
    <3>5. (s \ {p}) \ {y} = (s \ {y}) \ {p} /\ (s \ {p}) \ {y} \in SUBSET S
      OBVIOUS
    <3>6. /\ items[y].size \in Nat /\ items[p].size \in Nat /\ g[(s \ {p}) \ {y}] \in Nat
      BY <2>1, <3>5
    <3>7. g[(s \ {p}) \ {y}] = g[(s \ {y}) \ {p}]
      BY <3>5
    <3> HIDE DEF p
    <3> QED
      BY <2>2, <3>3, <3>4, <3>6, <3>7
  <2> QED
    BY <2>3, <2>4
<1> HIDE DEF N
<1>4. \A n \in Nat : n \in N
  BY <1>2, <1>3, SetInduction
<1>5. g[S] = items[x].size + g[S \ {x}]
  <2>1. Cardinality(S) \in Nat
    BY FS_CardinalityType
  <2> QED
    BY <1>4, <2>1 DEF N
<1>6. Bytes(items, S) = g[S] /\ Bytes(items, S \ {x}) = g[S \ {x}]
  BY <1>1, BytesFrom
<1> QED
  BY <1>1, <1>5, <1>6

\* An item more makes the sum larger by its size.
LEMMA BytesAdd ==
  ASSUME NEW items, NEW S, IsFiniteSet(S), \A a \in S : items[a].size \in Nat,
         NEW x, x \notin S, items[x].size \in Nat
  PROVE  Bytes(items, S \cup {x}) = Bytes(items, S) + items[x].size
<1> DEFINE T == S \cup {x}
<1>1. IsFiniteSet(T) /\ x \in T /\ T \ {x} = S
  BY FS_AddElement
<1>2. \A a \in T : items[a].size \in Nat
  OBVIOUS
<1> HIDE DEF T
<1>3. /\ Bytes(items, T) \in Nat /\ Bytes(items, S) \in Nat
      /\ Bytes(items, T) = items[x].size + Bytes(items, S)
  BY <1>1, <1>2, BytesRemove
<1> QED
  BY <1>3 DEF T

\* A sum of bytes is a number.
LEMMA BytesNat ==
  ASSUME NEW items, NEW S, IsFiniteSet(S), \A a \in S : items[a].size \in Nat
  PROVE  Bytes(items, S) \in Nat
<1>1. PICK g \in [SUBSET S -> Nat] : Sums(items, S, g)
  BY SumsExist
<1>2. Bytes(items, S) = g[S]
  BY <1>1, BytesFrom
<1> QED
  BY <1>2

\* Only the sizes matter.
LEMMA BytesSame ==
  ASSUME NEW items, NEW S, IsFiniteSet(S), \A a \in S : items[a].size \in Nat,
         NEW other, \A a \in S : other[a].size = items[a].size
  PROVE  Bytes(other, S) = Bytes(items, S)
<1>1. PICK g \in [SUBSET S -> Nat] : Sums(items, S, g)
  BY SumsExist
<1>2. Sums(other, S, g)
  <2>1. \A s \in SUBSET S : s # {} => other[Pick(s)].size = items[Pick(s)].size
    BY PickIn
  <2>2. \A s \in SUBSET S :
          g[s] = IF s = {} THEN 0 ELSE items[Pick(s)].size + g[s \ {Pick(s)}]
    BY <1>1 DEF Sums
  <2>3. \A s \in SUBSET S :
          g[s] = IF s = {} THEN 0 ELSE other[Pick(s)].size + g[s \ {Pick(s)}]
    BY <2>1, <2>2
  <2>4. g = [s \in SUBSET S |-> g[s]]
    OBVIOUS
  <2> QED
    BY <2>3, <2>4 DEF Sums
<1> QED
  BY <1>1, <1>2, BytesFrom

-----------------------------------------------------------------------------
(* Types of heaps and their items.                                         *)

\* What the assumption on the constants says of each of them.
LEMMA Constants ==
  /\ NWorkers \in Nat \ {0} /\ NSegs \in Nat /\ BucketItems \in Nat \ {0}
  /\ {HeaderSize, SmallSize, BigSize, SegSize, CqSize} \subseteq Nat \ {0}
  /\ \A k : Size(k) \in Nat \ {0} /\ Size(k) >= HeaderSize /\ Size(k) < SegSize
  /\ NULL \notin Keys /\ NULL \notin Segs /\ NULL \notin Addrs
BY KvsAssumption DEF Size

\* Addresses, segments and workers are finitely many.
LEMMA AddrsFinite == IsFiniteSet(Addrs) /\ IsFiniteSet(Segs) /\ IsFiniteSet(Workers)
<1>1. IsFiniteSet(1 .. NSegs) /\ IsFiniteSet(0 .. SegSize) /\ IsFiniteSet(1 .. NWorkers)
  <2>1. NSegs \in Int /\ SegSize \in Int /\ NWorkers \in Int /\ 0 \in Int /\ 1 \in Int
    BY Constants
  <2> QED
    BY <2>1, FS_Interval
<1> QED
  BY <1>1, FS_Product DEF Addrs, Segs, Workers

\* The types of the parts of a heap.
LEMMA HeapFields ==
  ASSUME NEW hp \in HeapType
  PROVE  /\ hp.segs \in [Segs -> SegType] /\ hp.free_segments \in Seq(Segs)
         /\ hp.seg_alloced \in Nat /\ hp.items \in Items
         /\ hp.direct \in [1 .. BucketItems -> AddrOrNull] /\ hp.chain \in Seq(Addrs)
         /\ DOMAIN hp.items \subseteq Addrs /\ hp.items \in [DOMAIN hp.items -> ItemType]
         /\ \A a \in DOMAIN hp.items :
              /\ hp.items[a] \in ItemType /\ a \in Addrs
              /\ a[1] \in Segs /\ a[2] \in 0 .. SegSize /\ a = <<a[1], a[2]>>
              /\ hp.items[a].refcount \in Nat /\ hp.items[a].size \in Nat \ {0}
<1>1. hp.items \in Items
  BY DEF HeapType
<1>2. PICK D \in SUBSET Addrs : hp.items \in [D -> ItemType]
  BY <1>1 DEF Items
<1>3. DOMAIN hp.items = D
  BY <1>2
<1>4. \A a \in D : hp.items[a] \in ItemType
  BY <1>2
<1> QED
  BY <1>1, <1>2, <1>3, <1>4 DEF HeapType, ItemType, Addrs

\* Items at addresses are a value of Items.
LEMMA ItemsBuild ==
  ASSUME NEW D \in SUBSET Addrs, NEW f \in [D -> ItemType]
  PROVE  f \in Items
BY DEF Items

\* The items alive in a segment are finitely many, and have sizes.
LEMMA AliveFinite ==
  ASSUME NEW hp \in HeapType, NEW s
  PROVE  /\ IsFiniteSet(Alive(hp, s)) /\ Alive(hp, s) \subseteq Addrs
         /\ \A a \in Alive(hp, s) : hp.items[a].size \in Nat
<1>1. Alive(hp, s) \subseteq Addrs
  BY HeapFields DEF Alive
<1>2. IsFiniteSet(Alive(hp, s))
  BY <1>1, AddrsFinite, FS_Subset
<1> QED
  BY <1>1, <1>2, HeapFields DEF Alive

\* What one item and one heap have in common with others.
SamePlaces(hp, h) == h.free_segments = hp.free_segments /\ h.seg_alloced = hp.seg_alloced
SameTable(hp, h) == h.direct = hp.direct /\ h.chain = hp.chain
SameItem(hp, h, a) ==
  /\ a \in DOMAIN h.items /\ h.items[a].key = hp.items[a].key
  /\ h.items[a].val = hp.items[a].val /\ h.items[a].size = hp.items[a].size

\* Who has a reference sees the same item in both heaps.
KeepsItems(hp, h) ==
  \A a \in DOMAIN hp.items : hp.items[a].refcount > 0 => SameItem(hp, h, a)

-----------------------------------------------------------------------------
(* Reference counts.                                                       *)

\* The count of an item that is alive becomes n; if that is 0 its bytes are
\* freed.
Recounts(hp, h, a, n) ==
  /\ h \in HeapType /\ SamePlaces(hp, h) /\ SameTable(hp, h)
  /\ DOMAIN h.items = DOMAIN hp.items
  /\ \A b \in DOMAIN hp.items : SameItem(hp, h, b)
  /\ \A b \in DOMAIN hp.items : b # a => h.items[b].refcount = hp.items[b].refcount
  /\ h.items[a].refcount = n
  /\ \A s \in Segs : h.segs[s].offset = hp.segs[s].offset
  /\ \A s \in Segs : s # a[1] \/ n # 0 => h.segs[s].freed = hp.segs[s].freed
  /\ n = 0 => h.segs[a[1]].freed = hp.segs[a[1]].freed + hp.items[a].size

\* item_ref makes a count larger by one.
LEMMA RefRecounts ==
  ASSUME NEW hp \in HeapType, NEW a \in DOMAIN hp.items
  PROVE  Recounts(hp, item_ref(hp, a), a, hp.items[a].refcount + 1)
<1> DEFINE h == item_ref(hp, a)
           x == [hp.items[a] EXCEPT !.refcount = @ + 1]
           its == [hp.items EXCEPT ![a] = x]
<1>1. h = [hp EXCEPT !.items = its]
  BY DEF item_ref
<1>2. x \in ItemType /\ x.refcount = hp.items[a].refcount + 1 /\ x.key = hp.items[a].key
      /\ x.val = hp.items[a].val /\ x.size = hp.items[a].size
  <2>1. hp.items[a] \in ItemType
    BY HeapFields
  <2> QED
    BY <2>1 DEF ItemType
<1> HIDE DEF x
<1>3. its \in [DOMAIN hp.items -> ItemType] /\ its \in Items /\ DOMAIN its = DOMAIN hp.items
  <2>1. its \in [DOMAIN hp.items -> ItemType]
    BY <1>2, HeapFields
  <2> QED
    BY <2>1, HeapFields, ItemsBuild
<1>4. /\ its[a] = x
      /\ \A b \in DOMAIN hp.items : b # a => its[b] = hp.items[b]
  BY HeapFields
<1> HIDE DEF its
<1>5. h \in HeapType /\ h.items = its /\ SamePlaces(hp, h) /\ SameTable(hp, h) /\ h.segs = hp.segs
  BY <1>1, <1>3 DEF HeapType, SamePlaces, SameTable
<1> HIDE DEF h
<1>6. hp.items[a].refcount + 1 # 0
  BY HeapFields
<1> QED
  BY <1>2, <1>3, <1>4, <1>5, <1>6 DEF Recounts, SameItem, h

\* item_unref makes a count smaller by one, and frees the bytes of the last.
LEMMA UnrefRecounts ==
  ASSUME NEW hp \in HeapType, NEW a \in DOMAIN hp.items, hp.items[a].refcount > 0
  PROVE  Recounts(hp, item_unref(hp, a), a, hp.items[a].refcount - 1)
<1> DEFINE h == item_unref(hp, a)
           n == hp.items[a].refcount - 1
           x == [hp.items[a] EXCEPT !.refcount = n]
           its == [hp.items EXCEPT ![a] = x]
           g == [hp.segs[a[1]] EXCEPT !.freed = @ + hp.items[a].size]
           sgs == IF n = 0 THEN [hp.segs EXCEPT ![a[1]] = g] ELSE hp.segs
<1>0. n \in Nat /\ hp.items[a].refcount \in Nat /\ hp.items[a].size \in Nat /\ a[1] \in Segs
  BY HeapFields
<1>1. h = [hp EXCEPT !.items = its, !.segs = sgs]
  <2>1. CASE n = 0
    <3>1. hp.items[a].refcount = 1
      BY <1>0, <2>1
    <3> QED
      BY <2>1, <3>1 DEF item_unref, HeapType
  <2>2. CASE n # 0
    <3>1. hp.items[a].refcount # 1
      BY <1>0, <2>2
    <3> QED
      BY <2>2, <3>1 DEF item_unref, HeapType
  <2> QED
    BY <2>1, <2>2
<1>2. x \in ItemType /\ x.refcount = n /\ x.key = hp.items[a].key
      /\ x.val = hp.items[a].val /\ x.size = hp.items[a].size
  <2> HIDE DEF n
  <2>1. hp.items[a] \in ItemType
    BY HeapFields
  <2> QED
    BY <1>0, <2>1 DEF ItemType
<1>3. its \in [DOMAIN hp.items -> ItemType] /\ its \in Items /\ DOMAIN its = DOMAIN hp.items
  <2> HIDE DEF x
  <2>1. its \in [DOMAIN hp.items -> ItemType]
    BY <1>2, HeapFields
  <2> QED
    BY <2>1, HeapFields, ItemsBuild
<1>4. /\ its[a] = x
      /\ \A b \in DOMAIN hp.items : b # a => its[b] = hp.items[b]
  BY HeapFields
<1>5. /\ g \in SegType /\ g.offset = hp.segs[a[1]].offset
      /\ g.freed = hp.segs[a[1]].freed + hp.items[a].size
  <2>1. hp.segs[a[1]] \in SegType
    BY <1>0, HeapFields
  <2> QED
    BY <1>0, <2>1 DEF SegType
<1> HIDE DEF x, n, its, g
<1>6. /\ sgs \in [Segs -> SegType] /\ \A s \in Segs : sgs[s].offset = hp.segs[s].offset
      /\ \A s \in Segs : s # a[1] \/ n # 0 => sgs[s].freed = hp.segs[s].freed
      /\ n = 0 => sgs[a[1]].freed = hp.segs[a[1]].freed + hp.items[a].size
  BY <1>0, <1>5, HeapFields
<1> HIDE DEF sgs
<1>7. h \in HeapType /\ h.items = its /\ SamePlaces(hp, h) /\ SameTable(hp, h) /\ h.segs = sgs
  BY <1>1, <1>3, <1>6 DEF HeapType, SamePlaces, SameTable
<1> HIDE DEF h
<1>8. Recounts(hp, h, a, n)
  BY <1>2, <1>3, <1>4, <1>6, <1>7 DEF Recounts, SameItem
<1> QED
  BY <1>8 DEF h, n

-----------------------------------------------------------------------------
(* What the lemmas about the operations on the heap take from the          *)
(* invariant.                                                              *)

\* Whoever has a reference, or is in the table, is an item alive in a log.
LEMMA HeapFacts ==
  ASSUME NEW hp, NEW L, NEW V, NEW r, HeapInv(hp, L, V, r)
  PROVE  /\ hp \in HeapType /\ r \in [Addrs -> Nat]
         /\ L \subseteq Segs /\ V \subseteq Segs
         /\ \A a \in Addrs : r[a] # 0 => a \in DOMAIN hp.items /\ hp.items[a].refcount > 0
         /\ \A a : InTable(hp, a) /\ a # NULL => a \in DOMAIN hp.items /\ hp.items[a].refcount > 0
         /\ \A a \in DOMAIN hp.items : hp.items[a].refcount > 0 => a[1] \in L
<1>1. hp \in HeapType /\ r \in [Addrs -> Nat]
  BY DEF HeapInv, CountInv
<1>2. L \subseteq Segs /\ V \subseteq Segs
  BY <1>1, HeapFields, Constants DEF HeapInv, PlacesInv, Segs
<1>3. ASSUME NEW a \in DOMAIN hp.items
      PROVE  /\ hp.items[a].refcount > 0 => a[1] \in L
             /\ r[a] # 0 => hp.items[a].refcount > 0
             /\ InTable(hp, a) => hp.items[a].refcount > 0
  <2>1. a \in Addrs /\ r[a] \in Nat /\ hp.items[a].refcount \in Nat
    BY <1>1, HeapFields
  <2>2. hp.items[a].refcount = (IF InTable(hp, a) THEN 1 ELSE 0) + r[a]
    BY DEF HeapInv, CountInv
  <2>3. a[1] \notin L => hp.items[a].refcount = 0
    BY DEF HeapInv, ItemsInv
  <2> QED
    BY <2>1, <2>2, <2>3
<1>4. \A a \in Addrs : r[a] # 0 => a \in DOMAIN hp.items
  BY DEF HeapInv, CountInv
<1>5. \A a : InTable(hp, a) /\ a # NULL => a \in DOMAIN hp.items
  BY DEF HeapInv, TableInv, InTable
<1> QED
  BY <1>1, <1>2, <1>3, <1>4, <1>5

\* A count that changes together with the references keeps the invariant.
LEMMA RecountsKeeps ==
  ASSUME NEW hp, NEW L, NEW V, NEW r, HeapInv(hp, L, V, r),
         NEW a \in DOMAIN hp.items, hp.items[a].refcount > 0, NEW h, NEW n \in Nat,
         Recounts(hp, h, a, n),
         NEW m \in Nat, n = (IF InTable(hp, a) THEN 1 ELSE 0) + m
  PROVE  HeapInv(h, L, V, [r EXCEPT ![a] = m]) /\ KeepsItems(hp, h)
<1> DEFINE q == [r EXCEPT ![a] = m]
<1>1. /\ hp \in HeapType /\ h \in HeapType /\ DOMAIN h.items = DOMAIN hp.items
      /\ r \in [Addrs -> Nat] /\ L \subseteq Segs /\ V \subseteq Segs
  BY HeapFacts DEF Recounts
<1>2. \A b \in DOMAIN hp.items : SameItem(hp, h, b)
  BY DEF Recounts
<1>3. PlacesInv(h, L, V)
  BY DEF HeapInv, Recounts, SamePlaces, PlacesInv, Free
<1>4. a \in Addrs /\ a[1] \in L /\ a[1] \in Segs /\ a[1] \notin V /\ hp.items[a].size \in Nat
  BY <1>1, HeapFields, HeapFacts DEF HeapInv, PlacesInv
<1>5. ItemsInv(h, L, V)
  <2>1. ASSUME NEW b \in DOMAIN h.items
        PROVE  /\ b[1] \in 1 .. h.seg_alloced /\ b[1] \notin V
               /\ b[2] + h.items[b].size <= SegSize
               /\ b[1] \in L => b[2] + h.items[b].size <= h.segs[b[1]].offset
               /\ b[1] \notin L => h.items[b].refcount = 0
               /\ h.items[b].refcount > 0 =>
                    h.items[b].key \in Keys /\ h.items[b].size = Size(h.items[b].key)
    <3>1. /\ b \in DOMAIN hp.items /\ SameItem(hp, h, b) /\ b[1] \in Segs
          /\ h.segs[b[1]].offset = hp.segs[b[1]].offset /\ h.seg_alloced = hp.seg_alloced
      BY <1>1, <1>2, HeapFields DEF Recounts, SamePlaces
    <3>2. CASE b = a
      BY <1>4, <3>1, <3>2 DEF HeapInv, ItemsInv, SameItem
    <3>3. CASE b # a
      <4>1. h.items[b].refcount = hp.items[b].refcount
        BY <3>1, <3>3 DEF Recounts
      <4> QED
        BY <3>1, <4>1 DEF HeapInv, ItemsInv, SameItem
    <3> QED
      BY <3>2, <3>3
  <2>2. ASSUME NEW s \in V
        PROVE  h.segs[s].offset = 0 /\ h.segs[s].freed = 0
    BY <1>1, <1>4 DEF HeapInv, ItemsInv, Recounts
  <2> QED
    BY <2>1, <2>2 DEF ItemsInv
<1>6. BytesInv(h, L)
  <2> SUFFICES ASSUME NEW s \in L
               PROVE  h.segs[s].offset - h.segs[s].freed = Bytes(h.items, Alive(h, s))
    BY DEF BytesInv
  <2> DEFINE old == Alive(hp, s)
             new == Alive(h, s)
  <2>1. /\ IsFiniteSet(old) /\ IsFiniteSet(new) /\ \A b \in old : hp.items[b].size \in Nat
    BY <1>1, AliveFinite
  <2>2. /\ s \in Segs /\ h.segs[s].offset = hp.segs[s].offset
        /\ hp.segs[s].offset - hp.segs[s].freed = Bytes(hp.items, old)
    BY <1>1 DEF HeapInv, BytesInv, Recounts
  <2>3. ASSUME NEW b \in DOMAIN hp.items, b # a
        PROVE  b \in new <=> b \in old
    BY <1>1, <2>3 DEF Alive, Recounts
  <2>4. new \subseteq DOMAIN hp.items /\ old \subseteq DOMAIN hp.items
    BY <1>1 DEF Alive
  <2>5. \A b \in old : h.items[b].size = hp.items[b].size
    BY <1>2, <2>4 DEF SameItem
  <2>6. CASE s # a[1] \/ n # 0
    <3>1. a \in new <=> a \in old
      BY <1>1, <2>6 DEF Alive, Recounts
    <3>2. new = old
      BY <2>3, <2>4, <3>1
    <3>3. h.segs[s].freed = hp.segs[s].freed
      BY <2>2, <2>6 DEF Recounts
    <3>4. Bytes(h.items, old) = Bytes(hp.items, old)
      BY <2>1, <2>5, BytesSame
    <3> QED
      BY <2>2, <3>2, <3>3, <3>4
  <2>7. CASE s = a[1] /\ n = 0
    <3>1. a \in old /\ a \notin new
      BY <1>1, <2>7 DEF Alive, Recounts
    <3>2. new = old \ {a}
      BY <2>3, <2>4, <3>1
    <3>3. h.segs[s].freed = hp.segs[s].freed + hp.items[a].size
      BY <2>7 DEF Recounts
    <3>4. /\ Bytes(hp.items, old) \in Nat /\ Bytes(hp.items, new) \in Nat
          /\ Bytes(hp.items, old) = hp.items[a].size + Bytes(hp.items, new)
      BY <2>1, <3>1, <3>2, BytesRemove
    <3>5. Bytes(h.items, new) = Bytes(hp.items, new)
      BY <2>1, <2>5, <3>2, BytesSame
    <3>6. hp.segs[s].freed \in Nat /\ hp.segs[s].offset \in Nat
      <4>1. hp.segs[s] \in SegType
        BY <1>1, <2>2, HeapFields
      <4> QED
        BY <4>1, Constants DEF SegType
    <3> HIDE DEF old, new
    <3>7. h.segs[s].offset - h.segs[s].freed = Bytes(h.items, new)
      BY <1>4, <2>2, <3>3, <3>4, <3>5, <3>6
    <3> QED
      BY <3>7 DEF new
  <2> QED
    BY <2>6, <2>7
<1>7. TableInv(h)
  <2>1. h.direct = hp.direct /\ h.chain = hp.chain
    BY DEF Recounts, SameTable
  <2>2. \A b \in DOMAIN hp.items : KeyAt(h, b) = KeyAt(hp, b)
    BY <1>2 DEF SameItem, KeyAt
  <2> QED
    BY <1>1, <2>1, <2>2 DEF HeapInv, TableInv
<1>8. CountInv(h, q)
  <2>1. \A b : InTable(h, b) <=> InTable(hp, b)
    BY DEF Recounts, SameTable, InTable
  <2>2. q \in [Addrs -> Nat]
    BY <1>1
  <2>3. ASSUME NEW b \in DOMAIN h.items
        PROVE  h.items[b].refcount = (IF InTable(h, b) THEN 1 ELSE 0) + q[b]
    <3>1. CASE b = a
      BY <1>1, <1>4, <2>1, <3>1 DEF Recounts
    <3>2. CASE b # a
      <4>1. h.items[b].refcount = hp.items[b].refcount
        BY <1>1, <3>2 DEF Recounts
      <4>2. q[b] = r[b]
        BY <1>1, <3>2, HeapFields
      <4> QED
        BY <1>1, <2>1, <4>1, <4>2 DEF HeapInv, CountInv
    <3> QED
      BY <3>1, <3>2
  <2>4. ASSUME NEW b \in Addrs, q[b] # 0
        PROVE  b \in DOMAIN h.items
    BY <1>1, <2>4 DEF HeapInv, CountInv
  <2> QED
    BY <2>2, <2>3, <2>4 DEF CountInv
<1>9. KeepsItems(hp, h)
  BY <1>2 DEF KeepsItems
<1> QED
  BY <1>1, <1>3, <1>5, <1>6, <1>7, <1>8, <1>9 DEF HeapInv

\* Taking and dropping a reference.
LEMMA RefKeeps ==
  ASSUME NEW hp, NEW L, NEW V, NEW r, HeapInv(hp, L, V, r),
         NEW a \in DOMAIN hp.items, hp.items[a].refcount > 0
  PROVE  /\ HeapInv(item_ref(hp, a), L, V, [r EXCEPT ![a] = @ + 1])
         /\ KeepsItems(hp, item_ref(hp, a)) /\ SameTable(hp, item_ref(hp, a))
         /\ \A b \in DOMAIN hp.items : SameItem(hp, item_ref(hp, a), b)
<1> DEFINE h == item_ref(hp, a)
           n == hp.items[a].refcount
<1>1. hp \in HeapType /\ a \in Addrs /\ r[a] \in Nat /\ n \in Nat
  BY HeapFacts, HeapFields
<1>2. Recounts(hp, h, a, n + 1)
  BY <1>1, RefRecounts
<1>3. n = (IF InTable(hp, a) THEN 1 ELSE 0) + r[a]
  BY DEF HeapInv, CountInv
<1>4. n + 1 = (IF InTable(hp, a) THEN 1 ELSE 0) + (r[a] + 1)
  BY <1>1, <1>3
<1> HIDE DEF h, n
<1>5. HeapInv(h, L, V, [r EXCEPT ![a] = r[a] + 1]) /\ KeepsItems(hp, h)
  BY <1>1, <1>2, <1>4, RecountsKeeps
<1> QED
  BY <1>2, <1>5 DEF Recounts, h

\* item_unref keeps it when somebody gives his reference up.
LEMMA UnrefKeeps ==
  ASSUME NEW hp, NEW L, NEW V, NEW r, HeapInv(hp, L, V, r), NEW a \in Addrs, r[a] # 0
  PROVE  /\ HeapInv(item_unref(hp, a), L, V, [r EXCEPT ![a] = @ - 1])
         /\ KeepsItems(hp, item_unref(hp, a)) /\ SameTable(hp, item_unref(hp, a))
         /\ \A b \in DOMAIN hp.items : SameItem(hp, item_unref(hp, a), b)
<1> DEFINE h == item_unref(hp, a)
           n == hp.items[a].refcount
<1>1. hp \in HeapType /\ r[a] \in Nat /\ a \in DOMAIN hp.items /\ n > 0 /\ n \in Nat
  BY HeapFacts, HeapFields
<1>2. Recounts(hp, h, a, n - 1)
  BY <1>1, UnrefRecounts
<1>3. n = (IF InTable(hp, a) THEN 1 ELSE 0) + r[a]
  BY <1>1 DEF HeapInv, CountInv
<1>4. /\ n - 1 = (IF InTable(hp, a) THEN 1 ELSE 0) + (r[a] - 1)
      /\ n - 1 \in Nat /\ r[a] - 1 \in Nat
  BY <1>1, <1>3
<1>5. n > 0
  BY <1>1
<1> HIDE DEF h
<1>6. HeapInv(h, L, V, [r EXCEPT ![a] = r[a] - 1]) /\ KeepsItems(hp, h)
  BY <1>1, <1>2, <1>4, <1>5, RecountsKeeps
<1> QED
  BY <1>2, <1>6 DEF Recounts, h

-----------------------------------------------------------------------------
(* The table.                                                              *)

\* A set of numbers that is not empty has a least one ...
LEMMA LeastIn ==
  ASSUME NEW S \in SUBSET Nat, S # {}
  PROVE  Least(S) \in S /\ \A j \in S : Least(S) <= j
<1> DEFINE N == {n \in Nat : \A i \in S : i >= n}
<1>1. \E i \in S : \A j \in S : i <= j
  <2> SUFFICES ASSUME \A i \in S : \E j \in S : ~(i <= j) PROVE FALSE
    OBVIOUS
  <2>1. 0 \in N
    OBVIOUS
  <2>2. ASSUME NEW n \in Nat, n \in N
        PROVE  n + 1 \in N
    <3> SUFFICES ASSUME NEW i \in S, ~(i >= n + 1) PROVE FALSE
      OBVIOUS
    <3>1. i = n
      BY <2>2
    <3> QED
      BY <2>2, <3>1
  <2> HIDE DEF N
  <2>3. \A n \in Nat : n \in N
    BY <2>1, <2>2, SetInduction
  <2>4. PICK i \in S : TRUE
    OBVIOUS
  <2>5. i + 1 \in N /\ i \in Nat
    BY <2>3
  <2> QED
    BY <2>5 DEF N
<1> QED
  BY <1>1 DEF Least

\* ... and, if it is bounded, a greatest one.
LEMMA GreatestIn ==
  ASSUME NEW n \in Nat, NEW S \in SUBSET (1 .. n), S # {}
  PROVE  \E i \in S : \A j \in S : j <= i
<1> DEFINE T == {n - i : i \in S}
<1>1. T \in SUBSET Nat /\ T # {}
  <2>1. \A i \in S : n - i \in Nat
    OBVIOUS
  <2> QED
    BY <2>1
<1>2. Least(T) \in T /\ \A j \in T : Least(T) <= j
  BY <1>1, LeastIn
<1>3. PICK i \in S : Least(T) = n - i
  BY <1>2
<1>4. ASSUME NEW j \in S
      PROVE  j <= i
  <2>1. n - i <= n - j
    BY <1>2, <1>3
  <2> QED
    BY <2>1
<1> QED
  BY <1>4

\* A key has one item.
LEMMA TableUnique ==
  ASSUME NEW hp \in HeapType, TableInv(hp), NEW a, NEW b, InTable(hp, a), InTable(hp, b),
         a # NULL, b # NULL, KeyAt(hp, a) = KeyAt(hp, b)
  PROVE  a = b
BY DEF InTable, TableInv

\* The slots of a key are places of the table.
LEMMA SlotsFinite ==
  ASSUME NEW hp \in HeapType, NEW k
  PROVE  /\ DirectSlots(hp, k) \subseteq 1 .. BucketItems /\ DirectSlots(hp, k) \subseteq Nat
         /\ ChainSlots(hp, k) \subseteq 1 .. Len(hp.chain) /\ ChainSlots(hp, k) \subseteq Nat
BY HeapFields DEF DirectSlots, ChainSlots

\* A lookup finds the item of the key, wherever it is.
LEMMA LookupFinds ==
  ASSUME NEW hp \in HeapType, TableInv(hp), NEW k
  PROVE  /\ Lookup(hp, k) # NULL =>
              /\ InTable(hp, Lookup(hp, k)) /\ KeyAt(hp, Lookup(hp, k)) = k
              /\ Lookup(hp, k) \in DOMAIN hp.items
         /\ \A a : InTable(hp, a) /\ a # NULL /\ KeyAt(hp, a) = k => Lookup(hp, k) = a
<1>1. CASE DirectSlots(hp, k) # {}
  <2> DEFINE i == Least(DirectSlots(hp, k))
  <2>1. i \in DirectSlots(hp, k)
    BY <1>1, SlotsFinite, LeastIn
  <2> HIDE DEF i
  <2>2. i \in 1 .. BucketItems /\ hp.direct[i] # NULL /\ KeyAt(hp, hp.direct[i]) = k
    BY <2>1 DEF DirectSlots, Holds, KeyAt
  <2>3. Lookup(hp, k) = hp.direct[i]
    BY <1>1 DEF Lookup, i
  <2>4. InTable(hp, hp.direct[i]) /\ hp.direct[i] \in DOMAIN hp.items
    BY <2>2 DEF InTable, TableInv
  <2> QED
    BY <2>2, <2>3, <2>4, TableUnique
<1>2. CASE DirectSlots(hp, k) = {} /\ ChainSlots(hp, k) # {}
  <2> DEFINE i == Least(ChainSlots(hp, k))
  <2>1. i \in ChainSlots(hp, k)
    BY <1>2, SlotsFinite, LeastIn
  <2> HIDE DEF i
  <2>2. i \in 1 .. Len(hp.chain) /\ hp.chain[i] # NULL /\ KeyAt(hp, hp.chain[i]) = k
    BY <2>1 DEF ChainSlots, Holds, KeyAt
  <2>3. Lookup(hp, k) = hp.chain[i]
    BY <1>2 DEF Lookup, i
  <2>4. InTable(hp, hp.chain[i]) /\ hp.chain[i] \in DOMAIN hp.items
    BY <2>2 DEF InTable, TableInv
  <2> QED
    BY <2>2, <2>3, <2>4, TableUnique
<1>3. CASE DirectSlots(hp, k) = {} /\ ChainSlots(hp, k) = {}
  <2>1. Lookup(hp, k) = NULL
    BY <1>3 DEF Lookup
  <2>2. ASSUME NEW a, InTable(hp, a), a # NULL, KeyAt(hp, a) = k
        PROVE  FALSE
    BY <1>3, <2>2 DEF InTable, DirectSlots, ChainSlots, Holds, KeyAt
  <2> QED
    BY <2>1, <2>2
<1> QED
  BY <1>1, <1>2, <1>3

\* The table changes together with the references of the threads.
LEMMA TableChangeKeeps ==
  ASSUME NEW hp, NEW L, NEW V, NEW r, HeapInv(hp, L, V, r), NEW h \in HeapType,
         SamePlaces(hp, h), h.segs = hp.segs, h.items = hp.items, TableInv(h),
         NEW q \in [Addrs -> Nat], \A a \in Addrs : q[a] # 0 => a \in DOMAIN hp.items,
         \A a \in DOMAIN hp.items : (IF InTable(h, a) THEN 1 ELSE 0) + q[a]
                                    = (IF InTable(hp, a) THEN 1 ELSE 0) + r[a]
  PROVE  HeapInv(h, L, V, q)
<1>1. PlacesInv(h, L, V)
  BY DEF HeapInv, SamePlaces, PlacesInv, Free
<1>2. ItemsInv(h, L, V)
  BY DEF HeapInv, SamePlaces, ItemsInv
<1>3. BytesInv(h, L)
  BY DEF HeapInv, BytesInv, Alive
<1>4. CountInv(h, q)
  BY DEF HeapInv, CountInv
<1> QED
  BY <1>1, <1>2, <1>3, <1>4 DEF HeapInv

\* Two heaps with the same items, whose tables differ in the item of one key.
Replaces(hp, h, nit) ==
  \A a \in Addrs :
    InTable(h, a) <=> a = nit \/ (InTable(hp, a) /\ KeyAt(hp, a) # KeyAt(hp, nit))

-----------------------------------------------------------------------------
(* hasht_put.                                                              *)

\* The table takes the reference to nit and gives the one to old.
Passed(r, old, nit) ==
  [a \in Addrs |-> r[a] + (IF a = old THEN 1 ELSE 0) - (IF a = nit THEN 1 ELSE 0)]

\* An item takes the place of the one of its key, with its reference.
LEMMA ReplaceKeeps ==
  ASSUME NEW hp, NEW L, NEW V, NEW r, HeapInv(hp, L, V, r), NEW h \in HeapType,
         SamePlaces(hp, h), h.segs = hp.segs, h.items = hp.items, TableInv(h),
         NEW nit \in DOMAIN hp.items, r[nit] # 0, Replaces(hp, h, nit), NEW old \in DOMAIN hp.items \cup {NULL},
         \A a \in DOMAIN hp.items :
           InTable(hp, a) /\ KeyAt(hp, a) = KeyAt(hp, nit) <=> a = old
  PROVE  HeapInv(h, L, V, Passed(r, old, nit))
<1> DEFINE q == Passed(r, old, nit)
<1>1. hp \in HeapType /\ r \in [Addrs -> Nat] /\ DOMAIN hp.items \subseteq Addrs
  BY HeapFacts, HeapFields
<1>2. r[nit] \in Nat /\ nit \in Addrs
  BY <1>1
<1>3. q \in [Addrs -> Nat]
  <2>1. ASSUME NEW a \in Addrs
        PROVE  r[a] + (IF a = old THEN 1 ELSE 0) - (IF a = nit THEN 1 ELSE 0) \in Nat
    <3>1. r[a] \in Nat /\ (a = nit => r[a] # 0)
      BY <1>1
    <3> QED
      BY <3>1
  <2> QED
    BY <2>1 DEF Passed
<1>4. ASSUME NEW a \in Addrs, q[a] # 0
      PROVE  a \in DOMAIN hp.items
  <2>1. CASE a = old
    BY <2>1, Constants
  <2>2. CASE a # old
    <3>1. r[a] # 0
      BY <1>1, <1>2, <1>4, <2>2 DEF Passed
    <3> QED
      BY <3>1, HeapFacts
  <2> QED
    BY <2>1, <2>2
<1>5. ASSUME NEW a \in DOMAIN hp.items
      PROVE  (IF InTable(h, a) THEN 1 ELSE 0) + q[a]
             = (IF InTable(hp, a) THEN 1 ELSE 0) + r[a]
  <2>1. a \in Addrs /\ r[a] \in Nat
    BY <1>1
  <2>2. InTable(h, a) <=> a = nit \/ (InTable(hp, a) /\ KeyAt(hp, a) # KeyAt(hp, nit))
    BY <2>1 DEF Replaces
  <2>3. InTable(hp, a) /\ KeyAt(hp, a) = KeyAt(hp, nit) <=> a = old
    OBVIOUS
  <2>4. q[a] = r[a] + (IF a = old THEN 1 ELSE 0) - (IF a = nit THEN 1 ELSE 0)
    BY <2>1 DEF Passed
  <2> HIDE DEF q
  <2> QED
    BY <2>1, <2>2, <2>3, <2>4
<1> HIDE DEF q
<1>6. HeapInv(h, L, V, q)
  BY <1>3, <1>4, <1>5, TableChangeKeeps
<1> QED
  BY <1>6 DEF q

\* The new item in a slot, in place of another one of its key or in an empty
\* slot.
DirectPut(hp, i, nit) == [hp EXCEPT !.direct[i] = nit]
ChainPut(hp, i, nit) == [hp EXCEPT !.chain[i] = nit]

\* What the table names is an item.
LEMMA InTableIsItem ==
  ASSUME NEW hp, TableInv(hp), NEW a \in Addrs, InTable(hp, a)
  PROVE  a \in DOMAIN hp.items
<1>1. a # NULL
  BY Constants
<1>2. ASSUME NEW j \in 1 .. BucketItems, hp.direct[j] = a
      PROVE  a \in DOMAIN hp.items
  BY <1>1, <1>2 DEF TableInv
<1>3. ASSUME NEW j \in 1 .. Len(hp.chain), hp.chain[j] = a
      PROVE  a \in DOMAIN hp.items
  BY <1>3 DEF TableInv
<1> QED
  BY <1>2, <1>3 DEF InTable

\* A put over an item in a slot.
LEMMA DirectPutDoes ==
  ASSUME NEW hp \in HeapType, TableInv(hp), NEW i \in 1 .. BucketItems,
         NEW nit \in DOMAIN hp.items,
         \A a \in DOMAIN hp.items :
           InTable(hp, a) /\ KeyAt(hp, a) = KeyAt(hp, nit) <=> a = hp.direct[i]
  PROVE  LET h == DirectPut(hp, i, nit)
         IN  /\ h \in HeapType /\ SamePlaces(hp, h) /\ h.segs = hp.segs /\ h.items = hp.items
             /\ TableInv(h) /\ Replaces(hp, h, nit)
<1> DEFINE h == DirectPut(hp, i, nit)
<1>1. /\ hp.direct \in [1 .. BucketItems -> AddrOrNull] /\ hp.chain \in Seq(Addrs)
      /\ nit \in Addrs /\ nit # NULL /\ DOMAIN hp.items \subseteq Addrs
  BY HeapFields, Constants
<1>2. /\ h \in HeapType /\ SamePlaces(hp, h) /\ h.segs = hp.segs /\ h.items = hp.items
      /\ h.chain = hp.chain /\ h.direct = [hp.direct EXCEPT ![i] = nit]
  BY <1>1 DEF HeapType, DirectPut, SamePlaces, AddrOrNull
<1>3. /\ h.direct[i] = nit
      /\ \A j \in 1 .. BucketItems : j # i => h.direct[j] = hp.direct[j]
  BY <1>1, <1>2
<1> HIDE DEF h
<1>4. ASSUME NEW j \in 1 .. BucketItems, j # i, h.direct[j] # NULL
      PROVE  /\ h.direct[j] \in DOMAIN hp.items /\ InTable(hp, h.direct[j])
             /\ KeyAt(hp, h.direct[j]) # KeyAt(hp, nit)
  <2>1. h.direct[j] = hp.direct[j] /\ h.direct[j] \in DOMAIN hp.items
        /\ InTable(hp, h.direct[j])
    BY <1>3, <1>4 DEF TableInv, InTable
  <2>2. KeyAt(hp, h.direct[j]) = KeyAt(hp, nit) => h.direct[j] = hp.direct[i]
    BY <2>1
  <2>3. hp.direct[j] = hp.direct[i] => i = j
    BY <1>4, <2>1 DEF TableInv
  <2> QED
    BY <1>4, <2>1, <2>2, <2>3
<1>5. ASSUME NEW j \in 1 .. Len(hp.chain)
      PROVE  /\ hp.chain[j] \in DOMAIN hp.items /\ InTable(hp, hp.chain[j])
             /\ KeyAt(hp, hp.chain[j]) # KeyAt(hp, nit)
  <2>1. hp.chain[j] \in DOMAIN hp.items /\ InTable(hp, hp.chain[j]) /\ hp.chain[j] # NULL
    BY <1>1, Constants DEF TableInv, InTable
  <2>2. KeyAt(hp, hp.chain[j]) = KeyAt(hp, nit) => hp.chain[j] = hp.direct[i]
    BY <2>1
  <2>3. hp.direct[i] # NULL => KeyAt(hp, hp.direct[i]) # KeyAt(hp, hp.chain[j])
    BY DEF TableInv
  <2> QED
    BY <2>1, <2>2, <2>3
<1>6. \A a : KeyAt(h, a) = KeyAt(hp, a)
  BY <1>2 DEF KeyAt
<1>7. TableInv(h)
  <2>1. \A j \in 1 .. BucketItems : h.direct[j] # NULL => h.direct[j] \in DOMAIN h.items
    BY <1>2, <1>3, <1>4
  <2>2. \A j \in 1 .. Len(h.chain) : h.chain[j] \in DOMAIN h.items
    BY <1>2, <1>5
  <2>3. ASSUME NEW j \in 1 .. BucketItems, NEW k \in 1 .. BucketItems,
               h.direct[j] # NULL, h.direct[k] # NULL,
               KeyAt(h, h.direct[j]) = KeyAt(h, h.direct[k])
        PROVE  j = k
    BY <1>3, <1>4, <1>6, <2>3 DEF TableInv
  <2>4. \A j, k \in 1 .. Len(h.chain) : KeyAt(h, h.chain[j]) = KeyAt(h, h.chain[k]) => j = k
    BY <1>2, <1>6 DEF TableInv
  <2>5. ASSUME NEW j \in 1 .. BucketItems, NEW k \in 1 .. Len(h.chain), h.direct[j] # NULL
        PROVE  KeyAt(h, h.direct[j]) # KeyAt(h, h.chain[k])
    BY <1>2, <1>3, <1>5, <1>6, <2>5 DEF TableInv
  <2> QED
    BY <2>1, <2>2, <2>3, <2>4, <2>5 DEF TableInv
<1>8. Replaces(hp, h, nit)
  <2>1. ASSUME NEW a \in Addrs, InTable(h, a), a # nit
        PROVE  InTable(hp, a) /\ KeyAt(hp, a) # KeyAt(hp, nit)
    <3>1. CASE \E j \in 1 .. BucketItems : h.direct[j] = a
      BY <1>3, <1>4, <2>1, <3>1, Constants
    <3>2. CASE \E j \in 1 .. Len(h.chain) : h.chain[j] = a
      BY <1>2, <1>5, <3>2
    <3> QED
      BY <2>1, <3>1, <3>2 DEF InTable
  <2>2. InTable(h, nit)
    BY <1>3 DEF InTable
  <2>3. ASSUME NEW a \in Addrs, InTable(hp, a), KeyAt(hp, a) # KeyAt(hp, nit)
        PROVE  InTable(h, a)
    <3>1. a \in DOMAIN hp.items
      BY <2>3, InTableIsItem
    <3>2. a # hp.direct[i]
      BY <2>3, <3>1
    <3> QED
      BY <1>2, <1>3, <2>3, <3>2 DEF InTable
  <2> QED
    BY <2>1, <2>2, <2>3 DEF Replaces
<1> QED
  BY <1>2, <1>7, <1>8 DEF h

\* A put over an item in the chain.
LEMMA ChainPutDoes ==
  ASSUME NEW hp \in HeapType, TableInv(hp), NEW i \in 1 .. Len(hp.chain),
         NEW nit \in DOMAIN hp.items,
         \A a \in DOMAIN hp.items :
           InTable(hp, a) /\ KeyAt(hp, a) = KeyAt(hp, nit) <=> a = hp.chain[i]
  PROVE  LET h == ChainPut(hp, i, nit)
         IN  /\ h \in HeapType /\ SamePlaces(hp, h) /\ h.segs = hp.segs /\ h.items = hp.items
             /\ TableInv(h) /\ Replaces(hp, h, nit)
<1> DEFINE h == ChainPut(hp, i, nit)
<1>1. /\ hp.direct \in [1 .. BucketItems -> AddrOrNull] /\ hp.chain \in Seq(Addrs)
      /\ nit \in Addrs /\ nit # NULL /\ DOMAIN hp.items \subseteq Addrs
  BY HeapFields, Constants
<1>2. /\ [hp.chain EXCEPT ![i] = nit] \in Seq(Addrs)
      /\ Len([hp.chain EXCEPT ![i] = nit]) = Len(hp.chain)
      /\ [hp.chain EXCEPT ![i] = nit][i] = nit
      /\ \A j \in 1 .. Len(hp.chain) : j # i => [hp.chain EXCEPT ![i] = nit][j] = hp.chain[j]
  BY <1>1
<1>3. /\ h \in HeapType /\ SamePlaces(hp, h) /\ h.segs = hp.segs /\ h.items = hp.items
      /\ h.direct = hp.direct /\ h.chain = [hp.chain EXCEPT ![i] = nit]
  BY <1>2 DEF HeapType, ChainPut, SamePlaces
<1>4. /\ Len(h.chain) = Len(hp.chain) /\ h.chain[i] = nit
      /\ \A j \in 1 .. Len(hp.chain) : j # i => h.chain[j] = hp.chain[j]
  BY <1>2, <1>3
<1> HIDE DEF h
<1>5. ASSUME NEW j \in 1 .. BucketItems, hp.direct[j] # NULL
      PROVE  /\ hp.direct[j] \in DOMAIN hp.items /\ InTable(hp, hp.direct[j])
             /\ KeyAt(hp, hp.direct[j]) # KeyAt(hp, nit)
  <2>1. hp.direct[j] \in DOMAIN hp.items /\ InTable(hp, hp.direct[j])
    BY <1>5 DEF TableInv, InTable
  <2>2. KeyAt(hp, hp.direct[j]) = KeyAt(hp, nit) => hp.direct[j] = hp.chain[i]
    BY <2>1
  <2>3. KeyAt(hp, hp.direct[j]) # KeyAt(hp, hp.chain[i])
    BY <1>5 DEF TableInv
  <2> QED
    BY <2>1, <2>2, <2>3
<1>6. ASSUME NEW j \in 1 .. Len(hp.chain), j # i
      PROVE  /\ hp.chain[j] \in DOMAIN hp.items /\ InTable(hp, hp.chain[j])
             /\ KeyAt(hp, hp.chain[j]) # KeyAt(hp, nit)
  <2>1. hp.chain[j] \in DOMAIN hp.items /\ InTable(hp, hp.chain[j])
    BY DEF TableInv, InTable
  <2>2. KeyAt(hp, hp.chain[j]) = KeyAt(hp, nit) => hp.chain[j] = hp.chain[i]
    BY <2>1
  <2>3. hp.chain[j] = hp.chain[i] => i = j
    BY DEF TableInv
  <2> QED
    BY <1>6, <2>1, <2>2, <2>3
<1>7. \A a : KeyAt(h, a) = KeyAt(hp, a)
  BY <1>3 DEF KeyAt
<1>8. TableInv(h)
  <2>1. \A j \in 1 .. BucketItems : h.direct[j] # NULL => h.direct[j] \in DOMAIN h.items
    BY <1>3 DEF TableInv
  <2>2. \A j \in 1 .. Len(h.chain) : h.chain[j] \in DOMAIN h.items
    BY <1>3, <1>4, <1>6
  <2>3. \A j, k \in 1 .. BucketItems :
          h.direct[j] # NULL /\ h.direct[k] # NULL
          /\ KeyAt(h, h.direct[j]) = KeyAt(h, h.direct[k]) => j = k
    BY <1>3, <1>7 DEF TableInv
  <2>4. ASSUME NEW j \in 1 .. Len(h.chain), NEW k \in 1 .. Len(h.chain),
               KeyAt(h, h.chain[j]) = KeyAt(h, h.chain[k])
        PROVE  j = k
    BY <1>4, <1>6, <1>7, <2>4 DEF TableInv
  <2>5. ASSUME NEW j \in 1 .. BucketItems, NEW k \in 1 .. Len(h.chain), h.direct[j] # NULL
        PROVE  KeyAt(h, h.direct[j]) # KeyAt(h, h.chain[k])
    BY <1>3, <1>4, <1>5, <1>7, <2>5 DEF TableInv
  <2> QED
    BY <2>1, <2>2, <2>3, <2>4, <2>5 DEF TableInv
<1>9. Replaces(hp, h, nit)
  <2>1. ASSUME NEW a \in Addrs, InTable(h, a), a # nit
        PROVE  InTable(hp, a) /\ KeyAt(hp, a) # KeyAt(hp, nit)
    <3>1. CASE \E j \in 1 .. BucketItems : h.direct[j] = a
      BY <1>3, <1>5, <3>1, Constants
    <3>2. CASE \E j \in 1 .. Len(h.chain) : h.chain[j] = a
      BY <1>4, <1>6, <2>1, <3>2
    <3> QED
      BY <2>1, <3>1, <3>2 DEF InTable
  <2>2. InTable(h, nit)
    BY <1>4 DEF InTable
  <2>3. ASSUME NEW a \in Addrs, InTable(hp, a), KeyAt(hp, a) # KeyAt(hp, nit)
        PROVE  InTable(h, a)
    <3>1. a \in DOMAIN hp.items
      BY <2>3, InTableIsItem
    <3>2. a # hp.chain[i]
      BY <2>3, <3>1
    <3> QED
      BY <1>3, <1>4, <2>3, <3>2 DEF InTable
  <2> QED
    BY <2>1, <2>2, <2>3 DEF Replaces
<1> QED
  BY <1>3, <1>8, <1>9 DEF h

\* A put of a key that is not in the table.
LEMMA InsertDoes ==
  ASSUME NEW hp \in HeapType, TableInv(hp), NEW nit \in DOMAIN hp.items,
         \A a \in DOMAIN hp.items : InTable(hp, a) => KeyAt(hp, a) # KeyAt(hp, nit)
  PROVE  LET h == Insert(hp, nit)
         IN  /\ h \in HeapType /\ SamePlaces(hp, h) /\ h.segs = hp.segs /\ h.items = hp.items
             /\ TableInv(h) /\ Replaces(hp, h, nit)
<1> DEFINE h == Insert(hp, nit)
           empty == {i \in 1 .. BucketItems : hp.direct[i] = NULL}
<1>1. /\ hp.direct \in [1 .. BucketItems -> AddrOrNull] /\ hp.chain \in Seq(Addrs)
      /\ nit \in Addrs /\ nit # NULL /\ DOMAIN hp.items \subseteq Addrs
      /\ BucketItems \in Nat \ {0}
  BY HeapFields, Constants
<1>2. CASE empty # {}
  <2> DEFINE e == CHOOSE i \in empty : \A j \in empty : j <= i
  <2>1. e \in empty
    <3>1. \E i \in empty : \A j \in empty : j <= i
      BY <1>1, <1>2, GreatestIn
    <3> QED
      BY <3>1
  <2>2. h = DirectPut(hp, e, nit)
    BY <1>2 DEF Insert, DirectPut
  <2> HIDE DEF e
  <2>3. e \in 1 .. BucketItems /\ hp.direct[e] = NULL
    BY <2>1
  <2>4. \A a \in DOMAIN hp.items :
          InTable(hp, a) /\ KeyAt(hp, a) = KeyAt(hp, nit) <=> a = hp.direct[e]
    BY <1>1, <2>3, Constants
  <2> HIDE DEF h
  <2> QED
    BY <2>2, <2>3, <2>4, DirectPutDoes DEF h
<1>3. CASE empty = {}
  <2> DEFINE b == BucketItems
             c == <<hp.direct[b]>> \o hp.chain
  <2>1. hp.direct[b] \in Addrs /\ hp.direct[b] # NULL
        /\ \A i \in 1 .. BucketItems : hp.direct[i] # NULL
    BY <1>1, <1>3 DEF AddrOrNull
  <2>2. /\ c \in Seq(Addrs) /\ Len(c) = Len(hp.chain) + 1
        /\ \A j \in 1 .. Len(hp.chain) + 1 :
             c[j] = IF j = 1 THEN hp.direct[b] ELSE hp.chain[j - 1]
    BY <1>1, <2>1, Prepend
  <2> HIDE DEF c
  <2>3. h = [hp EXCEPT !.direct[b] = nit, !.chain = c]
    BY <1>3 DEF Insert, c
  <2>4. /\ h \in HeapType /\ SamePlaces(hp, h) /\ h.segs = hp.segs /\ h.items = hp.items
        /\ h.chain = c /\ h.direct = [hp.direct EXCEPT ![b] = nit]
    <3> DEFINE d == [hp.direct EXCEPT ![b] = nit]
    <3>1. d \in [1 .. BucketItems -> AddrOrNull]
      BY <1>1 DEF AddrOrNull
    <3>2. h = [hp EXCEPT !.direct = d, !.chain = c]
      BY <2>3
    <3> HIDE DEF d, h
    <3>3. h \in HeapType /\ SamePlaces(hp, h) /\ h.segs = hp.segs /\ h.items = hp.items
          /\ h.chain = c /\ h.direct = d
      BY <2>2, <3>1, <3>2 DEF HeapType, SamePlaces
    <3> QED
      BY <3>3 DEF d
  <2>5. /\ h.direct[b] = nit /\ b \in 1 .. BucketItems
        /\ \A j \in 1 .. BucketItems : j # b => h.direct[j] = hp.direct[j]
    BY <1>1, <2>4
  <2> HIDE DEF h, b
  <2>6. ASSUME NEW j \in 1 .. BucketItems
        PROVE  /\ hp.direct[j] \in DOMAIN hp.items /\ InTable(hp, hp.direct[j])
               /\ KeyAt(hp, hp.direct[j]) # KeyAt(hp, nit)
    BY <2>1 DEF TableInv, InTable
  <2>7. ASSUME NEW j \in 1 .. Len(hp.chain)
        PROVE  /\ hp.chain[j] \in DOMAIN hp.items /\ InTable(hp, hp.chain[j])
               /\ KeyAt(hp, hp.chain[j]) # KeyAt(hp, nit)
    BY DEF TableInv, InTable
  <2>8. \A a : KeyAt(h, a) = KeyAt(hp, a)
    BY <2>4 DEF KeyAt
  <2>9. \A j \in 1 .. Len(c) : \/ j = 1 /\ c[j] = hp.direct[b]
                               \/ \E k \in 1 .. Len(hp.chain) : j = k + 1 /\ c[j] = hp.chain[k]
    <3> SUFFICES ASSUME NEW j \in 1 .. Len(c), j # 1
                 PROVE  \E k \in 1 .. Len(hp.chain) : j = k + 1 /\ c[j] = hp.chain[k]
      BY <2>2
    <3>1. j - 1 \in 1 .. Len(hp.chain) /\ j = (j - 1) + 1 /\ c[j] = hp.chain[j - 1]
      BY <1>1, <2>2
    <3> QED
      BY <3>1
  <2>10. TableInv(h)
    <3>1. \A j \in 1 .. BucketItems : h.direct[j] # NULL => h.direct[j] \in DOMAIN h.items
      BY <2>4, <2>5, <2>6
    <3>2. \A j \in 1 .. Len(h.chain) : h.chain[j] \in DOMAIN h.items
      BY <2>4, <2>5, <2>6, <2>7, <2>9
    <3>3. ASSUME NEW j \in 1 .. BucketItems, NEW k \in 1 .. BucketItems,
                 h.direct[j] # NULL, h.direct[k] # NULL,
                 KeyAt(h, h.direct[j]) = KeyAt(h, h.direct[k])
          PROVE  j = k
      BY <2>5, <2>6, <2>8, <3>3 DEF TableInv
    <3>4. ASSUME NEW j \in 1 .. Len(h.chain), NEW k \in 1 .. Len(h.chain),
                 KeyAt(h, h.chain[j]) = KeyAt(h, h.chain[k])
          PROVE  j = k
      <4>1. KeyAt(hp, c[j]) = KeyAt(hp, c[k])
        BY <2>4, <2>8, <3>4
      <4>2. \A i \in 1 .. Len(hp.chain) : KeyAt(hp, hp.direct[b]) # KeyAt(hp, hp.chain[i])
        BY <2>1, <2>5 DEF TableInv
      <4>3. \A i, n \in 1 .. Len(hp.chain) :
              KeyAt(hp, hp.chain[i]) = KeyAt(hp, hp.chain[n]) => i = n
        BY DEF TableInv
      <4>4. j \in 1 .. Len(c) /\ k \in 1 .. Len(c)
        BY <2>4
      <4>5. ASSUME NEW i \in 1 .. Len(hp.chain), j = i + 1, c[j] = hp.chain[i],
                   NEW n \in 1 .. Len(hp.chain), k = n + 1, c[k] = hp.chain[n]
            PROVE  j = k
        BY ONLY <4>1, <4>3, <4>5
      <4>6. ASSUME j = 1, c[j] = hp.direct[b], NEW n \in 1 .. Len(hp.chain), c[k] = hp.chain[n]
            PROVE  FALSE
        BY ONLY <4>1, <4>2, <4>6
      <4>7. ASSUME k = 1, c[k] = hp.direct[b], NEW i \in 1 .. Len(hp.chain), c[j] = hp.chain[i]
            PROVE  FALSE
        BY ONLY <4>1, <4>2, <4>7
      <4> QED
        BY ONLY <2>9, <4>4, <4>5, <4>6, <4>7
    <3>5. ASSUME NEW j \in 1 .. BucketItems, NEW k \in 1 .. Len(h.chain), h.direct[j] # NULL
          PROVE  KeyAt(h, h.direct[j]) # KeyAt(h, h.chain[k])
      <4>1. CASE j = b
        <5>1. h.direct[j] = nit /\ h.chain[k] = c[k] /\ k \in 1 .. Len(c)
          BY <2>4, <2>5, <4>1
        <5>2. KeyAt(hp, c[k]) # KeyAt(hp, nit)
          BY <2>5, <2>6, <2>7, <2>9, <5>1
        <5> QED
          BY <2>8, <5>1, <5>2
      <4>2. CASE j # b
        <5>1. h.direct[j] = hp.direct[j] /\ hp.direct[j] # NULL
          BY <2>1, <2>5, <4>2
        <5>2. KeyAt(hp, hp.direct[j]) # KeyAt(hp, hp.direct[b])
          BY <2>1, <2>5, <4>2 DEF TableInv
        <5>3. \A i \in 1 .. Len(hp.chain) : KeyAt(hp, hp.direct[j]) # KeyAt(hp, hp.chain[i])
          BY <2>1 DEF TableInv
        <5> QED
          BY <2>4, <2>8, <2>9, <5>1, <5>2, <5>3
      <4> QED
        BY <4>1, <4>2
    <3> QED
      BY <3>1, <3>2, <3>3, <3>4, <3>5 DEF TableInv
  <2>11. Replaces(hp, h, nit)
    <3>1. ASSUME NEW a \in Addrs, InTable(h, a), a # nit
          PROVE  InTable(hp, a) /\ KeyAt(hp, a) # KeyAt(hp, nit)
      <4>1. CASE \E j \in 1 .. BucketItems : h.direct[j] = a
        BY <2>5, <2>6, <3>1, <4>1
      <4>2. CASE \E j \in 1 .. Len(h.chain) : h.chain[j] = a
        BY <2>4, <2>5, <2>6, <2>7, <2>9, <4>2
      <4> QED
        BY <3>1, <4>1, <4>2 DEF InTable
    <3>2. InTable(h, nit)
      BY <2>5 DEF InTable
    <3>3. ASSUME NEW a \in Addrs, InTable(hp, a)
          PROVE  InTable(h, a)
      <4>1. CASE \E j \in 1 .. BucketItems : hp.direct[j] = a
        <5>1. PICK j \in 1 .. BucketItems : hp.direct[j] = a
          BY <4>1
        <5>2. CASE j = b
          <6>1. 1 \in 1 .. Len(h.chain) /\ h.chain[1] = a
            BY <1>1, <2>2, <2>4, <5>1, <5>2
          <6> QED
            BY <6>1 DEF InTable
        <5>3. CASE j # b
          BY <2>5, <5>1, <5>3 DEF InTable
        <5> QED
          BY <5>2, <5>3
      <4>2. CASE \E j \in 1 .. Len(hp.chain) : hp.chain[j] = a
        <5>1. PICK j \in 1 .. Len(hp.chain) : hp.chain[j] = a
          BY <4>2
        <5>2. j + 1 \in 1 .. Len(h.chain) /\ h.chain[j + 1] = a
          BY <1>1, <2>2, <2>4, <5>1
        <5> QED
          BY <5>2 DEF InTable
      <4> QED
        BY <3>3, <4>1, <4>2 DEF InTable
    <3> QED
      BY <3>1, <3>2, <3>3 DEF Replaces
  <2> QED
    BY <2>4, <2>10, <2>11 DEF h
<1> QED
  BY <1>2, <1>3


\* The item is given the reference of the table, takes the place of the old one
\* of its key, and the old one loses it.
Swapped(h, old) == IF old = NULL THEN h ELSE item_unref(h, old)

\* The table is passed from one item of a key to another.
LEMMA SwapKeeps ==
  ASSUME NEW hp, NEW L, NEW V, NEW r, HeapInv(hp, L, V, r), NEW nit \in Addrs, r[nit] # 0,
         NEW h1, h1 = item_ref(hp, nit), NEW h \in HeapType, SamePlaces(h1, h),
         h.segs = h1.segs, h.items = h1.items, TableInv(h), Replaces(h1, h, nit),
         NEW old \in DOMAIN hp.items \cup {NULL},
         \A a \in DOMAIN hp.items :
           InTable(hp, a) /\ KeyAt(hp, a) = KeyAt(hp, nit) <=> a = old
  PROVE  /\ HeapInv(Swapped(h, old), L, V, r) /\ Replaces(hp, Swapped(h, old), nit)
         /\ \A b \in DOMAIN hp.items : SameItem(hp, Swapped(h, old), b)
<1> DEFINE r1 == [r EXCEPT ![nit] = @ + 1]
           r2 == Passed(r1, old, nit)
           h3 == Swapped(h, old)
<1>1. /\ hp \in HeapType /\ r \in [Addrs -> Nat] /\ r[nit] \in Nat \ {0}
      /\ nit \in DOMAIN hp.items /\ hp.items[nit].refcount > 0
      /\ DOMAIN hp.items \subseteq Addrs /\ NULL \notin Addrs
  BY HeapFacts, HeapFields, Constants
<1>2. /\ HeapInv(h1, L, V, r1) /\ SameTable(hp, h1)
      /\ \A b \in DOMAIN hp.items : SameItem(hp, h1, b)
  BY <1>1, RefKeeps
<1>3. DOMAIN h1.items = DOMAIN hp.items
  BY <1>1, RefRecounts DEF Recounts
<1>4. /\ \A a \in DOMAIN hp.items : KeyAt(h1, a) = KeyAt(hp, a)
      /\ \A a : InTable(h1, a) <=> InTable(hp, a)
  BY <1>2 DEF SameItem, KeyAt, SameTable, InTable
<1>5. \A a \in DOMAIN h1.items : InTable(h1, a) /\ KeyAt(h1, a) = KeyAt(h1, nit) <=> a = old
  BY <1>1, <1>3, <1>4
<1>6. r1 \in [Addrs -> Nat] /\ r1[nit] # 0 /\ r1[nit] = r[nit] + 1
      /\ \A a \in Addrs : a # nit => r1[a] = r[a]
  BY <1>1
<1> HIDE DEF r1
<1>7. HeapInv(h, L, V, r2)
  <2>1. nit \in DOMAIN h1.items /\ old \in DOMAIN h1.items \cup {NULL}
    BY <1>1, <1>3
  <2> QED
    BY <1>2, <1>5, <1>6, <2>1, ReplaceKeeps
<1>8. \A a \in Addrs : r2[a] = r[a] + (IF a = old THEN 1 ELSE 0)
  BY <1>1, <1>6 DEF Passed
<1>9. r2 \in [Addrs -> Nat]
  BY <1>7, HeapFacts
<1> HIDE DEF r2
<1>10. \A b \in DOMAIN hp.items : SameItem(hp, h, b)
  BY <1>2, <1>3 DEF SameItem
<1>11. Replaces(hp, h, nit)
  <2>1. ASSUME NEW a \in Addrs
        PROVE  InTable(h, a) <=> a = nit \/ (InTable(hp, a) /\ KeyAt(hp, a) # KeyAt(hp, nit))
    <3>1. InTable(h, a) <=> a = nit \/ (InTable(h1, a) /\ KeyAt(h1, a) # KeyAt(h1, nit))
      BY DEF Replaces
    <3>2. InTable(hp, a) => a \in DOMAIN hp.items
      BY <1>1, HeapFacts
    <3> QED
      BY <1>1, <1>4, <3>1, <3>2
  <2> QED
    BY <2>1 DEF Replaces
<1>12. CASE old = NULL
  <2>1. h3 = h
    BY <1>12 DEF Swapped
  <2>2. r2 = r
    BY <1>1, <1>8, <1>9, <1>12
  <2> QED
    BY <1>7, <1>10, <1>11, <2>1, <2>2
<1>13. CASE old # NULL
  <2>1. h3 = item_unref(h, old) /\ old \in Addrs /\ old \in DOMAIN hp.items
    BY <1>1, <1>13 DEF Swapped
  <2>2. r2[old] # 0
    BY <1>1, <1>8, <2>1
  <2>3. /\ HeapInv(h3, L, V, [r2 EXCEPT ![old] = @ - 1]) /\ SameTable(h, h3)
        /\ \A b \in DOMAIN h.items : SameItem(h, h3, b)
    BY <1>7, <2>1, <2>2, UnrefKeeps
  <2>4. [r2 EXCEPT ![old] = @ - 1] = r
    <3> DEFINE x == [r2 EXCEPT ![old] = @ - 1]
    <3>1. \A a \in Addrs : x[a] = r[a]
      <4>1. \A a \in Addrs : x[a] = IF a = old THEN r2[a] - 1 ELSE r2[a]
        BY <1>9
      <4>2. \A a \in Addrs : r[a] \in Nat
        BY <1>1
      <4> HIDE DEF x
      <4> QED
        BY <1>8, <4>1, <4>2
    <3>2. x \in [Addrs -> Nat]
      <4>1. r2[old] - 1 = r[old] /\ r[old] \in Nat
        BY <1>1, <1>8, <2>1
      <4> QED
        BY <1>9, <4>1
    <3> HIDE DEF x
    <3>3. x = r
      BY <1>1, <3>1, <3>2
    <3> QED
      BY <3>3 DEF x
  <2>5. \A b \in DOMAIN hp.items : SameItem(hp, h3, b)
    BY <1>10, <2>3 DEF SameItem
  <2>6. Replaces(hp, h3, nit)
    BY <1>11, <2>3 DEF Replaces, SameTable, InTable
  <2> QED
    BY <2>3, <2>4, <2>5, <2>6
<1> QED
  BY <1>12, <1>13

\* A put leaves the references as they are and every item what it is; either
\* it does nothing, because its cas is not the item in the slots, or the new
\* item is now the one of its key.
LEMMA PutKeeps ==
  ASSUME NEW hp, NEW L, NEW V, NEW r, HeapInv(hp, L, V, r), NEW nit \in Addrs, r[nit] # 0,
         NEW cas
  PROVE  LET h == hasht_put(hp, nit, cas)
         IN  /\ HeapInv(h, L, V, r) /\ \A b \in DOMAIN hp.items : SameItem(hp, h, b)
             /\ \/ h = hp /\ cas # NULL
                \/ /\ cas = NULL \/ Lookup(hp, KeyAt(hp, nit)) = cas
                   /\ Replaces(hp, h, nit)
<1> DEFINE k == KeyAt(hp, nit)
           di == DirectSlots(hp, k)
           ci == ChainSlots(hp, k)
           h1 == item_ref(hp, nit)
           h == hasht_put(hp, nit, cas)
<1>1. /\ hp \in HeapType /\ TableInv(hp) /\ nit \in DOMAIN hp.items
      /\ hp.items[nit].refcount > 0 /\ NULL \notin Addrs /\ DOMAIN hp.items \subseteq Addrs
  BY HeapFacts, HeapFields, Constants DEF HeapInv
<1>2. /\ h1 \in HeapType /\ TableInv(h1) /\ DOMAIN h1.items = DOMAIN hp.items
      /\ h1.direct = hp.direct /\ h1.chain = hp.chain
      /\ \A a \in DOMAIN hp.items : KeyAt(h1, a) = KeyAt(hp, a)
      /\ \A a : InTable(h1, a) <=> InTable(hp, a)
  <2>1. Recounts(hp, h1, nit, hp.items[nit].refcount + 1)
    BY <1>1, RefRecounts
  <2>2. HeapInv(h1, L, V, [r EXCEPT ![nit] = @ + 1])
    BY <1>1, RefKeeps
  <2> HIDE DEF h1
  <2> QED
    BY <2>1, <2>2 DEF Recounts, SameTable, SameItem, KeyAt, InTable, HeapInv
<1>3. \A a : SameItem(hp, hp, a) <=> a \in DOMAIN hp.items
  BY DEF SameItem
<1>4. ASSUME NEW old \in DOMAIN hp.items, InTable(hp, old), KeyAt(hp, old) = k
      PROVE  /\ \A a \in DOMAIN hp.items :
                  InTable(hp, a) /\ KeyAt(hp, a) = KeyAt(hp, nit) <=> a = old
             /\ \A a \in DOMAIN h1.items :
                  InTable(h1, a) /\ KeyAt(h1, a) = KeyAt(h1, nit) <=> a = old
             /\ Lookup(hp, k) = old
  <2>1. ASSUME NEW a \in DOMAIN hp.items, InTable(hp, a), KeyAt(hp, a) = k
        PROVE  a = old
    BY <1>1, <1>4, <2>1, TableUnique
  <2>2. Lookup(hp, k) = old
    BY <1>1, <1>4, LookupFinds
  <2> HIDE DEF h1
  <2> QED
    BY <1>1, <1>2, <1>4, <2>1, <2>2
<1>5. CASE di # {}
  <2> DEFINE i == Least(di)
             old == hp.direct[i]
  <2>1. i \in di
    BY <1>1, <1>5, SlotsFinite, LeastIn
  <2>2. h = IF cas # NULL /\ cas # old THEN hp ELSE item_unref(DirectPut(h1, i, nit), old)
    BY <1>5 DEF hasht_put, KeyAt, DirectPut
  <2> HIDE DEF i
  <2>3. i \in 1 .. BucketItems /\ old # NULL /\ KeyAt(hp, old) = k
    BY <2>1 DEF DirectSlots, Holds, KeyAt
  <2>4. old \in DOMAIN hp.items /\ InTable(hp, old)
    BY <1>1, <2>3 DEF InTable, TableInv
  <2> HIDE DEF h, h1, di, ci
  <2>5. CASE cas # NULL /\ cas # old
    BY <1>3, <2>2, <2>5 DEF h
  <2>6. CASE ~(cas # NULL /\ cas # old)
    <3> DEFINE h2 == DirectPut(h1, i, nit)
    <3>1. /\ h2 \in HeapType /\ SamePlaces(h1, h2) /\ h2.segs = h1.segs /\ h2.items = h1.items
          /\ TableInv(h2) /\ Replaces(h1, h2, nit)
      BY <1>1, <1>2, <1>4, <2>3, <2>4, DirectPutDoes
    <3>2. h = Swapped(h2, old)
      BY <2>2, <2>3, <2>6 DEF Swapped
    <3> HIDE DEF h2
    <3>3. /\ HeapInv(Swapped(h2, old), L, V, r) /\ Replaces(hp, Swapped(h2, old), nit)
          /\ \A b \in DOMAIN hp.items : SameItem(hp, Swapped(h2, old), b)
      BY <1>1, <1>4, <2>3, <2>4, <3>1, SwapKeeps DEF h1
    <3>4. cas = NULL \/ Lookup(hp, k) = cas
      BY <1>4, <2>3, <2>4, <2>6
    <3> QED
      BY <3>2, <3>3, <3>4 DEF h
  <2> QED
    BY <2>5, <2>6
<1>6. CASE di = {} /\ cas # NULL
  <2>1. h = hp
    BY <1>6 DEF hasht_put, KeyAt
  <2> HIDE DEF h
  <2> QED
    BY <1>3, <1>6, <2>1 DEF h
<1>7. CASE di = {} /\ cas = NULL /\ ci # {}
  <2> DEFINE i == Least(ci)
             old == hp.chain[i]
  <2>1. i \in ci
    BY <1>1, <1>7, SlotsFinite, LeastIn
  <2>2. h = item_unref(ChainPut(h1, i, nit), old)
    BY <1>7 DEF hasht_put, KeyAt, ChainPut
  <2> HIDE DEF i
  <2>3. i \in 1 .. Len(hp.chain) /\ old # NULL /\ KeyAt(hp, old) = k
    BY <2>1 DEF ChainSlots, Holds, KeyAt
  <2>4. old \in DOMAIN hp.items /\ InTable(hp, old)
    BY <1>1, <2>3 DEF InTable, TableInv
  <2> HIDE DEF h, h1, di, ci
  <2> DEFINE h2 == ChainPut(h1, i, nit)
  <2>5. /\ h2 \in HeapType /\ SamePlaces(h1, h2) /\ h2.segs = h1.segs /\ h2.items = h1.items
        /\ TableInv(h2) /\ Replaces(h1, h2, nit)
    BY <1>1, <1>2, <1>4, <2>3, <2>4, ChainPutDoes
  <2>6. h = Swapped(h2, old)
    BY <2>2, <2>3 DEF Swapped
  <2> HIDE DEF h2
  <2>7. /\ HeapInv(Swapped(h2, old), L, V, r) /\ Replaces(hp, Swapped(h2, old), nit)
        /\ \A b \in DOMAIN hp.items : SameItem(hp, Swapped(h2, old), b)
    BY <1>1, <1>4, <2>3, <2>4, <2>5, SwapKeeps DEF h1
  <2> QED
    BY <1>7, <2>6, <2>7 DEF h
<1>8. CASE di = {} /\ cas = NULL /\ ci = {}
  <2>1. h = Insert(h1, nit)
    BY <1>8 DEF hasht_put, KeyAt
  <2>2. \A a \in DOMAIN hp.items : InTable(hp, a) => KeyAt(hp, a) # KeyAt(hp, nit)
    BY <1>1, <1>8 DEF InTable, DirectSlots, ChainSlots, Holds, KeyAt
  <2> HIDE DEF h, h1, di, ci
  <2> DEFINE h2 == Insert(h1, nit)
  <2>3. /\ h2 \in HeapType /\ SamePlaces(h1, h2) /\ h2.segs = h1.segs /\ h2.items = h1.items
        /\ TableInv(h2) /\ Replaces(h1, h2, nit)
    BY <1>1, <1>2, <2>2, InsertDoes
  <2>4. h = Swapped(h2, NULL)
    BY <2>1 DEF Swapped
  <2> HIDE DEF h2
  <2>5. \A a \in DOMAIN hp.items : InTable(hp, a) /\ KeyAt(hp, a) = KeyAt(hp, nit) <=> a = NULL
    BY <1>1, <2>2
  <2>6. /\ HeapInv(Swapped(h2, NULL), L, V, r) /\ Replaces(hp, Swapped(h2, NULL), nit)
        /\ \A b \in DOMAIN hp.items : SameItem(hp, Swapped(h2, NULL), b)
    BY <1>1, <2>3, <2>5, SwapKeeps DEF h1
  <2> QED
    BY <1>8, <2>4, <2>6 DEF h
<1> QED
  BY <1>5, <1>6, <1>7, <1>8

-----------------------------------------------------------------------------
(* Segments.                                                               *)

\* The types of the parts of a segment.
LEMMA SegFields ==
  ASSUME NEW hp \in HeapType, NEW s \in Segs
  PROVE  /\ hp.segs[s] \in SegType /\ hp.segs[s].offset \in 0 .. SegSize
         /\ hp.segs[s].offset \in Nat /\ hp.segs[s].freed \in Nat
BY HeapFields, Constants DEF SegType

\* Only the segments change, and the bytes alive stay as many.
LEMMA SegsChangeKeeps ==
  ASSUME NEW hp, NEW L, NEW V, NEW r, HeapInv(hp, L, V, r), NEW g \in [Segs -> SegType],
         \A s \in L : /\ g[s].offset >= hp.segs[s].offset
                      /\ g[s].offset - g[s].freed = hp.segs[s].offset - hp.segs[s].freed,
         \A s \in V : g[s].offset = hp.segs[s].offset /\ g[s].freed = hp.segs[s].freed
  PROVE  LET h == [hp EXCEPT !.segs = g]
         IN  HeapInv(h, L, V, r) /\ KeepsItems(hp, h) /\ SameTable(hp, h) /\ h.items = hp.items
<1> DEFINE h == [hp EXCEPT !.segs = g]
<1>1. hp \in HeapType /\ L \subseteq Segs /\ V \subseteq Segs
  BY HeapFacts
<1>2. /\ h \in HeapType /\ SamePlaces(hp, h) /\ SameTable(hp, h) /\ h.items = hp.items
      /\ h.segs = g
  BY <1>1 DEF HeapType, SamePlaces, SameTable
<1> HIDE DEF h
<1>3. PlacesInv(h, L, V)
  BY <1>2 DEF HeapInv, PlacesInv, SamePlaces, Free
<1>4. ItemsInv(h, L, V)
  <2>1. ASSUME NEW a \in DOMAIN hp.items, a[1] \in L
        PROVE  a[2] + hp.items[a].size <= g[a[1]].offset
    <3>1. a[2] \in Nat /\ hp.items[a].size \in Nat
      BY <1>1, HeapFields, Constants
    <3>2. hp.segs[a[1]].offset \in Nat /\ g[a[1]].offset \in Nat
      BY <1>1, <1>2, <2>1, SegFields
    <3>3. a[2] + hp.items[a].size <= hp.segs[a[1]].offset
      BY <2>1 DEF HeapInv, ItemsInv
    <3> QED
      BY <2>1, <3>1, <3>2, <3>3
  <2> QED
    BY <1>2, <2>1 DEF HeapInv, ItemsInv, SamePlaces
<1>5. BytesInv(h, L)
  BY <1>2 DEF HeapInv, BytesInv, Alive
<1>6. TableInv(h)
  BY <1>2 DEF HeapInv, TableInv, SameTable, KeyAt
<1>7. CountInv(h, r)
  BY <1>2 DEF HeapInv, CountInv, SameTable, InTable
<1>8. KeepsItems(hp, h)
  BY <1>2 DEF KeepsItems, SameItem
<1> QED
  BY <1>2, <1>3, <1>4, <1>5, <1>6, <1>7, <1>8 DEF HeapInv, h

\* The reserved segment is put to use.
LEMMA OpenKeeps ==
  ASSUME NEW hp, NEW L, NEW V, NEW r, HeapInv(hp, L, V, r), NEW s \in V
  PROVE  HeapInv(hp, L \cup {s}, V \ {s}, r)
<1>1. hp \in HeapType
  BY HeapFacts
<1>2. PlacesInv(hp, L \cup {s}, V \ {s})
  BY DEF HeapInv, PlacesInv
<1>3. /\ \A a \in DOMAIN hp.items : a[1] # s
      /\ hp.segs[s].offset = 0 /\ hp.segs[s].freed = 0
  BY DEF HeapInv, ItemsInv
<1>4. ItemsInv(hp, L \cup {s}, V \ {s})
  BY <1>3 DEF HeapInv, ItemsInv
<1>5. Bytes(hp.items, Alive(hp, s)) = 0
  <2>1. Alive(hp, s) = {}
    BY <1>3 DEF Alive
  <2> QED
    BY <2>1, BytesEmpty
<1>6. BytesInv(hp, L \cup {s})
  BY <1>3, <1>5 DEF HeapInv, BytesInv
<1> QED
  BY <1>2, <1>4, <1>6 DEF HeapInv

\* An item x, alive or dead, written at the offset of a segment in a log.
Wrote(hp, s, x) ==
  LET a == <<s, hp.segs[s].offset>> IN
  [hp EXCEPT !.items = Written(hp, a, x).items,
             !.segs[s].offset = @ + x.size,
             !.segs[s].freed = @ + (IF x.refcount = 0 THEN x.size ELSE 0)]

\* What an item written to an address changes.
LEMMA WroteDoes ==
  ASSUME NEW hp \in HeapType, NEW s \in Segs, NEW x \in ItemType,
         hp.segs[s].offset + x.size <= SegSize
  PROVE  LET a == <<s, hp.segs[s].offset>>
             h == Wrote(hp, s, x)
         IN  /\ a \in Addrs /\ a[1] = s /\ a[2] = hp.segs[s].offset
             /\ h \in HeapType /\ SamePlaces(hp, h) /\ SameTable(hp, h)
             /\ DOMAIN h.items = DOMAIN hp.items \cup {a} /\ h.items[a] = x
             /\ \A b \in DOMAIN hp.items : b # a => h.items[b] = hp.items[b]
             /\ h.segs[s].offset = hp.segs[s].offset + x.size
             /\ h.segs[s].freed = hp.segs[s].freed + (IF x.refcount = 0 THEN x.size ELSE 0)
             /\ \A t \in Segs : t # s => h.segs[t] = hp.segs[t]
<1> DEFINE a == <<s, hp.segs[s].offset>>
           h == Wrote(hp, s, x)
           D == DOMAIN hp.items \cup {a}
           its == [b \in D |-> IF b = a THEN x ELSE hp.items[b]]
           n == IF x.refcount = 0 THEN x.size ELSE 0
           t == [hp.segs[s] EXCEPT !.offset = @ + x.size, !.freed = @ + n]
           g == [hp.segs EXCEPT ![s] = t]
<1>1. hp.segs[s] \in SegType /\ hp.segs[s].offset \in 0 .. SegSize /\ hp.segs[s].freed \in Nat
      /\ x.size \in Nat
  BY SegFields DEF ItemType
<1>2. a \in Addrs /\ a[1] = s /\ a[2] = hp.segs[s].offset
  BY <1>1 DEF Addrs
<1>3. its \in Items
  <2>1. its \in [D -> ItemType]
    BY HeapFields
  <2>2. D \in SUBSET Addrs
    BY <1>2, HeapFields
  <2> HIDE DEF its, D
  <2> QED
    BY <2>1, <2>2, ItemsBuild
<1>4. /\ t \in SegType /\ t.offset = hp.segs[s].offset + x.size /\ t.freed = hp.segs[s].freed + n
  <2>1. n \in Nat /\ hp.segs[s].offset + x.size \in 0 .. SegSize /\ hp.segs[s].freed + n \in Nat
    BY <1>1, Constants
  <2> HIDE DEF n
  <2> QED
    BY <1>1, <2>1 DEF SegType
<1>5. Written(hp, a, x).items = its
  BY DEF Written, HeapType
<1>6. h = [hp EXCEPT !.items = its, !.segs = g]
  <2> HIDE DEF its, a
  <2>1. h = [hp EXCEPT !.items = its, !.segs[s].offset = @ + x.size, !.segs[s].freed = @ + n]
    BY <1>5 DEF Wrote, a
  <2> HIDE DEF h, n
  <2> QED
    BY <2>1 DEF HeapType
<1>7. /\ DOMAIN its = D /\ its[a] = x
      /\ \A b \in DOMAIN hp.items : b # a => its[b] = hp.items[b]
  OBVIOUS
<1>8. /\ g \in [Segs -> SegType] /\ g[s] = t
      /\ \A u \in Segs : u # s => g[u] = hp.segs[u]
  <2> HIDE DEF t
  <2> QED
    BY <1>4, HeapFields
<1> HIDE DEF its, t, g, n, h
<1>9. /\ h \in HeapType /\ SamePlaces(hp, h) /\ SameTable(hp, h) /\ h.items = its /\ h.segs = g
  BY <1>3, <1>6, <1>8 DEF HeapType, SamePlaces, SameTable
<1> QED
  BY <1>2, <1>4, <1>7, <1>8, <1>9 DEF h, n

\* What is written makes the bytes in use more by its own, if it is alive.
LEMMA WroteKeeps ==
  ASSUME NEW hp, NEW L, NEW V, NEW r, HeapInv(hp, L, V, r), NEW s \in L, NEW x \in ItemType,
         hp.segs[s].offset + x.size <= SegSize, x.refcount \in {0, 1},
         x.refcount = 1 => x.key \in Keys /\ x.size = Size(x.key)
  PROVE  LET a == <<s, hp.segs[s].offset>>
             h == Wrote(hp, s, x)
         IN  /\ a \in Addrs /\ a \notin DOMAIN hp.items /\ r[a] = 0 /\ h.items[a] = x
             /\ HeapInv(h, L, V, [r EXCEPT ![a] = x.refcount])
             /\ KeepsItems(hp, h) /\ SameTable(hp, h)
             /\ h.segs[s].offset = hp.segs[s].offset + x.size
             /\ \A t \in Segs : t # s => h.segs[t] = hp.segs[t]
             /\ SamePlaces(hp, h)
<1> DEFINE a == <<s, hp.segs[s].offset>>
           h == Wrote(hp, s, x)
           q == [r EXCEPT ![a] = x.refcount]
<1>1. /\ hp \in HeapType /\ r \in [Addrs -> Nat] /\ L \subseteq Segs /\ V \subseteq Segs
      /\ s \in Segs /\ s \notin V /\ hp.segs[s].offset \in Nat /\ hp.segs[s].freed \in Nat
  BY HeapFacts, SegFields DEF HeapInv, PlacesInv
<1>2. /\ a \in Addrs /\ a[1] = s /\ a[2] = hp.segs[s].offset
      /\ h \in HeapType /\ SamePlaces(hp, h) /\ SameTable(hp, h)
      /\ DOMAIN h.items = DOMAIN hp.items \cup {a} /\ h.items[a] = x
      /\ \A b \in DOMAIN hp.items : b # a => h.items[b] = hp.items[b]
      /\ h.segs[s].offset = hp.segs[s].offset + x.size
      /\ h.segs[s].freed = hp.segs[s].freed + (IF x.refcount = 0 THEN x.size ELSE 0)
      /\ \A t \in Segs : t # s => h.segs[t] = hp.segs[t]
  BY <1>1, WroteDoes
<1>3. x.size \in Nat \ {0} /\ x.refcount \in Nat
  BY DEF ItemType
<1> HIDE DEF a, h
<1>4. a \notin DOMAIN hp.items
  <2> SUFFICES ASSUME a \in DOMAIN hp.items PROVE FALSE
    OBVIOUS
  <2>1. hp.items[a].size \in Nat \ {0}
    BY <1>1, HeapFields
  <2>2. a[2] + hp.items[a].size <= hp.segs[a[1]].offset
    BY <1>2 DEF HeapInv, ItemsInv
  <2> QED
    BY <1>1, <1>2, <2>1, <2>2
<1>5. r[a] = 0
  BY <1>2, <1>4, HeapFacts
<1>6. \A b \in DOMAIN hp.items : b # a /\ h.items[b] = hp.items[b]
  BY <1>2, <1>4
<1>7. PlacesInv(h, L, V)
  BY <1>2 DEF HeapInv, SamePlaces, PlacesInv, Free
<1>8. ItemsInv(h, L, V)
  <2>1. ASSUME NEW b \in DOMAIN h.items
        PROVE  /\ b[1] \in 1 .. h.seg_alloced /\ b[1] \notin V
               /\ b[2] + h.items[b].size <= SegSize
               /\ b[1] \in L => b[2] + h.items[b].size <= h.segs[b[1]].offset
               /\ b[1] \notin L => h.items[b].refcount = 0
               /\ h.items[b].refcount > 0 =>
                    h.items[b].key \in Keys /\ h.items[b].size = Size(h.items[b].key)
    <3>1. CASE b = a
      <4>1. a[1] \in 1 .. h.seg_alloced
        BY <1>2 DEF HeapInv, PlacesInv, SamePlaces
      <4>2. /\ a[2] + h.items[a].size <= SegSize
            /\ a[2] + h.items[a].size = h.segs[a[1]].offset
            /\ h.items[a].refcount > 0 =>
                 h.items[a].key \in Keys /\ h.items[a].size = Size(h.items[a].key)
        BY <1>2, <1>3
      <4>3. a[2] + h.items[a].size \in Nat
        BY <1>1, <1>2, <1>3
      <4> QED
        BY <1>1, <1>2, <3>1, <4>1, <4>2, <4>3
    <3>2. CASE b # a
      <4>1. b \in DOMAIN hp.items /\ h.items[b] = hp.items[b] /\ b[1] \in Segs
            /\ b[2] \in Nat /\ hp.items[b].size \in Nat
        BY <1>1, <1>2, <3>2, HeapFields, Constants
      <4>2. /\ b[1] \in 1 .. h.seg_alloced /\ b[1] \notin V
            /\ b[2] + hp.items[b].size <= SegSize
            /\ b[1] \in L => b[2] + hp.items[b].size <= hp.segs[b[1]].offset
            /\ b[1] \notin L => hp.items[b].refcount = 0
            /\ hp.items[b].refcount > 0 =>
                 hp.items[b].key \in Keys /\ hp.items[b].size = Size(hp.items[b].key)
        BY <1>2, <4>1 DEF HeapInv, ItemsInv, SamePlaces
      <4>3. b[1] \in L => b[2] + hp.items[b].size <= h.segs[b[1]].offset
        <5>1. CASE b[1] = s
          BY <1>1, <1>2, <1>3, <4>1, <4>2, <5>1
        <5>2. CASE b[1] # s
          BY <1>2, <4>1, <4>2, <5>2
        <5> QED
          BY <5>1, <5>2
      <4> QED
        BY <4>1, <4>2, <4>3
    <3> QED
      BY <3>1, <3>2
  <2>2. \A t \in V : h.segs[t].offset = 0 /\ h.segs[t].freed = 0
    BY <1>1, <1>2 DEF HeapInv, ItemsInv
  <2> QED
    BY <2>1, <2>2 DEF ItemsInv
<1>9. BytesInv(h, L)
  <2> SUFFICES ASSUME NEW t \in L
               PROVE  h.segs[t].offset - h.segs[t].freed = Bytes(h.items, Alive(h, t))
    BY DEF BytesInv
  <2> DEFINE old == Alive(hp, t)
             new == Alive(h, t)
  <2>1. /\ IsFiniteSet(old) /\ \A b \in old : hp.items[b].size \in Nat
    BY <1>1, AliveFinite
  <2>2. /\ t \in Segs /\ hp.segs[t].offset - hp.segs[t].freed = Bytes(hp.items, old)
    BY <1>1 DEF HeapInv, BytesInv
  <2>3. \A b \in DOMAIN hp.items : b \in new <=> b \in old
    BY <1>2, <1>6 DEF Alive
  <2>4. new \subseteq DOMAIN hp.items \cup {a} /\ old \subseteq DOMAIN hp.items
    BY <1>2 DEF Alive
  <2>5. \A b \in old : h.items[b].size = hp.items[b].size
    BY <1>6, <2>4
  <2>6. Bytes(h.items, old) = Bytes(hp.items, old)
    BY <2>1, <2>5, BytesSame
  <2>7. Bytes(hp.items, old) \in Nat
    BY <2>1, BytesNat
  <2>8. CASE t # s \/ x.refcount = 0
    <3>1. a \notin new
      BY <1>2, <2>8 DEF Alive
    <3>2. new = old
      BY <2>3, <2>4, <3>1
    <3>3. h.segs[t].offset - h.segs[t].freed = hp.segs[t].offset - hp.segs[t].freed
      BY <1>1, <1>2, <1>3, <2>2, <2>8
    <3> QED
      BY <2>2, <2>6, <3>2, <3>3
  <2>9. CASE t = s /\ x.refcount = 1
    <3>1. a \in new /\ a \notin old
      BY <1>2, <1>4, <2>9 DEF Alive
    <3>2. new = old \cup {a}
      BY <2>3, <2>4, <3>1
    <3>3. \A b \in old : h.items[b].size \in Nat
      BY <2>1, <2>5
    <3>4. h.items[a].size = x.size
      BY <1>2
    <3> HIDE DEF old, new
    <3>5. Bytes(h.items, new) = Bytes(h.items, old) + x.size
      BY <1>3, <2>1, <3>1, <3>2, <3>3, <3>4, BytesAdd
    <3>6. h.segs[s].offset = hp.segs[s].offset + x.size /\ h.segs[s].freed = hp.segs[s].freed
      BY <1>1, <1>2, <2>9
    <3>7. h.segs[t].offset - h.segs[t].freed = Bytes(h.items, new)
      BY <1>1, <1>3, <2>2, <2>6, <2>7, <2>9, <3>5, <3>6
    <3> QED
      BY <3>7 DEF new
  <2> QED
    BY <2>8, <2>9
<1>10. TableInv(h)
  <2>1. \A b \in DOMAIN hp.items : b \in DOMAIN h.items /\ KeyAt(h, b) = KeyAt(hp, b)
    BY <1>2, <1>6 DEF KeyAt
  <2>2. h.direct = hp.direct /\ h.chain = hp.chain /\ TableInv(hp)
    BY <1>2 DEF SameTable, HeapInv
  <2> HIDE DEF KeyAt
  <2> QED
    BY <2>1, <2>2 DEF TableInv
<1>11. CountInv(h, q)
  <2>1. q \in [Addrs -> Nat]
    BY <1>1, <1>3
  <2>2. \A b : InTable(h, b) <=> InTable(hp, b)
    BY <1>2 DEF SameTable, InTable
  <2>3. ~InTable(hp, a)
    BY <1>2, <1>4, HeapFacts, Constants
  <2>4. ASSUME NEW b \in DOMAIN h.items
        PROVE  h.items[b].refcount = (IF InTable(h, b) THEN 1 ELSE 0) + q[b]
    <3>1. CASE b = a
      BY <1>1, <1>2, <1>3, <2>2, <2>3, <3>1
    <3>2. CASE b # a
      BY <1>1, <1>2, <1>6, <2>2, <3>2 DEF HeapInv, CountInv
    <3> QED
      BY <3>1, <3>2
  <2>5. ASSUME NEW b \in Addrs, q[b] # 0
        PROVE  b \in DOMAIN h.items
    BY <1>1, <1>2, <2>5, HeapFacts
  <2> QED
    BY <2>1, <2>4, <2>5 DEF CountInv
<1>12. KeepsItems(hp, h)
  BY <1>2, <1>6 DEF KeepsItems, SameItem
<1> QED
  BY <1>2, <1>4, <1>5, <1>7, <1>8, <1>9, <1>10, <1>11, <1>12 DEF HeapInv, a, h

\* A flag of a segment matters to nobody's bytes.
FlagSet(hp, h, s) ==
  \E f \in {"inactive", "cleaned"} : h = [hp EXCEPT !.segs[s][f] = TRUE]

\* A flag of a segment is in no account.
LEMMA FlagKeeps ==
  ASSUME NEW hp, NEW L, NEW V, NEW r, HeapInv(hp, L, V, r), NEW s \in Segs, NEW h,
         FlagSet(hp, h, s)
  PROVE  HeapInv(h, L, V, r) /\ KeepsItems(hp, h) /\ SameTable(hp, h) /\ h.items = hp.items
<1>1. /\ hp \in HeapType /\ hp.segs \in [Segs -> SegType] /\ hp.segs[s] \in SegType
      /\ L \subseteq Segs /\ V \subseteq Segs
  BY HeapFacts, SegFields, HeapFields
<1>2. PICK f \in {"inactive", "cleaned"} : h = [hp EXCEPT !.segs[s][f] = TRUE]
  BY DEF FlagSet
<1> DEFINE x == [hp.segs[s] EXCEPT ![f] = TRUE]
           g == [hp.segs EXCEPT ![s] = x]
<1>3. x \in SegType /\ x.offset = hp.segs[s].offset /\ x.freed = hp.segs[s].freed
  BY <1>1 DEF SegType
<1>4. h = [hp EXCEPT !.segs = g]
  BY <1>1, <1>2 DEF HeapType
<1> HIDE DEF x
<1>5. /\ g \in [Segs -> SegType] /\ g[s] = x
      /\ \A t \in Segs : t # s => g[t] = hp.segs[t]
  BY <1>1, <1>3
<1> HIDE DEF g
<1>6. \A t \in Segs : /\ g[t].offset = hp.segs[t].offset /\ g[t].freed = hp.segs[t].freed
                      /\ hp.segs[t].offset \in Nat
  BY <1>1, <1>3, <1>5, SegFields
<1>7. \A t \in L : /\ g[t].offset >= hp.segs[t].offset
                   /\ g[t].offset - g[t].freed = hp.segs[t].offset - hp.segs[t].freed
  BY <1>1, <1>6
<1>8. \A t \in V : g[t].offset = hp.segs[t].offset /\ g[t].freed = hp.segs[t].freed
  BY <1>1, <1>6
<1> QED
  BY <1>4, <1>5, <1>7, <1>8, SegsChangeKeeps

\* Keeping the items of two steps.
LEMMA KeepsTrans ==
  ASSUME NEW hp, NEW h1, NEW h2, KeepsItems(hp, h1), KeepsItems(h1, h2),
         \A a \in DOMAIN hp.items : hp.items[a].refcount > 0 => h1.items[a].refcount > 0
  PROVE  KeepsItems(hp, h2)
BY DEF KeepsItems, SameItem

\* With the same references to count, who was alive still is.
LEMMA StillAlive ==
  ASSUME NEW hp, NEW L, NEW V, NEW r, HeapInv(hp, L, V, r), NEW h, NEW M, NEW W, NEW q,
         HeapInv(h, M, W, q), KeepsItems(hp, h), SameTable(hp, h),
         \A a \in Addrs : r[a] # 0 => q[a] # 0
  PROVE  \A a \in DOMAIN hp.items : hp.items[a].refcount > 0 => h.items[a].refcount > 0
<1> SUFFICES ASSUME NEW a \in DOMAIN hp.items, hp.items[a].refcount > 0
             PROVE  h.items[a].refcount > 0
  OBVIOUS
<1>1. /\ hp \in HeapType /\ a \in Addrs /\ r[a] \in Nat /\ hp.items[a].refcount \in Nat
      /\ a # NULL /\ a \in DOMAIN h.items
  BY HeapFacts, HeapFields, Constants DEF KeepsItems, SameItem
<1>2. hp.items[a].refcount = (IF InTable(hp, a) THEN 1 ELSE 0) + r[a]
  BY DEF HeapInv, CountInv
<1>3. CASE r[a] # 0
  BY <1>1, <1>3, HeapFacts
<1>4. CASE r[a] = 0
  <2>1. InTable(hp, a)
    BY <1>1, <1>2, <1>4
  <2>2. InTable(h, a)
    BY <2>1 DEF SameTable, InTable
  <2> QED
    BY <1>1, <2>2, HeapFacts
<1> QED
  BY <1>3, <1>4

\* What is left of a segment is counted as handed out and as freed.
LEMMA RestKeeps ==
  ASSUME NEW hp, NEW L, NEW V, NEW r, HeapInv(hp, L, V, r), NEW s \in L,
         NEW d \in Nat, hp.segs[s].offset + d = SegSize
  PROVE  LET h == [hp EXCEPT !.segs[s].offset = SegSize, !.segs[s].freed = @ + d]
         IN  HeapInv(h, L, V, r) /\ KeepsItems(hp, h) /\ SameTable(hp, h)
<1> DEFINE h == [hp EXCEPT !.segs[s].offset = SegSize, !.segs[s].freed = @ + d]
           x == [hp.segs[s] EXCEPT !.offset = SegSize, !.freed = @ + d]
           g == [hp.segs EXCEPT ![s] = x]
<1>1. /\ hp \in HeapType /\ s \in Segs /\ L \subseteq Segs /\ V \subseteq Segs /\ s \notin V
  BY HeapFacts DEF HeapInv, PlacesInv
<1>2. hp.segs[s] \in SegType /\ hp.segs[s].offset \in Nat /\ hp.segs[s].freed \in Nat
  BY <1>1, SegFields
<1>3. h = [hp EXCEPT !.segs = g]
  BY <1>1 DEF HeapType
<1>4. x \in SegType /\ x.offset = SegSize /\ x.freed = hp.segs[s].freed + d
  <2>1. hp.segs[s].freed + d \in Nat /\ SegSize \in 0 .. SegSize
    BY <1>2, Constants
  <2> QED
    BY <1>2, <2>1 DEF SegType
<1> HIDE DEF x
<1>5. /\ g \in [Segs -> SegType] /\ g[s] = x
      /\ \A t \in Segs : t # s => g[t] = hp.segs[t]
  BY <1>1, <1>4, HeapFields
<1> HIDE DEF g, h
<1>6. \A t \in L : /\ g[t].offset >= hp.segs[t].offset
                   /\ g[t].offset - g[t].freed = hp.segs[t].offset - hp.segs[t].freed
  BY <1>1, <1>2, <1>4, <1>5, SegFields
<1>7. \A t \in V : g[t].offset = hp.segs[t].offset /\ g[t].freed = hp.segs[t].freed
  BY <1>1, <1>5
<1> QED
  BY <1>3, <1>5, <1>6, <1>7, SegsChangeKeeps DEF h

\* segment_item_alloc, when it fails ...
LEMMA CloseKeeps ==
  ASSUME NEW hp, NEW L, NEW V, NEW r, HeapInv(hp, L, V, r), NEW s \in L
  PROVE  LET h == CloseSegment(hp, s)
         IN  HeapInv(h, L, V, r) /\ KeepsItems(hp, h) /\ SameTable(hp, h)
<1> DEFINE h == CloseSegment(hp, s)
           off == hp.segs[s].offset
           avail == SegSize - off
           n == HeaderSize + ((avail - HeaderSize) % KeyWidth)
           filler == [refcount |-> 0, key |-> NULL, val |-> NULL, size |-> n]
           a == <<s, off>>
<1>1. /\ hp \in HeapType /\ s \in Segs /\ r \in [Addrs -> Nat] /\ L \subseteq Segs
      /\ V \subseteq Segs /\ s \notin V
      /\ hp.segs[s] \in SegType /\ off \in 0 .. SegSize /\ off \in Nat /\ hp.segs[s].freed \in Nat
      /\ avail \in Nat /\ off + avail = SegSize
  <2>1. /\ hp \in HeapType /\ s \in Segs /\ r \in [Addrs -> Nat] /\ L \subseteq Segs
        /\ V \subseteq Segs /\ s \notin V
    BY HeapFacts DEF HeapInv, PlacesInv
  <2>2. /\ hp.segs[s] \in SegType /\ off \in 0 .. SegSize /\ off \in Nat
        /\ hp.segs[s].freed \in Nat
    BY <2>1, SegFields
  <2> HIDE DEF off
  <2> QED
    BY <2>1, <2>2, Constants
<1>2. CASE avail = 0
  BY <1>2 DEF CloseSegment, KeepsItems, SameItem, SameTable
<1>3. CASE avail # 0 /\ avail >= HeaderSize
  <2> DEFINE h1 == Wrote(hp, s, filler)
             d == avail - n
  <2>1. n \in Nat \ {0} /\ n <= avail /\ d \in Nat
    <3>1. \A b, c \in Nat : c # 0 => b % c \in Nat /\ b % c <= b
      BY SMTT(30)
    <3>2. avail - HeaderSize \in Nat /\ KeyWidth \in Nat \ {0} /\ HeaderSize \in Nat \ {0}
      BY <1>1, <1>3, Constants, KvsAssumption
    <3>3. PICK m : m = (avail - HeaderSize) % KeyWidth
      OBVIOUS
    <3>4. m \in Nat /\ m <= avail - HeaderSize
      BY <3>1, <3>2, <3>3
    <3> HIDE DEF avail
    <3> QED
      BY <1>1, <3>2, <3>3, <3>4
  <2> HIDE DEF n
  <2>2. /\ filler \in ItemType /\ filler.refcount = 0 /\ filler.size = n
        /\ hp.segs[s].offset + filler.size <= SegSize
    BY <1>1, <2>1 DEF ItemType
  <2>3. /\ a \in Addrs /\ r[a] = 0
        /\ HeapInv(h1, L, V, [r EXCEPT ![a] = filler.refcount])
        /\ KeepsItems(hp, h1) /\ SameTable(hp, h1)
        /\ h1.segs[s].offset = hp.segs[s].offset + filler.size
    <3> HIDE DEF filler, h1, avail, d
    <3> QED
      BY <2>2, WroteKeeps, SMTT(60) DEF h1
  <2>4. HeapInv(h1, L, V, r)
    <3>1. [r EXCEPT ![a] = filler.refcount] = r
      BY <1>1, <2>2, <2>3
    <3> HIDE DEF h1
    <3> QED
      BY <2>3, <3>1
  <2>5. h = [h1 EXCEPT !.segs[s].offset = SegSize, !.segs[s].freed = @ + d]
    <3>1. PICK i, f1, o1, f2 : /\ i = Written(hp, a, filler).items
                               /\ f1 = hp.segs[s].freed + n /\ o1 = hp.segs[s].offset + n
                               /\ f2 = hp.segs[s].freed + avail
      OBVIOUS
    <3>2. h = [Written(hp, a, filler) EXCEPT !.segs[s].offset = SegSize, !.segs[s].freed = f2]
      BY <1>3, <3>1 DEF CloseSegment, n, Written
    <3>3. h = [hp EXCEPT !.items = i, !.segs[s].offset = SegSize, !.segs[s].freed = f2]
      <4> HIDE DEF h, filler
      <4> QED
        BY <1>1, <3>1, <3>2 DEF Written, HeapType
    <3>4. h1 = [hp EXCEPT !.items = i, !.segs[s].offset = o1, !.segs[s].freed = f1]
      BY <2>2, <3>1 DEF Wrote
    <3>5. f1 + d = f2
      BY <1>1, <2>1, <3>1
    <3> HIDE DEF h, h1, d, avail, filler
    <3>6. h1.segs[s].freed = f1
      BY <1>1, <3>4 DEF HeapType, SegType
    <3>7. PICK g : g = [hp.segs EXCEPT ![s] = [@ EXCEPT !.offset = SegSize, !.freed = f2]]
      OBVIOUS
    <3>8. h = [hp EXCEPT !.items = i, !.segs = g]
      BY <1>1, <3>3, <3>7 DEF HeapType, SegType
    <3>9. [h1 EXCEPT !.segs[s].offset = SegSize, !.segs[s].freed = f2]
            = [hp EXCEPT !.items = i, !.segs = g]
      <4>1. PICK g1 : g1 = [hp.segs EXCEPT ![s] = [@ EXCEPT !.offset = o1, !.freed = f1]]
        OBVIOUS
      <4>2. h1 = [hp EXCEPT !.items = i, !.segs = g1]
        BY <1>1, <3>4, <4>1 DEF HeapType, SegType
      <4>3. PICK g2 : g2 = [g1 EXCEPT ![s] = [@ EXCEPT !.offset = SegSize, !.freed = f2]]
        OBVIOUS
      <4>4. g2 = g
        BY <1>1, <3>7, <4>1, <4>3 DEF HeapType, SegType
      <4>5. [h1 EXCEPT !.segs[s].offset = SegSize, !.segs[s].freed = f2]
              = [h1 EXCEPT !.segs = g2]
        <5>1. h1 \in HeapType /\ h1.segs = g1 /\ s \in Segs
          BY <1>1, <2>3, <4>2 DEF HeapType, HeapInv
        <5> QED
          BY ONLY <4>3, <5>1 DEF HeapType, SegType
      <4>6. [h1 EXCEPT !.segs = g2] = [hp EXCEPT !.items = i, !.segs = g2]
        BY <1>1, <4>2 DEF HeapType
      <4> QED
        BY <4>4, <4>5, <4>6
    <3> QED
      BY <3>5, <3>6, <3>8, <3>9
  <2>6. h1.segs[s].offset + d = SegSize
    BY <1>1, <2>1, <2>2, <2>3
  <2> HIDE DEF h, h1, d, filler, avail
  <2>7. HeapInv(h, L, V, r) /\ KeepsItems(h1, h) /\ SameTable(h1, h)
    BY <2>1, <2>4, <2>5, <2>6, RestKeeps
  <2>8. \A b \in DOMAIN hp.items : hp.items[b].refcount > 0 => h1.items[b].refcount > 0
    BY <2>3, <2>4, StillAlive
  <2>9. KeepsItems(hp, h)
    BY <2>3, <2>7, <2>8, KeepsTrans
  <2> QED
    BY <2>3, <2>7, <2>9 DEF h, SameTable
<1>4. CASE avail # 0 /\ ~(avail >= HeaderSize)
  <2>1. h = [hp EXCEPT !.segs[s].offset = SegSize, !.segs[s].freed = @ + avail]
    BY <1>4 DEF CloseSegment
  <2> HIDE DEF h, avail
  <2>2. HeapInv(h, L, V, r) /\ KeepsItems(hp, h) /\ SameTable(hp, h)
    BY <1>1, <2>1, RestKeeps
  <2> QED
    BY <2>2 DEF h
<1> QED
  BY <1>2, <1>3, <1>4

\* ... and when it succeeds.
LEMMA PlaceKeeps ==
  ASSUME NEW hp, NEW L, NEW V, NEW r, HeapInv(hp, L, V, r), NEW s \in L,
         NEW k \in Keys, NEW v \in Vals \cup {NULL}, Fits(hp, s, k)
  PROVE  LET a == <<s, hp.segs[s].offset>>
             h == PlaceItem(hp, s, k, v)
         IN  /\ a \in Addrs /\ r[a] = 0 /\ a \notin DOMAIN hp.items /\ h.items[a] = Item(k, v)
             /\ HeapInv(h, L, V, [r EXCEPT ![a] = 1]) /\ KeepsItems(hp, h) /\ SameTable(hp, h)
<1> DEFINE a == <<s, hp.segs[s].offset>>
           h == PlaceItem(hp, s, k, v)
           x == Item(k, v)
<1>1. /\ hp \in HeapType /\ s \in Segs /\ hp.segs[s] \in SegType
      /\ hp.segs[s].offset \in Nat /\ hp.segs[s].freed \in Nat
  BY HeapFacts, SegFields
<1>2. /\ x \in ItemType /\ x.refcount = 1 /\ x.key = k /\ x.size = Size(k)
  BY Constants DEF Item, ItemType
<1>3. hp.segs[s].offset + x.size <= SegSize
  BY <1>1, <1>2, Constants DEF Fits
<1> HIDE DEF x
<1>4. h = Wrote(hp, s, x)
  <2>1. h = [Written(hp, a, x) EXCEPT !.segs[s].offset = @ + x.size]
    BY <1>2 DEF PlaceItem, x
  <2>2. Wrote(hp, s, x) = [hp EXCEPT !.items = Written(hp, a, x).items,
                                      !.segs[s].offset = @ + x.size]
    <3> DEFINE its == Written(hp, a, x).items
               n == IF x.refcount = 0 THEN x.size ELSE 0
    <3>1. Wrote(hp, s, x) = [hp EXCEPT !.items = its, !.segs[s].offset = @ + x.size,
                                        !.segs[s].freed = @ + n]
      BY DEF Wrote
    <3>2. n = 0
      BY <1>2
    <3> HIDE DEF its, n
    <3> DEFINE o == [hp.segs[s] EXCEPT !.offset = @ + x.size]
               t == [hp.segs[s] EXCEPT !.offset = @ + x.size, !.freed = @ + n]
    <3>3. t = o
      <4> DEFINE q == hp.segs[s]
                 m == q.offset + x.size
      <4>1. q \in SegType /\ q.freed + n = q.freed
        BY <1>1, <3>2
      <4>2. t = [q EXCEPT !.offset = m, !.freed = q.freed] /\ o = [q EXCEPT !.offset = m]
        BY <4>1
      <4> HIDE DEF q, m, t, o
      <4>3. [q EXCEPT !.offset = m, !.freed = q.freed] = [q EXCEPT !.offset = m]
        BY <4>1 DEF SegType
      <4> QED
        BY <4>2, <4>3
    <3>4. Wrote(hp, s, x) = [hp EXCEPT !.items = its, !.segs = [hp.segs EXCEPT ![s] = t]]
      BY <1>1, <3>1 DEF HeapType
    <3>5. [hp EXCEPT !.items = its, !.segs[s].offset = @ + x.size]
            = [hp EXCEPT !.items = its, !.segs = [hp.segs EXCEPT ![s] = o]]
      BY <1>1 DEF HeapType
    <3> QED
      BY <3>3, <3>4, <3>5 DEF its
  <2> QED
    BY <2>1, <2>2 DEF Written, HeapType
<1> HIDE DEF h
<1>5. /\ a \in Addrs /\ a \notin DOMAIN hp.items /\ r[a] = 0 /\ Wrote(hp, s, x).items[a] = x
      /\ HeapInv(Wrote(hp, s, x), L, V, [r EXCEPT ![a] = x.refcount])
      /\ KeepsItems(hp, Wrote(hp, s, x)) /\ SameTable(hp, Wrote(hp, s, x))
  BY <1>2, <1>3, WroteKeeps
<1> QED
  BY <1>2, <1>4, <1>5 DEF h, x

-----------------------------------------------------------------------------
(* segment_alloc, segment_free, ialloc_alloc.                              *)

\* The segment to allocate is in no log and in no reserve.
LEMMA NextSegmentIs ==
  ASSUME NEW hp, NEW L, NEW V, NEW r, HeapInv(hp, L, V, r), NEW s, s = NextSegment(hp), s # NULL
  PROVE  /\ s \in Segs /\ s \notin L /\ s \notin V
         /\ \/ hp.free_segments # << >> /\ 1 \in 1 .. Len(hp.free_segments)
               /\ s = hp.free_segments[1]
            \/ hp.free_segments = << >> /\ s = hp.seg_alloced + 1 /\ s <= NSegs
<1>1. hp \in HeapType /\ hp.free_segments \in Seq(Segs) /\ hp.seg_alloced \in Nat
  BY HeapFacts, HeapFields
<1>2. /\ L \subseteq 1 .. hp.seg_alloced /\ V \subseteq 1 .. hp.seg_alloced
      /\ L \cap Free(hp) = {} /\ V \cap Free(hp) = {}
  BY DEF HeapInv, PlacesInv
<1>3. CASE hp.free_segments # << >>
  <2>1. 1 \in 1 .. Len(hp.free_segments)
    BY <1>1, <1>3
  <2>2. s = hp.free_segments[1]
    BY <1>3 DEF NextSegment
  <2>3. s \in Free(hp) /\ s \in Segs
    BY <1>1, <2>1, <2>2 DEF Free
  <2> QED
    BY <1>2, <1>3, <2>1, <2>2, <2>3
<1>4. CASE hp.free_segments = << >>
  <2>1. hp.seg_alloced < NSegs /\ s = hp.seg_alloced + 1
    BY <1>4 DEF NextSegment
  <2>2. s \in Segs /\ s <= NSegs /\ s \notin 1 .. hp.seg_alloced
    BY <1>1, <2>1, Constants DEF Segs
  <2> QED
    BY <1>2, <1>4, <2>1, <2>2
<1> QED
  BY <1>3, <1>4

\* The items left in the segment are dead, so that nobody misses them.
LEMMA SegmentAllocKeeps ==
  ASSUME NEW hp, NEW L, NEW V, NEW r, HeapInv(hp, L, V, r), NEW s, s = NextSegment(hp), s # NULL
  PROVE  LET h == segment_alloc(hp)
         IN  /\ s \in Segs /\ s \notin L /\ s \notin V
             /\ HeapInv(h, L, V \cup {s}, r) /\ KeepsItems(hp, h) /\ SameTable(hp, h)
<1> DEFINE h == segment_alloc(hp)
           D == {a \in DOMAIN hp.items : a[1] # s}
           its == [a \in D |-> hp.items[a]]
           g == [hp.segs EXCEPT ![s] = FreshSegment]
           fr == IF hp.free_segments = << >> THEN hp.free_segments ELSE Tail(hp.free_segments)
           n == IF hp.free_segments = << >> THEN hp.seg_alloced + 1 ELSE hp.seg_alloced
<1>1. /\ hp \in HeapType /\ hp.free_segments \in Seq(Segs) /\ hp.seg_alloced \in Nat
      /\ r \in [Addrs -> Nat] /\ L \subseteq Segs /\ V \subseteq Segs
  BY HeapFacts, HeapFields
<1>2. /\ s \in Segs /\ s \notin L /\ s \notin V
      /\ \/ hp.free_segments # << >> /\ 1 \in 1 .. Len(hp.free_segments)
            /\ s = hp.free_segments[1]
         \/ hp.free_segments = << >> /\ s = hp.seg_alloced + 1 /\ s <= NSegs
  BY NextSegmentIs
<1>3. its \in Items /\ DOMAIN its = D /\ D \subseteq DOMAIN hp.items
      /\ \A a \in D : its[a] = hp.items[a]
  <2>1. its \in [D -> ItemType]
    BY HeapFields, <1>1
  <2>2. D \in SUBSET Addrs
    BY <1>1, HeapFields
  <2>3. its \in Items
    <3> HIDE DEF its, D
    <3> QED
      BY <2>1, <2>2, ItemsBuild
  <2> QED
    BY <2>3
<1>4. FreshSegment \in SegType /\ FreshSegment.offset = 0 /\ FreshSegment.freed = 0
  BY Constants DEF FreshSegment, SegType
<1>5. /\ g \in [Segs -> SegType] /\ g[s] = FreshSegment
      /\ \A t \in Segs : t # s => g[t] = hp.segs[t]
  BY <1>1, <1>2, <1>4, HeapFields
<1>6. /\ fr \in Seq(Segs)
      /\ hp.free_segments # << >> =>
           /\ Len(fr) = Len(hp.free_segments) - 1
           /\ \A i \in 1 .. Len(fr) : fr[i] = hp.free_segments[i + 1]
  BY <1>1
<1>7. h = [hp EXCEPT !.segs = g, !.items = its, !.free_segments = fr, !.seg_alloced = n]
  <2> DEFINE old == {a \in DOMAIN hp.items : a[1] = s}
  <2>1. [a \in DOMAIN hp.items \ old |-> hp.items[a]] = its
    <3>1. DOMAIN hp.items \ old = D
      OBVIOUS
    <3> QED
      BY <3>1
  <2>2. h = [hp EXCEPT !.segs[s] = FreshSegment,
                       !.items = [a \in DOMAIN hp.items \ old |-> hp.items[a]],
                       !.free_segments = IF @ = << >> THEN @ ELSE Tail(@),
                       !.seg_alloced = IF hp.free_segments = << >> THEN @ + 1 ELSE @]
    BY DEF segment_alloc
  <2> HIDE DEF its, old, h
  <2> QED
    BY <1>1, <2>1, <2>2 DEF HeapType
<1>8. n \in Nat
  BY <1>1
<1> HIDE DEF h, its, g, fr
<1>9. /\ h \in HeapType /\ SameTable(hp, h) /\ h.items = its /\ h.segs = g
      /\ h.free_segments = fr /\ h.seg_alloced = n
  <2> HIDE DEF n
  <2> QED
    BY <1>1, <1>3, <1>5, <1>6, <1>7, <1>8 DEF HeapType, SameTable
<1>10. \A a \in DOMAIN hp.items : hp.items[a].refcount > 0 => a \in D /\ its[a] = hp.items[a]
  <2>1. ASSUME NEW a \in DOMAIN hp.items, hp.items[a].refcount > 0
        PROVE  a[1] # s
    BY <1>2, <2>1, HeapFacts
  <2> QED
    BY <1>3, <2>1
<1>11. PlacesInv(h, L, V \cup {s})
  <2>0. /\ L \subseteq 1 .. hp.seg_alloced /\ V \subseteq 1 .. hp.seg_alloced
        /\ Free(hp) \subseteq 1 .. hp.seg_alloced /\ hp.seg_alloced <= NSegs
        /\ 1 .. hp.seg_alloced \subseteq L \cup V \cup Free(hp)
        /\ L \cap V = {} /\ L \cap Free(hp) = {} /\ V \cap Free(hp) = {}
        /\ \A i, j \in 1 .. Len(hp.free_segments) :
             hp.free_segments[i] = hp.free_segments[j] => i = j
    BY DEF HeapInv, PlacesInv
  <2>9. s \notin L /\ s \notin V
    BY <1>2
  <2>1. CASE hp.free_segments # << >>
    <3>1. \A i \in 1 .. Len(fr) : /\ i + 1 \in 1 .. Len(hp.free_segments) /\ i + 1 # 1
                                  /\ fr[i] = hp.free_segments[i + 1]
      BY <1>1, <1>6, <2>1
    <3>2. \A i \in 1 .. Len(hp.free_segments) :
            i # 1 => i - 1 \in 1 .. Len(fr) /\ fr[i - 1] = hp.free_segments[i]
      BY <1>1, <1>6, <2>1
    <3>3. Free(hp) = Free(h) \cup {s} /\ s \notin Free(h)
      <4>1. ASSUME NEW t \in Free(h)
            PROVE  t \in Free(hp) /\ t # s
        <5>1. PICK i \in 1 .. Len(fr) : t = fr[i]
          BY <1>9 DEF Free
        <5>2. /\ i + 1 \in 1 .. Len(hp.free_segments) /\ i + 1 # 1
              /\ t = hp.free_segments[i + 1]
          BY <3>1, <5>1
        <5> QED
          BY <1>2, <2>0, <2>1, <5>2 DEF Free
      <4>2. ASSUME NEW t \in Free(hp), t # s
            PROVE  t \in Free(h)
        <5>1. PICK i \in 1 .. Len(hp.free_segments) : t = hp.free_segments[i]
          BY DEF Free
        <5>2. i # 1
          BY <1>2, <2>1, <4>2, <5>1
        <5>3. i - 1 \in 1 .. Len(fr) /\ t = fr[i - 1]
          BY <3>2, <5>1, <5>2
        <5> QED
          BY <1>9, <5>3 DEF Free
      <4>3. s \in Free(hp)
        BY <1>2, <2>1 DEF Free
      <4> QED
        BY <4>1, <4>2, <4>3
    <3>4. ASSUME NEW i \in 1 .. Len(fr), NEW j \in 1 .. Len(fr), fr[i] = fr[j]
          PROVE  i = j
      <4>1. i + 1 = j + 1
        BY <2>0, <3>1, <3>4
      <4> QED
        BY <4>1
    <3>5. h.seg_alloced = hp.seg_alloced
      BY <1>9, <2>1
    <3> HIDE DEF n
    <3> DEFINE A == 1 .. hp.seg_alloced
               F == Free(h)
    <3>6. /\ L \subseteq A /\ V \cup {s} \subseteq A /\ F \subseteq A
          /\ A \subseteq L \cup (V \cup {s}) \cup F
          /\ L \cap (V \cup {s}) = {} /\ L \cap F = {} /\ (V \cup {s}) \cap F = {}
      <4> HIDE DEF A, F
      <4> QED
        BY <2>9, <2>0, <3>3 DEF A, F
    <3> QED
      BY <1>9, <2>0, <3>4, <3>5, <3>6 DEF PlacesInv
  <2>2. CASE hp.free_segments = << >>
    <3>1. n = hp.seg_alloced + 1 /\ fr = << >> /\ s = hp.seg_alloced + 1 /\ s <= NSegs
      BY <1>2, <2>2 DEF fr
    <3>2. Free(h) = {} /\ Free(hp) = {} /\ Len(fr) = 0
      BY <1>9, <2>2, <3>1 DEF Free
    <3>3. 1 .. n = (1 .. hp.seg_alloced) \cup {s} /\ n <= NSegs
      BY <1>1, <3>1, Constants
    <3>4. \A i, j \in 1 .. Len(fr) : fr[i] = fr[j] => i = j
      BY <3>2
    <3> HIDE DEF n
    <3> DEFINE A == 1 .. hp.seg_alloced
               B == 1 .. n
    <3>6. /\ L \subseteq A /\ V \subseteq A /\ A \subseteq L \cup V /\ B = A \cup {s}
          /\ L \cap V = {}
      BY <2>0, <3>2, <3>3
    <3>5. /\ L \subseteq B /\ V \cup {s} \subseteq B /\ B \subseteq L \cup (V \cup {s})
          /\ L \cap (V \cup {s}) = {}
      <4> HIDE DEF A, B
      <4> QED
        BY <2>9, <3>6
    <3> QED
      BY <1>9, <3>2, <3>3, <3>4, <3>5 DEF PlacesInv
  <2> QED
    BY <2>1, <2>2
<1>12. ItemsInv(h, L, V \cup {s})
  <2>1. 1 .. hp.seg_alloced \subseteq 1 .. n
    BY <1>1
  <2> HIDE DEF n
  <2>2. ASSUME NEW a \in D
        PROVE  /\ a[1] \in 1 .. n /\ a[1] \notin V \cup {s}
               /\ a[2] + its[a].size <= SegSize
               /\ a[1] \in L => a[2] + its[a].size <= g[a[1]].offset
               /\ a[1] \notin L => its[a].refcount = 0
               /\ its[a].refcount > 0 => its[a].key \in Keys /\ its[a].size = Size(its[a].key)
    <3>1. a \in DOMAIN hp.items /\ its[a] = hp.items[a] /\ a[1] # s
      BY <1>3
    <3>2. a[1] \in L => g[a[1]] = hp.segs[a[1]]
      BY <1>1, <1>2, <1>5
    <3> QED
      BY <2>1, <3>1, <3>2 DEF HeapInv, ItemsInv
  <2>3. \A t \in V \cup {s} : g[t].offset = 0 /\ g[t].freed = 0
    BY <1>1, <1>2, <1>4, <1>5 DEF HeapInv, ItemsInv
  <2> QED
    BY <1>3, <1>9, <2>2, <2>3 DEF ItemsInv
<1> HIDE DEF n
<1>13. BytesInv(h, L)
  <2> SUFFICES ASSUME NEW t \in L
               PROVE  h.segs[t].offset - h.segs[t].freed = Bytes(h.items, Alive(h, t))
    BY DEF BytesInv
  <2>1. t \in Segs /\ t # s /\ h.segs[t] = hp.segs[t]
    BY <1>1, <1>2, <1>5, <1>9
  <2>2. Alive(h, t) = Alive(hp, t)
    <3>1. Alive(h, t) \subseteq Alive(hp, t)
      BY <1>3, <1>9 DEF Alive
    <3>2. Alive(hp, t) \subseteq Alive(h, t)
      BY <1>3, <1>9, <1>10 DEF Alive
    <3> QED
      BY <3>1, <3>2
  <2>3. IsFiniteSet(Alive(hp, t)) /\ \A a \in Alive(hp, t) : hp.items[a].size \in Nat
    BY <1>1, AliveFinite
  <2>4. \A a \in Alive(hp, t) : h.items[a].size = hp.items[a].size
    BY <1>9, <1>10 DEF Alive
  <2>5. Bytes(h.items, Alive(hp, t)) = Bytes(hp.items, Alive(hp, t))
    BY <2>3, <2>4, BytesSame
  <2> QED
    BY <2>1, <2>2, <2>5 DEF HeapInv, BytesInv
<1>14. \A a : InTable(hp, a) /\ a # NULL => a \in D /\ its[a] = hp.items[a]
  BY <1>10, HeapFacts
<1>15. TableInv(h)
  <2>1. TableInv(hp) /\ h.direct = hp.direct /\ h.chain = hp.chain
    BY <1>9 DEF HeapInv, SameTable
  <2>2. ASSUME NEW i \in 1 .. BucketItems, hp.direct[i] # NULL
        PROVE  hp.direct[i] \in DOMAIN h.items /\ KeyAt(h, hp.direct[i]) = KeyAt(hp, hp.direct[i])
    <3>1. InTable(hp, hp.direct[i])
      BY DEF InTable
    <3> QED
      BY <1>3, <1>9, <1>14, <2>2, <3>1 DEF KeyAt
  <2>3. ASSUME NEW i \in 1 .. Len(hp.chain)
        PROVE  hp.chain[i] \in DOMAIN h.items /\ KeyAt(h, hp.chain[i]) = KeyAt(hp, hp.chain[i])
    <3>1. InTable(hp, hp.chain[i]) /\ hp.chain[i] \in Addrs
      BY <1>1, HeapFields DEF InTable
    <3> QED
      BY <1>3, <1>9, <1>14, <3>1, Constants DEF KeyAt
  <2> QED
    BY <2>1, <2>2, <2>3 DEF TableInv
<1>16. CountInv(h, r)
  <2>1. \A b : InTable(h, b) <=> InTable(hp, b)
    BY <1>9 DEF SameTable, InTable
  <2>2. \A a \in Addrs : r[a] # 0 => a \in DOMAIN h.items
    BY <1>3, <1>9, <1>10, HeapFacts
  <2> QED
    BY <1>1, <1>3, <1>9, <2>1, <2>2 DEF HeapInv, CountInv
<1>17. KeepsItems(hp, h)
  BY <1>3, <1>9, <1>10 DEF KeepsItems, SameItem
<1> QED
  BY <1>2, <1>9, <1>11, <1>12, <1>13, <1>15, <1>16, <1>17 DEF HeapInv, h

\* Without a segment left nothing is allocated.
LEMMA NoSegment ==
  ASSUME NEW hp, NextSegment(hp) = NULL
  PROVE  segment_alloc(hp) = hp
BY DEF segment_alloc

\* A segment all of whose bytes are freed has no item alive.
LEMMA SegmentFreeKeeps ==
  ASSUME NEW hp, NEW L, NEW V, NEW r, HeapInv(hp, L, V, r), NEW s \in L,
         hp.segs[s].freed = SegSize
  PROVE  LET h == segment_free(hp, s)
         IN  HeapInv(h, L \ {s}, V, r) /\ KeepsItems(hp, h) /\ SameTable(hp, h)
             /\ h.items = hp.items
<1> DEFINE h == segment_free(hp, s)
           x == [hp.segs[s] EXCEPT !.offset = 0]
           g == [hp.segs EXCEPT ![s] = x]
           fr == <<s>> \o hp.free_segments
<1>1. /\ hp \in HeapType /\ hp.free_segments \in Seq(Segs) /\ hp.seg_alloced \in Nat
      /\ r \in [Addrs -> Nat] /\ L \subseteq Segs /\ V \subseteq Segs /\ s \in Segs
  BY HeapFacts, HeapFields
<1>2. \A a \in DOMAIN hp.items : a[1] = s => hp.items[a].refcount = 0
  <2> SUFFICES ASSUME NEW a \in DOMAIN hp.items, a[1] = s, hp.items[a].refcount # 0
               PROVE  FALSE
    OBVIOUS
  <2> DEFINE S == Alive(hp, s)
  <2>1. a \in S
    BY <1>1, HeapFields DEF Alive
  <2>2. IsFiniteSet(S) /\ \A b \in S : hp.items[b].size \in Nat
    BY <1>1, AliveFinite
  <2>3. hp.items[a].size \in Nat \ {0} /\ hp.segs[s].offset \in 0 .. SegSize
    BY <1>1, HeapFields, SegFields
  <2>4. hp.segs[s].offset - hp.segs[s].freed = Bytes(hp.items, S)
    BY DEF HeapInv, BytesInv
  <2> HIDE DEF S
  <2>5. /\ Bytes(hp.items, S \ {a}) \in Nat
        /\ Bytes(hp.items, S) = hp.items[a].size + Bytes(hp.items, S \ {a})
    BY <2>1, <2>2, BytesRemove
  <2> QED
    BY <2>3, <2>4, <2>5, Constants
<1>3. x \in SegType
  <2>1. 0 \in 0 .. SegSize /\ hp.segs[s] \in SegType
    BY <1>1, SegFields, Constants
  <2> QED
    BY <2>1 DEF SegType
<1>4. /\ g \in [Segs -> SegType] /\ \A t \in Segs : t # s => g[t] = hp.segs[t]
  <2> HIDE DEF x
  <2> QED
    BY <1>1, <1>3, HeapFields
<1>5. /\ fr \in Seq(Segs) /\ Len(fr) = Len(hp.free_segments) + 1
      /\ \A i \in 1 .. Len(hp.free_segments) + 1 :
           fr[i] = IF i = 1 THEN s ELSE hp.free_segments[i - 1]
  BY <1>1, Prepend
<1>6. h = [hp EXCEPT !.segs = g, !.free_segments = fr]
  BY <1>1 DEF segment_free, HeapType
<1> HIDE DEF h, g, fr
<1>7. /\ h \in HeapType /\ SameTable(hp, h) /\ h.items = hp.items /\ h.segs = g
      /\ h.free_segments = fr /\ h.seg_alloced = hp.seg_alloced
  BY <1>1, <1>4, <1>5, <1>6 DEF HeapType, SameTable
<1>8. PlacesInv(h, L \ {s}, V)
  <2>0. /\ L \subseteq 1 .. hp.seg_alloced /\ V \subseteq 1 .. hp.seg_alloced
        /\ Free(hp) \subseteq 1 .. hp.seg_alloced /\ hp.seg_alloced <= NSegs
        /\ 1 .. hp.seg_alloced \subseteq L \cup V \cup Free(hp)
        /\ L \cap V = {} /\ L \cap Free(hp) = {} /\ V \cap Free(hp) = {}
        /\ \A i, j \in 1 .. Len(hp.free_segments) :
             hp.free_segments[i] = hp.free_segments[j] => i = j
    BY DEF HeapInv, PlacesInv
  <2>1. /\ fr[1] = s /\ 1 \in 1 .. Len(fr)
        /\ \A i \in 1 .. Len(fr) :
             i # 1 => i - 1 \in 1 .. Len(hp.free_segments) /\ fr[i] = hp.free_segments[i - 1]
        /\ \A i \in 1 .. Len(hp.free_segments) : i + 1 \in 1 .. Len(fr) /\ fr[i + 1] = hp.free_segments[i]
    <3> DEFINE f == hp.free_segments
               n == Len(f)
    <3>1. n \in Nat
      BY <1>1, HeapFields
    <3>2. /\ Len(fr) = n + 1
          /\ \A i \in 1 .. n + 1 : fr[i] = IF i = 1 THEN s ELSE f[i - 1]
      BY <1>5
    <3> HIDE DEF n, f
    <3>3. \A i \in 1 .. Len(fr) : i # 1 => i - 1 \in 1 .. n /\ fr[i] = f[i - 1]
      BY <3>1, <3>2
    <3>4. ASSUME NEW i \in 1 .. n
          PROVE  i + 1 \in 1 .. Len(fr) /\ fr[i + 1] = f[i]
      <4>1. i + 1 \in 1 .. n + 1 /\ i + 1 # 1 /\ (i + 1) - 1 = i
        BY <3>1
      <4> QED
        BY <3>2, <4>1
    <3>5. fr[1] = s /\ 1 \in 1 .. Len(fr)
      BY <3>1, <3>2
    <3> QED
      BY <3>3, <3>4, <3>5 DEF n, f
  <2>2. Free(h) = Free(hp) \cup {s}
    <3>1. ASSUME NEW t \in Free(h)
          PROVE  t \in Free(hp) \cup {s}
      <4>1. PICK i \in 1 .. Len(fr) : t = fr[i]
        BY <1>7 DEF Free
      <4> QED
        BY <2>1, <4>1 DEF Free
    <3>2. ASSUME NEW t \in Free(hp)
          PROVE  t \in Free(h)
      <4>1. PICK i \in 1 .. Len(hp.free_segments) : t = hp.free_segments[i]
        BY DEF Free
      <4>2. i + 1 \in 1 .. Len(fr) /\ t = fr[i + 1]
        BY <2>1, <4>1
      <4> QED
        BY <1>7, <4>2 DEF Free
    <3>3. s \in Free(h)
      BY <1>7, <2>1 DEF Free
    <3> QED
      BY <3>1, <3>2, <3>3
  <2>3. s \notin Free(hp)
    BY <2>0
  <2>4. \A i, j \in 1 .. Len(fr) : fr[i] = fr[j] => i = j
    <3> SUFFICES ASSUME NEW i \in 1 .. Len(fr), NEW j \in 1 .. Len(fr), fr[i] = fr[j]
                 PROVE  i = j
      OBVIOUS
    <3>1. i - 1 = j - 1 => i = j
      OBVIOUS
    <3>2. \A m \in 1 .. Len(hp.free_segments) : hp.free_segments[m] # s
      BY <2>3 DEF Free
    <3>5. ASSUME NEW m \in 1 .. Len(fr), m # 1
          PROVE  fr[m] # s
      <4>1. m - 1 \in 1 .. Len(hp.free_segments) /\ fr[m] = hp.free_segments[m - 1]
        BY <2>1, <3>5
      <4> QED
        BY <3>2, <4>1
    <3>3. CASE i = 1 \/ j = 1
      BY <2>1, <3>3, <3>5
    <3>4. CASE i # 1 /\ j # 1
      <4>2. /\ i - 1 \in 1 .. Len(hp.free_segments) /\ j - 1 \in 1 .. Len(hp.free_segments)
            /\ hp.free_segments[i - 1] = hp.free_segments[j - 1]
        BY <2>1, <3>4
      <4>1. i - 1 = j - 1
        BY <2>0, <4>2
      <4> QED
        BY <3>1, <4>1
    <3> QED
      BY <3>3, <3>4
  <2> QED
    BY <1>7, <2>0, <2>2, <2>4 DEF PlacesInv
<1>9. ItemsInv(h, L \ {s}, V)
  <2>1. \A a \in DOMAIN hp.items : a[1] \in L \ {s} => g[a[1]] = hp.segs[a[1]]
    BY <1>1, <1>4
  <2>2. \A t \in V : g[t] = hp.segs[t]
    BY <1>1, <1>4 DEF HeapInv, PlacesInv
  <2> QED
    BY <1>2, <1>7, <2>1, <2>2 DEF HeapInv, ItemsInv
<1>10. BytesInv(h, L \ {s})
  <2>1. \A t \in L \ {s} : h.segs[t] = hp.segs[t] /\ Alive(h, t) = Alive(hp, t)
    BY <1>1, <1>4, <1>7 DEF Alive
  <2> QED
    BY <1>7, <2>1 DEF HeapInv, BytesInv
<1>11. TableInv(h)
  BY <1>7 DEF HeapInv, TableInv, SameTable, KeyAt
<1>12. CountInv(h, r)
  BY <1>7 DEF HeapInv, CountInv, SameTable, InTable
<1>13. KeepsItems(hp, h)
  BY <1>7 DEF KeepsItems, SameItem
<1> QED
  BY <1>7, <1>8, <1>9, <1>10, <1>11, <1>12, <1>13 DEF HeapInv, h

\* The log grows by segment s, which is new or the reserve: s is in V, which
\* becomes W, and in it the item finds room.
GrownHeap(h2, cur, s, k, v) ==
  [PlaceItem(h2, s, k, v) EXCEPT !.segs[cur].inactive = TRUE]

Grows(hp, h, L, V, r, s, a, k, v) ==
  /\ a \in Addrs /\ r[a] = 0 /\ h.items[a] = Item(k, v)
  /\ HeapInv(h, L \cup {s}, V \ {s}, [r EXCEPT ![a] = 1])
  /\ KeepsItems(hp, h) /\ SameTable(hp, h)

\* ialloc_alloc with another segment for its log.
LEMMA GrownKeeps ==
  ASSUME NEW hp, NEW L, NEW V, NEW r, HeapInv(hp, L, V, r), NEW s \in V, NEW cur \in L,
         NEW k \in Keys, NEW v \in Vals \cup {NULL}
  PROVE  Grows(hp, GrownHeap(hp, cur, s, k, v), L, V, r, s, <<s, hp.segs[s].offset>>, k, v)
<1> DEFINE p == PlaceItem(hp, s, k, v)
           h == GrownHeap(hp, cur, s, k, v)
           a == <<s, hp.segs[s].offset>>
<1>1. HeapInv(hp, L \cup {s}, V \ {s}, r)
  BY OpenKeeps
<1>2. Fits(hp, s, k)
  <2>1. hp.segs[s].offset = 0
    BY DEF HeapInv, ItemsInv
  <2> QED
    BY <2>1, Constants DEF Fits
<1>3. /\ a \in Addrs /\ r[a] = 0 /\ a \notin DOMAIN hp.items /\ p.items[a] = Item(k, v)
      /\ HeapInv(p, L \cup {s}, V \ {s}, [r EXCEPT ![a] = 1])
      /\ KeepsItems(hp, p) /\ SameTable(hp, p)
  <2> HIDE DEF p
  <2> QED
    BY <1>1, <1>2, PlaceKeeps DEF p
<1>4. cur \in Segs /\ FlagSet(p, h, cur)
  BY HeapFacts DEF GrownHeap, FlagSet
<1> HIDE DEF h, p, a
<1>5. /\ HeapInv(h, L \cup {s}, V \ {s}, [r EXCEPT ![a] = 1]) /\ SameTable(p, h)
      /\ h.items = p.items
  BY <1>3, <1>4, FlagKeeps
<1> QED
  BY <1>3, <1>5 DEF KeepsItems, SameItem, SameTable, h, a, Grows

\* What ialloc_alloc may do to the heap, the allocator, and the sets L of the
\* segments in logs and V of those in reserve.
Placed(h, M, W, r, it, k, v) ==
  /\ it \in Addrs /\ r[it] = 0 /\ h.items[it] = Item(k, v)
  /\ HeapInv(h, M, W, [r EXCEPT ![it] = 1])

\* An allocation x by allocator al: none, an item in the last segment of the
\* log, or one in a segment by which the log grows, new or the reserve.
Allocated(hp, L, V, r, al, k, v, x) ==
  /\ KeepsItems(hp, x.heap) /\ SameTable(hp, x.heap)
  /\ \/ x.it = NULL /\ x.ia = al /\ HeapInv(x.heap, L, V, r)
     \/ x.ia = al /\ Placed(x.heap, L, V, r, x.it, k, v)
     \/ \E s \in Segs : /\ s \notin L /\ s \notin V
                        /\ x.ia = [al EXCEPT !.log = Append(@, s)]
                        /\ Placed(x.heap, L \cup {s}, V, r, x.it, k, v)
     \/ /\ al.reserved \in V
        /\ x.ia = [al EXCEPT !.log = Append(@, al.reserved), !.reserved = NULL]
        /\ Placed(x.heap, L \cup {al.reserved}, V \ {al.reserved}, r, x.it, k, v)

\* ialloc_alloc, in each of its cases.
LEMMA AllocKeeps ==
  ASSUME NEW hp, NEW L, NEW V, NEW r, HeapInv(hp, L, V, r), NEW al \in AllocatorType,
         Len(al.log) > 0, Last(al.log) \in L,
         al.reserved \in V \cup {NULL}, NEW k \in Keys, NEW v \in Vals \cup {NULL},
         NEW cleanup \in BOOLEAN
  PROVE  Allocated(hp, L, V, r, al, k, v, ialloc_alloc(hp, al, k, v, cleanup))
<1> DEFINE x == ialloc_alloc(hp, al, k, v, cleanup)
           cur == Last(al.log)
           h1 == CloseSegment(hp, cur)
           s == NextSegment(h1)
           h2 == segment_alloc(h1)
           G(h, t, reserved) ==
             [heap |-> GrownHeap(h, cur, t, k, v),
              ia |-> [al EXCEPT !.log = Append(@, t), !.reserved = reserved],
              it |-> <<t, h.segs[t].offset>>]
<1> SUFFICES Allocated(hp, L, V, r, al, k, v, x)
  OBVIOUS
<1>0. r \in [Addrs -> Nat] /\ NULL \notin Segs /\ V \subseteq Segs
  BY HeapFacts, Constants
<1>1. x = IF al.reserved = NULL /\ ~cleanup THEN [heap |-> hp, ia |-> al, it |-> NULL]
          ELSE IF Fits(hp, cur, k)
          THEN [heap |-> PlaceItem(hp, cur, k, v), ia |-> al, it |-> <<cur, hp.segs[cur].offset>>]
          ELSE IF s # NULL THEN G(h2, s, al.reserved)
          ELSE IF cleanup /\ al.reserved # NULL THEN G(h1, al.reserved, NULL)
          ELSE [heap |-> h1, ia |-> al, it |-> NULL]
  BY DEF ialloc_alloc, GrownHeap
<1> HIDE DEF cur
<1>9. cur \in L
  BY DEF cur
<1>2. HeapInv(h1, L, V, r) /\ KeepsItems(hp, h1) /\ SameTable(hp, h1)
  BY <1>9, CloseKeeps
<1> HIDE DEF h1, x
<1>3. \A a \in DOMAIN hp.items : hp.items[a].refcount > 0 => h1.items[a].refcount > 0
  BY <1>2, StillAlive
<1>4. CASE al.reserved = NULL /\ ~cleanup
  <2>1. x.heap = hp /\ x.ia = al /\ x.it = NULL
    BY <1>1, <1>4
  <2> QED
    BY <2>1 DEF Allocated, KeepsItems, SameItem, SameTable
<1>5. CASE ~(al.reserved = NULL /\ ~cleanup) /\ Fits(hp, cur, k)
  <2> DEFINE p == PlaceItem(hp, cur, k, v)
             a == <<cur, hp.segs[cur].offset>>
  <2>1. x.heap = p /\ x.ia = al /\ x.it = a
    BY <1>1, <1>5
  <2> HIDE DEF p
  <2>2. /\ a \in Addrs /\ r[a] = 0 /\ p.items[a] = Item(k, v)
        /\ HeapInv(p, L, V, [r EXCEPT ![a] = 1]) /\ KeepsItems(hp, p) /\ SameTable(hp, p)
    BY <1>5, <1>9, PlaceKeeps DEF p
  <2> QED
    BY <2>1, <2>2 DEF Placed, Allocated
<1>6. CASE ~(al.reserved = NULL /\ ~cleanup) /\ ~Fits(hp, cur, k) /\ s # NULL
  <2>1. /\ s \in Segs /\ s \notin L /\ s \notin V
        /\ HeapInv(h2, L, V \cup {s}, r) /\ KeepsItems(h1, h2) /\ SameTable(h1, h2)
    BY <1>2, <1>6, SegmentAllocKeeps
  <2> HIDE DEF h2, s
  <2> DEFINE h == GrownHeap(h2, cur, s, k, v)
             a == <<s, h2.segs[s].offset>>
  <2>2. /\ a \in Addrs /\ r[a] = 0 /\ h.items[a] = Item(k, v)
        /\ HeapInv(h, L \cup {s}, (V \cup {s}) \ {s}, [r EXCEPT ![a] = 1])
        /\ KeepsItems(h2, h) /\ SameTable(h2, h)
    <3>1. s \in V \cup {s}
      OBVIOUS
    <3>2. Grows(h2, h, L, V \cup {s}, r, s, a, k, v)
      BY <1>9, <2>1, <3>1, GrownKeeps
    <3> QED
      BY <3>2 DEF Grows
  <2>3. (V \cup {s}) \ {s} = V
    BY <2>1
  <2>4. x.heap = h /\ x.ia = [al EXCEPT !.log = Append(@, s)] /\ x.it = a
    <3>1. x = G(h2, s, al.reserved)
      BY <1>1, <1>6
    <3> QED
      BY <3>1 DEF AllocatorType
  <2> HIDE DEF h, a
  <2>5. \A b \in DOMAIN h1.items : h1.items[b].refcount > 0 => h2.items[b].refcount > 0
    BY <1>2, <2>1, StillAlive
  <2>6. KeepsItems(hp, h) /\ SameTable(hp, h)
    <3>1. KeepsItems(h1, h)
      BY <2>1, <2>2, <2>5, KeepsTrans
    <3>2. KeepsItems(hp, h)
      BY <1>2, <1>3, <3>1, KeepsTrans
    <3> QED
      BY <1>2, <2>1, <2>2, <3>2 DEF SameTable
  <2>7. Placed(h, L \cup {s}, V, r, a, k, v)
    BY <2>2, <2>3 DEF Placed
  <2> QED
    BY <2>1, <2>4, <2>6, <2>7 DEF Allocated
<1>7. CASE /\ ~(al.reserved = NULL /\ ~cleanup) /\ ~Fits(hp, cur, k) /\ s = NULL
           /\ cleanup /\ al.reserved # NULL
  <2> DEFINE t == al.reserved
             h == GrownHeap(h1, cur, t, k, v)
             a == <<t, h1.segs[t].offset>>
  <2>1. t \in V
    BY <1>7
  <2>2. /\ a \in Addrs /\ r[a] = 0 /\ h.items[a] = Item(k, v)
        /\ HeapInv(h, L \cup {t}, V \ {t}, [r EXCEPT ![a] = 1])
        /\ KeepsItems(h1, h) /\ SameTable(h1, h)
    <3>1. Grows(h1, h, L, V, r, t, a, k, v)
      BY <1>2, <1>9, <2>1, GrownKeeps
    <3> QED
      BY <3>1 DEF Grows
  <2>4. x.heap = h /\ x.ia = [al EXCEPT !.log = Append(@, t), !.reserved = NULL] /\ x.it = a
    <3>1. x = G(h1, t, NULL)
      BY <1>1, <1>7
    <3> QED
      BY <3>1
  <2> HIDE DEF h, a
  <2>6. KeepsItems(hp, h) /\ SameTable(hp, h)
    <3>1. KeepsItems(hp, h)
      BY <1>2, <1>3, <2>2, KeepsTrans
    <3> QED
      BY <1>2, <2>2, <3>1 DEF SameTable
  <2>7. Placed(h, L \cup {t}, V \ {t}, r, a, k, v)
    BY <2>2 DEF Placed
  <2> QED
    BY <2>1, <2>4, <2>6, <2>7 DEF Allocated
<1>8. CASE /\ ~(al.reserved = NULL /\ ~cleanup) /\ ~Fits(hp, cur, k) /\ s = NULL
           /\ ~(cleanup /\ al.reserved # NULL)
  <2>1. x.heap = h1 /\ x.ia = al /\ x.it = NULL
    BY <1>1, <1>8
  <2> QED
    BY <1>2, <2>1 DEF Allocated
<1> QED
  BY <1>4, <1>5, <1>6, <1>7, <1>8

-----------------------------------------------------------------------------
(* The references of the threads and of the queues.                        *)

\* Two sets that differ at most in one element.
LEMMA SetMoves ==
  ASSUME NEW U, IsFiniteSet(U), NEW S \in SUBSET U, NEW T \in SUBSET U, NEW e \in U,
         \A u \in U : u # e => (u \in S <=> u \in T)
  PROVE  /\ Cardinality(S) \in Nat /\ Cardinality(T) \in Nat
         /\ (e \in S <=> e \in T) => Cardinality(T) = Cardinality(S)
         /\ e \notin S /\ e \in T => Cardinality(T) = Cardinality(S) + 1
         /\ e \in S /\ e \notin T => Cardinality(T) = Cardinality(S) - 1
<1>1. /\ IsFiniteSet(S) /\ IsFiniteSet(T) /\ Cardinality(S) \in Nat /\ Cardinality(T) \in Nat
  BY FS_Subset, FS_CardinalityType
<1>2. (e \in S <=> e \in T) => T = S
  OBVIOUS
<1>3. e \notin S /\ e \in T => T = S \cup {e}
  OBVIOUS
<1>4. e \in S /\ e \notin T => T = S \ {e}
  OBVIOUS
<1> QED
  BY <1>1, <1>2, <1>3, <1>4, FS_AddElement, FS_RemoveElement

\* The references of threads and queues can be counted.
LEMMA HeldType ==
  ASSUME NEW x, NEW y
  PROVE  /\ Held(x, y) \in [Addrs -> Nat]
         /\ \A a \in Addrs : /\ Cardinality(Holders(x, a)) \in Nat
                             /\ Cardinality(Copiers(x, a)) \in Nat
                             /\ Cardinality(Queued(y, a)) \in Nat
         /\ \A a : /\ Holders(x, a) \in SUBSET Workers /\ Copiers(x, a) \in SUBSET Workers
                   /\ Queued(y, a) \in SUBSET (Workers \X (1 .. CqSize))
         /\ IsFiniteSet(Workers) /\ IsFiniteSet(Workers \X (1 .. CqSize))
<1>1. IsFiniteSet(Workers) /\ IsFiniteSet(Workers \X (1 .. CqSize))
  <2>1. CqSize \in Int /\ 1 \in Int
    BY Constants
  <2>2. IsFiniteSet(1 .. CqSize)
    BY <2>1, FS_Interval
  <2> QED
    BY <2>2, AddrsFinite, FS_Product
<1>2. \A a : /\ Holders(x, a) \in SUBSET Workers /\ Copiers(x, a) \in SUBSET Workers
             /\ Queued(y, a) \in SUBSET (Workers \X (1 .. CqSize))
  BY DEF Holders, Copiers, Queued
<1>3. \A a \in Addrs : /\ Cardinality(Holders(x, a)) \in Nat
                       /\ Cardinality(Copiers(x, a)) \in Nat
                       /\ Cardinality(Queued(y, a)) \in Nat
  BY <1>1, <1>2, FS_Subset, FS_CardinalityType
<1> QED
  BY <1>1, <1>2, <1>3 DEF Held

\* The field f of worker w changes.
LEMMA HeldChanges ==
  ASSUME NEW x, NEW y, NEW x2, NEW y2, NEW w \in Workers, NEW a \in Addrs,
         NEW f \in {"it", "nit"},
         \A v \in Workers : /\ y2[v].cleanup_queue = y[v].cleanup_queue
                            /\ v # w => x2[v].it = x[v].it /\ x2[v].nit = x[v].nit,
         f = "it" => x2[w].nit = x[w].nit, f = "nit" => x2[w].it = x[w].it
  PROVE  /\ (IF f = "it" THEN x[w].it = NULL /\ x2[w].it = a ELSE x[w].nit = NULL /\ x2[w].nit = a)
              => Held(x2, y2) = [Held(x, y) EXCEPT ![a] = @ + 1]
         /\ (IF f = "it" THEN x[w].it = a /\ x2[w].it = NULL ELSE x[w].nit = a /\ x2[w].nit = NULL)
              => Held(x2, y2) = [Held(x, y) EXCEPT ![a] = @ - 1]
<1> DEFINE R == Held(x, y)
           Q == Held(x2, y2)
<1>1. R \in [Addrs -> Nat] /\ Q \in [Addrs -> Nat] /\ a # NULL /\ NULL \notin Addrs
  BY HeldType, Constants
<1>2. \A b : Queued(y2, b) = Queued(y, b)
  BY DEF Queued
<1>3. \A b \in Addrs :
        /\ R[b] = Cardinality(Holders(x, b)) + Cardinality(Copiers(x, b)) + Cardinality(Queued(y, b))
        /\ Q[b] = Cardinality(Holders(x2, b)) + Cardinality(Copiers(x2, b)) + Cardinality(Queued(y2, b))
  BY DEF Held
<1>4. \A b \in Addrs : /\ Cardinality(Holders(x, b)) \in Nat /\ Cardinality(Copiers(x, b)) \in Nat
                       /\ Cardinality(Queued(y, b)) \in Nat
                       /\ Cardinality(Holders(x2, b)) \in Nat /\ Cardinality(Copiers(x2, b)) \in Nat
  BY HeldType
<1>5. ASSUME NEW b
      PROVE  /\ Holders(x, b) \in SUBSET Workers /\ Holders(x2, b) \in SUBSET Workers
             /\ Copiers(x, b) \in SUBSET Workers /\ Copiers(x2, b) \in SUBSET Workers
             /\ \A v \in Workers : v # w => /\ v \in Holders(x, b) <=> v \in Holders(x2, b)
                                            /\ v \in Copiers(x, b) <=> v \in Copiers(x2, b)
             /\ w \in Holders(x, b) <=> x[w].it = b
             /\ w \in Holders(x2, b) <=> x2[w].it = b
             /\ w \in Copiers(x, b) <=> x[w].nit = b
             /\ w \in Copiers(x2, b) <=> x2[w].nit = b
  BY DEF Holders, Copiers
<1>6. IsFiniteSet(Workers)
  BY HeldType
<1>7. ASSUME NEW b \in Addrs
      PROVE  /\ (x[w].it = b <=> x2[w].it = b)
                  => Cardinality(Holders(x2, b)) = Cardinality(Holders(x, b))
             /\ x[w].it # b /\ x2[w].it = b
                  => Cardinality(Holders(x2, b)) = Cardinality(Holders(x, b)) + 1
             /\ x[w].it = b /\ x2[w].it # b
                  => Cardinality(Holders(x2, b)) = Cardinality(Holders(x, b)) - 1
  BY <1>5, <1>6, SetMoves
<1>8. ASSUME NEW b \in Addrs
      PROVE  /\ (x[w].nit = b <=> x2[w].nit = b)
                  => Cardinality(Copiers(x2, b)) = Cardinality(Copiers(x, b))
             /\ x[w].nit # b /\ x2[w].nit = b
                  => Cardinality(Copiers(x2, b)) = Cardinality(Copiers(x, b)) + 1
             /\ x[w].nit = b /\ x2[w].nit # b
                  => Cardinality(Copiers(x2, b)) = Cardinality(Copiers(x, b)) - 1
  BY <1>5, <1>6, SetMoves
<1> HIDE DEF R, Q
<1>9. CASE f = "it"
  <2>1. ASSUME x[w].it = NULL, x2[w].it = a
        PROVE  \A b \in Addrs : Q[b] = IF b = a THEN R[b] + 1 ELSE R[b]
    BY <1>1, <1>2, <1>3, <1>4, <1>7, <1>8, <1>9, <2>1
  <2>2. ASSUME x[w].it = a, x2[w].it = NULL
        PROVE  \A b \in Addrs : Q[b] = IF b = a THEN R[b] - 1 ELSE R[b]
    BY <1>1, <1>2, <1>3, <1>4, <1>7, <1>8, <1>9, <2>2
  <2> QED
    BY <1>1, <1>9, <2>1, <2>2 DEF R, Q
<1>10. CASE f = "nit"
  <2>1. ASSUME x[w].nit = NULL, x2[w].nit = a
        PROVE  \A b \in Addrs : Q[b] = IF b = a THEN R[b] + 1 ELSE R[b]
    BY <1>1, <1>2, <1>3, <1>4, <1>7, <1>8, <1>10, <2>1
  <2>2. ASSUME x[w].nit = a, x2[w].nit = NULL
        PROVE  \A b \in Addrs : Q[b] = IF b = a THEN R[b] - 1 ELSE R[b]
    BY <1>1, <1>2, <1>3, <1>4, <1>7, <1>8, <1>10, <2>2
  <2> QED
    BY <1>1, <1>10, <2>1, <2>2 DEF R, Q
<1> QED
  BY <1>9, <1>10

\* The same of one item, place by place.
LEMMA ItTaken ==
  ASSUME NEW x, NEW y, NEW x2, NEW w \in Workers, NEW a \in Addrs,
         \A v \in Workers : v # w => x2[v].it = x[v].it /\ x2[v].nit = x[v].nit,
         x2[w].nit = x[w].nit, x[w].it = NULL, x2[w].it = a
  PROVE  \A b \in Addrs : Held(x2, y)[b] = Held(x, y)[b] + (IF b = a THEN 1 ELSE 0)
<1>1. a # NULL /\ IsFiniteSet(Workers)
  BY HeldType, Constants
<1>2. ASSUME NEW b \in Addrs
      PROVE  /\ Cardinality(Holders(x2, b)) = Cardinality(Holders(x, b)) + (IF b = a THEN 1 ELSE 0)
             /\ Copiers(x2, b) = Copiers(x, b)
  <2>1. /\ Holders(x, b) \in SUBSET Workers /\ Holders(x2, b) \in SUBSET Workers
        /\ \A v \in Workers : v # w => (v \in Holders(x, b) <=> v \in Holders(x2, b))
        /\ w \notin Holders(x, b)
        /\ w \in Holders(x2, b) <=> a = b
    BY <1>1, Constants DEF Holders
  <2>2. Copiers(x2, b) = Copiers(x, b)
    BY DEF Copiers
  <2>3. CASE b = a
    BY <1>1, <2>1, <2>2, <2>3, SetMoves
  <2>4. CASE b # a
    <3>1. w \in Holders(x, b) <=> w \in Holders(x2, b)
      BY <2>1, <2>4
    <3>2. /\ Cardinality(Holders(x2, b)) = Cardinality(Holders(x, b))
          /\ Cardinality(Holders(x, b)) \in Nat
      BY <1>1, <2>1, <3>1, SetMoves
    <3> QED
      BY <2>2, <2>4, <3>2
  <2> QED
    BY <2>3, <2>4
<1>3. \A b \in Addrs : /\ Cardinality(Holders(x, b)) \in Nat /\ Cardinality(Copiers(x, b)) \in Nat
                       /\ Cardinality(Queued(y, b)) \in Nat
  BY HeldType
<1> QED
  BY <1>2, <1>3 DEF Held


\* They stay as many when no thread and no queue changes its items.
LEMMA HeldSame ==
  ASSUME NEW x, NEW y, NEW x2, NEW y2,
         \A v \in Workers : /\ y2[v].cleanup_queue = y[v].cleanup_queue
                            /\ x2[v].it = x[v].it /\ x2[v].nit = x[v].nit
  PROVE  Held(x2, y2) = Held(x, y)
<1>1. \A a : /\ Holders(x2, a) = Holders(x, a) /\ Copiers(x2, a) = Copiers(x, a)
             /\ Queued(y2, a) = Queued(y, a)
  BY DEF Holders, Copiers, Queued
<1> QED
  BY <1>1 DEF Held

\* An item is queued.
LEMMA QueueAppends ==
  ASSUME NEW x, NEW y, NEW y2, NEW w \in Workers, NEW a \in Addrs,
         \A v \in Workers : v # w => y2[v].cleanup_queue = y[v].cleanup_queue,
         y[w].cleanup_queue \in Seq(Addrs), Len(y[w].cleanup_queue) < CqSize,
         y2[w].cleanup_queue = Append(y[w].cleanup_queue, a)
  PROVE  Held(x, y2) = [Held(x, y) EXCEPT ![a] = @ + 1]
<1> DEFINE q == y[w].cleanup_queue
           p == y2[w].cleanup_queue
           n == Len(q) + 1
           e == <<w, n>>
           U == Workers \X (1 .. CqSize)
<1>1. /\ Len(p) = n /\ p[n] = a /\ n \in 1 .. CqSize /\ Len(q) \in Nat
      /\ \A i \in 1 .. CqSize : i # n => /\ i <= Len(q) <=> i <= Len(p)
                                         /\ i <= Len(q) => p[i] = q[i]
  <2>1. q \in Seq(Addrs) /\ p = Append(q, a) /\ Len(q) \in Nat /\ Len(q) < CqSize /\ CqSize \in Nat
    BY Constants
  <2> HIDE DEF q, p
  <2> QED
    BY <2>1
<1> HIDE DEF q, p, n
<1>2. e \in U /\ IsFiniteSet(U)
  BY <1>1, HeldType
<1>3. ASSUME NEW b \in Addrs
      PROVE  /\ Queued(y, b) \in SUBSET U /\ Queued(y2, b) \in SUBSET U
             /\ \A u \in U : u # e => (u \in Queued(y, b) <=> u \in Queued(y2, b))
             /\ e \notin Queued(y, b)
             /\ e \in Queued(y2, b) <=> b = a
  <2>1. Queued(y, b) \in SUBSET U /\ Queued(y2, b) \in SUBSET U
    BY DEF Queued
  <2>2. ASSUME NEW u \in U, u # e
        PROVE  u \in Queued(y, b) <=> u \in Queued(y2, b)
    <3>1. PICK v \in Workers, i \in 1 .. CqSize : u = <<v, i>>
      OBVIOUS
    <3>2. CASE v = w
      <4>1. i # n
        BY <2>2, <3>1, <3>2
      <4>2. /\ u \in Queued(y, b) <=> i <= Len(q) /\ q[i] = b
            /\ u \in Queued(y2, b) <=> i <= Len(p) /\ p[i] = b
        BY <3>1, <3>2 DEF Queued, q, p
      <4> QED
        BY <1>1, <4>1, <4>2
    <3>3. CASE v # w
      BY <3>1, <3>3 DEF Queued
    <3> QED
      BY <3>2, <3>3
  <2>3. e \in Queued(y, b) <=> n <= Len(q) /\ q[n] = b
    BY <1>2 DEF Queued, q
  <2>4. ~(n <= Len(q))
    BY <1>1 DEF n
  <2>5. e \in Queued(y2, b) <=> n <= Len(p) /\ p[n] = b
    BY <1>2 DEF Queued, p
  <2>6. n <= Len(p)
    BY <1>1
  <2> QED
    BY <1>1, <2>1, <2>2, <2>3, <2>4, <2>5, <2>6
<1>4. ASSUME NEW b \in Addrs
      PROVE  Cardinality(Queued(y2, b)) = Cardinality(Queued(y, b)) + (IF b = a THEN 1 ELSE 0)
  <2> HIDE DEF e, U
  <2>1. /\ Cardinality(Queued(y, b)) \in Nat
        /\ b # a => Cardinality(Queued(y2, b)) = Cardinality(Queued(y, b))
        /\ b = a => Cardinality(Queued(y2, b)) = Cardinality(Queued(y, b)) + 1
    BY <1>2, <1>3, SetMoves
  <2> QED
    BY <2>1
<1>5. \A b \in Addrs : Held(x, y2)[b] = IF b = a THEN Held(x, y)[b] + 1 ELSE Held(x, y)[b]
  <2>1. \A b \in Addrs : /\ Cardinality(Holders(x, b)) \in Nat /\ Cardinality(Copiers(x, b)) \in Nat
                         /\ Cardinality(Queued(y, b)) \in Nat
    BY HeldType
  <2> QED
    BY <1>4, <2>1 DEF Held
<1> QED
  BY <1>5, HeldType

\* The first item of a queue is taken from it.
LEMMA QueuePops ==
  ASSUME NEW x, NEW y, NEW y2, NEW w \in Workers,
         \A v \in Workers : v # w => y2[v].cleanup_queue = y[v].cleanup_queue,
         y[w].cleanup_queue \in Seq(Addrs), y[w].cleanup_queue # << >>,
         Len(y[w].cleanup_queue) <= CqSize,
         y2[w].cleanup_queue = Tail(y[w].cleanup_queue)
  PROVE  /\ y[w].cleanup_queue[1] \in Addrs
         /\ \A b \in Addrs :
              Held(x, y2)[b] = Held(x, y)[b] - (IF b = y[w].cleanup_queue[1] THEN 1 ELSE 0)
<1> DEFINE q == y[w].cleanup_queue
           p == y2[w].cleanup_queue
           a == q[1]
           e == <<w, 1>>
           U == Workers \X (1 .. CqSize)
<1>1. /\ a \in Addrs /\ 1 \in 1 .. CqSize /\ 1 <= Len(q)
      /\ Len(q) \in Nat /\ Len(p) = Len(q) - 1 /\ Len(q) <= CqSize /\ CqSize \in Nat
      /\ \A i \in 1 .. Len(p) : p[i] = q[i + 1]
  <2>1. q \in Seq(Addrs) /\ p = Tail(q) /\ q # << >> /\ Len(q) <= CqSize /\ CqSize \in Nat
    BY Constants
  <2> HIDE DEF q, p
  <2> QED
    BY <2>1
<1> HIDE DEF q, p
<1>2. e \in U /\ IsFiniteSet(U)
  BY <1>1, HeldType
<1>3. ASSUME NEW b \in Addrs
      PROVE  /\ Cardinality(Queued(y, b)) \in Nat
             /\ Cardinality(Queued(y2, b)) = Cardinality(Queued(y, b)) - (IF b = a THEN 1 ELSE 0)
  <2> DEFINE S == Queued(y, b)
             T == Queued(y2, b)
             D == S \ {e}
             g == [u \in D |-> IF u[1] = w THEN <<w, u[2] - 1>> ELSE u]
  <2>1. S \in SUBSET U /\ T \in SUBSET U
    BY DEF Queued
  <2>2. \A v \in Workers, i \in 1 .. CqSize :
          /\ <<v, i>> \in S <=> IF v = w THEN i <= Len(q) /\ q[i] = b
                                ELSE i <= Len(y[v].cleanup_queue) /\ y[v].cleanup_queue[i] = b
          /\ <<v, i>> \in T <=> IF v = w THEN i <= Len(p) /\ p[i] = b
                                ELSE i <= Len(y[v].cleanup_queue) /\ y[v].cleanup_queue[i] = b
    BY DEF Queued, q, p
  <2>3. e \in S <=> a = b
    BY <1>1, <1>2, <2>2
  <2> HIDE DEF S, T, e
  <2>4. ASSUME NEW i \in 1 .. CqSize
        PROVE  /\ <<w, i>> \in T <=> i + 1 \in 1 .. CqSize /\ <<w, i + 1>> \in S
               /\ i # 1 => i - 1 \in 1 .. CqSize /\ (<<w, i>> \in S <=> <<w, i - 1>> \in T)
    <3>1. i + 1 \in 1 .. CqSize => (<<w, i + 1>> \in S <=> i + 1 <= Len(q) /\ q[i + 1] = b)
      BY <2>2
    <3>2. <<w, i>> \in T <=> i <= Len(p) /\ p[i] = b
      BY <2>2
    <3>3. i # 1 => /\ i - 1 \in 1 .. CqSize /\ (i - 1) + 1 = i
                   /\ <<w, i - 1>> \in T <=> i - 1 <= Len(p) /\ p[i - 1] = b
                   /\ <<w, i>> \in S <=> i <= Len(q) /\ q[i] = b
      BY <1>1, <2>2
    <3>4. i <= Len(p) <=> i + 1 <= Len(q)
      BY <1>1
    <3>5. i + 1 <= Len(q) => i + 1 \in 1 .. CqSize
      BY <1>1
    <3>6. i <= Len(p) => p[i] = q[i + 1]
      BY <1>1
    <3>7. <<w, i>> \in T <=> i + 1 \in 1 .. CqSize /\ <<w, i + 1>> \in S
      BY <3>1, <3>2, <3>4, <3>5, <3>6
    <3>8. i # 1 => (i - 1 <= Len(p) <=> i <= Len(q)) /\ (i - 1 <= Len(p) => p[i - 1] = q[i])
      BY <1>1, <3>3
    <3>9. i # 1 => i - 1 \in 1 .. CqSize /\ (<<w, i>> \in S <=> <<w, i - 1>> \in T)
      BY <3>3, <3>8
    <3> QED
      BY <3>7, <3>9
  <2>5. ASSUME NEW u \in D
        PROVE  \E v \in Workers, i \in 1 .. CqSize :
                 /\ u = <<v, i>> /\ u[1] = v /\ u[2] = i
                 /\ v = w => i # 1
                 /\ g[u] = (IF v = w THEN <<w, i - 1>> ELSE u)
                 /\ g[u] \in T
    <3>1. PICK v \in Workers, i \in 1 .. CqSize : u = <<v, i>>
      BY <2>1
    <3>2. v = w => i # 1
      BY <3>1 DEF e
    <3>3. g[u] = IF v = w THEN <<w, i - 1>> ELSE u
      BY <3>1
    <3>4. g[u] \in T
      BY <2>2, <2>4, <3>1, <3>2, <3>3
    <3> QED
      BY <3>1, <3>2, <3>3, <3>4
  <2>6. g \in [D -> T] /\ DOMAIN g = D
    BY <2>5
  <2>7. ASSUME NEW u \in D, NEW t \in D, g[u] = g[t]
        PROVE  u = t
    <3> HIDE DEF g, D
    <3>1. PICK v \in Workers, i \in 1 .. CqSize :
            u = <<v, i>> /\ (v = w => i # 1) /\ g[u] = (IF v = w THEN <<w, i - 1>> ELSE u)
      BY <2>5
    <3>2. PICK z \in Workers, j \in 1 .. CqSize :
            t = <<z, j>> /\ (z = w => j # 1) /\ g[t] = (IF z = w THEN <<w, j - 1>> ELSE t)
      BY <2>5
    <3>3. v = z
      BY <2>7, <3>1, <3>2
    <3>4. v = w => i - 1 = j - 1
      BY <2>7, <3>1, <3>2, <3>3
    <3> QED
      BY <2>7, <3>1, <3>2, <3>3, <3>4
  <2>8. ASSUME NEW t \in T
        PROVE  \E u \in D : g[u] = t
    <3>1. PICK v \in Workers, i \in 1 .. CqSize : t = <<v, i>>
      BY <2>1
    <3>2. CASE v = w
      <4>1. i + 1 \in 1 .. CqSize /\ <<w, i + 1>> \in S
        BY <2>4, <3>1, <3>2
      <4>2. <<w, i + 1>> \in D
        BY <4>1 DEF e
      <4>3. g[<<w, i + 1>>] = <<w, i>>
        BY <4>1, <4>2
      <4> QED
        BY <3>1, <3>2, <4>2, <4>3
    <3>3. CASE v # w
      <4>1. t \in S
        BY <2>2, <3>1, <3>3
      <4>2. t \in D
        BY <3>1, <3>3, <4>1 DEF e
      <4> QED
        BY <3>1, <3>3, <4>2
    <3> QED
      BY <3>2, <3>3
  <2>9. g \in Bijection(D, T)
    <3> HIDE DEF g, D
    <3> QED
      BY <2>6, <2>7, <2>8 DEF Bijection, Injection, Surjection, IsInjective
  <2>10. IsFiniteSet(S) /\ IsFiniteSet(D) /\ Cardinality(S) \in Nat
    <3>1. IsFiniteSet(S) /\ Cardinality(S) \in Nat
      BY <1>2, <2>1, FS_Subset, FS_CardinalityType
    <3> QED
      BY <3>1, FS_RemoveElement
  <2>11. Cardinality(T) = Cardinality(D)
    <3> HIDE DEF g, D
    <3> QED
      BY <2>9, <2>10, FS_Bijection DEF ExistsBijection
  <2>12. Cardinality(D) = IF e \in S THEN Cardinality(S) - 1 ELSE Cardinality(S)
    BY <2>10, FS_RemoveElement
  <2> QED
    BY <2>3, <2>10, <2>11, <2>12 DEF S, T
<1>4. \A b \in Addrs : Held(x, y2)[b] = Held(x, y)[b] - (IF b = a THEN 1 ELSE 0)
  <2>1. \A b \in Addrs : Cardinality(Holders(x, b)) \in Nat /\ Cardinality(Copiers(x, b)) \in Nat
    BY HeldType
  <2> QED
    BY <1>3, <2>1 DEF Held
<1> QED
  BY <1>1, <1>4 DEF q

-----------------------------------------------------------------------------
(* The segments in logs and in reserve.                                    *)

\* The types of the parts of an allocator.
LEMMA AllocatorFields ==
  ASSUME NEW y \in [Workers -> AllocatorType], NEW w \in Workers
  PROVE  /\ y[w] \in AllocatorType /\ y[w].log \in Seq(Segs) /\ y[w].reserved \in Segs \cup {NULL}
         /\ y[w].cleanup_queue \in Seq(Addrs) /\ y[w].cleanup_count \in Nat
         /\ y[w].cleaning \in Segs \cup {NULL} /\ y[w].clean_offset \in 0 .. SegSize
         /\ Elems(y[w].log) \subseteq Logs(y) /\ Logs(y) \subseteq Segs
         /\ Reserves(y) \subseteq Segs
         /\ y[w].reserved # NULL => y[w].reserved \in Reserves(y)
<1>1. \A v \in Workers : y[v] \in AllocatorType
  OBVIOUS
<1>2. \A v \in Workers : y[v].log \in Seq(Segs) /\ y[v].reserved \in Segs \cup {NULL}
  BY <1>1 DEF AllocatorType
<1>3. \A v \in Workers : Elems(y[v].log) \subseteq Segs
  <2> SUFFICES ASSUME NEW v \in Workers PROVE Elems(y[v].log) \subseteq Segs
    OBVIOUS
  <2> DEFINE l == y[v].log
  <2>1. l \in Seq(Segs)
    BY <1>2
  <2> HIDE DEF l
  <2>2. Elems(l) \subseteq Segs
    BY <2>1 DEF Elems
  <2> QED
    BY <2>2 DEF l
<1>4. Logs(y) \subseteq Segs /\ Elems(y[w].log) \subseteq Logs(y)
  BY <1>3 DEF Logs
<1>5. Reserves(y) \subseteq Segs /\ (y[w].reserved # NULL => y[w].reserved \in Reserves(y))
  BY <1>2 DEF Reserves
<1> QED
  BY <1>1, <1>4, <1>5 DEF AllocatorType

\* The segments in the logs depend on the logs alone ...
LEMMA SameLogs ==
  ASSUME NEW y, NEW y2, \A v \in Workers : y2[v].log = y[v].log
  PROVE  Logs(y2) = Logs(y)
BY DEF Logs

\* ... and those in reserve on the reserves alone.
LEMMA SameReserves ==
  ASSUME NEW y, NEW y2, \A v \in Workers : y2[v].reserved = y[v].reserved
  PROVE  Reserves(y2) = Reserves(y)
BY DEF Reserves

\* Allocators whose logs and reserves stay keep their part of the invariant.
LEMMA SameAllocators ==
  ASSUME NEW y, NEW y2, AllocatorsInv(y),
         \A v \in Workers : /\ y2[v].log = y[v].log /\ y2[v].reserved = y[v].reserved
                            /\ Len(y2[v].cleanup_queue) <= CqSize
  PROVE  AllocatorsInv(y2)
<1>1. \A v \in Workers : Len(y2[v].log) > 0 /\ Len(y2[v].cleanup_queue) <= CqSize
  BY DEF AllocatorsInv
<1>2. \A u, v \in Workers : y2[u].reserved # NULL /\ y2[u].reserved = y2[v].reserved => u = v
  BY DEF AllocatorsInv
<1>3. ASSUME NEW u \in Workers, NEW v \in Workers,
             NEW i \in 1 .. Len(y2[u].log), NEW j \in 1 .. Len(y2[v].log),
             y2[u].log[i] = y2[v].log[j]
      PROVE  u = v /\ i = j
  <2>1. y2[u].log = y[u].log /\ y2[v].log = y[v].log
    OBVIOUS
  <2>2. /\ i \in 1 .. Len(y[u].log) /\ j \in 1 .. Len(y[v].log)
        /\ y[u].log[i] = y[v].log[j]
    BY <1>3, <2>1
  <2> QED
    BY <2>2 DEF AllocatorsInv
<1> QED
  BY <1>1, <1>2, <1>3 DEF AllocatorsInv

\* A log grows by a segment that is in none.
LEMMA LogGrows ==
  ASSUME NEW y \in [Workers -> AllocatorType], AllocatorsInv(y), NEW y2, NEW w \in Workers,
         NEW s \in Segs, s \notin Logs(y), y2[w].log = Append(y[w].log, s),
         y2[w].reserved \in {y[w].reserved, NULL}, y2[w].cleanup_queue = y[w].cleanup_queue,
         \A v \in Workers : v # w => y2[v] = y[v]
  PROVE  Logs(y2) = Logs(y) \cup {s} /\ AllocatorsInv(y2)
<1> DEFINE l == y[w].log
           m == y2[w].log
           n == Len(l) + 1
<1>1. /\ Len(l) \in Nat /\ Len(m) = n /\ m[n] = s /\ n \in 1 .. Len(m)
      /\ 1 .. Len(l) \subseteq 1 .. Len(m)
      /\ \A i \in 1 .. Len(m) : i # n => i \in 1 .. Len(l) /\ m[i] = l[i]
  <2>1. l \in Seq(Segs) /\ m = Append(l, s)
    BY AllocatorFields
  <2> HIDE DEF l, m
  <2> QED
    BY <2>1
<1>2. \A i \in 1 .. Len(l) : i \in 1 .. Len(m) /\ m[i] = l[i] /\ l[i] # s
  <2>1. \A i \in 1 .. Len(l) : l[i] \in Elems(l)
    BY DEF Elems
  <2>2. Elems(l) \subseteq Logs(y)
    BY AllocatorFields
  <2>3. \A i \in 1 .. Len(l) : i # n
    BY <1>1
  <2> HIDE DEF l, m, n
  <2> QED
    BY <1>1, <2>1, <2>2, <2>3
<1> HIDE DEF n
<1>3. Elems(m) = Elems(l) \cup {s}
  <2> HIDE DEF l, m
  <2>1. ASSUME NEW t \in Elems(m)
        PROVE  t \in Elems(l) \cup {s}
    BY <1>1 DEF Elems
  <2>2. ASSUME NEW t \in Elems(l)
        PROVE  t \in Elems(m)
    BY <1>2 DEF Elems
  <2>3. s \in Elems(m)
    BY <1>1 DEF Elems
  <2> QED
    BY <2>1, <2>2, <2>3
<1>4. Logs(y2) = Logs(y) \cup {s}
  BY <1>3 DEF Logs
<1>5. \A v \in Workers : v # w =>
        \A j \in 1 .. Len(y[v].log) :
          y[v].log[j] # s /\ \A i \in 1 .. Len(l) : l[i] # y[v].log[j]
  <2>1. \A v \in Workers : \A j \in 1 .. Len(y[v].log) : y[v].log[j] # s
    BY DEF Logs, Elems
  <2>2. \A v \in Workers : v # w =>
          \A j \in 1 .. Len(y[v].log), i \in 1 .. Len(l) : l[i] # y[v].log[j]
    BY DEF AllocatorsInv
  <2> QED
    BY <2>1, <2>2
<1>6. AllocatorsInv(y2)
  <2>1. \A v \in Workers : Len(y2[v].log) > 0 /\ Len(y2[v].cleanup_queue) <= CqSize
    <3> SUFFICES ASSUME NEW v \in Workers
                 PROVE  Len(y2[v].log) > 0 /\ Len(y2[v].cleanup_queue) <= CqSize
      OBVIOUS
    <3>1. CASE v = w
      BY <1>1, <3>1 DEF AllocatorsInv, n
    <3>2. CASE v # w
      BY <3>2 DEF AllocatorsInv
    <3> QED
      BY <3>1, <3>2
  <2>2. \A u, v \in Workers : y2[u].reserved # NULL /\ y2[u].reserved = y2[v].reserved => u = v
    BY DEF AllocatorsInv
  <2>3. ASSUME NEW u \in Workers, NEW v \in Workers,
               NEW i \in 1 .. Len(y2[u].log), NEW j \in 1 .. Len(y2[v].log),
               y2[u].log[i] = y2[v].log[j]
        PROVE  u = v /\ i = j
    <3>1. CASE u # w /\ v # w
      BY <2>3, <3>1 DEF AllocatorsInv
    <3>2. CASE u = w /\ v # w
      <4>1. i \in 1 .. Len(m) /\ j \in 1 .. Len(y[v].log) /\ m[i] = y[v].log[j]
        BY <2>3, <3>2
      <4>2. y[v].log[j] # s /\ \A b \in 1 .. Len(l) : l[b] # y[v].log[j]
        BY <1>5, <3>2, <4>1
      <4> HIDE DEF l, m
      <4> QED
        BY <1>1, <4>1, <4>2
    <3>3. CASE u # w /\ v = w
      <4>1. j \in 1 .. Len(m) /\ i \in 1 .. Len(y[u].log) /\ m[j] = y[u].log[i]
        BY <2>3, <3>3
      <4>2. y[u].log[i] # s /\ \A b \in 1 .. Len(l) : l[b] # y[u].log[i]
        BY <1>5, <3>3, <4>1
      <4> HIDE DEF l, m
      <4> QED
        BY <1>1, <4>1, <4>2
    <3>4. CASE u = w /\ v = w
      <4>1. i \in 1 .. Len(m) /\ j \in 1 .. Len(m) /\ m[i] = m[j]
        BY <2>3, <3>4
      <4>2. \A a, b \in 1 .. Len(l) : l[a] = l[b] => a = b
        BY DEF AllocatorsInv
      <4> HIDE DEF l, m
      <4> QED
        BY <1>1, <1>2, <3>4, <4>1, <4>2
    <3> QED
      BY <3>1, <3>2, <3>3, <3>4
  <2> QED
    BY <2>1, <2>2, <2>3 DEF AllocatorsInv
<1> QED
  BY <1>4, <1>6

\* A segment that is not the last of its log is removed from it.
LEMMA LogDrops ==
  ASSUME NEW y \in [Workers -> AllocatorType], AllocatorsInv(y), NEW y2, NEW w \in Workers,
         NEW k \in 1 .. Len(y[w].log), k < Len(y[w].log), y2[w].log = RemoveAt(y[w].log, k),
         y2[w].reserved = y[w].reserved, y2[w].cleanup_queue = y[w].cleanup_queue,
         \A v \in Workers : v # w => y2[v] = y[v]
  PROVE  /\ Logs(y2) = Logs(y) \ {y[w].log[k]} /\ AllocatorsInv(y2)
         /\ y2[w].log \in Seq(Segs) /\ y[w].log[k] \in Logs(y)
<1> DEFINE l == y[w].log
           m == y2[w].log
           s == l[k]
<1>1. /\ m \in Seq(Segs) /\ Len(l) \in Nat /\ Len(m) = Len(l) - 1
      /\ \A i \in 1 .. Len(l) - 1 : m[i] = IF i < k THEN l[i] ELSE l[i + 1]
  <2> DEFINE d == SubSeq(l, 1, k - 1) \o SubSeq(l, k + 1, Len(l))
  <2>1. l \in Seq(Segs) /\ m = d /\ k \in 1 .. Len(l)
    BY AllocatorFields DEF RemoveAt
  <2> HIDE DEF l, m
  <2>2. /\ d \in Seq(Segs) /\ Len(d) = Len(l) - 1
        /\ \A i \in 1 .. Len(l) - 1 : d[i] = IF i < k THEN l[i] ELSE l[i + 1]
    BY <2>1, Drop
  <2> HIDE DEF d
  <2> QED
    BY <2>1, <2>2
<1>2. \A i, j \in 1 .. Len(l) : l[i] = l[j] => i = j
  BY DEF AllocatorsInv
<1>3. /\ \A i \in 1 .. Len(m) : \E j \in 1 .. Len(l) :
           j = (IF i < k THEN i ELSE i + 1) /\ m[i] = l[j] /\ j # k
      /\ \A j \in 1 .. Len(l) : j # k => \E i \in 1 .. Len(m) : m[i] = l[j]
  <2> HIDE DEF l, m
  <2>0. k \in 1 .. Len(l)
    BY DEF l
  <2>1. ASSUME NEW i \in 1 .. Len(m)
        PROVE  \E j \in 1 .. Len(l) :
                 j = (IF i < k THEN i ELSE i + 1) /\ m[i] = l[j] /\ j # k
    <3>1. i \in 1 .. Len(l) - 1 /\ i \in 1 .. Len(l) /\ i + 1 \in 1 .. Len(l)
      BY <1>1
    <3>2. CASE i < k
      BY <1>1, <3>1, <3>2, <2>0
    <3>3. CASE ~(i < k)
      <4>1. m[i] = l[i + 1] /\ i + 1 # k
        BY <1>1, <2>0, <3>1, <3>3
      <4> QED
        BY <3>1, <3>3, <4>1
    <3> QED
      BY <3>2, <3>3
  <2>2. ASSUME NEW j \in 1 .. Len(l), j # k
        PROVE  \E i \in 1 .. Len(m) : m[i] = l[j]
    <3>1. CASE j < k
      <4>1. j \in 1 .. Len(l) - 1 /\ j \in 1 .. Len(m) /\ m[j] = l[j]
        BY <1>1, <2>0, <3>1
      <4> QED
        BY <4>1
    <3>2. CASE ~(j < k)
      <4>1. j - 1 \in 1 .. Len(l) - 1 /\ ~(j - 1 < k) /\ j - 1 \in 1 .. Len(m) /\ (j - 1) + 1 = j
        BY <1>1, <2>0, <2>2, <3>2
      <4>2. m[j - 1] = l[(j - 1) + 1]
        BY <1>1, <4>1
      <4> QED
        BY <4>1, <4>2
    <3> QED
      BY <3>1, <3>2
  <2> QED
    BY <2>1, <2>2
<1>4. Elems(m) = Elems(l) \ {s}
  <2>0. k \in 1 .. Len(l)
    OBVIOUS
  <2> HIDE DEF l, m
  <2>1. ASSUME NEW t \in Elems(m)
        PROVE  t \in Elems(l) /\ t # s
    <3>1. PICK i \in 1 .. Len(m) : t = m[i]
      BY DEF Elems
    <3>2. PICK j \in 1 .. Len(l) : m[i] = l[j] /\ j # k
      BY <1>3
    <3> QED
      BY <1>2, <2>0, <3>1, <3>2 DEF Elems
  <2>2. ASSUME NEW t \in Elems(l), t # s
        PROVE  t \in Elems(m)
    <3>1. PICK j \in 1 .. Len(l) : t = l[j]
      BY DEF Elems
    <3>2. j # k
      BY <2>2, <3>1
    <3> QED
      BY <1>3, <3>1, <3>2 DEF Elems
  <2> QED
    BY <2>1, <2>2
<1>5. \A v \in Workers : v # w =>
        \A j \in 1 .. Len(y[v].log), i \in 1 .. Len(l) : l[i] # y[v].log[j]
  BY DEF AllocatorsInv
<1>6. Logs(y2) = Logs(y) \ {s} /\ s \in Logs(y)
  <2>1. \A v \in Workers : v # w => s \notin Elems(y[v].log)
    <3> SUFFICES ASSUME NEW v \in Workers, v # w, NEW j \in 1 .. Len(y[v].log), y[v].log[j] = s
                 PROVE  FALSE
      BY DEF Elems
    <3> QED
      BY <1>5
  <2>2. \A v \in Workers : Elems(y2[v].log) = Elems(y[v].log) \ {s}
    <3> HIDE DEF s
    <3> QED
      BY <1>4, <2>1
  <2>3. s \in Elems(l)
    BY DEF Elems
  <2> HIDE DEF s
  <2>4. s \in Logs(y)
    BY <2>3 DEF Logs
  <2>5. Logs(y2) = Logs(y) \ {s}
    <3>1. \A t : t \in Logs(y2) <=> \E v \in Workers : t \in Elems(y2[v].log)
      BY DEF Logs
    <3>2. \A t : t \in Logs(y) <=> \E v \in Workers : t \in Elems(y[v].log)
      BY DEF Logs
    <3> QED
      BY <2>2, <3>1, <3>2
  <2> QED
    BY <2>4, <2>5
<1>7. AllocatorsInv(y2)
  <2>1. \A v \in Workers : Len(y2[v].log) > 0 /\ Len(y2[v].cleanup_queue) <= CqSize
    <3> SUFFICES ASSUME NEW v \in Workers
                 PROVE  Len(y2[v].log) > 0 /\ Len(y2[v].cleanup_queue) <= CqSize
      OBVIOUS
    <3>1. CASE v = w
      BY <1>1, <3>1 DEF AllocatorsInv
    <3>2. CASE v # w
      BY <3>2 DEF AllocatorsInv
    <3> QED
      BY <3>1, <3>2
  <2>2. \A u, v \in Workers : y2[u].reserved # NULL /\ y2[u].reserved = y2[v].reserved => u = v
    BY DEF AllocatorsInv
  <2>3. ASSUME NEW u \in Workers, NEW v \in Workers,
               NEW i \in 1 .. Len(y2[u].log), NEW j \in 1 .. Len(y2[v].log),
               y2[u].log[i] = y2[v].log[j]
        PROVE  u = v /\ i = j
    <3>1. CASE u # w /\ v # w
      BY <2>3, <3>1 DEF AllocatorsInv
    <3>2. CASE u = w /\ v # w
      <4>1. i \in 1 .. Len(m) /\ j \in 1 .. Len(y[v].log) /\ m[i] = y[v].log[j]
        BY <2>3, <3>2
      <4>2. \A b \in 1 .. Len(l) : l[b] # y[v].log[j]
        BY <1>5, <3>2, <4>1
      <4> HIDE DEF l, m
      <4>3. PICK a \in 1 .. Len(l) : m[i] = l[a]
        BY ONLY <1>3, <4>1
      <4> QED
        BY ONLY <4>1, <4>2, <4>3
    <3>3. CASE u # w /\ v = w
      <4>1. j \in 1 .. Len(m) /\ i \in 1 .. Len(y[u].log) /\ m[j] = y[u].log[i]
        BY <2>3, <3>3
      <4>2. \A b \in 1 .. Len(l) : l[b] # y[u].log[i]
        BY <1>5, <3>3, <4>1
      <4> HIDE DEF l, m
      <4>3. PICK a \in 1 .. Len(l) : m[j] = l[a]
        BY ONLY <1>3, <4>1
      <4> QED
        BY ONLY <4>1, <4>2, <4>3
    <3>4. CASE u = w /\ v = w
      <4>1. PICK a \in 1 .. Len(l) : a = (IF i < k THEN i ELSE i + 1) /\ m[i] = l[a]
        BY <1>3, <3>4
      <4>2. PICK b \in 1 .. Len(l) : b = (IF j < k THEN j ELSE j + 1) /\ m[j] = l[b]
        BY <1>3, <3>4
      <4>3. a = b
        BY <1>2, <2>3, <3>4, <4>1, <4>2
      <4> QED
        BY <3>4, <4>1, <4>2, <4>3
    <3> QED
      BY <3>1, <3>2, <3>3, <3>4
  <2> QED
    BY <2>1, <2>2, <2>3 DEF AllocatorsInv
<1> QED
  BY <1>1, <1>6, <1>7

\* A reserve is filled, or put to use.
LEMMA ReserveChanges ==
  ASSUME NEW y \in [Workers -> AllocatorType], AllocatorsInv(y), NEW y2, NEW w \in Workers,
         \A v \in Workers : v # w => y2[v] = y[v]
  PROVE  /\ y[w].reserved = NULL /\ y2[w].reserved \in Segs \ Reserves(y)
              => Reserves(y2) = Reserves(y) \cup {y2[w].reserved}
         /\ y[w].reserved # NULL /\ y2[w].reserved = NULL
              => Reserves(y2) = Reserves(y) \ {y[w].reserved}
<1>1. ASSUME y[w].reserved = NULL, y2[w].reserved \in Segs \ Reserves(y)
      PROVE  Reserves(y2) = Reserves(y) \cup {y2[w].reserved}
  <2>1. y2[w].reserved # NULL
    BY <1>1, Constants
  <2> QED
    BY <1>1, <2>1 DEF Reserves
<1>2. ASSUME y[w].reserved # NULL, y2[w].reserved = NULL
      PROVE  Reserves(y2) = Reserves(y) \ {y[w].reserved}
  <2>1. \A v \in Workers : v # w => y[v].reserved # y[w].reserved
    BY <1>2 DEF AllocatorsInv
  <2> QED
    BY <1>2, <2>1 DEF Reserves
<1> QED
  BY <1>1, <1>2

\* A worker fills its reserve with a segment nobody has in reserve.
LEMMA ReserveFills ==
  ASSUME NEW y \in [Workers -> AllocatorType], AllocatorsInv(y), NEW y2, NEW w \in Workers,
         \A v \in Workers : v # w => y2[v] = y[v],
         y2[w].log = y[w].log, Len(y2[w].cleanup_queue) <= CqSize,
         y2[w].reserved = y[w].reserved \/ y2[w].reserved \notin Reserves(y)
  PROVE  AllocatorsInv(y2) /\ Logs(y2) = Logs(y)
<1>1. \A v \in Workers : y2[v].log = y[v].log
  OBVIOUS
<1>2. Logs(y2) = Logs(y)
  BY <1>1, SameLogs
<1>3. \A u, v \in Workers : y2[u].reserved # NULL /\ y2[u].reserved = y2[v].reserved => u = v
  <2>1. \A v \in Workers : y[v].reserved # NULL => y[v].reserved \in Reserves(y)
    BY DEF Reserves
  <2> QED
    BY <2>1 DEF AllocatorsInv
<1>4. \A v \in Workers : Len(y2[v].log) > 0 /\ Len(y2[v].cleanup_queue) <= CqSize
  <2> SUFFICES ASSUME NEW v \in Workers
               PROVE  Len(y2[v].log) > 0 /\ Len(y2[v].cleanup_queue) <= CqSize
    OBVIOUS
  <2>1. Len(y[v].log) > 0 /\ Len(y[v].cleanup_queue) <= CqSize
    BY DEF AllocatorsInv
  <2>2. v # w => y2[v] = y[v]
    OBVIOUS
  <2> QED
    BY <1>1, <2>1, <2>2
<1>5. \A u, v \in Workers : \A i \in 1 .. Len(y2[u].log), j \in 1 .. Len(y2[v].log) :
        y2[u].log[i] = y2[v].log[j] => u = v /\ i = j
  <2>1. \A u, v \in Workers : \A i \in 1 .. Len(y[u].log), j \in 1 .. Len(y[v].log) :
          y[u].log[i] = y[v].log[j] => u = v /\ i = j
    BY DEF AllocatorsInv
  <2> QED
    BY ONLY <1>1, <2>1
<1>6. AllocatorsInv(y2)
  BY ONLY <1>3, <1>4, <1>5 DEF AllocatorsInv
<1> QED
  BY <1>2, <1>6

-----------------------------------------------------------------------------
(* The steps of the specification.                                         *)

\* Whoever has an item keeps it as it was.
LEMMA HolderHolds ==
  ASSUME NEW hp, NEW L, NEW V, NEW x, NEW y, HeapInv(hp, L, V, Held(x, y)),
         NEW w \in Workers, x[w].it \in AddrOrNull, x[w].nit \in AddrOrNull
  PROVE  /\ x[w].it # NULL => /\ x[w].it \in Addrs /\ x[w].it \in DOMAIN hp.items
                              /\ Held(x, y)[x[w].it] # 0 /\ hp.items[x[w].it].refcount > 0
         /\ x[w].nit # NULL => /\ x[w].nit \in Addrs /\ x[w].nit \in DOMAIN hp.items
                               /\ Held(x, y)[x[w].nit] # 0 /\ hp.items[x[w].nit].refcount > 0
<1>1. ASSUME NEW a \in Addrs, w \in Holders(x, a) \/ w \in Copiers(x, a)
      PROVE  Held(x, y)[a] # 0
  <2>1. /\ Cardinality(Holders(x, a)) \in Nat /\ Cardinality(Copiers(x, a)) \in Nat
        /\ Cardinality(Queued(y, a)) \in Nat
        /\ IsFiniteSet(Holders(x, a)) /\ IsFiniteSet(Copiers(x, a))
    <3>1. /\ Holders(x, a) \in SUBSET Workers /\ Copiers(x, a) \in SUBSET Workers
          /\ IsFiniteSet(Workers)
      BY HeldType
    <3> QED
      BY <3>1, HeldType, FS_Subset
  <2>2. Cardinality(Holders(x, a)) # 0 \/ Cardinality(Copiers(x, a)) # 0
    BY <1>1, <2>1, FS_EmptySet
  <2> QED
    BY <2>1, <2>2 DEF Held
<1>2. x[w].it # NULL => x[w].it \in Addrs /\ Held(x, y)[x[w].it] # 0
  BY <1>1 DEF Holders, AddrOrNull
<1>3. x[w].nit # NULL => x[w].nit \in Addrs /\ Held(x, y)[x[w].nit] # 0
  BY <1>1 DEF Copiers, AddrOrNull
<1> QED
  BY <1>2, <1>3, HeapFacts

\* The same of a worker.
LEMMA HeldAlive ==
  ASSUME NEW hp, NEW L, NEW V, NEW x \in [Workers -> WorkerType],
         NEW y \in [Workers -> AllocatorType], HeapInv(hp, L, V, Held(x, y)), NEW w \in Workers
  PROVE  /\ x[w].it # NULL => /\ x[w].it \in Addrs /\ x[w].it \in DOMAIN hp.items
                              /\ Held(x, y)[x[w].it] # 0 /\ hp.items[x[w].it].refcount > 0
         /\ x[w].nit # NULL => /\ x[w].nit \in Addrs /\ x[w].nit \in DOMAIN hp.items
                               /\ Held(x, y)[x[w].nit] # 0 /\ hp.items[x[w].nit].refcount > 0
<1>1. x[w] \in WorkerType
  OBVIOUS
<1>2. x[w].it \in AddrOrNull /\ x[w].nit \in AddrOrNull
  BY <1>1 DEF WorkerType
<1> QED
  BY <1>2, HolderHolds

\* What is true of a worker stays true while its items are kept.
LEMMA WorkerKeeps ==
  ASSUME NEW hp, NEW L, NEW V, NEW x \in [Workers -> WorkerType],
         NEW y \in [Workers -> AllocatorType], HeapInv(hp, L, V, Held(x, y)), NEW w \in Workers,
         WorkerInv(hp, x[w]), NEW h, KeepsItems(hp, h)
  PROVE  WorkerInv(h, x[w])
<1> DEFINE t == x[w]
<1>1. /\ t.it # NULL => SameItem(hp, h, t.it)
      /\ t.nit # NULL => SameItem(hp, h, t.nit)
  BY HeldAlive DEF KeepsItems
<1> HIDE DEF t
<1>2. WorkerInv(hp, t)
  BY DEF t
<1>3. t.pc = "replace" => h.items[t.nit].key = h.items[t.it].key
                          /\ h.items[t.nit].val = h.items[t.it].val
  BY <1>1, <1>2 DEF WorkerInv, SameItem
<1>4. t.pc = "put" => h.items[t.it].key = t.key /\ h.items[t.it].val = t.val
  BY <1>1, <1>2 DEF WorkerInv, SameItem
<1>5. WorkerInv(h, t)
  BY <1>2, <1>3, <1>4 DEF WorkerInv
<1> QED
  BY <1>5 DEF t

\* What a step must keep when it changes the place of one worker.
LEMMA StepKeeps ==
  ASSUME IndInv, NEW w \in Workers, KeepsItems(heap, heap'),
         HeapInv(heap', Logs(ia'), Reserves(ia'), Held(wk', ia')),
         ia' \in [Workers -> AllocatorType], AllocatorsInv(ia'),
         wk' \in [Workers -> WorkerType], \A v \in Workers : v # w => wk'[v] = wk[v],
         WorkerInv(heap', wk'[w]), mt' = mt, reqs' \in 0 .. MaxReqs,
         \A v \in Workers : ia'[v].cleaning = ia[v].cleaning
  PROVE  IndInv'
<1>1. TypeOK'
  BY DEF IndInv, TypeOK, HeapInv
<1>2. WorkersInv'
  <2>1. ASSUME NEW v \in Workers, v # w
        PROVE  WorkerInv(heap', wk'[v])
    BY <2>1, WorkerKeeps DEF IndInv, TypeOK, WorkersInv
  <2> QED
    BY <2>1 DEF WorkersInv
<1>3. ScanInv'
  BY DEF IndInv, TypeOK, MaintenanceType, ScanInv
<1> QED
  BY <1>1, <1>2, <1>3 DEF IndInv

\* A worker without a request.
LEMMA IdleType ==
  ASSUME NEW hp
  PROVE  /\ IdleWorker \in WorkerType /\ WorkerInv(hp, IdleWorker)
         /\ [IdleWorker EXCEPT !.idle = FALSE] \in WorkerType
         /\ WorkerInv(hp, [IdleWorker EXCEPT !.idle = FALSE])
BY Constants DEF IdleWorker, WorkerType, WorkerInv, AddrOrNull

\* A heap that stays keeps everything.
LEMMA KeepsSelf == ASSUME NEW hp PROVE KeepsItems(hp, hp) /\ SameTable(hp, hp)
BY DEF KeepsItems, SameItem, SameTable

\* A request arrives.
LEMMA ReceivesKeeps ==
  ASSUME IndInv, NEW w \in Workers, Receives(w)
  PROVE  IndInv'
<1>1. PICK t \in Traffic : wk' = [wk EXCEPT ![w] = [IdleWorker EXCEPT
                   !.pc = IF t[2] = "get" THEN "get" ELSE "alloc", !.op = t[2], !.key = t[3],
                   !.val = IF t[2] = "get" THEN NULL ELSE reqs + 1, !.idle = FALSE]]
  BY DEF Receives
<1> DEFINE z == [IdleWorker EXCEPT
                   !.pc = IF t[2] = "get" THEN "get" ELSE "alloc", !.op = t[2], !.key = t[3],
                   !.val = IF t[2] = "get" THEN NULL ELSE reqs + 1, !.idle = FALSE]
<1>2. t[2] \in {"get", "set"} /\ t[3] \in Keys
  BY KvsAssumption
<1>3. wk[w].pc = "poll" /\ reqs < MaxReqs /\ reqs' = reqs + 1 /\ UNCHANGED <<heap, ia, mt>>
  BY DEF Receives
<1>4. reqs + 1 \in Vals /\ reqs' \in 0 .. MaxReqs
  BY <1>3, KvsAssumption DEF IndInv, TypeOK, Vals
<1>5. z \in WorkerType /\ WorkerInv(heap, z) /\ z.it = NULL /\ z.nit = NULL
  BY <1>2, <1>4 DEF IdleWorker, WorkerType, WorkerInv, AddrOrNull
<1> HIDE DEF z
<1>6. /\ wk \in [Workers -> WorkerType] /\ ia \in [Workers -> AllocatorType]
      /\ HeapInv(heap, Logs(ia), Reserves(ia), Held(wk, ia)) /\ AllocatorsInv(ia)
      /\ WorkerInv(heap, wk[w])
  BY DEF IndInv, TypeOK, WorkersInv
<1>7. /\ wk' \in [Workers -> WorkerType] /\ wk'[w] = z
      /\ \A v \in Workers : v # w => wk'[v] = wk[v]
  BY <1>1, <1>5, <1>6 DEF z
<1>8. wk[w].it = NULL /\ wk[w].nit = NULL
  BY <1>3, <1>6 DEF WorkerInv
<1>9. Held(wk', ia') = Held(wk, ia)
  BY <1>3, <1>5, <1>7, <1>8, HeldSame
<1> QED
  BY <1>3, <1>4, <1>5, <1>6, <1>7, <1>9, StepKeeps, KeepsSelf

\* What the lemmas about the steps of a worker take from the invariant.
LEMMA IndFacts ==
  ASSUME IndInv, NEW w \in Workers
  PROVE  /\ wk \in [Workers -> WorkerType] /\ ia \in [Workers -> AllocatorType]
         /\ HeapInv(heap, Logs(ia), Reserves(ia), Held(wk, ia)) /\ AllocatorsInv(ia)
         /\ heap \in HeapType /\ Held(wk, ia) \in [Addrs -> Nat]
         /\ wk[w] \in WorkerType /\ WorkerInv(heap, wk[w])
         /\ wk[w].it \in AddrOrNull /\ wk[w].nit \in AddrOrNull /\ reqs \in 0 .. MaxReqs
         /\ NULL \notin Addrs
<1>1. /\ wk \in [Workers -> WorkerType] /\ ia \in [Workers -> AllocatorType]
      /\ HeapInv(heap, Logs(ia), Reserves(ia), Held(wk, ia)) /\ AllocatorsInv(ia)
      /\ heap \in HeapType /\ WorkerInv(heap, wk[w]) /\ reqs \in 0 .. MaxReqs
  BY DEF IndInv, TypeOK, WorkersInv
<1>2. wk[w] \in WorkerType
  BY <1>1
<1>3. wk[w].it \in AddrOrNull /\ wk[w].nit \in AddrOrNull
  BY <1>2 DEF WorkerType
<1> QED
  BY <1>1, <1>2, <1>3, HeldType, Constants

\* GET finds its item and takes a reference.
LEMMA GetLooksKeeps ==
  ASSUME IndInv, NEW w \in Workers, GetLooks(w)
  PROVE  IndInv' /\ KeepsItems(heap, heap') /\ SameTable(heap, heap')
<1> DEFINE L == Logs(ia)
           V == Reserves(ia)
           r == Held(wk, ia)
           it == Lookup(heap, wk[w].key)
           z == [wk[w] EXCEPT !.pc = "respond", !.it = it]
<1>0. /\ wk[w].pc = "get" /\ heap' = (IF it = NULL THEN heap ELSE item_ref(heap, it))
      /\ wk' = [wk EXCEPT ![w].pc = "respond", ![w].it = it]
      /\ ia' = ia /\ mt' = mt /\ reqs' = reqs
  BY DEF GetLooks
<1>1. /\ wk \in [Workers -> WorkerType] /\ ia \in [Workers -> AllocatorType]
      /\ HeapInv(heap, L, V, r) /\ AllocatorsInv(ia) /\ heap \in HeapType
      /\ wk[w] \in WorkerType /\ WorkerInv(heap, wk[w]) /\ reqs \in 0 .. MaxReqs
      /\ wk[w].it = NULL /\ wk[w].nit = NULL
  BY <1>0, IndFacts DEF WorkerInv
<1>2. it = NULL \/ (it \in DOMAIN heap.items /\ it \in Addrs /\ heap.items[it].refcount > 0)
  <2>1. it # NULL => InTable(heap, it)
    BY <1>1, LookupFinds DEF HeapInv
  <2> QED
    BY <1>1, <2>1, HeapFacts, HeapFields
<1> HIDE DEF L, V, r, it
<1>3. z \in WorkerType /\ z.it = it /\ z.nit = NULL /\ \A hp : WorkerInv(hp, z)
  BY <1>0, <1>1, <1>2 DEF WorkerType, WorkerInv, AddrOrNull
<1>4. /\ wk' \in [Workers -> WorkerType] /\ wk'[w] = z
      /\ \A v \in Workers : v # w => wk'[v] = wk[v]
  <2>1. wk' = [wk EXCEPT ![w] = z]
    BY <1>0, <1>1
  <2> HIDE DEF z
  <2> QED
    BY <1>1, <1>3, <2>1
<1> HIDE DEF z
<1>5. HeapInv(heap', L, V, Held(wk', ia')) /\ KeepsItems(heap, heap') /\ SameTable(heap, heap')
  <2>1. CASE it = NULL
    <3>1. Held(wk', ia) = r
      BY <1>1, <1>3, <1>4, <2>1, HeldSame DEF r
    <3> QED
      BY <1>0, <1>1, <2>1, <3>1, KeepsSelf
  <2>2. CASE it # NULL
    <3>1. it \in Addrs /\ it \in DOMAIN heap.items /\ heap.items[it].refcount > 0
      BY <1>2, <2>2
    <3>2. Held(wk', ia) = [r EXCEPT ![it] = @ + 1]
      BY <1>1, <1>3, <1>4, <3>1, HeldChanges DEF r
    <3>3. HeapInv(item_ref(heap, it), L, V, [r EXCEPT ![it] = @ + 1])
          /\ KeepsItems(heap, item_ref(heap, it)) /\ SameTable(heap, item_ref(heap, it))
      BY <1>1, <3>1, RefKeeps
    <3> QED
      BY <1>0, <2>2, <3>2, <3>3
  <2> QED
    BY <2>1, <2>2
<1>6. HeapInv(heap', Logs(ia'), Reserves(ia'), Held(wk', ia')) /\ AllocatorsInv(ia')
  BY <1>0, <1>1, <1>5 DEF L, V
<1>7. /\ ia' \in [Workers -> AllocatorType] /\ reqs' \in 0 .. MaxReqs
      /\ \A v \in Workers : ia'[v].cleaning = ia[v].cleaning
      /\ mt' = mt /\ KeepsItems(heap, heap') /\ WorkerInv(heap', wk'[w])
  BY <1>0, <1>1, <1>3, <1>4, <1>5
<1>8. IndInv'
  BY <1>4, <1>6, <1>7, StepKeeps
<1> QED
  BY <1>5, <1>8

\* Giving up the item at the end of a request.
LEMMA LetGoKeeps ==
  ASSUME IndInv, NEW w \in Workers, wk[w].nit = NULL, Answered(w), UNCHANGED <<ia, mt, reqs>>,
         heap' = IF wk[w].it = NULL THEN heap ELSE item_unref(heap, wk[w].it)
  PROVE  IndInv' /\ KeepsItems(heap, heap') /\ SameTable(heap, heap')
<1> DEFINE L == Logs(ia)
           V == Reserves(ia)
           r == Held(wk, ia)
           it == wk[w].it
           z == [IdleWorker EXCEPT !.idle = FALSE]
<1>1. /\ wk \in [Workers -> WorkerType] /\ ia \in [Workers -> AllocatorType]
      /\ HeapInv(heap, L, V, r) /\ AllocatorsInv(ia) /\ reqs \in 0 .. MaxReqs
  BY IndFacts
<1>2. z \in WorkerType /\ z.it = NULL /\ z.nit = NULL /\ \A hp : WorkerInv(hp, z)
  BY IdleType DEF IdleWorker
<1> HIDE DEF z
<1>3. /\ wk' \in [Workers -> WorkerType] /\ wk'[w] = z
      /\ \A v \in Workers : v # w => wk'[v] = wk[v]
  BY <1>1, <1>2 DEF Answered, z
<1>4. HeapInv(heap', L, V, Held(wk', ia')) /\ KeepsItems(heap, heap') /\ SameTable(heap, heap')
  <2>1. CASE it = NULL
    <3>1. Held(wk', ia') = r
      BY <1>2, <1>3, <2>1, HeldSame
    <3> QED
      BY <1>1, <2>1, <3>1, KeepsSelf
  <2>2. CASE it # NULL
    <3>1. it \in Addrs /\ r[it] # 0
      BY <1>1, <2>2, HeldAlive
    <3>2. Held(wk', ia') = [r EXCEPT ![it] = @ - 1]
      BY <1>2, <1>3, <3>1, HeldChanges
    <3> HIDE DEF r, L, V, it
    <3>3. /\ HeapInv(item_unref(heap, it), L, V, [r EXCEPT ![it] = @ - 1])
          /\ KeepsItems(heap, item_unref(heap, it)) /\ SameTable(heap, item_unref(heap, it))
      BY <1>1, <3>1, UnrefKeeps
    <3>4. heap' = item_unref(heap, it)
      BY <2>2 DEF it
    <3> QED
      BY <3>2, <3>3, <3>4
  <2> QED
    BY <2>1, <2>2
<1>5. IndInv'
  BY <1>1, <1>2, <1>3, <1>4, StepKeeps
<1> QED
  BY <1>4, <1>5

\* GET has copied the value.
LEMMA RespondsKeeps ==
  ASSUME IndInv, NEW w \in Workers, Responds(w)
  PROVE  IndInv' /\ KeepsItems(heap, heap') /\ SameTable(heap, heap')
<1>1. wk[w].nit = NULL
  BY IndFacts DEF Responds, WorkerInv
<1> QED
  BY <1>1, LetGoKeeps DEF Responds

\* SET gives up its reference.
LEMMA SetUnrefsKeeps ==
  ASSUME IndInv, NEW w \in Workers, SetUnrefs(w)
  PROVE  IndInv' /\ KeepsItems(heap, heap') /\ SameTable(heap, heap')
<1>1. wk[w].nit = NULL /\ wk[w].it # NULL
  BY IndFacts DEF SetUnrefs, WorkerInv
<1> QED
  BY <1>1, LetGoKeeps DEF SetUnrefs

\* A put of the new item, or of the copy.
LEMMA PuttingKeeps ==
  ASSUME IndInv, NEW w \in Workers, NEW a \in {wk[w].it, wk[w].nit}, a # NULL, NEW cas, NEW pc,
         wk' = [wk EXCEPT ![w].pc = pc], heap' = hasht_put(heap, a, cas),
         UNCHANGED <<ia, mt, reqs>>,
         (wk[w].pc = "put" /\ pc = "unref") \/ (wk[w].pc = "replace" /\ pc = "drop")
  PROVE  /\ IndInv' /\ KeepsItems(heap, heap') /\ a \in Addrs
         /\ \/ heap' = heap /\ cas # NULL
            \/ /\ cas = NULL \/ Lookup(heap, KeyAt(heap, a)) = cas
               /\ Replaces(heap, heap', a)
<1> DEFINE L == Logs(ia)
           V == Reserves(ia)
           r == Held(wk, ia)
           z == [wk[w] EXCEPT !.pc = pc]
<1>1. /\ wk \in [Workers -> WorkerType] /\ ia \in [Workers -> AllocatorType]
      /\ HeapInv(heap, L, V, r) /\ AllocatorsInv(ia) /\ reqs \in 0 .. MaxReqs
      /\ wk[w] \in WorkerType /\ WorkerInv(heap, wk[w])
  BY IndFacts
<1>2. a \in Addrs /\ r[a] # 0
  BY <1>1, HeldAlive
<1>3. /\ z \in WorkerType /\ z.it = wk[w].it /\ z.nit = wk[w].nit
      /\ \A hp : WorkerInv(hp, z)
  BY <1>1 DEF WorkerType, WorkerInv
<1>4. /\ wk' \in [Workers -> WorkerType] /\ wk'[w] = z
      /\ \A v \in Workers : v # w => wk'[v] = wk[v]
  <2>1. wk' = [wk EXCEPT ![w] = z]
    BY <1>1
  <2> HIDE DEF z
  <2> QED
    BY <1>1, <1>3, <2>1
<1> HIDE DEF z
<1>5. ia' = ia /\ mt' = mt /\ reqs' = reqs /\ Held(wk', ia') = r
  <2>0. \A v \in Workers : wk'[v].it = wk[v].it /\ wk'[v].nit = wk[v].nit
    BY <1>3, <1>4
  <2>1. Held(wk', ia) = Held(wk, ia)
    <3>1. \A c : Holders(wk', c) = Holders(wk, c) /\ Copiers(wk', c) = Copiers(wk, c)
      BY <2>0 DEF Holders, Copiers
    <3> QED
      BY <3>1 DEF Held
  <2>2. ia' = ia /\ mt' = mt /\ reqs' = reqs
    OBVIOUS
  <2>3. Held(wk', ia') = Held(wk', ia)
    BY <2>2
  <2> QED
    BY <2>1, <2>2, <2>3
<1> HIDE DEF L, V, r
<1>6. /\ HeapInv(heap', L, V, r) /\ \A b \in DOMAIN heap.items : SameItem(heap, heap', b)
      /\ \/ heap' = heap /\ cas # NULL
         \/ /\ cas = NULL \/ Lookup(heap, KeyAt(heap, a)) = cas
            /\ Replaces(heap, heap', a)
  BY <1>1, <1>2, PutKeeps
<1>7. KeepsItems(heap, heap')
  BY <1>6 DEF KeepsItems
<1>8. IndInv'
  <2>1. HeapInv(heap', Logs(ia'), Reserves(ia'), Held(wk', ia')) /\ AllocatorsInv(ia')
    BY <1>1, <1>5, <1>6 DEF L, V
  <2> QED
    BY <1>1, <1>3, <1>4, <1>5, <1>7, <2>1, StepKeeps
<1> QED
  BY <1>2, <1>6, <1>7, <1>8

\* SET puts its item into the table.
LEMMA SetPutsKeeps ==
  ASSUME IndInv, NEW w \in Workers, SetPuts(w)
  PROVE  /\ IndInv' /\ KeepsItems(heap, heap') /\ wk[w].it \in Addrs
         /\ Replaces(heap, heap', wk[w].it)
<1>1. wk[w].it # NULL /\ wk[w].pc = "put" /\ heap' = hasht_put(heap, wk[w].it, NULL)
      /\ wk' = [wk EXCEPT ![w].pc = "unref"] /\ UNCHANGED <<ia, mt, reqs>>
  BY IndFacts DEF SetPuts, WorkerInv
<1>2. /\ IndInv' /\ KeepsItems(heap, heap') /\ wk[w].it \in Addrs
      /\ \/ heap' = heap /\ NULL # NULL
         \/ /\ NULL = NULL \/ Lookup(heap, KeyAt(heap, wk[w].it)) = NULL
            /\ Replaces(heap, heap', wk[w].it)
  BY <1>1, PuttingKeeps
<1> QED
  BY <1>2

\* The copy replaces the item, unless another has done so.
LEMMA CleanReplacesKeeps ==
  ASSUME IndInv, NEW w \in Workers, CleanReplaces(w)
  PROVE  /\ IndInv' /\ KeepsItems(heap, heap') /\ wk[w].nit \in Addrs
         /\ \/ heap' = heap
            \/ /\ Lookup(heap, KeyAt(heap, wk[w].nit)) = wk[w].it
               /\ Replaces(heap, heap', wk[w].nit)
<1>1. wk[w].it # NULL /\ wk[w].nit # NULL
  BY IndFacts DEF CleanReplaces, WorkerInv
<1> QED
  BY <1>1, PuttingKeeps DEF CleanReplaces

\* The references to item and copy are given up.
LEMMA CleanDropsKeeps ==
  ASSUME IndInv, NEW w \in Workers, CleanDrops(w)
  PROVE  IndInv' /\ KeepsItems(heap, heap') /\ SameTable(heap, heap')
<1> DEFINE L == Logs(ia)
           V == Reserves(ia)
           r == Held(wk, ia)
           a == wk[w].it
           b == wk[w].nit
           h1 == IF b = NULL THEN heap ELSE item_unref(heap, b)
           y1 == [wk[w] EXCEPT !.nit = NULL]
           x1 == [wk EXCEPT ![w] = y1]
           z == [wk[w] EXCEPT !.pc = "clean", !.it = NULL, !.nit = NULL]
<1>0. /\ wk[w].pc = "drop" /\ heap' = item_unref(h1, a)
      /\ wk' = [wk EXCEPT ![w].pc = "clean", ![w].it = NULL, ![w].nit = NULL]
      /\ UNCHANGED <<ia, mt, reqs>>
  BY DEF CleanDrops
<1>1. /\ wk \in [Workers -> WorkerType] /\ ia \in [Workers -> AllocatorType]
      /\ HeapInv(heap, L, V, r) /\ AllocatorsInv(ia) /\ reqs \in 0 .. MaxReqs
      /\ wk[w] \in WorkerType /\ WorkerInv(heap, wk[w])
      /\ a \in Addrs /\ b \in Addrs \cup {NULL} /\ a # NULL
  BY <1>0, IndFacts DEF WorkerInv, AddrOrNull
<1>2. y1 \in WorkerType /\ y1.it = a /\ y1.nit = NULL
  BY <1>1 DEF WorkerType, AddrOrNull
<1>3. z \in WorkerType /\ z.it = NULL /\ z.nit = NULL /\ \A hp : WorkerInv(hp, z)
  BY <1>0, <1>1 DEF WorkerType, WorkerInv, AddrOrNull
<1>4. /\ wk' \in [Workers -> WorkerType] /\ wk'[w] = z
      /\ \A v \in Workers : v # w => wk'[v] = wk[v]
  <2>1. wk' = [wk EXCEPT ![w] = z]
    BY <1>0, <1>1
  <2> HIDE DEF z
  <2> QED
    BY <1>1, <1>3, <2>1
<1> HIDE DEF y1, z
<1>5. /\ x1 \in [Workers -> WorkerType] /\ x1[w] = y1
      /\ \A v \in Workers : v # w => x1[v] = wk[v]
  BY <1>1, <1>2
<1> HIDE DEF x1
<1> DEFINE r1 == Held(x1, ia)
<1>6. HeapInv(h1, L, V, r1) /\ KeepsItems(heap, h1) /\ SameTable(heap, h1)
  <2>1. CASE b = NULL
    <3>1. r1 = r
      BY <1>2, <1>5, <2>1, HeldSame
    <3> QED
      BY <1>1, <2>1, <3>1, KeepsSelf
  <2>2. CASE b # NULL
    <3>1. b \in Addrs /\ r[b] # 0
      BY <1>1, <2>2, HeldAlive
    <3>2. r1 = [r EXCEPT ![b] = @ - 1]
      BY <1>2, <1>5, <3>1, HeldChanges
    <3>3. h1 = item_unref(heap, b)
      BY <2>2
    <3> HIDE DEF r, r1, L, V, h1, b
    <3>4. /\ HeapInv(item_unref(heap, b), L, V, [r EXCEPT ![b] = @ - 1])
          /\ KeepsItems(heap, item_unref(heap, b)) /\ SameTable(heap, item_unref(heap, b))
      BY <1>1, <3>1, UnrefKeeps
    <3> QED
      BY <3>2, <3>3, <3>4
  <2> QED
    BY <2>1, <2>2
<1>7. r1[a] # 0 /\ a \in DOMAIN h1.items
  <2> HIDE DEF h1
  <2> QED
    BY <1>1, <1>2, <1>5, <1>6, HeldAlive
<1>8. Held(wk', ia') = [r1 EXCEPT ![a] = @ - 1]
  <2>1. ia' = ia
    BY <1>0
  <2>2. Held(wk', ia) = [r1 EXCEPT ![a] = @ - 1]
    BY <1>1, <1>2, <1>3, <1>4, <1>5, HeldChanges
  <2> QED
    BY <2>1, <2>2
<1> HIDE DEF r, r1, L, V, h1, a, b
<1>9. /\ HeapInv(heap', L, V, Held(wk', ia')) /\ KeepsItems(h1, heap')
      /\ SameTable(h1, heap') /\ \A c \in DOMAIN h1.items : SameItem(h1, heap', c)
  BY ONLY <1>0, <1>1, <1>6, <1>7, <1>8, UnrefKeeps, SMTT(60)
<1>10. KeepsItems(heap, heap') /\ SameTable(heap, heap')
  BY ONLY <1>6, <1>9 DEF KeepsItems, SameItem, SameTable
<1>11. IndInv'
  BY <1>0, <1>1, <1>3, <1>4, <1>9, <1>10, StepKeeps DEF L, V
<1> QED
  BY <1>10, <1>11

-----------------------------------------------------------------------------
(* An item is allocated.                                                   *)

\* The heap and the allocators, after worker w has asked its own for an item,
\* when r are the references before.
Allocating(r, w, k, v, cleanup) ==
  LET x == ialloc_alloc(heap, ia[w], k, v, cleanup)
      y == [ia EXCEPT ![w] = x.ia]
  IN  /\ KeepsItems(heap, x.heap) /\ SameTable(heap, x.heap)
      /\ y \in [Workers -> AllocatorType] /\ AllocatorsInv(y)
      /\ \A u \in Workers : /\ y[u].cleanup_queue = ia[u].cleanup_queue
                            /\ y[u].cleaning = ia[u].cleaning
      /\ \/ x.it = NULL /\ HeapInv(x.heap, Logs(y), Reserves(y), r)
         \/ Placed(x.heap, Logs(y), Reserves(y), r, x.it, k, v)

LEMMA AllocatingDoes ==
  ASSUME ia \in [Workers -> AllocatorType], AllocatorsInv(ia),
         NEW r, HeapInv(heap, Logs(ia), Reserves(ia), r),
         NEW w \in Workers, NEW k \in Keys, NEW v \in Vals \cup {NULL}, NEW cleanup \in BOOLEAN
  PROVE  Allocating(r, w, k, v, cleanup)
<1> DEFINE x == ialloc_alloc(heap, ia[w], k, v, cleanup)
           y == [ia EXCEPT ![w] = x.ia]
           al == ia[w]
           L == Logs(ia)
           V == Reserves(ia)
<1>1. /\ ia \in [Workers -> AllocatorType] /\ HeapInv(heap, L, V, r) /\ AllocatorsInv(ia)
      /\ al \in AllocatorType /\ al.log \in Seq(Segs) /\ al.reserved \in V \cup {NULL}
      /\ Elems(al.log) \subseteq L /\ Len(al.log) > 0 /\ L \subseteq Segs /\ V \subseteq Segs
      /\ al.reserved \in Segs \cup {NULL}
  BY AllocatorFields DEF AllocatorsInv
<1>2. Last(al.log) \in L
  <2> DEFINE l == al.log
  <2>1. l \in Seq(Segs) /\ Len(l) > 0 /\ Elems(l) \subseteq L
    BY <1>1
  <2> HIDE DEF l, L
  <2>2. Len(l) \in 1 .. Len(l)
    BY <2>1
  <2>3. l[Len(l)] \in Elems(l)
    BY <2>2 DEF Elems
  <2>4. Last(l) \in L
    BY <2>1, <2>3 DEF Last
  <2> QED
    BY <2>4 DEF l
<1> HIDE DEF L, V, al, x
<1>3. /\ KeepsItems(heap, x.heap) /\ SameTable(heap, x.heap)
      /\ \/ x.it = NULL /\ x.ia = al /\ HeapInv(x.heap, L, V, r)
         \/ x.ia = al /\ Placed(x.heap, L, V, r, x.it, k, v)
         \/ \E s \in Segs : /\ s \notin L /\ s \notin V
                            /\ x.ia = [al EXCEPT !.log = Append(@, s)]
                            /\ Placed(x.heap, L \cup {s}, V, r, x.it, k, v)
         \/ /\ al.reserved \in V
            /\ x.ia = [al EXCEPT !.log = Append(@, al.reserved), !.reserved = NULL]
            /\ Placed(x.heap, L \cup {al.reserved}, V \ {al.reserved}, r, x.it, k, v)
  <2>1. x = ialloc_alloc(heap, al, k, v, cleanup)
    BY DEF x, al
  <2>2. Allocated(heap, L, V, r, al, k, v, x)
    BY <1>1, <1>2, <2>1, AllocKeeps
  <2> QED
    BY <2>2 DEF Allocated
<1>4. y = [ia EXCEPT ![w] = x.ia] /\ al = ia[w] /\ \A u \in Workers : u # w => y[u] = ia[u]
  BY DEF al
<1>10. \A u \in Workers : u # w => y[u] = ia[u]
  BY <1>4
<1>5. ASSUME x.ia \in AllocatorType
      PROVE  y \in [Workers -> AllocatorType] /\ y[w] = x.ia
  BY <1>1, <1>4, <1>5
<1> HIDE DEF y
<1> DEFINE Goal ==
             /\ y \in [Workers -> AllocatorType] /\ AllocatorsInv(y)
             /\ \A u \in Workers : /\ y[u].cleanup_queue = ia[u].cleanup_queue
                                   /\ y[u].cleaning = ia[u].cleaning
             /\ \/ x.it = NULL /\ HeapInv(x.heap, Logs(y), Reserves(y), r)
                \/ Placed(x.heap, Logs(y), Reserves(y), r, x.it, k, v)
<1>6. ASSUME x.ia = al
      PROVE  Goal
  <2>1. y = ia
    BY <1>1, <1>4, <1>6
  <2>2. \/ x.it = NULL /\ HeapInv(x.heap, L, V, r)
        \/ Placed(x.heap, L, V, r, x.it, k, v)
    <3>1. ASSUME NEW s, x.ia = [al EXCEPT !.log = Append(@, s)]
          PROVE  FALSE
      <4>1. x.ia.log = Append(al.log, s)
        BY <1>1, <3>1 DEF AllocatorType
      <4> DEFINE l == al.log
      <4>2. l \in Seq(Segs) /\ l = Append(l, s)
        BY <1>1, <1>6, <4>1
      <4> HIDE DEF l
      <4>3. Len(Append(l, s)) = Len(l) + 1 /\ Len(l) \in Nat
        BY <4>2
      <4> QED
        BY <4>2, <4>3
    <3>2. ASSUME x.ia = [al EXCEPT !.log = Append(@, al.reserved), !.reserved = NULL],
                 al.reserved \in V
          PROVE  FALSE
      <4>1. x.ia.reserved = NULL
        BY <1>1, <3>2 DEF AllocatorType
      <4> QED
        BY <1>1, <1>6, <3>2, <4>1, Constants
    <3> QED
      BY <1>3, <3>1, <3>2
  <2> QED
    BY <1>1, <2>1, <2>2 DEF L, V
<1>7. ASSUME NEW s \in Segs, s \notin L, s \notin V, x.ia = [al EXCEPT !.log = Append(@, s)],
             Placed(x.heap, L \cup {s}, V, r, x.it, k, v)
      PROVE  Goal
  <2>1. /\ x.ia \in AllocatorType /\ x.ia.log = Append(al.log, s)
        /\ x.ia.reserved = al.reserved /\ x.ia.cleanup_queue = al.cleanup_queue
        /\ x.ia.cleaning = al.cleaning
    <3> DEFINE m == Append(al.log, s)
    <3>1. m \in Seq(Segs)
      BY <1>1
    <3>2. x.ia = [al EXCEPT !.log = m]
      BY <1>7
    <3> HIDE DEF m
    <3>3. /\ x.ia \in AllocatorType /\ x.ia.log = m
          /\ x.ia.reserved = al.reserved /\ x.ia.cleanup_queue = al.cleanup_queue
          /\ x.ia.cleaning = al.cleaning
      BY <1>1, <3>1, <3>2 DEF AllocatorType
    <3> QED
      BY <3>3 DEF m
  <2>2. /\ y \in [Workers -> AllocatorType] /\ y[w].log = Append(ia[w].log, s)
        /\ y[w].reserved = ia[w].reserved /\ y[w].cleanup_queue = ia[w].cleanup_queue
        /\ y[w].cleaning = ia[w].cleaning
    BY <1>4, <1>5, <2>1
  <2>3. Logs(y) = L \cup {s} /\ AllocatorsInv(y)
    <3>1. s \notin Logs(ia) /\ y[w].reserved \in {ia[w].reserved, NULL}
      BY <1>7, <2>2 DEF L
    <3> QED
      BY <1>1, <1>10, <2>2, <3>1, LogGrows DEF L
  <2>4. Reserves(y) = V
    <3>1. \A u \in Workers : y[u].reserved = ia[u].reserved
      BY <1>4, <2>2
    <3> QED
      BY <3>1, SameReserves DEF V
  <2>5. \A u \in Workers : y[u].cleanup_queue = ia[u].cleanup_queue /\ y[u].cleaning = ia[u].cleaning
    BY <1>4, <2>2
  <2> QED
    BY <1>7, <2>2, <2>3, <2>4, <2>5
<1>8. ASSUME al.reserved \in V,
             x.ia = [al EXCEPT !.log = Append(@, al.reserved), !.reserved = NULL],
             Placed(x.heap, L \cup {al.reserved}, V \ {al.reserved}, r, x.it, k, v)
      PROVE  Goal
  <2> DEFINE s == al.reserved
  <2>0. s \in Segs /\ s # NULL /\ s \notin L
    <3>1. L \cap V = {}
      BY <1>1 DEF HeapInv, PlacesInv
    <3> QED
      BY <1>1, <1>8, <3>1, Constants
  <2>1. /\ x.ia \in AllocatorType /\ x.ia.log = Append(al.log, s)
        /\ x.ia.reserved = NULL /\ x.ia.cleanup_queue = al.cleanup_queue
        /\ x.ia.cleaning = al.cleaning
    <3> DEFINE m == Append(al.log, s)
    <3>1. m \in Seq(Segs)
      BY <1>1, <2>0
    <3>2. x.ia = [al EXCEPT !.log = m, !.reserved = NULL]
      BY <1>8
    <3> HIDE DEF m
    <3>3. /\ x.ia \in AllocatorType /\ x.ia.log = m
          /\ x.ia.reserved = NULL /\ x.ia.cleanup_queue = al.cleanup_queue
          /\ x.ia.cleaning = al.cleaning
      BY <1>1, <3>1, <3>2 DEF AllocatorType
    <3> QED
      BY <3>3 DEF m
  <2>2. /\ y \in [Workers -> AllocatorType] /\ y[w].log = Append(ia[w].log, s)
        /\ y[w].reserved = NULL /\ y[w].cleanup_queue = ia[w].cleanup_queue
        /\ y[w].cleaning = ia[w].cleaning /\ ia[w].reserved = s
    BY <1>4, <1>5, <2>1
  <2> HIDE DEF s
  <2>3. Logs(y) = L \cup {s} /\ AllocatorsInv(y)
    <3>1. s \notin Logs(ia) /\ y[w].reserved \in {ia[w].reserved, NULL}
      BY <2>0, <2>2 DEF L
    <3> QED
      BY <1>1, <1>10, <2>0, <2>2, <3>1, LogGrows, SMTT(60) DEF L
  <2>4. Reserves(y) = V \ {s}
    <3>1. ia[w].reserved # NULL /\ y[w].reserved = NULL
      BY <2>0, <2>2
    <3> QED
      BY <1>1, <1>10, <2>2, <3>1, ReserveChanges DEF V
  <2>5. \A u \in Workers : y[u].cleanup_queue = ia[u].cleanup_queue /\ y[u].cleaning = ia[u].cleaning
    BY <1>4, <2>2
  <2> QED
    BY <1>8, <2>2, <2>3, <2>4, <2>5 DEF s
<1>9. Goal
  <2>1. CASE x.ia # al
    BY <1>3, <1>7, <1>8, <2>1
  <2>2. CASE x.ia = al
    BY <1>6, <2>2
  <2> QED
    BY <2>1, <2>2
<1> QED
  BY <1>3, <1>9 DEF y, x, Allocating

\* The same in the store, whose threads are the workers.
LEMMA AllocatingKeeps ==
  ASSUME IndInv, NEW w \in Workers, NEW k \in Keys, NEW v \in Vals \cup {NULL},
         NEW cleanup \in BOOLEAN
  PROVE  Allocating(Held(wk, ia), w, k, v, cleanup)
<1>1. /\ ia \in [Workers -> AllocatorType] /\ AllocatorsInv(ia)
      /\ HeapInv(heap, Logs(ia), Reserves(ia), Held(wk, ia))
  BY DEF IndInv, TypeOK
<1> QED
  BY <1>1, AllocatingDoes

\* A thread that had no item, or no copy, has the one just allocated.
LEMMA NewHeld ==
  ASSUME NEW x, NEW y, NEW x2, NEW y2, NEW w \in Workers, NEW a \in Addrs,
         \A v \in Workers : /\ y2[v].cleanup_queue = y[v].cleanup_queue
                            /\ v # w => x2[v].it = x[v].it /\ x2[v].nit = x[v].nit,
         Held(x, y)[a] = 0,
         \/ x[w].it = NULL /\ x2[w].it = a /\ x2[w].nit = x[w].nit
         \/ x[w].nit = NULL /\ x2[w].nit = a /\ x2[w].it = x[w].it
  PROVE  Held(x2, y2) = [Held(x, y) EXCEPT ![a] = 1]
<1>1. Held(x2, y2) = [Held(x, y) EXCEPT ![a] = @ + 1]
  <2>0. ASSUME NEW f \in {"it", "nit"},
               f = "it" => x2[w].nit = x[w].nit, f = "nit" => x2[w].it = x[w].it
        PROVE  (IF f = "it" THEN x[w].it = NULL /\ x2[w].it = a
                ELSE x[w].nit = NULL /\ x2[w].nit = a)
                 => Held(x2, y2) = [Held(x, y) EXCEPT ![a] = @ + 1]
    BY <2>0, HeldChanges
  <2>1. CASE x[w].it = NULL /\ x2[w].it = a /\ x2[w].nit = x[w].nit
    BY <2>0, <2>1
  <2>2. CASE x[w].nit = NULL /\ x2[w].nit = a /\ x2[w].it = x[w].it
    BY <2>0, <2>2
  <2> QED
    BY <2>1, <2>2
<1> DEFINE r == Held(x, y)
<1>2. r \in [Addrs -> Nat] /\ r[a] = 0
  BY HeldType
<1> HIDE DEF r
<1>3. [r EXCEPT ![a] = @ + 1] = [r EXCEPT ![a] = 1]
  BY <1>2
<1> QED
  BY <1>1, <1>3 DEF r

\* SET allocates its item, or is refused.
LEMMA SetAllocatesKeeps ==
  ASSUME IndInv, NEW w \in Workers, SetAllocates(w)
  PROVE  IndInv' /\ KeepsItems(heap, heap') /\ SameTable(heap, heap')
<1> DEFINE x == ialloc_alloc(heap, ia[w], wk[w].key, wk[w].val, FALSE)
           y == [ia EXCEPT ![w] = x.ia]
           r == Held(wk, ia)
           z == IF x.it = NULL THEN [IdleWorker EXCEPT !.idle = FALSE]
                ELSE [wk[w] EXCEPT !.pc = "put", !.it = x.it]
<1>0. /\ wk[w].pc = "alloc" /\ heap' = x.heap /\ ia' = y /\ mt' = mt /\ reqs' = reqs
      /\ IF x.it = NULL THEN Answered(w)
         ELSE wk' = [wk EXCEPT ![w].pc = "put", ![w].it = x.it]
  BY DEF SetAllocates
<1>1. /\ wk \in [Workers -> WorkerType] /\ wk[w] \in WorkerType /\ WorkerInv(heap, wk[w])
      /\ wk[w].it = NULL /\ wk[w].nit = NULL /\ wk[w].op = "set"
      /\ wk[w].key \in Keys /\ wk[w].val \in Vals /\ reqs \in 0 .. MaxReqs
      /\ NULL \notin Addrs
  BY <1>0, IndFacts DEF WorkerInv
<1>2. /\ KeepsItems(heap, x.heap) /\ SameTable(heap, x.heap)
      /\ y \in [Workers -> AllocatorType] /\ AllocatorsInv(y)
      /\ \A u \in Workers : /\ y[u].cleanup_queue = ia[u].cleanup_queue
                            /\ y[u].cleaning = ia[u].cleaning
      /\ \/ x.it = NULL /\ HeapInv(x.heap, Logs(y), Reserves(y), r)
         \/ Placed(x.heap, Logs(y), Reserves(y), r, x.it, wk[w].key, wk[w].val)
  <2>1. wk[w].val \in Vals \cup {NULL} /\ FALSE \in BOOLEAN
    BY <1>1
  <2> QED
    BY <1>1, <2>1, AllocatingKeeps DEF Allocating
<1> HIDE DEF x, y, r
<1>3. /\ z \in WorkerType /\ z.nit = NULL /\ z.it = x.it /\ WorkerInv(x.heap, z)
  <2>1. CASE x.it = NULL
    <3>1. z = [IdleWorker EXCEPT !.idle = FALSE]
      BY <2>1
    <3>2. z.it = NULL /\ z.nit = NULL
      BY <3>1 DEF IdleWorker
    <3> HIDE DEF z
    <3> QED
      BY <2>1, <3>1, <3>2, IdleType
  <2>2. CASE x.it # NULL
    <3>1. /\ x.it \in Addrs /\ x.heap.items[x.it].key = wk[w].key
          /\ x.heap.items[x.it].val = wk[w].val
      BY <1>2, <2>2 DEF Placed, Item
    <3>2. z = [wk[w] EXCEPT !.pc = "put", !.it = x.it]
      BY <2>2
    <3> HIDE DEF z
    <3>3. /\ z \in WorkerType /\ z.nit = NULL /\ z.it = x.it /\ z.pc = "put"
          /\ z.op = "set" /\ z.key = wk[w].key /\ z.val = wk[w].val
      BY <1>1, <3>1, <3>2 DEF WorkerType, AddrOrNull
    <3> QED
      BY <1>1, <2>2, <3>1, <3>3 DEF WorkerInv
  <2> QED
    BY <2>1, <2>2
<1>4. /\ wk' \in [Workers -> WorkerType] /\ wk'[w] = z
      /\ \A v \in Workers : v # w => wk'[v] = wk[v]
  <2>1. wk' = [wk EXCEPT ![w] = z]
    BY <1>0, <1>1 DEF Answered
  <2> HIDE DEF z
  <2> QED
    BY <1>1, <1>3, <2>1
<1> HIDE DEF z
<1>5. HeapInv(x.heap, Logs(y), Reserves(y), Held(wk', y))
  <2>1. CASE x.it = NULL
    <3>1. HeapInv(x.heap, Logs(y), Reserves(y), r)
      BY <1>1, <1>2, <2>1 DEF Placed
    <3>2. \A v \in Workers : /\ wk'[v].it = wk[v].it /\ wk'[v].nit = wk[v].nit
                             /\ y[v].cleanup_queue = ia[v].cleanup_queue
      BY <1>1, <1>2, <1>3, <1>4, <2>1
    <3>3. Held(wk', y) = r
      BY <3>2, HeldSame DEF r
    <3> QED
      BY <3>1, <3>3
  <2>2. CASE x.it # NULL
    <3>1. /\ x.it \in Addrs /\ r[x.it] = 0
          /\ HeapInv(x.heap, Logs(y), Reserves(y), [r EXCEPT ![x.it] = 1])
      BY <1>2, <2>2 DEF Placed
    <3>2. Held(wk', y) = [r EXCEPT ![x.it] = 1]
      BY <1>1, <1>2, <1>3, <1>4, <3>1, NewHeld DEF r
    <3> QED
      BY <3>1, <3>2
  <2> QED
    BY <2>1, <2>2
<1>6. /\ HeapInv(heap', Logs(ia'), Reserves(ia'), Held(wk', ia')) /\ AllocatorsInv(ia')
      /\ ia' \in [Workers -> AllocatorType] /\ reqs' \in 0 .. MaxReqs /\ mt' = mt
      /\ \A v \in Workers : ia'[v].cleaning = ia[v].cleaning
      /\ KeepsItems(heap, heap') /\ SameTable(heap, heap') /\ WorkerInv(heap', wk'[w])
  BY <1>0, <1>1, <1>2, <1>3, <1>4, <1>5
<1>7. IndInv'
  BY <1>4, <1>6, StepKeeps
<1> QED
  BY <1>6, <1>7

\* An item is relocated.
LEMMA CleanCopiesKeeps ==
  ASSUME IndInv, NEW w \in Workers, CleanCopies(w)
  PROVE  IndInv' /\ KeepsItems(heap, heap') /\ SameTable(heap, heap')
<1> DEFINE a == wk[w].it
           k == heap.items[a].key
           v == heap.items[a].val
           x == ialloc_alloc(heap, ia[w], k, v, TRUE)
           y == [ia EXCEPT ![w] = x.ia]
           r == Held(wk, ia)
<1>1. /\ wk \in [Workers -> WorkerType] /\ wk[w] \in WorkerType /\ WorkerInv(heap, wk[w])
      /\ wk[w].pc = "copy" /\ a # NULL /\ wk[w].nit = NULL /\ wk[w].op = "none"
      /\ reqs \in 0 .. MaxReqs /\ NULL \notin Addrs
      /\ ia \in [Workers -> AllocatorType] /\ AllocatorsInv(ia)
      /\ HeapInv(heap, Logs(ia), Reserves(ia), r)
  BY IndFacts DEF CleanCopies, WorkerInv
<1>2. /\ a \in Addrs /\ a \in DOMAIN heap.items /\ heap.items[a].refcount > 0
      /\ k \in Keys /\ v \in Vals \cup {NULL}
  <2>1. a \in Addrs /\ a \in DOMAIN heap.items /\ heap.items[a].refcount > 0
    BY <1>1, HeldAlive
  <2>2. heap.items[a] \in ItemType
    BY <1>1, <2>1, HeapFields DEF HeapInv
  <2> QED
    BY <1>1, <2>1, <2>2 DEF HeapInv, ItemsInv, ItemType
<1>3. CASE heap.items[a].refcount = 1
  <2> DEFINE z == [wk[w] EXCEPT !.pc = "drop"]
  <2>0. heap' = heap /\ ia' = ia /\ mt' = mt /\ reqs' = reqs
        /\ wk' = [wk EXCEPT ![w].pc = "drop"]
    BY <1>3 DEF CleanCopies
  <2>1. z \in WorkerType /\ z.it = wk[w].it /\ z.nit = wk[w].nit /\ WorkerInv(heap, z)
    BY <1>1 DEF WorkerType, WorkerInv
  <2>2. /\ wk' \in [Workers -> WorkerType] /\ wk'[w] = z
        /\ \A u \in Workers : u # w => wk'[u] = wk[u]
    <3>1. wk' = [wk EXCEPT ![w] = z]
      BY <1>1, <2>0
    <3> HIDE DEF z
    <3> QED
      BY <1>1, <2>1, <3>1
  <2> HIDE DEF z
  <2>3. Held(wk', ia) = r
    <3>1. \A u \in Workers : wk'[u].it = wk[u].it /\ wk'[u].nit = wk[u].nit
      BY <2>1, <2>2
    <3>2. \A c : Holders(wk', c) = Holders(wk, c) /\ Copiers(wk', c) = Copiers(wk, c)
      BY <3>1 DEF Holders, Copiers
    <3> QED
      BY <3>2 DEF Held, r
  <2> HIDE DEF r
  <2>4. /\ HeapInv(heap', Logs(ia'), Reserves(ia'), Held(wk', ia')) /\ AllocatorsInv(ia')
        /\ ia' \in [Workers -> AllocatorType] /\ reqs' \in 0 .. MaxReqs /\ mt' = mt
        /\ \A u \in Workers : ia'[u].cleaning = ia[u].cleaning
        /\ KeepsItems(heap, heap') /\ SameTable(heap, heap') /\ WorkerInv(heap', wk'[w])
    BY <1>1, <2>0, <2>1, <2>2, <2>3, KeepsSelf
  <2>5. IndInv'
    BY <2>2, <2>4, StepKeeps
  <2> QED
    BY <2>4, <2>5
<1>4. CASE heap' = heap /\ ia' = ia /\ mt' = mt /\ reqs' = reqs /\ wk' = wk
  <2>1. /\ HeapInv(heap', Logs(ia'), Reserves(ia'), Held(wk', ia')) /\ AllocatorsInv(ia')
        /\ ia' \in [Workers -> AllocatorType] /\ reqs' \in 0 .. MaxReqs /\ mt' = mt
        /\ wk' \in [Workers -> WorkerType]
        /\ \A u \in Workers : ia'[u].cleaning = ia[u].cleaning /\ wk'[u] = wk[u]
        /\ KeepsItems(heap, heap') /\ SameTable(heap, heap') /\ WorkerInv(heap', wk'[w])
    BY <1>1, <1>4, KeepsSelf
  <2>2. IndInv'
    BY <2>1, StepKeeps
  <2> QED
    BY <2>1, <2>2
<1>5. CASE /\ heap' = x.heap /\ ia' = y /\ mt' = mt /\ reqs' = reqs
           /\ IF x.it = NULL THEN wk' = wk
              ELSE wk' = [wk EXCEPT ![w].pc = "replace", ![w].nit = x.it]
  <2>0. /\ heap' = x.heap /\ ia' = y /\ mt' = mt /\ reqs' = reqs
        /\ IF x.it = NULL THEN wk' = wk
           ELSE wk' = [wk EXCEPT ![w].pc = "replace", ![w].nit = x.it]
    BY <1>5
  <2>1. /\ KeepsItems(heap, x.heap) /\ SameTable(heap, x.heap)
        /\ y \in [Workers -> AllocatorType] /\ AllocatorsInv(y)
        /\ \A u \in Workers : /\ y[u].cleanup_queue = ia[u].cleanup_queue
                              /\ y[u].cleaning = ia[u].cleaning
        /\ \/ x.it = NULL /\ HeapInv(x.heap, Logs(y), Reserves(y), r)
           \/ Placed(x.heap, Logs(y), Reserves(y), r, x.it, k, v)
    BY <1>2, AllocatingKeeps DEF Allocating
  <2>2. WorkerInv(x.heap, wk[w])
    BY <1>1, <2>1, WorkerKeeps DEF r
  <2> HIDE DEF x, y, r, k, v
  <2>3. CASE x.it = NULL
    <3>1. HeapInv(x.heap, Logs(y), Reserves(y), r)
      BY <1>1, <2>1, <2>3 DEF Placed
    <3>2. Held(wk, y) = r
      BY <2>1, HeldSame DEF r
    <3>3. /\ HeapInv(heap', Logs(ia'), Reserves(ia'), Held(wk', ia')) /\ AllocatorsInv(ia')
          /\ ia' \in [Workers -> AllocatorType] /\ reqs' \in 0 .. MaxReqs /\ mt' = mt
          /\ wk' \in [Workers -> WorkerType]
          /\ \A u \in Workers : ia'[u].cleaning = ia[u].cleaning /\ wk'[u] = wk[u]
          /\ KeepsItems(heap, heap') /\ SameTable(heap, heap') /\ WorkerInv(heap', wk'[w])
      BY <1>1, <2>0, <2>1, <2>2, <2>3, <3>1, <3>2
    <3>4. IndInv'
      BY <3>3, StepKeeps
    <3> QED
      BY <3>3, <3>4
  <2>4. CASE x.it # NULL
    <3> DEFINE z == [wk[w] EXCEPT !.pc = "replace", !.nit = x.it]
    <3>1. /\ x.it \in Addrs /\ r[x.it] = 0
          /\ x.heap.items[x.it].key = k /\ x.heap.items[x.it].val = v
          /\ HeapInv(x.heap, Logs(y), Reserves(y), [r EXCEPT ![x.it] = 1])
      BY <2>1, <2>4 DEF Placed, Item
    <3>2. x.heap.items[a].key = k /\ x.heap.items[a].val = v
      BY <1>2, <2>1 DEF KeepsItems, SameItem, k, v
    <3>3. /\ z \in WorkerType /\ z.it = a /\ z.nit = x.it /\ z.pc = "replace" /\ z.op = "none"
      BY <1>1, <3>1 DEF WorkerType, AddrOrNull
    <3>4. /\ wk' \in [Workers -> WorkerType] /\ wk'[w] = z
          /\ \A u \in Workers : u # w => wk'[u] = wk[u]
      <4>1. wk' = [wk EXCEPT ![w] = z]
        BY <1>1, <2>0, <2>4
      <4> HIDE DEF z
      <4> QED
        BY <1>1, <3>3, <4>1
    <3> HIDE DEF z
    <3>5. WorkerInv(x.heap, z)
      BY <1>1, <2>4, <3>1, <3>2, <3>3 DEF WorkerInv
    <3>6. Held(wk', y) = [r EXCEPT ![x.it] = 1]
      BY <1>1, <2>1, <3>1, <3>3, <3>4, NewHeld DEF r
    <3>7. /\ HeapInv(heap', Logs(ia'), Reserves(ia'), Held(wk', ia')) /\ AllocatorsInv(ia')
          /\ ia' \in [Workers -> AllocatorType] /\ reqs' \in 0 .. MaxReqs /\ mt' = mt
          /\ \A u \in Workers : ia'[u].cleaning = ia[u].cleaning
          /\ KeepsItems(heap, heap') /\ SameTable(heap, heap') /\ WorkerInv(heap', wk'[w])
      BY <1>1, <2>0, <2>1, <3>1, <3>4, <3>5, <3>6
    <3>8. IndInv'
      BY <3>4, <3>7, StepKeeps
    <3> QED
      BY <3>7, <3>8
  <2> QED
    BY <2>3, <2>4
<1> QED
  BY <1>3, <1>4, <1>5 DEF CleanCopies

\* The reference of a queue becomes that of the worker.
LEMMA TakenHeld ==
  ASSUME NEW x, NEW y, NEW x2, NEW y2, NEW w \in Workers,
         \A v \in Workers : v # w => y2[v].cleanup_queue = y[v].cleanup_queue,
         y[w].cleanup_queue \in Seq(Addrs), y[w].cleanup_queue # << >>,
         Len(y[w].cleanup_queue) <= CqSize,
         y2[w].cleanup_queue = Tail(y[w].cleanup_queue),
         \A v \in Workers : v # w => x2[v].it = x[v].it /\ x2[v].nit = x[v].nit,
         x2[w].nit = x[w].nit, x[w].it = NULL, x2[w].it = y[w].cleanup_queue[1]
  PROVE  Held(x2, y2) = Held(x, y)
<1> DEFINE e == y[w].cleanup_queue[1]
           r == Held(x, y)
           r1 == Held(x, y2)
           r2 == Held(x2, y2)
<1>1. e \in Addrs /\ \A b \in Addrs : r1[b] = r[b] - (IF b = e THEN 1 ELSE 0)
  BY QueuePops, SMTT(60)
<1>2. \A b \in Addrs : r2[b] = r1[b] + (IF b = e THEN 1 ELSE 0)
  BY <1>1, ItTaken
<1>3. r \in [Addrs -> Nat] /\ r1 \in [Addrs -> Nat] /\ r2 \in [Addrs -> Nat]
  BY HeldType
<1> HIDE DEF r, r1, r2, e
<1>4. ASSUME NEW b \in Addrs
      PROVE  r2[b] = r[b]
  <2>1. r[b] \in Nat /\ r1[b] \in Nat /\ r2[b] \in Nat
    BY <1>3
  <2>2. r1[b] = r[b] - (IF b = e THEN 1 ELSE 0) /\ r2[b] = r1[b] + (IF b = e THEN 1 ELSE 0)
    BY <1>1, <1>2
  <2> QED
    BY <2>1, <2>2
<1>5. r2 = r
  BY <1>3, <1>4
<1> QED
  BY <1>5 DEF r, r2

\* The next item of the queue is taken.
LEMMA CleanTakesKeeps ==
  ASSUME IndInv, NEW w \in Workers, CleanTakes(w)
  PROVE  IndInv' /\ KeepsItems(heap, heap') /\ SameTable(heap, heap')
<1> DEFINE al == ia[w]
           L == Logs(ia)
           V == Reserves(ia)
           r == Held(wk, ia)
           Full == ~wk[w].idle /\ Quota(w) >= CleanMax
           refill == al.reserved = NULL
           n == IF wk[w].idle THEN al.cleanup_count ELSE Quota(w) + 1
           q == al.cleanup_queue
           q2 == IF q = << >> THEN q ELSE Tail(q)
           res == IF refill THEN NextSegment(heap) ELSE al.reserved
           x == [al EXCEPT !.cleanup_count = n, !.cleanup_queue = q2, !.reserved = res]
           h == IF refill THEN segment_alloc(heap) ELSE heap
           z == IF q = << >> THEN IdleWorker ELSE [wk[w] EXCEPT !.pc = "copy", !.it = q[1]]
<1>1. /\ wk \in [Workers -> WorkerType] /\ wk[w] \in WorkerType /\ WorkerInv(heap, wk[w])
      /\ wk[w].it = NULL /\ wk[w].nit = NULL /\ wk[w].op = "none"
      /\ reqs \in 0 .. MaxReqs /\ NULL \notin Addrs /\ mt' = mt /\ reqs' = reqs
      /\ ia \in [Workers -> AllocatorType] /\ AllocatorsInv(ia) /\ HeapInv(heap, L, V, r)
      /\ al \in AllocatorType /\ q \in Seq(Addrs) /\ Len(q) <= CqSize
      /\ al.reserved \in Segs \cup {NULL} /\ r \in [Addrs -> Nat]
  BY IndFacts, AllocatorFields DEF CleanTakes, WorkerInv, AllocatorsInv
<1>2. CASE Full
  <2>1. /\ heap' = heap /\ ia' = ia /\ wk' = [wk EXCEPT ![w] = IdleWorker]
    BY <1>2 DEF CleanTakes
  <2>2. /\ wk' \in [Workers -> WorkerType] /\ wk'[w] = IdleWorker
        /\ \A v \in Workers : v # w => wk'[v] = wk[v]
        /\ IdleWorker.it = NULL /\ IdleWorker.nit = NULL /\ WorkerInv(heap, IdleWorker)
    <3>1. IdleWorker.it = NULL /\ IdleWorker.nit = NULL
      BY DEF IdleWorker
    <3> QED
      BY <1>1, <2>1, <3>1, IdleType
  <2>3. Held(wk', ia) = r
    <3>1. \A v \in Workers : wk'[v].it = wk[v].it /\ wk'[v].nit = wk[v].nit
      BY <1>1, <2>2
    <3>2. \A c : Holders(wk', c) = Holders(wk, c) /\ Copiers(wk', c) = Copiers(wk, c)
      BY <3>1 DEF Holders, Copiers
    <3> QED
      BY <3>2 DEF Held
  <2> HIDE DEF r
  <2>4. /\ HeapInv(heap', Logs(ia'), Reserves(ia'), Held(wk', ia')) /\ AllocatorsInv(ia')
        /\ ia' \in [Workers -> AllocatorType] /\ reqs' \in 0 .. MaxReqs
        /\ \A v \in Workers : ia'[v].cleaning = ia[v].cleaning
        /\ KeepsItems(heap, heap') /\ SameTable(heap, heap') /\ WorkerInv(heap', wk'[w])
    BY <1>1, <2>1, <2>2, <2>3, KeepsSelf
  <2>5. IndInv'
    BY <1>1, <2>2, <2>4, StepKeeps
  <2> QED
    BY <2>4, <2>5
<1>3. CASE ~Full
  <2>0. /\ heap' = h /\ wk' = [wk EXCEPT ![w] = z] /\ ia' = [ia EXCEPT ![w] = x]
    <3>1. /\ heap' = h
          /\ wk' = IF q = << >> THEN [wk EXCEPT ![w] = IdleWorker]
                   ELSE [wk EXCEPT ![w].pc = "copy", ![w].it = Head(q)]
          /\ ia' = [ia EXCEPT ![w].cleanup_count = IF wk[w].idle THEN @ ELSE Quota(w) + 1,
                              ![w].cleanup_queue = IF @ = << >> THEN @ ELSE Tail(@),
                              ![w].reserved = IF refill THEN NextSegment(heap) ELSE @]
      BY <1>3 DEF CleanTakes
    <3>2. ia' = [ia EXCEPT ![w] = x]
      BY <1>1, <3>1 DEF AllocatorType
    <3>3. q # << >> => Head(q) = q[1]
      BY <1>1
    <3>4. wk' = [wk EXCEPT ![w] = z]
      BY <1>1, <3>1, <3>3
    <3> QED
      BY <3>1, <3>2, <3>4
  <2>1. /\ n \in Nat /\ q2 \in Seq(Addrs) /\ Len(q2) <= CqSize
        /\ (q = << >> => q2 = q) /\ (q # << >> => q2 = Tail(q) /\ q[1] \in Addrs)
    <3>1. n \in Nat
      BY <1>1 DEF Quota, AllocatorType
    <3>2. Len(q) \in Nat /\ CqSize \in Nat
      BY <1>1, Constants
    <3> HIDE DEF q, n
    <3>3. /\ q2 \in Seq(Addrs) /\ Len(q2) <= Len(q)
          /\ (q = << >> => q2 = q) /\ (q # << >> => q2 = Tail(q) /\ q[1] \in Addrs)
      BY <1>1
    <3>4. Len(q2) \in Nat
      BY <3>3
    <3> HIDE DEF q2
    <3> QED
      BY <1>1, <3>1, <3>2, <3>3, <3>4
  <2>2. /\ res \in Segs \cup {NULL} /\ KeepsItems(heap, h) /\ SameTable(heap, h)
        /\ IF refill /\ res # NULL THEN res \notin V /\ HeapInv(h, L, V \cup {res}, r)
           ELSE res = al.reserved /\ HeapInv(h, L, V, r)
    <3>1. CASE refill /\ NextSegment(heap) # NULL
      <4> DEFINE s == NextSegment(heap)
                 g == segment_alloc(heap)
      <4>1. res = s /\ h = g
        BY <3>1
      <4>3. HeapInv(heap, L, V, r) /\ s # NULL
        BY <1>1, <3>1
      <4> HIDE DEF L, V, r, res, h, al, q
      <4>2. /\ s \in Segs /\ s \notin V
            /\ HeapInv(g, L, V \cup {s}, r) /\ KeepsItems(heap, g) /\ SameTable(heap, g)
        BY ONLY <4>3, SegmentAllocKeeps
      <4> QED
        BY <3>1, <4>1, <4>2
    <3>2. CASE refill /\ NextSegment(heap) = NULL
      <4>1. h = heap /\ res = NULL /\ res = al.reserved
        BY <3>2, NoSegment
      <4> HIDE DEF res, h
      <4> QED
        BY <1>1, <4>1, KeepsSelf
    <3>3. CASE ~refill
      BY <1>1, <3>3, KeepsSelf
    <3> QED
      BY <3>1, <3>2, <3>3
  <2>3. /\ z \in WorkerType /\ z.nit = NULL /\ WorkerInv(h, z)
        /\ z.it = IF q = << >> THEN NULL ELSE q[1]
    <3>1. CASE q = << >>
      <4>1. z = IdleWorker
        BY <3>1
      <4>2. IdleWorker.it = NULL /\ IdleWorker.nit = NULL
        BY DEF IdleWorker
      <4> HIDE DEF z
      <4> QED
        BY <3>1, <4>1, <4>2, IdleType
    <3>2. CASE q # << >>
      <4> DEFINE e == q[1]
      <4>1. e \in Addrs /\ e # NULL /\ z = [wk[w] EXCEPT !.pc = "copy", !.it = e]
        BY <1>1, <2>1, <3>2
      <4> HIDE DEF z, q, e
      <4>2. /\ z \in WorkerType /\ z.nit = NULL /\ z.it = e /\ z.pc = "copy" /\ z.op = "none"
        BY <1>1, <4>1 DEF WorkerType, AddrOrNull
      <4>3. WorkerInv(h, z)
        BY <4>1, <4>2 DEF WorkerInv
      <4> QED
        BY <3>2, <4>2, <4>3 DEF e
    <3> QED
      BY <3>1, <3>2
  <2> HIDE DEF n, q2, res, h, z
  <2>4. /\ x \in AllocatorType /\ x.log = al.log /\ x.reserved = res /\ x.cleanup_queue = q2
        /\ x.cleaning = al.cleaning
    <3> HIDE DEF al
    <3> QED
      BY <1>1, <2>1, <2>2 DEF AllocatorType
  <2> HIDE DEF x
  <2>5. /\ ia' \in [Workers -> AllocatorType] /\ ia'[w] = x
        /\ \A v \in Workers : v # w => ia'[v] = ia[v]
        /\ wk' \in [Workers -> WorkerType] /\ wk'[w] = z
        /\ \A v \in Workers : v # w => wk'[v] = wk[v]
    BY <1>1, <2>0, <2>3, <2>4
  <2>6. /\ \A v \in Workers : v # w => ia'[v] = ia[v] /\ wk'[v] = wk[v]
        /\ ia'[w].log = ia[w].log /\ ia'[w].reserved = res /\ ia'[w].cleanup_queue = q2
        /\ ia'[w].cleaning = ia[w].cleaning
        /\ wk'[w].it = (IF q = << >> THEN NULL ELSE q[1]) /\ wk'[w].nit = wk[w].nit
    BY <1>1, <2>3, <2>4, <2>5
  <2>7. AllocatorsInv(ia') /\ Logs(ia') = L /\ HeapInv(h, L, Reserves(ia'), r)
    <3>1. AllocatorsInv(ia') /\ Logs(ia') = Logs(ia)
      <4>1. ia'[w].reserved = ia[w].reserved \/ ia'[w].reserved \notin Reserves(ia)
        BY <2>2, <2>6
      <4>2. /\ \A v \in Workers : v # w => ia'[v] = ia[v]
            /\ ia'[w].log = ia[w].log /\ Len(ia'[w].cleanup_queue) <= CqSize
        BY <2>1, <2>6
      <4> QED
        BY <1>1, <4>1, <4>2, ReserveFills
    <3>2. CASE refill /\ res # NULL
      <4>1. /\ ia[w].reserved = NULL /\ ia'[w].reserved \in Segs \ Reserves(ia)
            /\ \A v \in Workers : v # w => ia'[v] = ia[v]
        BY <2>2, <2>6, <3>2
      <4>2. Reserves(ia') = Reserves(ia) \cup {ia'[w].reserved}
        BY <1>1, <4>1, ReserveChanges
      <4> QED
        BY <2>2, <2>6, <3>1, <3>2, <4>2
    <3>3. CASE ~(refill /\ res # NULL)
      <4>1. \A v \in Workers : ia'[v].reserved = ia[v].reserved
        BY <2>2, <2>6, <3>3
      <4>2. Reserves(ia') = Reserves(ia)
        BY <4>1, SameReserves
      <4> QED
        BY <2>2, <3>1, <3>3, <4>2
    <3> QED
      BY <3>2, <3>3
  <2>8. Held(wk', ia') = r
    <3>1. CASE q = << >>
      <4>1. \A v \in Workers : /\ ia'[v].cleanup_queue = ia[v].cleanup_queue
                               /\ wk'[v].it = wk[v].it /\ wk'[v].nit = wk[v].nit
        BY <1>1, <2>1, <2>6, <3>1
      <4>2. \A c : /\ Holders(wk', c) = Holders(wk, c) /\ Copiers(wk', c) = Copiers(wk, c)
                   /\ Queued(ia', c) = Queued(ia, c)
        BY <4>1 DEF Holders, Copiers, Queued
      <4> QED
        BY <4>2 DEF Held
    <3>2. CASE q # << >>
      <4>1. /\ \A v \in Workers : v # w => ia'[v].cleanup_queue = ia[v].cleanup_queue
            /\ ia[w].cleanup_queue \in Seq(Addrs) /\ ia[w].cleanup_queue # << >>
            /\ Len(ia[w].cleanup_queue) <= CqSize
            /\ ia'[w].cleanup_queue = Tail(ia[w].cleanup_queue)
        BY <1>1, <2>1, <2>6, <3>2
      <4>2. /\ \A v \in Workers : v # w => wk'[v].it = wk[v].it /\ wk'[v].nit = wk[v].nit
            /\ wk'[w].nit = wk[w].nit /\ wk[w].it = NULL
            /\ wk'[w].it = ia[w].cleanup_queue[1]
        BY <1>1, <2>6, <3>2
      <4> QED
        BY ONLY <4>1, <4>2, w \in Workers, TakenHeld
    <3> QED
      BY <3>1, <3>2
  <2> HIDE DEF r
  <2>9. /\ HeapInv(heap', Logs(ia'), Reserves(ia'), Held(wk', ia')) /\ AllocatorsInv(ia')
        /\ ia' \in [Workers -> AllocatorType] /\ reqs' \in 0 .. MaxReqs
        /\ \A v \in Workers : ia'[v].cleaning = ia[v].cleaning
        /\ KeepsItems(heap, heap') /\ SameTable(heap, heap') /\ WorkerInv(heap', wk'[w])
    BY <1>1, <2>0, <2>2, <2>3, <2>5, <2>6, <2>7, <2>8
  <2>10. IndInv'
    BY <1>1, <2>5, <2>9, StepKeeps
  <2> QED
    BY <2>9, <2>10
<1> QED
  BY <1>2, <1>3

-----------------------------------------------------------------------------
(* The maintenance thread.                                                 *)

\* What its steps must keep.
LEMMA MaintenanceStepKeeps ==
  ASSUME IndInv, KeepsItems(heap, heap'), wk' = wk, reqs' = reqs,
         HeapInv(heap', Logs(ia'), Reserves(ia'), Held(wk, ia')),
         ia' \in [Workers -> AllocatorType], AllocatorsInv(ia'),
         mt' \in MaintenanceType, mt'.pc = "scan" => ia'[mt'.w].cleaning # NULL
  PROVE  IndInv'
<1>1. TypeOK' /\ ScanInv'
  BY DEF IndInv, TypeOK, HeapInv, ScanInv
<1>2. WorkersInv'
  <2>1. ASSUME NEW v \in Workers
        PROVE  WorkerInv(heap', wk[v])
    BY WorkerKeeps DEF IndInv, TypeOK, WorkersInv
  <2> QED
    BY <2>1 DEF WorkersInv
<1> QED
  BY <1>1, <1>2 DEF IndInv

\* What the lemmas about the maintenance thread take from the invariant.
LEMMA MaintenanceFacts ==
  ASSUME IndInv
  PROVE  /\ mt \in MaintenanceType /\ mt.w \in Workers /\ mt.i \in Nat \ {0}
         /\ mt.cand \in Segs \cup {NULL}
         /\ ia \in [Workers -> AllocatorType] /\ AllocatorsInv(ia)
         /\ HeapInv(heap, Logs(ia), Reserves(ia), Held(wk, ia))
         /\ NextAllocator \in MaintenanceType /\ NextAllocator.pc = "walk"
<1>1. /\ mt \in MaintenanceType /\ mt.w \in Workers /\ mt.i \in Nat \ {0}
      /\ mt.cand \in Segs \cup {NULL}
      /\ ia \in [Workers -> AllocatorType] /\ AllocatorsInv(ia)
      /\ HeapInv(heap, Logs(ia), Reserves(ia), Held(wk, ia))
  BY DEF IndInv, TypeOK, MaintenanceType
<1>2. (mt.w % NWorkers) + 1 \in Workers
  BY <1>1, Constants DEF Workers
<1>3. NextAllocator \in MaintenanceType /\ NextAllocator.pc = "walk"
  BY <1>2 DEF NextAllocator, MaintenanceType
<1> QED
  BY <1>1, <1>3

\* A segment is freed, or looked at.
LEMMA MaintWalksKeeps ==
  ASSUME IndInv, MaintWalks
  PROVE  IndInv' /\ KeepsItems(heap, heap') /\ SameTable(heap, heap')
<1> DEFINE w == mt.w
           log == ia[w].log
           s == log[mt.i]
           better == /\ ~heap.segs[s].cleaned /\ heap.segs[s].freed >= CleanMin
                     /\ mt.cand # NULL => heap.segs[s].freed > heap.segs[mt.cand].freed
<1>1. w \in Workers /\ log \in Seq(Segs) /\ mt.i \in 1 .. Len(log) /\ mt.i < Len(log)
      /\ s \in Segs
  <2>1. w \in Workers /\ log \in Seq(Segs) /\ mt.i \in Nat \ {0}
    BY MaintenanceFacts, AllocatorFields
  <2>2. ~(mt.i >= Len(log))
    BY DEF MaintWalks, AtEnd
  <2> HIDE DEF log
  <2> QED
    BY <2>1, <2>2
<1>2. mt.pc = "walk" /\ wk' = wk /\ reqs' = reqs
  BY DEF MaintWalks
<1>3. CASE heap.segs[s].freed = SegSize
  <2>1. /\ heap' = segment_free(heap, s) /\ mt' = mt
        /\ ia' = [ia EXCEPT ![w].log = RemoveAt(@, mt.i)]
    BY <1>3 DEF MaintWalks
  <2> DEFINE l2 == RemoveAt(log, mt.i)
             x == [ia[w] EXCEPT !.log = l2]
             y == [ia EXCEPT ![w] = x]
  <2>2. /\ ia \in [Workers -> AllocatorType] /\ ia[w] \in AllocatorType /\ AllocatorsInv(ia)
    BY <1>1, MaintenanceFacts, SMTT(60)
  <2>3. ia' = y
    BY <2>1, <2>2
  <2>4. /\ x.log = l2 /\ x.reserved = ia[w].reserved /\ x.cleanup_queue = ia[w].cleanup_queue
        /\ (l2 \in Seq(Segs) => x \in AllocatorType)
    <3> HIDE DEF l2
    <3> QED
      BY <2>2 DEF AllocatorType
  <2> HIDE DEF x
  <2>5. /\ y[w] = x /\ \A v \in Workers : v # w => y[v] = ia[v]
        /\ (x \in AllocatorType => y \in [Workers -> AllocatorType])
    BY <1>1, <2>2
  <2> HIDE DEF y
  <2>6. /\ y[w].log = RemoveAt(ia[w].log, mt.i) /\ y[w].reserved = ia[w].reserved
        /\ y[w].cleanup_queue = ia[w].cleanup_queue
        /\ \A v \in Workers : v # w => y[v] = ia[v]
    BY <2>4, <2>5
  <2>7. /\ Logs(y) = Logs(ia) \ {s} /\ AllocatorsInv(y) /\ y[w].log \in Seq(Segs)
        /\ s \in Logs(ia)
    BY ONLY <1>1, <2>2, <2>6, LogDrops
  <2>8. y \in [Workers -> AllocatorType]
    BY <2>4, <2>5, <2>7
  <2>9. Reserves(y) = Reserves(ia) /\ Held(wk, y) = Held(wk, ia)
    <3>1. \A v \in Workers : /\ y[v].reserved = ia[v].reserved
                             /\ y[v].cleanup_queue = ia[v].cleanup_queue
      BY <2>6
    <3>2. Reserves(y) = Reserves(ia)
      BY <3>1, SameReserves
    <3>3. \A c : Queued(y, c) = Queued(ia, c)
      BY <3>1 DEF Queued
    <3> QED
      BY <3>2, <3>3 DEF Held
  <2> HIDE DEF w, s
  <2> DEFINE h == segment_free(heap, s)
  <2>10. /\ HeapInv(h, Logs(ia) \ {s}, Reserves(ia), Held(wk, ia))
         /\ KeepsItems(heap, h) /\ SameTable(heap, h)
    <3>1. HeapInv(heap, Logs(ia), Reserves(ia), Held(wk, ia))
      BY MaintenanceFacts
    <3> QED
      BY ONLY <1>3, <2>7, <3>1, SegmentFreeKeeps
  <2> HIDE DEF h
  <2>11. /\ HeapInv(heap', Logs(ia'), Reserves(ia'), Held(wk, ia')) /\ AllocatorsInv(ia')
         /\ ia' \in [Workers -> AllocatorType]
         /\ KeepsItems(heap, heap') /\ SameTable(heap, heap')
         /\ mt' \in MaintenanceType /\ mt'.pc = "walk"
    BY <1>2, <2>1, <2>3, <2>7, <2>8, <2>9, <2>10, MaintenanceFacts DEF h
  <2>12. IndInv'
    BY <1>2, <2>11, MaintenanceStepKeeps
  <2> QED
    BY <2>11, <2>12
<1>4. CASE heap.segs[s].freed # SegSize
  <2>1. /\ mt' = [mt EXCEPT !.i = @ + 1, !.cand = IF better THEN s ELSE @]
        /\ heap' = heap /\ ia' = ia
    BY <1>4 DEF MaintWalks
  <2> DEFINE c == IF better THEN s ELSE mt.cand
  <2>2. /\ mt' = [mt EXCEPT !.i = mt.i + 1, !.cand = c] /\ mt \in MaintenanceType
        /\ mt.i + 1 \in Nat \ {0} /\ c \in Segs \cup {NULL}
    <3>1. mt.i + 1 \in Nat \ {0} /\ c \in Segs \cup {NULL}
      <4> HIDE DEF better, s
      <4>1. s \in Segs /\ mt.i \in Nat \ {0} /\ mt.cand \in Segs \cup {NULL}
        BY <1>1, MaintenanceFacts
      <4> QED
        BY ONLY <4>1
    <3> QED
      BY <2>1, <3>1, MaintenanceFacts
  <2> HIDE DEF c
  <2>5. mt' \in MaintenanceType /\ mt'.pc = "walk"
    BY <1>2, <2>2 DEF MaintenanceType
  <2>3. /\ HeapInv(heap', Logs(ia'), Reserves(ia'), Held(wk, ia')) /\ AllocatorsInv(ia')
        /\ ia' \in [Workers -> AllocatorType]
        /\ KeepsItems(heap, heap') /\ SameTable(heap, heap')
    BY <2>1, MaintenanceFacts, KeepsSelf
  <2>4. IndInv'
    BY <1>2, <2>3, <2>5, MaintenanceStepKeeps
  <2> QED
    BY <2>3, <2>4
<1> QED
  BY <1>3, <1>4

\* An allocator turns to another segment, or another place in it.
LEMMA CleaningChanges ==
  ASSUME NEW y, NEW y2, AllocatorsInv(y),
         \A v \in Workers : /\ y2[v].log = y[v].log /\ y2[v].reserved = y[v].reserved
                            /\ y2[v].cleanup_queue = y[v].cleanup_queue
  PROVE  /\ AllocatorsInv(y2) /\ Logs(y2) = Logs(y) /\ Reserves(y2) = Reserves(y)
         /\ Held(wk, y2) = Held(wk, y)
<1>1. Logs(y2) = Logs(y) /\ Reserves(y2) = Reserves(y)
  BY SameLogs, SameReserves
<1>2. AllocatorsInv(y2)
  <2>1. \A v \in Workers : /\ y2[v].log = y[v].log /\ y2[v].reserved = y[v].reserved
                           /\ Len(y2[v].cleanup_queue) <= CqSize
    BY DEF AllocatorsInv
  <2> QED
    BY <2>1, SameAllocators
<1>3. Held(wk, y2) = Held(wk, y)
  <2>1. \A a : Queued(y2, a) = Queued(y, a)
    BY DEF Queued
  <2> QED
    BY ONLY <2>1 DEF Held
<1> QED
  BY <1>1, <1>2, <1>3

\* A segment is chosen for cleaning.
LEMMA MaintPicksKeeps ==
  ASSUME IndInv, MaintPicks
  PROVE  IndInv' /\ KeepsItems(heap, heap') /\ SameTable(heap, heap')
<1> DEFINE w == mt.w
           y == [ia EXCEPT ![w].cleaning = mt.cand, ![w].clean_offset = 0]
           h == [heap EXCEPT !.segs[mt.cand].cleaned = TRUE]
<1>1. /\ wk' = wk /\ reqs' = reqs /\ mt.pc = "walk"
      /\ \/ /\ ia[w].cleaning # NULL /\ mt' = [mt EXCEPT !.pc = "scan"]
            /\ heap' = heap /\ ia' = ia
         \/ /\ ia' = y /\ mt.cand = NULL /\ mt' = NextAllocator /\ heap' = heap
         \/ /\ ia' = y /\ mt.cand # NULL /\ mt' = [mt EXCEPT !.pc = "scan"] /\ heap' = h
  BY DEF MaintPicks, AtEnd
<1>2. /\ w \in Workers /\ mt.cand \in Segs \cup {NULL} /\ mt \in MaintenanceType
      /\ ia \in [Workers -> AllocatorType] /\ AllocatorsInv(ia)
      /\ HeapInv(heap, Logs(ia), Reserves(ia), Held(wk, ia))
      /\ NextAllocator \in MaintenanceType /\ NextAllocator.pc = "walk"
  BY MaintenanceFacts
<1>3. LET m == [mt EXCEPT !.pc = "scan"] IN m \in MaintenanceType /\ m.pc = "scan" /\ m.w = mt.w
  BY <1>2 DEF MaintenanceType
<1>4. /\ y \in [Workers -> AllocatorType] /\ AllocatorsInv(y) /\ y[w].cleaning = mt.cand
      /\ Logs(y) = Logs(ia) /\ Reserves(y) = Reserves(ia) /\ Held(wk, y) = Held(wk, ia)
  <2> DEFINE x == [ia[w] EXCEPT !.cleaning = mt.cand, !.clean_offset = 0]
  <2>1. y = [ia EXCEPT ![w] = x] /\ ia[w] \in AllocatorType /\ 0 \in 0 .. SegSize
    <3>1. y = [ia EXCEPT ![w] = x]
      BY <1>2 DEF AllocatorType
    <3>2. 0 \in 0 .. SegSize
      BY Constants
    <3> QED
      BY <1>2, <3>1, <3>2
  <2>2. /\ x \in AllocatorType /\ x.log = ia[w].log /\ x.reserved = ia[w].reserved
        /\ x.cleanup_queue = ia[w].cleanup_queue /\ x.cleaning = mt.cand
    BY <1>2, <2>1 DEF AllocatorType
  <2> HIDE DEF x
  <2>3. /\ y \in [Workers -> AllocatorType] /\ y[w] = x
        /\ \A v \in Workers : v # w => y[v] = ia[v]
    BY <1>2, <2>1, <2>2
  <2> HIDE DEF y
  <2>4. \A v \in Workers : /\ y[v].log = ia[v].log /\ y[v].reserved = ia[v].reserved
                           /\ y[v].cleanup_queue = ia[v].cleanup_queue
    BY <2>2, <2>3
  <2>5. /\ AllocatorsInv(y) /\ Logs(y) = Logs(ia) /\ Reserves(y) = Reserves(ia)
        /\ Held(wk, y) = Held(wk, ia)
    BY ONLY <1>2, <2>4, CleaningChanges
  <2> QED
    BY <2>2, <2>3, <2>5
<1>5. mt.cand # NULL =>
        /\ HeapInv(h, Logs(ia), Reserves(ia), Held(wk, ia))
        /\ KeepsItems(heap, h) /\ SameTable(heap, h)
  <2> SUFFICES ASSUME mt.cand # NULL
               PROVE  /\ HeapInv(h, Logs(ia), Reserves(ia), Held(wk, ia))
                      /\ KeepsItems(heap, h) /\ SameTable(heap, h)
    OBVIOUS
  <2>1. FlagSet(heap, h, mt.cand) /\ mt.cand \in Segs
    BY <1>2 DEF FlagSet
  <2> HIDE DEF h
  <2> QED
    BY <1>2, <2>1, FlagKeeps
<1>6. CASE ia[w].cleaning # NULL /\ mt' = [mt EXCEPT !.pc = "scan"] /\ heap' = heap /\ ia' = ia
  <2>1. /\ mt' \in MaintenanceType /\ mt'.w = w /\ KeepsItems(heap, heap')
        /\ SameTable(heap, heap')
    BY <1>3, <1>6, KeepsSelf
  <2>2. IndInv'
    BY <1>1, <1>2, <1>6, <2>1, MaintenanceStepKeeps
  <2> QED
    BY <2>1, <2>2
<1> HIDE DEF y, h
<1>7. CASE ia' = y /\ mt.cand = NULL /\ mt' = NextAllocator /\ heap' = heap
  <2>1. /\ mt' \in MaintenanceType /\ mt'.pc = "walk" /\ KeepsItems(heap, heap')
        /\ SameTable(heap, heap')
        /\ HeapInv(heap', Logs(ia'), Reserves(ia'), Held(wk, ia')) /\ AllocatorsInv(ia')
        /\ ia' \in [Workers -> AllocatorType]
    BY <1>2, <1>4, <1>7, KeepsSelf
  <2>2. IndInv'
    BY <1>1, <2>1, MaintenanceStepKeeps
  <2> QED
    BY <2>1, <2>2
<1>8. CASE ia' = y /\ mt.cand # NULL /\ mt' = [mt EXCEPT !.pc = "scan"] /\ heap' = h
  <2>1. /\ mt' \in MaintenanceType /\ mt'.w = w /\ ia'[w].cleaning # NULL
        /\ KeepsItems(heap, heap') /\ SameTable(heap, heap')
        /\ HeapInv(heap', Logs(ia'), Reserves(ia'), Held(wk, ia')) /\ AllocatorsInv(ia')
        /\ ia' \in [Workers -> AllocatorType]
    BY <1>3, <1>4, <1>5, <1>8
  <2>2. IndInv'
    BY <1>1, <2>1, MaintenanceStepKeeps
  <2> QED
    BY <2>1, <2>2
<1> QED
  BY <1>1, <1>6, <1>7, <1>8

\* An item of it is queued, or passed over.
LEMMA MaintScansKeeps ==
  ASSUME IndInv, MaintScans
  PROVE  IndInv' /\ KeepsItems(heap, heap') /\ SameTable(heap, heap')
<1> DEFINE w == mt.w
           al == ia[w]
           q == al.cleanup_queue
           a == <<al.cleaning, al.clean_offset>>
           live == heap.items[a].refcount > 0
           L == Logs(ia)
           V == Reserves(ia)
           r == Held(wk, ia)
<1>1. /\ w \in Workers /\ mt \in MaintenanceType /\ mt.pc = "scan"
      /\ ia \in [Workers -> AllocatorType] /\ AllocatorsInv(ia) /\ HeapInv(heap, L, V, r)
      /\ NextAllocator \in MaintenanceType /\ NextAllocator.pc = "walk"
      /\ al \in AllocatorType /\ q \in Seq(Addrs) /\ Len(q) <= CqSize
      /\ wk' = wk /\ reqs' = reqs
  BY MaintenanceFacts, AllocatorFields DEF MaintScans, AllocatorsInv
<1>2. al.cleaning # NULL /\ al.clean_offset \in 0 .. SegSize
  BY <1>1 DEF IndInv, ScanInv, AllocatorType
<1>3. CASE mt' = NextAllocator /\ heap' = heap /\ ia' = ia
  <2>1. /\ mt' \in MaintenanceType /\ mt'.pc = "walk" /\ KeepsItems(heap, heap')
        /\ SameTable(heap, heap')
    BY <1>1, <1>3, KeepsSelf
  <2>2. IndInv'
    BY <1>1, <1>3, <2>1, MaintenanceStepKeeps
  <2> QED
    BY <2>1, <2>2
<1>4. CASE mt' = mt /\ heap' = heap /\ ia' = ia
  <2>1. KeepsItems(heap, heap') /\ SameTable(heap, heap')
    BY <1>4, KeepsSelf
  <2>2. IndInv'
    BY <1>1, <1>2, <1>4, <2>1, MaintenanceStepKeeps
  <2> QED
    BY <2>1, <2>2
<1>5. ASSUME NEW o \in 0 .. SegSize, NEW q2 \in Seq(Addrs), Len(q2) <= CqSize,
             ia' = [ia EXCEPT ![w].clean_offset = o, ![w].cleanup_queue = q2], mt' = mt,
             NEW h, heap' = h, KeepsItems(heap, h), SameTable(heap, h),
             \A y : /\ \A v \in Workers : v # w => y[v].cleanup_queue = ia[v].cleanup_queue
                    /\ y[w].cleanup_queue = q2
                    => HeapInv(h, L, V, Held(wk, y))
      PROVE  IndInv' /\ KeepsItems(heap, heap') /\ SameTable(heap, heap')
  <2> DEFINE x == [al EXCEPT !.clean_offset = o, !.cleanup_queue = q2]
             y == [ia EXCEPT ![w] = x]
  <2>1. ia' = y
    BY <1>1, <1>5 DEF AllocatorType
  <2>2. /\ x \in AllocatorType /\ x.log = al.log /\ x.reserved = al.reserved
        /\ x.cleanup_queue = q2 /\ x.cleaning = al.cleaning
    <3> HIDE DEF al
    <3> QED
      BY <1>1 DEF AllocatorType
  <2> HIDE DEF x
  <2>3. /\ y \in [Workers -> AllocatorType] /\ y[w] = x
        /\ \A v \in Workers : v # w => y[v] = ia[v]
    BY <1>1, <2>2
  <2> HIDE DEF y
  <2>4. /\ \A v \in Workers : y[v].log = ia[v].log /\ y[v].reserved = ia[v].reserved
        /\ \A v \in Workers : v # w => y[v].cleanup_queue = ia[v].cleanup_queue
        /\ y[w].cleanup_queue = q2 /\ y[w].cleaning # NULL
    BY <1>2, <2>2, <2>3
  <2>5. Logs(y) = L /\ Reserves(y) = V
    <3>1. Logs(y) = Logs(ia) /\ Reserves(y) = Reserves(ia)
      BY ONLY <2>4, SameLogs, SameReserves
    <3> QED
      BY <3>1
  <2>6. AllocatorsInv(y)
    <3>1. \A v \in Workers : /\ y[v].log = ia[v].log /\ y[v].reserved = ia[v].reserved
                             /\ Len(y[v].cleanup_queue) <= CqSize
      <4>1. \A v \in Workers : v # w => Len(y[v].cleanup_queue) <= CqSize
        BY <1>1, <2>4 DEF AllocatorsInv
      <4> QED
        BY <1>5, <2>4, <4>1
    <3> QED
      BY ONLY <1>1, <3>1, SameAllocators
  <2>7. HeapInv(h, L, V, Held(wk, y))
    BY <1>5, <2>4
  <2> HIDE DEF L, V
  <2>8. /\ HeapInv(heap', Logs(ia'), Reserves(ia'), Held(wk, ia')) /\ AllocatorsInv(ia')
        /\ ia' \in [Workers -> AllocatorType] /\ ia'[w].cleaning # NULL
        /\ KeepsItems(heap, heap') /\ SameTable(heap, heap')
        /\ mt' \in MaintenanceType /\ mt'.w = w
    BY <1>1, <1>5, <2>1, <2>3, <2>4, <2>5, <2>6, <2>7
  <2>9. IndInv'
    BY <1>1, <2>8, MaintenanceStepKeeps
  <2> QED
    BY <2>8, <2>9
<1>6. ASSUME NEW o \in 0 .. SegSize, ia' = [ia EXCEPT ![w].clean_offset = o],
             heap' = heap, mt' = mt
      PROVE  IndInv' /\ KeepsItems(heap, heap') /\ SameTable(heap, heap')
  <2>2. ia' = [ia EXCEPT ![w].clean_offset = o, ![w].cleanup_queue = q]
    BY <1>1, <1>6 DEF AllocatorType
  <2>3. KeepsItems(heap, heap) /\ SameTable(heap, heap)
    BY KeepsSelf
  <2>4. ASSUME NEW y, \A v \in Workers : v # w => y[v].cleanup_queue = ia[v].cleanup_queue,
               y[w].cleanup_queue = q
        PROVE  HeapInv(heap, L, V, Held(wk, y))
    <3>0. \A v \in Workers : y[v].cleanup_queue = ia[v].cleanup_queue
      BY <2>4
    <3>1. \A c : Queued(y, c) = Queued(ia, c)
      BY ONLY <3>0 DEF Queued
    <3>2. Held(wk, y) = r
      BY ONLY <3>1 DEF Held
    <3> QED
      BY <1>1, <3>2
  <2>5. q \in Seq(Addrs) /\ Len(q) <= CqSize
    BY <1>1
  <2> HIDE DEF q, L, V
  <2>6. \A y : /\ \A v \in Workers : v # w => y[v].cleanup_queue = ia[v].cleanup_queue
               /\ y[w].cleanup_queue = q
               => HeapInv(heap, L, V, Held(wk, y))
    BY <2>4
  <2> QED
    BY ONLY <1>5, <1>6, <2>2, <2>3, <2>5, <2>6
<1>7. ASSUME a \in DOMAIN heap.items, Len(q) # CqSize, NEW n, n \in SizesRead(a),
             heap' = (IF live THEN item_ref(heap, a) ELSE heap), mt' = mt,
             ia' = [ia EXCEPT ![w].clean_offset = @ + n,
                              ![w].cleanup_queue = IF live THEN Append(@, a) ELSE @]
      PROVE  IndInv' /\ KeepsItems(heap, heap') /\ SameTable(heap, heap')
  <2> DEFINE o == al.clean_offset + n
             q2 == IF live THEN Append(q, a) ELSE q
             h == IF live THEN item_ref(heap, a) ELSE heap
  <2>0. a[1] = al.cleaning /\ a[2] = al.clean_offset
    OBVIOUS
  <2>1. /\ a \in Addrs /\ heap.items[a].refcount \in Nat /\ heap \in HeapType
        /\ heap.items[a].size \in Nat
    BY <1>1, <1>7, HeapFields DEF HeapInv
  <2>2. o \in 0 .. SegSize
    <3>1. a[2] + heap.items[a].size <= SegSize
      BY <1>1, <1>7 DEF HeapInv, ItemsInv
    <3>2. n \in Nat /\ a[2] + n <= SegSize
      <4>1. n = heap.items[a].size \/ n \in HeaderSize .. SegSize - a[2]
        BY <1>7 DEF SizesRead, OldSizes
      <4> QED
        BY <1>2, <2>0, <2>1, <3>1, <4>1, Constants
    <3> QED
      BY <1>2, <2>0, <3>2, Constants
  <2>3. ia' = [ia EXCEPT ![w].clean_offset = o, ![w].cleanup_queue = q2]
    BY <1>1, <1>7 DEF AllocatorType
  <2> HIDE DEF a, o
  <2>4. q2 \in Seq(Addrs) /\ Len(q2) <= CqSize /\ Len(q) < CqSize
    <3>1. Len(q) \in Nat /\ CqSize \in Nat
      BY <1>1, Constants
    <3>2. live => Len(Append(q, a)) = Len(q) + 1 /\ Append(q, a) \in Seq(Addrs)
      BY <1>1, <2>1
    <3> HIDE DEF q
    <3> QED
      BY <1>1, <1>7, <3>1, <3>2
  <2>5. heap' = h
    BY <1>7
  <2>6. KeepsItems(heap, h) /\ SameTable(heap, h)
    <3>1. CASE live
      <4>1. KeepsItems(heap, item_ref(heap, a)) /\ SameTable(heap, item_ref(heap, a))
        BY <1>1, <1>7, <3>1, RefKeeps
      <4> QED
        BY <3>1, <4>1
    <3>2. CASE ~live
      BY <3>2, KeepsSelf
    <3> QED
      BY <3>1, <3>2
  <2>7. ASSUME NEW y, \A v \in Workers : v # w => y[v].cleanup_queue = ia[v].cleanup_queue,
               y[w].cleanup_queue = q2
        PROVE  HeapInv(h, L, V, Held(wk, y))
    <3>1. CASE live
      <4>1. y[w].cleanup_queue = Append(ia[w].cleanup_queue, a)
        BY <2>7, <3>1
      <4>2. Held(wk, y) = [r EXCEPT ![a] = @ + 1]
        <5>1. /\ w \in Workers /\ a \in Addrs
              /\ ia[w].cleanup_queue \in Seq(Addrs) /\ Len(ia[w].cleanup_queue) < CqSize
          BY <1>1, <2>1, <2>4
        <5> HIDE DEF w
        <5> QED
          BY ONLY <2>7, <4>1, <5>1, QueueAppends
      <4> HIDE DEF r, L, V
      <4>3. HeapInv(item_ref(heap, a), L, V, [r EXCEPT ![a] = @ + 1])
        BY <1>1, <1>7, <3>1, RefKeeps
      <4> QED
        BY <3>1, <4>2, <4>3
    <3>2. CASE ~live
      <4>1. \A v \in Workers : y[v].cleanup_queue = ia[v].cleanup_queue
        BY <2>7, <3>2
      <4>2. \A c : Queued(y, c) = Queued(ia, c)
        BY <4>1 DEF Queued
      <4>3. Held(wk, y) = r
        BY ONLY <4>2 DEF Held
      <4> QED
        BY <1>1, <3>2, <4>3
    <3> QED
      BY <3>1, <3>2
  <2> HIDE DEF q2, h, q, L, V, live
  <2> QED
    BY <1>5, <1>7, <2>2, <2>3, <2>4, <2>5, <2>6, <2>7
<1>8. CASE Len(q) # CqSize /\ mt' = mt /\ a \in DOMAIN heap.items
  <2>1. CASE \E n \in SizesRead(a) :
               /\ heap' = (IF live THEN item_ref(heap, a) ELSE heap)
               /\ ia' = [ia EXCEPT ![w].clean_offset = @ + n,
                                   ![w].cleanup_queue = IF live THEN Append(@, a) ELSE @]
    BY <1>7, <1>8, <2>1
  <2>2. CASE ia' = [ia EXCEPT ![w].clean_offset = SegSize] /\ heap' = heap
    <3>1. SegSize \in 0 .. SegSize
      BY Constants
    <3> QED
      BY <1>6, <1>8, <2>2, <3>1
  <2> QED
    BY <1>8, <1>1, <1>4, <2>1, <2>2 DEF MaintScans
<1>9. CASE mt' = mt /\ a \notin DOMAIN heap.items
  <2>1. ASSUME NEW n \in OldSizes(a), ia' = [ia EXCEPT ![w].clean_offset = @ + n], heap' = heap
        PROVE  IndInv' /\ KeepsItems(heap, heap') /\ SameTable(heap, heap')
    <3>1. al.clean_offset + n \in 0 .. SegSize
      BY <1>2, <2>1, Constants DEF OldSizes
    <3>2. ia' = [ia EXCEPT ![w].clean_offset = al.clean_offset + n]
      BY <1>1, <2>1
    <3> QED
      BY <1>6, <1>9, <2>1, <3>1, <3>2
  <2>2. CASE ia' = [ia EXCEPT ![w].clean_offset = SegSize] /\ heap' = heap
    <3>1. SegSize \in 0 .. SegSize
      BY Constants
    <3> QED
      BY <1>6, <1>9, <2>2, <3>1
  <2>3. CASE heap' = heap /\ ia' = ia
    BY <1>4, <1>9, <2>3
  <2> QED
    BY <1>1, <1>9, <2>1, <2>2, <2>3 DEF MaintScans
<1>10. \/ mt' = NextAllocator /\ heap' = heap /\ ia' = ia
       \/ mt' = mt /\ a \notin DOMAIN heap.items
       \/ Len(q) # CqSize /\ mt' = mt /\ a \in DOMAIN heap.items
  BY DEF MaintScans
<1> QED
  BY <1>3, <1>8, <1>9, <1>10

-----------------------------------------------------------------------------
(* The invariant.                                                          *)

\* The empty lists and no items, with their types.
LEMMA EmptyFacts ==
  /\ << >> \in Items /\ DOMAIN << >> = {} /\ << >> \in Seq(Segs) /\ << >> \in Seq(Addrs)
  /\ Len(<< >>) = 0
<1>1. DOMAIN << >> = {} /\ Len(<< >>) = 0
  OBVIOUS
<1>2. << >> \in [{} -> ItemType]
  OBVIOUS
<1>3. << >> \in Items
  BY <1>2, ItemsBuild
<1> QED
  BY <1>1, <1>3

\* An allocator at the start.
LEMMA FreshAllocator ==
  ASSUME NEW s \in Segs, NEW t \in Segs
  PROVE  LET al == [reserved |-> t, log |-> <<s>>, cleanup_queue |-> << >>,
                    cleanup_count |-> 0, cleaning |-> NULL, clean_offset |-> 0]
         IN  /\ al \in AllocatorType /\ al.reserved = t /\ al.log[1] = s /\ Len(al.log) = 1
             /\ al.cleanup_queue = << >> /\ Len(al.cleanup_queue) = 0
<1> DEFINE l == <<s>>
           q == << >>
<1>1. /\ l \in Seq(Segs) /\ Len(l) = 1 /\ l[1] = s /\ q \in Seq(Addrs) /\ Len(q) = 0
      /\ 0 \in 0 .. SegSize /\ 0 \in Nat
  BY Constants
<1>2. q = << >>
  OBVIOUS
<1> HIDE DEF l, q
<1> DEFINE al == [reserved |-> t, log |-> l, cleanup_queue |-> q,
                  cleanup_count |-> 0, cleaning |-> NULL, clean_offset |-> 0]
<1>3. /\ al \in AllocatorType /\ al.reserved = t /\ al.log = l /\ al.cleanup_queue = q
  BY <1>1 DEF AllocatorType
<1> QED
  BY <1>1, <1>2, <1>3 DEF l

\* All of them: no two have a segment in common.
LEMMA InitAllocators ==
  ASSUME Init
  PROVE  /\ ia \in [Workers -> AllocatorType] /\ AllocatorsInv(ia)
         /\ Logs(ia) \cap Reserves(ia) = {}
         /\ Logs(ia) \cup Reserves(ia) = 1 .. 2 * NWorkers
         /\ \A w \in Workers : ia[w].cleanup_queue = << >>
<1>1. \A w \in Workers : 2 * w \in Segs /\ 2 * w - 1 \in Segs /\ w \in Nat
  BY Constants, KvsAssumption DEF Workers, Segs
<1>2. ASSUME NEW w \in Workers
      PROVE  /\ ia[w] \in AllocatorType /\ ia[w].reserved = 2 * w /\ ia[w].log[1] = 2 * w - 1
             /\ Len(ia[w].log) = 1 /\ ia[w].cleanup_queue = << >>
             /\ Len(ia[w].cleanup_queue) = 0
  <2> DEFINE s == 2 * w - 1
             t == 2 * w
  <2>1. s \in Segs /\ t \in Segs
    BY <1>1
  <2>2. ia[w] = [reserved |-> t, log |-> <<s>>, cleanup_queue |-> << >>,
                 cleanup_count |-> 0, cleaning |-> NULL, clean_offset |-> 0]
    BY DEF Init
  <2> HIDE DEF s, t
  <2>3. /\ ia[w] \in AllocatorType /\ ia[w].reserved = t /\ ia[w].log[1] = s
        /\ Len(ia[w].log) = 1 /\ ia[w].cleanup_queue = << >>
        /\ Len(ia[w].cleanup_queue) = 0
    BY ONLY <2>1, <2>2, FreshAllocator
  <2> QED
    BY <2>3 DEF s, t
<1>4. ia \in [Workers -> AllocatorType]
  BY <1>2 DEF Init
<1>5. \A w \in Workers : /\ Len(ia[w].log) = 1 /\ ia[w].log[1] = 2 * w - 1
                         /\ Len(ia[w].cleanup_queue) = 0
  BY <1>2
<1>6. AllocatorsInv(ia)
  <2>1. \A u, v \in Workers :
          /\ 2 * u = 2 * v => u = v
          /\ 2 * u - 1 = 2 * v - 1 => u = v
    BY <1>1
  <2>2. ASSUME NEW u \in Workers, NEW v \in Workers, NEW i \in 1 .. Len(ia[u].log),
               NEW j \in 1 .. Len(ia[v].log), ia[u].log[i] = ia[v].log[j]
        PROVE  u = v /\ i = j
    <3>1. Len(ia[u].log) = 1 /\ Len(ia[v].log) = 1
      BY <1>5
    <3>2. i = 1 /\ j = 1
      BY <3>1
    <3>3. 2 * u - 1 = 2 * v - 1
      BY <1>5, <2>2, <3>2
    <3> QED
      BY <2>1, <3>2, <3>3
  <2>3. \A u, v \in Workers : ia[u].reserved = ia[v].reserved => u = v
    BY <1>2, <2>1
  <2>4. \A w \in Workers : Len(ia[w].log) > 0 /\ Len(ia[w].cleanup_queue) <= CqSize
    BY <1>5, Constants
  <2> QED
    BY <2>2, <2>3, <2>4 DEF AllocatorsInv
<1>7. Logs(ia) = {2 * w - 1 : w \in Workers}
  <2>1. \A w \in Workers : Elems(ia[w].log) = {2 * w - 1}
    BY <1>5 DEF Elems
  <2> QED
    BY <2>1 DEF Logs
<1>8. Reserves(ia) = {2 * w : w \in Workers}
  <2>1. \A w \in Workers : 2 * w # NULL
    BY <1>1, Constants
  <2> QED
    BY <1>2, <2>1 DEF Reserves
<1>9. \A s : s \in 1 .. 2 * NWorkers <=>
               \/ \E w \in Workers : s = 2 * w - 1
               \/ \E w \in Workers : s = 2 * w
  <2>1. ASSUME NEW s \in 1 .. 2 * NWorkers
        PROVE  \E w \in Workers : s = 2 * w - 1 \/ s = 2 * w
    <3> DEFINE w == (s + 1) \div 2
    <3>1. w \in Workers /\ (s = 2 * w - 1 \/ s = 2 * w)
      BY Constants DEF Workers
    <3> QED
      BY <3>1
  <2>2. \A w \in Workers : 2 * w \in 1 .. 2 * NWorkers /\ 2 * w - 1 \in 1 .. 2 * NWorkers
    BY Constants DEF Workers
  <2> QED
    BY <2>1, <2>2
<1>10. \A u, v \in Workers : 2 * u - 1 # 2 * v
  BY <1>1
<1> QED
  BY <1>2, <1>4, <1>6, <1>7, <1>8, <1>9, <1>10

\* The invariant is true at the start.
LEMMA InitKeeps ==
  ASSUME Init
  PROVE  IndInv
<1> DEFINE L == Logs(ia)
           V == Reserves(ia)
           r == Held(wk, ia)
<1>1. /\ ia \in [Workers -> AllocatorType] /\ AllocatorsInv(ia)
      /\ L \cap V = {} /\ L \cup V = 1 .. 2 * NWorkers
      /\ \A w \in Workers : ia[w].cleanup_queue = << >>
  BY InitAllocators
<1>2. /\ \A w \in Workers : wk[w] = IdleWorker /\ wk[w].it = NULL /\ wk[w].nit = NULL
      /\ wk \in [Workers -> WorkerType] /\ WorkersInv
  <2>1. wk = [w \in Workers |-> IdleWorker] /\ IdleWorker.it = NULL /\ IdleWorker.nit = NULL
    BY DEF Init, IdleWorker
  <2> QED
    BY <2>1, IdleType DEF WorkersInv
<1>3. r \in [Addrs -> Nat] /\ \A a \in Addrs : r[a] = 0
  <2>1. \A a \in Addrs : Holders(wk, a) = {} /\ Copiers(wk, a) = {}
    BY <1>2, Constants DEF Holders, Copiers
  <2>2. \A a \in Addrs : Queued(ia, a) = {}
    <3>1. \A w \in Workers : Len(ia[w].cleanup_queue) = 0
      BY <1>1
    <3> QED
      BY <3>1 DEF Queued
  <2>3. Cardinality({}) = 0
    BY FS_EmptySet
  <2>4. \A a \in Addrs : r[a] = 0
    BY <2>1, <2>2, <2>3 DEF Held
  <2> QED
    BY <2>4, HeldType
<1>4. /\ heap.segs = [s \in Segs |-> FreshSegment] /\ heap.free_segments = << >>
      /\ heap.seg_alloced = 2 * NWorkers /\ heap.items = << >>
      /\ heap.direct = [i \in 1 .. BucketItems |-> NULL] /\ heap.chain = << >>
      /\ heap = [segs |-> [s \in Segs |-> FreshSegment], free_segments |-> << >>,
                 seg_alloced |-> 2 * NWorkers, items |-> << >>,
                 direct |-> [i \in 1 .. BucketItems |-> NULL], chain |-> << >>]
  BY DEF Init
<1>5. DOMAIN heap.items = {} /\ Len(heap.free_segments) = 0 /\ Len(heap.chain) = 0
  BY <1>4, EmptyFacts
<1>6. heap \in HeapType
  <2>1. FreshSegment \in SegType
    BY Constants DEF FreshSegment, SegType
  <2>2. [s \in Segs |-> FreshSegment] \in [Segs -> SegType]
    BY <2>1
  <2>3. [i \in 1 .. BucketItems |-> NULL] \in [1 .. BucketItems -> AddrOrNull]
    BY DEF AddrOrNull
  <2>4. 2 * NWorkers \in Nat
    BY Constants
  <2> QED
    BY <1>4, <2>2, <2>3, <2>4, EmptyFacts DEF HeapType
<1>7. \A s \in Segs : heap.segs[s].offset = 0 /\ heap.segs[s].freed = 0
  BY <1>4 DEF FreshSegment
<1>8. L \subseteq Segs /\ V \subseteq Segs
  BY <1>1, KvsAssumption DEF Segs
<1> HIDE DEF L, V, r
<1>9. PlacesInv(heap, L, V)
  <2>1. Free(heap) = {}
    BY <1>5 DEF Free
  <2>2. heap.seg_alloced <= NSegs
    BY <1>4, KvsAssumption
  <2>3. /\ L \subseteq 1 .. heap.seg_alloced /\ V \subseteq 1 .. heap.seg_alloced
        /\ 1 .. heap.seg_alloced \subseteq L \cup V
    BY <1>1, <1>4
  <2>4. \A i \in 1 .. Len(heap.free_segments) : FALSE
    BY <1>5
  <2> QED
    BY <1>1, <2>1, <2>2, <2>3, <2>4 DEF PlacesInv
<1>10. ItemsInv(heap, L, V) /\ BytesInv(heap, L)
  <2>1. \A s : Alive(heap, s) = {}
    BY <1>5 DEF Alive
  <2>2. ItemsInv(heap, L, V)
    BY <1>5, <1>7, <1>8 DEF ItemsInv
  <2>3. \A s \in L : heap.segs[s].offset - heap.segs[s].freed = 0
    BY <1>7, <1>8
  <2>4. \A s : Bytes(heap.items, Alive(heap, s)) = 0
    BY <2>1, BytesEmpty
  <2> QED
    BY <2>2, <2>3, <2>4 DEF BytesInv
<1>11. TableInv(heap) /\ CountInv(heap, r)
  BY <1>3, <1>4, <1>5 DEF TableInv, CountInv
<1>12. HeapInv(heap, L, V, r)
  BY <1>6, <1>9, <1>10, <1>11 DEF HeapInv
<1>13. mt \in MaintenanceType /\ mt.pc = "walk" /\ reqs \in 0 .. MaxReqs
  BY Constants, KvsAssumption DEF Init, MaintenanceType, Workers
<1> QED
  BY <1>1, <1>2, <1>6, <1>12, <1>13 DEF IndInv, TypeOK, ScanInv, L, V, r

\* Every step keeps the invariant, and the items that somebody refers to; only a
\* put changes the table.
LEMMA NextKeeps ==
  ASSUME IndInv, Next
  PROVE  IndInv'
<1>1. CASE Maintenance
  BY <1>1, MaintWalksKeeps, MaintPicksKeeps, MaintScansKeeps DEF Maintenance
<1>2. ASSUME NEW w \in Workers, Worker(w)
      PROVE  IndInv'
  <2>1. CASE Receives(w)
    BY <2>1, ReceivesKeeps
  <2>2. CASE GetLooks(w)
    BY <2>2, GetLooksKeeps
  <2>3. CASE Responds(w)
    BY <2>3, RespondsKeeps
  <2>4. CASE SetAllocates(w)
    BY <2>4, SetAllocatesKeeps
  <2>5. CASE SetPuts(w)
    BY <2>5, SetPutsKeeps
  <2>6. CASE SetUnrefs(w)
    BY <2>6, SetUnrefsKeeps
  <2>7. CASE CleanTakes(w)
    BY <2>7, CleanTakesKeeps
  <2>8. CASE CleanCopies(w)
    BY <2>8, CleanCopiesKeeps
  <2>9. CASE CleanReplaces(w)
    BY <2>9, CleanReplacesKeeps
  <2>10. CASE CleanDrops(w)
    BY <2>10, CleanDropsKeeps
  <2> QED
    BY <1>2, <2>1, <2>2, <2>3, <2>4, <2>5, <2>6, <2>7, <2>8, <2>9, <2>10 DEF Worker
<1> QED
  BY <1>1, <1>2 DEF Next

\* At every moment every segment has its place, every item and every byte its
\* account and every reference its count, whatever the workers and the
\* maintenance thread do.
THEOREM Invariance == Spec => []IndInv
<1>1. Init => IndInv
  BY InitKeeps
<1>2. IndInv /\ UNCHANGED vars => IndInv'
  BY DEF vars, IndInv, TypeOK, WorkersInv, ScanInv
<1>3. IndInv /\ [Next]_vars => IndInv'
  BY <1>2, NextKeeps
<1> QED
  BY <1>1, <1>3, PTL DEF Spec

-----------------------------------------------------------------------------
(* What the invariant says of reference counts and segments.               *)

\* The elements of a sequence.
LEMMA ToSetIs ==
  ASSUME NEW S, NEW s \in Seq(S), NEW e
  PROVE  /\ DOMAIN s = 1 .. Len(s)
         /\ e \in ToSet(s) <=> \E i \in 1 .. Len(s) : s[i] = e
<1>1. DOMAIN s = 1 .. Len(s)
  OBVIOUS
<1> QED
  BY <1>1 DEF ToSet

\* The counts of the invariant are those of the property.
LEMMA CountsExact ==
  ASSUME IndInv
  PROVE  RefcountExact
<1>1. HeapInv(heap, Logs(ia), Reserves(ia), Held(wk, ia)) /\ heap \in HeapType
  BY DEF IndInv, TypeOK
<1>2. ASSUME NEW a \in DOMAIN heap.items
      PROVE  heap.items[a].refcount = References(a)
  <2>1. a \in Addrs /\ heap.chain \in Seq(Addrs)
    BY <1>1, HeapFields
  <2>2. a \in Table <=> InTable(heap, a)
    BY <2>1, ToSetIs DEF Table, InTable
  <2>3. heap.items[a].refcount = (IF InTable(heap, a) THEN 1 ELSE 0) + Held(wk, ia)[a]
    BY <1>1 DEF HeapInv, CountInv
  <2>4. /\ Cardinality(Holders(wk, a)) \in Nat /\ Cardinality(Copiers(wk, a)) \in Nat
        /\ Cardinality(Queued(ia, a)) \in Nat
    BY <2>1, HeldType
  <2>5. Held(wk, ia)[a] = Cardinality(Holders(wk, a)) + Cardinality(Copiers(wk, a))
                          + Cardinality(Queued(ia, a))
    BY <2>1 DEF Held
  <2>6. References(a) = (IF a \in Table THEN 1 ELSE 0) + Cardinality(Holders(wk, a))
                        + Cardinality(Copiers(wk, a)) + Cardinality(Queued(ia, a))
    BY DEF References, Holders, Copiers, Queued
  <2> QED
    BY <2>2, <2>3, <2>4, <2>5, <2>6
<1> QED
  BY <1>2 DEF RefcountExact

\* Every reference count is the number of the references that exist: no GET,
\* overwrite, relocation or scan drops one too many or one too few.
THEOREM CountsAreExact == Spec => []RefcountExact
<1>1. IndInv => RefcountExact
  BY CountsExact
<1> QED
  BY <1>1, Invariance, PTL

\* Among things of which no two are different there is one at most.
LEMMA AtMostOne ==
  ASSUME NEW S, \A x, y \in S : x = y
  PROVE  Cardinality(S) = IF S = {} THEN 0 ELSE 1
<1>1. CASE S = {}
  BY <1>1, FS_EmptySet
<1>2. CASE S # {}
  <2>1. PICK x \in S : S = {x}
    BY <1>2
  <2> QED
    BY <1>2, <2>1, FS_Singleton
<1> QED
  BY <1>1, <1>2

\* The places of the invariant are those of the property.
LEMMA PlacesOne ==
  ASSUME IndInv, NEW s \in Segs
  PROVE  /\ (IF s > heap.seg_alloced THEN 1 ELSE 0)
            + Cardinality({i \in DOMAIN heap.free_segments : heap.free_segments[i] = s})
            + Cardinality({w \in Workers : ia[w].reserved = s})
            + Cardinality({w \in Workers : s \in ToSet(ia[w].log)}) = 1
         /\ InLog(s) <=> s \in Logs(ia)
<1> DEFINE F == {i \in DOMAIN heap.free_segments : heap.free_segments[i] = s}
           R == {w \in Workers : ia[w].reserved = s}
           G == {w \in Workers : s \in ToSet(ia[w].log)}
           L == Logs(ia)
           V == Reserves(ia)
<1>1. /\ HeapInv(heap, L, V, Held(wk, ia)) /\ heap \in HeapType
      /\ ia \in [Workers -> AllocatorType] /\ AllocatorsInv(ia)
  BY DEF IndInv, TypeOK
<1>2. /\ heap.free_segments \in Seq(Segs)
      /\ DOMAIN heap.free_segments = 1 .. Len(heap.free_segments)
  BY <1>1, HeapFields, ToSetIs
<1>3. PlacesInv(heap, L, V)
  BY <1>1 DEF HeapInv
<1>4. (\A i, j \in F : i = j) /\ (F # {} <=> s \in Free(heap))
  <2>1. \A i, j \in F : i = j
    BY <1>2, <1>3 DEF PlacesInv
  <2> QED
    BY <1>2, <2>1 DEF Free
<1>5. (\A u, v \in R : u = v) /\ (R # {} <=> s \in V)
  <2>1. s # NULL
    BY Constants
  <2>2. \A u, v \in R : u = v
    BY <1>1, <2>1 DEF AllocatorsInv
  <2>3. R # {} <=> s \in V
    BY <2>1 DEF Reserves
  <2> QED
    BY <2>2, <2>3
<1>6. \A w \in Workers : s \in ToSet(ia[w].log) <=> s \in Elems(ia[w].log)
  <2> SUFFICES ASSUME NEW w \in Workers
               PROVE  s \in ToSet(ia[w].log) <=> s \in Elems(ia[w].log)
    OBVIOUS
  <2>1. ia[w].log \in Seq(Segs)
    BY <1>1, AllocatorFields
  <2> QED
    BY <2>1, ToSetIs DEF Elems
<1>7. (\A u, v \in G : u = v) /\ (G # {} <=> s \in L)
  <2>1. ASSUME NEW u \in G, NEW v \in G
        PROVE  u = v
    <3>1. u \in Workers /\ v \in Workers /\ s \in Elems(ia[u].log) /\ s \in Elems(ia[v].log)
      BY <1>6
    <3>2. PICK i \in 1 .. Len(ia[u].log) : ia[u].log[i] = s
      BY <3>1 DEF Elems
    <3>3. PICK j \in 1 .. Len(ia[v].log) : ia[v].log[j] = s
      BY <3>1 DEF Elems
    <3> QED
      BY <1>1, <3>1, <3>2, <3>3 DEF AllocatorsInv
  <2>2. G # {} <=> s \in L
    BY <1>6 DEF Logs
  <2> QED
    BY <2>1, <2>2
<1>8. InLog(s) <=> s \in L
  BY <1>7 DEF InLog
<1> HIDE DEF F, R, G, L, V
<1>9. /\ Cardinality(F) = IF s \in Free(heap) THEN 1 ELSE 0
      /\ Cardinality(R) = IF s \in V THEN 1 ELSE 0
      /\ Cardinality(G) = IF s \in L THEN 1 ELSE 0
  BY <1>4, <1>5, <1>7, AtMostOne
<1>10. s > heap.seg_alloced <=> s \notin L \cup V \cup Free(heap)
  <2>1. s \in 1 .. heap.seg_alloced <=> s \in L \cup V \cup Free(heap)
    BY <1>3 DEF PlacesInv
  <2>2. s \in Nat /\ s >= 1 /\ heap.seg_alloced \in Nat
    BY <1>1, Constants, HeapFields DEF Segs
  <2> QED
    BY <2>1, <2>2
<1>11. /\ ~(s \in L /\ s \in V) /\ ~(s \in L /\ s \in Free(heap))
       /\ ~(s \in V /\ s \in Free(heap))
  BY <1>3 DEF PlacesInv
<1>12. (IF s > heap.seg_alloced THEN 1 ELSE 0) + Cardinality(F) + Cardinality(R)
         + Cardinality(G) = 1
  BY <1>9, <1>10, <1>11
<1> QED
  BY <1>8, <1>12 DEF F, R, G, L

\* Likewise its bytes.
LEMMA BytesExact ==
  ASSUME IndInv, NEW s \in Segs
  PROVE  /\ s \in Logs(ia) => heap.segs[s].offset - heap.segs[s].freed
                                = MapThenSumSet(LAMBDA a : heap.items[a].size, LiveIn(s))
         /\ s \notin Logs(ia) => LiveIn(s) = {}
<1>1. HeapInv(heap, Logs(ia), Reserves(ia), Held(wk, ia)) /\ heap \in HeapType
  BY DEF IndInv, TypeOK
<1>2. LiveIn(s) = Alive(heap, s)
  BY DEF LiveIn, Alive
<1>3. s \notin Logs(ia) => LiveIn(s) = {}
  <2>1. \A a \in DOMAIN heap.items :
          a[1] = s /\ s \notin Logs(ia) => ~(heap.items[a].refcount > 0)
    BY <1>1, HeapFacts
  <2> QED
    BY <2>1 DEF LiveIn
<1>4. Bytes(heap.items, LiveIn(s)) = MapThenSumSet(LAMBDA a : heap.items[a].size, LiveIn(s))
  BY Zenon DEF Bytes
<1>5. s \in Logs(ia) =>
        heap.segs[s].offset - heap.segs[s].freed = Bytes(heap.items, LiveIn(s))
  BY <1>1, <1>2 DEF HeapInv, BytesInv
<1>6. s \in Logs(ia) => heap.segs[s].offset - heap.segs[s].freed
                          = MapThenSumSet(LAMBDA a : heap.items[a].size, LiveIn(s))
  BY <1>4, <1>5, Zenon
<1> QED
  BY <1>3, <1>6, Zenon

\* The invariant accounts for every segment.
LEMMA SegmentsExact ==
  ASSUME IndInv
  PROVE  SegmentsAccounted
<1>1. ASSUME NEW s \in Segs
      PROVE  /\ (IF s > heap.seg_alloced THEN 1 ELSE 0)
                + Cardinality({i \in DOMAIN heap.free_segments : heap.free_segments[i] = s})
                + Cardinality({w \in Workers : ia[w].reserved = s})
                + Cardinality({w \in Workers : s \in ToSet(ia[w].log)}) = 1
             /\ InLog(s) => heap.segs[s].offset - heap.segs[s].freed
                              = MapThenSumSet(LAMBDA a : heap.items[a].size, LiveIn(s))
             /\ ~InLog(s) => LiveIn(s) = {}
  BY PlacesOne, BytesExact, Zenon
<1> QED
  BY <1>1, Zenon DEF SegmentsAccounted

\* Every segment has one owner, and in a log the bytes handed out less the bytes
\* freed are those of the live items: a segment is freed when and only when its
\* last item has died.
THEOREM SegmentsAreAccounted == Spec => []SegmentsAccounted
<1>1. IndInv => SegmentsAccounted
  BY SegmentsExact
<1> QED
  BY <1>1, Invariance, PTL

-----------------------------------------------------------------------------
(* The store is a map.                                                     *)

View == [k \in Keys |-> Value(Lookup(heap, k))]
Tasks == [w \in Workers |-> Busy(w)]

\* A step that keeps the items in use and the table changes no lookup.
LEMMA SameLookup ==
  ASSUME NEW hp, NEW L, NEW V, NEW r, HeapInv(hp, L, V, r),
         NEW h, NEW M, NEW W, NEW q, HeapInv(h, M, W, q),
         KeepsItems(hp, h), SameTable(hp, h), NEW k
  PROVE  /\ Lookup(h, k) = Lookup(hp, k)
         /\ Lookup(hp, k) # NULL => SameItem(hp, h, Lookup(hp, k))
<1>1. hp \in HeapType /\ h \in HeapType /\ TableInv(hp) /\ TableInv(h)
  BY DEF HeapInv
<1>2. ASSUME NEW a, InTable(hp, a), a # NULL
      PROVE  SameItem(hp, h, a)
  BY <1>2, HeapFacts DEF KeepsItems
<1>3. \A a : InTable(h, a) <=> InTable(hp, a)
  BY DEF SameTable, InTable
<1>4. CASE Lookup(hp, k) # NULL
  <2> DEFINE a == Lookup(hp, k)
  <2>1. InTable(hp, a) /\ KeyAt(hp, a) = k
    BY <1>1, <1>4, LookupFinds
  <2> HIDE DEF a
  <2>2. SameItem(hp, h, a) /\ InTable(h, a) /\ a # NULL
    BY <1>2, <1>3, <1>4, <2>1 DEF a
  <2>3. KeyAt(h, a) = k
    BY <2>1, <2>2 DEF SameItem, KeyAt
  <2>4. Lookup(h, k) = a
    BY <1>1, <2>2, <2>3, LookupFinds
  <2> QED
    BY <2>2, <2>4 DEF a
<1>5. CASE Lookup(hp, k) = NULL
  <2> SUFFICES ASSUME Lookup(h, k) # NULL PROVE FALSE
    BY <1>5
  <2> DEFINE b == Lookup(h, k)
  <2>1. InTable(h, b) /\ KeyAt(h, b) = k
    BY <1>1, LookupFinds
  <2>2. b # NULL
    OBVIOUS
  <2> HIDE DEF b
  <2>3. SameItem(hp, h, b) /\ InTable(hp, b)
    BY <1>2, <1>3, <2>1, <2>2
  <2>4. KeyAt(hp, b) = k
    BY <2>1, <2>3 DEF SameItem, KeyAt
  <2>5. Lookup(hp, k) = b
    BY <1>1, <2>2, <2>3, <2>4, LookupFinds
  <2> QED
    BY <1>5, <2>2, <2>5
<1> QED
  BY <1>4, <1>5

\* A put changes the lookup of its key only.
LEMMA PutLookup ==
  ASSUME NEW hp, NEW L, NEW V, NEW r, HeapInv(hp, L, V, r),
         NEW h, NEW M, NEW W, NEW q, HeapInv(h, M, W, q),
         KeepsItems(hp, h), NEW a \in Addrs, a \in DOMAIN hp.items, hp.items[a].refcount > 0,
         Replaces(hp, h, a), NEW k
  PROVE  /\ k = KeyAt(hp, a) => Lookup(h, k) = a /\ SameItem(hp, h, a)
         /\ k # KeyAt(hp, a) => /\ Lookup(h, k) = Lookup(hp, k)
                                /\ Lookup(hp, k) # NULL => SameItem(hp, h, Lookup(hp, k))
<1>1. /\ hp \in HeapType /\ h \in HeapType /\ TableInv(hp) /\ TableInv(h)
      /\ a # NULL /\ DOMAIN hp.items \subseteq Addrs /\ DOMAIN h.items \subseteq Addrs
  BY HeapFields, Constants DEF HeapInv
<1>2. SameItem(hp, h, a) /\ InTable(h, a)
  BY DEF KeepsItems, Replaces
<1>3. KeyAt(h, a) = KeyAt(hp, a)
  BY <1>2 DEF SameItem, KeyAt
<1>4. CASE k = KeyAt(hp, a)
  BY <1>1, <1>2, <1>3, <1>4, LookupFinds
<1>5. ASSUME k # KeyAt(hp, a), NEW b, b # NULL
      PROVE  (InTable(h, b) /\ KeyAt(h, b) = k) <=> (InTable(hp, b) /\ KeyAt(hp, b) = k)
  <2>1. InTable(hp, b) => b \in Addrs /\ SameItem(hp, h, b)
    BY <1>1, <1>5, HeapFacts DEF KeepsItems
  <2>2. InTable(h, b) => b \in Addrs
    BY <1>1, <1>5, HeapFacts
  <2>3. ASSUME InTable(h, b), KeyAt(h, b) = k
        PROVE  InTable(hp, b) /\ KeyAt(hp, b) = k
    <3>1. b # a
      BY <1>3, <1>5, <2>3
    <3>2. InTable(hp, b)
      BY <2>2, <2>3, <3>1 DEF Replaces
    <3> QED
      BY <2>1, <2>3, <3>2 DEF SameItem, KeyAt
  <2>4. ASSUME InTable(hp, b), KeyAt(hp, b) = k
        PROVE  InTable(h, b) /\ KeyAt(h, b) = k
    <3>1. InTable(h, b)
      BY <1>5, <2>1, <2>4 DEF Replaces
    <3> QED
      BY <2>1, <2>4, <3>1 DEF SameItem, KeyAt
  <2> QED
    BY <2>3, <2>4
<1>6. CASE k # KeyAt(hp, a)
  <2>1. Lookup(hp, k) # NULL => InTable(hp, Lookup(hp, k)) /\ KeyAt(hp, Lookup(hp, k)) = k
    BY <1>1, LookupFinds
  <2>2. Lookup(h, k) # NULL => InTable(h, Lookup(h, k)) /\ KeyAt(h, Lookup(h, k)) = k
    BY <1>1, LookupFinds
  <2>3. Lookup(hp, k) # NULL => Lookup(h, k) = Lookup(hp, k)
    BY <1>1, <1>5, <1>6, <2>1, LookupFinds
  <2>4. Lookup(h, k) # NULL => Lookup(hp, k) = Lookup(h, k)
    BY <1>1, <1>5, <1>6, <2>2, LookupFinds
  <2>5. Lookup(hp, k) # NULL => SameItem(hp, h, Lookup(hp, k))
    BY <2>1, HeapFacts DEF KeepsItems
  <2> QED
    BY <1>6, <2>3, <2>4, <2>5
<1> QED
  BY <1>4, <1>6

\* The users see the same values while the items in use and the table stay ...
LEMMA ViewKept ==
  ASSUME IndInv, IndInv', KeepsItems(heap, heap'), SameTable(heap, heap')
  PROVE  View' = View
<1>1. /\ HeapInv(heap, Logs(ia), Reserves(ia), Held(wk, ia))
      /\ HeapInv(heap', Logs(ia'), Reserves(ia'), Held(wk', ia'))
  BY DEF IndInv
<1>2. ASSUME NEW k \in Keys
      PROVE  Value(Lookup(heap, k))' = Value(Lookup(heap, k))
  <2>1. /\ Lookup(heap', k) = Lookup(heap, k)
        /\ Lookup(heap, k) # NULL => SameItem(heap, heap', Lookup(heap, k))
    BY <1>1, SameLookup
  <2> QED
    BY <2>1 DEF Value, SameItem
<1> QED
  BY <1>2 DEF View

\* ... and a put shows them the value of its item.
LEMMA ViewPut ==
  ASSUME IndInv, IndInv', KeepsItems(heap, heap'), NEW a \in Addrs, a \in DOMAIN heap.items,
         heap.items[a].refcount > 0, Replaces(heap, heap', a), KeyAt(heap, a) \in Keys
  PROVE  View' = [View EXCEPT ![KeyAt(heap, a)] = heap.items[a].val]
<1> DEFINE c == KeyAt(heap, a)
           v == heap.items[a].val
<1>1. /\ HeapInv(heap, Logs(ia), Reserves(ia), Held(wk, ia))
      /\ HeapInv(heap', Logs(ia'), Reserves(ia'), Held(wk', ia')) /\ NULL \notin Addrs
  BY Constants DEF IndInv
<1>2. ASSUME NEW k \in Keys
      PROVE  Value(Lookup(heap, k))' = IF k = c THEN v ELSE Value(Lookup(heap, k))
  <2>1. /\ k = c => Lookup(heap', k) = a /\ SameItem(heap, heap', a)
        /\ k # c => /\ Lookup(heap', k) = Lookup(heap, k)
                    /\ Lookup(heap, k) # NULL => SameItem(heap, heap', Lookup(heap, k))
    BY <1>1, PutLookup
  <2> QED
    BY <1>1, <2>1 DEF Value, SameItem
<1> HIDE DEF c, v
<1>3. View' = [View EXCEPT ![c] = v]
  BY <1>2 DEF View
<1> QED
  BY <1>3 DEF c, v

\* A worker that does nothing is busy with the same request.
LEMMA BusyKept ==
  ASSUME IndInv, NEW v \in Workers, wk'[v] = wk[v], KeepsItems(heap, heap')
  PROVE  Busy(v)' = Busy(v)
<1>1. wk[v].it # NULL => SameItem(heap, heap', wk[v].it)
  BY IndFacts, HeldAlive DEF KeepsItems
<1>2. Value(wk[v].it)' = Value(wk[v].it)
  BY <1>1 DEF Value, SameItem
<1> QED
  BY <1>2 DEF Busy

\* A step of one worker changes one request at most.
LEMMA OneTask ==
  ASSUME NEW w \in Workers, \A v \in Workers : v # w => Busy(v)' = Busy(v)
  PROVE  /\ Tasks' = [Tasks EXCEPT ![w] = Busy(w)'] /\ Tasks[w] = Busy(w) /\ Tasks'[w] = Busy(w)'
         /\ Busy(w)' = Busy(w) => Tasks' = Tasks
BY DEF Tasks

\* A step of a worker that changes nothing its users see.
LEMMA Stutters ==
  ASSUME IndInv, IndInv', NEW w \in Workers, KeepsItems(heap, heap'), SameTable(heap, heap'),
         \A v \in Workers : v # w => wk'[v] = wk[v], Busy(w)' = Busy(w)
  PROVE  View' = View /\ Tasks' = Tasks
BY ViewKept, BusyKept, OneTask

\* What is known of the view and of the requests when worker w has made a step.
LEMMA StepShows ==
  ASSUME IndInv, IndInv', NEW w \in Workers, KeepsItems(heap, heap'), NEW z \in WorkerType,
         wk' = [wk EXCEPT ![w] = z]
  PROVE  /\ wk'[w] = z /\ \A v \in Workers : v # w => wk'[v] = wk[v]
         /\ \A v \in Workers : v # w => Busy(v)' = Busy(v)
         /\ Tasks' = [Tasks EXCEPT ![w] = Busy(w)'] /\ Tasks[w] = Busy(w) /\ Tasks'[w] = Busy(w)'
         /\ SameTable(heap, heap') => View' = View
<1>1. wk'[w] = z /\ \A v \in Workers : v # w => wk'[v] = wk[v]
  BY IndFacts
<1>2. \A v \in Workers : v # w => Busy(v)' = Busy(v)
  BY <1>1, BusyKept
<1> QED
  BY <1>1, <1>2, OneTask, ViewKept

\* A request arrives at a worker that has none.
LEMMA ReceivesRequests ==
  ASSUME IndInv, IndInv', NEW w \in Workers, Receives(w)
  PROVE  Map!Request(w)
<1>1. PICK t \in Traffic : wk' = [wk EXCEPT ![w] = [IdleWorker EXCEPT
                   !.pc = IF t[2] = "get" THEN "get" ELSE "alloc", !.op = t[2], !.key = t[3],
                   !.val = IF t[2] = "get" THEN NULL ELSE reqs + 1, !.idle = FALSE]]
  BY DEF Receives
<1> DEFINE z == [IdleWorker EXCEPT
                   !.pc = IF t[2] = "get" THEN "get" ELSE "alloc", !.op = t[2], !.key = t[3],
                   !.val = IF t[2] = "get" THEN NULL ELSE reqs + 1, !.idle = FALSE]
<1>2. t[2] \in {"get", "set"} /\ t[3] \in Keys
  BY KvsAssumption
<1>3. wk[w].pc = "poll" /\ reqs < MaxReqs /\ heap' = heap
  BY DEF Receives
<1>4. reqs + 1 \in Vals
  BY <1>3, KvsAssumption DEF IndInv, TypeOK, Vals
<1>5. /\ z \in WorkerType /\ z.op = t[2] /\ z.key = t[3]
      /\ z.pc = (IF t[2] = "get" THEN "get" ELSE "alloc")
      /\ z.val = (IF t[2] = "get" THEN NULL ELSE reqs + 1)
  BY <1>2, <1>4 DEF IdleWorker, WorkerType, AddrOrNull
<1>6. wk' = [wk EXCEPT ![w] = z]
  BY <1>1
<1> HIDE DEF z
<1>7. KeepsItems(heap, heap') /\ SameTable(heap, heap')
  BY <1>3, KeepsSelf
<1>8. /\ wk'[w] = z /\ Tasks' = [Tasks EXCEPT ![w] = Busy(w)']
      /\ Tasks[w] = Busy(w) /\ Tasks'[w] = Busy(w)' /\ View' = View
  BY <1>5, <1>6, <1>7, StepShows
<1>9. Busy(w) = Map!Idle
  <2>1. wk[w].op = "none"
    BY <1>3, IndFacts DEF WorkerInv
  <2> QED
    BY <2>1 DEF Busy, Map!Idle
<1>10. Busy(w)' \in Map!Requests
  <2>1. Busy(w)' = [op |-> z.op, key |-> z.key, val |-> z.val, done |-> FALSE]
    BY <1>2, <1>5, <1>8 DEF Busy
  <2> QED
    BY <1>2, <1>4, <1>5, <2>1 DEF Map!Requests
<1> QED
  BY <1>8, <1>9, <1>10 DEF Map!Request, View, Tasks

\* The requests of the map.
TaskType ==
  [op : {"none", "get", "set"}, key : Keys \cup {NULL}, val : Vals \cup {NULL},
   done : BOOLEAN]

\* What becomes of one when it takes effect.
LEMMA TaskDone ==
  ASSUME NEW b \in TaskType, NEW x \in Vals \cup {NULL}
  PROVE  /\ [b EXCEPT !.done = TRUE]
              = [op |-> b.op, key |-> b.key, val |-> b.val, done |-> TRUE]
         /\ [b EXCEPT !.done = TRUE, !.val = x]
              = [op |-> b.op, key |-> b.key, val |-> x, done |-> TRUE]
<1>1. ASSUME NEW c \in TaskType, NEW d \in TaskType,
             c.op = d.op, c.key = d.key, c.val = d.val, c.done = d.done
      PROVE  c = d
  BY <1>1 DEF TaskType
<1>2. [b EXCEPT !.done = TRUE] = [op |-> b.op, key |-> b.key, val |-> b.val, done |-> TRUE]
  <2>1. /\ [b EXCEPT !.done = TRUE] \in TaskType
        /\ [op |-> b.op, key |-> b.key, val |-> b.val, done |-> TRUE] \in TaskType
    BY DEF TaskType
  <2> QED
    BY <1>1, <2>1 DEF TaskType
<1>3. [b EXCEPT !.done = TRUE, !.val = x]
        = [op |-> b.op, key |-> b.key, val |-> x, done |-> TRUE]
  <2>1. /\ [b EXCEPT !.done = TRUE, !.val = x] \in TaskType
        /\ [op |-> b.op, key |-> b.key, val |-> x, done |-> TRUE] \in TaskType
    BY DEF TaskType
  <2> QED
    BY <1>1, <2>1 DEF TaskType
<1> QED
  BY <1>2, <1>3

\* A lookup is the instant a GET takes effect.
LEMMA GetLooksGets ==
  ASSUME IndInv, IndInv', NEW w \in Workers, GetLooks(w), KeepsItems(heap, heap'),
         SameTable(heap, heap')
  PROVE  Map!Get(w)
<1>0. PICK it : it = Lookup(heap, wk[w].key)
  OBVIOUS
<1> DEFINE z == [wk[w] EXCEPT !.pc = "respond", !.it = it]
<1>1. /\ wk[w].pc = "get" /\ wk[w] \in WorkerType /\ wk[w].op = "get" /\ wk[w].key \in Keys
      /\ wk[w].val = NULL /\ heap \in HeapType
      /\ wk' = [wk EXCEPT ![w].pc = "respond", ![w].it = it]
  BY <1>0, IndFacts DEF GetLooks, WorkerInv
<1>2. /\ it \in AddrOrNull /\ Value(it)' = Value(it)
      /\ it # NULL => it \in DOMAIN heap.items
  <2>1. /\ HeapInv(heap, Logs(ia), Reserves(ia), Held(wk, ia))
        /\ HeapInv(heap', Logs(ia'), Reserves(ia'), Held(wk', ia')) /\ TableInv(heap)
    BY DEF IndInv, HeapInv
  <2>2. it # NULL => SameItem(heap, heap', it)
    BY <1>0, <2>1, SameLookup
  <2>3. it # NULL => it \in Addrs /\ it \in DOMAIN heap.items
    BY <1>0, <1>1, <2>1, LookupFinds, HeapFields
  <2> QED
    BY <2>2, <2>3 DEF AddrOrNull, Value, SameItem
<1>3. z \in WorkerType /\ z.op = "get" /\ z.key = wk[w].key /\ z.pc = "respond" /\ z.it = it
  BY <1>1, <1>2 DEF WorkerType
<1>4. wk' = [wk EXCEPT ![w] = z]
  BY <1>1, IndFacts
<1> HIDE DEF z
<1>5. /\ wk'[w] = z /\ Tasks' = [Tasks EXCEPT ![w] = Busy(w)']
      /\ Tasks[w] = Busy(w) /\ Tasks'[w] = Busy(w)' /\ View' = View
  BY <1>3, <1>4, StepShows
<1>6. Busy(w) = [op |-> "get", key |-> wk[w].key, val |-> NULL, done |-> FALSE]
  BY <1>1 DEF Busy
<1>7. Busy(w)' = [op |-> "get", key |-> wk[w].key, val |-> Value(it), done |-> TRUE]
  BY <1>2, <1>3, <1>5 DEF Busy
<1>8. View[wk[w].key] = Value(it)
  BY <1>0, <1>1 DEF View
<1>9. Busy(w)' = [Busy(w) EXCEPT !.done = TRUE, !.val = View[Busy(w).key]]
  <2>1. Busy(w).key = wk[w].key
    BY <1>6
  <2>2. Busy(w) \in TaskType /\ Busy(w).op = "get"
    BY <1>1, <1>6 DEF TaskType
  <2>3. Value(it) \in Vals \cup {NULL}
    <3>1. it # NULL => heap.items[it] \in ItemType
      BY <1>1, <1>2, HeapFields
    <3> QED
      BY <3>1 DEF Value, ItemType
  <2>4. [Busy(w) EXCEPT !.done = TRUE, !.val = Value(it)]
          = [op |-> "get", key |-> wk[w].key, val |-> Value(it), done |-> TRUE]
    BY <2>1, <2>2, <2>3, TaskDone
  <2> QED
    BY <1>7, <1>8, <2>1, <2>4
<1>10. Tasks' = [Tasks EXCEPT ![w].done = TRUE, ![w].val = View[Tasks[w].key]]
  BY <1>5, <1>9 DEF Tasks
<1> QED
  BY <1>5, <1>6, <1>10 DEF Map!Get, View, Tasks

\* Giving up the item is the end of a request that has taken effect.
LEMMA LetGoAnswers ==
  ASSUME IndInv, IndInv', NEW w \in Workers, Answered(w), KeepsItems(heap, heap'),
         SameTable(heap, heap'), wk[w].op # "none", wk[w].pc \in {"respond", "unref"}
  PROVE  Map!Answer(w)
<1> DEFINE z == [IdleWorker EXCEPT !.idle = FALSE]
<1>1. z \in WorkerType /\ z.op = "none"
  BY IdleType DEF IdleWorker
<1>2. wk' = [wk EXCEPT ![w] = z]
  BY DEF Answered
<1> HIDE DEF z
<1>3. /\ wk'[w] = z /\ Tasks' = [Tasks EXCEPT ![w] = Busy(w)']
      /\ Tasks[w] = Busy(w) /\ View' = View
  BY <1>1, <1>2, StepShows
<1>4. Busy(w).done
  BY DEF Busy
<1>5. Busy(w)' = Map!Idle
  BY <1>1, <1>3 DEF Busy, Map!Idle
<1> QED
  BY <1>3, <1>4, <1>5 DEF Map!Answer, View, Tasks

\* A SET allocates unseen, or is refused.
LEMMA SetAllocatesRefuses ==
  ASSUME IndInv, IndInv', NEW w \in Workers, SetAllocates(w), KeepsItems(heap, heap'),
         SameTable(heap, heap')
  PROVE  Map!Refuse(w) \/ (View' = View /\ Tasks' = Tasks)
<1>0. PICK it : it = ialloc_alloc(heap, ia[w], wk[w].key, wk[w].val, FALSE).it
  OBVIOUS
<1>1. /\ wk[w].pc = "alloc" /\ wk[w].op = "set" /\ wk[w] \in WorkerType
      /\ wk \in [Workers -> WorkerType]
      /\ IF it = NULL THEN Answered(w) ELSE wk' = [wk EXCEPT ![w].pc = "put", ![w].it = it]
  BY <1>0, IndFacts DEF SetAllocates, WorkerInv
<1>2. Busy(w) = [op |-> "set", key |-> wk[w].key, val |-> wk[w].val, done |-> FALSE]
  BY <1>1 DEF Busy
<1>3. CASE it = NULL
  <2> DEFINE z == [IdleWorker EXCEPT !.idle = FALSE]
  <2>1. z \in WorkerType /\ z.op = "none"
    BY IdleType DEF IdleWorker
  <2>2. wk' = [wk EXCEPT ![w] = z]
    BY <1>1, <1>3 DEF Answered
  <2> HIDE DEF z
  <2>3. /\ wk'[w] = z /\ Tasks' = [Tasks EXCEPT ![w] = Busy(w)']
        /\ Tasks[w] = Busy(w) /\ View' = View
    BY <2>1, <2>2, StepShows
  <2>4. Busy(w).op = "set" /\ ~Busy(w).done
    BY <1>2
  <2>5. Busy(w)' = Map!Idle
    BY <2>1, <2>3 DEF Busy, Map!Idle
  <2> QED
    BY <2>3, <2>4, <2>5 DEF Map!Refuse, View, Tasks
<1>4. CASE it # NULL
  <2>1. wk' = [wk EXCEPT ![w].pc = "put", ![w].it = it]
    BY <1>1, <1>4
  <2>2. /\ wk'[w].pc = "put" /\ wk'[w].op = wk[w].op /\ wk'[w].key = wk[w].key
        /\ wk'[w].val = wk[w].val /\ \A v \in Workers : v # w => wk'[v] = wk[v]
    BY <1>1, <2>1 DEF WorkerType
  <2>3. Busy(w)' = Busy(w)
    BY <1>1, <1>2, <2>2 DEF Busy
  <2> QED
    BY <2>2, <2>3, Stutters
<1> QED
  BY <1>3, <1>4

\* A put is the instant a SET takes effect.
LEMMA SetPutsSets ==
  ASSUME IndInv, IndInv', NEW w \in Workers, SetPuts(w), KeepsItems(heap, heap'),
         wk[w].it \in Addrs, Replaces(heap, heap', wk[w].it)
  PROVE  Map!Set(w)
<1> DEFINE z == [wk[w] EXCEPT !.pc = "unref"]
<1>1. /\ wk[w].pc = "put" /\ wk[w].op = "set" /\ wk[w] \in WorkerType
      /\ wk \in [Workers -> WorkerType] /\ wk' = [wk EXCEPT ![w].pc = "unref"]
      /\ KeyAt(heap, wk[w].it) = wk[w].key /\ heap.items[wk[w].it].val = wk[w].val
      /\ wk[w].key \in Keys /\ wk[w].it # NULL
  BY IndFacts DEF SetPuts, WorkerInv, KeyAt
<1>2. wk[w].it \in DOMAIN heap.items /\ heap.items[wk[w].it].refcount > 0
  BY <1>1, IndFacts, HeldAlive
<1>3. View' = [View EXCEPT ![wk[w].key] = wk[w].val]
  <2>1. View' = [View EXCEPT ![KeyAt(heap, wk[w].it)] = heap.items[wk[w].it].val]
    BY <1>1, <1>2, ViewPut
  <2> QED
    BY <1>1, <2>1
<1>4. /\ z \in WorkerType /\ z.pc = "unref" /\ z.op = "set" /\ z.key = wk[w].key
      /\ z.val = wk[w].val /\ wk' = [wk EXCEPT ![w] = z]
  BY <1>1 DEF WorkerType
<1> HIDE DEF z
<1>5. /\ wk'[w] = z /\ Tasks' = [Tasks EXCEPT ![w] = Busy(w)']
      /\ Tasks[w] = Busy(w) /\ Tasks'[w] = Busy(w)'
  BY <1>4, StepShows
<1>6. Busy(w) = [op |-> "set", key |-> wk[w].key, val |-> wk[w].val, done |-> FALSE]
  BY <1>1 DEF Busy
<1>7. Busy(w)' = [op |-> "set", key |-> wk[w].key, val |-> wk[w].val, done |-> TRUE]
  BY <1>4, <1>5 DEF Busy
<1>8. Busy(w)' = [Busy(w) EXCEPT !.done = TRUE]
  <2>1. Busy(w) \in TaskType /\ Busy(w).op = "set" /\ Busy(w).key = wk[w].key
        /\ Busy(w).val = wk[w].val
    BY <1>1, <1>6 DEF TaskType, WorkerType
  <2>2. [Busy(w) EXCEPT !.done = TRUE]
          = [op |-> "set", key |-> wk[w].key, val |-> wk[w].val, done |-> TRUE]
    BY <2>1, TaskDone
  <2> QED
    BY <1>7, <2>2
<1>9. Tasks' = [Tasks EXCEPT ![w].done = TRUE]
  BY <1>5, <1>8 DEF Tasks
<1>10. /\ Busy(w).op = "set" /\ ~Busy(w).done
       /\ View' = [View EXCEPT ![Tasks[w].key] = Tasks[w].val]
  BY <1>3, <1>5, <1>6
<1> QED
  BY <1>5, <1>9, <1>10 DEF Map!Set, View, Tasks

\* A step of a worker without a request is not seen, if the table stays.
LEMMA CleaningUnseen ==
  ASSUME IndInv, IndInv', NEW w \in Workers, KeepsItems(heap, heap'),
         wk[w].op = "none", wk' = [wk EXCEPT ![w] = wk'[w]], wk'[w].op = "none"
  PROVE  Tasks' = Tasks /\ (SameTable(heap, heap') => View' = View)
<1>1. \A v \in Workers : v # w => wk'[v] = wk[v]
  BY IndFacts
<1>2. Busy(w)' = Busy(w)
  BY DEF Busy
<1> QED
  BY <1>1, <1>2, BusyKept, OneTask, ViewKept

\* In clean_log a worker has no request, before and after each step.
LEMMA CleanHasNoRequest ==
  ASSUME IndInv, IndInv', NEW w \in Workers,
         CleanTakes(w) \/ CleanCopies(w) \/ CleanReplaces(w) \/ CleanDrops(w)
  PROVE  /\ wk[w].op = "none" /\ wk' = [wk EXCEPT ![w] = wk'[w]] /\ wk'[w].op = "none"
<1>1. wk \in [Workers -> WorkerType] /\ wk[w] \in WorkerType /\ wk[w].op = "none"
  BY IndFacts DEF WorkerInv, CleanTakes, CleanCopies, CleanReplaces, CleanDrops
<1>2. CASE CleanTakes(w)
  <2>1. PICK a : \/ wk' = [wk EXCEPT ![w] = IdleWorker]
                 \/ wk' = [wk EXCEPT ![w].pc = "copy", ![w].it = a]
    BY <1>2 DEF CleanTakes
  <2>2. IdleWorker.op = "none"
    BY DEF IdleWorker
  <2> QED
    BY <1>1, <2>1, <2>2 DEF WorkerType
<1>3. CASE CleanCopies(w)
  <2>1. PICK a : \/ wk' = [wk EXCEPT ![w].pc = "drop"]
                 \/ wk' = wk
                 \/ wk' = [wk EXCEPT ![w].pc = "replace", ![w].nit = a]
    BY <1>3 DEF CleanCopies
  <2> QED
    BY <1>1, <2>1 DEF WorkerType
<1>4. CASE CleanReplaces(w)
  BY <1>1, <1>4 DEF CleanReplaces, WorkerType
<1>5. CASE CleanDrops(w)
  BY <1>1, <1>5 DEF CleanDrops, WorkerType
<1> QED
  BY <1>1, <1>2, <1>3, <1>4, <1>5

\* A step of a worker is one of the map's, or none of the users sees it.
LEMMA WorkerRefines ==
  ASSUME IndInv, IndInv', NEW w \in Workers, Worker(w)
  PROVE  Map!Next \/ (View' = View /\ Tasks' = Tasks)
<1>1. CASE Receives(w)
  BY <1>1, ReceivesRequests DEF Map!Next
<1>2. CASE GetLooks(w)
  BY <1>2, GetLooksKeeps, GetLooksGets DEF Map!Next
<1>3. CASE Responds(w)
  <2>1. Answered(w) /\ wk[w].pc = "respond" /\ wk[w].op # "none"
    BY <1>3, IndFacts DEF Responds, WorkerInv
  <2> QED
    BY <1>3, <2>1, RespondsKeeps, LetGoAnswers DEF Map!Next
<1>4. CASE SetAllocates(w)
  BY <1>4, SetAllocatesKeeps, SetAllocatesRefuses DEF Map!Next
<1>5. CASE SetPuts(w)
  BY <1>5, SetPutsKeeps, SetPutsSets DEF Map!Next
<1>6. CASE SetUnrefs(w)
  <2>1. Answered(w) /\ wk[w].pc = "unref" /\ wk[w].op # "none"
    BY <1>6, IndFacts DEF SetUnrefs, WorkerInv
  <2> QED
    BY <1>6, <2>1, SetUnrefsKeeps, LetGoAnswers DEF Map!Next
<1>7. CASE CleanTakes(w) \/ CleanCopies(w) \/ CleanDrops(w)
  <2>1. KeepsItems(heap, heap') /\ SameTable(heap, heap')
    BY <1>7, CleanTakesKeeps, CleanCopiesKeeps, CleanDropsKeeps
  <2>2. wk[w].op = "none" /\ wk' = [wk EXCEPT ![w] = wk'[w]] /\ wk'[w].op = "none"
    BY <1>7, CleanHasNoRequest
  <2> QED
    BY <2>1, <2>2, CleaningUnseen
<1>8. CASE CleanReplaces(w)
  <2> DEFINE a == wk[w].nit
             b == wk[w].it
  <2>1. /\ KeepsItems(heap, heap') /\ a \in Addrs
        /\ \/ heap' = heap
           \/ Lookup(heap, KeyAt(heap, a)) = b /\ Replaces(heap, heap', a)
    BY <1>8, CleanReplacesKeeps
  <2>2. wk[w].op = "none" /\ wk' = [wk EXCEPT ![w] = wk'[w]] /\ wk'[w].op = "none"
    BY <1>8, CleanHasNoRequest
  <2>3. Tasks' = Tasks
    BY <2>1, <2>2, CleaningUnseen
  <2>4. View' = View
    <3>1. CASE heap' = heap
      BY <2>1, <3>1, KeepsSelf, ViewKept
    <3>2. CASE Lookup(heap, KeyAt(heap, a)) = b /\ Replaces(heap, heap', a)
      <4>1. /\ b # NULL /\ heap.items[a].key = heap.items[b].key
            /\ heap.items[a].val = heap.items[b].val
        BY <1>8, IndFacts DEF CleanReplaces, WorkerInv
      <4>2. a # NULL /\ a \in DOMAIN heap.items /\ heap.items[a].refcount > 0
        BY <2>1, IndFacts, HeldAlive
      <4>3. heap.items[a].key \in Keys
        BY <4>2 DEF IndInv, HeapInv, ItemsInv
      <4>4. View' = [View EXCEPT ![KeyAt(heap, a)] = heap.items[a].val]
        BY <2>1, <3>2, <4>2, <4>3, ViewPut DEF KeyAt
      <4>5. View[KeyAt(heap, a)] = heap.items[a].val
        BY <3>2, <4>1, <4>3 DEF View, Value, KeyAt
      <4> HIDE DEF a
      <4> QED
        BY <4>4, <4>5 DEF View
    <3> QED
      BY <2>1, <3>1, <3>2
  <2> QED
    BY <2>3, <2>4
<1> QED
  BY <1>1, <1>2, <1>3, <1>4, <1>5, <1>6, <1>7, <1>8 DEF Worker

\* A step of the maintenance thread is not seen.
LEMMA MaintenanceUnseen ==
  ASSUME IndInv, IndInv', Maintenance
  PROVE  View' = View /\ Tasks' = Tasks
<1>1. KeepsItems(heap, heap') /\ SameTable(heap, heap')
  BY MaintWalksKeeps, MaintPicksKeeps, MaintScansKeeps DEF Maintenance
<1>2. wk' = wk
  BY DEF Maintenance, MaintWalks, MaintPicks, MaintScans
<1>3. \A w \in Workers : Busy(w)' = Busy(w)
  BY <1>1, <1>2, BusyKept
<1> QED
  BY <1>1, <1>3, ViewKept DEF Tasks

\* At the start no key has a value and no worker a request.
LEMMA InitRefines ==
  ASSUME Init
  PROVE  Map!Init
<1>1. IndInv
  BY InitKeeps
<1>2. heap \in HeapType /\ TableInv(heap) /\ wk = [w \in Workers |-> IdleWorker]
  BY <1>1 DEF IndInv, HeapInv, Init
<1>3. ASSUME NEW a, InTable(heap, a)
      PROVE  a = NULL
  BY <1>3 DEF Init, InTable
<1>4. \A k \in Keys : Lookup(heap, k) = NULL
  BY <1>2, <1>3, LookupFinds
<1>5. \A k \in Keys : Value(Lookup(heap, k)) = NULL
  BY <1>4 DEF Value
<1>6. \A w \in Workers : Busy(w) = Map!Idle
  <2>1. IdleWorker.op = "none"
    BY DEF IdleWorker
  <2> QED
    BY <1>2, <2>1 DEF Busy, Map!Idle
<1> QED
  BY <1>5, <1>6 DEF Map!Init

\* The store is a map: between its arrival and its answer a GET reads, at one
\* instant, the value of the last SET of its key, and a SET stores its value or
\* is refused and changes nothing; relocating items, freeing segments and using
\* them again changes the value of no key, for every number of workers, requests
\* and segments and all sizes.  A scan may be under way in a segment that is freed
\* and used again, and may go over items of the new use, some not filled yet, and
\* over what is left of the old one; Spec ends, and nothing is said, where it
\* takes other bytes for an item (ialloc.c:483) or a copy is made of an item that
\* is not filled.
THEOREM Refinement == Spec => ImplementsMap
<1>1. Init => Map!Init
  BY InitRefines
<1>2. IndInv /\ IndInv' /\ [Next]_vars => Map!Next \/ (View' = View /\ Tasks' = Tasks)
  <2>1. ASSUME IndInv, IndInv', UNCHANGED vars
        PROVE  View' = View /\ Tasks' = Tasks
    BY <2>1 DEF vars, View, Tasks, Value, Busy
  <2> QED
    BY <2>1, WorkerRefines, MaintenanceUnseen DEF Next
<1>3. IndInv /\ IndInv' /\ [Next]_vars =>
        [Map!Next]_<<[k \in Keys |-> Value(Lookup(heap, k))], [w \in Workers |-> Busy(w)]>>
  BY <1>2 DEF View, Tasks
<1> QED
  BY <1>1, <1>3, Invariance, PTL DEF Spec, ImplementsMap, Map!Spec
=============================================================================
