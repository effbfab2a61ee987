--------------------------- MODULE KvsBenchProofs ---------------------------
(***************************************************************************)
(* kvsbench, for any number of threads and keys: every reference count is  *)
(* exact although items are overwritten in place and an assertion takes a  *)
(* reference of its own, every key is in the table when the measurement    *)
(* starts, and, if the keys are distinct, that assertion holds.            *)
(***************************************************************************)
EXTENDS KvsBench, KvsStoreProofs

-----------------------------------------------------------------------------
(* The inductive invariant.                                                *)

\* The places of a request, and those where the thread has an item.
Requesting == {"look", "alloc", "put", "check", "unref2", "unref"}
Having == {"put", "check", "unref2", "unref"}

ThreadType ==
  [pc : {"start", "load", "ready", "run", "end"} \cup Requesting, i : Nat,
   op : {"none", "get", "set"}, key : Keys \cup {NULL}, it : AddrOrNull,
   x : Draws \cup {0}, back : {"load", "run"}]

BenchTypeOK ==
  /\ ia \in [Workers -> AllocatorType]
  /\ th \in [Workers -> ThreadType]
  /\ phase \in INIT .. DONE

\* The references of the threads, in the form in which those of the workers of
\* the store are counted: the second one of a thread is that of the assertion.
Grips(x) ==
  [t \in Workers |-> [it |-> x[t].it, nit |-> IF x[t].pc = "unref2" THEN x[t].it ELSE NULL]]

GripsInv(hp, y, x) == HeapInv(hp, Logs(y), Reserves(y), Held(Grips(x), y))

\* When the assertion has failed one reference is nobody's.
ReferencesInv ==
  /\ failed # "it == hasht_get" => GripsInv(heap, ia, th)
  /\ \E r : HeapInv(heap, Logs(ia), Reserves(ia), r)

Found(hp, k) == Lookup(hp, k) # NULL
DistinctKeys == \A i, j \in 1 .. NKeys : KeySeq[i] = KeySeq[j] => i = j

\* The keys that thread w loads are those with its indices; a thread that has
\* loaded all of them stays loaded.
Own(w) == {w + n * NWorkers : n \in Nat}
HasLoaded(t) == t.pc = "ready" \/ t.back = "run"

\* The index below which every key of the thread has been loaded.
LoadedTo(t) ==
  IF t.back = "load" /\ t.pc \in {"look", "alloc", "put"} THEN t.i - NWorkers ELSE t.i

\* Thread w, in phase p.
ThreadInv(hp, p, w, t) ==
  /\ t.it # NULL <=> t.pc \in Having
  /\ t.it # NULL => KeyAt(hp, t.it) = t.key
  /\ t.pc \in Requesting => \E j \in 1 .. NKeys : t.key = KeySeq[j]
  /\ t.pc \in {"alloc", "put", "check", "unref2", "start", "load", "ready"} => t.back = "load"
  /\ t.pc \in {"run", "end"} => t.back = "run"
  /\ t.back = "run" => p >= RUNNING
  /\ t.pc # "start" => t.i \in Own(w)
  /\ t.pc \in Requesting /\ t.back = "load" =>
       /\ t.op = "set" /\ t.i - NWorkers \in Own(w) /\ t.i - NWorkers <= NKeys
       /\ t.key = KeySeq[t.i - NWorkers]
  /\ t.pc # "start" =>
       \A j \in Own(w) : j <= NKeys /\ j < LoadedTo(t) => Found(hp, KeySeq[j])
  /\ HasLoaded(t) => t.i > NKeys
  /\ t.pc = "check" => Found(hp, t.key) /\ (DistinctKeys => Lookup(hp, t.key) = t.it)

LoadInv ==
  /\ init_count = Cardinality({w \in Workers : HasLoaded(th[w])})
  /\ phase >= RUNNING => \A w \in Workers : HasLoaded(th[w])

BenchInv ==
  /\ BenchTypeOK /\ ReferencesInv /\ AllocatorsInv(ia)
  /\ \A w \in Workers : ia[w].cleanup_queue = << >>
  /\ \A w \in Workers : ThreadInv(heap, phase, w, th[w])
  /\ LoadInv
  /\ DistinctKeys => failed # "it == hasht_get"

-----------------------------------------------------------------------------
(* Which thread loads which key.                                           *)

\* What is assumed about the keys and the draws.
LEMMA BenchConstants ==
  /\ NWorkers \in Nat \ {0} /\ NKeys \in Nat \ {0} /\ KeySeq \in Seq(Keys)
  /\ \A j \in 1 .. NKeys : KeySeq[j] \in Keys
  /\ NULL \notin Keys /\ NULL \notin Addrs /\ 0 \notin Draws
BY BenchAssumption, Constants DEF Generated, NKeys

\* The indices of a thread are NWorkers apart.
LEMMA OwnFacts ==
  ASSUME NEW w \in Workers
  PROVE  /\ w \in Own(w) /\ Own(w) \subseteq Nat
         /\ \A i \in Own(w) : i >= w /\ i + NWorkers \in Own(w)
         /\ \A i, j \in Own(w) : i < j + NWorkers => i <= j
<1>1. NWorkers \in Nat \ {0} /\ w \in Nat \ {0}
  BY Constants DEF Workers
<1>2. w \in Own(w)
  <2>1. 0 \in Nat /\ w = w + 0 * NWorkers
    BY <1>1
  <2> QED
    BY <2>1 DEF Own
<1>3. ASSUME NEW n \in Nat
      PROVE  n * NWorkers \in Nat
  BY <1>1
<1>4. ASSUME NEW i \in Own(w)
      PROVE  i \in Nat /\ i >= w /\ i + NWorkers \in Own(w)
  <2>1. PICK n \in Nat : i = w + n * NWorkers
    BY DEF Own
  <2>2. (n + 1) * NWorkers = n * NWorkers + NWorkers
    BY <1>1
  <2>3. i + NWorkers = w + (n + 1) * NWorkers
    BY <1>1, <1>3, <2>1, <2>2
  <2>4. i + NWorkers \in Own(w)
    BY <2>3 DEF Own
  <2> QED
    BY <1>1, <1>3, <2>1, <2>4
<1>5. ASSUME NEW i \in Own(w), NEW j \in Own(w), i < j + NWorkers
      PROVE  i <= j
  <2>1. PICK m \in Nat : i = w + m * NWorkers
    BY DEF Own
  <2>2. PICK n \in Nat : j = w + n * NWorkers
    BY DEF Own
  <2>3. CASE m <= n
    <3>1. PICK d \in Nat : n = m + d
      <4>1. n - m \in Nat /\ n = m + (n - m)
        BY <2>3
      <4> QED
        BY <4>1
    <3>2. n * NWorkers = m * NWorkers + d * NWorkers
      BY <1>1, <3>1
    <3> QED
      BY <1>1, <1>3, <2>1, <2>2, <3>2
  <2>4. CASE m > n
    <3>1. PICK d \in Nat : m = n + d + 1
      <4>1. m - n - 1 \in Nat /\ m = n + (m - n - 1) + 1
        BY <2>4
      <4> QED
        BY <4>1
    <3>2. m * NWorkers = n * NWorkers + d * NWorkers + NWorkers
      BY <1>1, <3>1
    <3> QED
      BY <1>1, <1>3, <1>5, <2>1, <2>2, <3>2
  <2> QED
    BY <2>3, <2>4
<1> QED
  BY <1>2, <1>4, <1>5

\* Every key is loaded by one thread.
LEMMA OwnedByOne ==
  /\ \A j \in Nat \ {0} : \E w \in Workers : j \in Own(w)
  /\ \A v, w \in Workers : \A j : j \in Own(v) /\ j \in Own(w) => v = w
<1>1. NWorkers \in Nat \ {0} /\ \A w \in Workers : w \in 1 .. NWorkers
  BY Constants DEF Workers
<1>2. ASSUME NEW j \in Nat \ {0}
      PROVE  \E w \in Workers : j \in Own(w)
  <2> DEFINE n == (j - 1) \div NWorkers
             m == (j - 1) % NWorkers
  <2>1. /\ n \in Nat /\ m \in 0 .. NWorkers - 1 /\ j - 1 = NWorkers * n + m
    BY <1>1
  <2> HIDE DEF n, m
  <2>2. NWorkers * n = n * NWorkers /\ n * NWorkers \in Nat
    BY <1>1, <2>1
  <2>3. j = (m + 1) + n * NWorkers /\ m + 1 \in Workers
    BY <1>1, <2>1, <2>2 DEF Workers
  <2> QED
    BY <2>1, <2>3 DEF Own
<1>3. ASSUME NEW v \in Workers, NEW w \in Workers, NEW j \in Own(v), j \in Own(w), v < w
      PROVE  FALSE
  <2>1. /\ v \in Own(v) /\ w \in Own(w) /\ Own(v) \subseteq Nat /\ Own(w) \subseteq Nat
    BY OwnFacts
  <2>2. PICK m \in Nat : j = v + m * NWorkers
    BY DEF Own
  <2>3. PICK n \in Nat : j = w + n * NWorkers
    BY <1>3 DEF Own
  <2>4. m * NWorkers \in Nat /\ n * NWorkers \in Nat
    BY <1>1
  <2>5. m > n
    <3>1. CASE m <= n
      <4>1. PICK d \in Nat : n = m + d
        <5>1. n - m \in Nat /\ n = m + (n - m)
          BY <3>1
        <5> QED
          BY <5>1
      <4>2. n * NWorkers = m * NWorkers + d * NWorkers /\ d * NWorkers \in Nat
        BY <1>1, <4>1
      <4> QED
        BY <1>1, <1>3, <2>2, <2>3, <2>4, <4>2
    <3> QED
      BY <3>1
  <2>6. PICK d \in Nat : m = n + d + 1
    <3>1. m - n - 1 \in Nat /\ m = n + (m - n - 1) + 1
      BY <2>5
    <3> QED
      BY <3>1
  <2>7. m * NWorkers = n * NWorkers + d * NWorkers + NWorkers /\ d * NWorkers \in Nat
    BY <1>1, <2>6
  <2> QED
    BY <1>1, <1>3, <2>2, <2>3, <2>4, <2>7
<1>4. \A v, w \in Workers : v < w \/ w < v \/ v = w
  BY <1>1
<1> QED
  BY <1>2, <1>3, <1>4

-----------------------------------------------------------------------------
(* The binary search of draw_key.                                          *)

Places == [l : 1 .. NKeys + 1, r : 0 .. NKeys, mid : 1 .. NKeys]

\* One round of the search, the rest of which is f.
Round(f, s, x) ==
  LET mid == (s.l + s.r - 2) \div 2 + 1
      res == key_in_range(mid, x) IN
  IF s.l >= s.r THEN s.mid
  ELSE IF res < 0 THEN f[[l |-> s.l, r |-> mid - 1, mid |-> mid]]
  ELSE IF res > 0 THEN f[[l |-> mid + 1, r |-> s.r, mid |-> mid]]
  ELSE mid

\* A round looks between l and r, and goes on with fewer keys.
LEMMA RoundNarrows ==
  ASSUME NEW s \in Places, s.l < s.r, NEW mid, mid = (s.l + s.r - 2) \div 2 + 1
  PROVE  /\ mid \in 1 .. NKeys
         /\ LET t == [l |-> s.l, r |-> mid - 1, mid |-> mid]
            IN  t \in Places /\ t.r - t.l < s.r - s.l
         /\ LET t == [l |-> mid + 1, r |-> s.r, mid |-> mid]
            IN  t \in Places /\ t.r - t.l < s.r - s.l
<1> DEFINE l == s.l
           r == s.r
<1>1. l \in 1 .. NKeys + 1 /\ r \in 0 .. NKeys /\ NKeys \in Nat
  BY BenchConstants DEF Places
<1> HIDE DEF l, r
<1>2. mid = (l + r - 2) \div 2 + 1 /\ l < r
  BY DEF l, r
<1>3. mid \in Int /\ l <= mid /\ mid <= r
  BY <1>1, <1>2
<1>4. mid \in 1 .. NKeys /\ mid - 1 \in 0 .. NKeys /\ mid + 1 \in 1 .. NKeys + 1
  BY <1>1, <1>3
<1>5. /\ [l |-> l, r |-> mid - 1, mid |-> mid] \in Places
      /\ [l |-> mid + 1, r |-> r, mid |-> mid] \in Places
  BY <1>1, <1>4 DEF Places
<1>6. mid - 1 - l < r - l /\ r - (mid + 1) < r - l
  BY <1>1, <1>3
<1> QED
  BY <1>4, <1>5, <1>6 DEF l, r

\* A round depends on the searches of smaller intervals only.
LEMMA RoundValue ==
  ASSUME NEW s \in Places, NEW x, NEW f, NEW g, NEW S,
         \A t \in Places : t.r - t.l < s.r - s.l => f[t] = g[t] /\ f[t] \in S,
         1 .. NKeys \subseteq S
  PROVE  Round(f, s, x) = Round(g, s, x) /\ Round(f, s, x) \in S
<1> DEFINE mid == (s.l + s.r - 2) \div 2 + 1
           a == [l |-> s.l, r |-> mid - 1, mid |-> mid]
           b == [l |-> mid + 1, r |-> s.r, mid |-> mid]
<1>1. CASE s.l >= s.r
  BY <1>1 DEF Round, Places
<1>2. CASE ~(s.l >= s.r)
  <2>1. s.l < s.r
    BY <1>2, BenchConstants DEF Places
  <2>2. mid \in 1 .. NKeys /\ f[a] = g[a] /\ f[a] \in S /\ f[b] = g[b] /\ f[b] \in S
    BY <2>1, RoundNarrows
  <2> HIDE DEF mid
  <2>3. \A h : Round(h, s, x) = IF key_in_range(mid, x) < 0 THEN h[a]
                                ELSE IF key_in_range(mid, x) > 0 THEN h[b] ELSE mid
    BY <1>2 DEF Round, mid
  <2> HIDE DEF a, b
  <2> QED
    BY <2>2, <2>3
<1> QED
  BY <1>1, <1>2

\* The interval narrows in every round, so that the search has a result.
LEMMA SearchExists ==
  ASSUME NEW x
  PROVE  \E f : f = [s \in Places |-> Round(f, s, x)]
<1> DEFINE Upto(f, n) == \A s \in Places : s.r - s.l < n => f[s] = Round(f, s, x)
           N == {n \in Nat : \E f \in [Places -> 1 .. NKeys] : Upto(f, n)}
<1>0. \A s \in Places : s.l \in Int /\ s.r \in Int /\ s.r - s.l <= NKeys - 1 /\ s.mid \in 1 .. NKeys
  BY BenchConstants DEF Places
<1>1. 0 \in N
  <2> DEFINE f == [s \in Places |-> s.mid]
  <2>1. f \in [Places -> 1 .. NKeys]
    BY <1>0
  <2>2. \A s \in Places : s.r - s.l < 0 => f[s] = Round(f, s, x)
    BY <1>0 DEF Round
  <2> QED
    BY <2>1, <2>2
<1>2. ASSUME NEW n \in Nat, n \in N
      PROVE  n + 1 \in N
  <2>1. PICK f \in [Places -> 1 .. NKeys] : Upto(f, n)
    BY <1>2
  <2> DEFINE g == [s \in Places |-> Round(f, s, x)]
  <2>2. ASSUME NEW s \in Places
        PROVE  Round(f, s, x) \in 1 .. NKeys
    BY <2>1, RoundValue
  <2>3. g \in [Places -> 1 .. NKeys]
    BY <2>2
  <2>4. ASSUME NEW s \in Places, s.r - s.l < n + 1
        PROVE  g[s] = Round(g, s, x)
    <3>1. \A t \in Places : t.r - t.l < s.r - s.l => f[t] = g[t] /\ f[t] \in 1 .. NKeys
      BY <1>0, <2>1, <2>4
    <3> HIDE DEF g
    <3>2. Round(f, s, x) = Round(g, s, x)
      BY <3>1, RoundValue
    <3> QED
      BY <3>2 DEF g
  <2> HIDE DEF g
  <2> QED
    BY <2>3, <2>4
<1> HIDE DEF N
<1>3. NKeys \in N
  BY <1>1, <1>2, SetInduction, BenchConstants
<1>4. PICK f \in [Places -> 1 .. NKeys] : Upto(f, NKeys)
  BY <1>3 DEF N
<1>5. \A s \in Places : f[s] = Round(f, s, x)
  BY <1>0, <1>4, BenchConstants
<1>6. f = [s \in Places |-> Round(f, s, x)]
  BY <1>4, <1>5
<1> QED
  BY <1>6

\* What is drawn is a key of the workload.
LEMMA DrawsKey ==
  ASSUME NEW x
  PROVE  \E j \in 1 .. NKeys : draw_key(x) = KeySeq[j]
<1> DEFINE f == Search(x)
<1>1. f = CHOOSE g : g = [s \in Places |-> Round(g, s, x)]
  BY DEF Search, Places, Round
<1>2. f = [s \in Places |-> Round(f, s, x)]
  BY <1>1, SearchExists
<1> HIDE DEF f
<1>3. \A s \in Places : f[s] = Round(f, s, x)
  BY <1>2
<1> DEFINE N == {n \in Nat : \A s \in Places : s.r - s.l < n => f[s] \in 1 .. NKeys}
<1>4. \A s \in Places : s.l \in Int /\ s.r \in Int /\ s.r - s.l <= NKeys - 1 /\ s.mid \in 1 .. NKeys
  BY BenchConstants DEF Places
<1>5. 0 \in N
  <2>1. ASSUME NEW s \in Places, s.r - s.l < 0
        PROVE  f[s] \in 1 .. NKeys
    <3>1. s.l >= s.r
      BY <1>4, <2>1
    <3>2. Round(f, s, x) = s.mid
      BY <3>1 DEF Round
    <3> QED
      BY <1>3, <1>4, <3>2
  <2> QED
    BY <2>1
<1>6. ASSUME NEW n \in Nat, n \in N
      PROVE  n + 1 \in N
  <2>1. ASSUME NEW s \in Places, s.r - s.l < n + 1
        PROVE  f[s] \in 1 .. NKeys
    <3>1. \A t \in Places : t.r - t.l < s.r - s.l => f[t] \in 1 .. NKeys
      BY <1>4, <1>6, <2>1
    <3>2. Round(f, s, x) \in 1 .. NKeys
      BY <3>1, RoundValue
    <3> QED
      BY <1>3, <3>2
  <2> QED
    BY <2>1
<1> HIDE DEF N
<1>7. NKeys \in N
  BY <1>5, <1>6, SetInduction, BenchConstants
<1> DEFINE s == [l |-> 1, r |-> NKeys, mid |-> 1]
<1>8. s \in Places /\ s.r - s.l < NKeys
  BY BenchConstants DEF Places
<1> HIDE DEF s
<1>9. f[s] \in 1 .. NKeys
  BY <1>7, <1>8 DEF N
<1> QED
  BY <1>9 DEF draw_key, f, s

-----------------------------------------------------------------------------
(* What a step keeps.                                                      *)

\* What the invariant says of a thread about to take a step.
LEMMA BenchFacts ==
  ASSUME BenchInv, failed = "none", NEW w \in Workers
  PROVE  /\ ia \in [Workers -> AllocatorType] /\ th \in [Workers -> ThreadType]
         /\ th[w] \in ThreadType /\ ThreadInv(heap, phase, w, th[w])
         /\ phase \in INIT .. DONE /\ phase \in Int /\ phase >= phase
         /\ GripsInv(heap, ia, th) /\ AllocatorsInv(ia) /\ heap \in HeapType /\ TableInv(heap)
         /\ LoadInv /\ th[w].it \in AddrOrNull /\ th[w].key \in Keys \cup {NULL} /\ th[w].i \in Nat
         /\ \A v \in Workers : ia[v].cleanup_queue = << >>
<1>1. /\ ia \in [Workers -> AllocatorType] /\ th \in [Workers -> ThreadType]
      /\ ThreadInv(heap, phase, w, th[w])
      /\ phase \in INIT .. DONE /\ GripsInv(heap, ia, th) /\ AllocatorsInv(ia)
      /\ LoadInv /\ \A v \in Workers : ia[v].cleanup_queue = << >>
  BY DEF BenchInv, BenchTypeOK, ReferencesInv
<1>2. th[w] \in ThreadType /\ phase \in Int /\ phase >= phase /\ heap \in HeapType /\ TableInv(heap)
  BY <1>1 DEF GripsInv, HeapInv, INIT, DONE
<1>3. th[w].it \in AddrOrNull /\ th[w].key \in Keys \cup {NULL} /\ th[w].i \in Nat
  BY <1>2 DEF ThreadType
<1> QED
  BY <1>1, <1>2, <1>3

\* The item of a thread is alive.
LEMMA GripHolds ==
  ASSUME BenchInv, failed = "none", NEW w \in Workers, th[w].it # NULL
  PROVE  /\ th[w].it \in Addrs /\ th[w].it \in DOMAIN heap.items
         /\ heap.items[th[w].it].refcount > 0 /\ Held(Grips(th), ia)[th[w].it] # 0
<1> DEFINE g == Grips(th)
<1>1. g[w].it = th[w].it /\ g[w].nit \in {th[w].it, NULL}
  BY DEF Grips
<1> HIDE DEF g
<1>2. g[w].it \in AddrOrNull /\ g[w].nit \in AddrOrNull
  BY <1>1, BenchFacts DEF AddrOrNull
<1>3. HeapInv(heap, Logs(ia), Reserves(ia), Held(g, ia))
  BY BenchFacts DEF GripsInv, g
<1>4. g[w].it # NULL => /\ g[w].it \in Addrs /\ g[w].it \in DOMAIN heap.items
                        /\ Held(g, ia)[g[w].it] # 0 /\ heap.items[g[w].it].refcount > 0
  BY <1>2, <1>3, HolderHolds
<1> QED
  BY <1>1, <1>4 DEF g

\* What is true of a thread stays true while its item is kept, no key is lost
\* and the phase does not go back.
LEMMA ThreadKeeps ==
  ASSUME BenchInv, failed = "none", NEW w \in Workers, NEW h, KeepsItems(heap, h),
         \A k : Found(heap, k) => Found(h, k),
         DistinctKeys /\ th[w].pc = "check" => Lookup(h, th[w].key) = Lookup(heap, th[w].key),
         NEW p \in Int, p >= phase
  PROVE  ThreadInv(h, p, w, th[w])
<1> DEFINE t == th[w]
<1>1. ThreadInv(heap, phase, w, t) /\ phase \in Int
  BY BenchFacts
<1>2. t.it # NULL => KeyAt(h, t.it) = KeyAt(heap, t.it)
  BY GripHolds DEF KeepsItems, SameItem, KeyAt
<1>3. t.pc = "check" => Found(h, t.key) /\ (DistinctKeys => Lookup(h, t.key) = t.it)
  BY <1>1 DEF ThreadInv
<1> HIDE DEF t
<1>4. t.back = "run" => p >= RUNNING
  BY <1>1 DEF ThreadInv, RUNNING
<1>5. t.pc # "start" =>
        \A j \in Own(w) : j <= NKeys /\ j < LoadedTo(t) => Found(h, KeySeq[j])
  BY <1>1 DEF ThreadInv
<1>6. ThreadInv(h, p, w, t)
  BY <1>1, <1>2, <1>3, <1>4, <1>5 DEF ThreadInv
<1> QED
  BY <1>6 DEF t

\* No key is lost by a step that leaves the table alone, or that puts an item.
LEMMA TableKeeps ==
  ASSUME NEW hp, NEW L, NEW V, NEW r, HeapInv(hp, L, V, r), NEW h, NEW M, NEW W, NEW q,
         HeapInv(h, M, W, q), KeepsItems(hp, h), SameTable(hp, h)
  PROVE  \A k : Lookup(h, k) = Lookup(hp, k) /\ (Found(hp, k) <=> Found(h, k))
BY SameLookup DEF Found

Ready(x) == {w \in Workers : HasLoaded(x[w])}

\* A step lets one thread more have loaded its keys, or none.
LEMMA ReadyChanges ==
  ASSUME NEW x, NEW y, NEW w \in Workers, \A v \in Workers : v # w => y[v] = x[v]
  PROVE  /\ (HasLoaded(x[w]) <=> HasLoaded(y[w])) => Cardinality(Ready(y)) = Cardinality(Ready(x))
         /\ ~HasLoaded(x[w]) /\ HasLoaded(y[w])
              => Cardinality(Ready(y)) = Cardinality(Ready(x)) + 1
<1> DEFINE S == Ready(x)
           T == Ready(y)
<1>1. /\ S \in SUBSET Workers /\ T \in SUBSET Workers /\ IsFiniteSet(Workers)
      /\ \A v \in Workers : v # w => (v \in S <=> v \in T)
      /\ w \in S <=> HasLoaded(x[w])
      /\ w \in T <=> HasLoaded(y[w])
  BY HeldType DEF Ready
<1> HIDE DEF S, T
<1>2. /\ (w \in S <=> w \in T) => Cardinality(T) = Cardinality(S)
      /\ w \notin S /\ w \in T => Cardinality(T) = Cardinality(S) + 1
  BY <1>1, SetMoves
<1> QED
  BY <1>1, <1>2 DEF S, T

\* The step of thread w, in the end.
LEMMA BenchStepKeeps ==
  ASSUME BenchInv, failed = "none", NEW w \in Workers, NEW z \in ThreadType,
         th' = [th EXCEPT ![w] = z], phase' = phase, KeepsItems(heap, heap'),
         \A k : Found(heap, k) => Found(heap', k),
         DistinctKeys => \A v \in Workers : v # w /\ th[v].pc = "check"
                           => Lookup(heap', th[v].key) = Lookup(heap, th[v].key),
         ia' \in [Workers -> AllocatorType], AllocatorsInv(ia'),
         \A v \in Workers : ia'[v].cleanup_queue = << >>,
         ReferencesInv', ThreadInv(heap', phase, w, z),
         \/ /\ HasLoaded(z) <=> HasLoaded(th[w])
            /\ init_count' = init_count
         \/ ~HasLoaded(th[w]) /\ HasLoaded(z) /\ init_count' = init_count + 1,
         DistinctKeys => failed' # "it == hasht_get"
  PROVE  BenchInv'
<1>1. /\ th \in [Workers -> ThreadType] /\ th' \in [Workers -> ThreadType] /\ th'[w] = z
      /\ \A v \in Workers : v # w => th'[v] = th[v]
  BY BenchFacts
<1>2. BenchTypeOK'
  BY <1>1, BenchFacts DEF BenchTypeOK
<1>3. \A v \in Workers : ThreadInv(heap', phase', v, th'[v])
  <2>1. ASSUME NEW v \in Workers, v # w
        PROVE  ThreadInv(heap', phase, v, th[v])
    <3>1. phase \in Int /\ phase >= phase
      BY BenchFacts
    <3> QED
      BY <2>1, <3>1, ThreadKeeps
  <2> QED
    BY <1>1, <2>1
<1>4. LoadInv'
  <2>1. /\ init_count = Cardinality(Ready(th))
        /\ phase >= RUNNING => \A v \in Workers : HasLoaded(th[v])
    BY BenchFacts DEF LoadInv, Ready
  <2>2. phase >= RUNNING => \A v \in Workers : HasLoaded(th'[v])
    BY <1>1, <2>1
  <2>3. init_count' = Cardinality(Ready(th'))
    BY <1>1, <2>1, ReadyChanges
  <2> QED
    BY <2>2, <2>3 DEF LoadInv, Ready
<1> QED
  BY <1>2, <1>3, <1>4 DEF BenchInv

\* The same of a step that touches neither the heap nor the references.
LEMMA LocalStepKeeps ==
  ASSUME BenchInv, failed = "none", NEW w \in Workers, NEW z \in ThreadType,
         th' = [th EXCEPT ![w] = z], phase' = phase, UNCHANGED <<heap, ia, failed>>,
         z.it = th[w].it, th[w].it = NULL, ThreadInv(heap, phase, w, z),
         \/ /\ HasLoaded(z) <=> HasLoaded(th[w])
            /\ init_count' = init_count
         \/ ~HasLoaded(th[w]) /\ HasLoaded(z) /\ init_count' = init_count + 1
  PROVE  BenchInv'
<1>1. /\ th'[w] = z /\ \A v \in Workers : v # w => th'[v] = th[v]
  BY BenchFacts
<1> DEFINE g == Grips(th)
           g2 == Grips(th')
<1>2. \A v \in Workers : g2[v].it = g[v].it /\ g2[v].nit = g[v].nit
  BY <1>1 DEF Grips
<1> HIDE DEF g, g2
<1>3. Held(g2, ia) = Held(g, ia)
  BY <1>2, HeldSame
<1>4. GripsInv(heap, ia, th)
  BY BenchFacts
<1>5. GripsInv(heap, ia, th')
  BY <1>3, <1>4 DEF GripsInv, g, g2
<1>6. ReferencesInv'
  BY <1>5 DEF ReferencesInv, GripsInv
<1>7. KeepsItems(heap, heap')
  BY KeepsSelf
<1>8. failed' # "it == hasht_get"
  OBVIOUS
<1> QED
  BY <1>6, <1>7, <1>8, BenchFacts, BenchStepKeeps

-----------------------------------------------------------------------------
(* The steps that leave the store alone.                                   *)

\* The first key of a thread is that of its number.
LEMMA StartsKeeps ==
  ASSUME BenchInv, failed = "none", NEW w \in Workers, Starts(w)
  PROVE  BenchInv'
<1> DEFINE t == th[w]
           z == [t EXCEPT !.pc = "load", !.i = w]
<1>1. /\ t \in ThreadType /\ ThreadInv(heap, phase, w, t) /\ th \in [Workers -> ThreadType]
  BY BenchFacts
<1>2. /\ t.pc = "start" /\ th' = [th EXCEPT ![w] = z]
      /\ UNCHANGED <<heap, ia, failed, phase, init_count>>
  BY <1>1 DEF Starts, vars
<1>3. w \in Own(w) /\ w \in Nat /\ \A j \in Own(w) : ~(j < w)
  <2>1. w \in Own(w) /\ Own(w) \subseteq Nat /\ \A j \in Own(w) : j >= w
    BY OwnFacts
  <2> QED
    BY <2>1
<1> HIDE DEF t
<1>4. /\ z \in ThreadType /\ z.pc = "load" /\ z.i = w /\ z.it = t.it /\ z.key = t.key
      /\ z.back = t.back
  BY <1>1, <1>3 DEF ThreadType
<1>5. t.it = NULL /\ t.back = "load"
  BY <1>1, <1>2 DEF ThreadInv, Having
<1> HIDE DEF z
<1>6. ThreadInv(heap, phase, w, z) /\ ~HasLoaded(t) /\ ~HasLoaded(z)
  BY <1>2, <1>3, <1>4, <1>5 DEF ThreadInv, Having, Requesting, LoadedTo, HasLoaded
<1> QED
  BY <1>2, <1>4, <1>5, <1>6, LocalStepKeeps DEF t

\* A thread sets the next of its keys, or has set them all and is counted.
LEMMA LoadsKeeps ==
  ASSUME BenchInv, failed = "none", NEW w \in Workers, Loads(w)
  PROVE  BenchInv'
<1> DEFINE t == th[w]
<1>1. /\ t \in ThreadType /\ ThreadInv(heap, phase, w, t) /\ th \in [Workers -> ThreadType]
  BY BenchFacts
<1>2. t.pc = "load" /\ UNCHANGED <<heap, ia, failed, phase>>
  BY DEF Loads, vars
<1>3. /\ t.it = NULL /\ t.back = "load" /\ t.i \in Own(w) /\ t.i \in Nat \ {0} /\ ~HasLoaded(t)
      /\ \A j \in Own(w) : j <= NKeys /\ j < t.i => Found(heap, KeySeq[j])
  <2>1. t.i \in Own(w)
    BY <1>1, <1>2 DEF ThreadInv
  <2>2. t.i \in Nat /\ t.i >= w /\ w \in Nat \ {0}
    BY <2>1, OwnFacts, Constants DEF Workers
  <2> HIDE DEF t
  <2>3. t.it = NULL /\ t.back = "load"
    BY <1>1, <1>2 DEF ThreadInv, Having
  <2>4. LoadedTo(t) = t.i
    BY <1>2 DEF LoadedTo
  <2>5. \A j \in Own(w) : j <= NKeys /\ j < t.i => Found(heap, KeySeq[j])
    BY <1>1, <1>2, <2>4 DEF ThreadInv
  <2> QED
    BY <1>2, <2>1, <2>2, <2>3, <2>5 DEF HasLoaded
<1>4. CASE t.i <= NKeys
  <2> DEFINE z == [t EXCEPT !.i = @ + NWorkers, !.pc = "look", !.op = "set",
                            !.key = KeySeq[t.i]]
  <2>1. th' = [th EXCEPT ![w] = z] /\ init_count' = init_count
    BY <1>1, <1>4 DEF Loads
  <2> HIDE DEF t
  <2>2. /\ t.i \in 1 .. NKeys /\ KeySeq[t.i] \in Keys /\ t.i + NWorkers \in Nat
        /\ t.i + NWorkers \in Own(w) /\ (t.i + NWorkers) - NWorkers = t.i
    BY <1>3, <1>4, BenchConstants, OwnFacts
  <2>3. /\ z \in ThreadType /\ z.pc = "look" /\ z.i = t.i + NWorkers /\ z.op = "set"
        /\ z.it = t.it /\ z.key = KeySeq[t.i] /\ z.back = t.back
    BY <1>1, <2>2 DEF ThreadType, Requesting
  <2> HIDE DEF z
  <2>4. LoadedTo(z) = t.i /\ ~HasLoaded(z)
    BY <1>3, <2>2, <2>3 DEF LoadedTo, HasLoaded
  <2>5. ThreadInv(heap, phase, w, z)
    BY <1>3, <1>4, <2>2, <2>3, <2>4 DEF ThreadInv, Having, Requesting
  <2> QED
    BY <1>2, <1>3, <2>1, <2>3, <2>4, <2>5, LocalStepKeeps DEF t
<1>5. CASE ~(t.i <= NKeys)
  <2> DEFINE z == [t EXCEPT !.pc = "ready"]
  <2>1. th' = [th EXCEPT ![w] = z] /\ init_count' = init_count + 1
    BY <1>1, <1>5 DEF Loads
  <2> HIDE DEF t
  <2>3. /\ z \in ThreadType /\ z.pc = "ready" /\ z.i = t.i
        /\ z.it = t.it /\ z.key = t.key /\ z.back = t.back
    BY <1>1 DEF ThreadType
  <2> HIDE DEF z
  <2>4. LoadedTo(z) = t.i /\ HasLoaded(z) /\ t.i > NKeys
    BY <1>3, <1>5, <2>3, BenchConstants DEF LoadedTo, HasLoaded
  <2>5. ThreadInv(heap, phase, w, z)
    BY <1>3, <2>3, <2>4 DEF ThreadInv, Having, Requesting
  <2> QED
    BY <1>2, <1>3, <2>1, <2>3, <2>4, <2>5, LocalStepKeeps DEF t
<1> QED
  BY <1>4, <1>5

\* A thread that has loaded its keys goes on to requests.
LEMMA WaitsToRunKeeps ==
  ASSUME BenchInv, failed = "none", NEW w \in Workers, WaitsToRun(w)
  PROVE  BenchInv'
<1> DEFINE t == th[w]
           z == [t EXCEPT !.pc = "run", !.back = "run"]
<1>1. /\ t \in ThreadType /\ ThreadInv(heap, phase, w, t) /\ th \in [Workers -> ThreadType]
  BY BenchFacts
<1>2. /\ t.pc = "ready" /\ phase >= RUNNING /\ th' = [th EXCEPT ![w] = z]
      /\ UNCHANGED <<heap, ia, failed, phase, init_count>>
  BY <1>1 DEF WaitsToRun, vars
<1> HIDE DEF t
<1>3. /\ z \in ThreadType /\ z.pc = "run" /\ z.i = t.i /\ z.it = t.it /\ z.key = t.key
      /\ z.back = "run"
  BY <1>1 DEF ThreadType
<1>4. t.it = NULL /\ t.back = "load" /\ HasLoaded(t)
  BY <1>1, <1>2 DEF ThreadInv, Having, HasLoaded
<1> HIDE DEF z
<1>5. HasLoaded(z) /\ LoadedTo(z) = t.i /\ LoadedTo(t) = t.i
  BY <1>2, <1>3, <1>4 DEF LoadedTo, HasLoaded
<1>6. ThreadInv(heap, phase, w, z)
  BY <1>1, <1>2, <1>3, <1>4, <1>5 DEF ThreadInv, Having, Requesting
<1> QED
  BY <1>2, <1>3, <1>4, <1>5, <1>6, LocalStepKeeps DEF t

\* A request is for a key that was drawn.
LEMMA SendsPendingKeeps ==
  ASSUME BenchInv, failed = "none", NEW w \in Workers, SendsPending(w)
  PROVE  BenchInv'
<1> DEFINE t == th[w]
<1>1. /\ t \in ThreadType /\ ThreadInv(heap, phase, w, t) /\ th \in [Workers -> ThreadType]
  BY BenchFacts
<1>2. PICK op \in {"get", "set"}, x \in Draws :
        th' = [th EXCEPT ![w].pc = "look", ![w].op = op, ![w].x = x, ![w].key = draw_key(x)]
  BY DEF SendsPending
<1> DEFINE z == [t EXCEPT !.pc = "look", !.op = op, !.x = x, !.key = draw_key(x)]
<1>3. /\ t.pc = "run" /\ th' = [th EXCEPT ![w] = z]
      /\ UNCHANGED <<heap, ia, failed, phase, init_count>>
  BY <1>1, <1>2 DEF SendsPending
<1>4. PICK j \in 1 .. NKeys : draw_key(x) = KeySeq[j]
  BY DrawsKey
<1>5. draw_key(x) \in Keys
  BY <1>4, BenchConstants
<1> HIDE DEF t
<1>6. /\ z \in ThreadType /\ z.pc = "look" /\ z.i = t.i /\ z.it = t.it
      /\ z.key = draw_key(x) /\ z.back = t.back
  BY <1>1, <1>5 DEF ThreadType, Requesting
<1>7. t.it = NULL /\ t.back = "run" /\ HasLoaded(t)
  BY <1>1, <1>3 DEF ThreadInv, Having, HasLoaded
<1> HIDE DEF z
<1>8. HasLoaded(z) /\ LoadedTo(z) = t.i /\ LoadedTo(t) = t.i
  BY <1>3, <1>6, <1>7 DEF LoadedTo, HasLoaded
<1>9. ThreadInv(heap, phase, w, z)
  BY <1>1, <1>3, <1>4, <1>6, <1>7, <1>8 DEF ThreadInv, Having, Requesting
<1> QED
  BY <1>3, <1>6, <1>7, <1>8, <1>9, LocalStepKeeps DEF t

\* A thread that ends has nothing in hand.
LEMMA EndsKeeps ==
  ASSUME BenchInv, failed = "none", NEW w \in Workers, Ends(w)
  PROVE  BenchInv'
<1> DEFINE t == th[w]
           z == [t EXCEPT !.pc = "end"]
<1>1. /\ t \in ThreadType /\ ThreadInv(heap, phase, w, t) /\ th \in [Workers -> ThreadType]
  BY BenchFacts
<1>2. /\ t.pc = "run" /\ th' = [th EXCEPT ![w] = z]
      /\ UNCHANGED <<heap, ia, failed, phase, init_count>>
  BY <1>1 DEF Ends, vars
<1> HIDE DEF t
<1>3. /\ z \in ThreadType /\ z.pc = "end" /\ z.i = t.i /\ z.it = t.it /\ z.key = t.key
      /\ z.back = t.back
  BY <1>1 DEF ThreadType
<1>4. t.it = NULL /\ t.back = "run" /\ HasLoaded(t)
  BY <1>1, <1>2 DEF ThreadInv, Having, HasLoaded
<1> HIDE DEF z
<1>5. HasLoaded(z) /\ LoadedTo(z) = t.i /\ LoadedTo(t) = t.i
  BY <1>2, <1>3, <1>4 DEF LoadedTo, HasLoaded
<1>6. ThreadInv(heap, phase, w, z)
  BY <1>1, <1>2, <1>3, <1>4, <1>5 DEF ThreadInv, Having, Requesting
<1> QED
  BY <1>2, <1>3, <1>4, <1>5, <1>6, LocalStepKeeps DEF t

-----------------------------------------------------------------------------
(* The steps of a request.                                                 *)

\* How many references thread t has to item a.
Weight(t, a) == (IF t.it = a THEN 1 ELSE 0) + (IF t.it = a /\ t.pc = "unref2" THEN 1 ELSE 0)

\* Only the references of thread w change.
LEMMA GripCounts ==
  ASSUME NEW x, NEW x2, NEW y, NEW w \in Workers, NEW a \in Addrs,
         \A v \in Workers : v # w => x2[v] = x[v]
  PROVE  /\ Held(Grips(x), y)[a] \in Nat /\ Held(Grips(x2), y)[a] \in Nat
         /\ Held(Grips(x2), y)[a] = Held(Grips(x), y)[a] + Weight(x2[w], a) - Weight(x[w], a)
<1> DEFINE g == Grips(x)
           g2 == Grips(x2)
           H == Holders(g, a)
           H2 == Holders(g2, a)
           C == Copiers(g, a)
           C2 == Copiers(g2, a)
<1>1. /\ a # NULL
      /\ \A v \in Workers : /\ g[v].it = x[v].it /\ g2[v].it = x2[v].it
                            /\ g[v].nit = IF x[v].pc = "unref2" THEN x[v].it ELSE NULL
                            /\ g2[v].nit = IF x2[v].pc = "unref2" THEN x2[v].it ELSE NULL
  BY Constants DEF Grips
<1> HIDE DEF g, g2
<1>2. /\ Held(g, y)[a] = Cardinality(H) + Cardinality(C) + Cardinality(Queued(y, a))
      /\ Held(g2, y)[a] = Cardinality(H2) + Cardinality(C2) + Cardinality(Queued(y, a))
      /\ Cardinality(H) \in Nat /\ Cardinality(C) \in Nat /\ Cardinality(Queued(y, a)) \in Nat
      /\ Cardinality(H2) \in Nat /\ Cardinality(C2) \in Nat
      /\ Held(g, y)[a] \in Nat /\ Held(g2, y)[a] \in Nat
  BY HeldType DEF Held
<1>3. /\ H \in SUBSET Workers /\ H2 \in SUBSET Workers /\ IsFiniteSet(Workers)
      /\ \A v \in Workers : v # w => (v \in H <=> v \in H2)
      /\ w \in H <=> x[w].it = a
      /\ w \in H2 <=> x2[w].it = a
  BY <1>1, HeldType DEF Holders
<1>4. /\ C \in SUBSET Workers /\ C2 \in SUBSET Workers
      /\ \A v \in Workers : v # w => (v \in C <=> v \in C2)
      /\ w \in C <=> x[w].it = a /\ x[w].pc = "unref2"
      /\ w \in C2 <=> x2[w].it = a /\ x2[w].pc = "unref2"
  BY <1>1, HeldType DEF Copiers
<1> HIDE DEF H, H2, C, C2
<1>5. /\ (w \in H <=> w \in H2) => Cardinality(H2) = Cardinality(H)
      /\ w \notin H /\ w \in H2 => Cardinality(H2) = Cardinality(H) + 1
      /\ w \in H /\ w \notin H2 => Cardinality(H2) = Cardinality(H) - 1
  BY <1>3, SetMoves
<1>6. /\ (w \in C <=> w \in C2) => Cardinality(C2) = Cardinality(C)
      /\ w \notin C /\ w \in C2 => Cardinality(C2) = Cardinality(C) + 1
      /\ w \in C /\ w \notin C2 => Cardinality(C2) = Cardinality(C) - 1
  BY <1>3, <1>4, SetMoves
<1> DEFINE h == IF x[w].it = a THEN 1 ELSE 0
           h2 == IF x2[w].it = a THEN 1 ELSE 0
           c == IF x[w].it = a /\ x[w].pc = "unref2" THEN 1 ELSE 0
           c2 == IF x2[w].it = a /\ x2[w].pc = "unref2" THEN 1 ELSE 0
<1>7. Cardinality(H2) = Cardinality(H) + h2 - h
  BY <1>2, <1>3, <1>5
<1>8. Cardinality(C2) = Cardinality(C) + c2 - c
  BY <1>2, <1>4, <1>6
<1>9. Weight(x[w], a) = h + c /\ Weight(x2[w], a) = h2 + c2 /\ {h, h2, c, c2} \subseteq Int
  BY DEF Weight
<1> HIDE DEF h, h2, c, c2
<1>10. Held(g2, y)[a] = Held(g, y)[a] + Weight(x2[w], a) - Weight(x[w], a)
  BY <1>2, <1>7, <1>8, <1>9
<1> QED
  BY <1>2, <1>10 DEF g, g2

OneMore(x, x2, y, a) == Held(Grips(x2), y) = [Held(Grips(x), y) EXCEPT ![a] = @ + 1]
OneLess(x, x2, y, a) == Held(Grips(x2), y) = [Held(Grips(x), y) EXCEPT ![a] = @ - 1]

\* How they change with the item and the place of thread w.
LEMMA GripChanges ==
  ASSUME NEW x, NEW x2, NEW y, NEW w \in Workers, NEW a \in Addrs,
         \A v \in Workers : v # w => x2[v] = x[v],
         x[w].it \in {NULL, a}, x2[w].it \in {NULL, a}
  PROVE  /\ Weight(x2[w], a) = Weight(x[w], a) + 1 => OneMore(x, x2, y, a)
         /\ Weight(x2[w], a) = Weight(x[w], a) - 1 => OneLess(x, x2, y, a)
<1> DEFINE m == Weight(x[w], a)
           n == Weight(x2[w], a)
           r == Held(Grips(x), y)
           q == Held(Grips(x2), y)
<1>1. r \in [Addrs -> Nat] /\ q \in [Addrs -> Nat]
  BY HeldType
<1>2. q[a] = r[a] + n - m
  BY GripCounts
<1>3. m \in Int /\ n \in Int
  BY DEF Weight
<1>4. ASSUME NEW b \in Addrs, b # a
      PROVE  q[b] = r[b]
  <2>1. q[b] = r[b] + Weight(x2[w], b) - Weight(x[w], b) /\ r[b] \in Nat
    BY GripCounts
  <2>2. Weight(x2[w], b) = 0 /\ Weight(x[w], b) = 0
    BY <1>4, Constants DEF Weight
  <2> QED
    BY <2>1, <2>2
<1> HIDE DEF m, n, r, q
<1>5. ASSUME n = m + 1
      PROVE  q = [r EXCEPT ![a] = @ + 1]
  BY <1>1, <1>2, <1>3, <1>4, <1>5
<1>6. ASSUME n = m - 1
      PROVE  q = [r EXCEPT ![a] = @ - 1]
  BY <1>1, <1>2, <1>3, <1>4, <1>6
<1> QED
  BY <1>5, <1>6 DEF m, n, r, q, OneMore, OneLess

\* Threads that keep their items keep their references.
LEMMA GripsSame ==
  ASSUME NEW x, NEW x2, NEW y, NEW y2,
         \A v \in Workers : /\ y2[v].cleanup_queue = y[v].cleanup_queue
                            /\ x2[v].it = x[v].it
                            /\ x[v].pc = "unref2" <=> x2[v].pc = "unref2"
  PROVE  Held(Grips(x2), y2) = Held(Grips(x), y)
<1> DEFINE g == Grips(x)
           g2 == Grips(x2)
<1>1. \A v \in Workers : g2[v].it = g[v].it /\ g2[v].nit = g[v].nit
  BY DEF Grips
<1> HIDE DEF g, g2
<1>2. Held(g2, y2) = Held(g, y)
  BY <1>1, HeldSame
<1> QED
  BY <1>2 DEF g, g2

\* What a lookup finds is alive.
LEMMA FoundAlive ==
  ASSUME NEW hp, NEW L, NEW V, NEW r, HeapInv(hp, L, V, r), NEW k, Lookup(hp, k) # NULL
  PROVE  /\ Lookup(hp, k) \in DOMAIN hp.items /\ hp.items[Lookup(hp, k)].refcount > 0
         /\ Lookup(hp, k) \in Addrs /\ KeyAt(hp, Lookup(hp, k)) = k
<1>1. hp \in HeapType /\ TableInv(hp)
  BY DEF HeapInv
<1>2. InTable(hp, Lookup(hp, k)) /\ KeyAt(hp, Lookup(hp, k)) = k /\ Lookup(hp, k) \in DOMAIN hp.items
  BY <1>1, LookupFinds
<1> QED
  BY <1>1, <1>2, HeapFacts, HeapFields

\* When the measurement runs every key has been loaded.
LEMMA AllFound ==
  ASSUME BenchInv, phase >= RUNNING, NEW j \in 1 .. NKeys
  PROVE  Found(heap, KeySeq[j])
<1>1. PICK w \in Workers : j \in Own(w)
  BY OwnedByOne
<1> DEFINE t == th[w]
<1>2. HasLoaded(t) /\ ThreadInv(heap, phase, w, t) /\ t \in ThreadType
  BY DEF BenchInv, LoadInv, BenchTypeOK
<1> HIDE DEF t
<1>3. t.i > NKeys /\ LoadedTo(t) = t.i /\ t.pc # "start" /\ t.i \in Nat
  BY <1>2 DEF ThreadInv, HasLoaded, LoadedTo, ThreadType
<1>4. j <= NKeys /\ j < LoadedTo(t)
  BY <1>3, BenchConstants
<1> QED
  BY <1>1, <1>2, <1>3, <1>4 DEF ThreadInv

\* The key of a request that loads is the last one of its thread.
LEMMA LoadedNext ==
  ASSUME NEW hp, NEW p, NEW w \in Workers, NEW t \in ThreadType, ThreadInv(hp, p, w, t),
         t.pc \in Requesting, NEW h, \A k : Found(hp, k) => Found(h, k), Found(h, t.key)
  PROVE  \A j \in Own(w) : j <= NKeys /\ j < t.i => Found(h, KeySeq[j])
<1>1. t.pc # "start" /\ t.back \in {"load", "run"} /\ t.i \in Nat
  BY DEF Requesting, ThreadType
<1>2. CASE t.back = "run"
  <2>1. LoadedTo(t) = t.i
    BY <1>2 DEF LoadedTo
  <2> QED
    BY <1>1, <2>1 DEF ThreadInv
<1>3. CASE t.back = "load"
  <2> DEFINE n == t.i - NWorkers
  <2>1. n \in Own(w) /\ n <= NKeys /\ t.key = KeySeq[n] /\ LoadedTo(t) \in {n, t.i}
    BY <1>3 DEF ThreadInv, LoadedTo
  <2>2. n \in Nat /\ t.i = n + NWorkers /\ NWorkers \in Nat
    BY <1>1, <2>1, OwnFacts, BenchConstants
  <2> HIDE DEF n
  <2>3. ASSUME NEW j \in Own(w), j <= NKeys, j < t.i
        PROVE  Found(h, KeySeq[j])
    <3>1. j \in Nat /\ j <= n
      BY <2>1, <2>2, <2>3, OwnFacts
    <3>2. CASE j = n
      BY <2>1, <3>2
    <3>3. CASE j # n
      <4>1. j < n /\ j < LoadedTo(t)
        BY <2>1, <2>2, <2>3, <3>1, <3>3
      <4> QED
        BY <1>1, <2>3, <4>1 DEF ThreadInv
    <3> QED
      BY <3>2, <3>3
  <2> QED
    BY <2>3
<1> QED
  BY <1>1, <1>2, <1>3

\* An item is found, or it is missing, which it can be only while it is loaded.
LEMMA LooksKeeps ==
  ASSUME BenchInv, failed = "none", NEW w \in Workers, Looks(w)
  PROVE  BenchInv'
<1> DEFINE t == th[w]
           it == Lookup(heap, t.key)
           r == Held(Grips(th), ia)
<1>1. /\ t \in ThreadType /\ ThreadInv(heap, phase, w, t) /\ th \in [Workers -> ThreadType]
      /\ HeapInv(heap, Logs(ia), Reserves(ia), r) /\ t.i \in Nat
  BY BenchFacts DEF GripsInv
<1>2. /\ t.pc = "look" /\ UNCHANGED <<ia, failed, phase, init_count>>
      /\ heap' = IF it = NULL THEN heap ELSE item_ref(heap, it)
      /\ th' = [th EXCEPT ![w].it = it,
                          ![w].pc = IF it # NULL THEN "unref"
                                    ELSE IF t.op = "set" THEN "alloc" ELSE t.back]
  BY DEF Looks
<1> HIDE DEF it, r
<1>3. t.it = NULL /\ ~(t.pc = "ready")
  BY <1>1, <1>2 DEF ThreadInv, Having
<1>4. PICK j \in 1 .. NKeys : t.key = KeySeq[j]
  BY <1>1, <1>2 DEF ThreadInv, Requesting
<1>5. CASE it = NULL
  <2> DEFINE z == [t EXCEPT !.pc = "alloc"]
  <2>1. t.back = "load"
    <3>1. CASE t.back = "run"
      <4>1. phase >= RUNNING
        BY <1>1, <3>1 DEF ThreadInv
      <4> QED
        BY <1>4, <1>5, <4>1, AllFound DEF Found, it
    <3> QED
      BY <1>1, <3>1 DEF ThreadType
  <2>2. t.op = "set"
    BY <1>1, <1>2, <2>1 DEF ThreadInv, Requesting
  <2>3. th' = [th EXCEPT ![w] = z]
    <3>1. th' = [th EXCEPT ![w] = [t EXCEPT !.it = it, !.pc = "alloc"]]
      BY <1>1, <1>2, <1>5, <2>2
    <3>2. [t EXCEPT !.it = it, !.pc = "alloc"] = z
      BY <1>1, <1>3, <1>5 DEF ThreadType
    <3> QED
      BY <3>1, <3>2
  <2> HIDE DEF t
  <2>4. /\ z \in ThreadType /\ z.pc = "alloc" /\ z.i = t.i /\ z.it = t.it /\ z.key = t.key
        /\ z.back = t.back /\ z.op = t.op
    BY <1>1 DEF ThreadType, Requesting
  <2> HIDE DEF z
  <2>5. /\ HasLoaded(z) <=> HasLoaded(t)
        /\ LoadedTo(z) = LoadedTo(t)
    BY <1>2, <2>1, <2>4 DEF LoadedTo, HasLoaded
  <2>6. ThreadInv(heap, phase, w, z)
    BY <1>1, <1>2, <1>3, <2>1, <2>4, <2>5 DEF ThreadInv, Having, Requesting
  <2> QED
    BY <1>2, <1>3, <1>5, <2>3, <2>4, <2>5, <2>6, LocalStepKeeps DEF t
<1>6. CASE it # NULL
  <2> DEFINE z == [t EXCEPT !.it = it, !.pc = "unref"]
  <2>1. th' = [th EXCEPT ![w] = z] /\ heap' = item_ref(heap, it)
    BY <1>1, <1>2, <1>6
  <2>2. it \in DOMAIN heap.items /\ heap.items[it].refcount > 0 /\ it \in Addrs /\ KeyAt(heap, it) = t.key
    BY <1>1, <1>6, FoundAlive DEF it
  <2>3. /\ HeapInv(heap', Logs(ia), Reserves(ia), [r EXCEPT ![it] = @ + 1])
        /\ KeepsItems(heap, heap') /\ SameTable(heap, heap') /\ SameItem(heap, heap', it)
    BY <1>1, <2>1, <2>2, RefKeeps
  <2>4. \A k : Lookup(heap', k) = Lookup(heap, k) /\ (Found(heap, k) <=> Found(heap', k))
    BY <1>1, <2>3, TableKeeps
  <2> HIDE DEF t
  <2>5. /\ z \in ThreadType /\ z.pc = "unref" /\ z.i = t.i /\ z.it = it /\ z.key = t.key
        /\ z.back = t.back /\ z.op = t.op
    BY <1>1, <2>2 DEF ThreadType, Requesting, AddrOrNull
  <2> HIDE DEF z
  <2>6. /\ th'[w] = z /\ \A v \in Workers : v # w => th'[v] = th[v]
    BY <1>1, <2>1, <2>5
  <2>7. Held(Grips(th'), ia) = [r EXCEPT ![it] = @ + 1]
    <3>1. Weight(th[w], it) = 0 /\ Weight(th'[w], it) = 1
      BY <1>3, <1>6, <2>5, <2>6 DEF Weight, t
    <3>2. /\ Weight(th'[w], it) = Weight(th[w], it) + 1
          /\ th[w].it \in {NULL, it} /\ th'[w].it \in {NULL, it}
      BY <1>3, <2>5, <2>6, <3>1 DEF t
    <3>3. OneMore(th, th', ia, it)
      BY <2>2, <2>6, <3>2, GripChanges
    <3> QED
      BY <3>3 DEF OneMore, r
  <2>8. GripsInv(heap', ia, th')
    BY <2>3, <2>7 DEF GripsInv
  <2>9. ReferencesInv'
    BY <1>2, <2>8 DEF ReferencesInv, GripsInv
  <2>10. /\ HasLoaded(z) <=> HasLoaded(t)
         /\ LoadedTo(z) = t.i
    BY <1>2, <2>5 DEF LoadedTo, HasLoaded
  <2>11. \A j2 \in Own(w) : j2 <= NKeys /\ j2 < t.i => Found(heap', KeySeq[j2])
    <3>1. t.pc \in Requesting
      BY <1>2 DEF Requesting
    <3>2. Found(heap', t.key) /\ \A k : Found(heap, k) => Found(heap', k)
      BY <1>6, <2>4 DEF it, Found
    <3> QED
      BY <1>1, <3>1, <3>2, LoadedNext
  <2>12. KeyAt(heap', it) = t.key
    BY <2>2, <2>3 DEF SameItem, KeyAt
  <2>13. ThreadInv(heap', phase, w, z)
    BY <1>1, <1>2, <1>6, <2>5, <2>10, <2>11, <2>12 DEF ThreadInv, Having, Requesting
  <2> QED
    BY <1>2, <2>1, <2>3, <2>4, <2>5, <2>9, <2>10, <2>13, BenchFacts, BenchStepKeeps DEF t
<1> QED
  BY <1>5, <1>6

\* The item of a request is allocated, or the process stops.
LEMMA AllocatesKeeps ==
  ASSUME BenchInv, failed = "none", NEW w \in Workers, Allocates(w)
  PROVE  BenchInv'
<1> DEFINE t == th[w]
           x == ialloc_alloc(heap, ia[w], t.key, NULL, FALSE)
           y == [ia EXCEPT ![w] = x.ia]
           r == Held(Grips(th), ia)
<1>1. /\ t \in ThreadType /\ ThreadInv(heap, phase, w, t) /\ th \in [Workers -> ThreadType]
      /\ HeapInv(heap, Logs(ia), Reserves(ia), r) /\ t.i \in Nat /\ LoadInv
      /\ ia \in [Workers -> AllocatorType] /\ AllocatorsInv(ia)
      /\ \A v \in Workers : ia[v].cleanup_queue = << >>
  BY BenchFacts DEF GripsInv
<1>2. /\ t.pc = "alloc" /\ UNCHANGED <<phase, init_count>> /\ heap' = x.heap /\ ia' = y
      /\ IF x.it = NULL THEN failed' = "item is NULL" /\ UNCHANGED th
         ELSE th' = [th EXCEPT ![w].it = x.it, ![w].pc = "put"] /\ UNCHANGED failed
  BY DEF Allocates
<1>3. t.it = NULL /\ t.back = "load"
  BY <1>1, <1>2 DEF ThreadInv, Having
<1>4. t.key \in Keys
  <2>1. PICK j \in 1 .. NKeys : t.key = KeySeq[j]
    BY <1>1, <1>2 DEF ThreadInv, Requesting
  <2> QED
    BY <2>1, BenchConstants
<1>5. /\ KeepsItems(heap, x.heap) /\ SameTable(heap, x.heap)
      /\ y \in [Workers -> AllocatorType] /\ AllocatorsInv(y)
      /\ \A u \in Workers : y[u].cleanup_queue = ia[u].cleanup_queue
      /\ \/ x.it = NULL /\ HeapInv(x.heap, Logs(y), Reserves(y), r)
         \/ Placed(x.heap, Logs(y), Reserves(y), r, x.it, t.key, NULL)
  <2>1. NULL \in Vals \cup {NULL} /\ FALSE \in BOOLEAN
    OBVIOUS
  <2>2. Allocating(r, w, t.key, NULL, FALSE)
    BY <1>1, <1>4, <2>1, AllocatingDoes
  <2> QED
    BY <2>2 DEF Allocating
<1> HIDE DEF x, y, r
<1>6. \A v \in Workers : y[v].cleanup_queue = << >>
  BY <1>1, <1>5
<1>7. \A k : Lookup(x.heap, k) = Lookup(heap, k) /\ (Found(heap, k) <=> Found(x.heap, k))
  <2>1. CASE x.it = NULL /\ HeapInv(x.heap, Logs(y), Reserves(y), r)
    BY <1>1, <1>5, <2>1, TableKeeps
  <2>2. CASE Placed(x.heap, Logs(y), Reserves(y), r, x.it, t.key, NULL)
    <3>1. HeapInv(x.heap, Logs(y), Reserves(y), [r EXCEPT ![x.it] = 1])
      BY <2>2 DEF Placed
    <3> QED
      BY <1>1, <1>5, <3>1, TableKeeps
  <2> QED
    BY <1>5, <2>1, <2>2
<1>8. CASE x.it = NULL
  <2>1. th' = [th EXCEPT ![w] = t] /\ failed' = "item is NULL"
    BY <1>1, <1>2, <1>8
  <2>2. HeapInv(x.heap, Logs(y), Reserves(y), r)
    BY <1>5, <1>8, Constants DEF Placed
  <2>3. Held(Grips(th'), y) = r
    <3>1. th' = th
      BY <1>2, <1>8
    <3>2. \A v \in Workers : /\ y[v].cleanup_queue = ia[v].cleanup_queue
                             /\ th'[v].it = th[v].it
                             /\ th[v].pc = "unref2" <=> th'[v].pc = "unref2"
      BY <1>5, <3>1
    <3>3. Held(Grips(th'), y) = Held(Grips(th), ia)
      BY <3>2, GripsSame
    <3> QED
      BY <3>3 DEF r
  <2>4. GripsInv(heap', ia', th')
    BY <1>2, <2>2, <2>3 DEF GripsInv
  <2>5. ReferencesInv'
    BY <2>4 DEF ReferencesInv, GripsInv
  <2>6. ThreadInv(heap', phase, w, t)
    <3>1. phase \in Int /\ phase >= phase
      BY BenchFacts
    <3> QED
      BY <1>2, <1>5, <1>7, <3>1, ThreadKeeps
  <2>7. \A v \in Workers : v # w /\ th[v].pc = "check"
                           => Lookup(heap', th[v].key) = Lookup(heap, th[v].key)
    BY <1>2, <1>7
  <2> QED
    BY <1>1, <1>2, <1>5, <1>6, <1>7, <2>1, <2>5, <2>6, <2>7, BenchStepKeeps
<1>9. CASE x.it # NULL
  <2> DEFINE z == [t EXCEPT !.it = x.it, !.pc = "put"]
  <2>1. th' = [th EXCEPT ![w] = z] /\ failed' = failed
    BY <1>1, <1>2, <1>9
  <2>2. /\ x.it \in Addrs /\ r[x.it] = 0 /\ x.heap.items[x.it] = Item(t.key, NULL)
        /\ HeapInv(x.heap, Logs(y), Reserves(y), [r EXCEPT ![x.it] = 1])
    BY <1>5, <1>9 DEF Placed
  <2> HIDE DEF t
  <2>3. /\ z \in ThreadType /\ z.pc = "put" /\ z.i = t.i /\ z.it = x.it /\ z.key = t.key
        /\ z.back = t.back /\ z.op = t.op
    BY <1>1, <2>2 DEF ThreadType, Requesting, AddrOrNull
  <2> HIDE DEF z
  <2>4. /\ th'[w] = z /\ \A v \in Workers : v # w => th'[v] = th[v]
    BY <1>1, <2>1, <2>3
  <2>5. Held(Grips(th'), y) = [r EXCEPT ![x.it] = 1]
    <3>1. Weight(th[w], x.it) = 0 /\ Weight(th'[w], x.it) = 1
      BY <1>3, <1>9, <2>3, <2>4 DEF Weight, t
    <3>2. /\ Weight(th'[w], x.it) = Weight(th[w], x.it) + 1
          /\ th[w].it \in {NULL, x.it} /\ th'[w].it \in {NULL, x.it}
      BY <1>3, <2>3, <2>4, <3>1 DEF t
    <3>3. OneMore(th, th', ia, x.it)
      BY <2>2, <2>4, <3>2, GripChanges
    <3>4. Held(Grips(th'), ia) = [r EXCEPT ![x.it] = @ + 1]
      BY <3>3 DEF OneMore, r
    <3>5. Held(Grips(th'), y) = Held(Grips(th'), ia)
      BY <1>5, GripsSame
    <3>6. r \in [Addrs -> Nat]
      BY HeldType DEF r
    <3>7. [r EXCEPT ![x.it] = @ + 1] = [r EXCEPT ![x.it] = 1]
      BY <2>2, <3>6
    <3> QED
      BY <3>4, <3>5, <3>7
  <2>6. GripsInv(heap', ia', th')
    BY <1>2, <2>2, <2>5 DEF GripsInv
  <2>7. ReferencesInv'
    BY <2>6 DEF ReferencesInv, GripsInv
  <2>8. /\ HasLoaded(z) <=> HasLoaded(t)
        /\ LoadedTo(z) = LoadedTo(t)
    BY <1>2, <1>3, <2>3 DEF LoadedTo, HasLoaded
  <2>9. KeyAt(heap', x.it) = t.key
    <3>1. Item(t.key, NULL).key = t.key
      BY DEF Item
    <3>2. heap'.items[x.it] = Item(t.key, NULL)
      BY <1>2, <2>2
    <3> QED
      BY <3>1, <3>2 DEF KeyAt
  <2>10. ThreadInv(heap', phase, w, z)
    <3>1. \A j \in Own(w) : j <= NKeys /\ j < LoadedTo(z) => Found(heap', KeySeq[j])
      BY <1>1, <1>2, <1>7, <2>8 DEF ThreadInv
    <3> QED
      BY <1>1, <1>2, <1>3, <1>9, <2>3, <2>8, <2>9, <3>1 DEF ThreadInv, Having, Requesting
  <2>11. \A v \in Workers : v # w /\ th[v].pc = "check"
                            => Lookup(heap', th[v].key) = Lookup(heap, th[v].key)
    BY <1>2, <1>7
  <2>12. \A k : Found(heap, k) => Found(heap', k)
    BY <1>2, <1>7
  <2> QED
    BY <1>2, <1>5, <1>6, <2>1, <2>3, <2>7, <2>8, <2>10, <2>11, <2>12, BenchStepKeeps DEF t
<1> QED
  BY <1>8, <1>9

\* Two threads that are loading load different keys, if keys are distinct.
LEMMA OtherKey ==
  ASSUME BenchInv, failed = "none", DistinctKeys, NEW v \in Workers, NEW w \in Workers, v # w,
         th[v].pc \in {"put", "check"}, th[w].pc \in {"put", "check"}
  PROVE  th[v].key # th[w].key
<1>1. ASSUME NEW u \in {v, w}
      PROVE  \E j \in 1 .. NKeys : j \in Own(u) /\ th[u].key = KeySeq[j]
  <2> DEFINE t == th[u]
             n == t.i - NWorkers
  <2>1. u \in Workers /\ t.pc \in {"put", "check"}
    OBVIOUS
  <2>2. ThreadInv(heap, phase, u, t)
    BY <2>1, BenchFacts
  <2> HIDE DEF t
  <2>3. n \in Own(u) /\ n <= NKeys /\ t.key = KeySeq[n]
    BY <2>1, <2>2 DEF ThreadInv, Requesting
  <2>4. n \in Nat /\ n >= u /\ u \in Nat \ {0}
    BY <2>1, <2>3, OwnFacts, Constants DEF Workers
  <2> HIDE DEF n
  <2>5. n \in 1 .. NKeys
    BY <2>3, <2>4, BenchConstants
  <2> QED
    BY <2>3, <2>5 DEF t
<1>2. PICK i \in 1 .. NKeys : i \in Own(v) /\ th[v].key = KeySeq[i]
  BY <1>1
<1>3. PICK j \in 1 .. NKeys : j \in Own(w) /\ th[w].key = KeySeq[j]
  BY <1>1
<1> QED
  BY <1>2, <1>3, OwnedByOne DEF DistinctKeys

\* The item becomes that of its key.
LEMMA PutsKeeps ==
  ASSUME BenchInv, failed = "none", NEW w \in Workers, Puts(w)
  PROVE  BenchInv'
<1> DEFINE t == th[w]
           a == t.it
           r == Held(Grips(th), ia)
           z == [t EXCEPT !.pc = "check"]
<1>1. /\ t \in ThreadType /\ ThreadInv(heap, phase, w, t) /\ th \in [Workers -> ThreadType]
      /\ HeapInv(heap, Logs(ia), Reserves(ia), r) /\ t.i \in Nat
  BY BenchFacts DEF GripsInv
<1>2. /\ t.pc = "put" /\ UNCHANGED <<ia, failed, phase, init_count>>
      /\ heap' = hasht_put(heap, a, NULL) /\ th' = [th EXCEPT ![w] = z]
  BY <1>1 DEF Puts
<1>3. a # NULL /\ t.back = "load" /\ KeyAt(heap, a) = t.key
  BY <1>1, <1>2 DEF ThreadInv, Having
<1>4. /\ a \in Addrs /\ a \in DOMAIN heap.items /\ heap.items[a].refcount > 0 /\ r[a] # 0
  BY <1>3, GripHolds
<1> HIDE DEF r
<1>5. /\ HeapInv(heap', Logs(ia), Reserves(ia), r)
      /\ \A b \in DOMAIN heap.items : SameItem(heap, heap', b)
      /\ Replaces(heap, heap', a)
  BY <1>1, <1>2, <1>4, PutKeeps
<1>6. KeepsItems(heap, heap')
  BY <1>5 DEF KeepsItems
<1>7. \A k : /\ k = t.key => Lookup(heap', k) = a
             /\ k # t.key => Lookup(heap', k) = Lookup(heap, k)
  BY <1>1, <1>3, <1>4, <1>5, <1>6, PutLookup
<1>8. Found(heap', t.key) /\ \A k : Found(heap, k) => Found(heap', k)
  BY <1>3, <1>7 DEF Found
<1>9. DistinctKeys => \A v \in Workers : v # w /\ th[v].pc = "check"
                        => Lookup(heap', th[v].key) = Lookup(heap, th[v].key)
  <2>1. ASSUME DistinctKeys, NEW v \in Workers, v # w, th[v].pc = "check"
        PROVE  th[v].key # t.key
    BY <1>2, <2>1, OtherKey
  <2> QED
    BY <1>7, <2>1
<1>10. \A j \in Own(w) : j <= NKeys /\ j < t.i => Found(heap', KeySeq[j])
  <2>1. t.pc \in Requesting
    BY <1>2 DEF Requesting
  <2> QED
    BY <1>1, <1>8, <2>1, LoadedNext
<1>11. KeyAt(heap', a) = t.key /\ Lookup(heap', t.key) = a
  BY <1>3, <1>4, <1>5, <1>7 DEF SameItem, KeyAt
<1> HIDE DEF t
<1>12. /\ z \in ThreadType /\ z.pc = "check" /\ z.i = t.i /\ z.it = a /\ z.key = t.key
       /\ z.back = t.back /\ z.op = t.op
  BY <1>1 DEF ThreadType, Requesting
<1> HIDE DEF z
<1>13. /\ th'[w] = z /\ \A v \in Workers : v # w => th'[v] = th[v]
  BY <1>1, <1>2, <1>12
<1>14. GripsInv(heap', ia', th')
  <2>1. \A v \in Workers : /\ ia[v].cleanup_queue = ia[v].cleanup_queue
                           /\ th'[v].it = th[v].it
                           /\ th[v].pc = "unref2" <=> th'[v].pc = "unref2"
    BY <1>2, <1>12, <1>13 DEF t
  <2>2. Held(Grips(th'), ia) = r
    BY <2>1, GripsSame DEF r
  <2> QED
    BY <1>2, <1>5, <2>2 DEF GripsInv
<1>15. ReferencesInv'
  BY <1>14 DEF ReferencesInv, GripsInv
<1>16. /\ HasLoaded(z) <=> HasLoaded(t)
       /\ LoadedTo(z) = t.i
  BY <1>2, <1>12 DEF LoadedTo, HasLoaded
<1>17. ThreadInv(heap', phase, w, z)
  BY <1>1, <1>2, <1>3, <1>8, <1>10, <1>11, <1>12, <1>16 DEF ThreadInv, Having, Requesting
<1> QED
  BY <1>2, <1>6, <1>8, <1>9, <1>12, <1>15, <1>16, <1>17, BenchFacts, BenchStepKeeps DEF t

\* The assertion takes a reference, to the item of the thread or, when it
\* fails, to another one.
LEMMA ChecksKeeps ==
  ASSUME BenchInv, failed = "none", NEW w \in Workers, Checks(w)
  PROVE  BenchInv'
<1> DEFINE t == th[w]
           it == Lookup(heap, t.key)
           r == Held(Grips(th), ia)
           z == [t EXCEPT !.pc = "unref2"]
<1>1. /\ t \in ThreadType /\ ThreadInv(heap, phase, w, t) /\ th \in [Workers -> ThreadType]
      /\ HeapInv(heap, Logs(ia), Reserves(ia), r) /\ t.i \in Nat
  BY BenchFacts DEF GripsInv
<1>2. /\ t.pc = "check" /\ UNCHANGED <<ia, phase, init_count>>
      /\ heap' = item_ref(heap, it) /\ th' = [th EXCEPT ![w] = z]
      /\ failed' = IF it = t.it THEN failed ELSE "it == hasht_get"
  BY <1>1 DEF Checks
<1>3. /\ it # NULL /\ t.it # NULL /\ t.back = "load" /\ KeyAt(heap, t.it) = t.key
      /\ DistinctKeys => it = t.it
  BY <1>1, <1>2 DEF ThreadInv, Having, Found
<1>4. it \in DOMAIN heap.items /\ heap.items[it].refcount > 0 /\ it \in Addrs
  BY <1>1, <1>3, FoundAlive
<1> HIDE DEF it, r
<1>5. /\ HeapInv(heap', Logs(ia), Reserves(ia), [r EXCEPT ![it] = @ + 1])
      /\ KeepsItems(heap, heap') /\ SameTable(heap, heap')
  BY <1>1, <1>2, <1>4, RefKeeps
<1>6. \A k : Lookup(heap', k) = Lookup(heap, k) /\ (Found(heap, k) <=> Found(heap', k))
  BY <1>1, <1>5, TableKeeps
<1>7. t.it \in DOMAIN heap.items /\ heap.items[t.it].refcount > 0
  BY <1>3, GripHolds
<1>8. KeyAt(heap', t.it) = t.key
  BY <1>3, <1>5, <1>7 DEF KeepsItems, SameItem, KeyAt
<1> HIDE DEF t
<1>9. /\ z \in ThreadType /\ z.pc = "unref2" /\ z.i = t.i /\ z.it = t.it /\ z.key = t.key
      /\ z.back = t.back /\ z.op = t.op
  BY <1>1 DEF ThreadType, Requesting
<1> HIDE DEF z
<1>10. /\ th'[w] = z /\ \A v \in Workers : v # w => th'[v] = th[v]
  BY <1>1, <1>2, <1>9
<1>11. ReferencesInv'
  <2>1. CASE it = t.it
    <3>1. Weight(th[w], it) = 1 /\ Weight(th'[w], it) = 2
      BY <1>2, <1>9, <1>10, <2>1 DEF Weight, t
    <3>2. /\ Weight(th'[w], it) = Weight(th[w], it) + 1
          /\ th[w].it \in {NULL, it} /\ th'[w].it \in {NULL, it}
      BY <1>9, <1>10, <2>1, <3>1 DEF t
    <3>3. OneMore(th, th', ia, it)
      BY <1>4, <1>10, <3>2, GripChanges
    <3>4. GripsInv(heap', ia', th')
      BY <1>2, <1>5, <3>3 DEF OneMore, r, GripsInv
    <3> QED
      BY <3>4 DEF ReferencesInv, GripsInv
  <2>2. CASE it # t.it
    <3>1. failed' = "it == hasht_get"
      BY <1>2, <2>2
    <3>2. HeapInv(heap', Logs(ia'), Reserves(ia'), [r EXCEPT ![it] = @ + 1])
      BY <1>2, <1>5
    <3> QED
      BY <3>1, <3>2 DEF ReferencesInv
  <2> QED
    BY <2>1, <2>2
<1>12. /\ HasLoaded(z) <=> HasLoaded(t)
       /\ LoadedTo(z) = t.i /\ LoadedTo(t) = t.i
  BY <1>2, <1>9 DEF LoadedTo, HasLoaded
<1>13. ThreadInv(heap', phase, w, z)
  <2>1. \A j \in Own(w) : j <= NKeys /\ j < LoadedTo(z) => Found(heap', KeySeq[j])
    BY <1>1, <1>2, <1>6, <1>12 DEF ThreadInv
  <2> QED
    BY <1>1, <1>2, <1>3, <1>8, <1>9, <1>12, <2>1 DEF ThreadInv, Having, Requesting
<1>14. DistinctKeys => failed' # "it == hasht_get"
  BY <1>2, <1>3
<1>15. DistinctKeys => \A v \in Workers : v # w /\ th[v].pc = "check"
                         => Lookup(heap', th[v].key) = Lookup(heap, th[v].key)
  BY <1>6
<1> QED
  BY <1>2, <1>5, <1>6, <1>9, <1>11, <1>12, <1>13, <1>14, <1>15, BenchFacts, BenchStepKeeps DEF t

\* A reference is given back.
LEMMA UnrefsKeeps ==
  ASSUME BenchInv, failed = "none", NEW w \in Workers, Unrefs(w)
  PROVE  BenchInv'
<1> DEFINE t == th[w]
           a == t.it
           r == Held(Grips(th), ia)
           z == IF t.pc = "unref2" THEN [t EXCEPT !.pc = "unref"]
                ELSE [t EXCEPT !.pc = t.back, !.it = NULL, !.x = 0]
<1>1. /\ t \in ThreadType /\ ThreadInv(heap, phase, w, t) /\ th \in [Workers -> ThreadType]
      /\ HeapInv(heap, Logs(ia), Reserves(ia), r) /\ t.i \in Nat
  BY BenchFacts DEF GripsInv
<1>2. /\ t.pc \in {"unref2", "unref"} /\ UNCHANGED <<ia, failed, phase, init_count>>
      /\ heap' = item_unref(heap, a) /\ th' = [th EXCEPT ![w] = z]
  <2>1. th' = IF t.pc = "unref2" THEN [th EXCEPT ![w].pc = "unref"]
              ELSE [th EXCEPT ![w].pc = t.back, ![w].it = NULL, ![w].x = 0]
    BY DEF Unrefs
  <2>2. th' = [th EXCEPT ![w] = z]
    BY <1>1, <2>1
  <2> QED
    BY <2>2 DEF Unrefs
<1>3. a # NULL /\ KeyAt(heap, a) = t.key
  BY <1>1, <1>2 DEF ThreadInv, Having
<1>4. /\ a \in Addrs /\ a \in DOMAIN heap.items /\ heap.items[a].refcount > 0 /\ r[a] # 0
  BY <1>3, GripHolds
<1> HIDE DEF r
<1>5. /\ HeapInv(heap', Logs(ia), Reserves(ia), [r EXCEPT ![a] = @ - 1])
      /\ KeepsItems(heap, heap') /\ SameTable(heap, heap')
  BY <1>1, <1>2, <1>4, UnrefKeeps
<1>6. \A k : Lookup(heap', k) = Lookup(heap, k) /\ (Found(heap, k) <=> Found(heap', k))
  BY <1>1, <1>5, TableKeeps
<1>7. KeyAt(heap', a) = t.key
  BY <1>3, <1>4, <1>5 DEF KeepsItems, SameItem, KeyAt
<1> HIDE DEF t
<1>8. /\ z \in ThreadType /\ z.i = t.i /\ z.key = t.key /\ z.back = t.back /\ z.op = t.op
      /\ t.back \in {"load", "run"}
      /\ \/ t.pc = "unref2" /\ z.pc = "unref" /\ z.it = t.it
         \/ t.pc = "unref" /\ z.pc = t.back /\ z.it = NULL
  BY <1>1, <1>2 DEF ThreadType, Requesting, AddrOrNull
<1> HIDE DEF z
<1>9. /\ th'[w] = z /\ \A v \in Workers : v # w => th'[v] = th[v]
  BY <1>1, <1>2, <1>8
<1>10. ReferencesInv'
  <2>1. /\ Weight(th[w], a) = Weight(th'[w], a) + 1 /\ Weight(th'[w], a) \in Int
        /\ th[w].it \in {NULL, a} /\ th'[w].it \in {NULL, a}
    BY <1>3, <1>8, <1>9 DEF Weight, t
  <2>2. Weight(th'[w], a) = Weight(th[w], a) - 1
    BY <2>1
  <2>3. OneLess(th, th', ia, a)
    BY <1>4, <1>9, <2>1, <2>2, GripChanges
  <2>4. GripsInv(heap', ia', th')
    BY <1>2, <1>5, <2>3 DEF OneLess, r, GripsInv
  <2> QED
    BY <2>4 DEF ReferencesInv, GripsInv
<1>11. /\ HasLoaded(z) <=> HasLoaded(t)
       /\ LoadedTo(z) = t.i /\ LoadedTo(t) = t.i
  BY <1>2, <1>8 DEF LoadedTo, HasLoaded
<1>12. ThreadInv(heap', phase, w, z)
  <2>1. \A j \in Own(w) : j <= NKeys /\ j < LoadedTo(z) => Found(heap', KeySeq[j])
    BY <1>1, <1>2, <1>6, <1>11 DEF ThreadInv
  <2> QED
    BY <1>1, <1>2, <1>3, <1>7, <1>8, <1>11, <2>1 DEF ThreadInv, Having, Requesting
<1>13. DistinctKeys => \A v \in Workers : v # w /\ th[v].pc = "check"
                         => Lookup(heap', th[v].key) = Lookup(heap, th[v].key)
  BY <1>6
<1> QED
  BY <1>2, <1>5, <1>6, <1>8, <1>10, <1>11, <1>12, <1>13, BenchFacts, BenchStepKeeps DEF t

-----------------------------------------------------------------------------
(* The main thread, and the whole benchmark.                               *)

\* The phases change what the threads have to do, not what they hold.
LEMMA MainKeeps ==
  ASSUME BenchInv, failed = "none", Main
  PROVE  BenchInv'
<1>1. UNCHANGED <<heap, ia, failed, init_count, th>>
  BY DEF Main, MainPreloads, MainRuns, MainTicks, MainJoins, vars
<1>2. /\ phase \in INIT .. DONE /\ phase' \in INIT .. DONE /\ phase' >= phase /\ phase' \in Int
      /\ \/ phase' < RUNNING
         \/ phase >= RUNNING
         \/ init_count >= NWorkers
  BY DEF BenchInv, BenchTypeOK, Main, MainPreloads, MainRuns, MainTicks, MainJoins,
         INIT, PRELOAD, WARMUP, RUNNING, DYN_HOTSET, COOLDOWN, DONE
<1>3. \A w \in Workers : ThreadInv(heap, phase', w, th[w])
  <2>1. KeepsItems(heap, heap)
    BY KeepsSelf
  <2> QED
    BY <1>2, <2>1, ThreadKeeps
<1>4. phase' >= RUNNING => \A w \in Workers : HasLoaded(th[w])
  <2>1. CASE phase' < RUNNING
    BY <1>2, <2>1 DEF RUNNING
  <2>2. CASE phase >= RUNNING
    BY <2>2 DEF BenchInv, LoadInv
  <2>3. CASE init_count >= NWorkers
    <3>1. init_count = Cardinality(Ready(th)) /\ Ready(th) \in SUBSET Workers
      BY DEF BenchInv, LoadInv, Ready
    <3>2. /\ IsFiniteSet(Workers) /\ Cardinality(Workers) = NWorkers
      <4>1. NWorkers \in Nat /\ 1 \in Int
        BY Constants
      <4> QED
        BY <4>1, FS_Interval DEF Workers
    <3>3. /\ Cardinality(Ready(th)) <= Cardinality(Workers) /\ Cardinality(Ready(th)) \in Nat
          /\ Cardinality(Ready(th)) = Cardinality(Workers) => Ready(th) = Workers
      BY <3>1, <3>2, FS_Subset, FS_CardinalityType
    <3>4. Ready(th) = Workers
      BY <2>3, <3>1, <3>2, <3>3, Constants
    <3> QED
      BY <3>4 DEF Ready
  <2> QED
    BY <1>2, <2>1, <2>2, <2>3
<1>5. LoadInv' /\ BenchTypeOK' /\ ReferencesInv'
  BY <1>1, <1>2, <1>4 DEF BenchInv, BenchTypeOK, LoadInv, ReferencesInv, GripsInv
<1> QED
  BY <1>1, <1>3, <1>5 DEF BenchInv

\* Every step of a thread keeps the invariant.
LEMMA ThreadStepKeeps ==
  ASSUME BenchInv, failed = "none", NEW w \in Workers, Thread(w)
  PROVE  BenchInv'
BY StartsKeeps, LoadsKeeps, WaitsToRunKeeps, SendsPendingKeeps, EndsKeeps, LooksKeeps,
   AllocatesKeeps, PutsKeeps, ChecksKeeps, UnrefsKeeps DEF Thread

\* At the start no item exists and nothing is loaded.
LEMMA BenchInitKeeps ==
  ASSUME BenchInit
  PROVE  BenchInv
<1>1. IndInv
  BY InitKeeps DEF BenchInit
<1>2. /\ phase = INIT /\ init_count = 0 /\ th = [t \in Workers |-> IdleThread] /\ failed = "none"
      /\ wk = [w \in Workers |-> IdleWorker]
  BY DEF BenchInit, Init
<1>3. /\ ia \in [Workers -> AllocatorType] /\ AllocatorsInv(ia)
      /\ HeapInv(heap, Logs(ia), Reserves(ia), Held(wk, ia))
      /\ \A w \in Workers : ia[w].cleanup_queue = << >>
  BY <1>1, InitAllocators DEF BenchInit, IndInv, TypeOK
<1>4. IdleThread \in ThreadType
  BY DEF IdleThread, ThreadType, AddrOrNull
<1>5. BenchTypeOK
  BY <1>2, <1>3, <1>4 DEF BenchTypeOK, INIT, DONE
<1>6. Held(Grips(th), ia) = Held(wk, ia)
  <2> DEFINE g == Grips(th)
  <2>1. \A w \in Workers : /\ g[w].it = wk[w].it /\ g[w].nit = wk[w].nit
                           /\ ia[w].cleanup_queue = ia[w].cleanup_queue
    BY <1>2 DEF Grips, IdleThread, IdleWorker
  <2> HIDE DEF g
  <2>2. Held(g, ia) = Held(wk, ia)
    BY <2>1, HeldSame
  <2> QED
    BY <2>2 DEF g
<1>7. ReferencesInv
  BY <1>3, <1>6 DEF ReferencesInv, GripsInv
<1>8. \A w \in Workers : ThreadInv(heap, phase, w, th[w])
  BY <1>2 DEF ThreadInv, IdleThread, Having, Requesting, HasLoaded
<1>9. LoadInv
  <2>1. {w \in Workers : HasLoaded(th[w])} = {}
    BY <1>2 DEF IdleThread, HasLoaded
  <2> QED
    BY <1>2, <2>1, FS_EmptySet DEF LoadInv, INIT, RUNNING
<1> QED
  BY <1>2, <1>3, <1>5, <1>7, <1>8, <1>9 DEF BenchInv

\* While items are overwritten in place and an assertion takes references of
\* its own, the heap and the counts stay in order, and no key that has been
\* loaded is lost.
THEOREM BenchInvariance == BenchSpec => []BenchInv
<1>1. BenchInit => BenchInv
  BY BenchInitKeeps
<1>2. BenchInv /\ UNCHANGED benchVars => BenchInv'
  BY DEF benchVars, vars, BenchInv, BenchTypeOK, ReferencesInv, GripsInv, LoadInv
<1>3. BenchInv /\ [BenchNext]_benchVars => BenchInv'
  BY <1>2, MainKeeps, ThreadStepKeeps DEF BenchNext
<1> QED
  BY <1>1, <1>3, PTL DEF BenchSpec

\* The references in the form of the invariant are those of the property.
LEMMA BenchCounts ==
  ASSUME BenchInv
  PROVE  BenchRefcounts
<1> SUFFICES ASSUME failed = "none", NEW a \in DOMAIN heap.items
             PROVE  heap.items[a].refcount = BenchReferences(a)
  BY DEF BenchRefcounts
<1> DEFINE g == Grips(th)
<1>1. /\ HeapInv(heap, Logs(ia), Reserves(ia), Held(g, ia)) /\ heap \in HeapType
      /\ \A w \in Workers : ia[w].cleanup_queue = << >>
  BY DEF BenchInv, ReferencesInv, GripsInv, HeapInv
<1>2. a \in Addrs /\ a # NULL /\ heap.chain \in Seq(Addrs)
  BY <1>1, HeapFields, Constants
<1>3. a \in Table <=> InTable(heap, a)
  BY <1>2, ToSetIs DEF Table, InTable
<1>4. heap.items[a].refcount = (IF InTable(heap, a) THEN 1 ELSE 0) + Held(g, ia)[a]
  BY <1>1 DEF HeapInv, CountInv
<1>5. Holders(g, a) = {t \in Workers : th[t].it = a}
  BY DEF Holders, Grips
<1>6. Copiers(g, a) = {t \in Workers : th[t].it = a /\ th[t].pc = "unref2"}
  BY <1>2 DEF Copiers, Grips
<1>7. Queued(ia, a) = {}
  BY <1>1 DEF Queued
<1> HIDE DEF g
<1>8. /\ Cardinality(Holders(g, a)) \in Nat /\ Cardinality(Copiers(g, a)) \in Nat
      /\ Cardinality(Queued(ia, a)) = 0
      /\ Held(g, ia)[a] = Cardinality(Holders(g, a)) + Cardinality(Copiers(g, a))
                          + Cardinality(Queued(ia, a))
  BY <1>2, <1>7, HeldType, FS_EmptySet DEF Held
<1> QED
  BY <1>3, <1>4, <1>5, <1>6, <1>8 DEF BenchReferences

\* Every reference count of the benchmark is the number of the references that
\* exist: the second item_unref of set_request gives back exactly the reference
\* that the assertion before it took.
THEOREM BenchCountsAreExact == BenchSpec => []BenchRefcounts
<1>1. BenchInv => BenchRefcounts
  BY BenchCounts
<1> QED
  BY <1>1, BenchInvariance, PTL

\* When the measurement starts every key of the workload is in the table, for
\* good: no request of the measurement misses, whether keys are distinct or not.
THEOREM KeysLoaded ==
  BenchSpec => [](phase >= RUNNING => \A k \in ToSet(KeySeq) : Lookup(heap, k) # NULL)
<1>1. ASSUME BenchInv, phase >= RUNNING, NEW k \in ToSet(KeySeq)
      PROVE  Lookup(heap, k) # NULL
  <2>1. PICK j \in 1 .. NKeys : k = KeySeq[j]
    BY <1>1, BenchConstants, ToSetIs DEF NKeys
  <2> QED
    BY <1>1, <2>1, AllFound DEF Found
<1>2. BenchInv => (phase >= RUNNING => \A k \in ToSet(KeySeq) : Lookup(heap, k) # NULL)
  BY <1>1
<1> QED
  BY <1>2, BenchInvariance, PTL

\* If no key was generated twice, every key is in the table when the measurement
\* starts, and set_request finds the item it has just inserted, although others
\* may use the bucket between the insertion and the assertion.
THEOREM LoadedWhenDistinct ==
  ASSUME DistinctKeys
  PROVE  BenchSpec => []LoadedBeforeRun
<1>1. BenchInv => LoadedBeforeRun
  <2>1. ASSUME BenchInv, phase >= RUNNING, NEW k \in ToSet(KeySeq)
        PROVE  Lookup(heap, k) # NULL
    <3>1. PICK j \in 1 .. NKeys : k = KeySeq[j]
      BY <2>1, BenchConstants, ToSetIs DEF NKeys
    <3> QED
      BY <2>1, <3>1, AllFound DEF Found
  <2> QED
    BY <2>1 DEF LoadedBeforeRun, BenchInv
<1> QED
  BY <1>1, BenchInvariance, PTL
=============================================================================
