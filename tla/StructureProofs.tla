-------------------------- MODULE StructureProofs --------------------------
(***************************************************************************)
(* Two of the structures the policies share.                               *)
(*                                                                         *)
(* For any pages and lists, the doubly linked lists of fifo.c are queues:  *)
(* their links stay consistent, no assertion fails, and every operation    *)
(* does to the walk from first to last what PageLists says.                *)
(*                                                                         *)
(* For any number of copy threads and of callers, one barrier used twice   *)
(* and one lock are enough for hemem_parallel_memcpy and                   *)
(* hemem_parallel_memset: a call returns when its whole destination is     *)
(* written and no thread works on the job of another call.                 *)
(***************************************************************************)
EXTENDS FifoList, ParallelCopy, ListLemmas, SequenceTheorems, FiniteSetTheorems, TLAPS

-----------------------------------------------------------------------------
(* The page lists: the inductive invariant.  WellLinked admits pages       *)
(* that form a cycle beside a list and are counted on it.                  *)

\* The sequence s holds the pages of list l from first to last, and all
\* pages that name l are in it.
IsRow(s, l) ==
  /\ s \in Seq(ListPages)
  /\ numentries[l] = Len(s)
  /\ first[l] = IF Len(s) = 0 THEN NoPage ELSE s[1]
  /\ last[l] = IF Len(s) = 0 THEN NoPage ELSE s[Len(s)]
  /\ \A i \in 1 .. Len(s) :
       /\ list[s[i]] = l
       /\ prev[s[i]] = IF i = 1 THEN NoPage ELSE s[i - 1]
       /\ next[s[i]] = IF i = Len(s) THEN NoPage ELSE s[i + 1]
  /\ \A i, j \in 1 .. Len(s) : s[i] = s[j] => i = j
  /\ \A p \in ListPages : list[p] = l => \E i \in 1 .. Len(s) : s[i] = p

\* The rows of q are the lists, and a page on no list has no links.
Represents(q) ==
  /\ ListsTypeOK /\ ~failed
  /\ \A p \in ListPages : list[p] = NoPage => prev[p] = NoPage /\ next[p] = NoPage
  /\ q \in [Lists -> Seq(ListPages)]
  /\ \A l \in Lists : IsRow(q[l], l)

IndInv == \E q : Represents(q)

-----------------------------------------------------------------------------
(* The walk.                                                               *)

\* Following next from the first page of a row gives the row.
LEMMA WalkIsRow ==
  ASSUME NEW s, NEW S, s \in Seq(S), NEW p, NEW nx,
         Len(s) # 0 => s[1] = p,
         \A i \in 1 .. Len(s) : i # 1 => s[i] = nx[s[i - 1]]
  PROVE  Walk(p, nx, Len(s)) = s
<1> DEFINE n == Len(s)
           Body(f) == [i \in 1 .. n |-> IF i = 1 THEN p ELSE nx[f[i - 1]]]
           at == CHOOSE f : f = Body(f)
<1>1. n \in Nat
  OBVIOUS
<1>2. s = [i \in 1 .. n |-> s[i]]
  OBVIOUS
<1>3. \A i \in 1 .. n : s[i] = IF i = 1 THEN p ELSE nx[s[i - 1]]
  OBVIOUS
<1> HIDE DEF n
<1>4. s = Body(s)
  BY <1>2, <1>3
<1>5. at = Body(at)
  BY <1>4
<1>6. Walk(p, nx, n) = at
  BY DEF Walk
<1> HIDE DEF at
<1>7. \A i \in 1 .. n : at[i] = IF i = 1 THEN p ELSE nx[at[i - 1]]
  BY <1>5
<1> DEFINE T == {m \in Nat : m \in 1 .. n => at[m] = s[m]}
<1>8. 0 \in T
  OBVIOUS
<1>9. ASSUME NEW m \in Nat, m \in T
      PROVE  m + 1 \in T
  <2> SUFFICES ASSUME m + 1 \in 1 .. n PROVE at[m + 1] = s[m + 1]
    OBVIOUS
  <2>1. (m + 1) - 1 = m
    OBVIOUS
  <2>2. CASE m = 0
    BY <1>3, <1>7, <2>2
  <2>3. CASE m # 0
    <3>1. m \in 1 .. n /\ m + 1 # 1
      BY <1>1, <2>3
    <3>2. at[m] = s[m]
      BY <1>9, <3>1
    <3> QED
      BY <1>3, <1>7, <2>1, <3>1, <3>2
  <2> QED
    BY <2>2, <2>3
<1> HIDE DEF T
<1>10. \A m \in Nat : m \in T
  BY <1>8, <1>9, SetInduction
<1>11. ASSUME NEW m \in 1 .. n
       PROVE  at[m] = s[m]
  <2>1. m \in Nat
    BY <1>1
  <2> QED
    BY <1>10, <2>1 DEF T
<1>12. at = [i \in 1 .. n |-> at[i]]
  BY <1>5
<1>13. at = s
  BY <1>2, <1>11, <1>12
<1> QED
  BY <1>6, <1>13 DEF n

\* So the refinement mapping gives the rows, in this state ...
LEMMA QueueIs ==
  ASSUME NEW q, Represents(q)
  PROVE  Queue = q
<1>1. ASSUME NEW l \in Lists
      PROVE  Walk(first[l], next, numentries[l]) = q[l]
  <2>1. IsRow(q[l], l)
    BY DEF Represents
  <2> QED
    BY <2>1, WalkIsRow DEF IsRow
<1> QED
  BY <1>1 DEF Queue, Represents

\* ... and in the next.
LEMMA QueueIsNext ==
  ASSUME NEW q, Represents(q)'
  PROVE  Queue' = q
<1>1. ASSUME NEW l \in Lists
      PROVE  Walk(first'[l], next', numentries'[l]) = q[l]
  <2>1. IsRow(q[l], l)'
    BY DEF Represents
  <2> QED
    BY <2>1, WalkIsRow DEF IsRow
<1> QED
  BY <1>1 DEF Queue, Represents

-----------------------------------------------------------------------------
(* Rows under change.                                                      *)

\* An operation on another list does not touch the pages of list l.
LEMMA RowKept ==
  ASSUME NEW s, NEW l \in Lists, IsRow(s, l),
         first'[l] = first[l], last'[l] = last[l], numentries'[l] = numentries[l],
         \A p \in ListPages :
           /\ list[p] = l => list'[p] = l /\ prev'[p] = prev[p] /\ next'[p] = next[p]
           /\ list'[p] = l => list[p] = l
  PROVE  IsRow(s, l)'
<1>1. \A i \in 1 .. Len(s) : s[i] \in ListPages /\ list[s[i]] = l
  BY DEF IsRow
<1>2. ASSUME NEW i \in 1 .. Len(s)
      PROVE  /\ list'[s[i]] = l
             /\ prev'[s[i]] = IF i = 1 THEN NoPage ELSE s[i - 1]
             /\ next'[s[i]] = IF i = Len(s) THEN NoPage ELSE s[i + 1]
  <2>1. list'[s[i]] = l /\ prev'[s[i]] = prev[s[i]] /\ next'[s[i]] = next[s[i]]
    BY <1>1
  <2> QED
    BY <2>1 DEF IsRow
<1>3. \A p \in ListPages : list'[p] = l => \E i \in 1 .. Len(s) : s[i] = p
  BY DEF IsRow
<1>4. /\ s \in Seq(ListPages) /\ numentries'[l] = Len(s)
      /\ first'[l] = IF Len(s) = 0 THEN NoPage ELSE s[1]
      /\ last'[l] = IF Len(s) = 0 THEN NoPage ELSE s[Len(s)]
      /\ \A i, j \in 1 .. Len(s) : s[i] = s[j] => i = j
  BY DEF IsRow
<1> QED
  BY <1>2, <1>3, <1>4 DEF IsRow

-----------------------------------------------------------------------------
(* The operations.                                                         *)

\* enqueue_fifo finds its assertions true and puts the page in front.
LEMMA EnqueueStep ==
  ASSUME NEW q, Represents(q), NEW l \in Lists, NEW p \in ListPages, enqueue_fifo(l, p)
  PROVE  /\ Represents([q EXCEPT ![l] = <<p>> \o @])'
         /\ list[p] = NoPage /\ ret' = NoPage
<1> DEFINE s == q[l]
           r == <<p>> \o s
           n == Len(s)
<1> USE ListAssumption
<1>1. ListsTypeOK /\ ~failed /\ IsRow(s, l) /\ list[p] = NoPage /\ prev[p] = NoPage /\ next[p] = NoPage
  BY DEF Represents, enqueue_fifo
<1>2. /\ s \in Seq(ListPages) /\ n \in Nat /\ \A i \in 1 .. n : s[i] \in ListPages /\ s[i] # p
      /\ r \in Seq(ListPages) /\ Len(r) = n + 1
      /\ \A i \in 1 .. n + 1 : r[i] = IF i = 1 THEN p ELSE s[i - 1]
  BY <1>1, Prepend DEF IsRow
<1> HIDE DEF s, r, n
<1>3. /\ next' = [next EXCEPT ![p] = first[l]]
      /\ prev' = Set(prev, first[l], p)
      /\ last' = IF first[l] = NoPage THEN [last EXCEPT ![l] = p] ELSE last
      /\ first' = [first EXCEPT ![l] = p]
      /\ list' = [list EXCEPT ![p] = l]
      /\ numentries' = [numentries EXCEPT ![l] = @ + 1]
      /\ ret' = NoPage /\ failed' = failed
  <2>1. ~(prev[p] # NoPage)
    BY <1>1
  <2>2. ~(first[l] # NoPage /\ prev[first[l]] # NoPage)
    BY <1>1, <1>2 DEF IsRow, n
  <2>3. ~(first[l] = NoPage /\ (last[l] # NoPage \/ numentries[l] # 0))
    BY <1>1, <1>2 DEF IsRow, n
  <2> QED
    BY <2>1, <2>2, <2>3 DEF enqueue_fifo
<1>4. first[l] = (IF n = 0 THEN NoPage ELSE s[1]) /\ first[l] \in ListPages \cup {NoPage} /\ first[l] # p
  BY <1>1, <1>2 DEF IsRow, n
<1>5. ListsTypeOK'
  BY <1>1, <1>3, <1>4 DEF ListsTypeOK, Set
<1>6. \A g \in ListPages : list'[g] = NoPage => prev'[g] = NoPage /\ next'[g] = NoPage
  BY <1>1, <1>2, <1>3, <1>4 DEF ListsTypeOK, Set, Represents, IsRow, n
<1>7. IsRow(r, l)'
  <2>1. numentries'[l] = Len(r) /\ first'[l] = r[1]
    BY <1>1, <1>2, <1>3 DEF ListsTypeOK, IsRow, n
  <2>2. last'[l] = r[Len(r)]
    BY <1>1, <1>2, <1>3, <1>4 DEF ListsTypeOK, IsRow, n
  <2>3. ASSUME NEW i \in 1 .. Len(r)
        PROVE  list'[r[i]] = l
    BY <1>1, <1>2, <1>3 DEF ListsTypeOK, IsRow, n
  <2>4. ASSUME NEW i \in 1 .. Len(r)
        PROVE  prev'[r[i]] = IF i = 1 THEN NoPage ELSE r[i - 1]
    BY <1>1, <1>2, <1>3, <1>4 DEF ListsTypeOK, IsRow, n, Set
  <2>5. ASSUME NEW i \in 1 .. Len(r)
        PROVE  next'[r[i]] = IF i = Len(r) THEN NoPage ELSE r[i + 1]
    BY <1>1, <1>2, <1>3, <1>4 DEF ListsTypeOK, IsRow, n
  <2>6. \A i, j \in 1 .. Len(r) : r[i] = r[j] => i = j
    <3>1. \A i, j \in 1 .. n : s[i] = s[j] => i = j
      BY <1>1 DEF IsRow, n
    <3>2. ASSUME NEW i \in 1 .. Len(r), NEW j \in 1 .. Len(r), r[i] = r[j]
          PROVE  i = j
      <4>1. /\ i \in Int /\ r[i] = IF i = 1 THEN p ELSE s[i - 1]
            /\ j \in Int /\ r[j] = IF j = 1 THEN p ELSE s[j - 1]
        BY <1>2
      <4>2. i # 1 => i - 1 \in 1 .. n /\ s[i - 1] # p
        BY <1>2
      <4>3. j # 1 => j - 1 \in 1 .. n /\ s[j - 1] # p
        BY <1>2
      <4>4. CASE i # 1 /\ j # 1
        <5>1. i - 1 = j - 1
          BY <3>1, <3>2, <4>1, <4>2, <4>3, <4>4
        <5> QED
          BY <4>1, <5>1
      <4> QED
        BY <3>2, <4>1, <4>2, <4>3, <4>4
    <3> QED
      BY <3>2
  <2>7. ASSUME NEW g \in ListPages, list'[g] = l
        PROVE  \E i \in 1 .. Len(r) : r[i] = g
    <3>1. CASE g = p
      BY <1>2, <3>1
    <3>2. CASE g # p
      <4>1. PICK i \in 1 .. n : s[i] = g
        BY <1>1, <1>3, <2>7, <3>2 DEF ListsTypeOK, IsRow, n
      <4>2. i + 1 \in 1 .. Len(r) /\ r[i + 1] = g
        BY <1>2, <4>1
      <4> QED
        BY <4>2
    <3> QED
      BY <3>1, <3>2
  <2>8. Len(r) # 0 /\ r \in Seq(ListPages)
    BY <1>2
  <2> QED
    BY <2>1, <2>2, <2>3, <2>4, <2>5, <2>6, <2>7, <2>8 DEF IsRow
<1>8. ASSUME NEW m \in Lists, m # l
      PROVE  IsRow(q[m], m)'
  <2>1. IsRow(q[m], m)
    BY DEF Represents
  <2>2. first'[m] = first[m] /\ last'[m] = last[m] /\ numentries'[m] = numentries[m]
    BY <1>1, <1>3, <1>8 DEF ListsTypeOK
  <2>3. ASSUME NEW g \in ListPages
        PROVE  /\ list[g] = m => list'[g] = m /\ prev'[g] = prev[g] /\ next'[g] = next[g]
               /\ list'[g] = m => list[g] = m
    BY <1>1, <1>2, <1>3, <1>4, <1>8 DEF ListsTypeOK, Set, IsRow, n
  <2> QED
    BY <2>1, <2>2, <2>3, RowKept
<1>9. [q EXCEPT ![l] = <<p>> \o @] = [q EXCEPT ![l] = r]
  BY DEF r, s
<1>10. q \in [Lists -> Seq(ListPages)]
  BY DEF Represents
<1> QED
  BY <1>1, <1>2, <1>3, <1>5, <1>6, <1>7, <1>8, <1>9, <1>10 DEF Represents

\* Bridging the neighbours of the k-th page of a list takes that page out of
\* the row and no other.
LEMMA UnlinkStep ==
  ASSUME NEW q, Represents(q), NEW l \in Lists, NEW k \in 1 .. Len(q[l]),
         NEW p, p = q[l][k],
         first' = IF first[l] = p THEN [first EXCEPT ![l] = next[p]] ELSE first,
         last' = IF last[l] = p THEN [last EXCEPT ![l] = prev[p]] ELSE last,
         prev' = Set(Set(prev, next[p], prev[p]), p, NoPage),
         next' = Set(Set(next, prev[p], next[p]), p, NoPage),
         list' = [list EXCEPT ![p] = NoPage],
         numentries' = [numentries EXCEPT ![l] = @ - 1],
         ret' \in ListPages \cup {NoPage}, failed' = failed
  PROVE  Represents([q EXCEPT ![l] = SubSeq(@, 1, k - 1) \o SubSeq(@, k + 1, Len(@))])'
<1> DEFINE s == q[l]
           r == SubSeq(s, 1, k - 1) \o SubSeq(s, k + 1, Len(s))
           n == Len(s)
<1> USE ListAssumption
<1>1. ListsTypeOK /\ ~failed /\ IsRow(s, l)
  BY DEF Represents
<1>2. /\ s \in Seq(ListPages) /\ n \in Nat /\ k \in 1 .. n /\ p = s[k] /\ p \in ListPages
      /\ \A i \in 1 .. n : s[i] \in ListPages
      /\ \A i, j \in 1 .. n : s[i] = s[j] => i = j
  BY <1>1 DEF IsRow
<1>3. /\ r \in Seq(ListPages) /\ Len(r) = n - 1
      /\ \A i \in 1 .. n - 1 : r[i] = IF i < k THEN s[i] ELSE s[i + 1]
  BY <1>2, Drop
<1> HIDE DEF s, r, n
<1>4. /\ prev[p] = (IF k = 1 THEN NoPage ELSE s[k - 1])
      /\ next[p] = (IF k = n THEN NoPage ELSE s[k + 1])
      /\ first[l] = s[1] /\ last[l] = s[n] /\ list[p] = l
  BY <1>1, <1>2 DEF IsRow, n
<1>5. \A g \in ListPages :
        /\ list'[g] = IF g = p THEN NoPage ELSE list[g]
        /\ prev'[g] = IF g = p THEN NoPage ELSE IF g = next[p] THEN prev[p] ELSE prev[g]
        /\ next'[g] = IF g = p THEN NoPage ELSE IF g = prev[p] THEN next[p] ELSE next[g]
  BY <1>1, <1>2 DEF ListsTypeOK, Set
<1>6. prev[p] \in ListPages \cup {NoPage} /\ next[p] \in ListPages \cup {NoPage}
  BY <1>1, <1>2 DEF ListsTypeOK
<1>7. ListsTypeOK'
  <2>1. next' \in [ListPages -> ListPages \cup {NoPage}] /\ prev' \in [ListPages -> ListPages \cup {NoPage}]
    BY <1>1, <1>2, <1>6 DEF ListsTypeOK, Set
  <2>2. first' \in [Lists -> ListPages \cup {NoPage}] /\ last' \in [Lists -> ListPages \cup {NoPage}]
    BY <1>1, <1>6 DEF ListsTypeOK
  <2>3. numentries[l] \in Nat /\ numentries[l] - 1 \in Nat
    BY <1>1, <1>2 DEF IsRow, n
  <2>4. list' \in [ListPages -> Lists \cup {NoPage}] /\ numentries' \in [Lists -> Nat]
    BY <1>1, <2>3 DEF ListsTypeOK
  <2> QED
    BY <1>1, <2>1, <2>2, <2>4 DEF ListsTypeOK
<1>8. \A i \in 1 .. n : list[s[i]] = l
  BY <1>1 DEF IsRow, n
<1>9. \A g \in ListPages : list'[g] = NoPage => prev'[g] = NoPage /\ next'[g] = NoPage
  <2>1. \A g \in ListPages : list[g] = NoPage => g # prev[p] /\ g # next[p]
    BY <1>2, <1>4, <1>8
  <2>2. \A g \in ListPages : list[g] = NoPage => prev[g] = NoPage /\ next[g] = NoPage
    BY DEF Represents
  <2> QED
    BY <1>5, <2>1, <2>2
<1>10. IsRow(r, l)'
  <2>1. numentries'[l] = Len(r)
    BY <1>1, <1>2, <1>3 DEF ListsTypeOK, IsRow, n
  <2>2. first'[l] = IF Len(r) = 0 THEN NoPage ELSE r[1]
    <3>1. first'[l] = IF k = 1 THEN next[p] ELSE s[1]
      BY <1>1, <1>2, <1>4 DEF ListsTypeOK
    <3> QED
      BY <1>2, <1>3, <1>4, <3>1
  <2>3. last'[l] = IF Len(r) = 0 THEN NoPage ELSE r[Len(r)]
    <3>1. last'[l] = IF k = n THEN prev[p] ELSE s[n]
      BY <1>1, <1>2, <1>4 DEF ListsTypeOK
    <3>2. n - 1 # 0 => n - 1 \in 1 .. n - 1 /\ r[n - 1] = IF k = n THEN s[n - 1] ELSE s[n]
      BY <1>2, <1>3
    <3>3. CASE n = 1
      <4>1. k = 1 /\ Len(r) = 0
        BY <1>2, <1>3, <3>3
      <4> QED
        BY <1>4, <3>1, <3>3, <4>1
    <3>4. CASE n # 1
      <4>1. Len(r) # 0 /\ Len(r) = n - 1 /\ (k = n => k # 1)
        BY <1>2, <1>3, <3>4
      <4> QED
        BY <1>4, <3>1, <3>2, <4>1
    <3> QED
      BY <3>3, <3>4
  <2>4. ASSUME NEW i \in 1 .. Len(r)
        PROVE  /\ list'[r[i]] = l
               /\ prev'[r[i]] = IF i = 1 THEN NoPage ELSE r[i - 1]
               /\ next'[r[i]] = IF i = Len(r) THEN NoPage ELSE r[i + 1]
    <3> DEFINE j == IF i < k THEN i ELSE i + 1
    <3>1. j \in 1 .. n /\ j # k /\ r[i] = s[j] /\ s[j] \in ListPages /\ s[j] # p
      BY <1>2, <1>3
    <3>2. /\ prev[s[j]] = IF j = 1 THEN NoPage ELSE s[j - 1]
          /\ next[s[j]] = IF j = n THEN NoPage ELSE s[j + 1]
      BY <1>1, <3>1 DEF IsRow, n
    <3>3. s[j] = next[p] <=> j = k + 1
      BY <1>2, <1>4, <3>1
    <3>4. s[j] = prev[p] <=> j = k - 1
      <4> HIDE DEF j
      <4>1. CASE k = 1
        BY <1>2, <1>4, <3>1, <4>1
      <4>2. CASE k # 1
        <5>1. k - 1 \in 1 .. n /\ prev[p] = s[k - 1]
          BY <1>2, <1>4, <4>2
        <5> QED
          BY <1>2, <3>1, <5>1
      <4> QED
        BY <4>1, <4>2
    <3>5. list'[r[i]] = l
      BY <1>5, <1>8, <3>1
    <3>6. prev'[s[j]] = IF j = k + 1 THEN prev[p] ELSE prev[s[j]]
      BY <1>5, <3>1, <3>3
    <3>7. next'[s[j]] = IF j = k - 1 THEN next[p] ELSE next[s[j]]
      BY <1>5, <3>1, <3>4
    <3>8. prev'[r[i]] = IF i = 1 THEN NoPage ELSE r[i - 1]
      BY <1>2, <1>3, <1>4, <3>1, <3>2, <3>6
    <3>9. next'[r[i]] = IF i = Len(r) THEN NoPage ELSE r[i + 1]
      BY <1>2, <1>3, <1>4, <3>1, <3>2, <3>7
    <3> QED
      BY <3>5, <3>8, <3>9
  <2>5. ASSUME NEW i \in 1 .. Len(r), NEW j \in 1 .. Len(r), r[i] = r[j]
        PROVE  i = j
    <3> DEFINE a == IF i < k THEN i ELSE i + 1
               b == IF j < k THEN j ELSE j + 1
    <3>1. a \in 1 .. n /\ b \in 1 .. n /\ s[a] = s[b]
      BY <1>2, <1>3, <2>5
    <3>2. a = b
      <4> HIDE DEF a, b
      <4> QED
        BY <1>2, <3>1
    <3> QED
      BY <1>2, <3>2
  <2>6. ASSUME NEW g \in ListPages, list'[g] = l
        PROVE  \E i \in 1 .. Len(r) : r[i] = g
    <3>1. g # p /\ list[g] = l
      BY <1>5, <2>6
    <3>2. PICK j \in 1 .. n : s[j] = g
      BY <1>1, <3>1 DEF IsRow, n
    <3> DEFINE i == IF j < k THEN j ELSE j - 1
    <3>3. i \in 1 .. Len(r) /\ r[i] = g
      BY <1>2, <1>3, <3>1, <3>2
    <3> QED
      BY <3>3
  <2> QED
    BY <1>3, <2>1, <2>2, <2>3, <2>4, <2>5, <2>6 DEF IsRow
<1>11. ASSUME NEW m \in Lists, m # l
       PROVE  IsRow(q[m], m)'
  <2>1. IsRow(q[m], m)
    BY DEF Represents
  <2>2. first'[m] = first[m] /\ last'[m] = last[m] /\ numentries'[m] = numentries[m]
    BY <1>1, <1>11 DEF ListsTypeOK
  <2>3. ASSUME NEW g \in ListPages
        PROVE  /\ list[g] = m => list'[g] = m /\ prev'[g] = prev[g] /\ next'[g] = next[g]
               /\ list'[g] = m => list[g] = m
    <3>1. list[g] = m => g # p /\ g # prev[p] /\ g # next[p]
      BY <1>2, <1>4, <1>8, <1>11
    <3> QED
      BY <1>5, <3>1
  <2> QED
    BY <2>1, <2>2, <2>3, RowKept
<1>12. [q EXCEPT ![l] = SubSeq(@, 1, k - 1) \o SubSeq(@, k + 1, Len(@))] = [q EXCEPT ![l] = r]
  BY DEF r, s
<1>13. q \in [Lists -> Seq(ListPages)]
  BY DEF Represents
<1> QED
  BY <1>1, <1>3, <1>7, <1>9, <1>10, <1>11, <1>12, <1>13 DEF Represents

\* dequeue_fifo finds its assertion true and takes the last page.
LEMMA DequeueStep ==
  ASSUME NEW q, Represents(q), NEW l \in Lists, dequeue_fifo(l)
  PROVE  IF q[l] = << >>
         THEN Represents(q)' /\ ret' = NoPage
         ELSE /\ Represents([q EXCEPT ![l] = SubSeq(@, 1, Len(@) - 1)])'
              /\ ret' = q[l][Len(q[l])]
<1> DEFINE n == Len(q[l])
           p == last[l]
<1> USE ListAssumption
<1>1. ListsTypeOK /\ IsRow(q[l], l) /\ q[l] \in Seq(ListPages) /\ n \in Nat
  <2>1. ListsTypeOK /\ IsRow(q[l], l)
    BY DEF Represents
  <2> QED
    BY <2>1 DEF IsRow
<1>2. CASE n = 0
  <2>1. q[l] = << >> /\ last[l] = NoPage
    BY <1>1, <1>2 DEF IsRow
  <2>2. ret' = NoPage /\ UNCHANGED <<first, last, numentries, next, prev, list, failed>>
    BY <2>1 DEF dequeue_fifo
  <2>3. Represents(q)'
    BY <2>2 DEF Represents, ListsTypeOK, IsRow
  <2> QED
    BY <2>1, <2>2, <2>3
<1>3. CASE n # 0
  <2>1. /\ n \in 1 .. Len(q[l]) /\ p = q[l][n] /\ p \in ListPages /\ numentries[l] # 0
        /\ next[p] = NoPage /\ prev[p] = (IF n = 1 THEN NoPage ELSE q[l][n - 1])
        /\ first[l] = q[l][1]
    <3>1. n \in 1 .. Len(q[l]) /\ q[l][n] \in ListPages /\ p = q[l][n]
      BY <1>1, <1>3 DEF IsRow
    <3>2. numentries[l] # 0 /\ first[l] = q[l][1]
      BY <1>1, <1>3 DEF IsRow
    <3>3. next[q[l][n]] = NoPage /\ prev[q[l][n]] = IF n = 1 THEN NoPage ELSE q[l][n - 1]
      BY <1>1, <3>1 DEF IsRow
    <3> QED
      BY <3>1, <3>2, <3>3
  <2>2. first[l] = p <=> prev[p] = NoPage
    BY <1>1, <2>1 DEF IsRow
  <2>3. /\ last' = [last EXCEPT ![l] = prev[p]]
        /\ first' = IF prev[p] = NoPage THEN [first EXCEPT ![l] = NoPage] ELSE first
        /\ next' = Set(Set(next, prev[p], NoPage), p, NoPage)
        /\ prev' = [prev EXCEPT ![p] = NoPage]
        /\ list' = [list EXCEPT ![p] = NoPage]
        /\ numentries' = [numentries EXCEPT ![l] = @ - 1]
        /\ ret' = p /\ failed' = failed
    BY <2>1 DEF dequeue_fifo
  <2> HIDE DEF n, p
  <2>4. /\ first' = IF first[l] = p THEN [first EXCEPT ![l] = next[p]] ELSE first
        /\ last' = IF last[l] = p THEN [last EXCEPT ![l] = prev[p]] ELSE last
        /\ prev' = Set(Set(prev, next[p], prev[p]), p, NoPage)
        /\ next' = Set(Set(next, prev[p], next[p]), p, NoPage)
    BY <2>1, <2>2, <2>3 DEF Set, p
  <2>5. Represents([q EXCEPT ![l] = SubSeq(@, 1, n - 1) \o SubSeq(@, n + 1, Len(@))])'
    <3>1. ret' \in ListPages \cup {NoPage}
      BY <2>1, <2>3
    <3> QED
      BY <2>1, <2>3, <2>4, <3>1, UnlinkStep
  <2>6. SubSeq(q[l], 1, n - 1) \o SubSeq(q[l], n + 1, Len(q[l])) = SubSeq(q[l], 1, n - 1)
    <3>1. SubSeq(q[l], n + 1, Len(q[l])) = << >>
      BY <1>1, SubSeqEmpty DEF n
    <3>2. SubSeq(q[l], 1, n - 1) \in Seq(ListPages)
      BY <1>1, <1>3, DropLast DEF n
    <3> QED
      BY <3>1, <3>2, ConcatEmptySeq
  <2>7. q[l] # << >>
    BY <1>3 DEF n
  <2> QED
    BY <2>1, <2>3, <2>5, <2>6, <2>7 DEF n, Represents
<1> QED
  BY <1>2, <1>3

\* page_list_remove_page takes the page out, or finds its list empty.
LEMMA RemoveStep ==
  ASSUME NEW q, Represents(q), NEW l \in Lists, NEW p \in ListPages, page_list_remove_page(l, p)
  PROVE  /\ ret' = NoPage
         /\ \/ Len(q[l]) = 0 /\ Represents(q)'
            \/ \E k \in 1 .. Len(q[l]) :
                 /\ q[l][k] = p
                 /\ Represents([q EXCEPT ![l] = SubSeq(@, 1, k - 1) \o SubSeq(@, k + 1, Len(@))])'
<1> USE ListAssumption
<1>1. ListsTypeOK /\ IsRow(q[l], l) /\ Len(q[l]) \in Nat /\ \A i \in 1 .. Len(q[l]) : q[l][i] \in ListPages
  BY DEF Represents, IsRow
<1>2. CASE first[l] = NoPage
  <2>1. Len(q[l]) = 0 /\ last[l] = NoPage /\ numentries[l] = 0
    BY <1>1, <1>2 DEF IsRow
  <2>2. ret' = NoPage /\ UNCHANGED <<first, last, numentries, next, prev, list, failed>>
    BY <1>2, <2>1 DEF page_list_remove_page
  <2>3. Represents(q)'
    BY <2>2 DEF Represents, ListsTypeOK, IsRow
  <2> QED
    BY <2>1, <2>2, <2>3
<1>3. CASE first[l] # NoPage
  <2>1. list[p] = l
    BY <1>3 DEF page_list_remove_page
  <2>2. PICK k \in 1 .. Len(q[l]) : q[l][k] = p
    BY <1>1, <2>1 DEF IsRow
  <2>3. numentries[l] # 0
    BY <1>1 DEF IsRow
  <2>4. /\ first' = IF first[l] = p THEN [first EXCEPT ![l] = next[p]] ELSE first
        /\ last' = IF last[l] = p THEN [last EXCEPT ![l] = prev[p]] ELSE last
        /\ prev' = Set(Set(prev, next[p], prev[p]), p, NoPage)
        /\ next' = Set(Set(next, prev[p], next[p]), p, NoPage)
        /\ list' = [list EXCEPT ![p] = NoPage]
        /\ numentries' = [numentries EXCEPT ![l] = @ - 1]
        /\ ret' = NoPage /\ failed' = failed
    BY <1>3, <2>3 DEF page_list_remove_page
  <2>5. Represents([q EXCEPT ![l] = SubSeq(@, 1, k - 1) \o SubSeq(@, k + 1, Len(@))])'
    BY <2>2, <2>4, UnlinkStep
  <2> QED
    BY <2>2, <2>4, <2>5
<1> QED
  BY <1>2, <1>3

\* next_page gives the last page, or the one before a given page.
LEMMA NextPageStep ==
  ASSUME NEW q, Represents(q), NEW l \in Lists, NEW p \in ListPages \cup {NoPage}, next_page(l, p)
  PROVE  /\ Represents(q)'
         /\ \/ p = NoPage /\ ret' = IF q[l] = << >> THEN NoPage ELSE q[l][Len(q[l])]
            \/ \E i \in 1 .. Len(q[l]) :
                 q[l][i] = p /\ ret' = IF i = 1 THEN NoPage ELSE q[l][i - 1]
<1> USE ListAssumption
<1>1. ListsTypeOK /\ IsRow(q[l], l) /\ q[l] \in Seq(ListPages)
  BY DEF Represents, IsRow
<1>2. /\ p # NoPage => list[p] = l
      /\ ret' = IF p = NoPage THEN last[l] ELSE prev[p]
      /\ UNCHANGED <<first, last, numentries, next, prev, list, failed>>
  BY DEF next_page
<1>3. ret' \in ListPages \cup {NoPage}
  BY <1>1, <1>2 DEF ListsTypeOK
<1>4. Represents(q)'
  BY <1>2, <1>3 DEF Represents, ListsTypeOK, IsRow
<1>5. CASE p = NoPage
  <2>1. Len(q[l]) = 0 <=> q[l] = << >>
    BY <1>1
  <2> QED
    BY <1>1, <1>2, <1>4, <1>5, <2>1 DEF IsRow
<1>6. CASE p # NoPage
  <2>1. PICK i \in 1 .. Len(q[l]) : q[l][i] = p
    BY <1>1, <1>2, <1>6 DEF IsRow
  <2> QED
    BY <1>1, <1>2, <1>4, <1>6, <2>1 DEF IsRow
<1> QED
  BY <1>5, <1>6

-----------------------------------------------------------------------------
(* The page lists: the theorems.                                           *)

\* Empty lists are empty rows.
LEMMA InitRep ==
  ASSUME ListInit
  PROVE  Represents([l \in Lists |-> << >>])
<1>1. ListsTypeOK /\ ~failed
  BY ListAssumption DEF ListInit, ListsTypeOK
<1>2. ASSUME NEW l \in Lists
      PROVE  IsRow(<< >>, l)
  BY ListAssumption DEF ListInit, IsRow
<1> QED
  BY <1>1, <1>2 DEF ListInit, Represents

\* A step that changes nothing keeps the rows.
LEMMA StutterStep ==
  ASSUME NEW q, Represents(q), UNCHANGED listVars
  PROVE  Represents(q)'
BY DEF listVars, Represents, ListsTypeOK, IsRow

\* Every operation keeps the lists representable by rows.
THEOREM Invariance == ListSpec => []IndInv
<1>1. ListInit => IndInv
  BY InitRep DEF IndInv
<1>2. IndInv /\ [ListNext]_listVars => IndInv'
  <2> SUFFICES ASSUME IndInv, [ListNext]_listVars PROVE \E r : Represents(r)'
    BY DEF IndInv
  <2>1. PICK q : Represents(q)
    BY DEF IndInv
  <2>2. ASSUME NEW l \in Lists, dequeue_fifo(l)
        PROVE  \E r : Represents(r)'
    BY <2>1, <2>2, DequeueStep
  <2>3. ASSUME NEW l \in Lists, NEW p \in ListPages, enqueue_fifo(l, p)
        PROVE  \E r : Represents(r)'
    BY <2>1, <2>3, EnqueueStep
  <2>4. ASSUME NEW l \in Lists, NEW p \in ListPages, page_list_remove_page(l, p)
        PROVE  \E r : Represents(r)'
    BY <2>1, <2>4, RemoveStep
  <2>5. ASSUME NEW l \in Lists, NEW p \in ListPages \cup {NoPage}, next_page(l, p)
        PROVE  \E r : Represents(r)'
    BY <2>1, <2>5, NextPageStep
  <2>6. CASE UNCHANGED listVars
    BY <2>1, <2>6, StutterStep
  <2> QED
    BY <2>2, <2>3, <2>4, <2>5, <2>6 DEF ListNext
<1> QED
  BY <1>1, <1>2, PTL DEF ListSpec

\* However many pages and lists there are, the links are inverse to each
\* other, the ends are ends, the counts are exact and no assertion of fifo.c
\* fails.
THEOREM AlwaysWellLinked == ListSpec => []WellLinked
<1>1. IndInv => WellLinked
  <2> SUFFICES ASSUME IndInv PROVE WellLinked
    OBVIOUS
  <2> USE ListAssumption
  <2>1. PICK q : Represents(q)
    BY DEF IndInv
  <2>2. ListsTypeOK /\ ~failed /\ q \in [Lists -> Seq(ListPages)] /\ \A l \in Lists : IsRow(q[l], l)
    BY <2>1 DEF Represents
  <2>3. ASSUME NEW p \in ListPages, list[p] # NoPage
        PROVE  /\ next[p] # NoPage => prev[next[p]] = p /\ list[next[p]] = list[p]
               /\ prev[p] # NoPage => next[prev[p]] = p /\ list[prev[p]] = list[p]
               /\ prev[p] = NoPage => first[list[p]] = p
               /\ next[p] = NoPage => last[list[p]] = p
    <3> DEFINE l == list[p]
               s == q[l]
    <3>1. l \in Lists
      BY <2>2, <2>3 DEF ListsTypeOK
    <3>2. IsRow(s, l)
      BY <2>2, <3>1
    <3> HIDE DEF s, l
    <3>3. s \in Seq(ListPages) /\ \A i \in 1 .. Len(s) : s[i] \in ListPages
      BY <3>2 DEF IsRow
    <3>4. PICK i \in 1 .. Len(s) : s[i] = p
      BY <3>2 DEF IsRow, l
    <3>5. prev[p] = (IF i = 1 THEN NoPage ELSE s[i - 1]) /\ next[p] = IF i = Len(s) THEN NoPage ELSE s[i + 1]
      BY <3>2, <3>4 DEF IsRow
    <3>6. next[p] # NoPage => prev[next[p]] = p /\ list[next[p]] = l
      BY <3>2, <3>3, <3>4, <3>5 DEF IsRow
    <3>7. prev[p] # NoPage => next[prev[p]] = p /\ list[prev[p]] = l
      BY <3>2, <3>3, <3>4, <3>5 DEF IsRow
    <3>8. prev[p] = NoPage => first[l] = p
      BY <3>2, <3>3, <3>4, <3>5 DEF IsRow
    <3>9. next[p] = NoPage => last[l] = p
      BY <3>2, <3>3, <3>4, <3>5 DEF IsRow
    <3> QED
      BY <3>6, <3>7, <3>8, <3>9 DEF l
  <2>4. Links
    <3>1. \A p \in ListPages : list[p] = NoPage => prev[p] = NoPage /\ next[p] = NoPage
      BY <2>1 DEF Represents
    <3> QED
      BY <2>3, <3>1 DEF Links
  <2>5. Ends
    <3> SUFFICES ASSUME NEW l \in Lists
                 PROVE  /\ first[l] # NoPage => list[first[l]] = l /\ prev[first[l]] = NoPage
                        /\ last[l] # NoPage => list[last[l]] = l /\ next[last[l]] = NoPage
                        /\ first[l] = NoPage <=> last[l] = NoPage
      BY DEF Ends
    <3>1. IsRow(q[l], l) /\ q[l] \in Seq(ListPages)
      BY <2>2
    <3> QED
      BY <3>1 DEF IsRow
  <2>6. Counts
    <3> SUFFICES ASSUME NEW l \in Lists
                 PROVE  numentries[l] = Cardinality({p \in ListPages : list[p] = l})
      BY DEF Counts
    <3> DEFINE s == q[l]
               P == {p \in ListPages : list[p] = l}
    <3>1. IsRow(s, l)
      BY <2>2
    <3> HIDE DEF s
    <3>2. s \in Seq(ListPages) /\ Len(s) \in Nat
      BY <3>1 DEF IsRow
    <3>3. s \in [1 .. Len(s) -> P]
      BY <3>1, <3>2 DEF IsRow
    <3>4. s \in Bijection(1 .. Len(s), P)
      <4>1. \A i, j \in 1 .. Len(s) : s[i] = s[j] => i = j
        BY <3>1 DEF IsRow
      <4>2. \A p \in P : \E i \in 1 .. Len(s) : s[i] = p
        BY <3>1 DEF IsRow
      <4> HIDE DEF P
      <4>3. s \in Injection(1 .. Len(s), P)
        BY <3>3, <4>1 DEF Injection, IsInjective
      <4>4. s \in Surjection(1 .. Len(s), P)
        BY <3>3, <4>2 DEF Surjection
      <4> QED
        BY <4>3, <4>4 DEF Bijection
    <3> HIDE DEF P
    <3>5. Cardinality(P) = Len(s)
      BY <3>2, <3>4, FS_CountingElements DEF ExistsBijection
    <3> QED
      BY <3>1, <3>5 DEF IsRow, P
  <2> QED
    BY <2>2, <2>4, <2>5, <2>6 DEF WellLinked
<1> QED
  BY <1>1, Invariance, PTL

\* The lists of fifo.c implement the queues of PageLists: every operation on
\* the links is the queue operation on the walk, and returns what it returns.
THEOREM Refinement == ListSpec => ImplementsLists
<1>1. ListInit => Abstract!Init
  <2> SUFFICES ASSUME ListInit PROVE Queue = [l \in Lists |-> << >>] /\ ret = NoPage
    BY DEF Abstract!Init
  <2> QED
    BY InitRep, QueueIs DEF ListInit
<1>2. IndInv /\ [ListNext]_listVars => [Abstract!Next]_Abstract!vars
  <2> SUFFICES ASSUME IndInv, [ListNext]_listVars PROVE [Abstract!Next]_Abstract!vars
    OBVIOUS
  <2>1. PICK q : Represents(q)
    BY DEF IndInv
  <2>2. Queue = q /\ q \in [Lists -> Seq(ListPages)]
    BY <2>1, QueueIs DEF Represents
  <2>3. ASSUME NEW l \in Lists, dequeue_fifo(l)
        PROVE  Abstract!Dequeue(l)
    <3>1. CASE q[l] = << >>
      BY <2>1, <2>2, <2>3, <3>1, DequeueStep, QueueIsNext DEF Abstract!Dequeue
    <3>2. CASE q[l] # << >>
      <4>1. /\ Queue' = [q EXCEPT ![l] = SubSeq(@, 1, Len(@) - 1)]
            /\ ret' = q[l][Len(q[l])]
        BY <2>1, <2>3, <3>2, DequeueStep, QueueIsNext
      <4> QED
        BY <2>2, <3>2, <4>1 DEF Abstract!Dequeue
    <3> QED
      BY <3>1, <3>2
  <2>4. ASSUME NEW l \in Lists, NEW p \in ListPages, enqueue_fifo(l, p)
        PROVE  Abstract!Enqueue(l, p)
    <3>1. Queue' = [q EXCEPT ![l] = <<p>> \o @] /\ list[p] = NoPage /\ ret' = NoPage
      BY <2>1, <2>4, EnqueueStep, QueueIsNext
    <3>2. ASSUME NEW m \in Lists, NEW i \in 1 .. Len(q[m])
          PROVE  q[m][i] # p
      BY <2>1, <3>1, ListAssumption DEF Represents, IsRow
    <3> QED
      BY <2>2, <3>1, <3>2 DEF Abstract!Enqueue, Abstract!On
  <2>5. ASSUME NEW l \in Lists, NEW p \in ListPages, page_list_remove_page(l, p)
        PROVE  Abstract!Remove(l, p)
    <3>1. ret' = NoPage
      BY <2>1, <2>5, RemoveStep
    <3>2. CASE Len(q[l]) = 0 /\ Represents(q)'
      BY <2>2, <3>1, <3>2, QueueIsNext DEF Abstract!Remove, Abstract!On
    <3>3. CASE \E k \in 1 .. Len(q[l]) :
                 /\ q[l][k] = p
                 /\ Represents([q EXCEPT ![l] = SubSeq(@, 1, k - 1) \o SubSeq(@, k + 1, Len(@))])'
      <4>1. PICK k \in 1 .. Len(q[l]) :
              /\ q[l][k] = p
              /\ Represents([q EXCEPT ![l] = SubSeq(@, 1, k - 1) \o SubSeq(@, k + 1, Len(@))])'
        BY <3>3
      <4>2. Queue' = [q EXCEPT ![l] = SubSeq(@, 1, k - 1) \o SubSeq(@, k + 1, Len(@))]
        BY <4>1, QueueIsNext
      <4> QED
        BY <2>2, <3>1, <4>1, <4>2 DEF Abstract!Remove
    <3> QED
      BY <2>1, <2>5, <3>2, <3>3, RemoveStep
  <2>6. ASSUME NEW l \in Lists, NEW p \in ListPages \cup {NoPage}, next_page(l, p)
        PROVE  Abstract!NextPage(l, p)
    <3>1. Queue' = Queue
      BY <2>1, <2>2, <2>6, NextPageStep, QueueIsNext
    <3> QED
      BY <2>1, <2>2, <2>6, <3>1, NextPageStep DEF Abstract!NextPage
  <2>7. CASE UNCHANGED listVars
    BY <2>7 DEF listVars, Queue, Abstract!vars
  <2>8. CASE ListNext
    BY <2>3, <2>4, <2>5, <2>6, <2>8 DEF ListNext, Abstract!Next
  <2> QED
    BY <2>7, <2>8
<1> QED
  BY <1>1, <1>2, Invariance, PTL DEF ListSpec, ImplementsLists, Abstract!Spec

-----------------------------------------------------------------------------
(* The copy threads: the inductive invariant.                              *)

Jobs == [dst : Callers \cup {Nobody}, src : PageContents, write_zeros : BOOLEAN]

\* What a thread that has read job j writes.
ValueOf(j) == IF j.write_zeros THEN 0 ELSE j.src

CopyTypeOK ==
  /\ lock \in Callers \cup {Nobody}
  /\ job \in Jobs
  /\ waiting \subseteq Threads
  /\ step \in [Threads -> {"idle", "start", "finish", "unlock", "begin", "grab", "copy", "end"}]
  /\ \A c \in Callers : step[c] \in {"idle", "start", "finish", "unlock"}
  /\ \A t \in CopyThreads : step[t] \in {"begin", "grab", "copy", "end"}
  /\ mine \in [CopyThreads -> Jobs]
  /\ task \in [Callers -> PageContents]
  /\ mem \in [Callers -> [CopyThreads -> PageContents]]

\* The caller between lock and unlock is the owner of the lock.
LockInv == \A c \in Callers : step[c] # "idle" <=> lock = c

\* Who waits is at a barrier; the copy threads leave the first one only with
\* a caller that has passed it too, and that caller waits for the second.
PhaseInv ==
  /\ \A t \in waiting : step[t] \in {"begin", "end", "start", "finish"}
  /\ \A t \in CopyThreads :
       step[t] # "begin" <=> \E c \in Callers : step[c] = "finish"

\* The job is the caller's from start to finish; what a thread has read is
\* the job, and what it has written is what was asked for.
JobInv ==
  \A c \in Callers : step[c] \in {"start", "finish"} =>
    /\ job.dst = c /\ ValueOf(job) = task[c]
    /\ \A t \in CopyThreads :
         /\ step[t] = "copy" => mine[t] = job
         /\ step[t] = "end" => mem[c][t] = task[c]

CopyInv == CopyTypeOK /\ LockInv /\ PhaseInv /\ JobInv /\ CopyComplete

-----------------------------------------------------------------------------
(* The barrier.                                                            *)

\* Whoever completes the barrier completes it with all copy threads and the
\* one caller that holds the lock: there are no others that could be there.
LEMMA ReleaseAll ==
  ASSUME CopyInv, NEW t \in Threads, t \notin waiting,
         step[t] \in {"begin", "end", "start", "finish"},
         ~(Cardinality(waiting) < Cardinality(CopyThreads))
  PROVE  lock \in Callers /\ waiting \cup {t} = CopyThreads \cup {lock}
<1> DEFINE W == waiting \cup {t}
           n == Cardinality(CopyThreads)
<1>1. W \subseteq CopyThreads \cup {lock}
  BY DEF CopyInv, CopyTypeOK, LockInv, PhaseInv, Threads
<1>2. lock \notin Callers => W \subseteq CopyThreads
  BY DEF CopyInv, CopyTypeOK, LockInv, PhaseInv, Threads
<1>3. IsFiniteSet(CopyThreads) /\ n \in Nat
  BY CopyAssumption, FS_CardinalityType
<1>4. IsFiniteSet(CopyThreads \cup {lock})
  BY <1>3, FS_AddElement
<1>5. IsFiniteSet(W)
  BY <1>1, <1>4, FS_Subset
<1>6. IsFiniteSet(waiting) /\ Cardinality(waiting) \in Nat
  <2>1. waiting \subseteq W
    OBVIOUS
  <2> HIDE DEF W
  <2>2. IsFiniteSet(waiting)
    BY <1>5, <2>1, FS_Subset
  <2> QED
    BY <2>2, FS_CardinalityType
<1>7. Cardinality(W) = Cardinality(waiting) + 1
  BY <1>6, FS_AddElement
<1>8. Cardinality(W) \in Nat /\ Cardinality(W) > n
  BY <1>3, <1>6, <1>7
<1> HIDE DEF W, n
<1>9. lock \in Callers
  <2> SUFFICES ASSUME W \subseteq CopyThreads PROVE FALSE
    BY <1>2
  <2>1. Cardinality(W) <= n
    BY <1>3, FS_Subset DEF n
  <2> QED
    BY <1>3, <1>8, <2>1
<1>10. Cardinality(CopyThreads \cup {lock}) = n + 1
  <2>1. lock \notin CopyThreads
    BY <1>9, CopyAssumption
  <2> QED
    BY <1>3, <2>1, FS_AddElement DEF n
<1>11. Cardinality(W) <= n + 1 /\ (n + 1 = Cardinality(W) => CopyThreads \cup {lock} = W)
  BY <1>1, <1>4, <1>10, FS_Subset
<1> QED
  BY <1>3, <1>8, <1>9, <1>11 DEF W

\* Then either all of them go to work or all of them are done.
LEMMA ReleaseTogether ==
  ASSUME CopyInv, lock \in Callers,
         \A t \in CopyThreads \cup {lock} : step[t] \in {"begin", "end", "start", "finish"}
  PROVE  \/ step[lock] = "start" /\ \A t \in CopyThreads : step[t] = "begin"
         \/ step[lock] = "finish" /\ \A t \in CopyThreads : step[t] = "end"
BY DEF CopyInv, CopyTypeOK, LockInv, PhaseInv

-----------------------------------------------------------------------------
(* Every action preserves the invariant.                                   *)

\* A barrier that is not complete changes no place; a complete one moves the
\* caller and all copy threads to the next phase together.
LEMMA BarrierInv ==
  ASSUME CopyInv, NEW t \in Threads, barrier_wait(t)
  PROVE  CopyInv'
<1>1. CASE Cardinality(waiting) < Cardinality(CopyThreads)
  <2>1. /\ waiting' = waiting \cup {t} /\ step[t] \in {"begin", "end", "start", "finish"}
        /\ UNCHANGED <<step, lock, job, mine, task, mem>>
    BY <1>1 DEF barrier_wait
  <2> QED
    BY <2>1 DEF CopyInv, CopyTypeOK, LockInv, PhaseInv, JobInv, CopyComplete, ValueOf
<1>2. CASE ~(Cardinality(waiting) < Cardinality(CopyThreads))
  <2>1. lock \in Callers /\ waiting \cup {t} = CopyThreads \cup {lock}
    BY <1>2, ReleaseAll DEF barrier_wait
  <2>2. \/ step[lock] = "start" /\ \A u \in CopyThreads : step[u] = "begin"
        \/ step[lock] = "finish" /\ \A u \in CopyThreads : step[u] = "end"
    BY <2>1, ReleaseTogether DEF barrier_wait, CopyInv, PhaseInv
  <2>3. /\ waiting' = {}
        /\ step' = [u \in Threads |-> IF u \in CopyThreads \cup {lock} THEN After(step[u]) ELSE step[u]]
        /\ UNCHANGED <<lock, job, mine, task, mem>>
    BY <1>2, <2>1 DEF barrier_wait
  <2>4. \A c \in Callers : c # lock => step[c] = "idle" /\ step'[c] = "idle"
    BY <2>3, CopyAssumption DEF CopyInv, LockInv, Threads
  <2>5. CASE step[lock] = "start" /\ \A u \in CopyThreads : step[u] = "begin"
    <3>1. step'[lock] = "finish" /\ \A u \in CopyThreads : step'[u] = "grab"
      BY <2>1, <2>3, <2>5 DEF After, Threads
    <3> QED
      BY <2>1, <2>3, <2>4, <2>5, <3>1
         DEF CopyInv, CopyTypeOK, LockInv, PhaseInv, JobInv, CopyComplete, ValueOf, Threads
  <2>6. CASE step[lock] = "finish" /\ \A u \in CopyThreads : step[u] = "end"
    <3>1. step'[lock] = "unlock" /\ \A u \in CopyThreads : step'[u] = "begin"
      BY <2>1, <2>3, <2>6 DEF After, Threads
    <3> QED
      BY <2>1, <2>3, <2>4, <2>6, <3>1
         DEF CopyInv, CopyTypeOK, LockInv, PhaseInv, JobInv, CopyComplete, ValueOf, Threads
  <2> QED
    BY <2>2, <2>5, <2>6
<1> QED
  BY <1>1, <1>2

\* A caller writes its job under the lock, while all threads are before the
\* first barrier.
LEMMA CallsInv ==
  ASSUME CopyInv, NEW c \in Callers, Calls(c)
  PROVE  CopyInv'
<1> USE CopyAssumption DEF CopyInv, Threads
<1>1. CopyTypeOK'
  BY DEF CopyTypeOK, Calls, Jobs, PageContents
<1>2. LockInv'
  BY DEF CopyTypeOK, LockInv, Calls
<1>3. PhaseInv'
  BY DEF CopyTypeOK, LockInv, PhaseInv, Calls
<1>4. JobInv'
  <2>1. PICK v \in PageContents :
          /\ task' = [task EXCEPT ![c] = v]
          /\ job' = [dst |-> c, src |-> IF v = 0 THEN job.src ELSE v, write_zeros |-> v = 0]
    BY DEF Calls
  <2>2. job'.dst = c /\ ValueOf(job)' = v /\ task'[c] = v
    BY <2>1 DEF ValueOf, CopyTypeOK
  <2>3. \A t \in CopyThreads : step'[t] = "begin"
    BY DEF CopyTypeOK, LockInv, PhaseInv, Calls
  <2>4. \A d \in Callers : d # c => step'[d] = "idle"
    BY DEF CopyTypeOK, LockInv, Calls
  <2> QED
    BY <2>2, <2>3, <2>4 DEF JobInv
<1>5. CopyComplete'
  BY DEF CopyTypeOK, LockInv, CopyComplete, Calls
<1> QED
  BY <1>1, <1>2, <1>3, <1>4, <1>5

\* The caller leaves when the destination is complete.
LEMMA ReturnsInv ==
  ASSUME CopyInv, NEW c \in Callers, Returns(c)
  PROVE  CopyInv'
<1> USE CopyAssumption DEF CopyInv, Threads
<1>1. CopyTypeOK' /\ LockInv' /\ PhaseInv'
  BY DEF CopyTypeOK, LockInv, PhaseInv, Returns
<1>2. JobInv' /\ CopyComplete'
  BY DEF CopyTypeOK, LockInv, JobInv, CopyComplete, Returns, ValueOf
<1> QED
  BY <1>1, <1>2

\* The job a thread reads is that of the caller that waits at the second
\* barrier.
LEMMA GrabsInv ==
  ASSUME CopyInv, NEW t \in CopyThreads, Grabs(t)
  PROVE  CopyInv'
<1> USE CopyAssumption DEF CopyInv, Threads
<1>1. CopyTypeOK' /\ LockInv' /\ PhaseInv'
  BY DEF CopyTypeOK, LockInv, PhaseInv, Grabs
<1>2. JobInv' /\ CopyComplete'
  BY DEF CopyTypeOK, LockInv, JobInv, CopyComplete, Grabs, ValueOf
<1> QED
  BY <1>1, <1>2

\* A thread writes its own chunk of that caller's destination.
LEMMA CopiesInv ==
  ASSUME CopyInv, NEW t \in CopyThreads, Copies(t)
  PROVE  CopyInv'
<1> USE CopyAssumption DEF CopyInv, Threads
<1>1. PICK c \in Callers : step[c] = "finish"
  BY DEF PhaseInv, Copies
<1>2. lock = c /\ mine[t] = job /\ job.dst = c /\ ValueOf(job) = task[c]
  BY <1>1 DEF LockInv, JobInv, Copies
<1>3. mem' = [mem EXCEPT ![c][t] = task[c]] /\ task[c] \in PageContents
  BY <1>2 DEF Copies, ValueOf, CopyTypeOK
<1>4. CopyTypeOK'
  <2>1. mem' \in [Callers -> [CopyThreads -> PageContents]]
    BY <1>3 DEF CopyTypeOK
  <2>2. step' = [step EXCEPT ![t] = "end"]
    BY DEF Copies
  <2> QED
    BY <2>1, <2>2 DEF CopyTypeOK, Copies
<1>5. LockInv' /\ PhaseInv'
  BY DEF CopyTypeOK, LockInv, PhaseInv, Copies
<1>6. JobInv' /\ CopyComplete'
  BY <1>1, <1>2, <1>3 DEF CopyTypeOK, LockInv, JobInv, CopyComplete, Copies, ValueOf
<1> QED
  BY <1>4, <1>5, <1>6

-----------------------------------------------------------------------------
(* The copy threads: the theorems.                                         *)

\* The invariant holds in every reachable state.
THEOREM CopyInvariance == CopySpec => []CopyInv
<1>1. CopyInit => CopyInv
  BY CopyAssumption DEF CopyInit, CopyInv, CopyTypeOK, LockInv, PhaseInv, JobInv, CopyComplete,
     NoJob, Jobs, PageContents, Threads
<1>2. CopyInv /\ [CopyNext]_copyVars => CopyInv'
  <2> SUFFICES ASSUME CopyInv, [CopyNext]_copyVars PROVE CopyInv'
    OBVIOUS
  <2>1. CASE CopyNext
    BY <2>1, BarrierInv, CallsInv, ReturnsInv, GrabsInv, CopiesInv DEF CopyNext
  <2>2. CASE UNCHANGED copyVars
    BY <2>2 DEF copyVars, CopyInv, CopyTypeOK, LockInv, PhaseInv, JobInv, CopyComplete, ValueOf
  <2> QED
    BY <2>1, <2>2
<1> QED
  BY <1>1, <1>2, PTL DEF CopySpec

\* Whatever the numbers of threads and callers, hemem_parallel_memcpy and
\* hemem_parallel_memset return with the whole destination written, and it
\* stays so until the same caller's next call.
THEOREM CopiesComplete == CopySpec => []CopyComplete
<1>1. CopyInv => CopyComplete
  BY DEF CopyInv
<1> QED
  BY <1>1, CopyInvariance, PTL
=============================================================================
