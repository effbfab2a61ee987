-------------------------- MODULE PebsPolicyProofs --------------------------
(***************************************************************************)
(* What holds of the PEBS policy whatever overlaps with what: no page is   *)
(* in two places, and no page is requested or handed back twice, for any   *)
(* frames, addresses, application threads and thresholds.                  *)
(***************************************************************************)
EXTENDS PebsPolicy, ListLemmas, SequenceTheorems, FiniteSetTheorems, TLAPS

-----------------------------------------------------------------------------
(* The inductive invariant.                                                *)

\* The pages on each list.
Members == [l \in AllLists |-> Elems(lists[l])]

\* Which locals are in use at which place.
LocalsInv ==
  /\ pol.page # NULL <=> pol.pc \in {"release", "make hot", "make cold"}
  /\ pol.p # NULL <=> pol.pc \in {"test", "try", "victim", "frame", "down", "swap down",
                                  "up", "swap up"}
  /\ pol.np # NULL <=> pol.pc \in {"up", "swap up", "down", "swap down"}
  /\ pol.cp # NULL <=> pol.pc \in {"frame", "down", "swap down"}
  /\ scan.page # NULL <=> scan.pc # "idle"
  /\ \A a \in Apps :
       /\ app[a].page # NULL <=> app[a].pc \notin {"idle", "dequeue", "dequeue nvm"}
       /\ app[a].va # NULL <=> app[a].pc # "idle"

\* Every entry of the hot and the cold ring is marked, and so is the page
\* whose request is being served; a page has one request in all.
RequestInv ==
  /\ Distinct(hot_ring) /\ Distinct(cold_ring)
  /\ Elems(hot_ring) \cap Elems(cold_ring) = {}
  /\ \A p \in Elems(hot_ring) \cup Elems(cold_ring) : page[p].ring_present
  /\ pol.pc \in {"make hot", "make cold"} =>
       /\ page[pol.page].ring_present
       /\ pol.page \notin Elems(hot_ring) \cup Elems(cold_ring)

\* A page is on one list, or in the hands of one thread.  This is OneOwner,
\* in terms of the sets of pages on the lists.
Apart(M, H) ==
  /\ \A l, m \in AllLists : \A p \in M[l] : p \in M[m] => l = m
  /\ \A l \in AllLists : M[l] \cap H = {}
HandsInv ==
  /\ pol.p # NULL => pol.p \notin {pol.np, pol.cp}
  /\ pol.np # NULL => pol.np # pol.cp
  /\ \A a \in AppHands : app[a].page \notin {pol.p, pol.np, pol.cp}
  /\ \A a, b \in AppHands : app[a].page = app[b].page => a = b
OwnerInv == (\A l \in AllLists : Distinct(lists[l])) /\ Apart(Members, InHand) /\ HandsInv

\* The threads inside a mmap that has a page and has not yet entered it in
\* the table, and those inside a munmap that has not yet published its page.
Allocating(a) == app[a].pc \in {"present", "enqueue", "offset", "map", "track"}
Publishing(a) == app[a].pc = "publish"

\* The pages a munmap has taken out of the table and the policy thread has
\* not freed.
Doomed(p) ==
  \/ p \in Elems(free_page_ring)
  \/ pol.pc = "release" /\ pol.page = p
  \/ \E a \in Apps : Publishing(a) /\ app[a].page = p

\* The pages on the free lists or taken from one as the target of a migration.
Free(p) == (\E t \in Tiers : p \in Members[<<t, "free">>]) \/ p = pol.np

\* A page is in the table once, or free, or being allocated by one thread,
\* or on its way to a free list, and never two of these.
LifeInv ==
  /\ \A v, w \in Vas : pages[v] # NULL /\ pages[v] = pages[w] => v = w
  /\ \A v \in Vas : pages[v] # NULL =>
       /\ ~Free(pages[v]) /\ ~Doomed(pages[v])
       /\ \A a \in Apps : Allocating(a) => app[a].page # pages[v]
  /\ \A a \in Apps : Allocating(a) =>
       /\ ~Free(app[a].page) /\ ~Doomed(app[a].page)
       /\ \A b \in Apps : Allocating(b) /\ app[a].page = app[b].page => a = b
  /\ \A p \in Pages : Doomed(p) => ~Free(p)

\* A page is on its way to a free list once.
DoomedInv ==
  /\ Distinct(free_page_ring)
  /\ pol.pc = "release" => pol.page \notin Elems(free_page_ring)
  /\ \A a \in Apps : Publishing(a) =>
       /\ app[a].page \notin Elems(free_page_ring)
       /\ pol.pc = "release" => app[a].page # pol.page
       /\ \A b \in Apps : Publishing(b) /\ app[a].page = app[b].page => a = b

\* The calls of two threads are about different addresses, and what munmap has
\* found in the table is there until it takes it out.
CallsInv ==
  /\ \A a, b \in Apps : app[a].va # NULL /\ app[a].va = app[b].va => a = b
  /\ \A a \in Apps : app[a].pc = "remove" => pages[app[a].va] = app[a].page

IndInv == TypeOK /\ LocalsInv /\ OwnerInv /\ RequestInv /\ LifeInv /\ DoomedInv

-----------------------------------------------------------------------------
(* The operations on lists and rings, as operations on the sets of their   *)
(* members.                                                                *)

\* A page that is not on the list comes to it.
LEMMA EnqueueAdds ==
  ASSUME NEW s \in Seq(Pages), NEW g \in Pages
  PROVE  /\ Enqueue(s, g) \in Seq(Pages)
         /\ Elems(Enqueue(s, g)) = Elems(s) \cup {g}
         /\ Distinct(s) /\ g \notin Elems(s) => Distinct(Enqueue(s, g))
<1> DEFINE r == Enqueue(s, g)
<1>1. /\ r \in Seq(Pages) /\ Len(r) = Len(s) + 1 /\ Len(s) \in Nat
      /\ \A i \in 1 .. Len(s) + 1 : r[i] = IF i = 1 THEN g ELSE s[i - 1]
  BY Prepend DEF Enqueue
<1> HIDE DEF r
<1>2. ASSUME NEW h \in Elems(s)
      PROVE  h \in Elems(r)
  <2>1. PICK i \in 1 .. Len(s) : s[i] = h
    BY DEF Elems
  <2>2. i + 1 \in 1 .. Len(r) /\ r[i + 1] = h
    BY <1>1, <2>1
  <2> QED
    BY <2>2 DEF Elems
<1>3. g \in Elems(r)
  <2>1. 1 \in 1 .. Len(r) /\ r[1] = g
    BY <1>1
  <2> QED
    BY <2>1 DEF Elems
<1>4. Elems(r) \subseteq Elems(s) \cup {g}
  BY <1>1 DEF Elems
<1>5. ASSUME Distinct(s), g \notin Elems(s)
      PROVE  Distinct(r)
  <2>1. \A i \in 1 .. Len(s) : s[i] # g
    BY <1>5 DEF Elems
  <2>2. ASSUME NEW i \in 1 .. Len(r), NEW j \in 1 .. Len(r), r[i] = r[j]
        PROVE  i = j
    <3>1. i # 1 => i - 1 \in 1 .. Len(s) /\ r[i] = s[i - 1]
      BY <1>1
    <3>2. j # 1 => j - 1 \in 1 .. Len(s) /\ r[j] = s[j - 1]
      BY <1>1
    <3>3. r[1] = g
      BY <1>1
    <3>4. i # 1 /\ j # 1 => i - 1 = j - 1
      BY <1>5, <2>2, <3>1, <3>2 DEF Distinct
    <3> QED
      BY <1>1, <2>1, <2>2, <3>1, <3>2, <3>3, <3>4
  <2> QED
    BY <2>2 DEF Distinct
<1> QED
  BY <1>1, <1>2, <1>3, <1>4, <1>5 DEF r

\* The last page leaves, and no other.
LEMMA DequeueTakes ==
  ASSUME NEW s \in Seq(Pages), s # << >>, Distinct(s)
  PROVE  /\ Dequeue(s) \in Seq(Pages) /\ Distinct(Dequeue(s))
         /\ LastOf(s) \in Pages /\ LastOf(s) \in Elems(s)
         /\ Elems(Dequeue(s)) = Elems(s) \ {LastOf(s)}
<1> DEFINE r == Dequeue(s)
<1>1. /\ Len(s) \in Nat /\ Len(s) # 0 /\ LastOf(s) = s[Len(s)]
      /\ \A i \in 1 .. Len(s) : s[i] \in Pages
  BY DEF LastOf
<1>2. /\ r \in Seq(Pages) /\ Len(r) = Len(s) - 1
      /\ \A i \in 1 .. Len(s) - 1 : r[i] = s[i]
  BY <1>1, DropLast DEF Dequeue
<1> HIDE DEF r
<1>3. Distinct(r)
  BY <1>1, <1>2 DEF Distinct
<1>4. LastOf(s) \in Elems(s) /\ LastOf(s) \in Pages
  BY <1>1 DEF Elems
<1>5. Elems(r) \subseteq Elems(s) \ {LastOf(s)}
  BY <1>1, <1>2 DEF Elems, Distinct
<1>6. ASSUME NEW h \in Elems(s), h # LastOf(s)
      PROVE  h \in Elems(r)
  <2>1. PICK i \in 1 .. Len(s) : s[i] = h
    BY DEF Elems
  <2>2. i \in 1 .. Len(r) /\ r[i] = h
    BY <1>1, <1>2, <1>6, <2>1
  <2> QED
    BY <2>2 DEF Elems
<1> QED
  BY <1>2, <1>3, <1>4, <1>5, <1>6 DEF r

\* Index finds a page that is on the list.
LEMMA IndexFinds ==
  ASSUME NEW s \in Seq(Pages), NEW g \in Elems(s)
  PROVE  Index(s, g) \in 1 .. Len(s) /\ s[Index(s, g)] = g
<1>1. \E i \in 1 .. Len(s) : s[i] = g
  BY DEF Elems
<1> QED
  BY <1>1 DEF Index

\* The page leaves, and no other.
LEMMA RemoveTakes ==
  ASSUME NEW s \in Seq(Pages), Distinct(s), NEW g
  PROVE  /\ RemoveFrom(s, g) \in Seq(Pages) /\ Distinct(RemoveFrom(s, g))
         /\ Elems(RemoveFrom(s, g)) = Elems(s) \ {g}
<1>1. CASE g \notin Elems(s)
  BY <1>1 DEF RemoveFrom
<1>2. CASE g \in Elems(s)
  <2> DEFINE k == Index(s, g)
             r == RemoveFrom(s, g)
  <2>1. k \in 1 .. Len(s) /\ s[k] = g /\ Len(s) \in Nat
    BY <1>2, IndexFinds
  <2>2. /\ r \in Seq(Pages) /\ Len(r) = Len(s) - 1
        /\ \A i \in 1 .. Len(s) - 1 : r[i] = IF i < k THEN s[i] ELSE s[i + 1]
    <3>1. r = SubSeq(s, 1, k - 1) \o SubSeq(s, k + 1, Len(s))
      BY <1>2 DEF RemoveFrom
    <3> HIDE DEF k, r
    <3> QED
      BY <2>1, <3>1, Drop
  <2> HIDE DEF k, r
  <2>3. Distinct(r)
    BY <2>1, <2>2 DEF Distinct
  <2>4. Elems(r) \subseteq Elems(s) \ {g}
    BY <2>1, <2>2 DEF Elems, Distinct
  <2>5. ASSUME NEW h \in Elems(s), h # g
        PROVE  h \in Elems(r)
    <3>1. PICK i \in 1 .. Len(s) : s[i] = h
      BY DEF Elems
    <3>2. CASE i < k
      <4>1. i \in 1 .. Len(r) /\ r[i] = h
        BY <2>1, <2>2, <3>1, <3>2
      <4> QED
        BY <4>1 DEF Elems
    <3>3. CASE k < i
      <4>1. i - 1 \in 1 .. Len(r) /\ r[i - 1] = h
        BY <2>1, <2>2, <3>1, <3>3
      <4> QED
        BY <4>1 DEF Elems
    <3>4. i # k
      BY <2>1, <2>5, <3>1
    <3> QED
      BY <2>1, <3>2, <3>3, <3>4
  <2> QED
    BY <2>2, <2>3, <2>4, <2>5 DEF r
<1> QED
  BY <1>1, <1>2

\* The cooling cursor goes to a page of the list, or to none.
LEMMA NeighboursListed ==
  ASSUME NEW s \in Seq(Pages), Distinct(s), NEW g \in Elems(s)
  PROVE  /\ PrevIn(s, g) # NULL => PrevIn(s, g) \in Elems(s) \ {g}
         /\ NextIn(s, g) # NULL => NextIn(s, g) \in Elems(s) \ {g}
<1> DEFINE k == Index(s, g)
<1>1. k \in 1 .. Len(s) /\ s[k] = g /\ Len(s) \in Nat
  BY IndexFinds
<1>2. /\ PrevIn(s, g) = IF k = 1 THEN NULL ELSE s[k - 1]
      /\ NextIn(s, g) = IF k = Len(s) THEN NULL ELSE s[k + 1]
  BY DEF PrevIn, NextIn
<1> HIDE DEF k
<1>3. ASSUME NEW i \in 1 .. Len(s)
      PROVE  s[i] \in Elems(s)
  BY DEF Elems
<1>4. k # 1 => k - 1 \in 1 .. Len(s) /\ k - 1 # k
  BY <1>1
<1>5. k # Len(s) => k + 1 \in 1 .. Len(s) /\ k + 1 # k
  BY <1>1
<1> QED
  BY <1>1, <1>2, <1>3, <1>4, <1>5 DEF Distinct

\* The ends of a list.
LEMMA EndsListed ==
  ASSUME NEW s \in Seq(Pages)
  PROVE  /\ LastOf(s) # NULL => LastOf(s) \in Elems(s)
         /\ FirstOf(s) # NULL => FirstOf(s) \in Elems(s)
         /\ Elems(s) \subseteq Pages
BY DEF LastOf, FirstOf, Elems

\* ring_buf_put adds the page at the end of a ring.
LEMMA AppendAdds ==
  ASSUME NEW s \in Seq(Pages), NEW g \in Pages
  PROVE  /\ Append(s, g) \in Seq(Pages)
         /\ Elems(Append(s, g)) = Elems(s) \cup {g}
         /\ Distinct(s) /\ g \notin Elems(s) => Distinct(Append(s, g))
<1> DEFINE r == Append(s, g)
<1>1. /\ r \in Seq(Pages) /\ Len(r) = Len(s) + 1 /\ Len(s) \in Nat
      /\ r[Len(s) + 1] = g /\ \A i \in 1 .. Len(s) : r[i] = s[i]
  OBVIOUS
<1> HIDE DEF r
<1>2. ASSUME NEW h \in Elems(s)
      PROVE  h \in Elems(r)
  <2>1. PICK i \in 1 .. Len(s) : s[i] = h
    BY DEF Elems
  <2>2. i \in 1 .. Len(r) /\ r[i] = h
    BY <1>1, <2>1
  <2> QED
    BY <2>2 DEF Elems
<1>3. g \in Elems(r)
  <2>1. Len(r) \in 1 .. Len(r) /\ r[Len(r)] = g
    BY <1>1
  <2> QED
    BY <2>1 DEF Elems
<1>4. Elems(r) \subseteq Elems(s) \cup {g}
  BY <1>1 DEF Elems
<1>5. ASSUME Distinct(s), g \notin Elems(s)
      PROVE  Distinct(r)
  BY <1>1, <1>5 DEF Distinct, Elems
<1> QED
  BY <1>1, <1>2, <1>3, <1>4, <1>5 DEF r

\* ring_buf_get takes the page at the beginning.
LEMMA HeadLeaves ==
  ASSUME NEW s \in Seq(Pages), s # << >>, Distinct(s)
  PROVE  /\ Tail(s) \in Seq(Pages) /\ Distinct(Tail(s))
         /\ Head(s) \in Pages /\ Head(s) \in Elems(s)
         /\ Elems(Tail(s)) = Elems(s) \ {Head(s)}
<1> DEFINE r == Tail(s)
<1>1. /\ r \in Seq(Pages) /\ Len(r) = Len(s) - 1 /\ Len(s) \in Nat /\ Len(s) # 0
      /\ Head(s) = s[1] /\ \A i \in 1 .. Len(s) - 1 : r[i] = s[i + 1]
      /\ \A i \in 1 .. Len(s) : s[i] \in Pages
  OBVIOUS
<1> HIDE DEF r
<1>2. Distinct(r)
  BY <1>1 DEF Distinct
<1>3. Head(s) \in Elems(s) /\ Head(s) \in Pages
  BY <1>1 DEF Elems
<1>4. Elems(r) \subseteq Elems(s) \ {Head(s)}
  BY <1>1 DEF Elems, Distinct
<1>5. ASSUME NEW h \in Elems(s), h # Head(s)
      PROVE  h \in Elems(r)
  <2>1. PICK i \in 1 .. Len(s) : s[i] = h
    BY DEF Elems
  <2>2. i - 1 \in 1 .. Len(r) /\ r[i - 1] = h
    BY <1>1, <1>5, <2>1
  <2> QED
    BY <2>2 DEF Elems
<1> QED
  BY <1>1, <1>2, <1>3, <1>4, <1>5 DEF r

-----------------------------------------------------------------------------
(* The changes of the lists.                                               *)

\* Nothing but the pages of the lists matters to who owns a page.
ListsType == lists \in [AllLists -> Seq(Pages)] /\ \A l \in AllLists : Distinct(lists[l])

\* dequeue_fifo.
LEMMA TakeLast ==
  ASSUME ListsType, NEW l \in AllLists, lists[l] # << >>,
         lists' = [lists EXCEPT ![l] = Dequeue(@)]
  PROVE  /\ ListsType'
         /\ LastOf(lists[l]) \in Pages /\ LastOf(lists[l]) \in Members[l]
         /\ Members' = [Members EXCEPT ![l] = @ \ {LastOf(lists[l])}]
<1> DEFINE s == lists[l]
<1>1. s \in Seq(Pages) /\ s # << >> /\ Distinct(s)
  BY DEF ListsType
<1>2. lists' = [lists EXCEPT ![l] = Dequeue(s)]
  OBVIOUS
<1>3. LastOf(lists[l]) = LastOf(s) /\ Members[l] = Elems(s)
  BY DEF Members
<1> HIDE DEF s
<1>4. /\ Dequeue(s) \in Seq(Pages) /\ Distinct(Dequeue(s))
      /\ LastOf(s) \in Pages /\ LastOf(s) \in Elems(s)
      /\ Elems(Dequeue(s)) = Elems(s) \ {LastOf(s)}
  BY <1>1, DequeueTakes
<1> QED
  BY <1>2, <1>3, <1>4 DEF ListsType, Members

\* enqueue_fifo.
LEMMA PutFirst ==
  ASSUME ListsType, NEW l \in AllLists, NEW g \in Pages, g \notin Members[l],
         lists' = [lists EXCEPT ![l] = Enqueue(@, g)]
  PROVE  ListsType' /\ Members' = [Members EXCEPT ![l] = @ \cup {g}]
<1> DEFINE s == lists[l]
<1>1. s \in Seq(Pages) /\ Distinct(s)
  BY DEF ListsType
<1>2. lists' = [lists EXCEPT ![l] = Enqueue(s, g)]
  OBVIOUS
<1>3. Members[l] = Elems(s)
  BY DEF Members
<1> HIDE DEF s
<1>4. /\ Enqueue(s, g) \in Seq(Pages) /\ Distinct(Enqueue(s, g))
      /\ Elems(Enqueue(s, g)) = Elems(s) \cup {g}
  BY <1>1, <1>3, EnqueueAdds
<1> QED
  BY <1>2, <1>3, <1>4 DEF ListsType, Members

\* Two pages come to two lists.
BothPut(l, g, m, h) == lists' = [lists EXCEPT ![l] = Enqueue(@, g), ![m] = Enqueue(@, h)]
LEMMA PutTwo ==
  ASSUME ListsType, NEW l \in AllLists, NEW m \in AllLists, l # m,
         NEW g \in Pages, g \notin Members[l], NEW h \in Pages, h \notin Members[m],
         BothPut(l, g, m, h)
  PROVE  ListsType' /\ Members' = [Members EXCEPT ![l] = @ \cup {g}, ![m] = @ \cup {h}]
<1> DEFINE s == lists[l]
           r == lists[m]
<1>1. s \in Seq(Pages) /\ Distinct(s) /\ r \in Seq(Pages) /\ Distinct(r)
  BY DEF ListsType
<1>2. lists' = [lists EXCEPT ![l] = Enqueue(s, g), ![m] = Enqueue(r, h)]
  BY DEF ListsType, BothPut
<1>3. Members[l] = Elems(s) /\ Members[m] = Elems(r)
  BY DEF Members
<1> HIDE DEF s, r
<1>4. /\ Enqueue(s, g) \in Seq(Pages) /\ Distinct(Enqueue(s, g))
      /\ Elems(Enqueue(s, g)) = Elems(s) \cup {g}
  BY <1>1, <1>3, EnqueueAdds
<1>5. /\ Enqueue(r, h) \in Seq(Pages) /\ Distinct(Enqueue(r, h))
      /\ Elems(Enqueue(r, h)) = Elems(r) \cup {h}
  BY <1>1, <1>3, EnqueueAdds
<1> QED
  BY <1>2, <1>3, <1>4, <1>5 DEF ListsType, Members

\* A page goes from one list to another.
Moves(l, m, g) == lists' = [lists EXCEPT ![l] = RemoveFrom(@, g), ![m] = Enqueue(@, g)]
LEMMA MoveTo ==
  ASSUME ListsType, NEW l \in AllLists, NEW m \in AllLists, l # m,
         NEW g \in Pages, g \notin Members[m], Moves(l, m, g)
  PROVE  ListsType' /\ Members' = [Members EXCEPT ![l] = @ \ {g}, ![m] = @ \cup {g}]
<1> DEFINE s == lists[l]
           r == lists[m]
<1>1. s \in Seq(Pages) /\ Distinct(s) /\ r \in Seq(Pages) /\ Distinct(r)
  BY DEF ListsType
<1>2. lists' = [lists EXCEPT ![l] = RemoveFrom(s, g), ![m] = Enqueue(r, g)]
  BY DEF ListsType, Moves
<1>3. Members[l] = Elems(s) /\ Members[m] = Elems(r)
  BY DEF Members
<1> HIDE DEF s, r
<1>4. /\ RemoveFrom(s, g) \in Seq(Pages) /\ Distinct(RemoveFrom(s, g))
      /\ Elems(RemoveFrom(s, g)) = Elems(s) \ {g}
  BY <1>1, RemoveTakes
<1>5. /\ Enqueue(r, g) \in Seq(Pages) /\ Distinct(Enqueue(r, g))
      /\ Elems(Enqueue(r, g)) = Elems(r) \cup {g}
  BY <1>1, <1>3, EnqueueAdds
<1> QED
  BY <1>2, <1>3, <1>4, <1>5 DEF ListsType, Members

\* A page goes to one list from wherever it is.
LEMMA MoveHome ==
  ASSUME ListsType, NEW m \in AllLists, NEW g \in Pages,
         lists' = [l \in AllLists |-> IF l = m THEN Enqueue(RemoveFrom(lists[l], g), g)
                                      ELSE RemoveFrom(lists[l], g)]
  PROVE  /\ ListsType'
         /\ Members' = [l \in AllLists |-> IF l = m THEN Members[l] \cup {g}
                                           ELSE Members[l] \ {g}]
<1>1. ASSUME NEW l \in AllLists
      PROVE  /\ RemoveFrom(lists[l], g) \in Seq(Pages) /\ Distinct(RemoveFrom(lists[l], g))
             /\ Elems(RemoveFrom(lists[l], g)) = Elems(lists[l]) \ {g}
  <2>1. lists[l] \in Seq(Pages) /\ Distinct(lists[l])
    BY DEF ListsType
  <2> QED
    BY <2>1, RemoveTakes
<1> DEFINE r == RemoveFrom(lists[m], g)
<1>2. /\ Enqueue(r, g) \in Seq(Pages) /\ Distinct(Enqueue(r, g))
      /\ Elems(Enqueue(r, g)) = Elems(lists[m]) \cup {g}
  <2>1. /\ r \in Seq(Pages) /\ Distinct(r) /\ Elems(r) = Elems(lists[m]) \ {g}
    BY <1>1
  <2> HIDE DEF r
  <2> QED
    BY <2>1, EnqueueAdds
<1> QED
  BY <1>1, <1>2 DEF ListsType, Members

\* What these changes do to the owners: a page that leaves a list is on none ...
LEMMA TakenIsOff ==
  ASSUME Apart(Members, InHand), NEW l \in AllLists, NEW g \in Members[l],
         Members' = [Members EXCEPT ![l] = @ \ {g}]
  PROVE  \A m \in AllLists : Members'[m] \subseteq Members[m] /\ g \notin Members'[m]
<1>1. DOMAIN Members = AllLists
  BY DEF Members
<1> QED
  BY <1>1 DEF Apart

\* ... and may be in somebody's hands ...
LEMMA ApartTake ==
  ASSUME Apart(Members, InHand), NEW l \in AllLists, NEW g \in Members[l],
         Members' = [Members EXCEPT ![l] = @ \ {g}], InHand' \subseteq InHand \cup {g}
  PROVE  Apart(Members, InHand)'
<1>1. \A m \in AllLists : Members'[m] \subseteq Members[m] /\ g \notin Members'[m]
  BY TakenIsOff
<1> QED
  BY <1>1 DEF Apart

\* ... a page comes to a list from somebody's hands ...
LEMMA ApartPut ==
  ASSUME Apart(Members, InHand), NEW l \in AllLists, NEW g \in InHand,
         Members' = [Members EXCEPT ![l] = @ \cup {g}], InHand' \subseteq InHand \ {g}
  PROVE  Apart(Members, InHand)'
<1>1. DOMAIN Members = AllLists
  BY DEF Members
<1>2. Members'[l] = Members[l] \cup {g} /\ \A m \in AllLists \ {l} : Members'[m] = Members[m]
  BY <1>1
<1>3. \A m \in AllLists : g \notin Members[m]
  BY DEF Apart
<1> QED
  BY <1>2, <1>3 DEF Apart

\* ... or two pages to two lists ...
LEMMA ApartPutTwo ==
  ASSUME Apart(Members, InHand), NEW l \in AllLists, NEW m \in AllLists, l # m,
         NEW g \in InHand, NEW h \in InHand, g # h,
         Members' = [Members EXCEPT ![l] = @ \cup {g}, ![m] = @ \cup {h}],
         InHand' \subseteq InHand \ {g, h}
  PROVE  Apart(Members, InHand)'
<1>1. DOMAIN Members = AllLists
  BY DEF Members
<1>2. /\ Members'[l] = Members[l] \cup {g} /\ Members'[m] = Members[m] \cup {h}
      /\ \A n \in AllLists \ {l, m} : Members'[n] = Members[n]
  BY <1>1
<1>3. \A n \in AllLists : g \notin Members[n] /\ h \notin Members[n]
  BY DEF Apart
<1>4. ASSUME NEW n \in AllLists, NEW k \in AllLists, NEW p \in Members'[n], p \in Members'[k]
      PROVE  n = k
  <2>1. p \in Members[n] \/ (p = g /\ n = l) \/ (p = h /\ n = m)
    BY <1>2
  <2>2. p \in Members[k] \/ (p = g /\ k = l) \/ (p = h /\ k = m)
    BY <1>2, <1>4
  <2>3. p \in Members[n] /\ p \in Members[k] => n = k
    BY DEF Apart
  <2> QED
    BY <1>3, <2>1, <2>2, <2>3
<1>5. ASSUME NEW n \in AllLists
      PROVE  Members'[n] \cap InHand' = {}
  BY <1>2, <1>3 DEF Apart
<1> QED
  BY <1>4, <1>5 DEF Apart

\* ... or changes lists.
LEMMA ApartMove ==
  ASSUME Apart(Members, InHand), NEW l \in AllLists, NEW k \in AllLists, NEW g \in Members[k],
         Members'[l] = Members[l] \cup {g},
         \A m \in AllLists \ {l} : Members'[m] = Members[m] \ {g}, InHand' = InHand
  PROVE  Apart(Members, InHand)'
BY DEF Apart
-----------------------------------------------------------------------------
(* What an action does not disturb.                                        *)

\* The places of the application threads that the invariant tells apart.
AppKept(b) ==
  /\ Allocating(b)' <=> Allocating(b)
  /\ Publishing(b)' <=> Publishing(b)
  /\ app'[b].pc \in {"present", "enqueue"} <=> app[b].pc \in {"present", "enqueue"}
  /\ Allocating(b) \/ Publishing(b) => app'[b].page = app[b].page
PolicyKept ==
  /\ pol'.p = pol.p /\ pol'.np = pol.np /\ pol'.cp = pol.cp
  /\ pol'.pc = "release" <=> pol.pc = "release"
  /\ pol.pc = "release" => pol'.page = pol.page

\* A page has the same owner when lists and hands are the same.
LEMMA OwnersUndisturbed ==
  ASSUME OwnerInv, UNCHANGED lists, PolicyKept, \A b \in Apps : AppKept(b)
  PROVE  OwnerInv'
<1>1. Members' = Members
  BY DEF Members
<1>2. AppHands' = AppHands /\ \A b \in AppHands : app'[b].page = app[b].page
  BY DEF AppHands, AppKept, Allocating
<1>3. InHand' = InHand
  BY <1>2 DEF InHand, PolicyHands, PolicyKept
<1>4. HandsInv'
  BY <1>2 DEF OwnerInv, HandsInv, PolicyKept
<1> QED
  BY <1>1, <1>3, <1>4 DEF OwnerInv, Distinct

\* No request comes or goes.
LEMMA RequestsUndisturbed ==
  ASSUME TypeOK, LocalsInv, RequestInv, UNCHANGED <<hot_ring, cold_ring>>,
         \A p \in Pages : page'[p].ring_present = page[p].ring_present,
         pol'.pc \in {"make hot", "make cold"} =>
           pol'.page = pol.page /\ pol.pc \in {"make hot", "make cold"}
  PROVE  RequestInv'
<1>1. Elems(hot_ring) \subseteq Pages /\ Elems(cold_ring) \subseteq Pages
  BY EndsListed DEF TypeOK
<1>2. pol.pc \in {"make hot", "make cold"} => pol.page \in Pages
  BY DEF TypeOK, PolicyType, PagesOrNull, LocalsInv
<1>3. /\ Distinct(hot_ring') /\ Distinct(cold_ring')
      /\ Elems(hot_ring') = Elems(hot_ring) /\ Elems(cold_ring') = Elems(cold_ring)
  BY DEF RequestInv
<1> QED
  BY <1>1, <1>2, <1>3 DEF RequestInv

\* A page is at the same place between two lives.
LEMMA LifeUndisturbed ==
  ASSUME LifeInv, UNCHANGED <<pages, free_page_ring>>, PolicyKept, \A b \in Apps : AppKept(b),
         \A t \in Tiers : Members'[<<t, "free">>] = Members[<<t, "free">>]
  PROVE  LifeInv'
<1>1. ASSUME NEW p
      PROVE  /\ Free(p)' <=> Free(p)
             /\ Doomed(p)' <=> Doomed(p)
  BY DEF Free, Doomed, AppKept, PolicyKept, Publishing, Elems
<1> QED
  BY <1>1 DEF LifeInv, AppKept

\* No page begins or ends its way to a free list.
LEMMA DoomedUndisturbed ==
  ASSUME DoomedInv, UNCHANGED free_page_ring, PolicyKept, \A b \in Apps : AppKept(b)
  PROVE  DoomedInv'
BY DEF DoomedInv, PolicyKept, AppKept, Distinct, Elems

\* A failed assertion stops the process and changes nothing else.
LEMMA AbortInv ==
  ASSUME IndInv, UNCHANGED <<shared, rings, cool, threads>>
  PROVE  IndInv'
<1>1. TypeOK'
  BY DEF IndInv, TypeOK, shared, rings, cool, threads
<1>2. LocalsInv'
  BY DEF IndInv, LocalsInv, threads
<1>3. Members' = Members
  BY DEF Members, shared
<1>4. PolicyKept /\ \A b \in Apps : AppKept(b)
  BY DEF PolicyKept, AppKept, Allocating, Publishing, threads
<1>5. OwnerInv'
  BY <1>4, OwnersUndisturbed DEF IndInv, shared
<1>6. RequestInv'
  BY RequestsUndisturbed DEF IndInv, shared, rings, threads
<1>7. LifeInv'
  BY <1>3, <1>4, LifeUndisturbed DEF IndInv, shared, rings
<1>8. DoomedInv'
  BY <1>4, DoomedUndisturbed DEF IndInv, rings
<1> QED
  BY <1>1, <1>2, <1>5, <1>6, <1>7, <1>8 DEF IndInv

\* The same in an action of the policy or the scan thread that takes and
\* publishes no page.
LEMMA RingsUndisturbed ==
  ASSUME IndInv, UNCHANGED <<pages, free_page_ring, app>>, PolicyKept,
         \A t \in Tiers : Members'[<<t, "free">>] = Members[<<t, "free">>]
  PROVE  LifeInv' /\ DoomedInv'
<1>1. \A b \in Apps : AppKept(b)
  BY DEF AppKept, Allocating, Publishing
<1> QED
  BY <1>1, LifeUndisturbed, DoomedUndisturbed DEF IndInv

\* The same if the lists do not change at all ...
LEMMA PolicyUndisturbed ==
  ASSUME IndInv, UNCHANGED <<lists, pages, free_page_ring, app>>, PolicyKept
  PROVE  OwnerInv' /\ LifeInv' /\ DoomedInv'
<1>1. (\A b \in Apps : AppKept(b)) /\ Members' = Members
  BY DEF AppKept, Allocating, Publishing, Members
<1> QED
  BY <1>1, RingsUndisturbed, OwnersUndisturbed DEF IndInv

\* ... and in an action of an application thread.
LEMMA AppUndisturbed ==
  ASSUME IndInv, UNCHANGED <<lists, pages, hot_ring, cold_ring, free_page_ring, pol>>,
         \A p \in Pages : page'[p].ring_present = page[p].ring_present,
         \A b \in Apps : AppKept(b)
  PROVE  OwnerInv' /\ RequestInv' /\ LifeInv' /\ DoomedInv'
<1>1. PolicyKept /\ Members' = Members
  BY DEF PolicyKept, Members
<1>2. OwnerInv' /\ LifeInv' /\ DoomedInv'
  BY <1>1, OwnersUndisturbed, LifeUndisturbed, DoomedUndisturbed DEF IndInv
<1> QED
  BY <1>2, RequestsUndisturbed DEF IndInv

-----------------------------------------------------------------------------
(* The application threads: mmap.                                          *)

\* A mmap begins without a page.
LEMMA MmapStartInv ==
  ASSUME IndInv, NEW a \in Apps, NEW v \in Vas, MmapStart(a, v)
  PROVE  IndInv'
<1>1. TypeOK'
  <2>0. app \in [Apps -> AppType]
    BY DEF IndInv, TypeOK
  <2>1. app' \in [Apps -> AppType]
    <3>1. app' = [app EXCEPT ![a] = [app[a] EXCEPT !.pc = "dequeue", !.va = v]]
      BY <2>0 DEF MmapStart
    <3>2. [app[a] EXCEPT !.pc = "dequeue", !.va = v] \in AppType
      BY <2>0 DEF AppType
    <3> QED
      BY <2>0, <3>1, <3>2
  <2>2. calls' \in 0 .. MaxCalls
    BY PolicyAssumption DEF IndInv, TypeOK, MmapStart, Call
  <2>3. vm' \in [Vas -> Frames \cup {NULL}]
    BY DEF IndInv, TypeOK, MmapStart, Frames
  <2> QED
    BY <2>1, <2>2, <2>3 DEF IndInv, TypeOK, MmapStart, rings, cool
<1>2. LocalsInv'
  <2>1. app \in [Apps -> AppType] /\ app[a].pc = "idle" /\ LocalsInv /\ v # NULL
    BY PolicyAssumption DEF IndInv, TypeOK, MmapStart, Call, AppAt
  <2>2. /\ app'[a].pc = "dequeue" /\ app'[a].va = v /\ app'[a].page = app[a].page
        /\ \A b \in Apps \ {a} : app'[b] = app[b]
    BY <2>1 DEF AppType, MmapStart
  <2>3. UNCHANGED <<pol, scan>>
    BY DEF MmapStart
  <2> QED
    BY <2>1, <2>2, <2>3 DEF LocalsInv
<1>3. \A b \in Apps : AppKept(b)
  BY DEF IndInv, TypeOK, AppType, AppKept, Allocating, Publishing, MmapStart, Call, AppAt
<1>4. UNCHANGED <<lists, pages, page, pol, hot_ring, cold_ring, free_page_ring>>
  BY DEF MmapStart, rings
<1> QED
  BY <1>1, <1>2, <1>3, <1>4, AppUndisturbed DEF IndInv

\* A thread that has asked for a page and has none yet.
Asking(a) == app[a].pc \in {"dequeue", "dequeue nvm"}

\* The last page of a free list passes into the hands of the thread.
LEMMA AllocateInv ==
  ASSUME IndInv, NEW a \in Apps, NEW t \in Tiers, Asking(a), Allocate(a, t)
  PROVE  IndInv'
<1>1. PICK l, g : l = <<t, "free">> /\ g = LastOf(lists[l])
  OBVIOUS
<1>2. l \in AllLists /\ ListsType
  BY <1>1 DEF IndInv, TypeOK, OwnerInv, ListsType, AllLists, Kinds
<1>3. /\ ListsType' /\ g \in Pages /\ g \in Members[l]
      /\ Members' = [Members EXCEPT ![l] = @ \ {g}]
  BY <1>1, <1>2, TakeLast DEF Allocate
<1>4. \A m \in AllLists : Members'[m] \subseteq Members[m] /\ g \notin Members'[m]
  BY <1>2, <1>3, TakenIsOff DEF IndInv, OwnerInv
<1>5. UNCHANGED <<pol, scan, page, pages, hot_ring, cold_ring, free_page_ring>>
  BY DEF Allocate, rings
<1>6. app \in [Apps -> AppType]
  BY DEF IndInv, TypeOK
<1>7. app' = [app EXCEPT ![a] = [app[a] EXCEPT !.pc = "present", !.page = g, !.tier = t]]
  BY <1>1, <1>6 DEF Allocate
<1>8. app'[a].pc = "present"
  BY <1>6, <1>7 DEF AppType
<1>9. /\ app'[a].page = g /\ app'[a].va = app[a].va
      /\ \A b \in Apps \ {a} : app'[b] = app[b]
  BY <1>6, <1>7 DEF AppType
<1>10. TypeOK'
  <2>1. [app[a] EXCEPT !.pc = "present", !.page = g, !.tier = t] \in AppType
    BY <1>3, <1>6 DEF AppType, PagesOrNull
  <2>2. app' \in [Apps -> AppType]
    BY <1>6, <1>7, <2>1
  <2> QED
    BY <1>3, <2>2 DEF IndInv, TypeOK, Allocate, rings, cool, ListsType
<1>11. LocalsInv'
  <2>1. g # NULL
    BY <1>3, PolicyAssumption DEF Pages
  <2> QED
    BY <1>5, <1>8, <1>9, <2>1 DEF IndInv, LocalsInv, Asking
<1>12. OwnerInv'
  <2>1. AppHands' = AppHands \cup {a} /\ a \notin AppHands
    BY <1>8, <1>9 DEF AppHands, Asking
  <2>2. \A b \in AppHands : app'[b] = app[b]
    BY <1>9, <2>1 DEF AppHands
  <2> app'[a].page = g /\ UNCHANGED pol
    BY <1>5, <1>9
  <2>3. InHand' = InHand \cup {g}
    BY <2>1, <2>2 DEF InHand, PolicyHands
  <2>4. Apart(Members, InHand)' /\ g \notin InHand
    <3>1. Apart(Members, InHand)
      BY DEF IndInv, OwnerInv
    <3>2. g \notin InHand
      BY <1>2, <1>3, <3>1 DEF Apart
    <3> QED
      BY <1>2, <1>3, <2>3, <3>1, <3>2, ApartTake
  <2>5. HandsInv'
    <3>1. HandsInv
      BY DEF IndInv, OwnerInv
    <3>2. g \notin {pol.p, pol.np, pol.cp} /\ \A b \in AppHands : app[b].page # g
      BY <1>3, <2>4, PolicyAssumption DEF InHand, PolicyHands, Pages
    <3> QED
      BY <2>1, <2>2, <3>1, <3>2 DEF HandsInv
  <2> QED
    BY <1>3, <2>4, <2>5 DEF OwnerInv, ListsType
<1>13. RequestInv'
  BY <1>5, RequestsUndisturbed DEF IndInv
<1>14. Allocating(a)' /\ ~Publishing(a)' /\ ~Publishing(a)
  BY <1>8 DEF Allocating, Publishing, Asking
<1>15. \A b \in Apps \ {a} : (Allocating(b)' <=> Allocating(b)) /\ (Publishing(b)' <=> Publishing(b))
  BY <1>9 DEF Allocating, Publishing
<1>16. LifeInv'
  <2>1. Free(g)
    BY <1>1, <1>3 DEF Free
  <2>2. ASSUME NEW p, Free(p)'
        PROVE  Free(p)
    BY <1>4, <1>5, <2>2 DEF Free, AllLists, Kinds
  <2>3. ~Free(g)'
    <3>1. g # pol.np
      BY <1>2, <1>3, PolicyAssumption DEF IndInv, OwnerInv, Apart, InHand, PolicyHands, Pages
    <3> QED
      BY <1>4, <1>5, <3>1 DEF Free, AllLists, Kinds
  <2>4. ASSUME NEW p
        PROVE  Doomed(p)' <=> Doomed(p)
    BY <1>5, <1>9, <1>14, <1>15 DEF Doomed
  <2>5. LifeInv
    BY DEF IndInv
  <2> QED
    BY <1>3, <1>5, <1>9, <1>14, <1>15, <2>1, <2>2, <2>3, <2>4, <2>5 DEF LifeInv
<1>17. DoomedInv'
  BY <1>5, <1>9, <1>14, <1>15 DEF IndInv, DoomedInv
<1> QED
  BY <1>10, <1>11, <1>12, <1>13, <1>16, <1>17 DEF IndInv

\* With no page on the DRAM list the thread goes on to the NVM list.
LEMMA AllocDramInv ==
  ASSUME IndInv, NEW a \in Apps, AllocDram(a)
  PROVE  IndInv'
<1>1. CASE Allocate(a, "dram")
  BY <1>1, AllocateInv DEF AllocDram, AppAt, Asking, Tiers
<1>2. CASE ~Allocate(a, "dram")
  <2>1. /\ app' = [app EXCEPT ![a].pc = "dequeue nvm"]
        /\ UNCHANGED <<shared, rings, cool, pol, scan, failed, calls>>
    BY <1>2 DEF AllocDram, Goto
  <2>2. app \in [Apps -> AppType]
    BY DEF IndInv, TypeOK
  <2>3. TypeOK'
    <3>1. app' \in [Apps -> AppType]
      BY <2>1, <2>2 DEF AppType
    <3> QED
      BY <2>1, <3>1 DEF IndInv, TypeOK, shared, rings, cool
  <2>4. LocalsInv'
    BY <2>1, <2>2 DEF IndInv, AppType, LocalsInv, AllocDram, AppAt
  <2>5. \A b \in Apps : AppKept(b)
    BY <2>1, <2>2 DEF AppType, AppKept, Allocating, Publishing, AllocDram, AppAt
  <2> QED
    BY <2>1, <2>3, <2>4, <2>5, AppUndisturbed DEF IndInv, shared, rings
<1> QED
  BY <1>1, <1>2

\* With no page on either the process stops.
LEMMA AllocNvmInv ==
  ASSUME IndInv, NEW a \in Apps, AllocNvm(a)
  PROVE  IndInv'
<1>1. CASE Allocate(a, "nvm")
  BY <1>1, AllocateInv DEF AllocNvm, AppAt, Asking, Tiers
<1>2. CASE ~Allocate(a, "nvm")
  BY <1>2, AbortInv DEF AllocNvm, Abort
<1> QED
  BY <1>1, <1>2

\* A thread that goes from one place to the next, and has its page all along.
LEMMA GotoInv ==
  ASSUME IndInv, NEW a \in Apps, NEW x \in AppType,
         app' = [app EXCEPT ![a] = x],
         Allocating(a) \/ app[a].pc \in {"clear", "unmap"},
         x.page = app[a].page /\ x.va = app[a].va,
         Allocating(a) => x.pc \in {"present", "enqueue", "offset", "map", "track"},
         x.pc \in {"present", "enqueue"} <=> app[a].pc \in {"present", "enqueue"},
         ~Allocating(a) => x.pc \in {"clear", "unmap"},
         UNCHANGED <<pol, scan>>
  PROVE  LocalsInv' /\ (\A b \in Apps : AppKept(b)) /\ app' \in [Apps -> AppType]
<1>1. app \in [Apps -> AppType]
  BY DEF IndInv, TypeOK
<1>2. app' \in [Apps -> AppType] /\ app'[a] = x /\ \A b \in Apps \ {a} : app'[b] = app[b]
  BY <1>1
<1>3. ASSUME NEW b \in Apps, b # a
      PROVE  AppKept(b)
  BY <1>2, <1>3 DEF AppKept, Allocating, Publishing
<1>4. AppKept(a)
  BY <1>2 DEF AppKept, Allocating, Publishing
<1>5. LocalsInv'
  BY <1>2 DEF IndInv, LocalsInv, Allocating
<1> QED
  BY <1>2, <1>3, <1>4, <1>5

\* The page is marked present.
LEMMA AllocPresentInv ==
  ASSUME IndInv, NEW a \in Apps, AllocPresent(a)
  PROVE  IndInv'
<1>1. CASE TierOf(app[a].page) # app[a].tier \/ page[app[a].page].present
  BY <1>1, AbortInv DEF AllocPresent, Abort
<1>2. CASE ~(TierOf(app[a].page) # app[a].tier \/ page[app[a].page].present)
  <2>1. /\ app' = [app EXCEPT ![a] = [app[a] EXCEPT !.pc = "enqueue"]]
        /\ page' = [page EXCEPT ![app[a].page].present = TRUE]
        /\ UNCHANGED <<lists, pages, vm, rings, cool, pol, scan, failed, calls>>
    BY <1>2 DEF AllocPresent, Goto
  <2>2. app[a] \in AppType /\ app[a].pc = "present"
    BY DEF IndInv, TypeOK, AllocPresent, AppAt
  <2> DEFINE x == [app[a] EXCEPT !.pc = "enqueue"]
  <2>3. x \in AppType /\ x.page = app[a].page /\ x.va = app[a].va /\ x.pc = "enqueue"
    BY <2>2 DEF AppType
  <2> HIDE DEF x
  <2>4. LocalsInv' /\ (\A b \in Apps : AppKept(b)) /\ app' \in [Apps -> AppType]
    BY <2>1, <2>2, <2>3, GotoInv DEF Allocating, x
  <2>5. page \in [Pages -> PageType]
    BY DEF IndInv, TypeOK
  <2>6. /\ page' \in [Pages -> PageType]
        /\ \A p \in Pages : page'[p].ring_present = page[p].ring_present
    BY <2>1, <2>5 DEF PageType
  <2>7. TypeOK'
    BY <2>1, <2>4, <2>6 DEF IndInv, TypeOK, rings, cool
  <2> QED
    BY <2>1, <2>4, <2>6, <2>7, AppUndisturbed DEF IndInv, rings
<1> QED
  BY <1>1, <1>2

\* The page passes from the thread to a cold list.
LEMMA AllocEnqueueInv ==
  ASSUME IndInv, NEW a \in Apps, AllocEnqueue(a)
  PROVE  IndInv'
<1>1. PICK g : g = app[a].page
  OBVIOUS
<1>2. PICK l : l = <<app[a].tier, "cold">>
  OBVIOUS
<1>3. /\ app' = [app EXCEPT ![a] = [app[a] EXCEPT !.pc = "offset"]]
      /\ lists' = [lists EXCEPT ![l] = Enqueue(@, g)]
      /\ UNCHANGED <<page, pages, vm, rings, cool, pol, scan, failed, calls>>
  BY <1>1, <1>2 DEF AllocEnqueue, Goto
<1>4. app[a] \in AppType /\ app[a].pc = "enqueue" /\ app \in [Apps -> AppType]
  BY DEF IndInv, TypeOK, AllocEnqueue, AppAt
<1>5. g \in Pages /\ l \in AllLists
  BY <1>1, <1>2, <1>4 DEF IndInv, LocalsInv, AppType, PagesOrNull, AllLists, Kinds
<1>6. a \in AppHands
  BY <1>4 DEF AppHands
<1>7. ListsType /\ \A m \in AllLists : g \notin Members[m]
  BY <1>1, <1>6 DEF IndInv, TypeOK, OwnerInv, Apart, ListsType, InHand
<1>8. ListsType' /\ Members' = [Members EXCEPT ![l] = @ \cup {g}]
  BY <1>3, <1>5, <1>7, PutFirst
<1> DEFINE x == [app[a] EXCEPT !.pc = "offset"]
<1>9. x \in AppType /\ x.page = app[a].page /\ x.va = app[a].va /\ x.pc = "offset"
  BY <1>4 DEF AppType
<1>10. app' \in [Apps -> AppType] /\ app'[a] = x /\ \A b \in Apps \ {a} : app'[b] = app[b]
  BY <1>3, <1>4, <1>9
<1> HIDE DEF x
<1>11. TypeOK'
  BY <1>3, <1>8, <1>10 DEF IndInv, TypeOK, rings, cool, ListsType
<1>12. LocalsInv'
  BY <1>3, <1>4, <1>9, <1>10 DEF IndInv, LocalsInv
<1>13. AppHands' = AppHands \ {a}
  BY <1>9, <1>10 DEF AppHands
<1>14. OwnerInv'
  <2>1. \A b \in AppHands' : b \in AppHands /\ app'[b].page = app[b].page /\ app[b].page # g
    <3>1. \A b \in AppHands : app[b].page = g => b = a
      BY <1>1, <1>6 DEF IndInv, OwnerInv, HandsInv
    <3> QED
      BY <1>10, <1>13, <3>1 DEF AppHands
  <2>2. HandsInv /\ g \notin {pol.p, pol.np, pol.cp} /\ UNCHANGED pol
    BY <1>1, <1>3, <1>6 DEF IndInv, OwnerInv, HandsInv
  <2>3. Apart(Members, InHand)'
    <3>1. InHand' \subseteq InHand \ {g} /\ g \in InHand
      BY <1>1, <1>6, <2>1, <2>2 DEF InHand, PolicyHands
    <3> QED
      BY <1>5, <1>8, <3>1, ApartPut DEF IndInv, OwnerInv
  <2>4. HandsInv'
    BY <2>1, <2>2 DEF HandsInv
  <2> QED
    BY <1>8, <2>3, <2>4 DEF OwnerInv, ListsType
<1>15. RequestInv'
  BY <1>3, RequestsUndisturbed DEF IndInv, rings
<1>16. \A t \in Tiers : Members'[<<t, "free">>] = Members[<<t, "free">>]
  BY <1>2, <1>8 DEF Members, AllLists, Kinds
<1>17. ASSUME NEW b \in Apps
       PROVE  /\ Allocating(b)' <=> Allocating(b)
              /\ Publishing(b)' <=> Publishing(b)
              /\ app'[b].page = app[b].page
  BY <1>4, <1>9, <1>10 DEF Allocating, Publishing
<1>18. UNCHANGED <<pol, pages, free_page_ring>>
  BY <1>3 DEF rings
<1>19. LifeInv'
  <2>1. ASSUME NEW p
        PROVE  (Free(p)' <=> Free(p)) /\ (Doomed(p)' <=> Doomed(p))
    BY <1>16, <1>17, <1>18 DEF Free, Doomed
  <2>2. LifeInv
    BY DEF IndInv
  <2> QED
    BY <1>17, <1>18, <2>1, <2>2 DEF LifeInv
<1>20. DoomedInv'
  BY <1>17, <1>18 DEF IndInv, DoomedInv
<1> QED
  BY <1>11, <1>12, <1>14, <1>15, <1>19, <1>20 DEF IndInv

\* The offset is read.
LEMMA PopulateOffsetInv ==
  ASSUME IndInv, NEW a \in Apps, PopulateOffset(a)
  PROVE  IndInv'
<1> DEFINE x == [app[a] EXCEPT !.pc = "map", !.offset = page[app[a].page].frame]
<1>1. app[a] \in AppType /\ app[a].pc = "offset" /\ app \in [Apps -> AppType]
  BY DEF IndInv, TypeOK, PopulateOffset, AppAt
<1>2. app' = [app EXCEPT ![a] = x] /\ UNCHANGED <<shared, rings, cool, pol, scan, failed, calls>>
  BY DEF PopulateOffset
<1>3. page[app[a].page].frame \in Frames
  BY <1>1 DEF IndInv, LocalsInv, TypeOK, PageType, AppType, PagesOrNull
<1>4. x \in AppType /\ x.page = app[a].page /\ x.va = app[a].va /\ x.pc = "map"
  BY <1>1, <1>3 DEF AppType
<1> HIDE DEF x
<1>5. LocalsInv' /\ (\A b \in Apps : AppKept(b)) /\ app' \in [Apps -> AppType]
  BY <1>1, <1>2, <1>4, GotoInv DEF Allocating
<1>6. TypeOK'
  BY <1>2, <1>5 DEF IndInv, TypeOK, shared, rings, cool
<1> QED
  BY <1>2, <1>5, <1>6, AppUndisturbed DEF IndInv, shared, rings

\* The frame is mapped.
LEMMA PopulateMapInv ==
  ASSUME IndInv, NEW a \in Apps, PopulateMap(a)
  PROVE  IndInv'
<1> DEFINE x == [app[a] EXCEPT !.pc = "track"]
<1>1. app[a] \in AppType /\ app[a].pc = "map" /\ app \in [Apps -> AppType]
  BY DEF IndInv, TypeOK, PopulateMap, AppAt
<1>2. app' = [app EXCEPT ![a] = x] /\ UNCHANGED <<page, lists, pages, rings, cool, pol, scan, failed, calls>>
  BY DEF PopulateMap, Goto
<1>3. vm' \in [Vas -> Frames \cup {NULL}]
  BY <1>1 DEF IndInv, TypeOK, AppType, PopulateMap
<1>4. x \in AppType /\ x.page = app[a].page /\ x.va = app[a].va /\ x.pc = "track"
  BY <1>1 DEF AppType
<1> HIDE DEF x
<1>5. LocalsInv' /\ (\A b \in Apps : AppKept(b)) /\ app' \in [Apps -> AppType]
  BY <1>1, <1>2, <1>4, GotoInv DEF Allocating
<1>6. TypeOK'
  BY <1>2, <1>3, <1>5 DEF IndInv, TypeOK, rings, cool
<1> QED
  BY <1>2, <1>5, <1>6, AppUndisturbed DEF IndInv, rings

\* The page passes from the thread to the table.
LEMMA PopulateTrackInv ==
  ASSUME IndInv, NEW a \in Apps, PopulateTrack(a)
  PROVE  IndInv'
<1>1. CASE pages[app[a].va] # NULL
  BY <1>1, AbortInv DEF PopulateTrack, Abort
<1>2. CASE ~(pages[app[a].va] # NULL)
  <2>1. PICK g, v : g = app[a].page /\ v = app[a].va
    OBVIOUS
  <2>2. /\ app' = [app EXCEPT ![a] = IdleApp]
        /\ page' = [page EXCEPT ![g].va = v]
        /\ pages' = [pages EXCEPT ![v] = g]
        /\ UNCHANGED <<lists, vm, rings, cool, pol, scan, failed, calls>>
    BY <1>2, <2>1 DEF PopulateTrack
  <2>3. app \in [Apps -> AppType] /\ app[a].pc = "track" /\ pages \in [Vas -> PagesOrNull]
        /\ page \in [Pages -> PageType]
    BY DEF IndInv, TypeOK, PopulateTrack, AppAt
  <2>4. g \in Pages /\ v \in Vas
    BY <2>1, <2>3 DEF IndInv, LocalsInv, AppType, PagesOrNull
  <2>5. IdleApp \in AppType
    BY DEF IdleApp, AppType, PagesOrNull, Tiers
  <2>6. app' \in [Apps -> AppType] /\ app'[a] = IdleApp /\ \A b \in Apps \ {a} : app'[b] = app[b]
    BY <2>2, <2>3, <2>5
  <2>7. /\ page' \in [Pages -> PageType]
        /\ \A p \in Pages : page'[p].ring_present = page[p].ring_present
    BY <2>2, <2>3, <2>4 DEF PageType
  <2>8. TypeOK'
    <3>1. pages' \in [Vas -> PagesOrNull]
      BY <2>2, <2>3, <2>4 DEF PagesOrNull
    <3> QED
      BY <2>2, <2>6, <2>7, <3>1 DEF IndInv, TypeOK, rings, cool
  <2>9. LocalsInv'
    BY <2>2, <2>6 DEF IndInv, LocalsInv, IdleApp
  <2>10. Allocating(a) /\ ~Allocating(a)' /\ ~Publishing(a) /\ ~Publishing(a)'
         /\ a \notin AppHands /\ a \notin AppHands'
    BY <2>3, <2>6 DEF Allocating, Publishing, IdleApp, AppHands
  <2>11. ASSUME NEW b \in Apps, b # a
         PROVE  AppKept(b) /\ (b \in AppHands' <=> b \in AppHands) /\ app'[b].page = app[b].page
    BY <2>6, <2>11 DEF AppKept, Allocating, Publishing, AppHands
  <2>12. UNCHANGED <<lists, pol, free_page_ring, hot_ring, cold_ring>> /\ Members' = Members
    BY <2>2 DEF rings, Members
  <2>13. OwnerInv'
    <3>1. OwnerInv /\ AppHands' = AppHands /\ \A b \in AppHands : app'[b].page = app[b].page
      BY <2>10, <2>11 DEF IndInv, AppHands
    <3>2. InHand' = InHand
      BY <2>12, <3>1 DEF InHand, PolicyHands
    <3> QED
      BY <2>12, <3>1, <3>2 DEF OwnerInv, HandsInv
  <2>14. RequestInv'
    BY <2>7, <2>12, RequestsUndisturbed DEF IndInv
  <2>15. \A b \in Apps : /\ Allocating(b)' <=> Allocating(b) /\ b # a
                         /\ Publishing(b)' <=> Publishing(b)
                         /\ Publishing(b) \/ Allocating(b)' => app'[b].page = app[b].page
    BY <2>10, <2>11 DEF AppKept
  <2>16. LifeInv'
    <3>1. ASSUME NEW p
          PROVE  (Free(p)' <=> Free(p)) /\ (Doomed(p)' <=> Doomed(p))
      BY <2>12, <2>15 DEF Free, Doomed
    <3>2. LifeInv /\ Allocating(a)
      BY <2>10 DEF IndInv
    <3>3. \A w \in Vas : pages'[w] = IF w = v THEN g ELSE pages[w]
      BY <2>2, <2>3, <2>4
    <3>4. g # NULL
      BY <2>4, PolicyAssumption DEF Pages
    <3> QED
      BY <2>1, <2>4, <2>15, <3>1, <3>2, <3>3, <3>4 DEF LifeInv
  <2>17. DoomedInv'
    BY <2>12, <2>15 DEF IndInv, DoomedInv
  <2> QED
    BY <2>8, <2>9, <2>13, <2>14, <2>16, <2>17 DEF IndInv
<1> QED
  BY <1>1, <1>2

-----------------------------------------------------------------------------
(* The application threads: munmap.                                        *)

\* munmap finds the page in the table, where it stays for now.
LEMMA MunmapStartInv ==
  ASSUME IndInv, NEW a \in Apps, NEW v \in Vas, MunmapStart(a, v)
  PROVE  IndInv'
<1>1. PICK g : g = pages[v]
  OBVIOUS
<1> DEFINE x == [app[a] EXCEPT !.pc = "remove", !.va = v, !.page = g]
<1>2. app' = [app EXCEPT ![a] = x] /\ UNCHANGED <<shared, rings, cool, pol, scan, failed>>
  BY <1>1 DEF MunmapStart
<1>3. /\ app \in [Apps -> AppType] /\ app[a].pc = "idle" /\ pages \in [Vas -> PagesOrNull]
      /\ g # NULL
  BY <1>1 DEF IndInv, TypeOK, MunmapStart, Call, AppAt
<1>4. g \in Pages
  BY <1>1, <1>3 DEF PagesOrNull
<1>5. x \in AppType /\ x.pc = "remove" /\ x.page = g /\ x.va = v
  BY <1>3, <1>4 DEF AppType, PagesOrNull
<1> HIDE DEF x
<1>6. app' \in [Apps -> AppType] /\ app'[a] = x /\ \A b \in Apps \ {a} : app'[b] = app[b]
  BY <1>2, <1>3, <1>5
<1>7. TypeOK'
  <2>1. calls' \in 0 .. MaxCalls
    BY PolicyAssumption DEF IndInv, TypeOK, MunmapStart, Call
  <2> QED
    BY <1>2, <1>6, <2>1 DEF IndInv, TypeOK, shared, rings, cool
<1>8. LocalsInv'
  <2>1. v # NULL
    BY PolicyAssumption
  <2> QED
    BY <1>2, <1>3, <1>4, <1>5, <1>6, <2>1 DEF IndInv, LocalsInv
<1>9. \A b \in Apps : AppKept(b)
  BY <1>3, <1>5, <1>6 DEF AppKept, Allocating, Publishing
<1>10. UNCHANGED <<lists, pages, page, pol, hot_ring, cold_ring, free_page_ring>>
  BY <1>2 DEF shared, rings
<1> QED
  BY <1>7, <1>8, <1>9, <1>10, AppUndisturbed DEF IndInv

\* The page passes from the table to the thread.
LEMMA MunmapRemoveInv ==
  ASSUME IndInv, CallsInv, NEW a \in Apps, MunmapRemove(a)
  PROVE  IndInv'
<1>0. PICK v : v = app[a].va
  OBVIOUS
<1>1. PICK g : g = app[a].page
  OBVIOUS
<1> DEFINE x == [app[a] EXCEPT !.pc = "publish"]
<1>2. /\ app' = [app EXCEPT ![a] = x]
      /\ pages' = [pages EXCEPT ![v] = NULL]
      /\ UNCHANGED <<page, lists, vm, rings, cool, pol, scan, failed, calls>>
  BY <1>0 DEF MunmapRemove, Goto
<1>3. app \in [Apps -> AppType] /\ app[a].pc = "remove" /\ pages \in [Vas -> PagesOrNull]
  BY DEF IndInv, TypeOK, MunmapRemove, AppAt
<1>4. g \in Pages /\ v \in Vas /\ g = pages[v] /\ g # NULL
  BY <1>0, <1>1, <1>3 DEF IndInv, LocalsInv, CallsInv, AppType, PagesOrNull
<1>5. x \in AppType /\ x.pc = "publish" /\ x.page = g /\ x.va = v
  BY <1>0, <1>1, <1>3, <1>4 DEF AppType, PagesOrNull
<1> HIDE DEF x
<1>6. app' \in [Apps -> AppType] /\ app'[a] = x /\ \A b \in Apps \ {a} : app'[b] = app[b]
  BY <1>2, <1>3, <1>5
<1>7. TypeOK'
  <2>1. pages' \in [Vas -> PagesOrNull]
    BY <1>2, <1>3 DEF PagesOrNull
  <2> QED
    BY <1>2, <1>6, <2>1 DEF IndInv, TypeOK, rings, cool
<1>8. LocalsInv'
  <2>1. v # NULL
    BY <1>4, PolicyAssumption
  <2> QED
    BY <1>2, <1>3, <1>4, <1>5, <1>6, <2>1 DEF IndInv, LocalsInv
<1>9. /\ ~Allocating(a) /\ ~Allocating(a)' /\ ~Publishing(a) /\ Publishing(a)'
      /\ a \notin AppHands /\ a \notin AppHands'
  BY <1>3, <1>5, <1>6 DEF Allocating, Publishing, AppHands
<1>10. ASSUME NEW b \in Apps, b # a
       PROVE  /\ Allocating(b)' <=> Allocating(b)
              /\ Publishing(b)' <=> Publishing(b)
              /\ (b \in AppHands' <=> b \in AppHands) /\ app'[b].page = app[b].page
  BY <1>6, <1>10 DEF Allocating, Publishing, AppHands
<1>11. UNCHANGED <<lists, page, pol, free_page_ring, hot_ring, cold_ring>> /\ Members' = Members
  BY <1>2 DEF rings, Members
<1>12. app'[a].page = g
  BY <1>5, <1>6
<1>13. OwnerInv'
  <2>1. OwnerInv /\ AppHands' = AppHands /\ \A b \in AppHands : app'[b].page = app[b].page
    BY <1>9, <1>10 DEF IndInv, AppHands
  <2>2. InHand' = InHand
    BY <1>11, <2>1 DEF InHand, PolicyHands
  <2> QED
    BY <1>11, <2>1, <2>2 DEF OwnerInv, HandsInv
<1>14. RequestInv'
  BY <1>11, RequestsUndisturbed DEF IndInv
<1>15. LifeInv /\ ~Free(g) /\ ~Doomed(g)
  BY <1>4 DEF IndInv, LifeInv
<1>16. LifeInv'
  <2>1. ASSUME NEW p
        PROVE  (Free(p)' <=> Free(p)) /\ (Doomed(p)' <=> Doomed(p) \/ p = g)
    BY <1>9, <1>10, <1>11, <1>12 DEF Free, Doomed
  <2>2. \A w \in Vas : pages'[w] = IF w = v THEN NULL ELSE pages[w]
    BY <1>2, <1>3, <1>4
  <2> QED
    BY <1>3, <1>4, <1>9, <1>10, <1>15, <2>1, <2>2 DEF LifeInv
<1>17. DoomedInv'
  <2>1. DoomedInv
    BY DEF IndInv
  <2>2. /\ g \notin Elems(free_page_ring)
        /\ pol.pc = "release" => pol.page # g
        /\ \A b \in Apps : Publishing(b) => app[b].page # g
    BY <1>15 DEF Doomed
  <2> QED
    BY <1>9, <1>10, <1>11, <1>12, <2>1, <2>2 DEF DoomedInv
<1> QED
  BY <1>7, <1>8, <1>13, <1>14, <1>16, <1>17 DEF IndInv

\* The page passes from the thread to the free ring.
LEMMA RemovePublishInv ==
  ASSUME IndInv, NEW a \in Apps, RemovePublish(a)
  PROVE  IndInv'
<1>1. PICK g : g = app[a].page
  OBVIOUS
<1> DEFINE x == [app[a] EXCEPT !.pc = "clear"]
<1>2. /\ app' = [app EXCEPT ![a] = x]
      /\ free_page_ring' = Append(free_page_ring, g)
      /\ UNCHANGED <<shared, hot_ring, cold_ring, cool, pol, scan, failed, calls>>
  BY <1>1 DEF RemovePublish, Goto
<1>3. app \in [Apps -> AppType] /\ app[a].pc = "publish" /\ free_page_ring \in Seq(Pages)
  BY DEF IndInv, TypeOK, RemovePublish, AppAt
<1>4. g \in Pages
  BY <1>1, <1>3 DEF IndInv, LocalsInv, AppType, PagesOrNull
<1>5. x \in AppType /\ x.pc = "clear" /\ x.page = app[a].page /\ x.va = app[a].va
  BY <1>3 DEF AppType
<1> HIDE DEF x
<1>6. app' \in [Apps -> AppType] /\ app'[a] = x /\ \A b \in Apps \ {a} : app'[b] = app[b]
  BY <1>2, <1>3, <1>5
<1>7. /\ ~Allocating(a) /\ ~Allocating(a)' /\ Publishing(a) /\ ~Publishing(a)'
      /\ a \notin AppHands /\ a \notin AppHands'
  BY <1>3, <1>5, <1>6 DEF Allocating, Publishing, AppHands
<1>8. ASSUME NEW b \in Apps, b # a
      PROVE  /\ Allocating(b)' <=> Allocating(b)
             /\ Publishing(b)' <=> Publishing(b)
             /\ (b \in AppHands' <=> b \in AppHands) /\ app'[b].page = app[b].page
  BY <1>6, <1>8 DEF Allocating, Publishing, AppHands
<1>9. UNCHANGED <<lists, page, pages, pol, hot_ring, cold_ring>> /\ Members' = Members
  BY <1>2 DEF shared, Members
<1>10. g \notin Elems(free_page_ring) /\ DoomedInv
  BY <1>1, <1>7 DEF IndInv, DoomedInv
<1>11. /\ free_page_ring' \in Seq(Pages)
       /\ Elems(free_page_ring') = Elems(free_page_ring) \cup {g}
       /\ Distinct(free_page_ring')
  BY <1>2, <1>3, <1>4, <1>10, AppendAdds DEF DoomedInv
<1>12. TypeOK'
  BY <1>2, <1>6, <1>11 DEF IndInv, TypeOK, shared, cool
<1>13. LocalsInv'
  BY <1>2, <1>3, <1>5, <1>6 DEF IndInv, LocalsInv
<1>14. OwnerInv'
  <2>1. OwnerInv /\ AppHands' = AppHands /\ \A b \in AppHands : app'[b].page = app[b].page
    BY <1>7, <1>8 DEF IndInv, AppHands
  <2>2. InHand' = InHand
    BY <1>9, <2>1 DEF InHand, PolicyHands
  <2> QED
    BY <1>9, <2>1, <2>2 DEF OwnerInv, HandsInv
<1>15. RequestInv'
  BY <1>9, RequestsUndisturbed DEF IndInv
<1>16. LifeInv'
  <2>1. ASSUME NEW p
        PROVE  (Free(p)' <=> Free(p)) /\ (Doomed(p)' <=> Doomed(p))
    <3>1. Free(p)' <=> Free(p)
      BY <1>9 DEF Free
    <3>2. Doomed(p)' <=> Doomed(p)
      BY <1>1, <1>7, <1>8, <1>9, <1>11 DEF Doomed
    <3> QED
      BY <3>1, <3>2
  <2>2. LifeInv
    BY DEF IndInv
  <2> QED
    BY <1>7, <1>8, <1>9, <2>1, <2>2 DEF LifeInv
<1>17. DoomedInv'
  BY <1>1, <1>7, <1>8, <1>9, <1>10, <1>11 DEF DoomedInv
<1> QED
  BY <1>12, <1>13, <1>14, <1>15, <1>16, <1>17 DEF IndInv

\* The flags of a page on the free ring are cleared.
LEMMA RemoveClearInv ==
  ASSUME IndInv, NEW a \in Apps, RemoveClear(a)
  PROVE  IndInv'
<1> DEFINE x == [app[a] EXCEPT !.pc = "unmap"]
<1>1. app[a] \in AppType /\ app[a].pc = "clear" /\ app \in [Apps -> AppType]
  BY DEF IndInv, TypeOK, RemoveClear, AppAt
<1>2. app' = [app EXCEPT ![a] = x] /\ UNCHANGED <<lists, pages, vm, rings, cool, pol, scan, failed, calls>>
  BY DEF RemoveClear, Goto
<1>3. page \in [Pages -> PageType]
  BY DEF IndInv, TypeOK
<1>4. /\ page' \in [Pages -> PageType]
      /\ \A p \in Pages : page'[p].ring_present = page[p].ring_present
  <2>1. PICK g : g = app[a].page
    OBVIOUS
  <2>2. g \in Pages
    BY <1>1, <2>1 DEF IndInv, LocalsInv, AppType, PagesOrNull
  <2>3. page' = [page EXCEPT ![g] = [page[g] EXCEPT !.present = FALSE, !.hot = FALSE, !.warm = FALSE]]
    BY <1>3, <2>1, <2>2 DEF RemoveClear
  <2>4. /\ [page[g] EXCEPT !.present = FALSE, !.hot = FALSE, !.warm = FALSE] \in PageType
        /\ [page[g] EXCEPT !.present = FALSE, !.hot = FALSE, !.warm = FALSE].ring_present = page[g].ring_present
    BY <1>3, <2>2 DEF PageType
  <2> QED
    BY <1>3, <2>2, <2>3, <2>4
<1>5. x \in AppType /\ x.page = app[a].page /\ x.va = app[a].va /\ x.pc = "unmap"
  BY <1>1 DEF AppType
<1> HIDE DEF x
<1>6. LocalsInv' /\ (\A b \in Apps : AppKept(b)) /\ app' \in [Apps -> AppType]
  BY <1>1, <1>2, <1>5, GotoInv DEF Allocating
<1>7. TypeOK'
  BY <1>2, <1>4, <1>6 DEF IndInv, TypeOK, rings, cool
<1> QED
  BY <1>2, <1>4, <1>6, <1>7, AppUndisturbed DEF IndInv, rings

\* The call returns.
LEMMA MunmapEndInv ==
  ASSUME IndInv, NEW a \in Apps, MunmapEnd(a)
  PROVE  IndInv'
<1>1. app[a].pc = "unmap" /\ app \in [Apps -> AppType]
  BY DEF IndInv, TypeOK, MunmapEnd, AppAt
<1>2. app' = [app EXCEPT ![a] = IdleApp] /\ UNCHANGED <<page, lists, pages, rings, cool, pol, scan, failed, calls>>
  BY DEF MunmapEnd
<1>3. vm' \in [Vas -> Frames \cup {NULL}]
  BY DEF IndInv, TypeOK, MunmapEnd
<1>4. IdleApp \in AppType /\ IdleApp.pc = "idle" /\ IdleApp.page = NULL /\ IdleApp.va = NULL
  BY DEF IdleApp, AppType, PagesOrNull, Tiers
<1>5. app' \in [Apps -> AppType] /\ app'[a] = IdleApp /\ \A b \in Apps \ {a} : app'[b] = app[b]
  BY <1>1, <1>2, <1>4
<1>6. LocalsInv'
  BY <1>2, <1>4, <1>5 DEF IndInv, LocalsInv
<1>7. \A b \in Apps : AppKept(b)
  BY <1>1, <1>4, <1>5 DEF AppKept, Allocating, Publishing
<1>8. TypeOK'
  BY <1>2, <1>3, <1>5 DEF IndInv, TypeOK, rings, cool
<1> QED
  BY <1>2, <1>6, <1>7, <1>8, AppUndisturbed DEF IndInv, rings

-----------------------------------------------------------------------------
(* The scan thread.                                                        *)

\* What the scan thread does but for making requests.
LEMMA ScanInv ==
  ASSUME IndInv, UNCHANGED <<lists, pages, vm, rings, start_page, cur_cool, pol, app, calls>>,
         scan' \in ScanType, need_cool' \in [Tiers -> BOOLEAN], page' \in [Pages -> PageType],
         scan'.page # NULL <=> scan'.pc # "idle",
         \A p \in Pages : page'[p].ring_present = page[p].ring_present
  PROVE  IndInv'
<1>1. TypeOK'
  BY DEF IndInv, TypeOK, rings
<1>2. LocalsInv'
  BY DEF IndInv, LocalsInv
<1>3. PolicyKept
  BY DEF PolicyKept
<1>4. OwnerInv' /\ LifeInv' /\ DoomedInv'
  BY <1>3, PolicyUndisturbed DEF rings
<1>5. RequestInv'
  BY RequestsUndisturbed DEF IndInv, rings
<1> QED
  BY <1>1, <1>2, <1>4, <1>5 DEF IndInv

\* A change of warm leaves the other fields.
LEMMA WarmOnly ==
  ASSUME page \in [Pages -> PageType], NEW g \in Pages, NEW w \in BOOLEAN,
         page' = [page EXCEPT ![g].warm = w]
  PROVE  /\ page' \in [Pages -> PageType]
         /\ \A p \in Pages : page'[p].ring_present = page[p].ring_present
BY DEF PageType

\* The page of a sample is found in the table ...
LEMMA SampleLookupInv ==
  ASSUME IndInv, NEW v \in Vas, SampleLookup(v)
  PROVE  IndInv'
<1>1. pages[v] \in PagesOrNull /\ pages[v] # NULL
  BY DEF IndInv, TypeOK, SampleLookup
<1>2. scan' \in ScanType /\ scan'.page # NULL /\ scan'.pc # "idle"
  BY <1>1 DEF SampleLookup, ScanType
<1>3. UNCHANGED <<shared, rings, cool, pol, app, failed, calls>>
  BY DEF SampleLookup
<1>4. page' \in [Pages -> PageType] /\ need_cool' \in [Tiers -> BOOLEAN]
  BY <1>3 DEF IndInv, TypeOK, shared, cool
<1> QED
  BY <1>2, <1>3, <1>4, ScanInv DEF shared, cool

\* ... the access is counted ...
LEMMA SampleCountInv ==
  ASSUME IndInv, SampleCount
  PROVE  IndInv'
<1>1. PICK w \in {page[scan.page].warm, TRUE} :
        /\ page' = [page EXCEPT ![scan.page].warm = w]
        /\ scan' = [scan EXCEPT !.want = IF w = page[scan.page].hot THEN "none"
                                         ELSE IF w THEN "hot" ELSE "cold",
                                !.pc = IF w = page[scan.page].hot THEN "cool" ELSE "request"]
  BY DEF SampleCount
<1>2. page \in [Pages -> PageType] /\ scan \in ScanType /\ need_cool \in [Tiers -> BOOLEAN]
  BY DEF IndInv, TypeOK
<1>3. scan.page # NULL
  BY DEF SampleCount, ScanAt, IndInv, LocalsInv
<1>4. scan.page \in Pages
  BY <1>2, <1>3 DEF ScanType, PagesOrNull
<1>5. w \in BOOLEAN
  BY <1>2, <1>4 DEF PageType
<1>6. /\ page' \in [Pages -> PageType]
      /\ \A p \in Pages : page'[p].ring_present = page[p].ring_present
  BY <1>1, <1>2, <1>4, <1>5, WarmOnly
<1>7. scan' \in ScanType /\ scan'.page # NULL /\ scan'.pc # "idle"
  BY <1>1, <1>2, <1>3 DEF ScanType
<1>8. UNCHANGED <<lists, pages, vm, rings, cool, pol, app, failed, calls>>
  BY DEF SampleCount
<1> QED
  BY <1>2, <1>6, <1>7, <1>8, ScanInv DEF cool

\* ... and the counters are shifted.
LEMMA SampleCoolInv ==
  ASSUME IndInv, SampleCool
  PROVE  IndInv'
<1>1. PICK w \in {FALSE, page[scan.page].warm} :
        /\ page' = [page EXCEPT ![scan.page].warm = w]
        /\ need_cool' \in {need_cool} \cup (IF w THEN {[t \in Tiers |-> TRUE]} ELSE {})
  BY DEF SampleCool
<1>2. page \in [Pages -> PageType] /\ scan \in ScanType /\ need_cool \in [Tiers -> BOOLEAN]
  BY DEF IndInv, TypeOK
<1>3. scan.page # NULL
  BY DEF SampleCool, ScanAt, IndInv, LocalsInv
<1>4. scan.page \in Pages
  BY <1>2, <1>3 DEF ScanType, PagesOrNull
<1>5. w \in BOOLEAN
  BY <1>2, <1>4 DEF PageType
<1>6. /\ page' \in [Pages -> PageType]
      /\ \A p \in Pages : page'[p].ring_present = page[p].ring_present
  BY <1>1, <1>2, <1>4, <1>5, WarmOnly
<1>7. need_cool' \in [Tiers -> BOOLEAN]
  BY <1>1, <1>2
<1>8. scan' \in ScanType /\ scan'.page = NULL /\ scan'.pc = "idle"
  BY DEF SampleCool, ScanType, PagesOrNull
<1>9. UNCHANGED <<lists, pages, vm, rings, start_page, cur_cool, pol, app, failed, calls>>
  BY DEF SampleCool
<1> QED
  BY <1>6, <1>7, <1>8, <1>9, ScanInv

\* A request is made for a page that has none.
LEMMA SampleRequestInv ==
  ASSUME IndInv, SampleRequest
  PROVE  IndInv'
<1>1. PICK g : g = scan.page
  OBVIOUS
<1>2. /\ page \in [Pages -> PageType] /\ scan \in ScanType
      /\ hot_ring \in Seq(Pages) /\ cold_ring \in Seq(Pages)
  BY DEF IndInv, TypeOK
<1>3. g # NULL
  BY <1>1 DEF SampleRequest, ScanAt, IndInv, LocalsInv
<1>4. g \in Pages
  BY <1>1, <1>2, <1>3 DEF ScanType, PagesOrNull
<1>5. scan' \in ScanType /\ scan'.page # NULL /\ scan'.pc # "idle"
  BY <1>1, <1>2, <1>3 DEF SampleRequest, ScanType
<1>6. UNCHANGED <<lists, pages, vm, free_page_ring, cool, pol, app, failed, calls>>
  BY DEF SampleRequest
<1>7. LocalsInv'
  BY <1>5, <1>6 DEF IndInv, LocalsInv
<1>8. PolicyKept
  BY <1>6 DEF PolicyKept
<1>9. OwnerInv' /\ LifeInv' /\ DoomedInv'
  BY <1>6, <1>8, PolicyUndisturbed
<1>10. CASE page[g].ring_present
  <2>1. UNCHANGED <<page, hot_ring, cold_ring>>
    BY <1>1, <1>10 DEF SampleRequest
  <2>2. TypeOK'
    BY <1>5, <1>6, <2>1 DEF IndInv, TypeOK, cool
  <2>3. RequestInv'
    BY <1>6, <2>1, RequestsUndisturbed DEF IndInv
  <2> QED
    BY <1>7, <1>9, <2>2, <2>3 DEF IndInv
<1>11. CASE ~page[g].ring_present
  <2>1. /\ page' = [page EXCEPT ![g].ring_present = TRUE]
        /\ hot_ring' = IF scan.want = "hot" THEN Append(hot_ring, g) ELSE hot_ring
        /\ cold_ring' = IF scan.want = "cold" THEN Append(cold_ring, g) ELSE cold_ring
    BY <1>1, <1>11 DEF SampleRequest
  <2>2. /\ page' \in [Pages -> PageType] /\ page'[g].ring_present
        /\ \A p \in Pages : page[p].ring_present => page'[p].ring_present
    BY <1>2, <1>4, <2>1 DEF PageType
  <2>3. RequestInv /\ g \notin Elems(hot_ring) /\ g \notin Elems(cold_ring)
    BY <1>11 DEF IndInv, RequestInv
  <2>4. pol.pc \in {"make hot", "make cold"} => pol.page # g /\ pol.page \in Pages
    BY <1>11 DEF IndInv, RequestInv, TypeOK, PolicyType, PagesOrNull, LocalsInv
  <2>5. Elems(hot_ring) \subseteq Pages /\ Elems(cold_ring) \subseteq Pages
    BY <1>2, EndsListed
  <2>6. /\ Append(hot_ring, g) \in Seq(Pages) /\ Distinct(Append(hot_ring, g))
        /\ Append(cold_ring, g) \in Seq(Pages) /\ Distinct(Append(cold_ring, g))
        /\ Elems(Append(hot_ring, g)) = Elems(hot_ring) \cup {g}
        /\ Elems(Append(cold_ring, g)) = Elems(cold_ring) \cup {g}
    BY <1>2, <1>4, <2>3, AppendAdds DEF RequestInv
  <2>7. TypeOK'
    <3>1. hot_ring' \in Seq(Pages) /\ cold_ring' \in Seq(Pages)
      BY <1>2, <2>1, <2>6
    <3> QED
      BY <1>5, <1>6, <2>2, <3>1 DEF IndInv, TypeOK, cool
  <2>8. RequestInv'
    <3>1. CASE scan.want = "hot"
      <4>1. /\ Distinct(hot_ring') /\ Elems(hot_ring') = Elems(hot_ring) \cup {g}
            /\ cold_ring' = cold_ring
        BY <2>1, <2>6, <3>1
      <4> QED
        BY <1>4, <1>6, <2>2, <2>3, <2>4, <2>5, <4>1 DEF RequestInv
    <3>2. CASE scan.want = "cold"
      <4>1. /\ Distinct(cold_ring') /\ Elems(cold_ring') = Elems(cold_ring) \cup {g}
            /\ hot_ring' = hot_ring
        BY <2>1, <2>6, <3>2
      <4> QED
        BY <1>4, <1>6, <2>2, <2>3, <2>4, <2>5, <4>1 DEF RequestInv
    <3>3. CASE scan.want \notin {"hot", "cold"}
      <4>1. UNCHANGED <<hot_ring, cold_ring>>
        BY <2>1, <3>3
      <4> QED
        BY <1>6, <2>2, <2>3, <2>4, <2>5, <4>1 DEF RequestInv
    <3> QED
      BY <3>1, <3>2, <3>3
  <2> QED
    BY <1>7, <1>9, <2>7, <2>8 DEF IndInv
<1> QED
  BY <1>10, <1>11

-----------------------------------------------------------------------------
(* The policy thread: requests.                                            *)

\* The pass begins.
LEMMA PolicyWakeInv ==
  ASSUME IndInv, PolicyWake
  PROVE  IndInv'
<1>1. pol \in PolicyType /\ pol.pc = "sleep" /\ LocalsInv
  BY DEF IndInv, TypeOK, PolicyWake, PolicyAt
<1>2. pol' = [pol EXCEPT !.pc = "free"] /\ UNCHANGED <<shared, rings, cool, scan, app, failed, calls>>
  BY DEF PolicyWake
<1>3. pol' \in PolicyType /\ LocalsInv' /\ PolicyKept
  BY <1>1, <1>2 DEF PolicyType, LocalsInv, PolicyKept
<1>4. TypeOK'
  BY <1>2, <1>3 DEF IndInv, TypeOK, shared, rings, cool
<1>5. OwnerInv' /\ LifeInv' /\ DoomedInv'
  BY <1>2, <1>3, PolicyUndisturbed DEF shared, rings
<1>6. RequestInv'
  <2>1. pol'.pc \notin {"make hot", "make cold"}
    BY <1>1, <1>2 DEF PolicyType
  <2> QED
    BY <1>2, <2>1, RequestsUndisturbed DEF IndInv, shared, rings
<1> QED
  BY <1>3, <1>4, <1>5, <1>6 DEF IndInv

\* A page passes from the free ring to the policy thread.
LEMMA FreeTakeInv ==
  ASSUME IndInv, FreeTake
  PROVE  IndInv'
<1>1. pol \in PolicyType /\ pol.pc = "free" /\ LocalsInv /\ free_page_ring \in Seq(Pages)
  BY DEF IndInv, TypeOK, FreeTake, PolicyAt
<1>2. UNCHANGED <<shared, hot_ring, cold_ring, cool, scan, app, failed, calls>>
  BY DEF FreeTake
<1>3. CASE free_page_ring = << >>
  <2>1. pol' = [pol EXCEPT !.pc = "hot", !.n = 0] /\ UNCHANGED free_page_ring
    BY <1>3 DEF FreeTake
  <2>2. pol' \in PolicyType /\ LocalsInv' /\ PolicyKept /\ pol'.pc \notin {"make hot", "make cold"}
    BY <1>1, <1>2, <2>1 DEF PolicyType, LocalsInv, PolicyKept
  <2>3. TypeOK'
    BY <1>2, <2>1, <2>2 DEF IndInv, TypeOK, shared, cool
  <2>4. OwnerInv' /\ LifeInv' /\ DoomedInv'
    BY <1>2, <2>1, <2>2, PolicyUndisturbed DEF shared
  <2>5. RequestInv'
    BY <1>2, <2>2, RequestsUndisturbed DEF IndInv, shared
  <2> QED
    BY <2>2, <2>3, <2>4, <2>5 DEF IndInv
<1>4. CASE free_page_ring # << >>
  <2>1. PICK g : g = Head(free_page_ring)
    OBVIOUS
  <2>2. pol' = [pol EXCEPT !.pc = "release", !.page = g] /\ free_page_ring' = Tail(free_page_ring)
    BY <1>4, <2>1 DEF FreeTake
  <2>3. DoomedInv
    BY DEF IndInv
  <2>4. /\ free_page_ring' \in Seq(Pages) /\ Distinct(free_page_ring')
        /\ g \in Pages /\ g \in Elems(free_page_ring)
        /\ Elems(free_page_ring') = Elems(free_page_ring) \ {g}
    BY <1>1, <1>4, <2>1, <2>2, <2>3, HeadLeaves DEF DoomedInv
  <2>5. g # NULL
    BY <2>4, PolicyAssumption DEF Pages
  <2>6. pol' \in PolicyType /\ LocalsInv'
    BY <1>1, <1>2, <2>2, <2>4, <2>5 DEF PolicyType, LocalsInv, PagesOrNull
  <2>7. /\ pol'.p = pol.p /\ pol'.np = pol.np /\ pol'.cp = pol.cp
        /\ pol'.pc = "release" /\ pol'.page = g
    BY <1>1, <2>2 DEF PolicyType
  <2>8. TypeOK'
    BY <1>2, <2>4, <2>6 DEF IndInv, TypeOK, shared, cool
  <2>9. Members' = Members /\ AppHands' = AppHands /\ UNCHANGED <<lists, pages, page, app>>
    BY <1>2 DEF Members, AppHands, shared
  <2>10. OwnerInv'
    <3>1. InHand' = InHand
      BY <2>7, <2>9 DEF InHand, PolicyHands
    <3>2. OwnerInv
      BY DEF IndInv
    <3> QED
      BY <2>7, <2>9, <3>1, <3>2 DEF OwnerInv, HandsInv
  <2>11. RequestInv'
    BY <1>2, <2>7, <2>9, RequestsUndisturbed DEF IndInv
  <2>12. LifeInv'
    <3>1. ASSUME NEW p
          PROVE  (Free(p)' <=> Free(p)) /\ (Doomed(p)' <=> Doomed(p))
      <4>1. Free(p)' <=> Free(p)
        BY <2>7, <2>9 DEF Free
      <4>2. Doomed(p)' <=> Doomed(p)
        BY <1>1, <2>4, <2>7, <2>9 DEF Doomed, Publishing
      <4> QED
        BY <4>1, <4>2
    <3>2. LifeInv
      BY DEF IndInv
    <3> QED
      BY <2>9, <3>1, <3>2 DEF LifeInv, Allocating
  <2>13. DoomedInv'
    BY <2>3, <2>4, <2>7, <2>9 DEF DoomedInv, Publishing
  <2> QED
    BY <2>6, <2>8, <2>10, <2>11, <2>12, <2>13 DEF IndInv
<1> QED
  BY <1>3, <1>4

\* The cursor that leaves a page of its list stays on the list.
LEMMA CursorAwayType ==
  ASSUME TypeOK, OwnerInv, NEW g, CursorOk(g)
  PROVE  CursorAway(g) \in [Tiers -> PagesOrNull]
<1>1. ASSUME NEW t \in Tiers, cur_cool[t] = g
      PROVE  PrevIn(lists[<<t, "hot">>], g) \in PagesOrNull
  <2>1. PICK s : s = lists[<<t, "hot">>]
    OBVIOUS
  <2>2. s \in Seq(Pages) /\ Distinct(s) /\ g \in Elems(s)
    BY <1>1, <2>1 DEF TypeOK, OwnerInv, CursorOk, OnList, AllLists, Kinds
  <2>3. PrevIn(s, g) # NULL => PrevIn(s, g) \in Elems(s) \ {g}
    BY <2>2, NeighboursListed
  <2>4. Elems(s) \subseteq Pages
    BY <2>2, EndsListed
  <2> QED
    BY <2>1, <2>3, <2>4 DEF PagesOrNull
<1>2. \A t \in Tiers : cur_cool[t] \in PagesOrNull
  BY DEF TypeOK
<1> QED
  BY <1>1, <1>2 DEF CursorAway

\* The page passes from its list to a free list.
LEMMA FreeReleaseInv ==
  ASSUME IndInv, FreeRelease
  PROVE  IndInv'
<1>1. PICK g : g = pol.page
  OBVIOUS
<1>2. CASE ~Listed(g) \/ ~CursorOk(g)
  BY <1>1, <1>2, AbortInv DEF FreeRelease, Abort
<1>3. CASE Listed(g) /\ CursorOk(g)
  <2>1. PICK l : l = <<TierOf(g), "free">>
    OBVIOUS
  <2>2. /\ cur_cool' = CursorAway(g)
        /\ lists' = [m \in AllLists |-> IF m = l THEN Enqueue(RemoveFrom(lists[m], g), g)
                                        ELSE RemoveFrom(lists[m], g)]
        /\ pol' = [pol EXCEPT !.pc = "free", !.page = NULL]
        /\ UNCHANGED <<page, pages, vm, rings, need_cool, start_page, scan, app, failed, calls>>
    BY <1>1, <1>3, <2>1 DEF FreeRelease
  <2>3. pol \in PolicyType /\ pol.pc = "release" /\ LocalsInv /\ ListsType
    BY DEF IndInv, TypeOK, OwnerInv, ListsType, FreeRelease, PolicyAt
  <2>4. g \in Pages /\ l \in AllLists
    BY <1>1, <2>1, <2>3 DEF LocalsInv, PolicyType, PagesOrNull, AllLists, Tiers, Kinds, TierOf
  <2>5. /\ ListsType'
        /\ Members' = [m \in AllLists |-> IF m = l THEN Members[m] \cup {g} ELSE Members[m] \ {g}]
    BY <2>2, <2>3, <2>4, MoveHome
  <2>6. pol' \in PolicyType /\ LocalsInv'
    BY <2>2, <2>3 DEF PolicyType, LocalsInv, PagesOrNull
  <2>7. pol'.p = pol.p /\ pol'.np = pol.np /\ pol'.cp = pol.cp /\ pol'.pc = "free"
    BY <2>2, <2>3 DEF PolicyType
  <2>8. TypeOK'
    <3>1. cur_cool' \in [Tiers -> PagesOrNull]
      BY <1>3, <2>2, CursorAwayType DEF IndInv
    <3> QED
      BY <2>2, <2>5, <2>6, <3>1 DEF IndInv, TypeOK, ListsType, rings
  <2>9. UNCHANGED <<pages, page, app, hot_ring, cold_ring, free_page_ring>> /\ AppHands' = AppHands
    BY <2>2 DEF AppHands, rings
  <2>10. OwnerInv'
    <3>1. InHand' = InHand
      BY <2>7, <2>9 DEF InHand, PolicyHands
    <3>2. PICK k \in AllLists : g \in Members[k]
      BY <1>3 DEF Listed, OnList, Members
    <3>3. Members'[l] = Members[l] \cup {g} /\ \A m \in AllLists \ {l} : Members'[m] = Members[m] \ {g}
      BY <2>4, <2>5
    <3>4. Apart(Members, InHand)'
      BY <2>4, <3>1, <3>2, <3>3, ApartMove DEF IndInv, OwnerInv
    <3>5. HandsInv
      BY DEF IndInv, OwnerInv
    <3>6. HandsInv'
      BY <2>7, <2>9, <3>5 DEF HandsInv
    <3> QED
      BY <2>5, <3>4, <3>6 DEF OwnerInv, ListsType
  <2>11. RequestInv'
    BY <2>7, <2>9, RequestsUndisturbed DEF IndInv
  <2>12. DoomedInv /\ LifeInv
    BY DEF IndInv
  <2>13. LifeInv'
    <3>1. ASSUME NEW p
          PROVE  Doomed(p)' => Doomed(p) /\ p # g
      BY <1>1, <2>3, <2>7, <2>9, <2>12 DEF Doomed, DoomedInv, Publishing
    <3>2. ASSUME NEW p, Free(p)'
          PROVE  Free(p) \/ p = g
      <4>1. \A m \in AllLists : Members'[m] \subseteq Members[m] \cup {g}
        BY <2>5
      <4> QED
        BY <2>7, <3>2, <4>1 DEF Free, AllLists, Kinds
    <3>3. Doomed(g)
      BY <1>1, <2>3 DEF Doomed
    <3> QED
      BY <2>4, <2>9, <2>12, <3>1, <3>2, <3>3 DEF LifeInv, Allocating
  <2>14. DoomedInv'
    BY <2>7, <2>9, <2>12 DEF DoomedInv, Publishing
  <2> QED
    BY <2>6, <2>8, <2>10, <2>11, <2>13, <2>14 DEF IndInv
<1> QED
  BY <1>2, <1>3

\* The counters of a pass stay numbers.
LEMMA CountUp ==
  ASSUME pol \in PolicyType
  PROVE  pol.n + 1 \in Nat /\ pol.tries + 1 \in Nat
<1>1. pol.n \in Nat /\ pol.tries \in Nat
  BY DEF PolicyType
<1> QED
  BY <1>1

\* A request passes from a ring to the policy thread, or is dropped.
LEMMA HotTakeInv ==
  ASSUME IndInv, HotTake
  PROVE  IndInv'
<1>1. /\ pol \in PolicyType /\ pol.pc = "hot" /\ LocalsInv /\ RequestInv
      /\ hot_ring \in Seq(Pages) /\ cold_ring \in Seq(Pages)
  BY DEF IndInv, TypeOK, HotTake, PolicyAt
<1>2. UNCHANGED <<shared, cold_ring, free_page_ring, cool, scan, app, calls>>
  BY DEF HotTake
<1>3. CASE hot_ring = << >> \/ pol.n >= HotReqs
  <2>1. pol' = [pol EXCEPT !.pc = "cold", !.n = 0] /\ UNCHANGED hot_ring
    BY <1>3 DEF HotTake
  <2>2. pol' \in PolicyType /\ LocalsInv' /\ PolicyKept /\ pol'.pc \notin {"make hot", "make cold"}
    BY <1>1, <1>2, <2>1 DEF PolicyType, LocalsInv, PolicyKept
  <2>3. TypeOK'
    BY <1>2, <2>1, <2>2 DEF IndInv, TypeOK, shared, cool
  <2>4. OwnerInv' /\ LifeInv' /\ DoomedInv'
    BY <1>2, <2>2, PolicyUndisturbed DEF shared
  <2>5. RequestInv'
    BY <1>2, <2>1, <2>2, RequestsUndisturbed DEF IndInv, shared
  <2> QED
    BY <2>2, <2>3, <2>4, <2>5 DEF IndInv
<1>4. CASE ~(hot_ring = << >> \/ pol.n >= HotReqs)
  <2>1. PICK g : g = Head(hot_ring)
    OBVIOUS
  <2>2. /\ hot_ring' = Tail(hot_ring)
        /\ pol' = pol \/ pol' = [pol EXCEPT !.pc = "make hot", !.page = g, !.n = @ + 1]
    BY <1>4, <2>1 DEF HotTake
  <2>3. /\ hot_ring' \in Seq(Pages) /\ Distinct(hot_ring')
        /\ g \in Pages /\ g \in Elems(hot_ring)
        /\ Elems(hot_ring') = Elems(hot_ring) \ {g}
    BY <1>1, <1>4, <2>1, <2>2, HeadLeaves DEF RequestInv
  <2>4. g # NULL
    BY <2>3, PolicyAssumption DEF Pages
  <2>5. pol' \in PolicyType /\ LocalsInv' /\ PolicyKept
        /\ pol'.pc # "make cold" /\ (pol'.pc = "make hot" => pol'.page = g)
    <3>1. CASE pol' = pol
      BY <1>1, <1>2, <3>1 DEF PolicyType, LocalsInv, PolicyKept
    <3>2. CASE pol' = [pol EXCEPT !.pc = "make hot", !.page = g, !.n = @ + 1]
      <4>1. /\ pol'.pc = "make hot" /\ pol'.page = g
            /\ pol'.p = pol.p /\ pol'.np = pol.np /\ pol'.cp = pol.cp
        BY <1>1, <3>2 DEF PolicyType
      <4>2. pol' \in PolicyType
        <5>1. pol \in PolicyType /\ g \in PagesOrNull
          BY <1>1, <2>3 DEF PagesOrNull
        <5>2. PICK m \in Nat : m = pol.n + 1
          BY <1>1, CountUp
        <5>3. pol' = [pol EXCEPT !.pc = "make hot", !.page = g, !.n = m]
          BY <3>2, <5>2
        <5> QED
          BY <5>1, <5>2, <5>3 DEF PolicyType
      <4>3. LocalsInv'
        BY <1>1, <1>2, <2>4, <4>1 DEF LocalsInv
      <4>4. PolicyKept
        BY <1>1, <4>1 DEF PolicyKept
      <4> QED
        BY <4>1, <4>2, <4>3, <4>4
    <3> QED
      BY <2>2, <3>1, <3>2
  <2>6. TypeOK'
    BY <1>2, <2>3, <2>5 DEF IndInv, TypeOK, shared, cool
  <2>7. OwnerInv' /\ LifeInv' /\ DoomedInv'
    BY <1>2, <2>5, PolicyUndisturbed DEF shared
  <2>8. RequestInv'
    BY <1>1, <1>2, <2>3, <2>5 DEF RequestInv, shared
  <2> QED
    BY <2>5, <2>6, <2>7, <2>8 DEF IndInv
<1> QED
  BY <1>3, <1>4

\* The same for cold requests.
LEMMA ColdTakeInv ==
  ASSUME IndInv, ColdTake
  PROVE  IndInv'
<1>1. /\ pol \in PolicyType /\ pol.pc = "cold" /\ LocalsInv /\ RequestInv
      /\ hot_ring \in Seq(Pages) /\ cold_ring \in Seq(Pages)
  BY DEF IndInv, TypeOK, ColdTake, PolicyAt
<1>2. UNCHANGED <<shared, hot_ring, free_page_ring, cool, scan, app, calls>>
  BY DEF ColdTake
<1>3. CASE cold_ring = << >> \/ pol.n >= ColdReqs
  <2>1. pol' = [pol EXCEPT !.pc = "migrate", !.n = 0] /\ UNCHANGED cold_ring
    BY <1>3 DEF ColdTake
  <2>2. pol' \in PolicyType /\ LocalsInv' /\ PolicyKept /\ pol'.pc \notin {"make hot", "make cold"}
    BY <1>1, <1>2, <2>1 DEF PolicyType, LocalsInv, PolicyKept
  <2>3. TypeOK'
    BY <1>2, <2>1, <2>2 DEF IndInv, TypeOK, shared, cool
  <2>4. OwnerInv' /\ LifeInv' /\ DoomedInv'
    BY <1>2, <2>2, PolicyUndisturbed DEF shared
  <2>5. RequestInv'
    BY <1>2, <2>1, <2>2, RequestsUndisturbed DEF IndInv, shared
  <2> QED
    BY <2>2, <2>3, <2>4, <2>5 DEF IndInv
<1>4. CASE ~(cold_ring = << >> \/ pol.n >= ColdReqs)
  <2>1. PICK g : g = Head(cold_ring)
    OBVIOUS
  <2>2. /\ cold_ring' = Tail(cold_ring)
        /\ pol' = pol \/ pol' = [pol EXCEPT !.pc = "make cold", !.page = g, !.n = @ + 1]
    BY <1>4, <2>1 DEF ColdTake
  <2>3. /\ cold_ring' \in Seq(Pages) /\ Distinct(cold_ring')
        /\ g \in Pages /\ g \in Elems(cold_ring)
        /\ Elems(cold_ring') = Elems(cold_ring) \ {g}
    BY <1>1, <1>4, <2>1, <2>2, HeadLeaves DEF RequestInv
  <2>4. g # NULL
    BY <2>3, PolicyAssumption DEF Pages
  <2>5. pol' \in PolicyType /\ LocalsInv' /\ PolicyKept
        /\ pol'.pc # "make hot" /\ (pol'.pc = "make cold" => pol'.page = g)
    <3>1. CASE pol' = pol
      BY <1>1, <1>2, <3>1 DEF PolicyType, LocalsInv, PolicyKept
    <3>2. CASE pol' = [pol EXCEPT !.pc = "make cold", !.page = g, !.n = @ + 1]
      <4>1. /\ pol'.pc = "make cold" /\ pol'.page = g
            /\ pol'.p = pol.p /\ pol'.np = pol.np /\ pol'.cp = pol.cp
        BY <1>1, <3>2 DEF PolicyType
      <4>2. pol' \in PolicyType
        <5>1. pol \in PolicyType /\ g \in PagesOrNull
          BY <1>1, <2>3 DEF PagesOrNull
        <5>2. PICK m \in Nat : m = pol.n + 1
          BY <1>1, CountUp
        <5>3. pol' = [pol EXCEPT !.pc = "make cold", !.page = g, !.n = m]
          BY <3>2, <5>2
        <5> QED
          BY <5>1, <5>2, <5>3 DEF PolicyType
      <4>3. LocalsInv'
        BY <1>1, <1>2, <2>4, <4>1 DEF LocalsInv
      <4>4. PolicyKept
        BY <1>1, <4>1 DEF PolicyKept
      <4> QED
        BY <4>1, <4>2, <4>3, <4>4
    <3> QED
      BY <2>2, <3>1, <3>2
  <2>6. TypeOK'
    BY <1>2, <2>3, <2>5 DEF IndInv, TypeOK, shared, cool
  <2>7. OwnerInv' /\ LifeInv' /\ DoomedInv'
    BY <1>2, <2>5, PolicyUndisturbed DEF shared
  <2>8. RequestInv'
    BY <1>1, <1>2, <2>3, <2>5 DEF RequestInv, shared
  <2> QED
    BY <2>5, <2>6, <2>7, <2>8 DEF IndInv
<1> QED
  BY <1>3, <1>4

\* The page moves between the hot and the cold list, and its request is done.
LEMMA MakeHeatInv ==
  ASSUME IndInv, NEW hot \in BOOLEAN, NEW back \in {"hot", "cold"},
         PolicyAt("make hot") \/ PolicyAt("make cold"), MakeHeat(hot, back)
  PROVE  IndInv'
<1>1. PICK g, from, to :
        /\ g = pol.page
        /\ from = <<TierOf(g), IF page[g].hot THEN "hot" ELSE "cold">>
        /\ to = <<TierOf(g), IF hot THEN "hot" ELSE "cold">>
  OBVIOUS
<1>2. CASE ~CursorOk(g) \/ page[g].va = NULL \/ ~OnList(g, from)
  BY <1>1, <1>2, AbortInv DEF MakeHeat, Abort
<1>3. CASE CursorOk(g) /\ page[g].va # NULL /\ OnList(g, from)
  <2>1. /\ page' = [page EXCEPT ![g].ring_present = FALSE, ![g].hot = hot]
        /\ lists' = IF from = to THEN lists
                    ELSE [lists EXCEPT ![from] = RemoveFrom(@, g), ![to] = Enqueue(@, g)]
        /\ cur_cool' = CursorAway(g)
        /\ pol' = [pol EXCEPT !.pc = back, !.page = NULL]
        /\ UNCHANGED <<pages, vm, rings, need_cool, start_page, scan, app, failed, calls>>
    BY <1>1, <1>3 DEF MakeHeat
  <2>2. /\ pol \in PolicyType /\ pol.pc \in {"make hot", "make cold"}
        /\ LocalsInv /\ RequestInv /\ ListsType /\ page \in [Pages -> PageType]
    BY DEF IndInv, TypeOK, OwnerInv, ListsType, PolicyAt
  <2>3. g \in Pages
    BY <1>1, <2>2 DEF LocalsInv, PolicyType, PagesOrNull
  <2>4. from \in AllLists /\ to \in AllLists
    BY <1>1 DEF AllLists, Tiers, Kinds, TierOf
  <2>5. g \in Members[from]
    BY <1>3, <2>4 DEF OnList, Members
  <2>6. Apart(Members, InHand)
    BY DEF IndInv, OwnerInv
  <2>7. /\ ListsType' /\ Members'[to] = Members[to] \cup {g}
        /\ \A m \in AllLists \ {to} : Members'[m] = Members[m] \ {g}
    <3>1. \A m \in AllLists : g \in Members[m] => m = from
      BY <2>4, <2>5, <2>6 DEF Apart
    <3>2. CASE from = to
      <4>1. ListsType' /\ Members' = Members
        BY <2>1, <2>2, <3>2 DEF ListsType, Members
      <4> QED
        BY <2>5, <3>1, <3>2, <4>1
    <3>3. CASE from # to
      <4>1. Moves(from, to, g)
        BY <2>1, <3>3 DEF Moves
      <4>2. g \notin Members[to]
        BY <2>4, <3>1, <3>3
      <4>3. ListsType' /\ Members' = [Members EXCEPT ![from] = @ \ {g}, ![to] = @ \cup {g}]
        BY <2>2, <2>3, <2>4, <3>3, <4>1, <4>2, MoveTo
      <4>4. DOMAIN Members = AllLists
        BY DEF Members
      <4>5. Members'[to] = Members[to] \cup {g}
        BY <2>4, <4>3, <4>4
      <4>6. ASSUME NEW m \in AllLists \ {to}
            PROVE  Members'[m] = Members[m] \ {g}
        BY <2>4, <3>1, <4>3, <4>4
      <4> QED
        BY <4>3, <4>5, <4>6
    <3> QED
      BY <3>2, <3>3
  <2>8. pol' \in PolicyType /\ LocalsInv' /\ PolicyKept /\ pol'.pc \notin {"make hot", "make cold"}
    BY <2>1, <2>2 DEF PolicyType, LocalsInv, PagesOrNull, PolicyKept
  <2>9. /\ page' \in [Pages -> PageType]
        /\ \A p \in Pages \ {g} : page'[p] = page[p]
    <3>1. page' = [page EXCEPT ![g] = [page[g] EXCEPT !.ring_present = FALSE, !.hot = hot]]
      BY <2>1, <2>2, <2>3
    <3>2. [page[g] EXCEPT !.ring_present = FALSE, !.hot = hot] \in PageType
      BY <2>2, <2>3 DEF PageType
    <3> QED
      BY <2>2, <2>3, <3>1, <3>2
  <2>10. TypeOK'
    <3>1. cur_cool' \in [Tiers -> PagesOrNull]
      BY <1>3, <2>1, CursorAwayType DEF IndInv
    <3> QED
      BY <2>1, <2>7, <2>8, <2>9, <3>1 DEF IndInv, TypeOK, ListsType, rings
  <2>11. UNCHANGED <<pages, app, hot_ring, cold_ring, free_page_ring>> /\ AppHands' = AppHands
    BY <2>1 DEF AppHands, rings
  <2>12. OwnerInv'
    <3>1. InHand' = InHand
      BY <2>8, <2>11 DEF InHand, PolicyHands, PolicyKept
    <3>2. Apart(Members, InHand)'
      BY <2>4, <2>5, <2>6, <2>7, <3>1, ApartMove
    <3>3. HandsInv
      BY DEF IndInv, OwnerInv
    <3>4. HandsInv'
      BY <2>8, <2>11, <3>3 DEF HandsInv, PolicyKept
    <3> QED
      BY <2>7, <3>2, <3>4 DEF OwnerInv, ListsType
  <2>13. RequestInv'
    <3>1. g \notin Elems(hot_ring) \cup Elems(cold_ring)
      BY <1>1, <2>2 DEF RequestInv
    <3>2. Elems(hot_ring) \subseteq Pages /\ Elems(cold_ring) \subseteq Pages
      BY EndsListed DEF IndInv, TypeOK
    <3> QED
      BY <2>2, <2>8, <2>9, <2>11, <3>1, <3>2 DEF RequestInv
  <2>14. LifeInv' /\ DoomedInv'
    <3>1. ASSUME NEW t \in Tiers
          PROVE  Members'[<<t, "free">>] = Members[<<t, "free">>]
      <4>1. PICK l : l = <<t, "free">>
        OBVIOUS
      <4>2. l \in AllLists /\ l # to /\ l # from
        BY <1>1, <4>1 DEF AllLists, Kinds
      <4>3. g \notin Members[l]
        BY <2>4, <2>5, <2>6, <4>2 DEF Apart
      <4>4. Members'[l] = Members[l] \ {g}
        BY <2>7, <4>2
      <4>5. Members'[l] = Members[l]
        BY <4>3, <4>4
      <4> QED
        BY <4>1, <4>5
    <3> QED
      BY <2>8, <2>11, <3>1, RingsUndisturbed
  <2> QED
    BY <2>8, <2>10, <2>12, <2>13, <2>14 DEF IndInv
<1> QED
  BY <1>2, <1>3

\* make_hot and make_cold.
LEMMA MakeHotColdInv ==
  ASSUME IndInv, MakeHot \/ MakeCold
  PROVE  IndInv'
BY MakeHeatInv DEF MakeHot, MakeCold

-----------------------------------------------------------------------------
(* The policy thread: migration.                                           *)

\* What the policy thread does to other than its own page on lists that are
\* not free.
LEMMA HandsUndisturbed ==
  ASSUME IndInv, UNCHANGED <<pages, free_page_ring, app>>, pol'.np = pol.np,
         pol.pc # "release", pol'.pc # "release",
         \A t \in Tiers : Members'[<<t, "free">>] = Members[<<t, "free">>]
  PROVE  LifeInv' /\ DoomedInv'
<1>1. \A b \in Apps : (Allocating(b)' <=> Allocating(b)) /\ (Publishing(b)' <=> Publishing(b))
  BY DEF Allocating, Publishing
<1>2. LifeInv /\ DoomedInv
  BY DEF IndInv
<1>3. ASSUME NEW p
      PROVE  (Free(p)' <=> Free(p)) /\ (Doomed(p)' <=> Doomed(p))
  BY <1>1 DEF Free, Doomed
<1>4. LifeInv'
  BY <1>1, <1>2, <1>3 DEF LifeInv
<1>5. DoomedInv'
  BY <1>1, <1>2 DEF DoomedInv
<1> QED
  BY <1>4, <1>5

\* The same when a page goes between a free list and the policy thread.
LEMMA FreeUndisturbed ==
  ASSUME IndInv, UNCHANGED <<pages, free_page_ring, app>>,
         pol.pc # "release", pol'.pc # "release",
         \A p \in Pages : Free(p)' => Free(p)
  PROVE  LifeInv' /\ DoomedInv'
<1>1. \A b \in Apps : (Allocating(b)' <=> Allocating(b)) /\ (Publishing(b)' <=> Publishing(b))
  BY DEF Allocating, Publishing
<1>2. LifeInv /\ DoomedInv
  BY DEF IndInv
<1>3. \A p : Doomed(p)' <=> Doomed(p)
  BY <1>1 DEF Doomed
<1>4. /\ \A v \in Vas : pages[v] # NULL => pages[v] \in Pages
      /\ \A a \in Apps : Allocating(a) => app[a].page \in Pages
  BY DEF IndInv, TypeOK, AppType, PagesOrNull, LocalsInv, Allocating
<1>5. LifeInv'
  BY <1>1, <1>2, <1>3, <1>4 DEF LifeInv
<1>6. DoomedInv'
  BY <1>1, <1>2 DEF DoomedInv
<1> QED
  BY <1>5, <1>6

\* The hottest NVM page is taken off its list.
LEMMA MigrateTakeInv ==
  ASSUME IndInv, MigrateTake
  PROVE  IndInv'
<1>1. /\ pol \in PolicyType /\ pol.pc = "migrate" /\ LocalsInv /\ ListsType
      /\ cur_cool \in [Tiers -> PagesOrNull] /\ Apart(Members, InHand) /\ HandsInv
  BY DEF IndInv, TypeOK, OwnerInv, ListsType, MigrateTake, PolicyAt
<1>2. UNCHANGED <<page, pages, vm, rings, need_cool, start_page, scan, app, failed, calls>>
  BY DEF MigrateTake
<1>3. UNCHANGED <<page, pages, app, hot_ring, cold_ring, free_page_ring>> /\ AppHands' = AppHands
  BY <1>2 DEF rings, AppHands
<1>4. PICK l : l = <<"nvm", "hot">>
  OBVIOUS
<1>5. l \in AllLists /\ \A t \in Tiers : l # <<t, "free">> /\ <<t, "free">> \in AllLists
  BY <1>4 DEF AllLists, Tiers, Kinds
<1>6. CASE pol.n >= MigrateRate \/ lists[l] = << >>
  <2>1. pol' = [pol EXCEPT !.pc = "cool", !.n = 0] /\ UNCHANGED <<lists, cur_cool>>
    BY <1>4, <1>6 DEF MigrateTake
  <2>2. pol' \in PolicyType /\ LocalsInv' /\ PolicyKept /\ pol'.pc \notin {"make hot", "make cold"}
    BY <1>1, <1>2, <2>1 DEF PolicyType, LocalsInv, PolicyKept
  <2>3. TypeOK'
    BY <1>2, <2>1, <2>2 DEF IndInv, TypeOK, rings
  <2>4. OwnerInv' /\ LifeInv' /\ DoomedInv'
    BY <1>3, <2>1, <2>2, PolicyUndisturbed
  <2>5. RequestInv'
    BY <1>3, <2>2, RequestsUndisturbed DEF IndInv
  <2> QED
    BY <2>2, <2>3, <2>4, <2>5 DEF IndInv
<1>7. CASE ~(pol.n >= MigrateRate \/ lists[l] = << >>)
  <2>1. PICK g : g = LastOf(lists[l])
    OBVIOUS
  <2>2. /\ pol' = [pol EXCEPT !.pc = "test", !.p = g]
        /\ lists' = [lists EXCEPT ![l] = Dequeue(@)]
        /\ cur_cool' = [cur_cool EXCEPT !["nvm"] = IF @ = g THEN FirstOf(Dequeue(lists[l])) ELSE @]
    BY <1>4, <1>7, <2>1 DEF MigrateTake
  <2>3. /\ ListsType' /\ g \in Pages /\ g \in Members[l]
        /\ Members' = [Members EXCEPT ![l] = @ \ {g}]
    BY <1>1, <1>5, <1>7, <2>1, <2>2, TakeLast
  <2>4. g # NULL
    BY <2>3, PolicyAssumption DEF Pages
  <2>5. /\ pol'.pc = "test" /\ pol'.p = g /\ pol'.np = NULL /\ pol'.cp = NULL /\ pol'.page = pol.page
        /\ pol.p = NULL /\ pol.np = NULL /\ pol.cp = NULL
    BY <1>1, <2>2 DEF PolicyType, LocalsInv
  <2>6. pol' \in PolicyType
    <3>1. g \in PagesOrNull
      BY <2>3 DEF PagesOrNull
    <3> QED
      BY <1>1, <2>2, <3>1 DEF PolicyType
  <2>7. LocalsInv'
    BY <1>1, <1>2, <2>4, <2>5 DEF LocalsInv
  <2>8. TypeOK'
    <3>1. PICK s : s = Dequeue(lists[l])
      OBVIOUS
    <3>2. s \in Seq(Pages)
      BY <1>1, <1>5, <1>7, <3>1, DequeueTakes DEF ListsType
    <3>3. FirstOf(s) \in PagesOrNull
      BY <3>2, EndsListed DEF PagesOrNull
    <3>4. cur_cool' \in [Tiers -> PagesOrNull]
      BY <1>1, <2>2, <3>1, <3>3
    <3> QED
      BY <1>2, <2>3, <2>6, <3>4 DEF IndInv, TypeOK, ListsType, rings
  <2>9. OwnerInv'
    <3>1. g \notin InHand
      BY <1>1, <1>5, <2>3 DEF Apart
    <3>2. InHand' = InHand \cup {g} /\ PolicyHands = {}
      BY <1>3, <2>4, <2>5 DEF InHand, PolicyHands
    <3>3. Apart(Members, InHand)'
      BY <1>1, <1>5, <2>3, <3>2, ApartTake
    <3>4. \A a \in AppHands : app[a].page # g
      BY <3>1 DEF InHand
    <3>5. \A a \in AppHands : app[a].page # NULL
      BY <1>1 DEF LocalsInv, AppHands
    <3>6. HandsInv'
      BY <1>1, <1>3, <2>4, <2>5, <3>4, <3>5 DEF HandsInv
    <3> QED
      BY <2>3, <3>3, <3>6 DEF OwnerInv, ListsType
  <2>10. RequestInv'
    BY <1>3, <2>5, RequestsUndisturbed DEF IndInv
  <2>11. LifeInv' /\ DoomedInv'
    <3>1. \A t \in Tiers : Members'[<<t, "free">>] = Members[<<t, "free">>]
      <4>1. DOMAIN Members = AllLists
        BY DEF Members
      <4> QED
        BY <1>5, <2>3, <4>1
    <3>2. pol.pc # "release" /\ pol'.pc # "release" /\ pol'.np = pol.np
      BY <1>1, <2>5
    <3> QED
      BY <1>3, <3>1, <3>2, HandsUndisturbed
  <2> QED
    BY <2>7, <2>8, <2>9, <2>10, <2>11 DEF IndInv
<1> QED
  BY <1>6, <1>7

\* The page in hand goes back to a cold list, or stays in hand.
LEMMA MigrateTestInv ==
  ASSUME IndInv, MigrateTest
  PROVE  IndInv'
<1>1. /\ pol \in PolicyType /\ pol.pc = "test" /\ LocalsInv /\ ListsType
      /\ page \in [Pages -> PageType] /\ Apart(Members, InHand) /\ HandsInv
  BY DEF IndInv, TypeOK, OwnerInv, ListsType, MigrateTest, PolicyAt
<1>2. UNCHANGED <<pages, vm, rings, cool, scan, app, failed, calls>>
  BY DEF MigrateTest
<1>3. UNCHANGED <<pages, app, hot_ring, cold_ring, free_page_ring>> /\ AppHands' = AppHands
  BY <1>2 DEF rings, AppHands
<1>4. PICK g, l : g = pol.p /\ l = <<"nvm", "cold">>
  OBVIOUS
<1>5. l \in AllLists /\ \A t \in Tiers : l # <<t, "free">> /\ <<t, "free">> \in AllLists
  BY <1>4 DEF AllLists, Tiers, Kinds
<1>6. g \in Pages /\ g # NULL /\ pol.np = NULL /\ pol.cp = NULL
  BY <1>1, <1>4 DEF PolicyType, PagesOrNull, LocalsInv
<1>7. CASE page[g].warm
  <2>1. pol' = [pol EXCEPT !.pc = "try"] /\ UNCHANGED <<page, lists>>
    BY <1>4, <1>7 DEF MigrateTest
  <2>2. pol' \in PolicyType /\ LocalsInv' /\ PolicyKept /\ pol'.pc \notin {"make hot", "make cold"}
    BY <1>1, <1>2, <2>1 DEF PolicyType, LocalsInv, PolicyKept
  <2>3. TypeOK'
    BY <1>2, <2>1, <2>2 DEF IndInv, TypeOK, rings, cool
  <2>4. OwnerInv' /\ LifeInv' /\ DoomedInv'
    BY <1>3, <2>1, <2>2, PolicyUndisturbed
  <2>5. RequestInv'
    BY <1>3, <2>1, <2>2, RequestsUndisturbed DEF IndInv
  <2> QED
    BY <2>2, <2>3, <2>4, <2>5 DEF IndInv
<1>8. CASE ~page[g].warm
  <2>1. /\ pol' = [pol EXCEPT !.pc = "migrate", !.p = NULL]
        /\ lists' = [lists EXCEPT ![l] = Enqueue(@, g)]
        /\ page' = [page EXCEPT ![g].hot = FALSE]
    BY <1>4, <1>8 DEF MigrateTest
  <2>2. g \in InHand /\ \A m \in AllLists : g \notin Members[m]
    BY <1>1, <1>4, <1>6 DEF Apart, InHand, PolicyHands
  <2>3. ListsType' /\ Members' = [Members EXCEPT ![l] = @ \cup {g}]
    BY <1>1, <1>5, <1>6, <2>1, <2>2, PutFirst
  <2>4. /\ pol'.pc = "migrate" /\ pol'.p = NULL /\ pol'.np = NULL /\ pol'.cp = NULL
        /\ pol'.page = pol.page
    BY <1>1, <1>6, <2>1 DEF PolicyType
  <2>5. pol' \in PolicyType
    BY <1>1, <2>1 DEF PolicyType, PagesOrNull
  <2>6. LocalsInv'
    BY <1>1, <1>2, <2>4 DEF LocalsInv
  <2>7. /\ page' \in [Pages -> PageType]
        /\ \A p \in Pages : page'[p].ring_present = page[p].ring_present
    BY <1>1, <1>6, <2>1 DEF PageType
  <2>8. TypeOK'
    BY <1>2, <2>3, <2>5, <2>7 DEF IndInv, TypeOK, ListsType, rings, cool
  <2>9. OwnerInv'
    <3>1. \A a \in AppHands : app[a].page # g
      BY <1>1, <1>4 DEF HandsInv
    <3>2. InHand' \subseteq InHand \ {g}
      BY <1>3, <2>4, <3>1 DEF InHand, PolicyHands
    <3>3. Apart(Members, InHand)'
      BY <1>1, <1>5, <2>2, <2>3, <3>2, ApartPut
    <3>4. \A a \in AppHands : app[a].page # NULL
      BY <1>1 DEF LocalsInv, AppHands
    <3>5. HandsInv'
      BY <1>1, <1>3, <2>4, <3>4 DEF HandsInv
    <3> QED
      BY <2>3, <3>3, <3>5 DEF OwnerInv, ListsType
  <2>10. RequestInv'
    BY <1>3, <2>4, <2>7, RequestsUndisturbed DEF IndInv
  <2>11. LifeInv' /\ DoomedInv'
    <3>1. \A t \in Tiers : Members'[<<t, "free">>] = Members[<<t, "free">>]
      <4>1. DOMAIN Members = AllLists
        BY DEF Members
      <4> QED
        BY <1>5, <2>3, <4>1
    <3>2. pol.pc # "release" /\ pol'.pc # "release" /\ pol'.np = pol.np
      BY <1>1, <1>6, <2>4
    <3> QED
      BY <1>3, <3>1, <3>2, HandsUndisturbed
  <2> QED
    BY <2>6, <2>8, <2>9, <2>10, <2>11 DEF IndInv
<1> QED
  BY <1>7, <1>8

\* The last page of a free list becomes the target of the migration.
LEMMA TakeTarget ==
  ASSUME IndInv, NEW t \in Tiers, NEW l, l = <<t, "free">>, lists[l] # << >>,
         NEW g, g = LastOf(lists[l]), pol.np = NULL,
         lists' = [lists EXCEPT ![l] = Dequeue(@)],
         pol'.np = g, pol'.p = pol.p, pol'.cp = pol.cp, pol.pc # "release", pol'.pc # "release",
         UNCHANGED <<pages, free_page_ring, app>>
  PROVE  g \in Pages /\ ListsType' /\ OwnerInv' /\ LifeInv' /\ DoomedInv'
<1>1. ListsType /\ Apart(Members, InHand) /\ HandsInv /\ LocalsInv
  BY DEF IndInv, TypeOK, OwnerInv, ListsType
<1>2. l \in AllLists /\ AppHands' = AppHands
  BY DEF AllLists, Kinds, AppHands
<1>3. /\ ListsType' /\ g \in Pages /\ g \in Members[l]
      /\ Members' = [Members EXCEPT ![l] = @ \ {g}]
  BY <1>1, <1>2, TakeLast
<1>4. g # NULL
  BY <1>3, PolicyAssumption DEF Pages
<1>5. OwnerInv'
  <2>1. g \notin InHand
    BY <1>1, <1>2, <1>3 DEF Apart
  <2>2. InHand' = InHand \cup {g}
    BY <1>2, <1>4 DEF InHand, PolicyHands
  <2>3. Apart(Members, InHand)'
    BY <1>1, <1>2, <1>3, <2>2, ApartTake
  <2>4. (\A a \in AppHands : app[a].page # g) /\ g \notin {pol.p, pol.cp}
    BY <1>4, <2>1 DEF InHand, PolicyHands
  <2>5. HandsInv'
    BY <1>1, <1>2, <1>4, <2>4 DEF HandsInv
  <2> QED
    BY <1>3, <2>3, <2>5 DEF OwnerInv, ListsType
<1>6. ASSUME NEW p \in Pages, Free(p)'
      PROVE  Free(p)
  <2>1. \A m \in AllLists : Members'[m] \subseteq Members[m]
    BY <1>1, <1>2, <1>3, TakenIsOff
  <2> QED
    BY <1>3, <1>6, <2>1 DEF Free, AllLists, Kinds
<1>7. LifeInv' /\ DoomedInv'
  BY <1>6, FreeUndisturbed
<1> QED
  BY <1>3, <1>5, <1>7

\* A free DRAM page is taken; after two attempts the page in hand is forgotten.
LEMMA TryDramInv ==
  ASSUME IndInv, TryDram
  PROVE  IndInv'
<1>1. /\ pol \in PolicyType /\ pol.pc = "try" /\ LocalsInv /\ HandsInv /\ Apart(Members, InHand)
  BY DEF IndInv, TypeOK, OwnerInv, TryDram, PolicyAt
<1>2. UNCHANGED <<page, pages, vm, rings, cool, scan, app, failed, calls>>
  BY DEF TryDram
<1>3. UNCHANGED <<page, pages, app, hot_ring, cold_ring, free_page_ring>> /\ AppHands' = AppHands
  BY <1>2 DEF rings, AppHands
<1>4. PICK l : l = <<"dram", "free">>
  OBVIOUS
<1>5. CASE pol.tries = 2
  <2>1. pol' = [pol EXCEPT !.pc = "migrate", !.p = NULL, !.tries = 0] /\ UNCHANGED lists
    BY <1>5 DEF TryDram
  <2>2. /\ pol'.pc = "migrate" /\ pol'.p = NULL /\ pol'.np = NULL /\ pol'.cp = NULL
        /\ pol'.page = pol.page /\ pol.np = NULL
    BY <1>1, <2>1 DEF PolicyType, LocalsInv
  <2>3. pol' \in PolicyType
    BY <1>1, <2>1 DEF PolicyType, PagesOrNull
  <2>4. LocalsInv'
    BY <1>1, <1>2, <2>2 DEF LocalsInv
  <2>5. TypeOK'
    BY <1>2, <2>1, <2>3 DEF IndInv, TypeOK, rings, cool
  <2>6. Members' = Members
    BY <2>1 DEF Members
  <2>7. OwnerInv'
    <3>1. InHand' \subseteq InHand
      BY <1>3, <2>2 DEF InHand, PolicyHands
    <3>2. Apart(Members, InHand)'
      BY <1>1, <2>6, <3>1 DEF Apart
    <3>3. \A a \in AppHands : app[a].page # NULL
      BY <1>1 DEF LocalsInv, AppHands
    <3>4. HandsInv'
      BY <1>1, <1>3, <2>2, <3>3 DEF HandsInv
    <3> QED
      BY <2>1, <3>2, <3>4 DEF IndInv, OwnerInv
  <2>8. RequestInv'
    BY <1>3, <2>2, RequestsUndisturbed DEF IndInv
  <2>9. LifeInv' /\ DoomedInv'
    <3>1. pol.pc # "release" /\ pol'.pc # "release" /\ pol'.np = pol.np
      BY <1>1, <2>2
    <3> QED
      BY <1>3, <2>6, <3>1, HandsUndisturbed
  <2> QED
    BY <2>4, <2>5, <2>7, <2>8, <2>9 DEF IndInv
<1>6. CASE pol.tries # 2 /\ lists[l] = << >>
  <2>1. pol' = [pol EXCEPT !.pc = "victim"] /\ UNCHANGED lists
    BY <1>4, <1>6 DEF TryDram
  <2>2. pol' \in PolicyType /\ LocalsInv' /\ PolicyKept /\ pol'.pc \notin {"make hot", "make cold"}
    BY <1>1, <1>2, <2>1 DEF PolicyType, LocalsInv, PolicyKept
  <2>3. TypeOK'
    BY <1>2, <2>1, <2>2 DEF IndInv, TypeOK, rings, cool
  <2>4. OwnerInv' /\ LifeInv' /\ DoomedInv'
    BY <1>3, <2>1, <2>2, PolicyUndisturbed
  <2>5. RequestInv'
    BY <1>3, <2>2, RequestsUndisturbed DEF IndInv
  <2> QED
    BY <2>2, <2>3, <2>4, <2>5 DEF IndInv
<1>7. CASE pol.tries # 2 /\ lists[l] # << >>
  <2>1. PICK g : g = LastOf(lists[l])
    OBVIOUS
  <2>2. pol' = [pol EXCEPT !.pc = "up", !.np = g] /\ lists' = [lists EXCEPT ![l] = Dequeue(@)]
    BY <1>4, <1>7, <2>1 DEF TryDram
  <2>3. /\ pol'.pc = "up" /\ pol'.p = pol.p /\ pol'.np = g /\ pol'.cp = pol.cp
        /\ pol'.page = pol.page /\ pol.np = NULL
    BY <1>1, <2>2 DEF PolicyType, LocalsInv
  <2>4. g \in Pages /\ ListsType' /\ OwnerInv' /\ LifeInv' /\ DoomedInv'
    <3>1. pol.pc # "release" /\ pol'.pc # "release" /\ "dram" \in Tiers
      BY <1>1, <2>3 DEF Tiers
    <3> QED
      BY <1>3, <1>4, <1>7, <2>1, <2>2, <2>3, <3>1, TakeTarget
  <2>5. g # NULL
    BY <2>4, PolicyAssumption DEF Pages
  <2>6. pol' \in PolicyType
    <3>1. g \in PagesOrNull
      BY <2>4 DEF PagesOrNull
    <3> QED
      BY <1>1, <2>2, <3>1 DEF PolicyType
  <2>7. LocalsInv'
    BY <1>1, <1>2, <2>3, <2>5 DEF LocalsInv
  <2>8. TypeOK'
    BY <1>2, <2>4, <2>6 DEF IndInv, TypeOK, ListsType, rings, cool
  <2>9. RequestInv'
    BY <1>3, <2>3, RequestsUndisturbed DEF IndInv
  <2> QED
    BY <2>4, <2>7, <2>8, <2>9 DEF IndInv
<1> QED
  BY <1>5, <1>6, <1>7

\* A free NVM page is taken for the victim.
LEMMA TakeNvmFrameInv ==
  ASSUME IndInv, TakeNvmFrame
  PROVE  IndInv'
<1>1. pol \in PolicyType /\ pol.pc = "frame" /\ LocalsInv
  BY DEF IndInv, TypeOK, TakeNvmFrame, PolicyAt
<1>2. PICK l : l = <<"nvm", "free">>
  OBVIOUS
<1>3. CASE lists[l] = << >>
  BY <1>2, <1>3, AbortInv DEF TakeNvmFrame, Abort
<1>4. CASE lists[l] # << >>
  <2>1. PICK g : g = LastOf(lists[l])
    OBVIOUS
  <2>2. /\ pol' = [pol EXCEPT !.pc = "down", !.np = g] /\ lists' = [lists EXCEPT ![l] = Dequeue(@)]
        /\ UNCHANGED <<page, pages, vm, rings, cool, scan, app, failed, calls>>
    BY <1>2, <1>4, <2>1 DEF TakeNvmFrame
  <2>3. /\ pol'.pc = "down" /\ pol'.p = pol.p /\ pol'.np = g /\ pol'.cp = pol.cp
        /\ pol'.page = pol.page /\ pol.np = NULL
    BY <1>1, <2>2 DEF PolicyType, LocalsInv
  <2>4. UNCHANGED <<page, pages, app, hot_ring, cold_ring, free_page_ring>>
    BY <2>2 DEF rings
  <2>5. g \in Pages /\ ListsType' /\ OwnerInv' /\ LifeInv' /\ DoomedInv'
    <3>1. pol.pc # "release" /\ pol'.pc # "release" /\ "nvm" \in Tiers
      BY <1>1, <2>3 DEF Tiers
    <3> QED
      BY <1>2, <1>4, <2>1, <2>2, <2>3, <2>4, <3>1, TakeTarget
  <2>6. g # NULL
    BY <2>5, PolicyAssumption DEF Pages
  <2>7. pol' \in PolicyType
    <3>1. g \in PagesOrNull
      BY <2>5 DEF PagesOrNull
    <3> QED
      BY <1>1, <2>2, <3>1 DEF PolicyType
  <2>8. LocalsInv'
    BY <1>1, <2>2, <2>3, <2>6 DEF LocalsInv
  <2>9. TypeOK'
    BY <2>2, <2>5, <2>7 DEF IndInv, TypeOK, ListsType, rings, cool
  <2>10. RequestInv'
    BY <2>3, <2>4, RequestsUndisturbed DEF IndInv
  <2> QED
    BY <2>5, <2>8, <2>9, <2>10 DEF IndInv
<1> QED
  BY <1>3, <1>4

\* A cold DRAM page is taken, or the page in hand is put back.
LEMMA TakeVictimInv ==
  ASSUME IndInv, TakeVictim
  PROVE  IndInv'
<1>1. /\ pol \in PolicyType /\ pol.pc = "victim" /\ LocalsInv /\ ListsType
      /\ Apart(Members, InHand) /\ HandsInv
  BY DEF IndInv, TypeOK, OwnerInv, ListsType, TakeVictim, PolicyAt
<1>2. UNCHANGED <<page, pages, vm, rings, cool, scan, app, failed, calls>>
  BY DEF TakeVictim
<1>3. UNCHANGED <<page, pages, app, hot_ring, cold_ring, free_page_ring>> /\ AppHands' = AppHands
  BY <1>2 DEF rings, AppHands
<1>4. PICK l, k : l = <<"dram", "cold">> /\ k = <<"nvm", "hot">>
  OBVIOUS
<1>5. /\ l \in AllLists /\ k \in AllLists
      /\ \A t \in Tiers : l # <<t, "free">> /\ k # <<t, "free">> /\ <<t, "free">> \in AllLists
  BY <1>4 DEF AllLists, Tiers, Kinds
<1>6. DOMAIN Members = AllLists /\ \A a \in AppHands : app[a].page # NULL
  BY <1>1 DEF Members, LocalsInv, AppHands
<1>7. CASE lists[l] = << >>
  <2>1. PICK g : g = pol.p
    OBVIOUS
  <2>2. /\ lists' = [lists EXCEPT ![k] = Enqueue(@, g)]
        /\ pol' = [pol EXCEPT !.pc = "sleep", !.p = NULL, !.n = 0, !.tries = 0]
    BY <1>4, <1>7, <2>1 DEF TakeVictim
  <2>3. g \in Pages /\ g # NULL /\ pol.np = NULL /\ pol.cp = NULL
    BY <1>1, <2>1 DEF PolicyType, PagesOrNull, LocalsInv
  <2>4. g \in InHand /\ \A m \in AllLists : g \notin Members[m]
    BY <1>1, <2>1, <2>3 DEF Apart, InHand, PolicyHands
  <2>5. ListsType' /\ Members' = [Members EXCEPT ![k] = @ \cup {g}]
    BY <1>1, <1>5, <2>2, <2>3, <2>4, PutFirst
  <2>6. /\ pol'.pc = "sleep" /\ pol'.p = NULL /\ pol'.np = NULL /\ pol'.cp = NULL
        /\ pol'.page = pol.page
    BY <1>1, <2>2, <2>3 DEF PolicyType
  <2>7. pol' \in PolicyType
    BY <1>1, <2>2 DEF PolicyType, PagesOrNull
  <2>8. LocalsInv'
    BY <1>1, <1>2, <2>6 DEF LocalsInv
  <2>9. TypeOK'
    BY <1>2, <2>5, <2>7 DEF IndInv, TypeOK, ListsType, rings, cool
  <2>10. OwnerInv'
    <3>1. \A a \in AppHands : app[a].page # g
      BY <1>1, <2>1 DEF HandsInv
    <3>2. InHand' \subseteq InHand \ {g}
      BY <1>3, <2>6, <3>1 DEF InHand, PolicyHands
    <3>3. Apart(Members, InHand)'
      BY <1>1, <1>5, <2>4, <2>5, <3>2, ApartPut
    <3>4. HandsInv'
      BY <1>1, <1>3, <1>6, <2>6 DEF HandsInv
    <3> QED
      BY <2>5, <3>3, <3>4 DEF OwnerInv, ListsType
  <2>11. RequestInv'
    BY <1>3, <2>6, RequestsUndisturbed DEF IndInv
  <2>12. LifeInv' /\ DoomedInv'
    <3>1. \A t \in Tiers : Members'[<<t, "free">>] = Members[<<t, "free">>]
      BY <1>5, <1>6, <2>5
    <3>2. pol.pc # "release" /\ pol'.pc # "release" /\ pol'.np = pol.np
      BY <1>1, <2>3, <2>6
    <3> QED
      BY <1>3, <3>1, <3>2, HandsUndisturbed
  <2> QED
    BY <2>8, <2>9, <2>10, <2>11, <2>12 DEF IndInv
<1>8. CASE lists[l] # << >>
  <2>1. PICK g : g = LastOf(lists[l])
    OBVIOUS
  <2>2. /\ lists' = [lists EXCEPT ![l] = Dequeue(@)]
        /\ pol' = [pol EXCEPT !.pc = "frame", !.cp = g]
    BY <1>4, <1>8, <2>1 DEF TakeVictim
  <2>3. /\ ListsType' /\ g \in Pages /\ g \in Members[l]
        /\ Members' = [Members EXCEPT ![l] = @ \ {g}]
    BY <1>1, <1>5, <1>8, <2>1, <2>2, TakeLast
  <2>4. g # NULL
    BY <2>3, PolicyAssumption DEF Pages
  <2>5. /\ pol'.pc = "frame" /\ pol'.p = pol.p /\ pol'.np = NULL /\ pol'.cp = g
        /\ pol'.page = pol.page /\ pol.p # NULL /\ pol.np = NULL /\ pol.cp = NULL
    BY <1>1, <2>2 DEF PolicyType, LocalsInv
  <2>6. pol' \in PolicyType
    <3>1. g \in PagesOrNull
      BY <2>3 DEF PagesOrNull
    <3> QED
      BY <1>1, <2>2, <3>1 DEF PolicyType
  <2>7. LocalsInv'
    BY <1>1, <1>2, <2>4, <2>5 DEF LocalsInv
  <2>8. TypeOK'
    BY <1>2, <2>3, <2>6 DEF IndInv, TypeOK, ListsType, rings, cool
  <2>9. OwnerInv'
    <3>1. g \notin InHand
      BY <1>1, <1>5, <2>3 DEF Apart
    <3>2. InHand' = InHand \cup {g}
      BY <1>3, <2>4, <2>5 DEF InHand, PolicyHands
    <3>3. Apart(Members, InHand)'
      BY <1>1, <1>5, <2>3, <3>2, ApartTake
    <3>4. (\A a \in AppHands : app[a].page # g) /\ g # pol.p
      BY <2>4, <3>1 DEF InHand, PolicyHands
    <3>5. HandsInv'
      BY <1>1, <1>3, <1>6, <2>4, <2>5, <3>4 DEF HandsInv
    <3> QED
      BY <2>3, <3>3, <3>5 DEF OwnerInv, ListsType
  <2>10. RequestInv'
    BY <1>3, <2>5, RequestsUndisturbed DEF IndInv
  <2>11. LifeInv' /\ DoomedInv'
    <3>1. \A t \in Tiers : Members'[<<t, "free">>] = Members[<<t, "free">>]
      BY <1>5, <1>6, <2>3
    <3>2. pol.pc # "release" /\ pol'.pc # "release" /\ pol'.np = pol.np
      BY <1>1, <2>5
    <3> QED
      BY <1>3, <3>1, <3>2, HandsUndisturbed
  <2> QED
    BY <2>7, <2>8, <2>9, <2>10, <2>11 DEF IndInv
<1> QED
  BY <1>7, <1>8

\* The address is mapped onto the new frame.
LEMMA RemapInv ==
  ASSUME IndInv, RemapUp \/ RemapDown
  PROVE  IndInv'
<1>1. pol \in PolicyType /\ LocalsInv /\ page \in [Pages -> PageType] /\ vm \in [Vas -> Frames \cup {NULL}]
  BY DEF IndInv, TypeOK
<1>2. PICK q, from, to :
        /\ Remap(q, from, to) /\ q \in Pages /\ pol.np \in Pages
        /\ (pol.pc = "up" /\ to = "swap up") \/ (pol.pc = "down" /\ to = "swap down")
  <2>1. CASE RemapUp
    <3>1. Remap(pol.p, "nvm", "swap up") /\ pol.pc = "up"
      BY <2>1 DEF RemapUp, PolicyAt
    <3>2. pol.p \in Pages /\ pol.np \in Pages
      BY <1>1, <3>1 DEF PolicyType, PagesOrNull, LocalsInv
    <3> QED
      BY <3>1, <3>2
  <2>2. CASE RemapDown
    <3>1. Remap(pol.cp, "dram", "swap down") /\ pol.pc = "down"
      BY <2>2 DEF RemapDown, PolicyAt
    <3>2. pol.cp \in Pages /\ pol.np \in Pages
      BY <1>1, <3>1 DEF PolicyType, PagesOrNull, LocalsInv
    <3> QED
      BY <3>1, <3>2
  <2> QED
    BY <2>1, <2>2
<1>3. CASE page[pol.np].present \/ page[q].va = NULL \/ TierOf(q) # from
  BY <1>2, <1>3, AbortInv DEF Remap, Abort
<1>4. CASE ~(page[pol.np].present \/ page[q].va = NULL \/ TierOf(q) # from)
  <2>1. /\ vm' = [vm EXCEPT ![page[q].va] = page[pol.np].frame]
        /\ pol' = [pol EXCEPT !.pc = to]
        /\ UNCHANGED <<page, lists, pages, rings, cool, scan, app, failed, calls>>
    BY <1>2, <1>4 DEF Remap
  <2>2. page[pol.np].frame \in Frames
    BY <1>1, <1>2 DEF PageType
  <2>3. vm' \in [Vas -> Frames \cup {NULL}]
    BY <1>1, <2>1, <2>2
  <2>4. pol' \in PolicyType /\ LocalsInv' /\ PolicyKept /\ pol'.pc \notin {"make hot", "make cold"}
    BY <1>1, <1>2, <2>1 DEF PolicyType, LocalsInv, PolicyKept
  <2>5. TypeOK'
    BY <2>1, <2>3, <2>4 DEF IndInv, TypeOK, rings, cool
  <2>6. OwnerInv' /\ LifeInv' /\ DoomedInv'
    BY <2>1, <2>4, PolicyUndisturbed DEF rings
  <2>7. RequestInv'
    BY <2>1, <2>4, RequestsUndisturbed DEF IndInv, rings
  <2> QED
    BY <2>4, <2>5, <2>6, <2>7 DEF IndInv
<1> QED
  BY <1>3, <1>4

\* The two structures exchange their frames; no request is touched.
LEMMA SwappedType ==
  ASSUME page \in [Pages -> PageType], NEW q \in Pages, pol.np \in Pages, page' = Swapped(q)
  PROVE  /\ page' \in [Pages -> PageType]
         /\ \A p \in Pages : page'[p].ring_present = page[p].ring_present
<1>1. PICK h : h = pol.np
  OBVIOUS
<1>2. PICK m : m = [page EXCEPT ![q].frame = page[h].frame]
  OBVIOUS
<1>3. page[h].frame \in Frames /\ page[q].frame \in Frames
  BY <1>1 DEF PageType
<1>4. m \in [Pages -> PageType] /\ \A p \in Pages : m[p].ring_present = page[p].ring_present
  BY <1>2, <1>3 DEF PageType
<1>5. PICK x : x = [m[h] EXCEPT !.frame = page[q].frame, !.present = FALSE,
                                 !.hot = FALSE, !.warm = FALSE]
  OBVIOUS
<1>6. x \in PageType /\ x.ring_present = m[h].ring_present
  <2>1. m[h] \in PageType
    BY <1>1, <1>4
  <2>2. x \in PageType
    BY <1>3, <1>5, <2>1 DEF PageType
  <2>3. x.ring_present = m[h].ring_present
    BY <1>5, <2>1 DEF PageType
  <2> QED
    BY <2>2, <2>3
<1>7. page' = [m EXCEPT ![h] = x]
  BY <1>1, <1>2, <1>5 DEF Swapped
<1> QED
  BY <1>1, <1>4, <1>6, <1>7

\* The end of a migration: the policy thread lets go of the pages g and h.
LetsGo(g, h) ==
  /\ {pol'.p, pol'.np, pol'.cp} \subseteq ({pol.p, pol.np, pol.cp} \ {g, h}) \cup {NULL}
  /\ (pol'.p # NULL => pol'.p = pol.p) /\ pol'.np = NULL /\ pol'.cp = NULL
  /\ pol.pc # "release" /\ pol'.pc # "release"
FreeList(l) == \E t \in Tiers : l = <<t, "free">>

\* The page in hand and the target of its migration go to two lists.
LEMMA SwapInv ==
  ASSUME IndInv, NEW g \in Pages, NEW h \in Pages, h = pol.np, g \in {pol.p, pol.cp},
         NEW l \in AllLists, ~FreeList(l), NEW m \in AllLists, FreeList(m), BothPut(l, g, m, h),
         LetsGo(g, h), UNCHANGED <<pages, free_page_ring, app>>
  PROVE  ListsType' /\ OwnerInv' /\ LifeInv' /\ DoomedInv'
<1>1. ListsType /\ Apart(Members, InHand) /\ HandsInv /\ LocalsInv
  BY DEF IndInv, TypeOK, OwnerInv, ListsType
<1>2. l # m /\ AppHands' = AppHands
  BY DEF AppHands
<1>3. g # NULL /\ h # NULL
  BY PolicyAssumption DEF Pages
<1>4. g # h
  BY <1>1, <1>3 DEF HandsInv
<1>5. g \in InHand /\ h \in InHand
  BY <1>3 DEF InHand, PolicyHands
<1>6. \A n \in AllLists : g \notin Members[n] /\ h \notin Members[n]
  BY <1>1, <1>5 DEF Apart
<1>7. ListsType' /\ Members' = [Members EXCEPT ![l] = @ \cup {g}, ![m] = @ \cup {h}]
  <2>1. ListsType /\ l # m /\ g \notin Members[l] /\ h \notin Members[m]
    BY <1>1, <1>2, <1>6
  <2> QED
    BY <2>1, PutTwo
<1>8. OwnerInv'
  <2>1. \A a \in AppHands : app[a].page # NULL
    BY <1>1 DEF LocalsInv, AppHands
  <2>2. \A a \in AppHands : app[a].page # g /\ app[a].page # h
    BY <1>1 DEF HandsInv
  <2>3. InHand' \subseteq InHand \ {g, h}
    BY <1>2, <2>2 DEF InHand, PolicyHands, LetsGo
  <2>4. Apart(Members, InHand)'
    BY <1>1, <1>2, <1>4, <1>5, <1>7, <2>3, ApartPutTwo
  <2>5. HandsInv'
    BY <1>1, <1>2, <2>1 DEF HandsInv, LetsGo
  <2> QED
    BY <1>7, <2>4, <2>5 DEF OwnerInv, ListsType
<1>9. ASSUME NEW p \in Pages, Free(p)'
      PROVE  Free(p)
  <2>1. DOMAIN Members = AllLists
    BY DEF Members
  <2>2. ASSUME NEW t \in Tiers
        PROVE  Members'[<<t, "free">>] \subseteq Members[<<t, "free">>] \cup {h}
    <3>1. PICK n : n = <<t, "free">>
      OBVIOUS
    <3>2. n \in AllLists /\ n # l
      BY <3>1 DEF FreeList, AllLists, Kinds
    <3>3. Members'[n] \subseteq Members[n] \cup {h}
      BY <1>2, <1>7, <2>1, <3>2
    <3> QED
      BY <3>1, <3>3
  <2>3. p # NULL /\ pol'.np = NULL
    BY PolicyAssumption DEF Pages, LetsGo
  <2> QED
    BY <1>9, <2>2, <2>3 DEF Free
<1>10. LifeInv' /\ DoomedInv'
  BY <1>9, FreeUndisturbed DEF LetsGo
<1> QED
  BY <1>7, <1>8, <1>10

\* The promoted page goes to the hot list, the other to a free list.
LEMMA SwapUpInv ==
  ASSUME IndInv, SwapUp
  PROVE  IndInv'
<1>1. pol \in PolicyType /\ pol.pc = "swap up" /\ LocalsInv /\ page \in [Pages -> PageType]
  BY DEF IndInv, TypeOK, SwapUp, PolicyAt
<1>2. PICK g, h, l, m : g = pol.p /\ h = pol.np /\ l = <<"dram", "hot">> /\ m = <<"nvm", "free">>
  OBVIOUS
<1>3. /\ page' = Swapped(g)
      /\ BothPut(l, g, m, h)
      /\ UNCHANGED <<pages, vm, rings, cool, scan, app, failed, calls>>
  BY <1>2 DEF BothPut, SwapUp
<1>4. PICK k \in Nat : k = pol.n + 1
  BY <1>1, CountUp
<1>5. pol' = [pol EXCEPT !.pc = "migrate", !.n = k, !.p = NULL, !.np = NULL, !.tries = 0]
  BY <1>4 DEF SwapUp
<1>6. pol' \in PolicyType
  BY <1>1, <1>4, <1>5 DEF PolicyType, PagesOrNull
<1>7. /\ pol'.pc = "migrate" /\ pol'.p = NULL /\ pol'.np = NULL /\ pol'.cp = NULL
      /\ pol'.page = pol.page
  BY <1>1, <1>5 DEF PolicyType, LocalsInv
<1>8. g \in Pages /\ h \in Pages
  BY <1>1, <1>2 DEF PolicyType, PagesOrNull, LocalsInv
<1>9. l \in AllLists /\ m \in AllLists /\ ~FreeList(l) /\ FreeList(m)
  BY <1>2 DEF FreeList, AllLists, Tiers, Kinds
<1>10. LocalsInv'
  BY <1>1, <1>3, <1>7 DEF LocalsInv
<1>11. ListsType' /\ OwnerInv' /\ LifeInv' /\ DoomedInv'
  <2>1. LetsGo(g, h) /\ g \in {pol.p, pol.cp}
    BY <1>1, <1>2, <1>7 DEF LetsGo
  <2> QED
    BY <1>2, <1>3, <1>8, <1>9, <2>1, SwapInv DEF rings
<1>12. /\ page' \in [Pages -> PageType]
       /\ \A p \in Pages : page'[p].ring_present = page[p].ring_present
  BY <1>1, <1>2, <1>3, <1>8, SwappedType
<1>13. TypeOK'
  BY <1>3, <1>6, <1>11, <1>12 DEF IndInv, TypeOK, ListsType, rings, cool
<1>14. RequestInv'
  BY <1>3, <1>7, <1>12, RequestsUndisturbed DEF IndInv, rings
<1> QED
  BY <1>10, <1>11, <1>13, <1>14 DEF IndInv

\* The demoted page goes to the cold list, the other to a free list.
LEMMA SwapDownInv ==
  ASSUME IndInv, SwapDown
  PROVE  IndInv'
<1>1. /\ pol \in PolicyType /\ pol.pc = "swap down" /\ LocalsInv /\ page \in [Pages -> PageType]
      /\ HandsInv
  BY DEF IndInv, TypeOK, OwnerInv, SwapDown, PolicyAt
<1>2. PICK g, h, l, m : g = pol.cp /\ h = pol.np /\ l = <<"nvm", "cold">> /\ m = <<"dram", "free">>
  OBVIOUS
<1>3. /\ page' = Swapped(g)
      /\ BothPut(l, g, m, h)
      /\ UNCHANGED <<pages, vm, rings, cool, scan, app, failed, calls>>
  BY <1>2 DEF BothPut, SwapDown
<1>4. PICK k \in Nat : k = pol.tries + 1
  BY <1>1, CountUp
<1>5. pol' = [pol EXCEPT !.pc = "try", !.tries = k, !.cp = NULL, !.np = NULL]
  BY <1>4 DEF SwapDown
<1>6. pol' \in PolicyType
  BY <1>1, <1>4, <1>5 DEF PolicyType, PagesOrNull
<1>7. /\ pol'.pc = "try" /\ pol'.p = pol.p /\ pol'.np = NULL /\ pol'.cp = NULL
      /\ pol'.page = pol.page
  BY <1>1, <1>5 DEF PolicyType
<1>8. g \in Pages /\ h \in Pages /\ pol.p # NULL
  BY <1>1, <1>2 DEF PolicyType, PagesOrNull, LocalsInv
<1>9. l \in AllLists /\ m \in AllLists /\ ~FreeList(l) /\ FreeList(m)
  BY <1>2 DEF FreeList, AllLists, Tiers, Kinds
<1>10. LocalsInv'
  BY <1>1, <1>3, <1>7, <1>8 DEF LocalsInv
<1>11. ListsType' /\ OwnerInv' /\ LifeInv' /\ DoomedInv'
  <2>1. pol.p # g /\ pol.p # h
    BY <1>1, <1>2, <1>8 DEF HandsInv
  <2>2. LetsGo(g, h) /\ g \in {pol.p, pol.cp}
    BY <1>1, <1>2, <1>7, <2>1 DEF LetsGo
  <2> QED
    BY <1>2, <1>3, <1>8, <1>9, <2>2, SwapInv DEF rings
<1>12. /\ page' \in [Pages -> PageType]
       /\ \A p \in Pages : page'[p].ring_present = page[p].ring_present
  BY <1>1, <1>2, <1>3, <1>8, SwappedType
<1>13. TypeOK'
  BY <1>3, <1>6, <1>11, <1>12 DEF IndInv, TypeOK, ListsType, rings, cool
<1>14. RequestInv'
  BY <1>3, <1>7, <1>12, RequestsUndisturbed DEF IndInv, rings
<1> QED
  BY <1>10, <1>11, <1>13, <1>14 DEF IndInv

-----------------------------------------------------------------------------
(* The policy thread: partial_cool.                                        *)

\* A cooling step that moves no page.
LEMMA CoolKeepsInv ==
  ASSUME IndInv, UNCHANGED <<page, lists, pages, vm, rings, need_cool, cur_cool, scan, app, calls>>,
         start_page' \in [Tiers -> PagesOrNull], pol' \in PolicyType,
         UNCHANGED <<pol.page, pol.p, pol.np, pol.cp>>,
         pol.pc \in {"cool", "cooling"}, pol'.pc \in {"cool", "cooling", "sleep"}
  PROVE  IndInv'
<1>1. TypeOK'
  BY DEF IndInv, TypeOK, rings
<1>2. LocalsInv'
  BY DEF IndInv, LocalsInv
<1>3. PolicyKept
  BY DEF PolicyKept
<1>4. OwnerInv' /\ LifeInv' /\ DoomedInv'
  BY <1>3, PolicyUndisturbed DEF rings
<1>5. RequestInv'
  BY RequestsUndisturbed DEF IndInv, rings
<1> QED
  BY <1>1, <1>2, <1>4, <1>5 DEF IndInv

\* The pass goes on to the other tier, or ends.
LEMMA CoolLeaveInv ==
  ASSUME IndInv, CoolLeave, UNCHANGED <<pages, vm, rings, scan, app, calls>>,
         pol.pc \in {"cool", "cooling"}
  PROVE  IndInv'
<1>1. pol \in PolicyType /\ start_page \in [Tiers -> PagesOrNull]
  BY DEF IndInv, TypeOK
<1>2. UNCHANGED <<page, lists, start_page, need_cool, cur_cool>>
  BY DEF CoolLeave
<1>3. CASE pol' = [pol EXCEPT !.pc = "cool", !.tier = "nvm", !.n = 0]
  <2>1. pol' \in PolicyType /\ pol'.pc = "cool" /\ UNCHANGED <<pol.page, pol.p, pol.np, pol.cp>>
    BY <1>1, <1>3 DEF PolicyType, Tiers
  <2> QED
    BY <1>1, <1>2, <2>1, CoolKeepsInv
<1>4. CASE pol' = [pol EXCEPT !.pc = "sleep", !.tier = "dram", !.n = 0]
  <2>1. pol' \in PolicyType /\ pol'.pc = "sleep" /\ UNCHANGED <<pol.page, pol.p, pol.np, pol.cp>>
    BY <1>1, <1>4 DEF PolicyType, Tiers
  <2> QED
    BY <1>1, <1>2, <2>1, CoolKeepsInv
<1> QED
  BY <1>3, <1>4 DEF CoolLeave

\* A round begins.
LEMMA CoolStartInv ==
  ASSUME IndInv, CoolStart
  PROVE  IndInv'
<1>1. /\ pol \in PolicyType /\ pol.pc = "cool" /\ start_page \in [Tiers -> PagesOrNull]
      /\ lists \in [AllLists -> Seq(Pages)]
  BY DEF IndInv, TypeOK, CoolStart, PolicyAt
<1>2. UNCHANGED <<pages, vm, rings, scan, app, calls>>
  BY DEF CoolStart
<1>3. CASE ~need_cool[pol.tier]
  BY <1>1, <1>2, <1>3, CoolLeaveInv DEF CoolStart
<1>4. CASE need_cool[pol.tier]
  <2>1. PICK t, s : t = pol.tier /\ s = lists[<<t, "hot">>]
    OBVIOUS
  <2>2. /\ start_page' = [start_page EXCEPT ![t] = IF @ = NULL THEN LastOf(s) ELSE @]
        /\ pol' = [pol EXCEPT !.pc = "cooling"]
        /\ UNCHANGED <<page, lists, need_cool, cur_cool>>
    BY <1>4, <2>1 DEF CoolStart
  <2>3. t \in Tiers
    BY <1>1, <2>1 DEF PolicyType
  <2>4. s \in Seq(Pages)
    BY <1>1, <2>1, <2>3 DEF AllLists, Kinds
  <2>5. LastOf(s) \in PagesOrNull
    BY <2>4, EndsListed DEF PagesOrNull
  <2>6. start_page' \in [Tiers -> PagesOrNull]
    BY <1>1, <2>2, <2>3, <2>5
  <2>7. pol' \in PolicyType /\ pol'.pc = "cooling" /\ UNCHANGED <<pol.page, pol.p, pol.np, pol.cp>>
    BY <1>1, <2>2 DEF PolicyType
  <2> QED
    BY <1>1, <1>2, <2>2, <2>6, <2>7, CoolKeepsInv
<1> QED
  BY <1>3, <1>4

\* A page of the hot list stays, or goes to the cold list.
LEMMA CoolOneLists ==
  ASSUME ListsType, Apart(Members, InHand), NEW l \in AllLists, NEW m \in AllLists, l # m,
         NEW g \in Members[l], g \in Pages, InHand' = InHand,
         lists' = lists \/ Moves(l, m, g)
  PROVE  /\ ListsType' /\ Apart(Members, InHand)'
         /\ \A n \in AllLists \ {l, m} : Members'[n] = Members[n]
<1>1. CASE lists' = lists
  <2>1. Members' = Members
    BY <1>1 DEF Members
  <2> QED
    BY <1>1, <2>1 DEF ListsType
<1>2. CASE Moves(l, m, g)
  <2>1. \A n \in AllLists : g \in Members[n] => n = l
    BY DEF Apart
  <2>2. g \notin Members[m]
    BY <2>1
  <2>3. ListsType' /\ Members' = [Members EXCEPT ![l] = @ \ {g}, ![m] = @ \cup {g}]
    BY <1>2, <2>2, MoveTo
  <2>4. DOMAIN Members = AllLists
    BY DEF Members
  <2>5. Members'[m] = Members[m] \cup {g}
    BY <2>3, <2>4
  <2>6. ASSUME NEW n \in AllLists \ {m}
        PROVE  Members'[n] = Members[n] \ {g}
    BY <2>1, <2>3, <2>4
  <2>7. Apart(Members, InHand)'
    BY <2>5, <2>6, ApartMove
  <2>8. \A n \in AllLists \ {l, m} : Members'[n] = Members[n]
    BY <2>1, <2>6
  <2> QED
    BY <2>3, <2>7, <2>8
<1> QED
  BY <1>1, <1>2

\* The next page of the round is looked at.
LEMMA CoolOneInv ==
  ASSUME IndInv, pol.pc = "cooling", NEW t \in Tiers, NEW g \in Pages, OnList(g, <<t, "hot">>),
         CoolOne(t, g), UNCHANGED <<pages, vm, rings, scan, app, calls>>
  PROVE  IndInv'
<1>1. PICK hot \in BOOLEAN :
        /\ page' = [page EXCEPT ![g].hot = hot]
        /\ start_page' = [start_page EXCEPT ![t] = IF @ = g THEN NULL ELSE @]
        /\ need_cool' = [need_cool EXCEPT ![t] = @ /\ start_page[t] # g]
        /\ cur_cool' = [cur_cool EXCEPT ![t] = IF hot THEN g ELSE NextIn(lists[<<t, "hot">>], g)]
        /\ lists' = IF hot THEN lists
                    ELSE [lists EXCEPT ![<<t, "hot">>] = RemoveFrom(@, g),
                                       ![<<t, "cold">>] = Enqueue(@, g)]
        /\ pol' = [pol EXCEPT !.n = @ + 1]
  BY DEF CoolOne
<1>2. PICK l, m : l = <<t, "hot">> /\ m = <<t, "cold">>
  OBVIOUS
<1>3. /\ l \in AllLists /\ m \in AllLists /\ l # m
      /\ \A u \in Tiers : <<u, "free">> \in AllLists \ {l, m}
  BY <1>2 DEF AllLists, Kinds
<1>4. /\ ListsType /\ Apart(Members, InHand) /\ HandsInv /\ LocalsInv /\ pol \in PolicyType
      /\ page \in [Pages -> PageType]
  BY DEF IndInv, OwnerInv, TypeOK, ListsType
<1>5. PICK k \in Nat : k = pol.n + 1
  BY <1>4, CountUp
<1>6. pol' = [pol EXCEPT !.n = k]
  BY <1>1, <1>5
<1>7. pol' \in PolicyType /\ UNCHANGED <<pol.pc, pol.page, pol.p, pol.np, pol.cp>>
  BY <1>4, <1>6 DEF PolicyType
<1>8. InHand' = InHand /\ HandsInv'
  BY <1>4, <1>7 DEF InHand, PolicyHands, AppHands, HandsInv
<1>9. LocalsInv' /\ PolicyKept
  BY <1>4, <1>7 DEF LocalsInv, PolicyKept
<1>10. /\ ListsType' /\ Apart(Members, InHand)'
       /\ \A n \in AllLists \ {l, m} : Members'[n] = Members[n]
  <2>1. g \in Members[l]
    BY <1>2, <1>3 DEF OnList, Members
  <2>2. lists' = lists \/ Moves(l, m, g)
    BY <1>1, <1>2 DEF Moves
  <2> QED
    BY <1>3, <1>4, <1>8, <2>1, <2>2, CoolOneLists
<1>11. LifeInv' /\ DoomedInv'
  <2>1. \A u \in Tiers : Members'[<<u, "free">>] = Members[<<u, "free">>]
    BY <1>3, <1>10
  <2> QED
    BY <1>9, <2>1, RingsUndisturbed DEF rings
<1>12. OwnerInv'
  BY <1>8, <1>10 DEF OwnerInv, ListsType
<1>13. /\ page' \in [Pages -> PageType]
       /\ \A p \in Pages : page'[p].ring_present = page[p].ring_present
  BY <1>1, <1>4 DEF PageType
<1>14. RequestInv'
  BY <1>7, <1>13, RequestsUndisturbed DEF IndInv, rings
<1>15. /\ start_page' \in [Tiers -> PagesOrNull] /\ cur_cool' \in [Tiers -> PagesOrNull]
       /\ need_cool' \in [Tiers -> BOOLEAN]
  <2>1. /\ start_page \in [Tiers -> PagesOrNull] /\ cur_cool \in [Tiers -> PagesOrNull]
        /\ need_cool \in [Tiers -> BOOLEAN]
    BY DEF IndInv, TypeOK
  <2>2. PICK s : s = lists[l]
    OBVIOUS
  <2>3. s \in Seq(Pages) /\ Distinct(s) /\ g \in Elems(s)
    BY <1>2, <1>3, <1>4, <2>2 DEF ListsType, OnList
  <2>4. NextIn(s, g) \in PagesOrNull
    BY <2>3, NeighboursListed, EndsListed DEF PagesOrNull
  <2>5. g \in PagesOrNull /\ NULL \in PagesOrNull
    BY DEF PagesOrNull
  <2>6. cur_cool' = [cur_cool EXCEPT ![t] = IF hot THEN g ELSE NextIn(s, g)]
    BY <1>1, <1>2, <2>2
  <2>7. cur_cool' \in [Tiers -> PagesOrNull]
    BY <2>1, <2>4, <2>5, <2>6
  <2>8. start_page' \in [Tiers -> PagesOrNull] /\ need_cool' \in [Tiers -> BOOLEAN]
    BY <1>1, <2>1, <2>5
  <2> QED
    BY <2>7, <2>8
<1>16. TypeOK'
  BY <1>7, <1>10, <1>13, <1>15 DEF IndInv, TypeOK, ListsType, rings
<1> QED
  BY <1>9, <1>11, <1>12, <1>14, <1>16 DEF IndInv

LEMMA CoolPageInv ==
  ASSUME IndInv, CoolPage
  PROVE  IndInv'
<1>1. /\ pol \in PolicyType /\ pol.pc = "cooling" /\ ListsType
      /\ UNCHANGED <<pages, vm, rings, scan, app, calls>>
  BY DEF IndInv, TypeOK, OwnerInv, ListsType, CoolPage, PolicyAt
<1>2. PICK t, g : t = pol.tier /\ g = CoolTarget(t)
  OBVIOUS
<1>3. t \in Tiers
  BY <1>1, <1>2 DEF PolicyType
<1>4. CASE CoolLeave
  BY <1>1, <1>4, CoolLeaveInv
<1>5. CASE UNCHANGED <<page, lists, cool, pol>>
  BY <1>1, <1>5, AbortInv DEF shared, threads
<1>6. CASE (cur_cool[t] # NULL => OnList(cur_cool[t], <<t, "hot">>)) /\ g # NULL /\ CoolOne(t, g)
  <2>1. PICK s, l : l = <<t, "hot">> /\ s = lists[l]
    OBVIOUS
  <2>2. s \in Seq(Pages) /\ Distinct(s)
    BY <1>1, <1>3, <2>1 DEF ListsType, AllLists, Kinds
  <2>3. g = IF cur_cool[t] = NULL THEN LastOf(s) ELSE PrevIn(s, cur_cool[t])
    BY <1>2, <2>1 DEF CoolTarget
  <2>4. cur_cool[t] # NULL => cur_cool[t] \in Elems(s)
    BY <1>6, <2>1 DEF OnList
  <2>5. g \in Elems(s) /\ g \in Pages
    BY <1>6, <2>2, <2>3, <2>4, NeighboursListed, EndsListed
  <2>6. OnList(g, <<t, "hot">>)
    BY <2>1, <2>5 DEF OnList
  <2> QED
    BY <1>1, <1>3, <1>6, <2>5, <2>6, CoolOneInv
<1> QED
  BY <1>2, <1>4, <1>5, <1>6 DEF CoolPage

-----------------------------------------------------------------------------
(* The specification.                                                      *)

\* The order in which pebs_init fills a free list does not matter.
LEMMA OrdersDistinct ==
  ASSUME NEW S \in SUBSET Pages, NEW s \in Orders(S)
  PROVE  s \in Seq(Pages) /\ Distinct(s) /\ Elems(s) \subseteq S
<1>1. IsFiniteSet(S)
  BY PolicyAssumption, FS_Subset DEF Pages
<1>2. Cardinality(S) \in Nat
  BY <1>1, FS_CardinalityType
<1>3. s \in [1 .. Cardinality(S) -> S] /\ \A i, j \in DOMAIN s : s[i] = s[j] => i = j
  BY DEF Orders
<1>4. s \in Seq(S) /\ Len(s) = Cardinality(S)
  BY <1>2, <1>3
<1>5. DOMAIN s = 1 .. Len(s)
  BY <1>3, <1>4
<1>6. \A i \in 1 .. Len(s) : s[i] \in S
  BY <1>3, <1>5
<1>7. s \in Seq(Pages)
  BY <1>2, <1>3, <1>4, <1>6
<1>8. Distinct(s)
  BY <1>3, <1>5 DEF Distinct
<1>9. Elems(s) \subseteq S
  BY <1>6 DEF Elems
<1> QED
  BY <1>7, <1>8, <1>9

\* pebs_init puts every page on the free list of its tier.
LEMMA InitInv ==
  ASSUME Init
  PROVE  IndInv
<1>1. PICK d \in Orders(DramFrames), n \in Orders(NvmFrames) :
        lists = [l \in AllLists |->
                   IF l[2] # "free" THEN << >> ELSE IF l[1] = "dram" THEN d ELSE n]
  BY DEF Init, InitMemory
<1>2. /\ d \in Seq(Pages) /\ Distinct(d) /\ Elems(d) \subseteq DramFrames
      /\ n \in Seq(Pages) /\ Distinct(n) /\ Elems(n) \subseteq NvmFrames
  BY OrdersDistinct DEF Pages, Frames
<1>3. << >> \in Seq(Pages) /\ Distinct(<< >>) /\ Elems(<< >>) = {}
  BY DEF Distinct, Elems
<1>4. ListsType
  BY <1>1, <1>2, <1>3 DEF ListsType
<1>5. ASSUME NEW l \in AllLists
      PROVE  /\ l[2] # "free" => Members[l] = {}
             /\ l[2] = "free" /\ l[1] = "dram" => Members[l] \subseteq DramFrames
             /\ l[2] = "free" /\ l[1] # "dram" => Members[l] \subseteq NvmFrames
  BY <1>1, <1>2, <1>3 DEF Members
<1>6. /\ pol = [pc |-> "sleep", page |-> NULL, p |-> NULL, np |-> NULL, cp |-> NULL,
                n |-> 0, tries |-> 0, tier |-> "dram"]
      /\ scan = [pc |-> "idle", page |-> NULL, want |-> "none"]
      /\ \A a \in Apps : app[a] = IdleApp
      /\ hot_ring = << >> /\ cold_ring = << >> /\ free_page_ring = << >>
  BY DEF Init, InitThreads
<1>7. LocalsInv
  <2>1. /\ pol.pc = "sleep" /\ pol.page = NULL /\ pol.p = NULL /\ pol.np = NULL
        /\ pol.cp = NULL /\ scan.pc = "idle" /\ scan.page = NULL
    BY <1>6
  <2>2. \A a \in Apps : app[a].pc = "idle" /\ app[a].page = NULL /\ app[a].va = NULL
    BY <1>6 DEF IdleApp
  <2> QED
    BY <2>1, <2>2 DEF LocalsInv
<1>8. TypeOK
  <2>1. page \in [Pages -> PageType]
    <3>1. ASSUME NEW p \in Pages
          PROVE  FreshPage(p) \in PageType
      BY DEF FreshPage, PageType, Pages
    <3> QED
      BY <3>1 DEF Init, InitMemory
  <2>2. pol \in PolicyType
    BY <1>6 DEF PolicyType, PagesOrNull, Tiers
  <2>3. scan \in ScanType
    BY <1>6 DEF ScanType, PagesOrNull
  <2>4. app \in [Apps -> AppType]
    <3>1. IdleApp \in AppType
      BY DEF IdleApp, AppType, PagesOrNull, Tiers
    <3> QED
      BY <3>1 DEF Init, InitThreads
  <2>5. pages \in [Vas -> PagesOrNull] /\ vm \in [Vas -> Frames \cup {NULL}]
    BY DEF Init, InitMemory, PagesOrNull
  <2>6. /\ need_cool \in [Tiers -> BOOLEAN]
        /\ start_page \in [Tiers -> PagesOrNull] /\ cur_cool \in [Tiers -> PagesOrNull]
    BY DEF Init, InitThreads, PagesOrNull
  <2>7. calls \in 0 .. MaxCalls
    BY PolicyAssumption DEF Init, InitThreads
  <2> QED
    BY <1>3, <1>4, <1>6, <2>1, <2>2, <2>3, <2>4, <2>5, <2>6, <2>7 DEF TypeOK, ListsType
<1>9. OwnerInv
  <2>1. InHand = {} /\ HandsInv
    BY <1>6 DEF InHand, PolicyHands, AppHands, HandsInv, IdleApp
  <2>2. ASSUME NEW l \in AllLists, NEW m \in AllLists, NEW p \in Members[l], p \in Members[m]
        PROVE  l = m
    <3>1. l[2] = "free" /\ m[2] = "free"
      BY <1>5, <2>2
    <3>2. l[1] \in {"dram", "nvm"} /\ m[1] \in {"dram", "nvm"} /\ l = <<l[1], l[2]>> /\ m = <<m[1], m[2]>>
      BY DEF AllLists, Tiers
    <3>3. (p \in DramFrames <=> l[1] = "dram") /\ (p \in DramFrames <=> m[1] = "dram")
      BY <1>5, <2>2, <3>1, PolicyAssumption
    <3> QED
      BY <3>1, <3>2, <3>3
  <2>3. Apart(Members, InHand)
    BY <2>1, <2>2 DEF Apart
  <2> QED
    BY <1>4, <2>1, <2>3 DEF OwnerInv, ListsType
<1>10. RequestInv
  BY <1>3, <1>6 DEF RequestInv
<1>11. \A a \in Apps : ~Allocating(a) /\ ~Publishing(a)
  BY <1>6 DEF Allocating, Publishing, IdleApp
<1>12. \A p : ~Doomed(p)
  BY <1>3, <1>6, <1>11 DEF Doomed
<1>13. LifeInv /\ DoomedInv
  <2>1. \A v \in Vas : pages[v] = NULL
    BY DEF Init, InitMemory
  <2> QED
    BY <1>3, <1>6, <1>11, <1>12, <2>1 DEF LifeInv, DoomedInv
<1> QED
  BY <1>7, <1>8, <1>9, <1>10, <1>13 DEF IndInv

-----------------------------------------------------------------------------
(* Which thread changes what.                                              *)

\* A step of an application thread.
AppActs(a) == AppStep(a) \/ \E v \in Vas : MmapStart(a, v) \/ MunmapStart(a, v)

LEMMA AppActsKeep ==
  ASSUME NEW a \in Apps, AppActs(a), IndInv
  PROVE  /\ UNCHANGED <<pol, scan, need_cool, start_page, cur_cool, hot_ring, cold_ring>>
         /\ \A b \in Apps \ {a} : app'[b] = app[b]
<1>1. app \in [Apps -> AppType]
  BY DEF IndInv, TypeOK
<1>2. ASSUME NEW v \in Vas, MmapStart(a, v) \/ MunmapStart(a, v)
      PROVE  /\ UNCHANGED <<pol, scan, need_cool, start_page, cur_cool, hot_ring, cold_ring>>
             /\ \A b \in Apps \ {a} : app'[b] = app[b]
  BY <1>1, <1>2 DEF MmapStart, MunmapStart, rings, cool
<1>3. CASE AllocDram(a)
  BY <1>1, <1>3 DEF AllocDram, Allocate, Goto, rings, cool
<1>4. CASE AllocNvm(a)
  BY <1>1, <1>4 DEF AllocNvm, Allocate, Abort, rings, cool, threads
<1>5. CASE AllocPresent(a) \/ AllocEnqueue(a)
  BY <1>1, <1>5 DEF AllocPresent, AllocEnqueue, Abort, Goto, rings, cool, threads
<1>6. CASE PopulateOffset(a) \/ PopulateMap(a) \/ PopulateTrack(a)
  BY <1>1, <1>6 DEF PopulateOffset, PopulateMap, PopulateTrack, Abort, Goto, rings, cool, threads
<1>7. CASE MunmapRemove(a) \/ RemovePublish(a) \/ RemoveClear(a) \/ MunmapEnd(a)
  BY <1>1, <1>7 DEF MunmapRemove, RemovePublish, RemoveClear, MunmapEnd, Goto, rings, cool
<1> QED
  BY <1>2, <1>3, <1>4, <1>5, <1>6, <1>7 DEF AppActs, AppStep

\* A step of the policy thread.
LEMMA PolicyKeeps ==
  ASSUME PolicyWake \/ Policy
  PROVE  UNCHANGED <<pages, app, scan>>
<1>1. CASE PolicyWake \/ FreeTake \/ FreeRelease
  BY <1>1 DEF PolicyWake, FreeTake, FreeRelease, Abort, shared, threads
<1>2. CASE HotTake \/ ColdTake
  BY <1>2 DEF HotTake, ColdTake, shared
<1>3. CASE MakeHot \/ MakeCold
  BY <1>3 DEF MakeHot, MakeCold, MakeHeat, Abort, shared, threads
<1>4. CASE MigrateTake \/ MigrateTest \/ TryDram \/ TakeVictim
  BY <1>4 DEF MigrateTake, MigrateTest, TryDram, TakeVictim
<1>5. CASE TakeNvmFrame \/ RemapUp \/ RemapDown
  BY <1>5 DEF TakeNvmFrame, RemapUp, RemapDown, Remap, Abort, shared, threads
<1>6. CASE SwapUp \/ SwapDown \/ CoolStart \/ CoolPage
  BY <1>6 DEF SwapUp, SwapDown, CoolStart, CoolPage
<1> QED
  BY <1>1, <1>2, <1>3, <1>4, <1>5, <1>6 DEF Policy

\* The fields of the page structures that the scan thread leaves alone.
SameFlags ==
  \A p \in Pages : /\ page'[p].frame = page[p].frame /\ page'[p].va = page[p].va
                   /\ page'[p].present = page[p].present /\ page'[p].hot = page[p].hot

\* A step of the scan thread, or of nobody.
Quiet ==
  UNCHANGED <<lists, pages, vm, free_page_ring, start_page, cur_cool, pol, app>> /\ SameFlags

LEMMA ScanKeeps ==
  ASSUME Scan, IndInv
  PROVE  Quiet /\ UNCHANGED failed
<1>1. page \in [Pages -> PageType] /\ scan \in ScanType /\ LocalsInv
  BY DEF IndInv, TypeOK
<1>2. ASSUME NEW v \in Sampled, SampleLookup(v)
      PROVE  Quiet /\ UNCHANGED failed
  BY <1>2 DEF SampleLookup, Quiet, SameFlags, shared, rings, cool
<1>3. CASE SampleCount
  BY <1>1, <1>3 DEF SampleCount, Quiet, SameFlags, PageType, rings, cool
<1>4. CASE SampleRequest
  <2>1. CASE UNCHANGED page
    BY <1>4, <2>1 DEF SampleRequest, Quiet, SameFlags, cool
  <2>2. CASE page' = [page EXCEPT ![scan.page].ring_present = TRUE]
    BY <1>1, <1>4, <2>2 DEF SampleRequest, Quiet, SameFlags, PageType, cool
  <2> QED
    BY <1>4, <2>1, <2>2 DEF SampleRequest
<1>5. CASE SampleCool
  BY <1>1, <1>5 DEF SampleCool, Quiet, SameFlags, PageType, rings
<1> QED
  BY <1>2, <1>3, <1>4, <1>5 DEF Scan

\* The steps of the specification, by thread.
LEMMA WhoActs ==
  ASSUME [Next]_vars, IndInv
  PROVE  \/ \E a \in Apps : AppActs(a)
         \/ PolicyWake \/ Policy
         \/ Quiet /\ UNCHANGED failed
<1>1. CASE Stopped \/ UNCHANGED vars
  BY <1>1 DEF Stopped, vars, shared, rings, cool, threads, Quiet, SameFlags
<1>2. CASE Scan
  BY <1>2, ScanKeeps
<1> QED
  BY <1>1, <1>2 DEF Next, AppActs

-----------------------------------------------------------------------------
(* The calls and their addresses.                                          *)

\* The thread goes on with its call, or ends it, and touches the table at the
\* address of the call only.
GoesOn(a) ==
  /\ app'[a].va \in {app[a].va, NULL} /\ app'[a].pc # "remove"
  /\ \A w \in Vas \ {app[a].va} : pages'[w] = pages[w]

LEMMA AppGoesOn ==
  ASSUME IndInv, NEW a \in Apps, AppStep(a)
  PROVE  GoesOn(a)
<1>1. app \in [Apps -> AppType] /\ pages \in [Vas -> PagesOrNull]
  BY DEF IndInv, TypeOK
<1>2. ASSUME NEW l, l # "remove", app' = [app EXCEPT ![a].pc = l], UNCHANGED pages
      PROVE  GoesOn(a)
  BY <1>1, <1>2 DEF AppType, GoesOn
<1>3. ASSUME app[a].pc # "remove", UNCHANGED <<app, pages>>
      PROVE  GoesOn(a)
  BY <1>3 DEF GoesOn
<1>4. CASE AllocDram(a) \/ AllocNvm(a)
  <2>1. \/ \E t \in Tiers : Allocate(a, t)
        \/ UNCHANGED <<app, pages>>
        \/ app' = [app EXCEPT ![a].pc = "dequeue nvm"] /\ UNCHANGED pages
    BY <1>4 DEF AllocDram, AllocNvm, Abort, Goto, Tiers, threads, shared
  <2>2. app[a].pc # "remove"
    BY <1>4 DEF AllocDram, AllocNvm, AppAt
  <2>3. ASSUME NEW t \in Tiers, Allocate(a, t)
        PROVE  GoesOn(a)
    BY <1>1, <2>3 DEF Allocate, AppType, GoesOn
  <2> QED
    BY <1>2, <1>3, <2>1, <2>2, <2>3
<1>5. CASE AllocPresent(a) \/ AllocEnqueue(a)
  <2>1. \/ UNCHANGED <<app, pages>>
        \/ \E l \in {"enqueue", "offset"} : app' = [app EXCEPT ![a].pc = l] /\ UNCHANGED pages
    BY <1>5 DEF AllocPresent, AllocEnqueue, Abort, Goto, threads, shared
  <2>2. app[a].pc # "remove"
    BY <1>5 DEF AllocPresent, AllocEnqueue, AppAt
  <2> QED
    BY <1>2, <1>3, <2>1, <2>2
<1>6. CASE PopulateOffset(a)
  BY <1>1, <1>6 DEF PopulateOffset, AppType, shared, GoesOn
<1>7. CASE PopulateTrack(a)
  <2>1. CASE pages[app[a].va] # NULL
    BY <1>1, <1>7, <2>1 DEF PopulateTrack, AppAt, Abort, shared, threads, GoesOn
  <2>2. CASE pages[app[a].va] = NULL
    BY <1>1, <1>7, <2>2 DEF PopulateTrack, AppAt, IdleApp, GoesOn
  <2> QED
    BY <2>1, <2>2
<1>8. CASE MunmapRemove(a)
  BY <1>1, <1>8 DEF MunmapRemove, Goto, AppType, GoesOn
<1>9. CASE PopulateMap(a) \/ RemovePublish(a) \/ RemoveClear(a)
  <2>1. \E l \in {"track", "clear", "unmap"} : app' = [app EXCEPT ![a].pc = l] /\ UNCHANGED pages
    BY <1>9 DEF PopulateMap, RemovePublish, RemoveClear, Goto, shared
  <2> QED
    BY <1>2, <2>1
<1>10. CASE MunmapEnd(a)
  BY <1>1, <1>10 DEF MunmapEnd, IdleApp, GoesOn
<1> QED
  BY <1>4, <1>5, <1>6, <1>7, <1>8, <1>9, <1>10 DEF AppStep

LEMMA CallsStay ==
  ASSUME IndInv, CallsInv, [Next]_vars
  PROVE  CallsInv'
<1>1. app \in [Apps -> AppType] /\ LocalsInv /\ NULL \notin Vas
  BY PolicyAssumption DEF IndInv, TypeOK
<1>2. CASE UNCHANGED <<pages, app>>
  BY <1>2 DEF CallsInv
<1>3. ASSUME NEW a \in Apps, AppActs(a)
      PROVE  CallsInv'
  <2>1. \A b \in Apps \ {a} : app'[b] = app[b]
    BY <1>3, AppActsKeep
  <2>2. \A b \in Apps : app[b].pc = "remove" => app[b].va \in Vas
    BY <1>1 DEF LocalsInv, AppType
  <2>3. CASE GoesOn(a)
    <3>1. ASSUME NEW b \in Apps, app'[b].pc = "remove"
          PROVE  pages'[app'[b].va] = app'[b].page
      <4>1. b # a
        BY <2>3, <3>1 DEF GoesOn
      <4>2. app'[b] = app[b] /\ app[b].pc = "remove"
        BY <2>1, <3>1, <4>1
      <4>3. app[b].va \in Vas /\ app[b].va # NULL
        BY <1>1, <2>2, <4>2
      <4>4. app[b].va # app[a].va
        BY <4>1, <4>3 DEF CallsInv
      <4> QED
        BY <2>3, <4>2, <4>3, <4>4 DEF GoesOn, CallsInv
    <3>2. ASSUME NEW b \in Apps, NEW c \in Apps, app'[b].va # NULL, app'[b].va = app'[c].va
          PROVE  b = c
      <4>1. \A d \in Apps : app'[d].va \in {app[d].va, NULL}
        BY <2>1, <2>3 DEF GoesOn
      <4>2. app[b].va = app'[b].va /\ app[c].va = app'[c].va
        BY <3>2, <4>1
      <4> QED
        BY <3>2, <4>2 DEF CallsInv
    <3> QED
      BY <3>1, <3>2 DEF CallsInv
  <2>4. ASSUME NEW v \in Vas, MmapStart(a, v) \/ MunmapStart(a, v)
        PROVE  CallsInv'
    <3>1. /\ UNCHANGED pages /\ \A b \in Apps : app[b].va # v
          /\ app'[a].va = v /\ (app'[a].pc = "remove" => app'[a].page = pages[v])
      BY <1>1, <2>4 DEF MmapStart, MunmapStart, AppType, shared
    <3> QED
      BY <2>1, <3>1 DEF CallsInv
  <2> QED
    BY <1>3, <2>3, <2>4, AppGoesOn DEF AppActs
<1> QED
  BY <1>2, <1>3, WhoActs, PolicyKeeps DEF Quiet

-----------------------------------------------------------------------------
(* All steps together.                                                     *)

\* Every step of every thread preserves the invariant.
LEMMA NextInv ==
  ASSUME IndInv, CallsInv, [Next]_vars
  PROVE  IndInv'
<1>1. CASE PolicyWake
  BY <1>1, PolicyWakeInv
<1>2. CASE Policy
  <2>1. CASE FreeTake \/ FreeRelease \/ HotTake \/ MakeHot \/ ColdTake \/ MakeCold
    BY <2>1, FreeTakeInv, FreeReleaseInv, HotTakeInv, MakeHotColdInv, ColdTakeInv
  <2>2. CASE MigrateTake \/ MigrateTest \/ TryDram \/ TakeVictim \/ TakeNvmFrame
    BY <2>2, MigrateTakeInv, MigrateTestInv, TryDramInv, TakeVictimInv, TakeNvmFrameInv
  <2>3. CASE RemapUp \/ SwapUp \/ RemapDown \/ SwapDown
    BY <2>3, RemapInv, SwapUpInv, SwapDownInv
  <2>4. CASE CoolStart \/ CoolPage
    BY <2>4, CoolStartInv, CoolPageInv
  <2> QED
    BY <1>2, <2>1, <2>2, <2>3, <2>4 DEF Policy
<1>3. CASE Scan
  <2>1. \A v \in Sampled : v \in Vas
    BY PolicyAssumption
  <2> QED
    BY <1>3, <2>1, SampleLookupInv, SampleCountInv, SampleRequestInv, SampleCoolInv DEF Scan
<1>4. ASSUME NEW a \in Apps, AppStep(a)
      PROVE  IndInv'
  <2>1. CASE AllocDram(a) \/ AllocNvm(a) \/ AllocPresent(a) \/ AllocEnqueue(a)
    BY <2>1, AllocDramInv, AllocNvmInv, AllocPresentInv, AllocEnqueueInv
  <2>2. CASE PopulateOffset(a) \/ PopulateMap(a) \/ PopulateTrack(a)
    BY <2>2, PopulateOffsetInv, PopulateMapInv, PopulateTrackInv
  <2>3. CASE MunmapRemove(a) \/ RemovePublish(a) \/ RemoveClear(a) \/ MunmapEnd(a)
    BY <2>3, MunmapRemoveInv, RemovePublishInv, RemoveClearInv, MunmapEndInv
  <2> QED
    BY <1>4, <2>1, <2>2, <2>3 DEF AppStep
<1>5. ASSUME NEW a \in Apps, NEW v \in Vas, MmapStart(a, v) \/ MunmapStart(a, v)
      PROVE  IndInv'
  BY <1>5, MmapStartInv, MunmapStartInv
<1>6. CASE Stopped \/ UNCHANGED vars
  BY <1>6, AbortInv DEF Stopped, vars
<1> QED
  BY <1>1, <1>2, <1>3, <1>4, <1>5, <1>6 DEF Next

\* The life of a page: of every page structure the table, the lists, the
\* free ring and the threads agree on what it is used for.
THEOREM Invariance == Spec => []IndInv
<1>1. Init => IndInv /\ CallsInv
  BY InitInv DEF Init, InitThreads, IdleApp, CallsInv
<1>2. IndInv /\ CallsInv /\ [Next]_vars => IndInv' /\ CallsInv'
  BY NextInv, CallsStay
<1> QED
  BY <1>1, <1>2, PTL DEF Spec

\* The page structures, lists, rings and locals of src/pebs.c have their
\* types; a cooling cursor or a neighbour is a page or NULL.
THEOREM TypeCorrect == Spec => []TypeOK
<1>1. IndInv => TypeOK
  BY DEF IndInv
<1> QED
  BY <1>1, Invariance, PTL

\* No list operation of pebs.c puts a page in two places, although no lock
\* spans the operation that takes it off a list and the one that puts it
\* on another.
THEOREM PageHasOneOwner == Spec => []OneOwner
<1>1. ASSUME IndInv
      PROVE  OneOwner
  <2>1. (\A l \in AllLists : Distinct(lists[l])) /\ Apart(Members, InHand) /\ HandsInv
    BY <1>1 DEF IndInv, OwnerInv
  <2>2. \A l \in AllLists : Members[l] = Elems(lists[l])
    BY DEF Members
  <2>3. \A l, m \in AllLists : l # m => Elems(lists[l]) \cap Elems(lists[m]) = {}
    BY <2>1, <2>2 DEF Apart
  <2>4. InHand \cap OnSomeList = {}
    BY <2>1, <2>2 DEF Apart, OnSomeList
  <2> QED
    BY <2>1, <2>3, <2>4 DEF OneOwner, HandsInv, PolicyHands
<1> QED
  BY <1>1, Invariance, PTL

\* An entry of a ring without repetition occurs at most once.
LEMMA OccursOnce ==
  ASSUME NEW s \in Seq(Pages), Distinct(s), NEW p
  PROVE  /\ p \in Elems(s) => Occurs(s, p) = 1
         /\ p \notin Elems(s) => Occurs(s, p) = 0
<1>1. ASSUME p \in Elems(s)
      PROVE  Occurs(s, p) = 1
  <2>1. PICK i \in 1 .. Len(s) : s[i] = p
    BY <1>1 DEF Elems
  <2>2. {j \in 1 .. Len(s) : s[j] = p} = {i}
    BY <2>1 DEF Distinct
  <2> QED
    BY <2>2, FS_Singleton DEF Occurs
<1>2. ASSUME p \notin Elems(s)
      PROVE  Occurs(s, p) = 0
  <2>1. {j \in 1 .. Len(s) : s[j] = p} = {}
    BY <1>2 DEF Elems
  <2> QED
    BY <2>1, FS_EmptySet DEF Occurs
<1> QED
  BY <1>1, <1>2

\* ring_present keeps the scan thread from asking twice, the table keeps two
\* munmaps from handing back the same page: the rings of pebs.c never hold a
\* page twice.
THEOREM PageHasOneRequest == Spec => []OneRequest
<1>1. ASSUME IndInv, NEW p \in Pages
      PROVE  /\ Occurs(hot_ring, p) + Occurs(cold_ring, p) <= IF page[p].ring_present THEN 1 ELSE 0
             /\ Occurs(free_page_ring, p) <= 1
  <2>1. /\ hot_ring \in Seq(Pages) /\ cold_ring \in Seq(Pages) /\ free_page_ring \in Seq(Pages)
        /\ Distinct(hot_ring) /\ Distinct(cold_ring) /\ Distinct(free_page_ring)
    BY <1>1 DEF IndInv, TypeOK, RequestInv, DoomedInv
  <2>2. /\ p \in Elems(hot_ring) => page[p].ring_present /\ p \notin Elems(cold_ring)
        /\ p \in Elems(cold_ring) => page[p].ring_present
    BY <1>1 DEF IndInv, RequestInv
  <2>3. /\ p \in Elems(hot_ring) => Occurs(hot_ring, p) = 1
        /\ p \notin Elems(hot_ring) => Occurs(hot_ring, p) = 0
    BY <2>1, OccursOnce
  <2>4. /\ p \in Elems(cold_ring) => Occurs(cold_ring, p) = 1
        /\ p \notin Elems(cold_ring) => Occurs(cold_ring, p) = 0
    BY <2>1, OccursOnce
  <2>5. /\ p \in Elems(free_page_ring) => Occurs(free_page_ring, p) = 1
        /\ p \notin Elems(free_page_ring) => Occurs(free_page_ring, p) = 0
    BY <2>1, OccursOnce
  <2> QED
    BY <2>2, <2>3, <2>4, <2>5
<1>2. IndInv => OneRequest
  BY <1>1 DEF OneRequest
<1> QED
  BY <1>2, Invariance, PTL
=============================================================================
