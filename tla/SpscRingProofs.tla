--------------------------- MODULE SpscRingProofs ---------------------------
(***************************************************************************)
(* For any capacity and any smaller set of pages, the unsynchronised ring  *)
(* of spsc-ring.c is a first-in first-out queue that never discards a      *)
(* request.                                                                *)
(***************************************************************************)
EXTENDS SpscRing, FiniteSetTheorems, TLAPS

-----------------------------------------------------------------------------
(* The inductive invariant, stated by slots rather than by queue index.    *)

\* Slot s holds an entry: it lies between the tail and the head.
Occupied(s) ==
  IF Tail0 <= head THEN Tail0 <= s /\ s < head ELSE Tail0 <= s \/ s < head

\* The put under way: its page is claimed, and the slot it has written is
\* the one at the head.
PutInv ==
  /\ ppc = "idle" <=> arg = NULL
  /\ arg # NULL => arg \in claimed
  /\ ppc \in {"full", "head"} => buffer[head] = arg
  /\ ppc # "drop"

\* The get under way: past the emptiness test there is an entry, and the
\* entry in hand is the one at the tail until the tail moves.
GetInv ==
  /\ cpc \in {"store", "wrap"} <=> cur_read # NULL
  /\ cpc \in {"read", "store"} => head # tail
  /\ cpc = "store" => cur_read = buffer[tail]
  /\ cpc = "wrap" => cur_read \in claimed

\* A page is in one place only: one slot, or the put, or the returning get.
UniqueInv ==
  /\ \A s \in Slots : Occupied(s) =>
       /\ buffer[s] \in claimed
       /\ buffer[s] # arg
       /\ cpc = "wrap" => buffer[s] # cur_read
  /\ \A s, t \in Slots : Occupied(s) /\ Occupied(t) /\ s # t => buffer[s] # buffer[t]
  /\ cpc = "wrap" => cur_read # arg

\* And every claimed page is in one of these places.
ClaimInv ==
  \A p \in claimed :
    \/ arg = p
    \/ cur_read = p /\ cpc = "wrap"
    \/ \E s \in Slots : Occupied(s) /\ buffer[s] = p

IndInv == TypeOK /\ PutInv /\ GetInv /\ UniqueInv /\ ClaimInv

-----------------------------------------------------------------------------
(* Slots and queue positions.                                              *)

\* The tail the producer may see, wrapped, is a slot; only inside
\* retreat_pointer does it differ from rbuf->tail.
LEMMA WrapType ==
  ASSUME TypeOK
  PROVE  /\ Tail0 \in Slots
         /\ cpc # "wrap" => Tail0 = tail /\ tail \in Slots
         /\ Capacity \in Nat /\ Capacity > 1
BY RingAssumption DEF TypeOK, Tail0, Wrap, Slots

\* The entries between tail and head occupy distinct slots, and
\* ring_buf_full says exactly that Capacity - 1 of them are there.
LEMMA CountType ==
  ASSUME NEW h \in Slots, NEW t \in Slots
  PROVE  /\ Count(h, t) \in Nat /\ Count(h, t) < Capacity
         /\ \A i \in 1 .. Count(h, t) : SlotOf(t, i) \in Slots
         /\ \A i, j \in 1 .. Count(h, t) : i # j => SlotOf(t, i) # SlotOf(t, j)
         /\ Wrap(h + 1) # t => Count(h, t) < Capacity - 1
         /\ Wrap(h + 1) = t => Count(h, t) = Capacity - 1
BY RingAssumption DEF Slots, Count, SlotOf, Wrap

\* The slots of the queue's entries are the occupied slots of the buffer.
LEMMA SlotOccupied ==
  ASSUME TypeOK
  PROVE  /\ \A i \in 1 .. Count(head, Tail0) : Occupied(SlotOf(Tail0, i))
         /\ \A s \in Slots : Occupied(s) =>
              \E i \in 1 .. Count(head, Tail0) : SlotOf(Tail0, i) = s
<1> DEFINE t == Tail0
<1>1. t \in Slots /\ head \in Slots /\ Capacity \in Nat
  BY WrapType DEF TypeOK
<1> HIDE DEF t
<1>2. \A i \in 1 .. Count(head, t) :
        IF t <= head THEN t <= SlotOf(t, i) /\ SlotOf(t, i) < head
                     ELSE t <= SlotOf(t, i) \/ SlotOf(t, i) < head
  BY <1>1 DEF Slots, Count, SlotOf
<1>3. ASSUME NEW s \in Slots,
             IF t <= head THEN t <= s /\ s < head ELSE t <= s \/ s < head
      PROVE  \E i \in 1 .. Count(head, t) : SlotOf(t, i) = s
  <2> DEFINE i == IF t <= s THEN s - t + 1 ELSE s + Capacity - t + 1
  <2>1. i \in 1 .. Count(head, t) /\ SlotOf(t, i) = s
    BY <1>1, <1>3 DEF Slots, Count, SlotOf
  <2> QED
    BY <2>1
<1> QED
  BY <1>2, <1>3 DEF t, Occupied

\* The key fact: fewer pages than slots, all entries distinct and none of
\* them the page being put, so a put never finds the ring full.
LEMMA RoomToPut ==
  ASSUME Concurrent, IndInv, ppc # "idle"
  PROVE  ~ring_buf_full(head, Tail0)
<1> DEFINE n == Count(head, Tail0)
           Others == Pages \ {arg}
<1>1. n \in Nat /\ n < Capacity
  BY WrapType, CountType DEF IndInv, TypeOK
<1>2. arg \in Pages
  BY DEF IndInv, PutInv, TypeOK
<1>3. Contents \in Injection(1 .. n, Others)
  <2>1. \A i \in 1 .. n : SlotOf(Tail0, i) \in Slots /\ Occupied(SlotOf(Tail0, i))
    BY WrapType, CountType, SlotOccupied DEF IndInv, TypeOK
  <2>2. \A i \in 1 .. n : buffer[SlotOf(Tail0, i)] \in Others
    BY <2>1 DEF IndInv, UniqueInv, TypeOK
  <2>3. \A i, j \in 1 .. n : i # j => buffer[SlotOf(Tail0, i)] # buffer[SlotOf(Tail0, j)]
    BY <2>1, WrapType, CountType DEF IndInv, UniqueInv, TypeOK
  <2> QED
    BY <2>2, <2>3 DEF Contents, Injection, IsInjective
<1>4. IsFiniteSet(Others) /\ Cardinality(Others) = Cardinality(Pages) - 1
  BY <1>2, FS_RemoveElement, RingAssumption
<1>5. Cardinality(1 .. n) <= Cardinality(Others)
  BY <1>3, <1>4, FS_Injection
<1>6. Cardinality(1 .. n) = n
  BY <1>1, FS_Interval
<1>7. Cardinality(Pages) \in Nat /\ Cardinality(Pages) < Capacity
  BY FS_CardinalityType, RingAssumption
<1>8. n < Capacity - 1
  BY <1>1, <1>4, <1>5, <1>6, <1>7, RingAssumption
<1> QED
  BY <1>8, WrapType, CountType DEF IndInv, TypeOK, ring_buf_full

-----------------------------------------------------------------------------
(* The invariant is inductive.                                             *)

\* A ring fresh from ring_buf_init satisfies the invariant.
LEMMA InitInv == Init => IndInv
<1> SUFFICES ASSUME Init PROVE IndInv
  OBVIOUS
<1>1. TypeOK
  BY RingAssumption DEF Init, TypeOK, Slots
<1>2. PutInv /\ GetInv
  BY RingAssumption DEF Init, PutInv, GetInv
<1>3. UniqueInv /\ ClaimInv
  BY RingAssumption DEF Init, UniqueInv, ClaimInv, Occupied, Tail0, Wrap, Slots
<1> QED
  BY <1>1, <1>2, <1>3 DEF IndInv

\* Every load or store of ring_buf_put and ring_buf_get preserves it.
LEMMA NextInv ==
  ASSUME Concurrent, IndInv, [Next]_vars
  PROVE  IndInv'
<1> USE DEF IndInv
<1>0. /\ Capacity \in Nat /\ Capacity > 1 /\ NULL \notin Pages
      /\ Tail0 \in Slots /\ head \in Slots
      /\ cpc # "wrap" => Tail0 = tail /\ tail \in Slots
  BY RingAssumption, WrapType DEF TypeOK
<1>1. ASSUME NEW p \in Pages, NEW at \in {"guard", "write"}, StartPut(p, at)
      PROVE  IndInv'
  <2>1. TypeOK' /\ PutInv' /\ GetInv'
    BY <1>0, <1>1 DEF StartPut, consVars, TypeOK, PutInv, GetInv, Slots
  <2>2. \A s : Occupied(s)' <=> Occupied(s)
    BY <1>1 DEF StartPut, Occupied, Tail0
  <2>3. UniqueInv'
    BY <1>0, <1>1, <2>2 DEF StartPut, consVars, TypeOK, PutInv, GetInv, UniqueInv
  <2>4. ClaimInv'
    BY <1>0, <1>1, <2>2 DEF StartPut, consVars, TypeOK, PutInv, ClaimInv
  <2> QED
    BY <2>1, <2>3, <2>4
<1>2. CASE WaitNotFull
  <2>1. TypeOK' /\ PutInv' /\ GetInv'
    BY <1>2 DEF WaitNotFull, consVars, TypeOK, PutInv, GetInv
  <2>2. UniqueInv' /\ ClaimInv'
    BY <1>2 DEF WaitNotFull, consVars, UniqueInv, ClaimInv, Occupied, Tail0
  <2> QED
    BY <2>1, <2>2
<1>3. CASE WriteSlot
  <2>1. ~Occupied(head)
    BY <1>0 DEF Occupied, Slots
  <2>2. \A s \in Slots : Occupied(s)' <=> Occupied(s)
    BY <1>3 DEF WriteSlot, Occupied, Tail0
  <2>3. \A s \in Slots : s # head => buffer'[s] = buffer[s]
    BY <1>3 DEF WriteSlot, TypeOK
  <2>4. TypeOK' /\ PutInv' /\ GetInv'
    BY <1>0, <1>3 DEF WriteSlot, consVars, TypeOK, PutInv, GetInv
  <2>5. UniqueInv'
    BY <1>0, <1>3, <2>1, <2>2, <2>3 DEF WriteSlot, consVars, UniqueInv
  <2>6. ClaimInv'
    BY <1>0, <1>3, <2>1, <2>2, <2>3 DEF WriteSlot, consVars, ClaimInv
  <2> QED
    BY <2>4, <2>5, <2>6
<1>4. CASE TestFull
  <2>1. ~ring_buf_full(head, tail)
    BY <1>0, <1>4, RoomToPut
       DEF TestFull, ring_buf_full, Tail0, Wrap, TypeOK, Slots
  <2>2. TypeOK' /\ PutInv' /\ GetInv'
    BY <1>4, <2>1 DEF TestFull, consVars, TypeOK, PutInv, GetInv
  <2>3. UniqueInv' /\ ClaimInv'
    BY <1>4 DEF TestFull, consVars, UniqueInv, ClaimInv, Occupied, Tail0
  <2> QED
    BY <2>2, <2>3
<1>5. CASE DropOldest
  BY <1>5 DEF DropOldest, PutInv
<1>6. CASE StoreHead
  <2>1. Wrap(head + 1) # Tail0 /\ arg \in Pages /\ buffer[head] = arg
    BY <1>0, <1>6, RoomToPut DEF StoreHead, ring_buf_full, PutInv, TypeOK
  <2>2. \A s \in Slots : Occupied(s)' <=> Occupied(s) \/ s = head
    <3>1. Tail0' = Tail0 /\ head' = Wrap(head + 1)
      BY <1>6 DEF StoreHead, Tail0
    <3>2. CASE head + 1 = Capacity
      BY <1>0, <2>1, <3>1, <3>2 DEF Occupied, Wrap, Slots
    <3>3. CASE head + 1 # Capacity
      BY <1>0, <2>1, <3>1, <3>3 DEF Occupied, Wrap, Slots
    <3> QED
      BY <3>2, <3>3
  <2>3. ~Occupied(head)
    BY <1>0 DEF Occupied, Slots
  <2>4. TypeOK' /\ PutInv'
    BY <1>0, <1>6 DEF StoreHead, consVars, TypeOK, PutInv, Wrap, Slots
  <2>5. GetInv'
    BY <1>0, <1>6, <2>1, <2>4 DEF StoreHead, consVars, TypeOK, GetInv
  <2>6. UniqueInv'
    <3>1. \A s \in Slots : Occupied(s)' => /\ buffer'[s] \in claimed'
                                           /\ buffer'[s] # arg'
                                           /\ cpc' = "wrap" => buffer'[s] # cur_read'
      BY <1>0, <1>6, <2>1, <2>2 DEF StoreHead, consVars, TypeOK, PutInv, UniqueInv
    <3>2. \A s, t \in Slots :
            Occupied(s)' /\ Occupied(t)' /\ s # t => buffer'[s] # buffer'[t]
      BY <1>0, <1>6, <2>1, <2>2 DEF StoreHead, UniqueInv
    <3>3. cpc' = "wrap" => cur_read' # arg'
      BY <1>0, <1>6 DEF StoreHead, consVars, GetInv, TypeOK
    <3> QED
      BY <3>1, <3>2, <3>3 DEF UniqueInv
  <2>7. ClaimInv'
    BY <1>0, <1>6, <2>1, <2>2 DEF StoreHead, consVars, ClaimInv
  <2> QED
    BY <2>4, <2>5, <2>6, <2>7
<1>7. CASE EmptyTestFull
  <2>1. TypeOK' /\ PutInv'
    BY <1>7 DEF EmptyTestFull, prodVars, TypeOK, PutInv
  <2>2. GetInv'
    BY <1>0, <1>7 DEF EmptyTestFull, prodVars, TypeOK, GetInv, ring_buf_full, Wrap, Slots
  <2>3. UniqueInv' /\ ClaimInv'
    BY <1>7 DEF EmptyTestFull, prodVars, UniqueInv, ClaimInv, Occupied, Tail0
  <2> QED
    BY <2>1, <2>2, <2>3
<1>8. CASE EmptyTestEqual
  <2>1. TypeOK' /\ PutInv' /\ GetInv'
    BY <1>8 DEF EmptyTestEqual, prodVars, TypeOK, PutInv, GetInv
  <2>2. UniqueInv' /\ ClaimInv'
    BY <1>8 DEF EmptyTestEqual, prodVars, UniqueInv, ClaimInv, Occupied, Tail0
  <2> QED
    BY <2>1, <2>2
<1>9. CASE ReadSlot
  <2>1. Occupied(tail) /\ tail \in Slots
    BY <1>0, <1>9 DEF ReadSlot, GetInv, Occupied, Slots
  <2>2. buffer[tail] \in Pages
    BY <2>1 DEF UniqueInv, TypeOK
  <2>3. TypeOK' /\ PutInv'
    BY <1>0, <1>9, <2>2 DEF ReadSlot, prodVars, TypeOK, PutInv
  <2>4. GetInv'
    BY <1>0, <1>9, <2>2 DEF ReadSlot, prodVars, TypeOK, GetInv
  <2>5. UniqueInv' /\ ClaimInv'
    BY <1>9 DEF ReadSlot, prodVars, UniqueInv, ClaimInv, Occupied, Tail0
  <2> QED
    BY <2>3, <2>4, <2>5
<1>10. CASE StoreTail
  <2>1. /\ Occupied(tail) /\ tail \in Slots /\ tail = Tail0
        /\ cur_read = buffer[tail] /\ cur_read # NULL
    BY <1>0, <1>10 DEF StoreTail, GetInv, Occupied, Slots
  <2>2. \A s \in Slots : Occupied(s)' <=> Occupied(s) /\ s # tail
    BY <1>0, <1>10, <2>1 DEF StoreTail, GetInv, Occupied, Tail0, Wrap, Slots
  <2>3. TypeOK' /\ PutInv'
    BY <1>0, <1>10 DEF StoreTail, prodVars, TypeOK, PutInv, Slots
  <2>4. GetInv'
    BY <1>0, <1>10, <2>1 DEF StoreTail, prodVars, GetInv, UniqueInv
  <2>5. UniqueInv'
    BY <1>0, <1>10, <2>1, <2>2 DEF StoreTail, prodVars, UniqueInv
  <2>6. ClaimInv'
    BY <1>0, <1>10, <2>1, <2>2 DEF StoreTail, prodVars, ClaimInv
  <2> QED
    BY <2>3, <2>4, <2>5, <2>6
<1>11. CASE WrapTail
  <2>1. Tail0' = Tail0
    BY <1>0, <1>11 DEF WrapTail, Tail0, Wrap, Slots
  <2>2. \A s \in Slots : Occupied(s)' <=> Occupied(s)
    BY <1>11, <2>1 DEF WrapTail, Occupied
  <2>3. TypeOK'
    BY <1>0, <1>11 DEF WrapTail, TypeOK, GetInv, Tail0, Wrap, Slots
  <2>4. PutInv' /\ GetInv'
    BY <1>0, <1>11 DEF WrapTail, PutInv, GetInv, UniqueInv
  <2>5. UniqueInv'
    BY <1>0, <1>11, <2>2 DEF WrapTail, UniqueInv
  <2>6. ClaimInv'
    BY <1>0, <1>11, <2>2 DEF WrapTail, ClaimInv
  <2> QED
    BY <2>3, <2>4, <2>5, <2>6
<1>12. CASE UNCHANGED vars
  BY <1>12 DEF vars, TypeOK, PutInv, GetInv, UniqueInv, ClaimInv, Occupied, Tail0
<1> QED
  BY <1>1, <1>2, <1>3, <1>4, <1>5, <1>6, <1>7, <1>8, <1>9, <1>10, <1>11, <1>12
     DEF Next, Producer, Consumer

-----------------------------------------------------------------------------
(* Safety.                                                                 *)

\* The occupied slots, from tail to head, form a sequence of pages.
LEMMA ContentsSeq ==
  ASSUME IndInv
  PROVE  /\ Count(head, Tail0) \in Nat /\ Count(head, Tail0) < Capacity
         /\ Contents \in Seq(Pages)
         /\ Len(Contents) = Count(head, Tail0)
         /\ \A i \in 1 .. Len(Contents) : Contents[i] = buffer[SlotOf(Tail0, i)]
<1>1. Count(head, Tail0) \in Nat /\ Count(head, Tail0) < Capacity
  BY WrapType, CountType DEF IndInv, TypeOK
<1>2. \A i \in 1 .. Count(head, Tail0) : buffer[SlotOf(Tail0, i)] \in Pages
  BY WrapType, CountType, SlotOccupied DEF IndInv, UniqueInv, TypeOK
<1> QED
  BY <1>1, <1>2 DEF Contents

\* The facts of ContentsSeq, as a state predicate to be primed.
IsQueue ==
  /\ Contents \in Seq(Pages)
  /\ Len(Contents) = Count(head, Tail0)
  /\ \A i \in 1 .. Len(Contents) : Contents[i] = buffer[SlotOf(Tail0, i)]

\* The same after a step.
LEMMA ContentsSeqNext == IndInv' => IsQueue'
<1>1. IndInv => IsQueue
  BY ContentsSeq DEF IsQueue
<1> QED
  BY <1>1, PTL

\* The invariant gives both safety properties of the ring.
LEMMA InvImpliesSafety == IndInv => GetIsStable /\ NoRequestLost
<1> SUFFICES ASSUME IndInv PROVE GetIsStable /\ NoRequestLost
  OBVIOUS
<1>1. ASSUME cpc \in {"read", "store"}
      PROVE  Contents # << >> /\ Contents[1] = buffer[tail]
  <2>1. head # Tail0 /\ Tail0 = tail /\ tail \in Slots /\ head \in Slots
    BY <1>1, WrapType DEF IndInv, GetInv, TypeOK
  <2>2. Count(head, Tail0) > 0 /\ SlotOf(Tail0, 1) = tail
    BY <2>1, WrapType DEF Count, SlotOf, Slots, IndInv
  <2> QED
    BY <2>2, ContentsSeq
<1>2. GetIsStable
  BY <1>1, ContentsSeq DEF GetIsStable, IndInv, GetInv
<1>3. ASSUME NEW s \in Slots, Occupied(s)
      PROVE  \E i \in 1 .. Len(Contents) : Contents[i] = buffer[s]
  BY <1>3, SlotOccupied, ContentsSeq DEF IndInv
<1>4. NoRequestLost
  BY <1>3 DEF NoRequestLost, IndInv, PutInv, ClaimInv
<1> QED
  BY <1>2, <1>4

\* In every reachable state of a ring with more slots than pages the
\* inductive invariant holds, whatever the interleaving of put and get.
THEOREM Invariance == ASSUME Concurrent PROVE Spec => []IndInv
<1>1. Init => IndInv
  BY InitInv
<1>2. IndInv /\ [Next]_vars => IndInv'
  BY NextInv
<1> QED
  BY <1>1, <1>2, PTL DEF Spec

\* ring_buf_t keeps its types: in particular no load or store of a slot is
\* out of bounds, although the tail passes through the value Capacity.
THEOREM TypeCorrect == ASSUME Concurrent PROVE Spec => []TypeOK
<1>1. IndInv => TypeOK
  BY DEF IndInv
<1> QED
  BY <1>1, Invariance, PTL

\* No interleaving invalidates the entry a ring_buf_get has in hand.
THEOREM StableGet == ASSUME Concurrent PROVE Spec => []GetIsStable
<1>1. IndInv => GetIsStable
  BY InvImpliesSafety
<1> QED
  BY <1>1, Invariance, PTL

\* With more slots than pages, ring_buf_put never discards a request.
THEOREM NothingLost == ASSUME Concurrent PROVE Spec => []NoRequestLost
<1>1. IndInv => NoRequestLost
  BY InvImpliesSafety
<1> QED
  BY <1>1, Invariance, PTL

-----------------------------------------------------------------------------
(* Refinement.                                                             *)

\* An empty ring is an empty queue.
LEMMA InitRefines == Init => Fifo!Init
<1> SUFFICES ASSUME Init PROVE Fifo!Init
  OBVIOUS
<1>1. Count(head, Tail0) = 0
  BY RingAssumption DEF Init, Count, Tail0, Wrap
<1> QED
  BY <1>1 DEF Init, Fifo!Init, Contents, LastGot

\* Storing the head is a Put, storing the tail a Get, finding head and
\* tail equal a GetEmpty; every other access leaves the queue alone.
LEMMA StepRefines ==
  ASSUME Concurrent, IndInv, IndInv', [Next]_vars
  PROVE  [Fifo!Next]_(Fifo!vars)
<1>0. /\ Capacity \in Nat /\ Capacity > 1 /\ NULL \notin Pages
      /\ Tail0 \in Slots /\ head \in Slots
      /\ cpc # "wrap" => Tail0 = tail /\ tail \in Slots
  BY RingAssumption, WrapType DEF TypeOK, IndInv
<1>1. ASSUME NEW p \in Pages, NEW at \in {"guard", "write"}, StartPut(p, at)
      PROVE  UNCHANGED Fifo!vars
  BY <1>1 DEF StartPut, consVars, Fifo!vars, Contents, LastGot, Tail0
<1>2. CASE WaitNotFull
  BY <1>2 DEF WaitNotFull, consVars, Fifo!vars, Contents, LastGot, Tail0
<1>3. CASE WriteSlot
  <2>1. \A i \in 1 .. Count(head, Tail0) : SlotOf(Tail0, i) \in Slots /\ SlotOf(Tail0, i) # head
    <3>1. ~Occupied(head)
      BY <1>0 DEF Occupied, Slots
    <3> QED
      BY <1>0, <3>1, CountType, SlotOccupied DEF IndInv
  <2>2. Contents' = Contents /\ LastGot' = LastGot
    BY <1>3, <2>1 DEF WriteSlot, consVars, Contents, LastGot, Tail0, IndInv, TypeOK
  <2> QED
    BY <2>2 DEF Fifo!vars
<1>4. CASE TestFull
  BY <1>4 DEF TestFull, consVars, Fifo!vars, Contents, LastGot, Tail0
<1>5. CASE DropOldest
  BY <1>5 DEF DropOldest, IndInv, PutInv
<1>6. CASE StoreHead
  <2>1. Wrap(head + 1) # Tail0 /\ arg \in Pages /\ buffer[head] = arg
    BY <1>0, <1>6, RoomToPut DEF StoreHead, ring_buf_full, IndInv, PutInv, TypeOK
  <2>2. Tail0' = Tail0 /\ head' = Wrap(head + 1) /\ buffer' = buffer /\ LastGot' = LastGot
    BY <1>6 DEF StoreHead, consVars, Tail0, LastGot
  <2>3. /\ Count(head', Tail0) = Count(head, Tail0) + 1
        /\ SlotOf(Tail0, Count(head, Tail0) + 1) = head
        /\ Count(head, Tail0) < Capacity - 1
    BY <1>0, <2>1, <2>2 DEF Count, SlotOf, Wrap, Slots
  <2>4. /\ Len(Contents') = Len(Contents) + 1
        /\ Contents' \in Seq(Pages)
        /\ \A i \in 1 .. Len(Contents) : Contents'[i] = Contents[i]
        /\ Contents'[Len(Contents) + 1] = arg
    <3>1. /\ Contents' \in Seq(Pages)
          /\ Len(Contents') = Count(head', Tail0')
          /\ \A i \in 1 .. Len(Contents') : Contents'[i] = buffer'[SlotOf(Tail0', i)]
      BY ContentsSeqNext DEF IsQueue
    <3> QED
      BY <2>1, <2>2, <2>3, <3>1, ContentsSeq
  <2>5. Contents' = Append(Contents, arg)
    BY <2>4, ContentsSeq
  <2>6. \A i \in 1 .. Len(Contents) : Contents[i] # arg
    BY <1>0, CountType, SlotOccupied, ContentsSeq DEF IndInv, UniqueInv
  <2> QED
    BY <2>1, <2>2, <2>3, <2>5, <2>6, ContentsSeq DEF Fifo!Next, Fifo!Put
<1>7. CASE EmptyTestFull
  BY <1>7 DEF EmptyTestFull, prodVars, Fifo!vars, Contents, LastGot, Tail0, IndInv, GetInv
<1>8. CASE EmptyTestEqual
  <2>1. Contents' = Contents
    BY <1>8 DEF EmptyTestEqual, prodVars, Contents, Tail0
  <2>2. CASE head = tail
    <3>1. Count(head, Tail0) = 0
      BY <1>0, <1>8, <2>2 DEF EmptyTestEqual, Count, Slots
    <3>2. Contents = << >> /\ LastGot' = NULL
      BY <1>8, <2>2, <3>1, ContentsSeq DEF EmptyTestEqual, LastGot
    <3> QED
      BY <2>1, <3>2 DEF Fifo!Next, Fifo!GetEmpty
  <2>3. CASE head # tail
    BY <1>8, <2>1, <2>3 DEF EmptyTestEqual, LastGot, Fifo!vars
  <2> QED
    BY <2>2, <2>3
<1>9. CASE ReadSlot
  BY <1>9 DEF ReadSlot, prodVars, Fifo!vars, Contents, LastGot, Tail0
<1>10. CASE StoreTail
  <2>1. /\ Contents # << >> /\ cur_read = Head(Contents)
        /\ Tail0 = tail /\ tail \in Slots /\ head # tail
    BY <1>0, <1>10, InvImpliesSafety DEF StoreTail, GetIsStable, IndInv, GetInv
  <2>2. Tail0' = Wrap(tail + 1) /\ head' = head /\ buffer' = buffer /\ LastGot' = cur_read
    BY <1>10 DEF StoreTail, Tail0, LastGot
  <2>3. /\ Count(head, Tail0) = Count(head, Wrap(tail + 1)) + 1
        /\ \A i \in 1 .. Count(head, Wrap(tail + 1)) :
             SlotOf(Wrap(tail + 1), i) = SlotOf(Tail0, i + 1)
    BY <1>0, <2>1 DEF Count, SlotOf, Wrap, Slots
  <2>4. /\ Contents' \in Seq(Pages)
        /\ Len(Contents') = Count(head', Tail0')
        /\ \A i \in 1 .. Len(Contents') : Contents'[i] = buffer'[SlotOf(Tail0', i)]
    BY ContentsSeqNext DEF IsQueue
  <2>5. /\ Len(Contents') = Len(Contents) - 1
        /\ \A i \in 1 .. Len(Contents') : Contents'[i] = Contents[i + 1]
    BY <2>2, <2>3, <2>4, ContentsSeq
  <2>6. Contents' = Tail(Contents)
    BY <2>1, <2>4, <2>5, ContentsSeq
  <2> QED
    BY <2>1, <2>2, <2>6 DEF Fifo!Next, Fifo!Get
<1>11. CASE WrapTail
  <2>1. Tail0' = Tail0
    BY <1>0, <1>11 DEF WrapTail, Tail0, Wrap, Slots
  <2> QED
    BY <1>11, <2>1 DEF WrapTail, Fifo!vars, Contents, LastGot
<1>12. CASE UNCHANGED vars
  BY <1>12 DEF vars, Fifo!vars, Contents, LastGot, Tail0
<1> QED
  BY <1>1, <1>2, <1>3, <1>4, <1>5, <1>6, <1>7, <1>8, <1>9, <1>10, <1>11, <1>12
     DEF Next, Producer, Consumer

\* The ring of spsc-ring.c, with more slots than pages and no lock, is a
\* first-in first-out queue.
THEOREM Refinement == ASSUME Concurrent PROVE Spec => ImplementsFifo
<1>1. Init => Fifo!Init
  BY InitRefines
<1>2. IndInv /\ IndInv' /\ [Next]_vars => [Fifo!Next]_(Fifo!vars)
  BY StepRefines
<1> QED
  BY <1>1, <1>2, Invariance, PTL DEF Spec, ImplementsFifo, Fifo!Spec
=============================================================================
