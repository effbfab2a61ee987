------------------------------ MODULE SpscRing ------------------------------
(***************************************************************************)
(* src/spsc-ring.c: the ring of page pointers that carries hot, cold and   *)
(* free requests to the policy thread of HeMem.                            *)
(*                                                                         *)
(* The code takes no lock and uses no atomic access: one thread puts, one  *)
(* gets, and they share head, tail and the slots.  Every load and store of *)
(* shared memory that the library's build (gcc -O3, x86-64) performs is a  *)
(* step of its own: in ring_buf_put the new head is written once, already  *)
(* wrapped, whereas in ring_buf_get the tail is first written incremented  *)
(* and then, when it equals the capacity, overwritten with 0: the producer *)
(* can see a tail that is no slot number.                                  *)
(*                                                                         *)
(* The clients keep a page in a ring at most once: a page is put only when *)
(* it is not claimed, and it is claimed from before the put until after    *)
(* the get that returns it (ring_present in pebs.c for hot and cold        *)
(* requests; a page on the free ring is in no address range, and is put    *)
(* again only after it has been freed and allocated).  Where the two sides *)
(* run concurrently there are fewer pages than slots, as in HeMem; with as *)
(* many pages as slots or more, put overwrites, which the code supports    *)
(* only while no get is under way.                                         *)
(***************************************************************************)
EXTENDS Naturals, Sequences, FiniteSets

CONSTANTS
  Pages,      \* the values put: pointers to page structures
  NULL,       \* the null pointer
  Capacity,   \* rbuf->capacity
  Concurrent  \* whether a put and a get may overlap

\* ring_buf_init: a buffer of one slot would fail the assertion that a new
\* ring is empty.  CAPACITY (128 Mi) exceeds the number of pages by far.
ASSUME RingAssumption ==
  /\ Capacity \in Nat /\ Capacity > 1
  /\ Concurrent \in BOOLEAN
  /\ IsFiniteSet(Pages)
  /\ Concurrent => Cardinality(Pages) < Capacity
  /\ NULL \notin Pages

Slots == 0 .. Capacity - 1

VARIABLES
  buffer,    \* the slots; a slot never written holds NULL
  head,      \* next slot to write, stored by the producer
  tail,      \* next slot to read; Capacity while a get wraps it
  claimed,   \* pages between the start of a put and the end of their get
  ppc,       \* where the producer is in ring_buf_put
  arg,       \* data, the pointer being put
  cpc,       \* where the consumer is in ring_buf_get
  cur_read,  \* the slot's value, read by the get under way
  got        \* what the latest completed get returned

prodVars == <<ppc, arg, claimed>>
consVars == <<cpc, cur_read, got>>
vars == <<buffer, head, tail, claimed, ppc, arg, cpc, cur_read, got>>

-----------------------------------------------------------------------------
(* Pointer arithmetic.                                                     *)

Wrap(i) == IF i = Capacity THEN 0 ELSE i

ring_buf_full(h, t) == Wrap(h + 1) = t

\* ring_buf_init and ring_buf_reset.
Init ==
  /\ buffer = [s \in Slots |-> NULL]
  /\ head = 0 /\ tail = 0
  /\ claimed = {}
  /\ ppc = "idle" /\ arg = NULL
  /\ cpc = "idle" /\ cur_read = NULL /\ got = NULL

-----------------------------------------------------------------------------
(* The producer: ring_buf_put and advance_pointer.                         *)

\* Fault: a page is put although it is in the ring.
StartPutTwice(p, at) ==
  /\ ppc = "idle"
  /\ Concurrent \/ cpc = "idle"
  /\ claimed' = claimed \cup {p}
  /\ arg' = p
  /\ ppc' = at
  /\ UNCHANGED <<buffer, head, tail, consVars>>

\* A request for a page that has none pending.  A caller that first spins
\* while the ring is full (pebs_remove_page) starts at "guard".
StartPut(p, at) ==
  /\ ppc = "idle"
  /\ Concurrent \/ cpc = "idle"
  /\ p \notin claimed
  /\ claimed' = claimed \cup {p}
  /\ arg' = p
  /\ ppc' = at
  /\ UNCHANGED <<buffer, head, tail, consVars>>

\* while (ring_buf_full(free_page_ring));
WaitNotFull ==
  /\ ppc = "guard"
  /\ ~ring_buf_full(head, tail)
  /\ ppc' = "write"
  /\ UNCHANGED <<buffer, head, tail, claimed, arg, consVars>>

\* Fault: the slot after the head is written.
WriteSlotNext ==
  /\ ppc = "write"
  /\ buffer' = [buffer EXCEPT ![Wrap(head + 1)] = arg]
  /\ ppc' = "full"
  /\ UNCHANGED <<head, tail, claimed, arg, consVars>>

\* rbuf->buffer[rbuf->head] = data
WriteSlot ==
  /\ ppc = "write"
  /\ buffer' = [buffer EXCEPT ![head] = arg]
  /\ ppc' = "full"
  /\ UNCHANGED <<head, tail, claimed, arg, consVars>>

\* advance_pointer asks whether the ring is full ...
TestFull ==
  /\ ppc = "full"
  /\ ppc' = IF ring_buf_full(head, tail) THEN "drop" ELSE "head"
  /\ UNCHANGED <<buffer, head, tail, claimed, arg, consVars>>

\* Fault: the tail stays.
DropNothing ==
  /\ ppc = "drop"
  /\ ppc' = "head"
  /\ UNCHANGED <<buffer, head, tail, claimed, arg, consVars>>

\* ... and if so moves the tail, the consumer's index, over the oldest entry.
DropOldest ==
  /\ ppc = "drop"
  /\ tail' = Wrap(tail + 1)
  /\ ppc' = "head"
  /\ UNCHANGED <<buffer, head, claimed, arg, consVars>>

\* Fault: the head is not wrapped.
StoreHeadUnwrapped ==
  /\ ppc = "head"
  /\ head' = head + 1
  /\ ppc' = "idle"
  /\ arg' = NULL
  /\ UNCHANGED <<buffer, tail, claimed, consVars>>

\* The head is stored last, which publishes the slot.
StoreHead ==
  /\ ppc = "head"
  /\ head' = Wrap(head + 1)
  /\ ppc' = "idle"
  /\ arg' = NULL
  /\ UNCHANGED <<buffer, tail, claimed, consVars>>

-----------------------------------------------------------------------------
(* The consumer: ring_buf_empty, ring_buf_get and retreat_pointer.         *)

\* ring_buf_empty loads the indexes twice: once to exclude a full ring ...
EmptyTestFull ==
  /\ cpc = "idle"
  /\ Concurrent \/ ppc \in {"idle", "guard"}
  /\ cpc' = IF ring_buf_full(head, tail) THEN "read" ELSE "empty"
  /\ UNCHANGED <<buffer, head, tail, prodVars, cur_read, got>>

\* Faults: an empty ring is read; a ring of one entry counts as empty.
EmptyIgnored ==
  /\ cpc = "empty"
  /\ cpc' = "read"
  /\ UNCHANGED <<buffer, head, tail, prodVars, cur_read, got>>
EmptyAtOne ==
  /\ cpc = "empty"
  /\ cpc' = IF head \in {tail, Wrap(tail + 1)} THEN "idle" ELSE "read"
  /\ got' = IF head \in {tail, Wrap(tail + 1)} THEN NULL ELSE got
  /\ UNCHANGED <<buffer, head, tail, prodVars, cur_read>>

\* ... and once to compare them; an empty ring makes ring_buf_get return NULL.
EmptyTestEqual ==
  /\ cpc = "empty"
  /\ cpc' = IF head = tail THEN "idle" ELSE "read"
  /\ got' = IF head = tail THEN NULL ELSE got
  /\ UNCHANGED <<buffer, head, tail, prodVars, cur_read>>

\* cur_read = rbuf->buffer[rbuf->tail]
ReadSlot ==
  /\ cpc = "read"
  /\ cur_read' = buffer[tail]
  /\ cpc' = "store"
  /\ UNCHANGED <<buffer, head, tail, prodVars, got>>

\* ++(rbuf->tail), stored before it is compared with the capacity.
StoreTail ==
  /\ cpc = "store"
  /\ tail' = tail + 1
  /\ cpc' = "wrap"
  /\ UNCHANGED <<buffer, head, prodVars, cur_read, got>>

\* The wrap, if any, and the return: the client forgets its claim.
WrapTail ==
  /\ cpc = "wrap"
  /\ tail' = Wrap(tail)
  /\ got' = cur_read
  /\ cur_read' = NULL
  /\ claimed' = claimed \ {cur_read}
  /\ cpc' = "idle"
  /\ UNCHANGED <<buffer, head, ppc, arg>>

-----------------------------------------------------------------------------
Producer ==
  \/ \E p \in Pages, at \in {"guard", "write"} : StartPut(p, at)
  \/ WaitNotFull \/ WriteSlot \/ TestFull \/ DropOldest \/ StoreHead

Consumer == EmptyTestFull \/ EmptyTestEqual \/ ReadSlot \/ StoreTail \/ WrapTail

Next == Producer \/ Consumer

Spec == Init /\ [][Next]_vars

\* Neither thread stops inside an operation, and the policy thread keeps
\* polling the ring.
Fairness ==
  /\ WF_vars(WaitNotFull \/ WriteSlot \/ TestFull \/ DropOldest \/ StoreHead)
  /\ WF_vars(Consumer)

FairSpec == Spec /\ Fairness
-----------------------------------------------------------------------------
(* The queue the ring stands for.                                          *)

Tail0 == Wrap(tail)

\* The number of entries from a tail to the head.
Count(h, t) == IF h >= t THEN h - t ELSE Capacity + h - t

\* The slot of the i-th oldest entry.
SlotOf(t, i) == IF t + i - 1 >= Capacity THEN t + i - 1 - Capacity ELSE t + i - 1

Contents == [i \in 1 .. Count(head, Tail0) |-> buffer[SlotOf(Tail0, i)]]

\* What the latest get that moved the tail, or found the ring empty, returns.
LastGot == IF cpc = "wrap" THEN cur_read ELSE got

Fifo == INSTANCE BoundedFifo WITH
          queue <- Contents, last <- LastGot, Depth <- Capacity - 1

-----------------------------------------------------------------------------
(* Properties.                                                             *)

\* Every variable of ring_buf_t and of the two operations has its type: the
\* head is always a slot number, the tail a slot number or, inside a get,
\* the capacity.
TypeOK ==
  /\ buffer \in [Slots -> Pages \cup {NULL}]
  /\ head \in Slots
  /\ tail \in 0 .. Capacity
  /\ tail = Capacity => cpc = "wrap"
  /\ claimed \subseteq Pages
  /\ ppc \in {"idle", "guard", "write", "full", "drop", "head"}
  /\ arg \in Pages \cup {NULL}
  /\ cpc \in {"idle", "empty", "read", "store", "wrap"}
  /\ cur_read \in Pages \cup {NULL}
  /\ got \in Pages \cup {NULL}

\* The entry a get has in hand is still the oldest one of the ring, and a
\* get that is past ring_buf_empty has one: nothing the producer does
\* between the loads and the stores of ring_buf_get invalidates them.
GetIsStable ==
  /\ cpc \in {"read", "store"} => Contents # << >>
  /\ cpc = "store" => cur_read = Head(Contents)

\* A request is never discarded: advance_pointer finds the ring full in no
\* put, so only the consumer moves the tail, and each claimed page is in the
\* ring, being put, or being returned.
NoRequestLost ==
  /\ ppc # "drop"
  /\ \A p \in claimed :
       \/ arg = p
       \/ cur_read = p /\ cpc = "wrap"
       \/ \E i \in 1 .. Len(Contents) : Contents[i] = p

\* With or without concurrent gets, the ring implements the first-in
\* first-out queue: every step of a put or get is a step of the queue or
\* leaves it alone.
ImplementsFifo == Fifo!Spec

\* A request that is put is returned by a get eventually (and the page may
\* be requested again): no put spins forever on a full ring and no entry
\* stays behind.
RequestReturned == \A p \in Pages : p \in claimed ~> p \notin claimed
=============================================================================
