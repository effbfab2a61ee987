------------------------------ MODULE KvsStore ------------------------------
(***************************************************************************)
(* The store of FlexKVS (src/apps/flexkvs/server): the hash table of       *)
(* hashtable.c, the log-structured item allocator of ialloc.c and the      *)
(* reference counts of iokvs.h, used by worker threads that serve GET and  *)
(* SET as the low-level server does (main-ll.c) and by the maintenance     *)
(* thread that frees segments and queues items for relocation.             *)
(*                                                                         *)
(* All keys fall into one bucket.  An item is named by its address: its    *)
(* segment and its offset there.  Sizes are in units of half an item       *)
(* header.  An atomic operation on a reference count, a critical section   *)
(* of the bucket's or the allocator's lock, and whatever touches only the  *)
(* thread's own allocator or an item nobody else can reach, is one step.   *)
(***************************************************************************)
EXTENDS Integers, Sequences, FiniteSets, SequencesExt, FiniteSetsExt

CONSTANTS
  NWorkers,             \* settings.numcores
  SmallKeys, BigKeys,   \* keys of items of two sizes
  Traffic,              \* <<w, op, k>>: the requests clients send to worker w
  NULL,
  SmallSize, BigSize,   \* item_totalsz of each
  HeaderSize,           \* sizeof(struct item)
  KeyWidth,             \* what the 16 bits of item.keylen can count, plus one
  SegSize, NSegs,       \* settings.segsize, settings.segmaxnum
  CqSize,               \* settings.segcqsize
  CleanMin,             \* settings.clean_ratio, as freed units of a segment
  CleanMax,             \* items relocated per batch of requests: 32
  BucketItems,          \* BUCKET_NITEMS
  MaxReqs               \* bound: requests in a behaviour

Workers == 1 .. NWorkers
Keys == SmallKeys \cup BigKeys
Vals == 1 .. MaxReqs   \* a value names the SET that stored it
Segs == 1 .. NSegs
Addrs == Segs \X (0 .. SegSize)

ASSUME KvsAssumption ==
  /\ NWorkers \in Nat \ {0} /\ NSegs \in Nat /\ NSegs >= 2 * NWorkers
  /\ Traffic \subseteq Workers \X {"get", "set"} \X Keys
  /\ SmallKeys \cap BigKeys = {} /\ NULL \notin Keys \cup Segs \cup Addrs
  /\ {HeaderSize, KeyWidth, SmallSize, BigSize, SegSize} \subseteq Nat \ {0}
  /\ HeaderSize <= SmallSize /\ HeaderSize <= BigSize
  /\ SmallSize < SegSize /\ BigSize < SegSize
  /\ {CqSize, CleanMin, CleanMax, BucketItems} \subseteq Nat \ {0} /\ MaxReqs \in Nat

VARIABLES
  heap,   \* segments, items and hash bucket: the memory all threads share
  ia,     \* the allocator of each worker
  wk,     \* place and locals of each worker
  mt,     \* place and locals of the maintenance thread
  reqs,   \* requests so far, bounded by MaxReqs
  failed  \* what stopped the process, or "none"

vars == <<heap, ia, wk, mt, reqs, failed>>

Size(k) == IF k \in BigKeys THEN BigSize ELSE SmallSize

-----------------------------------------------------------------------------
(* Items (iokvs.h).  items holds what has been written to each address.    *)

item_ref(hp, a) == [hp EXCEPT !.items[a].refcount = @ + 1]

\* Mutant: the bytes of a dead item are not counted.
item_unref_leaks(hp, a) == [hp EXCEPT !.items[a].refcount = @ - 1]

\* The last reference frees the item: ialloc_free, segment_item_free.
item_unref(hp, a) ==
  IF hp.items[a].refcount = 1
  THEN [hp EXCEPT !.items[a].refcount = 0, !.segs[a[1]].freed = @ + hp.items[a].size]
  ELSE [hp EXCEPT !.items[a].refcount = @ - 1]

-----------------------------------------------------------------------------
(* Segments (ialloc.c).                                                    *)

FreshSegment == [offset |-> 0, freed |-> 0, inactive |-> FALSE, cleaned |-> FALSE]

\* segment_alloc: from the free list, else one never used, else NULL.
NextSegment(hp) ==
  IF hp.free_segments # << >> THEN Head(hp.free_segments)
  ELSE IF hp.seg_alloced < NSegs THEN hp.seg_alloced + 1 ELSE NULL

segment_alloc(hp) ==
  LET s == NextSegment(hp)
      old == {a \in DOMAIN hp.items : a[1] = s} IN
  IF s = NULL THEN hp
  ELSE [hp EXCEPT !.segs[s] = FreshSegment,
                  !.items = [a \in DOMAIN hp.items \ old |-> hp.items[a]],
                  !.free_segments = IF @ = << >> THEN @ ELSE Tail(@),
                  !.seg_alloced = IF hp.free_segments = << >> THEN @ + 1 ELSE @]

segment_free(hp, s) ==
  [hp EXCEPT !.segs[s].offset = 0, !.free_segments = <<s>> \o @]

Written(hp, a, item) ==
  [hp EXCEPT !.items = [b \in DOMAIN hp.items \cup {a} |-> IF b = a THEN item ELSE hp.items[b]]]

Item(k, v) == [refcount |-> 1, key |-> k, val |-> v, size |-> Size(k)]

\* segment_item_alloc, when it fails: the rest of the segment becomes a dead
\* item if a header fits, and counts as freed.  The item is as long as its
\* keylen says, which may be less than the rest.
CloseSegment(hp, s) ==
  LET off == hp.segs[s].offset
      avail == SegSize - off
      filler == [refcount |-> 0, key |-> NULL, val |-> NULL,
                 size |-> HeaderSize + ((avail - HeaderSize) % KeyWidth)]
      h1 == IF avail >= HeaderSize THEN Written(hp, <<s, off>>, filler) ELSE hp IN
  IF avail = 0 THEN hp
  ELSE [h1 EXCEPT !.segs[s].offset = SegSize, !.segs[s].freed = @ + avail]

Fits(hp, s, k) == SegSize - hp.segs[s].offset >= Size(k)

\* segment_item_alloc, when it succeeds, with the item's contents.
PlaceItem(hp, s, k, v) ==
  [Written(hp, <<s, hp.segs[s].offset>>, Item(k, v)) EXCEPT !.segs[s].offset = @ + Size(k)]

\* ialloc_alloc: the memory, the allocator and the item's address (or NULL).
ialloc_alloc(hp, al, k, v, cleanup) ==
  LET cur == Last(al.log)
      h1 == CloseSegment(hp, cur)
      s == NextSegment(h1)
      Grown(h2, seg, reserved) ==
        [heap |-> [PlaceItem(h2, seg, k, v) EXCEPT !.segs[cur].inactive = TRUE],
         ia |-> [al EXCEPT !.log = Append(@, seg), !.reserved = reserved],
         it |-> <<seg, h2.segs[seg].offset>>]
  IN IF al.reserved = NULL /\ ~cleanup THEN [heap |-> hp, ia |-> al, it |-> NULL]
     ELSE IF Fits(hp, cur, k)
     THEN [heap |-> PlaceItem(hp, cur, k, v), ia |-> al, it |-> <<cur, hp.segs[cur].offset>>]
     ELSE IF s # NULL THEN Grown(segment_alloc(h1), s, al.reserved)
     ELSE IF cleanup /\ al.reserved # NULL THEN Grown(h1, al.reserved, NULL)
     ELSE [heap |-> h1, ia |-> al, it |-> NULL]

-----------------------------------------------------------------------------
(* The hash bucket (hashtable.c): slots, and a chain off the last one.     *)

Holds(hp, a, k) == a # NULL /\ hp.items[a].key = k

DirectSlots(hp, k) == {i \in 1 .. BucketItems : Holds(hp, hp.direct[i], k)}
ChainSlots(hp, k) == {i \in 1 .. Len(hp.chain) : Holds(hp, hp.chain[i], k)}
Least(S) == CHOOSE i \in S : \A j \in S : i <= j

\* hasht_get, without the reference it takes.
Lookup(hp, k) ==
  IF DirectSlots(hp, k) # {} THEN hp.direct[Least(DirectSlots(hp, k))]
  ELSE IF ChainSlots(hp, k) # {} THEN hp.chain[Least(ChainSlots(hp, k))]
  ELSE NULL

\* The last empty slot, else the last slot, whose item moves to the chain.
Insert(hp, nit) ==
  LET empty == {i \in 1 .. BucketItems : hp.direct[i] = NULL} IN
  IF empty # {}
  THEN [hp EXCEPT !.direct[CHOOSE i \in empty : \A j \in empty : j <= i] = nit]
  ELSE [hp EXCEPT !.direct[BucketItems] = nit, !.chain = <<hp.direct[BucketItems]>> \o @]

\* Mutant: the item to be replaced is not compared with cas.
hasht_put_blind(hp, nit, cas) ==
  LET k == hp.items[nit].key
      di == DirectSlots(hp, k)
      ci == ChainSlots(hp, k)
      h1 == item_ref(hp, nit) IN
  IF di # {}
  THEN LET i == Least(di) IN item_unref([h1 EXCEPT !.direct[i] = nit], hp.direct[i])
  ELSE IF cas # NULL THEN hp
  ELSE IF ci # {}
  THEN LET i == Least(ci) IN item_unref([h1 EXCEPT !.chain[i] = nit], hp.chain[i])
  ELSE Insert(h1, nit)

\* Mutant: the reference of the table is not counted.
hasht_put_unref(hp, nit, cas) ==
  LET k == hp.items[nit].key
      di == DirectSlots(hp, k)
      ci == ChainSlots(hp, k) IN
  IF di # {}
  THEN LET i == Least(di) IN
       IF cas # NULL /\ cas # hp.direct[i] THEN hp
       ELSE item_unref([hp EXCEPT !.direct[i] = nit], hp.direct[i])
  ELSE IF cas # NULL THEN hp
  ELSE IF ci # {}
  THEN LET i == Least(ci) IN item_unref([hp EXCEPT !.chain[i] = nit], hp.chain[i])
  ELSE Insert(hp, nit)

\* hasht_put: a compare-and-set finds its item only in the slots; an item in
\* the chain stays where it is.
hasht_put(hp, nit, cas) ==
  LET k == hp.items[nit].key
      di == DirectSlots(hp, k)
      ci == ChainSlots(hp, k)
      h1 == item_ref(hp, nit) IN
  IF di # {}
  THEN LET i == Least(di) IN
       IF cas # NULL /\ cas # hp.direct[i] THEN hp
       ELSE item_unref([h1 EXCEPT !.direct[i] = nit], hp.direct[i])
  ELSE IF cas # NULL THEN hp
  ELSE IF ci # {}
  THEN LET i == Least(ci) IN item_unref([h1 EXCEPT !.chain[i] = nit], hp.chain[i])
  ELSE Insert(h1, nit)

-----------------------------------------------------------------------------
IdleWorker ==
  [pc |-> "poll", op |-> "none", key |-> NULL, val |-> NULL, it |-> NULL, nit |-> NULL,
   idle |-> TRUE]

\* ialloc_init, hasht_init and ialloc_init_allocator of every worker: one
\* segment to fill and one in reserve each.
Init ==
  /\ heap = [segs |-> [s \in Segs |-> FreshSegment], free_segments |-> << >>,
             seg_alloced |-> 2 * NWorkers, items |-> << >>,
             direct |-> [i \in 1 .. BucketItems |-> NULL], chain |-> << >>]
  /\ ia = [w \in Workers |->
             [reserved |-> 2 * w, log |-> <<2 * w - 1>>, cleanup_queue |-> << >>,
              cleanup_count |-> 0, cleaning |-> NULL, clean_offset |-> 0]]
  /\ wk = [w \in Workers |-> IdleWorker]
  /\ mt = [pc |-> "walk", w |-> 1, i |-> 1, cand |-> NULL]
  /\ reqs = 0
  /\ failed = "none"

-----------------------------------------------------------------------------
(* Requests.                                                               *)

\* An event of flextcp_context_poll: a complete request.
Receives(w) ==
  /\ wk[w].pc = "poll" /\ reqs < MaxReqs
  /\ \E t \in Traffic :
       /\ t[1] = w
       /\ wk' = [wk EXCEPT ![w] = [IdleWorker EXCEPT
                   !.pc = IF t[2] = "get" THEN "get" ELSE "alloc", !.op = t[2], !.key = t[3],
                   !.val = IF t[2] = "get" THEN NULL ELSE reqs + 1, !.idle = FALSE]]
  /\ reqs' = reqs + 1
  /\ UNCHANGED <<heap, ia, mt, failed>>

Answered(w) == wk' = [wk EXCEPT ![w] = [IdleWorker EXCEPT !.idle = FALSE]]

\* GET: the lookup takes a reference ...
GetLooks(w) ==
  LET it == Lookup(heap, wk[w].key) IN
  /\ wk[w].pc = "get"
  /\ heap' = IF it = NULL THEN heap ELSE item_ref(heap, it)
  /\ wk' = [wk EXCEPT ![w].pc = "respond", ![w].it = it]
  /\ UNCHANGED <<ia, mt, reqs, failed>>

\* ... which protects the item while its value is copied to the answer.
Responds(w) ==
  /\ wk[w].pc = "respond"
  /\ heap' = IF wk[w].it = NULL THEN heap ELSE item_unref(heap, wk[w].it)
  /\ Answered(w)
  /\ UNCHANGED <<ia, mt, reqs, failed>>

\* SET: an item is allocated and filled, or the answer is ENOMEM ...
SetAllocates(w) ==
  LET r == ialloc_alloc(heap, ia[w], wk[w].key, wk[w].val, FALSE) IN
  /\ wk[w].pc = "alloc"
  /\ heap' = r.heap
  /\ ia' = [ia EXCEPT ![w] = r.ia]
  /\ IF r.it = NULL THEN Answered(w)
     ELSE wk' = [wk EXCEPT ![w].pc = "put", ![w].it = r.it]
  /\ UNCHANGED <<mt, reqs, failed>>

\* ... put into the table ...
SetPuts(w) ==
  /\ wk[w].pc = "put"
  /\ heap' = hasht_put(heap, wk[w].it, NULL)
  /\ wk' = [wk EXCEPT ![w].pc = "unref"]
  /\ UNCHANGED <<ia, mt, reqs, failed>>

\* ... and let go.
SetUnrefs(w) ==
  /\ wk[w].pc = "unref"
  /\ heap' = item_unref(heap, wk[w].it)
  /\ Answered(w)
  /\ UNCHANGED <<ia, mt, reqs, failed>>

-----------------------------------------------------------------------------
(* clean_log, at the end of each round of a worker.                        *)

\* ialloc_cleanup_nextrequest resets the quota at the start of a busy round.
Quota(w) == IF wk[w].pc = "poll" /\ ~wk[w].idle THEN 0 ELSE ia[w].cleanup_count

\* ialloc_cleanup_item: nothing if the quota of a busy round is used up; else
\* the next item, and a new reserved segment if that is missing.
CleanTakes(w) ==
  LET al == ia[w]
      refill == al.reserved = NULL IN
  /\ wk[w].pc \in {"poll", "clean"}
  /\ IF ~wk[w].idle /\ Quota(w) >= CleanMax
     THEN wk' = [wk EXCEPT ![w] = IdleWorker] /\ UNCHANGED <<heap, ia>>
     ELSE /\ ia' = [ia EXCEPT ![w].cleanup_count = IF wk[w].idle THEN @ ELSE Quota(w) + 1,
                              ![w].cleanup_queue = IF @ = << >> THEN @ ELSE Tail(@),
                              ![w].reserved = IF refill THEN NextSegment(heap) ELSE @]
          /\ heap' = IF refill THEN segment_alloc(heap) ELSE heap
          /\ wk' = IF al.cleanup_queue = << >> THEN [wk EXCEPT ![w] = IdleWorker]
                   ELSE [wk EXCEPT ![w].pc = "copy", ![w].it = Head(al.cleanup_queue)]
  /\ UNCHANGED <<mt, reqs, failed>>

\* An item that a worker has allocated and is still filling.  Its refcount
\* comes first: a scan takes it for an item.
Filling(a) ==
  \E w \in Workers : \/ wk[w].pc = "put" /\ wk[w].it = a
                     \/ wk[w].pc = "replace" /\ wk[w].nit = a

\* An item somebody else refers to is copied to the head of the log.  The model
\* ends where it is copied before it has been filled.
CleanCopies(w) ==
  LET it == heap.items[wk[w].it]
      r == ialloc_alloc(heap, ia[w], it.key, it.val, TRUE) IN
  /\ wk[w].pc = "copy"
  /\ IF it.refcount = 1
     THEN wk' = [wk EXCEPT ![w].pc = "drop"] /\ UNCHANGED <<heap, ia, failed>>
     ELSE \/ /\ heap' = r.heap
             /\ ia' = [ia EXCEPT ![w] = r.ia]
             /\ IF r.it = NULL
                THEN failed' = "no segment for cleanup" /\ UNCHANGED wk
                ELSE wk' = [wk EXCEPT ![w].pc = "replace", ![w].nit = r.it] /\ UNCHANGED failed
          \/ /\ Filling(wk[w].it)
             /\ failed' = "copies an item being filled"
             /\ UNCHANGED <<heap, ia, wk>>
  /\ UNCHANGED <<mt, reqs>>

\* The copy replaces the item if that is still the one in the table.
CleanReplaces(w) ==
  /\ wk[w].pc = "replace"
  /\ heap' = hasht_put(heap, wk[w].nit, wk[w].it)
  /\ wk' = [wk EXCEPT ![w].pc = "drop"]
  /\ UNCHANGED <<ia, mt, reqs, failed>>

CleanDrops(w) ==
  LET h1 == IF wk[w].nit = NULL THEN heap ELSE item_unref(heap, wk[w].nit) IN
  /\ wk[w].pc = "drop"
  /\ heap' = item_unref(h1, wk[w].it)
  /\ wk' = [wk EXCEPT ![w].pc = "clean", ![w].it = NULL, ![w].nit = NULL]
  /\ UNCHANGED <<ia, mt, reqs, failed>>

Worker(w) ==
  \/ Receives(w) \/ GetLooks(w) \/ Responds(w)
  \/ SetAllocates(w) \/ SetPuts(w) \/ SetUnrefs(w)
  \/ CleanTakes(w) \/ CleanCopies(w) \/ CleanReplaces(w) \/ CleanDrops(w)

-----------------------------------------------------------------------------
(* ialloc_maintenance, for one allocator after the other.                  *)

NextAllocator == [pc |-> "walk", w |-> (mt.w % NWorkers) + 1, i |-> 1, cand |-> NULL]

\* The walk stops before the last segment of the log.
AtEnd ==
  LET log == ia[mt.w].log IN
  mt.pc = "walk" /\ (mt.i >= Len(log) \/ ~heap.segs[log[mt.i]].inactive)

\* Mutant: a segment that has been cleaned is not looked at again.
MaintWalksUncleaned ==
  LET s == ia[mt.w].log[mt.i]
      seg == heap.segs[s]
      better == /\ ~seg.cleaned /\ seg.freed >= CleanMin
                /\ mt.cand # NULL => seg.freed > heap.segs[mt.cand].freed IN
  /\ mt.pc = "walk" /\ ~AtEnd
  /\ IF seg.freed = SegSize /\ ~seg.cleaned
     THEN /\ heap' = segment_free(heap, s)
          /\ ia' = [ia EXCEPT ![mt.w].log = RemoveAt(@, mt.i)]
          /\ UNCHANGED mt
     ELSE /\ mt' = [mt EXCEPT !.i = @ + 1, !.cand = IF better THEN s ELSE @]
          /\ UNCHANGED <<heap, ia>>
  /\ UNCHANGED <<wk, reqs, failed>>

\* One segment: freed, or a candidate for cleaning.
MaintWalks ==
  LET s == ia[mt.w].log[mt.i]
      seg == heap.segs[s]
      better == /\ ~seg.cleaned /\ seg.freed >= CleanMin
                /\ mt.cand # NULL => seg.freed > heap.segs[mt.cand].freed IN
  /\ mt.pc = "walk" /\ ~AtEnd
  /\ IF seg.freed = SegSize
     THEN /\ heap' = segment_free(heap, s)
          /\ ia' = [ia EXCEPT ![mt.w].log = RemoveAt(@, mt.i)]
          /\ UNCHANGED mt
     ELSE /\ mt' = [mt EXCEPT !.i = @ + 1, !.cand = IF better THEN s ELSE @]
          /\ UNCHANGED <<heap, ia>>
  /\ UNCHANGED <<wk, reqs, failed>>

\* The segment under cleaning, or else the candidate.
MaintPicks ==
  LET al == ia[mt.w] IN
  /\ AtEnd
  /\ \/ /\ al.cleaning # NULL /\ al.clean_offset < SegSize
        /\ mt' = [mt EXCEPT !.pc = "scan"]
        /\ UNCHANGED <<heap, ia>>
     \/ /\ al.cleaning = NULL \/ al.clean_offset = SegSize
        /\ ia' = [ia EXCEPT ![mt.w].cleaning = mt.cand, ![mt.w].clean_offset = 0]
        /\ IF mt.cand = NULL THEN mt' = NextAllocator /\ UNCHANGED heap
           ELSE /\ mt' = [mt EXCEPT !.pc = "scan"]
                /\ heap' = [heap EXCEPT !.segs[mt.cand].cleaned = TRUE]
  /\ UNCHANGED <<wk, reqs, failed>>

\* Nothing has been written at a since its segment was allocated: it lies after
\* the last item, or behind a filler that does not reach the end.
Unwritten(a) ==
  \/ a[2] >= heap.segs[a[1]].offset
  \/ \E b \in DOMAIN heap.items : b[1] = a[1] /\ b[2] < a[2] /\ heap.items[b].key = NULL

\* The sizes an item that an earlier use of the segment left at a may have, and
\* those that item_totalsz may read at a.
OldSizes(a) == HeaderSize .. SegSize - a[2]
SizesRead(a) == {heap.items[a].size} \cup (IF Filling(a) THEN OldSizes(a) ELSE {})

\* One item of the segment: if it is alive it is queued, with a reference.  The
\* segment may have been freed since and may be in use again, and then the scan
\* goes over what is there now: new items, one that is being filled, or the dead
\* items of the earlier use.  Where it reads other bytes as an item, those inside
\* a value among them, the code goes on and the model ends.
MaintScans ==
  LET al == ia[mt.w]
      a == <<al.cleaning, al.clean_offset>>
      live == heap.items[a].refcount > 0 IN
  /\ mt.pc = "scan"
  /\ IF al.clean_offset >= SegSize \/ Len(al.cleanup_queue) = CqSize
     THEN mt' = NextAllocator /\ UNCHANGED <<heap, ia, failed>>
     ELSE IF SegSize - al.clean_offset < HeaderSize
     THEN /\ ia' = [ia EXCEPT ![mt.w].clean_offset = SegSize]
          /\ UNCHANGED <<heap, mt, failed>>
     ELSE IF a \in DOMAIN heap.items
     THEN /\ heap' = IF live THEN item_ref(heap, a) ELSE heap
          /\ \E n \in SizesRead(a) :
               ia' = [ia EXCEPT ![mt.w].clean_offset = @ + n,
                                ![mt.w].cleanup_queue = IF live THEN Append(@, a) ELSE @]
          /\ UNCHANGED <<mt, failed>>
     ELSE \/ /\ Unwritten(a)
             /\ \E n \in OldSizes(a) : ia' = [ia EXCEPT ![mt.w].clean_offset = @ + n]
             /\ UNCHANGED <<heap, mt, failed>>
          \/ failed' = "log scan reads no item" /\ UNCHANGED <<heap, ia, mt>>
  /\ UNCHANGED <<wk, reqs>>

Maintenance == MaintWalks \/ MaintPicks \/ MaintScans

Next == failed = "none" /\ (Maintenance \/ \E w \in Workers : Worker(w))

\* The maintenance thread never blocks for long and never ends; nothing is
\* assumed of the workers.
Spec == Init /\ [][Next]_vars /\ WF_vars(failed = "none" /\ Maintenance)

-----------------------------------------------------------------------------
Table == {heap.direct[i] : i \in 1 .. BucketItems} \cup ToSet(heap.chain)

\* The references to item a: one of the table, one of each worker that works
\* on it and one of each entry of a cleanup queue.
References(a) ==
  (IF a \in Table THEN 1 ELSE 0)
  + Cardinality({w \in Workers : wk[w].it = a})
  + Cardinality({w \in Workers : wk[w].nit = a})
  + Cardinality({p \in Workers \X (1 .. CqSize) :
                   p[2] <= Len(ia[p[1]].cleanup_queue) /\ ia[p[1]].cleanup_queue[p[2]] = a})

\* Every reference count is exactly the number of references that exist, at
\* every step of every thread: no GET, overwrite, relocation or scan drops a
\* reference too many (the item would be freed while it is in use) or one too
\* few (its segment would never be freed), as long as the scan finds items.
RefcountExact ==
  \A a \in DOMAIN heap.items : heap.items[a].refcount = References(a)

LiveIn(s) == {a \in DOMAIN heap.items : a[1] = s /\ heap.items[a].refcount > 0}
InLog(s) == \E w \in Workers : s \in ToSet(ia[w].log)

\* Every segment has one owner: the log of a worker, its reserve, the free
\* list, or none yet.  In a log, the bytes handed out less the bytes freed are
\* the bytes of the live items, fillers and lost tails included, so that a
\* segment is freed when and only when its last item has died; elsewhere there
\* is no live item.
SegmentsAccounted ==
  \A s \in Segs :
    /\ (IF s > heap.seg_alloced THEN 1 ELSE 0)
       + Cardinality({i \in DOMAIN heap.free_segments : heap.free_segments[i] = s})
       + Cardinality({w \in Workers : ia[w].reserved = s})
       + Cardinality({w \in Workers : s \in ToSet(ia[w].log)}) = 1
    /\ InLog(s) => heap.segs[s].offset - heap.segs[s].freed
                     = MapThenSumSet(LAMBDA a : heap.items[a].size, LiveIn(s))
    /\ ~InLog(s) => LiveIn(s) = {}

\* What the store looks like to its users.
Value(it) == IF it = NULL THEN NULL ELSE heap.items[it].val

Busy(w) ==
  LET x == wk[w] IN
  IF x.op = "none" THEN [op |-> "none", key |-> NULL, val |-> NULL, done |-> FALSE]
  ELSE IF x.pc = "respond"
  THEN [op |-> "get", key |-> x.key, val |-> Value(x.it), done |-> TRUE]
  ELSE [op |-> x.op, key |-> x.key, val |-> x.val, done |-> x.pc = "unref"]

Map == INSTANCE KvMap WITH
  store <- [k \in Keys |-> Value(Lookup(heap, k))], op <- [w \in Workers |-> Busy(w)]

\* The store is a map: a GET answers with the value the last SET of its key
\* stored, read from an item that nobody overwrites meanwhile; a SET that is
\* refused changes nothing; and neither relocating items nor freeing segments
\* and using them again, also while the scan of the log is still in them,
\* changes the value of a key.  All this up to the step, if there is one, at
\* which the scan takes for an item what is none, or the cleaner copies an item
\* that is being filled: nothing is said of the store after it.
ImplementsMap == Map!Spec

Dead(s) ==
  \E w \in Workers : \E i \in 1 .. Len(ia[w].log) - 1 :
    ia[w].log[i] = s /\ heap.segs[s].freed = SegSize

\* A segment whose last item has died is freed, whatever the workers do.
SegmentFreed ==
  \A s \in Segs : (failed = "none" /\ Dead(s)) ~> (failed # "none" \/ ~Dead(s))
=============================================================================
