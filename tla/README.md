# TLA+ models of HeMem

HeMem manages two tiers of memory, DRAM and NVM, from inside an application
process.  It intercepts `mmap` and `munmap`, backs large mappings with 2 MB
pages of two device files, samples memory accesses with PEBS, and moves hot
pages to DRAM and cold ones to NVM while the application runs.  The repository
builds it with other policies too, and brings along the key-value store FlexKVS,
its servers and its benchmark as an application.

The modules of the PEBS policy model the code of `src/` as built by its Makefile
for `libhemem.so`: `USE_DMA` and `COOL_IN_PLACE` defined, `SAMPLE_BASED_COOLING`,
`LLAMA` and `HEMEM_DEBUG` not.  `ParallelCopy` models the build without
`USE_DMA`, `MCTiering` those with `ALLOC_LRU`, with
`LRU_SWAP` and with `ALLOC_SIMPLE`.

## 1. Inventory

| Component | State | Operations | Modelled in |
|---|---|---|---|
| Request rings, `spsc-ring.c` | `head`, `tail`, slots | put, get, empty, full | `SpscRing`, `BoundedFifo`, `SpscRingProofs` |
| Page lists, `fifo.c` | `first`, `last`, `numentries` per list; `next`, `prev`, `list` per page | enqueue, dequeue, remove, next_page | `FifoList`, `PageLists`, `StructureProofs`, `ListLemmas` |
| Table of pages, `uthash.h` | buckets with chains and counts, insertion order | find, add with doubling, delete | `UtHash` |
| Parallel memcpy, `hemem.c` | one job, a lock, a barrier | copy, clear, copy threads | `ParallelCopy`, `StructureProofs` |
| PEBS policy, `pebs.c` | page structures, six lists, three rings, cooling cursors | scan thread, policy thread, `pebs_pagefault`, `pebs_remove_page` | `PebsPolicy`, `PebsPolicyProofs`, `PebsPagesProofs` |
| mmap, munmap and tracking, `hemem.c` | tracked pages, the process's mappings, `internal_call` | `hemem_mmap`, `hemem_munmap`, populate | `PebsPolicy`, `TwoTier` (one page per call) |
| Migration and write-protection faults, `hemem.c` | `migrating`, protection and registration of a range, uffd messages | `hemem_wp_page`, `hemem_migrate_up/down`, `handle_wp_fault`, `handle_fault` | `Migration`, `MigrationProofs` |
| Interposition, `interpose.c` | `internal_call`, `is_init`, three global hints | filters, hook | `TwoTier`, without the hints |
| LRU policies, `policies/lru.c` | active, inactive, written and free lists per tier, `in_kscand` | kscand, kswapd, allocate, remove | `LruPolicy` |
| Simple policy, `policies/simple.c` | two free lists, `slowmem` | allocate, remove | `SimplePolicy` |
| FlexKVS store, `ialloc.c`, `hashtable.c`, `iokvs.h` | segments, items with reference counts, buckets, cleaning queues | get, put, alloc, free, clean, maintenance | `KvsStore`, `KvMap`, `KvsStoreProofs` |
| FlexKVS servers, `main.c`, `main-ll.c`, `main-ll2.c` | connections with buffers or pieces, epoll interest | receive, process, send, accept, close | `SocketServer`, `LowLevelServer`, `RequestStream` |
| kvsbench, `bench/main.c`, `workload.c` | phase, loaded threads | load, get, set, phases | `KvsBench`, `KvsBenchProofs` |

**Threads and how they interact.**  Application threads run the intercepted
calls.  With the PEBS policy, `mmap` takes a page off a free list and puts it on
a cold list; `munmap` takes it out of the hash table and puts it on the free
ring.  The scan thread looks sampled addresses up in the hash table, counts, and
puts requests on the hot and cold rings.  The policy thread wakes every 10 ms,
drains the free, hot and cold rings in that order, migrates hot NVM pages, cools
hot pages and sleeps.  The fault thread answers write-protection faults of
application threads that store into a page being migrated.  The lists have
locks; the page structures, the rings and the process's mappings are shared with
no lock at all.

With the LRU policies, kscand sorts the pages by their accessed and dirty bits
without the global lock, kswapd migrates under it, and so do allocation and
removal, by application threads.  The simple policy has no threads.

A FlexKVS server has one worker thread per core, each with an allocator of its
own, and a maintenance thread that scans their logs and hands items to be moved
to them through queues; they share the hash table (a lock per bucket) and the
segments.  In kvsbench the threads of the benchmark call the store themselves and
there is no maintenance.

**What is hard.**  The unlocked rings and lists; page fields read by one thread
while another clears them; a page that is on the free ring, still listed, and no
longer mapped; an address remapped by a thread that does not know who owns it
now; stores during a copy; wake-ups; lists and cursors that outlive a pass; the
tiers being full; reference counts that readers, writers, the cleaner and the
maintenance thread change; requests in pieces.  `PROJECT.json` lists each hazard
at its line.

**What makes each component correct.**  Rings: FIFO order, nothing lost or
repeated.  Lists and table: consistent links, each page in one place and found.
Copies: complete and of the right job.  Policies: lists and flags agree, no page
is lost, no assertion fails, every address maps the frame of its page and no
frame is shared, freed pages come back, memory runs out only when full.
Migration: no store is lost, every suspended thread resumes.  Store: it is a map,
counts are exact, dead segments come back.  Servers: each request gets its
complete answer, in order.

## 2. Modules

### SpscRing, BoundedFifo; SpscRingProofs

One action per load or store of shared memory as the compiled code performs
it.  gcc at `-O3` wraps the head in a register and stores it once; the tail it
stores incremented and then, if it reached the capacity, again as 0.  The
actions `StoreTail` and `WrapTail` are these two stores, so the producer can
see a tail equal to the capacity.  x86-64 keeps the order of stores, so
publishing the slot before the head needs no fence.

`BoundedFifo` is the promise: a queue.  `Contents` reads the queue off the
slots between (wrapped) tail and head.  A put takes effect when the head is
stored, a get when the tail is.

`claimed` is the clients' discipline: `ring_present` for hot and cold
requests, and being mapped for the free ring.  It is justified by the invariant
`OneRequest` of `PebsPolicy`.  With `Concurrent = TRUE` there are fewer pages
than slots.  This assumption is needed: with as many pages as slots, a put
meets a full ring, and moving the tail under a running get, or merely waiting
while `ring_buf_full` holds but reading the unwrapped tail, makes a full ring
look empty.  In HeMem the capacity is 128 Mi and there are at most some
hundred thousand pages.  `MCStructures` has one ring of each kind; the second meets a
full ring in puts that no get overlaps.

### FifoList, PageLists, UtHash, ParallelCopy; MCStructures; ListLemmas, StructureProofs

`FifoList`: pointers of `fifo.c` as functions on pages and lists; each operation
holds the list's lock and is one action.  A failed assertion sets `failed`.  The
walk from `first` along `next` is the queue of `PageLists`.

`UtHash`: a bucket is its chain with `count` and `expand_mult`.  Insertion puts a
page at the head of its chain and may double the buckets, which moves every page
to its new chain and counts the moves that did not help; after two such doublings
in a row the table no longer grows.  The table is freed with its last page.  The
hash function is a constant `HashOf`: the module says what happens for the hash
values given.

`ParallelCopy`: a caller takes the lock, writes the job and meets the copy threads
twice at one barrier.  A thread reads the job and then writes its chunk.  The job
of each caller differs from what its destination holds, so that a chunk not
copied, copied for the wrong caller or copied late shows.

`MCStructures` has the two rings and these three: the variable `part` selects one, and
the others rest.

### PebsPolicy; MCPebsPolicy; PebsPolicyProofs, PebsPagesProofs

A page structure is named by the frame it was created for, since its
`devdax_offset` changes as it swaps frames with another structure.  The steps
of `mmap` and `munmap` are separate actions wherever another thread can look in
between: reserving the range, taking a page off the DRAM or the NVM list, marking it
present, listing it, reading its offset, mapping it, tracking it; finding it, taking it
out of the hash table, putting it on the free ring, clearing its fields, unmapping.  The
reservation maps the DRAM file itself (`hemem.c:527`), so until it is populated the
address shows some frame of DRAM, whoever has it; `NoSharedFrame` speaks of the
addresses that are populated.  The
scan thread and the policy thread have one action per ring or list operation
and per remapping.  An `assert` that fails puts its name in `failed` and the
process stops.

Abstractions: `warm` says that the sum of the read counters reaches
`HOT_READ_THRESHOLD`; counting may or may not set it, shifting by the clock may
or may not clear it.  A call maps or unmaps one page.  Lists and rings are
sequences with atomic operations, which `FifoList` and `SpscRing` justify.
Hints are not used, so `enforced` is false.  `Sampled` are the addresses the
application reads often enough to be sampled; the others stay cold.  A page that is not present and is
requested keeps `ring_present` set, as in the code.

`Overlap` says whether `mmap` and `munmap` may run while the policy thread is
in a pass.  Several properties hold only if they do not: section 3.  One thread at a time
unmaps an address.

### Migration, MigrationProofs

The data of the pages, word by word, with `shadow` remembering what the
application stored last.  The kernel is modelled from its use: a store into a
protected range suspends the thread and queues a message; `mmap` with
`MAP_FIXED` makes a new range, neither protected nor registered; protecting a
range that is not registered does nothing (`hemem_wp_page` passes over
`ENOENT`); `UFFDIO_WAKE` resumes all threads suspended on the page and drops
their unread messages.  A page is not mapped or unmapped while it migrates;
`PebsPolicy` has that overlap, which does go wrong.

### TwoTier, SimplePolicy, LruPolicy; MCTiering

`TwoTier` is what `hemem.c` and `interpose.c` do whatever the policy is: the
filters, `hemem_init`, `hemem_mmap` with its reservation and its populating of a page
(offset read, mapping made, page tracked) and `hemem_munmap` (page found, taken out of
the table, given to the policy, unmapped).  `internal_call` is a field of each thread.
Each call that HeMem makes itself to `mmap` or `munmap`, those of the hash table's
`malloc` and `free` included, goes through the filter again; one that would be served by
HeMem sets `failed`.  That happens in one way, which `RecursionOnlyAfterDemotion`
describes: the allocation of `lru_swap` demotes a page, which clears `internal_call`
(`interpose.c:76`), and then the page is tracked and the doubling of the buckets frees
the old ones (`uthash.h:884`).  If `free` unmaps them, `hemem_munmap` waits for
`pages_lock`, which its own thread holds.

`LruPolicy` has both builds (`swap`).  kscand takes a page and puts it back in two
steps, without the lock; its choices among the lists stand for the bits of the
page.  `lru_remove_page` waits for kscand, then takes the lock and reads the page's list,
then takes the page off it, in three steps: a scan that begins after the wait may take or
move the page meanwhile.  The code then has a page on two lists or a wrong count; the
model ends there, and the run `removal_race` shows that it is reached.
`global_lock` is modelled with its owner.  `overlap` says whether calls may
run during a pass of kswapd; the properties about mappings need that they do not,
because populating and unmapping touch the page without the lock.

`SimplePolicy` has the unlocked load and store of `slowmem`.

`MCTiering` selects the build in its first state: a process has one policy.

### KvMap, KvsStore; MCKvsStore; KvsStoreProofs

`heap` is the memory the threads share: segments (`offset`, `freed`, `flags`), what
has been written to each address, the free list, and one bucket with its direct
slots and its chain.  `ia` is the allocator of each worker: its log of segments,
reserved segment, cleaning queue.  Actions are the calls a worker makes between
which others can run: lookup (takes a reference), answer, allocation, put, unref,
and for cleaning: take from the queue, copy, replace under the bucket's lock,
drop.  The maintenance thread's walk over the log, its choice of a segment and its
scan are separate actions.  Items have two sizes, so that segments end with and
without room for a header.  The dead item that fills up a segment is as long as its
16-bit `keylen` says, `HeaderSize` and the rest modulo `KeyWidth`; the run has
`KeyWidth = 1`, where it is a header and no more.

`ialloc_maintenance` may free the segment it is cleaning (`ialloc.c:436-443`) and goes on
scanning it after another worker has begun to use it again.  The scan of the model goes on
too: over new items, over one that is being filled (`Filling`: its `refcount` is there,
its lengths may not be, so any size may be read), and over what an earlier use has left
beyond the offset, dead items of any size (`Unwritten`).  It ends, with `failed` set,
where the scan reads as an item other bytes, those inside a value for example: the code
then changes them if they look like a reference count, and nothing can be said of the
store.  It ends too where the cleaner copies an item that is not filled yet.  Both stops
are limits of every property and theorem about the store.

`KvMap` is the promise, a map with get, set and refused set.  The mapping reads a
key's value off the bucket; a request takes effect at its lookup or put.

### RequestStream, SocketServer, LowLevelServer; MCServers

A stream is a sequence of cells, each the n-th part of a numbered request or
answer, so that a cell lost, repeated or out of place is seen.  `RequestStream` is
the promise of a connection: complete answers in the order of the requests; it is
closed only when the client ended, an operation is unknown or it could not be
accepted.

`SocketServer` (`main.c`): buffers of `MaxMsg` cells, `rx_off`, `tx_off`, epoll interest,
and one item with its reference count.  A buffer (`MAX_MSGSIZE`, 1,000,000 bytes) is longer
than its 16-bit lengths can count, `Width` cells: `rx_len` and `tx_len` are taken modulo
`Width`, and what a wrapped length leaves out is overwritten by the next read.  A header
read from the wrong place may call for any length.  The promise of `RequestStream` is
therefore to clients with fewer than `Width` cells under way; the others are in `over`
from then on, and all that is promised of them is that they do not disturb the rest.
A client sends at most `Window` cells before it waits, more than `Width`; the kernel
buffers `OutCap` cells of answers, so that writes block.  `LowLevelServer`
(`main-ll.c` and, with `Direct`, `main-ll2.c`): the two pieces of the receive
ring, and whether the header is copied or read in place.  FlexTCP is external.

`MCServers` selects the program with `build`.

### KvsBench; MCKvsBench; KvsBenchProofs

`KvsBench` uses the heap and the operators of `KvsStore`, with threads of its own:
they load their share of the keys and then get and set what `draw_key` returns;
`main` changes the phase.  A set overwrites the value in place when the key is found,
and inserts an item otherwise.  After an insertion an assertion looks the item up, which
takes a reference that the next statement gives back: the threads have up to two
references to an item.

## 3. Runs and what they show

| Run | Instance | Result |
|---|---|---|
| `structures` | rings: 3 pages, 4 slots, put and get interleaved, and 4 pages, 4 slots, no overlap; lists: 4 pages, 2 lists; table: 5 addresses, 1 to 16 buckets; 3 copy threads, 2 callers | ring: types, `GetIsStable`, `NoRequestLost`, refinement of the queue, `RequestReturned`, a full ring drops its oldest entry; `WellLinked` and refinement of the queues; `FindsTracked`; `CopyComplete` |
| `migration` | 2 pages, 3 frames, 2 words, 2 writers | no lost store, exact copy, protection only while migrating, no forgotten thread, every suspended thread resumes |
| `policy_phased` | 1 + 3 frames, 3 addresses, 2 of them sampled, 4 calls, no overlap | no assertion fails, addresses map their page's frame and share none, lists agree with flags, cursors on hot lists, migrations touch only tracked addresses |
| `policy_overlap` | 1 + 3 frames, 3 addresses, 1 of them sampled, 4 calls, overlap | one request and one place per page; a page is lost only after two tries |
| `policy_free` | 1 + 1 frames, 4 calls, overlap | freed pages reach a free list |
| `tiering` | 1 + 2 frames, 4 addresses, 4 calls, 3 builds | no page lost, memory runs out only when full, one recursion into HeMem only, no shared frame (without overlap) |
| `kvs` | 2 workers, 2 keys, 5 segments of 4 units, queues of 1, 4 requests | exact reference counts and segment accounts, refinement of the map, dead segments freed |
| `server` | 2 connections, 3 scripts, buffers of 8 cells, lengths of 6 | refinement of the stream and every request answered, for clients that stay below the lengths; buffers intact |
| `bench` | 2 threads, 3 keys, 3 requests | exact counts, all keys loaded when the measurement starts, it ends |
| `remap_over_live`, `kvs_close`, `removal_race` | small | violations, below |

**Bounds.**  Three pages in four slots wrap the ring at every position and reach
the largest number of entries the assumption allows.  Four pages put one in the
middle of a list with neighbours on both sides, and two lists let pages move
between them.  In the table, four addresses stay in one bucket up to 16 buckets
and one leaves it, with chains limited to one page: the buckets double with and
without effect until the table stops growing.  One DRAM frame makes every
promotion need a demotion, and one NVM frame more than addresses in NVM leaves
room for it.  `policy_phased` has two sampled addresses and a `MigrateRate` of 1:
only then is a hot NVM page left behind for the cooling pass, and the NVM cursor
can point at the page the next pass takes.  Its constraint `ColdMapped` explores
passes that find the third address mapped, which keeps the instance small; DRAM
still becomes free when a promoted page is unmapped.  `policy_overlap` has one NVM frame
more, since a page is lost only after two demotions in a row; its constraint `FewMapped`
leaves out the behaviours that end with two addresses mapped.  `MaxCalls` bounds the calls
of an application: four let two addresses be mapped, and one of them unmapped and
mapped again.  In `tiering` four addresses and three frames let memory run out.
One application thread calls at a time in the policy runs.  In
`kvs` four requests fill two segments, leave one of them dead or half dead, and
clean it while a key is read or set again; with a bucket of one slot the second
key is in the chain, and with queues of one entry a scan rests in a segment while
others free it and use it again.  A scan that meets an item being filled needs more
requests: only the theorems cover it.  In `server` two of the scripts exceed the six
cells the lengths count, requests arrive in any pieces, answers block, and the client may
leave at any point.  In `bench` one thread loads two keys and the other one, and the
last key goes to the chain.  States are finite without a bound in `SpscRing`, `FifoList`,
`Migration` and `ParallelCopy`.

**Fairness.**  The ring's consumer polls, and neither side stops inside an
operation.  The policy and fault threads are pinned to cores of their own and run
forever: weak fairness.  `handle_wp_fault` reads `migrating` in a tight loop, so it
does not miss the times at which the page rests between two migrations forever:
strong fairness of `SpinMigrating`.  Nothing is assumed of application or scan
threads except that a call, once begun, goes on.  The workers and the maintenance
thread of the store, the event loops of the servers, and the threads of the
benchmark and its `main`, which spin, run forever: weak fairness of each.  `EveryAnswered`
needs clients that read what they are sent, and FlexTCP delivering what arrives;
it needs no client to send more.

**Deadlock** is checked except in `kvs`, `server` and `bench`, where requests and scripts
are used up; a process stopped by an assertion stutters through `Stopped` or `Stops`.

**Disagreements between the code and its own assertions and comments.**

- *remap_over_live.*  An unmapped page keeps its address and its place on a list
  until the next drain.  Demoted in that time, it is mapped with `MAP_FIXED` at
  its old address, over the page a new mmap has put there.
- *kvs_close.*  `item_unref` demands a reference.  `conn_req_process` drops the one
  it took and leaves `c->it` set; `conn_close` drops it again.  The first close
  after a GET or SET frees an item that is still listed, the second fails the
  assertion.
- *removal_race.*  `lru_remove_page` waits for kscand "to avoid race conditions" and
  only then takes the lock, which kscand never takes.  A scan that begins in between
  dequeues the page, before or after its list has been read.

`AssertionsHold`, `TrackedPageIsMapped`, `NoSharedFrame`, `ListsMatchFlags` and
`RemapOnlyTracked` of the PEBS policy hold for calls made while the policy thread sleeps,
which the code does not ensure; `policy_phased` checks them so and says nothing of the
hazards that need an overlap.  With calls at any time the code has four ways to fail an
assertion: a munmap between the drains of the free ring and of the request rings
(`pebs.c:552`); a page published before its fields are cleared (`pebs.c:866`); all NVM
frames in use when a cold page has to move down (`pebs.c:682`, without overlap too); a
page put back nowhere after two tries, when a mmap takes the DRAM page the first one made
free (`pebs.c:617`), which `LostOnlyAfterTwoTries` shows to be the only way to lose one.
`CursorsOnHotLists` needs no such restriction, and is proved without.

What `tiering` says ends with the first removal that meets a page kscand has moved.  It
has one application thread: with two, `OomIsFull` fails, because the unlocked counter of
the simple policy loses an update.

## 4. Proofs

The theorems hold for all values of the constants that satisfy the `ASSUME` of the
component's module and the hypotheses named here.  None of the invariants below is
inductive as it stands; each module defines `IndInv` (or several invariants, proved
one after the other), proves that a step keeps it action by action, and derives the
rest.  The runs check a small instance of each property.

| Module | Theorems | Hypotheses |
|---|---|---|
| `SpscRingProofs` | `TypeCorrect`, `StableGet`, `NothingLost`, `Refinement` of `BoundedFifo` | fewer pages than slots, `Concurrent` |
| `StructureProofs` | `AlwaysWellLinked`, `Refinement` of `PageLists` | none: finitely many pages, any lists |
| | `CopiesComplete` | finitely many copy threads, at least one; any callers |
| `MigrationProofs` | `TypeCorrect`, `NoWriteLost`, `ExactCopy`, `ProtectionEnds`, `SuspendedIsKnown`, `MessageFindsPage` | none: any pages, words, frames and writers |
| `PebsPolicyProofs` | `TypeCorrect`, `PageHasOneOwner`, `PageHasOneRequest` | none: any overlap of calls and passes |
| `PebsPagesProofs` | `CursorsStay`, `NothingElseLost`, `FramesApart` | none: any overlap of calls and passes |
| `KvsStoreProofs` | `Invariance`, `CountsAreExact`, `SegmentsAreAccounted`, `Refinement` of `KvMap` | none: any workers, keys, segments, sizes and queues |
| `KvsBenchProofs` | `BenchInvariance`, `BenchCountsAreExact`, `KeysLoaded` | none: any threads, keys (also equal ones), probabilities |
| | `LoadedWhenDistinct` | `DistinctKeys` |

**SpscRingProofs.**  `IndInv` adds what each program
counter knows of the shared indexes (`PutInv`, `GetInv`), that the occupied
slots hold different pages, none of them the one being put (`UniqueInv`), and
where each claimed page is (`ClaimInv`).  The argument turns on `RoomToPut`: the
entries of the ring are an injection into the pages other than the one being
put, so there are fewer than `Capacity - 1` of them and `advance_pointer` never
sees a full ring, whatever value of the tail it reads.  Hence only the consumer
moves the tail, which is why the loads of a get stay valid.

**StructureProofs, page lists.**  `WellLinked` speaks of the pages a walk meets; off the walk,
`next` and `prev` could form a cycle that a later removal joins to it.  So `IndInv`
says that there is a sequence of pages per list which the pointers represent, and
each operation is shown to change it as `PageLists` does.  That the walk returns this
sequence is an induction over its length.  `ListLemmas` provides that induction, and
that recursive functions have values, in terms of sets and functions, since the
library states them with operators, which the provers cannot instantiate.

**StructureProofs, parallel memcpy.**  `LockInv`: one caller is between lock and unlock.
`PhaseInv`: a copy thread has left the first barrier exactly while that caller waits at
the second, so the barrier cannot mix its two uses.  `JobInv` follows: the job a thread
has read is that of the caller, and what it has written is what was asked for.

**MigrationProofs.**  `MigInv` and `KernelInv` say which combinations of `migrating`,
protection and registration exist at each step of a migration; `MapInv` and `FrameInv`
that the frames of the pages and of the migration differ; `CopyInv` that the words
copied so far equal the old ones, which no one can store to, as the range is protected
from before the first word until the page is remapped; `FaultInv` that a suspended
writer has its message in the queue or in the hands of the fault thread.

**PebsPolicyProofs.**  `OneOwner` (a page is on at most one list or in the hands of one
thread) and `OneRequest` (it is on a request ring only with `ring_present`, once) depend
on the life of a page: `LifeInv` divides the pages into those in the table, those being
allocated, those handed back, and the free ones, and `DoomedInv` says of a page being
unmapped that no other call has it and that it is handed back once.  All of it holds
with calls at any time, by any number of application threads.

**PebsPagesProofs.**  What holds of the pages whatever overlaps with what.  From
`IndInv` of `PebsPolicyProofs`:

- `CursorsStay`: a cooling cursor leaves a page no later than the page leaves its hot
  list, by a request, a free, a migration or a cooling step.
- `NothingElseLost`: every step is shown to move pages between lists and hands
  (`TakenOff`, `PutOn`, `Swaps`) or to leave them (`Idles`), so a page in a place stays in
  one (`Stays`), with a single exception, `LastTry`, where only the page in hand is lost.
- `FramesApart`: migrations exchange the frames of two structures (`Swaps`), and no other
  step changes one (`SameFrames`), so no two structures name the same frame.

What needs calls and passes not to overlap is not proved: it is no property of the code.

**KvsStoreProofs.**  The reference counts alone are not inductive: that an item may be
freed, relocated or overwritten depends on who else has it, on where its segment is and
on what is left of its bytes.  `IndInv` has these parts:

- `PlacesInv`: a segment is in one log, in one reserve, on the free list or unused.
- `ItemsInv`: the items of a log segment are below its offset, elsewhere all are dead; an
  item that is alive has a key and its size.
- `BytesInv`: offset less freed bytes is the sum of the sizes of the items alive.
- `TableInv`: slots and chain together have at most one item of a key.
- `CountInv`: the count of an item is 1 if it is in the table, plus the number `Held` of
  threads and queue entries that have it; what they have exists.
- `AllocatorsInv`, `WorkerInv`, `ScanInv`: logs and reserves of different workers are
  disjoint; what a worker has at each step, and that a copy has the key and the value of
  its item.

The first five are a predicate `HeapInv(hp, L, V, r)` of a heap, the segments in
logs and in reserve, and the number of references to each item.  Most steps change
the heap several times (close a segment, open another, place an item; count, replace, drop),
so each operation of `ialloc.c`, `hashtable.c` and `iokvs.h` has a lemma from one
`HeapInv` to another, and each action combines them.  The same lemmas say that every item
somebody refers to keeps its key and value (`KeepsItems`), and which of them the table has
afterwards (`SameTable`, `Replaces`).  From these the refinement follows: only `SetPuts`
changes what a lookup returns, while the copy `CleanReplaces` puts in place of an item has
its value.  A dead item reaches no reader, since whoever has an item is
counted, and a segment that is freed has no item with a count.  The scan of the log
depends on no segment being the same as before: `ScanInv` asks nothing of the place it has
reached, and a reference it takes is to an item that is alive now.  The sum in `BytesInv`
is the community modules' fold over a set, in the order of `CHOOSE`; that it does not
depend on the order is proved by building its function up to every size (`SumsExist`).

**KvsBenchProofs.**  The lemmas of `KvsStoreProofs` about `HeapInv` speak of any threads
that have items, so they serve the benchmark too: `Grips` reads the second reference of
a thread, that of the assertion, as the second item a worker of the store can have.
`BenchInv` adds

- `ReferencesInv`: `HeapInv` with the references of the threads.  It is claimed while the
  assertion holds: when it fails, the reference it took to another item is nobody's, and
  all that is left is that some numbers of references fit.
- `ThreadInv`: a thread's item has the thread's key; the thread loads the keys with the
  indices `Own(w)`, and all of those below `LoadedTo` are in the table.  No step removes
  a key, as only an insertion replaces an item, by one of the same key.
- `LoadInv`: `init_count` is the number of threads that have loaded, and `main` passes
  `RUNNING` only when it is that of all threads.  Every index is in one `Own(w)`
  (`OwnedByOne`), so all keys are found.

That the assertion holds needs more: between the insertion and the look-up nobody else
inserts that key.  Threads that load have different indices, and threads past `RUNNING`
insert nothing while one still loads, so it follows from `DistinctKeys`.  This is a
hypothesis and not an assumption on the constants, since `generate_keys` does not ensure
it (`workload.c:123`: "TODO: Fix duplicates").  `DrawsKey` proves that the binary search
of `draw_key` ends with a key, by building the recursive function for intervals of
every length.

**Model-checked only.**  Liveness everywhere, which is out of the prover's reach.
`FindsTracked` of `UtHash`, whose chains are built by folds over the data.  The two
policies of `MCTiering` and the servers.  That `claimed` of `SpscRing` and `FifoList`'s atomic operations are what
`PebsPolicy` assumes of them is argued in section 2, not proved: the two levels are
separate modules.

## 5. Not modelled

- Allocation hints: the three globals of `interpose.c` and the hinted allocator at
  `pebs.c:747`.  The hook turns tier 0, which selects it, into -1.
- Access counters and the clock of the PEBS policy as numbers (one flag, `warm`,
  stands for them), hence the liveness of promotion.
- Ranges of several pages, holes in them, several application threads inside
  `mmap` at once, and two threads that unmap one range (`hemem.c:580`).
- Missing-page faults: every range is populated before `mmap` returns.
- `policies/hemem-mmgr.c`: the Makefile does not build it, and it uses a field
  `management` that `struct hemem_page` does not have.
- `policies/paging.c`: page-table formats read through `/dev/mem`.
- `main-flexnic.c`, option parsing, statistics, timers, GUPS, scripts.
- In the store: what follows when the scan of the log reads bytes inside a value as an
  item, or the cleaner copies an item before it is filled (section 2); more than one bucket, the unlock of a lock not held when segments run
  out (`ialloc.c:131`), DELETE (`SocketServer` has its effect on references); the SET of
  `main.c:415-419`, which overwrites the item it finds in place, also with a value of
  another length (`SocketServer` has its references only).
- In the servers: what a connection is answered once the lengths of `main.c` have wrapped;
  the other connections are followed.  `main-ll.c` and `main-ll2.c` call `hasht_init()`
  without its argument; the modules take the table as initialised.
- In the benchmark: `skip_load`, duplicate keys, and readers that see half of a
  value being overwritten in place.

## 6. Plan

Theorems to prove next: the invariants of `MCTiering`, whose policies are small beside
that of `pebs.c`, and `BuffersIntact` of the servers.  Then the access counters, refining
`warm`, and the hints.
