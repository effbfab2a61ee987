------------------------------ MODULE TwoTier ------------------------------
(***************************************************************************)
(* What every build of HeMem shares, whatever policy is linked in: the     *)
(* filter that decides which calls of mmap and munmap HeMem serves         *)
(* (src/interpose.c), the path of such a call through src/hemem.c, and the *)
(* page structures and fifo lists the policies keep.                       *)
(*                                                                         *)
(* A call maps or unmaps one page.  A policy supplies the actions of an    *)
(* application thread whose pc is "pagefault" (it ends with Allocated) and *)
(* "mmgr_remove" (it ends with Removed).  A failed assert() or a null      *)
(* dereference stops the process; failed names it.                         *)
(***************************************************************************)
EXTENDS Integers, Sequences, FiniteSets, SequencesExt

CONSTANTS
  DramFrames,   \* devdax offsets of the DRAM file
  NvmFrames,    \* devdax offsets of the NVM file
  Vas,          \* virtual addresses of pages
  Apps,         \* application threads
  NULL,
  MaxCalls      \* bound: calls of mmap and munmap in a behaviour

Pages == DramFrames \cup NvmFrames

ASSUME TwoTierAssumption ==
  /\ DramFrames \cap NvmFrames = {} /\ IsFiniteSet(Pages)
  /\ NULL \notin Pages \cup Vas
  /\ MaxCalls \in Nat

VARIABLES
  page,    \* the page structures, named by the frame each was created for
  lists,   \* the lists of the policy, by tier and kind; enqueue_fifo puts
           \* first, dequeue_fifo takes the last
  pages,   \* the hash table of tracked pages, by address
  vm,      \* the frame mapped at each address
  is_init, \* hemem_init has set up the policy
  app,     \* place and locals of each application thread
  calls,   \* calls so far, bounded by MaxCalls
  failed   \* what stopped the process, or "none"

memory == <<page, lists, pages, vm>>
callers == <<is_init, app, calls>>
shared == <<memory, callers, failed>>

Tiers == {"dram", "nvm"}
InDram(p) == page[p].frame \in DramFrames
Tier(p) == IF InDram(p) THEN "dram" ELSE "nvm"
Taken(l) == IF lists[l] = << >> THEN NULL ELSE Last(lists[l])
Listed(p) == \E l \in DOMAIN lists : p \in ToSet(lists[l])

Abort(name) == failed' = name /\ UNCHANGED <<memory, callers>>

-----------------------------------------------------------------------------
(* The filters of interpose.c.                                             *)

\* What a request of mmap carries: the kind of its file descriptor, whether
\* it is anonymous, executable or a stack, and whether it is 1 GB or more.
Request(fd, anon, exec, stack, big) ==
  [fd |-> fd, anon |-> anon, exec |-> exec, stack |-> stack, big |-> big]

\* The requests of an application, and those HeMem makes itself: a devdax
\* mapping, and the one malloc makes for the hash table.
AppRequests ==
  {Request("none", TRUE, FALSE, FALSE, TRUE), Request("none", TRUE, FALSE, FALSE, FALSE),
   Request("file", FALSE, FALSE, FALSE, TRUE), Request("file", FALSE, TRUE, FALSE, TRUE),
   Request("none", TRUE, FALSE, TRUE, TRUE), Request("none", TRUE, TRUE, FALSE, TRUE)}
DevdaxRequest == Request("devdax", FALSE, FALSE, FALSE, FALSE)
MallocRequest == Request("none", TRUE, FALSE, FALSE, FALSE)

\* Mutant: the size is not looked at, as in a build with LLAMA defined.
mmap_filter_llama(r, internal_call) ==
  IF \/ ~is_init \/ internal_call
     \/ ~r.anon /\ r.fd # "devdax"
     \/ r.exec \/ r.stack
     \/ r.fd = "devdax"
  THEN "libc" ELSE "hemem"

\* mmap_filter: the early returns of a call that is not a hint.
mmap_filter(r, internal_call) ==
  IF \/ ~is_init \/ internal_call
     \/ ~r.anon /\ r.fd # "devdax"
     \/ r.exec \/ r.stack
     \/ r.fd = "devdax"
     \/ ~r.big
  THEN "libc" ELSE "hemem"

\* munmap_filter: only internal_call is looked at.
munmap_filter(internal_call) == IF internal_call THEN "libc" ELSE "hemem"

-----------------------------------------------------------------------------
(* The life of the process.                                                *)

IdleApp ==
  [pc |-> "idle", va |-> NULL, page |-> NULL, offset |-> NULL, list |-> NULL,
   internal_call |-> FALSE, tries |-> 0, n |-> 0]

\* The lists a policy starts with: the free ones hold every page.
FreshLists(names) ==
  [l \in names |->
     IF l = <<"dram", "free">> THEN SetToSeq(DramFrames)
     ELSE IF l = <<"nvm", "free">> THEN SetToSeq(NvmFrames) ELSE << >>]

InitShared(names) ==
  /\ page = [p \in Pages |-> [frame |-> p, va |-> NULL, present |-> FALSE]]
  /\ lists = FreshLists(names)
  /\ pages = [v \in Vas |-> NULL]
  /\ vm = [v \in Vas |-> NULL]
  /\ is_init = FALSE
  /\ app = [a \in Apps |-> IdleApp]
  /\ calls = 0
  /\ failed = "none"

\* hemem_init: until its last lines the filter passes every mmap to libc.
hemem_init ==
  /\ ~is_init
  /\ is_init' = TRUE
  /\ UNCHANGED <<memory, app, calls, failed>>

\* hemem_mmap: the reservation, which maps some frame of the DRAM file at the
\* address whoever has it, and the first page fault.  A request that is left to
\* libc maps memory HeMem does not know of.
hemem_mmap(a) ==
  /\ app[a].pc = "idle" /\ calls < MaxCalls
  /\ \E v \in Vas, r \in AppRequests :
       /\ vm[v] = NULL /\ \A b \in Apps : app[b].va # v
       /\ mmap_filter(r, app[a].internal_call) = "hemem"
       /\ \E f \in DramFrames : vm' = [vm EXCEPT ![v] = f]
       /\ app' = [app EXCEPT ![a] = [IdleApp EXCEPT !.pc = "pagefault", !.va = v,
                                       !.internal_call = TRUE]]
  /\ calls' = calls + 1
  /\ UNCHANGED <<page, lists, pages, is_init, failed>>

\* What a policy's pagefault leaves to the caller.
Allocated(a, p) ==
  app' = [app EXCEPT ![a].pc = "offset", ![a].page = p]

\* hemem_mmap_populate, after pagefault: the offset is read ...
PopulateReads(a) ==
  /\ app[a].pc = "offset"
  /\ app' = [app EXCEPT ![a].pc = "map", ![a].offset = page[app[a].page].frame]
  /\ UNCHANGED <<memory, is_init, calls, failed>>

\* ... mapped, by a call the filter must leave to libc ...
PopulateMaps(a) ==
  /\ app[a].pc = "map"
  /\ IF mmap_filter(DevdaxRequest, app[a].internal_call) = "hemem"
     THEN Abort("recursive mmap")
     ELSE /\ vm' = [vm EXCEPT ![app[a].va] = app[a].offset]
          /\ app' = [app EXCEPT ![a].pc = "track"]
          /\ UNCHANGED <<page, lists, pages, is_init, calls, failed>>

\* ... and the page is tracked.  The hash table may call malloc, and free when
\* its buckets double: a munmap that HeMem serves waits for pages_lock, which
\* its own thread holds.
PopulateTracks(a) ==
  LET v == app[a].va IN
  /\ app[a].pc = "track"
  /\ IF pages[v] # NULL THEN Abort("add_page: p == NULL")
     ELSE IF mmap_filter(MallocRequest, app[a].internal_call) = "hemem"
          THEN Abort("recursive mmap")
          ELSE \/ /\ munmap_filter(app[a].internal_call) = "hemem"
                  /\ Abort("recursive munmap")
               \/ /\ page' = [page EXCEPT ![app[a].page].va = v]
                  /\ pages' = [pages EXCEPT ![v] = app[a].page]
                  /\ app' = [app EXCEPT ![a] = IdleApp]
                  /\ UNCHANGED <<lists, vm, is_init, calls, failed>>

\* hemem_munmap finds the page; one thread at a time unmaps an address ...
hemem_munmap(a) ==
  /\ app[a].pc = "idle" /\ calls < MaxCalls
  /\ munmap_filter(app[a].internal_call) = "hemem"
  /\ \E v \in Vas :
       /\ pages[v] # NULL /\ \A b \in Apps : app[b].va # v
       /\ app' = [app EXCEPT ![a] = [IdleApp EXCEPT !.pc = "remove_page", !.va = v,
                                       !.page = pages[v], !.internal_call = TRUE]]
  /\ calls' = calls + 1
  /\ UNCHANGED <<memory, is_init, failed>>

\* ... which leaves the table before the policy hears of it ...
remove_page(a) ==
  /\ app[a].pc = "remove_page"
  /\ pages' = [pages EXCEPT ![app[a].va] = NULL]
  /\ app' = [app EXCEPT ![a].pc = "mmgr_remove"]
  /\ UNCHANGED <<page, lists, vm, is_init, calls, failed>>

\* What a policy's remove leaves to the caller.
Removed(a) == app' = [app EXCEPT ![a].pc = "unmap"]

\* ... and the address is unmapped at the end.
Unmap(a) ==
  /\ app[a].pc = "unmap"
  /\ IF munmap_filter(app[a].internal_call) = "hemem"
     THEN Abort("recursive munmap")
     ELSE /\ vm' = [vm EXCEPT ![app[a].va] = NULL]
          /\ app' = [app EXCEPT ![a] = IdleApp]
          /\ UNCHANGED <<page, lists, pages, is_init, calls, failed>>

Caller(a) ==
  \/ hemem_mmap(a) \/ hemem_munmap(a) \/ remove_page(a)
  \/ PopulateReads(a) \/ PopulateMaps(a) \/ PopulateTracks(a) \/ Unmap(a)
=============================================================================
