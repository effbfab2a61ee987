----------------------------- MODULE MCTiering -----------------------------
(***************************************************************************)
(* The builds of libhemem with a policy of src/policies, for TLC: exactly  *)
(* one of them is loaded into a process.                                   *)
(***************************************************************************)
EXTENDS LruPolicy, TLC

VARIABLES build, slowmem

L == INSTANCE LruPolicy
S == INSTANCE SimplePolicy

MCvars == <<vars, build, slowmem>>

MCInit ==
  \/ build = "lru" /\ L!Init /\ slowmem = 0
  \/ /\ build = "simple" /\ S!Init
     /\ swap = FALSE /\ overlap = FALSE /\ global_lock = NULL /\ in_kscand = FALSE
     /\ kscand = IdleKscand /\ kswapd = IdleKswapd

MCNext ==
  /\ UNCHANGED build
  /\ \/ build = "lru" /\ L!Next /\ UNCHANGED slowmem
     \/ build = "simple" /\ S!Next /\ UNCHANGED <<swap, overlap, threads>>

\* The process has stopped, or its calls are used up.
Stops ==
  /\ failed # "none" \/ (calls = MaxCalls /\ \A a \in Apps : app[a].pc = "idle")
  /\ UNCHANGED MCvars

MCSpec == MCInit /\ [][MCNext \/ Stops]_MCvars

Symmetry == Permutations(Vas)

-----------------------------------------------------------------------------
\* The page structures a thread has in its hands.
Held == {kscand.page, kswapd.p, kswapd.np, kswapd.cp}
        \cup {app[a].page : a \in {b \in Apps : app[b].pc # "idle"}}

\* An allocation of lru_swap that has found both tiers full once: with the lock
\* held nothing is freed before its second try, and the process aborts.
OutOfMemory ==
  \E a \in Apps : /\ app[a].tries > 0 /\ app[a].pc \in {"retry", "shrink", "dequeue", "put", "victim"}
                 /\ \A t \in Tiers : lists[<<t, "free">>] = << >>

\* While the process runs, no page structure is ever lost: each is on a list
\* of its policy, in the hands of a thread or, in simple.c, which lists only
\* free pages, present; and the lists of a tier hold that tier's frames only.
\* kscand sorts pages without the lock that kswapd, lru_allocate_page and
\* lru_remove_page hold while they take pages off the same lists.  Nothing is
\* said once a removal has met a page that kscand had moved (RemovalFindsPage).
NoPageLost ==
  failed = "none" /\ ~OutOfMemory =>
    /\ \A p \in Pages : Listed(p) \/ p \in Held \/ (build = "simple" /\ page[p].present)
    /\ \A p \in Pages, l \in DOMAIN lists : p \in ToSet(lists[l]) => Tier(p) = l[1]

\* lru_allocate_page and simple_pagefault give up only when every page is
\* allocated: no sequence of one thread's calls, and for lru no sequence of
\* migrations and scans between them, strands free memory or spoils the counter
\* simple_pagefault tests.  Nothing is said after a removal that has met a page
\* kscand had moved.
OomIsFull ==
  failed = "out of memory" => \A p \in Pages : page[p].present

\* Of the calls that HeMem makes itself no mmap is served by HeMem, although
\* hemem_migrate_down, called by the allocation of lru_swap, clears the flag
\* that protects the calls its caller still has to make; and a munmap only where
\* such an allocation has demoted a page and its insertion into the table of
\* pages frees the old buckets (the thread then waits for itself).
RecursionOnlyAfterDemotion ==
  /\ failed # "recursive mmap"
  /\ failed = "recursive munmap" =>
       /\ build = "lru" /\ swap
       /\ \E a \in Apps : app[a].pc = "track" /\ app[a].tries > 0

\* When calls do not overlap the passes of kswapd, no two tracked addresses
\* ever map one frame, and each maps the frame its page structure names: the
\* swap of offsets between the page that moves and the one that gives its
\* frame leaves no frame with two owners.  Scans overlap calls; nothing is said
\* after a removal that has met a page kscand had moved.
NoSharedFrame ==
  ~overlap =>
    \A v, w \in Vas : (pages[v] # NULL /\ pages[w] # NULL) =>
      /\ v # w => vm[v] # vm[w]
      /\ vm[v] = page[pages[v]].frame

\* A removal that overlaps no pass of kswapd finds its page on the list it is
\* taken off: lru_remove_page waits for the scan to end, "to avoid race
\* conditions with kscand thread".
RemovalFindsPage ==
  ~overlap => failed \notin {"remove_page: list != NULL", "page_list_remove_page: not on the list"}
=============================================================================
