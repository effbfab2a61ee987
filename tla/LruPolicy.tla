----------------------------- MODULE LruPolicy -----------------------------
(***************************************************************************)
(* src/policies/lru.c, in its two builds: lru falls back on NVM when DRAM  *)
(* is full, lru_swap demotes a page and allocates in DRAM.                 *)
(*                                                                         *)
(* kscand sorts the pages by their accessed and dirty bits without taking  *)
(* the global lock; kswapd, the allocation and the removal of a page hold  *)
(* it.  What the bits of a page are is the application's choice each time  *)
(* they are read, and so is whether naccesses has reached 4.               *)
(***************************************************************************)
EXTENDS TwoTier

CONSTANT MigrateRate  \* KSWAPD_MIGRATE_RATE, in pages

ASSUME MigrateRateAssumption == MigrateRate \in Nat \ {0}

VARIABLES
  swap,        \* LRU_SWAP
  overlap,     \* whether calls may overlap a pass of kswapd
  global_lock, \* its owner, or NULL
  in_kscand,
  kscand,      \* place and locals of the scanning thread
  kswapd       \* place and locals of the migrating thread

threads == <<global_lock, in_kscand, kscand, kswapd>>
vars == <<shared, swap, overlap, threads>>

Kinds == {"active", "inactive", "written", "free"}

IdleKscand == [pc |-> "sleep", i |-> 1, n |-> 0, page |-> NULL]

IdleKswapd == [pc |-> "sleep", p |-> NULL, np |-> NULL, cp |-> NULL, tries |-> 0, n |-> 0,
               old |-> NULL, from |-> "written"]

\* lru_init
Init ==
  /\ InitShared(Tiers \X Kinds)
  /\ swap \in BOOLEAN /\ overlap \in BOOLEAN
  /\ global_lock = NULL
  /\ in_kscand = FALSE
  /\ kscand = IdleKscand
  /\ kswapd = IdleKswapd

-----------------------------------------------------------------------------
(* kscand                                                                  *)

\* The lists in the order they are scanned: check_writes, shrink_caches and
\* expand_caches, each for DRAM and then for NVM.
Scans == << <<"dram", "written">>, <<"nvm", "written">>, <<"dram", "active">>,
            <<"nvm", "active">>, <<"dram", "inactive">>, <<"nvm", "inactive">> >>

\* The lists a page taken from l may go to: dirty, accessed, untouched.
SortedTo(l) ==
  {<<l[1], "written">>, <<l[1], "active">>, <<l[1], "inactive">>}

\* usleep ends: the flag that lru_remove_page looks at is set.
KscandWakes ==
  /\ is_init /\ kscand.pc = "sleep"
  /\ kscand' = [kscand EXCEPT !.pc = "list", !.i = 1]
  /\ in_kscand' = TRUE
  /\ UNCHANGED <<shared, swap, overlap, global_lock, kswapd>>

\* The number of pages to look at is read when the scan of a list begins.
ScanList ==
  /\ kscand.pc = "list" /\ kscand.i <= Len(Scans)
  /\ kscand' = [kscand EXCEPT !.pc = "take", !.n = Len(lists[Scans[kscand.i]])]
  /\ UNCHANGED <<shared, swap, overlap, global_lock, in_kscand, kswapd>>

\* All lists done: the bits are cleared and the flag too.
KscandSleeps ==
  /\ kscand.pc = "list" /\ kscand.i > Len(Scans)
  /\ kscand' = [kscand EXCEPT !.pc = "sleep", !.i = 1]
  /\ in_kscand' = FALSE
  /\ UNCHANGED <<shared, swap, overlap, global_lock, kswapd>>

\* check_writes and expand_caches stop at a list that turns out empty ...
ScanTake ==
  LET l == Scans[kscand.i] IN
  /\ kscand.pc = "take" /\ l[2] # "active"
  /\ IF kscand.n = 0 \/ lists[l] = << >>
     THEN /\ kscand' = [kscand EXCEPT !.pc = "list", !.i = @ + 1]
          /\ UNCHANGED lists
     ELSE /\ kscand' = [kscand EXCEPT !.pc = "put", !.page = Last(lists[l]), !.n = @ - 1]
          /\ lists' = [lists EXCEPT ![l] = Front(@)]
  /\ UNCHANGED <<page, pages, vm, callers, failed, swap, overlap, global_lock, in_kscand,
                 kswapd>>

\* ... shrink_caches looks at numentries first ...
ShrinkCheck ==
  LET l == Scans[kscand.i] IN
  /\ kscand.pc = "take" /\ l[2] = "active"
  /\ kscand' = IF kscand.n = 0 \/ lists[l] = << >>
               THEN [kscand EXCEPT !.pc = "list", !.i = @ + 1]
               ELSE [kscand EXCEPT !.pc = "dequeue", !.n = @ - 1]
  /\ UNCHANGED <<shared, swap, overlap, global_lock, in_kscand, kswapd>>

\* ... and then uses what dequeue_fifo returns, which may be NULL.
ShrinkTake ==
  LET l == Scans[kscand.i] IN
  /\ kscand.pc = "dequeue"
  /\ IF lists[l] = << >>
     THEN Abort("shrink_caches: page is NULL") /\ UNCHANGED kscand
     ELSE /\ kscand' = [kscand EXCEPT !.pc = "put", !.page = Last(lists[l])]
          /\ lists' = [lists EXCEPT ![l] = Front(@)]
          /\ UNCHANGED <<page, pages, vm, callers, failed>>
  /\ UNCHANGED <<swap, overlap, global_lock, in_kscand, kswapd>>

ScanPut ==
  /\ kscand.pc = "put"
  /\ \E l \in SortedTo(Scans[kscand.i]) :
       lists' = [lists EXCEPT ![l] = <<kscand.page>> \o @]
  /\ kscand' = [kscand EXCEPT !.pc = "take", !.page = NULL]
  /\ UNCHANGED <<page, pages, vm, callers, failed, swap, overlap, global_lock, in_kscand,
                 kswapd>>

Kscand ==
  KscandWakes \/ ScanList \/ KscandSleeps \/ ScanTake \/ ShrinkCheck \/ ShrinkTake \/ ScanPut

-----------------------------------------------------------------------------
(* kswapd                                                                  *)

\* lru_migrate_up and lru_migrate_down: the page moves to frame f.
Migrates(p, f) ==
  /\ vm' = [vm EXCEPT ![page[p].va] = f]
  /\ page' = [page EXCEPT ![p].frame = f]

KswapdWakes ==
  /\ is_init /\ kswapd.pc = "sleep" /\ global_lock = NULL
  /\ overlap \/ \A a \in Apps : app[a].pc = "idle"
  /\ global_lock' = "kswapd"
  /\ kswapd' = [IdleKswapd EXCEPT !.pc = "pick"]
  /\ UNCHANGED <<shared, swap, overlap, in_kscand, kscand>>

\* A page of nvm_written_list, else one of nvm_active_list, else out.
KswapdPicks ==
  LET l == <<"nvm", kswapd.from>>
      Quits == kswapd' = [kswapd EXCEPT !.pc = "out"] IN
  /\ kswapd.pc = "pick"
  /\ \/ /\ kswapd.n >= MigrateRate /\ Quits /\ UNCHANGED lists
     \/ /\ kswapd.n < MigrateRate /\ lists[l] = << >>
        /\ IF kswapd.from = "written" THEN kswapd' = [kswapd EXCEPT !.from = "active"]
           ELSE Quits
        /\ UNCHANGED lists
     \/ /\ kswapd.n < MigrateRate /\ lists[l] # << >>
        /\ kswapd' = [kswapd EXCEPT !.pc = "try", !.p = Last(lists[l]), !.tries = 0]
        /\ lists' = [lists EXCEPT ![l] = Front(@)]
  /\ UNCHANGED <<page, pages, vm, callers, failed, swap, overlap, global_lock, in_kscand,
                 kscand>>

\* Mutant: the page is not put back when there is no victim.
KswapdTriesForgets ==
  LET free == <<"dram", "free">>
      cold == <<"dram", "inactive">> IN
  /\ kswapd.pc = "try"
  /\ \/ /\ lists[free] # << >>
        /\ kswapd' = [kswapd EXCEPT !.pc = "up", !.np = Last(lists[free])]
        /\ lists' = [lists EXCEPT ![free] = Front(@)]
     \/ /\ lists[free] = << >> /\ lists[cold] # << >>
        /\ kswapd' = [kswapd EXCEPT !.pc = "frame", !.cp = Last(lists[cold])]
        /\ lists' = [lists EXCEPT ![cold] = Front(@)]
     \/ /\ lists[free] = << >> /\ lists[cold] = << >>
        /\ kswapd' = [kswapd EXCEPT !.pc = "out", !.p = NULL]
        /\ UNCHANGED lists
  /\ UNCHANGED <<page, pages, vm, callers, failed, swap, overlap, global_lock, in_kscand,
                 kscand>>

\* A free DRAM page, else a victim, else the page goes back and the pass ends.
KswapdTries ==
  LET free == <<"dram", "free">>
      cold == <<"dram", "inactive">> IN
  /\ kswapd.pc = "try"
  /\ \/ /\ lists[free] # << >>
        /\ kswapd' = [kswapd EXCEPT !.pc = "up", !.np = Last(lists[free])]
        /\ lists' = [lists EXCEPT ![free] = Front(@)]
     \/ /\ lists[free] = << >> /\ lists[cold] # << >>
        /\ kswapd' = [kswapd EXCEPT !.pc = "frame", !.cp = Last(lists[cold])]
        /\ lists' = [lists EXCEPT ![cold] = Front(@)]
     \/ /\ lists[free] = << >> /\ lists[cold] = << >>
        /\ kswapd' = [kswapd EXCEPT !.pc = "out", !.p = NULL]
        /\ lists' = [lists EXCEPT ![<<"nvm", kswapd.from>>] = <<kswapd.p>> \o @]
  /\ UNCHANGED <<page, pages, vm, callers, failed, swap, overlap, global_lock, in_kscand,
                 kscand>>

\* The victim needs a free NVM page.
KswapdFindsFrame ==
  LET l == <<"nvm", "free">> IN
  /\ kswapd.pc = "frame"
  /\ IF lists[l] = << >>
     THEN Abort("kswapd: np != NULL") /\ UNCHANGED kswapd
     ELSE /\ kswapd' = [kswapd EXCEPT !.pc = "down", !.np = Last(lists[l])]
          /\ lists' = [lists EXCEPT ![l] = Front(@)]
          /\ UNCHANGED <<page, pages, vm, callers, failed>>
  /\ UNCHANGED <<swap, overlap, global_lock, in_kscand, kscand>>

\* One migration: the page that moves, and the structure whose frame it gets.
KswapdMigrates ==
  LET q == IF kswapd.pc = "up" THEN kswapd.p ELSE kswapd.cp
      np == kswapd.np IN
  /\ kswapd.pc \in {"up", "down"}
  /\ \/ page[np].present /\ Abort("kswapd: !np->present") /\ UNCHANGED kswapd
     \/ ~page[np].present /\ page[q].va = NULL /\ Abort("wp_page: addr != 0")
        /\ UNCHANGED kswapd
     \/ /\ ~page[np].present /\ page[q].va # NULL
        /\ Migrates(q, page[np].frame)
        /\ kswapd' = [kswapd EXCEPT !.pc = IF @ = "up" THEN "raised" ELSE "lowered",
                                    !.old = page[q].frame]
        /\ UNCHANGED <<lists, pages, callers, failed>>
  /\ UNCHANGED <<swap, overlap, global_lock, in_kscand, kscand>>

\* Mutant: np keeps the frame it gave away.
KswapdRaisedKeeps ==
  LET p == kswapd.p
      np == kswapd.np IN
  /\ kswapd.pc = "raised"
  /\ page' = [page EXCEPT ![np].present = FALSE]
  /\ lists' = [lists EXCEPT ![<<"dram", "active">>] = <<p>> \o @,
                            ![<<"nvm", "free">>] = <<np>> \o @]
  /\ kswapd' = [IdleKswapd EXCEPT !.pc = "pick", !.n = kswapd.n + 1]
  /\ UNCHANGED <<pages, vm, callers, failed, swap, overlap, global_lock, in_kscand, kscand>>

\* np gets the frame the page left, and both go on their lists.
KswapdRaised ==
  LET p == kswapd.p
      np == kswapd.np IN
  /\ kswapd.pc = "raised"
  /\ page' = [page EXCEPT ![np].frame = kswapd.old, ![np].present = FALSE]
  /\ lists' = [lists EXCEPT ![<<"dram", "active">>] = <<p>> \o @,
                            ![<<"nvm", "free">>] = <<np>> \o @]
  /\ kswapd' = [IdleKswapd EXCEPT !.pc = "pick", !.n = kswapd.n + 1]
  /\ UNCHANGED <<pages, vm, callers, failed, swap, overlap, global_lock, in_kscand, kscand>>

\* After a demotion the page is tried once more; after the second try the
\* loop leaves it.
KswapdLowered ==
  LET cp == kswapd.cp
      np == kswapd.np IN
  /\ kswapd.pc = "lowered"
  /\ page' = [page EXCEPT ![np].frame = kswapd.old, ![np].present = FALSE]
  /\ lists' = [lists EXCEPT ![<<"nvm", "inactive">>] = <<cp>> \o @,
                            ![<<"dram", "free">>] = <<np>> \o @]
  /\ kswapd' = IF kswapd.tries = 0
               THEN [kswapd EXCEPT !.pc = "try", !.tries = 1, !.cp = NULL, !.np = NULL]
               ELSE [IdleKswapd EXCEPT !.pc = "pick", !.n = kswapd.n]
  /\ UNCHANGED <<pages, vm, callers, failed, swap, overlap, global_lock, in_kscand, kscand>>

KswapdSleeps ==
  /\ kswapd.pc = "out"
  /\ global_lock' = NULL
  /\ kswapd' = IdleKswapd
  /\ UNCHANGED <<shared, swap, overlap, in_kscand, kscand>>

Kswapd ==
  \/ KswapdWakes \/ KswapdPicks \/ KswapdTries \/ KswapdFindsFrame \/ KswapdMigrates
  \/ KswapdRaised \/ KswapdLowered \/ KswapdSleeps

-----------------------------------------------------------------------------
(* Allocation and removal of a page by an application thread.              *)

rest == <<swap, overlap, in_kscand, kscand, kswapd>>

\* A free page is taken: present, and on the active list of its tier.
Takes(p) ==
  /\ page' = [page EXCEPT ![p].present = TRUE]
  /\ lists' = [lists EXCEPT ![<<Tier(p), "free">>] = Front(@),
                            ![<<Tier(p), "active">>] = <<p>> \o @]

\* lru_allocate_page of lru, with the lock held: nothing else touches the
\* free lists meanwhile.
AllocateLru(a) ==
  LET p == IF lists[<<"dram", "free">>] # << >> THEN Taken(<<"dram", "free">>)
           ELSE Taken(<<"nvm", "free">>) IN
  /\ ~swap /\ app[a].pc = "pagefault" /\ global_lock = NULL
  /\ IF p = NULL THEN Abort("out of memory")
     ELSE IF page[p].present THEN Abort("allocate: !present")
     ELSE /\ Takes(p) /\ Allocated(a, p)
          /\ UNCHANGED <<pages, vm, is_init, calls, failed>>
  /\ UNCHANGED <<rest, global_lock>>

\* lru_allocate_page of lru_swap: a free DRAM page, or room is made.
AllocateSwap(a) ==
  LET p == Taken(<<"dram", "free">>) IN
  /\ swap
  /\ \/ app[a].pc = "pagefault" /\ global_lock = NULL
     \/ app[a].pc = "retry"
  /\ \/ /\ p # NULL
        /\ IF page[p].present THEN Abort("allocate: !present") /\ UNCHANGED global_lock
           ELSE /\ Takes(p) /\ Allocated(a, p)
                /\ global_lock' = NULL
                /\ UNCHANGED <<pages, vm, is_init, calls, failed>>
     \/ /\ p = NULL /\ app[a].tries = 2 /\ Abort("out of memory") /\ UNCHANGED global_lock
     \/ /\ p = NULL /\ app[a].tries < 2
        /\ global_lock' = a
        /\ app' = [app EXCEPT ![a].pc = IF lists[<<"dram", "inactive">>] = << >>
                                        THEN "shrink" ELSE "victim",
                              ![a].n = Len(lists[<<"dram", "active">>])]
        /\ UNCHANGED <<memory, is_init, calls, failed>>
  /\ UNCHANGED rest

\* shrink_caches again, by the allocating thread.
AppShrinkCheck(a) ==
  /\ app[a].pc = "shrink"
  /\ app' = IF app[a].n = 0 \/ lists[<<"dram", "active">>] = << >>
            THEN [app EXCEPT ![a].pc = "victim"]
            ELSE [app EXCEPT ![a].pc = "dequeue", ![a].n = @ - 1]
  /\ UNCHANGED <<memory, is_init, calls, failed, rest, global_lock>>

AppShrinkMoves(a) ==
  LET l == <<"dram", "active">> IN
  /\ app[a].pc \in {"dequeue", "put"}
  /\ IF app[a].pc = "dequeue"
     THEN IF lists[l] = << >> THEN Abort("shrink_caches: page is NULL")
          ELSE /\ app' = [app EXCEPT ![a].pc = "put", ![a].page = Last(lists[l])]
               /\ lists' = [lists EXCEPT ![l] = Front(@)]
               /\ UNCHANGED <<page, pages, vm, is_init, calls, failed>>
     ELSE /\ \E m \in SortedTo(l) : lists' = [lists EXCEPT ![m] = <<app[a].page>> \o @]
          /\ app' = [app EXCEPT ![a].pc = "shrink", ![a].page = NULL]
          /\ UNCHANGED <<page, pages, vm, is_init, calls, failed>>
  /\ UNCHANGED <<rest, global_lock>>

\* The victim and its frame: the victim is used whether there is one or not.
\* hemem_migrate_down leaves internal_call false.
AppDemotes(a) ==
  LET cp == Taken(<<"dram", "inactive">>)
      np == Taken(<<"nvm", "free">>) IN
  /\ app[a].pc = "victim"
  /\ \/ /\ np = NULL
        /\ lists' = [lists EXCEPT ![<<"dram", "inactive">>] =
                       IF cp = NULL THEN @ ELSE Front(@)]
        /\ app' = [app EXCEPT ![a].pc = "retry", ![a].tries = @ + 1]
        /\ UNCHANGED <<page, pages, vm, is_init, calls, failed>>
     \/ np # NULL /\ cp = NULL /\ Abort("allocate: cp is NULL")
     \/ np # NULL /\ cp # NULL /\ page[cp].va = NULL /\ Abort("wp_page: addr != 0")
     \/ /\ np # NULL /\ cp # NULL /\ page[cp].va # NULL
        /\ vm' = [vm EXCEPT ![page[cp].va] = page[np].frame]
        /\ page' = [page EXCEPT ![cp].frame = page[np].frame, ![np].frame = page[cp].frame,
                                ![np].present = FALSE]
        /\ lists' = [lists EXCEPT ![<<"dram", "inactive">>] = Front(@),
                                  ![<<"nvm", "free">>] = Front(@),
                                  ![<<"nvm", "inactive">>] = <<cp>> \o @,
                                  ![<<"dram", "free">>] = <<np>> \o @]
        /\ app' = [app EXCEPT ![a].pc = "retry", ![a].tries = @ + 1,
                              ![a].internal_call = FALSE]
        /\ UNCHANGED <<pages, is_init, calls, failed>>
  /\ UNCHANGED <<rest, global_lock>>

\* lru_remove_page waits until in_kscand is false ...
RemoveWaits(a) ==
  /\ app[a].pc = "mmgr_remove" /\ ~in_kscand
  /\ app' = [app EXCEPT ![a].pc = "remove"]
  /\ UNCHANGED <<memory, is_init, calls, failed, rest, global_lock>>

\* ... takes the lock, which kscand does not, and reads page->list ...
RemoveReads(a) ==
  LET p == app[a].page IN
  /\ app[a].pc = "remove" /\ global_lock = NULL
  /\ IF ~Listed(p) THEN Abort("remove_page: list != NULL") /\ UNCHANGED global_lock
     ELSE /\ \E l \in DOMAIN lists :
               /\ p \in ToSet(lists[l])
               /\ app' = [app EXCEPT ![a].pc = "unlink", ![a].list = l]
          /\ global_lock' = a
          /\ UNCHANGED <<memory, is_init, calls, failed>>
  /\ UNCHANGED rest

\* ... and takes the page off that list.  Meanwhile kscand may have taken it,
\* and may have put it on another list.  The code goes on then, with a page on
\* two lists or a list whose count is wrong; the model ends there.
lru_remove_page(a) ==
  LET p == app[a].page IN
  /\ app[a].pc = "unlink"
  /\ IF p \notin ToSet(lists[app[a].list])
     THEN Abort("page_list_remove_page: not on the list") /\ UNCHANGED global_lock
     ELSE /\ page' = [page EXCEPT ![p].present = FALSE]
          /\ lists' = [l \in DOMAIN lists |->
                         (IF l = <<Tier(p), "free">> THEN <<p>> ELSE << >>)
                           \o SelectSeq(lists[l], LAMBDA q : q # p)]
          /\ Removed(a)
          /\ global_lock' = NULL
          /\ UNCHANGED <<pages, vm, is_init, calls, failed>>
  /\ UNCHANGED rest

Caller_lru(a) ==
  \/ AllocateLru(a) \/ AllocateSwap(a) \/ AppShrinkCheck(a) \/ AppShrinkMoves(a)
  \/ AppDemotes(a) \/ RemoveWaits(a) \/ RemoveReads(a) \/ lru_remove_page(a)
  \/ Caller(a) /\ UNCHANGED <<rest, global_lock>>

Next ==
  /\ failed = "none"
  /\ \/ hemem_init /\ UNCHANGED <<rest, global_lock>>
     \/ Kscand \/ Kswapd
     \/ (overlap \/ kswapd.pc = "sleep") /\ \E a \in Apps : Caller_lru(a)
=============================================================================
