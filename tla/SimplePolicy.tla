---------------------------- MODULE SimplePolicy ----------------------------
(***************************************************************************)
(* src/policies/simple.c: DRAM until it is full, then NVM; no page ever    *)
(* moves and no thread works in the background.  Only the free lists are   *)
(* kept.  slowmem, in pages, is updated by a load and a store that no lock *)
(* protects; it is unsigned, so that a value below 0 is a very large one.  *)
(***************************************************************************)
EXTENDS TwoTier

VARIABLE slowmem

vars == <<shared, slowmem>>

Init == InitShared(Tiers \X {"free"}) /\ slowmem = 0

\* simple_pagefault: a DRAM page ...
PagefaultDram(a) ==
  LET p == Taken(<<"dram", "free">>) IN
  /\ app[a].pc = "pagefault" /\ p # NULL
  /\ IF page[p].present THEN Abort("simple: !present")
     ELSE /\ lists' = [lists EXCEPT ![<<"dram", "free">>] = Front(@)]
          /\ page' = [page EXCEPT ![p].present = TRUE]
          /\ Allocated(a, p)
          /\ UNCHANGED <<pages, vm, is_init, calls, failed>>
  /\ UNCHANGED slowmem

\* Mutant: the page about to be taken is counted before the test.
PagefaultNvmEarly(a) ==
  LET p == Taken(<<"nvm", "free">>) IN
  /\ app[a].pc = "pagefault" /\ Taken(<<"dram", "free">>) = NULL
  /\ IF slowmem < 0 \/ slowmem + 1 >= Cardinality(NvmFrames) THEN Abort("out of memory")
     ELSE IF p = NULL THEN Abort("out of memory")
     ELSE IF page[p].present THEN Abort("simple: !present")
     ELSE /\ lists' = [lists EXCEPT ![<<"nvm", "free">>] = Front(@)]
          /\ page' = [page EXCEPT ![p].present = TRUE]
          /\ app' = [app EXCEPT ![a].pc = "count", ![a].page = p, ![a].n = slowmem]
          /\ UNCHANGED <<pages, vm, is_init, calls, failed>>
  /\ UNCHANGED slowmem

\* ... or an NVM page, if the counter allows it; the counter is loaded ...
PagefaultNvm(a) ==
  LET p == Taken(<<"nvm", "free">>) IN
  /\ app[a].pc = "pagefault" /\ Taken(<<"dram", "free">>) = NULL
  /\ IF slowmem < 0 \/ slowmem >= Cardinality(NvmFrames) THEN Abort("out of memory")
     ELSE IF p = NULL THEN Abort("out of memory")
     ELSE IF page[p].present THEN Abort("simple: !present")
     ELSE /\ lists' = [lists EXCEPT ![<<"nvm", "free">>] = Front(@)]
          /\ page' = [page EXCEPT ![p].present = TRUE]
          /\ app' = [app EXCEPT ![a].pc = "count", ![a].page = p, ![a].n = slowmem]
          /\ UNCHANGED <<pages, vm, is_init, calls, failed>>
  /\ UNCHANGED slowmem

\* ... and stored.
CountNvm(a) ==
  /\ app[a].pc = "count"
  /\ slowmem' = app[a].n + 1
  /\ Allocated(a, app[a].page)
  /\ UNCHANGED <<memory, is_init, calls, failed>>

\* simple_remove_page: the page is free before the counter is stored.
simple_remove_page(a) ==
  LET p == app[a].page IN
  /\ app[a].pc = "mmgr_remove"
  /\ page' = [page EXCEPT ![p].present = FALSE]
  /\ lists' = [lists EXCEPT ![<<Tier(p), "free">>] = <<p>> \o @]
  /\ IF InDram(p) THEN Removed(a)
     ELSE app' = [app EXCEPT ![a].pc = "discount", ![a].n = slowmem]
  /\ UNCHANGED <<pages, vm, is_init, calls, failed, slowmem>>

DiscountNvm(a) ==
  /\ app[a].pc = "discount"
  /\ slowmem' = app[a].n - 1
  /\ Removed(a)
  /\ UNCHANGED <<memory, is_init, calls, failed>>

Next ==
  /\ failed = "none"
  /\ \/ (hemem_init \/ \E a \in Apps : Caller(a)) /\ UNCHANGED slowmem
     \/ \E a \in Apps : \/ PagefaultDram(a) \/ PagefaultNvm(a) \/ CountNvm(a)
                        \/ simple_remove_page(a) \/ DiscountNvm(a)
=============================================================================
