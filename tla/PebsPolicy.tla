----------------------------- MODULE PebsPolicy -----------------------------
(***************************************************************************)
(* src/pebs.c with the mmap and munmap paths of src/hemem.c: the PEBS      *)
(* policy of HeMem, which keeps hot pages in DRAM and cold ones in NVM.    *)
(*                                                                         *)
(* Three kinds of thread share the page structures without a common lock:  *)
(*  - application threads, inside the intercepted mmap (hemem_mmap_populate*)
(*    calls pebs_pagefault) and munmap (hemem_munmap calls                 *)
(*    pebs_remove_page);                                                   *)
(*  - the scan thread, which counts sampled accesses and requests that a   *)
(*    page be made hot or cold (pebs_scan_thread);                         *)
(*  - the policy thread, which frees pages, serves the requests, migrates  *)
(*    hot NVM pages to DRAM and cools hot pages (pebs_policy_thread).      *)
(*                                                                         *)
(* The fifo lists and the request rings are sequences here (FifoList and   *)
(* SpscRing model them); each of their operations is atomic.  The access   *)
(* counters are abstracted to "the sum reaches HOT_READ_THRESHOLD"; a      *)
(* count may or may not reach it, and a shift may or may not fall below    *)
(* it.  The data copied by a migration is the subject of Migration.        *)
(*                                                                         *)
(* A failed assert() stops the process: failed holds its name.             *)
(***************************************************************************)
EXTENDS Naturals, Sequences, FiniteSets

CONSTANTS
  DramFrames,   \* devdax offsets of the DRAM file
  NvmFrames,    \* devdax offsets of the NVM file
  Vas,          \* virtual addresses of pages
  Sampled,      \* those the application reads often enough to be sampled
  Apps,         \* threads that call mmap and munmap
  NULL,
  HotReqs,      \* HOT_RING_REQS_THRESHOLD
  ColdReqs,     \* COLD_RING_REQS_THRESHOLD
  MigrateRate,  \* PEBS_KSWAPD_MIGRATE_RATE, in pages
  CoolingPages, \* COOLING_PAGES
  MaxCalls,     \* bound: calls of mmap and munmap in a behaviour
  Overlap       \* whether a mmap or munmap may overlap an iteration of the
                \* policy thread

Frames == DramFrames \cup NvmFrames

\* A struct hemem_page is named by the frame pebs_init creates it for.
Pages == Frames

ASSUME PolicyAssumption ==
  /\ DramFrames \cap NvmFrames = {}
  /\ IsFiniteSet(Frames)
  /\ NULL \notin Frames \cup Vas
  /\ Sampled \subseteq Vas
  /\ {HotReqs, ColdReqs, MigrateRate, CoolingPages} \subseteq Nat \ {0}
  /\ MaxCalls \in Nat
  /\ Overlap \in BOOLEAN

Tiers == {"dram", "nvm"}
Kinds == {"free", "cold", "hot"}
AllLists == Tiers \X Kinds

VARIABLES
  page,       \* the page structures
  lists,      \* dram_free_list, ..., nvm_hot_list; first comes first
  hot_ring, cold_ring, free_page_ring,
  pages,      \* the hash table of tracked pages, by address
  vm,         \* the frame mapped at each address
  need_cool,  \* need_cool_dram, need_cool_nvm
  start_page, \* start_dram_page, start_nvm_page
  cur_cool,   \* cur_cool_in_dram, cur_cool_in_nvm
  pol,        \* locals and place of the policy thread
  scan,       \* locals and place of the scan thread
  app,        \* locals and place of each application thread
  calls,      \* calls of mmap and munmap so far, bounded by MaxCalls
  failed      \* the assertion that stopped the process, or "none"

shared == <<page, lists, pages, vm>>
rings == <<hot_ring, cold_ring, free_page_ring>>
cool == <<need_cool, start_page, cur_cool>>
threads == <<pol, scan, app, calls>>
vars == <<shared, rings, cool, threads, failed>>

-----------------------------------------------------------------------------
(* Page structures and lists.                                              *)

Elems(s) == {s[i] : i \in 1 .. Len(s)}

\* page->in_dram
TierOf(p) == IF page[p].frame \in DramFrames THEN "dram" ELSE "nvm"

OnList(p, l) == p \in Elems(lists[l])

\* page->list # NULL
Listed(p) == \E l \in AllLists : OnList(p, l)

\* enqueue_fifo puts at the first end, dequeue_fifo takes from the last.
Enqueue(s, p) == <<p>> \o s
Dequeue(s) == SubSeq(s, 1, Len(s) - 1)
LastOf(s) == IF s = << >> THEN NULL ELSE s[Len(s)]
FirstOf(s) == IF s = << >> THEN NULL ELSE s[1]
Index(s, p) == CHOOSE i \in 1 .. Len(s) : s[i] = p

\* page_list_remove_page unlinks the page from the list, if it is on it.
RemoveFrom(s, p) ==
  IF p \in Elems(s)
  THEN SubSeq(s, 1, Index(s, p) - 1) \o SubSeq(s, Index(s, p) + 1, Len(s))
  ELSE s

\* page->prev, where next_page goes, and page->next.
PrevIn(s, p) == LET i == Index(s, p) IN IF i = 1 THEN NULL ELSE s[i - 1]
NextIn(s, p) == LET i == Index(s, p) IN IF i = Len(s) THEN NULL ELSE s[i + 1]

\* A failed assertion: the process stops where it is.
Abort(name) ==
  /\ failed' = name
  /\ UNCHANGED <<shared, rings, cool, threads>>

IdleApp == [pc |-> "idle", va |-> NULL, page |-> NULL, tier |-> "dram", offset |-> NULL]

Orders(S) ==
  {s \in [1 .. Cardinality(S) -> S] : \A i, j \in DOMAIN s : s[i] = s[j] => i = j}

FreshPage(p) ==
  [frame |-> p, va |-> NULL, present |-> FALSE, hot |-> FALSE, warm |-> FALSE,
   ring_present |-> FALSE]

\* pebs_init: one structure per frame, all on the free lists ...
InitMemory ==
  /\ page = [p \in Pages |-> FreshPage(p)]
  /\ \E d \in Orders(DramFrames), n \in Orders(NvmFrames) :
       lists = [l \in AllLists |->
                  IF l[2] # "free" THEN << >> ELSE IF l[1] = "dram" THEN d ELSE n]
  /\ pages = [v \in Vas |-> NULL]
  /\ vm = [v \in Vas |-> NULL]

\* ... no request made and no thread at work.
InitThreads ==
  /\ hot_ring = << >> /\ cold_ring = << >> /\ free_page_ring = << >>
  /\ need_cool = [t \in Tiers |-> FALSE]
  /\ start_page = [t \in Tiers |-> NULL]
  /\ cur_cool = [t \in Tiers |-> NULL]
  /\ pol = [pc |-> "sleep", page |-> NULL, p |-> NULL, np |-> NULL, cp |-> NULL,
            n |-> 0, tries |-> 0, tier |-> "dram"]
  /\ scan = [pc |-> "idle", page |-> NULL, want |-> "none"]
  /\ app = [a \in Apps |-> IdleApp]
  /\ calls = 0
  /\ failed = "none"

Init == InitMemory /\ InitThreads

-----------------------------------------------------------------------------
(* Application threads: mmap.                                              *)

\* Where each thread is, while the process runs.
PolicyAt(l) == failed = "none" /\ pol.pc = l
ScanAt(l) == failed = "none" /\ scan.pc = l
AppAt(a, l) == failed = "none" /\ app[a].pc = l

Goto(a, l) == app' = [app EXCEPT ![a].pc = l]
AppsIdle == \A a \in Apps : app[a].pc = "idle"

\* A thread calls mmap or munmap.
Call(a) ==
  /\ AppAt(a, "idle")
  /\ Overlap \/ pol.pc = "sleep"
  /\ calls < MaxCalls
  /\ calls' = calls + 1

\* hemem_mmap reserves an address nobody uses.  The reservation maps the DRAM
\* file: until the page is populated the address shows a frame of DRAM, the
\* one at the same place in the file as the page in the range, whoever has it.
MmapStart(a, v) ==
  /\ Call(a)
  /\ vm[v] = NULL /\ pages[v] = NULL
  /\ \A b \in Apps : app[b].va # v
  /\ app' = [app EXCEPT ![a].pc = "dequeue", ![a].va = v]
  /\ \E f \in DramFrames : vm' = [vm EXCEPT ![v] = f]
  /\ UNCHANGED <<page, lists, pages, rings, cool, pol, scan, failed>>

\* pebs_allocate_page takes a page off a free list ...
Allocate(a, t) ==
  LET l == <<t, "free">> IN
  /\ lists[l] # << >>
  /\ app' = [app EXCEPT ![a].pc = "present", ![a].page = LastOf(lists[l]), ![a].tier = t]
  /\ lists' = [lists EXCEPT ![l] = Dequeue(@)]
  /\ UNCHANGED <<page, pages, vm, rings, cool, pol, scan, failed, calls>>

\* ... that of DRAM, and if there is none ...
AllocDram(a) ==
  /\ AppAt(a, "dequeue")
  /\ \/ Allocate(a, "dram")
     \/ /\ lists[<<"dram", "free">>] = << >>
        /\ Goto(a, "dequeue nvm")
        /\ UNCHANGED <<shared, rings, cool, pol, scan, failed, calls>>

\* ... that of NVM, by when there may be a DRAM page again.
AllocNvm(a) ==
  /\ AppAt(a, "dequeue nvm")
  /\ \/ Allocate(a, "nvm")
     \/ lists[<<"nvm", "free">>] = << >> /\ Abort("out of memory")

\* It must be free, of that tier, and is now in use ...
AllocPresent(a) ==
  LET g == app[a].page IN
  /\ AppAt(a, "present")
  /\ IF TierOf(g) # app[a].tier \/ page[g].present
     THEN Abort("allocated page is free")
     ELSE /\ page' = [page EXCEPT ![g].present = TRUE]
          /\ Goto(a, "enqueue")
          /\ UNCHANGED <<lists, pages, vm, rings, cool, pol, scan, failed, calls>>

\* ... and on a cold list, where the policy thread finds it.
AllocEnqueue(a) ==
  /\ AppAt(a, "enqueue")
  /\ lists' = [lists EXCEPT ![<<app[a].tier, "cold">>] = Enqueue(@, app[a].page)]
  /\ Goto(a, "offset")
  /\ UNCHANGED <<page, pages, vm, rings, cool, pol, scan, failed, calls>>

\* hemem_mmap_populate: read the offset ...
PopulateOffset(a) ==
  /\ AppAt(a, "offset")
  /\ app' = [app EXCEPT ![a].pc = "map", ![a].offset = page[app[a].page].frame]
  /\ UNCHANGED <<shared, rings, cool, pol, scan, failed, calls>>

\* ... map it at the address ...
PopulateMap(a) ==
  /\ AppAt(a, "map")
  /\ vm' = [vm EXCEPT ![app[a].va] = app[a].offset]
  /\ Goto(a, "track")
  /\ UNCHANGED <<page, lists, pages, rings, cool, pol, scan, failed, calls>>

\* ... and enter the page in the hash table under its address (add_page).
PopulateTrack(a) ==
  /\ AppAt(a, "track")
  /\ IF pages[app[a].va] # NULL
     THEN Abort("address is tracked once")
     ELSE /\ page' = [page EXCEPT ![app[a].page].va = app[a].va]
          /\ pages' = [pages EXCEPT ![app[a].va] = app[a].page]
          /\ app' = [app EXCEPT ![a] = IdleApp]
          /\ UNCHANGED <<lists, vm, rings, cool, pol, scan, failed, calls>>

-----------------------------------------------------------------------------
(* Application threads: munmap.                                            *)

\* hemem_munmap: find_page.  The application unmaps a range once: no other
\* thread is in a call for it.
MunmapStart(a, v) ==
  /\ Call(a)
  /\ pages[v] # NULL
  /\ \A b \in Apps : app[b].va # v
  /\ app' = [app EXCEPT ![a].pc = "remove", ![a].va = v, ![a].page = pages[v]]
  /\ UNCHANGED <<shared, rings, cool, pol, scan, failed>>

\* remove_page, which takes pages_lock anew.
MunmapRemove(a) ==
  /\ AppAt(a, "remove")
  /\ pages' = [pages EXCEPT ![app[a].va] = NULL]
  /\ Goto(a, "publish")
  /\ UNCHANGED <<page, lists, vm, rings, cool, pol, scan, failed, calls>>

\* pebs_remove_page: hand the page to the policy thread ...
RemovePublish(a) ==
  /\ AppAt(a, "publish")
  /\ free_page_ring' = Append(free_page_ring, app[a].page)
  /\ Goto(a, "clear")
  /\ UNCHANGED <<shared, hot_ring, cold_ring, cool, pol, scan, failed, calls>>

\* ... and only then clear its fields.
RemoveClear(a) ==
  /\ AppAt(a, "clear")
  /\ page' = [page EXCEPT ![app[a].page].present = FALSE,
                          ![app[a].page].hot = FALSE,
                          ![app[a].page].warm = FALSE]
  /\ Goto(a, "unmap")
  /\ UNCHANGED <<lists, pages, vm, rings, cool, pol, scan, failed, calls>>

\* The range is unmapped last.
MunmapEnd(a) ==
  /\ AppAt(a, "unmap")
  /\ vm' = [vm EXCEPT ![app[a].va] = NULL]
  /\ app' = [app EXCEPT ![a] = IdleApp]
  /\ UNCHANGED <<page, lists, pages, rings, cool, pol, scan, failed, calls>>

-----------------------------------------------------------------------------
(* The scan thread.                                                        *)

\* A sample of an address whose page is tracked.
SampleLookup(v) ==
  /\ ScanAt("idle")
  /\ pages[v] # NULL
  /\ scan' = [pc |-> "count", page |-> pages[v], want |-> "none"]
  /\ UNCHANGED <<shared, rings, cool, pol, app, failed, calls>>

\* Count the access, compare with the threshold, and look at page->hot.
SampleCount ==
  LET g == scan.page IN
  /\ ScanAt("count")
  /\ \E w \in {page[g].warm, TRUE} :
       /\ page' = [page EXCEPT ![g].warm = w]
       /\ scan' = [scan EXCEPT !.want = IF w = page[g].hot THEN "none"
                                        ELSE IF w THEN "hot" ELSE "cold",
                               !.pc = IF w = page[g].hot THEN "cool" ELSE "request"]
  /\ UNCHANGED <<lists, pages, vm, rings, cool, pol, app, failed, calls>>

\* Fault: a request is made without looking at ring_present.
SampleRequestAlways ==
  LET g == scan.page IN
  /\ ScanAt("request")
  /\ scan' = [scan EXCEPT !.pc = "cool", !.want = "none"]
  /\ page' = [page EXCEPT ![g].ring_present = TRUE]
  /\ hot_ring' = IF scan.want = "hot" THEN Append(hot_ring, g) ELSE hot_ring
  /\ cold_ring' = IF scan.want = "cold" THEN Append(cold_ring, g) ELSE cold_ring
  /\ UNCHANGED <<lists, pages, vm, free_page_ring, cool, pol, app, failed, calls>>

\* make_hot_request, make_cold_request: unless the page has one pending.
SampleRequest ==
  LET g == scan.page IN
  /\ ScanAt("request")
  /\ scan' = [scan EXCEPT !.pc = "cool", !.want = "none"]
  /\ IF page[g].ring_present
     THEN UNCHANGED <<page, hot_ring, cold_ring>>
     ELSE /\ page' = [page EXCEPT ![g].ring_present = TRUE]
          /\ hot_ring' = IF scan.want = "hot" THEN Append(hot_ring, g) ELSE hot_ring
          /\ cold_ring' = IF scan.want = "cold" THEN Append(cold_ring, g) ELSE cold_ring
  /\ UNCHANGED <<lists, pages, vm, free_page_ring, cool, pol, app, failed, calls>>

\* Shift the counters by the clock ticks the page missed, and ask for a
\* cooling pass when a counter is above PEBS_COOLING_THRESHOLD.
SampleCool ==
  LET g == scan.page IN
  /\ ScanAt("cool")
  /\ \E w \in {FALSE, page[g].warm} :
       /\ page' = [page EXCEPT ![g].warm = w]
       /\ need_cool' \in {need_cool} \cup (IF w THEN {[t \in Tiers |-> TRUE]} ELSE {})
  /\ scan' = [pc |-> "idle", page |-> NULL, want |-> "none"]
  /\ UNCHANGED <<lists, pages, vm, rings, start_page, cur_cool, pol, app, failed, calls>>

-----------------------------------------------------------------------------
(* The policy thread: requests.                                            *)

\* Fault: the cursor stays on the page.
CursorStays(g) == cur_cool

\* update_current_cool_page: the cooling cursor leaves a page about to move.
CursorAway(g) ==
  [t \in Tiers |-> IF cur_cool[t] = g THEN PrevIn(lists[<<t, "hot">>], g) ELSE cur_cool[t]]

CursorOk(g) == \A t \in Tiers : cur_cool[t] = g => OnList(g, <<t, "hot">>)

\* The pass begins after the sleep.
PolicyWake ==
  /\ PolicyAt("sleep")
  /\ Overlap \/ AppsIdle
  /\ pol' = [pol EXCEPT !.pc = "free"]
  /\ UNCHANGED <<shared, rings, cool, scan, app, failed, calls>>

\* Fault: the requests are served before the free ring is drained.
FreeTakeLate ==
  /\ PolicyAt("free")
  /\ pol' = [pol EXCEPT !.pc = "hot", !.n = 0]
  /\ UNCHANGED <<shared, rings, cool, scan, app, failed, calls>>

\* Take a page off the free ring, or go on to the hot ring.
FreeTake ==
  /\ PolicyAt("free")
  /\ IF free_page_ring = << >>
     THEN /\ pol' = [pol EXCEPT !.pc = "hot", !.n = 0]
          /\ UNCHANGED free_page_ring
     ELSE /\ pol' = [pol EXCEPT !.pc = "release", !.page = Head(free_page_ring)]
          /\ free_page_ring' = Tail(free_page_ring)
  /\ UNCHANGED <<shared, hot_ring, cold_ring, cool, scan, app, failed, calls>>

\* Move the page from its list to the free list of its tier.
FreeRelease ==
  LET g == pol.page IN
  /\ PolicyAt("release")
  /\ IF ~Listed(g) THEN Abort("freed page has a list")
     ELSE IF ~CursorOk(g) THEN Abort("cursor is on a hot list")
     ELSE /\ cur_cool' = CursorAway(g)
          /\ lists' = [l \in AllLists |->
                         IF l = <<TierOf(g), "free">>
                         THEN Enqueue(RemoveFrom(lists[l], g), g)
                         ELSE RemoveFrom(lists[l], g)]
          /\ pol' = [pol EXCEPT !.pc = "free", !.page = NULL]
          /\ UNCHANGED <<page, pages, vm, rings, need_cool, start_page, scan, app, failed, calls>>

\* Take a hot request; one for a page that is not present is discarded.
HotTake ==
  /\ PolicyAt("hot")
  /\ IF hot_ring = << >> \/ pol.n >= HotReqs
     THEN /\ pol' = [pol EXCEPT !.pc = "cold", !.n = 0]
          /\ UNCHANGED <<hot_ring, failed>>
     ELSE LET g == Head(hot_ring) IN
          /\ hot_ring' = Tail(hot_ring)
          /\ IF page[g].present
             THEN /\ pol' = [pol EXCEPT !.pc = "make hot", !.page = g, !.n = @ + 1]
                  /\ UNCHANGED failed
             ELSE /\ UNCHANGED pol
                  /\ failed' = IF OnList(g, <<TierOf(g), "free">>)
                               THEN failed ELSE "freed page is on a free list"
  /\ UNCHANGED <<shared, cold_ring, free_page_ring, cool, scan, app, calls>>

\* The same for cold requests.
ColdTake ==
  /\ PolicyAt("cold")
  /\ IF cold_ring = << >> \/ pol.n >= ColdReqs
     THEN /\ pol' = [pol EXCEPT !.pc = "migrate", !.n = 0]
          /\ UNCHANGED <<cold_ring, failed>>
     ELSE LET g == Head(cold_ring) IN
          /\ cold_ring' = Tail(cold_ring)
          /\ IF page[g].present
             THEN /\ pol' = [pol EXCEPT !.pc = "make cold", !.page = g, !.n = @ + 1]
                  /\ UNCHANGED failed
             ELSE /\ UNCHANGED pol
                  /\ failed' = IF OnList(g, <<TierOf(g), "free">>)
                               THEN failed ELSE "freed page is on a free list"
  /\ UNCHANGED <<shared, hot_ring, free_page_ring, cool, scan, app, calls>>

\* make_hot and make_cold: the page must be on the list its flag says, and
\* moves to the other one unless the flag is already right.
MakeHeat(hot, back) ==
  LET g == pol.page
      t == TierOf(g)
      from == <<t, IF page[g].hot THEN "hot" ELSE "cold">>
      to == <<t, IF hot THEN "hot" ELSE "cold">>
  IN
  IF ~CursorOk(g) THEN Abort("cursor is on a hot list")
  ELSE IF page[g].va = NULL \/ ~OnList(g, from) THEN Abort("flag matches list")
  ELSE /\ page' = [page EXCEPT ![g].ring_present = FALSE, ![g].hot = hot]
       /\ lists' = IF from = to THEN lists
                   ELSE [lists EXCEPT ![from] = RemoveFrom(@, g), ![to] = Enqueue(@, g)]
       /\ cur_cool' = CursorAway(g)
       /\ pol' = [pol EXCEPT !.pc = back, !.page = NULL]
       /\ UNCHANGED <<pages, vm, rings, need_cool, start_page, scan, app, failed, calls>>

MakeHot == PolicyAt("make hot") /\ MakeHeat(TRUE, "hot")
MakeCold == PolicyAt("make cold") /\ MakeHeat(FALSE, "cold")

-----------------------------------------------------------------------------
(* The policy thread: migration.                                           *)

\* Fault: a page is taken from under the cursor.
MigrateTakeBlind ==
  LET l == <<"nvm", "hot">> IN
  /\ PolicyAt("migrate")
  /\ IF pol.n >= MigrateRate \/ lists[l] = << >>
     THEN pol' = [pol EXCEPT !.pc = "cool", !.n = 0] /\ UNCHANGED lists
     ELSE /\ pol' = [pol EXCEPT !.pc = "test", !.p = LastOf(lists[l])]
          /\ lists' = [lists EXCEPT ![l] = Dequeue(@)]
  /\ UNCHANGED <<page, pages, vm, rings, cool, scan, app, failed, calls>>

\* Take the oldest hot NVM page; the cooling cursor must not stay on it.
MigrateTake ==
  LET l == <<"nvm", "hot">> IN
  /\ PolicyAt("migrate")
  /\ IF pol.n >= MigrateRate \/ lists[l] = << >>
     THEN /\ pol' = [pol EXCEPT !.pc = "cool", !.n = 0]
          /\ UNCHANGED <<lists, cur_cool>>
     ELSE /\ pol' = [pol EXCEPT !.pc = "test", !.p = LastOf(lists[l])]
          /\ lists' = [lists EXCEPT ![l] = Dequeue(@)]
          /\ cur_cool' = [cur_cool EXCEPT !["nvm"] =
                            IF @ = LastOf(lists[l]) THEN FirstOf(Dequeue(lists[l])) ELSE @]
  /\ UNCHANGED <<page, pages, vm, rings, need_cool, start_page, scan, app, failed, calls>>

\* Fault: the page goes to the cold list with its flag set.
MigrateTestKeepsFlag ==
  /\ PolicyAt("test")
  /\ pol' = IF page[pol.p].warm THEN [pol EXCEPT !.pc = "try"]
                                ELSE [pol EXCEPT !.pc = "migrate", !.p = NULL]
  /\ lists' = IF page[pol.p].warm THEN lists
              ELSE [lists EXCEPT ![<<"nvm", "cold">>] = Enqueue(@, pol.p)]
  /\ UNCHANGED <<page, pages, vm, rings, cool, scan, app, failed, calls>>

\* It may have cooled since it was listed.
MigrateTest ==
  /\ PolicyAt("test")
  /\ IF page[pol.p].warm
     THEN /\ pol' = [pol EXCEPT !.pc = "try"]
          /\ UNCHANGED <<page, lists>>
     ELSE /\ page' = [page EXCEPT ![pol.p].hot = FALSE]
          /\ lists' = [lists EXCEPT ![<<"nvm", "cold">>] = Enqueue(@, pol.p)]
          /\ pol' = [pol EXCEPT !.pc = "migrate", !.p = NULL]
  /\ UNCHANGED <<pages, vm, rings, cool, scan, app, failed, calls>>

\* Two attempts to get a free DRAM page; after the second the page in hand
\* is on no list.
TryDram ==
  LET l == <<"dram", "free">> IN
  /\ PolicyAt("try")
  /\ IF pol.tries = 2
     THEN pol' = [pol EXCEPT !.pc = "migrate", !.p = NULL, !.tries = 0] /\ UNCHANGED lists
     ELSE IF lists[l] = << >>
     THEN pol' = [pol EXCEPT !.pc = "victim"] /\ UNCHANGED lists
     ELSE /\ pol' = [pol EXCEPT !.pc = "up", !.np = LastOf(lists[l])]
          /\ lists' = [lists EXCEPT ![l] = Dequeue(@)]
  /\ UNCHANGED <<page, pages, vm, rings, cool, scan, app, failed, calls>>

\* Faults: without a victim, the page in hand is not put back; a victim is
\* chosen without taking it off its list.
TakeVictimFault(putback, left) ==
  LET l == <<"dram", "cold">> IN
  /\ PolicyAt("victim")
  /\ IF lists[l] = << >>
     THEN /\ lists' = [lists EXCEPT ![<<"nvm", "hot">>] = putback \o @]
          /\ pol' = [pol EXCEPT !.pc = "sleep", !.p = NULL, !.n = 0, !.tries = 0]
     ELSE /\ lists' = [lists EXCEPT ![l] = left]
          /\ pol' = [pol EXCEPT !.pc = "frame", !.cp = LastOf(lists[l])]
  /\ UNCHANGED <<page, pages, vm, rings, cool, scan, app, failed, calls>>

TakeVictimForgets == TakeVictimFault(<< >>, Dequeue(lists[<<"dram", "cold">>]))
TakeVictimPeeks == TakeVictimFault(<<pol.p>>, lists[<<"dram", "cold">>])

\* A cold DRAM page to move down.  If all of DRAM is hot the page in hand
\* goes back and the pass ends without cooling.
TakeVictim ==
  LET l == <<"dram", "cold">> IN
  /\ PolicyAt("victim")
  /\ IF lists[l] = << >>
     THEN /\ lists' = [lists EXCEPT ![<<"nvm", "hot">>] = Enqueue(@, pol.p)]
          /\ pol' = [pol EXCEPT !.pc = "sleep", !.p = NULL, !.n = 0, !.tries = 0]
     ELSE /\ lists' = [lists EXCEPT ![l] = Dequeue(@)]
          /\ pol' = [pol EXCEPT !.pc = "frame", !.cp = LastOf(lists[l])]
  /\ UNCHANGED <<page, pages, vm, rings, cool, scan, app, failed, calls>>

\* A free NVM page for the victim; there must be one.
TakeNvmFrame ==
  LET l == <<"nvm", "free">> IN
  /\ PolicyAt("frame")
  /\ IF lists[l] = << >>
     THEN Abort("NVM frame for the victim")
     ELSE /\ lists' = [lists EXCEPT ![l] = Dequeue(@)]
          /\ pol' = [pol EXCEPT !.pc = "down", !.np = LastOf(lists[l])]
          /\ UNCHANGED <<page, pages, vm, rings, cool, scan, app, failed, calls>>

\* pebs_migrate_up and pebs_migrate_down: protect the page, copy it, and map
\* the new frame at the page's address, whatever is there now.
Remap(q, from, to) ==
  IF page[pol.np].present THEN Abort("allocated page is free")
  ELSE IF page[q].va = NULL \/ TierOf(q) # from THEN Abort("migrated page is mapped")
  ELSE /\ vm' = [vm EXCEPT ![page[q].va] = page[pol.np].frame]
       /\ pol' = [pol EXCEPT !.pc = to]
       /\ UNCHANGED <<page, lists, pages, rings, cool, scan, app, failed, calls>>

RemapUp == PolicyAt("up") /\ Remap(pol.p, "nvm", "swap up")
RemapDown == PolicyAt("down") /\ Remap(pol.cp, "dram", "swap down")

\* Faults: only one of the two structures changes its frame.
SwappedFreeOnly(q) == [page EXCEPT ![pol.np].frame = page[q].frame]
SwappedUsedOnly(q) == [page EXCEPT ![q].frame = page[pol.np].frame]

\* The two structures exchange their frames; the other one is free.
Swapped(q) ==
  [page EXCEPT ![q].frame = page[pol.np].frame,
               ![pol.np] = [@ EXCEPT !.frame = page[q].frame, !.present = FALSE,
                                     !.hot = FALSE, !.warm = FALSE]]

\* The promoted page is hot in DRAM, its old frame free in NVM.
SwapUp ==
  /\ PolicyAt("swap up")
  /\ page' = Swapped(pol.p)
  /\ lists' = [lists EXCEPT ![<<"dram", "hot">>] = Enqueue(@, pol.p),
                            ![<<"nvm", "free">>] = Enqueue(@, pol.np)]
  /\ pol' = [pol EXCEPT !.pc = "migrate", !.n = @ + 1, !.p = NULL, !.np = NULL, !.tries = 0]
  /\ UNCHANGED <<pages, vm, rings, cool, scan, app, failed, calls>>

\* The demoted page is cold in NVM, its old frame free in DRAM.
SwapDown ==
  /\ PolicyAt("swap down")
  /\ page' = Swapped(pol.cp)
  /\ lists' = [lists EXCEPT ![<<"nvm", "cold">>] = Enqueue(@, pol.cp),
                            ![<<"dram", "free">>] = Enqueue(@, pol.np)]
  /\ pol' = [pol EXCEPT !.pc = "try", !.tries = @ + 1, !.cp = NULL, !.np = NULL]
  /\ UNCHANGED <<pages, vm, rings, cool, scan, app, failed, calls>>

-----------------------------------------------------------------------------
(* The policy thread: partial_cool, for DRAM and then for NVM.             *)

\* On to NVM, or to sleep.
CoolLeave ==
  /\ pol' = IF pol.tier = "dram" THEN [pol EXCEPT !.pc = "cool", !.tier = "nvm", !.n = 0]
                                 ELSE [pol EXCEPT !.pc = "sleep", !.tier = "dram", !.n = 0]
  /\ UNCHANGED <<page, lists, start_page, need_cool, cur_cool, failed>>

\* A round ends when it comes back to the page where it started.
CoolStart ==
  LET t == pol.tier IN
  /\ PolicyAt("cool")
  /\ IF ~need_cool[t]
     THEN CoolLeave
     ELSE /\ start_page' = [start_page EXCEPT ![t] =
                              IF @ = NULL THEN LastOf(lists[<<t, "hot">>]) ELSE @]
          /\ pol' = [pol EXCEPT !.pc = "cooling"]
          /\ UNCHANGED <<page, lists, need_cool, cur_cool, failed>>
  /\ UNCHANGED <<pages, vm, rings, scan, app, calls>>

\* Where next_page takes the cursor of tier t.
CoolTarget(t) ==
  LET hot == lists[<<t, "hot">>] IN
  IF cur_cool[t] = NULL THEN LastOf(hot) ELSE PrevIn(hot, cur_cool[t])

\* The next page of the hot list: if its counters, shifted, are below the
\* threshold (or its flag was cleared) it moves to the cold list.
CoolOne(t, g) ==
  \E hot \in IF page[g].hot /\ page[g].warm THEN BOOLEAN ELSE {FALSE} :
    /\ page' = [page EXCEPT ![g].hot = hot]
    /\ start_page' = [start_page EXCEPT ![t] = IF @ = g THEN NULL ELSE @]
    /\ need_cool' = [need_cool EXCEPT ![t] = @ /\ start_page[t] # g]
    /\ cur_cool' = [cur_cool EXCEPT ![t] = IF hot THEN g ELSE NextIn(lists[<<t, "hot">>], g)]
    /\ lists' = IF hot THEN lists
                ELSE [lists EXCEPT ![<<t, "hot">>] = RemoveFrom(@, g),
                                   ![<<t, "cold">>] = Enqueue(@, g)]
    /\ pol' = [pol EXCEPT !.n = @ + 1]
    /\ UNCHANGED failed

\* One iteration of the loop over at most COOLING_PAGES pages.
CoolPage ==
  LET t == pol.tier IN
  /\ PolicyAt("cooling")
  /\ IF pol.n >= CoolingPages THEN CoolLeave
     ELSE IF cur_cool[t] # NULL /\ ~OnList(cur_cool[t], <<t, "hot">>)
     THEN failed' = "cursor is on a hot list" /\ UNCHANGED <<page, lists, cool, pol>>
     ELSE IF CoolTarget(t) = NULL THEN CoolLeave
     ELSE IF TierOf(CoolTarget(t)) # t
     THEN failed' = "list matches tier" /\ UNCHANGED <<page, lists, cool, pol>>
     ELSE CoolOne(t, CoolTarget(t))
  /\ UNCHANGED <<pages, vm, rings, scan, app, calls>>

-----------------------------------------------------------------------------
Policy ==
  \/ FreeTake \/ FreeRelease
  \/ HotTake \/ MakeHot \/ ColdTake \/ MakeCold
  \/ MigrateTake \/ MigrateTest \/ TryDram \/ TakeVictim \/ TakeNvmFrame
  \/ RemapUp \/ SwapUp \/ RemapDown \/ SwapDown
  \/ CoolStart \/ CoolPage

Scan == (\E v \in Sampled : SampleLookup(v)) \/ SampleCount \/ SampleRequest \/ SampleCool

\* The steps of a mmap or munmap that has begun.
AppStep(a) ==
  \/ AllocDram(a) \/ AllocNvm(a) \/ AllocPresent(a) \/ AllocEnqueue(a)
  \/ PopulateOffset(a) \/ PopulateMap(a) \/ PopulateTrack(a)
  \/ MunmapRemove(a) \/ RemovePublish(a) \/ RemoveClear(a) \/ MunmapEnd(a)

Stopped == failed # "none" /\ UNCHANGED vars

Next ==
  \/ PolicyWake \/ Policy \/ Scan
  \/ \E a \in Apps : AppStep(a) \/ \E v \in Vas : MmapStart(a, v) \/ MunmapStart(a, v)
  \/ Stopped

Spec == Init /\ [][Next]_vars

\* The policy thread runs on a core of its own and wakes up from usleep; an
\* application thread finishes its call.
Fairness ==
  /\ WF_vars(PolicyWake \/ Policy)
  /\ \A a \in Apps : WF_vars(AppStep(a))

FairSpec == Spec /\ Fairness

-----------------------------------------------------------------------------
(* Properties.                                                             *)

PagesOrNull == Pages \cup {NULL}

PageType ==
  [frame : Frames, va : Vas \cup {NULL}, present : BOOLEAN, hot : BOOLEAN, warm : BOOLEAN,
   ring_present : BOOLEAN]

PolicyType ==
  [pc : {"sleep", "free", "release", "hot", "make hot", "cold", "make cold", "migrate",
         "test", "try", "victim", "frame", "up", "swap up", "down", "swap down", "cool",
         "cooling"},
   page : PagesOrNull, p : PagesOrNull, np : PagesOrNull, cp : PagesOrNull,
   n : Nat, tries : Nat, tier : Tiers]

ScanType ==
  [pc : {"idle", "count", "request", "cool"}, page : PagesOrNull,
   want : {"none", "hot", "cold"}]

AppType ==
  [pc : {"idle", "dequeue", "dequeue nvm", "present", "enqueue", "offset", "map", "track",
         "remove", "publish", "clear", "unmap"},
   va : Vas \cup {NULL}, page : PagesOrNull, tier : Tiers, offset : Frames \cup {NULL}]

\* The page structures, lists, rings and locals have their types.
TypeOK ==
  /\ page \in [Pages -> PageType]
  /\ lists \in [AllLists -> Seq(Pages)]
  /\ hot_ring \in Seq(Pages) /\ cold_ring \in Seq(Pages) /\ free_page_ring \in Seq(Pages)
  /\ pages \in [Vas -> PagesOrNull] /\ vm \in [Vas -> Frames \cup {NULL}]
  /\ need_cool \in [Tiers -> BOOLEAN]
  /\ start_page \in [Tiers -> PagesOrNull] /\ cur_cool \in [Tiers -> PagesOrNull]
  /\ pol \in PolicyType /\ scan \in ScanType /\ app \in [Apps -> AppType]
  /\ calls \in 0 .. MaxCalls

Occurs(s, p) == Cardinality({i \in 1 .. Len(s) : s[i] = p})

\* A page has at most one hot or cold request pending, marked by
\* ring_present, and is on the free ring at most once, whatever the scan,
\* policy and application threads do: so the rings, which have more slots
\* than there are pages, never overwrite an entry.
OneRequest ==
  \A p \in Pages :
    /\ Occurs(hot_ring, p) + Occurs(cold_ring, p) <= IF page[p].ring_present THEN 1 ELSE 0
    /\ Occurs(free_page_ring, p) <= 1

\* The pages on the lists, and those a thread has taken off one list and not
\* yet put on another.
OnSomeList == UNION {Elems(lists[l]) : l \in AllLists}
PolicyHands == {pol.p, pol.np, pol.cp} \ {NULL}
AppHands == {a \in Apps : app[a].pc \in {"present", "enqueue"}}
InHand == PolicyHands \cup {app[a].page : a \in AppHands}

Distinct(s) == \A i, j \in 1 .. Len(s) : s[i] = s[j] => i = j

\* A page is never in two places: twice on the lists, or on a list and in
\* the hands of a thread, or with two threads.  No frame is allocated twice.
OneOwner ==
  /\ \A l \in AllLists : Distinct(lists[l])
  /\ \A l, m \in AllLists : l # m => Elems(lists[l]) \cap Elems(lists[m]) = {}
  /\ InHand \cap OnSomeList = {}
  /\ pol.p # NULL => pol.p \notin {pol.np, pol.cp}
  /\ pol.np # NULL => pol.np # pol.cp
  /\ \A a \in AppHands : app[a].page \notin PolicyHands
  /\ \A a, b \in AppHands : app[a].page = app[b].page => a = b

\* Whatever overlaps with what, a page drops out in one way only: the policy
\* thread has taken it off nvm_hot_list and made room for it in DRAM, a mmap
\* took the room, and the thread made room again; there the loop ends and
\* forgets the page.  No other order of calls, requests, migrations and
\* coolings loses a page.
LostOnlyAfterTwoTries ==
  [][\A p \in OnSomeList \cup InHand :
       \/ p \in OnSomeList' \cup InHand'
       \/ p = pol.p /\ pol.pc = "try" /\ pol.tries = 2]_vars

\* A munmap has taken the page but the policy thread has not freed it yet.
BeingFreed(p) ==
  \/ p \in Elems(free_page_ring)
  \/ pol.pc = "release" /\ pol.page = p
  \/ \E a \in Apps : app[a].page = p /\ app[a].pc \in {"publish", "clear"}

\* What the assertions of make_hot, make_cold, partial_cool and of the
\* allocator rely on: a page's list says its tier, whether it is in use
\* and whether it is hot, except that munmap clears the flags of a page that
\* is still listed.
ListsMatchFlags ==
  \A l \in AllLists : \A p \in Elems(lists[l]) :
    /\ TierOf(p) = l[1]
    /\ page[p].present => l[2] # "free"
    /\ l[2] # "free" => page[p].present \/ BeingFreed(p)
    /\ page[p].hot => l[2] = "hot"
    /\ l[2] = "hot" => page[p].hot \/ BeingFreed(p)

\* The cooling cursors of the policy thread point to listed hot pages of
\* their tier: next_page never follows a page that has left the list.
CursorsOnHotLists ==
  \A t \in Tiers : cur_cool[t] # NULL => OnList(cur_cool[t], <<t, "hot">>)

\* The frame a tracked page occupies, also between the remapping of its
\* address and the update of its structure.
FrameOf(p) ==
  IF \/ pol.pc = "swap up" /\ pol.p = p
     \/ pol.pc = "swap down" /\ pol.cp = p
  THEN page[pol.np].frame ELSE page[p].frame

\* The address of a tracked page maps the frame of its structure: the
\* application and the policy agree where the data is.
TrackedPageIsMapped ==
  \A v \in Vas : pages[v] # NULL =>
    /\ page[pages[v]].present /\ page[pages[v]].va = v
    /\ vm[v] = FrameOf(pages[v])

\* The addresses of the application: mapped, and not just reserved by a mmap
\* that has not populated them yet.
Reserved(v) ==
  \E a \in Apps :
    /\ app[a].va = v
    /\ app[a].pc \in {"dequeue", "dequeue nvm", "present", "enqueue", "offset", "map"}
Populated == {v \in Vas : vm[v] # NULL /\ ~Reserved(v)}

\* No two addresses of the application map the same frame, from the populating
\* of a range to the end of its munmap.  (Before that a range aliases frames
\* of DRAM, but mmap has not returned it.)
NoSharedFrame == \A v, w \in Populated : v # w => vm[v] # vm[w]

\* A migration maps a frame only at an address at which the application
\* still has that page: it never brings back, or maps over, an address
\* that has been unmapped.
RemapOnlyTracked ==
  [][\A v \in Vas : vm'[v] # vm[v] /\ pol' # pol =>
       pages[v] \in {pol.p, pol.cp} \ {NULL}]_vars

\* No assertion of pebs.c and hemem.c fails; running out of memory is the
\* one abort a correct program may meet.
AssertionsHold == failed \in {"none", "out of memory"}

\* A page that munmap has put on the free ring reaches a free list, unless
\* the process stops.
FreedEventually ==
  \A p \in Pages : p \in Elems(free_page_ring) ~>
    \/ \E t \in Tiers : OnList(p, <<t, "free">>)
    \/ failed # "none"
=============================================================================
