-------------------------- MODULE PebsPagesProofs --------------------------
(***************************************************************************)
(* What becomes of a page in src/pebs.c, whatever overlaps with what: the  *)
(* cooling cursors stay on listed pages, no page drops out but in one way, *)
(* and no two structures ever name one frame.  All of it rests on IndInv   *)
(* of PebsPolicyProofs.                                                    *)
(***************************************************************************)
EXTENDS PebsPolicyProofs, FunctionTheorems

-----------------------------------------------------------------------------
(* The cooling cursors.                                                    *)

HotGrows == \A t \in Tiers : Elems(lists[<<t, "hot">>]) \subseteq Elems(lists'[<<t, "hot">>])

LEMMA CursorsKept ==
  ASSUME CursorsOnHotLists, UNCHANGED cur_cool, HotGrows
  PROVE  CursorsOnHotLists'
BY DEF CursorsOnHotLists, OnList, HotGrows

\* A list that is not a hot list changes.
LEMMA OtherList ==
  ASSUME IndInv, NEW l, \A t \in Tiers : l # <<t, "hot">>, NEW s, lists' = [lists EXCEPT ![l] = s]
  PROVE  HotGrows
<1>1. DOMAIN lists = AllLists /\ \A t \in Tiers : <<t, "hot">> \in AllLists
  BY DEF IndInv, TypeOK, AllLists, Kinds
<1>2. \A t \in Tiers : lists'[<<t, "hot">>] = lists[<<t, "hot">>]
  BY <1>1
<1> QED
  BY <1>2 DEF HotGrows

\* A page comes to a list, of hot or of other pages.
LEMMA ListGrows ==
  ASSUME IndInv, NEW l \in AllLists, NEW g \in Pages, lists' = [lists EXCEPT ![l] = Enqueue(@, g)]
  PROVE  HotGrows
<1>1. lists \in [AllLists -> Seq(Pages)] /\ \A t \in Tiers : <<t, "hot">> \in AllLists
  BY DEF IndInv, TypeOK, AllLists, Kinds
<1>2. Elems(lists[l]) \subseteq Elems(Enqueue(lists[l], g))
  BY <1>1, EnqueueAdds
<1>3. ASSUME NEW m \in AllLists
      PROVE  Elems(lists[m]) \subseteq Elems(lists'[m])
  BY <1>1, <1>2
<1> QED
  BY <1>1, <1>3 DEF HotGrows

\* update_current_cool_page moves a cursor on the page to its neighbour, so
\* the page may leave its list.
LEMMA CursorsMove ==
  ASSUME IndInv, CursorsOnHotLists, NEW g \in Pages, cur_cool' = CursorAway(g),
         \A t \in Tiers : Elems(lists[<<t, "hot">>]) \ {g} \subseteq Elems(lists'[<<t, "hot">>])
  PROVE  CursorsOnHotLists'
<1>1. ASSUME NEW t \in Tiers, cur_cool'[t] # NULL
      PROVE  OnList(cur_cool[t], <<t, "hot">>)'
  <2>1. PICK s : s = lists[<<t, "hot">>]
    OBVIOUS
  <2>2. s \in Seq(Pages) /\ Distinct(s)
    BY <2>1 DEF IndInv, TypeOK, OwnerInv, AllLists, Kinds
  <2>3. cur_cool'[t] = IF cur_cool[t] = g THEN PrevIn(s, g) ELSE cur_cool[t]
    BY <2>1 DEF CursorAway
  <2>4. cur_cool[t] # NULL => cur_cool[t] \in Elems(s)
    BY <2>1 DEF CursorsOnHotLists, OnList
  <2>5. g # NULL
    BY PolicyAssumption DEF Pages
  <2>6. cur_cool'[t] \in Elems(s) \ {g}
    BY <1>1, <2>2, <2>3, <2>4, <2>5, NeighboursListed
  <2> QED
    BY <2>1, <2>6 DEF OnList
<1> QED
  BY <1>1 DEF CursorsOnHotLists

LEMMA AppKeepsCursors ==
  ASSUME IndInv, CursorsOnHotLists, NEW a \in Apps, AppActs(a)
  PROVE  CursorsOnHotLists'
<1>1. UNCHANGED cur_cool
  BY AppActsKeep
<1>2. ASSUME NEW t, Allocate(a, t)
      PROVE  HotGrows
  <2>1. PICK l, s : l = <<t, "free">> /\ lists' = [lists EXCEPT ![l] = s]
    BY <1>2 DEF Allocate
  <2>2. \A u \in Tiers : l # <<u, "hot">>
    BY <2>1
  <2> QED
    BY <2>1, <2>2, OtherList
<1>3. CASE AllocEnqueue(a)
  <2>1. PICK l, s : l = <<app[a].tier, "cold">> /\ lists' = [lists EXCEPT ![l] = s]
    BY <1>3 DEF AllocEnqueue
  <2>2. \A u \in Tiers : l # <<u, "hot">>
    BY <2>1
  <2> QED
    BY <1>1, <2>1, <2>2, OtherList, CursorsKept
<1>4. CASE UNCHANGED lists
  BY <1>1, <1>4, CursorsKept DEF HotGrows
<1>5. \/ \E t \in Tiers : Allocate(a, t)
      \/ AllocEnqueue(a)
      \/ UNCHANGED lists
  <2>1. CASE AllocDram(a) \/ AllocNvm(a)
    BY <2>1 DEF AllocDram, AllocNvm, Abort, Tiers, shared
  <2>2. CASE AllocPresent(a) \/ PopulateOffset(a) \/ PopulateMap(a) \/ PopulateTrack(a)
    BY <2>2 DEF AllocPresent, PopulateOffset, PopulateMap, PopulateTrack, Abort, shared
  <2>3. CASE MunmapRemove(a) \/ RemovePublish(a) \/ RemoveClear(a) \/ MunmapEnd(a)
    BY <2>3 DEF MunmapRemove, RemovePublish, RemoveClear, MunmapEnd, shared
  <2>4. ASSUME NEW v \in Vas, MmapStart(a, v) \/ MunmapStart(a, v)
        PROVE  UNCHANGED lists
    BY <2>4 DEF MmapStart, MunmapStart, shared
  <2> QED
    BY <2>1, <2>2, <2>3, <2>4 DEF AppActs, AppStep
<1> QED
  BY <1>1, <1>2, <1>3, <1>4, <1>5, CursorsKept

\* The policy thread frees a page, makes one hot or cold.
LEMMA ReleaseKeepsCursors ==
  ASSUME IndInv, CursorsOnHotLists, FreeRelease
  PROVE  CursorsOnHotLists'
<1>1. CASE UNCHANGED <<lists, cur_cool>>
  BY <1>1, CursorsKept DEF HotGrows
<1>2. CASE ~UNCHANGED <<lists, cur_cool>>
  <2>1. PICK g, m : g = pol.page /\ m = <<TierOf(g), "free">>
    OBVIOUS
  <2>2. /\ cur_cool' = CursorAway(g)
        /\ lists' = [l \in AllLists |-> IF l = m THEN Enqueue(RemoveFrom(lists[l], g), g)
                                        ELSE RemoveFrom(lists[l], g)]
    BY <1>2, <2>1 DEF FreeRelease, Abort, shared, cool
  <2>3. g \in Pages
    BY <2>1 DEF IndInv, TypeOK, LocalsInv, PolicyType, PagesOrNull, FreeRelease, PolicyAt
  <2>4. ASSUME NEW t \in Tiers
        PROVE  Elems(lists[<<t, "hot">>]) \ {g} \subseteq Elems(lists'[<<t, "hot">>])
    <3>1. PICK l : l = <<t, "hot">>
      OBVIOUS
    <3>2. l \in AllLists /\ l # m
      BY <2>1, <3>1 DEF AllLists, Kinds
    <3>3. lists[l] \in Seq(Pages) /\ Distinct(lists[l])
      BY <3>2 DEF IndInv, TypeOK, OwnerInv
    <3>4. lists'[l] = RemoveFrom(lists[l], g)
      BY <2>2, <3>2
    <3> QED
      BY <3>1, <3>3, <3>4, RemoveTakes
  <2> QED
    BY <2>2, <2>3, <2>4, CursorsMove
<1> QED
  BY <1>1, <1>2

LEMMA HeatKeepsCursors ==
  ASSUME IndInv, CursorsOnHotLists, MakeHot \/ MakeCold
  PROVE  CursorsOnHotLists'
<1>1. CASE UNCHANGED <<lists, cur_cool>>
  BY <1>1, CursorsKept DEF HotGrows
<1>2. CASE ~UNCHANGED <<lists, cur_cool>>
  <2>1. PICK hot, back : MakeHeat(hot, back)
    BY DEF MakeHot, MakeCold
  <2>2. PICK g, from, to :
          /\ g = pol.page
          /\ from = <<TierOf(g), IF page[g].hot THEN "hot" ELSE "cold">>
          /\ to = <<TierOf(g), IF hot THEN "hot" ELSE "cold">>
    OBVIOUS
  <2>3. /\ cur_cool' = CursorAway(g)
        /\ lists' = IF from = to THEN lists
                    ELSE [lists EXCEPT ![from] = RemoveFrom(@, g), ![to] = Enqueue(@, g)]
    BY <1>2, <2>1, <2>2 DEF MakeHeat, Abort, shared, cool
  <2>4. g \in Pages
    BY <2>2 DEF IndInv, TypeOK, LocalsInv, PolicyType, PagesOrNull, MakeHot, MakeCold, PolicyAt
  <2>5. from \in AllLists /\ to \in AllLists
    BY <2>2 DEF AllLists, Tiers, Kinds, TierOf
  <2>6. \A l \in AllLists : lists[l] \in Seq(Pages) /\ Distinct(lists[l])
    BY DEF IndInv, TypeOK, OwnerInv
  <2>7. lists \in [AllLists -> Seq(Pages)]
    BY DEF IndInv, TypeOK
  <2>8. ASSUME NEW l \in AllLists
        PROVE  Elems(lists[l]) \ {g} \subseteq Elems(lists'[l])
    <3>1. CASE from = to
      BY <2>3, <3>1
    <3>2. CASE from # to
      <4>1. lists' = [lists EXCEPT ![from] = RemoveFrom(@, g), ![to] = Enqueue(@, g)]
        BY <2>3, <3>2
      <4>2. /\ lists'[from] = RemoveFrom(lists[from], g) /\ lists'[to] = Enqueue(lists[to], g)
            /\ l \notin {from, to} => lists'[l] = lists[l]
        BY <2>5, <2>7, <3>2, <4>1
      <4>3. Elems(lists[from]) \ {g} \subseteq Elems(lists'[from])
        BY <2>5, <2>6, <4>2, RemoveTakes
      <4>4. Elems(lists[to]) \subseteq Elems(lists'[to])
        BY <2>4, <2>5, <2>6, <4>2, EnqueueAdds
      <4> QED
        BY <4>2, <4>3, <4>4
    <3> QED
      BY <3>1, <3>2
  <2>9. \A t \in Tiers : <<t, "hot">> \in AllLists
    BY DEF AllLists, Kinds
  <2> QED
    BY <2>3, <2>4, <2>8, <2>9, CursorsMove
<1> QED
  BY <1>1, <1>2

\* The page taken for a migration leaves the hot list of NVM, and a cursor
\* on it goes to the other end of what is left.
LEMMA MigrateTakeKeepsCursors ==
  ASSUME IndInv, CursorsOnHotLists, MigrateTake
  PROVE  CursorsOnHotLists'
<1>1. CASE UNCHANGED <<lists, cur_cool>>
  BY <1>1, CursorsKept DEF HotGrows
<1>2. CASE ~UNCHANGED <<lists, cur_cool>>
  <2>1. PICK l, s, g : l = <<"nvm", "hot">> /\ s = lists[l] /\ g = LastOf(s)
    OBVIOUS
  <2>2. /\ s # << >> /\ lists' = [lists EXCEPT ![l] = Dequeue(@)]
        /\ cur_cool' = [cur_cool EXCEPT !["nvm"] = IF @ = g THEN FirstOf(Dequeue(s)) ELSE @]
    BY <1>2, <2>1 DEF MigrateTake
  <2>3. l \in AllLists /\ "nvm" \in Tiers /\ "dram" \in Tiers /\ \A t \in Tiers : t \in {"dram", "nvm"}
    BY <2>1 DEF AllLists, Kinds, Tiers
  <2>4. lists \in [AllLists -> Seq(Pages)] /\ cur_cool \in [Tiers -> PagesOrNull]
    BY DEF IndInv, TypeOK
  <2>5. s \in Seq(Pages) /\ Distinct(s)
    BY <2>1, <2>3 DEF IndInv, TypeOK, OwnerInv
  <2>6. PICK r : r = Dequeue(s)
    OBVIOUS
  <2>7. r \in Seq(Pages) /\ Elems(r) = Elems(s) \ {g}
    BY <2>1, <2>2, <2>5, <2>6, DequeueTakes
  <2>8. lists'[l] = r /\ \A m \in AllLists \ {l} : lists'[m] = lists[m]
    BY <2>1, <2>2, <2>3, <2>4, <2>6
  <2>9. ASSUME cur_cool'["nvm"] # NULL
        PROVE  cur_cool'["nvm"] \in Elems(r)
    <3>1. cur_cool'["nvm"] = IF cur_cool["nvm"] = g THEN FirstOf(r) ELSE cur_cool["nvm"]
      BY <2>2, <2>3, <2>4, <2>6
    <3>2. cur_cool["nvm"] # NULL => cur_cool["nvm"] \in Elems(s)
      BY <2>1, <2>3 DEF CursorsOnHotLists, OnList
    <3> QED
      BY <2>7, <2>9, <3>1, <3>2, EndsListed
  <2>10. ASSUME cur_cool'["dram"] # NULL
         PROVE  cur_cool'["dram"] \in Elems(lists'[<<"dram", "hot">>])
    <3>1. cur_cool'["dram"] = cur_cool["dram"]
      BY <2>2, <2>4
    <3>2. cur_cool["dram"] \in Elems(lists[<<"dram", "hot">>])
      BY <2>3, <2>10, <3>1 DEF CursorsOnHotLists, OnList
    <3>3. <<"dram", "hot">> \in AllLists \ {l}
      BY <2>1 DEF AllLists, Kinds, Tiers
    <3> QED
      BY <2>8, <3>1, <3>2, <3>3
  <2> QED
    BY <2>1, <2>3, <2>8, <2>9, <2>10 DEF CursorsOnHotLists, OnList
<1> QED
  BY <1>1, <1>2

\* The other steps of a migration take no page from a hot list.
LEMMA MigrationKeepsCursors ==
  ASSUME IndInv, CursorsOnHotLists,
         MigrateTest \/ TryDram \/ TakeVictim \/ TakeNvmFrame \/ SwapUp \/ SwapDown
  PROVE  CursorsOnHotLists'
<1>1. UNCHANGED cur_cool
  BY DEF MigrateTest, TryDram, TakeVictim, TakeNvmFrame, SwapUp, SwapDown, Abort, cool
<1> SUFFICES HotGrows
  BY <1>1, CursorsKept
<1>2. pol \in PolicyType /\ LocalsInv
  BY DEF IndInv, TypeOK
<1>3. CASE UNCHANGED lists
  BY <1>3 DEF HotGrows
<1>4. ASSUME NEW l \in {<<"dram", "free">>, <<"nvm", "free">>, <<"dram", "cold">>, <<"nvm", "cold">>},
             NEW s, lists' = [lists EXCEPT ![l] = s]
      PROVE  HotGrows
  <2>1. \A t \in Tiers : l # <<t, "hot">>
    BY <1>4
  <2> QED
    BY <1>4, <2>1, OtherList
<1>5. CASE MigrateTest \/ TryDram \/ TakeNvmFrame
  BY <1>3, <1>4, <1>5 DEF MigrateTest, TryDram, TakeNvmFrame, Abort, shared
<1>6. CASE TakeVictim
  <2>1. CASE lists[<<"dram", "cold">>] = << >>
    <3>1. PICK g, l : g = pol.p /\ l = <<"nvm", "hot">>
      OBVIOUS
    <3>2. lists' = [lists EXCEPT ![l] = Enqueue(@, g)]
      BY <1>6, <2>1, <3>1 DEF TakeVictim
    <3>3. g \in Pages
      BY <1>2, <1>6, <3>1 DEF TakeVictim, PolicyAt, PolicyType, PagesOrNull, LocalsInv
    <3>4. l \in AllLists
      BY <3>1 DEF AllLists, Kinds, Tiers
    <3> QED
      BY <3>2, <3>3, <3>4, ListGrows
  <2>2. CASE lists[<<"dram", "cold">>] # << >>
    BY <1>4, <1>6, <2>2 DEF TakeVictim
  <2> QED
    BY <2>1, <2>2
<1>7. CASE SwapUp \/ SwapDown
  <2>1. PICK g, h, l, m : /\ BothPut(l, g, m, h) /\ h = pol.np
                          /\ \/ g = pol.p /\ pol.pc = "swap up"
                             \/ g = pol.cp /\ pol.pc = "swap down"
                          /\ l \in {<<"dram", "hot">>, <<"nvm", "cold">>}
                          /\ m \in {<<"dram", "free">>, <<"nvm", "free">>}
    BY <1>7 DEF SwapUp, SwapDown, BothPut, PolicyAt
  <2>2. g \in PagesOrNull /\ h \in PagesOrNull
    BY <1>2, <2>1 DEF PolicyType
  <2>3. l \in AllLists /\ m \in AllLists /\ l # m /\ \A t \in Tiers : <<t, "hot">> # m
    <3>1. /\ l \in {<<"dram", "hot">>, <<"nvm", "cold">>}
          /\ m \in {<<"dram", "free">>, <<"nvm", "free">>}
      BY <2>1
    <3>2. l \in AllLists /\ m \in AllLists
      BY <3>1 DEF AllLists, Kinds, Tiers
    <3>3. l # m
      BY <3>1
    <3>4. \A t \in Tiers : <<t, "hot">> # m
      BY <3>1
    <3> QED
      BY <3>2, <3>3, <3>4
  <2>4. lists \in [AllLists -> Seq(Pages)]
    BY DEF IndInv, TypeOK
  <2>5. lists'[l] = Enqueue(lists[l], g) /\ \A n \in AllLists \ {l, m} : lists'[n] = lists[n]
    BY <2>1, <2>3, <2>4 DEF BothPut
  <2>6. g \in Pages
    BY <1>2, <2>1, <2>2 DEF LocalsInv, PagesOrNull
  <2>7. Elems(lists[l]) \subseteq Elems(lists'[l])
    BY <2>3, <2>4, <2>5, <2>6, EnqueueAdds
  <2>8. \A t \in Tiers : <<t, "hot">> \in AllLists
    BY DEF AllLists, Kinds
  <2> QED
    BY <2>3, <2>5, <2>7, <2>8 DEF HotGrows
<1> QED
  BY <1>5, <1>6, <1>7

\* The cursor stops at the page it has looked at, or before it if the page
\* has gone to the cold list.
LEMMA CoolingKeepsCursors ==
  ASSUME IndInv, CursorsOnHotLists, CoolStart \/ CoolPage
  PROVE  CursorsOnHotLists'
<1>1. CASE UNCHANGED <<lists, cur_cool>>
  BY <1>1, CursorsKept DEF HotGrows
<1>2. CASE ~UNCHANGED <<lists, cur_cool>>
  <2>1. PICK t, l, m : t = pol.tier /\ l = <<t, "hot">> /\ m = <<t, "cold">>
    OBVIOUS
  <2>2. PICK s, g : s = lists[l] /\ g = CoolTarget(t)
    OBVIOUS
  <2>3. CoolOne(t, g) /\ g # NULL
    BY <1>2, <2>1, <2>2 DEF CoolStart, CoolPage, CoolLeave, cool
  <2>4. PICK hot \in BOOLEAN :
          /\ cur_cool' = [cur_cool EXCEPT ![t] = IF hot THEN g ELSE NextIn(s, g)]
          /\ lists' = IF hot THEN lists
                      ELSE [lists EXCEPT ![l] = RemoveFrom(@, g), ![m] = Enqueue(@, g)]
    BY <2>1, <2>2, <2>3 DEF CoolOne
  <2>5. t \in Tiers
    BY <2>1 DEF IndInv, TypeOK, PolicyType
  <2>6. l \in AllLists /\ m \in AllLists /\ l # m /\ \A u \in Tiers : <<u, "hot">> # m
    BY <2>1, <2>5 DEF AllLists, Kinds
  <2>7. lists \in [AllLists -> Seq(Pages)] /\ cur_cool \in [Tiers -> PagesOrNull]
    BY DEF IndInv, TypeOK
  <2>8. s \in Seq(Pages) /\ Distinct(s)
    BY <2>2, <2>6 DEF IndInv, TypeOK, OwnerInv
  <2>9. g \in Elems(s)
    <3>1. g = IF cur_cool[t] = NULL THEN LastOf(s) ELSE PrevIn(s, cur_cool[t])
      BY <2>1, <2>2 DEF CoolTarget
    <3>2. cur_cool[t] # NULL => cur_cool[t] \in Elems(s)
      BY <2>1, <2>2, <2>5 DEF CursorsOnHotLists, OnList
    <3> QED
      BY <2>3, <2>8, <3>1, <3>2, NeighboursListed, EndsListed
  <2>10. ASSUME cur_cool'[t] # NULL
         PROVE  cur_cool'[t] \in Elems(lists'[l])
    <3>1. CASE hot
      BY <2>2, <2>4, <2>5, <2>7, <2>9, <3>1
    <3>2. CASE ~hot
      <4>1. cur_cool'[t] = NextIn(s, g)
        BY <2>4, <2>5, <2>7, <3>2
      <4>2. lists'[l] = RemoveFrom(s, g)
        BY <2>2, <2>4, <2>6, <2>7, <3>2
      <4> QED
        BY <2>8, <2>9, <2>10, <4>1, <4>2, NeighboursListed, RemoveTakes
    <3> QED
      BY <3>1, <3>2
  <2>11. ASSUME NEW u \in Tiers \ {t}, cur_cool'[u] # NULL
         PROVE  cur_cool'[u] \in Elems(lists'[<<u, "hot">>])
    <3>1. cur_cool'[u] = cur_cool[u]
      BY <2>4, <2>7
    <3>2. cur_cool[u] \in Elems(lists[<<u, "hot">>])
      BY <2>11, <3>1 DEF CursorsOnHotLists, OnList
    <3>3. PICK n : n = <<u, "hot">>
      OBVIOUS
    <3>4. n \in AllLists \ {l, m}
      BY <2>1, <3>3 DEF AllLists, Kinds
    <3>5. lists'[n] = lists[n]
      BY <2>4, <2>7, <3>4
    <3> QED
      BY <3>1, <3>2, <3>3, <3>5
  <2> QED
    BY <2>1, <2>10, <2>11 DEF CursorsOnHotLists, OnList
<1> QED
  BY <1>1, <1>2

\* next_page never follows a page that has left its hot list: whatever
\* overlaps with what, each cooling cursor of partial_cool is on the hot list
\* of its tier.
THEOREM CursorsStay == Spec => []CursorsOnHotLists
<1>1. Init => CursorsOnHotLists
  BY DEF Init, InitThreads, CursorsOnHotLists
<1>2. ASSUME IndInv, CursorsOnHotLists, [Next]_vars
      PROVE  CursorsOnHotLists'
  <2>1. CASE Quiet
    BY <1>2, <2>1, CursorsKept DEF Quiet, HotGrows
  <2>2. ASSUME NEW a \in Apps, AppActs(a)
        PROVE  CursorsOnHotLists'
    BY <1>2, <2>2, AppKeepsCursors
  <2>3. CASE PolicyWake \/ FreeTake \/ HotTake \/ ColdTake \/ RemapUp \/ RemapDown
    <3>1. UNCHANGED <<lists, cur_cool>>
      BY <2>3 DEF PolicyWake, FreeTake, HotTake, ColdTake, RemapUp, RemapDown, Remap, Abort,
                  shared, cool
    <3> QED
      BY <1>2, <3>1, CursorsKept DEF HotGrows
  <2>4. CASE Policy
    BY <1>2, <2>3, <2>4, ReleaseKeepsCursors, HeatKeepsCursors, MigrateTakeKeepsCursors,
       MigrationKeepsCursors, CoolingKeepsCursors DEF Policy
  <2> QED
    BY <1>2, <2>1, <2>2, <2>3, <2>4, WhoActs
<1> QED
  BY <1>1, <1>2, Invariance, PTL DEF Spec

-----------------------------------------------------------------------------
(* The steps as moves of a page.                                           *)

\* A page leaves the lists; a page comes to a list and leaves the others.
TakenOff(g) == \A l \in AllLists : Members'[l] = Members[l] \ {g}
PutOn(g, l) ==
  /\ l \in AllLists /\ Members'[l] = Members[l] \cup {g}
  /\ \A m \in AllLists \ {l} : Members'[m] = Members[m] \ {g}

LEMMA TakeEffect ==
  ASSUME IndInv, NEW l \in AllLists, lists[l] # << >>, NEW g, g = LastOf(lists[l]),
         lists' = [lists EXCEPT ![l] = Dequeue(@)]
  PROVE  g \in Pages /\ g \in Members[l] /\ TakenOff(g)
<1>1. ListsType /\ Apart(Members, InHand)
  BY DEF IndInv, TypeOK, OwnerInv, ListsType
<1>2. g \in Pages /\ g \in Members[l] /\ Members' = [Members EXCEPT ![l] = @ \ {g}]
  BY <1>1, TakeLast
<1>3. DOMAIN Members = AllLists /\ \A m \in AllLists \ {l} : g \notin Members[m]
  BY <1>1, <1>2 DEF Members, Apart
<1>4. ASSUME NEW m \in AllLists
      PROVE  Members'[m] = Members[m] \ {g}
  BY <1>2, <1>3
<1> QED
  BY <1>2, <1>4 DEF TakenOff

LEMMA PutEffect ==
  ASSUME IndInv, NEW l \in AllLists, NEW g \in Pages, g \in InHand,
         lists' = [lists EXCEPT ![l] = Enqueue(@, g)]
  PROVE  PutOn(g, l)
<1>1. ListsType /\ Apart(Members, InHand)
  BY DEF IndInv, TypeOK, OwnerInv, ListsType
<1>2. \A m \in AllLists : g \notin Members[m]
  BY <1>1 DEF Apart
<1>3. g \notin Members[l]
  BY <1>2
<1>4. Members' = [Members EXCEPT ![l] = @ \cup {g}]
  BY <1>1, <1>3, PutFirst
<1>5. DOMAIN Members = AllLists
  BY DEF Members
<1> QED
  BY <1>2, <1>4, <1>5 DEF PutOn

LEMMA MoveEffect ==
  ASSUME IndInv, NEW l \in AllLists, NEW m \in AllLists, NEW g \in Pages, g \in Members[l],
         IF l = m THEN lists' = lists ELSE Moves(l, m, g)
  PROVE  PutOn(g, m)
<1>1. ListsType /\ Apart(Members, InHand)
  BY DEF IndInv, TypeOK, OwnerInv, ListsType
<1>2. \A n \in AllLists : g \in Members[n] => n = l
  BY <1>1 DEF Apart
<1>3. DOMAIN Members = AllLists
  BY DEF Members
<1>4. CASE l = m
  <2>1. Members' = Members
    BY <1>4 DEF Members
  <2> QED
    BY <1>2, <1>4, <2>1 DEF PutOn
<1>5. CASE l # m
  <2>1. g \notin Members[m]
    BY <1>2, <1>5
  <2>2. Members' = [Members EXCEPT ![l] = @ \ {g}, ![m] = @ \cup {g}]
    BY <1>1, <1>5, <2>1, MoveTo
  <2>3. Members'[m] = Members[m] \cup {g}
    BY <1>3, <2>2
  <2>4. ASSUME NEW n \in AllLists \ {m}
        PROVE  Members'[n] = Members[n] \ {g}
    BY <1>2, <1>3, <2>2
  <2> QED
    BY <2>3, <2>4 DEF PutOn
<1> QED
  BY <1>4, <1>5

\* A page is on a list or in the hands of a thread.
Placed(p) == p \in InHand \/ \E l \in AllLists : p \in Members[l]
Stays == \A p \in Pages : Placed(p) => Placed(p)'

\* Nothing moves.
LEMMA PlacesKept ==
  ASSUME UNCHANGED lists, InHand \subseteq InHand'
  PROVE  Stays
<1>1. Members' = Members
  BY DEF Members
<1> QED
  BY <1>1 DEF Stays, Placed

\* A page goes from a list to somebody's hands ...
LEMMA PlacesTaken ==
  ASSUME NEW g, TakenOff(g), InHand \cup {g} \subseteq InHand'
  PROVE  Stays
BY DEF Stays, Placed, TakenOff

\* ... from somebody's hands to a list, or from list to list.
LEMMA PlacesPut ==
  ASSUME NEW g, NEW l, PutOn(g, l), InHand \ {g} \subseteq InHand'
  PROVE  Stays
<1>1. ASSUME NEW p \in Pages, Placed(p)
      PROVE  Placed(p)'
  <2>1. CASE p = g
    BY <2>1 DEF Placed, PutOn
  <2>2. CASE p # g /\ p \in InHand
    BY <2>2 DEF Placed
  <2>3. ASSUME p # g, NEW m \in AllLists, p \in Members[m]
        PROVE  Placed(p)'
    <3>1. p \in Members'[m]
      BY <2>3 DEF PutOn
    <3> QED
      BY <3>1 DEF Placed
  <2> QED
    BY <1>1, <2>1, <2>2, <2>3 DEF Placed
<1> QED
  BY <1>1 DEF Stays

\* The flags of a page structure that the lists depend on.
KeepsFlags(p) ==
  /\ page'[p].frame = page[p].frame
  /\ page'[p].present = page[p].present /\ page'[p].hot = page[p].hot

\* The page and the place of the policy thread after a step.
PolicyNow(pc, p, np, cp) == pol'.pc = pc /\ pol'.p = p /\ pol'.np = np /\ pol'.cp = cp

\* No page structure, list, hand or free ring changes.
Idles ==
  /\ UNCHANGED <<lists, free_page_ring>> /\ \A p \in Pages : KeepsFlags(p)
  /\ pol'.p = pol.p /\ pol'.np = pol.np /\ pol'.cp = pol.cp

LEMMA AbortIdles ==
  ASSUME UNCHANGED <<shared, rings, cool, threads>>
  PROVE  Idles /\ UNCHANGED pol
BY DEF Idles, KeepsFlags, shared, rings, threads

LEMMA ReleaseDoes ==
  ASSUME IndInv, FreeRelease
  PROVE  \/ Idles /\ UNCHANGED pol
         \/ /\ PutOn(pol.page, <<TierOf(pol.page), "free">>) /\ pol.page \in Pages
            /\ UNCHANGED <<page, free_page_ring>> /\ PolicyNow("free", NULL, NULL, NULL)
<1>1. pol \in PolicyType /\ LocalsInv /\ ListsType /\ Apart(Members, InHand) /\ pol.pc = "release"
  BY DEF IndInv, TypeOK, OwnerInv, ListsType, FreeRelease, PolicyAt
<1>2. PICK g, m : g = pol.page /\ m = <<TierOf(g), "free">>
  OBVIOUS
<1>3. g \in Pages /\ m \in AllLists
  BY <1>1, <1>2 DEF LocalsInv, PolicyType, PagesOrNull, AllLists, Tiers, Kinds, TierOf
<1>4. CASE UNCHANGED <<shared, rings, cool, threads>>
  BY <1>4, AbortIdles
<1>5. CASE ~UNCHANGED <<shared, rings, cool, threads>>
  <2>1. /\ pol' = [pol EXCEPT !.pc = "free", !.page = NULL]
        /\ UNCHANGED <<page, rings>>
        /\ lists' = [l \in AllLists |-> IF l = m THEN Enqueue(RemoveFrom(lists[l], g), g)
                                        ELSE RemoveFrom(lists[l], g)]
    BY <1>2, <1>5 DEF FreeRelease, Abort
  <2>2. Members' = [l \in AllLists |-> IF l = m THEN Members[l] \cup {g} ELSE Members[l] \ {g}]
    BY <1>1, <1>3, <2>1, MoveHome
  <2>3. PutOn(g, m)
    BY <1>3, <2>2 DEF PutOn
  <2>4. PolicyNow("free", NULL, NULL, NULL)
    BY <1>1, <2>1 DEF PolicyNow, PolicyType, LocalsInv
  <2> QED
    BY <1>2, <1>3, <2>1, <2>3, <2>4 DEF rings
<1> QED
  BY <1>4, <1>5

HotOrCold(hot) == IF hot THEN "hot" ELSE "cold"

LEMMA HeatDoes ==
  ASSUME IndInv, MakeHot \/ MakeCold
  PROVE  \/ Idles /\ UNCHANGED pol
         \/ \E g \in Pages, hot \in BOOLEAN :
              /\ OnList(g, <<TierOf(g), HotOrCold(page[g].hot)>>)
              /\ PutOn(g, <<TierOf(g), HotOrCold(hot)>>)
              /\ page'[g].hot = hot
              /\ page'[g].frame = page[g].frame /\ page'[g].present = page[g].present
              /\ \A q \in Pages \ {g} : KeepsFlags(q)
              /\ UNCHANGED free_page_ring
              /\ \E pc \in {"hot", "cold"} : PolicyNow(pc, NULL, NULL, NULL)
<1>1. /\ pol \in PolicyType /\ LocalsInv /\ page \in [Pages -> PageType]
      /\ pol.pc \in {"make hot", "make cold"}
  BY DEF IndInv, TypeOK, MakeHot, MakeCold, PolicyAt
<1>2. PICK hot \in BOOLEAN, back \in {"hot", "cold"} : MakeHeat(hot, back)
  BY DEF MakeHot, MakeCold
<1>3. PICK g, from, to :
        /\ g = pol.page
        /\ from = <<TierOf(g), HotOrCold(page[g].hot)>>
        /\ to = <<TierOf(g), HotOrCold(hot)>>
  OBVIOUS
<1>4. CASE UNCHANGED <<shared, rings, cool, threads>>
  BY <1>4, AbortIdles
<1>5. CASE ~UNCHANGED <<shared, rings, cool, threads>>
  <2>1. /\ OnList(g, from)
        /\ page' = [page EXCEPT ![g].ring_present = FALSE, ![g].hot = hot]
        /\ lists' = IF from = to THEN lists
                    ELSE [lists EXCEPT ![from] = RemoveFrom(@, g), ![to] = Enqueue(@, g)]
        /\ pol' = [pol EXCEPT !.pc = back, !.page = NULL]
        /\ UNCHANGED rings
    BY <1>2, <1>3, <1>5 DEF MakeHeat, Abort, HotOrCold
  <2>2. g \in Pages
    BY <1>1, <1>3 DEF LocalsInv, PolicyType, PagesOrNull
  <2>3. from \in AllLists /\ to \in AllLists
    BY <1>3 DEF AllLists, Tiers, Kinds, TierOf, HotOrCold
  <2>4. g \in Members[from]
    BY <2>1, <2>3 DEF OnList, Members
  <2>5. IF from = to THEN lists' = lists ELSE Moves(from, to, g)
    BY <2>1 DEF Moves
  <2>6. PutOn(g, to)
    BY <2>2, <2>3, <2>4, <2>5, MoveEffect
  <2>7. PolicyNow(back, NULL, NULL, NULL)
    BY <1>1, <2>1 DEF PolicyNow, PolicyType, LocalsInv
  <2>8. /\ page'[g].hot = hot
        /\ page'[g].frame = page[g].frame /\ page'[g].present = page[g].present
        /\ \A q \in Pages \ {g} : KeepsFlags(q)
    <3>1. page' = [page EXCEPT ![g] = [page[g] EXCEPT !.ring_present = FALSE, !.hot = hot]]
      BY <1>1, <2>1, <2>2
    <3>2. page[g] \in PageType
      BY <1>1, <2>2
    <3>3. \A q \in Pages \ {g} : page'[q] = page[q]
      BY <1>1, <3>1
    <3>4. page'[g] = [page[g] EXCEPT !.ring_present = FALSE, !.hot = hot]
      BY <1>1, <2>2, <3>1
    <3> QED
      BY <3>2, <3>3, <3>4 DEF KeepsFlags, PageType
  <2> QED
    BY <1>3, <2>1, <2>2, <2>6, <2>7, <2>8 DEF rings
<1> QED
  BY <1>4, <1>5

LEMMA MigrateTakeDoes ==
  ASSUME IndInv, MigrateTake
  PROVE  \/ Idles /\ pol'.pc = "cool"
         \/ \E g \in Pages :
              /\ g \in Members[<<"nvm", "hot">>] /\ TakenOff(g)
              /\ UNCHANGED <<page, free_page_ring>> /\ PolicyNow("test", g, NULL, NULL)
<1>1. pol \in PolicyType /\ LocalsInv /\ pol.pc = "migrate" /\ UNCHANGED <<page, rings>>
  BY DEF IndInv, TypeOK, MigrateTake, PolicyAt
<1>2. PICK l, s, g : l = <<"nvm", "hot">> /\ s = lists[l] /\ g = LastOf(s)
  OBVIOUS
<1>3. l \in AllLists
  BY <1>2 DEF AllLists, Kinds, Tiers
<1>4. CASE pol.n >= MigrateRate \/ s = << >>
  <2>1. pol' = [pol EXCEPT !.pc = "cool", !.n = 0] /\ UNCHANGED lists
    BY <1>2, <1>4 DEF MigrateTake
  <2>2. pol'.pc = "cool" /\ UNCHANGED <<pol.p, pol.np, pol.cp>>
    BY <1>1, <2>1 DEF PolicyType
  <2> QED
    BY <1>1, <2>1, <2>2 DEF Idles, KeepsFlags, rings
<1>5. CASE ~(pol.n >= MigrateRate \/ s = << >>)
  <2>1. /\ lists[l] # << >> /\ g = LastOf(lists[l]) /\ lists' = [lists EXCEPT ![l] = Dequeue(@)]
        /\ pol' = [pol EXCEPT !.pc = "test", !.p = g]
    BY <1>2, <1>5 DEF MigrateTake
  <2>2. g \in Pages /\ g \in Members[l] /\ TakenOff(g)
    BY <1>3, <2>1, TakeEffect
  <2>3. PolicyNow("test", g, NULL, NULL)
    BY <1>1, <2>1 DEF PolicyNow, PolicyType, LocalsInv
  <2> QED
    BY <1>1, <1>2, <2>2, <2>3 DEF rings
<1> QED
  BY <1>4, <1>5

LEMMA MigrateTestDoes ==
  ASSUME IndInv, MigrateTest
  PROVE  /\ pol.p \in Pages
         /\ \/ Idles /\ PolicyNow("try", pol.p, NULL, NULL)
            \/ /\ PutOn(pol.p, <<"nvm", "cold">>) /\ ~page'[pol.p].hot
               /\ page'[pol.p].frame = page[pol.p].frame
               /\ page'[pol.p].present = page[pol.p].present
               /\ \A q \in Pages \ {pol.p} : KeepsFlags(q)
               /\ UNCHANGED free_page_ring /\ PolicyNow("migrate", NULL, NULL, NULL)
<1>1. /\ pol \in PolicyType /\ LocalsInv /\ pol.pc = "test" /\ UNCHANGED rings
      /\ page \in [Pages -> PageType]
  BY DEF IndInv, TypeOK, MigrateTest, PolicyAt
<1>2. PICK l, g : l = <<"nvm", "cold">> /\ g = pol.p
  OBVIOUS
<1>3. l \in AllLists /\ g \in Pages /\ g \in InHand
  <2>1. g # NULL
    BY <1>1, <1>2 DEF LocalsInv
  <2> QED
    BY <1>1, <1>2, <2>1 DEF AllLists, Kinds, Tiers, PolicyType, PagesOrNull, InHand, PolicyHands
<1>4. CASE page[g].warm
  <2>1. pol' = [pol EXCEPT !.pc = "try"] /\ UNCHANGED <<page, lists>>
    BY <1>2, <1>4 DEF MigrateTest
  <2>2. PolicyNow("try", g, NULL, NULL) /\ UNCHANGED <<pol.p, pol.np, pol.cp>>
    BY <1>1, <1>2, <2>1 DEF PolicyNow, PolicyType, LocalsInv
  <2> QED
    BY <1>1, <1>2, <1>3, <2>1, <2>2 DEF Idles, KeepsFlags, rings
<1>5. CASE ~page[g].warm
  <2>1. /\ page' = [page EXCEPT ![g].hot = FALSE] /\ lists' = [lists EXCEPT ![l] = Enqueue(@, g)]
        /\ pol' = [pol EXCEPT !.pc = "migrate", !.p = NULL]
    BY <1>2, <1>5 DEF MigrateTest
  <2>2. PutOn(g, l)
    BY <1>3, <2>1, PutEffect
  <2>3. PolicyNow("migrate", NULL, NULL, NULL)
    BY <1>1, <2>1 DEF PolicyNow, PolicyType, LocalsInv
  <2>4. /\ ~page'[g].hot /\ page'[g].frame = page[g].frame /\ page'[g].present = page[g].present
        /\ \A q \in Pages \ {g} : KeepsFlags(q)
    BY <1>1, <1>3, <2>1 DEF KeepsFlags, PageType
  <2> QED
    BY <1>1, <1>2, <1>3, <2>2, <2>3, <2>4 DEF rings
<1> QED
  BY <1>4, <1>5

\* Two demotions were made for the page in hand, and the loop ends.
LastTry == pol.pc = "try" /\ pol.tries = 2

LEMMA TryDramDoes ==
  ASSUME IndInv, ~LastTry, TryDram
  PROVE  \/ Idles /\ PolicyNow("victim", pol.p, NULL, NULL)
         \/ \E g \in Pages :
              /\ g \in Members[<<"dram", "free">>] /\ TakenOff(g)
              /\ UNCHANGED <<page, free_page_ring>> /\ PolicyNow("up", pol.p, g, NULL)
<1>1. pol \in PolicyType /\ LocalsInv /\ pol.pc = "try" /\ UNCHANGED <<page, rings>>
  BY DEF IndInv, TypeOK, TryDram, PolicyAt
<1>2. PICK l, s, g : l = <<"dram", "free">> /\ s = lists[l] /\ g = LastOf(s)
  OBVIOUS
<1>3. l \in AllLists
  BY <1>2 DEF AllLists, Kinds, Tiers
<1>4. pol.tries # 2
  BY <1>1 DEF LastTry
<1>5. CASE s = << >>
  <2>1. pol' = [pol EXCEPT !.pc = "victim"] /\ UNCHANGED lists
    BY <1>2, <1>4, <1>5 DEF TryDram
  <2>2. PolicyNow("victim", pol.p, NULL, NULL) /\ UNCHANGED <<pol.p, pol.np, pol.cp>>
    BY <1>1, <2>1 DEF PolicyNow, PolicyType, LocalsInv
  <2> QED
    BY <1>1, <2>1, <2>2 DEF Idles, KeepsFlags, rings
<1>6. CASE s # << >>
  <2>1. /\ lists[l] # << >> /\ g = LastOf(lists[l]) /\ lists' = [lists EXCEPT ![l] = Dequeue(@)]
        /\ pol' = [pol EXCEPT !.pc = "up", !.np = g]
    BY <1>2, <1>4, <1>6 DEF TryDram
  <2>2. g \in Pages /\ g \in Members[l] /\ TakenOff(g)
    BY <1>3, <2>1, TakeEffect
  <2>3. PolicyNow("up", pol.p, g, NULL)
    BY <1>1, <2>1 DEF PolicyNow, PolicyType, LocalsInv
  <2> QED
    BY <1>1, <1>2, <2>2, <2>3 DEF rings
<1> QED
  BY <1>5, <1>6

LEMMA TakeVictimDoes ==
  ASSUME IndInv, TakeVictim
  PROVE  /\ pol.p \in Pages /\ UNCHANGED <<page, free_page_ring>>
         /\ \/ PutOn(pol.p, <<"nvm", "hot">>) /\ PolicyNow("sleep", NULL, NULL, NULL)
            \/ \E g \in Pages :
                 /\ g \in Members[<<"dram", "cold">>] /\ TakenOff(g)
                 /\ PolicyNow("frame", pol.p, NULL, g)
<1>1. pol \in PolicyType /\ LocalsInv /\ pol.pc = "victim" /\ UNCHANGED <<page, rings>>
  BY DEF IndInv, TypeOK, TakeVictim, PolicyAt
<1>2. PICK l, s, g, m, p :
        l = <<"dram", "cold">> /\ s = lists[l] /\ g = LastOf(s) /\ m = <<"nvm", "hot">> /\ p = pol.p
  OBVIOUS
<1>3. l \in AllLists /\ m \in AllLists
  BY <1>2 DEF AllLists, Kinds, Tiers
<1>4. p \in Pages /\ p \in InHand
  <2>1. p # NULL
    BY <1>1, <1>2 DEF LocalsInv
  <2> QED
    BY <1>1, <1>2, <2>1 DEF PolicyType, PagesOrNull, InHand, PolicyHands
<1>5. CASE s = << >>
  <2>1. /\ lists' = [lists EXCEPT ![m] = Enqueue(@, p)]
        /\ pol' = [pol EXCEPT !.pc = "sleep", !.p = NULL, !.n = 0, !.tries = 0]
    BY <1>2, <1>5 DEF TakeVictim
  <2>2. PutOn(p, m)
    BY <1>3, <1>4, <2>1, PutEffect
  <2>3. PolicyNow("sleep", NULL, NULL, NULL)
    BY <1>1, <2>1 DEF PolicyNow, PolicyType, LocalsInv
  <2> QED
    BY <1>1, <1>2, <1>4, <2>2, <2>3 DEF rings
<1>6. CASE s # << >>
  <2>1. /\ lists[l] # << >> /\ g = LastOf(lists[l]) /\ lists' = [lists EXCEPT ![l] = Dequeue(@)]
        /\ pol' = [pol EXCEPT !.pc = "frame", !.cp = g]
    BY <1>2, <1>6 DEF TakeVictim
  <2>2. g \in Pages /\ g \in Members[l] /\ TakenOff(g)
    BY <1>3, <2>1, TakeEffect
  <2>3. PolicyNow("frame", pol.p, NULL, g)
    BY <1>1, <2>1 DEF PolicyNow, PolicyType, LocalsInv
  <2> QED
    BY <1>1, <1>2, <1>4, <2>2, <2>3 DEF rings
<1> QED
  BY <1>5, <1>6

LEMMA TakeNvmFrameDoes ==
  ASSUME IndInv, TakeNvmFrame
  PROVE  \/ Idles /\ UNCHANGED pol
         \/ \E g \in Pages :
              /\ g \in Members[<<"nvm", "free">>] /\ TakenOff(g)
              /\ UNCHANGED <<page, free_page_ring>> /\ PolicyNow("down", pol.p, g, pol.cp)
<1>1. pol \in PolicyType /\ LocalsInv /\ pol.pc = "frame"
  BY DEF IndInv, TypeOK, TakeNvmFrame, PolicyAt
<1>2. PICK l, s, g : l = <<"nvm", "free">> /\ s = lists[l] /\ g = LastOf(s)
  OBVIOUS
<1>3. l \in AllLists
  BY <1>2 DEF AllLists, Kinds, Tiers
<1>4. CASE s = << >>
  BY <1>2, <1>4, AbortIdles DEF TakeNvmFrame, Abort
<1>5. CASE s # << >>
  <2>1. /\ lists[l] # << >> /\ g = LastOf(lists[l]) /\ lists' = [lists EXCEPT ![l] = Dequeue(@)]
        /\ pol' = [pol EXCEPT !.pc = "down", !.np = g] /\ UNCHANGED <<page, rings>>
    BY <1>2, <1>5 DEF TakeNvmFrame
  <2>2. g \in Pages /\ g \in Members[l] /\ TakenOff(g)
    BY <1>3, <2>1, TakeEffect
  <2>3. PolicyNow("down", pol.p, g, pol.cp)
    BY <1>1, <2>1 DEF PolicyNow, PolicyType, LocalsInv
  <2> QED
    BY <1>2, <2>1, <2>2, <2>3 DEF rings
<1> QED
  BY <1>4, <1>5

\* The end of a migration: the pages g and h go to the lists l and m, and
\* exchange their frames.
Swaps(g, h, l, m) ==
  /\ g \in Pages /\ h \in Pages /\ g # h /\ l # m /\ l \in AllLists /\ m \in AllLists
  /\ \A n \in AllLists : g \notin Members[n] /\ h \notin Members[n]
  /\ Members'[l] = Members[l] \cup {g} /\ Members'[m] = Members[m] \cup {h}
  /\ \A n \in AllLists \ {l, m} : Members'[n] = Members[n]
  /\ page'[g].frame = page[h].frame /\ page'[h].frame = page[g].frame
  /\ page'[g].present = page[g].present /\ page'[g].hot = page[g].hot
  /\ ~page'[h].present /\ ~page'[h].hot
  /\ \A q \in Pages \ {g, h} : KeepsFlags(q)

LEMMA SwapEffect ==
  ASSUME IndInv, NEW g \in Pages, NEW h \in Pages, h = pol.np, g \in {pol.p, pol.cp}, g # h,
         NEW l \in AllLists, NEW m \in AllLists, l # m, BothPut(l, g, m, h), page' = Swapped(g)
  PROVE  Swaps(g, h, l, m)
<1>1. ListsType /\ Apart(Members, InHand) /\ page \in [Pages -> PageType]
  BY DEF IndInv, TypeOK, OwnerInv, ListsType
<1>2. g \in InHand /\ h \in InHand
  BY PolicyAssumption DEF InHand, PolicyHands, Pages
<1>3. \A n \in AllLists : g \notin Members[n] /\ h \notin Members[n]
  BY <1>1, <1>2 DEF Apart
<1>4. g \notin Members[l] /\ h \notin Members[m]
  BY <1>3
<1>5. Members' = [Members EXCEPT ![l] = @ \cup {g}, ![m] = @ \cup {h}]
  BY <1>1, <1>4, PutTwo
<1>6. DOMAIN Members = AllLists
  BY DEF Members
<1>7. /\ Members'[l] = Members[l] \cup {g} /\ Members'[m] = Members[m] \cup {h}
      /\ \A n \in AllLists \ {l, m} : Members'[n] = Members[n]
  BY <1>5, <1>6
<1>8. PICK x : x = [page[h] EXCEPT !.frame = page[g].frame, !.present = FALSE, !.hot = FALSE,
                                   !.warm = FALSE]
  OBVIOUS
<1>9. page' = [page EXCEPT ![g].frame = page[h].frame, ![h] = x]
  BY <1>1, <1>8 DEF Swapped
<1>10. page'[h] = x /\ page'[g] = [page[g] EXCEPT !.frame = page[h].frame]
       /\ \A q \in Pages \ {g, h} : page'[q] = page[q]
  BY <1>1, <1>9
<1>11. page[g] \in PageType /\ page[h] \in PageType
  BY <1>1
<1>12. x.frame = page[g].frame /\ ~x.present /\ ~x.hot
  BY <1>8, <1>11 DEF PageType
<1>13. /\ page'[g].frame = page[h].frame
       /\ page'[g].present = page[g].present /\ page'[g].hot = page[g].hot
  BY <1>10, <1>11 DEF PageType
<1> QED
  BY <1>3, <1>7, <1>10, <1>12, <1>13 DEF Swaps, KeepsFlags

LEMMA SwapUpDoes ==
  ASSUME IndInv, SwapUp
  PROVE  /\ Swaps(pol.p, pol.np, <<"dram", "hot">>, <<"nvm", "free">>)
         /\ UNCHANGED free_page_ring /\ PolicyNow("migrate", NULL, NULL, NULL)
<1>1. pol \in PolicyType /\ LocalsInv /\ HandsInv /\ pol.pc = "swap up" /\ UNCHANGED rings
  BY DEF IndInv, TypeOK, OwnerInv, SwapUp, PolicyAt
<1>2. PICK g, h, l, m : g = pol.p /\ h = pol.np /\ l = <<"dram", "hot">> /\ m = <<"nvm", "free">>
  OBVIOUS
<1>3. g # NULL /\ h # NULL
  BY <1>1, <1>2 DEF LocalsInv
<1>4. g \in Pages /\ h \in Pages /\ g # h
  BY <1>1, <1>2, <1>3 DEF PolicyType, PagesOrNull, HandsInv
<1>5. l \in AllLists /\ m \in AllLists /\ l # m
  BY <1>2 DEF AllLists, Kinds, Tiers
<1>6. BothPut(l, g, m, h) /\ page' = Swapped(g)
  BY <1>2 DEF SwapUp, BothPut
<1>7. Swaps(g, h, l, m)
  BY <1>2, <1>4, <1>5, <1>6, SwapEffect
<1>8. PICK k : k = pol.n + 1
  OBVIOUS
<1>9. pol' = [pol EXCEPT !.pc = "migrate", !.n = k, !.p = NULL, !.np = NULL, !.tries = 0]
  BY <1>8 DEF SwapUp
<1>10. PolicyNow("migrate", NULL, NULL, NULL)
  BY <1>1, <1>9 DEF PolicyNow, PolicyType, LocalsInv
<1> QED
  BY <1>1, <1>2, <1>7, <1>10 DEF rings

LEMMA SwapDownDoes ==
  ASSUME IndInv, SwapDown
  PROVE  /\ Swaps(pol.cp, pol.np, <<"nvm", "cold">>, <<"dram", "free">>)
         /\ pol.p \in Pages \ {pol.cp, pol.np}
         /\ UNCHANGED free_page_ring /\ PolicyNow("try", pol.p, NULL, NULL)
<1>1. pol \in PolicyType /\ LocalsInv /\ HandsInv /\ pol.pc = "swap down" /\ UNCHANGED rings
  BY DEF IndInv, TypeOK, OwnerInv, SwapDown, PolicyAt
<1>2. PICK g, h, l, m : g = pol.cp /\ h = pol.np /\ l = <<"nvm", "cold">> /\ m = <<"dram", "free">>
  OBVIOUS
<1>3. g # NULL /\ h # NULL /\ pol.p # NULL
  BY <1>1, <1>2 DEF LocalsInv
<1>4. g \in Pages /\ h \in Pages /\ g # h /\ pol.p \in Pages \ {g, h}
  BY <1>1, <1>2, <1>3 DEF PolicyType, PagesOrNull, HandsInv
<1>5. l \in AllLists /\ m \in AllLists /\ l # m
  BY <1>2 DEF AllLists, Kinds, Tiers
<1>6. BothPut(l, g, m, h) /\ page' = Swapped(g)
  BY <1>2 DEF SwapDown, BothPut
<1>7. Swaps(g, h, l, m)
  BY <1>2, <1>4, <1>5, <1>6, SwapEffect
<1>8. PICK k : k = pol.tries + 1
  OBVIOUS
<1>9. pol' = [pol EXCEPT !.pc = "try", !.tries = k, !.cp = NULL, !.np = NULL]
  BY <1>8 DEF SwapDown
<1>10. PolicyNow("try", pol.p, NULL, NULL)
  BY <1>1, <1>9 DEF PolicyNow, PolicyType
<1> QED
  BY <1>1, <1>2, <1>4, <1>7, <1>10 DEF rings

LEMMA CoolLeaveIdles ==
  ASSUME pol \in PolicyType, CoolLeave, UNCHANGED rings
  PROVE  Idles /\ pol'.pc \in {"cool", "sleep"}
<1>1. pol'.p = pol.p /\ pol'.np = pol.np /\ pol'.cp = pol.cp /\ pol'.pc \in {"cool", "sleep"}
  BY DEF CoolLeave, PolicyType
<1> QED
  BY <1>1 DEF CoolLeave, Idles, KeepsFlags, rings

LEMMA CoolOneDoes ==
  ASSUME IndInv, NEW t \in Tiers, NEW g \in Members[<<t, "hot">>], CoolOne(t, g), UNCHANGED rings,
         pol.pc = "cooling"
  PROVE  \E hot \in BOOLEAN :
           /\ hot => page[g].hot
           /\ PutOn(g, <<t, HotOrCold(hot)>>) /\ page'[g].hot = hot
           /\ page'[g].frame = page[g].frame /\ page'[g].present = page[g].present
           /\ \A q \in Pages \ {g} : KeepsFlags(q)
           /\ UNCHANGED free_page_ring /\ PolicyNow("cooling", NULL, NULL, NULL)
<1>1. pol \in PolicyType /\ LocalsInv /\ page \in [Pages -> PageType]
  BY DEF IndInv, TypeOK
<1>2. PICK l, k : l = <<t, "hot">> /\ k = pol.n + 1
  OBVIOUS
<1>3. PICK hot \in BOOLEAN :
        /\ hot => page[g].hot
        /\ page' = [page EXCEPT ![g].hot = hot]
        /\ lists' = IF hot THEN lists
                    ELSE [lists EXCEPT ![l] = RemoveFrom(@, g), ![<<t, "cold">>] = Enqueue(@, g)]
        /\ pol' = [pol EXCEPT !.n = k]
  BY <1>2 DEF CoolOne
<1>4. PICK m : m = <<t, HotOrCold(hot)>>
  OBVIOUS
<1>5. l \in AllLists /\ m \in AllLists /\ (hot <=> l = m)
  BY <1>2, <1>4 DEF AllLists, Kinds, HotOrCold
<1>6. g \in Pages
  <2>1. lists[l] \in Seq(Pages) /\ g \in Elems(lists[l])
    BY <1>2, <1>5 DEF IndInv, TypeOK, Members
  <2> QED
    BY <2>1, EndsListed
<1>7. IF l = m THEN lists' = lists ELSE Moves(l, m, g)
  BY <1>3, <1>4, <1>5 DEF Moves, HotOrCold
<1>8. PutOn(g, m)
  BY <1>2, <1>5, <1>6, <1>7, MoveEffect
<1>9. PolicyNow("cooling", NULL, NULL, NULL)
  BY <1>1, <1>3 DEF PolicyNow, PolicyType, LocalsInv
<1>10. /\ page'[g].hot = hot
       /\ page'[g].frame = page[g].frame /\ page'[g].present = page[g].present
       /\ \A q \in Pages \ {g} : KeepsFlags(q)
  BY <1>1, <1>3, <1>6 DEF KeepsFlags, PageType
<1> QED
  BY <1>3, <1>4, <1>8, <1>9, <1>10 DEF rings

LEMMA CoolDoes ==
  ASSUME IndInv, CoolStart \/ CoolPage
  PROVE  \/ Idles /\ pol'.pc \in {"cool", "cooling", "sleep"}
         \/ \E t \in Tiers, hot \in BOOLEAN, g \in Pages :
              /\ g \in Members[<<t, "hot">>]
              /\ hot => page[g].hot
              /\ PutOn(g, <<t, HotOrCold(hot)>>) /\ page'[g].hot = hot
              /\ page'[g].frame = page[g].frame /\ page'[g].present = page[g].present
              /\ \A q \in Pages \ {g} : KeepsFlags(q)
              /\ UNCHANGED free_page_ring /\ PolicyNow("cooling", NULL, NULL, NULL)
<1>1. pol \in PolicyType /\ UNCHANGED rings
  BY DEF IndInv, TypeOK, CoolStart, CoolPage
<1>2. PICK t, l, s, g : t = pol.tier /\ l = <<t, "hot">> /\ s = lists[l] /\ g = CoolTarget(t)
  OBVIOUS
<1>3. CASE CoolLeave
  BY <1>1, <1>3, CoolLeaveIdles
<1>4. CASE UNCHANGED <<page, lists>> /\ (UNCHANGED pol \/ pol' = [pol EXCEPT !.pc = "cooling"])
           /\ pol.pc \in {"cool", "cooling"}
  <2>1. pol'.p = pol.p /\ pol'.np = pol.np /\ pol'.cp = pol.cp /\ pol'.pc \in {"cool", "cooling"}
    BY <1>1, <1>4 DEF PolicyType
  <2> QED
    BY <1>1, <1>4, <2>1 DEF Idles, KeepsFlags, rings
<1>5. CASE CoolPage /\ g # NULL /\ CoolOne(t, g) /\ pol.pc = "cooling"
           /\ (cur_cool[t] # NULL => OnList(cur_cool[t], l))
  <2>1. t \in Tiers
    BY <1>1, <1>2 DEF PolicyType
  <2>2. l \in AllLists
    BY <1>2, <2>1 DEF AllLists, Kinds
  <2>3. s \in Seq(Pages) /\ Distinct(s) /\ Members[l] = Elems(s)
    BY <1>2, <2>2 DEF IndInv, TypeOK, OwnerInv, Members
  <2>4. g = IF cur_cool[t] = NULL THEN LastOf(s) ELSE PrevIn(s, cur_cool[t])
    BY <1>2 DEF CoolTarget
  <2>5. cur_cool[t] # NULL => cur_cool[t] \in Elems(s)
    BY <1>2, <1>5 DEF OnList
  <2>6. g \in Members[l]
    BY <1>5, <2>3, <2>4, <2>5, NeighboursListed, EndsListed
  <2>7. g \in Pages
    BY <2>3, <2>6, EndsListed
  <2> QED
    BY <1>1, <1>2, <1>5, <2>1, <2>6, <2>7, CoolOneDoes
<1>6. CASE CoolStart
  BY <1>2, <1>3, <1>4, <1>6 DEF CoolStart, PolicyAt
<1>7. CASE CoolPage
  <2>1. pol.pc = "cooling"
    BY <1>7 DEF CoolPage, PolicyAt
  <2>2. \/ CoolLeave \/ UNCHANGED <<page, lists, pol>>
        \/ g # NULL /\ CoolOne(t, g) /\ (cur_cool[t] # NULL => OnList(cur_cool[t], l))
    BY <1>2, <1>7 DEF CoolPage
  <2> QED
    BY <1>3, <1>4, <1>5, <1>7, <2>1, <2>2
<1> QED
  BY <1>6, <1>7

\* The steps that only look at pages, lists and hands.
Looks == PolicyWake \/ FreeTake \/ HotTake \/ ColdTake \/ RemapUp \/ RemapDown

LEMMA LooksOnly ==
  ASSUME IndInv, Looks
  PROVE  /\ UNCHANGED <<page, lists>>
         /\ pol'.p = pol.p /\ pol'.np = pol.np /\ pol'.cp = pol.cp
<1>1. pol \in PolicyType
  BY DEF IndInv, TypeOK
<1>2. CASE PolicyWake \/ FreeTake
  BY <1>1, <1>2 DEF PolicyWake, FreeTake, PolicyType, shared
<1>3. CASE HotTake \/ ColdTake
  <2>1. PICK k : k = pol.n + 1
    OBVIOUS
  <2>2. UNCHANGED <<page, lists>>
    BY <1>3 DEF HotTake, ColdTake, shared
  <2>3. \/ UNCHANGED pol
        \/ \E pc, n : pol' = [pol EXCEPT !.pc = pc, !.n = n]
        \/ \E pc, g : pol' = [pol EXCEPT !.pc = pc, !.page = g, !.n = k]
    BY <1>3, <2>1 DEF HotTake, ColdTake
  <2> QED
    BY <1>1, <2>2, <2>3 DEF PolicyType
<1>4. CASE RemapUp \/ RemapDown
  BY <1>1, <1>4 DEF RemapUp, RemapDown, Remap, Abort, PolicyType, shared, threads
<1> QED
  BY <1>2, <1>3, <1>4 DEF Looks

-----------------------------------------------------------------------------
(* No page is lost.                                                        *)

\* What a step does to the hands of the threads.
LEMMA HandsAfterPolicy ==
  ASSUME PolicyWake \/ Policy
  PROVE  InHand' = ({pol'.p, pol'.np, pol'.cp} \ {NULL}) \cup {app[a].page : a \in AppHands}
<1>1. UNCHANGED app
  BY PolicyKeeps
<1> QED
  BY <1>1 DEF InHand, AppHands, PolicyHands

LEMMA HandsAfterApp ==
  ASSUME IndInv, NEW a \in Apps, AppActs(a)
  PROVE  /\ \A p \in InHand : p \in InHand' \/ (a \in AppHands /\ p = app[a].page)
         /\ a \in AppHands' => app'[a].page \in InHand'
<1>1. UNCHANGED pol /\ \A b \in Apps \ {a} : app'[b] = app[b]
  BY AppActsKeep
<1> QED
  BY <1>1 DEF InHand, AppHands, PolicyHands

\* mmap takes a page off a free list, and puts it on a cold list.
LEMMA AllocateDoes ==
  ASSUME IndInv, NEW a \in Apps, NEW t \in Tiers, Allocate(a, t)
  PROVE  \E g \in Members[<<t, "free">>] :
           /\ g \in Pages /\ TakenOff(g) /\ UNCHANGED <<page, free_page_ring, pol, pages, vm>>
           /\ app' = [app EXCEPT ![a].pc = "present", ![a].page = g, ![a].tier = t]
<1>1. PICK l, g : l = <<t, "free">> /\ g = LastOf(lists[l])
  OBVIOUS
<1>2. l \in AllLists
  BY <1>1 DEF AllLists, Kinds
<1>3. lists[l] # << >> /\ lists' = [lists EXCEPT ![l] = Dequeue(@)]
  BY <1>1 DEF Allocate
<1>4. g \in Pages /\ g \in Members[l] /\ TakenOff(g)
  BY <1>1, <1>2, <1>3, TakeEffect
<1> QED
  BY <1>1, <1>4 DEF Allocate, rings

LEMMA AllocEnqueueDoes ==
  ASSUME IndInv, NEW a \in Apps, AllocEnqueue(a)
  PROVE  /\ app[a].page \in Pages /\ PutOn(app[a].page, <<app[a].tier, "cold">>)
         /\ UNCHANGED <<page, free_page_ring, pol, pages, vm>>
         /\ app[a].pc = "enqueue" /\ app' = [app EXCEPT ![a].pc = "offset"]
<1>1. PICK l, g : l = <<app[a].tier, "cold">> /\ g = app[a].page
  OBVIOUS
<1>2. /\ lists' = [lists EXCEPT ![l] = Enqueue(@, g)] /\ app[a].pc = "enqueue"
      /\ UNCHANGED <<page, free_page_ring, pol, pages, vm>>
      /\ app' = [app EXCEPT ![a].pc = "offset"]
  BY <1>1 DEF AllocEnqueue, AppAt, Goto, rings
<1>3. app[a] \in AppType
  BY DEF IndInv, TypeOK
<1>4. l \in AllLists
  BY <1>1, <1>3 DEF AppType, AllLists, Kinds
<1>5. app[a].page # NULL
  BY <1>2 DEF IndInv, LocalsInv
<1>6. g \in Pages
  BY <1>1, <1>3, <1>5 DEF AppType, PagesOrNull
<1>7. g \in InHand
  BY <1>1, <1>2 DEF InHand, AppHands
<1>8. PutOn(g, l)
  BY <1>2, <1>4, <1>6, <1>7, PutEffect
<1> QED
  BY <1>1, <1>2, <1>6, <1>8

\* The other steps of an application thread leave the lists alone.
LEMMA AppLists ==
  ASSUME NEW a \in Apps, AppActs(a)
  PROVE  \/ app[a].pc \in {"dequeue", "dequeue nvm"} /\ \E t \in Tiers : Allocate(a, t)
         \/ AllocEnqueue(a)
         \/ UNCHANGED lists
<1>1. CASE AllocDram(a) \/ AllocNvm(a)
  BY <1>1 DEF AllocDram, AllocNvm, AppAt, Abort, Tiers, shared
<1>2. CASE AllocPresent(a) \/ PopulateOffset(a) \/ PopulateMap(a) \/ PopulateTrack(a)
  BY <1>2 DEF AllocPresent, PopulateOffset, PopulateMap, PopulateTrack, Abort, shared
<1>3. CASE MunmapRemove(a) \/ RemovePublish(a) \/ RemoveClear(a) \/ MunmapEnd(a)
  BY <1>3 DEF MunmapRemove, RemovePublish, RemoveClear, MunmapEnd, shared
<1>4. ASSUME NEW v \in Vas, MmapStart(a, v) \/ MunmapStart(a, v)
      PROVE  UNCHANGED lists
  BY <1>4 DEF MmapStart, MunmapStart, shared
<1> QED
  BY <1>1, <1>2, <1>3, <1>4 DEF AppActs, AppStep

LEMMA AppKeepsPlaces ==
  ASSUME IndInv, NEW a \in Apps, AppActs(a)
  PROVE  Stays
<1>1. app \in [Apps -> AppType]
  BY DEF IndInv, TypeOK
<1>2. ASSUME NEW t \in Tiers, Allocate(a, t), app[a].pc \in {"dequeue", "dequeue nvm"}
      PROVE  Stays
  <2>1. PICK g \in Pages :
          TakenOff(g) /\ app' = [app EXCEPT ![a].pc = "present", ![a].page = g, ![a].tier = t]
    BY <1>2, AllocateDoes
  <2>2. app'[a].pc = "present" /\ app'[a].page = g
    BY <1>1, <2>1 DEF AppType
  <2>3. InHand \cup {g} \subseteq InHand'
    BY <1>2, <2>2, HandsAfterApp DEF AppHands
  <2> QED
    BY <2>1, <2>3, PlacesTaken
<1>3. CASE AllocEnqueue(a)
  <2>1. InHand \ {app[a].page} \subseteq InHand'
    BY HandsAfterApp
  <2> QED
    BY <1>3, <2>1, AllocEnqueueDoes, PlacesPut
<1>4. CASE UNCHANGED lists /\ ~AllocEnqueue(a)
  <2>1. CASE a \notin AppHands
    <3>1. \A p \in InHand : p \in InHand' \/ a \in AppHands
      BY HandsAfterApp
    <3>2. \A p \in InHand : p \in InHand'
      BY <2>1, <3>1
    <3> QED
      BY <1>4, <3>2, PlacesKept
  <2>2. CASE a \in AppHands
    <3>1. AllocPresent(a)
      BY <1>4, <2>2 DEF AppActs, MmapStart, MunmapStart, Call, AppStep, AllocDram, AllocNvm,
         PopulateOffset, PopulateMap, PopulateTrack, MunmapRemove, RemovePublish, RemoveClear, MunmapEnd, AppAt,
         AppHands
    <3>2. app'[a].page = app[a].page /\ app'[a].pc \in {"present", "enqueue"}
      BY <1>1, <2>2, <3>1 DEF AllocPresent, Abort, Goto, threads, AppType, AppHands
    <3>3. InHand \subseteq InHand'
      BY <3>2, HandsAfterApp DEF AppHands
    <3> QED
      BY <1>4, <3>3, PlacesKept
  <2> QED
    BY <2>1, <2>2
<1> QED
  BY <1>2, <1>3, <1>4, AppLists

LEMMA PolicyKeepsPlaces ==
  ASSUME IndInv, ~LastTry, PolicyWake \/ Policy
  PROVE  Stays
<1>1. PICK H : H = {app[a].page : a \in AppHands}
  OBVIOUS
<1>2. /\ InHand = ({pol.p, pol.np, pol.cp} \ {NULL}) \cup H
      /\ InHand' = ({pol'.p, pol'.np, pol'.cp} \ {NULL}) \cup H
  BY <1>1, HandsAfterPolicy DEF InHand, PolicyHands
<1>3. NULL \notin Pages
  BY PolicyAssumption DEF Pages
<1>4. CASE UNCHANGED lists /\ pol'.p = pol.p /\ pol'.np = pol.np /\ pol'.cp = pol.cp
  BY <1>2, <1>4, PlacesKept
<1>5. CASE Looks
  BY <1>4, <1>5, LooksOnly
<1>6. CASE Idles
  BY <1>4, <1>6 DEF Idles
<1>7. pol.pc \in {"release", "make hot", "make cold", "migrate", "cool", "cooling"} =>
        pol.p = NULL /\ pol.np = NULL /\ pol.cp = NULL
  BY DEF IndInv, LocalsInv
<1>8. CASE FreeRelease \/ MakeHot \/ MakeCold \/ CoolStart \/ CoolPage
  <2>1. pol.pc \in {"release", "make hot", "make cold", "cool", "cooling"}
    BY <1>8 DEF FreeRelease, MakeHot, MakeCold, CoolStart, CoolPage, PolicyAt
  <2>2. \/ Idles
        \/ \E g, l : PutOn(g, l)
    BY <1>8, ReleaseDoes, HeatDoes, CoolDoes
  <2>3. InHand \subseteq InHand'
    BY <1>2, <1>7, <2>1
  <2> QED
    BY <1>6, <2>2, <2>3, PlacesPut
<1>9. CASE MigrateTake
  <2>1. CASE Idles
    BY <1>6, <2>1
  <2>2. CASE ~Idles
    <3>1. PICK g \in Pages : TakenOff(g) /\ PolicyNow("test", g, NULL, NULL)
      BY <1>9, <2>2, MigrateTakeDoes
    <3>2. pol.pc = "migrate"
      BY <1>9 DEF MigrateTake, PolicyAt
    <3>3. InHand \cup {g} \subseteq InHand'
      BY <1>2, <1>3, <1>7, <3>1, <3>2 DEF PolicyNow
    <3> QED
      BY <3>1, <3>3, PlacesTaken
  <2> QED
    BY <2>1, <2>2
<1>10. CASE MigrateTest
  <2>1. CASE Idles
    BY <1>6, <2>1
  <2>2. CASE ~Idles
    <3>1. PutOn(pol.p, <<"nvm", "cold">>)
      BY <1>10, <2>2, MigrateTestDoes
    <3>2. pol.pc = "test"
      BY <1>10 DEF MigrateTest, PolicyAt
    <3>3. pol.np = NULL /\ pol.cp = NULL
      BY <3>2 DEF IndInv, LocalsInv
    <3>4. InHand \ {pol.p} \subseteq InHand'
      BY <1>2, <3>3
    <3> QED
      BY <3>1, <3>4, PlacesPut
  <2> QED
    BY <2>1, <2>2
<1>11. CASE TryDram
  <2>1. CASE Idles
    BY <1>6, <2>1
  <2>2. CASE ~Idles
    <3>1. PICK g \in Pages : TakenOff(g) /\ PolicyNow("up", pol.p, g, NULL)
      BY <1>11, <2>2, TryDramDoes
    <3>2. pol.pc = "try"
      BY <1>11 DEF TryDram, PolicyAt
    <3>3. pol.np = NULL /\ pol.cp = NULL
      BY <3>2 DEF IndInv, LocalsInv
    <3>4. InHand \cup {g} \subseteq InHand'
      BY <1>2, <1>3, <3>1, <3>3 DEF PolicyNow
    <3> QED
      BY <3>1, <3>4, PlacesTaken
  <2> QED
    BY <2>1, <2>2
<1>12. CASE TakeVictim
  <2>1. pol.pc = "victim"
    BY <1>12 DEF TakeVictim, PolicyAt
  <2>2. pol.np = NULL /\ pol.cp = NULL
    BY <2>1 DEF IndInv, LocalsInv
  <2>3. CASE PutOn(pol.p, <<"nvm", "hot">>)
    <3>1. InHand \ {pol.p} \subseteq InHand'
      BY <1>2, <2>2
    <3> QED
      BY <2>3, <3>1, PlacesPut
  <2>4. ASSUME NEW g \in Pages, TakenOff(g), PolicyNow("frame", pol.p, NULL, g)
        PROVE  Stays
    <3>1. InHand \cup {g} \subseteq InHand'
      BY <1>2, <1>3, <2>2, <2>4 DEF PolicyNow
    <3> QED
      BY <2>4, <3>1, PlacesTaken
  <2> QED
    BY <1>12, <2>3, <2>4, TakeVictimDoes
<1>13. CASE TakeNvmFrame
  <2>1. CASE Idles
    BY <1>6, <2>1
  <2>2. CASE ~Idles
    <3>1. PICK g \in Pages : TakenOff(g) /\ PolicyNow("down", pol.p, g, pol.cp)
      BY <1>13, <2>2, TakeNvmFrameDoes
    <3>2. pol.pc = "frame"
      BY <1>13 DEF TakeNvmFrame, PolicyAt
    <3>3. pol.np = NULL
      BY <3>2 DEF IndInv, LocalsInv
    <3>4. InHand \cup {g} \subseteq InHand'
      BY <1>2, <1>3, <3>1, <3>3 DEF PolicyNow
    <3> QED
      BY <3>1, <3>4, PlacesTaken
  <2> QED
    BY <2>1, <2>2
<1>14. ASSUME NEW g, NEW h, NEW l, NEW m, Swaps(g, h, l, m), InHand \subseteq InHand' \cup {g, h}
       PROVE  Stays
  <2>1. ASSUME NEW p \in Pages, Placed(p)
        PROVE  Placed(p)'
    <3>1. g \in Members'[l] /\ h \in Members'[m] /\ l \in AllLists /\ m \in AllLists
      BY <1>14 DEF Swaps
    <3>2. \A n \in AllLists : Members[n] \subseteq Members'[n]
      BY <1>14 DEF Swaps
    <3> QED
      BY <1>14, <2>1, <3>1, <3>2 DEF Placed
  <2> QED
    BY <2>1 DEF Stays
<1>15. CASE SwapUp
  <2>1. pol.pc = "swap up"
    BY <1>15 DEF SwapUp, PolicyAt
  <2>2. pol.cp = NULL
    BY <2>1 DEF IndInv, LocalsInv
  <2>3. InHand \subseteq InHand' \cup {pol.p, pol.np}
    BY <1>2, <2>2
  <2> QED
    BY <1>14, <1>15, <2>3, SwapUpDoes
<1>16. CASE SwapDown
  <2>1. pol'.p = pol.p
    BY <1>16, SwapDownDoes DEF PolicyNow
  <2>2. InHand \subseteq InHand' \cup {pol.cp, pol.np}
    BY <1>2, <2>1
  <2> QED
    BY <1>14, <1>16, <2>2, SwapDownDoes
<1> QED
  BY <1>5, <1>8, <1>9, <1>10, <1>11, <1>12, <1>13, <1>15, <1>16 DEF Policy, Looks

\* The loop ends and the page in hand is forgotten; the others stay.
LEMMA LastTryDrops ==
  ASSUME IndInv, LastTry, PolicyWake \/ Policy
  PROVE  \A p \in Pages \ {pol.p} : Placed(p) => Placed(p)'
<1>1. TryDram
  BY DEF LastTry, Policy, PolicyWake, FreeTake, FreeRelease, HotTake, MakeHot, ColdTake, MakeCold,
     MigrateTake, MigrateTest, TakeVictim, TakeNvmFrame, RemapUp, SwapUp, RemapDown, SwapDown,
     CoolStart, CoolPage, PolicyAt
<1>2. pol \in PolicyType
  BY DEF IndInv, TypeOK
<1>3. UNCHANGED <<lists, app>> /\ pol'.np = pol.np /\ pol'.cp = pol.cp
  BY <1>1, <1>2 DEF TryDram, LastTry, PolicyType
<1>4. Members' = Members /\ \A p \in InHand : p # pol.p => p \in InHand'
  BY <1>3 DEF Members, InHand, PolicyHands, AppHands
<1> QED
  BY <1>4 DEF Placed

\* The places in terms of the lists themselves.
LEMMA PlacesOfPages ==
  ASSUME IndInv
  PROVE  /\ OnSomeList \cup InHand \subseteq Pages
         /\ \A p : p \in OnSomeList \cup InHand <=> Placed(p)
<1>1. \A l \in AllLists : Members[l] = Elems(lists[l])
  BY DEF Members
<1>2. \A l \in AllLists : Elems(lists[l]) \subseteq Pages
  BY EndsListed DEF IndInv, TypeOK
<1>3. InHand \subseteq Pages
  <2>1. PolicyHands \subseteq Pages
    BY DEF IndInv, TypeOK, PolicyType, PagesOrNull, PolicyHands
  <2>2. \A a \in AppHands : app[a].page \in Pages
    BY DEF IndInv, TypeOK, AppType, PagesOrNull, LocalsInv, AppHands
  <2> QED
    BY <2>1, <2>2 DEF InHand
<1> QED
  BY <1>1, <1>2, <1>3 DEF Placed, OnSomeList

\* A page drops out of lists and hands only where the migration loop of
\* pebs_policy_thread (pebs.c:617) has made room in DRAM twice for it: for any
\* calls, samples and passes, overlapping in any way, and any sizes.
THEOREM NothingElseLost == Spec => LostOnlyAfterTwoTries
<1>1. ASSUME IndInv, [Next]_vars
      PROVE  Stays \/ (LastTry /\ \A p \in Pages \ {pol.p} : Placed(p) => Placed(p)')
  <2>1. CASE Quiet
    <3>1. InHand \subseteq InHand'
      BY <2>1 DEF Quiet, InHand, PolicyHands, AppHands
    <3> QED
      BY <2>1, <3>1, PlacesKept DEF Quiet
  <2>2. ASSUME NEW a \in Apps, AppActs(a)
        PROVE  Stays
    BY <1>1, <2>2, AppKeepsPlaces
  <2>3. CASE PolicyWake \/ Policy
    BY <1>1, <2>3, PolicyKeepsPlaces, LastTryDrops
  <2> QED
    BY <1>1, <2>1, <2>2, <2>3, WhoActs
<1>2. ASSUME IndInv, IndInv', [Next]_vars
      PROVE  \A p \in OnSomeList \cup InHand :
               \/ p \in OnSomeList' \cup InHand'
               \/ p = pol.p /\ pol.pc = "try" /\ pol.tries = 2
  <2>1. ASSUME NEW p \in OnSomeList \cup InHand
        PROVE  \/ Placed(p)'
               \/ p = pol.p /\ LastTry
    BY <1>1, <1>2, <2>1, PlacesOfPages DEF Stays
  <2>2. \A p : Placed(p)' <=> p \in OnSomeList' \cup InHand'
    <3>1. \A l \in AllLists : Members'[l] = Elems(lists'[l])
      BY DEF Members
    <3> QED
      BY <3>1 DEF Placed, OnSomeList
  <2> QED
    BY <2>1, <2>2 DEF LastTry
<1> QED
  BY <1>2, Invariance, PTL DEF Spec, LostOnlyAfterTwoTries

-----------------------------------------------------------------------------
(* The calls that change a page structure.                                 *)

\* Only the structure of the page changes, and not its frame.
Touches(g) ==
  /\ g \in Pages /\ page'[g].frame = page[g].frame
  /\ \A q \in Pages \ {g} : page'[q] = page[q]

\* The page in a call.
LEMMA PageOfCall ==
  ASSUME IndInv, NEW a \in Apps, app[a].pc \notin {"idle", "dequeue", "dequeue nvm"}
  PROVE  app[a].page \in Pages /\ app[a].va \in Vas
<1>1. app[a] \in AppType /\ LocalsInv
  BY DEF IndInv, TypeOK
<1>2. app[a].page # NULL /\ app[a].va # NULL
  BY <1>1 DEF LocalsInv
<1> QED
  BY <1>1, <1>2 DEF AppType, PagesOrNull

LEMMA AllocPresentDoes ==
  ASSUME IndInv, NEW a \in Apps, AllocPresent(a)
  PROVE  /\ app[a].pc = "present" /\ UNCHANGED <<lists, pages, vm, free_page_ring, pol>>
         /\ \/ UNCHANGED <<page, app>>
            \/ /\ app' = [app EXCEPT ![a].pc = "enqueue"]
               /\ Touches(app[a].page)
               /\ TierOf(app[a].page) = app[a].tier /\ ~page[app[a].page].present
               /\ page'[app[a].page].present
               /\ page'[app[a].page].hot = page[app[a].page].hot
               /\ page'[app[a].page].va = page[app[a].page].va
<1>1. page \in [Pages -> PageType]
  BY DEF IndInv, TypeOK
<1>2. app[a].pc = "present" /\ UNCHANGED <<lists, pages, vm, free_page_ring, pol>>
  BY DEF AllocPresent, AppAt, Abort, shared, rings, threads
<1>3. PICK g : g = app[a].page
  OBVIOUS
<1>4. g \in Pages
  BY <1>2, <1>3, PageOfCall
<1>5. CASE TierOf(g) # app[a].tier \/ page[g].present
  BY <1>2, <1>3, <1>5 DEF AllocPresent, Abort, shared, threads
<1>6. CASE ~(TierOf(g) # app[a].tier \/ page[g].present)
  <2>1. page' = [page EXCEPT ![g].present = TRUE] /\ app' = [app EXCEPT ![a].pc = "enqueue"]
    BY <1>3, <1>6 DEF AllocPresent, Goto
  <2>2. /\ Touches(g) /\ page'[g].present /\ page'[g].hot = page[g].hot
        /\ page'[g].va = page[g].va
    BY <1>1, <1>4, <2>1 DEF Touches, PageType
  <2> QED
    BY <1>2, <1>3, <1>6, <2>1, <2>2
<1> QED
  BY <1>5, <1>6

LEMMA PopulateTrackDoes ==
  ASSUME IndInv, NEW a \in Apps, PopulateTrack(a)
  PROVE  /\ app[a].pc = "track" /\ UNCHANGED <<lists, vm, free_page_ring, pol>>
         /\ \/ UNCHANGED <<page, pages, app>>
            \/ /\ app' = [app EXCEPT ![a] = IdleApp]
               /\ Touches(app[a].page)
               /\ page'[app[a].page].va = app[a].va
               /\ page'[app[a].page].present = page[app[a].page].present
               /\ page'[app[a].page].hot = page[app[a].page].hot
               /\ pages[app[a].va] = NULL
               /\ pages' = [pages EXCEPT ![app[a].va] = app[a].page]
<1>1. page \in [Pages -> PageType]
  BY DEF IndInv, TypeOK
<1>2. app[a].pc = "track" /\ UNCHANGED <<lists, vm, free_page_ring, pol>>
  BY DEF PopulateTrack, AppAt, Abort, shared, rings, threads
<1>3. PICK g, v : g = app[a].page /\ v = app[a].va
  OBVIOUS
<1>4. g \in Pages
  BY <1>2, <1>3, PageOfCall
<1>5. CASE pages[v] # NULL
  BY <1>2, <1>3, <1>5 DEF PopulateTrack, Abort, shared, threads
<1>6. CASE pages[v] = NULL
  <2>1. /\ page' = [page EXCEPT ![g].va = v] /\ app' = [app EXCEPT ![a] = IdleApp]
        /\ pages' = [pages EXCEPT ![v] = g]
    BY <1>3, <1>6 DEF PopulateTrack
  <2>2. /\ Touches(g) /\ page'[g].va = v /\ page'[g].hot = page[g].hot
        /\ page'[g].present = page[g].present
    BY <1>1, <1>4, <2>1 DEF Touches, PageType
  <2> QED
    BY <1>2, <1>3, <1>6, <2>1, <2>2
<1> QED
  BY <1>5, <1>6

LEMMA RemoveClearDoes ==
  ASSUME IndInv, NEW a \in Apps, RemoveClear(a)
  PROVE  /\ app[a].pc = "clear" /\ UNCHANGED <<lists, pages, vm, free_page_ring, pol>>
         /\ app' = [app EXCEPT ![a].pc = "unmap"]
         /\ Touches(app[a].page)
         /\ ~page'[app[a].page].present /\ ~page'[app[a].page].hot
         /\ page'[app[a].page].va = page[app[a].page].va
<1>1. page \in [Pages -> PageType]
  BY DEF IndInv, TypeOK
<1>2. /\ app[a].pc = "clear" /\ UNCHANGED <<lists, pages, vm, free_page_ring, pol>>
      /\ app' = [app EXCEPT ![a].pc = "unmap"]
  BY DEF RemoveClear, AppAt, Goto, rings
<1>3. PICK g : g = app[a].page
  OBVIOUS
<1>4. g \in Pages
  BY <1>2, <1>3, PageOfCall
<1>5. page' = [page EXCEPT ![g].present = FALSE, ![g].hot = FALSE, ![g].warm = FALSE]
  BY <1>3 DEF RemoveClear
<1>6. page' = [page EXCEPT ![g] = [page[g] EXCEPT !.present = FALSE, !.hot = FALSE, !.warm = FALSE]]
  BY <1>1, <1>4, <1>5
<1>7. page[g] \in PageType
  BY <1>1, <1>4
<1>8. /\ page'[g] = [page[g] EXCEPT !.present = FALSE, !.hot = FALSE, !.warm = FALSE]
      /\ \A q \in Pages \ {g} : page'[q] = page[q]
  BY <1>1, <1>4, <1>6
<1>9. /\ Touches(g) /\ ~page'[g].present /\ ~page'[g].hot /\ page'[g].va = page[g].va
  BY <1>4, <1>7, <1>8 DEF Touches, PageType
<1> QED
  BY <1>2, <1>3, <1>9

\* The calls that change no page structure.
LEMMA StructuresKept ==
  ASSUME NEW a \in Apps, AppActs(a)
  PROVE  UNCHANGED page \/ AllocPresent(a) \/ PopulateTrack(a) \/ RemoveClear(a)
<1>1. ASSUME NEW v \in Vas, MmapStart(a, v) \/ MunmapStart(a, v)
      PROVE  UNCHANGED page
  BY <1>1 DEF MmapStart, MunmapStart, shared
<1>2. CASE AllocDram(a) \/ AllocNvm(a) \/ AllocEnqueue(a)
  BY <1>2 DEF AllocDram, AllocNvm, Allocate, AllocEnqueue, Abort, shared
<1>3. CASE PopulateOffset(a) \/ PopulateMap(a) \/ MunmapRemove(a) \/ RemovePublish(a) \/ MunmapEnd(a)
  BY <1>3 DEF PopulateOffset, PopulateMap, MunmapRemove, RemovePublish, MunmapEnd, shared
<1> QED
  BY <1>1, <1>2, <1>3 DEF AppActs, AppStep

-----------------------------------------------------------------------------
(* Each frame has one structure.                                           *)

\* No two structures have the same frame.
FrameInv == \A p, q \in Pages : page[p].frame = page[q].frame => p = q

\* The frames of the structures do not change.
SameFrames == \A p \in Pages : page'[p].frame = page[p].frame

LEMMA AppKeepsFrames ==
  ASSUME IndInv, NEW a \in Apps, AppActs(a)
  PROVE  SameFrames
<1>1. CASE UNCHANGED page
  BY <1>1 DEF SameFrames
<1>2. ASSUME NEW g, Touches(g)
      PROVE  SameFrames
  BY <1>2 DEF SameFrames, Touches
<1> QED
  BY <1>1, <1>2, StructuresKept, AllocPresentDoes, PopulateTrackDoes, RemoveClearDoes

LEMMA PolicyKeepsFrames ==
  ASSUME IndInv, PolicyWake \/ Policy
  PROVE  SameFrames \/ SwapUp \/ SwapDown
<1>1. page \in [Pages -> PageType]
  BY DEF IndInv, TypeOK
<1>2. CASE UNCHANGED page
  BY <1>2 DEF SameFrames
<1>3. CASE Looks
  BY <1>2, <1>3, LooksOnly
<1>4. CASE FreeRelease \/ MigrateTake \/ TryDram \/ TakeVictim \/ TakeNvmFrame
  BY <1>2, <1>4 DEF FreeRelease, MigrateTake, TryDram, TakeVictim, TakeNvmFrame, Abort, shared
<1>5. CASE MakeHot \/ MakeCold
  BY <1>5, HeatDoes DEF Idles, KeepsFlags, SameFrames
<1>6. CASE MigrateTest
  BY <1>6, MigrateTestDoes DEF Idles, KeepsFlags, SameFrames
<1>7. CASE CoolStart \/ CoolPage
  BY <1>7, CoolDoes DEF Idles, KeepsFlags, SameFrames
<1> QED
  BY <1>3, <1>4, <1>5, <1>6, <1>7 DEF Policy, Looks

\* pebs_migrate_up and pebs_migrate_down exchange frames and never copy one:
\* each frame belongs to one structure.
THEOREM FramesApart == Spec => []FrameInv
<1>1. Init => FrameInv
  BY DEF Init, InitMemory, FrameInv, FreshPage
<1>2. ASSUME FrameInv, SameFrames
      PROVE  FrameInv'
  BY <1>2 DEF FrameInv, SameFrames
<1>3. ASSUME FrameInv, NEW g, NEW h, NEW l, NEW m, Swaps(g, h, l, m)
      PROVE  FrameInv'
  <2>1. /\ g \in Pages /\ h \in Pages /\ g # h
        /\ page'[g].frame = page[h].frame /\ page'[h].frame = page[g].frame
        /\ \A q \in Pages \ {g, h} : page'[q].frame = page[q].frame
    BY <1>3 DEF Swaps, KeepsFlags
  <2> QED
    BY <1>3, <2>1 DEF FrameInv
<1>4. ASSUME IndInv, FrameInv, [Next]_vars
      PROVE  FrameInv'
  <2>1. CASE Quiet
    BY <1>2, <1>4, <2>1 DEF Quiet, SameFlags, SameFrames
  <2>2. ASSUME NEW a \in Apps, AppActs(a)
        PROVE  FrameInv'
    BY <1>2, <1>4, <2>2, AppKeepsFrames
  <2>3. CASE SwapUp \/ SwapDown
    BY <1>3, <1>4, <2>3, SwapUpDoes, SwapDownDoes
  <2>4. CASE (PolicyWake \/ Policy) /\ ~SwapUp /\ ~SwapDown
    BY <1>2, <1>4, <2>4, PolicyKeepsFrames
  <2> QED
    BY <1>4, <2>1, <2>2, <2>3, <2>4, WhoActs
<1> QED
  BY <1>1, <1>4, Invariance, PTL DEF Spec
=============================================================================
