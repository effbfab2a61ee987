-------------------------- MODULE MigrationProofs --------------------------
(***************************************************************************)
(* For any pages, frames, words, values and threads: a migration under the *)
(* feet of the application loses no store, copies exactly, leaves no page  *)
(* protected behind and leaves no suspended thread unknown to the fault    *)
(* thread.                                                                 *)
(***************************************************************************)
EXTENDS Migration, ListLemmas, TLAPS

-----------------------------------------------------------------------------
(* The inductive invariant.                                                *)

\* The page in hand is tracked and it alone is marked; the frame it goes to
\* is nobody else's until UpdatePage.
MigInv ==
  /\ mig.pc = "idle" => mig = Idle
  /\ mig.pc # "idle" =>
       mig.page \in Pages /\ mig.to \in Frames /\ Tracked(mig.page)
  /\ mig.pc = "protect" => mig.copied = {}
  /\ \A g \in Pages : migrating[g] <=> mig.page = g

\* Protection and registration follow the migration; every other tracked
\* page is registered and unprotected.
KernelInv ==
  /\ \A g \in Pages : wp[g] <=> mig.page = g /\ mig.pc \in {"copy", "remap"}
  /\ \A g \in Pages : Tracked(g) =>
       registered[g] \/ (mig.page = g /\ mig.pc = "register")

\* The mapping of a page is its frame, except between Remap and UpdatePage.
MapInv ==
  \A g \in Pages : Tracked(g) =>
    vm[g] = IF mig.page = g /\ mig.pc \in {"register", "update"} THEN mig.to ELSE frame[g]

\* No two pages share a frame, and the target is none of theirs.
FrameInv ==
  /\ \A g, h \in Pages : Tracked(g) /\ g # h => frame[g] # frame[h]
  /\ mig.pc = "end" => frame[mig.page] = mig.to
  /\ mig.pc \notin {"idle", "end"} => \A g \in Pages : frame[g] # mig.to

\* What has been copied stays equal as long as the page is protected.
CopyInv ==
  mig.pc \in {"copy", "remap"} =>
    \A x \in Words : x \in mig.copied \/ mig.pc = "remap" =>
      mem[mig.to][x] = mem[frame[mig.page]][x]

\* A queued message belongs to a suspended thread, the page the fault thread
\* is at has one, and a page on which a thread is suspended is tracked.
FaultInv ==
  /\ fault.pc = "poll" <=> fault.page = NULL
  /\ fault.page # NULL => \E w \in Writers : blocked[w] = fault.page
  /\ \A i \in 1 .. Len(msgs) : blocked[msgs[i].thread] = msgs[i].page
  /\ \A w \in Writers : blocked[w] # NULL => Tracked(blocked[w])
  /\ BlockedIsKnown
  /\ FaultFindsPage

IndInv ==
  /\ TypeOK /\ MigInv /\ KernelInv /\ MapInv /\ FrameInv /\ NoLostWrite /\ CopyInv
  /\ FaultInv

-----------------------------------------------------------------------------
(* The queue of messages.                                                  *)

Message == [thread : Writers, page : Pages]

\* Waking the threads of a page removes the messages of that page from the
\* queue and no others.
LEMMA WithoutKeeps ==
  ASSUME NEW s \in Seq(Message), NEW g
  PROVE  /\ Without(s, g) \in Seq(Message)
         /\ \A i \in 1 .. Len(Without(s, g)) :
              \E j \in 1 .. Len(s) : Without(s, g)[i] = s[j] /\ s[j].page # g
         /\ \A j \in 1 .. Len(s) : s[j].page # g =>
              \E i \in 1 .. Len(Without(s, g)) : Without(s, g)[i] = s[j]
<1> DEFINE n == Len(s)
           M == Seq(Message)
           step == [i \in 1 .. n |-> [q \in M |-> IF s[i].page = g THEN q ELSE Append(q, s[i])]]
           Body(f) == [i \in 0 .. n |->
                         IF i = 0 THEN << >>
                         ELSE IF s[i].page = g THEN f[i - 1] ELSE Append(f[i - 1], s[i])]
           kept == CHOOSE f : f = Body(f)
           Kept(q, m) ==
             /\ \A i \in 1 .. Len(q) : \E j \in 1 .. m : q[i] = s[j] /\ s[j].page # g
             /\ \A j \in 1 .. m : s[j].page # g => \E i \in 1 .. Len(q) : q[i] = s[j]
<1>1. n \in Nat /\ << >> \in M /\ \A i \in 1 .. n : s[i] \in Message
  OBVIOUS
<1>2. \A q \in M, x \in Message : Append(q, x) \in M
  OBVIOUS
<1> HIDE DEF n, M
<1>3. step \in [1 .. n -> [M -> M]]
  BY <1>1, <1>2
<1>4. \E f \in [0 .. n -> M] : f[0] = << >> /\ \A i \in 1 .. n : f[i] = step[i][f[i - 1]]
  <2> HIDE DEF step, Body, kept
  <2>1. ASSUME NEW a \in M, NEW t \in [1 .. n -> [M -> M]]
        PROVE  \E f \in [0 .. n -> M] : f[0] = a /\ \A i \in 1 .. n : f[i] = t[i][f[i - 1]]
    <3>1. n \in Nat
      BY <1>1
    <3> QED
      BY <3>1, RecursionExists
  <2> QED
    BY <1>1, <1>3, <2>1
<1>5. PICK f \in [0 .. n -> M] : f[0] = << >> /\ \A i \in 1 .. n : f[i] = step[i][f[i - 1]]
  BY <1>4
<1>6. f = Body(f)
  <2>1. ASSUME NEW i \in 1 .. n
        PROVE  f[i] = IF s[i].page = g THEN f[i - 1] ELSE Append(f[i - 1], s[i])
    <3>1. f[i - 1] \in M
      BY <1>1
    <3>2. f[i] = step[i][f[i - 1]]
      BY <1>5
    <3>3. step[i] = [q \in M |-> IF s[i].page = g THEN q ELSE Append(q, s[i])]
      OBVIOUS
    <3> HIDE DEF step
    <3> QED
      BY <3>1, <3>2, <3>3
  <2>2. ASSUME NEW i \in 0 .. n
        PROVE  f[i] = Body(f)[i]
    <3>1. CASE i = 0
      BY <1>1, <1>5, <3>1
    <3>2. CASE i # 0
      <4>1. i \in 1 .. n
        BY <1>1, <3>2
      <4> QED
        BY <2>1, <3>2, <4>1, Zenon
    <3> QED
      BY <3>1, <3>2
  <2> QED
    BY <2>2
<1>7. kept = Body(kept)
  BY <1>6
<1>8. Without(s, g) = kept[n]
  BY DEF Without, n
<1> HIDE DEF kept
<1>9. /\ kept[0] = << >>
      /\ \A i \in 1 .. n : kept[i] = IF s[i].page = g THEN kept[i - 1] ELSE Append(kept[i - 1], s[i])
  <2>1. \A i \in 0 .. n : kept[i] = Body(kept)[i]
    BY <1>7
  <2> QED
    BY <1>1, <2>1
<1> DEFINE T == {m \in Nat : m <= n => kept[m] \in M /\ Kept(kept[m], m)}
<1>10. 0 \in T
  BY <1>1, <1>9
<1>11. ASSUME NEW m \in Nat, m \in T
       PROVE  m + 1 \in T
  <2> DEFINE a == kept[m]
             b == kept[m + 1]
             x == s[m + 1]
  <2> HIDE DEF a, b
  <2> SUFFICES ASSUME m + 1 <= n
               PROVE  b \in M /\ Kept(b, m + 1)
    BY DEF b
  <2>1. a \in M /\ Kept(a, m)
    BY <1>1, <1>11 DEF a
  <2>2. /\ x \in Message /\ m + 1 \in 1 .. n
        /\ b = IF x.page = g THEN a ELSE Append(a, x)
    BY <1>1, <1>9 DEF a, b
  <2>3. CASE x.page = g
    BY <2>1, <2>2, <2>3
  <2>4. CASE x.page # g
    <3>1. /\ b \in M /\ Len(b) = Len(a) + 1 /\ b[Len(b)] = x /\ Len(a) \in Nat
          /\ \A i \in 1 .. Len(a) : b[i] = a[i]
      BY <2>1, <2>2, <2>4 DEF M
    <3>2. ASSUME NEW i \in 1 .. Len(b)
          PROVE  \E j \in 1 .. m + 1 : b[i] = s[j] /\ s[j].page # g
      BY <2>1, <2>2, <2>4, <3>1
    <3>3. ASSUME NEW j \in 1 .. m + 1, s[j].page # g
          PROVE  \E i \in 1 .. Len(b) : b[i] = s[j]
      <4>1. CASE j = m + 1
        BY <3>1, <4>1
      <4>2. CASE j # m + 1
        <5>1. j \in 1 .. m
          BY <4>2
        <5>2. PICK i \in 1 .. Len(a) : a[i] = s[j]
          BY <2>1, <3>3, <5>1
        <5> QED
          BY <3>1, <5>2
      <4> QED
        BY <4>1, <4>2
    <3> QED
      BY <3>1, <3>2, <3>3
  <2> QED
    BY <2>3, <2>4
<1> HIDE DEF T
<1>12. n \in T
  BY <1>1, <1>10, <1>11, SetInduction
<1> QED
  BY <1>1, <1>8, <1>12 DEF T, n, M
-----------------------------------------------------------------------------
(* Every action preserves the invariant.                                   *)

\* An action of the fault thread, or a fault, leaves the pages alone.
LEMMA PagesUndisturbed ==
  ASSUME IndInv, UNCHANGED <<mem, shadow, kernel, pageFields, mig>>
  PROVE  MigInv' /\ KernelInv' /\ MapInv' /\ FrameInv' /\ NoLostWrite' /\ CopyInv'
BY DEF IndInv, MigInv, KernelInv, MapInv, FrameInv, NoLostWrite, CopyInv, Tracked, kernel,
   pageFields

\* An action that keeps every tracked page tracked does not disturb the
\* suspended threads.
LEMMA FaultsUndisturbed ==
  ASSUME IndInv, UNCHANGED <<faults, failed>>,
         \A g \in Pages : frame[g] # NULL => frame'[g] # NULL
  PROVE  FaultInv'
<1>1. \A w \in Writers : blocked[w] # NULL => blocked[w] \in Pages
  BY DEF IndInv, TypeOK
<1> QED
  BY <1>1 DEF IndInv, FaultInv, BlockedIsKnown, FaultFindsPage, Tracked, faults

\* A page mapped onto a free frame reads what the frame holds.
LEMMA PopulateInv ==
  ASSUME IndInv, NEW g \in Pages, NEW f \in Frames, Populate(g, f)
  PROVE  IndInv'
<1> USE MigrationAssumption DEF IndInv, kernel, pageFields, faults, Tracked
<1>1. TypeOK'
  BY DEF TypeOK, MigInv, Populate, FreeFrames
<1>2. MigInv'
  BY DEF MigInv, Idle, Populate
<1>3. KernelInv'
  BY DEF TypeOK, KernelInv, MigInv, Populate
<1>4. MapInv'
  BY DEF TypeOK, MapInv, MigInv, Populate
<1>5. FrameInv'
  BY DEF FrameInv, MigInv, Populate, FreeFrames
<1>6. NoLostWrite'
  BY DEF TypeOK, NoLostWrite, Populate
<1>7. CopyInv'
  BY DEF CopyInv, MigInv, Populate
<1>8. FaultInv'
  BY FaultsUndisturbed DEF TypeOK, Populate
<1> QED
  BY <1>1, <1>2, <1>3, <1>4, <1>5, <1>6, <1>7, <1>8

\* A page is unmapped only when no migration and no suspended thread is at it.
LEMMA UnmapInv ==
  ASSUME IndInv, NEW g \in Pages, Unmap(g)
  PROVE  IndInv'
<1> USE MigrationAssumption DEF IndInv, kernel, pageFields, faults, Tracked
<1>1. TypeOK'
  BY DEF TypeOK, MigInv, Unmap
<1>2. MigInv'
  BY DEF TypeOK, MigInv, Idle, Unmap
<1>3. KernelInv'
  BY DEF TypeOK, KernelInv, MigInv, Unmap
<1>4. MapInv'
  BY DEF TypeOK, MapInv, MigInv, Unmap
<1>5. FrameInv'
  BY DEF TypeOK, FrameInv, MigInv, Unmap
<1>6. NoLostWrite'
  BY DEF TypeOK, NoLostWrite, Unmap
<1>7. CopyInv'
  BY DEF CopyInv, Unmap
<1>8. FaultInv'
  BY DEF FaultInv, BlockedIsKnown, FaultFindsPage, Unmap
<1> QED
  BY <1>1, <1>2, <1>3, <1>4, <1>5, <1>6, <1>7, <1>8

\* A store reaches a frame that no other page maps and that is not the source of
\* a copy under way: the page would be protected.
LEMMA StoreInv ==
  ASSUME IndInv, NEW w \in Writers, NEW g \in Pages, NEW x \in Words, NEW v \in Values, Store(w, g, x, v)
  PROVE  IndInv'
<1> USE MigrationAssumption DEF IndInv, kernel, pageFields, faults, Tracked
<1>1. TypeOK'
  BY DEF TypeOK, MigInv, Store
<1>2. MigInv'
  BY DEF TypeOK, MigInv, Idle, Store
<1>3. KernelInv'
  BY DEF TypeOK, KernelInv, MigInv, Store
<1>4. MapInv'
  BY DEF TypeOK, MapInv, MigInv, Store
<1>5. FrameInv'
  BY DEF TypeOK, FrameInv, MigInv, Store
<1>6. NoLostWrite'
  <2>1. vm[g] \in Frames /\ mem[vm[g]] \in [Words -> Values] /\ mem[vm[g]] = shadow[g]
    BY DEF TypeOK, MapInv, MigInv, NoLostWrite, Store
  <2>2. mem'[vm[g]] = [mem[vm[g]] EXCEPT ![x] = v] /\ shadow'[g] = [shadow[g] EXCEPT ![x] = v]
    BY <2>1 DEF TypeOK, Store
  <2>3. ASSUME NEW h \in Pages, Tracked(h), h # g
        PROVE  mem'[vm[h]] = mem[vm[h]] /\ shadow'[h] = shadow[h]
    <3>1. vm[h] # vm[g] /\ vm[h] \in Frames
      BY <2>3 DEF TypeOK, MapInv, FrameInv, MigInv, Store
    <3> QED
      BY <2>1, <3>1 DEF TypeOK, Store
  <2> QED
    BY <2>1, <2>2, <2>3 DEF NoLostWrite, Store
<1>7. CopyInv'
  BY DEF CopyInv, MapInv, FrameInv, MigInv, KernelInv, Store
<1>8. FaultInv'
  BY FaultsUndisturbed DEF Store
<1> QED
  BY <1>1, <1>2, <1>3, <1>4, <1>5, <1>6, <1>7, <1>8

\* A suspended thread is announced by a message at the end of the queue.
LEMMA StoreFaultsInv ==
  ASSUME IndInv, NEW w \in Writers, NEW g \in Pages, StoreFaults(w, g)
  PROVE  IndInv'
<1> USE MigrationAssumption DEF IndInv, kernel, pageFields, faults, Tracked
<1>1. TypeOK'
  BY DEF TypeOK, MigInv, StoreFaults
<1>2. MigInv' /\ KernelInv' /\ MapInv' /\ FrameInv' /\ NoLostWrite' /\ CopyInv'
  BY PagesUndisturbed DEF StoreFaults
<1>3. FaultInv'
  <2>1. /\ msgs \in Seq(Message) /\ [thread |-> w, page |-> g] \in Message
        /\ blocked \in [Writers -> Pages \cup {NULL}]
    BY DEF TypeOK, Message
  <2>2. /\ Len(msgs') = Len(msgs) + 1 /\ msgs'[Len(msgs) + 1] = [thread |-> w, page |-> g]
        /\ \A i \in 1 .. Len(msgs) : msgs'[i] = msgs[i] /\ msgs[i] \in Message
        /\ Len(msgs) \in Nat
    BY <2>1 DEF StoreFaults
  <2>3. /\ blocked[w] = NULL /\ blocked'[w] = g
        /\ \A u \in Writers : u # w => blocked'[u] = blocked[u]
        /\ UNCHANGED <<fault, frame, failed>> /\ Tracked(g)
    BY <2>1 DEF StoreFaults
  <2>4. \A i \in 1 .. Len(msgs') : blocked'[msgs'[i].thread] = msgs'[i].page
    <3>1. \A i \in 1 .. Len(msgs) :
            msgs[i].thread \in Writers /\ msgs[i].thread # w /\ blocked[msgs[i].thread] = msgs[i].page
      BY <2>2, <2>3 DEF FaultInv, Message
    <3>2. ASSUME NEW i \in 1 .. Len(msgs')
          PROVE  blocked'[msgs'[i].thread] = msgs'[i].page
      BY <2>2, <2>3, <3>1
    <3> QED
      BY <3>2
  <2>5. /\ fault'.pc = "poll" <=> fault'.page = NULL
        /\ fault'.page # NULL => \E u \in Writers : blocked'[u] = fault'.page
        /\ \A u \in Writers : blocked'[u] # NULL => frame'[blocked'[u]] # NULL
    BY <2>3 DEF FaultInv
  <2>6. BlockedIsKnown'
    BY <2>2, <2>3 DEF FaultInv, BlockedIsKnown
  <2> QED
    BY <2>3, <2>4, <2>5, <2>6 DEF FaultInv, FaultFindsPage
<1> QED
  BY <1>1, <1>2, <1>3

\* The page is marked before anything else happens to it.
LEMMA MigrateStartInv ==
  ASSUME IndInv, NEW g \in Pages, NEW f \in Frames, MigrateStart(g, f)
  PROVE  IndInv'
<1> USE MigrationAssumption DEF IndInv, kernel, pageFields, faults, Tracked
<1>1. TypeOK'
  <2>1. mig' \in [pc : {"idle", "protect", "copy", "remap", "register", "update", "end"},
                     page : Pages \cup {NULL}, to : Frames \cup {NULL}, copied : SUBSET Words]
    BY DEF MigrateStart, Idle
  <2>2. {wp', registered', migrating'} \subseteq [Pages -> BOOLEAN]
    BY DEF TypeOK, MigrateStart
  <2> QED
    BY <2>1, <2>2 DEF TypeOK, MigrateStart
<1>2. MigInv'
  BY DEF TypeOK, MigInv, Idle, MigrateStart, MigrateAt
<1>3. KernelInv'
  BY DEF KernelInv, MigrateStart, MigrateAt
<1>4. MapInv'
  BY DEF MapInv, MigrateStart, MigrateAt
<1>5. FrameInv'
  BY DEF FrameInv, MigrateStart, FreeFrames
<1>6. NoLostWrite'
  BY DEF NoLostWrite, MigrateStart
<1>7. CopyInv'
  BY DEF CopyInv, MigrateStart
<1>8. FaultInv'
  BY FaultsUndisturbed DEF MigrateStart
<1> QED
  BY <1>1, <1>2, <1>3, <1>4, <1>5, <1>6, <1>7, <1>8

\* The page is registered, so the protection takes effect.
LEMMA ProtectInv ==
  ASSUME IndInv, Protect
  PROVE  IndInv'
<1> USE MigrationAssumption DEF IndInv, kernel, pageFields, faults, Tracked
<1>1. TypeOK'
  <2>1. mig' \in [pc : {"idle", "protect", "copy", "remap", "register", "update", "end"},
                     page : Pages \cup {NULL}, to : Frames \cup {NULL}, copied : SUBSET Words]
    BY DEF TypeOK, MigInv, Protect, MigrateAt
  <2>2. {wp', registered', migrating'} \subseteq [Pages -> BOOLEAN]
    BY DEF TypeOK, MigInv, Protect, MigrateAt
  <2> QED
    BY <2>1, <2>2 DEF TypeOK, Protect
<1>2. MigInv'
  BY DEF MigInv, Protect, MigrateAt
<1>3. KernelInv'
  BY DEF TypeOK, KernelInv, MigInv, Protect, MigrateAt
<1>4. MapInv'
  BY DEF MapInv, Protect, MigrateAt
<1>5. FrameInv'
  BY DEF FrameInv, Protect, MigrateAt
<1>6. NoLostWrite'
  BY DEF NoLostWrite, Protect
<1>7. CopyInv'
  BY DEF CopyInv, MigInv, Protect, MigrateAt
<1>8. FaultInv'
  BY FaultsUndisturbed DEF Protect
<1> QED
  BY <1>1, <1>2, <1>3, <1>4, <1>5, <1>6, <1>7, <1>8

\* Both frames of the copy are out of reach of the stores.
LEMMA CopyWordInv ==
  ASSUME IndInv, NEW x \in Words, CopyWord(x)
  PROVE  IndInv'
<1> USE MigrationAssumption DEF IndInv, kernel, pageFields, faults, Tracked
<1>1. TypeOK'
  <2>1. mig' \in [pc : {"idle", "protect", "copy", "remap", "register", "update", "end"},
                     page : Pages \cup {NULL}, to : Frames \cup {NULL}, copied : SUBSET Words]
    BY DEF TypeOK, MigInv, CopyWord, MigrateAt
  <2>2. {wp', registered', migrating'} \subseteq [Pages -> BOOLEAN]
    BY DEF TypeOK, MigInv, CopyWord, MigrateAt
  <2>3. mem' \in [Frames -> [Words -> Values]]
    BY DEF TypeOK, MigInv, CopyWord, MigrateAt
  <2> QED
    BY <2>1, <2>2, <2>3 DEF TypeOK, CopyWord
<1>2. MigInv'
  BY DEF MigInv, CopyWord, MigrateAt
<1>3. KernelInv'
  BY DEF KernelInv, CopyWord, MigrateAt
<1>4. MapInv'
  BY DEF MapInv, CopyWord, MigrateAt
<1>5. FrameInv'
  BY DEF FrameInv, CopyWord, MigrateAt
<1>6. NoLostWrite'
  BY DEF NoLostWrite, MapInv, FrameInv, CopyWord, MigrateAt
<1>7. CopyInv'
  BY DEF TypeOK, CopyInv, MigInv, CopyWord, MigrateAt
<1>8. FaultInv'
  BY FaultsUndisturbed DEF CopyWord
<1> QED
  BY <1>1, <1>2, <1>3, <1>4, <1>5, <1>6, <1>7, <1>8

\* The mapping changes between equal frames.
LEMMA RemapInv ==
  ASSUME IndInv, Remap
  PROVE  IndInv'
<1> USE MigrationAssumption DEF IndInv, kernel, pageFields, faults, Tracked
<1>1. TypeOK'
  <2>1. mig' \in [pc : {"idle", "protect", "copy", "remap", "register", "update", "end"},
                     page : Pages \cup {NULL}, to : Frames \cup {NULL}, copied : SUBSET Words]
    BY DEF TypeOK, MigInv, Remap, MigrateAt
  <2>2. {wp', registered', migrating'} \subseteq [Pages -> BOOLEAN]
    BY DEF TypeOK, MigInv, Remap, MigrateAt
  <2>3. vm' \in [Pages -> Frames \cup {NULL}]
    BY DEF TypeOK, MigInv, Remap, MigrateAt
  <2> QED
    BY <2>1, <2>2, <2>3 DEF TypeOK, Remap
<1>2. MigInv'
  BY DEF MigInv, Remap, MigrateAt
<1>3. KernelInv'
  BY DEF TypeOK, KernelInv, Remap
<1>4. MapInv'
  BY DEF TypeOK, MapInv, Remap
<1>5. FrameInv'
  BY DEF FrameInv, Remap, MigrateAt
<1>6. NoLostWrite'
  BY DEF TypeOK, NoLostWrite, MapInv, MigInv, CopyInv, Remap, MigrateAt
<1>7. CopyInv'
  BY DEF CopyInv, Remap
<1>8. FaultInv'
  BY FaultsUndisturbed DEF Remap
<1> QED
  BY <1>1, <1>2, <1>3, <1>4, <1>5, <1>6, <1>7, <1>8

\* The new mapping can be protected by a later migration.
LEMMA RegisterInv ==
  ASSUME IndInv, Register
  PROVE  IndInv'
<1> USE MigrationAssumption DEF IndInv, kernel, pageFields, faults, Tracked
<1>1. TypeOK'
  BY DEF TypeOK, MigInv, Register, MigrateAt
<1>2. MigInv'
  BY DEF MigInv, Register, MigrateAt
<1>3. KernelInv'
  BY DEF TypeOK, KernelInv, Register, MigrateAt
<1>4. MapInv'
  BY DEF MapInv, Register, MigrateAt
<1>5. FrameInv'
  BY DEF FrameInv, Register, MigrateAt
<1>6. NoLostWrite'
  BY DEF NoLostWrite, Register
<1>7. CopyInv'
  BY DEF CopyInv, Register
<1>8. FaultInv'
  BY FaultsUndisturbed DEF Register
<1> QED
  BY <1>1, <1>2, <1>3, <1>4, <1>5, <1>6, <1>7, <1>8

\* The page takes the new frame, the old one is nobody's.
LEMMA UpdatePageInv ==
  ASSUME IndInv, UpdatePage
  PROVE  IndInv'
<1> USE MigrationAssumption DEF IndInv, kernel, pageFields, faults, Tracked
<1>1. TypeOK'
  BY DEF TypeOK, MigInv, UpdatePage, MigrateAt
<1>2. MigInv'
  BY DEF MigInv, UpdatePage, MigrateAt
<1>3. KernelInv'
  BY DEF KernelInv, MigInv, UpdatePage, MigrateAt
<1>4. MapInv'
  BY DEF TypeOK, MapInv, MigInv, UpdatePage, MigrateAt
<1>5. FrameInv'
  BY DEF TypeOK, FrameInv, MigInv, UpdatePage, MigrateAt
<1>6. NoLostWrite'
  BY DEF NoLostWrite, MigInv, UpdatePage, MigrateAt
<1>7. CopyInv'
  BY DEF CopyInv, UpdatePage
<1>8. FaultInv'
  BY FaultsUndisturbed DEF TypeOK, MigInv, UpdatePage, MigrateAt
<1> QED
  BY <1>1, <1>2, <1>3, <1>4, <1>5, <1>6, <1>7, <1>8

\* The mark goes when the page is mapped, registered and unprotected.
LEMMA MigrateEndInv ==
  ASSUME IndInv, MigrateEnd
  PROVE  IndInv'
<1> USE MigrationAssumption DEF IndInv, kernel, pageFields, faults, Tracked
<1>1. TypeOK'
  BY DEF TypeOK, MigInv, MigrateEnd, MigrateAt, Idle
<1>2. MigInv'
  BY DEF TypeOK, MigInv, Idle, MigrateEnd, MigrateAt
<1>3. KernelInv'
  BY DEF TypeOK, KernelInv, MigInv, MigrateEnd, MigrateAt, Idle
<1>4. MapInv'
  BY DEF TypeOK, MapInv, MigInv, MigrateEnd, MigrateAt, Idle
<1>5. FrameInv'
  BY DEF TypeOK, FrameInv, MigInv, MigrateEnd, MigrateAt, Idle
<1>6. NoLostWrite'
  BY DEF TypeOK, NoLostWrite, MapInv, FrameInv, MigInv, KernelInv, CopyInv, MigrateEnd,
     MigrateAt, Idle
<1>7. CopyInv'
  BY DEF TypeOK, CopyInv, MapInv, FrameInv, MigInv, KernelInv, MigrateEnd, MigrateAt, Idle
<1>8. FaultInv'
  BY FaultsUndisturbed DEF MigrateEnd
<1> QED
  BY <1>1, <1>2, <1>3, <1>4, <1>5, <1>6, <1>7, <1>8

\* The page of the first message passes to the fault thread.
LEMMA ReadMessageInv ==
  ASSUME IndInv, ReadMessage
  PROVE  IndInv'
<1> USE MigrationAssumption DEF IndInv, kernel, pageFields, faults, Tracked
<1>1. TypeOK'
  <2>1. msgs \in Seq(Message) /\ msgs # << >>
    BY DEF TypeOK, Message, ReadMessage
  <2>2. Head(msgs) \in Message /\ msgs' \in Seq(Message)
    BY <2>1 DEF ReadMessage
  <2> QED
    BY <2>2 DEF TypeOK, Message, ReadMessage
<1>2. MigInv' /\ KernelInv' /\ MapInv' /\ FrameInv' /\ NoLostWrite' /\ CopyInv'
  BY PagesUndisturbed DEF ReadMessage
<1>3. FaultInv'
  <2>1. msgs \in Seq(Message) /\ msgs # << >> /\ msgs' = Tail(msgs) /\ fault.pc = "poll"
    BY DEF TypeOK, Message, ReadMessage, FaultAt
  <2>2. /\ Len(msgs) \in Nat \ {0} /\ Len(msgs') = Len(msgs) - 1
        /\ \A i \in 1 .. Len(msgs') : msgs'[i] = msgs[i + 1] /\ i + 1 \in 1 .. Len(msgs)
        /\ msgs[1] \in Message /\ fault' = [pc |-> "find", page |-> msgs[1].page]
    BY <2>1 DEF ReadMessage
  <2>3. /\ msgs[1].page \in Pages /\ msgs[1].thread \in Writers
        /\ blocked[msgs[1].thread] = msgs[1].page
    BY <2>2 DEF Message, FaultInv
  <2>4. /\ fault'.pc # "poll" /\ fault'.page # NULL
        /\ \E w \in Writers : blocked'[w] = fault'.page
    BY <2>2, <2>3 DEF ReadMessage
  <2>5. BlockedIsKnown'
    <3> SUFFICES ASSUME NEW w \in Writers, blocked[w] # NULL
                 PROVE  \/ \E i \in 1 .. Len(msgs') : msgs'[i] = [thread |-> w, page |-> blocked[w]]
                        \/ fault'.page = blocked[w]
      BY DEF BlockedIsKnown, ReadMessage
    <3>1. PICK i \in 1 .. Len(msgs) : msgs[i] = [thread |-> w, page |-> blocked[w]]
      BY <2>1 DEF FaultInv, BlockedIsKnown
    <3>2. CASE i = 1
      BY <2>2, <3>1, <3>2
    <3>3. CASE i # 1
      <4>1. i - 1 \in 1 .. Len(msgs') /\ msgs'[i - 1] = msgs[i]
        BY <2>2, <3>3
      <4> QED
        BY <3>1, <4>1
    <3> QED
      BY <3>2, <3>3
  <2>6. \A i \in 1 .. Len(msgs') : blocked'[msgs'[i].thread] = msgs'[i].page
    BY <2>2 DEF FaultInv, ReadMessage
  <2> QED
    BY <2>4, <2>5, <2>6 DEF FaultInv, FaultFindsPage, ReadMessage
<1> QED
  BY <1>1, <1>2, <1>3

\* A page with a suspended thread is tracked, so it is found.
LEMMA FindPageInv ==
  ASSUME IndInv, FindPage
  PROVE  IndInv'
<1> USE MigrationAssumption DEF IndInv, kernel, pageFields, faults, Tracked
<1>1. TypeOK'
  BY DEF TypeOK, MigInv, FindPage, FaultAt
<1>2. MigInv' /\ KernelInv' /\ MapInv' /\ FrameInv' /\ NoLostWrite' /\ CopyInv'
  BY PagesUndisturbed DEF FindPage
<1>3. FaultInv'
  BY DEF TypeOK, FaultInv, BlockedIsKnown, FaultFindsPage, FindPage, FaultAt
<1> QED
  BY <1>1, <1>2, <1>3

\* The fault thread goes on when the page is not migrating.
LEMMA SpinMigratingInv ==
  ASSUME IndInv, SpinMigrating
  PROVE  IndInv'
<1> USE MigrationAssumption DEF IndInv, kernel, pageFields, faults, Tracked
<1>1. TypeOK'
  BY DEF TypeOK, MigInv, SpinMigrating, FaultAt
<1>2. MigInv' /\ KernelInv' /\ MapInv' /\ FrameInv' /\ NoLostWrite' /\ CopyInv'
  BY PagesUndisturbed DEF SpinMigrating
<1>3. FaultInv'
  BY DEF TypeOK, FaultInv, BlockedIsKnown, FaultFindsPage, SpinMigrating, FaultAt
<1> QED
  BY <1>1, <1>2, <1>3

\* All threads suspended on the page run again, and their messages go.
LEMMA WakeWritersInv ==
  ASSUME IndInv, WakeWriters
  PROVE  IndInv'
<1> USE MigrationAssumption DEF IndInv, kernel, pageFields, faults, Tracked
<1>1. TypeOK'
  <2>1. msgs' \in Seq(Message)
    BY WithoutKeeps DEF TypeOK, Message, WakeWriters, Wake
  <2> QED
    BY <2>1 DEF TypeOK, Message, WakeWriters, Wake, Waiting
<1>2. MigInv' /\ KernelInv' /\ MapInv' /\ FrameInv' /\ NoLostWrite' /\ CopyInv'
  BY PagesUndisturbed DEF WakeWriters
<1>3. FaultInv'
  <2> DEFINE g == fault.page
  <2>1. /\ msgs \in Seq(Message) /\ msgs' = Without(msgs, g)
        /\ blocked' = [w \in Writers |-> IF blocked[w] = g THEN NULL ELSE blocked[w]]
        /\ fault' = [pc |-> "poll", page |-> NULL] /\ UNCHANGED <<frame, failed>>
    BY DEF TypeOK, Message, WakeWriters, Wake, Waiting
  <2> HIDE DEF g
  <2>2. /\ \A i \in 1 .. Len(msgs') : \E j \in 1 .. Len(msgs) : msgs'[i] = msgs[j] /\ msgs[j].page # g
        /\ \A j \in 1 .. Len(msgs) : msgs[j].page # g => \E i \in 1 .. Len(msgs') : msgs'[i] = msgs[j]
    <3>1. msgs \in Seq(Message)
      BY <2>1
    <3>2. /\ \A i \in 1 .. Len(Without(msgs, g)) :
               \E j \in 1 .. Len(msgs) : Without(msgs, g)[i] = msgs[j] /\ msgs[j].page # g
          /\ \A j \in 1 .. Len(msgs) : msgs[j].page # g =>
               \E i \in 1 .. Len(Without(msgs, g)) : Without(msgs, g)[i] = msgs[j]
      BY <3>1, WithoutKeeps
    <3>3. msgs' = Without(msgs, g)
      BY <2>1
    <3> QED
      BY <3>2, <3>3, Zenon
  <2>3. ASSUME NEW i \in 1 .. Len(msgs')
        PROVE  blocked'[msgs'[i].thread] = msgs'[i].page
    <3>1. PICK j \in 1 .. Len(msgs) : msgs'[i] = msgs[j] /\ msgs[j].page # g
      BY <2>2
    <3>2. msgs[j].thread \in Writers
      <4>1. msgs[j] \in Message
        BY <2>1
      <4> QED
        BY <4>1 DEF Message
    <3>3. blocked[msgs[j].thread] = msgs[j].page
      BY DEF FaultInv
    <3> QED
      BY <2>1, <3>1, <3>2, <3>3
  <2>4. BlockedIsKnown'
    <3> SUFFICES ASSUME NEW w \in Writers, blocked'[w] # NULL
                 PROVE  \E i \in 1 .. Len(msgs') : msgs'[i] = [thread |-> w, page |-> blocked'[w]]
      BY DEF BlockedIsKnown
    <3>1. blocked[w] # g /\ blocked'[w] = blocked[w]
      BY <2>1
    <3>2. PICK j \in 1 .. Len(msgs) : msgs[j] = [thread |-> w, page |-> blocked[w]]
      BY <3>1 DEF FaultInv, BlockedIsKnown, g
    <3>3. msgs[j].page # g
      BY <3>1, <3>2
    <3> QED
      BY <2>2, <3>1, <3>2, <3>3
  <2>5. \A w \in Writers : blocked'[w] # NULL => frame'[blocked'[w]] # NULL
    BY <2>1 DEF FaultInv
  <2> QED
    BY <2>1, <2>3, <2>4, <2>5 DEF FaultInv, FaultFindsPage
<1> QED
  BY <1>1, <1>2, <1>3

-----------------------------------------------------------------------------
(* The theorems.                                                           *)

\* Before the first page is mapped the invariant holds.
LEMMA InitInv == Init => IndInv
<1> SUFFICES ASSUME Init PROVE IndInv
  OBVIOUS
<1> USE MigrationAssumption DEF Init, Idle, Waiting, Tracked
<1>1. TypeOK
  <2>1. PICK v \in Values : mem = [f \in Frames |-> [x \in Words |-> v]]
    OBVIOUS
  <2>2. mem \in [Frames -> [Words -> Values]]
    BY <2>1
  <2>3. (CHOOSE c \in [Words -> Values] : TRUE) \in [Words -> Values]
    <3>1. [x \in Words |-> v] \in [Words -> Values]
      OBVIOUS
    <3> QED
      BY <3>1
  <2>4. shadow \in [Pages -> [Words -> Values]]
    BY <2>3
  <2>5. msgs \in Seq([thread : Writers, page : Pages])
    OBVIOUS
  <2> QED
    BY <2>2, <2>4, <2>5 DEF TypeOK
<1>2. MigInv /\ KernelInv /\ MapInv /\ FrameInv /\ NoLostWrite /\ CopyInv
  BY DEF MigInv, KernelInv, MapInv, FrameInv, NoLostWrite, CopyInv
<1>3. FaultInv
  BY DEF FaultInv, BlockedIsKnown, FaultFindsPage
<1> QED
  BY <1>1, <1>2, <1>3 DEF IndInv

\* Every step of the application, the policy thread and the fault thread
\* preserves it.
LEMMA NextInv == IndInv /\ [Next]_vars => IndInv'
<1> SUFFICES ASSUME IndInv, [Next]_vars PROVE IndInv'
  OBVIOUS
<1>1. CASE Migrate
  BY <1>1, ProtectInv, CopyWordInv, RemapInv, RegisterInv, UpdatePageInv, MigrateEndInv
     DEF Migrate
<1>2. CASE HandleFault
  BY <1>2, ReadMessageInv, FindPageInv, SpinMigratingInv, WakeWritersInv DEF HandleFault
<1>3. CASE \E g \in Pages :
             \/ Unmap(g)
             \/ \E f \in Frames : Populate(g, f) \/ MigrateStart(g, f)
             \/ \E w \in Writers : StoreFaults(w, g) \/ \E x \in Words, v \in Values : Store(w, g, x, v)
  BY <1>3, UnmapInv, PopulateInv, MigrateStartInv, StoreFaultsInv, StoreInv
<1>4. CASE UNCHANGED vars
  BY <1>4 DEF vars, kernel, pageFields, faults, IndInv, TypeOK, MigInv, KernelInv, MapInv,
     FrameInv, NoLostWrite, CopyInv, FaultInv, BlockedIsKnown, FaultFindsPage, Tracked,
     Idle
<1> QED
  BY <1>1, <1>2, <1>3, <1>4 DEF Next

\* The inductive invariant holds in every reachable state.
THEOREM Invariance == Spec => []IndInv
BY InitInv, NextInv, PTL DEF Spec

\* Mappings, page fields and the locals of the two threads keep their types.
THEOREM TypeCorrect == Spec => []TypeOK
<1>1. IndInv => TypeOK
  BY DEF IndInv
<1> QED
  BY <1>1, Invariance, PTL

\* However many pages, frames and threads there are, what the application
\* reads is what it last stored, before, during and after a migration: the
\* copy passes only words that no store can reach.
THEOREM NoWriteLost == Spec => []NoLostWrite
<1>1. IndInv => NoLostWrite
  BY DEF IndInv
<1> QED
  BY <1>1, Invariance, PTL

\* At the end of the copy of hemem_migrate_up and hemem_migrate_down the two
\* frames are equal, which is what HEMEM_DEBUG compares.
THEOREM ExactCopy == Spec => []CopyIsExact
<1>1. ASSUME IndInv, mig.pc = "remap"
      PROVE  mem[mig.to] = mem[frame[mig.page]]
  <2>1. mem[mig.to] \in [Words -> Values] /\ mem[frame[mig.page]] \in [Words -> Values]
    BY <1>1 DEF IndInv, TypeOK, MigInv, Tracked
  <2>2. \A x \in Words : mem[mig.to][x] = mem[frame[mig.page]][x]
    BY <1>1 DEF IndInv, CopyInv
  <2> QED
    BY <2>1, <2>2
<1>2. IndInv => CopyIsExact
  BY <1>1 DEF CopyIsExact
<1> QED
  BY <1>2, Invariance, PTL

\* A page is write-protected only while the policy thread migrates it and
\* page->migrating says so: handle_wp_fault need never lift a protection.
THEOREM ProtectionEnds == Spec => []ProtectedIsMigrating
<1>1. IndInv => ProtectedIsMigrating
  BY DEF IndInv, MigInv, KernelInv, ProtectedIsMigrating
<1> QED
  BY <1>1, Invariance, PTL

\* A suspended thread has its message in the queue, or the fault thread is
\* at work on its page: waking by page loses nobody.
THEOREM SuspendedIsKnown == Spec => []BlockedIsKnown
<1>1. IndInv => BlockedIsKnown
  BY DEF IndInv, FaultInv
<1> QED
  BY <1>1, Invariance, PTL

\* The assertion of handle_wp_fault holds: find_page finds the page of every
\* message, whatever the application unmaps meanwhile.
THEOREM MessageFindsPage == Spec => []FaultFindsPage
<1>1. IndInv => FaultFindsPage
  BY DEF IndInv, FaultInv
<1> QED
  BY <1>1, Invariance, PTL
=============================================================================
