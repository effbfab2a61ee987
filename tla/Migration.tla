----------------------------- MODULE Migration -----------------------------
(***************************************************************************)
(* Moving the data of a page while the application uses it: pebs_migrate_up*)
(* and pebs_migrate_down (src/pebs.c), hemem_wp_page, hemem_migrate_up,    *)
(* hemem_migrate_down, handle_wp_fault and handle_fault (src/hemem.c).     *)
(*                                                                         *)
(* The policy thread write-protects the page through userfaultfd, copies   *)
(* it, maps the new frame over its address, which drops the protection and *)
(* the registration, and registers it again.  A thread that stores into a  *)
(* protected page is suspended by the kernel, which queues a message; the  *)
(* fault thread reads it, waits until the page is not migrating and wakes  *)
(* every thread suspended on the page.  It never lifts a protection.       *)
(*                                                                         *)
(* The kernel (userfaultfd, the DMA copy, mmap) is modelled from the way   *)
(* the code uses it.  Waking a thread whose message has not been read      *)
(* removes the message.  A page structure is named by the address at which *)
(* it is mapped.                                                           *)
(*                                                                         *)
(* The application does not unmap a page while a thread of its own stores  *)
(* into it, and here a page is not mapped or unmapped while it migrates    *)
(* (PebsPolicy has the overlap of the two).                                *)
(***************************************************************************)
EXTENDS Naturals, Sequences, FiniteSets

CONSTANTS
  Pages,       \* page structures, by the address they are mapped at
  DramFrames, NvmFrames,
  Words,       \* the units of a page that the copy moves one by one
  Values,      \* contents of a word
  Writers,     \* application threads
  NULL

Frames == DramFrames \cup NvmFrames

ASSUME MigrationAssumption ==
  /\ DramFrames \cap NvmFrames = {}
  /\ NULL \notin Pages \cup Frames

VARIABLES
  mem,        \* contents of the frames
  shadow,     \* the last value the application stored in each word of a page
  vm,         \* the frame mapped at the page's address
  wp,         \* whether that mapping is write-protected
  registered, \* whether it is registered with userfaultfd
  frame,      \* page->devdax_offset; NULL for a page that is not tracked
  migrating,  \* page->migrating, volatile
  mig,        \* locals and place of the policy thread
  blocked,    \* the page a thread is suspended on
  msgs,       \* userfaultfd messages not read yet: thread and page
  fault,      \* locals and place of the fault thread
  failed      \* whether an assertion has failed

kernel == <<vm, wp, registered>>
pageFields == <<frame, migrating>>
faults == <<blocked, msgs, fault>>
vars == <<mem, shadow, kernel, pageFields, mig, faults, failed>>

Tracked(g) == frame[g] # NULL
TierOf(f) == IF f \in DramFrames THEN "dram" ELSE "nvm"
Idle == [pc |-> "idle", page |-> NULL, to |-> NULL, copied |-> {}]
Waiting == [pc |-> "poll", page |-> NULL]

\* Frames of pages on the free lists.
FreeFrames == Frames \ ({frame[g] : g \in Pages} \cup {mig.to})

Init ==
  /\ \E v \in Values : mem = [f \in Frames |-> [x \in Words |-> v]]
  /\ shadow = [g \in Pages |-> CHOOSE c \in [Words -> Values] : TRUE]
  /\ vm = [g \in Pages |-> NULL]
  /\ wp = [g \in Pages |-> FALSE]
  /\ registered = [g \in Pages |-> FALSE]
  /\ frame = [g \in Pages |-> NULL]
  /\ migrating = [g \in Pages |-> FALSE]
  /\ mig = Idle
  /\ blocked = [w \in Writers |-> NULL]
  /\ msgs = << >>
  /\ fault = Waiting
  /\ failed = FALSE

-----------------------------------------------------------------------------
(* The application.                                                        *)

\* hemem_mmap_populate: map a free frame, register it, track the page.  The
\* frame is not cleared in the DMA build.
Populate(g, f) ==
  /\ ~failed
  /\ ~Tracked(g)
  /\ f \in FreeFrames
  /\ vm' = [vm EXCEPT ![g] = f]
  /\ wp' = [wp EXCEPT ![g] = FALSE]
  /\ registered' = [registered EXCEPT ![g] = TRUE]
  /\ frame' = [frame EXCEPT ![g] = f]
  /\ migrating' = [migrating EXCEPT ![g] = FALSE]
  /\ shadow' = [shadow EXCEPT ![g] = mem[f]]
  /\ UNCHANGED <<mem, mig, faults, failed>>

\* hemem_munmap.
Unmap(g) ==
  /\ ~failed
  /\ Tracked(g)
  /\ mig.page # g
  /\ \A w \in Writers : blocked[w] # g
  /\ vm' = [vm EXCEPT ![g] = NULL]
  /\ wp' = [wp EXCEPT ![g] = FALSE]
  /\ registered' = [registered EXCEPT ![g] = FALSE]
  /\ frame' = [frame EXCEPT ![g] = NULL]
  /\ shadow' = [shadow EXCEPT ![g] = CHOOSE c \in [Words -> Values] : TRUE]
  /\ UNCHANGED <<mem, migrating, mig, faults, failed>>

\* A store through the mapping of the page ...
Store(w, g, x, v) ==
  /\ ~failed
  /\ Tracked(g) /\ blocked[w] = NULL
  /\ ~wp[g]
  /\ mem' = [mem EXCEPT ![vm[g]][x] = v]
  /\ shadow' = [shadow EXCEPT ![g][x] = v]
  /\ UNCHANGED <<kernel, pageFields, mig, faults, failed>>

\* ... or, when that is protected, a page fault.
StoreFaults(w, g) ==
  /\ ~failed
  /\ Tracked(g) /\ blocked[w] = NULL
  /\ wp[g]
  /\ blocked' = [blocked EXCEPT ![w] = g]
  /\ msgs' = Append(msgs, [thread |-> w, page |-> g])
  /\ UNCHANGED <<mem, shadow, kernel, pageFields, mig, fault, failed>>

-----------------------------------------------------------------------------
(* The policy thread.                                                      *)

MigrateAt(l) == ~failed /\ mig.pc = l

\* Fault: the page is not marked.
MigrateStartUnmarked(g, f) ==
  /\ MigrateAt("idle") /\ Tracked(g)
  /\ f \in FreeFrames /\ TierOf(f) # TierOf(frame[g])
  /\ mig' = [Idle EXCEPT !.pc = "protect", !.page = g, !.to = f]
  /\ UNCHANGED <<mem, shadow, kernel, pageFields, faults, failed>>

\* pebs_migrate_up, pebs_migrate_down: page->migrating = true.
MigrateStart(g, f) ==
  /\ MigrateAt("idle")
  /\ Tracked(g)
  /\ f \in FreeFrames /\ TierOf(f) # TierOf(frame[g])
  /\ migrating' = [migrating EXCEPT ![g] = TRUE]
  /\ mig' = [Idle EXCEPT !.pc = "protect", !.page = g, !.to = f]
  /\ UNCHANGED <<mem, shadow, kernel, frame, faults, failed>>

\* hemem_wp_page; the ioctl's ENOENT, for a range that is not registered, is
\* passed over.
Protect ==
  /\ MigrateAt("protect")
  /\ wp' = [wp EXCEPT ![mig.page] = registered[mig.page]]
  /\ mig' = [mig EXCEPT !.pc = "copy"]
  /\ UNCHANGED <<mem, shadow, vm, registered, pageFields, faults, failed>>

\* Fault: the copy stops short.
CopyWordShort(x) ==
  /\ MigrateAt("copy")
  /\ mem' = [mem EXCEPT ![mig.to][x] = mem[frame[mig.page]][x]]
  /\ mig' = [mig EXCEPT !.pc = "remap"]
  /\ UNCHANGED <<shadow, kernel, pageFields, faults, failed>>

\* UFFDIO_DMA_COPY between the two frames, in any order.
CopyWord(x) ==
  /\ MigrateAt("copy")
  /\ x \notin mig.copied
  /\ mem' = [mem EXCEPT ![mig.to][x] = mem[frame[mig.page]][x]]
  /\ mig' = [mig EXCEPT !.copied = @ \cup {x},
                        !.pc = IF mig.copied \cup {x} = Words THEN "remap" ELSE "copy"]
  /\ UNCHANGED <<shadow, kernel, pageFields, faults, failed>>

\* mmap with MAP_FIXED of the new frame: a new mapping, neither protected
\* nor registered.
Remap ==
  /\ MigrateAt("remap")
  /\ vm' = [vm EXCEPT ![mig.page] = mig.to]
  /\ wp' = [wp EXCEPT ![mig.page] = FALSE]
  /\ registered' = [registered EXCEPT ![mig.page] = FALSE]
  /\ mig' = [mig EXCEPT !.pc = "register"]
  /\ UNCHANGED <<mem, shadow, pageFields, faults, failed>>

\* Fault: the new mapping is not registered.
RegisterSkipped ==
  /\ MigrateAt("register")
  /\ mig' = [mig EXCEPT !.pc = "update"]
  /\ UNCHANGED <<mem, shadow, kernel, pageFields, faults, failed>>

Register ==
  /\ MigrateAt("register")
  /\ registered' = [registered EXCEPT ![mig.page] = TRUE]
  /\ mig' = [mig EXCEPT !.pc = "update"]
  /\ UNCHANGED <<mem, shadow, vm, wp, pageFields, faults, failed>>

\* page->devdax_offset and page->in_dram; the caller frees the old frame.
UpdatePage ==
  /\ MigrateAt("update")
  /\ frame' = [frame EXCEPT ![mig.page] = mig.to]
  /\ mig' = [mig EXCEPT !.pc = "end"]
  /\ UNCHANGED <<mem, shadow, kernel, migrating, faults, failed>>

\* Fault: the mark stays.
MigrateEndMarked ==
  /\ MigrateAt("end")
  /\ mig' = Idle
  /\ UNCHANGED <<mem, shadow, kernel, pageFields, faults, failed>>

\* page->migrating = false.
MigrateEnd ==
  /\ MigrateAt("end")
  /\ migrating' = [migrating EXCEPT ![mig.page] = FALSE]
  /\ mig' = Idle
  /\ UNCHANGED <<mem, shadow, kernel, frame, faults, failed>>

-----------------------------------------------------------------------------
(* The fault thread.                                                       *)

FaultAt(l) == ~failed /\ fault.pc = l

\* The messages of queue s that are not for page g, in their order.
Without(s, g) ==
  LET kept[i \in 0 .. Len(s)] ==
        IF i = 0 THEN << >>
        ELSE IF s[i].page = g THEN kept[i - 1] ELSE Append(kept[i - 1], s[i])
  IN  kept[Len(s)]

\* The threads suspended on page g are woken; their unread messages go.
Wake(g) ==
  /\ blocked' = [w \in Writers |-> IF blocked[w] = g THEN NULL ELSE blocked[w]]
  /\ msgs' = Without(msgs, g)

\* Fault: the threads are woken when the message is read.
ReadMessageWakes ==
  /\ FaultAt("poll") /\ msgs # << >>
  /\ fault' = [pc |-> "find", page |-> Head(msgs).page]
  /\ Wake(Head(msgs).page)
  /\ UNCHANGED <<mem, shadow, kernel, pageFields, mig, failed>>

\* poll and read, MAX_UFFD_MSGS = 1 message at a time.
ReadMessage ==
  /\ FaultAt("poll")
  /\ msgs # << >>
  /\ fault' = [pc |-> "find", page |-> Head(msgs).page]
  /\ msgs' = Tail(msgs)
  /\ UNCHANGED <<mem, shadow, kernel, pageFields, mig, blocked, failed>>

\* handle_wp_fault: find_page must find the page ...
FindPage ==
  /\ FaultAt("find")
  /\ IF Tracked(fault.page)
     THEN fault' = [fault EXCEPT !.pc = "spin"] /\ UNCHANGED failed
     ELSE failed' = TRUE /\ UNCHANGED fault
  /\ UNCHANGED <<mem, shadow, kernel, pageFields, mig, blocked, msgs>>

\* ... and the thread spins until it is not migrating.
SpinMigrating ==
  /\ FaultAt("spin")
  /\ ~migrating[fault.page]
  /\ fault' = [fault EXCEPT !.pc = "wake"]
  /\ UNCHANGED <<mem, shadow, kernel, pageFields, mig, blocked, msgs, failed>>

\* Fault: messages of the page are consumed and one thread is woken.
WakeWritersOne ==
  /\ FaultAt("wake")
  /\ \E w \in Writers :
       /\ blocked[w] = fault.page
       /\ blocked' = [blocked EXCEPT ![w] = NULL]
  /\ msgs' = Without(msgs, fault.page)
  /\ fault' = Waiting
  /\ UNCHANGED <<mem, shadow, kernel, pageFields, mig, failed>>

\* UFFDIO_WAKE.
WakeWriters ==
  /\ FaultAt("wake")
  /\ Wake(fault.page)
  /\ fault' = Waiting
  /\ UNCHANGED <<mem, shadow, kernel, pageFields, mig, failed>>

-----------------------------------------------------------------------------
Migrate ==
  \/ Protect \/ (\E x \in Words : CopyWord(x)) \/ Remap \/ Register
  \/ UpdatePage \/ MigrateEnd

HandleFault == ReadMessage \/ FindPage \/ SpinMigrating \/ WakeWriters

Next ==
  \/ Migrate \/ HandleFault
  \/ \E g \in Pages :
       \/ Unmap(g)
       \/ \E f \in Frames : Populate(g, f) \/ MigrateStart(g, f)
       \/ \E w \in Writers : StoreFaults(w, g) \/ \E x \in Words, v \in Values : Store(w, g, x, v)

Spec == Init /\ [][Next]_vars

\* A migration that has begun goes on, and the fault thread runs on a core
\* of its own.  It reads migrating over and over, so it does not miss
\* forever the times at which the page is not migrating.
Fairness ==
  /\ WF_vars(Migrate)
  /\ WF_vars(HandleFault)
  /\ SF_vars(SpinMigrating)

FairSpec == Spec /\ Fairness

-----------------------------------------------------------------------------
(* Properties.                                                             *)

\* Mappings, page fields and the locals of the two threads have their types.
TypeOK ==
  /\ mem \in [Frames -> [Words -> Values]]
  /\ shadow \in [Pages -> [Words -> Values]]
  /\ vm \in [Pages -> Frames \cup {NULL}] /\ frame \in [Pages -> Frames \cup {NULL}]
  /\ {wp, registered, migrating} \subseteq [Pages -> BOOLEAN]
  /\ mig \in [pc : {"idle", "protect", "copy", "remap", "register", "update", "end"},
              page : Pages \cup {NULL}, to : Frames \cup {NULL}, copied : SUBSET Words]
  /\ blocked \in [Writers -> Pages \cup {NULL}]
  /\ msgs \in Seq([thread : Writers, page : Pages])
  /\ fault \in [pc : {"poll", "find", "spin", "wake"}, page : Pages \cup {NULL}]
  /\ failed \in BOOLEAN

\* What the application reads at the address of a page is what it last
\* stored there, before, during and after any number of migrations: no
\* store goes to a frame that the copy has passed or the mapping has left.
NoLostWrite == \A g \in Pages : Tracked(g) => mem[vm[g]] = shadow[g]

\* hemem.c:705-714 and 820-829 (HEMEM_DEBUG): after the copy the frames are
\* equal, although stores arrive until the page is protected.
CopyIsExact == mig.pc = "remap" => mem[mig.to] = mem[frame[mig.page]]

\* A page is protected only while it is marked as migrating.  Nothing but
\* the remapping lifts a protection, so a thread that faulted on a page that
\* is not migrating would be woken and fault again forever.
ProtectedIsMigrating == \A g \in Pages : wp[g] => migrating[g] /\ mig.page = g

\* The wake-up of a suspended thread is on its way: its message is queued or
\* the fault thread is at work on its page.  MAX_UFFD_MSGS being 1, a
\* message that is read belongs to a thread that is still suspended.
BlockedIsKnown ==
  \A w \in Writers : blocked[w] # NULL =>
    \/ \E i \in 1 .. Len(msgs) : msgs[i] = [thread |-> w, page |-> blocked[w]]
    \/ fault.page = blocked[w]

\* hemem.c:921: handle_wp_fault finds the page of every message it is given,
\* also when the page may be unmapped once the threads are awake.
FaultFindsPage == ~failed

\* A thread suspended on a migrating page runs again.
WriterResumes == \A w \in Writers : blocked[w] # NULL ~> blocked[w] = NULL
=============================================================================
