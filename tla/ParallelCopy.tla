---------------------------- MODULE ParallelCopy ----------------------------
(***************************************************************************)
(* The copy threads of src/hemem.c, in a build without USE_DMA: a caller   *)
(* of hemem_parallel_memcpy or hemem_parallel_memset puts its job into     *)
(* pmemcpy, and meets the threads at one barrier before and at another     *)
(* time after each of them has done its chunk.  The policy thread copies   *)
(* pages while application threads clear theirs.                           *)
(*                                                                         *)
(* A buffer is one value per chunk; the length is a multiple of the number *)
(* of threads.  A thread that the barrier releases goes on at once.        *)
(***************************************************************************)
EXTENDS Integers, FiniteSets

CONSTANTS
  CopyThreads,  \* 1 .. MAX_COPY_THREADS
  Callers,      \* threads that copy or clear a page
  Nobody        \* the owner of a free lock

ASSUME CopyAssumption ==
  /\ IsFiniteSet(CopyThreads) /\ CopyThreads # {}
  /\ Nobody \notin Callers /\ CopyThreads \cap Callers = {}

VARIABLES
  lock,     \* pmemcpy.lock
  job,      \* the other fields of pmemcpy
  waiting,  \* the threads at the barrier
  step,     \* place of each thread
  mine,     \* the fields as each copy thread has read them
  task,     \* what each caller wants: the value all its chunks shall have
  mem       \* the chunks of each caller's destination

copyVars == <<lock, job, waiting, step, mine, task, mem>>

Threads == CopyThreads \cup Callers

\* 0 is what memset writes; a source page is all 1 or all 2.
PageContents == 0 .. 2

\* pmemcpy before its first use; the threads are created in hemem_init.
NoJob == [dst |-> Nobody, src |-> 0, write_zeros |-> FALSE]

CopyInit ==
  /\ lock = Nobody
  /\ job = NoJob
  /\ waiting = {}
  /\ step = [t \in Threads |-> IF t \in Callers THEN "idle" ELSE "begin"]
  /\ mine = [t \in CopyThreads |-> NoJob]
  /\ task = [c \in Callers |-> 0]
  /\ mem = [c \in Callers |-> [t \in CopyThreads |-> 0]]

\* The place after each barrier.
After(s) == CASE s = "begin" -> "grab" [] s = "end" -> "begin"
              [] s = "start" -> "finish" [] s = "finish" -> "unlock"

-----------------------------------------------------------------------------
\* Mutant: a barrier for the copy threads alone.
barrier_wait_short(t) ==
  /\ step[t] \in {"begin", "end", "start", "finish"} /\ t \notin waiting
  /\ IF Cardinality(waiting) + 1 < Cardinality(CopyThreads)
     THEN waiting' = waiting \cup {t} /\ UNCHANGED step
     ELSE /\ waiting' = {}
          /\ step' = [u \in Threads |-> IF u \in waiting \cup {t} THEN After(step[u]) ELSE step[u]]
  /\ UNCHANGED <<lock, job, mine, task, mem>>

\* pthread_barrier_wait: the last of MAX_COPY_THREADS + 1 threads releases
\* all of them.
barrier_wait(t) ==
  /\ step[t] \in {"begin", "end", "start", "finish"} /\ t \notin waiting
  /\ IF Cardinality(waiting) < Cardinality(CopyThreads)
     THEN waiting' = waiting \cup {t} /\ UNCHANGED step
     ELSE /\ waiting' = {}
          /\ step' = [u \in Threads |-> IF u \in waiting \cup {t} THEN After(step[u]) ELSE step[u]]
  /\ UNCHANGED <<lock, job, mine, task, mem>>

\* hemem_parallel_memcpy and hemem_parallel_memset: the job is written under
\* the lock.  Here it differs from what the destination holds.
Calls(c) ==
  /\ step[c] = "idle" /\ lock = Nobody
  /\ lock' = c
  /\ \E v \in PageContents :
       /\ \A t \in CopyThreads : mem[c][t] # v
       /\ task' = [task EXCEPT ![c] = v]
       /\ job' = [dst |-> c, src |-> IF v = 0 THEN job.src ELSE v, write_zeros |-> v = 0]
  /\ step' = [step EXCEPT ![c] = "start"]
  /\ UNCHANGED <<waiting, mine, mem>>

Returns(c) ==
  /\ step[c] = "unlock"
  /\ lock' = Nobody
  /\ step' = [step EXCEPT ![c] = "idle"]
  /\ UNCHANGED <<job, waiting, mine, task, mem>>

\* hemem_parallel_memcpy_thread: the fields are read ...
Grabs(t) ==
  /\ step[t] = "grab"
  /\ mine' = [mine EXCEPT ![t] = job]
  /\ step' = [step EXCEPT ![t] = "copy"]
  /\ UNCHANGED <<lock, job, waiting, task, mem>>

\* ... and used.
Copies(t) ==
  /\ step[t] = "copy"
  /\ mem' = [mem EXCEPT ![mine[t].dst][t] = IF mine[t].write_zeros THEN 0 ELSE mine[t].src]
  /\ step' = [step EXCEPT ![t] = "end"]
  /\ UNCHANGED <<lock, job, waiting, mine, task>>

CopyNext ==
  \/ \E t \in Threads : barrier_wait(t)
  \/ \E c \in Callers : Calls(c) \/ Returns(c)
  \/ \E t \in CopyThreads : Grabs(t) \/ Copies(t)

CopySpec == CopyInit /\ [][CopyNext]_copyVars

-----------------------------------------------------------------------------
\* When hemem_parallel_memcpy or hemem_parallel_memset returns, the whole
\* destination holds what was asked for, and it keeps it: no thread works on
\* a job of an earlier or a later caller.
CopyComplete ==
  \A c \in Callers : step[c] \in {"idle", "unlock"} => \A t \in CopyThreads : mem[c][t] = task[c]
=============================================================================
