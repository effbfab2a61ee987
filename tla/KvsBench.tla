------------------------------ MODULE KvsBench ------------------------------
(***************************************************************************)
(* kvsbench (src/apps/flexkvs/bench/main.c and workload.c), the default    *)
(* build of FlexKVS: the threads of the benchmark call the store of        *)
(* KvsStore themselves.  There is no maintenance thread, so the log is     *)
(* never cleaned, and a SET of a key that is there writes its item in      *)
(* place.  The main thread drives the phases of the benchmark.             *)
(*                                                                         *)
(* The values, the statistics and the messages are left out.               *)
(***************************************************************************)
EXTENDS KvsStore

CONSTANTS
  KeySeq,  \* the keys of the workload, in order
  Cdf,     \* the cumulative distribution over them, in percent
  Draws    \* the random numbers considered, in percent

NKeys == Len(KeySeq)

\* What generate_keys and the distributions make: keys, not all of them different
\* perhaps, each with a positive probability; the last one completes the sum.
Generated ==
  /\ KeySeq \in Seq(Keys) /\ NKeys > 0
  /\ Cdf \in [1 .. NKeys -> 1 .. 100] /\ Cdf[NKeys] = 100
  /\ \A i \in 1 .. NKeys - 1 : Cdf[i] < Cdf[i + 1]

ASSUME BenchAssumption == Generated /\ Draws \subseteq 1 .. 100

VARIABLES
  phase,       \* BENCHMARK_INIT .. BENCHMARK_DONE
  init_count,  \* threads that have loaded their keys
  th           \* place and locals of each thread

storeVars == <<wk, mt>>
benchVars == <<vars, phase, init_count, th>>

INIT == 0
PRELOAD == 1
WARMUP == 2
RUNNING == 3
DYN_HOTSET == 4
COOLDOWN == 5
DONE == 6

-----------------------------------------------------------------------------
(* workload.c.                                                             *)

\* -1 to go left, 0 if found, 1 to go right.
key_in_range(i, x) ==
  IF x < Cdf[i] THEN (IF i = 1 THEN 0 ELSE IF x <= Cdf[i - 1] THEN -1 ELSE 0)
  ELSE IF x > Cdf[i] THEN (IF i = NKeys THEN 0 ELSE 1)
  ELSE 0

\* The binary search over l .. r, which returns the last place it looked at.
Search(x) ==
  LET S == [l : 1 .. NKeys + 1, r : 0 .. NKeys, mid : 1 .. NKeys]
      f[s \in S] ==
        LET mid == (s.l + s.r - 2) \div 2 + 1
            res == key_in_range(mid, x) IN
        IF s.l >= s.r THEN s.mid
        ELSE IF res < 0 THEN f[[l |-> s.l, r |-> mid - 1, mid |-> mid]]
        ELSE IF res > 0 THEN f[[l |-> mid + 1, r |-> s.r, mid |-> mid]]
        ELSE mid
  IN f

draw_key(x) == KeySeq[Search(x)[[l |-> 1, r |-> NKeys, mid |-> 1]]]

-----------------------------------------------------------------------------
IdleThread == [pc |-> "start", i |-> 0, op |-> "none", key |-> NULL, it |-> NULL, x |-> 0, back |-> "load"]

\* main: the store, the workload, and the threads with their allocators.
BenchInit ==
  /\ Init
  /\ phase = INIT
  /\ init_count = 0
  /\ th = [t \in Workers |-> IdleThread]

-----------------------------------------------------------------------------
(* The requests: calls of the store, in the thread that makes them.        *)

\* set_request and get_request begin with a lookup, which takes a reference.
\* An item that is found is read, or overwritten, in place.
Looks(t) ==
  LET it == Lookup(heap, th[t].key) IN
  /\ th[t].pc = "look"
  /\ heap' = IF it = NULL THEN heap ELSE item_ref(heap, it)
  /\ th' = [th EXCEPT ![t].it = it,
                      ![t].pc = IF it # NULL THEN "unref"
                                ELSE IF th[t].op = "set" THEN "alloc" ELSE th[t].back]
  /\ UNCHANGED <<ia, reqs, failed, storeVars, phase, init_count>>

\* The item is used without a look whether there is one.
Allocates(t) ==
  LET r == ialloc_alloc(heap, ia[t], th[t].key, NULL, FALSE) IN
  /\ th[t].pc = "alloc"
  /\ heap' = r.heap
  /\ ia' = [ia EXCEPT ![t] = r.ia]
  /\ IF r.it = NULL THEN failed' = "item is NULL" /\ UNCHANGED th
     ELSE th' = [th EXCEPT ![t].it = r.it, ![t].pc = "put"] /\ UNCHANGED failed
  /\ UNCHANGED <<reqs, storeVars, phase, init_count>>

Puts(t) ==
  /\ th[t].pc = "put"
  /\ heap' = hasht_put(heap, th[t].it, NULL)
  /\ th' = [th EXCEPT ![t].pc = "check"]
  /\ UNCHANGED <<ia, reqs, failed, storeVars, phase, init_count>>

\* Mutant: compiled without assertions.
ChecksNot(t) ==
  /\ th[t].pc = "check"
  /\ th' = [th EXCEPT ![t].pc = "unref2"]
  /\ UNCHANGED <<heap, ia, reqs, failed, storeVars, phase, init_count>>

\* The assertion that the insertion succeeded looks the item up: it takes one
\* of the two references that are dropped next.
Checks(t) ==
  LET it == Lookup(heap, th[t].key) IN
  /\ th[t].pc = "check"
  /\ heap' = item_ref(heap, it)
  /\ th' = [th EXCEPT ![t].pc = "unref2"]
  /\ failed' = IF it = th[t].it THEN failed ELSE "it == hasht_get"
  /\ UNCHANGED <<ia, reqs, storeVars, phase, init_count>>

Unrefs(t) ==
  /\ th[t].pc \in {"unref2", "unref"}
  /\ heap' = item_unref(heap, th[t].it)
  /\ th' = IF th[t].pc = "unref2" THEN [th EXCEPT ![t].pc = "unref"]
           ELSE [th EXCEPT ![t].pc = th[t].back, ![t].it = NULL, ![t].x = 0]
  /\ UNCHANGED <<ia, reqs, failed, storeVars, phase, init_count>>

-----------------------------------------------------------------------------
(* thread_run.                                                             *)

Starts(t) ==
  /\ th[t].pc = "start" /\ phase >= PRELOAD
  /\ th' = [th EXCEPT ![t].pc = "load", ![t].i = t]
  /\ UNCHANGED <<vars, phase, init_count>>

\* load_keys: every NWorkers-th key.
Loads(t) ==
  /\ th[t].pc = "load"
  /\ IF th[t].i <= NKeys
     THEN /\ th' = [th EXCEPT ![t].i = @ + NWorkers, ![t].pc = "look", ![t].op = "set",
                              ![t].key = KeySeq[th[t].i]]
          /\ UNCHANGED init_count
     ELSE /\ th' = [th EXCEPT ![t].pc = "ready"]
          /\ init_count' = init_count + 1
  /\ UNCHANGED <<vars, phase>>

WaitsToRun(t) ==
  /\ th[t].pc = "ready" /\ phase >= RUNNING
  /\ th' = [th EXCEPT ![t].pc = "run", ![t].back = "run"]
  /\ UNCHANGED <<vars, phase, init_count>>

\* send_pending: any operation on a key that draw_key can return.  The second
\* hot set has the same keys; one distribution stands for both.
SendsPending(t) ==
  /\ th[t].pc = "run" /\ phase \in {RUNNING, DYN_HOTSET} /\ reqs < MaxReqs
  /\ \E op \in {"get", "set"}, x \in Draws :
       th' = [th EXCEPT ![t].pc = "look", ![t].op = op, ![t].x = x, ![t].key = draw_key(x)]
  /\ reqs' = reqs + 1
  /\ UNCHANGED <<heap, ia, failed, storeVars, phase, init_count>>

\* Mutant: a thread leaves only when the benchmark is done.
EndsLate(t) ==
  /\ th[t].pc = "run" /\ phase = DONE
  /\ th' = [th EXCEPT ![t].pc = "end"]
  /\ UNCHANGED <<vars, phase, init_count>>

Ends(t) ==
  /\ th[t].pc = "run" /\ phase \notin {RUNNING, DYN_HOTSET}
  /\ th' = [th EXCEPT ![t].pc = "end"]
  /\ UNCHANGED <<vars, phase, init_count>>

Thread(t) ==
  \/ Starts(t) \/ Loads(t) \/ WaitsToRun(t) \/ SendsPending(t) \/ Ends(t)
  \/ Looks(t) \/ Allocates(t) \/ Puts(t) \/ Checks(t) \/ Unrefs(t)

-----------------------------------------------------------------------------
(* main.                                                                   *)

MainPreloads ==
  /\ phase \in {INIT, PRELOAD}
  /\ phase' = phase + 1
  /\ UNCHANGED <<vars, init_count, th>>

\* Mutant: the first thread that is ready starts the measurement.
MainRunsEarly ==
  /\ phase = WARMUP /\ init_count > 0
  /\ phase' = RUNNING
  /\ UNCHANGED <<vars, init_count, th>>

MainRuns ==
  /\ phase = WARMUP /\ init_count >= NWorkers
  /\ phase' = RUNNING
  /\ UNCHANGED <<vars, init_count, th>>

\* After some time, the second hot set, if there is one; then the end.
MainTicks ==
  /\ \/ phase = RUNNING /\ phase' = DYN_HOTSET
     \/ phase \in {RUNNING, DYN_HOTSET} /\ phase' = COOLDOWN
  /\ UNCHANGED <<vars, init_count, th>>

MainJoins ==
  /\ phase = COOLDOWN /\ \A t \in Workers : th[t].pc = "end"
  /\ phase' = DONE
  /\ UNCHANGED <<vars, init_count, th>>

Main == MainPreloads \/ MainRuns \/ MainTicks \/ MainJoins

BenchNext == failed = "none" /\ (Main \/ \E t \in Workers : Thread(t))

\* All threads spin: none is kept from running, and neither is main.
BenchSpec ==
  /\ BenchInit /\ [][BenchNext]_benchVars
  /\ WF_benchVars(failed = "none" /\ Main)
  /\ \A t \in Workers : WF_benchVars(failed = "none" /\ Thread(t))

-----------------------------------------------------------------------------
\* The references to item a: one of the table and one of each thread that works
\* on it, which has two after the assertion about its insertion.
BenchReferences(a) ==
  (IF a \in Table THEN 1 ELSE 0)
  + Cardinality({t \in Workers : th[t].it = a})
  + Cardinality({t \in Workers : th[t].it = a /\ th[t].pc = "unref2"})

\* In the benchmark, every reference count is the number of references that
\* exist: the second item_unref of set_request gives back the reference that
\* the assertion before it takes.
BenchRefcounts ==
  failed = "none" =>
    \A a \in DOMAIN heap.items : heap.items[a].refcount = BenchReferences(a)

\* When the measurement starts every key is in the table, so that no request
\* misses, and the assertion about an insertion holds although it is made after
\* the bucket is unlocked.
LoadedBeforeRun ==
  /\ phase >= RUNNING => \A k \in ToSet(KeySeq) : Lookup(heap, k) # NULL
  /\ failed # "it == hasht_get"

\* The benchmark ends: main joins all threads, whatever they are doing when it
\* changes the phase.
BenchEnds == <>(phase = DONE \/ failed # "none")
=============================================================================
