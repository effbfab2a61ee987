------------------------------- MODULE KvMap -------------------------------
(***************************************************************************)
(* What the FlexKVS store promises its worker threads: a map from keys to  *)
(* values.  A request takes effect at one instant between its arrival and  *)
(* its answer; a SET may be refused, and then changes nothing.             *)
(***************************************************************************)
CONSTANTS Workers, Keys, Vals, NULL

VARIABLES
  store,  \* the value of each key, or NULL
  op      \* the request each worker is busy with

Idle == [op |-> "none", key |-> NULL, val |-> NULL, done |-> FALSE]

Init ==
  /\ store = [k \in Keys |-> NULL]
  /\ op = [w \in Workers |-> Idle]

Requests ==
  [op : {"get"}, key : Keys, val : {NULL}, done : {FALSE}]
  \cup [op : {"set"}, key : Keys, val : Vals, done : {FALSE}]

Request(w) ==
  /\ op[w] = Idle /\ op'[w] \in Requests
  /\ op' = [op EXCEPT ![w] = op'[w]]
  /\ UNCHANGED store

Get(w) ==
  /\ op[w].op = "get" /\ ~op[w].done
  /\ op' = [op EXCEPT ![w].done = TRUE, ![w].val = store[op[w].key]]
  /\ UNCHANGED store

Set(w) ==
  /\ op[w].op = "set" /\ ~op[w].done
  /\ store' = [store EXCEPT ![op[w].key] = op[w].val]
  /\ op' = [op EXCEPT ![w].done = TRUE]

Refuse(w) ==
  /\ op[w].op = "set" /\ ~op[w].done
  /\ op' = [op EXCEPT ![w] = Idle]
  /\ UNCHANGED store

Answer(w) ==
  /\ op[w].done
  /\ op' = [op EXCEPT ![w] = Idle]
  /\ UNCHANGED store

Next == \E w \in Workers : Request(w) \/ Get(w) \/ Set(w) \/ Refuse(w) \/ Answer(w)

Spec == Init /\ [][Next]_<<store, op>>
=============================================================================
