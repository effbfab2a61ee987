---------------------------- MODULE BoundedFifo ----------------------------
(***************************************************************************)
(* What a request ring of HeMem promises its two threads: a first-in       *)
(* first-out queue in which an entry is neither lost nor duplicated,       *)
(* however the producer and the consumer interleave, except that a put     *)
(* into a queue already holding Depth entries discards the oldest one.     *)
(*                                                                         *)
(* queue is what has been put and not yet taken, oldest first; last is     *)
(* what the latest get returned (NULL for "nothing there").  An entry is a *)
(* pointer to a page, and a page is in the queue at most once at a time.   *)
(***************************************************************************)
EXTENDS Sequences, Naturals

CONSTANTS Pages, NULL, Depth

VARIABLES queue, last

vars == <<queue, last>>

Init ==
  /\ queue = << >>
  /\ last = NULL

Put(p) ==
  /\ \A i \in 1..Len(queue) : queue[i] # p
  /\ Len(queue) < Depth
  /\ queue' = Append(queue, p)
  /\ UNCHANGED last

\* A put into a full queue makes room first.
Drop ==
  /\ Len(queue) = Depth
  /\ queue' = Tail(queue)
  /\ UNCHANGED last

Get ==
  /\ queue # << >>
  /\ last' = Head(queue)
  /\ queue' = Tail(queue)

GetEmpty ==
  /\ queue = << >>
  /\ last' = NULL
  /\ UNCHANGED queue

Next == Get \/ Drop \/ GetEmpty \/ \E p \in Pages : Put(p)

Spec == Init /\ [][Next]_vars
=============================================================================
