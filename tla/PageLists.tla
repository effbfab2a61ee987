----------------------------- MODULE PageLists -----------------------------
(***************************************************************************)
(* What the page lists of HeMem promise: each list is a queue of pages, a  *)
(* page is on at most one of them, and each operation is one step.  ret is *)
(* what the latest operation returned.                                     *)
(***************************************************************************)
EXTENDS Sequences, Naturals

CONSTANTS Pages, Lists, NULL

VARIABLES queue, ret

vars == <<queue, ret>>

On(p, l) == \E i \in 1 .. Len(queue[l]) : queue[l][i] = p

Init ==
  /\ queue = [l \in Lists |-> << >>]
  /\ ret = NULL

Enqueue(l, p) ==
  /\ \A m \in Lists : ~On(p, m)
  /\ queue' = [queue EXCEPT ![l] = <<p>> \o @]
  /\ ret' = NULL

Dequeue(l) ==
  IF queue[l] = << >>
  THEN ret' = NULL /\ UNCHANGED queue
  ELSE /\ ret' = queue[l][Len(queue[l])]
       /\ queue' = [queue EXCEPT ![l] = SubSeq(@, 1, Len(@) - 1)]

\* The page leaves the list from wherever it is; a page that is not on it
\* changes nothing.
Remove(l, p) ==
  /\ \/ ~On(p, l) /\ UNCHANGED queue
     \/ \E i \in 1 .. Len(queue[l]) :
          /\ queue[l][i] = p
          /\ queue' = [queue EXCEPT ![l] = SubSeq(@, 1, i - 1) \o SubSeq(@, i + 1, Len(@))]
  /\ ret' = NULL

\* The oldest page, or the page that came just after a given one.
NextPage(l, p) ==
  /\ \/ /\ p = NULL
        /\ ret' = IF queue[l] = << >> THEN NULL ELSE queue[l][Len(queue[l])]
     \/ \E i \in 1 .. Len(queue[l]) :
          /\ queue[l][i] = p
          /\ ret' = IF i = 1 THEN NULL ELSE queue[l][i - 1]
  /\ UNCHANGED queue

Next ==
  \E l \in Lists :
    \/ Dequeue(l) \/ NextPage(l, NULL)
    \/ \E p \in Pages : Enqueue(l, p) \/ Remove(l, p) \/ NextPage(l, p)

Spec == Init /\ [][Next]_vars
=============================================================================
