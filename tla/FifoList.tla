------------------------------ MODULE FifoList ------------------------------
(***************************************************************************)
(* src/fifo.c: the intrusive doubly linked lists of page structures.       *)
(*                                                                         *)
(* enqueue_fifo adds at the first end, dequeue_fifo takes from the last    *)
(* end, page_list_remove_page unlinks a page anywhere, next_page walks     *)
(* from last to first.  Each holds the list's lock from beginning to end   *)
(* and is one step.                                                        *)
(*                                                                         *)
(* As in pebs.c, a caller enqueues a page that is on no list, and removes  *)
(* a page from the list it is on; a removal from a list that has become    *)
(* empty returns at once.                                                  *)
(***************************************************************************)
EXTENDS Naturals, Sequences, FiniteSets

CONSTANTS
  ListPages,  \* struct hemem_page
  Lists,      \* struct fifo_list
  NoPage      \* NULL

ASSUME ListAssumption ==
  /\ IsFiniteSet(ListPages)
  /\ NoPage \notin ListPages \cup Lists

VARIABLES
  first, last, numentries,   \* of each list
  next, prev, list,          \* of each page
  ret,                       \* result of the latest operation
  failed                     \* whether an assertion has failed

listVars == <<first, last, numentries, next, prev, list, ret, failed>>

ListInit ==
  /\ first = [l \in Lists |-> NoPage]
  /\ last = [l \in Lists |-> NoPage]
  /\ numentries = [l \in Lists |-> 0]
  /\ next = [p \in ListPages |-> NoPage]
  /\ prev = [p \in ListPages |-> NoPage]
  /\ list = [p \in ListPages |-> NoPage]
  /\ ret = NoPage
  /\ failed = FALSE

Fail ==
  /\ failed' = TRUE
  /\ UNCHANGED <<first, last, numentries, next, prev, list, ret>>

\* f with the value at page p replaced; NoPage has no fields.
Set(f, p, v) == IF p = NoPage THEN f ELSE [f EXCEPT ![p] = v]

-----------------------------------------------------------------------------
(* The operations.                                                         *)

\* Fault: the old first page is not linked back to the new one.
enqueue_fifo_unlinked(l, p) ==
  /\ ~failed /\ list[p] = NoPage
  /\ next' = [next EXCEPT ![p] = first[l]]
  /\ last' = IF first[l] = NoPage THEN [last EXCEPT ![l] = p] ELSE last
  /\ first' = [first EXCEPT ![l] = p]
  /\ list' = [list EXCEPT ![p] = l]
  /\ numentries' = [numentries EXCEPT ![l] = @ + 1]
  /\ ret' = NoPage
  /\ UNCHANGED <<prev, failed>>

\* The page becomes the first of the list.
enqueue_fifo(l, p) ==
  /\ ~failed
  /\ list[p] = NoPage
  /\ IF \/ prev[p] # NoPage
        \/ first[l] # NoPage /\ prev[first[l]] # NoPage
        \/ first[l] = NoPage /\ (last[l] # NoPage \/ numentries[l] # 0)
     THEN Fail
     ELSE /\ next' = [next EXCEPT ![p] = first[l]]
          /\ prev' = Set(prev, first[l], p)
          /\ last' = IF first[l] = NoPage THEN [last EXCEPT ![l] = p] ELSE last
          /\ first' = [first EXCEPT ![l] = p]
          /\ list' = [list EXCEPT ![p] = l]
          /\ numentries' = [numentries EXCEPT ![l] = @ + 1]
          /\ ret' = NoPage
          /\ UNCHANGED failed

\* The last page leaves the list; an empty list gives NoPage.
dequeue_fifo(l) ==
  LET p == last[l] IN
  /\ ~failed
  /\ IF p = NoPage
     THEN ret' = NoPage /\ UNCHANGED <<first, last, numentries, next, prev, list, failed>>
     ELSE IF numentries[l] = 0 THEN Fail
     ELSE /\ last' = [last EXCEPT ![l] = prev[p]]
          /\ first' = IF prev[p] = NoPage THEN [first EXCEPT ![l] = NoPage] ELSE first
          /\ next' = Set(Set(next, prev[p], NoPage), p, NoPage)
          /\ prev' = [prev EXCEPT ![p] = NoPage]
          /\ list' = [list EXCEPT ![p] = NoPage]
          /\ numentries' = [numentries EXCEPT ![l] = @ - 1]
          /\ ret' = p
          /\ UNCHANGED failed

\* Fault: the neighbour's next pointer is not bridged.
page_list_remove_page_unbridged(l, p) ==
  /\ ~failed /\ list[p] = l
  /\ first' = IF first[l] = p THEN [first EXCEPT ![l] = next[p]] ELSE first
  /\ last' = IF last[l] = p THEN [last EXCEPT ![l] = prev[p]] ELSE last
  /\ prev' = Set(Set(prev, next[p], prev[p]), p, NoPage)
  /\ next' = [next EXCEPT ![p] = NoPage]
  /\ list' = [list EXCEPT ![p] = NoPage]
  /\ numentries' = [numentries EXCEPT ![l] = @ - 1]
  /\ ret' = NoPage
  /\ UNCHANGED failed

\* The page leaves the list from wherever it is.
page_list_remove_page(l, p) ==
  /\ ~failed
  /\ list[p] = l \/ first[l] = NoPage
  /\ IF first[l] = NoPage
     THEN IF last[l] # NoPage \/ numentries[l] # 0 THEN Fail
          ELSE ret' = NoPage /\ UNCHANGED <<first, last, numentries, next, prev, list, failed>>
     ELSE IF numentries[l] = 0 THEN Fail
     ELSE /\ first' = IF first[l] = p THEN [first EXCEPT ![l] = next[p]] ELSE first
          /\ last' = IF last[l] = p THEN [last EXCEPT ![l] = prev[p]] ELSE last
          /\ prev' = Set(Set(prev, next[p], prev[p]), p, NoPage)
          /\ next' = Set(Set(next, prev[p], next[p]), p, NoPage)
          /\ list' = [list EXCEPT ![p] = NoPage]
          /\ numentries' = [numentries EXCEPT ![l] = @ - 1]
          /\ ret' = NoPage
          /\ UNCHANGED failed

\* The last page, or the one before a given page.
next_page(l, p) ==
  /\ ~failed
  /\ p # NoPage => list[p] = l
  /\ ret' = IF p = NoPage THEN last[l] ELSE prev[p]
  /\ UNCHANGED <<first, last, numentries, next, prev, list, failed>>

-----------------------------------------------------------------------------
ListNext ==
  \E l \in Lists :
    \/ dequeue_fifo(l)
    \/ \E p \in ListPages : enqueue_fifo(l, p) \/ page_list_remove_page(l, p)
    \/ \E p \in ListPages \cup {NoPage} : next_page(l, p)

ListSpec == ListInit /\ [][ListNext]_listVars

-----------------------------------------------------------------------------
(* Properties.                                                             *)

\* The n pages met on the way from page p along the next pointers nx.
Walk(p, nx, n) ==
  LET at[i \in 1 .. n] == IF i = 1 THEN p ELSE nx[at[i - 1]]
  IN  at

\* The pages of each list, from the first to the last.
Queue == [l \in Lists |-> Walk(first[l], next, numentries[l])]

Abstract == INSTANCE PageLists WITH Pages <- ListPages, NULL <- NoPage, queue <- Queue

\* Every pointer is a page or NoPage, every count a number of pages.
ListsTypeOK ==
  /\ first \in [Lists -> ListPages \cup {NoPage}] /\ last \in [Lists -> ListPages \cup {NoPage}]
  /\ numentries \in [Lists -> Nat]
  /\ next \in [ListPages -> ListPages \cup {NoPage}]
  /\ prev \in [ListPages -> ListPages \cup {NoPage}]
  /\ list \in [ListPages -> Lists \cup {NoPage}]
  /\ ret \in ListPages \cup {NoPage}
  /\ failed \in BOOLEAN

\* next and prev are inverse to each other within a list; the ends of a
\* list are the pages without a neighbour; a page on no list has no links.
Links ==
  \A p \in ListPages :
    /\ next[p] # NoPage => prev[next[p]] = p /\ list[p] # NoPage /\ list[next[p]] = list[p]
    /\ prev[p] # NoPage => next[prev[p]] = p /\ list[p] # NoPage /\ list[prev[p]] = list[p]
    /\ list[p] # NoPage /\ prev[p] = NoPage => first[list[p]] = p
    /\ list[p] # NoPage /\ next[p] = NoPage => last[list[p]] = p

Ends ==
  \A l \in Lists :
    /\ first[l] # NoPage => list[first[l]] = l /\ prev[first[l]] = NoPage
    /\ last[l] # NoPage => list[last[l]] = l /\ next[last[l]] = NoPage
    /\ first[l] = NoPage <=> last[l] = NoPage

\* numentries counts the pages whose list field names the list.
Counts == \A l \in Lists : numentries[l] = Cardinality({p \in ListPages : list[p] = l})

\* The links of the lists are consistent after any operations, in any
\* order, by any threads, and therefore no assertion of fifo.c fails.
WellLinked == ListsTypeOK /\ Links /\ Ends /\ Counts /\ ~failed

\* The linked lists implement queues of pages: each operation changes the
\* walk from first to last, and returns, as the queue operation does; in
\* particular every listed page is reached and no list has a cycle.
ImplementsLists == Abstract!Spec
=============================================================================
