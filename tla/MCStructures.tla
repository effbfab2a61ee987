---------------------------- MODULE MCStructures ----------------------------
(***************************************************************************)
(* The data structures the policies share, for TLC, each by itself: the    *)
(* request ring, the page lists, the table of tracked pages and the copy   *)
(* threads.                                                                *)
(*                                                                         *)
(* There are two rings: one whose operations overlap and that has more     *)
(* slots than pages, and one with as many pages as slots, where every put  *)
(* finishes before a get begins.                                           *)
(***************************************************************************)
EXTENDS SpscRing, FifoList, UtHash, ParallelCopy, TLC

CONSTANTS p4, a1, a2, a3, a4, a5

VARIABLES
  part,   \* the structure in use
  \* The variables of the second ring.
  fbuffer, fhead, ftail, fclaimed, fppc, farg, fcpc, fcur_read, fgot

Full == INSTANCE SpscRing WITH
  Pages <- Pages \cup {p4}, Concurrent <- FALSE,
  buffer <- fbuffer, head <- fhead, tail <- ftail, claimed <- fclaimed,
  ppc <- fppc, arg <- farg, cpc <- fcpc, cur_read <- fcur_read, got <- fgot

fullVars == <<fbuffer, fhead, ftail, fclaimed, fppc, farg, fcpc, fcur_read, fgot>>

\* Four addresses whose hash values fall into one bucket as long as there are
\* at most 16, and one that leaves it with the first doubling.
MCHashOf == (a1 :> 0) @@ (a2 :> 32) @@ (a3 :> 64) @@ (a4 :> 96) @@ (a5 :> 1)

MCvars == <<part, vars, fullVars, listVars, hashVars, copyVars>>

MCInit ==
  /\ part \in {"ring", "full ring", "fifo", "uthash", "pmemcpy"}
  /\ Init /\ Full!Init /\ ListInit /\ HashInit /\ CopyInit

OnlyRing == UNCHANGED <<part, fullVars, listVars, hashVars, copyVars>>

MCNext ==
  \/ part = "ring" /\ Next /\ OnlyRing
  \/ part = "full ring" /\ Full!Next /\ UNCHANGED <<part, vars, listVars, hashVars, copyVars>>
  \/ part = "fifo" /\ ListNext /\ UNCHANGED <<part, vars, fullVars, hashVars, copyVars>>
  \/ part = "uthash" /\ HashNext /\ UNCHANGED <<part, vars, fullVars, listVars, copyVars>>
  \/ part = "pmemcpy" /\ CopyNext /\ UNCHANGED <<part, vars, fullVars, listVars, hashVars>>

\* The fairness of SpscRing, for the ring whose requests must be returned.
MCFairness ==
  /\ WF_vars(/\ part = "ring" /\ OnlyRing
             /\ WaitNotFull \/ WriteSlot \/ TestFull \/ DropOldest \/ StoreHead)
  /\ WF_vars(part = "ring" /\ Consumer /\ OnlyRing)

MCSpec == MCInit /\ [][MCNext]_MCvars /\ MCFairness

-----------------------------------------------------------------------------
\* The ring that is too small for its pages is a queue too: a put that meets
\* a full ring drops the oldest entry and no other.
FullRingIsFifo == Full!ImplementsFifo
=============================================================================
