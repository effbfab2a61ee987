------------------------------- MODULE UtHash -------------------------------
(***************************************************************************)
(* The hash table of tracked pages: src/uthash.h as add_page, remove_page  *)
(* and find_page of src/hemem.c use it, each under pages_lock.             *)
(*                                                                         *)
(* A bucket is a chain of pages with a count and an expansion multiplier.  *)
(* A chain that has become too long makes the table double its buckets,    *)
(* unless two doublings in a row have been of no use.  order is the list   *)
(* of all pages in the order of their insertion; its ends decide when the  *)
(* table is made and when it is freed.  Memory is never short.             *)
(***************************************************************************)
EXTENDS Integers, Sequences, FiniteSets, SequencesExt

CONSTANTS
  Nodes,       \* page structures
  Addrs,       \* the values of page->va
  HashOf,      \* HASH_VALUE of each address
  NoNode,      \* NULL
  InitialLog2, \* HASH_INITIAL_NUM_BUCKETS_LOG2
  BktCapacity, \* HASH_BKT_CAPACITY_THRESH
  MaxLog2      \* bound: log2 of the buckets that are considered

ASSUME UtHashAssumption ==
  /\ IsFiniteSet(Nodes) /\ NoNode \notin Nodes
  /\ HashOf \in [Addrs -> Nat]
  /\ InitialLog2 \in Nat /\ MaxLog2 \in Nat /\ BktCapacity \in Nat \ {0}

VARIABLES
  hva,    \* page->va of each page, the key the table refers to
  hashv,  \* the hash value stored with each page
  order,  \* the pages in the table, from head to tail
  tbl     \* the table, or NoNode if there is none

hashVars == <<hva, hashv, order, tbl>>

EmptyBucket == [chain |-> << >>, count |-> 0, expand_mult |-> 0]

\* HASH_MAKE_TABLE
NewTable ==
  [log2 |-> InitialLog2, buckets |-> [b \in 0 .. 2 ^ InitialLog2 - 1 |-> EmptyBucket],
   num_items |-> 0, ineff_expands |-> 0, noexpand |-> FALSE]

HashInit ==
  /\ hva = [p \in Nodes |-> NoNode]
  /\ hashv = [p \in Nodes |-> 0]
  /\ order = << >>
  /\ tbl = NoNode

\* HASH_TO_BKT
Bucket(h, log2) == h % 2 ^ log2

-----------------------------------------------------------------------------
\* find_page, HASH_FIND: the first page of the chain with this hash value and key.
HASH_FIND(v) ==
  IF tbl = NoNode THEN NoNode
  ELSE LET chain == tbl.buckets[Bucket(HashOf[v], tbl.log2)].chain
           i == SelectInSeq(chain, LAMBDA p : hashv[p] = HashOf[v] /\ hva[p] = v)
       IN IF i = 0 THEN NoNode ELSE chain[i]

\* One page of the old table goes to the head of its new chain.
Moved(new, p, hv, log2, ideal) ==
  LET b == Bucket(hv[p], log2)
      n == new.buckets[b].count + 1
      mult == new.buckets[b].expand_mult IN
  [new EXCEPT !.buckets[b] =
     [chain |-> <<p>> \o @.chain, count |-> n,
      expand_mult |-> IF n > ideal /\ n > mult * ideal THEN mult + 1 ELSE mult],
   !.nonideal = IF n > ideal THEN @ + 1 ELSE @]

\* HASH_EXPAND_BUCKETS: twice the buckets, filled from the old ones in order.
HASH_EXPAND_BUCKETS(t, hv) ==
  LET log2 == t.log2 + 1
      nb == 2 ^ log2
      ideal == t.num_items \div nb + (IF t.num_items % nb # 0 THEN 1 ELSE 0)
      all == FlattenSeq([b \in 1 .. 2 ^ t.log2 |-> t.buckets[b - 1].chain])
      new == FoldLeft(LAMBDA acc, p : Moved(acc, p, hv, log2, ideal),
                      [buckets |-> [b \in 0 .. nb - 1 |-> EmptyBucket], nonideal |-> 0], all)
      ineff == IF new.nonideal > t.num_items \div 2 THEN t.ineff_expands + 1 ELSE 0
  IN [log2 |-> log2, buckets |-> new.buckets, num_items |-> t.num_items,
      ineff_expands |-> ineff, noexpand |-> t.noexpand \/ ineff > 1]

\* Mutant: the new page is put into the bucket of the doubled table.
HASH_ADD_TO_TABLE_late(t, p, hv) ==
  LET b == Bucket(hv[p], t.log2)
      t1 == [t EXCEPT !.num_items = @ + 1, !.buckets[b].count = @ + 1]
      bkt == t1.buckets[b]
      t2 == IF bkt.count >= (bkt.expand_mult + 1) * BktCapacity /\ ~t.noexpand
            THEN HASH_EXPAND_BUCKETS(t1, hv) ELSE t1
  IN [t2 EXCEPT !.buckets[b].chain = <<p>> \o @]

\* HASH_ADD_TO_TABLE, HASH_ADD_TO_BKT: at the head of the chain.
HASH_ADD_TO_TABLE(t, p, hv) ==
  LET b == Bucket(hv[p], t.log2)
      t1 == [t EXCEPT !.num_items = @ + 1, !.buckets[b].count = @ + 1,
                      !.buckets[b].chain = <<p>> \o @]
      bkt == t1.buckets[b]
  IN IF bkt.count >= (bkt.expand_mult + 1) * BktCapacity /\ ~t.noexpand
     THEN HASH_EXPAND_BUCKETS(t1, hv) ELSE t1

\* add_page: HASH_FIND, which must find nothing, and HASH_ADD.
add_page(p, v) ==
  /\ p \notin ToSet(order) /\ HASH_FIND(v) = NoNode
  /\ tbl # NoNode => tbl.noexpand \/ tbl.log2 < MaxLog2
  /\ hva' = [hva EXCEPT ![p] = v]
  /\ hashv' = [hashv EXCEPT ![p] = HashOf[v]]
  /\ order' = Append(order, p)
  /\ tbl' = HASH_ADD_TO_TABLE(IF tbl = NoNode THEN NewTable ELSE tbl, p, hashv')

\* HASH_DEL_IN_BKT
HASH_DEL_IN_BKT(t, p) ==
  LET b == Bucket(hashv[p], t.log2) IN
  [t EXCEPT !.buckets[b].count = @ - 1,
            !.buckets[b].chain = SelectSeq(@, LAMBDA q : q # p)]

\* remove_page: the table goes with its only page.
remove_page(p) ==
  /\ p \in ToSet(order)
  /\ order' = SelectSeq(order, LAMBDA q : q # p)
  /\ tbl' = IF order' = << >> THEN NoNode
            ELSE [HASH_DEL_IN_BKT(tbl, p) EXCEPT !.num_items = @ - 1]
  /\ UNCHANGED <<hva, hashv>>

HashNext == \E p \in Nodes : remove_page(p) \/ \E v \in Addrs : add_page(p, v)

-----------------------------------------------------------------------------
\* What HASH_FSCK verifies: every page is in the chain its hash value selects,
\* once, and the counts of buckets and table are those of the chains.
TableIsSound ==
  IF tbl = NoNode THEN order = << >>
  ELSE /\ tbl.num_items = Len(order) /\ tbl.num_items > 0
       /\ \A b \in DOMAIN tbl.buckets :
            /\ tbl.buckets[b].count = Len(tbl.buckets[b].chain)
            /\ IsInjective(tbl.buckets[b].chain)
            /\ ToSet(tbl.buckets[b].chain) =
                 {p \in ToSet(order) : Bucket(HashOf[hva[p]], tbl.log2) = b}

\* find_page returns the page that is tracked at an address if there is one,
\* and NULL otherwise, however often the buckets have been doubled since the
\* page was added and whatever has been removed; the table stays sound.
FindsTracked ==
  /\ TableIsSound
  /\ \A v \in Addrs :
       LET there == {p \in ToSet(order) : hva[p] = v} IN
       IF there = {} THEN HASH_FIND(v) = NoNode ELSE there = {HASH_FIND(v)}
=============================================================================
