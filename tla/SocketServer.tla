---------------------------- MODULE SocketServer ----------------------------
(***************************************************************************)
(* A worker of the socket server of FlexKVS                                *)
(* (src/apps/flexkvs/server/main.c): the event loop over nonblocking       *)
(* sockets, partial reads and writes, and the handling of requests.        *)
(*                                                                         *)
(* Every system call is a step, so that the clients and the kernel move    *)
(* between any two of them.  The store is one item: its refcount, whether  *)
(* the table lists it and how often its bytes were counted as freed.       *)
(* KvsStore has what several workers do to the store.                      *)
(***************************************************************************)
EXTENDS RequestStream, FiniteSetsExt

CONSTANTS
  NULL,
  MaxMsg,   \* MAX_MSGSIZE, in cells
  OutCap,   \* cells of answers the kernel buffers
  Window    \* cells a client sends before it waits for answers

ASSUME SocketAssumption ==
  /\ {MaxMsg, OutCap, Window} \subseteq Nat \ {0}
  /\ NULL \notin Conns
  /\ \A op \in Ops : ReqLen(op) <= MaxMsg

VARIABLES
  got,     \* cells of out that each client has read
  conn,    \* the sockets and their struct connection
  srv,     \* place, connection and pending events of the worker
  item,    \* the item of the store
  failed   \* what stopped the process, or "none"

streamVars == <<script, sent, out, gone, open, over>>
vars == <<streamVars, got, conn, srv, item, failed>>

-----------------------------------------------------------------------------
NewConnection ==
  [st |-> "none", rd |-> 0, rx_buf |-> << >>, rx_off |-> 0, tx_buf |-> << >>, tx_off |-> 0,
   epoll_wr |-> FALSE, it |-> FALSE]

IdleSocket == [pc |-> "wait", c |-> NULL, batch |-> {}]
NoItem == [listed |-> FALSE, refcount |-> 0, freed |-> 0]

\* main, processing_thread up to its loop, network_init: no connection yet.
SocketInit ==
  /\ Init
  /\ got = [c \in Conns |-> 0]
  /\ conn = [c \in Conns |-> NewConnection]
  /\ srv = IdleSocket
  /\ item = NoItem
  /\ failed = "none"

-----------------------------------------------------------------------------
(* The clients.                                                            *)

\* The answers a client has read completely.
Seen(c) == {i \in 1 .. got[c] : out[c][i][3] = AnsLen(out[c][i][2])}
Outstanding(c) == sent[c] - Begins(script[c], Cardinality(Seen(c)) + 1)

ClientConnects(c) ==
  /\ conn[c].st = "none"
  /\ conn' = [conn EXCEPT ![c].st = "backlog"]
  /\ UNCHANGED <<streamVars, got, srv, item, failed>>

\* With Width cells under way a client has left what the server can count.
ClientSends(c) ==
  /\ conn[c].st # "none" /\ (c \in over \/ Outstanding(c) < Window)
  /\ Sends(c)
  /\ c \notin over /\ UnderWay(c) + 1 >= Width => c \in over'
  /\ UNCHANGED <<got, conn, srv, item, failed>>

ClientReads(c) ==
  /\ gone[c] # "hup" /\ got[c] < Len(out[c])
  /\ got' = [got EXCEPT ![c] = Len(out[c])]
  /\ UNCHANGED <<streamVars, conn, srv, item, failed>>

ClientLeaves(c) ==
  /\ conn[c].st # "none"
  /\ Leaves(c)
  /\ UNCHANGED <<got, conn, srv, item, failed>>

-----------------------------------------------------------------------------
(* Requests in the receive buffer.  rx_buf holds rx_len cells: what a      *)
(* length that has wrapped leaves out is overwritten by the next read.     *)

Avail(x) == (Len(x.rx_buf) - x.rx_off) % Width

\* The request whose header seems to be at rx_off, and whether its first and
\* its second cell, with the length of the body, are those of a header.
HeadCell(x) == x.rx_buf[x.rx_off + 1]
HeadOp(c, x) == script[c][HeadCell(x)[1]]
HasMagic(x) == HeadCell(x)[2] = 1
HasLength(x) == HasMagic(x) /\ x.rx_buf[x.rx_off + 2] = <<HeadCell(x)[1], 2>>

\* What the request at rx_off may be taken to need: other bytes in the place
\* of a body's length may stand for a short one or one that never comes.
Needs(c, x) ==
  IF Avail(x) < HdrLen THEN {HdrLen}
  ELSE IF HasLength(x) THEN {ReqLen(HeadOp(c, x))} ELSE {HdrLen, MaxMsg + 1}

\* Mutant: the last byte received is not counted.
conn_req_iscomp_more(x, n) == Avail(x) > n

\* conn_req_iscomp: with a request that needs n cells.
conn_req_iscomp(x, n) == Avail(x) >= n

\* Mutant: the buffer is taken for empty.
MoveUpDrops(x) == IF x.rx_off = 0 THEN x ELSE [x EXCEPT !.rx_buf = << >>, !.rx_off = 0]

\* The end of conn_events: what is left of the buffer moves to its start.
MoveUp(x) == [x EXCEPT !.rx_buf = SubSeq(@, x.rx_off + 1, Len(@)), !.rx_off = 0]

conn_upepoll(x, wr) == [x EXCEPT !.epoll_wr = wr]

-----------------------------------------------------------------------------
(* The worker.                                                             *)

item_unref(x) ==
  [x EXCEPT !.refcount = @ - 1, !.freed = IF x.refcount = 1 THEN @ + 1 ELSE @]

\* conn_close, with the reference the connection seems to hold; the events in
\* b are still to be handled.
conn_close(c, b) ==
  /\ conn' = [conn EXCEPT ![c] = [NewConnection EXCEPT !.st = "closed"]]
  /\ open' = [open EXCEPT ![c] = FALSE]
  /\ srv' = [pc |-> "events", c |-> NULL, batch |-> b]
  /\ IF ~conn[c].it THEN UNCHANGED <<item, failed>>
     ELSE IF item.refcount = 0 THEN failed' = "item_unref: refcount > 0" /\ UNCHANGED item
     ELSE item' = item_unref(item) /\ UNCHANGED failed
  /\ UNCHANGED <<script, sent, out, gone, over, got>>

Readable(c) == sent[c] > conn[c].rd \/ gone[c] # "no"
Writable(c) == Len(out[c]) - got[c] < OutCap

\* epoll: errors always, input or room for output as conn_upepoll asked.
Events ==
  {<<c, "err">> : c \in {d \in Conns : conn[d].st = "open" /\ gone[d] = "hup"}}
  \cup {<<c, "in">> : c \in {d \in Conns : conn[d].st = "open" /\ gone[d] # "hup"
                                           /\ ~conn[d].epoll_wr /\ Readable(d)}}
  \cup {<<c, "out">> : c \in {d \in Conns : conn[d].st = "open" /\ gone[d] # "hup"
                                            /\ conn[d].epoll_wr /\ Writable(d)}}
  \cup {<<NULL, "in">> : c \in {d \in Conns : conn[d].st = "backlog"}}

EpollWait ==
  /\ srv.pc = "wait" /\ Events # {}
  /\ srv' = [srv EXCEPT !.pc = "events", !.batch = Events]
  /\ UNCHANGED <<streamVars, got, conn, item, failed>>

BatchDone ==
  /\ srv.pc = "events" /\ srv.batch = {}
  /\ srv' = IdleSocket
  /\ UNCHANGED <<streamVars, got, conn, item, failed>>

\* One event of the batch; the connections may have moved on meanwhile.
ListenEvent ==
  /\ srv.pc = "events" /\ <<NULL, "in">> \in srv.batch
  /\ srv' = [srv EXCEPT !.pc = "accept", !.batch = @ \ {<<NULL, "in">>}]
  /\ UNCHANGED <<streamVars, got, conn, item, failed>>

ErrorEvent(c) ==
  /\ srv.pc = "events" /\ <<c, "err">> \in srv.batch
  /\ conn_close(c, srv.batch \ {<<c, "err">>})

IoEvent(c) ==
  /\ srv.pc = "events"
  /\ \E ev \in {"in", "out"} :
       /\ <<c, ev>> \in srv.batch
       /\ srv' = [pc |-> IF ev = "in" THEN "read" ELSE "write", c |-> c,
                  batch |-> srv.batch \ {<<c, ev>>}]
       /\ failed' = IF ev = "out" /\ conn[c].tx_off >= Len(conn[c].tx_buf)
                    THEN "tx_off < tx_len" ELSE failed
  /\ UNCHANGED <<streamVars, got, conn, item>>

\* accept_connections: until EAGAIN, or until memory runs out.
Accepts(c) ==
  /\ srv.pc = "accept" /\ conn[c].st = "backlog"
  /\ conn' = [conn EXCEPT ![c].st = "open"]
  /\ UNCHANGED <<streamVars, got, srv, item, failed>>

AcceptFails(c) ==
  /\ srv.pc = "accept" /\ conn[c].st = "backlog"
  /\ conn' = [conn EXCEPT ![c].st = "closed"]
  /\ open' = [open EXCEPT ![c] = FALSE]
  /\ srv' = [srv EXCEPT !.pc = "events"]
  /\ UNCHANGED <<script, sent, out, gone, over, got, item, failed>>

AcceptedAll ==
  /\ srv.pc = "accept" /\ \A c \in Conns : conn[c].st # "backlog"
  /\ srv' = [srv EXCEPT !.pc = "events"]
  /\ UNCHANGED <<streamVars, got, conn, item, failed>>

\* conn_recv: a read of what is there, up to the end of the buffer.
conn_recv(c) ==
  LET x == conn[c]
      n == Min({sent[c] - x.rd, MaxMsg - Len(x.rx_buf)})
      all == x.rx_buf \o SubSeq(Stream(script[c]), x.rd + 1, x.rd + n)
      y == [x EXCEPT !.rx_buf = SubSeq(all, 1, Len(all) % Width), !.rd = @ + n] IN
  /\ srv.pc = "read" /\ srv.c = c
  /\ \/ /\ n > 0
        /\ conn' = [conn EXCEPT ![c] = y]
        /\ \E l \in Needs(c, y) :
             srv' = [srv EXCEPT !.pc = IF conn_req_iscomp(y, l) THEN "process" ELSE "read"]
        /\ UNCHANGED <<streamVars, got, item, failed>>
     \/ /\ n = 0 /\ (gone[c] # "no" \/ Len(x.rx_buf) = MaxMsg)
        /\ conn_close(c, srv.batch)
     \/ /\ n = 0 /\ gone[c] = "no" /\ Len(x.rx_buf) < MaxMsg
        /\ conn' = [conn EXCEPT ![c] = conn_upepoll(x, FALSE)]
        /\ srv' = [srv EXCEPT !.pc = "events", !.c = NULL]
        /\ UNCHANGED <<streamVars, got, item, failed>>

\* What a request does to the store: the answer, the item and c->it, which
\* stays set although GET and SET have dropped their reference.
item_ref(it) == [it EXCEPT !.refcount = @ + 1]
NotFound(it) == [ans |-> "absent", it |-> FALSE, item |-> it]

ServesGet(it) ==
  IF it.listed THEN [ans |-> "value", it |-> TRUE, item |-> item_unref(item_ref(it))]
  ELSE NotFound(it)

\* An item is overwritten in place; a new one is listed, and let go.
ServesSet(it) ==
  [ans |-> "done", it |-> TRUE,
   item |-> IF it.listed THEN item_unref(item_ref(it))
            ELSE [listed |-> TRUE, refcount |-> 1, freed |-> 0]]

\* DELETE counts the bytes as freed and leaves the item in the table.
ServesDelete(it) ==
  IF it.listed THEN [ans |-> "done", it |-> TRUE, item |-> [item_ref(it) EXCEPT !.freed = @ + 1]]
  ELSE NotFound(it)

Served(op, it) ==
  IF op = "get" THEN ServesGet(it) ELSE IF op = "set" THEN ServesSet(it) ELSE ServesDelete(it)

\* conn_req_process.  The answer is built in tx_buf, but only as much of it
\* is sent as tx_len counts, and nothing when that is 0.  (It is all of it: a
\* value has come in a SET longer than the answer, and complete.)
conn_req_process(c) ==
  LET x == conn[c]
      op == HeadOp(c, x)
      r == Served(op, item)
      all == AnswerCells(HeadCell(x)[1], r.ans)
      tx == SubSeq(all, 1, Len(all) % Width) IN
  /\ srv.pc = "process" /\ srv.c = c
  /\ \E l \in Needs(c, x) :
       /\ conn_req_iscomp(x, l)
       /\ IF op = "bad" \/ ~HasMagic(x) THEN conn_close(c, srv.batch)
          ELSE /\ conn' = [conn EXCEPT ![c].rx_off = @ + l, ![c].it = r.it, ![c].tx_buf = tx]
               /\ item' = r.item
               /\ srv' = [srv EXCEPT !.pc = IF tx = << >> THEN "process" ELSE "write"]
               /\ UNCHANGED <<streamVars, got, failed>>

\* A SET of a new item uses what ialloc_alloc returns without a look at it.
SetFindsNoMemory(c) ==
  /\ srv.pc = "process" /\ srv.c = c
  /\ \E l \in Needs(c, conn[c]) : conn_req_iscomp(conn[c], l)
  /\ HasMagic(conn[c]) /\ HeadOp(c, conn[c]) = "set" /\ ~item.listed
  /\ failed' = "item is NULL"
  /\ UNCHANGED <<streamVars, got, conn, srv, item>>

\* No complete request is left.
EventDone(c) ==
  /\ srv.pc = "process" /\ srv.c = c
  /\ \E l \in Needs(c, conn[c]) : ~conn_req_iscomp(conn[c], l)
  /\ conn' = [conn EXCEPT ![c] = conn_upepoll(MoveUp(conn[c]), FALSE)]
  /\ srv' = [srv EXCEPT !.pc = "events", !.c = NULL]
  /\ UNCHANGED <<streamVars, got, item, failed>>

\* conn_send: a write of as much as the kernel takes.
conn_send(c) ==
  LET x == conn[c]
      n == Min({OutCap - (Len(out[c]) - got[c]), Len(x.tx_buf) - x.tx_off})
      rest == x.tx_off + n < Len(x.tx_buf) IN
  /\ srv.pc = "write" /\ srv.c = c
  /\ \/ gone[c] = "hup" /\ conn_close(c, srv.batch)
     \/ /\ gone[c] # "hup" /\ n = 0
        /\ conn' = [conn EXCEPT ![c] = conn_upepoll(x, TRUE)]
        /\ srv' = [srv EXCEPT !.pc = "events", !.c = NULL]
        /\ UNCHANGED <<streamVars, got, item, failed>>
     \/ /\ gone[c] # "hup" /\ n > 0
        /\ out' = [out EXCEPT ![c] = @ \o SubSeq(x.tx_buf, x.tx_off + 1, x.tx_off + n)]
        /\ conn' = [conn EXCEPT ![c].tx_buf = IF rest THEN @ ELSE << >>,
                                ![c].tx_off = IF rest THEN @ + n ELSE 0]
        /\ srv' = [srv EXCEPT !.pc = IF rest THEN "write" ELSE "process"]
        /\ UNCHANGED <<script, sent, gone, open, over, got, item, failed>>

Works ==
  \/ EpollWait \/ BatchDone \/ ListenEvent \/ AcceptedAll
  \/ \E c \in Conns :
       \/ ErrorEvent(c) \/ IoEvent(c) \/ Accepts(c) \/ AcceptFails(c)
       \/ conn_recv(c) \/ conn_req_process(c) \/ SetFindsNoMemory(c) \/ EventDone(c) \/ conn_send(c)

SocketNext ==
  /\ failed = "none"
  /\ \/ Works
     \/ \E c \in Conns : ClientConnects(c) \/ ClientSends(c) \/ ClientReads(c) \/ ClientLeaves(c)

-----------------------------------------------------------------------------
\* item_unref is called only on an item that has a reference, as its comment
\* demands: a connection that ends gives back no reference it does not hold.
UnrefHasReference == failed # "item_unref: refcount > 0"
=============================================================================
