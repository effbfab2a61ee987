--------------------------- MODULE LowLevelServer ---------------------------
(***************************************************************************)
(* A core of the low-level servers of FlexKVS                              *)
(* (src/apps/flexkvs/server/main-ll.c and main-ll2.c), on FlexTCP: the     *)
(* stack puts what arrives into a ring per connection and reports it in    *)
(* pieces without a wrap; the server keeps at most two pieces, parses      *)
(* requests out of them and gives the space back.                          *)
(*                                                                         *)
(* main-ll.c copies header and key of every request to reqbuf; main-ll2.c  *)
(* uses them in the ring when the request is in one piece.  The store is   *)
(* left out (KvsStore has it): a GET finds its key or not.                 *)
(***************************************************************************)
EXTENDS RequestStream, FiniteSetsExt

CONSTANTS
  NULL,
  RxCap,     \* cells of a connection's receive ring
  TxCap,     \* cells of its transmit ring
  MaxConns,  \* MAX_CONNS
  Direct     \* TRUE: main-ll2.c

VARIABLES
  got,     \* cells of out that each client has read
  lconn,   \* struct connection: the two pieces, and the cells delivered and done
  evq,     \* events the core has not polled
  core,    \* place and locals of the core, and connections allocated
  failed   \* what stopped the process, or "none"

streamVars == <<script, sent, out, gone, open, over>>
vars == <<streamVars, got, lconn, evq, core, failed>>

NewPieces ==
  [st |-> "none", buf_1 |-> 0, len_1 |-> 0, buf_2 |-> 0, len_2 |-> 0, delivered |-> 0, done |-> 0]

IdleCore == [pc |-> "poll", c |-> NULL, req |-> NULL, allocd |-> 0]

\* main, processing_thread up to its loop, open_listening.
LowInit ==
  /\ Init
  /\ got = [c \in Conns |-> 0]
  /\ lconn = [c \in Conns |-> NewPieces]
  /\ evq = << >>
  /\ core = IdleCore
  /\ failed = "none"

-----------------------------------------------------------------------------
(* The clients and the stack.                                              *)

PeerConnects(c) ==
  /\ lconn[c].st = "none"
  /\ lconn' = [lconn EXCEPT ![c].st = "backlog"]
  /\ evq' = Append(evq, [type |-> "newconn", c |-> c, buf |-> 0, len |-> 0])
  /\ UNCHANGED <<streamVars, got, core, failed>>

PeerSends(c) ==
  /\ lconn[c].st # "none"
  /\ Sends(c) /\ UNCHANGED over
  /\ UNCHANGED <<got, lconn, evq, core, failed>>

PeerReads(c) ==
  /\ got[c] < Len(out[c])
  /\ got' = [got EXCEPT ![c] = Len(out[c])]
  /\ UNCHANGED <<streamVars, lconn, evq, core, failed>>

\* What has arrived, as far as there is room and up to the end of the ring.
Delivers(c) ==
  LET x == lconn[c]
      n == Min({sent[c] - x.delivered, RxCap - (x.delivered - x.done),
                RxCap - (x.delivered % RxCap)}) IN
  /\ x.st = "open" /\ n > 0
  /\ lconn' = [lconn EXCEPT ![c].delivered = @ + n]
  /\ evq' = Append(evq, [type |-> "received", c |-> c, buf |-> x.delivered % RxCap, len |-> n])
  /\ UNCHANGED <<streamVars, got, core, failed>>

\* The cell at place p of the ring: the last one delivered there.
RingCell(c, p) ==
  LET d == lconn[c].delivered
      i == CHOOSE k \in 1 .. d : (k - 1) % RxCap = p /\ k + RxCap > d IN
  Stream(script[c])[i]

-----------------------------------------------------------------------------
(* The core.                                                               *)

\* connection_new: connections are counted, never uncounted.
connection_new ==
  LET ev == Head(evq) IN
  /\ core.pc = "poll" /\ evq # << >> /\ ev.type = "newconn"
  /\ lconn' = [lconn EXCEPT ![ev.c].st = IF core.allocd >= MaxConns THEN "dropped" ELSE "open"]
  /\ core' = [core EXCEPT !.allocd = @ + 1]
  /\ evq' = Tail(evq)
  /\ UNCHANGED <<streamVars, got, failed>>

\* Mutant: the second piece is never extended.
AddPieceTwice(x, buf, len) ==
  IF x.len_1 = 0 THEN [x EXCEPT !.buf_1 = buf, !.len_1 = len]
  ELSE IF x.buf_1 + x.len_1 = buf THEN [x EXCEPT !.len_1 = @ + len]
  ELSE IF x.len_2 = 0 THEN [x EXCEPT !.buf_2 = buf, !.len_2 = len]
  ELSE NULL

\* connection_recv, first part: the new cells extend one of the pieces or
\* begin one; NULL stands for the "weird situation".
AddPiece(x, buf, len) ==
  IF x.len_1 = 0 THEN [x EXCEPT !.buf_1 = buf, !.len_1 = len]
  ELSE IF x.buf_1 + x.len_1 = buf THEN [x EXCEPT !.len_1 = @ + len]
  ELSE IF x.len_2 = 0 THEN [x EXCEPT !.buf_2 = buf, !.len_2 = len]
  ELSE IF x.buf_2 + x.len_2 = buf THEN [x EXCEPT !.len_2 = @ + len]
  ELSE NULL

connection_recv ==
  LET ev == Head(evq)
      x == lconn[ev.c]
      y == AddPiece(x, ev.buf, ev.len) IN
  /\ core.pc = "poll" /\ evq # << >> /\ ev.type = "received"
  /\ evq' = Tail(evq)
  /\ IF (x.len_1 = 0 \/ x.buf_1 + x.len_1 = ev.buf) /\ x.len_2 # 0
     THEN failed' = "len_2 == 0" /\ UNCHANGED <<lconn, core>>
     ELSE IF y = NULL THEN failed' = "weird situation" /\ UNCHANGED <<lconn, core>>
     ELSE /\ lconn' = [lconn EXCEPT ![ev.c] = y]
          /\ core' = [core EXCEPT !.pc = "consume", !.c = ev.c, !.req = NULL]
          /\ UNCHANGED failed
  /\ UNCHANGED <<streamVars, got>>

\* split_read: n cells from offset off of the two pieces.
split_read(c, off, n) ==
  LET x == lconn[c] IN
  [i \in 1 .. n |->
     IF off + i <= x.len_1 THEN RingCell(c, x.buf_1 + off + i - 1)
     ELSE RingCell(c, x.buf_2 + off + i - 1 - x.len_1)]

Total(c) == lconn[c].len_1 + lconn[c].len_2
HeaderOp(c) == script[c][split_read(c, 0, 1)[1][1]]

\* The length of a request is known once its header is there.
RequestIsShort(c) == Total(c) < HdrLen \/ Total(c) < ReqLen(HeaderOp(c))

Consumed ==
  /\ core.pc = "consume" /\ RequestIsShort(core.c)
  /\ core' = [core EXCEPT !.pc = "poll", !.c = NULL, !.req = NULL]
  /\ UNCHANGED <<streamVars, got, lconn, evq, failed>>

\* Where req points: to reqbuf (NULL), or in main-ll2.c, from the first
\* request in one piece on, into the ring.
RequestAt(c) == IF Direct /\ lconn[c].len_2 = 0 THEN lconn[c].buf_1 ELSE core.req

\* The request leaves the pieces; an empty first piece is replaced.
Advance(x, n) ==
  IF x.len_1 > n THEN [x EXCEPT !.buf_1 = @ + n, !.len_1 = @ - n]
  ELSE [x EXCEPT !.buf_1 = x.buf_2 + n - x.len_1, !.len_1 = x.len_2 - (n - x.len_1), !.len_2 = 0]

\* One request is served: the answer goes to the transmit ring, where there
\* must be room for it, and the request's cells are given back.
Serves(c, op, n) ==
  \E a \in Allowed(op) :
    IF TxCap - (Len(out[c]) - got[c]) < AnsLen(a)
    THEN failed' = "tx alloc" /\ UNCHANGED <<out, lconn, core>>
    ELSE /\ out' = [out EXCEPT ![c] = @ \o AnswerCells(n, a)]
         /\ lconn' = [lconn EXCEPT ![c] = [Advance(@, ReqLen(op)) EXCEPT !.done = @ + ReqLen(op)]]
         /\ core' = [core EXCEPT !.req = RequestAt(c)]
         /\ UNCHANGED failed

\* The rest of connection_recv, for one request: it is read where req points.
Consumes ==
  LET c == core.c
      op == HeaderOp(c)
      n == split_read(c, 0, 1)[1][1]
      whole == split_read(c, 0, ReqLen(op)) = RequestCells(n, op)
      Fails(name) == failed' = name /\ UNCHANGED <<out, lconn, core>> IN
  /\ core.pc = "consume" /\ ~RequestIsShort(c)
  /\ IF lconn[c].len_2 > 0 /\ RequestAt(c) # NULL THEN Fails("request copied into the ring")
     ELSE IF ~whole THEN Fails("invalid magic")
     ELSE IF op \notin {"get", "set"} THEN Fails("invalid opcode")
     ELSE Serves(c, op, n)
  /\ UNCHANGED <<script, sent, gone, open, over, got, evq>>

CoreRuns == connection_new \/ connection_recv \/ Consumed \/ Consumes

LowNext ==
  /\ failed = "none"
  /\ \/ CoreRuns
     \/ \E c \in Conns : PeerConnects(c) \/ PeerSends(c) \/ PeerReads(c) \/ Delivers(c)
=============================================================================
