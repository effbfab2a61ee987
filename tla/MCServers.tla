------------------------------ MODULE MCServers ------------------------------
(***************************************************************************)
(* The servers of FlexKVS, for TLC: a process is one of the three.         *)
(***************************************************************************)
EXTENDS SocketServer

CONSTANTS RxCap, TxCap, MaxConns, c1, c2

VARIABLES build, lconn, evq, core

LL == INSTANCE LowLevelServer WITH Direct <- FALSE
LL2 == INSTANCE LowLevelServer WITH Direct <- TRUE

lowVars == <<lconn, evq, core>>
sockVars == <<conn, srv, item>>
servVars == <<vars, lowVars>>
MCvars == <<servVars, build>>

MCScripts ==
  {[c \in Conns |-> IF c = c1 THEN <<"set">> ELSE <<"get">>],
   [c \in Conns |-> IF c = c1 THEN <<"set", "delete", "bad">> ELSE << >>],
   [c \in Conns |-> IF c = c1 THEN <<"set", "set", "get">> ELSE << >>]}

SocketIdle == conn = [c \in Conns |-> NewConnection] /\ srv = IdleSocket /\ item = NoItem
LowIdle == lconn = [c \in Conns |-> LL!NewPieces] /\ evq = << >> /\ core = LL!IdleCore

MCInit ==
  \/ build = "socket" /\ SocketInit /\ LowIdle
  \/ build \in {"ll", "ll2"} /\ LL!LowInit /\ SocketIdle

MCNext ==
  /\ UNCHANGED build
  /\ \/ build = "socket" /\ SocketNext /\ UNCHANGED lowVars
     \/ build = "ll" /\ LL!LowNext /\ UNCHANGED sockVars
     \/ build = "ll2" /\ LL2!LowNext /\ UNCHANGED sockVars

\* The worker goes on as long as it has something to do, the stack delivers
\* what arrives, and clients read their answers.
MCFairness ==
  /\ WF_servVars(/\ failed = "none" /\ UNCHANGED build
                 /\ \/ build = "socket" /\ Works /\ UNCHANGED lowVars
                    \/ build = "ll" /\ LL!CoreRuns /\ UNCHANGED sockVars
                    \/ build = "ll2" /\ LL2!CoreRuns /\ UNCHANGED sockVars)
  /\ \A c \in Conns :
       /\ WF_lowVars(/\ build \in {"ll", "ll2"} /\ failed = "none" /\ LL!Delivers(c)
                     /\ UNCHANGED <<build, sockVars>>)
       /\ WF_got(failed = "none" /\ ClientReads(c) /\ UNCHANGED <<build, lowVars>>)

MCSpec == MCInit /\ [][MCNext]_MCvars /\ MCFairness

-----------------------------------------------------------------------------
\* On every connection whose client keeps fewer than Width cells of requests
\* under way (with the socket server; on every one with the other two),
\* whatever is split, merged, blocked or closed meanwhile, the answers are
\* those of the requests, each complete and in order, and the connection is
\* closed only when the client has ended, a request is unknown or it could not
\* be accepted.
ImplementsStream == Spec

\* No assertion about the pieces or buffers fails, no header is read from the
\* middle of a request and none is copied over data in the ring.
BuffersIntact ==
  failed \notin {"tx_off < tx_len", "len_2 == 0", "weird situation", "invalid magic",
                 "request copied into the ring"}

AnswerComplete(c, n) ==
  \E i \in 1 .. Len(out[c]) : out[c][i][1] = n /\ out[c][i][3] = AnsLen(out[c][i][2])

Unanswered(c) ==
  \E n \in 1 .. Len(script[c]) : Arrived(c, n) /\ ~AnswerComplete(c, n)

\* Every request that has arrived is answered although the client sends
\* nothing more, unless one of the two ends the connection or the client has
\* had more under way than the socket server can count.
EveryAnswered ==
  \A c \in Conns :
    Unanswered(c) ~>
      (~Unanswered(c) \/ c \in over \/ gone[c] # "no" \/ ~open[c] \/ failed # "none")
=============================================================================
