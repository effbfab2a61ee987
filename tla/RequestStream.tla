---------------------------- MODULE RequestStream ----------------------------
(***************************************************************************)
(* What a client of FlexKVS may rely on, whatever server it talks to: on a *)
(* connection, which is a stream of cells in each direction, every request *)
(* is answered at most once, in order, after it has arrived completely,    *)
(* and the server closes the connection only for a reason.                 *)
(*                                                                         *)
(* The promise is to clients that wait for answers before they have Width  *)
(* cells of unanswered requests under way.  What happens to the connection *)
(* of another is open; the connections beside it are served as promised.   *)
(*                                                                         *)
(* A cell stands for some bytes: <<n, j>> is the j-th cell of the n-th     *)
(* request, <<n, a, j>> the j-th cell of answer a to it.                   *)
(***************************************************************************)
EXTENDS Integers, Sequences, FiniteSets, SequencesExt

CONSTANTS
  Conns,    \* connections
  Scripts,  \* what the clients send: functions from Conns to Seq(Ops)
  Width     \* cells that the lengths of a connection, uint16_t, tell apart

Ops == {"get", "set", "delete", "bad"}
Answers == {"value", "absent", "done"}

\* A header of two cells, one more for the value of a SET.
HdrLen == 2
ReqLen(op) == IF op = "set" THEN HdrLen + 1 ELSE HdrLen
AnsLen(a) == IF a = "value" THEN 2 ELSE 1

Allowed(op) ==
  [get |-> {"value", "absent"}, set |-> {"done"}, delete |-> {"done", "absent"},
   bad |-> {}][op]

ASSUME StreamAssumption ==
  /\ Width \in Nat \ {0}
  /\ \A s \in Scripts : \A c \in Conns : \A i \in 1 .. Len(s[c]) : s[c][i] \in Ops

VARIABLES
  script,  \* what each client sends
  sent,    \* cells each client has written
  out,     \* cells the server has written to each client
  gone,    \* how each client has ended: "no", "eof" or "hup"
  open,    \* FALSE once the server has closed the connection
  over     \* connections whose client has had Width cells under way

\* Where request n of a script begins in the stream, and the stream.
Begins(s, n) == HdrLen * (n - 1) + Cardinality({i \in 1 .. n - 1 : s[i] = "set"})
StreamLen(s) == Begins(s, Len(s) + 1)
Stream(s) ==
  [i \in 1 .. StreamLen(s) |->
     LET n == CHOOSE m \in 1 .. Len(s) : Begins(s, m) < i /\ i <= Begins(s, m + 1) IN
     <<n, i - Begins(s, n)>>]

RequestCells(n, op) == [j \in 1 .. ReqLen(op) |-> <<n, j>>]
AnswerCells(n, a) == [j \in 1 .. AnsLen(a) |-> <<n, a, j>>]

Arrived(c, n) == sent[c] >= Begins(script[c], n) + ReqLen(script[c][n])

\* Whole answers to the first requests, in order, and a part of the next.
IsAnswers(c, s) ==
  \A i \in 1 .. Len(s) :
    /\ \/ /\ s[i][3] = 1
          /\ IF i = 1 THEN s[i][1] = 1
             ELSE s[i][1] = s[i - 1][1] + 1 /\ s[i - 1][3] = AnsLen(s[i - 1][2])
       \/ i > 1 /\ s[i] = <<s[i - 1][1], s[i - 1][2], s[i - 1][3] + 1>>
    /\ s[i][1] \in DOMAIN script[c]
    /\ s[i][2] \in Allowed(script[c][s[i][1]])
    /\ s[i][3] <= AnsLen(s[i][2])

Answered(c) == IF out[c] = << >> THEN 0 ELSE Last(out[c])[1]

\* The cells of requests not answered completely.
Complete(c) == Cardinality({i \in 1 .. Len(out[c]) : out[c][i][3] = AnsLen(out[c][i][2])})
UnderWay(c) == sent[c] - Begins(script[c], Complete(c) + 1)

-----------------------------------------------------------------------------
Init ==
  /\ script \in Scripts
  /\ sent = [c \in Conns |-> 0]
  /\ out = [c \in Conns |-> << >>]
  /\ gone = [c \in Conns |-> "no"]
  /\ open = [c \in Conns |-> TRUE]
  /\ over = {}

Sends(c) ==
  /\ gone[c] = "no" /\ sent[c] < StreamLen(script[c])
  /\ sent' = [sent EXCEPT ![c] = @ + 1]
  /\ \/ UNCHANGED over
     \/ c \notin over /\ UnderWay(c) + 1 >= Width /\ over' = over \cup {c}
  /\ UNCHANGED <<script, out, gone, open>>

Leaves(c) ==
  /\ gone[c] # "hup"
  /\ gone' \in {[gone EXCEPT ![c] = g] : g \in {"eof", "hup"}}
  /\ UNCHANGED <<script, sent, out, open, over>>

\* The server writes the next cells of its answers.
Answer(c) ==
  /\ open[c]
  /\ \A d \in Conns \ {c} : out'[d] = out[d]
  /\ Len(out'[c]) > Len(out[c]) /\ IsPrefix(out[c], out'[c])
  /\ c \in over \/ (IsAnswers(c, out'[c]) /\ Arrived(c, Last(out'[c])[1]))
  /\ UNCHANGED <<script, sent, gone, open, over>>

\* It closes on a request that has arrived and that it does not know, when
\* the client has ended, or at once for lack of memory.
Close(c) ==
  /\ open[c]
  /\ \/ gone[c] # "no" \/ c \in over
     \/ out[c] = << >>
     \/ /\ Answered(c) < Len(script[c])
        /\ script[c][Answered(c) + 1] = "bad" /\ Arrived(c, Answered(c) + 1)
  /\ open' = [open EXCEPT ![c] = FALSE]
  /\ UNCHANGED <<script, sent, out, gone, over>>

Next == \E c \in Conns : Sends(c) \/ Leaves(c) \/ Answer(c) \/ Close(c)

Spec == Init /\ [][Next]_<<script, sent, out, gone, open, over>>
=============================================================================
