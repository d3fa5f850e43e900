------------------------------ MODULE Exchange ------------------------------
(***************************************************************************)
(* One connection as the peer and the event loop see it. The peer sends a  *)
(* number of requests; the server reads, works on what it has read, and    *)
(* comes to one of the three outcomes Server knows: it reads on, it        *)
(* responds, or it gives up. It answers the requests in the order they     *)
(* were sent, each at most once, and none before it has arrived.           *)
(*                                                                         *)
(* When a response is out, the server forgets what it has received. A      *)
(* request that came together with the one before is never answered, and   *)
(* one that came in part makes the rest of it unintelligible.              *)
(***************************************************************************)
EXTENDS Integers, Sequences

VARIABLES
  asked,     \* the requests: is the request line good, is the connection to be kept
  phase,     \* "reading", "working", "sending" or "closed"
  begun,     \* requests of which something has arrived
  arrived,   \* requests that have arrived completely
  next,      \* the request to be answered now
  torn,      \* the beginning of that request has been forgotten
  reply,     \* what is being sent: "none", "page" or "error"
  answers    \* the requests answered with a page of the server, in order

vars == <<asked, phase, begun, arrived, next, torn, reply, answers>>

Asked == [good : BOOLEAN, keep : BOOLEAN]

Init ==
  /\ asked \in Seq(Asked)
  /\ phase = "reading" /\ begun = 0 /\ arrived = 0
  /\ next = 1 /\ torn = FALSE /\ reply = "none" /\ answers = <<>>

Receive ==
  /\ phase = "reading" /\ phase' \in {"working", "closed"}
  /\ begun <= begun' /\ begun' <= Len(asked)
  /\ arrived <= arrived' /\ arrived' <= begun' /\ begun' <= arrived' + 1
  /\ UNCHANGED <<asked, next, torn, reply, answers>>

Again ==
  /\ phase = "working" /\ phase' = "reading"
  /\ UNCHANGED <<asked, begun, arrived, next, torn, reply, answers>>

Respond ==
  /\ phase = "working" /\ phase' = "sending"
  /\ \/ reply' = "page" /\ ~torn /\ next <= arrived /\ asked[next].good
     \/ reply' = "error" /\ next <= begun /\ (torn \/ ~asked[next].good)
  /\ UNCHANGED <<asked, begun, arrived, next, torn, answers>>

Fail ==
  /\ phase = "working" /\ phase' = "closed"
  /\ UNCHANGED <<asked, begun, arrived, next, torn, reply, answers>>

Answered == answers' = IF reply = "page" THEN Append(answers, next) ELSE answers

\* The connection is kept for a page and a request that asked for it.
FinishKept ==
  /\ phase = "sending" /\ phase' = "reading"
  /\ reply = "page" /\ asked[next].keep
  /\ Answered
  /\ torn' = (arrived < begun)
  /\ next' = arrived + 1
  /\ reply' = "none"
  /\ UNCHANGED <<asked, begun, arrived>>

FinishClosed ==
  /\ phase = "sending" /\ phase' = "closed"
  /\ reply = "error" \/ ~asked[next].keep
  /\ Answered
  /\ reply' = "none"
  /\ UNCHANGED <<asked, begun, arrived, next, torn>>

\* The peer, or the main thread, ends the connection.
Drop ==
  /\ phase' = "closed" /\ reply' = "none"
  /\ UNCHANGED <<asked, begun, arrived, next, torn, answers>>

Next == Receive \/ Again \/ Respond \/ Fail \/ FinishKept \/ FinishClosed \/ Drop

Spec == Init /\ [][Next]_vars
=============================================================================
