--------------------------- MODULE ElevationService ---------------------------
(***************************************************************************)
(* What the daemon promises its clients, whatever threads it runs lookups  *)
(* on: each request is answered at most once, with the reply it earned, or *)
(* with 500 when the server ran out of something, or with 503 -- which is  *)
(* only for a client that went away or a server that is shutting down.     *)
(***************************************************************************)
EXTENDS Elevation

CONSTANTS
  Jobs,        \* the requests that may arrive, each on its own connection
  Requests,    \* the shapes a request may have
  NoRequest    \* "nothing has arrived yet"

VARIABLES
  request,   \* request[j]: what arrived, NoRequest before
  gone,      \* gone[j]: the client closed its side while it was being served
  closing,   \* the event loop has been told to stop
  sent       \* sent[j]: the replies handed to evhttp, in order

vars == <<request, gone, closing, sent>>

Unanswered(j) == request[j] # NoRequest /\ sent[j] = <<>>

\* The replies request j may get now.
Promised(j) ==
  {EarnedReply(request[j]), ErrorReply(500)}
    \cup (IF gone[j] \/ closing THEN {ErrorReply(503)} ELSE {})

Init ==
  /\ request = [j \in Jobs |-> NoRequest]
  /\ gone = [j \in Jobs |-> FALSE]
  /\ closing = FALSE
  /\ sent = [j \in Jobs |-> <<>>]

\* A request is accepted ...
Receive(j) ==
  /\ ~closing
  /\ request[j] = NoRequest
  /\ \E r \in Requests : request' = [request EXCEPT ![j] = r]
  /\ UNCHANGED <<gone, closing, sent>>

\* ... or turned down on arrival, before its body is looked at.
TurnDown(j) ==
  /\ ~closing
  /\ request[j] = NoRequest
  /\ \E r \in Requests, status \in {405, 401, 400, 413, 500} :
       /\ status \in {Admission(r), 500}
       /\ request' = [request EXCEPT ![j] = r]
       /\ sent' = [sent EXCEPT ![j] = <<ErrorReply(status)>>]
  /\ UNCHANGED <<gone, closing>>

Answer(j) ==
  /\ Unanswered(j)
  /\ \E reply \in Promised(j) : sent' = [sent EXCEPT ![j] = <<reply>>]
  /\ UNCHANGED <<request, gone, closing>>

Leave(j) ==
  /\ Unanswered(j)
  /\ ~gone[j]
  /\ gone' = [gone EXCEPT ![j] = TRUE]
  /\ UNCHANGED <<request, closing, sent>>

Close ==
  /\ ~closing
  /\ closing' = TRUE
  /\ UNCHANGED <<request, gone, sent>>

Next ==
  \/ \E j \in Jobs : Receive(j) \/ TurnDown(j) \/ Answer(j) \/ Leave(j)
  \/ Close

Spec == Init /\ [][Next]_vars
=============================================================================
