------------------------------ MODULE Elevation ------------------------------
(***************************************************************************)
(* What one elevation request is worth: the order in which                 *)
(* elevation_request_cb() refuses requests on the loop thread, and the     *)
(* verdicts ElevationCompute() reaches on the body.  A request is reduced  *)
(* to what these decisions read.  Where the lookup of a point leads, and   *)
(* how the reply is formatted, is left out: a reply is its status and the  *)
(* number of points it carries.                                            *)
(***************************************************************************)
EXTENDS Naturals, Sequences

CONSTANTS
  AuthRequired,   \* whether the context was created with an auth string (-a)
  MaxPoints       \* the cap on points per request (-m); 0 means unlimited

ASSUME ElevationAssumption ==
  /\ AuthRequired \in BOOLEAN
  /\ MaxPoints \in Nat

\* A query parameter: "detail=1", any other spelling of `detail`, or another
\* parameter altogether.
Parameter == {"detail=1", "detail=other", "other"}

\* A member of the request's array: a pair of finite numbers, or not.
Point == {"coordinates", "malformed"}

\* Everything the server reads of a request.  `size` is the length of the body
\* (none at all, an int, beyond INT_MAX); `array` says that the body is exactly
\* one JSON document and that the document is an array.
RequestShape ==
  [ method : {"POST", "other"},
    auth   : BOOLEAN,
    query  : Seq(Parameter),
    size   : {"empty", "fits", "huge"},
    array  : BOOLEAN,
    points : Seq(Point) ]

Statuses == {0, 200, 400, 401, 405, 413, 500, 503}

\* detailRequested(): the query is acceptable unless some `detail` is not 1,
\* and details are sent when one of them is.
DetailKnown(r) == \A i \in DOMAIN r.query : r.query[i] # "detail=other"
DetailAsked(r) == \E i \in DOMAIN r.query : r.query[i] = "detail=1"

\* The checks that read nothing but the head of the request.
HeadersAccepted(r) ==
  r.method = "POST" /\ (AuthRequired => r.auth) /\ DetailKnown(r)

\* The checks made before the body is parsed, in the order they are made.
\* 0 lets the request through to a worker.
Admission(r) ==
  IF r.method # "POST" THEN 405
  ELSE IF AuthRequired /\ ~r.auth THEN 401
  ELSE IF ~DetailKnown(r) THEN 400
  ELSE IF r.size = "empty" THEN 400
  ELSE IF r.size = "huge" THEN 413
  ELSE 0

\* ElevationCompute() up to its loop over the points: 0 goes on to the loop.
ParseVerdict(r) ==
  IF ~r.array THEN 400
  ELSE IF MaxPoints > 0 /\ Len(r.points) > MaxPoints THEN 413
  ELSE IF r.points = <<>> THEN 200
  ELSE 0

\* The status a request earns when nothing goes wrong on the server's side.
Verdict(r) ==
  IF Admission(r) # 0 THEN Admission(r)
  ELSE IF ParseVerdict(r) # 0 THEN ParseVerdict(r)
  ELSE IF \E i \in DOMAIN r.points : r.points[i] = "malformed" THEN 400
  ELSE 200

Reply == [status : Statuses \ {0}, points : Nat]

ErrorReply(status) == [status |-> status, points |-> 0]
OkReply(n) == [status |-> 200, points |-> n]

\* The reply to a request that nothing goes wrong with.
EarnedReply(r) ==
  IF Verdict(r) = 200 THEN OkReply(Len(r.points)) ELSE ErrorReply(Verdict(r))
=============================================================================
