----------------------------- MODULE MCWorkerPool -----------------------------
(* Instances of WorkerPool for TLC.                                          *)
EXTENDS WorkerPool, TLC

CONSTANTS j1, j2, w1, w2

Body(points) ==
  [ method |-> "POST", auth |-> TRUE, query |-> <<>>, size |-> "fits",
    array |-> TRUE, points |-> points ]

Good == Body(<<"coordinates", "coordinates">>)
Short == Body(<<"coordinates">>)
Spoilt == Body(<<"coordinates", "malformed">>)
Detailed == [Good EXCEPT !.query = <<"other", "detail=1">>]
Nothing == Body(<<>>)
TooMany == Body(<<"coordinates", "coordinates", "coordinates">>)
NotArray == [Nothing EXCEPT !.array = FALSE]
Unread == [Good EXCEPT !.size = "empty"]

\* Every outcome of a request.
AllRequests ==
  { Good, Spoilt, Detailed, Nothing, TooMany, NotArray,
    [Good EXCEPT !.method = "other"], [Good EXCEPT !.auth = FALSE],
    [Good EXCEPT !.query = <<"detail=other">>],
    Unread, [Good EXCEPT !.size = "huge"] }

OnePointRequests == {Short}
TwoPointRequests == {Good}

\* Jobs and workers are told apart by nothing but their names.
Symmetry == Permutations(Workers) \cup Permutations(Jobs)
=============================================================================
