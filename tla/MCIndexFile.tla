------------------------------ MODULE MCIndexFile ------------------------------
(* Instances of IndexFile for TLC.                                           *)
EXTENDS IndexFile

CONSTANTS g1, g2, old

\* Two lists of different lengths, and one in service.
Counts == [w \in Writers |-> IF w = g1 THEN 3 ELSE IF w = g2 THEN 2 ELSE 1]

\* Two processes on one machine.
OwnNames == [g \in Generators |-> g]
=============================================================================
