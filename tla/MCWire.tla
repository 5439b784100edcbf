------------------------------- MODULE MCWire -------------------------------
(* Small instance of Wire for TLC. *)
EXTENDS Wire

\* An empty body, a body of the largest size, one that is too large.
SomeSizes == {0, MaxFrame, MaxFrame + 1}
=============================================================================
