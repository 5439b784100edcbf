----------------------------- MODULE MCSession -----------------------------
(* Small instance of Session for TLC: no symmetry, for the liveness. *)
EXTENDS Session
=============================================================================
