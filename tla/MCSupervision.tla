--------------------------- MODULE MCSupervision ---------------------------
(* Small instance of Supervision for TLC. *)
EXTENDS Supervision
=============================================================================
