---------------------------- MODULE MCChildren ----------------------------
(* Small instances of Children for TLC. *)
EXTENDS Children

\* Fewer pids than spawns: at least one pid is used twice.
ThreePids == {"p1", "p2", "p3"}
=============================================================================
