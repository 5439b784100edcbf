----------------------------- MODULE MCDaemon -----------------------------
(* Small instance of Daemon for TLC. *)
EXTENDS Daemon, TLC

CONSTANTS c1, c2, root, u1, s1, wifi

Slots == Permutations({c1, c2})
SomeTrouble == {"apply"}
=============================================================================
