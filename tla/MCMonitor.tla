---------------------------- MODULE MCMonitor ----------------------------
(* Small instances of Monitor for TLC. *)
EXTENDS Monitor

\* A device on which anything fails.
EveryTrouble == {"overflow", "dump", "apply", "open"}
=============================================================================
