---------------------------- MODULE RequestReply ----------------------------
(***************************************************************************)
(* What a connection to the daemon promises (rootd.proto, main.rs serve()  *)
(* and cli.rs call()): whole requests are handled one at a time and in the *)
(* order they were sent, each gets one answer, and an answer that arrives  *)
(* is a whole one.  A connection may end at any point and take what is     *)
(* still on its way with it.                                               *)
(***************************************************************************)
EXTENDS Naturals

VARIABLES
  asked,     \* requests the client has sent
  handled,   \* requests the daemon has read and acted on
  answered,  \* answers the daemon has sent
  got        \* answers the client has read

callVars == <<asked, handled, answered, got>>

Init == asked = 0 /\ handled = 0 /\ answered = 0 /\ got = 0

Ask == asked' = asked + 1 /\ UNCHANGED <<handled, answered, got>>

Handle ==
  /\ handled < asked /\ answered = handled
  /\ handled' = handled + 1
  /\ UNCHANGED <<asked, answered, got>>

Answer == answered < handled /\ answered' = answered + 1 /\ UNCHANGED <<asked, handled, got>>

Get == got < answered /\ got' = got + 1 /\ UNCHANGED <<asked, handled, answered>>

Next == Ask \/ Handle \/ Answer \/ Get

Spec == Init /\ [][Next]_callVars
=============================================================================
