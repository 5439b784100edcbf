--------------------------- MODULE MCNetlinkWalk ---------------------------
(* Small instance of NetlinkWalk for TLC: attribute headers, three of them at
   most, each stating any length from nothing to more than there is.  A walk
   reads lengths at multiples of four; a zero stands everywhere else. *)
EXTENDS NetlinkWalk

Places == {p \in 0..Size : p % 4 = 0}
AnyLengths ==
  {[p \in 0..Size |-> IF p \in Places THEN f[p] ELSE 0] : f \in [Places -> 0..(Size + 1)]}

\* The first, the second or the third item, or none.
AnyItem == {0, 4, 8, Size}
=============================================================================
