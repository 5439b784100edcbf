---------------------------- MODULE NetlinkWalk ----------------------------
(***************************************************************************)
(* The walk over what a netlink recv() returned (wingsvd netlink.rs).      *)
(*                                                                         *)
(* The same walk is written three times: over the messages of a datagram,  *)
(* in any_message_relevant() and in dump_default_routes(), and over the    *)
(* attributes of a message, in Attributes::next().  Every item begins with *)
(* a header that states the item's length, and the next one begins behind  *)
(* it at a multiple of four.  Whatever bytes the buffer holds, the walk    *)
(* must stay inside it and come to an end.                                 *)
(***************************************************************************)
EXTENDS Integers

CONSTANTS
  Size,    \* bytes received, or in the message's payload
  Header,  \* NLMSG_HDR_LEN or RTATTR_HDR_LEN
  Buffers, \* what the buffer can hold: the length stated at each offset
  Wanted   \* offsets of an item that ends the walk: DONE, ERROR or, for the
           \* monitor, a change worth waking up for

ASSUME WalkAssumption ==
  /\ Size \in Nat /\ Header \in Nat \ {0}
  /\ Buffers \subseteq [0..Size -> Nat]

VARIABLES
  length,  \* length[p]: what a header at p states
  at,      \* where data begins: data.len() is Size - at
  wanted,  \* the offset of the item that would end it
  items,   \* the items handed on, as <<start, length>>
  over     \* "no", "early" when an item ended the walk, or "end"

walk == <<length, at, wanted, items, over>>

WalkInit == length \in Buffers /\ wanted \in Wanted /\ at = 0 /\ items = {} /\ over = "no"

\* Mutant: the length is rounded down.
PaddedDown(n) == (n \div 4) * 4

\* next_multiple_of(4)
Padded(n) == ((n + 3) \div 4) * 4

Left == Size - at

\* Mutant: any length that fits will do.
FittingLength == Left >= Header /\ length[at] <= Left

\* Mutant: an item that fills the buffer is taken for one cut short.
RoomForMore == Left >= Header /\ length[at] >= Header /\ length[at] < Left

\* There is an item: its header fits and states a length that fits too.
ItemThere == Left >= Header /\ length[at] >= Header /\ length[at] <= Left

\* Mutant: the step is taken for as safe as the length was.
AnyStep(step) == TRUE

\* The step over an item, its padding included, stays inside too.
Fits(step) == step <= Left

\* The item is looked at, which may be all the caller wants to see, and is
\* stepped over.  The padding behind the last one may be missing.
Visit ==
  /\ over = "no" /\ ItemThere
  /\ items' = items \cup {<<at, length[at]>>}
  /\ \/ wanted = at /\ over' = "early" /\ UNCHANGED at
     \/ wanted # at /\ Fits(Padded(length[at])) /\ at' = at + Padded(length[at]) /\ UNCHANGED over
     \/ wanted # at /\ ~Fits(Padded(length[at])) /\ over' = "end" /\ UNCHANGED at
  /\ UNCHANGED <<length, wanted>>

Stop == over = "no" /\ ~ItemThere /\ over' = "end" /\ UNCHANGED <<length, at, wanted, items>>

WalkNext == Visit \/ Stop

WalkSpec == WalkInit /\ [][WalkNext]_walk
-----------------------------------------------------------------------------
(***************************************************************************)
(* Properties.                                                             *)
(***************************************************************************)
Walk_TypeOK ==
  /\ length \in [0..Size -> Nat]
  /\ at \in 0..Size
  /\ wanted \in Wanted
  /\ items \subseteq (0..Size) \X Nat
  /\ over \in {"no", "early", "end"}

End(i) == i[1] + Padded(i[2])

\* No slice of the buffer is ever taken outside it, whatever lengths the headers
\* state and however much of the last one's padding is missing: neither
\* data[HDR..len], an item with room for its header, nor data[step..], where the
\* walk goes on.  Either would panic, which is the daemon's end
\* (netlink.rs:173-190, 247-267, 385-394).
WithinTheBuffer ==
  /\ at \in 0..Size
  /\ \A i \in items : i[1] % 4 = 0 /\ Header <= i[2] /\ i[1] + i[2] <= Size

\* The items are a chain from the start of the buffer, none skipped and none
\* overlapping another: every one but the first begins where another ends.
Chained ==
  /\ \A i \in items : i[1] = 0 \/ \E j \in items : End(j) = i[1]
  /\ \A i, j \in items : i = j \/ i[1] + i[2] <= j[1] \/ j[1] + j[2] <= i[1]

\* A walk that no item ended has seen all there was: behind its last item
\* there is no room for a header, or one that states an impossible length
\* (netlink.rs:169-193, 243-268).
SeenToTheEnd ==
  over = "end" =>
    \/ Size - at < Header
    \/ length[at] < Header \/ length[at] > Size - at
    \/ \E i \in items : i[1] = at /\ at + i[2] + 3 >= Size

\* A step that does not end the walk takes it at least a header on, even over
\* lengths of zero or of more than there is, so it ends after Size / Header
\* steps (netlink.rs:173, 187: len < NLMSG_HDR_LEN, step == 0).
Progresses == [][over' # "no" \/ at' >= at + Header]_walk
=============================================================================
