-------------------------- MODULE SessionContract --------------------------
(***************************************************************************)
(* What the daemon promises about a routing session (rootd.proto,          *)
(* SessionState): it belongs to whichever app clients are attached, it     *)
(* outlives them, only a clear or the death of the daemon ends it, and the *)
(* status shown to anyone is always a function of those two facts.         *)
(***************************************************************************)
CONSTANTS Conns, Specs, NoSpec

VARIABLES
  owners,  \* the attached app clients
  spec,    \* the recorded routing, or NoSpec
  status   \* SessionState: routing_active, orphaned, app_connected

contractVars == <<owners, spec, status>>

StatusOf(o, s) ==
  [active |-> s # NoSpec, orphaned |-> s # NoSpec /\ o = {}, connected |-> o # {}]

Init == owners = {} /\ spec = NoSpec /\ status = StatusOf({}, NoSpec)

Attach(c) == c \notin owners /\ owners' = owners \cup {c} /\ spec' = spec

\* Losing an owner, the last one included, leaves the session up.
Detach(c) == c \in owners /\ owners' = owners \ {c} /\ spec' = spec

\* Only while an app client is attached does new routing come up.
Install(s) == owners # {} /\ spec' = s /\ owners' = owners

TearDown == spec' = NoSpec /\ owners' = owners

Die == owners' = {} /\ spec' = NoSpec

Next ==
  /\ \/ \E c \in Conns : Attach(c) \/ Detach(c)
     \/ \E s \in Specs : Install(s)
     \/ TearDown \/ Die
  /\ status' = StatusOf(owners', spec')

Spec == Init /\ [][Next]_contractVars
=============================================================================
