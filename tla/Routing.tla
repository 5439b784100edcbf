------------------------------ MODULE Routing ------------------------------
(***************************************************************************)
(* Root routing (wingsvd routing.rs apply(), clear() and                   *)
(* reassert_upstream_routes(), and what calls them in main.rs).            *)
(*                                                                         *)
(* A handler holds the session lock and runs ip, iptables and ndc one      *)
(* command at a time; the daemon can die between any two of them, and what *)
(* the kernel holds by then stays.  So a handler is its commands and how   *)
(* many of them it has run.  When the upstream table is refreshed, and     *)
(* what with, is in Monitor and Reassert, with the routes a device takes   *)
(* along when it goes; the forwarded-client chains are in CarveOut.        *)
(***************************************************************************)
EXTENDS Kernel

CONSTANTS
  Specs,    \* the RoutingSpecs the app sends
  NoSpec,   \* session.spec is None
  NoTproxy, \* spec.tproxy is None
  NoChain,  \* spec.bypass_mark_chain is empty
  LeftBy,   \* specs the app installed over su before the daemon came up
  Dumps,    \* the default routes a dump of the main table may give
  Faulty    \* a route may be refused: the device it names is gone

Known == Specs \cup LeftBy
Block(s) == s.rule_priority_start..s.rule_priority_end

\* A spec has a variable half and a fixed one, which only travels so that
\* nobody needs a copy of it (rootd.proto:78-80).
ASSUME VariableHalf ==
  /\ NoSpec \notin Known /\ Faulty \in BOOLEAN
  /\ Dumps \subseteq Seq([via : STRING, metric : Nat])
  /\ \A s \in Known :
       /\ s.ipv4_default_routes \in Seq([via : STRING, metric : Nat])
       /\ s.ipv6_default_routes \in Seq([via : STRING, metric : Nat])
       /\ s.bypass_uids \in Seq(STRING)
       /\ s.bypass_mark_enabled \in BOOLEAN /\ s.dhcp_workaround_enabled \in BOOLEAN
       /\ s.bypass_mark_enabled => s.bypass_mark_chain # NoChain
  /\ \A s \in LeftBy : s.rule_priority_start + Len(s.bypass_uids) <= s.rule_priority_end
ASSUME FixedHalf ==
  /\ \A s \in Known :
       /\ s.rule_priority_start \in Nat /\ s.rule_priority_end \in Nat
       /\ s.rule_priority_start <= s.rule_priority_end
       /\ s.app_tunnel_priority # s.dhcp_workaround_priority
       /\ {s.app_tunnel_priority, s.dhcp_workaround_priority} \cap Block(s) = {}
       /\ s.bypass_mark_chain \notin BuiltIn
       /\ s.upstream_table \notin {97, s.tunnel_table}
       /\ s.tproxy # NoTproxy =>
            /\ s.tproxy.route_table \notin {97, s.upstream_table, s.tunnel_table}
            /\ s.tproxy.rule_priority \notin
                 Block(s) \cup {s.app_tunnel_priority, s.dhcp_workaround_priority}
  /\ \A s, t \in Known :
       /\ s.upstream_table = t.upstream_table /\ s.tunnel_table = t.tunnel_table
       /\ s.rule_priority_start = t.rule_priority_start
       /\ s.rule_priority_end = t.rule_priority_end
       /\ s.app_tunnel_priority = t.app_tunnel_priority
       /\ s.dhcp_workaround_priority = t.dhcp_workaround_priority
       /\ NoChain \in {s.bypass_mark_chain, t.bypass_mark_chain}
            \/ s.bypass_mark_chain = t.bypass_mark_chain
       /\ NoTproxy \in {s.tproxy, t.tproxy}
            \/ /\ s.tproxy.route_table = t.tproxy.route_table
               /\ s.tproxy.rule_priority = t.tproxy.rule_priority

VARIABLES
  kernel,   \* what the commands have installed
  spec,     \* Session.spec
  cmd,      \* the handler that holds the lock: "idle", "apply", "clear" or "reassert"
  arg,      \* the spec it works on
  commands, \* the commands it consists of
  ran,      \* how many of them are through
  answer    \* how the last handler ended

vars == <<kernel, spec, cmd, arg, commands, ran, answer>>
-----------------------------------------------------------------------------
(***************************************************************************)
(* The commands routing.rs composes.  Most go through run_quiet(); "must"  *)
(* marks those whose failure ends apply() with an error.                   *)
(***************************************************************************)
Must(c) == [c EXCEPT !.must = TRUE]
When(condition, cmds) == IF condition THEN cmds ELSE <<>>
\* What is done for ip is done for ip -6 right behind it.
FamilyAt(k) == IF k % 2 = 1 THEN 4 ELSE 6

rule_del_pref(fam, pref) == Del([kind |-> "rule", fam |-> fam, pref |-> pref])
RouteFlush(fam, table) == Flush([kind |-> "route", fam |-> fam, table |-> table])
EntryFlush(fam, chain) == Flush([kind |-> "entry", fam |-> fam, chain |-> chain])

DhcpRule(s) == Rule(4, s.dhcp_workaround_priority, "iif lo", 97)
UidRule(s, fam, pref, uid) == Rule(fam, pref, uid, s.upstream_table)
MarkJump(s, fam) == Jump(fam, "OUTPUT", s.bypass_mark_chain)
LocalRoute(s) == Route(4, s.tproxy.route_table, "lo", 0)
MarkRule(s) == Rule(4, s.tproxy.rule_priority, "fwmark", s.tproxy.route_table)

Sweep(first, last) ==
  [k \in 1..(2 * (last + 1 - first)) |-> rule_del_pref(FamilyAt(k), first + ((k - 1) \div 2))]

ClearRules(s) ==
  <<rule_del_pref(4, s.app_tunnel_priority), rule_del_pref(6, s.app_tunnel_priority),
    RouteFlush(4, s.upstream_table), RouteFlush(6, s.upstream_table)>>
    \o When(s.dhcp_workaround_enabled, <<Del(DhcpRule(s))>>)

ClearTproxy(s) ==
  When(s.tproxy # NoTproxy,
    <<rule_del_pref(4, s.tproxy.rule_priority), RouteFlush(4, s.tproxy.route_table)>>)

\* Mutant: -X comes before the -D and the -F that make it possible.
UnhookChainFirst(s, fam) ==
  <<Del(Chain(fam, s.bypass_mark_chain)), Del(MarkJump(s, fam)), EntryFlush(fam, s.bypass_mark_chain)>>

Unhook(s, fam) ==
  <<Del(MarkJump(s, fam)), EntryFlush(fam, s.bypass_mark_chain), Del(Chain(fam, s.bypass_mark_chain))>>
UnhookChain(s) == When(s.bypass_mark_chain # NoChain, Unhook(s, 4) \o Unhook(s, 6))

\* Mutant: the sweep stops before the last priority of the block.
ClearExclusive(s) ==
  Sweep(s.rule_priority_start, s.rule_priority_end - 1)
    \o ClearRules(s) \o UnhookChain(s) \o ClearTproxy(s)

\* Mutant: the upstream table is emptied before the rules that lead to it go.
ClearRoutesFirst(s) ==
  ClearRules(s) \o Sweep(s.rule_priority_start, s.rule_priority_end)
    \o UnhookChain(s) \o ClearTproxy(s)

clear(s) ==
  Sweep(s.rule_priority_start, s.rule_priority_end)
    \o ClearRules(s) \o UnhookChain(s) \o ClearTproxy(s)

AddRoutes(s, fam, routes) ==
  [i \in DOMAIN routes |-> Add(Route(fam, s.upstream_table, routes[i].via, routes[i].metric))]

AllMust(cmds) == [i \in DOMAIN cmds |-> Must(cmds[i])]

\* The base rule, then one rule per bypassed uid until the block is full; the
\* refusal is written as a command that fails.
Refusal == [verb |-> "refuse", must |-> TRUE]
Uid(s, i) == IF i = 0 THEN "0" ELSE s.bypass_uids[i]
add_uid_rule(s, i, fam) ==
  IF i > 0 /\ s.rule_priority_start + i > s.rule_priority_end THEN Refusal
  ELSE Add(UidRule(s, fam, s.rule_priority_start + i, Uid(s, i)))
UidRules(s) ==
  [k \in 1..(2 * (Len(s.bypass_uids) + 1)) |-> add_uid_rule(s, (k - 1) \div 2, FamilyAt(k))]

MarkEntries(s, fam) ==
  [i \in DOMAIN s.bypass_uids |-> Add(Entry(fam, s.bypass_mark_chain, s.bypass_uids[i]))]
Hook(s, fam) ==
  <<Add(Chain(fam, s.bypass_mark_chain)), EntryFlush(fam, s.bypass_mark_chain)>>
    \o MarkEntries(s, fam) \o <<Add(MarkJump(s, fam))>>
apply_bypass_mark(s) == Hook(s, 4) \o Hook(s, 6)

apply_tproxy(s) == <<Must(Add(LocalRoute(s))), Add(MarkRule(s))>>

Install(s) ==
  <<Add(Protected(s.app_uid))>>
    \o When(s.dhcp_workaround_enabled, <<Add(DhcpRule(s))>>)
    \o AllMust(AddRoutes(s, 4, s.ipv4_default_routes))
    \o AddRoutes(s, 6, s.ipv6_default_routes)
    \o UidRules(s)
    \o When(s.bypass_mark_enabled, apply_bypass_mark(s))
    \o When(s.tproxy # NoTproxy, apply_tproxy(s))

\* Mutant: apply() trusts that nothing of the last session is installed.
ApplyOnTop(s) == Install(s)

apply(s) == clear(s) \o Install(s)

\* Only the routes are touched: the table is emptied and filled again from
\* the main table, one family after the other.
reassert_upstream_routes(s, ipv4, ipv6) ==
  <<RouteFlush(4, s.upstream_table), RouteFlush(6, s.upstream_table)>>
    \o AddRoutes(s, 4, ipv4) \o AddRoutes(s, 6, ipv6)
-----------------------------------------------------------------------------
(***************************************************************************)
(* What a session amounts to in the kernel.                                *)
(***************************************************************************)
UpstreamRoutes(s, fam, routes) ==
  {Route(fam, s.upstream_table, routes[i].via, routes[i].metric) : i \in DOMAIN routes}
UidItems(s) ==
  {UidRule(s, f, s.rule_priority_start + i, Uid(s, i)) : f \in Families, i \in 0..Len(s.bypass_uids)}
DhcpItems(s) == IF s.dhcp_workaround_enabled THEN {DhcpRule(s)} ELSE {}
MarkItems(s) ==
  IF ~s.bypass_mark_enabled THEN {}
  ELSE {Chain(f, s.bypass_mark_chain) : f \in Families} \cup {MarkJump(s, f) : f \in Families}
         \cup {Entry(f, s.bypass_mark_chain, s.bypass_uids[i]) : f \in Families, i \in DOMAIN s.bypass_uids}
TproxyItems(s) == IF s.tproxy = NoTproxy THEN {} ELSE {LocalRoute(s), MarkRule(s)}

\* The routes, rules and chains apply(s) is there to install.
Footprint(s) ==
  UpstreamRoutes(s, 4, s.ipv4_default_routes) \cup UpstreamRoutes(s, 6, s.ipv6_default_routes)
    \cup UidItems(s) \cup DhcpItems(s) \cup MarkItems(s) \cup TproxyItems(s)

\* The app's own rule, which it adds over su and clear() removes.
TunnelRule(s, fam) == Rule(fam, s.app_tunnel_priority, "tunnel", s.tunnel_table)

\* Everything but what netd keeps on the app's behalf: clear() leaves that be.
Installed(k) == [x \in {y \in BagToSet(k) : y.kind # "protected"} |-> k[x]]
-----------------------------------------------------------------------------
(***************************************************************************)
(* The handlers.                                                           *)
(***************************************************************************)
Init ==
  /\ kernel \in {EmptyBag} \cup
       {SetToBag(Footprint(s) \cup {TunnelRule(s, f) : f \in Families}) : s \in LeftBy}
  /\ spec = NoSpec /\ arg = NoSpec
  /\ cmd = "idle" /\ commands = <<>> /\ ran = 0
  /\ answer = "none"

BeginApply(s) ==
  /\ cmd = "idle"
  /\ cmd' = "apply" /\ arg' = s /\ commands' = apply(s)
  /\ UNCHANGED <<kernel, spec, ran, answer>>

\* The recorded spec is taken before the first command; without one there is
\* nothing to go by and nothing is run.
BeginClear ==
  /\ cmd = "idle"
  /\ cmd' = "clear" /\ arg' = spec /\ spec' = NoSpec
  /\ commands' = IF spec = NoSpec THEN <<>> ELSE clear(spec)
  /\ UNCHANGED <<kernel, ran, answer>>

\* The monitor, in place of an app that is gone.  What the two dumps are going
\* to give is settled here; an empty list is also a dump that failed.
BeginReassert(ipv4, ipv6) ==
  /\ cmd = "idle" /\ spec # NoSpec
  /\ cmd' = "reassert" /\ arg' = spec
  /\ commands' = reassert_upstream_routes(spec, ipv4, ipv6)
  /\ UNCHANGED <<kernel, spec, ran, answer>>

Unlock == cmd' = "idle" /\ arg' = NoSpec /\ commands' = <<>> /\ ran' = 0

\* A route names a device, and that can be gone by now.
Gone(c) == Faulty /\ c.verb = "add" /\ c.what.kind = "route"

\* run() and run_quiet(): the next command, whatever it comes to.
Exec ==
  /\ ran < Len(commands)
  /\ LET c == commands[ran + 1]
         outcomes == After(kernel, c)
     IN  \/ /\ \/ kernel' \in outcomes
               \/ (outcomes = {} \/ Gone(c)) /\ ~c.must /\ UNCHANGED kernel
            /\ ran' = ran + 1
            /\ UNCHANGED <<cmd, arg, commands, answer>>
         \/ /\ c.must /\ (outcomes = {} \/ Gone(c))
            /\ Unlock /\ answer' = "apply failed"
            /\ UNCHANGED kernel
  /\ UNCHANGED spec

Finish ==
  /\ cmd # "idle" /\ ran = Len(commands)
  /\ spec' = IF cmd = "apply" THEN arg ELSE spec
  /\ answer' = CASE cmd = "apply" -> "applied"
                 [] cmd = "reassert" -> "reasserted"
                 [] cmd = "clear" /\ arg # NoSpec -> "cleared"
                 [] OTHER -> "had nothing to clear"
  /\ Unlock
  /\ UNCHANGED kernel

\* The daemon is killed mid-command or in between; service.sh brings it back
\* with an empty Session.
Crash ==
  /\ Unlock
  /\ spec' = NoSpec /\ answer' = "none"
  /\ UNCHANGED kernel

Next ==
  \/ \E s \in Specs : BeginApply(s)
  \/ BeginClear
  \/ \E ipv4, ipv6 \in Dumps : BeginReassert(ipv4, ipv6)
  \/ Exec \/ Finish \/ Crash

Spec == Init /\ [][Next]_vars
-----------------------------------------------------------------------------
(***************************************************************************)
(* Properties.                                                             *)
(***************************************************************************)
Steered(s) == {s.upstream_table} \cup (IF s.tproxy = NoTproxy THEN {} ELSE {s.tproxy.route_table})

\* An app listed twice is re-marked twice, in the chain of its session.
Repeated(x) ==
  x.kind = "entry" /\ \E s \in Known : \E i, j \in DOMAIN s.bypass_uids :
    i # j /\ s.bypass_uids[i] = x.match /\ s.bypass_uids[j] = x.match

\* No second copy of anything ever ends up in the kernel, the marks of an app
\* that one request lists twice aside, and a priority means one thing per
\* family, whatever a dead daemon, a failed apply or the app's own su path left
\* behind (apply(), routing.rs:59-61): `rule del pref` would take only one of two.
NothingStacks ==
  /\ \A x \in BagToSet(kernel) : kernel[x] = 1 \/ Repeated(x)
  /\ \A x, y \in BagToSet(kernel) :
       (x.kind = "rule" /\ y.kind = "rule" /\ x.fam = y.fam /\ x.pref = y.pref) => x = y

\* The IPv4 rules of sessions that lead into a table without a route.
Nowhere(k) ==
  {x \in BagToSet(k) :
     /\ x.kind = "rule" /\ x.fam = 4 /\ \E s \in Specs : x.table \in Steered(s)
     /\ Present(k, [kind |-> "route", fam |-> 4, table |-> x.table]) = {}}

\* Neither apply() nor clear() ever makes a rule of a session lead nowhere,
\* whichever of their commands the daemon dies behind: routes are added before
\* the rules that lead to them and removed after them.  Two ways stay open, and
\* are in the model: a request without an IPv4 route is accepted and its rules
\* are added over an empty table (routing.rs:81-96), and a reassert empties the
\* table under the rules (routing.rs:244).
RulesLeadSomewhere ==
  [][\A x \in Nowhere(kernel') \ Nowhere(kernel) :
       /\ x.table = arg.upstream_table
       /\ cmd = "reassert" \/ (cmd = "apply" /\ arg.ipv4_default_routes = <<>>)]_vars

\* What only another session had: clear(s) goes by what s itself turns on, so
\* it passes over the DHCP rule, the mark chain and the tproxy route and rule
\* of a predecessor when s has them off.
TurnedOff(s) ==
  UNION {   (IF s.dhcp_workaround_enabled THEN {} ELSE DhcpItems(p))
       \cup (IF s.bypass_mark_chain = NoChain THEN MarkItems(p) ELSE {})
       \cup (IF s.tproxy = NoTproxy THEN TproxyItems(p) ELSE {}) : p \in Known}

\* An apply that is acknowledged leaves its own session in the kernel, whole,
\* whichever session, part of one or leftover it started from, and of those
\* nothing but the optional parts it has turned off itself.  Only IPv6 routes
\* may be missing, they are optional (routing.rs:91-92).
AppliedIsWhole ==
  (cmd = "idle" /\ answer = "applied") =>
    LET optional == UpstreamRoutes(spec, 6, spec.ipv6_default_routes)
    IN  /\ BagToSet(Installed(kernel)) \subseteq Footprint(spec) \cup TurnedOff(spec)
        /\ Footprint(spec) \ optional \subseteq BagToSet(Installed(kernel))

\* A clear that had a spec leaves nothing of any session, failed applies in
\* between included, but the optional parts the spec it went by has turned off
\* (routing.rs:188-227).
ClearedIsEmpty ==
  (cmd = "clear" /\ ran = Len(commands) /\ arg # NoSpec) =>
    BagToSet(Installed(kernel)) \subseteq TurnedOff(arg)

\* routing.rs:188-190: the block is swept by number, so a clear works after
\* the daemon that installed the session is gone.
NoBookkeepingNeeded ==
  (cmd = "idle" /\ answer = "had nothing to clear") => Installed(kernel) = EmptyBag

\* rootd.proto:173-176: the session state is the authoritative answer to what
\* is installed, so a recorded spec is in the kernel.
StateIsAuthoritative ==
  (cmd = "idle" /\ spec # NoSpec) =>
    UpstreamRoutes(spec, 4, spec.ipv4_default_routes) \subseteq BagToSet(kernel)
=============================================================================
