----------------------------- MODULE MCRouting -----------------------------
(* Small instances of Routing for TLC: specs with the app's fixed numbers. *)
EXTENDS Routing

via(gw, m) == [via |-> gw, metric |-> m]
Tproxy == [route_table |-> 30, rule_priority |-> 9]

Base ==
  [app_uid |-> "app", ipv4_default_routes |-> <<via("wlan0", 0)>>, ipv6_default_routes |-> <<>>,
   upstream_table |-> 20, tunnel_table |-> 40, rule_priority_start |-> 10, rule_priority_end |-> 12,
   app_tunnel_priority |-> 8, bypass_uids |-> <<"u1">>,
   bypass_mark_enabled |-> TRUE, bypass_mark_chain |-> "MARK",
   dhcp_workaround_enabled |-> TRUE, dhcp_workaround_priority |-> 7, tproxy |-> Tproxy]

\* One bypassed app on wifi, everything on.
Wifi == Base
\* The block filled to its last priority, two uplinks, IPv6, no re-marking.
Cellular ==
  [Base EXCEPT !.ipv4_default_routes = <<via("rmnet0", 0), via("wlan0", 5)>>,
               !.ipv6_default_routes = <<via("rmnet0", 0)>>,
               !.bypass_uids = <<"u2", "u1">>, !.bypass_mark_enabled = FALSE]
\* One bypassed app more than the block holds.
TooMany == [Base EXCEPT !.bypass_uids = <<"u1", "u2", "u3">>]
\* One app listed twice.
Doubled == [Base EXCEPT !.bypass_uids = <<"u1", "u1">>]
\* Sharing, marking and the proxy all off, so that every optional part of the
\* others is one it does not name, and sent while no uplink had a route.
Bare ==
  [Base EXCEPT !.ipv4_default_routes = <<>>, !.dhcp_workaround_enabled = FALSE, !.tproxy = NoTproxy,
               !.bypass_mark_enabled = FALSE, !.bypass_mark_chain = NoChain]

EverySpec == {Wifi, Cellular, TooMany, Doubled, Bare}
JustWifi == {Wifi}
WifiAndCellular == {Wifi, Cellular}
Nobody == {}

\* The main table has no default route, or two that want the same place.
NoneOrTwo == {<<>>, <<via("rmnet0", 0), via("wlan1", 0)>>}
=============================================================================
