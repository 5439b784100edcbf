----------------------------- MODULE MCReassert -----------------------------
(* Small instance of Reassert for TLC. *)
EXTENDS Reassert

route(v, d, m) == [via |-> v, dev |-> d, metric |-> m]

\* A wifi with a gateway, a cellular link without, and one more of wifi's metric.
SomeRoutes == {route("gw", "wlan0", 0), route(NoVia, "rmnet0", 5), route("gw2", "rmnet0", 0)}

\* A per-network table's default, a subnet route of the main table.
OtherTable == <<[table |-> "1002", dst_len |-> 0, via |-> "gw3", dev |-> "wlan0", metric |-> 1]>>
Subnet == <<[table |-> "main", dst_len |-> 24, via |-> NoVia, dev |-> "wlan0", metric |-> 2]>>
NoDefaults == {OtherTable[1], Subnet[1]}
=============================================================================
