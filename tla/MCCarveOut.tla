---------------------------- MODULE MCCarveOut ----------------------------
(* Small instances of CarveOut for TLC. *)
EXTENDS CarveOut

Redirect(ifaces, port) == [downstream_interfaces |-> ifaces, redirect_port |-> port]
Exclusion(ifaces, dns, pre) ==
  [downstream_interfaces |-> ifaces, dns_only |-> dns, tproxy_pre_chain |-> pre]

\* Sharing goes from the hotspot to hotspot and usb, port 0, and back off; a
\* reinstalled app may call its pre-chain something else.
SharingRedirects ==
  {Redirect(<<>>, 1), Redirect(<<"wlan1">>, 1), Redirect(<<"wlan1", "", "usb0">>, 1), Redirect(<<"wlan1">>, 0)}
SharingExclusions ==
  {Exclusion(<<>>, FALSE, ""), Exclusion(<<"wlan1">>, TRUE, DEFAULT_TPROXY_PRE_CHAIN),
   Exclusion(<<"wlan1", "usb0">>, FALSE, "WINGS_TP_PRE")}
=============================================================================
