----------------------------- MODULE MCService -----------------------------
(* VpnService for TLC: the packets and settings of the instance.             *)
EXTENDS VpnService

\* A multicast packet of an app.
MCPackets == {[tcpOrUdp |-> TRUE, validUid |-> TRUE, systemApp |-> FALSE, multicast |-> TRUE,
               dns |-> FALSE]}

\* Block by default, or allow by default.
MCChoices == {[Initial EXCEPT !.default = d] : d \in {"ALLOW", "BLOCK"}}
=============================================================================
