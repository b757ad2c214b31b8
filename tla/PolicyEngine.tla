---------------------------- MODULE PolicyEngine ----------------------------
(***************************************************************************)
(* The decision about one packet: PolicyEngine.decide, a pure function of  *)
(* what is known of the packet, the policy of its app and the settings.    *)
(***************************************************************************)

Policy == {"ALLOW", "BLOCK", "DEFAULT"}

\* A packet: whether its protocol lets its app be found, whether it was found
\* and is a system app, and whether the destination is multicast or DNS.
Packet == [tcpOrUdp : BOOLEAN, validUid : BOOLEAN, systemApp : BOOLEAN,
           multicast : BOOLEAN, dns : BOOLEAN]

\* The settings, and among them the policy of the packet's app.
Setting == [perApp : Policy, default : Policy, system : Policy,
            allowMulticast : BOOLEAN, allowDns : BOOLEAN,
            hideMulticast : BOOLEAN, hideDns : BOOLEAN]

\* Faulty variant: the exemption also holds where it is switched off.
ExemptAlways(allowed, default) == "ALLOW"

\* Multicast and DNS pass unless the default is to block and they are not
\* exempted.
Exempt(allowed, default) == IF default = "BLOCK" /\ ~allowed THEN "BLOCK" ELSE "ALLOW"

\* No app was found: the kind of the destination decides, multicast first.
WithoutUid(p, s) ==
    CASE p.multicast             -> Exempt(s.allowMulticast, s.default)
      [] ~p.multicast /\ p.dns   -> Exempt(s.allowDns, s.default)
      [] ~p.multicast /\ ~p.dns  -> "DEFAULT"

\* An exemption turns a policy that does not allow already.
Relax(applied, applies, allowed, default) ==
    IF applies /\ applied # "ALLOW" THEN Exempt(allowed, default) ELSE applied

\* The app has no policy of its own.
WithDefault(p, s) ==
    LET ofSystem == IF s.default # "ALLOW" /\ p.systemApp THEN s.system ELSE "DEFAULT"
        relaxed  == Relax(ofSystem, p.multicast, s.allowMulticast, s.default)
    IN  Relax(relaxed, p.dns, s.allowDns, s.default)

\* PacketDecision.appliedPolicy.
appliedPolicy(p, s) ==
    CASE ~p.tcpOrUdp                                        -> "DEFAULT"
      [] p.tcpOrUdp /\ ~p.validUid                          -> WithoutUid(p, s)
      [] p.tcpOrUdp /\ p.validUid /\ s.perApp = "DEFAULT"   -> WithDefault(p, s)
      [] p.tcpOrUdp /\ p.validUid /\ s.perApp # "DEFAULT"   -> s.perApp

\* resolveDefaultPolicy.
shouldForward(p, s) ==
    \/ appliedPolicy(p, s) = "ALLOW"
    \/ appliedPolicy(p, s) = "DEFAULT" /\ s.default = "ALLOW"

\* Only an app without a policy of its own is announced, and of an allowing
\* default not what the user has hidden.
shouldNotify(p, s) ==
    /\ p.tcpOrUdp /\ p.validUid /\ s.perApp = "DEFAULT"
    /\ ~(s.default = "ALLOW" /\ p.dns /\ s.hideDns)
    /\ ~(s.default = "ALLOW" /\ p.multicast /\ s.hideMulticast)

-----------------------------------------------------------------------------
(* What the settings mean to the user. *)

\* The policy of the app goes first; else the default, which the one for system
\* apps and the two exemptions can only relax.
Permitted(p, s) ==
    IF p.tcpOrUdp /\ p.validUid /\ s.perApp # "DEFAULT" THEN s.perApp = "ALLOW"
    ELSE \/ s.default = "ALLOW"
         \/ p.tcpOrUdp /\ p.validUid /\ p.systemApp /\ s.system = "ALLOW"
         \/ p.tcpOrUdp /\ p.multicast /\ s.allowMulticast
         \/ p.tcpOrUdp /\ p.dns /\ s.allowDns

\* A default that the user has not chosen yet is outside of this meaning, and
\* so is a packet without an app to which both exemptions apply.
Settled(p, s) ==
    /\ s.default \in {"ALLOW", "BLOCK"}
    /\ ~(~p.validUid /\ p.multicast /\ p.dns)
=============================================================================
