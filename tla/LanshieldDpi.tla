---------------------------- MODULE LanshieldDpi ----------------------------
(***************************************************************************)
(* Deep packet inspection as LANShield uses it (lanshield-dpi.c): one      *)
(* static detection module and one static flow, zeroed for every packet,   *)
(* under the lock of VPNRunnable.doDpi, so that a call is one step.  Only  *)
(* the module's caches outlive a packet.                                   *)
(*                                                                         *)
(* The library is written for callers that keep a flow per connection; the *)
(* second mode of the model, kept, is such a caller: it hands every packet *)
(* of a connection to the same flow.  In both modes the packets of a       *)
(* conversation arrive as a network delivers them: some lost, some twice,  *)
(* in any order.  The library's two entry points are parameters, given by  *)
(* the operators of NdpiEngine.                                            *)
(***************************************************************************)
EXTENDS NdpiFlow

CONSTANTS
  Detect(_, _), \* ndpi_detection_process_packet(p, f)
  GiveUp(_, _), \* ndpi_detection_giveup(f, enable_guess)
  Talks,        \* the conversations to inspect, each [name, packets]
  MaxFaults,    \* packets that come lost, twice or out of order in a conversation
  MaxFailures,  \* packets that meet a failing init_dpi
  MaxPackets    \* a conversation is followed for as many packets

VARIABLES
  kept,         \* a flow is kept per connection, or one is zeroed for every packet
  talk,         \* the conversation
  seen,         \* the packets inspected, by their place in the conversation
  module,       \* ndpi_module exists
  caches,       \* its caches
  flows,        \* connection |-> flow; the static flow is that of every connection
  said,         \* the protocol reported for the last packet
  told          \* every <<address, protocol>> reported before the last packet

vars == <<kept, talk, seen, module, caches, flows, said, told>>

\* The protocols LANShield enables: the value of EnabledProtocols.
init_ndpi_protocols_bitmask ==
  {"HTTP", "HTTP_CONNECT", "HTTP_PROXY", "SSH", "FTP_CONTROL", "FTP_DATA", "TLS", "DTLS", "QUIC", "DNS", "MDNS", "DHCP",
   "DHCPV6", "NTP", "SNMP", "SSDP", "NETBIOS", "SMBV1", "SMBV23", "NFS", "IPP", "RTP", "RTCP", "RTSP", "RTMP", "SIP", "STUN",
   "RDP", "VNC", "TEAMVIEWER", "TELNET", "SYSLOG", "MYSQL", "POSTGRES", "REDIS", "MQTT", "KERBEROS", "RADIUS", "NETFLOW",
   "SFLOW", "OPENVPN", "WIREGUARD", "CISCOVPN", "PPTP", "TINC", "SOCKS", "TFTP", "IRC", "MAIL_POP", "MAIL_POPS",
   "MAIL_IMAP", "MAIL_IMAPS", "MAIL_SMTP", "MAIL_SMTPS", "BITTORRENT", "GIT", "NATS", "ZMQ", "Z3950", "RX", "STEALTHNET",
   "WEBSOCKET", "DNSCRYPT", "TOR", "IP_IPSEC", "IP_GRE", "IP_ICMP", "IP_IGMP", "IP_EGP", "IP_SCTP", "IP_OSPF",
   "IP_IP_IN_IP"}

Nothing == [app |-> Unknown, master |-> Unknown]

\* The connection of a packet, the same for both directions.
Connection(p) ==
  IF kept THEN <<p.l4, {<<p.src, p.sport>>, <<p.dst, p.dport>>}>> ELSE <<"static">>

\* The flow of a packet, with the caches of the module it is inspected by.
FlowOf(p) ==
  IF Connection(p) \in DOMAIN flows THEN [flows[Connection(p)] EXCEPT !.caches = caches]
  ELSE NewFlow(caches)

Init ==
  /\ kept \in BOOLEAN /\ talk \in Talks
  /\ seen = <<>> /\ module = FALSE /\ caches = NoCaches
  /\ flows = <<>> /\ said = Nothing /\ told = {}

-----------------------------------------------------------------------------
\* The places in s at which a packet comes that is not the next.
Faults(s) == {k \in DOMAIN s : s[k] # IF k = 1 THEN 1 ELSE s[k - 1] + 1}

Arrives(i) == Len(seen) < MaxPackets /\ Cardinality(Faults(Append(seen, i))) <= MaxFaults

Reports(p, ret) == {<<a, id>> : a \in {p.src, p.dst}, id \in {ret.app, ret.master} \ {Unknown}}

\* What a call leaves behind: f and the protocol returned for p.
Inspected(i, f, ret) ==
  LET p == talk.packets[i]
  IN /\ seen' = Append(seen, i) /\ module' = TRUE
     /\ caches' = f.caches
     /\ flows' = (Connection(p) :> [f EXCEPT !.caches = NoCaches]) @@ flows
     /\ said' = ret
     /\ told' = told \cup IF seen = <<>> THEN {} ELSE Reports(talk.packets[seen[Len(seen)]], said)
     /\ UNCHANGED <<kept, talk>>

\* Faulty variant: the static flow is not cleared.
memset_flow_dropped(f) == f

\* memset(&ndpi_flow, 0, SIZEOF_FLOW_STRUCT): the caches are the module's and stay.
memset_flow(f) == NewFlow(f.caches)

\* init_dpi could not make the serializer or the module: the packet is not inspected, and
\* the next one tries again.
init_dpi(i) ==
  /\ ~kept /\ ~module /\ Len(seen) < MaxFailures /\ Arrives(i)
  /\ seen' = Append(seen, i) /\ said' = Nothing
  /\ UNCHANGED <<kept, talk, module, caches, flows, told>>

\* _doDPI: the packet is inspected, then given up with a guess, which counts if there is one.
doDPI(i) ==
  LET p == talk.packets[i]
      detected == Detect(p, memset_flow(FlowOf(p)))
      guess == GiveUp(detected.f, TRUE)
  IN /\ ~kept /\ Arrives(i)
     /\ Inspected(i, guess.f, IF guess.guessed THEN guess.ret ELSE detected.ret)

\* A caller that keeps its flows, and gives them up only when they end.
NextPacket(i) ==
  LET p == talk.packets[i]
      detected == Detect(p, FlowOf(p))
  IN /\ kept /\ Arrives(i)
     /\ Inspected(i, detected.f, detected.ret)

Next ==
  \/ \E i \in DOMAIN talk.packets : init_dpi(i)
  \/ \E i \in DOMAIN talk.packets : doDPI(i)
  \/ \E i \in DOMAIN talk.packets : NextPacket(i)

Spec == Init /\ [][Next]_vars
-----------------------------------------------------------------------------
\* What a caller makes of a connection in the end.
Verdict(k) == GiveUp([flows[k] EXCEPT !.caches = caches], TRUE).ret

\* The last packet of a conversation comes for the first time, after all others, each of
\* them for the first time in its turn: there may be repetitions between them.
Firsts ==
  SelectSeq([k \in DOMAIN seen |-> IF \E j \in 1..(k - 1) : seen[j] = seen[k] THEN 0 ELSE seen[k]],
            LAMBDA i : i > 0)
Complete ==
  /\ kept /\ Firsts = [i \in 1..Len(talk.packets) |-> i]
  /\ Cardinality({k \in DOMAIN seen : seen[k] = Len(talk.packets)}) = 1

(***************************************************************************)
(* A conversation whose packets all reach one flow, whatever is repeated   *)
(* among them, is given its protocol: by the dissectors and caches for its *)
(* last packet, or by ndpi_detection_giveup after it.  Retransmissions     *)
(* (ndpi_connection_tracking) and repeated datagrams never drive a         *)
(* dissector's stages past the reply it waits for.                         *)
(***************************************************************************)
Recognised ==
  Complete => LET end == Verdict(Connection(talk.packets[Len(talk.packets)]))
              IN talk.name \in {said.app, said.master, end.app, end.master}

(***************************************************************************)
(* A flow that has a protocol keeps one: no later packet of any order, and *)
(* no SYN that comes late or twice (the reset in ndpi_init_packet), makes  *)
(* it unknown again.                                                       *)
(***************************************************************************)
DetectionLasts ==
  [][\A k \in DOMAIN flows : kept /\ flows[k].app # Unknown => flows'[k].app # Unknown]_vars

\* Protocols whose dissectors wait for the other side's answer.
TwoSided == {"POSTGRES", "REDIS", "RX", "RTMP", "SOCKS", "VNC", "WIREGUARD", "FTP_CONTROL", "Z3950"}

(***************************************************************************)
(* A protocol that takes a request and its answer to tell is found only in *)
(* a flow both sides of which have sent data, whichever packets were lost, *)
(* repeated or swapped: one side's packets, however often they come, do    *)
(* not pass the dissector's stages.                                        *)
(***************************************************************************)
BothSides ==
  \A k \in DOMAIN flows :
    LET f == flows[k]
    IN f.confidence = "dpi" /\ f.app \in TwoSided => f.dirPackets[0] > 0 /\ f.dirPackets[1] > 0

\* What a module that has seen nothing else says of p.
Fresh(p) ==
  LET d == Detect(p, NewFlow(NoCaches))
      g == GiveUp(d.f, TRUE)
  IN IF g.guessed THEN g.ret ELSE d.ret

(***************************************************************************)
(* What _doDPI reports of a packet is what it would report of it alone,    *)
(* unless a cache of the module knows one of its hosts: then the protocol  *)
(* was reported before for that host.  Nothing else passes from one packet *)
(* to the next through the static flow they share, whichever connections   *)
(* they belong to.                                                         *)
(***************************************************************************)
CacheExplains ==
  seen # <<>> /\ ~kept /\ module =>
     LET p == talk.packets[seen[Len(seen)]]
     IN said = Fresh(p) \/ \E a \in {p.src, p.dst} : <<a, said.app>> \in told
=============================================================================
