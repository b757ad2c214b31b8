---------------------------- MODULE NdpiServices ----------------------------
(***************************************************************************)
(* Dissectors of network services: one operator per ndpi_search function.  *)
(***************************************************************************)
EXTENDS NdpiFlow, FiniteSetsExt

-----------------------------------------------------------------------------
(* DHCP: the options follow the magic cookie at 236; a message type of at  *)
(* most 8 decides, and the options from there on give the host name.       *)

DhcpOption(p, i) == U8(p, 240 + i)

\* The length of the option at i, cut to what is left of the size bytes.
DhcpOptionLen(p, i, size) == Min({DhcpOption(p, i + 1), size - (i + 2)})

\* The option walk stops at the end, at 0xFF and at an empty option.
DhcpStops(p, i, size) ==
  i + 1 >= size \/ DhcpOption(p, i) = 255 \/ DhcpOptionLen(p, i, size) = 0

\* Where the walk meets a valid message type; -1 when it does not.
DhcpMsgType(p, size) ==
  LET walk[i \in 0..p.len] ==
        IF DhcpStops(p, i, size) THEN -1
        ELSE IF DhcpOption(p, i) = 53 /\ DhcpOption(p, i + 2) <= 8 THEN i
        ELSE walk[i + DhcpOptionLen(p, i, size) + 2]
  IN walk[0]

DhcpHasHost(p, from, size) ==
  LET walk[i \in 0..p.len] ==
        /\ ~DhcpStops(p, i, size)
        /\ DhcpOption(p, i) = 12 \/ walk[i + DhcpOptionLen(p, i, size) + 2]
  IN walk[from]

ndpi_search_dhcp_udp(p, f) ==
  LET size == Min({308, p.len - 244})
      at == DhcpMsgType(p, size)
  IN IF /\ p.len >= 244 /\ Ports(p, {67, 68})
        /\ U32(p, 236) = <<25474, 21347>>          \* 0x63825363
        /\ at >= 0
     THEN IF DhcpHasHost(p, at, size)
          THEN ndpi_hostname_sni_set(FoundOnly(f, "DHCP"), Line(p, "name"))
          ELSE FoundOnly(f, "DHCP")
     ELSE Excl(f, "DHCP")

ndpi_search_dhcpv6_udp(p, f) ==
  IF p.len >= 4 /\ Ports(p, {546, 547}) /\ U8(p, 0) \in 1..13
  THEN FoundOnly(f, "DHCPV6") ELSE Excl(f, "DHCPV6")

-----------------------------------------------------------------------------
(* DNSCrypt is given up once both sides spoke or after ten packets.        *)
ndpi_search_dnscrypt(p, f) ==
  IF \/ p.len >= 64 /\ Begins(p, "r6fnvWj8")
     \/ p.len > 23 /\ At(p, 13, "2\rdnscrypt")
  THEN FoundOnly(f, "DNSCRYPT")
  ELSE IF (Mine(p, f) >= 1 /\ Theirs(p, f) >= 1) \/ f.packets >= 10
  THEN Excl(f, "DNSCRYPT") ELSE f

ndpi_search_ntp_udp(p, f) ==
  IF Port(p, 123) /\ (U8(p, 0) \div 8) % 8 <= 4
  THEN FoundOnly(f, "NTP") ELSE Excl(f, "NTP")

ndpi_search_snmp(p, f) ==
  IF /\ p.len > 32 /\ U8(p, 0) = 48 /\ U8(p, 4) \in {0, 1, 3}
     /\ Port(p, 161) \/ p.dport = 162
     /\ U8(p, 1) + 2 = p.len
  THEN FoundOnly(f, "SNMP") ELSE Excl(f, "SNMP")

ndpi_search_ssdp(p, f) ==
  IF /\ IsUdp(p) /\ p.len >= 19
     /\ BeginsAny(p, {"M-SEARCH * HTTP/1.1", "NOTIFY * HTTP/1.1", "HTTP/1.1 200 OK"})
  THEN FoundOnly(f, "SSDP") ELSE Excl(f, "SSDP")

(* Syslog: "<", up to three digits, ">", then nothing but printable text.  *)
ndpi_search_syslog(p, f) ==
  LET Digit(i) == U8(p, i) \in 48..57
      i == Min({k \in 1..4 : k = 4 \/ ~Digit(k)})
  IN IF /\ p.len > 20 /\ U8(p, 0) = 60
        /\ U8(p, i) = 62 /\ Has(p, "printable")
     THEN FoundOnly(f, "SYSLOG") ELSE Excl(f, "SYSLOG")

\* RADIUS says nothing of a packet on another port.
ndpi_search_radius(p, f) ==
  IF f.app = "RADIUS" \/ ~(IsUdp(p) /\ PortIn(p, {1812, 1813, 18013})) THEN f
  ELSE IF p.len \in 20..4096 /\ U8(p, 0) \in 1..13 /\ U16(p, 2) = p.len
  THEN FoundOnly(f, "RADIUS") ELSE Excl(f, "RADIUS")

-----------------------------------------------------------------------------
(* NetFlow: the number of records agrees with the length and the export    *)
(* time lies between the year 2000 and now ("recent").                     *)
NetflowRecord == (1 :> 48) @@ (5 :> 48) @@ (7 :> 52)

ndpi_search_netflow(p, f) ==
  LET version == U16(p, 0)
      n == U16(p, 2)
      header == IF version = 1 THEN 16 ELSE 24
      sized == \/ version \in {1, 5, 7} /\ n \in 1..30
                  /\ p.len = n * NetflowRecord[version] + header
               \/ version = 9 /\ n \in 1..30
               \/ version = 10 /\ n = p.len
      when == IF version = 10 THEN 4 ELSE 8
  IN IF ~(IsUdp(p) /\ p.len >= 24 /\ sized) THEN Excl(f, "NETFLOW")
     ELSE IF (version = 1 /\ U32(p, when) = Zero32) \/ At(p, when, "recent")
     THEN FoundOnly(f, "NETFLOW") ELSE f

ndpi_search_sflow(p, f) ==
  IF IsUdp(p) /\ p.len >= 24 /\ U24(p, 0) = 0 /\ U8(p, 3) \in {2, 5}
  THEN FoundOnly(f, "SFLOW") ELSE Excl(f, "SFLOW")

(* NFS over RPC; over TCP a record mark comes first.                       *)
ndpi_search_nfs(p, f) ==
  LET o == IF IsTcp(p) THEN 4 ELSE 0
  IN IF /\ p.len >= 40 + o
        /\ o = 0 \/ U32(p, 0) = <<32768, p.len - 4>>
        /\ U32(p, 4 + o) = Zero32
        /\ U32(p, 8 + o) = <<0, 2>>
        /\ U32(p, 12 + o) \in {<<1, 34469>>, <<1, 34467>>, <<1, 34464>>}
        /\ Num32(U32(p, 16 + o)) <= 4
     THEN FoundOnly(f, "NFS") ELSE Excl(f, "NFS")

(* SMB: the negotiation of version 1 (command 0x72) decides nothing yet,   *)
(* but every other SMB1 command does; the dissector answers for both ids.  *)
ndpi_search_smb_tcp(p, f) ==
  IF /\ IsTcp(p) /\ Port(p, 445) /\ p.len > 40
     /\ Num32(U32(p, 0)) = p.len - 4
  THEN IF Bytes(p, 4, 4) = <<255, 83, 77, 66>>
       THEN IF U8(p, 8) # 114
            THEN ndpi_set_risk(Found(f, "SMBV1", "NETBIOS"), "smb_insecure_version") ELSE f
       ELSE Found(f, "SMBV23", "NETBIOS")
  ELSE Excl(Excl(f, "SMBV1"), "SMBV23")

-----------------------------------------------------------------------------
(* Other transport protocols: the IP protocol number decides, if the       *)
(* protocol is in the detection bitmask.                                   *)
IpProtocol ==
  (50 :> "IP_IPSEC") @@ (51 :> "IP_IPSEC") @@ (47 :> "IP_GRE") @@ (1 :> "IP_ICMP") @@
  (2 :> "IP_IGMP") @@ (8 :> "IP_EGP") @@ (132 :> "IP_SCTP") @@ (89 :> "IP_OSPF") @@
  (4 :> "IP_IP_IN_IP") @@ (58 :> "IP_ICMPV6") @@ (112 :> "IP_VRRP")

ndpi_search_in_non_tcp_udp(p, f) ==
  IF p.l4 \in DOMAIN IpProtocol /\ IpProtocol[p.l4] \in EnabledProtocols
  THEN FoundOnly(f, IpProtocol[p.l4]) ELSE f
=============================================================================
