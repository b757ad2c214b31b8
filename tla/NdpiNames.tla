------------------------------ MODULE NdpiNames ------------------------------
(***************************************************************************)
(* Dissectors of name services.  The name a packet carries is the token    *)
(* Line(p, "name").                                                        *)
(***************************************************************************)
EXTENDS NdpiFlow, FiniteSetsExt

Bit(x, b) == (x \div 2^b) % 2 = 1

-----------------------------------------------------------------------------
(* DNS, with mDNS on port 5353 and LLMNR on port 5355.                     *)

NDPI_MAX_DNS_REQUESTS == 48
PKT_LEN_ALERT == 512

SuspiciousTypes ==
  {3, 4, 7, 8, 9, 10, 11, 13, 14, 17, 30, 31, 32, 33, 34, 38, 40, 42, 56, 57, 58, 253, 254, 259}
  \cup (19..27) \cup (99..107)

\* Called for each record; types are those of the answer.
ndpi_check_dns_type(f, types) ==
  IF types \cap SuspiciousTypes # {} THEN ndpi_set_risk(f, "dns_suspicious_traffic") ELSE f

checkPort(port) ==
  IF port = 53 THEN "DNS" ELSE IF port = 5355 THEN "LLMNR" ELSE IF port = 5353 THEN "MDNS"
  ELSE Unknown

checkDNSSubprotocol(sport, dport) ==
  IF checkPort(sport) # Unknown THEN checkPort(sport) ELSE checkPort(dport)

\* The length of the labels from i to the end or to a pointer.
getNameLength(p, i) ==
  LET from[k \in Nat] ==
        IF k >= p.len THEN 0
        ELSE IF U8(p, k) = 0 THEN 1
        ELSE IF U8(p, k) = 192 THEN 2
        ELSE IF U8(p, k) = 255 THEN 0
        ELSE U8(p, k) + 1 + from[k + U8(p, k) + 1]
  IN from[i]

DnsFlags(p, o) == U16(p, o + 2)
DnsIsQuery(p, o) == ~Bit(DnsFlags(p, o), 15)
DnsCount(p, o, k) == U16(p, o + 2 + 2 * k)     \* 1 queries, 2 answers, 3 authority, 4 additional

\* The answer records: a CNAME leads on to the next one, any other ends the walk.
DnsAnswers(p, f, o, from) ==
  LET walk[n \in Nat, x \in Nat] ==
        LET len == getNameLength(p, x)
            type == U16(p, x + len)
            data == U16(p, x + len + 8)
            more == /\ x + len + 14 <= p.len /\ x + len + 10 + data <= p.len
                    /\ type = 5
        IN IF n >= DnsCount(p, o, 2) \/ x + 6 >= p.len \/ len = 0 \/ x + len + 2 >= p.len
           THEN {}
           ELSE {type} \cup IF more THEN walk[n + 1, x + len + 10 + data] ELSE {}
  IN ndpi_check_dns_type(f, walk[0, from])

\* <<the header is invalid, f>>.  A reply that counts detects the flow by its source port
\* before the host name is looked at.
search_valid_dns(p, f, o) ==
  LET flags == DnsFlags(p, o)
      Some(k) == DnsCount(p, o, k) \in 1..NDPI_MAX_DNS_REQUESTS
      query == /\ DnsCount(p, o, 1) <= NDPI_MAX_DNS_REQUESTS
               /\ \/ Bit(flags, 13) /\ Bit(flags, 11)                     \* & 0x2800
                  \/ flags < 1024 /\ flags % 256 < 16                      \* & 0xFCF0 = 0
                  \/ flags \div 1024 = 2 /\ flags % 256 = 0               \* & 0xFCFF = 0x0800
                  \/ DnsCount(p, o, 2) = 0 /\ DnsCount(p, o, 3) = 0
      x == o + 13
      zero == {i \in x..(p.len - 1) : U8(p, i) = 0}
      end == (IF x >= p.len \/ U8(p, x) = 0 THEN x
              ELSE 1 + IF zero = {} THEN p.len ELSE Min(zero)) + 4
      g == DnsAnswers(p, f, o, end)
  IN IF DnsIsQuery(p, o)
     THEN IF query THEN <<FALSE, f>> ELSE <<TRUE, ndpi_set_risk(f, "malformed_packet")>>
     ELSE IF ~(Some(1) /\ (Some(2) \/ Some(3) \/ Some(4))) THEN <<FALSE, f>>
     ELSE <<FALSE, IF flow_is_proto(g, "DNS") THEN g ELSE FoundOnly(g, checkPort(p.sport))>>

\* The questions end in the packet, name a type and are no longer than a name may be.
DnsQuestionsFit(p, o) ==
  LET label[i \in Nat] ==         \* where the name that begins at i ends
        IF i >= p.len \/ U8(p, i) = 0 THEN i
        ELSE IF U8(p, i) >= 192 THEN i + 1
        ELSE label[i + U8(p, i) + 1]
      walk[n \in Nat, i \in Nat] ==
        LET e == label[i]
            total == IF e < p.len /\ U8(p, e) = 0 THEN e - i + 1 ELSE e - i
        IN \/ n >= DnsCount(p, o, 1) \/ i >= p.len
           \/ /\ e + 4 <= p.len /\ U16(p, e + 1) # 0 /\ total <= 253
              /\ walk[n + 1, e + 5]
  IN walk[0, o + 12]

\* The first name is spelled out in labels that lie in the packet.
DnsName(p, o) ==
  LET walk[i \in Nat, j \in Nat] ==
        IF j >= 255 \/ i >= p.len \/ U8(p, i) = 0 THEN j > 0
        ELSE IF U8(p, i) >= 64 \/ i + 1 + U8(p, i) >= p.len THEN FALSE
        ELSE walk[i + 1 + U8(p, i), j + U8(p, i) + 1]
  IN walk[o + 12, 0]

\* The name, its risks and the protocol it stands for: <<upper, lower, f>>.
DnsHost(p, f, o) ==
  LET name == IF DnsName(p, o) THEN Line(p, "name") ELSE ""
      g == ndpi_hostname_sni_set(IF Has(p, "unprintable name")
                                 THEN ndpi_set_risk(f, "invalid_characters") ELSE f, name)
      h == ndpi_check_dga_name(g, name)
      sub == ndpi_automa_match_string_subprotocol(h, name)
      upper == IF p.dport = 5355 THEN "LLMNR" ELSE IF p.dport = 5353 THEN "MDNS" ELSE "DNS"
  IN IF name = "" THEN <<upper, Unknown, g>>
     ELSE <<sub, IF sub = Unknown THEN checkDNSSubprotocol(p.sport, p.dport) ELSE "DNS",
            ndpi_match_host_subprotocol(h, name, "DNS")>>

\* What is done for every packet but a query and an invalid one.
DnsEnd(p, f) ==
  LET g == IF f.packets > 3 THEN Excl(f, "DNS") ELSE f
      h == IF IsUdp(p) /\ p.len > PKT_LEN_ALERT THEN ndpi_set_risk(g, "dns_large_packet") ELSE g
  IN IF ~flow_is_proto(g, "DNS") THEN g
     ELSE IF Has(p, "fragment") THEN ndpi_set_risk(h, "dns_fragmented") ELSE h

ndpi_search_dns(p, f) ==
  LET o == IF IsUdp(p) THEN 0 ELSE 2
      port == PortIn(p, {53, 5353}) \/ p.dport = 5355
      valid == search_valid_dns(p, f, o)
      g == IF DnsQuestionsFit(p, o) THEN valid[2] ELSE ndpi_set_risk(valid[2], "malformed_packet")
      host == DnsHost(p, g, o)
      h == host[3]
  IN IF ~(IsUdp(p) \/ IsTcp(p)) THEN Excl(f, "DNS")
     ELSE IF ~(port /\ p.len > 12 + o) THEN DnsEnd(p, f)
     ELSE IF valid[1] THEN Excl(valid[2], "DNS")
     ELSE IF DnsIsQuery(p, o) THEN FollowUp(Found(h, host[1], host[2]), 5, "dns")
     ELSE DnsEnd(p, IF h.app = Unknown THEN Found(h, host[1], host[2])
                    ELSE IF flow_is_proto(h, "DNS") THEN h ELSE Excl(h, "DNS"))

search_dns_again(p, f) == ndpi_search_dns(p, f)

-----------------------------------------------------------------------------
(* NetBIOS.                                                                *)

\* A name of at most 62 characters, each spelled as two letters from A to P; the letters
\* stop the walk, so a name may be cut short.
is_stop_char(c) == c \notin 65..80

ndpi_netbios_name_interpret(p, i) ==
  LET n == U8(p, i) \div 2
      Char(k) == 16 * (U8(p, i + 2 * k - 1) - 65) + U8(p, i + 2 * k) - 65
      Stops(k) == is_stop_char(U8(p, i + 2 * k - 1)) \/ is_stop_char(U8(p, i + 2 * k))
      cut == Min({k \in 1..(n + 1) : k = n + 1 \/ Stops(k)})
  IN IF n > 62 \/ n < 1 \/ 2 * n > p.len - i - 1 THEN -1
     ELSE Cardinality({k \in 1..(cut - 1) : Char(k) \in 32..126})

ndpi_int_netbios_add_connection(p, f, sub) ==
  LET i == IF U8(p, 12) = 32 THEN 12 ELSE 14
      g == IF i < p.len /\ ndpi_netbios_name_interpret(p, i) > 0
           THEN ndpi_check_dga_name(ndpi_hostname_sni_set(f, Line(p, "name")), Line(p, "name"))
           ELSE f
  IN IF sub = Unknown THEN FoundOnly(g, "NETBIOS") ELSE Found(g, sub, "NETBIOS")

\* The name that follows the header has the type and class IN given.
NetbiosRecord(p, type) ==
  LET n == U8(p, 12)
  IN /\ U8(p, 13 + n) = 0 /\ U16(p, 14 + n) = type /\ U16(p, 16 + n) = 1

\* Name service: flags and the counts of questions, answers, authority, additional.
NetbiosNameService(p) ==
  LET flags == U16(p, 2)
      Counts == <<U16(p, 4), U16(p, 6), U16(p, 8), U16(p, 10)>>
      opcode == flags \div 2048
      longEnough == p.len >= 18 + U8(p, 12)
  IN \/ flags \in {0, 272} /\ Counts = <<1, 0, 0, 0>>
     \/ /\ Bit(flags, 4) /\ ~Bit(flags, 15) /\ (flags \div 256) % 8 = 0       \* & 0x8710 = 0x10
        /\ SubSeq(Counts, 1, 3) = <<1, 0, 0>>
     \/ (U8(p, 2) = 128 \/ flags \in {16384, 10496, 10512}) /\ Counts = <<1, 0, 0, 1>>
     \/ flags \in {33792, 34048, 44422} /\ Counts = <<0, 1, 0, 0>>
     \/ /\ opcode = 0 /\ Counts = <<1, 0, 0, 0>>
        /\ p.len = 18 + U8(p, 12) /\ NetbiosRecord(p, 32)
     \/ opcode = 16 /\ Counts = <<0, 1, 0, 0>> /\ longEnough /\ NetbiosRecord(p, 32)
     \/ opcode = 16 /\ Counts = <<0, 0, 0, 0>> /\ longEnough /\ NetbiosRecord(p, 10)
     \/ opcode = 16 /\ Counts = <<0, 0, 1, 1>> /\ longEnough /\ NetbiosRecord(p, 2)

\* Datagram service: the packet names its own source.
NetbiosDatagram(p) ==
  /\ U16(p, 10) = p.len - 14 /\ ~p.v6 /\ U8(p, 0) \in 16..22 /\ At(p, 4, "source address")

ndpi_search_netbios(p, f) ==
  IF IsUdp(p) /\ p.dport = 137 /\ p.len >= 50 /\ NetbiosNameService(p)
  THEN ndpi_int_netbios_add_connection(p, f, Unknown)
  ELSE IF IsUdp(p) /\ p.dport = 138 /\ p.len >= 14 /\ NetbiosDatagram(p)
  THEN ndpi_int_netbios_add_connection(p, f, IF p.len - 14 > 82 THEN "SMBV1" ELSE Unknown)
  ELSE IF /\ IsTcp(p) /\ p.dport = 139 /\ p.len = 72
          /\ Bytes(p, 0, 4) = <<129, 0, 0, 68>>
  THEN ndpi_int_netbios_add_connection(p, f, Unknown)
  ELSE Excl(f, "NETBIOS")
=============================================================================
