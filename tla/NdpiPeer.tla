------------------------------ MODULE NdpiPeer ------------------------------
(***************************************************************************)
(* QUIC and BitTorrent.  The build has no libgcrypt: the initial packets   *)
(* of every QUIC version that encrypts them stay closed, so that only the  *)
(* early Google versions are looked into.                                  *)
(***************************************************************************)
EXTENDS NdpiWeb

-----------------------------------------------------------------------------
(* QUIC versions, as the two halves of the 32-bit number.                  *)

Q0 == 20784                      \* "Q0"
T0 == 21552                      \* "T0"
V_Q046 == <<Q0, 13366>>
V_Q050 == <<Q0, 13616>>
GoogleVersions == {<<Q0, 12852>>, <<Q0, 12853>>, <<Q0, 13104>>, <<Q0, 13107>>, <<Q0, 13108>>,
                   <<Q0, 13109>>, <<Q0, 13111>>, <<Q0, 13113>>, <<Q0, 13363>>, V_Q046, V_Q050,
                   <<T0, 13616>>, <<T0, 13617>>}
MvfstVersions == {<<64206, 45057>>, <<64206, 45058>>, <<64206, 45070>>}

is_version_gquic(v) ==
  \/ v[1] = T0 /\ v[2] \div 256 = 53
  \/ v[1] = Q0 /\ v[2] \div 256 \in 50..53
\* ?a?a?a?a, the versions that force a negotiation
GreaseVersion(v) == \A n \in {v[1], v[2]} : n % 16 = 10 /\ (n \div 256) % 16 = 10
is_version_quic(v) ==
  \/ v = <<0, 1>> \/ (v[1] \in {65280, 65282} /\ v[2] < 256)
  \/ (v[1] = 64206 /\ v[2] \div 4096 = 11) \/ GreaseVersion(v)
is_version_valid(v) == is_version_gquic(v) \/ is_version_quic(v)

get_u8_quic_ver(v) ==
  IF v[1] = 65280 /\ v[2] < 256 THEN v[2]
  ELSE IF v = <<0, 1>> THEN 33
  ELSE IF v = <<64206, 45057>> THEN 22
  ELSE IF v \in MvfstVersions THEN 27
  ELSE IF GreaseVersion(v) THEN 29
  ELSE IF v[1] = 65282 /\ v[2] < 256 THEN (100 + v[2]) % 256 ELSE 0
is_quic_ver_greater_than(v, min) == get_u8_quic_ver(v) >= min
\* The two digits at the end of a Google version, as a number.
get_u8_gquic_ver(v) ==
  IF is_version_gquic(v) THEN 10 * ((v[2] \div 256) - 48) + ((v[2] % 256) - 48) ELSE 0
is_gquic_ver_less_than(v, max) == get_u8_gquic_ver(v) \in 1..max
is_version_supported(v) ==
  v \in GoogleVersions \cup MvfstVersions \/ is_quic_ver_greater_than(v, 23)
is_version_with_ietf_long_header(v) ==
  is_version_quic(v) \/ (v[1] \in {Q0, T0} /\ v[2] \div 256 = 53)
gquic_get_u16(p, i, v) == IF v[2] >= 13113 THEN U16(p, i) ELSE L16(p, i)

\* Bit k of the first byte, counted from the highest as the code names them.
PubBit(p, k) == (U8(p, 0) \div (2 ^ (8 - k))) % 2 = 1
QuicVersion(p) ==
  IF PubBit(p, 1) THEN U32(p, 1)
  ELSE IF PubBit(p, 5) /\ ~PubBit(p, 2) /\ PubBit(p, 8) THEN U32(p, 9) ELSE Zero32

QUIC_MAX_CID_LENGTH == 20
may_be_initial_pkt(p) ==
  LET v == QuicVersion(p)
      reserved == PubBit(p, 3) \/ PubBit(p, 4)
  IN /\ p.len >= 1200 /\ is_version_valid(v)
     /\ is_gquic_ver_less_than(v, 43) => PubBit(p, 5) /\ ~reserved
     /\ v = V_Q046 => PubBit(p, 7) /\ PubBit(p, 8)
     /\ (is_version_quic(v) \/ v \in {V_Q046, V_Q050}) => ~reserved
     /\ GreaseVersion(v) => PubBit(p, 1) /\ PubBit(p, 2)
     /\ is_version_with_ietf_long_header(v)
        => U8(p, 5) <= QUIC_MAX_CID_LENGTH /\ U8(p, 6 + U8(p, 5)) <= QUIC_MAX_CID_LENGTH

-----------------------------------------------------------------------------
(* What an early initial packet says.                                      *)

\* Where the readable payload begins, 0 when there is none.
get_clear_payload(p, v) ==
  IF is_gquic_ver_less_than(v, 33) THEN 27
  ELSE IF is_gquic_ver_less_than(v, 43) THEN 26
  ELSE IF v = V_Q046 /\ U8(p, 5) = 80 THEN 30 ELSE 0

FirstNonZero(p, o) ==
  LET found == {i \in DOMAIN p.b : i >= o /\ i < p.len /\ p.b[i] # 0}
  IN IF found = {} THEN p.len ELSE CHOOSE i \in found : \A j \in found : i <= j

\* Where the crypto data of a stream frame begins and how long it is, behind padding and an
\* ACK; length 0 when there is none.
get_crypto_data(p, v, o) ==
  LET c == FirstNonZero(p, o)
      i == IF c < p.len /\ U8(p, c) \in {64, 96} THEN c + (IF U8(p, c) = 64 THEN 6 ELSE 9) ELSE c
      width == IF (U8(p, i) \div 4) % 8 = 0 THEN 0 ELSE 1 + ((U8(p, i) \div 4) % 8)
      at == i + 2 + width
      len == gquic_get_u16(p, at, v)
  IN IF /\ is_gquic_ver_less_than(v, 46) /\ i < p.len /\ U8(p, i) \in {160, 164}
        /\ at + 2 <= p.len /\ U8(p, i + 1) = 1 /\ len + at + 2 <= p.len
     THEN [at |-> at + 2, len |-> len] ELSE [at |-> 0, len |-> 0]

\* The tags of a client hello: its server name and its user agent.
process_chlo(p, f, c) ==
  LET name == Line(p, "sni")
      g == ndpi_check_dga_name(
             Put(ndpi_match_host_subprotocol(ndpi_hostname_sni_set(f, name), name, "QUIC"),
                 "hello_processed", 1), name)
      s == IF HasLine(p, "sni") THEN g ELSE f
      u == IF HasLine(p, "user_agent") THEN http_process_user_agent(p, s) ELSE s
  IN IF c.len < 6 \/ ~At(p, c.at, "CHLO") THEN f
     ELSE IF u.host = "" THEN ndpi_set_risk(u, "tls_missing_sni") ELSE u

eval_extra_processing(f, v) == v = V_Q046 /\ f.host = ""

\* The flow is QUIC by its header even where the dissector is then excluded.
ndpi_search_quic(p, f) ==
  LET v == QuicVersion(p)
      d == FoundOnly(f, "QUIC")
      o == get_clear_payload(p, v)
      c == get_crypto_data(p, v, o)
      g == IF c.len > 0 THEN process_chlo(p, d, c) ELSE d
  IN IF ~may_be_initial_pkt(p) THEN Excl(f, "QUIC")
     ELSE IF ~is_version_supported(v) \/ o = 0 THEN Excl(d, "QUIC")
     ELSE IF eval_extra_processing(g, v) THEN FollowUp(g, 24, "quic")
     ELSE IF c.len = 0 THEN Excl(g, "QUIC") ELSE g

is_valid_rtp_payload_type(t) == t <= 34 \/ t \in 96..127

\* A Q046 flow that turns to RTP is a Snapchat call.
ndpi_search_quic_extra(p, f) ==
  IF (U8(p, 0) \div 64) % 2 = 1 THEN f
  ELSE IF /\ U8(p, 0) \div 64 = 2 /\ p.len > 1
          /\ (U8(p, 1) \in {200, 201} \/ is_valid_rtp_payload_type(U8(p, 1) % 128))
  THEN NoMore(NoFunc(Found(f, "SNAPCHAT_CALL", "QUIC"))) ELSE NoMore(NoFunc(f))

-----------------------------------------------------------------------------
(* BitTorrent.                                                             *)

BITTORRENT_PROTO_STRING == "BitTorrent protocol"
\* Texts of the peers' DHT and of trackers.
DhtTexts == {":target20:", ":find_node1:", "d1:ad2:id20:", ":info_hash20:", ":filter64",
             "d1:rd2:id20:", BITTORRENT_PROTO_STRING}
Clients == {"Azureus ", "BitTorrent", "BTWebClient"}

ndpi_ip_port_hash_funct(ip, port) == ip + 3 * port

\* The keys a peer leaves in the cache, and those it is looked up by.
BittorrentKeys(p) ==
  {ndpi_ip_port_hash_funct(p.src, p.sport), ndpi_ip_port_hash_funct(p.dst, p.dport), p.src + p.dst}
ndpi_search_into_bittorrent_cache(p, f) ==
  V(f, "bt_check_performed") = 0 /\ \E k \in BittorrentKeys(p) : CacheFind(f, "bittorrent", k)
\* Looking is done once per flow, once there is a cache to look into.
BittorrentLooked(f) ==
  IF DOMAIN f.caches["bittorrent"] # {} THEN Put(f, "bt_check_performed", 1) ELSE f

\* The hash behind the protocol's name, which is at the start (offset given) or anywhere.
ndpi_search_bittorrent_hash(p, f, given) ==
  IF p.len >= 48 /\ (given \/ Has(p, BITTORRENT_PROTO_STRING)) THEN Put(f, "bittorrent_hash", 1) ELSE f

\* The endpoints, the pair of hosts and the sender's next port are remembered.
ndpi_add_connection_as_bittorrent(p, f, given, check) ==
  LET g == IF check THEN ndpi_search_bittorrent_hash(p, f, given) ELSE f
      d == ndpi_set_detected_protocol(g, "BITTORRENT", Unknown, "dpi_cache")
      m == IF V(d, "bittorrent_hash") = 0 THEN FollowUp(d, 3, "bittorrent") ELSE d
      a == CacheAdd(m, "bittorrent", ndpi_ip_port_hash_funct(p.src, p.sport), "BITTORRENT")
      b == CacheAdd(a, "bittorrent", ndpi_ip_port_hash_funct(p.dst, p.dport), "BITTORRENT")
      c == CacheAdd(b, "bittorrent", p.src + p.dst, "BITTORRENT")
  IN IF p.v6 THEN m
     ELSE CacheAdd(c, "bittorrent", ndpi_ip_port_hash_funct(p.src, p.sport + 1), "BITTORRENT")

\* Micro transport protocol: version 1, a type up to 4, an extension up to 2, a window.
is_utpv1_pkt(p) ==
  /\ p.len >= 20 /\ U8(p, 0) % 16 = 1 /\ U8(p, 0) \div 16 <= 4 /\ U8(p, 1) <= 2
  /\ Num32(U32(p, 12)) <= 65565
  /\ U32(p, 12) = Zero32 => p.len = 20

\* A request of a client or to a tracker, by its agent, by the exact headers two clients
\* send, or by an info_hash.
BittorrentRequest(p) ==
  /\ p.len > 90 /\ BeginsAny(p, {"GET ", "POST "})
  /\ \/ Line(p, "user_agent") \in Clients
     \/ Line(p, "user_agent") = "Shareaza " /\ Has(p, "X-Queue: ")
     \/ Has(p, "headers of a known client") \/ Has(p, "info_hash=")

\* The first payload of a TCP flow.
ndpi_int_search_bittorrent_tcp_zero(p, f) ==
  LET magic == [i \in {0, 52} |-> IF i = 0 THEN Bytes(p, 0, 20) ELSE Bytes(p, 52, 12)]
      Add(given) == ndpi_add_connection_as_bittorrent(p, f, given, TRUE)
  IN IF p.len = 1 /\ U8(p, 0) = 19 THEN Put(f, "bittorrent_stage", 0)
     ELSE IF \/ f.packets = 2 /\ p.len > 20 /\ Begins(p, BITTORRENT_PROTO_STRING)
             \/ p.len > 20 /\ U8(p, 0) = 19 /\ At(p, 1, BITTORRENT_PROTO_STRING)
     THEN Add(TRUE)
     ELSE IF \/ p.len > 23 /\ Begins(p, "GET /webseed?info_hash=")
             \/ p.len > 60 /\ Begins(p, "GET /data?fid=") /\ At(p, 54, "&size=")
             \/ BittorrentRequest(p)
             \/ /\ p.len = 80
                /\ magic[0] = <<76, 0, 0, 0, 255, 255, 255, 255, 87, 0, 0, 0, 0, 0, 0, 0, 32, 0, 0, 0>>
                /\ magic[52] = <<40, 35, 0, 0, 1, 0, 0, 0, 16, 0, 0, 0>>
             \/ p.len > 50 /\ p.len # 80 /\ Begins(p, "GET ") /\ Line(p, "host") = "ip2p.com"
     THEN Add(FALSE)
     ELSE f

ndpi_int_search_bittorrent_tcp(p, f) ==
  IF p.len = 0 \/ V(f, "bittorrent_stage") # 0 THEN f
  ELSE ndpi_int_search_bittorrent_tcp_zero(p, Put(f, "bittorrent_stage", 1))

ndpi_skip_bittorrent(p, f) ==
  IF ~p.v6 /\ ndpi_search_into_bittorrent_cache(p, f)
  THEN ndpi_add_connection_as_bittorrent(p, BittorrentLooked(f), FALSE, FALSE)
  ELSE Excl(IF p.v6 THEN f ELSE BittorrentLooked(f), "BITTORRENT")

is_port(p, n) == Port(p, n)

\* A packet that names the protocol has the hash 27 bytes on, if it is that long.
BittorrentFound(p, f) ==
  LET g == IF Has(p, BITTORRENT_PROTO_STRING) /\ p.len > 67
           THEN NoFunc(Put(f, "bittorrent_hash", 1)) ELSE f
  IN ndpi_add_connection_as_bittorrent(p, g, FALSE, FALSE)

BittorrentUdp(p, f) ==
  LET g == Inc(f, "bittorrent_stage")
  IN IF p.sport < 1024 \/ p.dport < 1024 THEN ndpi_skip_bittorrent(p, f)
     ELSE IF p.len >= 23 /\ BeginsAny(p, {"BT-SEARCH * HTTP/1.1\r\n", "d1:ad2:id20:"})
     THEN ndpi_add_connection_as_bittorrent(p, f, FALSE, TRUE)
     ELSE IF /\ p.len >= 23
             /\ \/ is_utpv1_pkt(p) \/ Bytes(p, 0, 5) = <<96, 0, 0, 0, 0>>
                \/ U8(p, 18) < 6 /\ U8(p, 17) < 3 /\ At(p, 4, "now")
                \/ ~(U8(p, 18) < 6 /\ U8(p, 17) < 3) /\ Has(p, BITTORRENT_PROTO_STRING)
     THEN BittorrentFound(p, f)
     ELSE IF V(g, "bittorrent_stage") < 5
     THEN IF p.len > 19 /\ \E t \in DhtTexts : Has(p, t) THEN BittorrentFound(p, g) ELSE g
     ELSE LET s == ndpi_skip_bittorrent(p, g)
          IN IF s.packets > 8 THEN ndpi_skip_bittorrent(p, s) ELSE s

ndpi_search_bittorrent(p, f) ==
  LET g == IF f.app = "BITTORRENT" THEN f
           ELSE IF IsTcp(p) THEN ndpi_int_search_bittorrent_tcp(p, f) ELSE BittorrentUdp(p, f)
  IN IF ~p.v6 /\ (Touches(p, "broadcast") \/ (IsUdp(p) /\ \E n \in {3544, 5246, 5247} : is_port(p, n)))
     THEN Excl(f, "BITTORRENT")
     ELSE IF f.app # "BITTORRENT" /\ IsUdp(p) THEN g
     ELSE IF g.packets > 8 THEN ndpi_skip_bittorrent(p, g) ELSE g

search_bittorrent_again(p, f) ==
  ndpi_search_bittorrent_hash(p, ndpi_search_bittorrent(p, f), FALSE)
=============================================================================
