------------------------------ MODULE NdpiFlow ------------------------------
(***************************************************************************)
(* The state nDPI keeps per flow and the primitives its dissectors use on  *)
(* it.  A dissector is an operator D(p, f): the packet p being inspected   *)
(* and the flow f it belongs to, to the flow the C function leaves behind. *)
(*                                                                         *)
(* A packet is abstracted to the questions the dissectors ask of it:       *)
(*   l4, v6, src, dst, sport, dport, syn, ack, rst, seq, ackSeq  its headers *)
(*   len    payload_packet_len                                             *)
(*   b      the payload bytes that are told apart, offset |-> byte; every  *)
(*          other byte of the payload is 0                                 *)
(*   t      the text comparisons that succeed: <<i, s>> when the payload   *)
(*          has the text s at offset i, <<-1, s>> when it has it anywhere  *)
(*   n      the numbers the payload spells out as text, offset |-> value     *)
(*   h      the header lines ndpi_parse_packet_line_info finds in it,      *)
(*          name |-> value                                                 *)
(*   dir, again    packet_direction and tcp_retransmission, which          *)
(*          ndpi_connection_tracking sets                                  *)
(***************************************************************************)
EXTENDS Integers, Sequences, FiniteSets, TLC

CONSTANTS
  EnabledProtocols, \* the detection bitmask of the module
  HostProtocol,     \* host name token |-> protocol of host_automa, for the names in it
  GuessedByAddress, \* address |-> protocol of the ptree of well-known networks
  Networks,         \* name of a network |-> addresses in it, for those a dissector tests itself
  RandomNames,      \* host names whose letters the DGA check takes for generated ones
  CacheSlots        \* entries of an LRU cache (1024 in the code)

Tcp == 6
Udp == 17
Unknown == "UNKNOWN"

-----------------------------------------------------------------------------
(* What a dissector asks of a packet.                                      *)

U8(p, i) == IF i \in DOMAIN p.b THEN p.b[i] ELSE 0
U16(p, i) == 256 * U8(p, i) + U8(p, i + 1)          \* ntohs(get_u_int16_t)
L16(p, i) == 256 * U8(p, i + 1) + U8(p, i)          \* little endian
U24(p, i) == 65536 * U8(p, i) + U16(p, i + 1)
\* A 32-bit value as the pair of its halves: TLC's integers are 32 bits signed.
U32(p, i) == <<U16(p, i), U16(p, i + 2)>>
L32(p, i) == <<L16(p, i + 2), L16(p, i)>>
Zero32 == <<0, 0>>
\* A 32-bit value as a number, for lengths; Huge stands for every value of 2^24 or more.
Huge == 16777216
Num32(x) == IF x[1] >= 256 THEN Huge ELSE 65536 * x[1] + x[2]

At(p, i, s) == <<i, s>> \in p.t
Begins(p, s) == At(p, 0, s)
Has(p, s) == At(p, -1, s)
BeginsAny(p, S) == \E s \in S : Begins(p, s)
IsNum(p, i) == i \in DOMAIN p.n
HasLine(p, h) == h \in DOMAIN p.h
Line(p, h) == IF HasLine(p, h) THEN p.h[h] ELSE ""
\* The lines of a text, as the command or reply each begins with.
Lines(p) == IF HasLine(p, "lines") THEN p.h["lines"] ELSE <<>>
Crlf(p) == p.len >= 2 /\ U16(p, p.len - 2) = 3338                   \* 0d 0a
LastByte(p) == U8(p, p.len - 1)
Bytes(p, i, n) == [k \in 1..n |-> U8(p, i + k - 1)]
IsTcp(p) == p.l4 = Tcp
IsUdp(p) == p.l4 = Udp
Port(p, n) == p.sport = n \/ p.dport = n
Ports(p, S) == p.sport \in S /\ p.dport \in S
PortIn(p, S) == p.sport \in S \/ p.dport \in S
\* An address of an IPv4 packet is in a network; one of the packet's addresses is.
InNet(a, net) == net \in DOMAIN Networks /\ a \in Networks[net]
Touches(p, net) == ~p.v6 /\ (InNet(p.src, net) \/ InNet(p.dst, net))

-----------------------------------------------------------------------------
(* The flow.  Fields every dissector or the engine uses are record fields; *)
(* the stages and counters private to a dissector are in v, by their C     *)
(* names, 0 until assigned, and wrap at the width of their bit field.      *)

\* struct ndpi_flow_tcp_struct: the bit fields, with the first value they cannot hold.
ndpi_flow_tcp_struct ==
  [auth_found |-> 2, auth_failed |-> 2, auth_tls |-> 2, auth_done |-> 2, username |-> 2,
   password |-> 2, wa_matched_so_far |-> 256, irc_stage |-> 256, h323_valid_packets |-> 256,
   gnutella_stage |-> 4, irc_3a_counter |-> 8, irc_stage2 |-> 32, irc_direction |-> 4,
   irc_0x1000_full |-> 2, usenet_stage |-> 4, http_stage |-> 4, http_empty_line_seen |-> 2,
   ssh_stage |-> 8, vnc_stage |-> 4, telnet_stage |-> 4, certificate_processed |-> 2,
   fingerprint_set |-> 2, num_tls_blocks |-> 256, postgres_stage |-> 8, seen_syn |-> 2,
   seen_syn_ack |-> 2, seen_ack |-> 2, icecast_stage |-> 2, dofus_stage |-> 2,
   fiesta_stage |-> 4, wow_stage |-> 4, shoutcast_stage |-> 4, mail_pop_stage |-> 4,
   mail_imap_stage |-> 8, mail_imap_starttls |-> 4, soap_stage |-> 2, skype_packet_id |-> 256,
   citrix_packet_id |-> 256, lotus_notes_packet_id |-> 256, teamviewer_stage |-> 256,
   prev_zmq_pkt_len |-> 256, ppstream_stage |-> 8, memcached_matches |-> 256,
   nest_log_sink_matches |-> 256]

\* struct ndpi_flow_udp_struct; skype_packet_id, teamviewer_stage, ppstream_stage and
\* memcached_matches are the same width in both structs.
ndpi_flow_udp_struct ==
  [halflife2_stage |-> 4, tftp_stage |-> 4, aimini_stage |-> 32, xbox_stage |-> 2,
   eaq_pkt_id |-> 256, wireguard_stage |-> 256, csgo_state |-> 256, csgo_s2 |-> 256,
   rdp_to_srv_pkts |-> 256, rdp_from_srv_pkts |-> 256, imo_last_one_byte_pkt |-> 256,
   imo_last_byte |-> 256]

\* The stages struct ndpi_flow_struct holds itself.
FlowStages ==
  [redis_s2d_first_char |-> 256, redis_d2s_first_char |-> 256, bittorrent_stage |-> 256,
   bt_check_performed |-> 2, directconnect_stage |-> 4, http_detected |-> 2,
   rtsprdt_stage |-> 4, zattoo_stage |-> 8, thunder_stage |-> 4, florensia_stage |-> 2,
   socks5_stage |-> 4, socks4_stage |-> 4, edonkey_stage |-> 4, ftp_control_stage |-> 4,
   rtmp_stage |-> 4, steam_stage |-> 8, steam_stage1 |-> 8, steam_stage2 |-> 4,
   steam_stage3 |-> 4, starcraft_udp_stage |-> 8, z3950_stage |-> 4, ovpn_counter |-> 256,
   tinc_state |-> 256]

Width == ndpi_flow_tcp_struct @@ ndpi_flow_udp_struct @@ FlowStages

V(f, k) == IF k \in DOMAIN f.v THEN f.v[k] ELSE 0
Put(f, k, x) ==
  [f EXCEPT !.v = (k :> (IF k \in DOMAIN Width THEN x % Width[k] ELSE x)) @@ @]
Inc(f, k) == Put(f, k, V(f, k) + 1)
\* Fields that hold 32-bit values or bytes of a payload: a tuple, zero until assigned.
W(f, k, zero) == IF k \in DOMAIN f.v THEN f.v[k] ELSE zero

EmptyFn == [x \in {} |-> 0]

\* struct ndpi_flow_struct as memset(0) leaves it; caches are the LRU caches of the
\* detection module, which outlive the flow.
NewFlow(caches) ==
  [app |-> Unknown, master |-> Unknown, confidence |-> "unknown",
   guessed |-> Unknown, guessedHost |-> Unknown,
   guessedOnce |-> FALSE, hostOnce |-> FALSE, failed |-> FALSE, begun |-> FALSE,
   setupDir |-> 0, l4 |-> 0, v6 |-> FALSE, saddr |-> 0, daddr |-> 0, sport |-> 0, dport |-> 0,
   processed |-> 0, packets |-> 0, dirPackets |-> [d \in {0, 1} |-> 0],
   nextSeq |-> [d \in {0, 1} |-> 0],
   excl |-> {}, risk |-> {}, riskChecked |-> FALSE, category |-> "unspecified", host |-> "",
   more |-> FALSE, moreMax |-> 0, moreDone |-> 0, moreFunc |-> "", v |-> EmptyFn,
   caches |-> caches]

-----------------------------------------------------------------------------
(* What a dissector does to a flow.                                        *)

\* Protocols registered with ndpi_set_proto_subprotocols.
HasSubprotocols ==
  {"DNS", "HTTP", "MDNS", "TLS", "DTLS", "HTTP_CONNECT", "HTTP_PROXY", "QUIC"}

ndpi_exclude_protocol(f, id) == [f EXCEPT !.excl = @ \cup {id}]
Excl(f, id) == ndpi_exclude_protocol(f, id)

ndpi_int_change_flow_protocol(f, upper, lower, conf) ==
  [f EXCEPT !.app = upper, !.master = lower, !.confidence = conf]

\* An upper protocol alone becomes the master of the one the address suggests, when it
\* may have subprotocols.
ndpi_int_change_protocol(f, upper, lower, conf) ==
  LET up == IF upper = Unknown THEN lower ELSE upper
      low == IF up = lower THEN Unknown ELSE lower
      swap == /\ up # Unknown /\ low = Unknown
              /\ f.guessedHost # Unknown /\ up # f.guessedHost
              /\ up \in HasSubprotocols
  IN IF swap THEN ndpi_int_change_flow_protocol(f, f.guessedHost, up, conf)
     ELSE ndpi_int_change_flow_protocol(f, up, low, conf)

\* The flow's packet counters are per direction: this packet's and the other one.
Mine(p, f) == f.dirPackets[p.dir]
Theirs(p, f) == f.dirPackets[1 - p.dir]

ndpi_set_detected_protocol(f, upper, lower, conf) == ndpi_int_change_protocol(f, upper, lower, conf)
Found(f, upper, lower) == ndpi_set_detected_protocol(f, upper, lower, "dpi")
FoundOnly(f, id) == Found(f, id, Unknown)

ndpi_int_reset_protocol(f) ==
  [f EXCEPT !.app = Unknown, !.master = Unknown, !.confidence = "unknown"]

ndpi_int_change_category(f, c) == [f EXCEPT !.category = c]

flow_is_proto(f, id) == f.app = id \/ f.master = id

\* ndpi_set_risk: without risk masks loaded, every risk is kept once.
ndpi_set_risk(f, r) == [f EXCEPT !.risk = @ \cup {r}]
ndpi_isset_risk(f, r) == r \in f.risk

\* Ask for the following packets of a detected flow to be handed to func.
FollowUp(f, max, func) == [f EXCEPT !.more = TRUE, !.moreMax = max, !.moreFunc = func]
\* The function is dropped, the flow still takes its packets as extra ones; and the function
\* answers that it wants no more of them.
NoFunc(f) == [f EXCEPT !.moreFunc = ""]
NoMore(f) == [f EXCEPT !.more = FALSE]
\* A field of f.v that holds a pointer is set exactly when it is in the domain.
Holds(f, k) == k \in DOMAIN f.v
Free(f, k) == [f EXCEPT !.v = [x \in DOMAIN @ \ {k} |-> @[x]]]

\* ndpi_hostname_sni_set: the name is kept in lower case, cut to 79 characters.
ndpi_hostname_sni_set(f, name) == [f EXCEPT !.host = name]

-----------------------------------------------------------------------------
(* The LRU caches of the detection module: one entry per slot, the later   *)
(* key of two that share a slot evicts the earlier.                        *)

ndpi_lru_cache_init == [s \in {} |-> <<>>]

ndpi_lru_find_cache(c, key) ==
  /\ key % CacheSlots \in DOMAIN c
  /\ c[key % CacheSlots][1] = key

ndpi_lru_value(c, key) == c[key % CacheSlots][2]

ndpi_lru_add_to_cache(c, key, value) == (key % CacheSlots :> <<key, value>>) @@ c

CacheFind(f, name, key) == ndpi_lru_find_cache(f.caches[name], key)
CacheValue(f, name, key) == ndpi_lru_value(f.caches[name], key)
CacheAdd(f, name, key, value) ==
  [f EXCEPT !.caches[name] = ndpi_lru_add_to_cache(@, key, value)]
CacheNames == {"ookla", "bittorrent", "zoom", "stun", "tls_cert", "mining", "msteams"}
\* tinc_cache is a set of endpoint triples, the others are LRU caches.
NoCaches == [n \in CacheNames |-> ndpi_lru_cache_init] @@ ("tinc" :> {})

-----------------------------------------------------------------------------
(* Host names.                                                             *)

\* The automaton's protocol for a name.
ndpi_match_string_subprotocol(name) ==
  IF name \in DOMAIN HostProtocol THEN HostProtocol[name] ELSE Unknown

ndpi_is_more_generic_protocol(previous, new) ==
  \/ previous \in {"WHATSAPP_CALL", "WHATSAPP_FILES"} /\ new = "WHATSAPP"
  \/ previous = "FACEBOOK_VOIP" /\ new = "FACEBOOK"

\* The protocol a name adds to the flow: none when the flow already has a finer one.
ndpi_automa_match_string_subprotocol(f, name) ==
  LET sub == ndpi_match_string_subprotocol(name)
  IN IF ndpi_is_more_generic_protocol(f.app, sub) THEN Unknown ELSE sub

\* A remote assistance application marks the flow.
ndpi_check_subprotocol_risk(f, sub) ==
  IF sub = "ANYDESK" THEN ndpi_set_risk(f, "desktop_or_file_sharing_session") ELSE f

\* A name that matches makes the automaton's protocol the application over master,
\* whatever was detected before.  No custom category and no risky domain is loaded.
ndpi_match_host_subprotocol(f, name, master) ==
  LET sub == ndpi_automa_match_string_subprotocol(f, name)
  IN IF sub = Unknown THEN f
     ELSE ndpi_int_change_flow_protocol(f, sub, master, "dpi")

ndpi_match_hostname_protocol(f, master, name) ==
  LET sub == ndpi_automa_match_string_subprotocol(f, name)
  IN IF sub = Unknown THEN f
     ELSE ndpi_set_detected_protocol(ndpi_match_host_subprotocol(f, name, master), sub, master, "dpi")

\* A name that looks generated, unless the flow is fully detected or the name is known.
ndpi_check_dga_name(f, name) ==
  IF /\ f.master = Unknown /\ ndpi_match_string_subprotocol(name) = Unknown
     /\ name \in RandomNames
  THEN ndpi_set_risk(f, "suspicious_dga_domain") ELSE f
=============================================================================
