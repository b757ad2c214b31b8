----------------------------- MODULE NdpiEngine -----------------------------
(***************************************************************************)
(* nDPI's engine (ndpi_main.c): it tracks a connection, guesses its        *)
(* protocol by port and address, tries the dissectors one after the other, *)
(* and gives up with a guess.  ndpi_detection_process_packet and           *)
(* ndpi_detection_giveup answer the flow and the protocol returned.        *)
(***************************************************************************)
EXTENDS NdpiDefaults, NdpiServices, NdpiData, NdpiRemote, NdpiMedia, NdpiNames, NdpiMail

NDPI_MAX_NUM_PKTS_PER_FLOW_TO_DISSECT == 32
tcp_max_retransmission_window_size == 65536

-----------------------------------------------------------------------------
(* The IP header.  A packet whose header is unusual describes it in        *)
(* h["ip"]; of the others the payload is found.                            *)

\* size is the length of the packet, tot and plen the lengths its header claims.
ndpi_iph_is_valid_and_not_fragmented(ip) ==
  ip.size >= 4 * ip.ihl /\ ip.size >= ip.tot /\ ip.tot >= 4 * ip.ihl /\ ip.offset = 0

\* ext is the chain of extension headers, each [type, len, offset]; l3len is what the packet
\* has left, of which a fragment header takes 5, and l4len what the header claims.
ndpi_handle_ipv6_extension_headers(ip) ==
  LET readable[i \in Nat, l3len \in Int, l4len \in Int] ==
        LET e == ip.ext[i]
        IN IF i > Len(ip.ext) \/ l3len <= 1 THEN TRUE
           ELSE IF e.type = 59 THEN FALSE
           ELSE IF e.type = 44
           THEN /\ l4len >= 8 /\ l3len >= 5 /\ e.offset = 0
                /\ readable[i + 1, l3len - 5, l4len - 8]
           ELSE /\ l4len >= 2 /\ e.len <= l3len /\ e.len <= l4len
                /\ readable[i + 1, l3len - e.len, l4len - e.len]
  IN readable[1, ip.size - 40, ip.plen]

ndpi_detection_get_l4_internal(p) ==
  \/ ~HasLine(p, "ip")
  \/ LET ip == p.h["ip"]
     IN /\ ip.size >= 20
        /\ IF p.v6 THEN /\ ip.size >= 40 /\ ip.size - 40 >= ip.plen
                        /\ ndpi_handle_ipv6_extension_headers(ip)
           ELSE ip.ihl >= 5 /\ ndpi_iph_is_valid_and_not_fragmented(ip)

-----------------------------------------------------------------------------
(* The connection.                                                         *)

\* What survives when the caller frees the flow's data and clears the flow.
Cleared(f) == NewFlow(f.caches)

\* Faulty variant: a SYN starts every flow afresh.
InitPacketAnySyn(p, f) ==
  LET g == [f EXCEPT !.l4 = p.l4]
  IN IF p.l4 = Tcp /\ p.syn /\ ~p.ack /\ f.begun
     THEN [Cleared(f) EXCEPT !.l4 = Tcp, !.dirPackets = f.dirPackets,
             !.processed = f.processed % 256, !.guessed = f.guessed,
             !.guessedHost = f.guessedHost]
     ELSE g

\* A SYN on a flow that is still unknown starts it afresh, except for its counters and
\* guesses; one byte holds the count of processed packets meanwhile.
ndpi_init_packet(p, f) ==
  LET g == [f EXCEPT !.l4 = p.l4]
  IN IF p.l4 = Tcp /\ p.syn /\ ~p.ack /\ f.begun /\ f.app = Unknown
     THEN [Cleared(f) EXCEPT !.l4 = Tcp, !.dirPackets = f.dirPackets,
             !.processed = f.processed % 256, !.guessed = f.guessed,
             !.guessedHost = f.guessedHost]
     ELSE g

AddressDirection(p) == IF p.src < p.dst THEN 1 ELSE 0
PacketDirection(p) ==
  IF p.l4 \in {Tcp, Udp} THEN (IF p.sport < p.dport THEN 1 ELSE 0) ELSE AddressDirection(p)

\* The three-way handshake, as far as it was seen in order.
Handshake(p, f) ==
  LET seen == <<V(f, "seen_syn"), V(f, "seen_syn_ack"), V(f, "seen_ack")>>
  IN IF p.syn /\ ~p.ack /\ seen = <<0, 0, 0>> THEN Put(f, "seen_syn", 1)
     ELSE IF p.syn /\ p.ack /\ seen = <<1, 0, 0>> THEN Put(f, "seen_syn_ack", 1)
     ELSE IF ~p.syn /\ p.ack /\ seen = <<1, 1, 0>> THEN Put(f, "seen_ack", 1) ELSE f

\* Faulty variant: the byte expected next counts as seen.
SeenUpToNext(p, f) ==
  LET next == f.nextSeq[PacketDirection(p)]
  IN /\ 0 \notin {f.nextSeq[0], f.nextSeq[1]} /\ p.len > 0
     /\ p.seq <= next \/ p.seq - next > tcp_max_retransmission_window_size

\* Data the flow has seen: its distance from what was expected, taken modulo 2^32, is
\* beyond the window when it lies behind.
SeenBefore(p, f) ==
  LET next == f.nextSeq[PacketDirection(p)]
  IN /\ 0 \notin {f.nextSeq[0], f.nextSeq[1]} /\ p.len > 0
     /\ p.seq < next \/ p.seq - next > tcp_max_retransmission_window_size

\* What is expected next, in each direction.
NextSeq(p, f) ==
  LET d == PacketDirection(p)
      next == f.nextSeq[d]
      end == p.seq + (IF p.syn THEN 1 ELSE p.len)
      partly == p.seq <= next /\ next - p.seq < p.len /\ f.processed > 1
  IN IF p.rst THEN [x \in {0, 1} |-> 0]
     ELSE IF 0 \in {f.nextSeq[0], f.nextSeq[1]}
     THEN IF ~p.ack THEN f.nextSeq
          ELSE IF f.processed > 1 THEN [f.nextSeq EXCEPT ![d] = end, ![1 - d] = p.ackSeq]
          ELSE [f.nextSeq EXCEPT ![d] = end]
     ELSE IF p.len = 0 \/ (SeenBefore(p, f) /\ ~partly) THEN f.nextSeq
     ELSE [f.nextSeq EXCEPT ![d] = p.seq + p.len]

\* The packet with the direction and the retransmission mark it is given.
Tracked(p, f) == [p EXCEPT !.dir = PacketDirection(p), !.again = p.l4 = Tcp /\ SeenBefore(p, f)]

ndpi_connection_tracking(p, f) ==
  LET d == PacketDirection(p)
      s == [f EXCEPT !.v6 = p.v6,
              !.saddr = IF p.v6 THEN @ ELSE p.src, !.daddr = IF p.v6 THEN @ ELSE p.dst,
              !.begun = TRUE, !.setupDir = IF f.begun THEN @ ELSE AddressDirection(p)]
      l == IF p.l4 \notin {Tcp, Udp} THEN s ELSE [s EXCEPT !.sport = p.sport, !.dport = p.dport]
      t == IF p.l4 = Tcp THEN [Handshake(p, l) EXCEPT !.nextSeq = NextSeq(p, l)] ELSE l
  IN IF p.len = 0 THEN t ELSE [t EXCEPT !.packets = @ + 1, !.dirPackets[d] = @ + 1]

-----------------------------------------------------------------------------
(* Guesses.                                                                *)

\* The lower port is taken for the server's.
ndpi_get_guessed_protocol_id(l4, sport, dport) ==
  LET root == IF l4 = Tcp THEN tcpRoot ELSE udpRoot
      low == IF sport < dport THEN sport ELSE dport
      high == IF sport < dport THEN dport ELSE sport
  IN IF sport = 0 \/ dport = 0 THEN Unknown
     ELSE IF low \in DOMAIN root THEN root[low]
     ELSE IF high \in DOMAIN root THEN root[high] ELSE Unknown

is_udp_guessable_protocol(id) == id \in {"QUIC", "SNMP", "NETFLOW"}
\* UDP protocols that fit a single packet are not guessed once they are excluded.
RuledOut(f, id) == f.l4 = Udp /\ id \in f.excl /\ is_udp_guessable_protocol(id)

MalformedIcmp(p) ==
  \/ p.len < 8
  \/ p.l4 = 1 /\ (U8(p, 0) \in 44..252 \/ U8(p, 1) > 15)
  \/ p.l4 = 58 /\ (U8(p, 0) \in 5..127 \/ (U8(p, 1) >= 156 /\ U8(p, 0) # 255))

IpProtocols == (50 :> "IP_IPSEC" @@ 51 :> "IP_IPSEC" @@ 47 :> "IP_GRE" @@ 1 :> "IP_ICMP"
  @@ 2 :> "IP_IGMP" @@ 8 :> "IP_EGP" @@ 132 :> "IP_SCTP" @@ 89 :> "IP_OSPF"
  @@ 4 :> "IP_IP_IN_IP" @@ 58 :> "IP_ICMPV6" @@ 112 :> "IP_VRRP")

ndpi_guess_protocol_id(p, f) ==
  LET id == ndpi_get_guessed_protocol_id(p.l4, p.sport, p.dport)
  IN IF p.l4 \in {Tcp, Udp}
     THEN IF RuledOut(f, id) THEN Unknown ELSE id
     ELSE IF p.l4 \in DOMAIN IpProtocols THEN IpProtocols[p.l4] ELSE Unknown

IcmpRisks(p, f) ==
  LET m == IF MalformedIcmp(p) THEN ndpi_set_risk(f, "malformed_packet") ELSE f
  IN IF p.l4 \notin {1, 58} THEN f
     ELSE IF p.l4 = 1 /\ p.len > 8 /\ Has(p, "high entropy")
     THEN ndpi_set_risk(m, "suspicious_entropy") ELSE m

ndpi_guess_host_protocol_id(p) ==
  IF p.v6 THEN Unknown
  ELSE IF p.src \in DOMAIN GuessedByAddress THEN GuessedByAddress[p.src]
  ELSE IF p.dst \in DOMAIN GuessedByAddress THEN GuessedByAddress[p.dst] ELSE Unknown

\* Without custom protocols and categories a guess never ends the inspection.
ndpi_do_guess(p, f) ==
  [IcmpRisks(p, f) EXCEPT !.guessed = ndpi_guess_protocol_id(p, f),
                          !.guessedHost = ndpi_guess_host_protocol_id(p)]

-----------------------------------------------------------------------------
(* The dissectors, by the names of their functions.                        *)

Dissect(name, p, f) ==
  CASE name = "ndpi_search_http_tcp" -> ndpi_search_http_tcp(p, f)
    [] name = "ndpi_search_tls_wrapper" -> ndpi_search_tls_wrapper(p, f)
    [] name = "ndpi_search_rtp" -> ndpi_search_rtp(p, f)
    [] name = "ndpi_search_rtsp_tcp_udp" -> ndpi_search_rtsp_tcp_udp(p, f)
    [] name = "ndpi_search_rdp" -> ndpi_search_rdp(p, f)
    [] name = "ndpi_search_stun" -> ndpi_search_stun(p, f)
    [] name = "ndpi_search_sip" -> ndpi_search_sip(p, f)
    [] name = "ndpi_search_nats_tcp" -> ndpi_search_nats_tcp(p, f)
    [] name = "ndpi_search_socks" -> ndpi_search_socks(p, f)
    [] name = "ndpi_search_irc_tcp" -> ndpi_search_irc_tcp(p, f)
    [] name = "ndpi_search_mail_pop_tcp" -> ndpi_search_mail_pop_tcp(p, f)
    [] name = "ndpi_search_mail_imap_tcp" -> ndpi_search_mail_imap_tcp(p, f)
    [] name = "ndpi_search_mail_smtp_tcp" -> ndpi_search_mail_smtp_tcp(p, f)
    [] name = "ndpi_search_dns" -> ndpi_search_dns(p, f)
    [] name = "ndpi_search_in_non_tcp_udp" -> ndpi_search_in_non_tcp_udp(p, f)
    [] name = "ndpi_search_ssh_tcp" -> ndpi_search_ssh_tcp(p, f)
    [] name = "ndpi_search_vnc_tcp" -> ndpi_search_vnc_tcp(p, f)
    [] name = "ndpi_search_teamview" -> ndpi_search_teamview(p, f)
    [] name = "ndpi_search_dhcp_udp" -> ndpi_search_dhcp_udp(p, f)
    [] name = "ndpi_search_smb_tcp" -> ndpi_search_smb_tcp(p, f)
    [] name = "ndpi_search_telnet_tcp" -> ndpi_search_telnet_tcp(p, f)
    [] name = "ndpi_search_ntp_udp" -> ndpi_search_ntp_udp(p, f)
    [] name = "ndpi_search_nfs" -> ndpi_search_nfs(p, f)
    [] name = "ndpi_search_ssdp" -> ndpi_search_ssdp(p, f)
    [] name = "ndpi_search_postgres_tcp" -> ndpi_search_postgres_tcp(p, f)
    [] name = "ndpi_search_mysql_tcp" -> ndpi_search_mysql_tcp(p, f)
    [] name = "ndpi_search_snmp" -> ndpi_search_snmp(p, f)
    [] name = "ndpi_search_kerberos" -> ndpi_search_kerberos(p, f)
    [] name = "ndpi_search_syslog" -> ndpi_search_syslog(p, f)
    [] name = "ndpi_search_netbios" -> ndpi_search_netbios(p, f)
    [] name = "ndpi_search_ipp" -> ndpi_search_ipp(p, f)
    [] name = "ndpi_search_tftp" -> ndpi_search_tftp(p, f)
    [] name = "ndpi_search_pptp" -> ndpi_search_pptp(p, f)
    [] name = "ndpi_search_stealthnet" -> ndpi_search_stealthnet(p, f)
    [] name = "ndpi_search_dhcpv6_udp" -> ndpi_search_dhcpv6_udp(p, f)
    [] name = "ndpi_search_radius" -> ndpi_search_radius(p, f)
    [] name = "ndpi_search_netflow" -> ndpi_search_netflow(p, f)
    [] name = "ndpi_search_sflow" -> ndpi_search_sflow(p, f)
    [] name = "ndpi_search_openvpn" -> ndpi_search_openvpn(p, f)
    [] name = "ndpi_search_ciscovpn" -> ndpi_search_ciscovpn(p, f)
    [] name = "ndpi_search_rtcp" -> ndpi_search_rtcp(p, f)
    [] name = "ndpi_search_rtmp" -> ndpi_search_rtmp(p, f)
    [] name = "ndpi_search_ftp_control" -> ndpi_search_ftp_control(p, f)
    [] name = "ndpi_search_ftp_data" -> ndpi_search_ftp_data(p, f)
    [] name = "ndpi_search_redis" -> ndpi_search_redis(p, f)
    [] name = "ndpi_search_zmq" -> ndpi_search_zmq(p, f)
    [] name = "ndpi_search_quic" -> ndpi_search_quic(p, f)
    [] name = "ndpi_search_mqtt" -> ndpi_search_mqtt(p, f)
    [] name = "ndpi_search_rx" -> ndpi_search_rx(p, f)
    [] name = "ndpi_search_git" -> ndpi_search_git(p, f)
    [] name = "ndpi_search_tinc" -> ndpi_search_tinc(p, f)
    [] name = "ndpi_search_bittorrent" -> ndpi_search_bittorrent(p, f)
    [] name = "ndpi_search_wireguard" -> ndpi_search_wireguard(p, f)
    [] name = "ndpi_search_websocket" -> ndpi_search_websocket(p, f)
    [] name = "ndpi_search_dnscrypt" -> ndpi_search_dnscrypt(p, f)
    [] name = "ndpi_search_z3950" -> ndpi_search_z3950(p, f)

\* What a packet offers to the selection masks.
SelectionPacket(p) ==
  {"v4 or v6", IF p.v6 THEN "v6" ELSE "v4"}
  \cup (IF p.l4 = Tcp THEN {"tcp", "tcp or udp"} ELSE {})
  \cup (IF p.l4 = Udp THEN {"udp", "tcp or udp"} ELSE {})
  \cup (IF p.len # 0 THEN {"payload"} ELSE {})
  \cup (IF ~p.again THEN {"no retransmission"} ELSE {})

\* A callback is tried when its mask fits, the flow does not exclude it and nothing else was
\* detected before this packet.
Tried(c, p, f) ==
  c[3] \subseteq SelectionPacket(p) /\ c[1] \notin f.excl /\ Unknown \in detection_bitmask(c)

\* ndpi_check_flow_func: the list for the packet's transport.
ndpi_check_flow_func(p) ==
  CASE p.l4 = Tcp -> IF p.len # 0 THEN callback_buffer_tcp_payload ELSE callback_buffer_tcp_no_payload
    [] p.l4 = Udp -> callback_buffer_udp
    [] OTHER -> callback_buffer_non_tcp_udp

MaxSubprotocols == Len(ndpi_set_proto_subprotocols("HTTP"))

\* The guessed protocol's dissector first, then the list up to the first that detects, then
\* the detected protocol's subprotocols.  For a segment without payload the guessed dissector
\* is asked once more for its mask, in the slot that has the number of the protocol: for the two
\* that do without payload, TEAMVIEWER and TINC, that slot is empty with LANShield's protocols
\* and lets them pass.  A subprotocol that is not enabled has no function
\* and slot 0, HTTP's: HTTP's dissector runs once more for it, unless no function ran first.
check_ndpi_detection_func(p, f) ==
  LET guess == f.guessed \in DOMAIN CallbackOf /\ Tried(CallbackOf[f.guessed], p, f)
      first == IF guess THEN CallbackOf[f.guessed][2] ELSE ""
      none == IF p.l4 = Tcp /\ p.len = 0 THEN 1 ELSE 0
      start == IF guess THEN [f |-> Dissect(first, p, f), calls |-> none + 1]
               ELSE [f |-> f, calls |-> none]
      call(s, c) == [f |-> Dissect(c[2], p, s.f), calls |-> s.calls + 1]
      list == ndpi_check_flow_func(p)
      walk[i \in 0..Len(list)] ==
        IF i = 0 THEN start
        ELSE LET s == walk[i - 1]
             IN IF s.f.app = Unknown /\ first # list[i][2] /\ Tried(list[i], p, s.f)
                THEN call(s, list[i]) ELSE s
      listed == walk[Len(list)]
      \* done holds once a subprotocol is detected or there is none left.
      sub[i \in 0..MaxSubprotocols] ==
        IF i = 0 THEN listed @@ [done |-> FALSE]
        ELSE LET s == sub[i - 1]
                 subs == ndpi_set_proto_subprotocols(s.f.app)
                 has == subs[i] \in DOMAIN CallbackOf
                 slot == CallbackOf[IF has THEN subs[i] ELSE "HTTP"]
                 tried == first # (IF has THEN slot[2] ELSE "") /\ Tried(slot, p, s.f)
                 next == IF tried THEN call(s, slot) ELSE [f |-> s.f, calls |-> s.calls]
             IN IF s.done \/ i > Len(subs) THEN [s EXCEPT !.done = TRUE]
                ELSE next @@ [done |-> next.f.master # Unknown]
  IN sub[MaxSubprotocols]

-----------------------------------------------------------------------------
(* What is reported.                                                       *)

\* Skype on a host that does Teams is Teams; remote assistance and unsafe protocols mark the
\* flow.  The time of every packet is 0, so an entry of the cache is never too old.
ndpi_reconcile_protocols(f, ret) ==
  LET v4 == ~f.v6
      teams == /\ v4 /\ f.l4 = Udp /\ ret.app \in {"SKYPE_TEAMS", "SKYPE_CALL"}
               /\ CacheFind(f, "msteams", f.saddr)
      r == IF teams THEN [ret EXCEPT !.app = "MSTEAMS"] ELSE ret
      c == IF teams \/ (v4 /\ f.l4 = Tcp /\ ret.app = "MSTEAMS")
           THEN CacheAdd(f, "msteams", f.saddr, 0) ELSE f
      d == IF ret.app = "RDP" \/ (ret.app = "ANYDESK" /\ f.l4 = Tcp)
           THEN ndpi_set_risk(c, "desktop_or_file_sharing_session") ELSE c
  IN [f |-> IF r.app \in UnsafeProtocols THEN ndpi_set_risk(d, "unsafe_protocol") ELSE d, ret |-> r]

ndpi_search_into_zoom_cache(f, addr) == CacheFind(f, "zoom", addr)
ndpi_add_connection_as_zoom(f, addr) == CacheAdd(f, "zoom", addr, "ZOOM")

Answer(f) == [app |-> f.app, master |-> f.master]

\* The flow's endpoints, as its last packet had them.
Endpoints(f) == [src |-> f.saddr, dst |-> f.daddr, sport |-> f.sport, dport |-> f.dport]

\* A guess that a dissector has since ruled out is dropped.
Forget(f) ==
  [f EXCEPT !.guessedHost = IF RuledOut(f, @) THEN Unknown ELSE @,
            !.guessed = IF RuledOut(f, @) THEN Unknown ELSE @]

\* The address's protocol over the port's; a host name seen in the flow counts for more
\* than its address.
Guesses(f) ==
  LET t == IF f.guessed = Unknown /\ f.l4 = Tcp /\ V(f, "hello_processed") = 1
           THEN [f EXCEPT !.guessed = "TLS"] ELSE f
      k == Forget(t)
      stun == /\ k.guessed = Unknown /\ V(k, "num_binding_requests") > 0
              /\ V(k, "stun_processed") > 0
      conf == IF stun THEN "dpi" ELSE IF k.guessedHost # Unknown THEN "match_by_ip" ELSE "match_by_port"
      named == k.host # "" /\ ndpi_automa_match_string_subprotocol(k, k.host) # Unknown
      m == IF named THEN ndpi_match_host_subprotocol(k, k.host, "DNS") ELSE k
      host == IF named THEN ndpi_automa_match_string_subprotocol(k, k.host) ELSE k.guessedHost
  IN IF k.guessed = Unknown /\ k.guessedHost = Unknown THEN k
     ELSE ndpi_set_detected_protocol(m, host, IF stun THEN "STUN" ELSE k.guessed, conf)

VoipGuesses == {"HANGOUT_DUO", "FACEBOOK_VOIP", "SIGNAL_VOIP", "WHATSAPP_CALL"}

\* The protocol a flow is given that no dissector has detected.
GuessedFlow(f, enable_guess) ==
  IF f.guessed = "STUN" THEN ndpi_set_detected_protocol(f, f.guessedHost, "STUN", "dpi")
  ELSE IF f.guessed \in VoipGuesses THEN FoundOnly(f, f.guessed)
  ELSE IF V(f, "hello_processed") = 1 /\ f.host # "" THEN FoundOnly(f, "TLS")
  ELSE IF enable_guess THEN Guesses(f) ELSE f

\* STUN to Facebook or Google is a call.
StunApp(ret) ==
  IF ret.master # "STUN" THEN ret.app
  ELSE IF ret.app = "FACEBOOK" THEN "FACEBOOK_VOIP"
  ELSE IF ret.app = "GOOGLE" THEN "HANGOUT_DUO" ELSE ret.app

\* The application a cache knows the endpoints for.
CachedApp(f) ==
  CASE ndpi_search_into_bittorrent_cache(Endpoints(f), f) -> "BITTORRENT"
    [] /\ ~ndpi_search_into_bittorrent_cache(Endpoints(f), f) /\ f.l4 = Udp
       /\ \/ f.sport = 8801 /\ ndpi_search_into_zoom_cache(f, f.saddr)
          \/ f.dport = 8801 /\ ndpi_search_into_zoom_cache(f, f.daddr) -> "ZOOM"
    [] OTHER -> Unknown

ndpi_detection_giveup(f, enable_guess) ==
  LET mined == ~f.v6 /\ CacheFind(f, "mining", f.saddr + f.daddr)
      m == ndpi_set_detected_protocol(f, CacheValue(f, "mining", f.saddr + f.daddr), Unknown, "dpi_cache")
      g == GuessedFlow(f, enable_guess)
      ret == [Answer(g) EXCEPT !.app = StunApp(Answer(g))]
      nothing == ret.master = Unknown /\ ret.app = Unknown
      app == IF nothing THEN CachedApp(g) ELSE ret.app
      looked == IF nothing THEN BittorrentLooked(g) ELSE g
      h == IF nothing /\ app # Unknown THEN [looked EXCEPT !.confidence = "dpi_cache"] ELSE looked
      r == ndpi_reconcile_protocols(h, [ret EXCEPT !.app = app])
  IN IF f.app # Unknown THEN [f |-> f, ret |-> Answer(f), guessed |-> FALSE]
     ELSE IF mined THEN [f |-> m, ret |-> Answer(m), guessed |-> FALSE]
     ELSE IF app = Unknown THEN [f |-> h, ret |-> ret, guessed |-> FALSE]
     ELSE [f |-> r.f, ret |-> r.ret, guessed |-> TRUE]

-----------------------------------------------------------------------------
(* One packet.                                                             *)

\* A detected flow's further packets go to the function that asked for them, which answers
\* through more whether it wants others.
ExtraFunc(name, p, f) ==
  CASE name = "kerberos" -> ndpi_search_kerberos_extra(p, f)
    [] name = "telnet" -> search_telnet_again(p, f)
    [] name = "ssh" -> search_ssh_again(p, f)
    [] name = "dns" -> search_dns_again(p, f)
    [] name = "pop" -> ndpi_extra_search_mail_pop_tcp(p, f)
    [] name = "smtp" -> ndpi_extra_search_mail_smtp_tcp(p, f)
    [] name = "http" -> ndpi_search_http_tcp_again(p, f)
    [] name = "tls_tcp" -> ndpi_search_tls_tcp(p, f)
    [] name = "tls_udp" -> DtlsExtra(p, f)
    [] name = "quic" -> ndpi_search_quic_extra(p, f)
    [] name = "bittorrent" -> search_bittorrent_again(p, f)

\* The function is dropped after the number of packets it asked for; the flow goes on
\* taking its packets as extra ones.
ndpi_process_extra_packet(p, f) ==
  LET i == ndpi_init_packet(p, f)
      t == ndpi_connection_tracking(p, i)
      g == ExtraFunc(t.moreFunc, Tracked(p, i), t)
      n == [g EXCEPT !.moreDone = @ + 1]
  IN IF ~ndpi_detection_get_l4_internal(p) THEN f
     ELSE IF t.moreFunc = "" THEN t
     ELSE IF n.moreDone = n.moreMax THEN NoFunc(n) ELSE n

ndpi_is_ntop_protocol(ret) == ret.master = "HTTP" /\ ret.app = "NTOP"

ndpi_check_protocol_port_mismatch_exceptions(expected, ret) ==
  \/ ndpi_is_ntop_protocol(ret)
  \/ ret.master = "TLS" /\ expected \in {"MAIL_IMAPS", "MAIL_POPS", "MAIL_SMTPS"}

\* A port that belongs to another protocol, or a protocol away from its ports.
PortRisk(p, f, ret) ==
  LET found == ndpi_get_guessed_protocol_id(p.l4, p.sport, p.dport)
      lower == IF ret.master # Unknown THEN ret.master ELSE ret.app
      ports == ndpi_set_proto_defaults(p.l4, lower)
      strange == /\ found \notin {Unknown, ret.master, ret.app}
                 /\ ~ndpi_check_protocol_port_mismatch_exceptions(found, ret)
                 /\ p.dport \notin ports
      away == /\ found \in {Unknown, ret.master, ret.app}
              /\ ~ndpi_is_ntop_protocol(ret) /\ ports # {}
              /\ ~PortIn(p, ports \cup ndpi_set_proto_defaults(p.l4, ret.app))
  IN IF p.l4 \in {Tcp, Udp} /\ (strange \/ away)
     THEN ndpi_set_risk(f, "known_protocol_on_non_standard_port") ELSE f

\* What is returned for a flow: a TCP flow whose first packet is not a SYN and that nothing
\* matches is given up at once; risks are checked once, when there is a protocol; a flow no
\* dissector was tried on is not looked at again.
Returned(p, f, calls) ==
  LET ret == [Answer(f) EXCEPT !.master = IF @ = f.app THEN Unknown ELSE @]
      hopeless == /\ f.processed = 1 /\ ret.app = Unknown /\ ret.master = Unknown
                  /\ p.l4 = Tcp /\ ~p.syn /\ f.guessed = Unknown
      u == IF hopeless THEN ndpi_detection_giveup(f, FALSE) ELSE [f |-> f, ret |-> ret]
      known == u.ret.app # Unknown \/ u.ret.master # Unknown
      k == IF ~u.f.riskChecked /\ known
           THEN [PortRisk(p, u.f, u.ret) EXCEPT !.riskChecked = TRUE] ELSE u.f
      r == ndpi_reconcile_protocols(k, u.ret)
      g == IF calls = 0 THEN [r.f EXCEPT !.failed = TRUE] ELSE r.f
  IN [f |-> IF r.ret.app = "ZOOM" /\ g.l4 = Tcp /\ ~p.v6
            THEN ndpi_add_connection_as_zoom(g, p.dst) ELSE g,
      ret |-> r.ret]

\* The first packet of a flow is guessed, every packet of an unknown flow inspected.
Inspect(p, f) ==
  LET i == ndpi_init_packet(p, f)
      q == Tracked(p, i)
      t == ndpi_connection_tracking(p, i)
      g == IF t.guessedOnce THEN t ELSE [ndpi_do_guess(q, t) EXCEPT !.guessedOnce = TRUE]
      c == check_ndpi_detection_func(q, g)
  IN Returned(q, c.f, c.calls)

ndpi_detection_process_packet(p, f) ==
  LET n == [f EXCEPT !.processed = (@ + 1) % 65536]
      x == ndpi_process_extra_packet(p, n)
  IN IF f.failed THEN [f |-> f, ret |-> Answer(f)]
     ELSE IF n.processed > NDPI_MAX_NUM_PKTS_PER_FLOW_TO_DISSECT
     THEN [f |-> n, ret |-> Answer(n)]
     ELSE IF f.more THEN [f |-> x, ret |-> Answer(x)]
     ELSE IF ~ndpi_detection_get_l4_internal(p) THEN [f |-> n, ret |-> Answer(n)]
     ELSE IF f.app # Unknown THEN Returned(p, ndpi_init_packet(p, n), 0)
     ELSE Inspect(p, n)
=============================================================================
