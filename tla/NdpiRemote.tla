----------------------------- MODULE NdpiRemote -----------------------------
(***************************************************************************)
(* Dissectors of remote access: terminals, desktops, tunnels and proxies.  *)
(***************************************************************************)
EXTENDS NdpiFlow, FiniteSetsExt

DesktopRisk == "desktop_or_file_sharing_session"

ndpi_search_pptp(p, f) ==
  IF /\ p.len >= 10 /\ U16(p, 0) = p.len /\ U16(p, 2) = 1
     /\ U32(p, 4) = <<6699, 15437>> /\ U16(p, 8) = 1               \* 0x1a2b3c4d
  THEN FoundOnly(f, "PPTP") ELSE Excl(f, "PPTP")

-----------------------------------------------------------------------------
(* RDP over UDP: two packets of each side that begin with the same three   *)
(* bytes.                                                                  *)

RdpFound(f) == ndpi_set_risk(FoundOnly(f, "RDP"), DesktopRisk)

RdpUdp(p, f) ==
  LET mine == IF p.sport = 3389 THEN "rdp_from_srv" ELSE "rdp_to_srv"
      count == IF p.sport = 3389 THEN "rdp_from_srv_pkts" ELSE "rdp_to_srv_pkts"
      other == IF p.sport = 3389 THEN "rdp_to_srv_pkts" ELSE "rdp_from_srv_pkts"
  IN IF V(f, count) = 0 THEN Put(Put(f, mine, Bytes(p, 0, 3)), count, 1)
     ELSE IF f.v[mine] # Bytes(p, 0, 3) THEN Excl(f, "RDP")
     ELSE IF V(f, other) = 2 THEN RdpFound(Put(f, count, 2)) ELSE Put(f, count, 2)

ndpi_search_rdp(p, f) ==
  IF IsTcp(p)
  THEN IF /\ p.len > 10 /\ U8(p, 0) \in 1..3 /\ U16(p, 2) = p.len
          /\ U8(p, 4) = p.len - 5 /\ U8(p, 5) = 224
          /\ U32(p, 6) = Zero32 /\ U8(p, 10) = 0
       THEN RdpFound(f) ELSE Excl(f, "RDP")
  ELSE IF IsUdp(p) /\ p.len >= 10 /\ Port(p, 3389) THEN RdpUdp(p, f)
  ELSE IF IsUdp(p) THEN Excl(f, "RDP") ELSE f

(* TeamViewer: its networks, or four of its packets; one packet is enough  *)
(* on port 5938.                                                           *)
ndpi_search_teamview(p, f) ==
  LET g == Inc(f, "teamviewer_stage")
      four == V(g, "teamviewer_stage") = 4
  IN IF Touches(p, "teamviewer") THEN FoundOnly(f, "TEAMVIEWER")
     ELSE IF p.len = 0 THEN f
     ELSE IF IsUdp(p) /\ p.len > 13 /\ U8(p, 0) = 0 /\ U16(p, 11) = 5924   \* 17 24
     THEN IF four \/ Port(p, 5938)
          THEN ndpi_set_risk(FoundOnly(g, "TEAMVIEWER"), DesktopRisk) ELSE g
     ELSE IF IsTcp(p) /\ p.len > 2 /\ U16(p, 0) = 5924
     THEN IF four \/ Port(p, 5938) THEN FoundOnly(g, "TEAMVIEWER") ELSE g
     ELSE IF IsTcp(p) /\ p.len > 2 /\ V(f, "teamviewer_stage") # 0
     THEN IF U16(p, 0) # 4400 THEN f                                        \* 11 30
          ELSE IF four THEN ndpi_set_risk(FoundOnly(g, "TEAMVIEWER"), DesktopRisk) ELSE g
     ELSE Excl(f, "TEAMVIEWER")

(* VNC: both sides announce their version.                                 *)
ndpi_search_vnc_tcp(p, f) ==
  LET version == IsTcp(p) /\ p.len = 12 /\ BeginsAny(p, {"RFB 003", "RFB 004"}) /\ U8(p, 11) = 10
  IN IF version /\ V(f, "vnc_stage") = 0 THEN Put(f, "vnc_stage", 1 + p.dir)
     ELSE IF version /\ V(f, "vnc_stage") = 2 - p.dir
     THEN ndpi_set_risk(FoundOnly(f, "VNC"), DesktopRisk)
     ELSE Excl(f, "VNC")

-----------------------------------------------------------------------------
(* Telnet: three packets of option negotiation; then the login dialogue is *)
(* followed for up to 64 packets.                                          *)

\* The payload begins with an option command, and every later 0xFF begins a command.
search_iac(p) ==
  /\ p.len >= 3 /\ U8(p, 0) = 255 /\ U8(p, 1) \in 250..254 /\ U8(p, 2) < 40
  /\ \A a \in 3..(p.len - 3) :
        U8(p, a) = 255 => \/ U8(p, a + 1) \in 240..250
                          \/ U8(p, a + 1) \in 251..254 /\ U8(p, a + 2) <= 40

ndpi_int_telnet_add_connection(f) ==
  FoundOnly(FollowUp([f EXCEPT !.guessed = "TELNET", !.guessedHost = "TELNET"], 64, "telnet"),
            "TELNET")

ndpi_search_telnet_tcp(p, f) ==
  IF search_iac(p)
  THEN IF V(f, "telnet_stage") = 2 THEN ndpi_int_telnet_add_connection(f)
       ELSE Inc(f, "telnet_stage")
  ELSE IF f.packets < 6 \/ (f.packets < 12 /\ V(f, "telnet_stage") > 0) THEN f
  ELSE Excl(f, "TELNET")

\* The prompts and the carriage returns that end the user name and the password.
search_telnet_again(p, f) ==
  LET user == V(f, "username_detected") = 1
      prompt == IF user THEN "password_found" ELSE "username_found"
      asked == V(f, prompt) = 1
      long == p.len > IF user THEN 9 ELSE 6
      return == U8(p, 0) = 13
      clear == ndpi_set_risk(f, "clear_text_credentials")
  IN IF p.len = 0 \/ U8(p, 0) = 255 THEN f
     ELSE IF ~asked /\ long
     THEN IF Begins(p, IF user THEN "password:" ELSE "login:") THEN Put(f, prompt, 1) ELSE f
     ELSE IF user /\ return /\ asked THEN NoMore(Put(clear, "password_detected", 1))
     ELSE IF ~user /\ return THEN Put(clear, "username_detected", 1)
     ELSE f

-----------------------------------------------------------------------------
(* SSH.                                                                    *)

\* The first releases that are not obsolete.
SshCurrent ==
  [OpenSSH |-> <<7, 0, 0>>, ApacheSSHD |-> <<2, 5, 1>>, FileZilla |-> <<3, 40, 0>>,
   paramiko |-> <<2, 4, 0>>, dropbear |-> <<2020, 0, 0>>]

Older(x, y) == \E i \in 1..3 : x[i] < y[i] /\ \A j \in 1..(i - 1) : x[j] = y[j]

SshObsolete(client) ==
  IF client THEN "ssh_obsolete_client" ELSE "ssh_obsolete_server"

ssh_analyze_signature_version(p, f, client) ==
  IF /\ HasLine(p, "software") /\ p.h["software"] \in DOMAIN SshCurrent
     /\ Older(p.h["version"], SshCurrent[p.h["software"]])
  THEN ndpi_set_risk(f, SshObsolete(client)) ELSE f

ObsoleteCiphers ==
  {"arcfour256", "arcfour128", "3des-cbc", "blowfish-cbc", "cast128-cbc", "arcfour"}

ssh_analyse_cipher(p, f, client) ==
  IF p.h["ciphers"] \cap ObsoleteCiphers # {} THEN ndpi_set_risk(f, SshObsolete(client)) ELSE f

\* The name lists of a key exchange: a list that is taken must lie in the payload, the
\* others only have to leave room for the next.  The ciphers are list 3 of a client and
\* list 4 of a server; they are looked at even if a later list does not fit.
concat_hash_string(p, f, client) ==
  LET length(o) == Num32(U32(p, o))
      at[k \in 1..8] == IF k = 1 THEN 22 ELSE at[k - 1] + 4 + length(at[k - 1])
      taken(k) == k \in IF client THEN {1, 3, 5, 7} ELSE {1, 4, 6, 8}
      ok[k \in 0..8] ==
        \/ k = 0
        \/ /\ ok[k - 1] /\ at[k] < p.len - 4
           /\ taken(k) => at[k] + 4 < p.len /\ length(at[k]) < p.len - (at[k] + 4) - 1
           /\ length(at[k]) <= 65565
  IN IF ok[IF client THEN 3 ELSE 4] THEN ssh_analyse_cipher(p, f, client) ELSE f

ndpi_int_ssh_add_connection(f) ==
  IF f.moreFunc # "" THEN f
  ELSE FoundOnly(FollowUp([f EXCEPT !.guessed = "SSH", !.guessedHost = "SSH"], 12, "ssh"), "SSH")

SshHashed(f) == V(f, "hassh_client") = 1 /\ V(f, "hassh_server") = 1

\* A key exchange (message 20) sets the hash of its side, whether its lists fit or not.
SshKeyExchange(p, f) ==
  LET client == p.dir = 0
      g == Put(concat_hash_string(p, f, client),
               IF client THEN "hassh_client" ELSE "hassh_server", 1)
      h == IF U8(p, 5) = 20 THEN ndpi_int_ssh_add_connection(g) ELSE f
  IN IF SshHashed(h) THEN NoFunc(h) ELSE h

ndpi_search_ssh_tcp(p, f) ==
  LET stage == V(f, "ssh_stage")
      banner == p.len > 7 /\ Begins(p, "SSH-")
  IN IF stage = 0 /\ banner
     THEN ndpi_int_ssh_add_connection(
            Put(ssh_analyze_signature_version(p, f, TRUE), "ssh_stage", 1 + p.dir))
     ELSE IF stage = 2 - p.dir /\ banner /\ p.len < 500
     THEN [Put(ssh_analyze_signature_version(p, f, FALSE), "ssh_stage", 3)
             EXCEPT !.guessed = "SSH", !.guessedHost = "SSH"]
     ELSE IF stage \notin {0, 2 - p.dir} /\ p.len > 5 THEN SshKeyExchange(p, f)
     ELSE Excl(f, "SSH")

search_ssh_again(p, f) ==
  LET g == ndpi_search_ssh_tcp(p, f)
  IN IF SshHashed(g) THEN NoMore(NoFunc(g)) ELSE g

-----------------------------------------------------------------------------
(* OpenVPN: a hard reset of the client, then one of the server that        *)
(* repeats its session id; or, as the first packet over UDP, one of the    *)
(* sizes and opcodes known to carry it.                                    *)

get_packet_id(p, o, hmac) == U32(p, o + 9 + hmac)

\* The size of the HMAC before a packet id of 1; 0 when there is none.
check_pkid_and_detect_hmac_size(p, o) ==
  IF get_packet_id(p, o, 20) = <<0, 1>> THEN 20
  ELSE IF get_packet_id(p, o, 16) = <<0, 1>> THEN 16 ELSE 0

\* The server's packet carries the session id after the packet ids it acknowledges.
OvpnRepeatsSession(p, f, o) ==
  LET hmac == check_pkid_and_detect_hmac_size(p, o)
      acks == U8(p, o + 17 + hmac)
      at == o + 18 + hmac + 4 * acks
  IN /\ hmac > 0 /\ acks > 0 /\ at + 8 <= p.len
     /\ Bytes(p, at, 8) = W(f, "ovpn_session_id", <<0, 0, 0, 0, 0, 0, 0, 0>>)

OvpnPacket(p, f) ==
  LET o == IF IsTcp(p) THEN 2 ELSE 0
      opcode == U8(p, o) \div 8
      n == V(f, "ovpn_counter")
  IN IF /\ IsUdp(p) /\ f.processed = 1
        /\ \/ p.len = 112 /\ opcode \in {21, 24}
           \/ p.len = 80 /\ opcode \in {11, 20, 21, 23, 25}
     THEN FoundOnly(f, "OPENVPN")
     ELSE IF n < 5 /\ opcode \in {1, 7}
     THEN Inc(IF check_pkid_and_detect_hmac_size(p, o) > 0
              THEN Put(f, "ovpn_session_id", Bytes(p, o + 1, 8)) ELSE f, "ovpn_counter")
     ELSE IF n \in 1..5 /\ opcode \in {2, 8} /\ OvpnRepeatsSession(p, f, o)
     THEN FoundOnly(f, "OPENVPN")
     ELSE Excl(Inc(f, "ovpn_counter"), "OPENVPN")

ndpi_search_openvpn(p, f) ==
  LET g == IF p.len >= 40 THEN OvpnPacket(p, f) ELSE f
  IN IF g.app = Unknown /\ g.packets > 5 THEN Excl(g, "OPENVPN") ELSE g

(* WireGuard: an initiation and an answer that names its sender index, or  *)
(* three data packets, the third to the receiver of the first from there.  *)
ndpi_search_wireguard(p, f) ==
  LET type == U8(p, 0)
      stage == V(f, "wireguard_stage")
      index == <<"wireguard_peer_index 0", "wireguard_peer_index 1">>
      mine == index[1 + p.dir]
      Answer(o) == IF stage # 2 - p.dir THEN f
                   ELSE IF L32(p, o) = W(f, index[2 - p.dir], Zero32)
                   THEN FoundOnly(f, "WIREGUARD") ELSE Excl(f, "WIREGUARD")
      g == IF f.guessedHost = Unknown THEN [f EXCEPT !.guessedHost = "WIREGUARD"] ELSE f
      Keep(h, s) == Put(Put(h, "wireguard_stage", s), mine, L32(p, 4))
  IN IF p.len < 32 \/ U24(p, 1) # 0 THEN Excl(f, "WIREGUARD")
     ELSE IF type = 1 /\ p.len = 148 THEN Keep(f, 1 + p.dir)
     ELSE IF type = 2 /\ p.len = 92 THEN Answer(8)
     ELSE IF type = 3 /\ p.len = 64 THEN Answer(4)
     ELSE IF type # 4 THEN Excl(f, "WIREGUARD")
     ELSE IF stage = 0 THEN Keep(g, 3 + p.dir)
     ELSE IF stage = 4 - p.dir THEN Keep(g, 5)
     ELSE IF stage # 5 THEN g
     ELSE IF L32(p, 4) = W(f, mine, Zero32) THEN FoundOnly(g, "WIREGUARD")
     ELSE Excl(g, "WIREGUARD")

(* tinc: the meta connection over TCP ends in the cache of endpoints, in   *)
(* which the UDP packets are then looked up, once.  A UDP packet excludes  *)
(* tinc from its flow even when it is found.                               *)
TincEndpoints(p) == {<<p.src, p.dst, p.dport>>, <<p.dst, p.src, p.sport>>}

TincTcp(p, f) ==
  LET state == V(f, "tinc_state")
      entry == W(f, "tinc_cache_entry", <<0, 0, 0>>)
  IN IF p.len = 0
     THEN IF p.syn /\ ~p.ack
          THEN Put(f, "tinc_cache_entry", <<p.src, p.dst, p.dport>>) ELSE f
     ELSE IF state \in {0, 1} /\ p.len > 6 /\ Begins(p, "0 name 17\n") THEN Inc(f, "tinc_state")
     ELSE IF state \in {2, 3} /\ p.len > 11 /\ Begins(p, "1 number number number number key\n")
     THEN IF state = 3
          THEN FoundOnly([Inc(f, "tinc_state") EXCEPT !.caches.tinc = @ \cup {entry}], "TINC")
          ELSE Inc(f, "tinc_state")
     ELSE Excl(f, "TINC")

ndpi_check_tinc(p, f) ==
  IF IsUdp(p)
  THEN LET known == TincEndpoints(p) \cap f.caches.tinc # {}
           g == [f EXCEPT !.caches.tinc = @ \ TincEndpoints(p)]
       IN Excl(IF known THEN ndpi_set_detected_protocol(g, "TINC", Unknown, "dpi_cache")
               ELSE f, "TINC")
  ELSE TincTcp(p, f)

ndpi_search_tinc(p, f) == IF f.app # "TINC" THEN ndpi_check_tinc(p, f) ELSE f

ndpi_search_ciscovpn(p, f) ==
  IF \/ IsTcp(p) /\ Ports(p, {10000})
     \/ IsTcp(p) /\ Port(p, 443) /\ p.len >= 4 /\ Bytes(p, 0, 4) = <<23, 1, 0, 0>>
     \/ IsTcp(p) /\ PortIn(p, {8008, 8009}) /\ p.len >= 5 /\ Bytes(p, 0, 5) = <<23, 3, 3, 0, 105>>
     \/ IsUdp(p) /\ Port(p, 443) /\ p.len >= 5 /\ Bytes(p, 0, 5) = <<23, 1, 0, 0, 1>>
  THEN FoundOnly(f, "CISCOVPN")
  ELSE LET g == IF /\ IsUdp(p) /\ Ports(p, {10000}) /\ p.len >= 4
                   /\ Bytes(p, 0, 4) = <<254, 87, 126, 43>>
                THEN FoundOnly(f, "CISCOVPN") ELSE f
       IN IF g.processed > 5 THEN Excl(g, "CISCOVPN") ELSE g

-----------------------------------------------------------------------------
(* SOCKS: a request of one side (stage 1 + direction) and the answer of    *)
(* the other; any other answer starts over.                                *)

SocksStep(p, f, stage, request, answer) ==
  IF f.packets > 20 THEN Excl(f, "SOCKS")
  ELSE IF V(f, stage) = 0 THEN IF request THEN Put(f, stage, p.dir + 1) ELSE f
  ELSE IF V(f, stage) - p.dir = 1 THEN f
  ELSE IF answer THEN FoundOnly(f, "SOCKS") ELSE Put(f, stage, 0)

ndpi_check_socks4(p, f) ==
  SocksStep(p, f, "socks4_stage",
            p.len >= 9 /\ U8(p, 0) = 4 /\ U8(p, 1) \in {1, 2} /\ LastByte(p) = 0,
            p.len = 8 /\ U8(p, 0) = 0 /\ U8(p, 1) \in 90..93)

ndpi_check_socks5(p, f) ==
  SocksStep(p, f, "socks5_stage",
            p.len = 3 /\ Bytes(p, 0, 3) = <<5, 1, 0>>,
            p.len = 0 \/ (p.len = 2 /\ U16(p, 0) = 1280))

ndpi_search_socks(p, f) ==
  LET g == ndpi_check_socks4(p, f)
  IN IF f.app = "SOCKS" THEN f
     ELSE IF g.app = "SOCKS" THEN g ELSE ndpi_check_socks5(p, g)

(* TFTP: a request with a transfer mode, or four packets that look right.  *)
ndpi_search_tftp(p, f) ==
  LET op == U8(p, 1)
      mode == \/ p.len >= 9 /\ At(p, p.len - 9, "netascii")
              \/ p.len >= 6 /\ At(p, p.len - 6, "octet")
              \/ p.len >= 5 /\ At(p, p.len - 5, "mail")
  IN IF p.len < 4 \/ U8(p, 0) # 0 THEN Excl(f, "TFTP")
     ELSE IF op \in {1, 2}
     THEN IF LastByte(p) = 0 /\ mode THEN FoundOnly(f, "TFTP") ELSE Excl(f, "TFTP")
     ELSE IF ~(\/ op = 3 /\ p.len <= 516
               \/ op = 4 /\ p.len = 4
               \/ /\ op = 5 /\ p.len >= 5 /\ LastByte(p) = 0
                  /\ U8(p, 2) = 0 /\ U8(p, 3) <= 7)
     THEN Excl(f, "TFTP")
     ELSE IF V(f, "tftp_stage") < 3 THEN Inc(f, "tftp_stage") ELSE FoundOnly(f, "TFTP")
=============================================================================
