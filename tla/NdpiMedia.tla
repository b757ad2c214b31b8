------------------------------ MODULE NdpiMedia ------------------------------
(***************************************************************************)
(* Dissectors of streaming, telephony and call signalling.                 *)
(***************************************************************************)
EXTENDS NdpiFlow, FiniteSetsExt

-----------------------------------------------------------------------------
(* RTCP: the sections, of (length + 1) * 4 bytes each, fill the packet.     *)
(* Past three packets the flow is excluded even if it has just been found. *)

RtcpSections(p) ==
  LET walk[i \in 0..p.len] ==
        \/ i + 3 >= p.len
        \/ LET size == ((U16(p, i + 2) + 1) * 4) % 65536
           IN /\ i + size <= p.len /\ size # 0 /\ U16(p, i + 2) # 0
              /\ walk[i + size]
  IN walk[0]

ndpi_search_rtcp(p, f) ==
  LET report == U8(p, 1) \in {200, 201} /\ U8(p, 2) = 0
      found == \/ p.len \in 28..1200 /\ U8(p, 0) = 128 /\ report
               \/ p.len >= 3 /\ U8(p, 0) = 129 /\ report
      g == IF found THEN FoundOnly(f, "RTCP") ELSE f
  IN IF IsTcp(p)
     THEN IF p.len > 13 /\ Port(p, 554) /\ Bytes(p, 0, 8) = <<0, 0, 1, 1, 8, 10, 0, 1>>
          THEN FoundOnly(f, "RTCP") ELSE f
     ELSE IF ~(IsUdp(p) /\ RtcpSections(p)) THEN Excl(f, "RTCP")
     ELSE IF g.packets > 3 THEN Excl(g, "RTCP") ELSE g

\* Faulty variant: the answer may come from the side that asked.
RtmpOneSided(p, f) ==
  LET stage == V(f, "rtmp_stage")
  IN IF f.packets > 20 THEN Excl(f, "RTMP")
     ELSE IF stage = 0
     THEN IF p.len >= 4 /\ U8(p, 0) \in {3, 6} THEN Put(f, "rtmp_stage", p.dir + 1)
          ELSE Excl(f, "RTMP")
     ELSE IF p.len >= 4 /\ U8(p, 0) \in {3, 6, 8, 9, 10} THEN FoundOnly(f, "RTMP")
     ELSE Put(f, "rtmp_stage", 0)

(* RTMP: a chunk of one side and one of the other.                         *)
ndpi_check_rtmp(p, f) ==
  LET stage == V(f, "rtmp_stage")
  IN IF f.packets > 20 THEN Excl(f, "RTMP")
     ELSE IF stage = 0
     THEN IF p.len >= 4 /\ U8(p, 0) \in {3, 6} THEN Put(f, "rtmp_stage", p.dir + 1)
          ELSE Excl(f, "RTMP")
     ELSE IF stage - p.dir = 1 THEN f
     ELSE IF p.len >= 4 /\ U8(p, 0) \in {3, 6, 8, 9, 10} THEN FoundOnly(f, "RTMP")
     ELSE Put(f, "rtmp_stage", 0)

ndpi_search_rtmp(p, f) == IF f.app # "RTMP" THEN ndpi_check_rtmp(p, f) ELSE f

(* RTSP: a request line, or the answer to a first packet of the other      *)
(* side.  Over UDP it is kept in play as long as RTP or RTCP is.           *)
ndpi_search_rtsp_tcp_udp(p, f) ==
  LET stage == V(f, "rtsprdt_stage")
  IN IF Has(p, "first line ends RTSP/1.0") THEN FoundOnly(f, "RTSP")
     ELSE IF stage = 0 /\ f.app # "RTCP" THEN Put(f, "rtsprdt_stage", 1 + p.dir)
     ELSE IF f.packets < 3 /\ stage = 1 + p.dir THEN f
     ELSE IF p.len > 20 /\ stage = 2 - p.dir /\ BeginsAny(p, {"RTSP/1.0 ", "rtsp://"})
     THEN FoundOnly(f, "RTSP")
     ELSE IF IsUdp(p) /\ f.app = Unknown /\ ~({"RTP", "RTCP"} \subseteq f.excl) THEN f
     ELSE Excl(f, "RTSP")

-----------------------------------------------------------------------------
(* RTP.                                                                    *)

MSRTPTypes == {0, 3, 4, 8, 9, 13, 34, 96, 97, 101, 103, 104, 111, 112} \cup (114..118)
              \cup {121, 122, 123, 127}

\* 1 for media, 2 for control, 0 for anything else.
isValidMSRTPType(type) ==
  IF type \in MSRTPTypes THEN 1 ELSE IF type \in 200..203 THEN 2 ELSE 0

ndpi_rtp_search(p, f) ==
  LET media == p.len >= 12 /\ U8(p, 0) \in {128, 160}
  IN IF p.len < 2 \/ p.dport \in {5353, 5355} \/ V(f, "num_binding_requests") # 0
     THEN Excl(f, "RTP")
     ELSE IF media /\ (U8(p, 1) % 128) \in (0..34) \cup (96..127) THEN FoundOnly(f, "RTP")
     ELSE IF media /\ isValidMSRTPType(U8(p, 1)) = 1 THEN FoundOnly(f, "SKYPE_TEAMS")
     ELSE Excl(f, "RTP")

ndpi_search_rtp(p, f) ==
  IF IsUdp(p) /\ ~Port(p, 30303) /\ p.dport > 1023 THEN ndpi_rtp_search(p, f)
  ELSE Excl(f, "RTP")

-----------------------------------------------------------------------------
(* SIP: a method and a SIP address, or a status line, possibly behind four *)
(* bytes with the length.                                                  *)

SipMethods ==
  {"NOTIFY sip:", "REGISTER sip:", "INVITE sip:", "SIP/2.0 ", "BYE sip:", "ACK sip:",
   "CANCEL sip:", "PUBLISH sip:", "SUBSCRIBE sip:", "MESSAGE sip:", "OPTIONS sip:",
   "REFER sip:", "PRACK sip:"}

ndpi_search_sip_handshake(p, f) ==
  LET o == IF p.len > 4 /\ p.len - 4 = U16(p, 2) THEN 4 ELSE 0
  IN IF p.len - o >= 14 /\ \E m \in SipMethods : At(p, o, m) THEN FoundOnly(f, "SIP")
     ELSE IF \/ IsUdp(p) /\ f.packets < 20
             \/ IsUdp(p) /\ f.app = "STUN" /\ f.packets < 40
             \/ p.len - o = 4 /\ U32(p, o) = Zero32
     THEN f ELSE Excl(f, "SIP")

ndpi_search_sip(p, f) ==
  IF f.packets > 5 THEN Excl(f, "SIP")
  ELSE IF f.app # "SIP" THEN ndpi_search_sip_handshake(p, f) ELSE f

-----------------------------------------------------------------------------
(* STUN.  The calls that use it are told apart by attributes, networks and *)
(* the cache of the endpoints seen earlier.  A check gives <<is STUN, f>>. *)

MAX_NUM_STUN_PKTS == 3
VoipCalls == {"HANGOUT_DUO", "FACEBOOK_VOIP", "SIGNAL_VOIP", "WHATSAPP_CALL"}

get_stun_lru_key(p, rev) == IF rev THEN p.dst + p.dport ELSE p.src + p.sport

\* What the cache knows of one end of the packet: its source first.
StunCached(p, f) ==
  LET known == {r \in BOOLEAN : CacheFind(f, "stun", get_stun_lru_key(p, r))}
  IN IF FALSE \in known THEN CacheValue(f, "stun", get_stun_lru_key(p, FALSE))
     ELSE IF TRUE \in known THEN CacheValue(f, "stun", get_stun_lru_key(p, TRUE))
     ELSE Unknown

\* The cached application wins over the one this packet shows; one that is not cached
\* yet is entered for both ends.
ndpi_int_stun_add_connection(p, f, proto, app) ==
  LET cached == StunCached(p, f)
      entered == CacheAdd(CacheAdd(f, "stun", get_stun_lru_key(p, FALSE), app),
                          "stun", get_stun_lru_key(p, TRUE), app)
  IN IF ~IsUdp(p) \/ app = Unknown THEN Found(f, app, proto)
     ELSE IF cached # Unknown
     THEN IF app # cached \/ proto # "STUN"
          THEN ndpi_set_detected_protocol(f, cached, "STUN", "dpi_cache")
          ELSE Found(f, app, proto)
     ELSE Found(IF app # "STUN" THEN entered ELSE f, app, proto)

is_google_ip_address(p) == Touches(p, "google")
is_messenger_ip_address(p) == Touches(p, "messenger")

\* The message classes and methods up to 0x000B: (type & 0x3EEF) <= 0x000B.
StunClass(type) == \E m \in 0..11, c \in {0, 16, 256, 272} : type % 16384 = m + c

Host(f, id) == [f EXCEPT !.guessedHost = id]
Guess(f, id) == [f EXCEPT !.guessed = id]

SkypeAttributes == {9439, 14338, 32822, 32917, 2048, 32774}      \* 24DF 3802 8036 8095 0800 8006

\* The call an attribute at offset i gives away, Unknown when it gives none away.
StunAttribute(p, f, o, i) ==
  LET a == U16(p, i)
      len == 4 * ((U16(p, i + 2) + 3) \div 4)
      realm == Line(p, "realm")
  IN IF a = 259 THEN "ZOOM"
     ELSE IF a \in 16384..16386 THEN "WHATSAPP_CALL"
     ELSE IF a = 20 /\ f.host = ""
     THEN IF realm = "google.com" THEN "HANGOUT_DUO"
          ELSE IF realm \in {"whispersystems.org", "signal.org"} THEN "SIGNAL_VOIP"
          ELSE IF realm = "facebook" THEN "FACEBOOK_VOIP" ELSE Unknown
     ELSE IF a = 49239 /\ U16(p, o) = 1 /\ U16(p, o + 2) \in {100, 104} THEN "FACEBOOK_VOIP"
     ELSE IF \/ a = 32852 /\ len = 4 /\ i + 7 < p.len /\ U24(p, i + 5) = 0
             \/ a \in SkypeAttributes
             \/ a = 32880 /\ len = 4 /\ i + 7 < p.len /\ U24(p, i + 4) = 0 /\ U8(p, i + 7) \in {2, 3}
     THEN "SKYPE_CALL"
     ELSE IF a = 65283 THEN "HANGOUT_DUO" ELSE Unknown

\* The attributes up to the first that gives a call away; a realm on the way is kept.
StunAttributes(p, f, o) ==
  LET Realm(g, i) == IF U16(p, i) = 20 /\ g.host = ""
                     THEN ndpi_hostname_sni_set(g, Line(p, "realm")) ELSE g
      walk[i \in Nat, g \in {f, ndpi_hostname_sni_set(f, Line(p, "realm"))}] ==
        IF i + 4 >= p.len THEN <<Unknown, g>>
        ELSE IF StunAttribute(p, g, o, i) # Unknown
        THEN <<StunAttribute(p, g, o, i), Realm(g, i)>>
        ELSE walk[i + 4 * ((U16(p, i + 2) + 3) \div 4) + 4, Realm(g, i)]
  IN walk[o + 20, f]

\* The end of a check: a network decides which call it is, three packets that it is one.
udp_stun_found(p, f) ==
  LET g == IF is_messenger_ip_address(p) THEN Host(f, "FACEBOOK_VOIP")
           ELSE IF is_google_ip_address(p) THEN Host(f, "HANGOUT_DUO") ELSE f
  IN <<V(g, "num_udp_pkts") >= MAX_NUM_STUN_PKTS, Inc(g, "stun_processed")>>

\* A message of the right length that no cache entry explains.
StunMessage(p, f, o) ==
  LET type == U16(p, o)
      empty == U16(p, o + 2) = 0
      voip == IF f.guessedHost = "FACEBOOK" THEN Host(f, "FACEBOOK_VOIP") ELSE f
      g == IF type = 1
           THEN Inc(IF empty /\ f.guessedHost = "GOOGLE" THEN Host(f, "HANGOUT_DUO")
                    ELSE IF voip # f THEN voip ELSE Guess(f, "STUN"), "num_binding_requests")
           ELSE IF type = 3 THEN voip ELSE f
      h == Inc(g, "num_udp_pkts")
      k == IF h.guessed \in VoipCalls THEN h ELSE Guess(h, "STUN")
      attributes == StunAttributes(p, k, o)
  IN IF type = 1 /\ empty THEN <<FALSE, g>>
     ELSE IF empty /\ g.guessedHost = Unknown THEN <<FALSE, Excl(g, "STUN")>>
     ELSE IF U8(p, o) = 128 THEN <<TRUE, Host(h, "WHATSAPP_CALL")>>
     ELSE IF type = 2048 THEN <<TRUE, Host(k, "WHATSAPP_CALL")>>
     ELSE IF attributes[1] # Unknown THEN <<TRUE, Host(attributes[2], attributes[1])>>
     ELSE udp_stun_found(p, attributes[2])

\* o is where the message begins: 0, or 2 behind its length over TCP.
ndpi_int_check_stun(p, f, o) ==
  LET len == p.len - o
      type == U16(p, o)
      dtls == /\ U8(p, o) = 22 /\ U16(p, 1) \in {65279, 65277}          \* FEFF FEFD
              /\ len = U16(p, 11) + 13
  IN IF InNet(p.dst, "multicast") THEN <<FALSE, Excl(f, "STUN")>>
     ELSE IF len >= 512 THEN <<FALSE, f>>
     ELSE IF len < 16 THEN <<V(f, "num_udp_pkts") > 0, f>>
     ELSE IF At(p, o, "RSP/") /\ At(p, o + 7, " STUN_") THEN udp_stun_found(p, f)
     ELSE IF type = 0 \/ U16(p, o + 2) + 20 # len THEN <<FALSE, f>>
     ELSE IF ~StunClass(type) /\ type # 2048 THEN <<FALSE, IF dtls THEN Host(f, "DTLS") ELSE f>>
     ELSE IF StunCached(p, f) # Unknown THEN <<TRUE, Host(f, StunCached(p, f))>>
     ELSE StunMessage(p, f, o)

StunMatch(p, f) ==
  LET g == IF f.guessed = Unknown THEN Guess(f, "STUN") ELSE f
      h == IF g.guessedHost = Unknown THEN Guess(Host(g, g.guessed), "STUN") ELSE g
  IN ndpi_int_stun_add_connection(p, h, h.guessed, h.guessedHost)

\* A flow that is not STUN may again be RTP.
ndpi_search_stun(p, f) ==
  LET framed == IF IsTcp(p) /\ p.len >= 22 /\ U16(p, 0) + 2 = p.len
                THEN ndpi_int_check_stun(p, f, 2) ELSE <<FALSE, f>>
      check == IF framed[1] THEN framed ELSE ndpi_int_check_stun(p, framed[2], 0)
      g == check[2]
      h == IF V(g, "num_udp_pkts") >= MAX_NUM_STUN_PKTS THEN Excl(g, "STUN") ELSE g
  IN IF p.v6 THEN Excl(f, "STUN")
     ELSE IF check[1] THEN StunMatch(p, g)
     ELSE IF h.packets > 0 THEN [h EXCEPT !.excl = @ \ {"RTP"}] ELSE h
=============================================================================
