------------------------------- MODULE NdpiTls -------------------------------
(***************************************************************************)
(* TLS over TCP and UDP.  The records a packet begins are in p.h["tls"], a *)
(* set of                                                                  *)
(*   [at, type, len, alert, blocks]     len counts the 5 bytes of header   *)
(* and its handshake messages, in order,                                   *)
(*   [kind, len, hello] or [kind, len, cert]       len counts the 4 bytes  *)
(* where hello is [version, session, cookie, ciphers, exts, rest] (a       *)
(* server's has one cipher), an extension [id, len, data], and cert        *)
(* [sound, issuer, notBefore, notAfter, names, subject].  Offsets p.h does *)
(* not describe are read from the bytes.                                   *)
(***************************************************************************)
EXTENDS NdpiWeb

TlsVersion == [TLS10 |-> 769, TLS11 |-> 770, TLS12 |-> 771, TLS13 |-> 772]
Grease(n) == n \div 256 = n % 256 /\ (n % 16) = 10
Range0(s) == {s[i] : i \in 1..Len(s)}
Without(s, Test(_)) == SelectSeq(s, LAMBDA x : ~Test(x))

-----------------------------------------------------------------------------
(* The records of the stream.  Both directions share one buffer, here the  *)
(* records begun in it and the bytes it holds.                             *)

\* A record the packet does not describe: its messages are what the bytes happen to be.  Of
\* one that goes on in later segments only the first message is known.
RawBlocks(p, o, end) ==
  LET Block(i) == [kind |-> U8(p, i), len |-> 4 + U24(p, i + 1)]
      walk[i \in Nat] == IF i + 4 > end THEN <<>> ELSE <<Block(i)>> \o walk[i + Block(i).len]
  IN IF end > p.len THEN <<Block(o)>> ELSE walk[o]
TlsRecords(p) == IF HasLine(p, "tls") THEN p.h["tls"] ELSE {}
RecordAt(p, o) ==
  IF \E r \in TlsRecords(p) : r.at = o THEN CHOOSE r \in TlsRecords(p) : r.at = o
  ELSE [at |-> o, type |-> U8(p, o), len |-> U16(p, o + 3) + 5, alert |-> U8(p, o + 5),
        blocks |-> RawBlocks(p, o + 5, o + 5 + U16(p, o + 3))]
RecordsFrom(p, o) ==
  LET walk[i \in Nat] == IF i >= p.len THEN <<>> ELSE <<RecordAt(p, i)>> \o walk[i + RecordAt(p, i).len]
  IN walk[o]

TlsBuffer(f) == W(f, "tls_buffer", [records |-> <<>>, used |-> 0])
Missing(b) ==
  LET total[i \in 0..Len(b.records)] == IF i = 0 THEN 0 ELSE b.records[i].len + total[i - 1]
  IN total[Len(b.records)] - b.used

\* A segment is taken when nothing of its direction was, or it is the one expected.
ndpi_search_tls_tcp_memory(p, f) ==
  LET next == W(f, "tls_next_seq", [d \in {0, 1} |-> 0])
      b == TlsBuffer(f)
  IN IF p.len = 0 \/ next[p.dir] \notin {0, p.seq} THEN f
     ELSE Put(Put(f, "tls_buffer", [records |-> b.records \o RecordsFrom(p, Missing(b)),
                                    used |-> b.used + p.len]),
              "tls_next_seq", [next EXCEPT ![p.dir] = p.seq + p.len])

-----------------------------------------------------------------------------
(* The flow becomes TLS.                                                   *)

ndpi_tls_refine_master_protocol(p, f) ==
  IF ~IsTcp(p) THEN "TLS"
  ELSE IF PortIn(p, {465, 587}) THEN "MAIL_SMTPS"
  ELSE IF Port(p, 993) \/ V(f, "mail_imap_starttls") # 0 THEN "MAIL_IMAPS"
  ELSE IF Port(p, 995) THEN "MAIL_POPS" ELSE "TLS"

\* num_tls_blocks_to_follow is 0 in this build.
tlsInitExtraPacketProcessing(p, f) == FollowUp(f, 12, IF IsUdp(p) THEN "tls_udp" ELSE "tls_tcp")

ndpi_int_tls_add_connection(p, f) ==
  LET id == IF IsUdp(p) THEN "DTLS" ELSE "TLS"
      proto == IF id = "TLS" THEN ndpi_tls_refine_master_protocol(p, f) ELSE id
  IN IF id \in {f.app, f.master}
     THEN IF f.more THEN f ELSE tlsInitExtraPacketProcessing(p, f)
     ELSE tlsInitExtraPacketProcessing(p, Found(f, proto, proto))

ndpi_looks_like_tls(f) == IF f.guessed = Unknown THEN [f EXCEPT !.guessed = "TLS"] ELSE f

\* A server whose certificate named a protocol before.
checkTLSSubprotocol(p, f, fromClient) ==
  LET key == IF fromClient THEN p.dst + p.dport ELSE p.src + p.sport
  IN IF f.master # Unknown \/ p.v6 \/ ~IsTcp(p) \/ ~CacheFind(f, "tls_cert", key) THEN f
     ELSE ndpi_check_subprotocol_risk(
            ndpi_set_detected_protocol(f, CacheValue(f, "tls_cert", key), "TLS", "dpi_cache"),
            CacheValue(f, "tls_cert", key))

-----------------------------------------------------------------------------
(* Certificates.  The caller passes time 0 for every packet.               *)

TLS_THRESHOLD == 34387200
TLS_LIMIT_DATE == 1598918400
CurrentTime == 0

\* Organisations and names of subjects that tell the application.
tls_certificate_match ==
  ("CN=AnyDesk Client" :> "ANYDESK") @@ ("O=Kakao" :> "KAKAOTALK") @@ ("O=ntop.org" :> "NTOP") @@
  ("O=Netflix" :> "NETFLIX") @@ ("O=Cloudflare" :> "CLOUDFLARE") @@
  ("CN=simplednscrypt.org" :> "DNSCRYPT") @@
  ("CN=*.gateway.messenger.live.com" :> "SKYPE_TEAMS") @@ ("OU=FortiGate" :> "FORTICLIENT")

Unprintable(p, f) == IF Has(p, "unprintable") THEN ndpi_set_risk(f, "invalid_characters") ELSE f

\* The printable ones of the names CN, C, L, ST, O and OU of a distinguished name.
extractRDNSequence(rdn) == Without(rdn, LAMBDA x : x = "")

CertificateIssuer(p, f, c) ==
  IF extractRDNSequence(c.issuer) = <<>> \/ Holds(f, "issuerDN") THEN f
  ELSE Unprintable(p, Put(f, "issuerDN", extractRDNSequence(c.issuer)))

CertificateValidity(f, c) ==
  LET g == Put(Put(f, "notBefore", c.notBefore), "notAfter", c.notAfter)
      h == IF c.notBefore > TLS_LIMIT_DATE /\ c.notAfter - c.notBefore > TLS_THRESHOLD
           THEN ndpi_set_risk(g, "tls_cert_validity_too_long") ELSE g
  IN IF CurrentTime < c.notBefore \/ CurrentTime > c.notAfter
     THEN ndpi_set_risk(h, "tls_certificate_expired")
     ELSE IF CurrentTime > c.notBefore /\ CurrentTime > c.notAfter - 30 * 86400
     THEN ndpi_set_risk(h, "tls_certificate_about_to_expire") ELSE h

\* The alternative names, each with the hosts it covers (itself, or those of its wildcard);
\* they end at the first of another kind.  One cut off by the end of the message is suspicious.
CertificateNames(p, f, c) ==
  LET named[i \in 0..Len(c.names)] ==
        IF i = 0 THEN f
        ELSE LET g == Unprintable(p, named[i - 1])
                 h == Put(g, "server_names", Append(W(g, "server_names", <<>>), c.names[i].name))
                 m == ndpi_match_hostname_protocol(h, "TLS", c.names[i].name)
             IN IF V(h, "subprotocol_detected") = 1 THEN h
                ELSE IF ndpi_automa_match_string_subprotocol(h, c.names[i].name) = Unknown THEN h
                ELSE Put(m, "subprotocol_detected", 1)
      cut == IF Has(p, "names cut off")
             THEN ndpi_set_risk(named[Len(c.names)], "tls_suspicious_extension")
             ELSE named[Len(c.names)]
  IN IF c.names = <<>> \/ f.host = "" \/ \E n \in Range0(c.names) : f.host \in n.covers THEN cut
     ELSE ndpi_set_risk(cut, "tls_certificate_mismatch")

\* The subject, kept once: it may tell the application, for later flows of the server too.
CertificateSubject(p, f, c) ==
  LET rdn == extractRDNSequence(c.subject)
      known == Range0(rdn) \cap DOMAIN tls_certificate_match
      proto == tls_certificate_match[CHOOSE x \in known : TRUE]
      g == Put(f, "subjectDN", rdn)
      d == ndpi_check_subprotocol_risk(Found(g, proto, "TLS"), proto)
  IN IF rdn = <<>> \/ Holds(f, "subjectDN") THEN f
     ELSE IF f.master # Unknown \/ known = {} THEN g
     ELSE IF p.v6 THEN d ELSE CacheAdd(d, "tls_cert", p.src + p.sport, proto)

\* No issuer is trusted by default.
processCertificateElements(p, f, c) ==
  LET g == CertificateSubject(p, CertificateNames(p,
             CertificateValidity(CertificateIssuer(p, f, c), c), c), c)
  IN IF Holds(g, "subjectDN") /\ Holds(g, "issuerDN") /\ g.v["subjectDN"] = g.v["issuerDN"]
     THEN ndpi_set_risk(g, "tls_selfsigned_certificate") ELSE g

\* Only the first certificate of the chain is looked at.  A message whose lengths disagree
\* is malformed.
processCertificate(p, f, block) ==
  IF "cert" \notin DOMAIN block \/ ~block.cert.sound THEN ndpi_set_risk(f, "malformed_packet")
  ELSE processCertificateElements(p, Put(f, "fingerprint_set", 1), block.cert)

-----------------------------------------------------------------------------
(* Hello messages.                                                         *)

allowed_non_iana_extensions ==
  {65486, 13172, 17513, 30032, 65445, 2570, 6682, 10794, 14906, 19018, 23130, 27242, 31354,
   35466, 39578, 43690, 47802, 51914, 56026, 60138, 64250, 1035, 16696, 102, 129, 52243, 52244,
   57363, 65279, 65413}

\* cut: the extension ends behind the message.
checkExtensions(p, f, e, cut) ==
  IF \/ cut
     \/ e.id > 59 /\ e.id # 65281 /\ e.id \notin allowed_non_iana_extensions
     \/ ~IsUdp(p) /\ e.id \in {53, 54}
  THEN ndpi_set_risk(f, "tls_suspicious_extension") ELSE f

WeakCiphers ==
  {157, 61, 53, 132, 156, 60, 47, 65, 49170, 22, 10, 150, 7}
InsecureCiphers == {49169, 5, 4}
ndpi_is_safe_ssl_cipher(c) ==
  IF c \in InsecureCiphers THEN "insecure" ELSE IF c \in WeakCiphers THEN "weak" ELSE "safe"

CommonAlpns ==
  {"http/0.9", "http/1.0", "http/1.1", "spdy/1", "spdy/2", "spdy/3", "spdy/3.1", "stun.turn",
   "stun.nat-discovery", "h2", "h2c", "h2-16", "h2-15", "h2-14", "h2-fb", "webrtc", "c-webrtc",
   "ftp", "imap", "pop3", "managesieve", "coap", "xmpp-client", "xmpp-server", "acme-tls/1",
   "mqtt", "dot", "ntske/1", "sunrpc", "h3", "smb", "irc", "h3-T051", "h3-T050", "h3-32",
   "h3-30", "h3-29", "h3-28", "h3-27", "h3-24", "h3-22", "hq-30", "hq-29", "hq-28", "hq-27",
   "h3-fb-05", "h1q-fb", "doq-i00", "apns-security-v3", "apns-pack-v1"}
is_a_common_alpn(name) == name \in CommonAlpns

tlsCheckUncommonALPN(f) ==
  IF \A a \in Range0(f.v["alpn"]) : is_a_common_alpn(a) THEN f
  ELSE ndpi_set_risk(f, "tls_uncommon_alpn")

KeepAlpn(f, names) == IF Holds(f, "alpn") THEN f ELSE Put(f, "alpn", names)

\* The extensions up to the first whose length exceeds all that is left of the message, and
\* where each begins.  The check compares with the first extension's offset, not its own.
ExtStart(h) == [i \in 1..Len(h.exts) + 1 |->
  LET at[k \in 1..Len(h.exts) + 1] == IF k = 1 THEN 0 ELSE at[k - 1] + 4 + h.exts[k - 1].len
  IN at[i]]
CutExt(h, i) == ExtStart(h)[i] + 4 + h.exts[i].len > h.rest
HelloExts(h) ==
  LET bad == {i \in 1..Len(h.exts) : 4 + h.exts[i].len > h.rest}
  IN IF bad = {} THEN h.exts ELSE SubSeq(h.exts, 1, (CHOOSE i \in bad : \A j \in bad : i <= j) - 1)
OfExt(h, id) ==
  LET found == {i \in 1..Len(HelloExts(h)) : HelloExts(h)[i].id = id}
  IN IF found = {} THEN <<>> ELSE HelloExts(h)[CHOOSE i \in found : \A j \in found : i <= j].data

\* The fingerprints, before they are hashed.
Ja3Server(h) == <<h.version, h.ciphers[1], [i \in 1..Len(h.exts) |-> h.exts[i].id]>>
MAX_NUM_JA3 == 512
Ja3Valid(h) == Len(h.ciphers) <= MAX_NUM_JA3 /\ Len(h.exts) <= MAX_NUM_JA3
Ja3Client(h) ==
  LET exts == HelloExts(h)
  IN <<h.version, Without(h.ciphers, Grease), Without([i \in 1..Len(exts) |-> exts[i].id], Grease),
       Without(OfExt(h, 10), Grease), OfExt(h, 11)>>

\* A server's: the cipher it chose, its version when it says so in an extension, its ALPN.
ServerExtensions(p, f, h) ==
  LET step[i \in 0..Len(h.exts)] ==
        IF i = 0 THEN f
        ELSE LET e == h.exts[i]
                 g == checkExtensions(p, step[i - 1], e, FALSE)
             IN IF CutExt(h, i) THEN step[i - 1]
                ELSE IF e.id = 43 /\ e.len >= 2 THEN Put(g, "ssl_version", e.data[1])
                ELSE IF e.id = 16 THEN tlsCheckUncommonALPN(KeepAlpn(Unprintable(p, g), e.data))
                ELSE g
  IN step[Len(h.exts)]

ServerHello(p, f, h) ==
  LET kind == ndpi_is_safe_ssl_cipher(h.ciphers[1])
      g == Put(Put(f, "server_unsafe_cipher", kind), "server_cipher", h.ciphers[1])
      w == IF kind = "weak" THEN ndpi_set_risk(g, "tls_weak_cipher") ELSE g
  IN Put(ServerExtensions(p, w, h), "ja3_server", Ja3Server(h))

\* Which browser's ciphers and signature algorithms the client offers.
SafariOnly == {49195, 49196}
ChromeOnly == {4865, 4866, 4867}
SafariAndChrome == {52393, 49200, 49199, 52392, 49171, 49172, 47, 53, 156, 157}
CountIn(s, S) == Cardinality({i \in 1..Len(s) : s[i] \in S})

ClientCiphers(f, h) ==
  LET grease == \E c \in Range0(h.ciphers) : Grease(c)
      safari == CountIn(h.ciphers, SafariOnly \cup SafariAndChrome) = 12
      chrome == CountIn(h.ciphers, ChromeOnly \cup SafariAndChrome) = 13
      g == IF grease THEN Put(f, "is_safari_tls", 0)
           ELSE IF safari THEN Put(f, "is_safari_tls", 1) ELSE f
  IN IF chrome THEN Put(g, "is_chrome_tls", 1) ELSE g

CommonSignatures == {1027, 1283, 1025, 1281, 1537, 2052, 2053, 2054}
ECDSA_SECP521R1_SHA512 == 1539

\* The code stops one algorithm early when the extension ends the message (last).
ClientSignatures(f, data, last) ==
  LET s == IF last /\ data # <<>> THEN SubSeq(data, 1, Len(data) - 1) ELSE data
      duplicate == \E i, j \in 1..Len(s) : i # j /\ s[i] = s[j]
      counted == {i \in 1..Len(s) : \A j \in (i + 1)..Len(s) : s[i] # s[j]}
      common == Cardinality({i \in counted : s[i] \in CommonSignatures})
      firefox == V(f, "is_firefox_tls") = 1 \/ \E i \in counted : s[i] = ECDSA_SECP521R1_SHA512
      safari == V(f, "is_safari_tls") = 1 /\ ~firefox /\ common = 8
      chrome == V(f, "is_chrome_tls") = 1 /\ ~firefox /\ common = 8 /\ ~duplicate /\ ~safari
      Flag(b) == IF b THEN 1 ELSE 0
  IN Put(Put(Put(f, "is_firefox_tls", Flag(firefox)), "is_chrome_tls", Flag(chrome)),
         "is_safari_tls", Flag(safari \/ (~chrome /\ duplicate)))

\* A server name: the application, over TLS or QUIC; a generated one of the form of the
\* names Tor makes up is Tor.
ClientSni(p, f, name, master) ==
  LET g == Unprintable(p, ndpi_hostname_sni_set(f, name))
      m == IF ndpi_automa_match_string_subprotocol(g, name) = Unknown THEN g
           ELSE Put(ndpi_match_hostname_protocol(g, master, name), "subprotocol_detected", 1)
      d == ndpi_check_dga_name([m EXCEPT !.risk = {}], name)
      generated == d.risk # {}
      r == [m EXCEPT !.risk = @ \cup d.risk]
  IN IF generated /\ Has(p, "www. name in .com or .net") THEN Found(r, "TOR", "TLS") ELSE r

\* Transport parameter 0x3129 of QUIC is the user agent.
ClientExtension(p, f, h, i, master) ==
  LET e == HelloExts(h)[i]
      g == checkExtensions(p, f, e, CutExt(h, i))
  IN CASE e.id = 0 /\ e.data # <<>> -> ClientSni(p, g, e.data[1], master)
       [] e.id = 13 -> ClientSignatures(g, e.data, ExtStart(h)[i + 1] = h.rest)
       [] e.id = 16 -> KeepAlpn(g, e.data)
       [] e.id = 43 -> IF Holds(g, "tls_supported_versions") THEN g
                       ELSE Put(g, "tls_supported_versions", e.data)
       [] e.id = 65486 -> Put(g, "esni", 1)
       [] e.id \in {57, 65445} -> IF 12585 \in Range0(e.data) THEN http_process_user_agent(p, g) ELSE g
       [] OTHER -> g

ClientExtensions(p, f, h, master) ==
  LET step[i \in 0..Len(HelloExts(h))] ==
        IF i = 0 THEN f ELSE ClientExtension(p, step[i - 1], h, i, master)
      \* the extension whose length ends the list is checked before it does
  IN IF Len(HelloExts(h)) = Len(h.exts) THEN step[Len(h.exts)]
     ELSE checkExtensions(p, step[Len(HelloExts(h))], h.exts[Len(HelloExts(h)) + 1], TRUE)

\* What a client that got this far should have said.
ClientRisks(f) ==
  LET version == V(f, "ssl_version")
      a == IF version >= TlsVersion.TLS12 /\ ~Holds(f, "alpn")
           THEN ndpi_set_risk(f, "tls_not_carrying_https") ELSE f
      b == IF Holds(f, "esni") /\ f.host # "" THEN ndpi_set_risk(a, "tls_suspicious_esni_usage") ELSE a
  IN IF f.host = "" /\ version >= TlsVersion.TLS11 /\ ~Holds(f, "esni")
     THEN ndpi_set_risk(b, "tls_missing_sni") ELSE b

\* A hello without extensions is fingerprinted only.
ClientHello(p, f, h, master) ==
  LET v == Put(f, "ssl_version", h.version)
      o == IF h.version < TlsVersion.TLS12 THEN ndpi_set_risk(v, "tls_obsolete_version") ELSE v
      c == ClientCiphers(o, h)
      e == ClientExtensions(p, c, h, master)
      j == IF Ja3Valid(h) THEN Put(e, "ja3_client", Ja3Client(h)) ELSE e
  IN IF h.exts = <<>> THEN Put(c, "ja3_client", Ja3Client(h)) ELSE ClientRisks(j)

\* A message too short for its version and session is not looked at.
processClientServerHello(p, f, block, master) ==
  IF "hello" \notin DOMAIN block THEN f
  ELSE IF block.kind = 2 THEN ServerHello(p, f, block.hello)
  ELSE ClientHello(p, f, block.hello, master)

\* TLS 1.3 sends its certificate encrypted: none is waited for.
processTLSBlock(p, f, block) ==
  LET h == ndpi_int_tls_add_connection(p,
             Put(processClientServerHello(p, f, block, "TLS"), "hello_processed", 1))
      c == IF V(h, "ssl_version") >= TlsVersion.TLS13 /\ block.kind = 2
           THEN Put(h, "certificate_processed", 1) ELSE h
  IN IF block.kind \in {1, 2} THEN checkTLSSubprotocol(p, c, block.kind = 1)
     ELSE IF block.kind = 11 /\ V(f, "hello_processed") = 1
     THEN Put(processCertificate(p, f, block), "certificate_processed", 1)
     ELSE f

-----------------------------------------------------------------------------
(* TCP.                                                                    *)

\* The messages of a record of len bytes, up to one that does not fit in it.
BlocksFit(r) ==
  LET end[i \in 0..Len(r.blocks)] == IF i = 0 THEN 5 ELSE end[i - 1] + r.blocks[i].len
      fits(i) == r.blocks[i].len < 65540 /\ r.blocks[i].len - 4 <= r.len /\ end[i] <= r.len
      bad == {i \in 1..Len(r.blocks) : ~fits(i)}
  IN IF bad = {} THEN Len(r.blocks) ELSE (CHOOSE i \in bad : \A j \in bad : i <= j) - 1

TlsBlocks(p, f, r) ==
  LET step[i \in 0..Len(r.blocks)] ==
        IF i = 0 THEN f ELSE ndpi_looks_like_tls(processTLSBlock(p, step[i - 1], r.blocks[i]))
  IN step[BlocksFit(r)]

TlsRecord(p, f, r) ==
  LET a == IF r.type = 21 /\ r.len >= 7 /\ r.alert = 2 THEN ndpi_set_risk(f, "tls_fatal_alert") ELSE f
  IN IF r.len > 9 /\ r.type # 23 /\ V(f, "certificate_processed") = 0 THEN TlsBlocks(p, a, r)
     ELSE IF r.len > 5 /\ r.type = 23 /\ r.len - 5 < 16384 THEN ndpi_looks_like_tls(a) ELSE a

\* A record whose messages do not fit ends the dissection of the flow's extra packets.
ndpi_search_tls_tcp(p, f) ==
  LET run[n \in Nat] ==
        IF n = 0 THEN [f |-> ndpi_search_tls_tcp_memory(p, f), go |-> TRUE, wrong |-> FALSE]
        ELSE LET s == run[n - 1]
                 b == TlsBuffer(s.f)
                 r == b.records[1]
                 wrong == /\ r.len > 9 /\ r.type # 23 /\ V(s.f, "certificate_processed") = 0
                          /\ BlocksFit(r) < Len(r.blocks)
                 g == Put(TlsRecord(p, s.f, r), "tls_buffer",
                          [records |-> Tail(b.records), used |-> b.used - r.len])
             IN IF ~s.go \/ b.used < 5 \/ r.len > b.used THEN [s EXCEPT !.go = FALSE]
                ELSE [f |-> g, go |-> ~wrong, wrong |-> wrong]
      last == run[Len(TlsBuffer(ndpi_search_tls_tcp_memory(p, f)).records)]
  IN IF p.len = 0 THEN f
     ELSE IF last.wrong THEN NoMore(NoFunc(last.f)) ELSE last.f

-----------------------------------------------------------------------------
(* UDP: whole records in one packet.                                       *)

\* The messages from offset o on: the flow, whether all were well formed, and whether one
\* changed the cipher, behind which the rest is encrypted.
DtlsFrom(p, f) ==
  LET walk[n \in Nat] ==
        LET g == IF n = 0 THEN [f |-> f, at |-> 0, ok |-> TRUE, ccs |-> FALSE, go |-> TRUE]
                 ELSE walk[n - 1]
            i == g.at
            len == U16(p, i + 11)
            block == IF \E r \in TlsRecords(p) : r.at = i
                     THEN (CHOOSE r \in TlsRecords(p) : r.at = i).blocks[1]
                     ELSE [kind |-> U8(p, i + 13), len |-> len]
            sound == /\ U8(p, i) \in {22, 20} /\ U8(p, i + 1) = 254 /\ U8(p, i + 2) \in {255, 253}
                     /\ len > 0 /\ i + len + 12 < p.len
                     /\ (U8(p, i) = 22 /\ len > 16) => U24(p, i + 14) + 12 = len
        IN IF n = 0 THEN g
           ELSE IF ~g.go \/ i + 13 >= p.len THEN [g EXCEPT !.go = FALSE]
           ELSE IF ~sound THEN [g EXCEPT !.ok = FALSE, !.go = FALSE]
           ELSE IF U8(p, i) = 20 THEN [g EXCEPT !.at = i + len + 13, !.ccs = TRUE, !.go = FALSE]
           ELSE [g EXCEPT !.at = i + len + 13,
                          !.f = IF len > 16 THEN processTLSBlock(p, @, block) ELSE @]
  IN walk[1 + (p.len \div 14)]

DtlsEnds(p, f) == LET d == DtlsFrom(p, f) IN ~d.ok \/ d.ccs \/ d.at # p.len
ndpi_search_tls_udp(p, f) == IF DtlsEnds(p, f) THEN Excl(DtlsFrom(p, f).f, "TLS") ELSE DtlsFrom(p, f).f
\* Called for an extra packet, its answer ends them.
DtlsExtra(p, f) == IF DtlsEnds(p, f) THEN NoMore(ndpi_search_tls_udp(p, f)) ELSE ndpi_search_tls_udp(p, f)

ndpi_search_tls_wrapper(p, f) ==
  IF IsUdp(p) THEN ndpi_search_tls_udp(p, f) ELSE ndpi_search_tls_tcp(p, f)
=============================================================================
