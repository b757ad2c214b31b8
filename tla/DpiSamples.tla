----------------------------- MODULE DpiSamples -----------------------------
(***************************************************************************)
(* Conversations for the inspection to see: for every dissector LANShield  *)
(* enables a few packets of its protocol, as the packet record of NdpiFlow *)
(* describes them, and conversations that meet in a cache.                 *)
(***************************************************************************)
EXTENDS Integers, Sequences, TLC

LOCAL None == [x \in {} |-> 0]
LOCAL ServerAddress == 20
LOCAL ClientAddress == 1

\* Bytes from offset i on, and the joint of several runs of them.
LOCAL B(i, s) == [k \in i..(i + Len(s) - 1) |-> s[k - i + 1]]
LOCAL Crlf2(n) == B(n - 2, <<13, 10>>)

\* A payload: its length, bytes, texts, numbers and lines.
LOCAL X(len, b, t, n, h) == [len |-> len, b |-> b, t |-> t, n |-> n, h |-> h]
LOCAL D(len, b) == X(len, b, {}, None, None)
LOCAL T(len, b, t) == X(len, b, t, None, None)
LOCAL H(len, b, t, h) == X(len, b, t, None, h)
LOCAL Bare == D(0, None)

\* Who sends it: the client, the server; a segment with SYN.
LOCAL C(x) == [up |-> TRUE, syn |-> FALSE, x |-> x]
LOCAL S(x) == [up |-> FALSE, syn |-> FALSE, x |-> x]
LOCAL Open == [up |-> TRUE, syn |-> TRUE, x |-> Bare]

\* The packets of one transport flow, with the sequence numbers they have in order.
LOCAL Conn(l4, v6, cport, sport, server, who) ==
  LET before[i \in 1..Len(who) + 1] ==                \* what each side has sent before i
        IF i = 1 THEN [c |-> 1, s |-> 1]
        ELSE IF who[i - 1].up THEN [before[i - 1] EXCEPT !.c = @ + who[i - 1].x.len]
        ELSE [before[i - 1] EXCEPT !.s = @ + who[i - 1].x.len]
      Packet(i) ==
        LET w == who[i]
        IN [l4 |-> l4, v6 |-> v6, syn |-> w.syn, ack |-> l4 = 6 /\ ~w.syn, rst |-> FALSE,
            src |-> IF w.up THEN ClientAddress ELSE server,
            dst |-> IF w.up THEN server ELSE ClientAddress,
            sport |-> IF w.up THEN cport ELSE sport, dport |-> IF w.up THEN sport ELSE cport,
            seq |-> IF w.syn THEN 0 ELSE IF w.up THEN before[i].c ELSE before[i].s,
            ackSeq |-> IF w.up THEN before[i].s ELSE before[i].c,
            len |-> w.x.len, b |-> w.x.b, t |-> w.x.t, n |-> w.x.n, h |-> w.x.h,
            dir |-> 0, again |-> FALSE]
  IN [i \in 1..Len(who) |-> Packet(i)]
LOCAL TcpTo(port, who) == Conn(6, FALSE, 40000, port, ServerAddress, who)
LOCAL UdpTo(port, who) == Conn(17, FALSE, 40000, port, ServerAddress, who)

\* A conversation is the protocol it speaks and its packets.
LOCAL Speaks(name, packets) == [name |-> name, packets |-> packets]

-----------------------------------------------------------------------------
(* Network services.                                                       *)
Services == {
  Speaks("DHCP", Conn(17, FALSE, 68, 67, ServerAddress,
    <<C(H(300, B(236, <<99, 130, 83, 99, 53, 1, 1, 12, 4>>), {}, [name |-> "phone"]))>>)),
  Speaks("DHCPV6", Conn(17, TRUE, 546, 547, ServerAddress, <<C(D(60, B(0, <<1>>)))>>)),
  Speaks("NTP", UdpTo(123, <<C(D(48, B(0, <<35>>)))>>)),
  Speaks("SNMP", UdpTo(161, <<C(D(40, B(0, <<48, 38, 2, 1, 1>>)))>>)),
  Speaks("SSDP", UdpTo(1900, <<C(T(90, B(0, <<77, 45, 83, 69>>), {<<0, "M-SEARCH * HTTP/1.1">>}))>>)),
  Speaks("SYSLOG", UdpTo(514, <<C(T(40, B(0, <<60, 51, 62>>), {<<-1, "printable">>}))>>)),
  Speaks("RADIUS", UdpTo(1812, <<C(D(20, B(0, <<1, 9, 0, 20>>)))>>)),
  Speaks("NETFLOW", UdpTo(2055, <<C(T(80, B(0, <<0, 9, 0, 1>>), {<<8, "recent">>}))>>)),
  Speaks("SFLOW", UdpTo(6343, <<C(D(80, B(0, <<0, 0, 0, 5>>)))>>)),
  Speaks("NFS", UdpTo(2049, <<C(D(60, B(0, <<1, 2, 3, 4>>) @@ B(8, <<0, 0, 0, 2, 0, 1, 134, 165, 0, 0, 0, 3>>)))>>)),
  Speaks("NFS", TcpTo(2049, <<C(D(64, B(0, <<128, 0, 0, 60, 1, 2, 3, 4>>)
                                      @@ B(12, <<0, 0, 0, 2, 0, 1, 134, 165, 0, 0, 0, 3>>)))>>)),
  Speaks("SMBV1", TcpTo(445, <<C(D(50, B(0, <<0, 0, 0, 46, 255, 83, 77, 66, 114>>))),
                               C(D(50, B(0, <<0, 0, 0, 46, 255, 83, 77, 66, 115>>)))>>)),
  Speaks("SMBV23", TcpTo(445, <<C(D(50, B(0, <<0, 0, 0, 46, 254, 83, 77, 66>>)))>>)),
  Speaks("IP_ICMP", Conn(1, FALSE, 0, 0, ServerAddress, <<C(D(16, B(0, <<8>>))), S(D(4, B(0, <<50, 20>>)))>>)),
  Speaks("NETBIOS", UdpTo(137, <<C(H(50, B(2, <<1, 16, 0, 1>>) @@ B(12, <<32, 69, 66, 67, 67>>), {}, [name |-> "pc"]))>>)),
  Speaks("NETBIOS", UdpTo(138, <<C(T(100, B(0, <<17>>) @@ B(11, <<86>>), {<<4, "source address">>}))>>)),
  Speaks("NETBIOS", TcpTo(139, <<C(D(72, B(0, <<129, 0, 0, 68>>)))>>)),
  Speaks("DNSCRYPT", UdpTo(8443, <<C(T(80, B(0, <<114, 54, 102, 110>>), {<<0, "r6fnvWj8">>}))>>))}

LOCAL DnsLabel == <<3, 119, 119, 119, 2, 97, 98, 0, 0, 1, 0, 1>>
LOCAL Query(name) == H(24, B(2, <<1, 0, 0, 1>>) @@ B(12, DnsLabel), {}, [name |-> name])
LOCAL Reply(name) ==
  H(40, B(2, <<129, 128, 0, 1, 0, 1>>) @@ B(12, DnsLabel) @@ B(24, <<192, 12, 0, 1, 0, 1>>), {}, [name |-> name])
Names == {
  Speaks("DNS", UdpTo(53, <<C(Query("plain")), S(Reply("plain"))>>)),
  Speaks("FACEBOOK", UdpTo(53, <<C(Query("facebook")), S(Reply("facebook"))>>)),
  Speaks("DNS", UdpTo(53, <<S(Reply("random"))>>)),
  Speaks("MDNS", UdpTo(5353, <<C(Query("printer")), S(Reply("printer"))>>))}

-----------------------------------------------------------------------------
(* Data stores and messaging.                                              *)
LOCAL ZmqHello == <<255, 0, 0, 0, 0, 0, 0, 0, 1, 127>>
LOCAL Ticket(len, base, type) == B(base + 10, <<3, 2, 1, type>>)
Stores == {
  Speaks("GIT", TcpTo(9418, <<C(X(10, B(0, <<48, 48, 48, 97>>), {}, 0 :> 10, None))>>)),
  Speaks("MYSQL", TcpTo(3306, <<S(T(60, B(0, <<56, 0, 0, 0, 10, 53, 46>>), {<<38, "mysql_">>}))>>)),
  Speaks("NATS", TcpTo(4222, <<S(T(5, B(0, <<43, 79, 75, 13, 10>>), {<<0, "+OK">>, <<-1, "\r\n">>})),
                               C(T(6, B(0, <<80, 73, 78, 71, 13, 10>>), {<<0, "PING">>, <<-1, "\r\n">>}))>>)),
  Speaks("POSTGRES", TcpTo(5432, <<C(D(8, B(0, <<0, 0, 0, 8, 4, 210, 22, 47>>))), S(D(1, B(0, <<83>>)))>>)),
  Speaks("POSTGRES", TcpTo(5432, <<C(D(20, B(0, <<0, 0, 0, 20, 0, 3>>))),
                                   S(D(9, B(0, <<82, 0, 0, 0, 8>>)))>>)),
  Speaks("REDIS", TcpTo(6379, <<C(D(14, B(0, <<42, 49>>))), S(D(5, B(0, <<43, 79>>)))>>)),
  Speaks("MQTT", TcpTo(1883, <<C(D(16, B(0, <<16, 14>>)))>>)),
  Speaks("ZMQ", TcpTo(5555, <<C(D(10, B(0, ZmqHello))), S(D(10, B(0, ZmqHello)))>>)),
  Speaks("Z3950", TcpTo(210, <<C(D(40, B(0, <<20>>))), S(D(41, B(0, <<20>>))), C(D(42, B(0, <<20>>))),
                               S(D(43, B(0, <<20>>)))>>)),
  Speaks("RX", UdpTo(7001, <<C(D(28, B(0, <<1>>) @@ B(20, <<1, 1>>))), S(D(28, B(0, <<1>>) @@ B(20, <<1, 4>>)))>>)),
  Speaks("IPP", TcpTo(631, <<C(T(40, B(0, <<51, 32, 51, 32>>), {<<0, "number number ipp://">>}))>>)),
  Speaks("STEALTHNET", TcpTo(6097, <<C(T(60, B(0, <<76, 65, 82, 83>>),
                                         {<<0, "LARS REGENSBURGER'S FILE SHARING PROTOCOL">>}))>>)),
  Speaks("KERBEROS", UdpTo(88, <<C(H(140, Ticket(140, 0, 10), {}, [realm |-> "R"])), S(D(140, Ticket(140, 0, 14)))>>)),
  Speaks("KERBEROS", TcpTo(88, <<C(D(100, B(0, <<0, 0, 0, 146>>) @@ Ticket(150, 4, 12))), C(D(50, None)),
                                 S(H(150, B(0, <<0, 0, 0, 146>>) @@ Ticket(150, 4, 13), {}, [cname |-> "u"]))>>))}

-----------------------------------------------------------------------------
(* Remote access.                                                          *)
LOCAL Banner(v) == H(21, B(0, <<83, 83, 72, 45>>), {<<0, "SSH-">>}, [software |-> "OpenSSH", version |-> v])
LOCAL Kex == H(100, B(0, <<0, 0, 0, 96, 4, 20>>), {}, [ciphers |-> {"aes", "arcfour"}])
LOCAL Rfb == T(12, B(0, <<82, 70, 66, 32, 48>>) @@ B(11, <<10>>), {<<0, "RFB 003">>})
LOCAL Iac == D(3, B(0, <<255, 253, 24>>))
LOCAL Session == <<1, 2, 3, 4, 5, 6, 7, 8>>
LOCAL TincId == T(12, B(0, <<48, 32>>), {<<0, "0 name 17\n">>})
LOCAL TincKey == T(40, B(0, <<49, 32>>), {<<0, "1 number number number number key\n">>})
LOCAL TincMeta == <<Open, C(TincId), S(TincId), C(TincKey), S(TincKey)>>
Remotes == {
  Speaks("PPTP", TcpTo(1723, <<C(D(156, B(0, <<0, 156, 0, 1, 26, 43, 60, 77, 0, 1>>)))>>)),
  Speaks("RDP", TcpTo(3389, <<C(D(19, B(0, <<3, 0, 0, 19, 14, 224>>)))>>)),
  Speaks("RDP", UdpTo(3389, <<C(D(12, B(0, <<9, 8, 7>>))), S(D(12, B(0, <<6, 5, 4>>))),
                              C(D(13, B(0, <<9, 8, 7>>))), S(D(13, B(0, <<6, 5, 4>>)))>>)),
  Speaks("TEAMVIEWER", TcpTo(5938, <<C(D(30, B(0, <<23, 36>>)))>>)),
  Speaks("TEAMVIEWER", UdpTo(6000, <<C(D(30, B(11, <<23, 36>>))), S(D(31, B(11, <<23, 36>>))),
                                     C(D(32, B(11, <<23, 36>>))), S(D(33, B(11, <<23, 36>>)))>>)),
  Speaks("VNC", TcpTo(5900, <<S(Rfb), C(Rfb)>>)),
  Speaks("TELNET", TcpTo(23, <<S(Iac), C(Iac), S(Iac), S(T(7, B(0, <<108>>), {<<0, "login:">>})), C(D(1, B(0, <<13>>)))>>)),
  Speaks("SSH", TcpTo(22, <<C(Banner(<<7, 4, 0>>)), S(Banner(<<6, 9, 0>>)), C(Kex), S(Kex)>>)),
  Speaks("OPENVPN", UdpTo(1194, <<C(D(54, B(0, <<56>>) @@ B(1, Session) @@ B(32, <<1>>))),
                                  S(D(62, B(0, <<64>>) @@ B(32, <<1>>) @@ B(37, <<1>>) @@ B(42, Session)))>>)),
  Speaks("WIREGUARD", UdpTo(51820, <<C(D(148, B(0, <<1, 0, 0, 0, 7>>))), S(D(92, B(0, <<2>>) @@ B(8, <<7>>)))>>)),
  Speaks("WIREGUARD", UdpTo(51820, <<C(D(64, B(0, <<4, 0, 0, 0, 7>>))), S(D(64, B(0, <<4, 0, 0, 0, 8>>))),
                                     C(D(65, B(0, <<4, 0, 0, 0, 7>>)))>>)),
  Speaks("TINC", TcpTo(655, TincMeta) \o UdpTo(655, <<C(D(100, B(0, <<9>>)))>>)),
  Speaks("CISCOVPN", Conn(6, FALSE, 10000, 10000, ServerAddress, <<C(D(10, B(0, <<9>>)))>>)),
  Speaks("SOCKS", TcpTo(1080, <<C(D(3, B(0, <<5, 1, 0>>))), S(D(2, B(0, <<5, 0>>)))>>)),
  Speaks("SOCKS", TcpTo(1080, <<C(D(9, B(0, <<4, 1>>))), S(D(8, B(0, <<0, 90>>)))>>)),
  Speaks("TFTP", UdpTo(69, <<C(T(20, B(0, <<0, 1>>), {<<14, "octet">>}))>>))}

-----------------------------------------------------------------------------
(* Media and calls.                                                        *)
LOCAL Bind(attribute) == D(28, B(0, <<0, 1, 0, 8>>) @@ B(20, attribute))
LOCAL Plain == <<128, 34, 0, 4>>
Media == {
  Speaks("RTCP", UdpTo(5005, <<C(D(28, B(0, <<128, 200, 0, 6>>)))>>)),
  Speaks("RTMP", TcpTo(1935, <<C(D(10, B(0, <<3>>))), S(D(11, B(0, <<3>>)))>>)),
  Speaks("RTSP", TcpTo(554, <<C(T(60, B(0, <<68, 69, 83, 67>>), {<<-1, "first line ends RTSP/1.0">>}))>>)),
  Speaks("RTP", UdpTo(5004, <<C(D(172, B(0, <<128, 0>>)))>>)),
  Speaks("SIP", UdpTo(5060, <<C(T(200, B(0, <<82, 69, 71, 73>>), {<<0, "REGISTER sip:">>}))>>)),
  Speaks("STUN", UdpTo(3478, <<C(Bind(Plain)), S(Bind(Plain)), C(Bind(Plain))>>)),
  Speaks("WHATSAPP_CALL", UdpTo(3478, <<C(Bind(<<64, 0, 0, 4>>)), C(Bind(Plain)), S(Bind(Plain))>>)),
  Speaks("FACEBOOK_VOIP", Conn(17, FALSE, 40000, 3478, 30,
    <<C(H(28, B(0, <<0, 1, 0, 8>>) @@ B(20, <<0, 20, 0, 4>>), {}, [realm |-> "facebook"]))>>))}

-----------------------------------------------------------------------------
(* Mail, files and chat.                                                   *)
LOCAL Pop(cmd, b) == T(20, B(0, b) @@ Crlf2(20), {<<0, cmd>>, <<-1, "argument">>})
LOCAL Imap(cmd) ==
  H(22, B(0, <<97, 49, 32, 76>>) @@ Crlf2(22), {},
    ("tagged command" :> cmd @@ "command" :> cmd @@ "user" :> "u" @@ "password" :> "p"))
LOCAL Smtp(cmd, b) == H(30, B(0, b) @@ Crlf2(30), {<<0, cmd>>}, [lines |-> <<cmd>>, name |-> "mx"])
LOCAL Ftp(cmd, b) == T(16, B(0, b), {<<0, cmd>>, <<-1, "argument">>})
LOCAL Irc(cmd, b) == H(20, B(0, b) @@ B(19, <<10>>), {<<0, cmd>>}, [lines |-> <<cmd>>])
Dialogues == {
  Speaks("MAIL_POP", TcpTo(110, <<S(Pop("+OK", <<43, 79, 75, 32>>)), C(Pop("USER", <<85, 83, 69, 82>>)),
                                  C(Pop("PASS", <<80, 65, 83, 83>>)), S(Pop("+OK", <<43, 79, 75, 32>>))>>)),
  Speaks("MAIL_IMAP", TcpTo(143, <<S(Imap("OK")), C(Imap("LOGIN")), S(Imap("OK"))>>)),
  Speaks("MAIL_IMAPS", TcpTo(143, <<S(Imap("OK")), C(Imap("STARTTLS"))>>)),
  Speaks("MAIL_SMTP", TcpTo(25, <<S(Smtp("220", <<50, 50, 48, 32>>)), C(Smtp("HELO", <<72, 69, 76, 79>>)),
                                  S(Smtp("250", <<50, 53, 48, 32>>))>>)),
  Speaks("FTP_CONTROL", TcpTo(21, <<C(Ftp("PASS", <<80, 65, 83, 83>>)), S(Ftp("230", <<50, 51, 48, 32>>))>>)),
  Speaks("FTP_DATA", TcpTo(20, <<Open, S(T(300, B(0, <<80, 75, 3, 4>>), {<<0, "PK">>}))>>)),
  Speaks("IRC", TcpTo(6667, <<C(Irc("NICK ", <<78, 73, 67, 75>>)), C(Irc("USER ", <<85, 83, 69, 82>>)),
                              C(Irc("JOIN ", <<74, 79, 73, 78>>))>>))}

-----------------------------------------------------------------------------
(* The web.                                                                *)
LOCAL Get(host) ==
  H(200, B(0, <<71, 69, 84, 32, 47>>) @@ Crlf2(200), {<<0, "GET ">>, <<-1, " HTTP/1.">>, <<-1, "\r\n">>},
    [host |-> host, user_agent |-> "Mozilla", os |-> "Windows NT 6.1", lines |-> <<"GET ", "host">>])
LOCAL Ok ==
  H(150, B(0, <<72, 84, 84, 80, 47>>) @@ Crlf2(150), {<<0, "HTTP/1.">>, <<-1, "\r\n\r\n">>},
    [response |-> "200", content |-> "application/exe", signature |-> "MZ", lines |-> <<"HTTP", "content">>])
LOCAL Hello(name) == [version |-> 771, session |-> 0, cookie |-> 0, ciphers |-> <<4865, 49195>>,
  exts |-> <<[id |-> 0, len |-> 12, data |-> <<name>>], [id |-> 16, len |-> 4, data |-> <<"h2">>]>>, rest |-> 24]
LOCAL Server == [version |-> 771, session |-> 0, cookie |-> 0, ciphers |-> <<47>>, exts |-> <<>>, rest |-> 0]
LOCAL Cert == [sound |-> TRUE, issuer |-> <<"CN=ca">>, notBefore |-> 0, notAfter |-> 1000000000,
  names |-> <<[name |-> "plain", covers |-> {"plain"}]>>, subject |-> <<"O=Netflix">>]
LOCAL Rec(len, block) == [at |-> 0, type |-> 22, len |-> len, alert |-> 0, blocks |-> <<block>>]
LOCAL ClientHello(name) ==
  H(105, B(0, <<22, 3, 1, 0, 100>>), {}, [tls |-> {Rec(105, [kind |-> 1, len |-> 100, hello |-> Hello(name)])}])
LOCAL ServerFlight == H(280, B(0, <<22, 3, 3, 0, 75>>), {},
  [tls |-> {Rec(80, [kind |-> 2, len |-> 75, hello |-> Server]),
            [at |-> 80, type |-> 22, len |-> 200, alert |-> 0,
             blocks |-> <<[kind |-> 11, len |-> 195, cert |-> Cert]>>]}])
LOCAL QuicHello(name) ==
  H(1350, B(0, <<9>>) @@ B(9, <<81, 48, 52, 51>>) @@ B(26, <<160, 1, 0, 100>>), {<<30, "CHLO">>}, [sni |-> name])
Web == {
  Speaks("HTTP", TcpTo(80, <<Open, C(Get("plain")), S(Ok)>>)),
  Speaks("FACEBOOK", TcpTo(80, <<C(Get("facebook")), S(Ok)>>)),
  Speaks("HTTP", TcpTo(8080, <<C(Get("random")), S(Ok)>>)),
  Speaks("TLS", TcpTo(443, <<C(ClientHello("plain")), S(ServerFlight)>>)),
  Speaks("FACEBOOK", TcpTo(443, <<Open, C(ClientHello("facebook")), S(ServerFlight)>>)),
  Speaks("MAIL_IMAPS", TcpTo(993, <<C(ClientHello("plain"))>>)),
  Speaks("DTLS", UdpTo(4433, <<C(H(125, B(0, <<22, 254, 253>>) @@ B(11, <<0, 112, 1, 0, 0, 100>>), {},
    [tls |-> {Rec(125, [kind |-> 1, len |-> 104, hello |-> Hello("plain")])}]))>>)),
  Speaks("QUIC", UdpTo(443, <<C(QuicHello("plain"))>>)),
  Speaks("FACEBOOK", UdpTo(443, <<C(QuicHello("facebook"))>>)),
  Speaks("WEBSOCKET", TcpTo(9000, <<C(D(7, B(0, <<129, 5>>)))>>))}

-----------------------------------------------------------------------------
(* Conversations that meet in a cache: peers of BitTorrent over TCP and    *)
(* UDP, and packets no dissector knows between the same hosts.             *)
LOCAL Handshake == T(68, B(0, <<19, 66, 105, 116>>), {<<1, "BitTorrent protocol">>, <<-1, "BitTorrent protocol">>})
Peers == {
  Speaks("BITTORRENT", TcpTo(6881, <<C(Handshake)>>)
                       \o Conn(17, FALSE, 40000, 6881, ServerAddress, <<C(D(30, B(0, <<200, 7, 9>>)))>>)),
  Speaks("BITTORRENT", UdpTo(6881, <<C(T(90, B(0, <<100, 49, 58, 97>>), {<<0, "d1:ad2:id20:">>})),
                                     S(T(90, B(0, <<100, 49, 58, 114>>), {<<-1, "d1:rd2:id20:">>}))>>)
                       \o TcpTo(50000, <<C(D(30, B(0, <<200, 7, 9>>)))>>)),
  Speaks("UNKNOWN", TcpTo(50000, <<Open, C(D(30, B(0, <<200, 7, 9>>))), S(D(30, B(0, <<201, 7, 9>>)))>>)),
  Speaks("UNKNOWN", UdpTo(50000, <<C(D(30, B(0, <<200, 7, 9>>))), S(D(30, B(0, <<201, 7, 9>>)))>>))}

Conversations == Services \cup Names \cup Stores \cup Remotes \cup Media \cup Dialogues \cup Web \cup Peers
=============================================================================
