---------------------------- MODULE NdpiDefaults ----------------------------
(***************************************************************************)
(* The tables nDPI builds when its detection module is initialised: the    *)
(* default ports of every protocol, which guess a flow before a byte of it *)
(* is looked at, and the list of dissectors in the order in which they are *)
(* tried.                                                                  *)
(***************************************************************************)
EXTENDS NdpiPeer, NdpiTls

\* ndpi_init_protocol_defaults, in its order: default ports over TCP and UDP, and the
\* protocols registered as not clear text.  A protocol without ports is not listed.
ProtocolDefaults1 ==
  [tcp |-> <<<<"FTP_CONTROL", {21}>>, <<"FTP_DATA", {20}>>, <<"MAIL_POP", {110}>>,
             <<"MAIL_POPS", {995}>>, <<"MAIL_SMTP", {25}>>, <<"MAIL_SMTPS", {465, 587}>>,
             <<"MAIL_IMAP", {143}>>, <<"MAIL_IMAPS", {993}>>, <<"DNS", {53}>>, <<"HTTP", {80}>>,
             <<"NETBIOS", {139}>>, <<"NFS", {2049}>>, <<"BGP", {179, 2605}>>, <<"XDMCP", {177}>>,
             <<"SMBV1", {445}>>, <<"SYSLOG", {514}>>, <<"POSTGRES", {5432}>>, <<"MYSQL", {3306}>>>>,
   udp |-> <<<<"DNS", {53}>>, <<"MDNS", {5353, 5354}>>, <<"NTP", {123}>>,
             <<"NETBIOS", {137, 138, 139}>>, <<"NFS", {2049}>>, <<"SNMP", {161, 162}>>,
             <<"XDMCP", {177}>>, <<"SYSLOG", {514}>>, <<"DHCP", {67, 68}>>,
             <<"AMONG_US", {22023}>>>>,
   encrypted |-> {"MAIL_POPS", "MAIL_SMTPS", "MAIL_IMAPS", "NATS"}]

ProtocolDefaults2 ==
  [tcp |-> <<<<"VMWARE", {903}>>, <<"BITTORRENT", {51413, 53646}>>, <<"MEMCACHED", {11211}>>,
             <<"SMBV23", {445}>>, <<"MINING", {8333, 30303}>>, <<"NEST_LOG_SINK", {11095}>>,
             <<"MODBUS", {502}>>, <<"DOH_DOT", {853}>>, <<"RTSP", {554}>>>>,
   udp |-> <<<<"VMWARE", {902, 903}>>, <<"BITTORRENT", {6771, 51413}>>, <<"MEMCACHED", {11211}>>,
             <<"DOH_DOT", {784}>>, <<"WIREGUARD", {51820}>>, <<"RTSP", {554}>>, <<"CPHA", {8116}>>>>,
   encrypted |-> {"SKYPE_TEAMS", "GOOGLE", "SKYPE_CALL", "TIKTOK", "WECHAT", "WHATSAPP_CALL",
                  "DATASAVER", "SIGNAL", "DOH_DOT", "REDDIT", "WIREGUARD", "QQ", "DISCORD",
                  "TVUPLAYER"}]

ProtocolDefaults3 ==
  [tcp |-> <<<<"IRC", {194}>>, <<"TELNET", {23}>>, <<"IP_IPSEC", {500}>>, <<"IP_OSPF", {2604}>>,
             <<"RDP", {3389}>>, <<"VNC", {5900, 5901, 5800}>>, <<"TLS", {443}>>, <<"SSH", {22}>>,
             <<"IAX", {4569}>>>>,
   udp |-> <<<<"IRC", {194}>>, <<"AYIYA", {5072}>>, <<"STUN", {3478}>>,
             <<"IP_IPSEC", {500, 4500}>>, <<"RDP", {3389}>>, <<"IAX", {4569}>>>>,
   encrypted |-> {"DISNEYPLUS", "STEAM", "HOTSPOT_SHIELD", "IP_IPSEC", "ZOOM", "WHATSAPP_FILES",
                  "WHATSAPP", "TLS", "DTLS", "SSH"}]

ProtocolDefaults4 ==
  [tcp |-> <<<<"AFP", {548}>>, <<"CHECKMK", {6556}>>, <<"SIP", {5060, 5061}>>,
             <<"KERBEROS", {88}>>, <<"LDAP", {389}>>, <<"MSSQL_TDS", {1433, 1434}>>,
             <<"DCERPC", {135}>>, <<"HTTP_CONNECT", {8080}>>, <<"HTTP_PROXY", {8080, 3128}>>,
             <<"CITRIX", {1494, 2598}>>, <<"RADIUS", {1812, 1813}>>, <<"TEAMVIEWER", {5938}>>,
             <<"LOTUS_NOTES", {1352}>>, <<"SAP", {3201}>>>>,
   udp |-> <<<<"AFP", {548}>>, <<"SIP", {5060, 5061}>>, <<"KERBEROS", {88}>>, <<"LDAP", {389}>>,
             <<"NETFLOW", {2055}>>, <<"SFLOW", {6343}>>, <<"RADIUS", {1812, 1813}>>,
             <<"TEAMVIEWER", {5938}>>, <<"GTP", {2152, 2123}>>>>,
   encrypted |-> {"HULU", "AMAZON_ALEXA", "CITRIX", "WEBEX", "TEAMVIEWER"}]

ProtocolDefaults5 ==
  [tcp |-> <<<<"ETHERNET_IP", {44818}>>, <<"DIAMETER", {3868}>>, <<"LLMNR", {5355}>>,
             <<"REMOTE_SCAN", {6077}>>, <<"H323", {1719, 1720}>>, <<"OPENVPN", {1194}>>,
             <<"CISCOVPN", {10000, 8008, 8009}>>, <<"SKINNY", {2000}>>, <<"RSYNC", {873}>>,
             <<"ORACLE", {1521}>>, <<"WHOIS_DAS", {43, 4343}>>, <<"SOCKS", {1080}>>,
             <<"RTMP", {1935}>>>>,
   udp |-> <<<<"WSD", {3702}>>, <<"QUIC", {443}>>, <<"DROPBOX", {17500}>>,
             <<"LISP", {4342, 4341}>>, <<"EAQ", {6000}>>, <<"LLMNR", {5355}>>,
             <<"REMOTE_SCAN", {6078}>>, <<"H323", {1719, 1720}>>, <<"OPENVPN", {1194}>>,
             <<"CISCOVPN", {10000}>>, <<"COLLECTD", {25826}>>, <<"SOCKS", {1080}>>,
             <<"TFTP", {69}>>>>,
   encrypted |-> {"TELEGRAM", "QUIC", "APPLE_PUSH", "SPOTIFY", "MESSENGER", "OPENVPN", "CISCOVPN",
                  "TOR", "PINTEREST"}]

ProtocolDefaults6 ==
  [tcp |-> <<<<"REDIS", {6379}>>, <<"STARCRAFT", {1119}>>, <<"VIBER", {7985, 5242, 5243, 4244}>>,
             <<"MQTT", {1883, 8883}>>, <<"SOMEIP", {30491, 30501}>>, <<"GIT", {9418}>>,
             <<"TINC", {655}>>, <<"AJP", {8009, 8010}>>, <<"TARGUS_GETDATA", {5001, 5201}>>,
             <<"DNP3", {20000}>>, <<"IEC60870", {2404}>>, <<"ZABBIX", {10050}>>,
             <<"S7COMM", {102}>>, <<"MONGODB", {27017}>>>>,
   udp |-> <<<<"MEGACO", {2944}>>, <<"VHUA", {58267}>>, <<"STARCRAFT", {1119}>>,
             <<"UBNTAC2", {10001}>>, <<"VIBER", {7985, 7987, 5242, 5243, 4244}>>,
             <<"COAP", {5683, 5684}>>, <<"SOMEIP", {30491, 30501, 30490}>>, <<"BJNP", {8612}>>,
             <<"TINC", {655}>>, <<"TARGUS_GETDATA", {5001, 5201}>>, <<"CAPWAP", {5246, 5247}>>>>,
   encrypted |-> {"VIBER", "HANGOUT_DUO", "DNSCRYPT", "AMAZON_VIDEO", "MSTEAMS"}]

ProtocolDefaults7 ==
  [tcp |-> <<<<"Z3950", {210}>>, <<"CASSANDRA", {9042}>>>>,
   udp |-> <<<<"GENSHIN_IMPACT", {22102}>>>>,
   encrypted |-> {"APPLE_SIRI", "FORTICLIENT", "AVAST_SECUREDNS", "FACEBOOK_VOIP", "SIGNAL_VOIP",
                  "MICROSOFT_AZURE"}]

AllDefaults == <<ProtocolDefaults1, ProtocolDefaults2, ProtocolDefaults3, ProtocolDefaults4,
                 ProtocolDefaults5, ProtocolDefaults6, ProtocolDefaults7>>

\* Protocols of breed UNSAFE, POTENTIALLY_DANGEROUS or DANGEROUS.
UnsafeProtocols ==
  {"FTP_CONTROL", "MAIL_POP", "MAIL_IMAP", "EDONKEY", "MINING", "IRC", "TELNET",
   "DIRECT_DOWNLOAD_LINK", "APPLEJUICE", "DIRECTCONNECT", "KONTIKI", "OPENFT", "FASTTRACK",
   "GNUTELLA", "HOTSPOT_SHIELD", "STEALTHNET", "REMOTE_SCAN", "TOR", "SMBV1"}

\* The <<protocol, ports>> entries over one transport, in the order of registration.
PortEntries(l4) ==
  LET join[i \in 0..Len(AllDefaults)] ==
        IF i = 0 THEN <<>>
        ELSE join[i - 1] \o (IF l4 = Tcp THEN AllDefaults[i].tcp ELSE AllDefaults[i].udp)
  IN join[Len(AllDefaults)]

\* addDefaultPort: of two protocols that register the same port the later one keeps it.
addDefaultPort(entries) ==
  LET owners(port) == {i \in DOMAIN entries : port \in entries[i][2]}
      last(S) == CHOOSE i \in S : \A j \in S : j <= i
  IN [port \in UNION {entries[i][2] : i \in DOMAIN entries} |-> entries[last(owners(port))][1]]

tcpEntries == PortEntries(Tcp)
udpEntries == PortEntries(Udp)
tcpRoot == addDefaultPort(tcpEntries)
udpRoot == addDefaultPort(udpEntries)

\* tcp_default_ports and udp_default_ports: a protocol's own ports, shared or not.
ndpi_set_proto_defaults(l4, id) ==
  LET entries == IF l4 = Tcp THEN tcpEntries ELSE udpEntries
  IN UNION {entries[i][2] : i \in {j \in DOMAIN entries : entries[j][1] = id}}

\* ndpi_set_proto_subprotocols: the subprotocols with a dissector of their own, in order;
\* those of the other protocols are matched by content.
ndpi_set_proto_subprotocols(id) ==
  IF id = "HTTP"
  THEN <<"AIMINI", "CROSSFIRE", "BITTORRENT", "DIRECT_DOWNLOAD_LINK", "GNUTELLA", "MAPLESTORY",
         "ZATTOO", "WORLDOFWARCRAFT", "THUNDER", "IRC">>
  ELSE <<>>

-----------------------------------------------------------------------------
(* The dissectors.  A selection mask is the set of what a packet must be.   *)

TcpData == {"v4 or v6", "tcp", "payload"}
NewTcpData == TcpData \cup {"no retransmission"}
UdpData == {"v4 or v6", "udp", "payload"}
V4UdpData == {"v4", "udp", "payload"}
V6UdpData == {"v6", "udp", "payload"}
AnySegment == {"v4 or v6", "tcp or udp"}
AnyData == AnySegment \cup {"payload"}
NewData == AnyData \cup {"no retransmission"}
V4NewSegment == {"v4", "tcp or udp", "no retransmission"}
AnyPacket == {"v4 or v6"}

\* ndpi_set_protocol_detection_bitmask2 calls the init function of every dissector, in this
\* order; each registers <<protocol, function, selection mask>>.  The protocols LANShield
\* does not enable leave an empty slot and are not listed.
Callbacks1 ==
  <<<<"HTTP", "ndpi_search_http_tcp", TcpData>>, <<"TLS", "ndpi_search_tls_wrapper", NewTcpData>>,
    <<"DTLS", "ndpi_search_tls_wrapper", UdpData>>, <<"RTP", "ndpi_search_rtp", UdpData>>,
    <<"RTSP", "ndpi_search_rtsp_tcp_udp", AnyData>>, <<"RDP", "ndpi_search_rdp", NewData>>,
    <<"STUN", "ndpi_search_stun", UdpData>>, <<"SIP", "ndpi_search_sip", NewData>>,
    <<"NATS", "ndpi_search_nats_tcp", NewTcpData>>, <<"SOCKS", "ndpi_search_socks", NewTcpData>>,
    <<"IRC", "ndpi_search_irc_tcp", NewTcpData>>,
    <<"MAIL_POP", "ndpi_search_mail_pop_tcp", NewTcpData>>,
    <<"MAIL_IMAP", "ndpi_search_mail_imap_tcp", NewTcpData>>,
    <<"MAIL_SMTP", "ndpi_search_mail_smtp_tcp", NewTcpData>>,
    <<"DNS", "ndpi_search_dns", NewData>>,
    <<"IP_IPSEC", "ndpi_search_in_non_tcp_udp", AnyPacket>>,
    <<"IP_GRE", "ndpi_search_in_non_tcp_udp", AnyPacket>>,
    <<"IP_ICMP", "ndpi_search_in_non_tcp_udp", AnyPacket>>,
    <<"IP_IGMP", "ndpi_search_in_non_tcp_udp", AnyPacket>>,
    <<"IP_EGP", "ndpi_search_in_non_tcp_udp", AnyPacket>>,
    <<"IP_SCTP", "ndpi_search_in_non_tcp_udp", AnyPacket>>,
    <<"IP_OSPF", "ndpi_search_in_non_tcp_udp", AnyPacket>>,
    <<"IP_IP_IN_IP", "ndpi_search_in_non_tcp_udp", AnyPacket>>,
    <<"SSH", "ndpi_search_ssh_tcp", NewTcpData>>>>

Callbacks2 ==
  <<<<"VNC", "ndpi_search_vnc_tcp", NewTcpData>>,
    <<"TEAMVIEWER", "ndpi_search_teamview", AnySegment>>,
    <<"DHCP", "ndpi_search_dhcp_udp", V4UdpData>>,
    <<"SMBV23", "ndpi_search_smb_tcp", NewTcpData>>,
    <<"TELNET", "ndpi_search_telnet_tcp", NewTcpData>>, <<"NTP", "ndpi_search_ntp_udp", UdpData>>,
    <<"NFS", "ndpi_search_nfs", NewData>>, <<"SSDP", "ndpi_search_ssdp", UdpData>>,
    <<"POSTGRES", "ndpi_search_postgres_tcp", NewTcpData>>,
    <<"MYSQL", "ndpi_search_mysql_tcp", NewTcpData>>, <<"SNMP", "ndpi_search_snmp", UdpData>>,
    <<"KERBEROS", "ndpi_search_kerberos", NewData>>, <<"SYSLOG", "ndpi_search_syslog", NewData>>,
    <<"NETBIOS", "ndpi_search_netbios", NewData>>, <<"IPP", "ndpi_search_ipp", NewData>>,
    <<"TFTP", "ndpi_search_tftp", UdpData>>, <<"PPTP", "ndpi_search_pptp", NewTcpData>>,
    <<"STEALTHNET", "ndpi_search_stealthnet", NewTcpData>>,
    <<"DHCPV6", "ndpi_search_dhcpv6_udp", V6UdpData>>>>

Callbacks3 ==
  <<<<"RADIUS", "ndpi_search_radius", UdpData>>, <<"NETFLOW", "ndpi_search_netflow", UdpData>>,
    <<"SFLOW", "ndpi_search_sflow", UdpData>>, <<"OPENVPN", "ndpi_search_openvpn", AnyData>>,
    <<"CISCOVPN", "ndpi_search_ciscovpn", AnyData>>, <<"RTCP", "ndpi_search_rtcp", AnyData>>,
    <<"RTMP", "ndpi_search_rtmp", NewTcpData>>,
    <<"FTP_CONTROL", "ndpi_search_ftp_control", NewTcpData>>,
    <<"FTP_DATA", "ndpi_search_ftp_data", NewTcpData>>>>

Callbacks4 ==
  <<<<"REDIS", "ndpi_search_redis", NewTcpData>>, <<"ZMQ", "ndpi_search_zmq", NewTcpData>>,
    <<"QUIC", "ndpi_search_quic", UdpData>>, <<"MQTT", "ndpi_search_mqtt", TcpData>>,
    <<"RX", "ndpi_search_rx", UdpData>>, <<"GIT", "ndpi_search_git", NewTcpData>>,
    <<"TINC", "ndpi_search_tinc", V4NewSegment>>,
    <<"BITTORRENT", "ndpi_search_bittorrent", NewData>>,
    <<"WIREGUARD", "ndpi_search_wireguard", UdpData>>,
    <<"WEBSOCKET", "ndpi_search_websocket", TcpData>>,
    <<"DNSCRYPT", "ndpi_search_dnscrypt", AnyData>>, <<"Z3950", "ndpi_search_z3950", NewTcpData>>>>

\* ndpi_set_bitmask_protocol_detection: a protocol that is not enabled is not registered.
ndpi_set_bitmask_protocol_detection ==
  SelectSeq(Callbacks1 \o Callbacks2 \o Callbacks3 \o Callbacks4,
            LAMBDA c : c[1] \in EnabledProtocols)

\* The detected protocols under which a callback runs: none yet, or its own.  non_tcp_udp.c
\* registers its callbacks without UNKNOWN.
detection_bitmask(c) ==
  IF c[2] = "ndpi_search_in_non_tcp_udp" THEN {c[1]} ELSE {Unknown, c[1]}

\* The lists the dispatcher walks, by transport and payload.
callback_buffer_tcp_payload ==
  SelectSeq(ndpi_set_bitmask_protocol_detection, LAMBDA c : {"tcp", "tcp or udp"} \cap c[3] # {})
callback_buffer_tcp_no_payload ==
  SelectSeq(callback_buffer_tcp_payload, LAMBDA c : "payload" \notin c[3])
callback_buffer_udp ==
  SelectSeq(ndpi_set_bitmask_protocol_detection, LAMBDA c : {"udp", "tcp or udp"} \cap c[3] # {})
callback_buffer_non_tcp_udp ==
  SelectSeq(ndpi_set_bitmask_protocol_detection,
            LAMBDA c : {"tcp", "udp", "tcp or udp"} \cap c[3] = {})

\* proto_defaults[id].func and its slot, for the protocols that have a dissector.
CallbackOf ==
  LET callbacks == {ndpi_set_bitmask_protocol_detection[i] :
                      i \in DOMAIN ndpi_set_bitmask_protocol_detection}
  IN [id \in {c[1] : c \in callbacks} |-> CHOOSE c \in callbacks : c[1] = id]
=============================================================================
