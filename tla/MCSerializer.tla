---------------------------- MODULE MCSerializer ----------------------------
EXTENDS SerializerUse

(* Every structure around plain values.                                    *)
Structured ==
    {Call("string_uint32", "a", "u8"), Call("end_of_record", "", ""), Call("raw_record", "", "r"),
     Call("start_of_list", "l", ""), Call("end_of_list", "", ""),
     Call("start_of_block", "b", ""), Call("end_of_block", "", "")}

Around == {Call("end_of_record", "", ""), Call("start_of_list", "l", ""), Call("end_of_list", "", "")}

(* Every type of value, by number and by name.                             *)
UnsignedCalls ==
    Around
    \cup [op : {"uint32_uint32"}, key : {"12", "3000", "70000"}, v : {"u8", "u16", "u32"}]
    \cup [op : {"string_uint32"}, key : {"a", "12"}, v : {"u8", "u32"}]
    \cup [op : {"string_uint64"}, key : {"a", "12"}, v : {"u8", "u64"}]
    \cup [op : {"uint32_uint64"}, key : {"12"}, v : {"u16", "u64"}]

SignedCalls ==
    Around
    \cup [op : {"uint32_int32"}, key : {"12"}, v : {"n8", "i16"}]
    \cup [op : {"string_int32", "binary_int32"}, key : {"a", "12"}, v : {"n8", "i32", "g32"}]
    \cup [op : {"string_int64", "uint32_int64"}, key : {"12"}, v : {"n8", "i16", "i33", "i64"}]
    \cup [op : {"string_int64"}, key : {"a"}, v : {"n8", "i16", "i33", "i64"}]

OtherCalls ==
    Around
    \cup [op : {"string_float"}, key : {"a", "12"}, v : {"%.3f", "%.6f"}]
    \cup [op : {"uint32_float", "uint32_string"}, key : {"12"}, v : {"%.3f"}]
    \cup [op : {"string_string", "string_binary", "string_raw"}, key : {"a", "12"}, v : {"s"}]
    \cup [op : {"string_string", "string_binary"}, key : {"a"}, v : {""}]
    \cup [op : {"string_uint32_format"}, key : {"a"}, v : {"u16"}]
    \cup [op : {"uint32_boolean", "string_boolean"}, key : {"12"}, v : {"true"}]
    \cup [op : {"string_boolean"}, key : {"a"}, v : {"false"}]

MCCallers == {[calls |-> Structured, max |-> 6], [calls |-> UnsignedCalls, max |-> 3],
              [calls |-> SignedCalls, max |-> 3], [calls |-> OtherCalls, max |-> 3]}

Protocols == {"UNKNOWN", "IP_ICMP", "DHCP", "BITTORRENT", "DNS", "NTP", "MDNS", "UBNTAC2",
              "KERBEROS", "TELNET", "HTTP", "QUIC", "MAIL_IMAP", "MAIL_POP", "MAIL_SMTP",
              "FTP_CONTROL", "SSH", "TLS", "DTLS"}

Fields == {"risk", "category", "entropy", "host", "url", "user_agent", "server_names",
           "ssl_version", "known_version", "notBefore", "notAfter", "issuerDN", "subjectDN",
           "alpn", "tls_supported_versions", "fingerprint"}

MCReports == [proto : Protocols, has : {{}, {"risk", "entropy"}}]
             \cup [proto : {"TLS", "QUIC", "HTTP", "DNS"},
                   has : {Fields, Fields \ {"risk", "known_version"}}]
=============================================================================
