------------------------------- MODULE NdpiWeb -------------------------------
(***************************************************************************)
(* HTTP and what rides on it.  The header lines of a packet are in p.h by  *)
(* the names of ndpi_packet_struct's line fields without "_line": host     *)
(* (the name, without its port), content, referer and so on; "other"       *)
(* stands for the headers that are only counted.                           *)
(***************************************************************************)
EXTENDS NdpiFlow

-----------------------------------------------------------------------------
(* What the addresses of a flow suggest, when no host name is known.       *)

ndpi_is_tor_flow(p, f) == IsTcp(p) /\ ~p.v6 /\ f.guessedHost = "TOR"

ndpi_search_tcp_or_udp_raw(p, f) ==
  IF IsUdp(p) /\ p.sport = 17500 /\ p.dport = 17500 THEN "DROPBOX" ELSE f.guessedHost

ndpi_search_tcp_or_udp(p, f) ==
  IF f.host # "" THEN f
  ELSE IF ndpi_is_tor_flow(p, f) THEN FoundOnly(f, "TOR")
  ELSE IF ~p.v6 /\ ndpi_search_tcp_or_udp_raw(p, f) # Unknown
  THEN ndpi_set_detected_protocol(f, ndpi_search_tcp_or_udp_raw(p, f), Unknown, "match_by_port")
  ELSE f

-----------------------------------------------------------------------------
(* WebSocket.  The mask bit is compared with 1, so a masked frame is       *)
(* measured as an unmasked one.                                            *)

FrameTypes == {1, 129, 2, 130, 8, 136, 9, 137, 10, 138}

set_websocket_detected(p, f) ==
  IF f.app # Unknown THEN f
  ELSE LET g == ndpi_int_reset_protocol(ndpi_search_tcp_or_udp(p, f))
       IN Found(g, "WEBSOCKET", f.guessedHost)

ndpi_check_websocket(p, f) ==
  IF p.len >= 2 /\ p.len = 2 + (U8(p, 1) % 128) /\ U8(p, 0) \in FrameTypes
  THEN set_websocket_detected(p, f) ELSE Excl(f, "WEBSOCKET")

ndpi_search_websocket(p, f) ==
  IF f.packets > 10 THEN Excl(f, "WEBSOCKET")
  ELSE IF f.app # Unknown THEN f ELSE ndpi_check_websocket(p, f)

-----------------------------------------------------------------------------
(* The lines of a text packet.                                             *)

\* The lines the parser knows; it cuts off after NDPI_MAX_PARSE_LINES_PER_PACKET.
KnownLines ==
  {"response", "server", "host", "forwarded", "authorization", "accept", "referer",
   "user_agent", "http_encoding", "http_transfer_encoding", "http_contentlen",
   "content_disposition", "http_cookie", "http_origin", "http_x_session_type", "other",
   "content"}

http_num_headers(p) == Cardinality(KnownLines \cap DOMAIN p.h)

\* The status of a response, 0 unless it is one of HTTP's.
HttpStatus(p) == IF IsNum(p, 9) /\ p.n[9] \in 100..509 THEN p.n[9] ELSE 0

\* Parsing leaves the status of a response and the first bytes behind the blank line, here
\* by the file type they begin with.
ndpi_parse_packet_line_info(p, f) ==
  LET g == IF HasLine(p, "response") THEN Put(f, "response_status_code", HttpStatus(p)) ELSE f
  IN IF p.len >= 3 /\ HasLine(p, "signature")
     THEN Put(g, "initial_binary_bytes", p.h["signature"]) ELSE g

-----------------------------------------------------------------------------
(* What the content of a response tells.                                   *)

ndpi_set_binary_application_transfer(f) ==
  IF f.host = "download.windowsupdate.com" THEN f
  ELSE ndpi_set_risk(f, "binary_application_transfer")

\* Executables begin with MZ, ELF, the Mach-O magic, #!/ or dex.
ndpi_analyze_content_signature(f) ==
  IF f.v["initial_binary_bytes"] \in {"MZ", "ELF", "MachO", "#!/", "dex"}
  THEN ndpi_set_binary_application_transfer(f) ELSE f

\* A text whose first four bytes are neither printable nor gzip's.
ndpi_http_check_human_redeable_content(p, f) ==
  IF Has(p, "binary body") THEN ndpi_set_risk(f, "http_suspicious_content") ELSE f

TextTypes == {"text/html", "application/json", "application/x-www-form-urlencoded"}

ndpi_validate_http_content(p, f) ==
  LET g == IF Line(p, "content") \in TextTypes /\ Has(p, "body of 4")
           THEN ndpi_http_check_human_redeable_content(p, f) ELSE f
  IN IF ~Has(p, "\r\n\r\n") THEN f
     ELSE IF /\ ndpi_isset_risk(g, "binary_application_transfer")
             /\ Holds(g, "user_agent") /\ Holds(g, "content_type")
             /\ g.v["user_agent"] = "Java/" /\ g.v["content_type"] = "application/java-vm"
     THEN ndpi_set_risk(g, "possible_exploit") ELSE g

DownloadMimes ==
  {"application/bz", "application/bz2", "application/octet-stream", "application/x-tar",
   "application/x-zip", "application/x-bzip"}
BinaryMimes ==
  {"application/exe", "application/java-vm", "application/vnd.ms-cab-compressed",
   "application/vnd.microsoft.portable-executable", "application/x-msdownload",
   "application/x-dosexec"}
MediaMimes == {"audio", "video"}

\* "content_disposition" is the extension of the attachment's file name.
ndpi_http_check_content(p, f) ==
  LET c == Line(p, "content")
      download == ndpi_int_change_category(f, "download")
      g == IF c \in DownloadMimes THEN download ELSE f
      h == ndpi_validate_http_content(p, g)
  IN IF c = "" THEN f
     ELSE IF c = "application/mpeg" THEN ndpi_int_change_category(f, "streaming")
     ELSE IF c \in BinaryMimes THEN ndpi_set_binary_application_transfer(download)
     ELSE IF Line(p, "content_disposition") \in {"exe", "msi", "cab"}
     THEN ndpi_set_binary_application_transfer(ndpi_int_change_category(h, "download"))
     ELSE IF c \in MediaMimes THEN ndpi_int_change_category(h, "media") ELSE h

-----------------------------------------------------------------------------
(* The flow becomes HTTP, or what its address or host makes of it.         *)

ndpi_int_http_add_connection(p, f, id) ==
  LET g == ndpi_search_tcp_or_udp(p, f)
      h == IF g.guessedHost = Unknown \/ id \notin {"HTTP", "HTTP_CONNECT"}
           THEN [g EXCEPT !.guessedHost = id] ELSE g
      d == Put(FollowUp(Found(h, h.guessedHost, IF h.master # Unknown THEN h.master ELSE "HTTP"),
                        8, "http"), "http_detected", 1)
  IN IF f.moreFunc # "" /\ f.guessedHost = Unknown THEN f
     ELSE IF d.master \in {"HTTP_CONNECT", "HTTP_PROXY"} /\ d.app = "HTTP"
     THEN [d EXCEPT !.app = Unknown] ELSE d

rtsp_parse_packet_acceptline(p, f) ==
  IF Line(p, "accept") = "application/x-rtsp-tunnelled"
  THEN ndpi_int_http_add_connection(p, f, "RTSP") ELSE f

\* The names of the Windows versions an agent reports; every other token is kept as it is.
WindowsNames ==
  ("Windows NT 5.0" :> "Windows 2000") @@ ("Windows NT 5.1" :> "Windows XP") @@
  ("Windows NT 5.2" :> "Windows Server 2003") @@ ("Windows NT 6.0" :> "Windows Vista") @@
  ("Windows NT 6.1" :> "Windows 7") @@ ("Windows NT 6.2" :> "Windows 8") @@
  ("Windows NT 6.3" :> "Windows 8.1") @@ ("Windows NT 10.0" :> "Windows 10")

setHttpUserAgent(f, os) ==
  IF Holds(f, "detected_os") THEN f
  ELSE Put(f, "detected_os", IF os \in DOMAIN WindowsNames THEN WindowsNames[os] ELSE os)

UrlTexts == {":8080/downloading?n=0.", ":8080/upload?n=0."}

ndpi_http_parse_subprotocol(f) ==
  LET g == ndpi_match_hostname_protocol(f, f.master, f.host)
  IN IF ~(V(f, "http_stage") = 0 \/ (Holds(f, "url") /\ V(f, "http_detected") = 1)) THEN f
     ELSE IF ndpi_automa_match_string_subprotocol(f, f.host) = Unknown
             /\ W(f, "url", {}) \cap UrlTexts # {}
     THEN Found(f, "OOKLA", "HTTP") ELSE g

\* An agent with <?, $ or :// in it is a script; one that is short, long or odd is suspicious.
ndpi_check_user_agent(p, f) ==
  IF Has(p, "agent with script")
  THEN ndpi_set_risk(ndpi_set_risk(f, "http_suspicious_user_agent"), "possible_exploit")
  ELSE IF Has(p, "odd agent") THEN ndpi_set_risk(f, "http_suspicious_user_agent") ELSE f

\* "os" is the token a Mozilla agent gives in parentheses, behind X11, U, MSIE and the like.
http_process_user_agent(p, f) ==
  LET g == IF HasLine(p, "os") THEN setHttpUserAgent(f, p.h["os"]) ELSE f
  IN IF Holds(g, "user_agent") THEN g
     ELSE ndpi_check_user_agent(p, Put(g, "user_agent", p.h["user_agent"]))

ndpi_check_numeric_ip(p, f) ==
  IF Has(p, "numeric host") THEN ndpi_set_risk(f, "http_numeric_ip_host") ELSE f

\* By the method's first letters; the others are unknown.
ndpi_http_str2method(m) ==
  IF m \in {"OPTIONS ", "GET ", "HEAD ", "PATCH ", "POST ", "PUT ", "DELETE ", "TRACE ", "CONNECT "}
  THEN m ELSE ""

-----------------------------------------------------------------------------
(* The header lines of a request or response, applied to the flow.         *)

HttpMethods ==
  {"GET ", "POST ", "OPTIONS ", "HEAD ", "PUT ", "PATCH ", "DELETE ", "CONNECT ", "PROPFIND ",
   "REPORT "}

\* The offset of the URL, 0 for a packet that is no request.
http_request_url_offset(p) == \E m \in HttpMethods : Begins(p, m)

\* The URL is kept once, from the first request with a complete first line and a host.
HttpUrl(p, f) ==
  IF Holds(f, "url") \/ ~Has(p, " HTTP/1.") \/ ~HasLine(p, "host") \/ ~http_request_url_offset(p)
  THEN f
  ELSE LET g == ndpi_check_numeric_ip(p, f)
           m == CHOOSE s \in HttpMethods : Begins(p, s)
       IN Put(Put(g, "method", ndpi_http_str2method(m)), "url", {s \in UrlTexts : Has(p, s)})

\* The host names the flow; the guesses follow what it makes of the flow, or the other way.
HttpHost(p, f) ==
  LET g == NoFunc(ndpi_hostname_sni_set(f, p.h["host"]))
      s == ndpi_http_parse_subprotocol(ndpi_check_dga_name(g, g.host))
      i == IF s.master # Unknown THEN [s EXCEPT !.guessed = s.master, !.guessedHost = s.app]
           ELSE IF s.guessed \in HasSubprotocols THEN s
           ELSE [s EXCEPT !.master = s.guessed, !.app = IF @ = Unknown THEN s.guessedHost ELSE @]
  IN IF i.app = Unknown /\ V(i, "http_detected") = 1 /\ HasLine(p, "http_origin")
     THEN ndpi_match_host_subprotocol(i, p.h["http_origin"], "HTTP") ELSE i

\* The type of a request's and, once, of a response's content.
HttpContentType(p, f) ==
  LET c == Line(p, "content")
      g == IF V(f, "response_status_code") = 0
           THEN IF Holds(f, "request_content_type") THEN f ELSE Put(f, "request_content_type", c)
           ELSE IF Holds(f, "content_type") THEN f
           ELSE ndpi_http_check_content(p, Put(f, "content_type", c))
  IN IF c = "" THEN f
     ELSE IF V(g, "http_detected") = 1 /\ c \in {"application/ocsp-request", "application/ocsp-response"}
     THEN Found(g, "OCSP", "HTTP") ELSE g

check_content_type_and_change_protocol(p, f) ==
  LET u == HttpUrl(p, f)
      s == IF Line(p, "server") = "ntopng "
           THEN [Found(u, "NTOP", "HTTP") EXCEPT !.risk = @ \ {"known_protocol_on_non_standard_port"}]
           ELSE u
      a == IF HasLine(p, "user_agent") THEN http_process_user_agent(p, s) ELSE s
      h == IF HasLine(p, "host") THEN HttpHost(p, a) ELSE a
      r == [h EXCEPT !.guessed = IF @ = Unknown THEN "HTTP" ELSE @]
      t == IF HasLine(p, "accept") /\ "RTSP" \in EnabledProtocols
           THEN rtsp_parse_packet_acceptline(p, r) ELSE r
      c == IF HasLine(p, "authorization") THEN ndpi_set_risk(t, "clear_text_credentials") ELSE t
      d == HttpContentType(p, c)
  IN IF V(f, "http_detected") = 1 /\ V(f, "response_status_code") # 0 THEN f
     ELSE IF HasLine(p, "host") /\ h.master \notin {Unknown, "HTTP", "HTTP_CONNECT"}
     THEN ndpi_int_http_add_connection(p, h, h.app)
     ELSE IF Holds(d, "method") /\ d.v["method"] # ""
     THEN ndpi_int_http_add_connection(p, d, d.app) ELSE d

\* Headers of known malicious clients: Arch, Cores, Mem, Os, Root, Uuid, X-Hire-Me and so on.
is_a_suspicious_header(p) == HasLine(p, "suspicious")
ndpi_check_http_header(p, f) ==
  IF is_a_suspicious_header(p) THEN ndpi_set_risk(f, "http_suspicious_header") ELSE f

-----------------------------------------------------------------------------
(* The stages: 0 before a request, dir + 1 after one in direction dir.     *)

http_bitmask_exclude_other(f) == Excl(f, "XBOX")
HttpExcluded(f) == http_bitmask_exclude_other(Excl(f, "HTTP"))

\* A speed test marks its server, the side with port 8080.
ookla_found(p, f) ==
  CacheAdd(ndpi_int_http_add_connection(p, f, "OOKLA"), "ookla",
           IF p.sport = 8080 THEN p.src ELSE p.dst, 1)

\* A first packet that is no request.
HttpNoRequest(p, f) ==
  LET parsed == ndpi_parse_packet_line_info(p, f)
      ping == /\ U8(p, 2) = 32 /\ U8(p, 39) = 10
              /\ \A i \in {11, 16, 21, 26} : U8(p, i) = 45
  IN IF p.len >= 7 /\ Begins(p, "HTTP/1.")
     THEN ndpi_validate_http_content(p,
            check_content_type_and_change_protocol(p,
              Put(parsed, "response_status_code", HttpStatus(p))))
     ELSE IF p.len = 3 /\ Begins(p, "HI\n") THEN Put(f, "http_stage", 1)
     ELSE IF p.len = 40 THEN IF ping THEN Put(f, "http_stage", 1) ELSE f
     ELSE IF p.len = 23 /\ Begins(p, "<policy-file-request/>") THEN ookla_found(p, f)
     ELSE IF http_num_headers(p) > 0 THEN check_content_type_and_change_protocol(p, parsed)
     ELSE HttpExcluded(parsed)

\* A request.
HttpRequest(p, f) ==
  LET g == ndpi_check_http_header(p,
             ndpi_parse_packet_line_info(p, ndpi_int_http_add_connection(p, f, "HTTP")))
      x == IF Has(p, "http:// url")
           THEN check_content_type_and_change_protocol(p, Found(g, "HTTP_PROXY", g.app)) ELSE g
      c == IF Begins(p, "CONNECT ")
           THEN check_content_type_and_change_protocol(p,
                  Found(x, "HTTP_CONNECT", IF x.app # "HTTP" THEN x.app ELSE Unknown))
           ELSE x
      id == IF c.master # Unknown THEN c.master ELSE IF c.app # Unknown THEN c.app ELSE "HTTP"
  IN IF Has(p, "rtsp:// url") THEN Excl(f, "HTTP")
     ELSE IF Len(Lines(p)) <= 1 THEN Put(g, "http_stage", p.dir + 1)
     ELSE IF ~Has(p, " HTTP/1.") THEN HttpExcluded(g)
     ELSE IF Line(p, "referer") = "www.speedtest.net" THEN ookla_found(p, g)
     ELSE IF HasLine(p, "host")
     THEN check_content_type_and_change_protocol(p,
            Put(Put(ndpi_int_http_add_connection(p, c, id), "http_detected", 1),
                "http_stage", p.dir + 1))
     ELSE HttpExcluded(c)

\* Where the code has not looked for a URL in the first line.
NoUrl(p) == [p EXCEPT !.t = @ \ {<<-1, " HTTP/1.">>}]

\* A packet after a request, in its direction and in the other.  The parser never counts
\* just one line, so the answer of one line that the code looks for does not occur.
HttpFollowing(p, f) ==
  LET o == Excl(f, "OOKLA")
      g == ndpi_parse_packet_line_info(p, o)
      d == IF V(o, "http_detected") = 1 THEN ndpi_int_http_add_connection(p, o, "HTTP") ELSE o
      answer == check_content_type_and_change_protocol(NoUrl(p), ndpi_parse_packet_line_info(p, d))
  IN IF \/ p.len = 34 /\ V(f, "http_stage") = 1 /\ U8(p, 5) = 32 /\ U8(p, 9) = 32
        \/ p.len > 6 /\ Begins(p, "HELLO ")
     THEN ookla_found(p, f)
     ELSE IF V(f, "http_stage") # p.dir + 1 THEN Put(answer, "http_stage", 0)
     ELSE IF V(o, "http_detected") = 1 THEN o
     ELSE IF Len(Lines(p)) <= 1 THEN IF g.packets < 5 THEN g ELSE HttpExcluded(g)
     ELSE IF Has(p, " HTTP/1.")
     THEN Put(check_content_type_and_change_protocol(NoUrl(p),
                ndpi_int_http_add_connection(p, g, "HTTP")), "http_detected", 1)
     ELSE g

ndpi_check_http_tcp(p, f) ==
  LET g == Put(f, "http_detected", 0)
  IN IF p.len > 0 /\ V(f, "http_stage") = 0
     THEN IF http_request_url_offset(p) THEN HttpRequest(p, g) ELSE HttpNoRequest(p, g)
     ELSE IF V(f, "http_stage") \in {1, 2} THEN HttpFollowing(p, f) ELSE f

ndpi_search_http_tcp(p, f) ==
  IF f.packets > 20 THEN HttpExcluded(f) ELSE ndpi_check_http_tcp(p, f)

\* The packets after detection, until a response with a host is known.
ndpi_search_http_tcp_again(p, f) ==
  LET g == ndpi_search_http_tcp(p, f)
      s == IF Holds(g, "initial_binary_bytes") THEN ndpi_analyze_content_signature(g) ELSE g
  IN IF g.host # "" /\ V(g, "response_status_code") # 0 THEN NoMore(NoFunc(s)) ELSE g
=============================================================================
