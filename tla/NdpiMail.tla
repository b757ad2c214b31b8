------------------------------ MODULE NdpiMail ------------------------------
(***************************************************************************)
(* Dissectors of mail, file transfer and chat: dialogues of text lines.    *)
(***************************************************************************)
EXTENDS NdpiFlow, FiniteSetsExt

ClearText(f) == ndpi_set_risk(f, "clear_text_credentials")

\* ndpi_user_pwd_payload_copy: the field is set when something printable follows the command.
ndpi_user_pwd_payload_copy(p, f, field) == Put(f, field, IF Has(p, "argument") THEN 1 ELSE 0)

-----------------------------------------------------------------------------
(* POP3: three different commands and replies, of which one is a reply.    *)

PopCommands == {"AUTH", "APOP", "USER", "PASS", "CAPA", "LIST", "STAT", "UIDL", "RETR", "DELE", "STLS"}

PopBits(f) == W(f, "pop_command_bitmask", {})

ndpi_int_mail_pop_add_connection(f) == FoundOnly([f EXCEPT !.guessed = Unknown], "MAIL_POP")

popInitExtraPacketProcessing(f) == FollowUp(f, 7, "pop")

ndpi_int_mail_pop_check_for_client_commands(p, f) ==
  LET c == CHOOSE s \in PopCommands : Begins(p, s)
      g == IF c = "USER" THEN ClearText(ndpi_user_pwd_payload_copy(p, f, "username"))
           ELSE IF c = "PASS" THEN ClearText(ndpi_user_pwd_payload_copy(p, f, "password"))
           ELSE f
  IN Put(g, "pop_command_bitmask", PopBits(f) \cup {c})

ndpi_search_mail_pop_tcp(p, f) ==
  LET reply == (p.len > 3 /\ Begins(p, "+OK")) \/ (p.len > 4 /\ Begins(p, "-ERR"))
      command == p.len > 4 /\ BeginsAny(p, PopCommands)
      g == IF reply THEN Inc(f, "mail_pop_stage")
           ELSE ndpi_int_mail_pop_check_for_client_commands(p, f)
      stage == V(g, "mail_pop_stage")
  IN IF reply \/ command
     THEN IF /\ p.len > 2 /\ Crlf(p)
             /\ Cardinality(PopBits(g)) + stage >= 3 /\ stage > 0
             /\ V(g, "password") = 1 \/ stage > 3
          THEN popInitExtraPacketProcessing(ndpi_int_mail_pop_add_connection(g)) ELSE g
     ELSE IF /\ (p.len > 2 /\ Crlf(p)) \/ PopBits(f) # {} \/ V(f, "mail_pop_stage") # 0
             /\ f.packets < 12
     THEN f ELSE Excl(f, "MAIL_POP")

ndpi_extra_search_mail_pop_tcp(p, f) ==
  LET g == ndpi_search_mail_pop_tcp(p, f)
  IN IF V(g, "password") = 1 THEN NoMore(g) ELSE g

-----------------------------------------------------------------------------
(* IMAP.  "tagged command" is the command behind a tag, "" for a tag with  *)
(* no known command; from stage 5 on the command is expected at the start. *)

ImapCommands ==
  {"OK", "UID", "NO", "CAPABILITY", "STARTTLS", "LOGIN", "FETCH", "FLAGS", "CHECK", "STORE",
   "AUTHENTICATE", "NAMESPACE", "LSUB", "LIST", "NOOP", "IDLE", "SELECT", "EXISTS", "APPEND"}

ndpi_int_mail_imap_add_connection(f, id) == FoundOnly([f EXCEPT !.guessed = Unknown], id)

ImapStep(p, f, c) ==
  LET g == Inc(f, "mail_imap_stage")
  IN IF c \in {"OK", "NO"} /\ V(f, "mail_imap_starttls") = 1
     THEN Put(g, "mail_imap_starttls", 2)
     ELSE IF c = "STARTTLS"
     THEN ndpi_int_mail_imap_add_connection(Put(g, "mail_imap_starttls", 1), "MAIL_IMAPS")
     ELSE IF c = "AUTHENTICATE"
     THEN ndpi_int_mail_imap_add_connection(Put(g, "mail_imap_starttls", 2), "MAIL_IMAPS")
     ELSE IF c = "LOGIN" /\ HasLine(p, "user")
     THEN Put(Put(ClearText(g), "username", 1), "password", IF HasLine(p, "password") THEN 1 ELSE 0)
     ELSE g

imap_excluded(p, f) ==
  IF Crlf(p) /\ f.packets < 8 /\ V(f, "mail_imap_stage") >= 1 THEN f ELSE Excl(f, "MAIL_IMAP")

ndpi_search_mail_imap_tcp(p, f) ==
  LET text == p.len >= 4 /\ Crlf(p)
      done == p.len = 6 /\ Begins(p, "DONE")
      tagged == V(f, "mail_imap_stage") < 5
      c == Line(p, IF tagged THEN "tagged command" ELSE "command")
      command == c \in ImapCommands
      g == IF ~text THEN f
           ELSE IF done THEN Inc(f, "mail_imap_stage")
           ELSE IF command THEN ImapStep(p, f, c) ELSE f
      stage == V(g, "mail_imap_stage")
  IN IF V(f, "mail_imap_starttls") = 2
     THEN [Excl(f, "MAIL_IMAP") EXCEPT !.excl = @ \ {"TLS"}]
     ELSE IF text /\ ~done /\ tagged /\ ~HasLine(p, "tagged command") THEN imap_excluded(p, f)
     ELSE IF text /\ (done \/ command) /\ stage \in {3, 5, 7}
     THEN IF V(g, "username") = 1 \/ stage >= 7
          THEN ndpi_int_mail_imap_add_connection(g, "MAIL_IMAP") ELSE g
     ELSE IF p.len > 1 /\ LastByte(p) = 32 THEN Put(g, "mail_imap_stage", 4)
     ELSE imap_excluded(p, g)

-----------------------------------------------------------------------------
(* SMTP: the commands and replies seen are collected; three make a flow of *)
(* it.  A line "text" is one that base64 decodes, "noise" one it does not. *)

SmtpBits(f) == W(f, "smtp_command_bitmask", {})
SmtpBit(f, b) == Put(f, "smtp_command_bitmask", SmtpBits(f) \cup {b})
SmtpReplies == {"220", "250", "235", "334", "354"}
SmtpFlags == {"DATA", "NOOP", "RSET"}

ndpi_int_mail_smtp_add_connection(f) ==
  FoundOnly([f EXCEPT !.guessed = "MAIL_SMTP"], "MAIL_SMTP")

smtpInitExtraPacketProcessing(f) == FollowUp(f, 12, "smtp")

\* The user name and, behind it, the password that decode from an AUTH PLAIN line.
get_credentials_auth_plain(p, f) ==
  IF HasLine(p, "user")
  THEN LET g == ClearText(Put(f, "username", 1))
       IN IF HasLine(p, "password") THEN Put(g, "password", 1) ELSE g
  ELSE f

\* The greeting names the server.
SmtpGreeting(p, f) ==
  LET name == Line(p, "name")
      g == ndpi_hostname_sni_set(f, name)
  IN IF f.host # "" \/ name = "" THEN f
     ELSE IF ndpi_automa_match_string_subprotocol(g, name) # Unknown
     THEN smtpInitExtraPacketProcessing(ndpi_match_hostname_protocol(g, "MAIL_SMTP", name))
     ELSE g

\* After AUTH LOGIN a line without a blank in its fourth place is the user name, then the
\* password; a third one ends the dissection: <<done, f>>.
SmtpCredential(f, line) ==
  LET value == IF line = "noise" THEN 0 ELSE 1
  IN IF ~(V(f, "auth_found") = 1 /\ "AUTH_LOGIN" \in SmtpBits(f)) THEN <<FALSE, f>>
     ELSE IF V(f, "username") = 0 THEN <<FALSE, ClearText(Put(f, "username", value))>>
     ELSE IF V(f, "password") = 0
     THEN <<FALSE, Put(ClearText(Put(f, "password", value)), "auth_done", 1)>>
     ELSE <<TRUE, Excl(ndpi_hostname_sni_set(f, ""), "MAIL_SMTP")>>

SmtpLine(p, f, line) ==
  LET Reset(b) == Put(SmtpBit(f, b), "auth_found", 0)
      auth == Put(f, "auth_found", 1)
  IN IF line = "220" THEN <<FALSE, SmtpGreeting(p, SmtpBit(f, line))>>
     ELSE IF line \in SmtpReplies \cup SmtpFlags THEN <<FALSE, SmtpBit(f, line)>>
     ELSE IF line = "HELO" THEN <<FALSE, Reset("HELO")>>
     ELSE IF line \in {"MAIL", "RCPT"} THEN <<FALSE, Put(Reset(line), "auth_done", 1)>>
     ELSE IF line = "AUTH L" THEN <<FALSE, SmtpBit(auth, "AUTH_LOGIN")>>
     ELSE IF line = "AUTH P"
     THEN <<FALSE, Put(get_credentials_auth_plain(p, SmtpBit(auth, "AUTH_PLAIN")), "auth_done", 1)>>
     ELSE IF line = "STARTTLS"
     THEN LET c == SmtpCredential(f, line)
          IN IF c[1] THEN c
             ELSE <<FALSE, Put(Put(SmtpBit(c[2], line), "auth_tls", 1), "auth_done", 1)>>
     ELSE SmtpCredential(f, line)

SmtpLines(p, f) ==
  LET after[i \in 0..Len(Lines(p))] ==
        IF i = 0 THEN <<FALSE, f>>
        ELSE IF after[i - 1][1] THEN after[i - 1]
        ELSE SmtpLine(p, after[i - 1][2], Lines(p)[i])
  IN after[Len(Lines(p))]

ndpi_search_mail_smtp_tcp(p, f) ==
  LET text == p.len > 2 /\ Crlf(p)
      lines == IF text THEN SmtpLines(p, f) ELSE <<FALSE, f>>
      g == lines[2]
      bits == Cardinality(SmtpBits(g))
  IN IF lines[1] THEN g
     ELSE IF text /\ bits >= 3
     THEN IF g.app = Unknown /\ g.master = Unknown
          THEN smtpInitExtraPacketProcessing(ndpi_int_mail_smtp_add_connection(g)) ELSE g
     ELSE IF \/ text /\ bits >= 1 /\ g.packets < 12
             \/ g.packets <= 4 /\ p.len >= 4 /\ (Crlf(p) \/ BeginsAny(p, {"220", "EHLO"}))
     THEN g
     ELSE IF ~g.more \/ g.packets > 12 THEN Excl(g, "MAIL_SMTP") ELSE g

ndpi_extra_search_mail_smtp_tcp(p, f) ==
  LET g == ndpi_search_mail_smtp_tcp(p, f)
  IN IF V(g, "password") = 1 THEN NoMore(g) ELSE g

-----------------------------------------------------------------------------
(* FTP control: a request of one side and an answer of the other, once a   *)
(* password or a TLS handshake has been seen.  A request may be in lower   *)
(* case: but for the last three, a token stands for both spellings.        *)

FtpUpperCase ==
  {"ABOR", "ACCT", "ADAT", "ALLO", "APPE", "CCC", "CDUP", "CONF", "CWD", "DELE", "ENC", "EPRT",
   "EPSV", "FEAT", "HELP", "LANG", "LIST", "LPRT", "LPSV", "MDTM", "MIC", "MKD", "MLSD",
   "MLST", "MODE", "NLST", "NOOP", "OPTS", "PASV", "PBSZ", "PORT", "PROT", "PWD", "QUIT",
   "REIN", "REST", "RETR", "RMD", "RNFR", "RNTO", "SITE", "SIZE", "SMNT", "STAT", "STOR",
   "STOU", "STRU", "SYST", "TYPE", "XCUP", "XMKD", "XPWD", "XRCP", "XRMD", "XRSQ", "XSEM",
   "XSEN", "HOST"}

FtpLowerCase ==
  {"abor", "acct", "adat", "allo", "appe", "ccc", "cdup", "conf", "cwd", "dele", "enc", "eprt",
   "epsv", "feat", "help", "lang", "list", "lprt", "lpsv", "mdtm", "mic", "mkd", "mlsd",
   "mlst", "mode", "nlst", "noop", "opts", "pass", "pasv", "pbsz", "port", "prot", "pwd",
   "quit", "rein", "rest", "retr", "rmd", "rnfr", "rnto", "site", "size", "smnt", "stat",
   "stor", "stou", "stru", "syst", "type", "user", "xcup", "xmkd", "xpwd", "xrcp", "xrmd",
   "xrsq", "xsem", "xsen", "host"}

FtpRequests == {"USER", "PASS", "AUTH", "auth"} \cup FtpUpperCase \cup FtpLowerCase

\* Only the upper case USER and PASS are looked into.
ndpi_ftp_control_check_request(p, f) ==
  IF Begins(p, "USER") THEN ClearText(ndpi_user_pwd_payload_copy(p, f, "username"))
  ELSE IF Begins(p, "PASS") THEN ndpi_user_pwd_payload_copy(p, f, "password")
  ELSE IF BeginsAny(p, {"AUTH", "auth"}) THEN Put(f, "auth_found", 1)
  ELSE f

ndpi_ftp_control_check_response(p, f) ==
  IF U8(p, 0) \in {52, 53} THEN Put(f, "auth_failed", 1)
  ELSE IF V(f, "auth_found") = 1 THEN Put(f, "auth_tls", 1) ELSE f

ndpi_check_ftp_control(p, f) ==
  LET stage == V(f, "ftp_control_stage")
      g == ndpi_ftp_control_check_response(p, f)
  IN IF ~IsTcp(p) THEN f
     ELSE IF Port(p, 25) \/ f.packets > 8 THEN Excl(f, "FTP_CONTROL")
     ELSE IF stage = 0
     THEN IF p.len > 0 /\ BeginsAny(p, FtpRequests)
          THEN Put(ndpi_ftp_control_check_request(p, f), "ftp_control_stage", p.dir + 1) ELSE f
     ELSE IF stage - p.dir = 1 THEN f
     ELSE IF ~(p.len > 0 /\ U8(p, 0) \in (49..54)) THEN Put(f, "ftp_control_stage", 0)
     ELSE IF V(g, "password") = 0 /\ V(g, "auth_tls") = 0 THEN Put(g, "ftp_control_stage", 0)
     ELSE FoundOnly(ndpi_hostname_sni_set(g, ""), "FTP_CONTROL")

ndpi_search_ftp_control(p, f) ==
  IF f.app # "FTP_CONTROL" THEN ndpi_check_ftp_control(p, f) ELSE f

(* FTP data: a file or a listing on a connection whose SYN has been seen.  *)

ndpi_match_ftp_data_port(p) == IsTcp(p) /\ Port(p, 20)
ndpi_match_ftp_data_directory(p) ==
  p.len > 10 /\ BeginsAny(p, {"-rwxrwxrwx", "drwxrwxrwx"})    \* any bit may be missing

FileMagic ==
  {"RIFF", "MZ", "OggS", "PK", "mpeg", "Rar!", "matroska", "jpeg", "GIF8", "<?php", "#!/b",
   "%PDF", ".PNG", "<htm", "\n<!D", "7z", "gzip", "<!DO", "fLaC", "ID3", "mp3", "rpm", "WzPa",
   "FLV", "TAPE", "ole", "<%@ ", "<!--", "!<ar", "<iq ", "SPFI", "ABIF", "BZh9", "<cf", "<CF",
   ".tem", ".ite", ".lef"}

ndpi_match_file_header(p) ==
  p.len >= 256 /\ (BeginsAny(p, FileMagic) \/ (Begins(p, "<?xm") /\ ~Has(p, "jabber")))

ndpi_check_ftp_data(p, f) ==
  IF /\ V(f, "seen_syn") = 1 /\ p.len > 0
     /\ \/ ndpi_match_file_header(p)
        \/ ndpi_match_ftp_data_directory(p)
        \/ ndpi_match_ftp_data_port(p)
  THEN FoundOnly(f, "FTP_DATA") ELSE Excl(f, "FTP_DATA")

ndpi_search_ftp_data(p, f) ==
  IF f.packets > 20 THEN Excl(f, "FTP_DATA") ELSE ndpi_check_ftp_data(p, f)

-----------------------------------------------------------------------------
(* IRC.  Over TLS it is recognised by the sizes of the packets of a file   *)
(* transfer, which the other side answers with the bytes it has received.  *)

\* <<length, stage>> |-> the next stage, for packets of one direction.
IrcSizes ==
  (<<1460, 0>> :> 1) @@ (<<1460, 3>> :> 1) @@ (<<1460, 1>> :> 2) @@ (<<1176, 2>> :> 3) @@
  (<<1448, 0>> :> 4) @@ (<<1448, 6>> :> 4) @@ (<<1448, 4>> :> 5) @@ (<<1200, 5>> :> 6) @@
  (<<1380, 0>> :> 7) @@ (<<1380, 7>> :> 7) @@ (<<1200, 0>> :> 8) @@ (<<1200, 8>> :> 8) @@
  (<<1024, 0>> :> 9) @@ (<<1024, 9>> :> 9) @@ (<<1248, 0>> :> 10) @@ (<<1248, 10>> :> 10) @@
  (<<1448, 5>> :> 11) @@ (<<1448, 11>> :> 12) @@ (<<1448, 12>> :> 13) @@ (<<952, 13>> :> 14) @@
  (<<1448, 9>> :> 15) @@ (<<1448, 15>> :> 16) @@ (<<1200, 16>> :> 17) @@ (<<1448, 17>> :> 18) @@
  (<<600, 18>> :> 19) @@ (<<1380, 9>> :> 20)

\* The received counts that answer a stage.
IrcAnswers(stage, full) ==
  (IF stage \in {3, 6} \/ full THEN {4096, 8192} ELSE {}) \cup
  CASE stage = 7 -> {1380, 2760} [] stage = 8 -> {1200, 2400} [] stage \in {9, 15} -> {1024, 2048}
    [] stage = 10 -> {1248, 2496} [] stage \in {4, 5, 11, 13} -> {1448, 2896}
    [] stage = 14 -> {8192} [] stage = 19 -> {7168} [] stage = 20 -> {2404} [] OTHER -> {}

ndpi_int_irc_add_connection(f) == FoundOnly(f, "IRC")

IrcSizeFits(p, f) ==
  LET stage == V(f, "irc_stage2")
  IN /\ <<p.len, stage>> \in DOMAIN IrcSizes
     /\ V(f, "irc_direction") = IF stage = 0 THEN 0 ELSE 1 + p.dir

IrcAnswered(p, f) ==
  /\ p.len = 4 /\ V(f, "irc_direction") = 2 - p.dir
  /\ U16(p, 2) \in IrcAnswers(V(f, "irc_stage2"), V(f, "irc_0x1000_full") = 1)

ndpi_search_irc_ssl_detect_ninety_percent_but_very_fast(p, f) ==
  LET next == IrcSizes[<<p.len, V(f, "irc_stage2")>>]
      g == Put(Put(f, "irc_stage2", next), "irc_direction", 1 + p.dir)
  IN IF IrcSizeFits(p, f) THEN IF next \in {3, 6} THEN Put(g, "irc_0x1000_full", 1) ELSE g
     ELSE ndpi_int_irc_add_connection(f)

ndpi_check_for_NOTICE_or_PRIVMSG(p) == Has(p, "NOTICE ") \/ Has(p, "PRIVMSG ")
ndpi_check_for_Nickname(p) == p.len >= 4 /\ (Has(p, "nick=") \/ Has(p, "nickname="))
ndpi_check_for_cmd(p) == p.len >= 4 /\ Has(p, "cmd=")
\* "irc." in the request line, the URL or the referer.
ndpi_check_for_IRC_traces(p) == Has(p, "irc.")

IrcCommands == {"USER ", "NICK ", "PASS ", "PONG ", "PING ", "JOIN ", "MODE ", "NOTICE ",
                "PRIVMSG ", "VERSION "}

\* Seven lines that begin with a colon; a text that ends in 0a 00 counts as one.
IrcColons(p, f) ==
  LET colons == Cardinality({i \in DOMAIN Lines(p) : Lines(p)[i] = ":"})
      n == V(f, "irc_3a_counter") + IF LastByte(p) = 10 \/ U8(p, p.len - 2) = 13 THEN colons ELSE 1
  IN IF ~Begins(p, ":") THEN f ELSE Put(f, "irc_3a_counter", Min({n, 7}))

\* A command moves the stage on; the third one, or a NICK or USER on a later line, decides.
IrcCommand(p, f) ==
  LET stage == V(f, "irc_stage")
      later == LastByte(p) = 10 /\ \E i \in 2..Len(Lines(p)) : Lines(p)[i] \in {"NICK ", "USER "}
      g == IF stage = 2 THEN ndpi_int_irc_add_connection(f) ELSE f
  IN IF later THEN ndpi_int_irc_add_connection(Put(f, "irc_stage", 3))
     ELSE IF stage <= 2 THEN Put(g, "irc_stage", stage + 1) ELSE f

IrcText(p, f) ==
  LET g == IrcColons(p, f)
  IN IF ~(f.packets < 20 /\ p.len >= 8 /\ (LastByte(p) = 10 \/ U16(p, p.len - 2) = 2560)) THEN f
     ELSE IF Begins(p, ":") /\ V(g, "irc_3a_counter") = 7 THEN ndpi_int_irc_add_connection(g)
     ELSE IF \/ BeginsAny(p, IrcCommands)
             \/ Begins(p, ":") /\ ndpi_check_for_NOTICE_or_PRIVMSG(p)
     THEN IrcCommand(p, g) ELSE g

\* Chat over HTTP.  The content is looked for at the offset of its own length.
IrcHttp(p, f) ==
  LET post == /\ V(f, "irc_stage") = 0 /\ p.len > 5 /\ Begins(p, "POST ") /\ Lines(p) # <<>>
      body == IF post /\ HasLine(p, "body") THEN p.h["body"] ELSE 0
      traces == post /\ ndpi_check_for_IRC_traces(p)
      g == IF traces THEN Put(f, "irc_stage", 1) ELSE f
  IN IF traces /\ body = 0 THEN g
     ELSE IF /\ V(g, "irc_stage") = 1
             /\ \/ p.len - body > 10 /\ At(p, body, "interface=") /\ ndpi_check_for_Nickname(p)
                \/ p.len - body > 5 /\ At(p, body, "item=") /\ ndpi_check_for_cmd(p)
     THEN ndpi_int_irc_add_connection(g) ELSE g

ndpi_search_irc_tcp(p, f) ==
  LET g == IrcText(p, f)
  IN IF f.app = "IRC" THEN f
     ELSE IF f.packets > 10 THEN Excl(f, "IRC")
     ELSE IF IrcSizeFits(p, f) \/ IrcAnswered(p, f)
     THEN ndpi_search_irc_ssl_detect_ninety_percent_but_very_fast(p, f)
     ELSE IF g.app = "IRC" THEN g ELSE IrcHttp(p, g)
=============================================================================
