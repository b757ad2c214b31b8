---------------------------- MODULE SerializerUse ----------------------------
(***************************************************************************)
(* The serializer in use.  Three serializers, one of each format, are fed  *)
(* the same calls, so that what each of them holds can be compared.  The   *)
(* calls are those of a caller that keeps to the interface (blocks and     *)
(* lists are closed, a list holds plain values, a raw record comes between *)
(* records), and the report LANShield makes of a packet: _doDPI resets its *)
(* JSON serializer and ndpi_dpi2json fills it, ignoring what the calls     *)
(* return.  Any call may find no memory.                                   *)
(***************************************************************************)
EXTENDS NdpiSerializer, FiniteSets

CONSTANTS Callers,      \* the callers: the calls each makes, and how many at most
          Reports,      \* the flows ndpi_dpi2json is called for
          MaxReports    \* reports LANShield makes in a behaviour

(* The calls of the interface, by what follows ndpi_serialize_.            *)
Items == {"uint32_uint32", "uint32_uint64", "uint32_int32", "uint32_int64", "uint32_float",
          "uint32_string", "uint32_boolean", "string_uint32", "string_uint64", "string_int32",
          "binary_int32", "string_int64", "string_float", "string_string", "string_binary",
          "string_raw", "string_uint32_format", "string_boolean"}

Structure == {"end_of_record", "raw_record", "start_of_list", "end_of_list",
              "start_of_block", "end_of_block"}

ASSUME SerializerAssumption ==
    /\ MaxReports \in Nat
    /\ \A c \in Callers : c.max \in Nat /\ \A x \in c.calls : x.op \in Items \cup Structure

VARIABLES
    ser,        \* the serializer of each format
    rc,         \* what the last call returned, for each format
    caller,     \* the caller of this behaviour
    calls,      \* calls made
    last,       \* the last call's name
    open,       \* the blocks and lists the caller has open
    marks,      \* what was written that one format shows differently
    saved       \* the texts at the snapshot, and whether they can be had back

vars == <<ser, rc, caller, calls, last, open, marks, saved>>

(* LANShield makes none of the calls itself, only reports.                 *)
LANShield == [calls |-> {}, max |-> MaxReports]

Call(op, key, v) == [op |-> op, key |-> key, v |-> v]

Text == [f \in Formats |-> ndpi_serializer_get_buffer(ser[f])]

NothingSaved == [text |-> [f \in Formats |-> <<>>], open |-> <<>>, sound |-> {}]

(***************************************************************************)
(* The report of a packet (ndpi_utils.c): the calls for a flow r.  A field *)
(* that is written only when it is set is in r.has.                        *)
(***************************************************************************)
Str(key) == Call("string_string", key, "s")

Num(key) == Call("string_uint32", key, "u8")

Block(key, items) ==
    <<Call("start_of_block", key, "")>> \o items \o <<Call("end_of_block", "", "")>>

When(r, field, items) == IF field \in r.has THEN items ELSE <<>>

ndpi_serialize_risk(r) ==
    When(r, "risk", Block("flow_risk", <<Call("uint32_string", "12", "s")>>))

ndpi_serialize_proto(r) ==
    Block("ndpi", ndpi_serialize_risk(r) \o <<Str("proto"), Str("breed")>>
                    \o When(r, "category", <<Str("category")>>))

UserAndPassword(key) == Block(key, <<Str("user"), Str("password")>>)

(* TLS and QUIC name a version only when it is one they know.              *)
TlsReport(r) ==
    IF {"ssl_version", "known_version"} \subseteq r.has
    THEN Block("tls", <<Str("version"), Str("client_requested_server_name")>>
           \o When(r, "server_names", <<Str("server_names")>>)
           \o When(r, "notBefore", <<Str("notbefore")>>)
           \o When(r, "notAfter", <<Str("notafter")>>)
           \o <<Str("ja3"), Str("ja3s"), Num("unsafe_cipher"), Str("cipher")>>
           \o When(r, "issuerDN", <<Str("issuerDN")>>)
           \o When(r, "subjectDN", <<Str("subjectDN")>>)
           \o When(r, "alpn", <<Str("alpn")>>)
           \o When(r, "tls_supported_versions", <<Str("tls_supported_versions")>>)
           \o When(r, "fingerprint", <<Str("fingerprint")>>))
    ELSE <<>>

QuicReport(r) ==
    Block("quic", When(r, "host", <<Str("client_requested_server_name")>>)
      \o When(r, "server_names", <<Str("server_names")>>)
      \o When(r, "user_agent", <<Str("user_agent")>>)
      \o When(r, "ssl_version",
           When(r, "known_version", <<Str("version")>>)
           \o When(r, "alpn", <<Str("alpn")>>) \o <<Str("ja3")>>
           \o When(r, "tls_supported_versions", <<Str("tls_supported_versions")>>)))

HttpReport(r) ==
    Block("http", When(r, "host", <<Str("hostname")>>)
      \o When(r, "url", <<Str("url"), Num("code"), Str("content_type"), Str("user_agent")>>))

DnsReport(r) ==
    Block("dns", When(r, "host", <<Str("query")>>)
      \o <<Num("num_queries"), Num("num_answers"), Num("reply_code"), Num("query_type"),
           Num("rsp_type"), Str("rsp_addr")>>)

ndpi_dpi2json(r) ==
    ndpi_serialize_proto(r) \o
    (CASE r.proto = "IP_ICMP" -> When(r, "entropy", <<Call("string_float", "entropy", "%.6f")>>)
       [] r.proto = "DHCP" ->
            Block("dhcp", <<Str("hostname"), Str("fingerprint"), Str("class_ident")>>)
       [] r.proto = "BITTORRENT" -> Block("bittorrent", <<Str("hash")>>)
       [] r.proto = "DNS" -> DnsReport(r)
       [] r.proto = "NTP" -> Block("ntp", <<Num("request_code"), Num("version")>>)
       [] r.proto = "MDNS" -> Block("mdns", <<Str("answer")>>)
       [] r.proto = "UBNTAC2" -> Block("ubntac2", <<Str("version")>>)
       [] r.proto = "KERBEROS" ->
            Block("kerberos", <<Str("hostname"), Str("domain"), Str("username")>>)
       [] r.proto = "TELNET" -> Block("telnet", <<Str("username"), Str("password")>>)
       [] r.proto = "HTTP" -> HttpReport(r)
       [] r.proto = "QUIC" -> QuicReport(r)
       [] r.proto = "MAIL_IMAP" -> UserAndPassword("imap")
       [] r.proto = "MAIL_POP" -> UserAndPassword("pop")
       [] r.proto = "MAIL_SMTP" -> UserAndPassword("smtp")
       [] r.proto = "FTP_CONTROL" ->
            Block("ftp", <<Str("user"), Str("password"), Num("auth_failed")>>)
       [] r.proto = "SSH" ->
            Block("ssh", <<Str("client_signature"), Str("server_signature"),
                           Str("hassh_client"), Str("hassh_server")>>)
       [] r.proto \in {"TLS", "DTLS"} -> TlsReport(r)
       [] OTHER -> <<>>)

(***************************************************************************)
(* The calls.                                                              *)
(***************************************************************************)
Perform(s, mem, c) ==
    CASE c.op = "uint32_uint32" -> ndpi_serialize_uint32_uint32(s, mem, c.key, c.v)
      [] c.op = "uint32_uint64" -> ndpi_serialize_uint32_uint64(s, mem, c.key, c.v)
      [] c.op = "uint32_int32" -> ndpi_serialize_uint32_int32(s, mem, c.key, c.v)
      [] c.op = "uint32_int64" -> ndpi_serialize_uint32_int64(s, mem, c.key, c.v)
      [] c.op = "uint32_float" -> ndpi_serialize_uint32_float(s, mem, c.key, c.v)
      [] c.op = "uint32_string" -> ndpi_serialize_uint32_string(s, mem, c.key, c.v)
      [] c.op = "uint32_boolean" -> ndpi_serialize_uint32_boolean(s, mem, c.key, c.v)
      [] c.op = "string_uint32" -> ndpi_serialize_string_uint32(s, mem, c.key, c.v)
      [] c.op = "string_uint64" -> ndpi_serialize_string_uint64(s, mem, c.key, c.v)
      [] c.op = "string_int32" -> ndpi_serialize_string_int32(s, mem, c.key, c.v)
      [] c.op = "binary_int32" -> ndpi_serialize_binary_int32(s, mem, c.key, c.v)
      [] c.op = "string_int64" -> ndpi_serialize_string_int64(s, mem, c.key, c.v)
      [] c.op = "string_float" -> ndpi_serialize_string_float(s, mem, c.key, c.v)
      [] c.op = "string_string" -> ndpi_serialize_string_string(s, mem, c.key, c.v)
      [] c.op = "string_binary" -> ndpi_serialize_string_binary(s, mem, c.key, c.v)
      [] c.op = "string_raw" -> ndpi_serialize_string_raw(s, mem, c.key, c.v)
      [] c.op = "string_uint32_format" -> ndpi_serialize_string_uint32_format(s, mem, c.key, c.v)
      [] c.op = "string_boolean" -> ndpi_serialize_string_boolean(s, mem, c.key, c.v)
      [] c.op = "end_of_record" -> ndpi_serialize_end_of_record(s, mem)
      [] c.op = "raw_record" -> ndpi_serialize_raw_record(s, mem, c.v)
      [] c.op = "start_of_list" -> ndpi_serialize_start_of_list(s, mem, c.key)
      [] c.op = "end_of_list" -> ndpi_serialize_end_of_list(s)
      [] c.op = "start_of_block" -> ndpi_serialize_start_of_block(s, mem, c.key)
      [] c.op = "end_of_block" -> ndpi_serialize_end_of_block(s, mem)

Inner == IF open = <<>> THEN "record" ELSE open[Len(open)]

(* What the interface lets a caller do next.                               *)
Allowed(op) ==
    CASE op \in {"start_of_list", "start_of_block"} -> Inner # "list"
      [] op = "end_of_list" -> Inner = "list"
      [] op = "end_of_block" -> Inner = "block"
      [] op = "end_of_record" -> Inner = "record"
      [] op = "raw_record" ->
           /\ Inner = "record"
           /\ (IsEmptyJson(ser["json"]) \/ "ARRAY" \in ser["json"].flags)
      [] OTHER -> TRUE

OpenAfter(op) ==
    CASE op = "start_of_list" -> Append(open, "list")
      [] op = "start_of_block" -> Append(open, "block")
      [] op \in {"end_of_list", "end_of_block"} -> Front(open)
      [] OTHER -> open

(* What a call writes that another format, or a second reading of TLV,     *)
(* shows differently.                                                      *)
MarksOf(c, mem) ==
    IF mem = "noBuffer" THEN (IF c.op = "raw_record" THEN {"cut"} ELSE {})
    ELSE CASE c.op \in {"raw_record", "string_raw"} -> {"raw"}
           [] c.op \in {"uint32_boolean", "string_boolean"} -> {"boolean"}
           [] c.op = "string_uint32_format" -> {"format"}
           [] c.op \in {"uint32_float", "string_float"} /\ c.v # "%.3f" -> {"format"}
           [] c.op \in {"uint32_int64", "string_int64"} /\ c.v = "i33" -> {"i33"}
           [] c.op = "string_int32" /\ c.v \in {"n8", "g32"} -> {"digits"}
           [] c.op = "uint32_string" -> {"slice"}
           [] c.op \in {"string_string", "string_binary"} /\ ndpi_is_number(c.key) -> {"slice"}
           [] c.op = "start_of_block" /\ "ARRAY" \in ser["json"].flags -> {"late block"}
           [] OTHER -> {}

(* A CSV column that found no room for its name is missing there only.     *)
Uneven(c, mem) == IF /\ mem = "noHeader"
                     /\ c.op \notin Structure
                     /\ "HDR_DONE" \notin ser["csv"].flags
                  THEN {"uneven"} ELSE {}

(* A raw record on an empty document overwrites the brace a snapshot of it *)
(* counts on.                                                              *)
SavedAfter(c) == IF c.op = "raw_record" /\ IsEmptyJson(ser["json"])
                 THEN [saved EXCEPT !.sound = @ \ {"json"}] ELSE saved

Serialize(c, mem) ==
    /\ calls < caller.max
    /\ Allowed(c.op)
    /\ mem # "ok" => "memory" \notin marks        \* one failure in a behaviour
    /\ LET done == [f \in Formats |-> Perform(ser[f], mem, c)]
       IN  /\ ser' = [f \in Formats |-> done[f].s]
           /\ rc' = [f \in Formats |-> done[f].rc]
           /\ open' = IF done["json"].rc = 0 THEN OpenAfter(c.op) ELSE open
    /\ calls' = calls + 1
    /\ last' = c.op
    /\ marks' = marks \cup MarksOf(c, mem) \cup Uneven(c, mem)
                   \cup (IF mem = "ok" THEN {} ELSE {"memory"})
    /\ saved' = SavedAfter(c)
    /\ UNCHANGED caller

Direct(op) ==
    /\ calls < caller.max
    /\ calls' = calls + 1
    /\ last' = op
    /\ rc' = [f \in Formats |-> 0]
    /\ UNCHANGED caller

Reset ==
    /\ Direct("reset")
    /\ ser' = [f \in Formats |-> ndpi_reset_serializer(ser[f])]
    /\ open' = <<>>
    /\ marks' = {}
    /\ saved' = [saved EXCEPT !.sound = {}]

SkipHeader ==
    /\ Direct("skip_header")
    /\ ser' = [ser EXCEPT !["csv"] = ndpi_serializer_skip_header(@)]
    /\ marks' = marks \cup {"skip"}
    /\ UNCHANGED <<open, saved>>

(* A JSON snapshot can be had back when it ends in one bracket: outside a  *)
(* list, in the first record or right after one, and unbroken.             *)
Snapshot ==
    /\ Direct("snapshot")
    /\ ser' = [f \in Formats |-> ndpi_serializer_create_snapshot(ser[f])]
    /\ saved' = [text |-> Text, open |-> open,
                 sound |-> {"csv", "tlv"} \cup
                   (IF /\ Inner # "list"
                       /\ marks \cap {"cut", "late block"} = {}
                       /\ ("ARRAY" \in ser["json"].flags => "EOR" \in ser["json"].flags)
                    THEN {"json"} ELSE {})]
    /\ UNCHANGED <<open, marks>>

Rollback ==
    /\ saved.sound # {}
    /\ Direct("rollback")
    /\ ser' = [f \in Formats |-> ndpi_serializer_rollback_snapshot(ser[f])]
    /\ open' = saved.open
    /\ saved' = NothingSaved
    /\ marks' = IF "json" \in saved.sound THEN marks ELSE marks \cup {"cut"}

(* The calls of a report in turn; the one at "lost" finds no memory.       *)
Run(s, program, lost) ==
    LET after[i \in 0 .. Len(program)] ==
          IF i = 0 THEN s
          ELSE Perform(after[i - 1], IF i = lost THEN "noBuffer" ELSE "ok", program[i]).s
    IN  after[Len(program)]

_doDPI(r, lost) ==
    /\ caller = LANShield
    /\ Direct("doDPI")
    /\ LET program == ndpi_dpi2json(r)
       IN  /\ ser' = [f \in Formats |-> Run(ndpi_reset_serializer(ser[f]), program, lost)]
           /\ marks' = (IF "entropy" \in r.has THEN {"format"} ELSE {})
                \cup (IF "risk" \in r.has THEN {"slice"} ELSE {})
                \cup (IF lost # 0 /\ program[lost].op \in {"start_of_block", "end_of_block"}
                      THEN {"brace"} ELSE {})
    /\ open' = <<>>
    /\ saved' = [saved EXCEPT !.sound = {}]

Init ==
    /\ ser = [f \in Formats |-> ndpi_init_serializer_ll(f)]
    /\ rc = [f \in Formats |-> 0]
    /\ caller \in Callers \cup {LANShield}
    /\ calls = 0
    /\ last = "init"
    /\ open = <<>>
    /\ marks = {}
    /\ saved = NothingSaved

Next ==
    \/ \E c \in caller.calls, mem \in Memory : Serialize(c, mem)
    \/ caller # LANShield /\ (Reset \/ SkipHeader \/ Snapshot \/ Rollback)
    \/ \E r \in Reports : \E lost \in 0 .. Len(ndpi_dpi2json(r)) : _doDPI(r, lost)

Spec == Init /\ [][Next]_vars

-----------------------------------------------------------------------------
(***************************************************************************)
(* Reference definitions: what JSON and CSV are.                           *)
(***************************************************************************)

(* A reader of JSON: the brackets it is in and what may come next.         *)
JsonStep(st, cell) ==
    LET c == cell[1]
        closed == Front(st.stack)
        after(stack) == [stack |-> stack, next |-> IF stack = <<>> THEN "end" ELSE "after"]
        bad == [stack |-> <<>>, next |-> "bad"]
        value == st.next \in {"value", "value or ]"}
    IN  CASE c = "{" /\ value -> [stack |-> Append(st.stack, "{"), next |-> "key or }"]
          [] c = "[" /\ value -> [stack |-> Append(st.stack, "["), next |-> "value or ]"]
          [] c \in {"num", "float", "text", "literal", "raw", "record"} /\ value -> after(st.stack)
          [] c = "key" /\ st.next \in {"key", "key or }"} -> [st EXCEPT !.next = ":"]
          [] c = ":" /\ st.next = ":" -> [st EXCEPT !.next = "value"]
          [] c = "," /\ st.next = "after" ->
               [st EXCEPT !.next = IF Last(st.stack) = "{" THEN "key" ELSE "value"]
          [] c = "}" /\ st.next \in {"key or }", "after"} /\ Last(st.stack) = "{" -> after(closed)
          [] c = "]" /\ st.next \in {"value or ]", "after"} /\ Last(st.stack) = "[" -> after(closed)
          [] OTHER -> bad

(* The reader's states: the n-th is the one n cells leave it in.           *)
JsonStates(start, cells) ==
    LET states[n \in 0 .. Len(cells)] ==
          IF n = 0 THEN start ELSE JsonStep(states[n - 1], cells[n])
    IN  states

JsonStart == [stack |-> <<>>, next |-> "value"]

IsJson(cells) == JsonStates(JsonStart, cells)[Len(cells)] = [stack |-> <<>>, next |-> "end"]

(* A CSV text as the number of fields of each line, with -1 for a line     *)
(* that has a separator without a field on both sides.                     *)
CsvStep(st, cell) ==
    CASE cell[1] = "nl" -> [lines |-> Append(st.lines, IF st.comma THEN -1 ELSE st.fields),
                            fields |-> 0, comma |-> FALSE]
      [] cell[1] = "," ->
           [st EXCEPT !.comma = TRUE, !.fields = IF st.comma \/ @ = 0 THEN -1 ELSE @]
      [] OTHER ->
           [st EXCEPT !.comma = FALSE,
                      !.fields = IF @ = -1 \/ (@ > 0 /\ ~st.comma) THEN -1 ELSE @ + 1]

CsvStates(cells) ==
    LET states[n \in 0 .. Len(cells)] ==
          IF n = 0 THEN [lines |-> <<>>, fields |-> 0, comma |-> FALSE]
          ELSE CsvStep(states[n - 1], cells[n])
    IN  states

CsvFields(cells) ==
    LET end == CsvStates(cells)[Len(cells)]
    IN  Append(end.lines, IF end.comma THEN -1 ELSE end.fields)

Braces(n) == [i \in 1 .. n |-> <<"}">>]

-----------------------------------------------------------------------------
(***************************************************************************)
(* Properties.                                                             *)
(***************************************************************************)

(* The JSON text is well-formed JSON after every call, once the caller's   *)
(* open blocks have their brace: ndpi_serialize_json_pre takes off exactly *)
(* the brackets ndpi_serialize_json_post, end_of_record and raw_record put *)
(* there, through records, lists, blocks, snapshots, failed calls and the  *)
(* reports of ndpi_dpi2json.  Not claimed: a block opened after the first  *)
(* record ("late block": its brace goes behind the array's bracket), a     *)
(* failed raw record, a rollback to the middle of a list or of a later     *)
(* record ("cut"), and a report whose brace found no memory ("brace").     *)
JsonParses ==
    marks \cap {"late block", "cut", "brace"} = {} =>
      IsJson(Text["json"] \o Braces(Cardinality({i \in 1 .. Len(open) : open[i] = "block"})))

(* Reading the TLV buffer with ndpi_deserialize_clone_all into a fresh     *)
(* serializer gives the text the same calls gave directly, in JSON and in  *)
(* CSV, and copying it item by item gives the same TLV: the narrow forms   *)
(* of numbers, numeric keys, lists, blocks and rollbacks all read back.    *)
(* Not claimed for what TLV cannot hold (booleans, raw text, formats) and  *)
(* for 64-bit values of 2^31 .. 2^32 - 1, which TLV keeps in 32 bits; and  *)
(* for CSV not where the code shows a value in two ways: a 32-bit number   *)
(* under a name, printed by string_int32 in nine digits and by the clone   *)
(* in all ("digits"), and a string under a numeric key, which the clone    *)
(* hands on as a slice of the TLV buffer and CSV prints past its end       *)
(* ("slice").                                                              *)
ClonesMatch ==
    marks \cap {"raw", "boolean", "format", "i33", "late block", "cut", "uneven", "brace"} = {} =>
      LET tlv   == Used(ser["tlv"])
          again == [f \in Formats |-> ndpi_deserialize_clone_all(tlv, ndpi_init_serializer_ll(f))]
      IN  /\ ndpi_init_deserializer_buf(tlv) = 0
          /\ ndpi_serializer_get_buffer(again["json"]) = Text["json"]
          /\ marks \cap {"digits", "slice"} = {} => ndpi_serializer_get_buffer(again["csv"]) = Text["csv"]
          /\ "skip" \notin marks => ndpi_serializer_get_header(again["csv"])
                                      = ndpi_serializer_get_header(ser["csv"])
          /\ Used(again["tlv"]) = tlv

(* ndpi_serialize_csv_pre asks for a byte, not for a value: when the first *)
(* value of the first line is empty, no separator follows it.              *)
SeparatorLost(cells) ==
    Len(cells) > 1 /\ cells[1] = <<"text", "">> /\ cells[2][1] \notin {",", "nl"}

(* The CSV header names as many columns as the first line has fields, and  *)
(* no line has a separator too many or too few, through failed calls,      *)
(* rollbacks over the end of the first record, and resets.  Not so, and    *)
(* excepted, when the first value of all is empty and another follows it:  *)
(* the header then names a column more than the line has fields.           *)
CsvColumns ==
    "raw" \notin marks /\ ~SeparatorLost(Text["csv"]) =>
      LET fields == CsvFields(Text["csv"])
      IN  /\ \A i \in 1 .. Len(fields) : fields[i] >= 0
          /\ "skip" \notin marks =>
               CsvFields(ndpi_serializer_get_header(ser["csv"])) = <<fields[1]>>

(* A call that returns an error has changed no text and no header: room is *)
(* asked for before anything is written.  (A raw record is the exception.) *)
FailedChangesNothing ==
    [][\A f \in Formats :
         (rc'[f] < 0 /\ last' # "raw_record") =>
           /\ Text'[f] = Text[f]
           /\ ser'[f].flags = ser[f].flags
           /\ ser'[f].hused = ser[f].hused]_vars

(* A rollback brings back the text of the snapshot, byte for byte, though  *)
(* only its last bracket and its first character are rewritten.            *)
RollbackRestores ==
    [][last' = "rollback" /\ calls' # calls =>
         \A f \in saved.sound : Text'[f] = saved.text[f]]_vars
=============================================================================
