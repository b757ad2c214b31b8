--------------------------- MODULE NdpiSerializer ---------------------------
(***************************************************************************)
(* The serializer of nDPI (ndpi_serializer.c): it writes keys and values   *)
(* as JSON, CSV or TLV, and reads TLV back.  LANShield keeps one JSON      *)
(* serializer for the report _doDPI hands to the VPN.                      *)
(*                                                                         *)
(* A buffer is a sequence of cells: a cell is one character of structure,  *)
(* one key, one value, or one type byte.  Cells after "used" stay in       *)
(* memory, as bytes after size_used do, for a rollback to bring them back; *)
(* they are forgotten when there is no snapshot.                           *)
(* Numbers are named after the smallest width that holds them.  Whether a  *)
(* call has to extend its buffer, and whether that fails, is a choice of   *)
(* the caller's environment ("mem").  What a call asks for is taken to be  *)
(* enough for what it writes, which the code does not always ensure (it    *)
(* counts four bytes for a 64-bit value in TLV, and nine for a number and  *)
(* its separator in CSV).  Keys are not empty, a numeric one is written as *)
(* its number is printed, and a value the caller gives has a NUL behind it.*)
(***************************************************************************)
EXTENDS Integers, Sequences, SequencesExt

Formats == {"json", "csv", "tlv"}

(* What realloc answers to a call that needs room: both requests granted,  *)
(* the one for the buffer refused, or a second one refused (for the header *)
(* of CSV, or for the end of a raw record).                                *)
Memory == {"ok", "noBuffer", "noHeader"}

(* Keys that are numbers, with the width ndpi_serialize_key_uint32 picks.  *)
NumericKey == [k \in {"12", "3000", "70000"} |->
                 CASE k = "12" -> "uint8" [] k = "3000" -> "uint16" [] OTHER -> "uint32"]

(* Unsigned values by the smallest width that holds them.                  *)
Unsigned == [u8 |-> "uint8", u16 |-> "uint16", u32 |-> "uint32", u64 |-> "uint64"]

(* Signed values: n8 is negative, g32 lies in 10^9 .. 2^31 - 1, i33 in     *)
(* 2^31 .. 2^32 - 1, and w33 is what is left of i33 in 32 bits.            *)
Signed == [i8 |-> "int8", n8 |-> "int8", i16 |-> "int16", i32 |-> "int32", g32 |-> "int32",
           w33 |-> "int32", i33 |-> "int64", i64 |-> "int64"]

(***************************************************************************)
(* The serializer, its status flags and its buffers.                       *)
(***************************************************************************)
NoSnapshot == [flags |-> {"none"}, used |-> 0, hused |-> 0]

Status(s) == [flags |-> s.flags, used |-> s.used, hused |-> s.hused]

Has(s, flag) == flag \in s.flags

Raise(s, flag) == [s EXCEPT !.flags = @ \cup {flag}]

Clear(s, flag) == [s EXCEPT !.flags = @ \ {flag}]

(* Writes cells at the end of the used part, over what memory holds there. *)
Put(s, cells) ==
    [s EXCEPT !.data = SubSeq(@, 1, s.used) \o cells
                         \o (IF s.snapshot = NoSnapshot THEN <<>>
                             ELSE SubSeq(@, s.used + Len(cells) + 1, Len(@))),
              !.used = @ + Len(cells)]

Drop(s, n) == [s EXCEPT !.used = @ - n]

Poke(s, i, cell) == [s EXCEPT !.data[i] = cell]

Used(s) == SubSeq(s.data, 1, s.used)

(* What a call returns: its code and the serializer it leaves.             *)
Returns(rc, s) == [rc |-> rc, s |-> s]

ndpi_reset_serializer(s) ==
    LET clean == [s EXCEPT !.flags = {}]
    IN  CASE s.fmt = "json" -> Put([clean EXCEPT !.used = 0], <<<<" ">>, <<"{">>, <<"}">>>>)
          [] s.fmt = "csv" -> Put([clean EXCEPT !.used = 0, !.hused = 0], <<>>)
          [] s.fmt = "tlv" -> Put([clean EXCEPT !.used = 2], <<>>)

ndpi_init_serializer_ll(fmt) ==
    ndpi_reset_serializer([fmt |-> fmt, flags |-> {}, used |-> 0, hused |-> 0,
                           header |-> <<>>, snapshot |-> NoSnapshot,
                           data |-> IF fmt = "tlv" THEN <<<<"version", "1">>, <<"format", fmt>>>>
                                                   ELSE <<>>])

ndpi_serializer_skip_header(s) == Raise(s, "HDR_DONE")

(* The text handed out: JSON drops the blank in front.                     *)
ndpi_serializer_get_buffer(s) ==
    IF s.fmt = "json" /\ s.data[1] = <<" ">> THEN SubSeq(s.data, 2, s.used) ELSE Used(s)

ndpi_serializer_get_header(s) == SubSeq(s.header, 1, s.hused)

(* A column's name joins the header until the first record has ended.      *)
ndpi_serializer_header_string(s, key) ==
    IF Has(s, "HDR_DONE") THEN s
    ELSE LET cells == (IF s.hused > 0 THEN <<<<",">>>> ELSE <<>>) \o <<<<"key", key>>>>
         IN  [s EXCEPT !.header = SubSeq(@, 1, s.hused) \o cells,
                       !.hused = @ + Len(cells)]

ndpi_serializer_header_uint32(s, key) == ndpi_serializer_header_string(s, key)

(* size_used is 0: nothing has been written, or nothing but empty values.  *)
NoByte(s) == \A i \in 1 .. s.used : s.data[i] = <<"text", "">>

ndpi_serialize_csv_pre(s) ==
    CASE Has(s, "EOR") -> Clear(s, "EOR")
      [] ~Has(s, "EOR") /\ NoByte(s) -> s
      [] OTHER -> Put(s, <<<<",">>>>)

(* Reopens the document: takes off the closing brackets, adds the comma.   *)
ndpi_serialize_json_pre(s) ==
    IF Has(s, "EOR")
    THEN Put(Clear(Drop(s, 1), "EOR"), <<<<",">>, <<"{">>>>)
    ELSE LET cut == Drop(s, 1 + (IF Has(s, "ARRAY") THEN 1 ELSE 0)
                              + (IF Has(s, "LIST") THEN 1 ELSE 0))
             first == IF Has(s, "LIST") THEN "SOL" ELSE "SOB"
         IN  CASE Has(s, first) -> Clear(cut, first)
               [] ~Has(s, first) /\ (Has(s, "LIST") \/ Has(s, "COMMA")) -> Put(cut, <<<<",">>>>)
               [] OTHER -> cut

(* Closes the document again.                                              *)
ndpi_serialize_json_post(s) ==
    Raise(Put(s, (IF Has(s, "LIST") THEN <<<<"]">>>> ELSE <<>>) \o <<<<"}">>>>
                   \o (IF Has(s, "ARRAY") THEN <<<<"]">>>> ELSE <<>>)), "COMMA")

(***************************************************************************)
(* Keys with values.                                                       *)
(***************************************************************************)

(* A key and a value in the serializer's format.  kt and et are their TLV  *)
(* types, text is the cell JSON and CSV show, raw the value TLV stores.    *)
AddItem(s, mem, kt, key, et, raw, text) ==
    CASE mem = "noBuffer" \/ (mem = "noHeader" /\ s.fmt = "csv" /\ ~Has(s, "HDR_DONE")) ->
           Returns(-1, s)
      [] OTHER ->
           LET pre  == ndpi_serialize_json_pre(s)
               name == IF Has(pre, "LIST") THEN <<>> ELSE <<<<"key", key>>, <<":">>>>
               done == CASE s.fmt = "json" -> ndpi_serialize_json_post(Put(pre, name \o <<text>>))
                         [] s.fmt = "csv" ->
                              LET head == IF kt = "string"
                                          THEN ndpi_serializer_header_string(s, key)
                                          ELSE ndpi_serializer_header_uint32(s, key)
                              IN  Put(ndpi_serialize_csv_pre(head), <<text>>)
                         [] s.fmt = "tlv" ->
                              Put(s, <<<<"type", kt, et>>, <<kt, key>>, <<et, raw>>>>)
           IN  Returns(0, Raise(done, "NOT_EMPTY"))

(* The short paths for CSV keep NOT_EMPTY as it is.                        *)
AddCsvItem(s, mem, key, text) ==
    LET full == AddItem(s, mem, "string", key, "string", key, text)
    IN  Returns(full.rc, IF Has(s, "NOT_EMPTY") THEN full.s ELSE Clear(full.s, "NOT_EMPTY"))

ndpi_is_number(key) == key \in DOMAIN NumericKey

ndpi_serialize_key_uint32(key) == NumericKey[key]

ndpi_serialize_uint32_uint32(s, mem, key, v) ==
    AddItem(s, mem, ndpi_serialize_key_uint32(key), key, Unsigned[v], v, <<"num", v>>)

ndpi_serialize_uint32_uint64(s, mem, key, v) ==
    IF s.fmt = "tlv" /\ v # "u64" THEN ndpi_serialize_uint32_uint32(s, mem, key, v)
    ELSE AddItem(s, mem, ndpi_serialize_key_uint32(key), key, "uint64", v, <<"num", v>>)

ndpi_serialize_uint32_int32(s, mem, key, v) ==
    AddItem(s, mem, ndpi_serialize_key_uint32(key), key, Signed[v], v, <<"num", v>>)

(* (value & 0xFFFFFFFF) == value: not negative and below 2^32; the call    *)
(* with 32 bits then turns i33 into w33.                                   *)
LowWord(v) == v \in {"i8", "i16", "i32", "g32", "i33"}

AsInt32(v) == IF v = "i33" THEN "w33" ELSE v

ndpi_serialize_uint32_int64(s, mem, key, v) ==
    IF s.fmt = "tlv" /\ LowWord(v) THEN ndpi_serialize_uint32_int32(s, mem, key, AsInt32(v))
    ELSE AddItem(s, mem, ndpi_serialize_key_uint32(key), key, "int64", v, <<"num", v>>)

(* v is the format the number is printed with; TLV keeps the number.       *)
ndpi_serialize_uint32_float(s, mem, key, v) ==
    AddItem(s, mem, ndpi_serialize_key_uint32(key), key, "float", "f", <<"float", v>>)

(* CSV prints with "%s" whatever the length is: with no NUL behind the     *)
(* value, what memory holds there is printed too.                          *)
ndpi_serialize_uint32_binary(s, mem, key, v, nul) ==
    AddItem(s, mem, ndpi_serialize_key_uint32(key), key, "string", v,
            IF s.fmt = "csv" /\ ~nul THEN <<"text", v, "and on">> ELSE <<"text", v>>)

ndpi_serialize_uint32_string(s, mem, key, v) ==
    ndpi_serialize_uint32_binary(s, mem, key, v, TRUE)

ndpi_serialize_uint32_boolean(s, mem, key, v) ==
    IF s.fmt = "tlv" THEN Returns(-1, s)
    ELSE AddItem(s, mem, ndpi_serialize_key_uint32(key), key, "none", v, <<"literal", v>>)

ndpi_serialize_binary_int32(s, mem, key, v) ==
    IF ndpi_is_number(key) THEN ndpi_serialize_uint32_int32(s, mem, key, v)
    ELSE AddItem(s, mem, "string", key, Signed[v], v, <<"num", v>>)

(* CSV prints it with %u into ten bytes: of ten digits, which a negative   *)
(* number has too, the last gives way to a NUL.                            *)
ndpi_serialize_string_int32(s, mem, key, v) ==
    IF s.fmt = "csv"
    THEN AddCsvItem(s, mem, key, IF v \in {"n8", "g32", "w33"} THEN <<"num", v, "nine digits">>
                                                              ELSE <<"num", v>>)
    ELSE ndpi_serialize_binary_int32(s, mem, key, v)

ndpi_serialize_binary_int64(s, mem, key, v) ==
    CASE ndpi_is_number(key) -> ndpi_serialize_uint32_int64(s, mem, key, v)
      [] ~ndpi_is_number(key) /\ s.fmt = "tlv" /\ LowWord(v) ->
           ndpi_serialize_string_int32(s, mem, key, AsInt32(v))
      [] OTHER -> AddItem(s, mem, "string", key, "int64", v, <<"num", v>>)

ndpi_serialize_string_int64(s, mem, key, v) == ndpi_serialize_binary_int64(s, mem, key, v)

ndpi_serialize_binary_uint32(s, mem, key, v) ==
    CASE s.fmt = "csv" -> AddCsvItem(s, mem, key, <<"num", v>>)
      [] s.fmt # "csv" /\ ndpi_is_number(key) -> ndpi_serialize_uint32_uint32(s, mem, key, v)
      [] OTHER -> AddItem(s, mem, "string", key, Unsigned[v], v, <<"num", v>>)

ndpi_serialize_string_uint32(s, mem, key, v) == ndpi_serialize_binary_uint32(s, mem, key, v)

ndpi_serialize_binary_uint64(s, mem, key, v) ==
    CASE ndpi_is_number(key) -> ndpi_serialize_uint32_uint64(s, mem, key, v)
      [] ~ndpi_is_number(key) /\ s.fmt = "tlv" /\ v # "u64" ->
           ndpi_serialize_string_uint32(s, mem, key, v)
      [] OTHER -> AddItem(s, mem, "string", key, "uint64", v, <<"num", v>>)

ndpi_serialize_string_uint64(s, mem, key, v) == ndpi_serialize_binary_uint64(s, mem, key, v)

ndpi_serialize_binary_float(s, mem, key, v) ==
    IF ndpi_is_number(key) THEN ndpi_serialize_uint32_float(s, mem, key, v)
    ELSE AddItem(s, mem, "string", key, "float", "f", <<"float", v>>)

ndpi_serialize_string_float(s, mem, key, v) == ndpi_serialize_binary_float(s, mem, key, v)

(* Only the JSON text differs: quoted and escaped, or as it stands.        *)
ndpi_serialize_binary_raw(s, mem, key, v, escape) ==
    AddItem(s, mem, "string", key, "string", v,
           IF s.fmt = "json" /\ ~escape THEN <<"raw", v>> ELSE <<"text", v>>)

ndpi_serialize_binary_binary(s, mem, key, v, nul) ==
    IF ndpi_is_number(key) THEN ndpi_serialize_uint32_binary(s, mem, key, v, nul)
    ELSE ndpi_serialize_binary_raw(s, mem, key, v, TRUE)

ndpi_serialize_string_binary(s, mem, key, v) ==
    ndpi_serialize_binary_binary(s, mem, key, v, TRUE)

ndpi_serialize_string_string(s, mem, key, v) ==
    IF s.fmt = "csv" THEN AddCsvItem(s, mem, key, <<"text", v>>)
    ELSE ndpi_serialize_binary_binary(s, mem, key, v, TRUE)

ndpi_serialize_string_raw(s, mem, key, v) == ndpi_serialize_binary_raw(s, mem, key, v, FALSE)

(* A printed number: JSON has base 10 only and gets the number itself.     *)
ndpi_serialize_string_uint32_format(s, mem, key, v) ==
    IF s.fmt = "json" THEN ndpi_serialize_string_uint32(s, mem, key, v)
    ELSE ndpi_serialize_string_string(s, mem, key, v)

ndpi_serialize_binary_boolean(s, mem, key, v) ==
    CASE s.fmt = "tlv" -> Returns(-1, s)
      [] s.fmt # "tlv" /\ ndpi_is_number(key) -> ndpi_serialize_uint32_boolean(s, mem, key, v)
      [] OTHER -> AddItem(s, mem, "string", key, "none", v, <<"literal", v>>)

ndpi_serialize_string_boolean(s, mem, key, v) == ndpi_serialize_binary_boolean(s, mem, key, v)

(***************************************************************************)
(* Records, lists and blocks.                                              *)
(***************************************************************************)
(* Faulty variant: the header stays open after the first record.           *)
EndOfRecordKeepsHeader(s, mem) ==
    IF mem = "noBuffer" THEN Returns(-1, s)
    ELSE LET ended ==
               CASE s.fmt = "csv" -> Raise(Put(s, <<<<"nl">>>>), "EOR")
                 [] s.fmt = "json" ->
                      LET array == IF Has(s, "ARRAY") THEN s
                                   ELSE Put(Poke(s, 1, <<"[">>), <<<<"]">>>>)
                      IN  Clear(Raise(Raise(array, "ARRAY"), "EOR"), "COMMA")
                 [] s.fmt = "tlv" -> Put(s, <<<<"type", "unknown", "end_of_record">>>>)
         IN  Returns(0, Clear(ended, "NOT_EMPTY"))

ndpi_serialize_end_of_record(s, mem) ==
    IF mem = "noBuffer" THEN Returns(-1, s)
    ELSE LET ended ==
               CASE s.fmt = "csv" -> Raise(Raise(Put(s, <<<<"nl">>>>), "HDR_DONE"), "EOR")
                 [] s.fmt = "json" ->
                      LET array == IF Has(s, "ARRAY") THEN s
                                   ELSE Put(Poke(s, 1, <<"[">>), <<<<"]">>>>)
                      IN  Clear(Raise(Raise(array, "ARRAY"), "EOR"), "COMMA")
                 [] s.fmt = "tlv" -> Put(s, <<<<"type", "unknown", "end_of_record">>>>)
         IN  Returns(0, Clear(ended, "NOT_EMPTY"))

(* size_used == 3: " {}".  (A raw record is one cell, but longer than one  *)
(* character.)                                                             *)
IsEmptyJson(s) == s.fmt = "json" /\ s.used = 3 /\ s.data[2] = <<"{">>

(* A finished record as it stands.  The size of an empty document is       *)
(* changed before the room is asked for.  In CSV and TLV the end of the    *)
(* record asks again, and the call ignores that it found no room.          *)
ndpi_serialize_raw_record(s, mem, record) ==
    LET empty == IsEmptyJson(s)
        cut   == IF empty THEN [s EXCEPT !.used = 2] ELSE s
        cells == <<<<"record", record>>>>
        put   == CASE s.fmt # "json" -> Put(cut, cells)
                   [] empty -> Put(Drop(cut, 1), cells)
                   [] OTHER -> Put(Poke(s, s.used, <<",">>), cells \o <<<<"]">>>>)
    IN  IF mem = "noBuffer" THEN Returns(-1, cut)
        ELSE Returns(0, ndpi_serialize_end_of_record(put,
                          IF mem = "noHeader" /\ s.fmt # "json" THEN "noBuffer" ELSE "ok").s)

ndpi_serialize_start_of_list_binary(s, mem, key) ==
    CASE s.fmt = "csv" \/ mem = "noBuffer" -> Returns(-1, s)
      [] s.fmt = "tlv" /\ mem # "noBuffer" ->
           Returns(0, Put(s, <<<<"type", "unknown", "start_of_list">>, <<"string", key>>>>))
      [] OTHER ->
           LET begun == Put(ndpi_serialize_json_pre(s), <<<<"key", key>>, <<":">>, <<"[">>>>)
           IN  Returns(0, ndpi_serialize_json_post(Raise(Raise(begun, "LIST"), "SOL")))

ndpi_serialize_start_of_list(s, mem, key) == ndpi_serialize_start_of_list_binary(s, mem, key)

(* Faulty variant: the end of a list is not written to TLV.                *)
EndOfListJsonOnly(s) ==
    IF s.fmt = "json" THEN Returns(0, Clear(Clear(s, "SOL"), "LIST")) ELSE Returns(-1, s)

ndpi_serialize_end_of_list(s) ==
    CASE s.fmt = "csv" -> Returns(-1, s)
      [] s.fmt = "json" -> Returns(0, Clear(Clear(s, "SOL"), "LIST"))
      [] s.fmt = "tlv" -> Returns(0, Put(s, <<<<"type", "unknown", "end_of_list">>>>))

(* Faulty variant: the document is reopened before the room is asked for.  *)
StartOfBlockEarly(s, mem, key) ==
    CASE s.fmt = "csv" \/ (s.fmt = "tlv" /\ mem = "noBuffer") -> Returns(-1, s)
      [] s.fmt = "tlv" /\ mem # "noBuffer" ->
           Returns(0, Put(s, <<<<"type", "unknown", "start_of_block">>, <<"string", key>>>>))
      [] OTHER ->
           LET pre   == ndpi_serialize_json_pre(s)
               begun == Put(pre, <<<<"key", key>>, <<":">>, <<"{">>>>)
           IN  IF mem = "noBuffer" THEN Returns(-1, pre)
               ELSE Returns(0, Raise(ndpi_serialize_json_post(begun), "SOB"))

ndpi_serialize_start_of_block_binary(s, mem, key) ==
    CASE s.fmt = "csv" \/ mem = "noBuffer" -> Returns(-1, s)
      [] s.fmt = "tlv" /\ mem # "noBuffer" ->
           Returns(0, Put(s, <<<<"type", "unknown", "start_of_block">>, <<"string", key>>>>))
      [] OTHER ->
           LET begun == Put(ndpi_serialize_json_pre(s), <<<<"key", key>>, <<":">>, <<"{">>>>)
           IN  Returns(0, Raise(ndpi_serialize_json_post(begun), "SOB"))

ndpi_serialize_start_of_block(s, mem, key) == ndpi_serialize_start_of_block_binary(s, mem, key)

(* Faulty variant: an empty block leaves its mark for the next item.       *)
EndOfBlockKeepsMark(s, mem) ==
    CASE s.fmt = "csv" \/ mem = "noBuffer" -> Returns(-1, s)
      [] s.fmt = "tlv" /\ mem # "noBuffer" ->
           Returns(0, Put(s, <<<<"type", "unknown", "end_of_block">>>>))
      [] OTHER -> Returns(0, ndpi_serialize_json_post(s))

(* The brace of the block is added behind the one that closes the record.  *)
ndpi_serialize_end_of_block(s, mem) ==
    CASE s.fmt = "csv" \/ mem = "noBuffer" -> Returns(-1, s)
      [] s.fmt = "tlv" /\ mem # "noBuffer" ->
           Returns(0, Put(s, <<<<"type", "unknown", "end_of_block">>>>))
      [] OTHER -> Returns(0, ndpi_serialize_json_post(Clear(s, "SOB")))

ndpi_serializer_create_snapshot(s) == [s EXCEPT !.snapshot = Status(s)]

(* Faulty variant: the bracket of an array begun since stays in front.     *)
RollbackKeepsArray(s) ==
    IF s.snapshot = NoSnapshot THEN s
    ELSE LET back == [s EXCEPT !.flags = s.snapshot.flags, !.used = s.snapshot.used,
                               !.hused = s.snapshot.hused, !.snapshot = NoSnapshot]
         IN  CASE s.fmt # "json" -> back
               [] s.fmt = "json" /\ Has(back, "ARRAY") -> Poke(back, back.used, <<"]">>)
               [] OTHER -> Poke(back, back.used, <<"}">>)

ndpi_serializer_rollback_snapshot(s) ==
    IF s.snapshot = NoSnapshot THEN s
    ELSE LET back == [s EXCEPT !.flags = s.snapshot.flags, !.used = s.snapshot.used,
                               !.hused = s.snapshot.hused, !.snapshot = NoSnapshot]
         IN  CASE s.fmt # "json" -> back
               [] s.fmt = "json" /\ Has(back, "ARRAY") -> Poke(back, back.used, <<"]">>)
               [] OTHER -> Poke(Poke(back, 1, <<" ">>), back.used, <<"}">>)

(***************************************************************************)
(* Reading TLV back.  A deserializer is a TLV buffer d and a position p.   *)
(***************************************************************************)
ndpi_init_deserializer_buf(d) ==
    CASE Len(d) < 2 -> -1
      [] Len(d) >= 2 /\ d[1] # <<"version", "1">> -> -2
      [] OTHER -> 0

ndpi_deserialize_get_key_subtype(d, p) == IF p > Len(d) THEN "unknown" ELSE d[p][2]

ndpi_deserialize_get_value_subtype(d, p) == IF p > Len(d) THEN "unknown" ELSE d[p][3]

Wide(type) == CASE type \in {"uint8", "uint16"} -> "uint32"
                [] type \in {"int8", "int16"} -> "int32"
                [] OTHER -> type

ndpi_deserialize_get_item_type(d, p) ==
    [kt |-> Wide(ndpi_deserialize_get_key_subtype(d, p)),
     et |-> Wide(ndpi_deserialize_get_value_subtype(d, p))]

ndpi_deserialize_get_single_size(type) ==
    IF type \in {"unknown", "end_of_record", "end_of_block", "end_of_list"} THEN 0 ELSE 1

(* The cells of the item at p: its type, its key and its value.            *)
ItemSize(d, p) == 1 + ndpi_deserialize_get_single_size(ndpi_deserialize_get_key_subtype(d, p))
                    + ndpi_deserialize_get_single_size(ndpi_deserialize_get_value_subtype(d, p))

ndpi_deserialize_next(d, p) == p + ItemSize(d, p)

ndpi_deserialize_key_uint32(d, p) == d[p + 1][2]

(* For a list or a block, which has no key type, this is its name.         *)
ndpi_deserialize_key_string(d, p) == d[p + 1][2]

ValueAt(d, p) ==
    d[p + 1 + ndpi_deserialize_get_single_size(ndpi_deserialize_get_key_subtype(d, p))][2]

ndpi_deserialize_value_uint32(d, p) == ValueAt(d, p)

ndpi_deserialize_value_uint64(d, p) == ValueAt(d, p)

ndpi_deserialize_value_int32(d, p) == ValueAt(d, p)

ndpi_deserialize_value_int64(d, p) == ValueAt(d, p)

ndpi_deserialize_value_string(d, p) == ValueAt(d, p)

(* One item, by the calls that would have written it.  A string is handed  *)
(* on where it stands in the TLV buffer, with no NUL behind it.            *)
CloneStep(d, p, s) ==
    LET type  == ndpi_deserialize_get_item_type(d, p)
        named == type.kt = "string"
        key   == IF named THEN ndpi_deserialize_key_string(d, p) ELSE ndpi_deserialize_key_uint32(d, p)
        done  ==
          CASE type.et = "end_of_record" -> ndpi_serialize_end_of_record(s, "ok")
            [] type.et = "start_of_block" ->
                 ndpi_serialize_start_of_block_binary(s, "ok", ndpi_deserialize_key_string(d, p))
            [] type.et = "end_of_block" -> ndpi_serialize_end_of_block(s, "ok")
            [] type.et = "start_of_list" ->
                 ndpi_serialize_start_of_list_binary(s, "ok", ndpi_deserialize_key_string(d, p))
            [] type.et = "end_of_list" -> ndpi_serialize_end_of_list(s)
            [] type.et = "uint32" ->
                 LET v == ndpi_deserialize_value_uint32(d, p)
                 IN  IF named THEN ndpi_serialize_binary_uint32(s, "ok", key, v)
                     ELSE ndpi_serialize_uint32_uint32(s, "ok", key, v)
            [] type.et = "uint64" ->
                 LET v == ndpi_deserialize_value_uint64(d, p)
                 IN  IF named THEN ndpi_serialize_binary_uint64(s, "ok", key, v)
                     ELSE ndpi_serialize_uint32_uint64(s, "ok", key, v)
            [] type.et = "int32" ->
                 LET v == ndpi_deserialize_value_int32(d, p)
                 IN  IF named THEN ndpi_serialize_binary_int32(s, "ok", key, v)
                     ELSE ndpi_serialize_uint32_int32(s, "ok", key, v)
            [] type.et = "int64" ->
                 LET v == ndpi_deserialize_value_int64(d, p)
                 IN  IF named THEN ndpi_serialize_binary_int64(s, "ok", key, v)
                     ELSE ndpi_serialize_uint32_int64(s, "ok", key, v)
            [] type.et = "float" ->
                 IF named THEN ndpi_serialize_binary_float(s, "ok", key, "%.3f")
                 ELSE ndpi_serialize_uint32_float(s, "ok", key, "%.3f")
            [] type.et = "string" ->
                 LET v == ndpi_deserialize_value_string(d, p)
                 IN  IF named THEN ndpi_serialize_binary_binary(s, "ok", key, v, FALSE)
                     ELSE ndpi_serialize_uint32_binary(s, "ok", key, v, FALSE)
    IN  done.s

(* The items in turn, up to the end of the buffer; there are fewer items   *)
(* than cells.                                                             *)
ndpi_deserialize_clone_all(d, s) ==
    LET after[n \in 0 .. Len(d)] ==
          IF n = 0 THEN [p |-> 3, s |-> s]
          ELSE LET c == after[n - 1]
               IN  IF ndpi_deserialize_get_item_type(d, c.p).et = "unknown" THEN c
                   ELSE [p |-> ndpi_deserialize_next(d, c.p), s |-> CloneStep(d, c.p, c.s)]
    IN  after[Len(d)].s
=============================================================================
