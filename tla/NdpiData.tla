------------------------------ MODULE NdpiData ------------------------------
(***************************************************************************)
(* Dissectors of data stores, messaging and middleware.                    *)
(***************************************************************************)
EXTENDS NdpiFlow, FiniteSetsExt

-----------------------------------------------------------------------------
(* Git: pkt-lines whose hexadecimal lengths chain; what is left shrinks as *)
(* the offset grows, so the walk ends halfway through the payload.         *)
ndpi_search_git(p, f) ==
  LET ok[o \in 0..p.len] ==
        \/ o + 4 >= p.len - o
        \/ IsNum(p, o) /\ p.n[o] \in 1..(p.len - o) /\ ok[o + p.n[o]]
  IN IF IsTcp(p) /\ p.len > 4 /\ Port(p, 9418) /\ ok[0]
     THEN FoundOnly(f, "GIT") ELSE Excl(f, "GIT")

ndpi_search_mysql_tcp(p, f) ==
  IF /\ IsTcp(p) /\ p.len > 38
     /\ L16(p, 0) = p.len - 4 /\ U16(p, 2) = 0
     /\ U8(p, 5) \in 49..56 /\ U8(p, 6) = 46
     /\ At(p, p.len - 22, "mysql_")
  THEN FoundOnly(f, "MYSQL") ELSE Excl(f, "MYSQL")

NatsCommands == {"INFO {", "CONNECT {", "PUB ", "SUB", "UNSUB ", "MSG ", "PING", "PONG"}

\* Neither answer of the server decides anything.
ndpi_search_nats_tcp(p, f) ==
  IF ~(IsTcp(p) /\ p.len > 4) \/ BeginsAny(p, {"+OK", "-ERR"}) THEN f
  ELSE IF BeginsAny(p, NatsCommands) /\ Has(p, "\r\n")
  THEN FoundOnly(f, "NATS") ELSE Excl(f, "NATS")

(* PostgreSQL: an SSL request (stage 1 + direction) or a start-up message  *)
(* (3 + direction), then the other side's answer.  The code also tests for *)
(* stages 5 and 6, which it never sets.                                    *)
ndpi_search_postgres_tcp(p, f) ==
  LET stage == V(f, "postgres_stage")
      whole == p.len > 7 /\ Num32(U32(p, 0)) = p.len
  IN IF stage = 0
     THEN IF whole /\ U32(p, 4) = <<1234, 5679>> THEN Put(f, "postgres_stage", 1 + p.dir)
          ELSE IF whole /\ U32(p, 4)[1] < 4 THEN Put(f, "postgres_stage", 3 + p.dir)
          ELSE Excl(f, "POSTGRES")
     ELSE IF \/ /\ stage = 2 - p.dir /\ p.len = 1
                /\ U8(p, 0) \in {83, 78}                            \* 'S', 'N'
             \/ /\ stage = 4 - p.dir /\ p.len > 8 /\ U8(p, 0) = 82  \* 'R'
                /\ Num32(U32(p, 5)) < 10 /\ Num32(U32(p, 1)) = p.len - 1
     THEN FoundOnly(f, "POSTGRES") ELSE Excl(f, "POSTGRES")

(* Redis: the first character of the latest packet of either direction.    *)
ndpi_check_redis(p, f) ==
  LET g == Put(f, IF p.dir = 0 THEN "redis_s2d_first_char" ELSE "redis_d2s_first_char", U8(p, 0))
      s == V(g, "redis_s2d_first_char")
      d == V(g, "redis_d2s_first_char")
      Answers(x, y) == x = 42 /\ y \in {43, 58}                     \* '*'; '+', ':'
  IN IF p.len = 0 THEN f
     ELSE IF f.packets > 20 THEN Excl(f, "REDIS")
     ELSE IF s = 0 \/ d = 0 THEN g
     ELSE IF Answers(s, d) \/ Answers(d, s) THEN FoundOnly(g, "REDIS") ELSE Excl(g, "REDIS")

ndpi_search_redis(p, f) == IF f.app # "REDIS" THEN ndpi_check_redis(p, f) ELSE f

-----------------------------------------------------------------------------
(* MQTT: the remaining length is a number of up to four bytes, seven bits  *)
(* each; -1 when the payload ends within it.                               *)

VarIntBytes(p) == Min({i \in 1..4 : i = 4 \/ U8(p, i) < 128})

get_var_int(p) ==
  LET value[i \in 1..4] ==
        (U8(p, i) % 128) + IF i = VarIntBytes(p) THEN 0 ELSE 128 * value[i + 1]
  IN IF VarIntBytes(p) > p.len - 1 THEN -1 ELSE value[1]

\* The flags and the length fit the packet type.
MqttFits(p) ==
  LET pt == U8(p, 0) \div 16
      flags == U8(p, 0) % 16
  IN \/ pt = 1 /\ flags = 0
     \/ pt \in {2, 4, 5, 7, 11} /\ flags = 0 /\ p.len = 4
     \/ pt = 6 /\ flags = 2 /\ p.len = 4
     \/ pt \in 12..14 /\ flags = 0 /\ p.len = 2
     \/ pt = 3 /\ flags \in {0, 1} /\ p.len >= 5
     \/ pt = 3 /\ flags \in {2, 3} /\ p.len >= 7
     \/ pt = 8 /\ flags = 2 /\ p.len >= 8
     \/ pt = 9 /\ flags = 0 /\ p.len >= 5
     \/ pt = 10 /\ flags = 2 /\ p.len >= 7

ndpi_search_mqtt(p, f) ==
  IF f.app # Unknown THEN f
  ELSE IF /\ f.packets <= 10 /\ p.len >= 2
          /\ get_var_int(p) >= 0 /\ p.len = get_var_int(p) + 1 + VarIntBytes(p)
          /\ MqttFits(p)
  THEN FoundOnly(f, "MQTT") ELSE Excl(f, "MQTT")

-----------------------------------------------------------------------------
(* ZeroMQ: up to ten bytes of the first packet are kept and every later    *)
(* packet is compared with them.                                           *)

ZmqFlow == <<0, 0, 0, 5, 1, 102, 108, 111, 119>>
ZmqGreeting == <<255, 0, 0, 0, 0, 0, 0, 0, 1, 127>>
ZmqName == <<40, 102, 108, 111, 119, 0>>

ndpi_check_zmq(p, f) ==
  LET prev == W(f, "prev_zmq_pkt", <<>>)
      pair == Bytes(p, 0, 2)
  IN IF p.len = 0 THEN f
     ELSE IF f.packets > 17 THEN Excl(f, "ZMQ")
     ELSE IF prev = <<>> THEN Put(f, "prev_zmq_pkt", Bytes(p, 0, Min({p.len, 10})))
     ELSE IF \/ /\ p.len = 2
                /\ \/ prev = <<1, 2>> /\ pair = <<1, 1>>
                   \/ prev = ZmqFlow /\ pair = <<0, 0>>
                   \/ prev = ZmqGreeting /\ pair = <<1, 2>>
             \/ /\ p.len >= 10 /\ Len(prev) = 10
                /\ \/ prev = ZmqGreeting /\ Bytes(p, 0, 10) = ZmqGreeting
                   \/ SubSeq(prev, 2, 7) = ZmqName /\ Bytes(p, 1, 6) = ZmqName
     THEN FoundOnly(f, "ZMQ") ELSE f

ndpi_search_zmq(p, f) == IF f.app # "ZMQ" THEN ndpi_check_zmq(p, f) ELSE f

(* Z39.50: the number of BER sequences found, at most max; -1 when the     *)
(* packet is not a PDU.  The sequence types the code refuses do not fit    *)
(* the five bits it looks at.                                              *)
z3950_parse_sequences(p, max) ==
  LET walk[o \in Nat, c \in Nat] ==
        IF c > max THEN max
        ELSE IF o + 2 >= p.len THEN -1
        ELSE IF U8(p, o) % 32 = 31 THEN c
        ELSE IF U8(p, o + 1) >= p.len - o + 1 THEN -1
        ELSE IF o + U8(p, o + 1) + 2 = p.len THEN c
        ELSE walk[o + U8(p, o + 1) + 2, c + 1]
  IN IF p.len < 2 \/ U8(p, 0) % 32 < 20 THEN -1 ELSE walk[2, 1]

ndpi_search_z3950(p, f) ==
  LET seqs == z3950_parse_sequences(p, 6)
  IN IF ~(IsTcp(p) /\ p.len >= 6 /\ f.packets \in 1..8) \/ seqs < 0 THEN Excl(f, "Z3950")
     ELSE IF seqs < 6 THEN f
     ELSE IF V(f, "z3950_stage") # 3 THEN Inc(f, "z3950_stage")
     ELSE IF f.dirPackets[0] > 0 /\ f.dirPackets[1] > 0
     THEN FoundOnly(f, "Z3950") ELSE Excl(f, "Z3950")

(* RX: the cases of the type switch fall through, so that every type but   *)
(* 12 reaches the security test whatever its flags.                        *)
RxFlags == {0, 1, 2, 3, 4, 5, 6, 9, 33, 34}

ndpi_check_rx(p, f) ==
  LET conn == <<U32(p, 0), U32(p, 4)>>
      known == W(f, "rx_conn", <<Zero32, Zero32>>)
  IN IF ~(/\ p.len >= 28 /\ U8(p, 20) \in (1..13) \ {12}
          /\ U8(p, 21) \in RxFlags /\ U8(p, 23) <= 3) THEN Excl(f, "RX")
     ELSE IF Theirs(p, f) = 0 THEN Put(f, "rx_conn", conn)
     ELSE IF known = conn THEN FoundOnly(f, "RX") ELSE Excl(f, "RX")

ndpi_search_rx(p, f) == IF f.app # "RX" THEN ndpi_check_rx(p, f) ELSE f

(* IPP: a printer that tells its state, "<job> <state> ipp://...", or an   *)
(* HTTP POST of the type application/ipp.                                  *)
ndpi_search_ipp(p, f) ==
  IF \/ p.len > 20 /\ Begins(p, "number number ipp://")
     \/ p.len > 3 /\ Begins(p, "POST") /\ Line(p, "content") = "application/ipp"
  THEN FoundOnly(f, "IPP") ELSE Excl(f, "IPP")

ndpi_search_stealthnet(p, f) ==
  IF p.len > 40 /\ Begins(p, "LARS REGENSBURGER'S FILE SHARING PROTOCOL")
  THEN FoundOnly(f, "STEALTHNET") ELSE Excl(f, "STEALTHNET")

-----------------------------------------------------------------------------
(* Kerberos.  A message over TCP announces its length; one that is cut is  *)
(* kept in kerberos_buf until the packets that follow complete it.         *)

KerberosBuf(p, max) == [max |-> max, cur |-> p.len, b |-> p.b, t |-> p.t, h |-> p.h]

\* The payload of p appended to the buffer.
KerberosJoin(p, f) ==
  LET buf == f.v["kerberos_buf"]
      from == buf.cur
  IN [p EXCEPT !.len = buf.cur + p.len, !.t = buf.t \cup p.t, !.h = buf.h @@ p.h,
               !.b = buf.b @@ [i \in {from + j : j \in DOMAIN p.b} |-> p.b[i - from]]]

\* Where the message type is: after the first 03 02 01 that is not followed by 05, looked
\* for at eight places.
KerberosType(q) ==
  LET base == IF IsTcp(q) THEN 4 ELSE 0
      i == Min({k \in 8..16 :
                  \/ k = 16
                  \/ Bytes(q, base + k, 3) = <<3, 2, 1>> /\ U8(q, base + k + 3) # 5})
  IN U8(q, base + i + 3)

\* The realm of a request is kept as the flow's domain.  Requests ask for the packets that
\* follow, replies end that; only a TGS request releases the buffer.
KerberosRealm(q, f) ==
  IF HasLine(q, "realm") THEN Put(f, "kerberos_domain", Line(q, "realm")) ELSE f

KerberosAs(q, f) ==
  IF KerberosType(q) = 10 THEN FollowUp(KerberosRealm(q, f), 5, "kerberos") ELSE NoFunc(f)

KerberosTgs(q, f) ==
  IF KerberosType(q) = 12
  THEN LET d == KerberosRealm(q, f)
       IN Free(IF IsUdp(q) THEN d ELSE FollowUp(d, 5, "kerberos"), "kerberos_buf")
  ELSE IF HasLine(q, "cname") THEN NoFunc(f) ELSE f

KerberosMessage(q, f) ==
  LET g == FoundOnly(f, "KERBEROS")
  IN IF KerberosType(q) \in {10, 14} THEN KerberosAs(q, g) ELSE KerberosTgs(q, g)

KerberosPacket(q, f) ==
  LET length == IF IsTcp(q) THEN Num32(U32(q, 0)) ELSE q.len
      expected == IF IsTcp(q) THEN q.len - 4 ELSE q.len
      max == IF Holds(f, "kerberos_buf") THEN f.v["kerberos_buf"].max ELSE length + 4
  IN IF q.len < 4 THEN Excl(f, "KERBEROS")
     ELSE IF length >= 12000
     THEN IF Holds(f, "kerberos_domain") THEN f ELSE Excl(f, "KERBEROS")
     ELSE IF length > expected
     THEN IF q.len <= max THEN Put(f, "kerberos_buf", KerberosBuf(q, max)) ELSE f
     ELSE IF length = expected /\ q.len > 128 /\ KerberosType(q) \in {10, 12, 13, 14}
     THEN KerberosMessage(q, f)
     ELSE Excl(f, "KERBEROS")

ndpi_search_kerberos(p, f) ==
  LET buf == f.v["kerberos_buf"]
      q == KerberosJoin(p, f)
      g == Put(f, "kerberos_buf", KerberosBuf(q, buf.max))
  IN IF ~Port(p, 88) THEN Excl(f, "KERBEROS")
     ELSE IF ~Holds(f, "kerberos_buf") \/ p.len > buf.max - buf.cur THEN KerberosPacket(p, f)
     ELSE IF q.len = buf.max THEN KerberosPacket(q, g) ELSE g

ndpi_search_kerberos_extra(p, f) ==
  IF p.len = 0 \/ p.again THEN f ELSE ndpi_search_kerberos(p, f)
=============================================================================
