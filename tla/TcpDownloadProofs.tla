------------------------- MODULE TcpDownloadProofs -------------------------
(***************************************************************************)
(* Proofs about the download path, for every window, buffer, segment size  *)
(* and sequence space: DownloadInv is inductive, hence the engine never    *)
(* sends past the app's receive buffer, recovers every acknowledgement     *)
(* from its 32-bit form, and ends the stream only when it is complete.     *)
(***************************************************************************)
EXTENDS TcpDownload, TLAPS

-----------------------------------------------------------------------------
(* Arithmetic modulo the size of the sequence space. *)

\* The remainder and the quotient of a division by a positive number.
LEMMA ModDef ==
    ASSUME NEW m \in Nat \ {0}, NEW x \in Int
    PROVE  /\ x % m \in 0 .. m - 1
           /\ x = (x \div m) * m + (x % m)
           /\ x \div m \in Int
  BY SMT

\* Zero is the only multiple of m strictly between -m and m.
LEMMA SmallMultiple ==
    ASSUME NEW m \in Nat \ {0}, NEW k \in Int, k * m < m, -m < k * m
    PROVE  k = 0
  <1>1. CASE k >= 1
    <2>1. k * m >= 1 * m
      BY <1>1, SMT
    <2>2. QED
      BY <2>1, SMT
  <1>2. CASE k <= -1
    <2>1. k * m <= (-1) * m
      BY <1>2, SMT
    <2>2. QED
      BY <2>1, SMT
  <1>3. QED
    BY <1>1, <1>2

\* The remainder is the only number in 0 .. m - 1 that differs from x by a
\* multiple of m.
LEMMA ModUnique ==
    ASSUME NEW m \in Nat \ {0}, NEW x \in Int, NEW q \in Int, NEW r \in 0 .. m - 1,
           x = q * m + r
    PROVE  x % m = r
  <1> DEFINE d == x \div m
             s == x % m
  <1>1. s \in 0 .. m - 1 /\ x = d * m + s /\ d \in Int
    BY ModDef
  <1> HIDE DEF d, s
  <1>2. (q - d) * m = s - r
    BY <1>1, SMT
  <1>3. q - d = 0
    BY <1>1, <1>2, SmallMultiple, SMT
  <1>4. s = r
    BY <1>1, <1>2, <1>3, SMT
  <1>5. QED
    BY <1>4 DEF s

\* A number of the sequence space is its own remainder.
LEMMA ModSmall ==
    ASSUME NEW m \in Nat \ {0}, NEW x \in 0 .. m - 1
    PROVE  x % m = x
  BY SMT

\* acceptAck's reconstruction: the distance from b up to a is recovered from
\* the remainder of b, as long as it is smaller than the sequence space.
LEMMA ModRecover ==
    ASSUME NEW m \in Nat \ {0}, NEW a \in Int, NEW b \in Int, b <= a, a - b < m
    PROVE  (a - (b % m)) % m = a - b
  <1> DEFINE d == b \div m
             s == b % m
  <1>1. s \in 0 .. m - 1 /\ b = d * m + s /\ d \in Int
    BY ModDef
  <1> HIDE DEF d, s
  <1>2. a - s = d * m + (a - b) /\ a - s \in Int /\ a - b \in 0 .. m - 1
    BY <1>1, SMT
  <1>3. (a - s) % m = a - b
    BY <1>1, <1>2, ModUnique
  <1>4. QED
    BY <1>3 DEF s

\* An acknowledgement one past a (of the FIN, which sendNext does not count)
\* looks as far away as the sequence space allows.
LEMMA ModOver ==
    ASSUME NEW m \in Nat \ {0}, NEW a \in Int
    PROVE  (a - ((a + 1) % m)) % m = m - 1
  <1> DEFINE c == a + 1
             d == c \div m
             s == c % m
  <1>0. c \in Int
    BY SMT
  <1>1. s \in 0 .. m - 1 /\ c = d * m + s /\ d \in Int
    BY <1>0, ModDef
  <1> HIDE DEF d, s
  <1>2. a - s = (d - 1) * m + (m - 1) /\ a - s \in Int /\ m - 1 \in 0 .. m - 1 /\ d - 1 \in Int
    BY <1>1, SMT
  <1>3. (a - s) % m = m - 1
    BY <1>1, <1>2, ModUnique
  <1>4. QED
    BY <1>3 DEF s

-----------------------------------------------------------------------------
(* Facts about constants, windows and queues. *)

\* The largest window is positive and smaller than the sequence space.
LEMMA MaxWindowFacts ==
    MaxWindow \in Nat /\ MaxWindow >= 1 /\ MaxWindow < Mod /\ Mod \in Nat \ {0} /\ Mod >= 2
  <1>1. MaxField \in Nat /\ ScaleFactor \in Nat /\ MaxField >= 1 /\ ScaleFactor >= 1
    BY DownloadAssumption, SMT
  <1>2. MaxField * ScaleFactor \in Nat /\ MaxField * ScaleFactor >= 1
    BY <1>1, SMT
  <1>3. QED
    BY <1>2, DownloadAssumption, SMT DEF MaxWindow

\* A window field, scaled, is at most the largest window.
LEMMA ScaledField ==
    ASSUME NEW w \in 0 .. MaxField
    PROVE  w * ScaleFactor \in Nat /\ w * ScaleFactor <= MaxWindow
  <1>1. MaxField \in Nat /\ ScaleFactor \in Nat
    BY DownloadAssumption, SMT
  <1>2. QED
    BY <1>1, SMT DEF MaxWindow

\* The field the app advertises, scaled, never exceeds its free buffer space.
LEMMA WindowFieldFits ==
    ASSUME rcvNxt \in Nat, appRead \in Nat, First + appRead <= rcvNxt, rcvNxt <= BufferEdge
    PROVE  /\ WindowField \in 0 .. MaxField
           /\ rcvNxt + WindowField * ScaleFactor <= BufferEdge
  <1> DEFINE free == BufCap - (rcvNxt - First - appRead)
             d == free \div ScaleFactor
             r == free % ScaleFactor
  <1>1. ScaleFactor \in Nat \ {0} /\ MaxField \in Nat /\ Isn \in Nat /\ BufCap \in Nat
    BY DownloadAssumption
  <1>2. free \in Nat /\ rcvNxt + free = BufferEdge
    BY <1>1, SMT DEF BufferEdge, First
  <1> HIDE DEF free
  <1>3. r \in 0 .. ScaleFactor - 1 /\ free = d * ScaleFactor + r /\ d \in Int
    BY <1>1, <1>2, ModDef, SMT
  <1> HIDE DEF d, r
  <1>4. d >= 0
    <2>1. SUFFICES ASSUME d <= -1 PROVE FALSE
      BY <1>3, SMT
    <2>2. d * ScaleFactor <= (-1) * ScaleFactor
      BY <2>1, <1>1, <1>3, SMT
    <2>3. QED
      BY <2>2, <1>1, <1>2, <1>3, SMT
  <1>5. WindowField = Minimum(MaxField, d)
    BY DEF WindowField, d, free
  <1>6. WindowField \in 0 .. MaxField /\ WindowField <= d
    BY <1>1, <1>3, <1>4, <1>5, SMT DEF Minimum
  <1>7. WindowField * ScaleFactor <= d * ScaleFactor
    BY <1>1, <1>3, <1>6, SMT
  <1>8. WindowField * ScaleFactor <= free
    <2>1. d * ScaleFactor \in Int /\ WindowField * ScaleFactor \in Int
      BY <1>1, <1>3, <1>6, SMT
    <2>2. QED
      BY <2>1, <1>7, <1>2, <1>3, SMT
  <1>9. QED
    <2>1. WindowField * ScaleFactor \in Int
      BY <1>1, <1>6, SMT
    <2>2. BufferEdge \in Int
      BY <1>2, SMT
    <2>3. QED
      BY <2>1, <2>2, <1>2, <1>6, <1>8, SMT

\* The right edge of the app's buffer moves only forward.
LEMMA EdgeMonotone ==
    ASSUME NEW m \in Nat, NEW n \in Nat, m <= n
    PROVE  /\ First + m + BufCap <= First + n + BufCap
           /\ First + m + BufCap \in Int
  <1>1. Isn \in Nat /\ BufCap \in Nat
    BY DownloadAssumption
  <1>2. QED
    BY <1>1, SMT DEF First

\* Taking a packet from a queue.
LEMMA TailFacts ==
    ASSUME NEW S, NEW q \in Seq(S), q # <<>>
    PROVE  /\ Tail(q) \in Seq(S) /\ Len(q) \in Nat /\ Len(q) >= 1
           /\ Len(Tail(q)) = Len(q) - 1
           /\ Head(q) = q[1] /\ q[1] \in S
           /\ \A i \in 1 .. Len(q) - 1 : Tail(q)[i] = q[i + 1]
  BY SMT

\* Putting a packet into a queue.
LEMMA AppendFacts ==
    ASSUME NEW S, NEW q \in Seq(S), NEW e \in S
    PROVE  /\ Append(q, e) \in Seq(S) /\ Len(q) \in Nat
           /\ Append(q, e) # <<>>
           /\ Len(Append(q, e)) = Len(q) + 1
           /\ Append(q, e)[Len(q) + 1] = e
           /\ \A i \in 1 .. Len(q) : Append(q, e)[i] = q[i]
  BY SMT

-----------------------------------------------------------------------------
(* What single operations do in a state of the invariant. *)

\* acceptAck either leaves sendUnack alone or sets it to the absolute number
\* behind the 32-bit acknowledgement.
LEMMA AcceptAck ==
    ASSUME DownloadInv, fromClient # <<>>, acceptAck(Packet)
    PROVE  /\ sendUnack' \in Nat
           /\ sendUnack' = sendUnack \/ sendUnack' = fromClient[1].abs
  <1> DEFINE p == fromClient[1]
  <1>1. /\ Packet = p /\ p \in FromClient /\ Len(fromClient) >= 1
        /\ sendNext \in Nat /\ sendUnack \in Nat /\ rcvNxt \in Nat
    BY TailFacts DEF DownloadInv, TypeOK, Packet
  <1>2. /\ sendUnack <= p.abs /\ p.abs <= rcvNxt /\ rcvNxt <= sendNext /\ p.abs \in Nat
        /\ sendNext - sendUnack <= MaxWindow
    BY <1>1, SMT DEF DownloadInv, UpstreamInv, WindowInv, TypeOK, FromClient
  <1>3. CASE p.ack = p.abs % Mod
    <2>1. (sendNext - p.ack) % Mod = sendNext - p.abs
      BY <1>1, <1>2, <1>3, MaxWindowFacts, ModRecover, SMT
    <2>2. AckAbs(p) = p.abs
      BY <2>1, <1>1, <1>2, SMT DEF AckAbs
    <2>3. QED
      BY <2>2, <1>1, <1>2 DEF acceptAck
  <1>4. CASE p.ack = (p.abs + 1) % Mod /\ p.abs = sendNext
    <2>1. (sendNext - p.ack) % Mod = Mod - 1
      <3>1. sendNext \in Int /\ Mod \in Nat \ {0}
        BY <1>1, MaxWindowFacts, SMT
      <3>2. (sendNext - ((sendNext + 1) % Mod)) % Mod = Mod - 1
        BY <3>1, ModOver
      <3>3. QED
        BY <3>2, <1>4
    <2>2. AckAbs(p) = sendNext - (Mod - 1)
      BY <2>1 DEF AckAbs
    <2>3. ~(AckAbs(p) > sendUnack) /\ AckAbs(p) # sendNext
      BY <2>2, <1>1, <1>2, MaxWindowFacts, SMT
    <2>4. QED
      BY <2>3, <1>1 DEF acceptAck
  <1>5. p.ack = p.abs % Mod \/ (p.ack = (p.abs + 1) % Mod /\ p.abs = sendNext)
    BY <1>1, SMT DEF DownloadInv, UpstreamInv, TypeOK
  <1>6. QED
    BY <1>3, <1>4, <1>5

\* maxSegment is positive.
LEMMA MaxSegmentPositive == maxSegment \in Nat /\ maxSegment >= 1
  BY DownloadAssumption, SMT DEF maxSegment

\* In a state of the invariant the room in the window is what the comment of
\* pumpToClient says: the modulus does not matter.
LEMMA RoomIs ==
    ASSUME DownloadInv
    PROVE  Room = clientWindow - (sendNext - sendUnack) /\ Room \in Int
  <1>1. sendNext \in Nat /\ sendUnack \in Nat /\ clientWindow \in Nat /\ rcvNxt \in Nat
    BY DEF DownloadInv, TypeOK
  <1>2. sendNext - sendUnack \in 0 .. Mod - 1
    BY <1>1, MaxWindowFacts, SMT DEF DownloadInv, WindowInv
  <1>3. (sendNext - sendUnack) % Mod = sendNext - sendUnack
    BY <1>2, MaxWindowFacts, ModSmall
  <1>4. QED
    BY <1>1, <1>3, SMT DEF Room

\* One segment of the pump: some bytes move from staging to the wire, and the
\* new right edge stays inside the window.
LEMMA SegmentSent ==
    ASSUME DownloadInv, PumpSegment
    PROVE  \E len \in Nat \ {0} :
              /\ len <= staging
              /\ staging' = staging - len
              /\ sendNext' = sendNext + len
              /\ sendNext + len <= sendUnack + clientWindow
              /\ toClient' = Append(toClient, Segment("data", sendNext, len))
  <1> DEFINE len == Minimum(staging, Minimum(Room, maxSegment))
  <1>1. sendNext \in Nat /\ sendUnack \in Nat /\ clientWindow \in Nat /\ staging \in Nat
    BY DEF DownloadInv, TypeOK
  <1>2. staging > 0 /\ Room > 0
    BY DEF PumpSegment
  <1>3. len \in Nat \ {0} /\ len <= staging /\ len <= Room
    BY <1>1, <1>2, RoomIs, MaxSegmentPositive, SMT DEF Minimum
  <1>4. /\ staging' = staging - len
        /\ sendNext' = sendNext + len
        /\ toClient' = Append(toClient, Segment("data", sendNext, len))
    BY DEF PumpSegment
  <1> HIDE DEF len
  <1>5. sendNext + len <= sendUnack + clientWindow
    BY <1>1, <1>3, RoomIs, SMT
  <1>6. QED
    BY <1>3, <1>4, <1>5

\* A packet of the engine is well formed.
LEMMA SegmentType ==
    ASSUME NEW kind \in {"synack", "data", "fin", "finack", "ack", "rst"},
           NEW n \in Int, NEW len \in Nat, sendNext \in Nat
    PROVE  Segment(kind, n, len) \in ToClient
  <1>1. n % Mod \in 0 .. Mod - 1
    BY ModDef, MaxWindowFacts
  <1>2. QED
    BY <1>1 DEF Segment, ToClient

\* The app's TCP accepts the packet at the head of the queue in full.
LEMMA HeadFits ==
    ASSUME DownloadInv, toClient # <<>>
    PROVE  /\ Head(toClient) = toClient[1] /\ toClient[1] \in ToClient
           /\ toClient[1].abs = rcvNxt
           /\ toClient[1].abs + toClient[1].len <= sendNext
           /\ toClient[1].kind \in {"synack", "data"} => Fits(toClient[1])
           /\ toClient[1].kind \notin {"synack", "data"} => toClient[1].len = 0
  <1>1. /\ Head(toClient) = toClient[1] /\ toClient[1] \in ToClient
        /\ Len(toClient) \in Nat /\ Len(toClient) >= 1
    BY TailFacts DEF DownloadInv, TypeOK
  <1>2. 1 \in 1 .. Len(toClient)
    BY <1>1, SMT
  <1>3. /\ toClient[1].abs = rcvNxt
        /\ toClient[1].abs + toClient[1].len <= sendNext
        /\ toClient[1].kind \in {"synack", "data"} => toClient[1].seq = toClient[1].abs % Mod
        /\ toClient[1].kind \notin {"synack", "data"} => toClient[1].len = 0
    BY <1>2 DEF DownloadInv, DownstreamInv
  <1>4. sendNext <= BufferEdge /\ BufferEdge \in Int /\ sendNext \in Nat /\ rcvNxt \in Nat
    BY DownloadAssumption, SMT DEF DownloadInv, WindowInv, TypeOK, BufferEdge, First
  <1>5. rcvNxt + toClient[1].len <= BufferEdge
    BY <1>1, <1>3, <1>4, SMT DEF ToClient
  <1>6. QED
    BY <1>1, <1>3, <1>5 DEF Fits

LEMMA Received ==
    ASSUME DownloadInv, ClientReceive
    PROVE  /\ toClient # <<>> /\ toClient' = Tail(toClient)
           /\ toClient[1] \in ToClient /\ toClient[1].abs = rcvNxt
           /\ rcvNxt' = rcvNxt + toClient[1].len
           /\ rcvNxt' \in Nat /\ rcvNxt <= rcvNxt' /\ rcvNxt' <= sendNext
           /\ finRcvd' => finRcvd \/ toClient[1].kind \in {"fin", "finack"}
           /\ app' = app \/ app' = "dead"
  <1>1. toClient # <<>> /\ toClient' = Tail(toClient) /\ rcvNxt \in Nat /\ sendNext \in Nat
    BY DEF ClientReceive, DownloadInv, TypeOK
  <1>2. toClient[1].len \in Nat
    BY <1>1, HeadFits DEF ToClient
  <1>3. rcvNxt' = rcvNxt + toClient[1].len
    <2>1. CASE toClient[1].kind \in {"synack", "data"}
      BY <2>1, <1>1, HeadFits DEF ClientReceive
    <2>2. CASE toClient[1].kind \notin {"synack", "data"}
      BY <2>2, <1>1, <1>2, HeadFits, SMT DEF ClientReceive
    <2>3. QED
      BY <2>1, <2>2
  <1>4. /\ finRcvd' => finRcvd \/ toClient[1].kind \in {"fin", "finack"}
        /\ app' = app \/ app' = "dead"
    BY <1>1, HeadFits DEF ClientReceive
  <1>5. QED
    BY <1>1, <1>2, <1>3, <1>4, HeadFits, SMT

\* A packet of the app acknowledges what its TCP has received, and its window
\* ends inside the receive buffer.
LEMMA PacketSent ==
    ASSUME DownloadInv, NEW flag \in {"none", "fin", "rst"}, NEW len \in 0 .. 1,
           ClientSend(flag, len)
    PROVE  \E p \in FromClient :
              /\ fromClient' = Append(fromClient, p)
              /\ p.abs = rcvNxt /\ p.flag = flag
              /\ p.abs + p.win * ScaleFactor <= BufferEdge
              /\ p.ack = p.abs % Mod \/ (p.ack = (p.abs + 1) % Mod /\ finRcvd)
  <1> DEFINE p == ClientPacket(flag, len)
  <1>1. /\ rcvNxt \in Nat /\ appRead \in Nat /\ rcvNxt >= First /\ sendNext \in Nat
        /\ Isn \in Nat /\ BufCap \in Nat
    BY DownloadAssumption DEF ClientSend, DownloadInv, TypeOK
  <1>2. First + appRead <= rcvNxt /\ rcvNxt <= BufferEdge
    BY <1>1, SMT DEF DownloadInv, WindowInv, First, BufferEdge
  <1>3. WindowField \in 0 .. MaxField /\ rcvNxt + WindowField * ScaleFactor <= BufferEdge
    BY <1>1, <1>2, WindowFieldFits
  <1>4. rcvNxt % Mod \in 0 .. Mod - 1 /\ (rcvNxt + 1) % Mod \in 0 .. Mod - 1
    BY <1>1, ModDef, MaxWindowFacts, SMT
  <1>5. p \in FromClient
    BY <1>1, <1>3, <1>4, SMT DEF ClientPacket, FromClient
  <1>6. fromClient' = Append(fromClient, p)
    BY DEF ClientSend
  <1>7. /\ p.abs = rcvNxt /\ p.flag = flag
        /\ p.abs + p.win * ScaleFactor <= BufferEdge
        /\ p.ack = p.abs % Mod \/ (p.ack = (p.abs + 1) % Mod /\ finRcvd)
    BY <1>3 DEF ClientPacket
  <1>8. QED
    BY <1>5, <1>6, <1>7

-----------------------------------------------------------------------------
(* The invariant holds initially and every step keeps each part of it. *)

LEMMA InitInv == Init => DownloadInv
  <1> SUFFICES ASSUME Init PROVE DownloadInv
    OBVIOUS
  <1> USE DEF Init
  <1>0. Isn \in Nat /\ BufCap \in Nat \ {0} /\ MaxField \in Nat \ {0} /\ TotalBytes \in Nat
    BY DownloadAssumption
  <1>1. Isn % Mod \in 0 .. Mod - 1
    <2>1. Isn \in Int
      BY <1>0
    <2>2. QED
      BY <2>1, ModDef, MaxWindowFacts
  <1>2. TypeOK
    <2>1. [kind |-> "synack", seq |-> Isn % Mod, abs |-> Isn, len |-> 1] \in ToClient
      BY <1>0, <1>1 DEF ToClient
    <2>2. toClient \in Seq(ToClient) /\ fromClient \in Seq(FromClient)
      BY <2>1
    <2>3. sendNext \in Nat /\ clientWindow \in Nat
      BY <1>0, SMT DEF Minimum
    <2>4. QED
      BY <1>0, <2>2, <2>3 DEF TypeOK
  <1>3. AbortInv
    BY DEF AbortInv
  <1>4. WindowInv
    <2>1. 1 * MaxField <= MaxWindow
      <3>1. MaxField \in Nat /\ ScaleFactor \in Nat /\ ScaleFactor >= 1
        BY DownloadAssumption, SMT
      <3>2. QED
        BY <3>1, SMT DEF MaxWindow
    <2>2. QED
      BY <1>0, <2>1, MaxWindowFacts, SMT DEF WindowInv, BufferEdge, First, Minimum
  <1>5. DownstreamInv
    BY <1>0, SMT DEF DownstreamInv
  <1>6. UpstreamInv
    BY SMT DEF UpstreamInv
  <1>7. StreamInv
    BY <1>0, SMT DEF StreamInv, First
  <1>8. QED
    BY <1>2, <1>3, <1>4, <1>5, <1>6, <1>7 DEF DownloadInv

LEMMA TypeStep == DownloadInv /\ [Next]_vars => TypeOK'
  <1> SUFFICES ASSUME DownloadInv, [Next]_vars PROVE TypeOK'
    OBVIOUS
  <1> USE DEF session, thread, remote, client
  <1>0. TypeOK
    BY DEF DownloadInv
  <1>1. CASE PumpSegment
    <2>1. PICK len \in Nat \ {0} :
             /\ len <= staging
             /\ staging' = staging - len /\ sendNext' = sendNext + len
             /\ toClient' = Append(toClient, Segment("data", sendNext, len))
      BY <1>1, SegmentSent
    <2>2. Segment("data", sendNext, len) \in ToClient
      BY <1>0, SegmentType, SMT DEF TypeOK
    <2>3. toClient' \in Seq(ToClient)
      BY <1>0, <2>1, <2>2, AppendFacts DEF TypeOK
    <2>4. QED
      BY <1>0, <1>1, <2>1, <2>3, SMT DEF TypeOK, PumpSegment
  <1>2. CASE PumpFin
    <2>1. Segment("fin", sendNext, 0) \in ToClient
      BY <1>0, SegmentType, SMT DEF TypeOK
    <2>2. toClient' \in Seq(ToClient)
      BY <1>0, <1>2, <2>1, AppendFacts DEF TypeOK, PumpFin
    <2>3. QED
      BY <1>0, <1>2, <2>2 DEF TypeOK, PumpFin, PumpReturn
  <1>3. CASE PumpEnd
    BY <1>0, <1>3 DEF TypeOK, PumpEnd, PumpReturn
  <1>4. CASE NioRead \/ ReadFull \/ ReadNothing \/ ReadEof \/ ReadError \/ ReadTail \/ NioWrite
    <2>1. CASE NioRead
      BY <1>0, <2>1 DEF TypeOK, NioIdle, NioRead
    <2>2. CASE ReadFull \/ ReadNothing
      BY <1>0, <2>2 DEF TypeOK, ReadFull, ReadNothing
    <2>3. CASE ReadEof \/ ReadError
      BY <1>0, <2>3 DEF TypeOK, ReadEof, ReadError
    <2>4. CASE ReadTail
      BY <1>0, <2>4 DEF TypeOK, ReadTail
    <2>5. CASE NioWrite
      BY <1>0, <2>5 DEF TypeOK, NioWrite
    <2>6. QED
      BY <1>4, <2>1, <2>2, <2>3, <2>4, <2>5
  <1>5. CASE ReadData
    BY <1>0, <1>5, DownloadAssumption, SMT DEF TypeOK, ReadData, Minimum
  <1>6. CASE HandleAck \/ HandleData \/ HandleFin \/ HandleRst \/ HandleUnknown
    <2>1. fromClient # <<>> /\ fromClient' = Tail(fromClient)
      BY <1>6 DEF HandleAck, HandleData, HandleFin, HandleRst, HandleUnknown, KnownSession, NextPacket
    <2>2. fromClient' \in Seq(FromClient) /\ Packet \in FromClient
      BY <1>0, <2>1, TailFacts DEF TypeOK, Packet
    <2>3. Packet.win * ScaleFactor \in Nat /\ Packet.ack \in Int
      BY <2>2, ScaledField, DownloadAssumption, SMT DEF FromClient
    <2>4. \A kind \in {"finack", "ack", "rst"} :
              Append(toClient, Segment(kind, Packet.ack, 0)) \in Seq(ToClient)
      <3>1. TAKE kind \in {"finack", "ack", "rst"}
      <3>2. Segment(kind, Packet.ack, 0) \in ToClient
        BY <1>0, <2>3, SegmentType DEF TypeOK
      <3>3. QED
        BY <1>0, <3>2, AppendFacts DEF TypeOK
    <2>5. CASE HandleAck
      BY <1>0, <2>1, <2>2, <2>3, <2>5, AcceptAck
         DEF TypeOK, HandleAck, KnownSession, NextPacket, PumpUnlessAborting
    <2>6. CASE HandleData
      BY <1>0, <2>2, <2>3, <2>4, <2>6
         DEF TypeOK, HandleData, KnownSession, NextPacket, PumpUnlessAborting
    <2>7. CASE HandleFin
      BY <1>0, <2>1, <2>2, <2>3, <2>4, <2>7, AcceptAck
         DEF TypeOK, HandleFin, KnownSession, NextPacket
    <2>8. CASE HandleRst
      BY <1>0, <2>1, <2>2, <2>3, <2>8, AcceptAck DEF TypeOK, HandleRst, KnownSession, NextPacket
    <2>9. CASE HandleUnknown
      <3>1. toClient' \in Seq(ToClient)
        BY <1>0, <2>2, <2>4, <2>9 DEF TypeOK, HandleUnknown, FromClient
      <3>2. QED
        BY <1>0, <2>2, <2>9, <3>1 DEF TypeOK, HandleUnknown, NextPacket
    <2>10. QED
      BY <1>6, <2>5, <2>6, <2>7, <2>8, <2>9
  <1>7. CASE UpstreamSend \/ UpstreamClose \/ UpstreamFail
    <2>1. CASE UpstreamSend
      <3>1. available' \in Nat /\ unsent' \in Nat
        BY <1>0, <2>1, SMT DEF TypeOK, UpstreamSend
      <3>2. QED
        BY <1>0, <2>1, <3>1 DEF TypeOK, UpstreamSend
    <2>2. CASE UpstreamClose \/ UpstreamFail
      BY <1>0, <2>2 DEF TypeOK, UpstreamClose, UpstreamFail
    <2>3. QED
      BY <1>7, <2>1, <2>2
  <1>8. CASE ClientReceive
    <2>1. toClient' \in Seq(ToClient) /\ rcvNxt' \in Nat /\ app' \in {"open", "closed", "dead"}
      BY <1>0, <1>8, Received, TailFacts DEF TypeOK
    <2>2. finRcvd' \in BOOLEAN /\ owesAck' \in BOOLEAN
      BY <1>8 DEF ClientReceive
    <2>3. QED
      BY <1>0, <1>8, <2>1, <2>2 DEF TypeOK, ClientReceive
  <1>9. CASE ClientAck \/ ClientData \/ ClientClose \/ ClientReset
    <2>1. \E flag \in {"none", "fin", "rst"}, len \in 0 .. 1 : ClientSend(flag, len)
      BY <1>9, SMT DEF ClientAck, ClientData, ClientClose, ClientReset
    <2>2. PICK p \in FromClient : fromClient' = Append(fromClient, p)
      BY <2>1, PacketSent
    <2>3. fromClient' \in Seq(FromClient)
      BY <1>0, <2>2, AppendFacts DEF TypeOK
    <2>4. uploads' \in Nat
      BY <1>0, <1>9, SMT DEF TypeOK, ClientAck, ClientData, ClientClose, ClientReset, ClientSend
    <2>5. QED
      BY <1>0, <1>9, <2>3, <2>4
         DEF TypeOK, ClientAck, ClientData, ClientClose, ClientReset, ClientSend
  <1>10. CASE AppRead
    BY <1>0, <1>10, DownloadAssumption, SMT DEF TypeOK, AppRead, First
  <1>11. CASE UNCHANGED vars
    BY <1>0, <1>11 DEF TypeOK, vars
  <1>12. CASE NioWriteFail
    <2>1. Segment("rst", sendUnack, 0) \in ToClient
      BY <1>0, SegmentType DEF TypeOK
    <2>2. toClient' \in Seq(ToClient)
      BY <1>0, <1>12, <2>1, AppendFacts DEF TypeOK, NioWriteFail
    <2>3. QED
      BY <1>0, <1>12, <2>2 DEF TypeOK, NioWriteFail
  <1>13. QED
    BY <1>1, <1>2, <1>3, <1>4, <1>5, <1>6, <1>7, <1>8, <1>9, <1>10, <1>11, <1>12
       DEF Next, Pump, Nio, Handler, Remote, Client

LEMMA AbortStep == DownloadInv /\ [Next]_vars => AbortInv'
  <1> SUFFICES ASSUME DownloadInv, [Next]_vars PROVE AbortInv'
    OBVIOUS
  <1> USE DEF session, thread, remote, client, AbortInv
  <1>0. TypeOK /\ AbortInv
    BY DEF DownloadInv
  <1>1. CASE Pump
    BY <1>0, <1>1 DEF TypeOK, Pump, PumpSegment, PumpFin, PumpEnd, PumpReturn
  <1>2. CASE Nio
    BY <1>0, <1>2 DEF TypeOK, Nio, NioIdle, NioRead, ReadFull, ReadData, ReadNothing, ReadEof,
                      ReadError, ReadTail, NioWrite, NioWriteFail
  <1>3. CASE Handler
    BY <1>0, <1>3 DEF TypeOK, Handler, HandleAck, HandleData, HandleFin, HandleRst, HandleUnknown,
                      KnownSession, NextPacket, PumpUnlessAborting
  <1>4. CASE Remote \/ Client \/ UNCHANGED vars
    BY <1>0, <1>4 DEF vars, Remote, UpstreamSend, UpstreamClose, UpstreamFail, Client, ClientReceive,
                      ClientAck, ClientData, ClientClose, ClientReset, ClientSend, AppRead
  <1>5. QED
    BY <1>1, <1>2, <1>3, <1>4 DEF Next

LEMMA WindowStep == DownloadInv /\ [Next]_vars => WindowInv'
  <1> SUFFICES ASSUME DownloadInv, [Next]_vars PROVE WindowInv'
    OBVIOUS
  <1> USE DEF session, thread, remote, client, BufferEdge, First
  <1>0. /\ TypeOK /\ WindowInv
        /\ Isn \in Nat /\ BufCap \in Nat
    BY DownloadAssumption DEF DownloadInv
  <1>n. /\ sendUnack \in Nat /\ sendNext \in Nat /\ clientWindow \in Nat
        /\ rcvNxt \in Nat /\ appRead \in Nat /\ MaxWindow \in Nat
    BY <1>0, MaxWindowFacts DEF TypeOK
  <1>1. CASE PumpSegment
    <2>1. PICK len \in Nat \ {0} :
             /\ sendNext' = sendNext + len
             /\ sendNext + len <= sendUnack + clientWindow
      BY <1>1, SegmentSent
    <2>2. UNCHANGED <<sendUnack, clientWindow, rcvNxt, appRead>>
      BY <1>1 DEF PumpSegment
    <2>3. QED
      BY <1>0, <2>1, <2>2, MaxWindowFacts, SMT DEF WindowInv, TypeOK
  <1>2. CASE HandleAck \/ HandleData \/ HandleFin \/ HandleRst
    <2>1. /\ fromClient # <<>> /\ clientWindow' = Packet.win * ScaleFactor
          /\ UNCHANGED <<sendNext, rcvNxt, appRead>>
          /\ acceptAck(Packet) \/ sendUnack' = sendUnack
      BY <1>2 DEF HandleAck, HandleData, HandleFin, HandleRst, KnownSession, NextPacket
    <2>2. /\ Packet = fromClient[1] /\ Packet \in FromClient
          /\ Len(fromClient) \in Nat /\ Len(fromClient) >= 1
      BY <1>0, <2>1, TailFacts DEF TypeOK, Packet
    <2>3. sendUnack' \in Nat /\ (sendUnack' = sendUnack \/ sendUnack' = Packet.abs)
      BY <1>0, <2>1, <2>2, AcceptAck DEF TypeOK
    <2>4. /\ sendUnack <= Packet.abs /\ Packet.abs <= rcvNxt
          /\ Packet.abs + Packet.win * ScaleFactor <= BufferEdge
      <3>1. 1 \in 1 .. Len(fromClient)
        BY <2>2, SMT
      <3>2. QED
        BY <2>2, <3>1 DEF DownloadInv, UpstreamInv
    <2>5. clientWindow' \in Nat /\ clientWindow' <= MaxWindow
      BY <2>1, <2>2, ScaledField DEF FromClient
    <2>6. Packet.abs \in Nat
      BY <2>2 DEF FromClient
    <2>7. sendUnack' <= Packet.abs /\ sendUnack <= sendUnack'
      BY <1>0, <2>3, <2>4, <2>6, SMT DEF TypeOK
    <2>8. (sendUnack + clientWindow <= BufferEdge)'
      BY <1>0, <2>1, <2>3, <2>4, <2>5, <2>6, <2>7, SMT DEF TypeOK
    <2>9. /\ (sendUnack <= rcvNxt)'
          /\ (sendNext - sendUnack <= MaxWindow)'
      <3>1. sendNext - sendUnack <= MaxWindow /\ rcvNxt' = rcvNxt /\ sendNext' = sendNext
        BY <1>0, <2>1 DEF WindowInv
      <3>2. QED
        BY <1>n, <2>3, <2>4, <2>6, <2>7, <3>1, SMT DEF MaxWindow
    <2>10. QED
      BY <1>0, <2>1, <2>5, <2>8, <2>9 DEF WindowInv
  <1>3. CASE ClientReceive
    <2>1. /\ rcvNxt' \in Nat /\ rcvNxt <= rcvNxt' /\ rcvNxt' <= sendNext
          /\ UNCHANGED <<sendUnack, sendNext, clientWindow, appRead>>
      BY <1>3, Received DEF ClientReceive
    <2>2. QED
      BY <1>0, <2>1, MaxWindowFacts, SMT DEF WindowInv, TypeOK
  <1>4. CASE AppRead
    <2>1. /\ appRead' \in Nat /\ appRead <= appRead' /\ First + appRead' <= rcvNxt
          /\ UNCHANGED <<sendUnack, sendNext, clientWindow, rcvNxt>>
      BY <1>0, <1>4, SMT DEF AppRead, TypeOK
    <2>2. BufferEdge <= BufferEdge' /\ BufferEdge \in Int /\ BufferEdge' \in Int
      BY <1>n, <2>1, EdgeMonotone
    <2>3. sendUnack + clientWindow <= BufferEdge /\ sendNext <= BufferEdge
      BY <1>0 DEF WindowInv
    <2>4. (sendUnack + clientWindow <= BufferEdge)' /\ (sendNext <= BufferEdge)'
      BY <1>n, <2>1, <2>2, <2>3, SMT
    <2>5. QED
      BY <1>0, <2>1, <2>4 DEF WindowInv
  <1>5. CASE UNCHANGED <<sendUnack, sendNext, clientWindow, rcvNxt, appRead>>
    BY <1>0, <1>5 DEF WindowInv
  <1>6. CASE PumpFin \/ PumpEnd \/ Nio \/ HandleUnknown \/ Remote \/ ClientAck \/ ClientData
             \/ ClientClose \/ ClientReset \/ UNCHANGED vars
    BY <1>5, <1>6
       DEF vars, PumpFin, PumpEnd, Nio, NioRead, ReadFull, ReadData, ReadNothing, ReadEof, ReadError,
           ReadTail, NioWrite, NioWriteFail, HandleUnknown, Remote, UpstreamSend, UpstreamClose, UpstreamFail,
           ClientAck, ClientData, ClientClose, ClientReset, ClientSend
  <1>7. QED
    BY <1>1, <1>2, <1>3, <1>4, <1>6 DEF Next, Pump, Handler, Client

\* Appending a packet that begins at sendNext keeps the queue contiguous.
LEMMA DownstreamAppend ==
    ASSUME DownloadInv, TypeOK', NEW s \in ToClient,
           toClient' = Append(toClient, s), s.abs = sendNext, sendNext' = sendNext + s.len,
           rcvNxt' = rcvNxt, aborting => aborting', app' = app,
           \/ s.kind = "data" /\ s.seq = s.abs % Mod /\ ~aborting
           \/ /\ s.kind \in {"fin", "finack", "ack", "rst"} /\ s.len = 0
              /\ staging' = staging /\ upstreamEof' = upstreamEof
              /\ s.kind \in {"fin", "finack"} => aborting'
              /\ s.kind = "fin" => staging = 0 /\ upstreamEof
              /\ s.kind = "finack" => app # "open"
    PROVE  DownstreamInv'
  <1>1. /\ toClient \in Seq(ToClient) /\ Len(toClient) \in Nat
        /\ sendNext \in Nat /\ rcvNxt \in Nat /\ DownstreamInv
        /\ s.len \in Nat /\ sendNext' \in Nat /\ sendNext <= sendNext'
    <2>1. toClient \in Seq(ToClient) /\ sendNext \in Nat /\ rcvNxt \in Nat /\ DownstreamInv
      BY DEF DownloadInv, TypeOK
    <2>2. Len(toClient) \in Nat
      BY <2>1
    <2>3. s.len \in Nat
      BY DEF ToClient
    <2>4. sendNext + s.len \in Nat /\ sendNext <= sendNext + s.len
      BY <2>1, <2>3, SMT
    <2>5. QED
      BY <2>1, <2>2, <2>3, <2>4
  <1>2. /\ Len(toClient') = Len(toClient) + 1 /\ toClient' # <<>>
        /\ toClient'[Len(toClient) + 1] = s
        /\ \A i \in 1 .. Len(toClient) : toClient'[i] = toClient[i]
    BY <1>1, AppendFacts
  <1>3. \A i \in 1 .. Len(toClient) : toClient[i] \in ToClient /\ toClient[i].abs \in Nat
                                     /\ toClient[i].len \in Nat
    <2>1. TAKE i \in 1 .. Len(toClient)
    <2>2. toClient[i] \in ToClient
      BY <1>1
    <2>3. QED
      BY <2>2 DEF ToClient
  <1>4. toClient'[1].abs = rcvNxt'
    <2>1. CASE toClient = <<>>
      BY <1>1, <1>2, <2>1, SMT DEF DownstreamInv
    <2>2. CASE toClient # <<>>
      BY <1>1, <1>2, <2>2, SMT DEF DownstreamInv
    <2>3. QED
      BY <2>1, <2>2
  <1>5. ASSUME NEW i \in 1 .. Len(toClient') - 1
        PROVE  toClient'[i + 1].abs = toClient'[i].abs + toClient'[i].len
    <2>1. CASE i = Len(toClient)
      <3>1. toClient # <<>> /\ i \in 1 .. Len(toClient)
        BY <1>1, <1>2, <1>5, <2>1, SMT
      <3>2. toClient[i].abs + toClient[i].len = sendNext
        BY <1>1, <2>1, <3>1 DEF DownstreamInv
      <3>3. QED
        BY <1>2, <2>1, <3>1, <3>2
    <2>2. CASE i # Len(toClient)
      <3>1. i \in 1 .. Len(toClient) - 1 /\ i \in 1 .. Len(toClient) /\ i + 1 \in 1 .. Len(toClient)
        BY <1>1, <1>2, <1>5, <2>2, SMT
      <3>2. QED
        BY <1>1, <1>2, <3>1 DEF DownstreamInv
    <2>3. QED
      BY <2>1, <2>2
  <1>6. ASSUME NEW i \in 1 .. Len(toClient')
        PROVE  LET e == toClient'[i] IN
               /\ e.abs + e.len <= sendNext'
               /\ e.kind \in {"synack", "data"} => e.seq = e.abs % Mod
               /\ e.kind \notin {"synack", "data"} => e.len = 0
               /\ e.kind \in {"fin", "finack"} => aborting' /\ e.abs = sendNext'
               /\ e.kind = "fin" => staging' = 0 /\ upstreamEof'
               /\ e.kind = "finack" => app' # "open"
    <2>1. CASE i = Len(toClient) + 1
      <3>1. toClient'[i] = s
        BY <1>2, <2>1
      <3>2. sendNext' <= sendNext' /\ (s.len = 0 => sendNext' = sendNext)
        BY <1>1, SMT
      <3>3. QED
        BY <1>1, <3>1, <3>2
    <2>2. CASE i # Len(toClient) + 1
      <3>1. i \in 1 .. Len(toClient) /\ toClient'[i] = toClient[i]
        BY <1>1, <1>2, <1>6, <2>2, SMT
      <3>2. /\ toClient[i].abs + toClient[i].len <= sendNext
            /\ toClient[i].kind \in {"synack", "data"} => toClient[i].seq = toClient[i].abs % Mod
            /\ toClient[i].kind \notin {"synack", "data"} => toClient[i].len = 0
            /\ toClient[i].kind \in {"fin", "finack"} => aborting /\ toClient[i].abs = sendNext
            /\ toClient[i].kind = "fin" => staging = 0 /\ upstreamEof
            /\ toClient[i].kind = "finack" => app # "open"
        BY <1>1, <3>1 DEF DownstreamInv
      <3>3. toClient[i].abs + toClient[i].len <= sendNext'
        BY <1>1, <1>3, <3>1, <3>2, SMT
      <3>4. aborting => sendNext' = sendNext /\ staging' = staging /\ upstreamEof' = upstreamEof
        BY <1>1, SMT
      <3>5. QED
        BY <3>1, <3>2, <3>3, <3>4
    <2>3. QED
      BY <2>1, <2>2
  <1>7. toClient'[Len(toClient')].abs + toClient'[Len(toClient')].len = sendNext'
    BY <1>1, <1>2
  <1>8. QED
    BY <1>2, <1>4, <1>5, <1>6, <1>7 DEF DownstreamInv

LEMMA DownstreamStep == DownloadInv /\ [Next]_vars => DownstreamInv'
  <1> SUFFICES ASSUME DownloadInv, [Next]_vars PROVE DownstreamInv'
    OBVIOUS
  <1> USE DEF session, thread, remote, client
  <1>0. TypeOK /\ TypeOK' /\ DownstreamInv /\ sendNext \in Nat
    BY TypeStep DEF DownloadInv, TypeOK
  <1>1. CASE PumpSegment
    <2>1. PICK len \in Nat \ {0} :
             /\ sendNext' = sendNext + len
             /\ toClient' = Append(toClient, Segment("data", sendNext, len))
      BY <1>1, SegmentSent
    <2>2. Segment("data", sendNext, len) \in ToClient
      BY <1>0, SegmentType, SMT
    <2>3. ~aborting
      BY <1>1 DEF PumpSegment, DownloadInv, AbortInv
    <2>4. QED
      BY <1>0, <1>1, <2>1, <2>2, <2>3, DownstreamAppend DEF PumpSegment, Segment
  <1>2. CASE PumpFin
    <2>1. Segment("fin", sendNext, 0) \in ToClient /\ sendNext + 0 = sendNext
      BY <1>0, SegmentType, SMT
    <2>2. QED
      BY <1>0, <1>2, <2>1, DownstreamAppend DEF PumpFin, Segment
  <1>3. CASE HandleData \/ HandleFin \/ (HandleUnknown /\ toClient' # toClient)
    <2>1. PICK kind \in {"ack", "rst", "finack"} :
             /\ toClient' = Append(toClient, Segment(kind, Packet.ack, 0))
             /\ kind = "finack" => aborting' /\ Packet.flag = "fin"
      BY <1>3 DEF HandleData, HandleFin, HandleUnknown
    <2>2. /\ fromClient # <<>>
          /\ UNCHANGED <<sendNext, rcvNxt, app, staging, upstreamEof>>
          /\ aborting => aborting'
      BY <1>3 DEF HandleData, HandleFin, HandleUnknown, KnownSession, NextPacket
    <2>3. Packet = fromClient[1] /\ Packet \in FromClient /\ 1 \in 1 .. Len(fromClient)
      BY <1>0, <2>2, TailFacts, SMT DEF TypeOK, Packet
    <2>4. Packet.flag = "fin" => app # "open"
      BY <2>3 DEF DownloadInv, UpstreamInv
    <2>5. Packet.ack \in Int
      BY <2>3, DownloadAssumption, SMT DEF FromClient
    <2>6. Segment(kind, Packet.ack, 0) \in ToClient /\ sendNext + 0 = sendNext
      BY <1>0, <2>5, SegmentType, SMT
    <2>7. QED
      BY <1>0, <2>1, <2>2, <2>4, <2>6, DownstreamAppend DEF Segment
  <1>4. CASE ClientReceive
    <2>1. /\ toClient # <<>> /\ toClient' = Tail(toClient)
          /\ toClient[1].abs = rcvNxt /\ rcvNxt' = rcvNxt + toClient[1].len
          /\ toClient[1] \in ToClient
          /\ UNCHANGED <<sendNext, aborting, staging, upstreamEof>>
          /\ app' = app \/ app' = "dead"
      BY <1>4, Received DEF ClientReceive
    <2>2. /\ Len(toClient) \in Nat /\ Len(toClient) >= 1 /\ Len(toClient') = Len(toClient) - 1
          /\ \A i \in 1 .. Len(toClient) - 1 : toClient'[i] = toClient[i + 1]
      BY <1>0, <2>1, TailFacts DEF TypeOK
    <2>3. CASE Len(toClient) = 1
      <3>1. toClient' = <<>>
        BY <1>0, <2>2, <2>3, SMT DEF TypeOK
      <3>2. rcvNxt' = sendNext'
        BY <1>0, <2>1, <2>3 DEF DownstreamInv
      <3>3. QED
        BY <3>1, <3>2, SMT DEF DownstreamInv
    <2>4. CASE Len(toClient) # 1
      <3>1. Len(toClient) - 1 \in 1 .. Len(toClient) - 1 /\ 1 \in 1 .. Len(toClient) - 1 /\ toClient' # <<>>
        BY <2>2, <2>4, SMT
      <3>2. toClient'[1].abs = rcvNxt'
        BY <1>0, <2>1, <2>2, <3>1 DEF DownstreamInv
      <3>3. toClient'[Len(toClient')] = toClient[Len(toClient)]
        BY <2>2, <3>1, SMT
      <3>4. toClient'[Len(toClient')].abs + toClient'[Len(toClient')].len = sendNext'
        BY <1>0, <2>1, <3>3 DEF DownstreamInv
      <3>5. ASSUME NEW i \in 1 .. Len(toClient') - 1
            PROVE  toClient'[i + 1].abs = toClient'[i].abs + toClient'[i].len
        <4>1. /\ i + 1 \in 1 .. Len(toClient) - 1 /\ i \in 1 .. Len(toClient) - 1
          BY <2>2, <3>5, SMT
        <4>2. toClient'[i] = toClient[i + 1] /\ toClient'[i + 1] = toClient[(i + 1) + 1]
          BY <2>2, <4>1
        <4>3. QED
          BY <1>0, <4>1, <4>2 DEF DownstreamInv
      <3>6. ASSUME NEW i \in 1 .. Len(toClient')
            PROVE  /\ i + 1 \in 1 .. Len(toClient) /\ toClient'[i] = toClient[i + 1]
        BY <2>2, <3>6, SMT
      <3>7. ASSUME NEW i \in 1 .. Len(toClient')
            PROVE  LET e == toClient'[i] IN
                   /\ e.abs + e.len <= sendNext'
                   /\ e.kind \in {"synack", "data"} => e.seq = e.abs % Mod
                   /\ e.kind \notin {"synack", "data"} => e.len = 0
                   /\ e.kind \in {"fin", "finack"} => aborting' /\ e.abs = sendNext'
                   /\ e.kind = "fin" => staging' = 0 /\ upstreamEof'
                   /\ e.kind = "finack" => app' # "open"
        <4>1. i + 1 \in 1 .. Len(toClient) /\ toClient'[i] = toClient[i + 1]
          BY <3>6
        <4>2. QED
          BY <1>0, <2>1, <4>1 DEF DownstreamInv
      <3>8. toClient' # <<>>
        BY <3>1
      <3>9. QED
        BY <3>2, <3>4, <3>5, <3>7, <3>8 DEF DownstreamInv
    <2>5. QED
      BY <2>3, <2>4
  <1>5. CASE ReadData
    <2>1. UNCHANGED <<toClient, sendNext, rcvNxt, aborting, upstreamEof, app>> /\ ~aborting
      BY <1>5 DEF ReadData, DownloadInv, AbortInv
    <2>2. QED
      BY <1>0, <2>1 DEF DownstreamInv
  <1>6. CASE /\ UNCHANGED <<toClient, sendNext, rcvNxt, staging>>
             /\ aborting => aborting'
             /\ upstreamEof => upstreamEof'
             /\ app # "open" => app' # "open"
    BY <1>0, <1>6 DEF DownstreamInv
  <1>7. CASE PumpEnd \/ Remote \/ AppRead \/ UNCHANGED vars
    BY <1>6, <1>7 DEF vars, PumpEnd, Remote, UpstreamSend, UpstreamClose, UpstreamFail, AppRead
  <1>8. CASE NioRead \/ ReadFull \/ ReadNothing \/ ReadEof \/ ReadError \/ ReadTail \/ NioWrite
    BY <1>6, <1>8 DEF NioRead, ReadFull, ReadNothing, ReadEof, ReadError, ReadTail, NioWrite
  <1>9. CASE HandleAck \/ HandleRst \/ (HandleUnknown /\ toClient' = toClient)
    BY <1>6, <1>9 DEF HandleAck, HandleRst, HandleUnknown
  <1>10. CASE ClientAck \/ ClientData \/ ClientClose \/ ClientReset
    BY <1>6, <1>10 DEF ClientAck, ClientData, ClientClose, ClientReset, ClientSend
  <1>11. CASE NioWriteFail
    <2>1. sendUnack \in Int /\ sendNext \in Nat /\ sendNext + 0 = sendNext
      BY <1>0, SMT DEF TypeOK
    <2>2. Segment("rst", sendUnack, 0) \in ToClient
      BY <2>1, SegmentType
    <2>3. QED
      BY <1>0, <1>11, <2>1, <2>2, DownstreamAppend DEF NioWriteFail, Segment
  <1>12. QED
    BY <1>1, <1>2, <1>3, <1>4, <1>5, <1>7, <1>8, <1>9, <1>10, <1>11
       DEF Next, Pump, Nio, Handler, Client

\* Taking the packet at the head of the queue, with what acceptAck makes of it.
LEMMA UpstreamTake ==
    ASSUME DownloadInv, fromClient # <<>>, fromClient' = Tail(fromClient),
           sendUnack' = sendUnack \/ sendUnack' = fromClient[1].abs,
           UNCHANGED <<rcvNxt, appRead, sendNext, app>>, aborting => aborting'
    PROVE  UpstreamInv'
  <1>1. /\ Len(fromClient) \in Nat /\ Len(fromClient) >= 1
        /\ Len(fromClient') = Len(fromClient) - 1
        /\ \A i \in 1 .. Len(fromClient) - 1 : fromClient'[i] = fromClient[i + 1]
    BY TailFacts DEF DownloadInv, TypeOK
  <1>2. UpstreamInv
    BY DEF DownloadInv
  <1>3. ASSUME NEW i \in 1 .. Len(fromClient')
        PROVE  /\ i + 1 \in 1 .. Len(fromClient) /\ 1 \in 1 .. Len(fromClient) /\ 1 <= i + 1
               /\ fromClient'[i] = fromClient[i + 1]
    BY <1>1, <1>3, SMT
  <1>4. ASSUME NEW i \in 1 .. Len(fromClient'), NEW j \in 1 .. Len(fromClient'), i <= j
        PROVE  fromClient'[i].abs <= fromClient'[j].abs
    <2>1. i + 1 <= j + 1
      BY <1>4, SMT
    <2>2. QED
      BY <1>2, <1>3, <2>1 DEF UpstreamInv
  <1>5. ASSUME NEW i \in 1 .. Len(fromClient')
        PROVE  LET p == fromClient'[i] IN
               /\ sendUnack' <= p.abs /\ p.abs <= rcvNxt'
               /\ p.abs + p.win * ScaleFactor <= BufferEdge'
               /\ \/ p.ack = p.abs % Mod
                  \/ p.ack = (p.abs + 1) % Mod /\ p.abs = sendNext' /\ aborting'
               /\ p.flag = "fin" => app' # "open"
    <2>1. BufferEdge' = BufferEdge
      BY DEF BufferEdge, First
    <2>2. fromClient[1].abs <= fromClient[i + 1].abs
      BY <1>2, <1>3 DEF UpstreamInv
    <2>3. QED
      BY <1>2, <1>3, <2>1, <2>2 DEF UpstreamInv
  <1>6. QED
    BY <1>4, <1>5 DEF UpstreamInv

LEMMA UpstreamStep == DownloadInv /\ [Next]_vars => UpstreamInv'
  <1> SUFFICES ASSUME DownloadInv, [Next]_vars PROVE UpstreamInv'
    OBVIOUS
  <1> USE DEF session, thread, remote, client
  <1>0. /\ TypeOK /\ TypeOK' /\ UpstreamInv
        /\ sendUnack \in Nat /\ sendNext \in Nat /\ rcvNxt \in Nat /\ appRead \in Nat
        /\ fromClient \in Seq(FromClient) /\ Len(fromClient) \in Nat
    BY TypeStep DEF DownloadInv, TypeOK
  <1>1. CASE HandleAck \/ HandleData \/ HandleFin \/ HandleRst \/ HandleUnknown
    <2>1. /\ fromClient # <<>> /\ fromClient' = Tail(fromClient)
          /\ UNCHANGED <<rcvNxt, appRead, sendNext, app>>
          /\ aborting => aborting'
          /\ acceptAck(Packet) \/ sendUnack' = sendUnack
      BY <1>1 DEF HandleAck, HandleData, HandleFin, HandleRst, HandleUnknown, KnownSession, NextPacket
    <2>2. sendUnack' = sendUnack \/ sendUnack' = fromClient[1].abs
      BY <2>1, AcceptAck
    <2>3. QED
      BY <2>1, <2>2, UpstreamTake
  <1>2. CASE ClientAck \/ ClientData \/ ClientClose \/ ClientReset
    <2>1. PICK flag \in {"none", "fin", "rst"}, len \in 0 .. 1 :
             /\ ClientSend(flag, len)
             /\ flag = "fin" => app' # "open"
      BY <1>2, SMT DEF ClientAck, ClientData, ClientClose, ClientReset
    <2>2. PICK p \in FromClient :
             /\ fromClient' = Append(fromClient, p)
             /\ p.abs = rcvNxt /\ p.flag = flag
             /\ p.abs + p.win * ScaleFactor <= BufferEdge
             /\ p.ack = p.abs % Mod \/ (p.ack = (p.abs + 1) % Mod /\ finRcvd)
      BY <2>1, PacketSent
    <2>3. /\ UNCHANGED <<sendUnack, sendNext, rcvNxt, appRead, aborting>>
          /\ app # "open" => app' # "open"
      BY <1>2 DEF ClientAck, ClientData, ClientClose, ClientReset, ClientSend
    <2>4. /\ BufferEdge' = BufferEdge
          /\ sendUnack <= rcvNxt
          /\ finRcvd => aborting /\ rcvNxt = sendNext
      BY <2>3 DEF DownloadInv, WindowInv, StreamInv, BufferEdge, First
    <2>5. /\ Len(fromClient') = Len(fromClient) + 1
          /\ fromClient'[Len(fromClient) + 1] = p
          /\ \A i \in 1 .. Len(fromClient) : fromClient'[i] = fromClient[i]
      BY <1>0, <2>2, AppendFacts
    <2>6. ASSUME NEW i \in 1 .. Len(fromClient')
          PROVE  \/ i = Len(fromClient) + 1 /\ fromClient'[i] = p
                 \/ i \in 1 .. Len(fromClient) /\ fromClient'[i] = fromClient[i]
      BY <1>0, <2>5, <2>6, SMT
    <2>7. ASSUME NEW i \in 1 .. Len(fromClient')
          PROVE  fromClient'[i].abs <= rcvNxt
      <3>1. rcvNxt <= rcvNxt
        BY <1>0, SMT
      <3>2. QED
        BY <1>0, <2>2, <2>6, <3>1 DEF UpstreamInv
    <2>8. ASSUME NEW i \in 1 .. Len(fromClient'), NEW j \in 1 .. Len(fromClient'), i <= j
          PROVE  fromClient'[i].abs <= fromClient'[j].abs
      <3>1. CASE j = Len(fromClient) + 1
        BY <2>2, <2>5, <2>7, <3>1
      <3>2. CASE j \in 1 .. Len(fromClient)
        <4>1. i \in 1 .. Len(fromClient)
          BY <1>0, <2>5, <2>8, <3>2, SMT
        <4>2. QED
          BY <1>0, <2>5, <2>8, <3>2, <4>1 DEF UpstreamInv
      <3>3. QED
        BY <2>6, <3>1, <3>2
    <2>9. ASSUME NEW i \in 1 .. Len(fromClient')
          PROVE  LET e == fromClient'[i] IN
                 /\ sendUnack' <= e.abs /\ e.abs <= rcvNxt'
                 /\ e.abs + e.win * ScaleFactor <= BufferEdge'
                 /\ \/ e.ack = e.abs % Mod
                    \/ e.ack = (e.abs + 1) % Mod /\ e.abs = sendNext' /\ aborting'
                 /\ e.flag = "fin" => app' # "open"
      <3>1. CASE fromClient'[i] = p
        BY <2>1, <2>2, <2>3, <2>4, <2>7, <3>1
      <3>2. CASE i \in 1 .. Len(fromClient) /\ fromClient'[i] = fromClient[i]
        BY <1>0, <2>3, <2>4, <3>2 DEF UpstreamInv
      <3>3. QED
        BY <2>6, <3>1, <3>2
    <2>10. QED
      BY <2>8, <2>9 DEF UpstreamInv
  <1>3. CASE PumpSegment
    <2>1. /\ UNCHANGED <<fromClient, sendUnack, rcvNxt, appRead, aborting, app>>
          /\ ~aborting
      BY <1>3 DEF PumpSegment, DownloadInv, AbortInv
    <2>2. BufferEdge' = BufferEdge
      BY <2>1 DEF BufferEdge, First
    <2>3. QED
      BY <1>0, <2>1, <2>2 DEF UpstreamInv
  <1>4. CASE ClientReceive
    <2>1. /\ UNCHANGED <<fromClient, sendUnack, sendNext, appRead, aborting>>
          /\ rcvNxt <= rcvNxt' /\ rcvNxt' \in Nat
          /\ app # "open" => app' # "open"
      BY <1>4, Received DEF ClientReceive
    <2>2. BufferEdge' = BufferEdge
      BY <2>1 DEF BufferEdge, First
    <2>3. \A i \in 1 .. Len(fromClient) : fromClient[i].abs <= rcvNxt'
      <3>1. TAKE i \in 1 .. Len(fromClient)
      <3>2. fromClient[i].abs <= rcvNxt /\ fromClient[i] \in FromClient
        BY <1>0 DEF UpstreamInv
      <3>3. fromClient[i].abs \in Nat
        BY <3>2 DEF FromClient
      <3>4. QED
        BY <1>0, <2>1, <3>2, <3>3, SMT
    <2>4. QED
      BY <1>0, <2>1, <2>2, <2>3 DEF UpstreamInv
  <1>5. CASE AppRead
    <2>1. /\ UNCHANGED <<fromClient, sendUnack, sendNext, rcvNxt, aborting, app>>
          /\ appRead' \in Nat /\ appRead <= appRead'
      BY <1>0, <1>5, DownloadAssumption, SMT DEF AppRead, First
    <2>2. BufferEdge <= BufferEdge' /\ BufferEdge \in Int /\ BufferEdge' \in Int
      BY <1>0, <2>1, EdgeMonotone DEF BufferEdge
    <2>3. \A i \in 1 .. Len(fromClient) :
             fromClient[i].abs + fromClient[i].win * ScaleFactor <= BufferEdge'
      <3>1. TAKE i \in 1 .. Len(fromClient)
      <3>2. /\ fromClient[i].abs + fromClient[i].win * ScaleFactor <= BufferEdge
            /\ fromClient[i] \in FromClient
        BY <1>0 DEF UpstreamInv
      <3>3. fromClient[i].abs \in Nat /\ fromClient[i].win * ScaleFactor \in Nat
        BY <3>2, ScaledField DEF FromClient
      <3>4. QED
        BY <2>2, <3>2, <3>3, SMT
    <2>4. QED
      BY <1>0, <2>1, <2>3 DEF UpstreamInv
  <1>6. CASE /\ UNCHANGED <<fromClient, sendUnack, sendNext, rcvNxt, appRead, app>>
             /\ aborting => aborting'
    <2>1. BufferEdge' = BufferEdge
      BY <1>6 DEF BufferEdge, First
    <2>2. QED
      BY <1>0, <1>6, <2>1 DEF UpstreamInv
  <1>7. CASE PumpFin \/ PumpEnd \/ Nio \/ Remote \/ UNCHANGED vars
    BY <1>6, <1>7 DEF vars, PumpFin, PumpEnd, Nio, NioRead, ReadFull, ReadData, ReadNothing, ReadEof,
           ReadError, ReadTail, NioWrite, NioWriteFail, Remote, UpstreamSend, UpstreamClose, UpstreamFail
  <1>8. QED
    BY <1>1, <1>2, <1>3, <1>4, <1>5, <1>7 DEF Next, Pump, Handler, Client

LEMMA StreamStep == DownloadInv /\ [Next]_vars => StreamInv'
  <1> SUFFICES ASSUME DownloadInv, [Next]_vars PROVE StreamInv'
    OBVIOUS
  <1> USE DEF session, thread, remote, client
  <1>0. /\ TypeOK /\ StreamInv
        /\ sendNext \in Nat /\ staging \in Nat /\ available \in Nat /\ unsent \in Nat
    BY DEF DownloadInv, TypeOK
  <1>1. CASE PumpSegment
    <2>1. PICK len \in Nat \ {0} : staging' = staging - len /\ sendNext' = sendNext + len
      BY <1>1, SegmentSent
    <2>2. /\ UNCHANGED <<available, unsent, upstream, upstreamEof, aborting, finRcvd, rcvNxt, app>>
          /\ ~aborting
      BY <1>1 DEF PumpSegment, DownloadInv, AbortInv
    <2>3. sendNext' + staging' + available' + unsent' = sendNext + staging + available + unsent
      BY <1>0, <2>1, <2>2, SMT
    <2>4. QED
      BY <1>0, <2>2, <2>3 DEF StreamInv, First
  <1>2. CASE ReadData
    <2>1. PICK len \in 1 .. Minimum(available, ReadBuf) :
             available' = available - len /\ staging' = staging + len
      BY <1>2 DEF ReadData
    <2>2. /\ UNCHANGED <<sendNext, unsent, upstream, upstreamEof, aborting, finRcvd, rcvNxt, app>>
          /\ ~aborting
      BY <1>2 DEF ReadData, DownloadInv, AbortInv
    <2>3. len \in Int /\ len >= 1 /\ len <= available
      BY <1>0, <2>1, DownloadAssumption, SMT DEF Minimum
    <2>4. /\ sendNext' + staging' + available' + unsent' = sendNext + staging + available + unsent
          /\ available # 0
      BY <1>0, <2>1, <2>2, <2>3, SMT
    <2>5. QED
      BY <1>0, <2>2, <2>4 DEF StreamInv, First
  <1>3. CASE ReadEof
    <2>1. /\ UNCHANGED <<sendNext, staging, available, unsent, upstream, aborting, finRcvd, rcvNxt, app>>
          /\ upstreamEof' = TRUE /\ available = 0 /\ upstream = "eof"
      BY <1>3 DEF ReadEof
    <2>2. QED
      BY <1>0, <2>1 DEF StreamInv, First
  <1>4. CASE Remote
    <2>1. CASE UpstreamSend
      <3>1. /\ UNCHANGED <<sendNext, staging, upstream, upstreamEof, aborting, finRcvd, rcvNxt, app>>
            /\ upstream = "up"
        BY <2>1 DEF UpstreamSend
      <3>2. PICK n \in 1 .. unsent : unsent' = unsent - n /\ available' = available + n
        BY <2>1 DEF UpstreamSend
      <3>3. sendNext' + staging' + available' + unsent' = sendNext + staging + available + unsent
        BY <1>0, <3>1, <3>2, SMT
      <3>4. QED
        BY <1>0, <3>1, <3>3 DEF StreamInv, First
    <2>2. CASE UpstreamClose \/ UpstreamFail
      BY <1>0, <2>2 DEF StreamInv, First, UpstreamClose, UpstreamFail
    <2>3. QED
      BY <1>4, <2>1, <2>2 DEF Remote
  <1>5. CASE ClientReceive
    <2>1. /\ UNCHANGED <<sendNext, staging, available, unsent, upstream, upstreamEof, aborting>>
          /\ toClient # <<>> /\ toClient[1].abs = rcvNxt /\ toClient[1] \in ToClient
          /\ rcvNxt' = rcvNxt + toClient[1].len
          /\ rcvNxt <= rcvNxt' /\ rcvNxt' <= sendNext /\ rcvNxt' \in Nat
          /\ finRcvd' => finRcvd \/ toClient[1].kind \in {"fin", "finack"}
          /\ app' = app \/ app' = "dead"
      BY <1>5, Received DEF ClientReceive
    <2>2. rcvNxt \in Nat /\ 1 \in 1 .. Len(toClient)
      BY <1>0, <2>1, TailFacts, SMT DEF TypeOK
    <2>3. /\ toClient[1].kind \in {"fin", "finack"} => aborting /\ toClient[1].abs = sendNext
          /\ toClient[1].kind = "fin" => staging = 0 /\ upstreamEof
          /\ toClient[1].kind = "finack" => app # "open"
      BY <2>2 DEF DownloadInv, DownstreamInv
    <2>4. finRcvd' => aborting' /\ rcvNxt' = sendNext'
      <3>1. finRcvd' => aborting /\ rcvNxt = sendNext
        BY <1>0, <2>1, <2>3 DEF StreamInv
      <3>2. rcvNxt = sendNext => rcvNxt' = sendNext
        BY <1>0, <2>1, <2>2, SMT
      <3>3. QED
        BY <2>1, <3>1, <3>2
    <2>5. finRcvd' /\ app' = "open" => staging' = 0 /\ upstreamEof'
      BY <1>0, <2>1, <2>3 DEF StreamInv
    <2>6. QED
      BY <1>0, <2>1, <2>4, <2>5 DEF StreamInv, First
  <1>6. CASE /\ UNCHANGED <<sendNext, staging, available, unsent, upstream, upstreamEof, finRcvd, rcvNxt>>
             /\ aborting => aborting'
             /\ app # "open" => app' # "open"
    BY <1>0, <1>6 DEF StreamInv, First
  <1>7. CASE PumpFin \/ PumpEnd \/ NioRead \/ ReadFull \/ ReadNothing \/ ReadError \/ ReadTail
             \/ NioWrite \/ NioWriteFail \/ UNCHANGED vars
    BY <1>6, <1>7 DEF vars, PumpFin, PumpEnd, NioRead, ReadFull, ReadNothing, ReadError, ReadTail, NioWrite,
                           NioWriteFail
  <1>8. CASE Handler
    BY <1>6, <1>8 DEF Handler, HandleAck, HandleData, HandleFin, HandleRst, HandleUnknown
  <1>9. CASE ClientAck \/ ClientData \/ ClientClose \/ ClientReset \/ AppRead
    BY <1>6, <1>9 DEF ClientAck, ClientData, ClientClose, ClientReset, ClientSend, AppRead
  <1>10. QED
    BY <1>1, <1>2, <1>3, <1>4, <1>5, <1>7, <1>8, <1>9 DEF Next, Pump, Nio, Client

-----------------------------------------------------------------------------
(* The theorems. *)

\* DownloadInv is an invariant of the download path.
THEOREM DownloadInvariant == Spec => []DownloadInv
  <1>1. DownloadInv /\ [Next]_vars => DownloadInv'
    BY TypeStep, AbortStep, WindowStep, DownstreamStep, UpstreamStep, StreamStep DEF DownloadInv
  <1>2. QED
    BY InitInv, <1>1, PTL DEF Spec

\* Type correctness of the download path.
THEOREM TypeCorrect == Spec => []TypeOK
  BY DownloadInvariant, PTL DEF DownloadInv

\* pumpToClient never sends a byte the app's receive buffer has no room for,
\* for every buffer, window scale, segment size and interleaving.
THEOREM NeverOverruns == Spec => []NoOverrun
  <1>1. DownloadInv => NoOverrun
    BY DEF DownloadInv, WindowInv, NoOverrun
  <1>2. QED
    BY <1>1, DownloadInvariant, PTL

\* acceptAck's claim: the unacknowledged span is at most one window, and what
\* the session takes for acknowledged has been received.
THEOREM AcksReconstructed == Spec => []AckReconstruction
  <1>1. DownloadInv => AckReconstruction
    BY DEF DownloadInv, WindowInv, AckReconstruction, MaxWindow
  <1>2. QED
    BY <1>1, DownloadInvariant, PTL

\* The deferred FIN never overtakes data: an app that sees the end of the
\* stream without having closed has every byte the upstream host sent.
THEOREM FinIsComplete == Spec => []FinMeansComplete
  <1>1. DownloadInv => FinMeansComplete
    <2> SUFFICES ASSUME DownloadInv, finRcvd, app = "open" PROVE rcvNxt = First + TotalBytes
      BY DEF FinMeansComplete
    <2>1. /\ staging = 0 /\ available = 0 /\ unsent = 0 /\ rcvNxt = sendNext
          /\ sendNext + staging + available + unsent = First + TotalBytes /\ sendNext \in Nat
      BY DEF DownloadInv, StreamInv, TypeOK
    <2>2. QED
      BY <2>1, SMT
  <1>2. QED
    BY <1>1, DownloadInvariant, PTL

-----------------------------------------------------------------------------
(* The staging buffer: bounded, and drained whenever the window allows it.   *)

\* Outside the pump, a session that is not aborting keeps bytes staged only
\* while its window is used up.  The two threads hand the monitor to each other
\* between events, so this has to hold in the read loop and in its tail too.
Drained == ~aborting /\ staging > 0 /\ phase # "pump" => Room <= 0

\* One read adds at most ReadBuf bytes, and only below the cap.
LEMMA ReadAdds ==
    ASSUME DownloadInv, ReadData
    PROVE  staging' < StagingCap + ReadBuf
  <1>1. StagingCap \in Nat /\ ReadBuf \in Nat /\ staging \in Nat /\ available \in Nat
    BY DownloadAssumption DEF DownloadInv, TypeOK
  <1>2. PICK len \in 1 .. Minimum(available, ReadBuf) : staging' = staging + len
    BY DEF ReadData
  <1>3. len \in Int /\ len <= ReadBuf /\ staging < StagingCap
    BY <1>1, <1>2, SMT DEF Minimum, ReadData
  <1>4. QED
    BY <1>1, <1>2, <1>3, SMT

\* The steps that neither stage bytes nor send them.
LEMMA StagingKept ==
    ASSUME [Next]_vars, ~PumpSegment, ~ReadData
    PROVE  UNCHANGED staging
  <1> USE DEF session
  <1>1. CASE PumpFin \/ PumpEnd \/ UNCHANGED vars
    BY <1>1 DEF PumpFin, PumpEnd, vars
  <1>2. CASE NioRead \/ ReadFull \/ ReadNothing \/ ReadEof \/ ReadError \/ ReadTail \/ NioWrite
             \/ NioWriteFail
    BY <1>2 DEF NioRead, ReadFull, ReadNothing, ReadEof, ReadError, ReadTail, NioWrite, NioWriteFail
  <1>3. CASE Handler
    BY <1>3 DEF Handler, HandleAck, HandleData, HandleFin, HandleRst, HandleUnknown
  <1>4. CASE Remote
    BY <1>4 DEF Remote, UpstreamSend, UpstreamClose, UpstreamFail
  <1>5. CASE Client
    BY <1>5 DEF Client, ClientReceive, ClientAck, ClientData, ClientClose, ClientReset, ClientSend, AppRead
  <1>6. QED
    BY <1>1, <1>2, <1>3, <1>4, <1>5 DEF Next, Pump, Nio

\* SocketChannelReader's backpressure: STAGING_CAP is exceeded by less than one
\* read, however long the app keeps its window closed.
THEOREM StagingNeverOverflows == Spec => []StagingBounded
  <1>1. Init => StagingBounded
    <2>1. StagingCap \in Nat \ {0} /\ ReadBuf \in Nat
      BY DownloadAssumption
    <2>2. QED
      BY <2>1, SMT DEF Init, StagingBounded
  <1>2. DownloadInv /\ StagingBounded /\ [Next]_vars => StagingBounded'
    <2> SUFFICES ASSUME DownloadInv, StagingBounded, [Next]_vars PROVE StagingBounded'
      OBVIOUS
    <2>1. CASE PumpSegment
      <3>1. PICK len \in Nat \ {0} : len <= staging /\ staging' = staging - len
        BY <2>1, SegmentSent
      <3>2. StagingCap \in Nat /\ ReadBuf \in Nat /\ staging \in Nat
        BY DownloadAssumption DEF DownloadInv, TypeOK
      <3>3. QED
        BY <3>1, <3>2, SMT DEF StagingBounded
    <2>2. CASE ReadData
      BY <2>2, ReadAdds DEF StagingBounded
    <2>3. CASE ~PumpSegment /\ ~ReadData
      BY <2>3, StagingKept DEF StagingBounded
    <2>4. QED
      BY <2>1, <2>2, <2>3
  <1>3. QED
    BY <1>1, <1>2, DownloadInvariant, PTL DEF Spec

\* Every step keeps the bytes of a session drained.
LEMMA DrainedStep == DownloadInv /\ Drained /\ [Next]_vars => Drained'
  <1> SUFFICES ASSUME DownloadInv, Drained, [Next]_vars PROVE Drained'
    OBVIOUS
  <1> USE DEF session, thread
  <1>1. CASE phase' = "pump" \/ aborting'
    BY <1>1 DEF Drained
  <1>2. CASE /\ UNCHANGED <<sendUnack, sendNext, clientWindow, staging>>
             /\ phase # "pump" /\ (aborting => aborting')
    BY <1>2 DEF Drained, Room
  <1>3. CASE PumpSegment \/ PumpFin \/ ReadData \/ ReadEof \/ ReadError
    BY <1>1, <1>3 DEF PumpSegment, PumpFin, ReadData, ReadEof, ReadError
  <1>4. CASE PumpEnd
    <2>1. UNCHANGED <<sendUnack, sendNext, clientWindow, staging>> /\ (staging = 0 \/ Room <= 0)
      BY <1>4 DEF PumpEnd
    <2>2. Room' = Room /\ staging' = staging
      BY <2>1 DEF Room
    <2>3. staging' > 0 => staging # 0
      BY <2>2, SMT
    <2>4. QED
      BY <2>1, <2>2, <2>3 DEF Drained
  <1>5. CASE NioRead \/ ReadFull \/ ReadNothing \/ ReadTail \/ NioWrite \/ NioWriteFail
    BY <1>2, <1>5 DEF NioRead, ReadFull, ReadNothing, ReadTail, NioWrite, NioWriteFail, NioIdle,
                      DownloadInv, TypeOK
  <1>6. CASE Handler
    <2>1. phase # "pump"
      BY <1>6 DEF Handler, HandleAck, HandleData, HandleFin, HandleRst, HandleUnknown, KnownSession,
                  NextPacket, DownloadInv, TypeOK
    <2>2. CASE HandleAck \/ HandleData
      BY <1>1, <2>2 DEF HandleAck, HandleData, PumpUnlessAborting
    <2>3. CASE HandleFin \/ HandleRst
      BY <1>1, <2>3 DEF HandleFin, HandleRst
    <2>4. CASE HandleUnknown
      BY <1>2, <2>1, <2>4 DEF HandleUnknown
    <2>5. QED
      BY <1>6, <2>2, <2>3, <2>4 DEF Handler
  <1>7. CASE UNCHANGED <<session, thread>>
    BY <1>7 DEF Drained, Room
  <1>8. CASE Remote \/ Client \/ UNCHANGED vars
    BY <1>7, <1>8 DEF Remote, UpstreamSend, UpstreamClose, UpstreamFail, Client, ClientReceive, ClientAck,
                      ClientData, ClientClose, ClientReset, ClientSend, AppRead, vars
  <1>9. QED
    BY <1>3, <1>4, <1>5, <1>6, <1>8 DEF Next, Pump, Nio

\* Between events no byte waits in the staging buffer that the app's window
\* would admit: each change of the window or of staging is followed by the pump.
THEOREM NothingIsStranded == Spec => []NothingStranded
  <1>1. Init => Drained
    BY SMT DEF Init, Drained
  <1>2. DownloadInv /\ Drained => NothingStranded
    BY DEF DownloadInv, TypeOK, Drained, NothingStranded
  <1>3. QED
    BY <1>1, <1>2, DrainedStep, DownloadInvariant, PTL DEF Spec

-----------------------------------------------------------------------------
(* Refinement: every step of the download path is a step of the byte pipe,   *)
(* or leaves the pipe as it is.                                              *)

\* What is taken away from the one side of a difference.
LEMMA LessLeft ==
  ASSUME NEW t \in Nat, NEW a \in Nat, NEW b \in Nat, b < a PROVE t - b > t - a
  BY SMT

\* A step that changes neither end of the stream is no step of the pipe.
LEMMA PipeStutter ==
  UNCHANGED <<unsent, upstream, rcvNxt, appRead, app, finRcvd>> => UNCHANGED Pipe!pipe
  BY DEF Pipe!pipe

\* The app's TCP takes bytes the upstream host has sent, and only those its
\* buffer has room for.
LEMMA PipeReceive ==
  DownloadInv /\ DownloadInv' /\ ClientReceive => [Pipe!Next]_(Pipe!pipe)
  <1> SUFFICES ASSUME DownloadInv, DownloadInv', ClientReceive PROVE [Pipe!Next]_(Pipe!pipe)
    OBVIOUS
  <1>1. /\ toClient # <<>> /\ app # "dead"
        /\ UNCHANGED <<unsent, available, upstream, appRead, sendNext, staging>>
    BY DEF ClientReceive, session, remote
  <1>2. /\ Head(toClient) = toClient[1] /\ toClient[1] \in ToClient
        /\ toClient[1].len \in Nat
    <2>1. toClient \in Seq(ToClient)
      BY DEF DownloadInv, TypeOK
    <2>2. Head(toClient) = toClient[1] /\ toClient[1] \in ToClient
      BY <1>1, <2>1, TailFacts
    <2>3. QED
      BY <2>2 DEF ToClient
  <1>3. /\ rcvNxt \in Nat /\ sendNext \in Nat /\ appRead \in Nat /\ staging \in Nat
        /\ available \in Nat /\ unsent \in Nat /\ Isn \in Nat /\ TotalBytes \in Nat /\ BufCap \in Nat
        /\ rcvNxt' \in Nat
    BY DownloadAssumption DEF DownloadInv, TypeOK
  <1>4. /\ sendNext + staging + available + unsent = First + TotalBytes
        /\ rcvNxt' <= sendNext'
        /\ rcvNxt' <= First + appRead + BufCap
    <2>1. sendNext' <= BufferEdge' /\ rcvNxt' <= sendNext'
      BY DEF DownloadInv, WindowInv
    <2>2. BufferEdge' = First + appRead + BufCap
      BY <1>1 DEF BufferEdge, First
    <2>3. QED
      BY <1>1, <1>3, <2>1, <2>2, SMT DEF DownloadInv, StreamInv, First
  <1>5. \/ UNCHANGED <<rcvNxt, finRcvd, app>>
        \/ rcvNxt' = rcvNxt + toClient[1].len /\ UNCHANGED <<finRcvd, app>>
        \/ UNCHANGED <<rcvNxt, app>> /\ finRcvd' = TRUE
        \/ UNCHANGED <<rcvNxt, finRcvd>> /\ app' = "dead"
    <2>1. finRcvd \in BOOLEAN
      BY DEF DownloadInv, TypeOK
    <2>2. QED
      BY <1>2, <2>1 DEF ClientReceive
  <1>6. CASE UNCHANGED <<rcvNxt, finRcvd, app>>
    BY <1>1, <1>6, PipeStutter DEF Pipe!Next
  <1>7. CASE rcvNxt' = rcvNxt + toClient[1].len /\ UNCHANGED <<finRcvd, app>>
    <2>1. UNCHANGED <<TotalBytes - unsent, upstream = "eof", appRead,
                      IF app # "open" THEN "cut" ELSE IF finRcvd THEN "eof" ELSE "open">>
      BY <1>1, <1>7
    <2>2. DEFINE before == IF rcvNxt < First THEN 0 ELSE rcvNxt - First
                 after  == IF rcvNxt' < First THEN 0 ELSE rcvNxt' - First
    <2>3. /\ after >= before
          /\ after > before => /\ after <= TotalBytes - unsent
                               /\ after <= appRead + BufCap
      BY <1>1, <1>2, <1>3, <1>4, <1>7, SMT DEF First
    <2>4. CASE after = before
      <3>1. UNCHANGED Pipe!pipe
        BY <2>1, <2>4 DEF Pipe!pipe, First
      <3>2. QED
        BY <3>1
    <2>5. CASE after > before
      <3>1. Pipe!Arrive
        BY <2>1, <2>3, <2>5 DEF Pipe!Arrive, First
      <3>2. QED
        BY <3>1 DEF Pipe!Next
    <2>6. before \in Int /\ after \in Int
      BY <1>3, SMT DEF First
    <2>7. after = before \/ after > before
      BY <2>3, <2>6, SMT
    <2>8. QED
      BY <2>4, <2>5, <2>7
  <1>8. CASE UNCHANGED <<rcvNxt, app>> /\ finRcvd' = TRUE
    <2>1. CASE app # "open" \/ finRcvd
      <3>1. UNCHANGED Pipe!pipe
        BY <1>1, <1>8, <2>1 DEF Pipe!pipe, First
      <3>2. QED
        BY <3>1
    <2>2. CASE app = "open" /\ ~finRcvd
      <3>1. /\ upstreamEof' /\ staging' = 0 /\ rcvNxt' = sendNext'
            /\ (upstreamEof' => upstream' = "eof" /\ available' = 0)
            /\ (upstream' = "eof" => unsent' = 0)
        BY <1>8, <2>2 DEF DownloadInv, StreamInv
      <3>2. upstream = "eof" /\ unsent = 0 /\ staging = 0 /\ available = 0 /\ rcvNxt = sendNext
        BY <1>1, <1>8, <3>1
      <3>3. rcvNxt = First + TotalBytes /\ ~(rcvNxt < First) /\ rcvNxt - First = TotalBytes - unsent
        BY <1>3, <1>4, <3>2, SMT DEF First
      <3>4. Pipe!End
        BY <1>1, <1>8, <2>2, <3>2, <3>3 DEF Pipe!End, First
      <3>5. QED
        BY <3>4 DEF Pipe!Next
    <2>3. finRcvd \in BOOLEAN
      BY DEF DownloadInv, TypeOK
    <2>4. QED
      BY <2>1, <2>2
  <1>9. CASE UNCHANGED <<rcvNxt, finRcvd>> /\ app' = "dead"
    <2>1. CASE app = "open"
      <3>1. Pipe!Cut
        BY <1>1, <1>9, <2>1 DEF Pipe!Cut, First
      <3>2. QED
        BY <3>1 DEF Pipe!Next
    <2>2. CASE app # "open"
      <3>1. UNCHANGED Pipe!pipe
        BY <1>1, <1>9, <2>2 DEF Pipe!pipe, First
      <3>2. QED
        BY <3>1
    <2>3. QED
      BY <2>1, <2>2
  <1>10. QED
    BY <1>5, <1>6, <1>7, <1>8, <1>9

\* Every step of the download path is a step of the pipe or a stutter.
LEMMA PipeStep ==
  DownloadInv /\ DownloadInv' /\ [Next]_vars => [Pipe!Next]_(Pipe!pipe)
  <1> SUFFICES ASSUME DownloadInv, DownloadInv', [Next]_vars PROVE [Pipe!Next]_(Pipe!pipe)
    OBVIOUS
  <1>1. CASE Pump \/ Nio \/ Handler \/ UNCHANGED vars
    <2>1. UNCHANGED <<unsent, upstream, rcvNxt, appRead, app, finRcvd>>
      <3>1. CASE Pump
        BY <3>1 DEF Pump, PumpSegment, PumpFin, PumpEnd, remote, client
      <3>2. CASE Nio
        BY <3>2 DEF Nio, NioRead, ReadFull, ReadData, ReadNothing, ReadEof, ReadError, ReadTail, NioWrite,
                    NioWriteFail, remote, client
      <3>3. CASE Handler
        BY <3>3 DEF Handler, HandleAck, HandleData, HandleFin, HandleRst, HandleUnknown, remote, client
      <3>4. CASE UNCHANGED vars
        BY <3>4 DEF vars, remote, client
      <3>5. QED
        BY <1>1, <3>1, <3>2, <3>3, <3>4
    <2>2. QED
      BY <2>1, PipeStutter
  <1>2. CASE UpstreamSend
    <2>1. unsent' < unsent /\ upstream = "up" /\ UNCHANGED <<upstream, rcvNxt, appRead, app, finRcvd>>
      BY <1>2, SMT DEF UpstreamSend, client, DownloadInv, TypeOK
    <2>2. TotalBytes \in Nat /\ unsent \in Nat /\ unsent' \in Nat
      BY DownloadAssumption DEF DownloadInv, TypeOK
    <2>3. TotalBytes - unsent' > TotalBytes - unsent
      <3>1. unsent' < unsent
        BY <2>1
      <3>2. QED
        BY <3>1, <2>2, LessLeft
    <2>4. Pipe!Offer
      BY <2>1, <2>3 DEF Pipe!Offer, First
    <2>5. QED
      BY <2>4 DEF Pipe!Next
  <1>3. CASE UpstreamClose
    <2>1. Pipe!Close
      BY <1>3 DEF UpstreamClose, Pipe!Close, client, First
    <2>2. QED
      BY <2>1 DEF Pipe!Next
  <1>4. CASE UpstreamFail
    <2>1. UNCHANGED Pipe!pipe
      BY <1>4 DEF UpstreamFail, Pipe!pipe, client, First
    <2>2. QED
      BY <2>1
  <1>5. CASE ClientReceive
    BY <1>5, PipeReceive
  <1>6. CASE ClientAck \/ ClientData
    <2>1. UNCHANGED <<unsent, upstream, rcvNxt, appRead, app, finRcvd>>
      BY <1>6 DEF ClientAck, ClientData, ClientSend, remote
    <2>2. QED
      BY <2>1, PipeStutter
  <1>7. CASE ClientClose \/ ClientReset
    <2>1. /\ UNCHANGED <<unsent, upstream, rcvNxt, appRead, finRcvd>>
          /\ app' # "open"
      BY <1>7 DEF ClientClose, ClientReset, ClientSend, remote
    <2>2. CASE app = "open"
      <3>1. Pipe!Cut
        BY <2>1, <2>2 DEF Pipe!Cut, First
      <3>2. QED
        BY <3>1 DEF Pipe!Next
    <2>3. CASE app # "open"
      <3>1. UNCHANGED Pipe!pipe
        BY <2>1, <2>3 DEF Pipe!pipe, First
      <3>2. QED
        BY <3>1
    <2>4. QED
      BY <2>2, <2>3
  <1>8. CASE AppRead
    <2>1. /\ appRead' > appRead /\ appRead' <= rcvNxt - First /\ ~(rcvNxt < First)
          /\ UNCHANGED <<unsent, upstream, rcvNxt, app, finRcvd>>
      <3>1. rcvNxt \in Nat /\ appRead \in Nat /\ Isn \in Nat
        BY DownloadAssumption DEF DownloadInv, TypeOK
      <3>2. QED
        BY <1>8, <3>1, SMT DEF AppRead, remote, First
    <2>2. Pipe!Consume
      BY <2>1 DEF Pipe!Consume, First
    <2>3. QED
      BY <2>2 DEF Pipe!Next
  <1>9. QED
    BY <1>1, <1>2, <1>3, <1>4, <1>5, <1>6, <1>7, <1>8 DEF Next, Remote, Client

\* The download path implements the byte pipe, for every buffer, window scale,
\* segment size, sequence space and interleaving of the two threads.
THEOREM DownloadIsPipe == Spec => ImplementsPipe
  <1>1. Init => Pipe!Init
    <2> SUFFICES ASSUME Init PROVE Pipe!Init
      OBVIOUS
    <2>1. /\ TotalBytes - unsent = 0 /\ rcvNxt < First /\ appRead = 0 /\ upstream = "up"
          /\ app = "open" /\ finRcvd = FALSE
      BY DownloadAssumption, SMT DEF Init, First
    <2>2. QED
      BY <2>1 DEF Pipe!Init
  <1>2. QED
    BY <1>1, PipeStep, DownloadInvariant, PTL DEF Spec, ImplementsPipe, Pipe!Spec
=============================================================================
