----------------------------- MODULE TcpUpload -----------------------------
(***************************************************************************)
(* The server direction of one forwarded TCP connection: data packets of   *)
(* the app are acknowledged by SessionHandler as soon as they are in the   *)
(* Session's sendingStream, and the NIO thread writes the stream to the    *)
(* upstream socket once a PSH has made it ready.  An acknowledged byte is  *)
(* never sent again by the app, so the engine alone answers for it.        *)
(*                                                                         *)
(* Every action is one stay in the session's monitor, of the VPN thread    *)
(* (Handle...) or of the NIO thread (Nio...).  The TUN device delivers in  *)
(* order and without loss; the app's TCP may retransmit what has not been  *)
(* acknowledged yet.                                                       *)
(*                                                                         *)
(* Byte number i of the app's stream has sequence number ClientIsn + i.    *)
(* Packets carry it as the parser yields it: a 32-bit integer with a sign. *)
(* recSequence is a 64-bit integer that the code adds lengths to.  The two *)
(* agree until the numbers pass 2^31; a recSequence of 0 means `unset'.    *)
(***************************************************************************)
EXTENDS Integers, Sequences

CONSTANTS
    Half,           \* half of the sequence space (2^31)
    ClientIsn,      \* the app's initial sequence number
    TotalBytes,     \* bound: bytes the app sends
    MaxLen,         \* bound: bytes in one packet
    MaxQueued,      \* bound: packets from the app waiting in the TUN device
    MaxExtras,      \* bound: retransmissions, pure ACKs and probes of the app's TCP
    SocketFills,    \* whether the upstream socket may take a part of a write
    KeepAlives,     \* whether the app's TCP sends keep-alive probes
    MayEnd,         \* whether the app may reset and the upstream end or fail
    MayFin,         \* whether the app may close its side
    FinPushes       \* whether the FIN may ride on a data packet with PSH

ASSUME UploadAssumption ==
    /\ Half \in Nat \ {0} /\ ClientIsn \in 0 .. 2 * Half - 1
    /\ TotalBytes \in Nat /\ MaxLen \in Nat /\ MaxQueued \in Nat /\ MaxExtras \in Nat
    /\ \A b \in {SocketFills, KeepAlives, MayEnd, MayFin, FinPushes} : b \in BOOLEAN

VARIABLES
    recSequence,    \* Session.recSequence
    sendingStream,  \* Session.sendingStream: the numbers of its bytes
    dataReady,      \* Session.isDataForSendingReady
    aborting,       \* Session.abortingConnection
    open,           \* in the table, channel open and key valid
    writeOn,        \* OP_WRITE is in the key's interest set
    pushed,         \* history: bytes the engine held when the last PSH came
    written,        \* the bytes the upstream socket has taken
    upstream,       \* "up" or "error"
    intact,         \* history: no write was cut short, no probe taken for an acknowledgement
    fromClient,     \* packets of the app in the TUN device
    toClient,       \* acknowledgements on their way to the app
    sent, acked,    \* the app's TCP: bytes sent, bytes (and FIN) acknowledged
    fin, dead,      \* the app's TCP: the kind of FIN sent, connection reset
    extras          \* retransmissions, pure ACKs and probes so far

session == <<recSequence, sendingStream, dataReady, aborting, open, writeOn, pushed>>
socket  == <<written, upstream, intact>>
client  == <<sent, acked, fin, dead, extras>>
vars    == <<session, socket, fromClient, toClient, client>>

-----------------------------------------------------------------------------
Mod == 2 * Half

\* getInt() of a sequence number: the signed value of its 32 bits.
Signed(n) == ((n + Half) % Mod) - Half

\* Sequence number of byte i of the stream.
SeqOf(i) == ClientIsn + i

\* The bytes a .. b of the stream.
Bytes(a, b) == [i \in 1 .. (b - a + 1) |-> a + i - 1]

FromClient == [flag : {"none", "fin", "rst"}, psh : BOOLEAN, seq : -Half .. Half - 1,
               pos : Int, len : 0 .. MaxLen]

ToClient == [kind : {"ack", "finack", "fin", "rst"}, ack : 0 .. Mod - 1]

\* A packet to the app that acknowledges everything before n.
Reply(kind, n) == toClient' = Append(toClient, [kind |-> kind, ack |-> n % Mod])

-----------------------------------------------------------------------------
(* The state replySynAck leaves. *)
Init ==
    /\ recSequence = Signed(ClientIsn) + 1
    /\ sendingStream = <<>> /\ dataReady = FALSE /\ aborting = FALSE
    /\ open = TRUE /\ writeOn = FALSE /\ pushed = 0
    /\ written = <<>> /\ upstream = "up" /\ intact = TRUE
    /\ fromClient = <<>> /\ toClient = <<>>
    /\ sent = 0 /\ acked = 0 /\ fin = "none" /\ dead = FALSE /\ extras = 0

-----------------------------------------------------------------------------
(* The VPN thread: SessionHandler.handleTCPPacket on a packet with ACK. *)

\* The packet the VPN thread has read from the TUN device.
Packet == Head(fromClient)

NextPacket == fromClient # <<>> /\ fromClient' = Tail(fromClient)

KnownSession == NextPacket /\ open

\* In order, as far as the code can tell: addClientData, then sendAck.
AddData ==
    /\ recSequence = 0 \/ Packet.seq >= recSequence
    /\ sendingStream' = sendingStream \o Bytes(Packet.pos, Packet.pos + Packet.len - 1)
    /\ recSequence' = recSequence + Packet.len
    /\ Reply("ack", recSequence + Packet.len)

\* Faulty variant: the next byte itself is taken for a repetition.
AckUntaken ==
    /\ recSequence # 0 /\ Packet.seq <= recSequence
    /\ Reply("ack", Packet.seq + Packet.len)
    /\ UNCHANGED <<sendingStream, recSequence>>

\* Taken for a repetition: acknowledged again and dropped.
sendAckForDisorder ==
    /\ recSequence # 0 /\ Packet.seq < recSequence
    /\ Reply("ack", Packet.seq + Packet.len)
    /\ UNCHANGED <<sendingStream, recSequence>>

\* Faulty variant: the key is not subscribed.
PushWithoutWrite ==
    /\ dataReady' = (dataReady \/ Packet.psh)
    /\ pushed' = IF Packet.psh THEN Len(written) + Len(sendingStream') ELSE pushed
    /\ UNCHANGED writeOn

\* pushDataToDestination, for a packet with PSH.
Push ==
    /\ dataReady' = (dataReady \/ Packet.psh)
    /\ writeOn' = (writeOn \/ Packet.psh)
    /\ pushed' = IF Packet.psh THEN Len(written) + Len(sendingStream') ELSE pushed

\* handleTCPPacket looks at FIN and RST only when there is no PSH.
NoEnd == Packet.flag = "none" \/ Packet.psh

\* Data.
HandleData ==
    /\ KnownSession
    /\ NoEnd /\ Packet.len > 0
    /\ AddData \/ sendAckForDisorder
    /\ Push
    /\ UNCHANGED <<aborting, open, socket, client>>

\* Bytes the engine has taken from the app.
Held == Len(written) + Len(sendingStream)

\* A pure ACK.  If acceptAck accepts it (which the download side decides),
\* recSequence is set to its sequence number; a keep-alive probe has the
\* number of a byte that is held.
HandleAck ==
    /\ KnownSession
    /\ NoEnd /\ Packet.len = 0
    /\ recSequence' \in {recSequence, Packet.seq}
    /\ intact' = (intact /\ (recSequence' = recSequence \/ Packet.pos > Held))
    /\ UNCHANGED sendingStream
    /\ Push
    /\ UNCHANGED <<aborting, open, written, upstream, toClient, client>>

\* FIN: ackFinAck answers and closes the session with what it still holds.
HandleFin ==
    /\ KnownSession
    /\ ~NoEnd /\ Packet.flag = "fin"
    /\ recSequence' \in {recSequence, Packet.seq}
    /\ Reply("finack", Packet.seq + 1)
    /\ open' = FALSE /\ aborting' = TRUE
    /\ UNCHANGED <<pushed, sendingStream, dataReady, writeOn, socket, client>>

\* RST: resetTCPConnection only marks the session.
HandleRst ==
    /\ KnownSession
    /\ ~NoEnd /\ Packet.flag = "rst"
    /\ recSequence' \in {recSequence, Packet.seq}
    /\ aborting' = TRUE
    /\ UNCHANGED <<pushed, sendingStream, dataReady, open, writeOn, socket, toClient, client>>

\* No session: sendLastAck answers a FIN, a RST anything else but a RST (which
\* acknowledges nothing).
HandleUnknown ==
    /\ NextPacket
    /\ ~open
    /\ CASE Packet.flag = "fin"  -> Reply("ack", Packet.seq + 1)
         [] Packet.flag = "none" -> Reply("rst", 0)
         [] OTHER                -> UNCHANGED toClient
    /\ UNCHANGED <<session, socket, client>>

-----------------------------------------------------------------------------
(* The NIO thread. *)

WritePending == open /\ writeOn /\ dataReady /\ sendingStream # <<>>

\* Faulty variant: the key stays subscribed.
NioNoWriteSpins ==
    /\ open /\ writeOn
    /\ ~WritePending
    /\ UNCHANGED vars

\* processPendingWrite with nothing to write.
NioNoWrite ==
    /\ open /\ writeOn
    /\ ~WritePending
    /\ writeOn' = FALSE
    /\ UNCHANGED <<pushed, recSequence, sendingStream, dataReady, aborting, open, socket,
                   fromClient, toClient, client>>

\* Faulty variant: the stream is not reset when its data is taken.
NioWriteKeeping ==
    /\ WritePending
    /\ upstream = "up"
    /\ written' = written \o sendingStream
    /\ dataReady' = FALSE /\ writeOn' = FALSE
    /\ open' = ~aborting
    /\ UNCHANGED <<pushed, recSequence, sendingStream, aborting, upstream, intact, fromClient,
                   toClient, client>>

\* writePendingData: the socket takes the whole stream.
NioWrite ==
    /\ WritePending
    /\ upstream = "up"
    /\ written' = written \o sendingStream
    /\ sendingStream' = <<>>
    /\ dataReady' = FALSE /\ writeOn' = FALSE
    /\ open' = ~aborting
    /\ UNCHANGED <<pushed, recSequence, aborting, upstream, intact, fromClient, toClient, client>>

\* writePendingData: the socket takes the first p bytes, or none, and is full.
\* compact() leaves its position behind the n - p unwritten bytes, and what is
\* put back is what lies from there to the end: the last p of the n bytes.
NioWritePart ==
    /\ SocketFills
    /\ WritePending
    /\ upstream = "up"
    /\ LET n == Len(sendingStream)
       IN  \E p \in 0 .. n - 1 :
              /\ written' = written \o SubSeq(sendingStream, 1, p)
              /\ sendingStream' = SubSeq(sendingStream, n - p + 1, n)
    /\ open' = ~aborting
    /\ intact' = FALSE
    /\ UNCHANGED <<pushed, recSequence, dataReady, aborting, writeOn, upstream,
                   fromClient, toClient, client>>

\* channel.write throws IOException: RST to the app, and the session is closed.
NioWriteFail ==
    /\ WritePending
    /\ upstream = "error"
    /\ sendingStream' = <<>>
    /\ Reply("rst", 0)
    /\ aborting' = TRUE /\ open' = FALSE /\ writeOn' = FALSE
    /\ UNCHANGED <<pushed, recSequence, dataReady, socket, fromClient, client>>

\* The read side sees the end of the stream or an error: after the FIN, or at
\* once, the session is closed with what it still holds for the upstream.
NioReadEnds ==
    /\ MayEnd /\ open
    /\ \/ upstream = "up" /\ Reply("fin", recSequence)
       \/ upstream = "error" /\ UNCHANGED toClient
    /\ aborting' = TRUE /\ open' = FALSE
    /\ UNCHANGED <<pushed, recSequence, sendingStream, dataReady, writeOn, socket, fromClient, client>>

UpstreamFail ==
    /\ MayEnd /\ upstream = "up"
    /\ upstream' = "error"
    /\ UNCHANGED <<session, written, intact, fromClient, toClient, client>>

-----------------------------------------------------------------------------
(* The app's TCP behind the TUN device (external). *)

\* A packet that starts at byte pos; a FIN takes the number after the data.
ClientPacket(flag, psh, pos, len) ==
    /\ ~dead
    /\ Len(fromClient) < MaxQueued
    /\ fromClient' = Append(fromClient, [flag |-> flag, psh |-> psh, seq |-> Signed(SeqOf(pos)),
                                         pos |-> pos, len |-> len])
    /\ UNCHANGED <<session, socket, toClient, acked>>

\* New data; the last packet of the app's data has PSH.
ClientData ==
    /\ fin = "none"
    /\ \E len \in 1 .. MaxLen, psh \in BOOLEAN :
          /\ sent + len <= TotalBytes
          /\ sent + len = TotalBytes => psh
          /\ ClientPacket("none", psh, sent + 1, len)
          /\ sent' = sent + len
    /\ UNCHANGED <<fin, dead, extras>>

\* An acknowledgement of download data.
ClientAck ==
    /\ extras < MaxExtras
    /\ ClientPacket("none", FALSE, IF fin = "none" THEN sent + 1 ELSE sent + 2, 0)
    /\ extras' = extras + 1
    /\ UNCHANGED <<sent, fin, dead>>

\* The retransmission timer: bytes not yet acknowledged are sent again.
ClientRetransmit ==
    /\ extras < MaxExtras
    /\ \E len \in 1 .. MaxLen : /\ acked + len <= sent
                                /\ ClientPacket("none", TRUE, acked + 1, len)
    /\ extras' = extras + 1
    /\ UNCHANGED <<sent, fin, dead>>

\* A keep-alive probe: no data, one below the next sequence number.
ClientKeepAlive ==
    /\ KeepAlives /\ fin = "none" /\ acked = sent
    /\ extras < MaxExtras
    /\ ClientPacket("none", FALSE, sent, 0)
    /\ extras' = extras + 1
    /\ UNCHANGED <<sent, fin, dead>>

\* close() or shutdown(): a bare FIN, or one on the last data packet.
ClientFin ==
    /\ MayFin /\ fin = "none"
    /\ \/ /\ sent = TotalBytes
          /\ ClientPacket("fin", FALSE, sent + 1, 0)
          /\ fin' = "bare"
          /\ UNCHANGED sent
       \/ /\ FinPushes /\ sent < TotalBytes /\ TotalBytes - sent <= MaxLen
          /\ ClientPacket("fin", TRUE, sent + 1, TotalBytes - sent)
          /\ fin' = "pushed"
          /\ sent' = TotalBytes
    /\ UNCHANGED <<dead, extras>>

\* All data is acknowledged, the FIN is not: it is sent again, with its flags,
\* once nothing is under way any more.
ClientRetransmitFin ==
    /\ fin # "none" /\ acked = sent
    /\ fromClient = <<>> /\ toClient = <<>>
    /\ ClientPacket("fin", fin = "pushed", sent + 1, 0)
    /\ UNCHANGED <<sent, fin, dead, extras>>

ClientReset ==
    /\ MayEnd
    /\ ClientPacket("rst", FALSE, sent + 1, 0)
    /\ dead' = TRUE
    /\ UNCHANGED <<sent, fin, extras>>

\* An acknowledgement inside what has been sent moves the app's window on.
ClientReceive ==
    /\ toClient # <<>> /\ ~dead
    /\ toClient' = Tail(toClient)
    /\ LET s   == Head(toClient)
           new == (s.ack - SeqOf(acked + 1)) % Mod
           top == IF fin = "none" THEN sent ELSE sent + 1
       IN  /\ acked' = IF s.kind # "rst" /\ acked + new <= top THEN acked + new ELSE acked
           /\ dead' = (s.kind = "rst")
    /\ UNCHANGED <<session, socket, fromClient, sent, fin, extras>>

-----------------------------------------------------------------------------
Handler == HandleData \/ HandleAck \/ HandleFin \/ HandleRst \/ HandleUnknown
Writer  == NioNoWrite \/ NioWrite \/ NioWritePart \/ NioWriteFail
Client  == ClientData \/ ClientAck \/ ClientRetransmit \/ ClientKeepAlive \/ ClientFin
           \/ ClientRetransmitFin \/ ClientReset \/ ClientReceive

Next == Handler \/ Writer \/ NioReadEnds \/ UpstreamFail \/ Client

Spec == Init /\ [][Next]_vars

(* Fairness: the VPN thread handles what the TUN device holds, the selector  *)
(* reports a writable key, the kernel delivers the engine's packets and the  *)
(* app sends all of its data, and again a FIN that is not answered.          *)
FairSpec == Spec /\ WF_vars(Handler) /\ WF_vars(Writer)
                 /\ WF_vars(ClientData) /\ WF_vars(ClientReceive) /\ WF_vars(ClientRetransmitFin)

-----------------------------------------------------------------------------
(* Properties *)

TypeOK ==
    /\ recSequence \in Int /\ sendingStream \in Seq(1 .. TotalBytes)
    /\ dataReady \in BOOLEAN /\ aborting \in BOOLEAN /\ open \in BOOLEAN /\ writeOn \in BOOLEAN
    /\ pushed \in Nat /\ written \in Seq(1 .. TotalBytes) /\ upstream \in {"up", "error"}
    /\ intact \in BOOLEAN /\ fromClient \in Seq(FromClient) /\ toClient \in Seq(ToClient)
    /\ sent \in 0 .. TotalBytes /\ acked \in 0 .. TotalBytes + 1
    /\ fin \in {"none", "bare", "pushed"} /\ dead \in BOOLEAN /\ extras \in 0 .. MaxExtras

\* SocketChannelWriter's comment: a byte stream, written as-is.  The upstream
\* host receives a prefix of what the app sent, whatever is retransmitted.
WrittenIsPrefix == written = Bytes(1, Len(written))

\* As long as every write was taken whole and no probe has set recSequence
\* back, the upstream receives a prefix: retransmissions, ends on either side
\* and failures do no harm by themselves.
IntactIsPrefix == intact => WrittenIsPrefix

\* handleTCPPacket's comment: `send ack to client only if new data was added'.
\* What the app's TCP has an acknowledgement for, and so never sends again, is
\* in the engine's hands or written upstream, whatever it retransmits.
AckedIsTaken == intact /\ open => acked <= Held

\* Everything the app sends is written upstream, unless an end is reached
\* or a write is cut short.
AllWritten == sent = TotalBytes ~> (Len(written) = TotalBytes \/ ~open \/ ~intact)

\* SocketChannelWriter's comment: WRITE events are not needed any more once all
\* data is written.  The NIO thread does not spin on a writable key, however
\* little the socket takes at a time.
WriterComesToRest == writeOn ~> (~writeOn \/ ~open)
=============================================================================
