---------------------------- MODULE TcpDownload ----------------------------
(***************************************************************************)
(* The client direction of one forwarded TCP connection: bytes the engine  *)
(* reads from the upstream socket are staged in the Session, segmented and *)
(* sent to the app behind the TUN device under the app's receive window.   *)
(*                                                                         *)
(* Two threads work on the session, each holding its monitor for the whole *)
(* of one event: the NIO thread (SocketNIODataService.processSelectionKey  *)
(* -> SocketChannelReader.read) and the VPN thread                         *)
(* (SessionHandler.handleTCPPacket).  `monitor' is the thread inside, and  *)
(* `phase' how far it has come; the app's TCP, the upstream host and the   *)
(* TUN queue move freely in between.  Both directions of the TUN device    *)
(* are reliable FIFO queues.  The engine never retransmits, so a byte sent *)
(* outside the app's window would be lost for good.                        *)
(*                                                                         *)
(* Sequence numbers are kept as the code keeps them: 64-bit values         *)
(* (naturals here) in the Session, and modulo Mod (2^32) in packets.  The  *)
(* `abs' field of a packet is a history field no action reads: the place   *)
(* in the stream, not reduced modulo Mod, up to which the sender had sent  *)
(* (toClient) or received (fromClient) when it sent the packet.            *)
(***************************************************************************)
EXTENDS Integers, Sequences, FiniteSets

CONSTANTS
    Mod,             \* size of the sequence space on the wire (2^32)
    Isn,             \* the engine's initial sequence number
    Mss,             \* maxSegmentSize of the client's SYN
    Overhead,        \* bytes maxSegment leaves below the MSS (60)
    DefaultSegment,  \* maxSegment's fallback (1024)
    MaxField,        \* largest value of the 16-bit window field
    ScaleFactor,     \* 2^clientWindowScale
    BufCap,          \* the app's receive buffer, in bytes
    StagingCap,      \* STAGING_CAP
    ReadBuf,         \* MAX_RECEIVE_BUFFER_SIZE
    TotalBytes,      \* bound: bytes the upstream host sends
    MaxUploads,      \* bound: data packets the app sends
    MaxQueued,       \* bound: packets from the app waiting in the TUN device
    AppMayClose,     \* whether the app may send FIN or RST
    UpstreamMayFail  \* whether the upstream socket may fail

ASSUME DownloadAssumption ==
    /\ Mod \in Nat /\ Isn \in Nat /\ Mss \in Nat /\ Overhead \in Nat
    /\ DefaultSegment \in Nat \ {0}
    /\ MaxField \in Nat \ {0} /\ ScaleFactor \in Nat \ {0} /\ BufCap \in Nat \ {0}
    /\ StagingCap \in Nat \ {0} /\ ReadBuf \in Nat \ {0}
    /\ TotalBytes \in Nat /\ MaxUploads \in Nat /\ MaxQueued \in Nat \ {0}
    /\ AppMayClose \in BOOLEAN /\ UpstreamMayFail \in BOOLEAN
    \* An advertised window is smaller than the sequence space (RFC 7323: 2^30).
    /\ MaxField * ScaleFactor < Mod

VARIABLES
    sendUnack, sendNext,     \* Session.sendUnack, Session.sendNext
    clientWindow,            \* Session.clientWindow, in bytes
    staging,                 \* Session.receivingStream, as a number of bytes
    upstreamEof,             \* Session.upstreamEof
    aborting,                \* Session.abortingConnection
    open,                    \* in the table, channel open and key valid
    readOn,                  \* OP_READ is in the key's interest set
    writeOn,                 \* OP_WRITE is in the key's interest set
    monitor, phase,          \* the thread in the session's monitor, its progress
    available, unsent,       \* upstream bytes in the socket, and still to come
    upstream,                \* the upstream connection: "up", "eof" or "error"
    toClient, fromClient,    \* the two directions of the TUN device
    rcvNxt, appRead,         \* the app's TCP: next byte expected, bytes consumed
    finRcvd, owesAck,        \* the app's TCP: FIN received, an ACK is due
    app,                     \* the app's side: "open", "closed" or "dead"
    uploads                  \* data packets the app has sent

session  == <<sendUnack, sendNext, clientWindow, staging, upstreamEof, aborting,
              open, readOn, writeOn>>
thread   == <<monitor, phase>>
remote   == <<available, unsent, upstream>>
client   == <<rcvNxt, appRead, finRcvd, owesAck, app, uploads>>
vars     == <<session, thread, remote, toClient, fromClient, client>>

-----------------------------------------------------------------------------
Minimum(a, b) == IF a < b THEN a ELSE b

\* Absolute sequence number of the first data byte (the SYN takes one).
First == Isn + 1

\* The right edge of the app's receive buffer: where it must start to drop.
BufferEdge == First + appRead + BufCap

\* The window the app's TCP puts in a segment (external).
WindowField == Minimum(MaxField, (BufCap - (rcvNxt - First - appRead)) \div ScaleFactor)

\* A packet to the app with sequence number n.
Segment(kind, n, len) == [kind |-> kind, seq |-> n % Mod, abs |-> sendNext, len |-> len]

FromClient == [flag : {"none", "fin", "rst"}, ack : 0 .. Mod - 1, abs : Nat,
               win : 0 .. MaxField, len : 0 .. 1]

ToClient == [kind : {"synack", "data", "fin", "finack", "ack", "rst"},
             seq : 0 .. Mod - 1, abs : Nat, len : Nat]

maxSegment ==
    LET max == Mss - Overhead
    IN  IF max < 1 THEN DefaultSegment ELSE max

\* Faulty variant: what is in flight is forgotten.
RoomIgnoringFlight == clientWindow

\* Bytes the pump may still send: the window less what is in flight.
Room == clientWindow - ((sendNext - sendUnack) % Mod)

-----------------------------------------------------------------------------
(* The state replySynAck leaves: the session is registered, its SYN-ACK is  *)
(* on the way to the app, and the window is the unscaled one of the SYN.    *)
Init ==
    /\ sendUnack = Isn /\ sendNext = Isn + 1
    /\ clientWindow = Minimum(MaxField, BufCap)
    /\ staging = 0 /\ upstreamEof = FALSE /\ aborting = FALSE
    /\ open = TRUE /\ readOn = TRUE /\ writeOn = FALSE
    /\ monitor = "none" /\ phase = "idle"
    /\ available = 0 /\ unsent = TotalBytes /\ upstream = "up"
    /\ toClient = <<[kind |-> "synack", seq |-> Isn % Mod, abs |-> Isn, len |-> 1]>>
    /\ fromClient = <<>>
    /\ rcvNxt = Isn /\ appRead = 0 /\ finRcvd = FALSE /\ owesAck = FALSE
    /\ app = "open" /\ uploads = 0

-----------------------------------------------------------------------------
(* pumpToClient, one segment per step: runs in the monitor of either thread. *)

PumpSegment ==
    /\ phase = "pump"
    /\ staging > 0 /\ Room > 0
    /\ LET len == Minimum(staging, Minimum(Room, maxSegment))
       IN  /\ staging' = staging - len
           /\ sendNext' = sendNext + len
           /\ toClient' = Append(toClient, Segment("data", sendNext, len))
    /\ UNCHANGED <<sendUnack, clientWindow, upstreamEof, aborting, open, readOn, writeOn,
                   thread, remote, fromClient, client>>

\* Where the caller continues: the VPN thread leaves the monitor, the NIO
\* thread goes round the read loop again, or ends it after an EOF.
PumpReturn ==
    /\ monitor' = IF monitor = "vpn" THEN "none" ELSE monitor
    /\ phase' = CASE monitor = "vpn" -> "idle"
                  [] monitor = "nio" /\ upstreamEof -> "tail"
                  [] OTHER -> "loop"

\* The deferred FIN goes out once the upstream is done and staging is empty.
\* Its sequence number is sendNext, which it does not advance.
PumpFin ==
    /\ phase = "pump"
    /\ staging = 0 /\ upstreamEof /\ ~aborting
    /\ toClient' = Append(toClient, Segment("fin", sendNext, 0))
    /\ aborting' = TRUE
    /\ PumpReturn
    /\ UNCHANGED <<sendUnack, sendNext, clientWindow, staging, upstreamEof, open, readOn,
                   writeOn, remote, fromClient, client>>

\* Faulty variant: reads stopped by backpressure are not resumed.
PumpEndNoResume ==
    /\ phase = "pump"
    /\ staging = 0 \/ Room <= 0
    /\ ~(staging = 0 /\ upstreamEof /\ ~aborting)
    /\ PumpReturn
    /\ UNCHANGED <<session, remote, toClient, fromClient, client>>

\* Nothing more may be sent now: resume upstream reads if staging has drained.
PumpEnd ==
    /\ phase = "pump"
    /\ staging = 0 \/ Room <= 0
    /\ ~(staging = 0 /\ upstreamEof /\ ~aborting)
    /\ readOn' = (readOn \/ (~upstreamEof /\ staging < StagingCap))
    /\ PumpReturn
    /\ UNCHANGED <<sendUnack, sendNext, clientWindow, staging, upstreamEof, aborting, open,
                   writeOn, remote, toClient, fromClient, client>>

-----------------------------------------------------------------------------
(* The NIO thread. *)

NioIdle == monitor = "none" /\ open

\* The selector reports the key readable; an aborting session skips readTCP.
NioRead ==
    /\ NioIdle
    /\ readOn /\ (available > 0 \/ upstream # "up")
    /\ monitor' = "nio"
    /\ phase' = IF aborting THEN "tail" ELSE "loop"
    /\ UNCHANGED <<session, remote, toClient, fromClient, client>>

\* Backpressure: stop reading once the staging buffer is full.
ReadFull ==
    /\ phase = "loop"
    /\ staging >= StagingCap
    /\ readOn' = FALSE
    /\ phase' = "tail"
    /\ UNCHANGED <<sendUnack, sendNext, clientWindow, staging, upstreamEof, aborting, open,
                   writeOn, monitor, remote, toClient, fromClient, client>>

\* Faulty variant: the read loop goes on while the socket has data.
ReadDataGreedy ==
    /\ phase = "loop"
    /\ \E len \in 1 .. Minimum(available, ReadBuf) :
          /\ available' = available - len
          /\ staging' = staging + len
    /\ phase' = "pump"
    /\ UNCHANGED <<sendUnack, sendNext, clientWindow, upstreamEof, aborting, open, readOn,
                   writeOn, monitor, unsent, upstream, toClient, fromClient, client>>

\* channel.read returns data, which is staged and pumped (sendToRequester).
ReadData ==
    /\ phase = "loop"
    /\ staging < StagingCap
    /\ \E len \in 1 .. Minimum(available, ReadBuf) :
          /\ available' = available - len
          /\ staging' = staging + len
    /\ phase' = "pump"
    /\ UNCHANGED <<sendUnack, sendNext, clientWindow, upstreamEof, aborting, open, readOn,
                   writeOn, monitor, unsent, upstream, toClient, fromClient, client>>

\* channel.read returns 0: the loop ends.
ReadNothing ==
    /\ phase = "loop"
    /\ staging < StagingCap
    /\ available = 0 /\ upstream = "up"
    /\ phase' = "tail"
    /\ UNCHANGED <<session, monitor, remote, toClient, fromClient, client>>

\* channel.read returns -1: the FIN is left to the pump.
ReadEof ==
    /\ phase = "loop"
    /\ staging < StagingCap
    /\ available = 0 /\ upstream = "eof"
    /\ upstreamEof' = TRUE
    /\ phase' = "pump"
    /\ UNCHANGED <<sendUnack, sendNext, clientWindow, staging, aborting, open, readOn,
                   writeOn, monitor, remote, toClient, fromClient, client>>

\* Faulty variant: a failing read is taken for the end of the stream.
ReadErrorAsEof ==
    /\ phase = "loop"
    /\ staging < StagingCap
    /\ upstream = "error"
    /\ upstreamEof' = TRUE
    /\ phase' = "pump"
    /\ UNCHANGED <<sendUnack, sendNext, clientWindow, staging, aborting, open, readOn,
                   writeOn, monitor, remote, toClient, fromClient, client>>

\* channel.read throws IOException.
ReadError ==
    /\ phase = "loop"
    /\ staging < StagingCap
    /\ upstream = "error"
    /\ aborting' = TRUE
    /\ phase' = "tail"
    /\ UNCHANGED <<sendUnack, sendNext, clientWindow, staging, upstreamEof, open, readOn,
                   writeOn, monitor, remote, toClient, fromClient, client>>

\* The end of SocketChannelReader.read: resubscribe, and close what aborted.
ReadTail ==
    /\ phase = "tail"
    /\ readOn' = (readOn \/ staging < StagingCap)
    /\ open' = ~aborting
    /\ monitor' = "none" /\ phase' = "idle"
    /\ UNCHANGED <<sendUnack, sendNext, clientWindow, staging, upstreamEof, aborting, writeOn,
                   remote, toClient, fromClient, client>>

\* The key is writable: processConnectedSelection subscribes to reads before
\* the pending upload is written; write closes a session that aborted.
NioWrite ==
    /\ NioIdle
    /\ writeOn
    /\ readOn' = TRUE /\ writeOn' = FALSE
    /\ open' = ~aborting
    /\ UNCHANGED <<sendUnack, sendNext, clientWindow, staging, upstreamEof, aborting,
                   thread, remote, toClient, fromClient, client>>

\* The pending write throws IOException: writeTCP resets the app's connection
\* (where the RST is placed, the app's TCP does not look at) and write closes.
NioWriteFail ==
    /\ NioIdle
    /\ writeOn
    /\ upstream = "error"
    /\ toClient' = Append(toClient, Segment("rst", sendUnack, 0))
    /\ aborting' = TRUE /\ open' = FALSE
    /\ readOn' = TRUE /\ writeOn' = FALSE
    /\ UNCHANGED <<sendUnack, sendNext, clientWindow, staging, upstreamEof,
                   thread, remote, fromClient, client>>

-----------------------------------------------------------------------------
(* The VPN thread: SessionHandler.handleTCPPacket on a packet with ACK. *)

\* acceptAck: rebuild the absolute acknowledgement from its 32-bit form.
AckAbs(p) == sendNext - ((sendNext - p.ack) % Mod)

\* Faulty variant: every acknowledgement is accepted.
acceptAnyAck(p) == sendUnack' = AckAbs(p)

acceptAck(p) ==
    sendUnack' = IF AckAbs(p) > sendUnack \/ AckAbs(p) = sendNext
                 THEN AckAbs(p) ELSE sendUnack

\* The packet the VPN thread has read from the TUN device.
Packet == Head(fromClient)

NextPacket ==
    /\ monitor = "none"
    /\ fromClient # <<>>
    /\ fromClient' = Tail(fromClient)

\* What every packet of a known session does first: take over its window.
KnownSession ==
    /\ NextPacket
    /\ open
    /\ clientWindow' = Packet.win * ScaleFactor

\* keepSessionAlive and pumpToClient, unless the session is aborting.
PumpUnlessAborting ==
    \/ aborting /\ UNCHANGED thread
    \/ ~aborting /\ monitor' = "vpn" /\ phase' = "pump"

\* Faulty variant: a pure ACK does not run the pump.
HandleAckNoPump ==
    /\ KnownSession
    /\ Packet.len = 0 /\ Packet.flag = "none"
    /\ acceptAck(Packet)
    /\ UNCHANGED <<sendNext, staging, upstreamEof, aborting, open, readOn, writeOn, thread,
                   remote, toClient, client>>

\* A pure ACK.
HandleAck ==
    /\ KnownSession
    /\ Packet.len = 0 /\ Packet.flag = "none"
    /\ acceptAck(Packet)
    /\ PumpUnlessAborting
    /\ UNCHANGED <<sendNext, staging, upstreamEof, aborting, open, readOn, writeOn,
                   remote, toClient, client>>

\* Client data is acknowledged and pushed; the acknowledgement number it
\* carries is not looked at.
HandleData ==
    /\ KnownSession
    /\ Packet.len > 0
    /\ toClient' = Append(toClient, Segment("ack", Packet.ack, 0))
    /\ writeOn' = TRUE
    /\ PumpUnlessAborting
    /\ UNCHANGED <<sendUnack, sendNext, staging, upstreamEof, aborting, open, readOn,
                   remote, client>>

\* FIN of the app: ackFinAck answers with FIN-ACK and closes the session.
HandleFin ==
    /\ KnownSession
    /\ Packet.flag = "fin"
    /\ acceptAck(Packet)
    /\ toClient' = Append(toClient, Segment("finack", Packet.ack, 0))
    /\ open' = FALSE /\ aborting' = TRUE
    /\ UNCHANGED <<sendNext, staging, upstreamEof, readOn, writeOn, thread,
                   remote, client>>

\* RST of the app: resetTCPConnection only marks the session.
HandleRst ==
    /\ KnownSession
    /\ Packet.flag = "rst"
    /\ acceptAck(Packet)
    /\ aborting' = TRUE
    /\ UNCHANGED <<sendNext, staging, upstreamEof, open, readOn, writeOn, thread,
                   remote, toClient, client>>

\* No session: a FIN gets its last ACK, anything but a RST gets a RST.
HandleUnknown ==
    /\ NextPacket
    /\ ~open
    /\ toClient' = CASE Packet.flag = "fin"  -> Append(toClient, Segment("ack", Packet.ack, 0))
                     [] Packet.flag = "none" -> Append(toClient, Segment("rst", Packet.ack, 0))
                     [] OTHER                -> toClient
    /\ UNCHANGED <<session, thread, remote, client>>

-----------------------------------------------------------------------------
(* The upstream host and its socket (external). *)

UpstreamSend ==
    /\ upstream = "up"
    /\ \E n \in 1 .. unsent : /\ unsent' = unsent - n
                              /\ available' = available + n
    /\ UNCHANGED <<session, thread, upstream, toClient, fromClient, client>>

UpstreamClose ==
    /\ upstream = "up"
    /\ unsent = 0
    /\ upstream' = "eof"
    /\ UNCHANGED <<session, thread, available, unsent, toClient, fromClient, client>>

UpstreamFail ==
    /\ UpstreamMayFail
    /\ upstream = "up"
    /\ upstream' = "error"
    /\ UNCHANGED <<session, thread, available, unsent, toClient, fromClient, client>>

-----------------------------------------------------------------------------
(* The app's TCP behind the TUN device (external): in-order delivery into a *)
(* receive buffer of BufCap bytes, whose right edge never moves back.       *)

Fits(s) == s.seq = rcvNxt % Mod /\ rcvNxt + s.len <= BufferEdge

ClientReceive ==
    /\ toClient # <<>> /\ app # "dead"
    /\ toClient' = Tail(toClient)
    /\ LET s     == Head(toClient)
           taken == s.kind \in {"synack", "data"} /\ Fits(s)
           fin   == s.kind \in {"fin", "finack"} /\ Fits(s)
       IN  /\ rcvNxt' = IF taken THEN rcvNxt + s.len ELSE rcvNxt
           /\ finRcvd' = (finRcvd \/ fin)
           /\ owesAck' = (owesAck \/ taken \/ fin)
           /\ app' = IF s.kind = "rst" THEN "dead" ELSE app
    /\ UNCHANGED <<session, thread, remote, fromClient, appRead, uploads>>

ClientPacket(flag, len) ==
    [flag |-> flag, ack |-> (IF finRcvd THEN rcvNxt + 1 ELSE rcvNxt) % Mod, abs |-> rcvNxt,
     win |-> WindowField, len |-> len]

\* The app's TCP puts a packet into the TUN device, its handshake done.
ClientSend(flag, len) ==
    /\ app # "dead" /\ rcvNxt >= First
    /\ Len(fromClient) < MaxQueued
    /\ fromClient' = Append(fromClient, ClientPacket(flag, len))
    /\ owesAck' = FALSE
    /\ UNCHANGED <<session, thread, remote, toClient, rcvNxt, appRead, finRcvd>>

ClientAck ==
    /\ owesAck
    /\ ClientSend("none", 0)
    /\ UNCHANGED <<app, uploads>>

ClientData ==
    /\ app = "open" /\ uploads < MaxUploads
    /\ ClientSend("none", 1)
    /\ uploads' = uploads + 1
    /\ UNCHANGED app

ClientClose ==
    /\ AppMayClose /\ app = "open"
    /\ ClientSend("fin", 0)
    /\ app' = "closed"
    /\ UNCHANGED uploads

ClientReset ==
    /\ AppMayClose
    /\ ClientSend("rst", 0)
    /\ app' = "dead"
    /\ UNCHANGED uploads

\* The app reads from its socket; the window update is due.  What the buffer
\* holds stays readable after the connection is gone.
AppRead ==
    /\ rcvNxt > First + appRead
    /\ \E n \in 1 .. (rcvNxt - First - appRead) : appRead' = appRead + n
    /\ owesAck' = TRUE
    /\ UNCHANGED <<session, thread, remote, toClient, fromClient, rcvNxt, finRcvd, app, uploads>>

-----------------------------------------------------------------------------
Pump    == PumpSegment \/ PumpFin \/ PumpEnd
Nio     == NioRead \/ ReadFull \/ ReadData \/ ReadNothing \/ ReadEof \/ ReadError
           \/ ReadTail \/ NioWrite \/ NioWriteFail
Handler == HandleAck \/ HandleData \/ HandleFin \/ HandleRst \/ HandleUnknown
Remote  == UpstreamSend \/ UpstreamClose \/ UpstreamFail
Client  == ClientReceive \/ ClientAck \/ ClientData \/ ClientClose \/ ClientReset \/ AppRead

Next == Pump \/ Nio \/ Handler \/ Remote \/ Client

Spec == Init /\ [][Next]_vars

-----------------------------------------------------------------------------
(* Fairness.  A thread that can take its next step inside the monitor does;  *)
(* the selector reports a ready key; the monitor is not withheld from the    *)
(* VPN thread for ever while the NIO thread takes it again and again; the    *)
(* kernel delivers packets; the app keeps reading and its TCP sends the ACKs *)
(* and window updates it owes.  Nothing is assumed of the upstream host.     *)
Fairness ==
    /\ WF_vars(Pump)
    /\ WF_vars(Nio)
    /\ SF_vars(Handler)
    /\ WF_vars(ClientReceive)
    /\ WF_vars(ClientAck)
    /\ WF_vars(AppRead)

FairSpec == Spec /\ Fairness

-----------------------------------------------------------------------------
(* Properties *)

TypeOK ==
    /\ sendUnack \in Nat /\ sendNext \in Nat /\ clientWindow \in Nat /\ staging \in Nat
    /\ upstreamEof \in BOOLEAN /\ aborting \in BOOLEAN
    /\ open \in BOOLEAN /\ readOn \in BOOLEAN /\ writeOn \in BOOLEAN
    /\ \/ monitor = "none" /\ phase = "idle"
       \/ monitor = "vpn" /\ phase = "pump"
       \/ monitor = "nio" /\ phase \in {"loop", "pump", "tail"}
    /\ available \in Nat /\ unsent \in Nat /\ upstream \in {"up", "eof", "error"}
    /\ toClient \in Seq(ToClient) /\ fromClient \in Seq(FromClient)
    /\ rcvNxt \in Nat /\ appRead \in Nat
    /\ finRcvd \in BOOLEAN /\ owesAck \in BOOLEAN
    /\ app \in {"open", "closed", "dead"} /\ uploads \in Nat

\* pumpToClient never sends a byte beyond the app's receive buffer, whatever
\* order reads, ACKs, window updates and piggybacked windows arrive in.  The
\* engine has no retransmission, so such a byte would be gone.
NoOverrun == sendNext <= BufferEdge

\* acceptAck's comment: the unacknowledged span is at most one window, so the
\* 32-bit acknowledgement determines the absolute one; and the session never
\* takes a byte for acknowledged that the app's TCP has not received.
AckReconstruction ==
    /\ sendUnack <= rcvNxt /\ rcvNxt <= sendNext
    /\ sendNext - sendUnack <= MaxField * ScaleFactor

\* The deferred FIN: when an app that has not closed sees the end of stream,
\* it has received every byte the upstream host sent before closing.
FinMeansComplete ==
    finRcvd /\ app = "open" => rcvNxt = First + TotalBytes

\* The staging buffer holds less than one read beyond STAGING_CAP.
StagingBounded == staging < StagingCap + ReadBuf

\* Nothing is stranded: between events, bytes stay staged only while the
\* window, as the session knows it, is used up.
NothingStranded ==
    monitor = "none" /\ open /\ ~aborting /\ staging > 0 => Room <= 0

-----------------------------------------------------------------------------
(* The inductive invariant behind NoOverrun, AckReconstruction and           *)
(* FinMeansComplete.                                                         *)

\* The largest window the app can advertise.
MaxWindow == MaxField * ScaleFactor

\* Once a session aborts, neither thread reads or pumps for it any more.
AbortInv == phase \in {"loop", "pump"} => ~aborting

\* The session's view of the window: what it may send fits the app's buffer,
\* and what is in flight is at most one window.
WindowInv ==
    /\ sendUnack <= rcvNxt /\ rcvNxt <= sendNext
    /\ sendNext - sendUnack <= MaxWindow
    /\ clientWindow <= MaxWindow
    /\ sendUnack + clientWindow <= BufferEdge
    /\ sendNext <= BufferEdge
    /\ First + appRead <= rcvNxt \/ (rcvNxt = Isn /\ appRead = 0)

\* Packets on their way to the app: each begins where the one before ended.
DownstreamInv ==
    /\ toClient = <<>> => rcvNxt = sendNext
    /\ toClient # <<>> => /\ toClient[1].abs = rcvNxt
                         /\ toClient[Len(toClient)].abs + toClient[Len(toClient)].len = sendNext
    /\ \A i \in 1 .. Len(toClient) - 1 :
          toClient[i + 1].abs = toClient[i].abs + toClient[i].len
    /\ \A i \in 1 .. Len(toClient) :
          LET s == toClient[i] IN
          /\ s.abs + s.len <= sendNext
          /\ s.kind \in {"synack", "data"} => s.seq = s.abs % Mod
          /\ s.kind \notin {"synack", "data"} => s.len = 0
          /\ s.kind \in {"fin", "finack"} => aborting /\ s.abs = sendNext
          /\ s.kind = "fin" => staging = 0 /\ upstreamEof
          /\ s.kind = "finack" => app # "open"

\* Packets on their way to the engine: in the order of their acknowledgements,
\* none of them older than the last one accepted, each with a window that ends
\* inside the app's buffer.
UpstreamInv ==
    /\ \A i, j \in 1 .. Len(fromClient) : i <= j => fromClient[i].abs <= fromClient[j].abs
    /\ \A i \in 1 .. Len(fromClient) :
          LET p == fromClient[i] IN
          /\ sendUnack <= p.abs /\ p.abs <= rcvNxt
          /\ p.abs + p.win * ScaleFactor <= BufferEdge
          /\ \/ p.ack = p.abs % Mod
             \/ p.ack = (p.abs + 1) % Mod /\ p.abs = sendNext /\ aborting
          /\ p.flag = "fin" => app # "open"

\* No byte of the stream is lost between the upstream socket and the app, and
\* the end of the stream is known only once nothing is left to read.
StreamInv ==
    /\ sendNext + staging + available + unsent = First + TotalBytes
    /\ upstreamEof => upstream = "eof"
    /\ upstream = "eof" => unsent = 0
    /\ upstreamEof => available = 0
    /\ finRcvd => aborting /\ rcvNxt = sendNext
    /\ finRcvd /\ app = "open" => staging = 0 /\ upstreamEof

DownloadInv ==
    TypeOK /\ AbortInv /\ WindowInv /\ DownstreamInv /\ UpstreamInv /\ StreamInv

-----------------------------------------------------------------------------
(* Refinement: the download path implements a byte pipe from the upstream    *)
(* host to the app.  The threads, the staging buffer, the windows and the    *)
(* TUN queues are hidden by the mapping.                                     *)

Pipe == INSTANCE BytePipe WITH
    Capacity <- BufCap,
    offered  <- TotalBytes - unsent,
    closed   <- upstream = "eof",
    arrived  <- IF rcvNxt < First THEN 0 ELSE rcvNxt - First,
    consumed <- appRead,
    end      <- IF app # "open" THEN "cut" ELSE IF finRcvd THEN "eof" ELSE "open"

\* Whatever the threads, windows and queues do, the app sees a reliable byte
\* pipe: every byte the upstream host sent, once and in order, none beyond the
\* app's buffer, and the end of the stream only behind the last of them.
ImplementsPipe == Pipe!Spec

-----------------------------------------------------------------------------
(* Liveness *)

\* Everything the upstream host sent before closing reaches an app that keeps
\* its side open, and so does the end of the stream: neither backpressure nor a
\* closed window stops a download for good.  Apps that send data meanwhile are
\* left to StagedEventuallySent.
EventuallyDelivered ==
    upstream = "eof" ~> \/ finRcvd /\ appRead = TotalBytes
                        \/ app # "open" \/ uploads > 0

=============================================================================
