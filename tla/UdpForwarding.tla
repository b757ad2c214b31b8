--------------------------- MODULE UdpForwarding ---------------------------
(***************************************************************************)
(* The datagrams of one UDP 5-tuple, from SessionHandler.handleUDPPacket   *)
(* through SessionManager's table and the Session's datagram queue to the  *)
(* upstream socket, and the answers back.                                  *)
(*                                                                         *)
(* The VPN thread looks the session up (or creates it) outside any lock,   *)
(* queues the datagram in the session's monitor, and puts the session into *)
(* the table again after it has left the monitor.  Each event of the NIO   *)
(* thread is one stay in the monitor: the only thing in it that the other  *)
(* thread can see from outside is the one change of the table.             *)
(*                                                                         *)
(* An event that sets abortingConnection also closes the session, so the   *)
(* flag is not kept apart from the state of the channel.  A datagram is    *)
(* queued and subscribed for in one stay in the monitor, so                *)
(* processPendingWrite's early return for an empty queue finds nothing to  *)
(* unsubscribe.                                                            *)
(***************************************************************************)
EXTENDS Integers, Sequences, FiniteSets

CONSTANTS
    MaxSessions,    \* bound: sessions created for the 5-tuple
    MaxDatagrams,   \* bound: datagrams the app sends
    MaxReplies,     \* bound: datagrams the upstream host sends
    UpstreamMayFail,\* whether the socket may report an error
    CreateMayFail   \* whether createNewUDPSession may throw

ASSUME UdpAssumption ==
    /\ MaxSessions \in Nat /\ MaxDatagrams \in Nat /\ MaxReplies \in Nat
    /\ UpstreamMayFail \in BOOLEAN /\ CreateMayFail \in BOOLEAN

VARIABLES
    table,      \* SessionManager.table at this 5-tuple: a session, or 0
    created,    \* sessions created so far
    channel,    \* of each session: "none", "open" or "closed"
    selKey,     \* of each session: "none", "valid" or "cancelled"
    writeOn,    \* sessions subscribed to OP_WRITE
    datagrams,  \* of each session: sendingDatagrams
    inbox,      \* of each session: answers in its socket, "fits" or "oversize"
    failing,    \* sessions whose socket has an error to report
    vpn,        \* where the VPN thread is: "idle", "enter" or "keep"
    current,    \* the session it has looked up
    isNew,      \* newSession
    received,   \* datagrams read from the TUN device; the last is under way
    written,    \* datagrams the upstream socket has taken
    replies,    \* answers the upstream host has sent
    delivered   \* answers handed to the TUN device

sessions == <<channel, selKey, writeOn, datagrams, inbox, failing>>
thread   == <<vpn, current, isNew>>
vars     == <<table, created, sessions, thread, received, written, replies, delivered>>

Ids == 1 .. MaxSessions

Init ==
    /\ table = 0 /\ created = 0
    /\ channel = [s \in Ids |-> "none"] /\ selKey = [s \in Ids |-> "none"]
    /\ writeOn = {} /\ failing = {}
    /\ datagrams = [s \in Ids |-> <<>>] /\ inbox = [s \in Ids |-> <<>>]
    /\ vpn = "idle" /\ current = 0 /\ isNew = FALSE
    /\ received = 0 /\ written = <<>> /\ replies = 0 /\ delivered = 0

-----------------------------------------------------------------------------
(* The VPN thread: handleUDPPacket. *)

NextDatagram ==
    /\ vpn = "idle" /\ received < MaxDatagrams
    /\ received' = received + 1
    /\ UNCHANGED <<selKey, writeOn, datagrams, inbox, failing, written, replies, delivered>>

\* getSession finds the session of the 5-tuple.
Lookup ==
    /\ NextDatagram
    /\ table # 0
    /\ current' = table /\ isNew' = FALSE /\ vpn' = "enter"
    /\ UNCHANGED <<table, created, channel>>

\* Faulty variant: the table is not consulted.
CreateAlways ==
    /\ NextDatagram
    /\ created < MaxSessions
    /\ created' = created + 1
    /\ channel' = [channel EXCEPT ![created + 1] = "open"]
    /\ table' = created + 1
    /\ current' = created + 1 /\ isNew' = TRUE /\ vpn' = "enter"

\* createNewUDPSession: a connected channel, and the session in the table.
Create ==
    /\ NextDatagram
    /\ table = 0 /\ created < MaxSessions
    /\ created' = created + 1
    /\ channel' = [channel EXCEPT ![created + 1] = "open"]
    /\ table' = created + 1
    /\ current' = created + 1 /\ isNew' = TRUE /\ vpn' = "enter"

\* createNewUDPSession throws: at connect, before the session is in the table,
\* or at insertFlow, after it.  The datagram is dropped in VPNRunnable's catch.
CreateFail ==
    /\ CreateMayFail
    /\ NextDatagram
    /\ table = 0 /\ created < MaxSessions
    /\ created' = created + 1
    /\ channel' = [channel EXCEPT ![created + 1] = "open"]
    /\ table' \in {0, created + 1}
    /\ UNCHANGED thread

\* synchronized (session): queue the datagram, register a new session, and
\* subscribe to OP_WRITE (subscribeKey ignores a key that is not valid).
Enter ==
    /\ vpn = "enter"
    /\ isNew \/ selKey[current] # "none"
    /\ datagrams' = [datagrams EXCEPT ![current] = Append(@, received)]
    /\ selKey' = [selKey EXCEPT ![current] = IF isNew THEN "valid" ELSE @]
    /\ writeOn' = IF selKey'[current] = "valid" THEN writeOn \cup {current} ELSE writeOn
    /\ vpn' = "keep"
    /\ UNCHANGED <<table, created, channel, inbox, failing, current, isNew, received, written,
                   replies, delivered>>

\* The same for a session whose creation failed half way: it has no key, and
\* subscribeKey throws.
EnterWithoutKey ==
    /\ vpn = "enter"
    /\ ~isNew /\ selKey[current] = "none"
    /\ datagrams' = [datagrams EXCEPT ![current] = Append(@, received)]
    /\ vpn' = "idle"
    /\ UNCHANGED <<table, created, channel, selKey, writeOn, inbox, failing, current, isNew,
                   received, written, replies, delivered>>

\* keepSessionAlive, outside the monitor.
KeepAlive ==
    /\ vpn = "keep"
    /\ table' = current
    /\ vpn' = "idle"
    /\ UNCHANGED <<created, sessions, current, isNew, received, written, replies, delivered>>

-----------------------------------------------------------------------------
(* The NIO thread. *)

\* cancelKey, close and closeSession of an aborted session s: whatever is in
\* the table under its 5-tuple is removed and its channel closed.
Close(s) ==
    /\ channel' = [t \in Ids |-> IF t \in {s, table} THEN "closed" ELSE channel[t]]
    /\ selKey' = [t \in Ids |-> IF t \in {s, table} /\ selKey[t] = "valid" THEN "cancelled"
                                ELSE selKey[t]]
    /\ writeOn' = writeOn \ {s, table}
    /\ table' = 0

Writable(s) == selKey[s] = "valid" /\ s \in writeOn

\* Faulty variant: the key is not subscribed again while datagrams remain.
NioSendOnce(s) ==
    /\ Writable(s)
    /\ s \notin failing /\ datagrams[s] # <<>>
    /\ written' = Append(written, Head(datagrams[s]))
    /\ datagrams' = [datagrams EXCEPT ![s] = Tail(@)]
    /\ writeOn' = writeOn \ {s}
    /\ UNCHANGED <<table, created, channel, selKey, inbox, failing, thread, received, replies,
                   delivered>>

\* writePendingUDPData: one datagram is written; subscribed while more remain.
NioSend(s) ==
    /\ Writable(s)
    /\ s \notin failing /\ datagrams[s] # <<>>
    /\ written' = Append(written, Head(datagrams[s]))
    /\ datagrams' = [datagrams EXCEPT ![s] = Tail(@)]
    /\ writeOn' = IF Len(datagrams[s]) = 1 THEN writeOn \ {s} ELSE writeOn
    /\ UNCHANGED <<table, created, channel, selKey, inbox, failing, thread, received, replies,
                   delivered>>

\* Faulty variant: the datagram goes to the end of the queue.
requeueLast(s) == Append(Tail(datagrams[s]), Head(datagrams[s]))

\* requeueSendingDatagram: the polled datagram is put back at the head.
requeueFirst(s) == <<Head(datagrams[s])>> \o Tail(datagrams[s])

\* The socket's buffer is full: the datagram is put back.
NioSendFull(s) ==
    /\ Writable(s)
    /\ s \notin failing /\ datagrams[s] # <<>>
    /\ datagrams' = [datagrams EXCEPT ![s] = requeueFirst(s)]
    /\ UNCHANGED <<table, created, channel, selKey, writeOn, inbox, failing, thread, received,
                   written, replies, delivered>>

\* readUDP: everything in the socket is read; what exceeds the MTU is dropped.
NioRead(s) ==
    /\ selKey[s] = "valid"
    /\ s \notin failing /\ inbox[s] # <<>>
    /\ delivered' = delivered + Cardinality({i \in 1 .. Len(inbox[s]) : inbox[s][i] = "fits"})
    /\ inbox' = [inbox EXCEPT ![s] = <<>>]
    /\ UNCHANGED <<table, created, channel, selKey, writeOn, datagrams, failing, thread, received,
                   written, replies>>

\* A read or write throws IOException, the write with its datagram polled.
NioFail(s) ==
    /\ selKey[s] = "valid"
    /\ s \in failing
    /\ Close(s)
    /\ datagrams' \in {datagrams, [datagrams EXCEPT ![s] = IF @ = <<>> THEN @ ELSE Tail(@)]}
    /\ UNCHANGED <<created, inbox, failing, thread, received, written, replies, delivered>>

-----------------------------------------------------------------------------
(* The upstream host and the socket (external). *)

UpstreamReply(s) ==
    /\ channel[s] = "open" /\ replies < MaxReplies
    /\ \E r \in {"fits", "oversize"} : inbox' = [inbox EXCEPT ![s] = Append(@, r)]
    /\ replies' = replies + 1
    /\ UNCHANGED <<table, created, channel, selKey, writeOn, datagrams, failing, thread, received,
                   written, delivered>>

\* An ICMP error for a datagram sent before.
UpstreamFail(s) ==
    /\ UpstreamMayFail
    /\ channel[s] = "open" /\ written # <<>>
    /\ failing' = failing \cup {s}
    /\ UNCHANGED <<table, created, channel, selKey, writeOn, datagrams, inbox, thread, received,
                   written, replies, delivered>>

-----------------------------------------------------------------------------
Handler == Lookup \/ Create \/ CreateFail \/ Enter \/ EnterWithoutKey \/ KeepAlive

Nio(s) == NioSend(s) \/ NioSendFull(s) \/ NioRead(s) \/ NioFail(s)

Next == Handler \/ \E s \in Ids : Nio(s) \/ UpstreamReply(s) \/ UpstreamFail(s)

Spec == Init /\ [][Next]_vars

(* Fairness: the selector reports a key that is ready, and a socket whose    *)
(* buffer is full empties it: one that is writable again and again takes a   *)
(* datagram.  Nothing is assumed of the VPN thread.                          *)
FairSpec ==
    /\ Spec
    /\ \A s \in Ids : SF_vars(NioSend(s)) /\ WF_vars(NioFail(s))

-----------------------------------------------------------------------------
(* Properties *)

TypeOK ==
    /\ table \in Ids \cup {0} /\ created \in Ids \cup {0}
    /\ channel \in [Ids -> {"none", "open", "closed"}]
    /\ selKey \in [Ids -> {"none", "valid", "cancelled"}]
    /\ writeOn \subseteq {s \in Ids : selKey[s] = "valid"} /\ failing \subseteq Ids
    /\ datagrams \in [Ids -> Seq(1 .. MaxDatagrams)]
    /\ inbox \in [Ids -> Seq({"fits", "oversize"})]
    /\ vpn \in {"idle", "enter", "keep"} /\ isNew \in BOOLEAN
    /\ current \in Ids \cup {0} /\ (vpn # "idle" => current # 0 /\ received > 0)
    /\ received \in 0 .. MaxDatagrams /\ written \in Seq(1 .. MaxDatagrams)
    /\ replies \in 0 .. MaxReplies /\ delivered \in Nat

\* writePendingUDPData's comment: message boundaries are preserved.  The
\* upstream host gets each datagram at most once and in the app's order, over
\* full socket buffers, failures and the sessions that follow them.
WrittenInOrder ==
    \A i, j \in 1 .. Len(written) : i < j => written[i] < written[j]

\* One upstream socket per 5-tuple: a session the NIO thread still serves is
\* the one the table leads to, so the app's datagrams are not split over two
\* source ports and no socket is left that nothing can close.
LiveIsTabled == \A s \in Ids : selKey[s] = "valid" => table = s

\* Every datagram that is queued in a session the NIO thread serves is written
\* upstream, unless an error closes the session.
QueuedIsWritten ==
    \A s \in Ids, d \in 1 .. MaxDatagrams :
        selKey[s] = "valid" /\ (\E i \in DOMAIN datagrams[s] : datagrams[s][i] = d)
          ~> selKey[s] # "valid" \/ (\E i \in DOMAIN written : written[i] = d)
=============================================================================
