---------------------------- MODULE TcpLifecycle ----------------------------
(***************************************************************************)
(* The life of the sessions of one TCP 5-tuple: created by a SYN in        *)
(* SessionHandler.replySynAck, connected by the NIO thread, and closed by  *)
(* whichever thread sees the end: the VPN thread (a FIN of the app) or the *)
(* NIO thread (end of the upstream stream, a socket error, or the flag     *)
(* abortingConnection that the other thread has set).                      *)
(*                                                                         *)
(* Two races are in it.  The VPN thread looks the session up in the table  *)
(* and then waits for its monitor; the NIO thread takes a selected key and *)
(* then waits for the monitor of the key's session.  What each finds inside*)
(* may have changed since.  A stay in the monitor is one action.           *)
(*                                                                         *)
(* Sequence numbers and bytes are left to TcpDownload and TcpUpload.  A    *)
(* packet carries the number of the app's connection it belongs to, which  *)
(* stands for its sequence numbers: the app's TCP tells by them a packet   *)
(* of an older connection, SessionHandler does not look.                   *)
(***************************************************************************)
EXTENDS Integers, Sequences

CONSTANTS
    MaxConns,       \* bound: connections the app opens on the 5-tuple
    MaxSessions,    \* bound: sessions created for it
    MaxQueued,      \* bound: packets under way when the app sends one by itself
    MaxPushes,      \* bound: data packets of the app
    ConnectMayFail, \* whether the upstream host may refuse the connection
    CreateMayFail,  \* whether createNewTCPSession may throw
    MayReset,       \* whether the app may reset a connection
    BareFin         \* whether a FIN may come without ACK

ASSUME LifecycleAssumption ==
    /\ \A n \in {MaxConns, MaxSessions, MaxQueued, MaxPushes} : n \in Nat
    /\ \A b \in {ConnectMayFail, CreateMayFail, MayReset, BareFin} : b \in BOOLEAN

VARIABLES
    table,      \* SessionManager.table at this 5-tuple: a session, or 0
    created,    \* sessions created so far
    channel,    \* of each session: "none", "connecting", "connected", "closed"
    selKey,     \* of each session: "none", "valid", "cancelled"
    connOf,     \* of each session: the app's connection it was created for
    aborting,   \* sessions with abortingConnection
    writing,    \* sessions with data ready to write, subscribed to OP_WRITE
    held,       \* sessions with staged data that the client's window holds back
    eofSeen,    \* sessions with upstreamEof
    net,        \* of each session: what its socket has to report
    vpn, nio,   \* the session each thread is about to enter, or 0
    fromClient, \* packets of the app in the TUN device; the head is handled
    toClient,   \* packets of the engine on their way to the app
    app, conn,  \* the app's TCP: its state, and its current connection
    pushes      \* data packets sent so far

sessions == <<channel, selKey, connOf, aborting, writing, held, eofSeen>>
client   == <<app, conn, pushes>>
vars     == <<table, created, sessions, net, vpn, nio, fromClient, toClient, client>>

Ids == 1 .. MaxSessions

Init ==
    /\ table = 0 /\ created = 0
    /\ channel = [s \in Ids |-> "none"] /\ selKey = [s \in Ids |-> "none"]
    /\ connOf = [s \in Ids |-> 0] /\ net = [s \in Ids |-> "pending"]
    /\ aborting = {} /\ writing = {} /\ held = {} /\ eofSeen = {}
    /\ vpn = 0 /\ nio = 0
    /\ fromClient = <<>> /\ toClient = <<>>
    /\ app = "closed" /\ conn = 0 /\ pushes = 0

-----------------------------------------------------------------------------
\* A packet of the engine for connection c.
Reply(kind, c) == toClient' = Append(toClient, [kind |-> kind, conn |-> c])

\* cancelKey and closeSession of session s: whatever the table holds under its
\* 5-tuple is removed and its channel closed, which cancels its key.
Close(s) ==
    /\ channel' = [t \in Ids |-> IF t \in {s, table} THEN "closed" ELSE channel[t]]
    /\ selKey' = [t \in Ids |-> IF t \in {s, table} /\ selKey[t] = "valid" THEN "cancelled"
                                ELSE selKey[t]]
    /\ table' = 0

\* pumpToClient for session s, when the window holds back what is in h: the
\* deferred FIN goes out with the last of the data, once.
PumpsFin(s, h) == s \in eofSeen /\ s \notin h /\ s \notin aborting

-----------------------------------------------------------------------------
(* The VPN thread: SessionHandler.handleTCPPacket. *)

Packet == Head(fromClient)

\* The thread takes the next packet of kind k.
Takes(k) == vpn = 0 /\ fromClient # <<>> /\ Packet.kind \in k

\* Packets with ACK that are handled in the monitor of their session.
WithAck == {"ack", "push", "fin", "rstack"}

\* Faulty variant: the table is not asked for an existing session.
HandleSynAlways ==
    /\ Takes({"syn"})
    /\ created < MaxSessions
    /\ created' = created + 1
    /\ table' = created + 1
    /\ \E c \in {"connecting", "connected"} : channel' = [channel EXCEPT ![created + 1] = c]
    /\ net' = [net EXCEPT ![created + 1] =
                  IF channel'[created + 1] = "connected" THEN "idle" ELSE "pending"]
    /\ selKey' = [selKey EXCEPT ![created + 1] = "valid"]
    /\ connOf' = [connOf EXCEPT ![created + 1] = Packet.conn]
    /\ Reply("synack", Packet.conn)
    /\ fromClient' = Tail(fromClient)
    /\ UNCHANGED <<aborting, writing, held, eofSeen, vpn, nio, client>>

\* replySynAck for a new session: the upstream connection is started, the
\* session goes into the table, is registered, and the SYN is answered.
HandleSyn ==
    /\ Takes({"syn"})
    /\ table = 0 /\ created < MaxSessions
    /\ created' = created + 1
    /\ table' = created + 1
    /\ \E c \in {"connecting", "connected"} : channel' = [channel EXCEPT ![created + 1] = c]
    /\ net' = [net EXCEPT ![created + 1] =
                  IF channel'[created + 1] = "connected" THEN "idle" ELSE "pending"]
    /\ selKey' = [selKey EXCEPT ![created + 1] = "valid"]
    /\ connOf' = [connOf EXCEPT ![created + 1] = Packet.conn]
    /\ Reply("synack", Packet.conn)
    /\ fromClient' = Tail(fromClient)
    /\ UNCHANGED <<aborting, writing, held, eofSeen, vpn, nio, client>>

\* createNewTCPSession throws before the session is in the table; its channel
\* stays open and the SYN is dropped.
HandleSynFails ==
    /\ CreateMayFail
    /\ Takes({"syn"})
    /\ table = 0 /\ created < MaxSessions
    /\ created' = created + 1
    /\ channel' = [channel EXCEPT ![created + 1] = "connecting"]
    /\ fromClient' = Tail(fromClient)
    /\ UNCHANGED <<table, selKey, connOf, aborting, writing, held, eofSeen, net, vpn, nio,
                   toClient, client>>

\* Faulty variant: the SYN is answered as if its session were new.
HandleSynAgain ==
    /\ Takes({"syn"})
    /\ table # 0
    /\ Reply("synack", Packet.conn)
    /\ fromClient' = Tail(fromClient)
    /\ UNCHANGED <<table, created, sessions, net, vpn, nio, client>>

\* replySynAck finds a session: resendAck, with that session's numbers.
HandleSynKnown ==
    /\ Takes({"syn"})
    /\ table # 0
    /\ Reply("ack", connOf[table])
    /\ fromClient' = Tail(fromClient)
    /\ UNCHANGED <<table, created, sessions, net, vpn, nio, client>>

\* getSessionByKey: a session is found, or the packet answered without one.
Lookup ==
    /\ Takes(WithAck \cup {"barefin"})
    /\ table # 0
    /\ vpn' = table
    /\ UNCHANGED <<table, created, sessions, net, nio, fromClient, toClient, client>>

HandleUnknown ==
    /\ Takes(WithAck \cup {"barefin"})
    /\ table = 0
    /\ CASE Packet.kind = "barefin"         -> Reply("finack", Packet.conn)
         [] Packet.kind = "fin"             -> Reply("lastack", Packet.conn)
         [] Packet.kind \in {"ack", "push"} -> Reply("rst", Packet.conn)
         [] OTHER                           -> UNCHANGED toClient
    /\ fromClient' = Tail(fromClient)
    /\ UNCHANGED <<table, created, sessions, net, vpn, nio, client>>

\* The VPN thread is in the monitor of session s with a packet of kind k.
Enters(s, k) ==
    /\ vpn = s /\ Packet.kind \in k
    /\ vpn' = 0
    /\ fromClient' = Tail(fromClient)
    /\ UNCHANGED <<created, connOf, eofSeen, net, nio, client>>

\* Faulty variant: the flag is not asked.
KeepAliveAlways(s, flagged) == table' = s

\* keepSessionAlive at the end, unless the session is one of the aborting.
KeepAlive(s, flagged) == table' = IF s \in flagged THEN table ELSE s

\* ACK or data.  PSH subscribes to OP_WRITE.  Unless it is aborting, the session
\* is put into the table and pumped: the ACK may have opened the window, and
\* then the deferred FIN goes out.
HandleAck(s) ==
    /\ Enters(s, {"ack", "push"})
    /\ writing' = IF Packet.kind = "push" /\ selKey[s] = "valid" THEN writing \cup {s}
                  ELSE writing
    /\ KeepAlive(s, aborting)
    /\ held' \in IF s \in aborting THEN {held} ELSE {held, held \ {s}}
    /\ IF PumpsFin(s, held')
       THEN aborting' = aborting \cup {s} /\ Reply("fin", connOf[s])
       ELSE UNCHANGED <<aborting, toClient>>
    /\ UNCHANGED <<channel, selKey>>

\* Faulty variant: the session is marked and left for the NIO thread to close.
HandleFinKept(s) ==
    /\ Enters(s, {"fin"})
    /\ Reply("finack", Packet.conn)
    /\ aborting' = aborting \cup {s}
    /\ UNCHANGED <<table, channel, selKey, writing, held>>

\* FIN: ackFinAck answers, closes the session and marks it.
HandleFin(s) ==
    /\ Enters(s, {"fin"})
    /\ Reply("finack", Packet.conn)
    /\ Close(s)
    /\ aborting' = aborting \cup {s}
    /\ UNCHANGED <<writing, held>>

\* RST: resetTCPConnection marks the session the table holds now.
HandleRst(s) ==
    /\ Enters(s, {"rstack"})
    /\ aborting' = aborting \cup ({table} \ {0})
    /\ KeepAlive(s, aborting')
    /\ UNCHANGED <<channel, selKey, writing, held, toClient>>

\* RST without ACK.
HandleBareRst ==
    /\ Takes({"rst"})
    /\ aborting' = aborting \cup ({table} \ {0})
    /\ fromClient' = Tail(fromClient)
    /\ UNCHANGED <<table, created, channel, selKey, connOf, writing, held, eofSeen, net, vpn,
                   nio, toClient, client>>

\* FIN without ACK: the session is kept alive, outside its monitor.
HandleBareFin(s) ==
    /\ Enters(s, {"barefin"})
    /\ table' = s
    /\ UNCHANGED <<channel, selKey, aborting, writing, held, toClient>>

-----------------------------------------------------------------------------
(* The NIO thread: runTask, processSelectionKey. *)

Readable(s) == channel[s] = "connected" /\ net[s] \in {"data", "eof", "error"}
Writable(s) == channel[s] = "connected" /\ s \in writing

\* select() has returned the key of s; its monitor is waited for.
NioTakes(s) ==
    /\ nio = 0 /\ selKey[s] = "valid"
    /\ Readable(s) \/ Writable(s) \/ (channel[s] = "connecting" /\ net[s] # "pending")
    /\ nio' = s
    /\ UNCHANGED <<table, created, sessions, net, vpn, fromClient, toClient, client>>

\* The key was cancelled in the meantime.
NioSkips ==
    /\ nio # 0 /\ selKey[nio] # "valid"
    /\ nio' = 0
    /\ UNCHANGED <<table, created, sessions, net, vpn, fromClient, toClient, client>>

\* The NIO thread is in the monitor of s and its key is valid.
Serves(s) ==
    /\ nio = s /\ selKey[s] = "valid"
    /\ nio' = 0
    /\ UNCHANGED <<created, connOf, vpn, fromClient, client>>

\* finishConnect: connected.
NioConnects(s) ==
    /\ Serves(s)
    /\ channel[s] = "connecting" /\ net[s] \notin {"pending", "refused"}
    /\ channel' = [channel EXCEPT ![s] = "connected"]
    /\ UNCHANGED <<table, selKey, aborting, writing, held, eofSeen, net, toClient>>

\* finishConnect throws, which closes the channel; runTask cancels the key.
NioRefused(s) ==
    /\ Serves(s)
    /\ channel[s] = "connecting" /\ net[s] = "refused"
    /\ channel' = [channel EXCEPT ![s] = "closed"]
    /\ selKey' = [selKey EXCEPT ![s] = "cancelled"]
    /\ UNCHANGED <<table, aborting, writing, held, eofSeen, net, toClient>>

\* read: data, of which the client's window may hold back a part.
NioData(s) ==
    /\ Serves(s)
    /\ Readable(s) /\ net[s] = "data" /\ s \notin aborting
    /\ net' = [net EXCEPT ![s] = "idle"]
    /\ held' \in {held, held \cup {s}}
    /\ UNCHANGED <<table, channel, selKey, aborting, writing, eofSeen, toClient>>

\* read: end of stream with data still held back; the FIN is deferred.
NioEofDeferred(s) ==
    /\ Serves(s)
    /\ Readable(s) /\ net[s] = "eof" /\ s \notin aborting
    /\ s \in held
    /\ eofSeen' = eofSeen \cup {s}
    /\ UNCHANGED <<table, channel, selKey, aborting, writing, held, net, toClient>>

\* read: end of stream, nothing held back: FIN, and the session is closed.
NioEof(s) ==
    /\ Serves(s)
    /\ Readable(s) /\ net[s] = "eof" /\ s \notin aborting
    /\ s \notin held
    /\ eofSeen' = eofSeen \cup {s}
    /\ Reply("fin", connOf[s])
    /\ aborting' = aborting \cup {s}
    /\ Close(s)
    /\ UNCHANGED <<writing, held, net>>

\* read: IOException; the session is closed and the app not told.
NioReadFails(s) ==
    /\ Serves(s)
    /\ Readable(s) /\ net[s] = "error" /\ s \notin aborting
    /\ aborting' = aborting \cup {s}
    /\ Close(s)
    /\ UNCHANGED <<writing, held, eofSeen, net, toClient>>

\* read of an aborting session: it is closed.
NioAborts(s) ==
    /\ Serves(s)
    /\ Readable(s) /\ s \in aborting
    /\ Close(s)
    /\ UNCHANGED <<aborting, writing, held, eofSeen, net, toClient>>

\* write: done; an aborting session is closed.
NioWrites(s) ==
    /\ Serves(s)
    /\ Writable(s) /\ net[s] # "error"
    /\ writing' = writing \ {s}
    /\ IF s \in aborting THEN Close(s) ELSE UNCHANGED <<table, channel, selKey>>
    /\ UNCHANGED <<aborting, held, eofSeen, net, toClient>>

\* write: IOException; RST to the app, and the session is closed.
NioWriteFails(s) ==
    /\ Serves(s)
    /\ Writable(s) /\ net[s] = "error"
    /\ writing' = writing \ {s}
    /\ Reply("rst", connOf[s])
    /\ aborting' = aborting \cup {s}
    /\ Close(s)
    /\ UNCHANGED <<held, eofSeen, net>>

-----------------------------------------------------------------------------
(* The upstream host (external). *)

UpstreamAnswers(s) ==
    /\ channel[s] = "connecting" /\ net[s] = "pending"
    /\ net' = [net EXCEPT ![s] = "idle"]
    /\ UNCHANGED <<table, created, sessions, vpn, nio, fromClient, toClient, client>>

UpstreamRefuses(s) ==
    /\ ConnectMayFail
    /\ channel[s] = "connecting" /\ net[s] = "pending"
    /\ net' = [net EXCEPT ![s] = "refused"]
    /\ UNCHANGED <<table, created, sessions, vpn, nio, fromClient, toClient, client>>

UpstreamSends(s) ==
    /\ channel[s] # "closed" /\ net[s] = "idle"
    /\ \E n \in {"data", "eof", "error"} : net' = [net EXCEPT ![s] = n]
    /\ UNCHANGED <<table, created, sessions, vpn, nio, fromClient, toClient, client>>

-----------------------------------------------------------------------------
(* The app's TCP behind the TUN device (external). *)

\* A packet of connection c the app's TCP sends by itself.
AppSends(kind, c) ==
    /\ Len(fromClient) + Len(toClient) < MaxQueued
    /\ fromClient' = Append(fromClient, [kind |-> kind, conn |-> c])
    /\ UNCHANGED <<table, created, sessions, net, vpn, nio, toClient>>

AppConnect ==
    /\ app = "closed" /\ conn < MaxConns
    /\ AppSends("syn", conn + 1)
    /\ conn' = conn + 1 /\ app' = "synSent"
    /\ UNCHANGED pushes

\* The retransmission timer of the SYN or the FIN.
AppResend ==
    /\ \/ app = "synSent" /\ AppSends("syn", conn)
       \/ app = "finSent" /\ AppSends("fin", conn)
    /\ UNCHANGED client

\* An acknowledgement of data, or a window update.
AppAck ==
    /\ app = "open"
    /\ AppSends("ack", conn)
    /\ UNCHANGED client

AppPush ==
    /\ app = "open" /\ pushes < MaxPushes
    /\ AppSends("push", conn)
    /\ pushes' = pushes + 1
    /\ UNCHANGED <<app, conn>>

AppFin ==
    /\ app = "open"
    /\ AppSends("fin", conn) \/ (BareFin /\ AppSends("barefin", conn))
    /\ app' = "finSent"
    /\ UNCHANGED <<conn, pushes>>

AppReset ==
    /\ MayReset /\ app \in {"open", "finSent"}
    /\ AppSends("rstack", conn)
    /\ app' = "closed"
    /\ UNCHANGED <<conn, pushes>>

\* What the app's TCP answers to packet m: it acknowledges a SYN-ACK or FIN of
\* its connection and resets what it does not expect.
Answer(m) ==
    CASE app = "synSent" /\ m.kind = "ack" -> <<[kind |-> "rst", conn |-> conn]>>
      [] app = "closed" /\ m.kind = "synack" /\ m.conn = conn -> <<[kind |-> "rst", conn |-> conn]>>
      [] app # "closed" /\ m.kind \in {"synack", "fin"} /\ m.conn = conn ->
            <<[kind |-> "ack", conn |-> conn]>>
      [] OTHER -> <<>>

AppReceive ==
    /\ toClient # <<>>
    /\ toClient' = Tail(toClient)
    /\ LET m == Head(toClient)
       IN  /\ fromClient' = fromClient \o Answer(m)
           /\ app' = IF m.conn # conn THEN app ELSE
                     CASE app = "synSent" /\ m.kind = "synack" -> "open"
                       [] app = "finSent" /\ m.kind \in {"finack", "lastack"} -> "closed"
                       [] m.kind = "rst" -> "closed"
                       [] OTHER -> app
    /\ UNCHANGED <<table, created, sessions, net, vpn, nio, conn, pushes>>

-----------------------------------------------------------------------------
Vpn == HandleSyn \/ HandleSynFails \/ HandleSynKnown \/ Lookup \/ HandleUnknown \/ HandleBareRst
       \/ \E s \in Ids : HandleAck(s) \/ HandleFin(s) \/ HandleRst(s)
                         \/ HandleBareFin(s)

NioServes(s) == NioConnects(s) \/ NioRefused(s) \/ NioData(s) \/ NioEofDeferred(s) \/ NioEof(s)
                \/ NioReadFails(s) \/ NioAborts(s) \/ NioWrites(s) \/ NioWriteFails(s)

Upstream(s) == UpstreamAnswers(s) \/ UpstreamRefuses(s) \/ UpstreamSends(s)

App == AppConnect \/ AppResend \/ AppAck \/ AppPush \/ AppFin \/ AppReset \/ AppReceive

Next == Vpn \/ NioSkips \/ App
        \/ \E s \in Ids : NioTakes(s) \/ NioServes(s) \/ Upstream(s)

Spec == Init /\ [][Next]_vars

(* Fairness: each thread finishes what it has begun and the VPN thread       *)
(* handles what the TUN device holds; every key that stays ready is selected *)
(* (selectedKeys is gone through to its end); packets reach the app's TCP,   *)
(* which sends a SYN or FIN again until it is answered.                      *)
FairSpec ==
    /\ Spec
    /\ WF_vars(Vpn) /\ WF_vars(NioSkips) /\ WF_vars(AppReceive) /\ SF_vars(AppResend)
    /\ \A s \in Ids : SF_vars(NioTakes(s)) /\ WF_vars(NioServes(s))

-----------------------------------------------------------------------------
(* Properties *)

OfApp    == [kind : WithAck \cup {"syn", "rst", "barefin"}, conn : 0 .. MaxConns]
OfEngine == [kind : {"synack", "ack", "finack", "lastack", "fin", "rst"}, conn : 0 .. MaxConns]

TypeOK ==
    /\ table \in Ids \cup {0} /\ created \in Ids \cup {0}
    /\ channel \in [Ids -> {"none", "connecting", "connected", "closed"}]
    /\ selKey \in [Ids -> {"none", "valid", "cancelled"}]
    /\ connOf \in [Ids -> 0 .. MaxConns]
    /\ net \in [Ids -> {"pending", "refused", "idle", "data", "eof", "error"}]
    /\ aborting \subseteq Ids /\ writing \subseteq Ids /\ held \subseteq Ids /\ eofSeen \subseteq Ids
    /\ vpn \in Ids \cup {0} /\ (vpn # 0 => fromClient # <<>>)
    /\ nio \in Ids \cup {0}
    /\ fromClient \in Seq(OfApp) /\ toClient \in Seq(OfEngine)
    /\ app \in {"closed", "synSent", "open", "finSent"}
    /\ conn \in 0 .. MaxConns /\ pushes \in 0 .. MaxPushes

\* One upstream connection per 5-tuple, and none that is out of reach: a
\* session the NIO thread serves is the one the table leads to.  closeSession
\* goes by the 5-tuple, so a late close of an older session would break it.
LiveIsTabled == \A s \in Ids : selKey[s] = "valid" => table = s

\* ackFinAck's comment: a closed session is not put into the table again as a
\* dead-channel zombie, which would block the reuse of the client port.
NoZombie == table # 0 => channel[table] # "closed"

\* replySynAck's comment: a SYN for an existing session is rejected.  A
\* connection the app holds open is never carried by the upstream connection
\* of an earlier one on the same port.
NeverCrossed == app = "open" /\ table # 0 => connOf[table] = conn

\* A connect of the app comes to an end: its port is not blocked by what the
\* engine remembers of an earlier connection (or the bound on sessions is met).
ConnectSettles == app = "synSent" ~> app # "synSent" \/ created = MaxSessions

=============================================================================
