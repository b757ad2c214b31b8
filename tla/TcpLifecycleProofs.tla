------------------------- MODULE TcpLifecycleProofs -------------------------
(***************************************************************************)
(* TcpLifecycle proved for any number of connections, sessions and packets *)
(* under way: one live session per 5-tuple, no closed session in the table *)
(* and no connection carried by an earlier one's session.                  *)
(***************************************************************************)
EXTENDS TcpLifecycle, SequenceTheorems, TLAPS

(* One live session. *)

\* The session the VPN thread waits to enter is the only one that can be live
\* meanwhile: what keepSessionAlive puts back cannot displace a live one.
LiveIsEntered == vpn # 0 => \A s \in Ids : selKey[s] = "valid" => s = vpn

OneLive == LiveIsTabled /\ LiveIsEntered

(* No closed session in the table. *)

\* While the VPN thread waits, the table can only lose its session.
TabledIsEntered == vpn # 0 => table \in {0, vpn}

\* Whoever closes a session has marked it, so that keepSessionAlive passes it by.
ClosedIsAborting == \A s \in Ids : channel[s] = "closed" => s \in aborting

\* No connection is refused and no FIN comes without ACK.
NoneRefused == \A s \in Ids : net[s] # "refused"
NoBareFin   == \A i \in 1 .. Len(fromClient) : fromClient[i].kind # "barefin"

Unclosed == TabledIsEntered /\ ClosedIsAborting /\ NoneRefused /\ NoBareFin /\ NoZombie

(* No crossed connections. *)

\* A queue of packets: none is of a connection after c; its SYNs are in the
\* order of their connections; all of them are of c; one is the SYN-ACK of c.
UpTo(q, c)       == \A i \in 1 .. Len(q) : q[i].conn <= c
Ordered(q)       == \A i, j \in 1 .. Len(q) :
                        i < j /\ q[i].kind = "syn" /\ q[j].kind = "syn" => q[i].conn <= q[j].conn
OnlySynsOf(q, c) == \A i \in 1 .. Len(q) : q[i].kind = "syn" => q[i].conn = c
HasSynAck(q, c)  == \E i \in 1 .. Len(q) : q[i].kind = "synack" /\ q[i].conn = c

\* Nothing is of a connection the app has not opened yet, and the SYNs in the
\* TUN device are in order.
NothingAhead ==
    /\ UpTo(fromClient, conn) /\ UpTo(toClient, conn) /\ \A s \in Ids : connOf[s] <= conn
    /\ Ordered(fromClient)

\* Once the app's present connection has been answered (it is open, or will be),
\* neither the table nor the VPN thread holds a session of an earlier one, and
\* no SYN is left that could create it.
CarriesPresent ==
    app = "open" \/ HasSynAck(toClient, conn) =>
        /\ table # 0 => connOf[table] = conn
        /\ vpn # 0 => connOf[vpn] = conn
        /\ OnlySynsOf(fromClient, conn)

Uncrossed == NothingAhead /\ CarriesPresent

-----------------------------------------------------------------------------
(* Types. *)

\* The session that is created next is one of the sessions.
LEMMA NextId == ASSUME TypeOK, created < MaxSessions PROVE created + 1 \in Ids
<1>1. MaxSessions \in Nat
  BY LifecycleAssumption
<1>2. created \in Ids \cup {0}
  BY DEF TypeOK
<1> QED
  BY <1>1, <1>2, SMT DEF Ids

\* The packet at the head of the queue, and what is left behind it.
LEMMA PacketTyped ==
    ASSUME TypeOK, fromClient # <<>>
    PROVE  Packet \in OfApp /\ Tail(fromClient) \in Seq(OfApp)
BY DEF TypeOK, Packet

\* An answer of the engine is a packet for the app.
LEMMA ReplyTyped ==
    ASSUME TypeOK, NEW k \in {"synack", "ack", "finack", "lastack", "fin", "rst"},
           NEW c \in 0 .. MaxConns, Reply(k, c)
    PROVE  toClient' \in Seq(OfEngine)
<1>1. [kind |-> k, conn |-> c] \in OfEngine
  BY DEF OfEngine
<1> QED
  BY <1>1 DEF Reply, TypeOK

\* Closing keeps the types of what it changes.
LEMMA CloseTyped ==
    ASSUME TypeOK, NEW s \in Ids, Close(s)
    PROVE  /\ table' \in Ids \cup {0}
           /\ channel' \in [Ids -> {"none", "connecting", "connected", "closed"}]
           /\ selKey' \in [Ids -> {"none", "valid", "cancelled"}]
BY DEF Close, TypeOK

\* The VPN thread keeps the types.
LEMMA VpnTypes == ASSUME TypeOK, Vpn PROVE TypeOK'
<1> USE LifecycleAssumption
<1>1. CASE HandleSyn
  <2>1. fromClient # <<>> /\ vpn = 0
    BY <1>1 DEF HandleSyn, Takes
  <2>2. Packet \in OfApp /\ Tail(fromClient) \in Seq(OfApp)
    BY <2>1, PacketTyped
  <2>3. Packet.conn \in 0 .. MaxConns
    BY <2>2 DEF OfApp
  <2>4. toClient' \in Seq(OfEngine)
    BY <1>1, <2>3, ReplyTyped DEF HandleSyn
  <2>5. created + 1 \in Ids
    BY <1>1, NextId DEF HandleSyn
  <2>6. channel' \in [Ids -> {"none", "connecting", "connected", "closed"}]
    BY <1>1 DEF HandleSyn, TypeOK
  <2>7. /\ net' \in [Ids -> {"pending", "refused", "idle", "data", "eof", "error"}]
        /\ selKey' \in [Ids -> {"none", "valid", "cancelled"}]
        /\ connOf' \in [Ids -> 0 .. MaxConns]
    BY <1>1, <2>3 DEF HandleSyn, TypeOK
  <2> QED
    BY <1>1, <2>1, <2>2, <2>4, <2>5, <2>6, <2>7 DEF HandleSyn, client, TypeOK
<1>2. CASE HandleSynFails
  <2>1. fromClient # <<>> /\ vpn = 0 /\ created + 1 \in Ids
    BY <1>2, NextId DEF HandleSynFails, Takes
  <2>2. Tail(fromClient) \in Seq(OfApp)
    BY <2>1, PacketTyped
  <2> QED
    BY <1>2, <2>1, <2>2 DEF HandleSynFails, client, TypeOK
<1>3. CASE HandleSynKnown
  <2>1. fromClient # <<>> /\ vpn = 0 /\ table \in Ids
    BY <1>3 DEF HandleSynKnown, Takes, TypeOK
  <2>2. Tail(fromClient) \in Seq(OfApp)
    BY <2>1, PacketTyped
  <2>3. connOf[table] \in 0 .. MaxConns
    BY <2>1 DEF TypeOK
  <2>4. toClient' \in Seq(OfEngine)
    BY <1>3, <2>3, ReplyTyped DEF HandleSynKnown
  <2> QED
    BY <1>3, <2>1, <2>2, <2>4 DEF HandleSynKnown, sessions, client, TypeOK
<1>4. CASE Lookup
  BY <1>4 DEF Lookup, Takes, sessions, client, TypeOK
<1>5. CASE HandleUnknown
  <2>1. fromClient # <<>> /\ vpn = 0
    BY <1>5 DEF HandleUnknown, Takes
  <2>2. Packet \in OfApp /\ Tail(fromClient) \in Seq(OfApp)
    BY <2>1, PacketTyped
  <2>3. Packet.conn \in 0 .. MaxConns
    BY <2>2 DEF OfApp
  <2>4. \/ toClient' = toClient
        \/ \E k \in {"finack", "lastack", "rst"} : Reply(k, Packet.conn)
    BY <1>5 DEF HandleUnknown
  <2>5. toClient' \in Seq(OfEngine)
    BY <2>3, <2>4, ReplyTyped DEF TypeOK
  <2> QED
    BY <1>5, <2>1, <2>2, <2>5 DEF HandleUnknown, sessions, client, TypeOK
<1>6. CASE HandleBareRst
  <2>1. fromClient # <<>> /\ vpn = 0
    BY <1>6 DEF HandleBareRst, Takes
  <2>2. Tail(fromClient) \in Seq(OfApp)
    BY <2>1, PacketTyped
  <2>3. aborting' \subseteq Ids
    BY <1>6 DEF HandleBareRst, TypeOK
  <2> QED
    BY <1>6, <2>1, <2>2, <2>3 DEF HandleBareRst, client, TypeOK
<1>7. ASSUME NEW s \in Ids, HandleAck(s) \/ HandleFin(s) \/ HandleRst(s) \/ HandleBareFin(s)
      PROVE  TypeOK'
  <2>1. vpn = s /\ fromClient # <<>>
    BY <1>7 DEF HandleAck, HandleFin, HandleRst, HandleBareFin, Enters, TypeOK, Ids
  <2>2. Packet \in OfApp /\ Tail(fromClient) \in Seq(OfApp)
    BY <2>1, PacketTyped
  <2>3. Packet.conn \in 0 .. MaxConns /\ connOf[s] \in 0 .. MaxConns
    BY <2>2 DEF OfApp, TypeOK
  <2>4. /\ vpn' = 0 /\ fromClient' = Tail(fromClient)
        /\ UNCHANGED <<created, connOf, eofSeen, net, nio, client>>
    BY <1>7 DEF HandleAck, HandleFin, HandleRst, HandleBareFin, Enters
  <2>5. /\ table' \in Ids \cup {0}
        /\ channel' \in [Ids -> {"none", "connecting", "connected", "closed"}]
        /\ selKey' \in [Ids -> {"none", "valid", "cancelled"}]
    <3>1. CASE HandleFin(s)
      BY <3>1, CloseTyped DEF HandleFin
    <3>2. CASE HandleAck(s) \/ HandleRst(s) \/ HandleBareFin(s)
      BY <3>2 DEF HandleAck, HandleRst, HandleBareFin, KeepAlive, TypeOK
    <3> QED
      BY <1>7, <3>1, <3>2
  <2>6. aborting' \subseteq Ids /\ writing' \subseteq Ids /\ held' \subseteq Ids
    BY <1>7 DEF HandleAck, HandleFin, HandleRst, HandleBareFin, TypeOK
  <2>7. toClient' \in Seq(OfEngine)
    <3>1. toClient' = toClient \/ Reply("fin", connOf[s]) \/ Reply("finack", Packet.conn)
      BY <1>7 DEF HandleAck, HandleFin, HandleRst, HandleBareFin
    <3> QED
      BY <2>3, <3>1, ReplyTyped DEF TypeOK
  <2> QED
    BY <2>2, <2>4, <2>5, <2>6, <2>7 DEF client, TypeOK
<1> QED
  BY <1>1, <1>2, <1>3, <1>4, <1>5, <1>6, <1>7 DEF Vpn

\* The NIO thread and the upstream host keep the types.
LEMMA NioTypes ==
    ASSUME TypeOK, NioSkips \/ \E s \in Ids : NioTakes(s) \/ NioServes(s) \/ Upstream(s)
    PROVE  TypeOK'
<1> USE LifecycleAssumption
<1>1. CASE NioSkips
  BY <1>1 DEF NioSkips, sessions, client, TypeOK
<1>2. ASSUME NEW s \in Ids, NioTakes(s) PROVE TypeOK'
  BY <1>2 DEF NioTakes, sessions, client, TypeOK
<1>3. ASSUME NEW s \in Ids, Upstream(s) PROVE TypeOK'
  <2>1. net' \in [Ids -> {"pending", "refused", "idle", "data", "eof", "error"}]
    BY <1>3 DEF Upstream, UpstreamAnswers, UpstreamRefuses, UpstreamSends, TypeOK
  <2> QED
    BY <1>3, <2>1 DEF Upstream, UpstreamAnswers, UpstreamRefuses, UpstreamSends, sessions, client, TypeOK
<1>4. ASSUME NEW s \in Ids, NioServes(s) PROVE TypeOK'
  <2>1. nio' = 0 /\ UNCHANGED <<created, connOf, vpn, fromClient, client>>
    BY <1>4 DEF NioServes, NioConnects, NioRefused, NioData, NioEofDeferred, NioEof, NioReadFails,
                NioAborts, NioWrites, NioWriteFails, Serves
  <2>2. CASE NioConnects(s) \/ NioRefused(s) \/ NioData(s) \/ NioEofDeferred(s)
    BY <2>1, <2>2 DEF NioConnects, NioRefused, NioData, NioEofDeferred, client, TypeOK
  <2>3. CASE NioEof(s) \/ NioReadFails(s) \/ NioAborts(s) \/ NioWrites(s) \/ NioWriteFails(s)
    <3>1. /\ table' \in Ids \cup {0}
          /\ channel' \in [Ids -> {"none", "connecting", "connected", "closed"}]
          /\ selKey' \in [Ids -> {"none", "valid", "cancelled"}]
      <4>1. Close(s) \/ UNCHANGED <<table, channel, selKey>>
        BY <2>3 DEF NioEof, NioReadFails, NioAborts, NioWrites, NioWriteFails
      <4> QED
        BY <4>1, CloseTyped DEF TypeOK
    <3>2. toClient' \in Seq(OfEngine)
      <4>1. toClient' = toClient \/ Reply("fin", connOf[s]) \/ Reply("rst", connOf[s])
        BY <2>3 DEF NioEof, NioReadFails, NioAborts, NioWrites, NioWriteFails
      <4>2. connOf[s] \in 0 .. MaxConns
        BY DEF TypeOK
      <4> QED
        BY <4>1, <4>2, ReplyTyped DEF TypeOK
    <3>3. aborting' \subseteq Ids /\ writing' \subseteq Ids /\ held' \subseteq Ids /\ eofSeen' \subseteq Ids
      BY <2>3 DEF NioEof, NioReadFails, NioAborts, NioWrites, NioWriteFails, TypeOK
    <3>4. net' = net
      BY <2>3 DEF NioEof, NioReadFails, NioAborts, NioWrites, NioWriteFails
    <3> QED
      BY <2>1, <3>1, <3>2, <3>3, <3>4 DEF client, TypeOK
  <2> QED
    BY <1>4, <2>2, <2>3 DEF NioServes
<1> QED
  BY <1>1, <1>2, <1>3, <1>4

\* What the app's TCP does: it may open the next connection, append a packet of
\* its connection, and take one from the engine; a connection becomes open by
\* the SYN-ACK that is taken.
AppSteps ==
    /\ UNCHANGED <<table, created, sessions, net, vpn, nio>>
    /\ conn' \in 0 .. MaxConns
    /\ conn' = conn \/ (conn' = conn + 1 /\ app' = "synSent" /\ toClient' = toClient)
    /\ \/ fromClient' = fromClient
       \/ \E k \in WithAck \cup {"syn", "rst", "barefin"} :
             /\ fromClient' = Append(fromClient, [kind |-> k, conn |-> conn'])
             /\ k = "barefin" => BareFin
    /\ \/ toClient' = toClient
       \/ toClient # <<>> /\ toClient' = Tail(toClient)
    /\ \/ app' # "open" \/ app = "open"
       \/ toClient # <<>> /\ Head(toClient).kind = "synack" /\ Head(toClient).conn = conn
    /\ app' \in {"closed", "synSent", "open", "finSent"} /\ pushes' \in 0 .. MaxPushes

\* Every action of the app is such a step.
LEMMA AppMoves == ASSUME TypeOK, App PROVE AppSteps
<1> USE LifecycleAssumption DEF AppSteps, WithAck
<1>1. CASE AppConnect
  BY <1>1 DEF AppConnect, AppSends, TypeOK
<1>2. CASE AppResend
  BY <1>2 DEF AppResend, AppSends, client, TypeOK
<1>3. CASE AppAck
  BY <1>3 DEF AppAck, AppSends, client, TypeOK
<1>4. CASE AppPush
  BY <1>4 DEF AppPush, AppSends, TypeOK
<1>5. CASE AppFin
  BY <1>5 DEF AppFin, AppSends, TypeOK
<1>6. CASE AppReset
  BY <1>6 DEF AppReset, AppSends, TypeOK
<1>7. CASE AppReceive
  <2> DEFINE m == Head(toClient)
  <2>1. /\ toClient # <<>> /\ toClient' = Tail(toClient) /\ fromClient' = fromClient \o Answer(m)
        /\ UNCHANGED <<table, created, sessions, net, vpn, nio, conn, pushes>>
    BY <1>7 DEF AppReceive
  <2>2. app' \in {app, "open", "closed"} /\ (app' = "open" => app = "open" \/ (m.kind = "synack" /\ m.conn = conn))
    <3>1. \/ m.conn # conn /\ app' = app
          \/ m.conn = conn /\ app = "synSent" /\ m.kind = "synack" /\ app' = "open"
          \/ app' = "closed" \/ app' = app
      BY <1>7 DEF AppReceive
    <3> QED
      BY <3>1
  <2>3. \/ Answer(m) = <<>>
        \/ \E k \in {"ack", "rst"} : Answer(m) = <<[kind |-> k, conn |-> conn]>>
    BY DEF Answer
  <2>4. \/ fromClient' = fromClient
        \/ \E k \in {"ack", "rst"} : fromClient' = Append(fromClient, [kind |-> k, conn |-> conn])
    <3>1. fromClient \in Seq(OfApp)
      BY DEF TypeOK
    <3>2. CASE Answer(m) = <<>>
      BY <2>1, <3>1, <3>2, ConcatEmptySeq
    <3>3. ASSUME NEW k \in {"ack", "rst"}, Answer(m) = <<[kind |-> k, conn |-> conn]>>
          PROVE  fromClient' = Append(fromClient, [kind |-> k, conn |-> conn])
      <4>1. [kind |-> k, conn |-> conn] \in OfApp
        BY DEF OfApp, TypeOK
      <4> QED
        BY <2>1, <3>1, <3>3, <4>1, AppendIsConcat
    <3> QED
      BY <2>3, <3>2, <3>3
  <2> QED
    BY <2>1, <2>2, <2>4 DEF TypeOK
<1> QED
  BY <1>1, <1>2, <1>3, <1>4, <1>5, <1>6, <1>7 DEF App

\* The tables, the queues and the threads keep their types.
THEOREM LifecycleTypes == Spec => []TypeOK
<1> USE LifecycleAssumption
<1>1. Init => TypeOK
  <2>1. <<>> \in Seq(OfApp) /\ <<>> \in Seq(OfEngine)
    OBVIOUS
  <2> QED
    BY <2>1 DEF Init, TypeOK
<1>2. TypeOK /\ [Next]_vars => TypeOK'
  <2> SUFFICES ASSUME TypeOK, [Next]_vars PROVE TypeOK'
    OBVIOUS
  <2>1. CASE UNCHANGED vars
    BY <2>1 DEF vars, sessions, client, TypeOK
  <2>2. CASE App
    <3>1. AppSteps
      BY <2>2, AppMoves
    <3>2. fromClient' \in Seq(OfApp) /\ (vpn # 0 => fromClient' # <<>>)
      <4>1. \A k \in WithAck \cup {"syn", "rst", "barefin"} : [kind |-> k, conn |-> conn'] \in OfApp
        BY <3>1 DEF AppSteps, OfApp
      <4> QED
        <5>1. CASE fromClient' = fromClient
          BY <5>1 DEF TypeOK
        <5>2. ASSUME NEW k \in WithAck \cup {"syn", "rst", "barefin"},
                     fromClient' = Append(fromClient, [kind |-> k, conn |-> conn'])
              PROVE  fromClient' \in Seq(OfApp) /\ fromClient' # <<>>
          <6>1. fromClient \in Seq(OfApp) /\ [kind |-> k, conn |-> conn'] \in OfApp
            BY <4>1 DEF TypeOK
          <6> QED
            BY <5>2, <6>1, AppendProperties
        <5> QED
          BY <3>1, <5>1, <5>2 DEF AppSteps
    <3>3. toClient' \in Seq(OfEngine)
      <4>1. toClient' = toClient \/ (toClient # <<>> /\ toClient' = Tail(toClient))
        BY <3>1 DEF AppSteps
      <4>2. toClient \in Seq(OfEngine)
        BY DEF TypeOK
      <4> QED
        BY <4>1, <4>2, HeadTailProperties
    <3> QED
      BY <3>1, <3>2, <3>3 DEF AppSteps, sessions, TypeOK
  <2> QED
    BY <2>1, <2>2, VpnTypes, NioTypes DEF Next
<1> QED
  BY <1>1, <1>2, PTL DEF Spec

-----------------------------------------------------------------------------
(* One live session per 5-tuple. *)

\* Closing the session of an event leaves none that is live.
LEMMA CloseEnds ==
    ASSUME OneLive, NEW s \in Ids, Close(s)
    PROVE  \A t \in Ids : selKey'[t] # "valid"
BY DEF Close, OneLive, LiveIsTabled

\* Every step keeps the one live session the table's.
LEMMA OneLiveStep == TypeOK /\ OneLive /\ [Next]_vars => OneLive'
<1> SUFFICES ASSUME TypeOK, OneLive, [Next]_vars PROVE OneLive'
  OBVIOUS
<1> USE DEF OneLive, LiveIsTabled, LiveIsEntered
<1>1. CASE UNCHANGED <<table, vpn, selKey>>
  BY <1>1
<1>2. CASE HandleSyn
  <2>1. \A s \in Ids : selKey[s] # "valid"
    BY <1>2 DEF HandleSyn, Ids
  <2> QED
    BY <1>2, <2>1 DEF HandleSyn, Takes, TypeOK
<1>3. CASE Lookup
  BY <1>3 DEF Lookup, sessions
<1>4. ASSUME NEW s \in Ids, HandleAck(s) \/ HandleRst(s) \/ HandleBareFin(s) PROVE OneLive'
  <2>1. vpn = s /\ vpn' = 0 /\ selKey' = selKey /\ table' \in {table, s}
    BY <1>4 DEF HandleAck, HandleRst, HandleBareFin, Enters, KeepAlive
  <2>2. s # 0
    BY DEF Ids
  <2> QED
    BY <2>1, <2>2
<1>5. ASSUME NEW s \in Ids, Close(s) PROVE OneLive'
  BY <1>5, CloseEnds
<1>6. ASSUME NEW s \in Ids, NioRefused(s) PROVE OneLive'
  BY <1>6 DEF NioRefused, Serves, TypeOK
<1>7. CASE HandleSynFails \/ HandleSynKnown \/ HandleUnknown \/ HandleBareRst \/ NioSkips
  BY <1>1, <1>7 DEF HandleSynFails, HandleSynKnown, HandleUnknown, HandleBareRst, NioSkips, sessions
<1>8. ASSUME NEW s \in Ids,
             \/ NioTakes(s) \/ Upstream(s) \/ NioConnects(s) \/ NioData(s) \/ NioEofDeferred(s)
             \/ NioWrites(s) /\ ~Close(s)
      PROVE  OneLive'
  BY <1>1, <1>8 DEF NioTakes, Upstream, UpstreamAnswers, UpstreamRefuses, UpstreamSends, NioConnects,
     NioData, NioEofDeferred, NioWrites, Serves, sessions
<1>9. CASE App
  BY <1>1, <1>9, AppMoves DEF AppSteps, sessions
<1>10. ASSUME NEW s \in Ids, HandleFin(s) \/ NioEof(s) \/ NioReadFails(s) \/ NioAborts(s) \/ NioWriteFails(s)
       PROVE  OneLive'
  BY <1>5, <1>10 DEF HandleFin, NioEof, NioReadFails, NioAborts, NioWriteFails
<1>11. CASE UNCHANGED vars
  BY <1>1, <1>11 DEF vars, sessions
<1> QED
  BY <1>2, <1>3, <1>4, <1>5, <1>6, <1>7, <1>8, <1>9, <1>10, <1>11 DEF Next, Vpn, NioServes

\* A session the NIO thread serves is the one the table leads to: the 5-tuple
\* never has two upstream connections, and none that nothing can close.
THEOREM OneUpstreamConnection == Spec => []LiveIsTabled
<1>1. Init => OneLive
  BY DEF Init, OneLive, LiveIsTabled, LiveIsEntered
<1> QED
  BY <1>1, OneLiveStep, LifecycleTypes, PTL DEF Spec, OneLive

-----------------------------------------------------------------------------
(* No closed session in the table. *)

\* Taking or appending a packet brings no FIN without ACK.
LEMMA NoBareFinKept ==
    ASSUME TypeOK, NoBareFin
    PROVE  /\ fromClient' = fromClient => NoBareFin'
           /\ fromClient # <<>> /\ fromClient' = Tail(fromClient) => NoBareFin'
           /\ \A k, c : k # "barefin" /\ fromClient' = Append(fromClient, [kind |-> k, conn |-> c])
                          => NoBareFin'
           /\ fromClient # <<>> => Packet.kind # "barefin"
<1>1. fromClient \in Seq(OfApp)
  BY DEF TypeOK
<1>2. \A k, c : LET p == [kind |-> k, conn |-> c] IN p.kind = k
  OBVIOUS
<1> QED
  BY <1>1, <1>2 DEF NoBareFin, Packet

\* What no step that closes sessions does: leave a closed one unmarked.
LEMMA CloseMarks ==
    ASSUME TypeOK, Unclosed, NEW s \in Ids, Close(s), table \in {0, s}, aborting' = aborting \cup {s}
    PROVE  ClosedIsAborting' /\ table' = 0
BY DEF Close, Unclosed, ClosedIsAborting, Ids

\* Every step keeps closed sessions marked and out of the table.
LEMMA UnclosedStep ==
    ASSUME ~ConnectMayFail, ~BareFin, TypeOK, OneLive, Unclosed, [Next]_vars
    PROVE  Unclosed'
<1> USE DEF Unclosed, TabledIsEntered, NoneRefused, NoZombie
<1>1. CASE UNCHANGED vars
  BY <1>1 DEF vars, sessions, ClosedIsAborting, NoBareFin
<1>2. CASE HandleSyn
  <2>1. created + 1 \in Ids
    BY <1>2, NextId DEF HandleSyn
  <2>2. \A t \in Ids : channel'[t] = "closed" => channel[t] = "closed" /\ t # created + 1
    BY <1>2, <2>1 DEF HandleSyn, TypeOK
  <2>3. \A t \in Ids : net'[t] # "refused"
    BY <1>2, <2>1 DEF HandleSyn, TypeOK
  <2>4. NoBareFin'
    BY <1>2, NoBareFinKept DEF HandleSyn, Takes
  <2>5. vpn' = 0 /\ table' = created + 1 /\ aborting' = aborting
    BY <1>2 DEF HandleSyn, Takes
  <2> QED
    BY <2>1, <2>2, <2>3, <2>4, <2>5 DEF ClosedIsAborting
<1>3. CASE HandleSynFails
  <2>1. created + 1 \in Ids
    BY <1>3, NextId DEF HandleSynFails
  <2>2. \A t \in Ids : channel'[t] = "closed" => channel[t] = "closed"
    BY <1>3, <2>1 DEF HandleSynFails, TypeOK
  <2>3. NoBareFin'
    BY <1>3, NoBareFinKept DEF HandleSynFails, Takes
  <2>4. UNCHANGED <<vpn, table, aborting, net>>
    BY <1>3 DEF HandleSynFails
  <2>5. table \in Ids \cup {0}
    BY DEF TypeOK
  <2> QED
    BY <2>2, <2>3, <2>4, <2>5 DEF ClosedIsAborting
<1>4. CASE HandleSynKnown \/ HandleUnknown \/ HandleBareRst \/ Lookup
  <2>1. NoBareFin'
    BY <1>4, NoBareFinKept DEF HandleSynKnown, HandleUnknown, HandleBareRst, Lookup, Takes
  <2>2. UNCHANGED <<table, channel, net>> /\ aborting \subseteq aborting' /\ vpn' \in {vpn, table}
    BY <1>4 DEF HandleSynKnown, HandleUnknown, HandleBareRst, Lookup, sessions
  <2> QED
    BY <2>1, <2>2 DEF ClosedIsAborting
<1>5. ASSUME NEW s \in Ids, HandleAck(s) \/ HandleRst(s) \/ HandleBareFin(s) PROVE Unclosed'
  <2>1. vpn = s /\ s # 0 /\ vpn' = 0 /\ fromClient # <<>> /\ fromClient' = Tail(fromClient)
    BY <1>5 DEF HandleAck, HandleRst, HandleBareFin, Enters, TypeOK, Ids
  <2>2. NoBareFin' /\ ~HandleBareFin(s)
    BY <2>1, NoBareFinKept DEF HandleBareFin, Enters
  <2>3. UNCHANGED <<channel, net>> /\ aborting \subseteq aborting'
    BY <1>5, <2>2 DEF HandleAck, HandleRst, Enters
  <2>4. table' = table \/ (table' = s /\ s \notin aborting)
    BY <1>5, <2>2 DEF HandleAck, HandleRst, KeepAlive
  <2> QED
    BY <2>1, <2>2, <2>3, <2>4 DEF ClosedIsAborting
<1>6. ASSUME NEW s \in Ids, HandleFin(s) PROVE Unclosed'
  <2>1. vpn = s /\ s # 0 /\ vpn' = 0 /\ fromClient # <<>> /\ fromClient' = Tail(fromClient) /\ net' = net
    BY <1>6 DEF HandleFin, Enters, TypeOK, Ids
  <2>2. NoBareFin'
    BY <2>1, NoBareFinKept
  <2>3. ClosedIsAborting' /\ table' = 0
    BY <1>6, <2>1, CloseMarks DEF HandleFin
  <2> QED
    BY <2>1, <2>2, <2>3
<1>7. ASSUME NEW s \in Ids, NioServes(s) PROVE Unclosed'
  <2>1. selKey[s] = "valid" /\ UNCHANGED <<vpn, fromClient>> /\ ~NioRefused(s)
    BY <1>7 DEF NioServes, NioConnects, NioRefused, NioData, NioEofDeferred, NioEof, NioReadFails,
                NioAborts, NioWrites, NioWriteFails, Serves
  <2>2. table = s /\ NoBareFin'
    BY <2>1, NoBareFinKept DEF OneLive, LiveIsTabled
  <2>3. NoneRefused'
    BY <1>7, <2>1 DEF NioServes, NioConnects, NioData, NioEofDeferred, NioEof, NioReadFails, NioAborts,
                      NioWrites, NioWriteFails, TypeOK
  <2>4. CASE Close(s) /\ aborting' = aborting \cup {s}
    BY <2>1, <2>2, <2>3, <2>4, CloseMarks
  <2>5. CASE UNCHANGED <<table, aborting>> /\ \A t \in Ids : channel'[t] = "closed" => channel[t] = "closed"
    <3>1. table \in Ids
      BY <2>2
    <3> QED
      BY <2>1, <2>2, <2>3, <2>5, <3>1 DEF ClosedIsAborting
  <2>6. \/ Close(s) /\ aborting' = aborting \cup {s}
        \/ UNCHANGED <<table, aborting>> /\ \A t \in Ids : channel'[t] = "closed" => channel[t] = "closed"
    <3>1. CASE NioConnects(s) \/ NioData(s) \/ NioEofDeferred(s)
      BY <3>1 DEF NioConnects, NioData, NioEofDeferred, TypeOK
    <3>2. CASE NioEof(s) \/ NioReadFails(s) \/ NioWriteFails(s)
      BY <3>2 DEF NioEof, NioReadFails, NioWriteFails
    <3>3. CASE NioAborts(s)
      BY <3>3 DEF NioAborts
    <3>4. CASE NioWrites(s)
      BY <3>4 DEF NioWrites
    <3> QED
      BY <1>7, <2>1, <3>1, <3>2, <3>3, <3>4 DEF NioServes
  <2> QED
    BY <2>4, <2>5, <2>6
<1>8. CASE NioSkips \/ \E s \in Ids : NioTakes(s) \/ Upstream(s)
  <2>1. UNCHANGED <<table, channel, aborting, vpn, fromClient>>
    BY <1>8 DEF NioSkips, NioTakes, Upstream, UpstreamAnswers, UpstreamRefuses, UpstreamSends, sessions
  <2>2. NoneRefused'
    BY <1>8 DEF NioSkips, NioTakes, Upstream, UpstreamAnswers, UpstreamRefuses, UpstreamSends, TypeOK
  <2> QED
    BY <2>1, <2>2 DEF ClosedIsAborting, NoBareFin
<1>9. CASE App
  <2>1. AppSteps
    BY <1>9, AppMoves
  <2>2. NoBareFin'
    BY <2>1, NoBareFinKept DEF AppSteps
  <2> QED
    BY <2>1, <2>2 DEF AppSteps, sessions, ClosedIsAborting
<1> QED
  BY <1>1, <1>2, <1>3, <1>4, <1>5, <1>6, <1>7, <1>8, <1>9 DEF Next, Vpn

\* A closed session is not put into the table again, where it would block the
\* reuse of the client port, as long as no connection is refused and every FIN
\* carries an ACK (the two cases in which the code leaves one there).
THEOREM NoClosedSessionInTable ==
    ASSUME ~ConnectMayFail, ~BareFin
    PROVE  Spec => []NoZombie
<1>1. Init => OneLive /\ Unclosed
  BY DEF Init, OneLive, LiveIsTabled, LiveIsEntered, Unclosed, TabledIsEntered, ClosedIsAborting,
         NoneRefused, NoBareFin, NoZombie
<1>2. TypeOK /\ OneLive /\ Unclosed /\ [Next]_vars => Unclosed'
  BY UnclosedStep
<1>3. Unclosed => NoZombie
  BY DEF Unclosed
<1> QED
  BY <1>1, <1>2, <1>3, OneLiveStep, LifecycleTypes, PTL DEF Spec

-----------------------------------------------------------------------------
(* No crossed connections. *)

\* The connection a packet names is a number.
LEMMA PacketConn ==
    /\ \A q \in Seq(OfApp) : \A i \in 1 .. Len(q) : q[i] \in OfApp /\ q[i].conn \in Nat
    /\ \A q \in Seq(OfEngine) : \A i \in 1 .. Len(q) : q[i] \in OfEngine /\ q[i].conn \in Nat
<1>1. MaxConns \in Nat
  BY LifecycleAssumption
<1>2. (\A p \in OfApp : p.conn \in Nat) /\ (\A p \in OfEngine : p.conn \in Nat)
  BY <1>1 DEF OfApp, OfEngine
<1> QED
  BY <1>2, ElementOfSeq

\* A queue without its head.
LEMMA TailQueue ==
    ASSUME NEW q \in Seq(OfApp), NEW c \in Nat, q # <<>>, UpTo(q, c), Ordered(q)
    PROVE  /\ UpTo(Tail(q), c) /\ Ordered(Tail(q)) /\ Head(q).conn <= c
           /\ OnlySynsOf(q, c) => OnlySynsOf(Tail(q), c)
           /\ OnlySynsOf(q, c) /\ Head(q).kind = "syn" => Head(q).conn = c
           /\ Head(q).kind = "syn" /\ Head(q).conn = c => OnlySynsOf(Tail(q), c)
<1>1. /\ Tail(q) \in Seq(OfApp) /\ Len(Tail(q)) = Len(q) - 1 /\ Len(q) \in Nat \ {0}
      /\ Head(q) = q[1] /\ \A i \in 1 .. Len(Tail(q)) : Tail(q)[i] = q[i + 1] /\ i + 1 \in 1 .. Len(q)
  BY HeadTailProperties, LenProperties
<1>2. \A i \in 1 .. Len(q) : q[i] \in OfApp /\ q[i].conn \in Nat
  BY PacketConn
<1>3. ASSUME Head(q).kind = "syn", Head(q).conn = c, NEW i \in 1 .. Len(Tail(q)), Tail(q)[i].kind = "syn"
      PROVE  Tail(q)[i].conn = c
  <2>1. c <= q[i + 1].conn /\ q[i + 1].conn <= c /\ q[i + 1].conn \in Nat
    BY <1>1, <1>2, <1>3 DEF Ordered, UpTo
  <2> QED
    BY <1>1, <2>1
<1>4. UpTo(Tail(q), c) /\ Ordered(Tail(q)) /\ Head(q).conn <= c
  BY <1>1, <1>2 DEF UpTo, Ordered
<1> QED
  BY <1>1, <1>3, <1>4 DEF OnlySynsOf

\* A queue with one more packet, of the present connection or the next.
LEMMA AppendQueue ==
    ASSUME NEW q \in Seq(OfApp), NEW c \in Nat, NEW d \in Nat, NEW p \in OfApp,
           UpTo(q, c), Ordered(q), p.conn = d, c <= d
    PROVE  /\ UpTo(q, d)
           /\ UpTo(Append(q, p), d) /\ Ordered(Append(q, p))
           /\ OnlySynsOf(q, d) => OnlySynsOf(Append(q, p), d)
<1>1. /\ Append(q, p) \in Seq(OfApp) /\ Len(Append(q, p)) = Len(q) + 1 /\ Len(q) \in Nat
      /\ \A i \in 1 .. Len(q) : Append(q, p)[i] = q[i]
      /\ Append(q, p)[Len(q) + 1] = p
  BY AppendProperties, LenProperties
<1>2. \A i \in 1 .. Len(q) : q[i].conn \in Nat /\ q[i].conn <= d
  <2> SUFFICES ASSUME NEW i \in 1 .. Len(q) PROVE q[i].conn \in Nat /\ q[i].conn <= d
    OBVIOUS
  <2>1. q[i].conn \in Nat /\ q[i].conn <= c
    BY PacketConn DEF UpTo
  <2> QED
    BY <2>1
<1>3. \A i \in 1 .. Len(q) + 1 : i \in 1 .. Len(q) \/ i = Len(q) + 1
  BY <1>1
<1>4. UpTo(q, d) /\ UpTo(Append(q, p), d)
  BY <1>1, <1>2, <1>3 DEF UpTo
<1>5. Ordered(Append(q, p))
  BY <1>1, <1>2, <1>3 DEF Ordered
<1> QED
  BY <1>1, <1>3, <1>4, <1>5 DEF OnlySynsOf

\* The packets on their way to the app, with one more or one less.
LEMMA EngineQueue ==
    ASSUME NEW q \in Seq(OfEngine), NEW c \in Nat, UpTo(q, c)
    PROVE  /\ q # <<>> => /\ UpTo(Tail(q), c)
                          /\ HasSynAck(Tail(q), c) => HasSynAck(q, c)
                          /\ Head(q).kind = "synack" /\ Head(q).conn = c => HasSynAck(q, c)
           /\ \A p \in OfEngine :
                 p.conn <= c => /\ UpTo(Append(q, p), c)
                                /\ HasSynAck(Append(q, p), c)
                                     => HasSynAck(q, c) \/ (p.kind = "synack" /\ p.conn = c)
           /\ UpTo(q, c + 1) /\ ~HasSynAck(q, c + 1)
<1>1. \A i \in 1 .. Len(q) : q[i].conn \in Nat /\ q[i].conn <= c
  BY PacketConn DEF UpTo
<1>2. UpTo(q, c + 1) /\ ~HasSynAck(q, c + 1)
  BY <1>1 DEF UpTo, HasSynAck
<1>3. ASSUME q # <<>>
      PROVE  /\ UpTo(Tail(q), c)
             /\ HasSynAck(Tail(q), c) => HasSynAck(q, c)
             /\ Head(q).kind = "synack" /\ Head(q).conn = c => HasSynAck(q, c)
  <2>1. /\ Len(Tail(q)) = Len(q) - 1 /\ Len(q) \in Nat \ {0}
        /\ Head(q) = q[1] /\ \A i \in 1 .. Len(Tail(q)) : Tail(q)[i] = q[i + 1] /\ i + 1 \in 1 .. Len(q)
    BY <1>3, HeadTailProperties, LenProperties
  <2> QED
    BY <1>1, <2>1 DEF UpTo, HasSynAck
<1>4. ASSUME NEW p \in OfEngine, p.conn <= c
      PROVE  /\ UpTo(Append(q, p), c)
             /\ HasSynAck(Append(q, p), c) => HasSynAck(q, c) \/ (p.kind = "synack" /\ p.conn = c)
  <2>1. /\ Len(Append(q, p)) = Len(q) + 1 /\ Len(q) \in Nat
        /\ \A i \in 1 .. Len(q) : Append(q, p)[i] = q[i]
        /\ Append(q, p)[Len(q) + 1] = p
    BY AppendProperties, LenProperties
  <2>2. \A i \in 1 .. Len(q) + 1 : i \in 1 .. Len(q) \/ i = Len(q) + 1
    BY <2>1
  <2> QED
    BY <1>1, <1>4, <2>1, <2>2 DEF UpTo, HasSynAck
<1> QED
  BY <1>2, <1>3, <1>4

\* The engine's steps other than the creation of a session: the table and the
\* VPN thread exchange what they hold, or lose it, a packet is taken, and the
\* app is told something other than a SYN-ACK.
Exchange ==
    /\ UNCHANGED <<app, conn, connOf>>
    /\ table' \in {0, table, vpn} /\ vpn' \in {0, vpn, table}
    /\ fromClient' = fromClient \/ (fromClient # <<>> /\ fromClient' = Tail(fromClient))
    /\ \/ toClient' = toClient
       \/ \E k \in {"ack", "finack", "lastack", "fin", "rst"}, c \in 0 .. MaxConns : c <= conn /\ Reply(k, c)

\* Such a step crosses no connections.
LEMMA ExchangeKept == ASSUME TypeOK, Uncrossed, Exchange PROVE Uncrossed'
<1>1. conn \in Nat /\ fromClient \in Seq(OfApp) /\ toClient \in Seq(OfEngine)
  BY LifecycleAssumption DEF TypeOK
<1>2. UpTo(fromClient, conn) /\ Ordered(fromClient) /\ UpTo(toClient, conn)
  BY DEF Uncrossed, NothingAhead
<1>3. /\ UpTo(fromClient', conn) /\ Ordered(fromClient')
      /\ OnlySynsOf(fromClient, conn) => OnlySynsOf(fromClient', conn)
  <2>1. CASE fromClient' = fromClient
    BY <1>2, <2>1
  <2>2. CASE fromClient # <<>> /\ fromClient' = Tail(fromClient)
    BY <1>1, <1>2, <2>2, TailQueue
  <2> QED
    BY <2>1, <2>2 DEF Exchange
<1>4. UpTo(toClient', conn) /\ (HasSynAck(toClient', conn) => HasSynAck(toClient, conn))
  <2>1. CASE toClient' = toClient
    BY <1>2, <2>1
  <2>2. ASSUME NEW k \in {"ack", "finack", "lastack", "fin", "rst"}, NEW c \in 0 .. MaxConns,
               c <= conn, Reply(k, c)
        PROVE  UpTo(toClient', conn) /\ (HasSynAck(toClient', conn) => HasSynAck(toClient, conn))
    <3> DEFINE p == [kind |-> k, conn |-> c]
    <3>1. p \in OfEngine /\ p.conn <= conn /\ p.kind # "synack" /\ toClient' = Append(toClient, p)
      BY <2>2 DEF OfEngine, Reply
    <3> HIDE DEF p
    <3> QED
      BY <1>1, <1>2, <3>1, EngineQueue
  <2> QED
    BY <2>1, <2>2 DEF Exchange
<1>5. NothingAhead'
  BY <1>3, <1>4 DEF Exchange, Uncrossed, NothingAhead
<1>6. CarriesPresent'
  BY <1>3, <1>4 DEF Exchange, Uncrossed, CarriesPresent
<1> QED
  BY <1>5, <1>6 DEF Uncrossed

\* Every step of the engine and the upstream host but HandleSyn is of this kind.
LEMMA EngineExchanges ==
    ASSUME TypeOK, Uncrossed,
           \/ HandleSynFails \/ HandleSynKnown \/ Lookup \/ HandleUnknown \/ HandleBareRst \/ NioSkips
           \/ \E s \in Ids : \/ HandleAck(s) \/ HandleFin(s) \/ HandleRst(s) \/ HandleBareFin(s)
                             \/ NioTakes(s) \/ NioServes(s) \/ Upstream(s)
    PROVE  Exchange
<1>1. /\ \A s \in Ids : connOf[s] \in 0 .. MaxConns /\ connOf[s] <= conn
      /\ fromClient # <<>> => Packet.conn \in 0 .. MaxConns /\ Packet.conn <= conn
  <2>1. conn \in Nat /\ fromClient \in Seq(OfApp)
    BY LifecycleAssumption DEF TypeOK
  <2>2. fromClient # <<>> => Packet.conn <= conn
    BY <2>1, TailQueue DEF Packet, Uncrossed, NothingAhead
  <2>3. fromClient # <<>> => Packet.conn \in 0 .. MaxConns
    BY PacketTyped DEF OfApp
  <2> QED
    BY <2>2, <2>3 DEF TypeOK, Uncrossed, NothingAhead
<1>2. CASE HandleSynFails \/ Lookup \/ HandleBareRst \/ NioSkips
  BY <1>2 DEF HandleSynFails, Lookup, HandleBareRst, NioSkips, Takes, sessions, client, Exchange
<1>3. CASE HandleSynKnown
  <2>1. table \in Ids
    BY <1>3 DEF HandleSynKnown, TypeOK
  <2> QED
    BY <1>1, <1>3, <2>1 DEF HandleSynKnown, Takes, sessions, client, Exchange
<1>4. CASE HandleUnknown
  <2>1. \/ toClient' = toClient
        \/ \E k \in {"finack", "lastack", "rst"} : Reply(k, Packet.conn)
    BY <1>4 DEF HandleUnknown
  <2> QED
    BY <1>1, <1>4, <2>1 DEF HandleUnknown, Takes, sessions, client, Exchange
<1>5. ASSUME NEW s \in Ids, HandleAck(s) \/ HandleFin(s) \/ HandleRst(s) \/ HandleBareFin(s)
      PROVE  Exchange
  <2>1. /\ vpn = s /\ vpn' = 0 /\ fromClient # <<>> /\ fromClient' = Tail(fromClient)
        /\ UNCHANGED <<app, conn, connOf>>
    BY <1>5 DEF HandleAck, HandleFin, HandleRst, HandleBareFin, Enters, client, TypeOK, Ids
  <2>2. table' \in {0, table, vpn}
    BY <1>5, <2>1 DEF HandleAck, HandleFin, HandleRst, HandleBareFin, KeepAlive, Close
  <2>3. toClient' = toClient \/ Reply("fin", connOf[s]) \/ Reply("finack", Packet.conn)
    BY <1>5 DEF HandleAck, HandleFin, HandleRst, HandleBareFin
  <2> QED
    BY <1>1, <2>1, <2>2, <2>3 DEF Exchange
<1>6. ASSUME NEW s \in Ids, NioServes(s) PROVE Exchange
  <2>1. UNCHANGED <<vpn, fromClient, app, conn, connOf>>
    BY <1>6 DEF NioServes, NioConnects, NioRefused, NioData, NioEofDeferred, NioEof, NioReadFails,
                NioAborts, NioWrites, NioWriteFails, Serves, client
  <2>2. table' \in {0, table}
    BY <1>6 DEF NioServes, NioConnects, NioRefused, NioData, NioEofDeferred, NioEof, NioReadFails,
                NioAborts, NioWrites, NioWriteFails, Close
  <2>3. toClient' = toClient \/ Reply("fin", connOf[s]) \/ Reply("rst", connOf[s])
    BY <1>6 DEF NioServes, NioConnects, NioRefused, NioData, NioEofDeferred, NioEof, NioReadFails,
                NioAborts, NioWrites, NioWriteFails
  <2> QED
    BY <1>1, <2>1, <2>2, <2>3 DEF Exchange
<1>7. ASSUME NEW s \in Ids, NioTakes(s) \/ Upstream(s) PROVE Exchange
  BY <1>7 DEF NioTakes, Upstream, UpstreamAnswers, UpstreamRefuses, UpstreamSends, sessions, client, Exchange
<1> QED
  BY <1>2, <1>3, <1>4, <1>5, <1>6, <1>7

\* The creation of a session crosses no connections: what is answered with a
\* SYN-ACK is the app's present connection, or an earlier one it has given up.
LEMMA SynKept == ASSUME TypeOK, Uncrossed, HandleSyn PROVE Uncrossed'
<1>1. conn \in Nat /\ fromClient \in Seq(OfApp) /\ toClient \in Seq(OfEngine) /\ created + 1 \in Ids
  <2>1. conn \in Nat /\ fromClient \in Seq(OfApp) /\ toClient \in Seq(OfEngine)
    BY LifecycleAssumption DEF TypeOK
  <2>2. created + 1 \in Ids
    BY NextId DEF HandleSyn
  <2> QED
    BY <2>1, <2>2
<1>2. UpTo(fromClient, conn) /\ Ordered(fromClient) /\ UpTo(toClient, conn)
  BY DEF Uncrossed, NothingAhead
<1>3. /\ fromClient # <<>> /\ Packet.kind = "syn" /\ fromClient' = Tail(fromClient)
      /\ vpn' = 0 /\ table' = created + 1 /\ UNCHANGED <<app, conn>> /\ Reply("synack", Packet.conn)
  BY DEF HandleSyn, Takes, client
<1>4. /\ Packet.conn <= conn /\ UpTo(fromClient', conn) /\ Ordered(fromClient')
      /\ OnlySynsOf(fromClient, conn) => Packet.conn = conn
      /\ Packet.conn = conn => OnlySynsOf(fromClient', conn)
  BY <1>1, <1>2, <1>3, TailQueue DEF Packet
<1>5. /\ UpTo(toClient', conn)
      /\ HasSynAck(toClient', conn) => HasSynAck(toClient, conn) \/ Packet.conn = conn
  <2> DEFINE p == [kind |-> "synack", conn |-> Packet.conn]
  <2>1. p \in OfEngine /\ p.conn = Packet.conn /\ toClient' = Append(toClient, p)
    BY <1>3, PacketTyped DEF OfApp, OfEngine, Reply
  <2> HIDE DEF p
  <2> QED
    BY <1>1, <1>2, <1>4, <2>1, EngineQueue
<1>6. connOf' = [connOf EXCEPT ![created + 1] = Packet.conn] /\ connOf'[created + 1] = Packet.conn
  BY <1>1 DEF HandleSyn, TypeOK
<1>7. NothingAhead'
  <2>1. \A s \in Ids : connOf'[s] <= conn
    BY <1>4, <1>6 DEF TypeOK, Uncrossed, NothingAhead
  <2> QED
    BY <1>3, <1>4, <1>5, <2>1 DEF NothingAhead
<1>8. CarriesPresent'
  <2> SUFFICES ASSUME app = "open" \/ HasSynAck(toClient', conn)
               PROVE  connOf'[table'] = conn /\ OnlySynsOf(fromClient', conn)
    BY <1>3 DEF CarriesPresent
  <2>1. Packet.conn = conn
    BY <1>4, <1>5 DEF Uncrossed, CarriesPresent
  <2> QED
    BY <1>3, <1>4, <1>6, <2>1
<1> QED
  BY <1>7, <1>8 DEF Uncrossed

\* The app's steps cross no connections: a new one begins unanswered, and one
\* that becomes open had its SYN-ACK under way.
LEMMA AppKept == ASSUME TypeOK, Uncrossed, AppSteps PROVE Uncrossed'
<1>1. /\ conn \in Nat /\ conn' \in Nat /\ conn <= conn'
      /\ fromClient \in Seq(OfApp) /\ toClient \in Seq(OfEngine)
  BY LifecycleAssumption DEF TypeOK, AppSteps
<1>2. UpTo(fromClient, conn) /\ Ordered(fromClient) /\ UpTo(toClient, conn) /\ \A s \in Ids : connOf[s] <= conn
  BY DEF Uncrossed, NothingAhead
<1>3. /\ UpTo(fromClient', conn') /\ Ordered(fromClient')
      /\ conn' = conn /\ OnlySynsOf(fromClient, conn) => OnlySynsOf(fromClient', conn')
  <2>1. ASSUME NEW k \in WithAck \cup {"syn", "rst", "barefin"}
        PROVE  LET p == [kind |-> k, conn |-> conn'] IN p \in OfApp /\ p.conn = conn'
    BY DEF AppSteps, OfApp
  <2>2. CASE fromClient' = fromClient
    <3>1. PICK k \in WithAck \cup {"syn", "rst", "barefin"} : TRUE
      OBVIOUS
    <3>2. UpTo(fromClient, conn')
      BY <1>1, <1>2, <2>1, <3>1, AppendQueue
    <3> QED
      BY <1>2, <2>2, <3>2
  <2>3. ASSUME NEW k \in WithAck \cup {"syn", "rst", "barefin"},
               fromClient' = Append(fromClient, [kind |-> k, conn |-> conn'])
        PROVE  /\ UpTo(fromClient', conn') /\ Ordered(fromClient')
               /\ conn' = conn /\ OnlySynsOf(fromClient, conn) => OnlySynsOf(fromClient', conn')
    BY <1>1, <1>2, <2>1, <2>3, AppendQueue
  <2> QED
    BY <2>2, <2>3 DEF AppSteps
<1>4. CASE conn' = conn
  <2>1. UpTo(toClient', conn) /\ (HasSynAck(toClient', conn) => HasSynAck(toClient, conn))
    <3>1. toClient' = toClient \/ (toClient # <<>> /\ toClient' = Tail(toClient))
      BY DEF AppSteps
    <3>2. CASE toClient' = toClient
      BY <1>2, <3>2
    <3>3. CASE toClient # <<>> /\ toClient' = Tail(toClient)
      BY <1>1, <1>2, <3>3, EngineQueue
    <3> QED
      BY <3>1, <3>2, <3>3
  <2>2. app' = "open" => app = "open" \/ HasSynAck(toClient, conn)
    <3>1. \/ app' # "open" \/ app = "open"
          \/ toClient # <<>> /\ Head(toClient).kind = "synack" /\ Head(toClient).conn = conn
      BY DEF AppSteps
    <3> QED
      BY <1>1, <1>2, <3>1, EngineQueue
  <2>3. UNCHANGED <<table, vpn, connOf>>
    BY DEF AppSteps, sessions
  <2> QED
    BY <1>2, <1>3, <1>4, <2>1, <2>2, <2>3 DEF Uncrossed, NothingAhead, CarriesPresent
<1>5. CASE conn' = conn + 1 /\ app' = "synSent" /\ toClient' = toClient
  <2>1. UpTo(toClient', conn') /\ ~HasSynAck(toClient', conn')
    BY <1>1, <1>2, <1>5, EngineQueue
  <2>2. \A s \in Ids : connOf'[s] <= conn'
    <3>1. connOf' = connOf /\ \A s \in Ids : connOf[s] \in 0 .. MaxConns
      BY DEF AppSteps, sessions, TypeOK
    <3> QED
      BY <1>1, <1>2, <3>1, LifecycleAssumption
  <2> QED
    BY <1>3, <1>5, <2>1, <2>2 DEF Uncrossed, NothingAhead, CarriesPresent
<1> QED
  BY <1>4, <1>5 DEF AppSteps

\* A connection the app holds open is never carried by the upstream connection
\* of an earlier one on the same port.
THEOREM ConnectionsNeverCrossed == Spec => []NeverCrossed
<1>1. Init => Uncrossed
  BY DEF Init, Uncrossed, NothingAhead, CarriesPresent, UpTo, Ordered, OnlySynsOf, HasSynAck
<1>2. TypeOK /\ Uncrossed /\ [Next]_vars => Uncrossed'
  <2> SUFFICES ASSUME TypeOK, Uncrossed, [Next]_vars PROVE Uncrossed'
    OBVIOUS
  <2>1. CASE UNCHANGED vars
    BY <2>1 DEF vars, sessions, client, Uncrossed, NothingAhead, CarriesPresent
  <2>2. CASE App
    BY <2>2, AppMoves, AppKept
  <2>3. CASE HandleSyn
    BY <2>3, SynKept
  <2>4. CASE Exchange
    BY <2>4, ExchangeKept
  <2> QED
    BY <2>1, <2>2, <2>3, <2>4, EngineExchanges DEF Next, Vpn
<1>3. Uncrossed => NeverCrossed
  BY DEF Uncrossed, CarriesPresent, NeverCrossed
<1> QED
  BY <1>1, <1>2, <1>3, LifecycleTypes, PTL DEF Spec

=============================================================================
