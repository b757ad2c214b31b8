----------------------------- MODULE VpnService -----------------------------
(***************************************************************************)
(* VPNService and the packet loops (VPNRunnable) it starts, one after the  *)
(* other: on a start command, and again whenever the routes of the network *)
(* interfaces have changed.                                                *)
(*                                                                         *)
(* The service's callbacks run on the main thread, one at a time, and are  *)
(* one action each.  Beside them run the threads of the packet loops, the  *)
(* thread of the network callback, and the flows behind LiveData, which    *)
(* deliver a setting on the main thread some time after it was stored.     *)
(* Loops are numbered; a session has the number of the loop it began with. *)
(*                                                                         *)
(* An instance of the service that has called stopSelf is destroyed; a     *)
(* start command that follows goes to a new instance, with LiveData that   *)
(* have no values yet.                                                     *)
(***************************************************************************)
EXTENDS Naturals, PolicyEngine

CONSTANTS
    MaxLoops,           \* bound: packet loops started
    MaxNetChanges,      \* bound: changes of the interface routes
    MaxChanges,         \* bound: changes of the settings
    Packets,            \* the packets apps send
    Choices,            \* settings the user may choose, the first one included
    EstablishMayFail,   \* whether Builder.establish may fail
    RegisterMayFail,    \* whether registerNetworkCallback may throw
    TunMayEnd           \* whether a read of the TUN device may report its end

ASSUME ServiceAssumption ==
    /\ MaxLoops \in Nat /\ MaxNetChanges \in Nat /\ MaxChanges \in Nat
    /\ Packets \subseteq Packet /\ Choices \subseteq Setting
    /\ EstablishMayFail \in BOOLEAN /\ RegisterMayFail \in BOOLEAN /\ TunMayEnd \in BOOLEAN

VARIABLES
    running,    \* VPNService.isVPNRunning
    current,    \* VPNService.vpnRunnable: a loop, or 0
    callback,   \* whether networkCallback is registered
    refresh,    \* whether routeRefresh waits in mainHandler
    installed,  \* installedInterfaceRoutes
    session,    \* lanShieldSession: its number, or 0
    stopping,   \* stopSelf was called
    observers,  \* loops that observe the LiveData
    live,       \* the values of the LiveData; what has none is as in Initial
    created,    \* loops created so far
    pc,         \* of each loop: where its thread is
    active,     \* of each loop: threadMainLoopActive
    engine,     \* of each loop: its NIO and writer threads, "off", "on", "down"
    tun,        \* of each loop: its interface, "none", "open", "dead", "closed"
    fields,     \* of each loop: its policy fields
    packet,     \* of each loop: the packet it handles, and by which settings
    network,    \* the routes of the interfaces (external)
    netChanges,
    notice,     \* a call of the network callback is under way (external)
    consent,    \* the user lets this app be the VPN (external)
    store,      \* the stored settings (external)
    changes,
    wanted,     \* history: the last command was to start
    missed      \* history: re-establishing or the callback has failed

service  == <<running, current, callback, refresh, installed, session, stopping>>
settings == <<observers, live, fields>>
loops    == <<created, pc, active, engine, tun, packet>>
outside  == <<network, netChanges, notice, consent, store, changes>>
history  == <<wanted, missed>>
vars     == <<service, settings, loops, outside, history>>

Loops == 1 .. MaxLoops
Keys  == {"perApp", "default", "system", "allowMulticast", "allowDns", "hideMulticast", "hideDns"}

\* The fields of a VPNRunnable before anything is delivered to it.
Initial == [perApp |-> "DEFAULT", default |-> "ALLOW", system |-> "ALLOW",
            allowMulticast |-> FALSE, allowDns |-> FALSE,
            hideMulticast |-> FALSE, hideDns |-> FALSE]

None == [is |-> "none"]

Init ==
    /\ running = FALSE /\ current = 0 /\ callback = FALSE /\ refresh = FALSE
    /\ installed = 0 /\ session = 0 /\ stopping = FALSE
    /\ observers = {} /\ live = Initial
    /\ created = 0
    /\ pc = [g \in Loops |-> "none"] /\ active = [g \in Loops |-> FALSE]
    /\ engine = [g \in Loops |-> "off"] /\ tun = [g \in Loops |-> "none"]
    /\ fields = [g \in Loops |-> Initial] /\ packet = [g \in Loops |-> None]
    /\ network = 1 /\ netChanges = 0 /\ notice = FALSE /\ consent = TRUE
    /\ store \in Choices /\ changes = 0
    /\ wanted = FALSE /\ missed = FALSE

-----------------------------------------------------------------------------
(* VPNRunnable: the thread of packet loop g. *)

\* stop(): only a loop that is active has its threads shut down.
stop(g) ==
    /\ active' = [h \in Loops |-> IF h = g THEN FALSE ELSE active[h]]
    /\ engine' = [h \in Loops |-> IF h = g /\ active[g] THEN "down" ELSE engine[h]]

\* run() starts the NIO and writer threads ...
RunStart(g) ==
    /\ pc[g] = "start"
    /\ engine' = [engine EXCEPT ![g] = "on"]
    /\ pc' = [pc EXCEPT ![g] = "enter"]
    /\ UNCHANGED <<service, settings, created, active, tun, packet, outside, history>>

\* ... and only then sets threadMainLoopActive.
RunEnter(g) ==
    /\ pc[g] = "enter"
    /\ active' = [active EXCEPT ![g] = TRUE]
    /\ pc' = [pc EXCEPT ![g] = "loop"]
    /\ UNCHANGED <<service, settings, created, engine, tun, packet, outside, history>>

\* The loop's condition is false: stop() was called.
LoopEnds(g) ==
    /\ pc[g] = "loop" /\ ~active[g]
    /\ pc' = [pc EXCEPT ![g] = "ended"]
    /\ UNCHANGED <<service, settings, created, active, engine, tun, packet, outside, history>>

\* A packet is read, its app is found and the app's policy looked up.
ReadPacket(g) ==
    /\ pc[g] = "loop" /\ active[g] /\ tun[g] = "open"
    /\ \E p \in Packets : packet' = [packet EXCEPT ![g] = [is |-> p, by |-> fields[g]]]
    /\ pc' = [pc EXCEPT ![g] = "decide"]
    /\ UNCHANGED <<service, settings, created, active, engine, tun, outside, history>>

\* PolicyEngine.decide, with the app's policy as it was and the other fields as they are.
Decide(g) ==
    /\ pc[g] = "decide"
    /\ LET s == [fields[g] EXCEPT !.perApp = packet[g].by.perApp]
       IN  /\ packet' = [packet EXCEPT ![g].by = s]
           /\ pc' = [pc EXCEPT ![g] = IF shouldForward(packet[g].is, s) THEN "forward" ELSE "log"]
    /\ UNCHANGED <<service, settings, created, active, engine, tun, outside, history>>

\* handlePacket, or logBlockedPacket.
Handle(g) ==
    /\ pc[g] \in {"forward", "log"}
    /\ packet' = [packet EXCEPT ![g] = None]
    /\ pc' = [pc EXCEPT ![g] = "loop"]
    /\ UNCHANGED <<service, settings, created, active, engine, tun, outside, history>>

\* Faulty variant: the loop ends without stop().
ReadFailsQuietly(g) ==
    /\ pc[g] = "loop" /\ active[g] /\ tun[g] # "open"
    /\ active' = [active EXCEPT ![g] = FALSE]
    /\ UNCHANGED <<service, settings, created, pc, engine, tun, packet, outside, history>>

\* The interface is closed or has been taken away: IOException, and stop().
ReadFails(g) ==
    /\ pc[g] = "loop" /\ active[g] /\ tun[g] # "open"
    /\ stop(g)
    /\ UNCHANGED <<service, settings, created, pc, tun, packet, outside, history>>

\* The read reports the end of the device: the loop ends without stop().
ReadEnds(g) ==
    /\ TunMayEnd
    /\ pc[g] = "loop" /\ active[g]
    /\ active' = [active EXCEPT ![g] = FALSE]
    /\ pc' = [pc EXCEPT ![g] = "abandoned"]
    /\ UNCHANGED <<service, settings, created, engine, tun, packet, outside, history>>

-----------------------------------------------------------------------------
(* VPNService on the main thread. *)

\* stopVPNThread, of a service that is not to go on.
stopVPNThread ==
    /\ callback' = FALSE /\ refresh' = FALSE
    /\ session' = 0
    /\ observers' = observers \ {current}
    /\ stop(current)
    /\ current' = 0
    /\ tun' = [g \in Loops |-> IF g = current THEN "closed" ELSE tun[g]]
    /\ running' = FALSE

\* Faulty variant: the values there are reach the loop with their next change.
observeLater(g) ==
    /\ observers' = (observers \ {current}) \cup {g}
    /\ UNCHANGED fields

\* observeForever in startVPNThread: a value that is there is delivered at once.
observeForever(g) ==
    /\ observers' = (observers \ {current}) \cup {g}
    /\ fields' = [fields EXCEPT ![g] = live]

\* The session that goes with loop g: the one there is, if it is to be kept.
SessionOf(g, keepSession) == IF keepSession /\ session # 0 THEN session ELSE g

\* startVPNThread, the interface established: the loop before is torn down, the
\* new one observes the LiveData and gets the values they have, and the network
\* callback is registered, which reports the networks there are.
Established(keepSession) ==
    LET g == created + 1
    IN  /\ consent /\ created < MaxLoops
        /\ created' = g /\ current' = g /\ running' = TRUE
        /\ stop(current)
        /\ tun' = [h \in Loops |-> IF h = current THEN "closed" ELSE
                                   IF h = g THEN "open" ELSE tun[h]]
        /\ installed' = network
        /\ observeForever(g)
        /\ pc' = [pc EXCEPT ![g] = "start"]
        /\ session' = SessionOf(g, keepSession)
        /\ callback' \in {TRUE} \cup (IF RegisterMayFail THEN {FALSE} ELSE {})
        /\ notice' = (notice \/ callback')
        /\ missed' = ~callback'
        /\ refresh' = FALSE
        /\ UNCHANGED <<stopping, live, packet, network, netChanges, consent, store, changes>>

\* startVPNThread, establish failed: nothing runs afterwards, or, if it was a
\* refresh, what ran before.
NotEstablished(keepSession) ==
    /\ EstablishMayFail \/ ~consent
    /\ IF keepSession /\ running
       THEN /\ refresh' = FALSE /\ missed' = TRUE
            /\ UNCHANGED <<callback, session, observers, active, engine, current, tun, running>>
       ELSE stopVPNThread /\ UNCHANGED missed
    /\ UNCHANGED <<installed, stopping, live, fields, created, pc, packet, outside>>

\* onStartCommand without STOP_VPN_SERVICE.
StartCommand ==
    /\ ~stopping /\ ~running /\ consent
    /\ wanted' = TRUE
    /\ Established(FALSE) \/ NotEstablished(FALSE)

\* refuseStart: consent, or a permission that goes with it, is missing.
StartRefused ==
    /\ ~stopping /\ ~running /\ ~consent
    /\ stopping' = TRUE
    /\ UNCHANGED <<running, current, callback, refresh, installed, session, settings, loops,
                   outside, history>>

\* onStartCommand with STOP_VPN_SERVICE.
StopCommand ==
    /\ ~stopping
    /\ wanted' = FALSE
    /\ stopping' = TRUE
    /\ IF running THEN stopVPNThread
       ELSE UNCHANGED <<callback, refresh, session, observers, active, engine, current, tun,
                        running>>
    /\ UNCHANGED <<installed, live, fields, created, pc, packet, outside, missed>>

\* onRevoke.
onRevoke ==
    /\ ~consent /\ current # 0
    /\ wanted' = FALSE
    /\ stopping' = TRUE
    /\ stopVPNThread
    /\ UNCHANGED <<installed, live, fields, created, pc, packet, outside, missed>>

\* onDestroy; what is still on its way to this instance finds it not running.
onDestroy ==
    /\ stopping
    /\ stopping' = FALSE
    /\ callback' = FALSE /\ refresh' = FALSE /\ notice' = FALSE
    /\ running' = FALSE /\ session' = 0
    /\ current' = 0 /\ installed' = 0 /\ live' = Initial
    /\ UNCHANGED <<observers, fields, loops, network, netChanges, consent, store, changes, history>>

\* Faulty variant: the refresh is removed and not posted again.
scheduleNothing ==
    /\ notice
    /\ notice' = FALSE /\ refresh' = FALSE
    /\ UNCHANGED <<running, current, callback, installed, session, stopping, settings, loops,
                   network, netChanges, consent, store, changes, history>>

\* scheduleRouteRefresh, on the thread of the network callback.
scheduleRouteRefresh ==
    /\ notice
    /\ notice' = FALSE /\ refresh' = TRUE
    /\ UNCHANGED <<running, current, callback, installed, session, stopping, settings, loops,
                   network, netChanges, consent, store, changes, history>>

\* refreshInterfaceRoutes, with nothing to do.
RefreshNothing ==
    /\ refresh
    /\ ~running \/ network = installed
    /\ refresh' = FALSE
    /\ UNCHANGED <<running, current, callback, installed, session, stopping, settings, loops,
                   outside, history>>

\* Faulty variant: a service that has been stopped is not told apart.
RefreshRoutesAlways ==
    /\ refresh
    /\ network # installed
    /\ Established(TRUE) \/ NotEstablished(TRUE)
    /\ UNCHANGED wanted

\* refreshInterfaceRoutes: the routes have changed.
RefreshRoutes ==
    /\ refresh
    /\ running /\ network # installed
    /\ Established(TRUE) \/ NotEstablished(TRUE)
    /\ UNCHANGED wanted

\* A LiveData delivers a stored setting to the observers.
Deliver(k) ==
    /\ observers # {}
    /\ live[k] # store[k]
    /\ live' = [live EXCEPT ![k] = store[k]]
    /\ fields' = [g \in Loops |-> IF g \in observers THEN [fields[g] EXCEPT ![k] = store[k]]
                                  ELSE fields[g]]
    /\ UNCHANGED <<service, observers, loops, outside, history>>

-----------------------------------------------------------------------------
(* The platform and the user (external). *)

\* Routes appear or disappear; the callback, if there is one, is called.
NetworkChanges ==
    /\ netChanges < MaxNetChanges
    /\ network' = 3 - network /\ netChanges' = netChanges + 1
    /\ notice' = (notice \/ callback)
    /\ UNCHANGED <<service, settings, loops, consent, store, changes, history>>

\* Another app becomes the VPN: the interface is dead at once, onRevoke follows.
Revoked ==
    /\ consent /\ running
    /\ consent' = FALSE
    /\ tun' = [tun EXCEPT ![current] = "dead"]
    /\ UNCHANGED <<service, settings, created, pc, active, engine, packet, network, netChanges,
                   notice, store, changes, history>>

ConsentGiven ==
    /\ ~consent /\ ~running
    /\ consent' = TRUE
    /\ UNCHANGED <<service, settings, loops, network, netChanges, notice, store, changes, history>>

SettingsChange ==
    /\ changes < MaxChanges
    /\ store' \in Choices \ {store} /\ changes' = changes + 1
    /\ UNCHANGED <<service, settings, loops, network, netChanges, notice, consent, history>>

-----------------------------------------------------------------------------
PacketLoop(g) == RunStart(g) \/ RunEnter(g) \/ LoopEnds(g) \/ ReadPacket(g) \/ Decide(g)
                 \/ Handle(g) \/ ReadFails(g) \/ ReadEnds(g)

Main == StartCommand \/ StartRefused \/ StopCommand \/ onRevoke \/ onDestroy
        \/ RefreshNothing \/ RefreshRoutes \/ \E k \in Keys : Deliver(k)

Platform == NetworkChanges \/ Revoked \/ ConsentGiven \/ SettingsChange

Next == Main \/ scheduleRouteRefresh \/ Platform
        \/ \E g \in Loops : PacketLoop(g)

Spec == Init /\ [][Next]_vars

(* Fairness: a loop's thread goes on when it can, the handler runs what was  *)
(* posted, the platform calls the callback it announced, and a flow whose    *)
(* LiveData is observed delivers.  No one has to send packets or commands.   *)
FairSpec ==
    /\ Spec
    /\ \A g \in Loops : /\ WF_vars(RunStart(g) \/ RunEnter(g) \/ LoopEnds(g) \/ Decide(g)
                                    \/ Handle(g) \/ ReadFails(g))
    /\ WF_vars(\E k \in Keys : Deliver(k))
    /\ WF_vars(scheduleRouteRefresh) /\ WF_vars(RefreshRoutes \/ RefreshNothing)

-----------------------------------------------------------------------------
(* Properties *)

\* The parts of the type invariant: flags, numbers, settings and loops.
FlagTypes ==
    /\ running \in BOOLEAN /\ callback \in BOOLEAN /\ refresh \in BOOLEAN
    /\ stopping \in BOOLEAN /\ notice \in BOOLEAN /\ consent \in BOOLEAN
    /\ wanted \in BOOLEAN /\ missed \in BOOLEAN

NumberTypes ==
    /\ created \in 0 .. MaxLoops /\ current \in 0 .. created /\ session \in 0 .. created
    /\ installed \in 0 .. 2 /\ network \in 1 .. 2
    /\ netChanges \in 0 .. MaxNetChanges /\ changes \in 0 .. MaxChanges

SettingTypes ==
    /\ live \in Setting /\ store \in Choices /\ fields \in [Loops -> Setting]

LoopTypes ==
    /\ pc \in [Loops -> {"none", "start", "enter", "loop", "decide", "forward", "log",
                         "ended", "abandoned"}]
    /\ active \in [Loops -> BOOLEAN] /\ engine \in [Loops -> {"off", "on", "down"}]
    /\ tun \in [Loops -> {"none", "open", "dead", "closed"}]
    /\ packet \in [Loops -> {None} \cup [is : Packets, by : Setting]]

TypeOK == FlagTypes /\ NumberTypes /\ SettingTypes /\ LoopTypes

(* The parts of the inductive invariant. *)

\* The fields of the service go together: it is up if it has a loop, which is
\* the one that observes, and a session.
UpInv ==
    /\ running <=> current # 0
    /\ running <=> session # 0
    /\ observers = {current} \ {0}

\* onDestroy tears nothing down: what is stopping has nothing left that runs.
StoppingInv == stopping => ~running

\* The verdict on a packet is that of decide.
VerdictInv ==
    \A g \in Loops :
        /\ pc[g] \in {"decide", "forward", "log"} => packet[g] # None
        /\ pc[g] = "forward" => shouldForward(packet[g].is, packet[g].by)
        /\ pc[g] = "log" => ~shouldForward(packet[g].is, packet[g].by)

\* startVPNThread's comment: the new interface has replaced the old one, and
\* the old packet loop is torn down.  A loop that is not the service's has
\* neither an open interface nor an observer.
OldLoopsAreOut ==
    \A g \in 1 .. created : g # current => tun[g] = "closed" /\ g \notin observers

\* A route refresh that comes late does not start what was stopped: the tunnel
\* is up only if the last command was to start and consent was not taken away.
RunningIsWanted == running => wanted

\* A loop that replaces another after a route refresh decides by the settings
\* that the service knows, never by the defaults a loop is created with.
KnownSettingsKept == \A g \in Loops : g = current => fields[g] = live

\* The inductive invariant: from one callback of the service to the next, its
\* fields, its loops' interfaces and observers and their settings agree.
ServiceInv ==
    /\ TypeOK /\ UpInv /\ StoppingInv /\ VerdictInv
    /\ OldLoopsAreOut /\ RunningIsWanted /\ KnownSettingsKept

\* What a packet loop does with a packet is what the settings it knows mean.
DecidesAsDocumented ==
    \A g \in Loops : pc[g] \in {"forward", "log"} /\ Settled(packet[g].is, packet[g].by) =>
                       (pc[g] = "forward" <=> Permitted(packet[g].is, packet[g].by))

\* A session lasts as long as the service is up, whatever number of packet
\* loops it takes: a route refresh neither ends it nor begins another.
SessionIsOneRun ==
    /\ [](running <=> session # 0)
    /\ [][running /\ running' => session' = session]_vars

\* README.md:20: users control which apps may access the LAN.  A packet that
\* the stored settings block is not forwarded by a packet loop.
BlockedIsBlocked ==
    \A g \in Loops : pc[g] = "forward" => Permitted(packet[g].is, store)

\* A loop that is replaced or stopped comes to its end and takes its NIO and
\* writer threads with it, even if it is stopped before it has begun.
LoopsEnd ==
    \A g \in Loops : (g <= created /\ g # current)
                       ~> (engine[g] = "down" /\ pc[g] = "ended") \/ pc[g] = "abandoned"

\* The routes of the tunnel follow those of the interfaces, as long as the
\* callback could be registered and the interface be established again.
RoutesFollow == []<>(~running \/ installed = network \/ missed \/ created = MaxLoops)

=============================================================================
