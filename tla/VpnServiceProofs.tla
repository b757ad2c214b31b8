-------------------------- MODULE VpnServiceProofs --------------------------
(***************************************************************************)
(* Theorems about VpnService, for any number of packet loops, changes of   *)
(* routes and settings, and any packets and settings; and about the        *)
(* decision it asks PolicyEngine for.                                      *)
(***************************************************************************)
EXTENDS VpnService, TLAPS

-----------------------------------------------------------------------------
(* PolicyEngine.decide against what the settings mean. *)

\* A packet is forwarded exactly if the settings permit it: the nested
\* conditions of decide amount to the app's policy before the default, and to
\* a default that the system-app policy and the two exemptions only relax.
THEOREM ForwardsWhatIsPermitted ==
    ASSUME NEW p \in Packet, NEW s \in Setting, Settled(p, s)
    PROVE  shouldForward(p, s) <=> Permitted(p, s)
<1>1. /\ p.tcpOrUdp \in BOOLEAN /\ p.validUid \in BOOLEAN /\ p.systemApp \in BOOLEAN
      /\ p.multicast \in BOOLEAN /\ p.dns \in BOOLEAN
  BY DEF Packet
<1>2. /\ s.perApp \in Policy /\ s.default \in Policy /\ s.system \in Policy
      /\ s.allowMulticast \in BOOLEAN /\ s.allowDns \in BOOLEAN
  BY DEF Setting
<1>3. CASE ~p.tcpOrUdp
  BY <1>1, <1>2, <1>3 DEF shouldForward, Permitted, appliedPolicy, Policy
<1>4. CASE p.tcpOrUdp /\ ~p.validUid
  BY <1>1, <1>2, <1>4 DEF shouldForward, Permitted, Settled, appliedPolicy, WithoutUid, Exempt,
                          Policy
<1>5. CASE p.tcpOrUdp /\ p.validUid /\ s.perApp # "DEFAULT"
  BY <1>1, <1>2, <1>5 DEF shouldForward, Permitted, appliedPolicy, Policy
<1>6. CASE p.tcpOrUdp /\ p.validUid /\ s.perApp = "DEFAULT"
  <2>1. appliedPolicy(p, s) = WithDefault(p, s)
    BY <1>1, <1>6 DEF appliedPolicy
  <2>2. CASE s.default = "ALLOW"
    BY <1>1, <1>2, <1>6, <2>1, <2>2 DEF shouldForward, Permitted, WithDefault, Relax, Exempt
  <2>3. CASE s.default = "BLOCK"
    BY <1>1, <1>2, <1>6, <2>1, <2>3 DEF shouldForward, Permitted, WithDefault, Relax, Exempt,
                                        Policy
  <2> QED BY <2>2, <2>3 DEF Settled
<1> QED BY <1>1, <1>3, <1>4, <1>5, <1>6

\* Nothing is blocked silently: if an app without a policy of its own loses a
\* packet, the user is told of it, whatever notifications are hidden.
THEOREM BlocksAreAnnounced ==
    ASSUME NEW p \in Packet, NEW s \in Setting,
           p.tcpOrUdp, p.validUid, s.perApp = "DEFAULT", ~shouldForward(p, s)
    PROVE  shouldNotify(p, s)
<1>1. /\ p.tcpOrUdp \in BOOLEAN /\ p.validUid \in BOOLEAN /\ p.systemApp \in BOOLEAN
      /\ p.multicast \in BOOLEAN /\ p.dns \in BOOLEAN
  BY DEF Packet
<1>2. s.default # "ALLOW"
  <2>1. SUFFICES ASSUME s.default = "ALLOW" PROVE FALSE
    OBVIOUS
  <2>2. appliedPolicy(p, s) = WithDefault(p, s)
    BY <1>1 DEF appliedPolicy
  <2>3. WithDefault(p, s) \in {"ALLOW", "DEFAULT"}
    BY <1>1, <2>1 DEF WithDefault, Relax, Exempt
  <2> QED BY <2>1, <2>2, <2>3 DEF shouldForward
<1> QED BY <1>1, <1>2 DEF shouldNotify

-----------------------------------------------------------------------------
(* The packet loops. *)

\* The default settings are settings.
LEMMA InitialIsSetting == Initial \in Setting
BY DEF Initial, Setting, Policy

\* One setting may be taken over from the stored ones.
LEMMA DeliveredIsSetting ==
    ASSUME NEW s \in Setting, NEW t \in Setting, NEW k \in Keys
    PROVE  [s EXCEPT ![k] = t[k]] \in Setting
BY DEF Setting, Keys

\* What a packet loop remembers is not taken for a packet record.
LEMMA PacketIsRecord ==
    ASSUME TypeOK, NEW g \in Loops, packet[g] # None
    PROVE  /\ packet[g] \in [is : Packets, by : Setting]
           /\ packet[g].is \in Packets /\ packet[g].by \in Setting
<1>1. packet[g] \in [is : Packets, by : Setting]
  BY DEF TypeOK, LoopTypes
<1> QED BY <1>1

\* The first state satisfies the invariant.
LEMMA InitService == Init => ServiceInv
<1> SUFFICES ASSUME Init PROVE ServiceInv
  OBVIOUS
<1> USE DEF Init
<1>1. TypeOK
  <2>1. FlagTypes
    BY DEF FlagTypes
  <2>2. NumberTypes
    BY ServiceAssumption DEF NumberTypes
  <2>3. SettingTypes
    BY InitialIsSetting DEF SettingTypes
  <2>4. LoopTypes
    BY DEF LoopTypes
  <2> QED BY <2>1, <2>2, <2>3, <2>4 DEF TypeOK
<1>2. UpInv /\ StoppingInv /\ OldLoopsAreOut /\ RunningIsWanted
  BY DEF UpInv, StoppingInv, OldLoopsAreOut, RunningIsWanted
<1>3. VerdictInv
  BY DEF VerdictInv
<1>4. KnownSettingsKept
  BY DEF KnownSettingsKept, Loops
<1> QED BY <1>1, <1>2, <1>3, <1>4 DEF ServiceInv

-----------------------------------------------------------------------------
(* The threads of the packet loops change nothing of the service. *)

\* A step of a packet loop keeps the invariant.
LEMMA LoopStep ==
    ASSUME ServiceInv, NEW g \in Loops, PacketLoop(g)
    PROVE  ServiceInv'
<1> USE DEF service, settings, outside, history
<1>1. UNCHANGED <<service, settings, created, tun, outside, history>>
  BY DEF PacketLoop, RunStart, RunEnter, LoopEnds, ReadPacket, Decide, Handle, ReadFails, ReadEnds
<1>2. FlagTypes' /\ NumberTypes' /\ SettingTypes'
  BY <1>1 DEF ServiceInv, TypeOK, FlagTypes, NumberTypes, SettingTypes
<1>3. UpInv' /\ StoppingInv' /\ OldLoopsAreOut' /\ RunningIsWanted' /\ KnownSettingsKept'
  BY <1>1 DEF ServiceInv, UpInv, StoppingInv, OldLoopsAreOut, RunningIsWanted, KnownSettingsKept
<1>4. LoopTypes' /\ VerdictInv'
  <2> USE DEF ServiceInv, TypeOK, LoopTypes, VerdictInv
  <2>1. CASE RunStart(g)
    BY <2>1 DEF RunStart
  <2>2. CASE RunEnter(g)
    BY <2>2 DEF RunEnter
  <2>3. CASE LoopEnds(g)
    BY <2>3 DEF LoopEnds
  <2>4. CASE ReadPacket(g)
    <3>1. PICK p \in Packets : packet' = [packet EXCEPT ![g] = [is |-> p, by |-> fields[g]]]
      BY <2>4 DEF ReadPacket
    <3>2. [is |-> p, by |-> fields[g]] \in [is : Packets, by : Setting]
      BY DEF SettingTypes
    <3>3. [is |-> p, by |-> fields[g]] # None
      BY DEF None
    <3>4. pc' = [pc EXCEPT ![g] = "decide"] /\ UNCHANGED <<active, engine, tun>>
      BY <2>4 DEF ReadPacket
    <3> HIDE DEF None
    <3> QED BY <3>1, <3>2, <3>3, <3>4
  <2>5. CASE Decide(g)
    <3> DEFINE s == [fields[g] EXCEPT !.perApp = packet[g].by.perApp]
    <3>1. packet[g] # None
      BY <2>5 DEF Decide
    <3>2. packet[g].is \in Packets /\ packet[g].by \in Setting
      BY <3>1, PacketIsRecord
    <3>3. s \in Setting
      BY <3>2 DEF SettingTypes, Setting
    <3>4. packet' = [packet EXCEPT ![g] = [is |-> packet[g].is, by |-> s]]
      <4>1. packet[g] = [is |-> packet[g].is, by |-> packet[g].by]
        BY <3>1, PacketIsRecord
      <4>2. packet' = [packet EXCEPT ![g] = [@ EXCEPT !.by = s]]
        BY <2>5 DEF Decide
      <4>3. [packet[g] EXCEPT !.by = s] = [is |-> packet[g].is, by |-> s]
        BY <3>1, PacketIsRecord
      <4> QED BY <4>2, <4>3
    <3>5. pc' = [pc EXCEPT ![g] = IF shouldForward(packet[g].is, s) THEN "forward" ELSE "log"]
      BY <2>5 DEF Decide
    <3>6. [is |-> packet[g].is, by |-> s] # None
      BY DEF None
    <3>7. UNCHANGED <<active, engine, tun>>
      BY <2>5 DEF Decide
    <3> HIDE DEF None, s
    <3>8. [is |-> packet[g].is, by |-> s] \in [is : Packets, by : Setting]
      BY <3>2, <3>3
    <3>9. LoopTypes'
      BY <3>4, <3>5, <3>7, <3>8
    <3>10. VerdictInv'
      BY <3>4, <3>5, <3>6
    <3> QED BY <3>9, <3>10
  <2>6. CASE Handle(g)
    BY <2>6 DEF Handle
  <2>7. CASE ReadFails(g)
    BY <2>7 DEF ReadFails, stop
  <2>8. CASE ReadEnds(g)
    BY <2>8 DEF ReadEnds
  <2> QED BY <2>1, <2>2, <2>3, <2>4, <2>5, <2>6, <2>7, <2>8 DEF PacketLoop
<1> QED BY <1>2, <1>3, <1>4 DEF ServiceInv, TypeOK

-----------------------------------------------------------------------------
(* The callbacks of the service. *)

\* stopVPNThread leaves nothing that runs, whatever comes with it.
LEMMA StopStep ==
    ASSUME ServiceInv, stopVPNThread, StoppingInv',
           stopping' \in BOOLEAN, wanted' \in BOOLEAN,
           UNCHANGED <<installed, live, fields, created, pc, packet, outside, missed>>
    PROVE  ServiceInv'
<1> USE DEF stopVPNThread, stop, outside
<1>1. FlagTypes' /\ NumberTypes' /\ SettingTypes'
  <2>1. FlagTypes'
    BY DEF ServiceInv, TypeOK, FlagTypes
  <2>2. NumberTypes'
    BY DEF ServiceInv, TypeOK, NumberTypes
  <2>3. SettingTypes'
    BY DEF ServiceInv, TypeOK, SettingTypes
  <2> QED BY <2>1, <2>2, <2>3
<1>2. LoopTypes' /\ VerdictInv'
  BY DEF ServiceInv, TypeOK, LoopTypes, VerdictInv
<1>3. UpInv'
  BY DEF ServiceInv, UpInv
<1>4. OldLoopsAreOut'
  <2> SUFFICES ASSUME NEW g \in 1 .. created PROVE tun'[g] = "closed" /\ g \notin observers'
    BY DEF OldLoopsAreOut
  <2>1. g \in Loops
    BY ServiceAssumption DEF ServiceInv, TypeOK, NumberTypes, Loops
  <2> QED BY <2>1 DEF ServiceInv, OldLoopsAreOut, UpInv
<1>5. RunningIsWanted' /\ KnownSettingsKept'
  BY DEF RunningIsWanted, KnownSettingsKept, Loops
<1> QED BY <1>1, <1>2, <1>3, <1>4, <1>5 DEF ServiceInv, TypeOK

\* startVPNThread with a new interface: everything changes over to the new loop.
LEMMA EstablishedStep ==
    ASSUME ServiceInv, NEW keepSession \in BOOLEAN, Established(keepSession),
           wanted' = TRUE, StoppingInv'
    PROVE  ServiceInv'
<1> DEFINE g == created + 1
<1>1. /\ created < MaxLoops /\ g \in Loops /\ g # 0 /\ g \notin 1 .. created
      /\ created' = g /\ current' = g /\ running' = TRUE
  BY ServiceAssumption DEF Established, ServiceInv, TypeOK, NumberTypes, Loops
<1>2. FlagTypes'
  <2>1. callback' \in BOOLEAN /\ missed' \in BOOLEAN /\ refresh' \in BOOLEAN
    BY DEF Established
  <2>2. notice' \in BOOLEAN
    BY DEF Established
  <2> QED BY <1>1, <2>1, <2>2 DEF Established, ServiceInv, TypeOK, FlagTypes
<1>3. session' = SessionOf(g, keepSession) /\ session' \in 1 .. created'
  BY <1>1, ServiceAssumption DEF Established, SessionOf, ServiceInv, TypeOK, NumberTypes
<1>4. NumberTypes'
  <2>1. installed' = network /\ UNCHANGED <<network, netChanges, changes>>
    BY DEF Established
  <2>2. created' \in 0 .. MaxLoops /\ current' \in 0 .. created' /\ session' \in 0 .. created'
    BY <1>1, <1>3, ServiceAssumption DEF Loops, ServiceInv, TypeOK, NumberTypes
  <2> QED BY <2>1, <2>2 DEF ServiceInv, TypeOK, NumberTypes
<1>5. SettingTypes'
  BY DEF Established, observeForever, ServiceInv, TypeOK, SettingTypes
<1>6. LoopTypes' /\ VerdictInv'
  BY DEF Established, stop, ServiceInv, TypeOK, LoopTypes, VerdictInv
<1>7. observers' = {g}
  BY <1>1 DEF Established, observeForever, ServiceInv, UpInv
<1>8. UpInv'
  BY <1>1, <1>3, <1>7 DEF UpInv
<1>9. OldLoopsAreOut'
  <2> SUFFICES ASSUME NEW h \in 1 .. created', h # g PROVE tun'[h] = "closed" /\ h \notin observers'
    BY <1>1 DEF OldLoopsAreOut
  <2>1. h \in 1 .. created /\ h \in Loops
    BY <1>1, ServiceAssumption DEF ServiceInv, TypeOK, NumberTypes, Loops
  <2>2. tun'[h] = IF h = current THEN "closed" ELSE tun[h]
    BY <2>1 DEF Established
  <2> QED BY <1>7, <2>1, <2>2 DEF ServiceInv, OldLoopsAreOut
<1>10. KnownSettingsKept'
  BY <1>1 DEF Established, observeForever, KnownSettingsKept, ServiceInv, TypeOK, SettingTypes
<1>11. RunningIsWanted'
  BY DEF RunningIsWanted
<1> QED BY <1>2, <1>4, <1>5, <1>6, <1>8, <1>9, <1>10, <1>11 DEF ServiceInv, TypeOK

\* A start command: a new loop, or nothing.
LEMMA StartStep == ServiceInv /\ StartCommand => ServiceInv'
<1> SUFFICES ASSUME ServiceInv, StartCommand PROVE ServiceInv'
  OBVIOUS
<1>1. CASE Established(FALSE)
  BY <1>1, EstablishedStep DEF StartCommand, Established, StoppingInv
<1>2. CASE NotEstablished(FALSE)
  <2>1. stopVPNThread /\ wanted' = TRUE /\ stopping' = FALSE
    BY <1>2 DEF StartCommand, NotEstablished, ServiceInv, TypeOK, FlagTypes
  <2>2. UNCHANGED <<installed, live, fields, created, pc, packet, outside, missed>>
    BY <1>2 DEF NotEstablished
  <2> QED BY <2>1, <2>2, StopStep DEF StoppingInv
<1> QED BY <1>1, <1>2 DEF StartCommand

\* Refused starts, stop commands, revocation and destruction leave nothing up.
LEMMA DownStep == ServiceInv /\ (StartRefused \/ StopCommand \/ onRevoke \/ onDestroy) => ServiceInv'
<1> SUFFICES ASSUME ServiceInv, StartRefused \/ StopCommand \/ onRevoke \/ onDestroy
             PROVE  ServiceInv'
  OBVIOUS
<1>1. CASE StartRefused
  BY <1>1 DEF StartRefused, settings, loops, outside, history, ServiceInv, TypeOK, FlagTypes,
              NumberTypes, SettingTypes, LoopTypes, UpInv, StoppingInv, VerdictInv,
              OldLoopsAreOut, RunningIsWanted, KnownSettingsKept
<1>2. CASE StopCommand
  <2>1. CASE running
    <3>1. stopVPNThread /\ stopping' = TRUE /\ wanted' = FALSE /\ ~running'
      BY <1>2, <2>1 DEF StopCommand, stopVPNThread
    <3>2. UNCHANGED <<installed, live, fields, created, pc, packet, outside, missed>>
      BY <1>2 DEF StopCommand
    <3> QED BY <3>1, <3>2, StopStep DEF StoppingInv
  <2>2. CASE ~running
    <3>1. /\ UNCHANGED <<running, current, callback, refresh, installed, session, settings>>
          /\ UNCHANGED <<loops, outside, missed>>
          /\ stopping' = TRUE /\ wanted' = FALSE
      BY <1>2, <2>2 DEF StopCommand, settings, loops
    <3>2. TypeOK'
      <4>1. FlagTypes'
        BY <3>1 DEF outside, ServiceInv, TypeOK, FlagTypes
      <4>2. NumberTypes' /\ SettingTypes' /\ LoopTypes'
        BY <3>1 DEF settings, loops, outside, ServiceInv, TypeOK, NumberTypes, SettingTypes,
                    LoopTypes
      <4> QED BY <4>1, <4>2 DEF TypeOK
    <3>3. UpInv' /\ VerdictInv' /\ OldLoopsAreOut' /\ KnownSettingsKept'
      BY <3>1 DEF settings, loops, ServiceInv, UpInv, VerdictInv, OldLoopsAreOut,
                  KnownSettingsKept
    <3>4. StoppingInv' /\ RunningIsWanted'
      BY <2>2, <3>1 DEF StoppingInv, RunningIsWanted
    <3> QED BY <3>2, <3>3, <3>4 DEF ServiceInv
  <2> QED BY <2>1, <2>2
<1>3. CASE onRevoke
  BY <1>3, StopStep DEF onRevoke, stopVPNThread, StoppingInv
<1>4. CASE onDestroy
  <2>1. ~running /\ current = 0 /\ session = 0
    BY <1>4 DEF onDestroy, ServiceInv, UpInv, StoppingInv, TypeOK, FlagTypes
  <2>2. UNCHANGED <<running, current, session, observers, fields, loops, wanted, missed>>
    <3>1. running = FALSE
      BY <2>1 DEF ServiceInv, TypeOK, FlagTypes
    <3> QED BY <1>4, <2>1, <3>1 DEF onDestroy, history
  <2>3. TypeOK'
    <3>1. FlagTypes'
      BY <1>4, <2>2 DEF onDestroy, ServiceInv, TypeOK, FlagTypes
    <3>2. NumberTypes'
      BY <1>4, <2>2 DEF onDestroy, loops, ServiceInv, TypeOK, NumberTypes
    <3>3. SettingTypes' /\ LoopTypes'
      BY <1>4, <2>2, InitialIsSetting DEF onDestroy, loops, ServiceInv, TypeOK, SettingTypes,
                                          LoopTypes
    <3> QED BY <3>1, <3>2, <3>3 DEF TypeOK
  <2>4. UpInv' /\ StoppingInv' /\ VerdictInv' /\ OldLoopsAreOut' /\ RunningIsWanted'
    BY <1>4, <2>1, <2>2 DEF onDestroy, loops, ServiceInv, UpInv, StoppingInv, VerdictInv,
              OldLoopsAreOut, RunningIsWanted
  <2>5. KnownSettingsKept'
    BY <2>1, <2>2 DEF KnownSettingsKept, Loops
  <2> QED BY <2>3, <2>4, <2>5 DEF ServiceInv
<1> QED BY <1>1, <1>2, <1>3, <1>4

\* The network callback, the route refresh and the delivery of settings.
LEMMA UpdateStep ==
    ServiceInv /\ (scheduleRouteRefresh \/ RefreshNothing \/ RefreshRoutes
                   \/ \E k \in Keys : Deliver(k)) => ServiceInv'
<1> SUFFICES ASSUME ServiceInv, scheduleRouteRefresh \/ RefreshNothing \/ RefreshRoutes
                                \/ \E k \in Keys : Deliver(k)
             PROVE  ServiceInv'
  OBVIOUS
<1>1. CASE scheduleRouteRefresh \/ RefreshNothing
  <2>1. /\ UNCHANGED <<running, current, callback, installed, session, stopping, settings, loops>>
        /\ UNCHANGED <<network, netChanges, consent, store, changes, history>>
        /\ notice' \in BOOLEAN /\ refresh' \in BOOLEAN
    BY <1>1 DEF scheduleRouteRefresh, RefreshNothing, outside, ServiceInv, TypeOK, FlagTypes
  <2>2. FlagTypes'
    BY <2>1 DEF history, ServiceInv, TypeOK, FlagTypes
  <2>3. NumberTypes' /\ SettingTypes' /\ LoopTypes'
    BY <2>1 DEF settings, loops, ServiceInv, TypeOK, NumberTypes, SettingTypes, LoopTypes
  <2>4. UpInv' /\ StoppingInv' /\ VerdictInv'
    BY <2>1 DEF settings, loops, ServiceInv, UpInv, StoppingInv, VerdictInv
  <2>5. OldLoopsAreOut' /\ RunningIsWanted' /\ KnownSettingsKept'
    BY <2>1 DEF settings, loops, history, ServiceInv, OldLoopsAreOut, RunningIsWanted,
                KnownSettingsKept
  <2> QED BY <2>2, <2>3, <2>4, <2>5 DEF ServiceInv, TypeOK
<1>2. CASE RefreshRoutes
  <2>1. running /\ wanted /\ wanted' = TRUE /\ ~stopping
    BY <1>2 DEF RefreshRoutes, ServiceInv, RunningIsWanted, StoppingInv, TypeOK, FlagTypes
  <2>2. CASE Established(TRUE)
    BY <2>1, <2>2, EstablishedStep DEF Established, StoppingInv
  <2>3. CASE NotEstablished(TRUE)
    <3>1. /\ UNCHANGED <<running, current, callback, installed, session, stopping, settings, loops>>
          /\ UNCHANGED outside
          /\ missed' = TRUE /\ refresh' = FALSE
      BY <2>1, <2>3 DEF NotEstablished, settings, loops
    <3>2. FlagTypes'
      BY <2>1, <3>1 DEF outside, ServiceInv, TypeOK, FlagTypes
    <3>3. NumberTypes' /\ SettingTypes' /\ LoopTypes'
      BY <3>1 DEF settings, loops, outside, ServiceInv, TypeOK, NumberTypes, SettingTypes,
                  LoopTypes
    <3>4. UpInv' /\ StoppingInv' /\ VerdictInv'
      BY <3>1 DEF settings, loops, ServiceInv, UpInv, StoppingInv, VerdictInv
    <3>5. OldLoopsAreOut' /\ KnownSettingsKept'
      BY <3>1 DEF settings, loops, ServiceInv, OldLoopsAreOut, KnownSettingsKept
    <3>6. RunningIsWanted'
      BY <2>1 DEF RunningIsWanted
    <3> QED BY <3>2, <3>3, <3>4, <3>5, <3>6 DEF ServiceInv, TypeOK
  <2> QED BY <1>2, <2>2, <2>3 DEF RefreshRoutes
<1>3. ASSUME NEW k \in Keys, Deliver(k) PROVE ServiceInv'
  <2>1. live' \in Setting /\ UNCHANGED <<service, observers, loops, outside, history>>
    BY <1>3, ServiceAssumption, DeliveredIsSetting
       DEF Deliver, ServiceInv, TypeOK, SettingTypes
  <2>2. fields' \in [Loops -> Setting]
    <3>1. store \in Setting
      BY ServiceAssumption DEF ServiceInv, TypeOK, SettingTypes
    <3>2. \A g \in Loops : [fields[g] EXCEPT ![k] = store[k]] \in Setting
      BY <1>3, <3>1, DeliveredIsSetting DEF ServiceInv, TypeOK, SettingTypes
    <3> QED BY <1>3, <3>2 DEF Deliver, ServiceInv, TypeOK, SettingTypes
  <2>3. FlagTypes' /\ NumberTypes' /\ SettingTypes' /\ LoopTypes'
    BY <2>1, <2>2 DEF service, loops, outside, history, ServiceInv, TypeOK, FlagTypes,
                      NumberTypes, SettingTypes, LoopTypes
  <2>4. UpInv' /\ StoppingInv' /\ VerdictInv' /\ OldLoopsAreOut' /\ RunningIsWanted'
    BY <2>1 DEF service, loops, history, ServiceInv, UpInv, StoppingInv, VerdictInv,
                OldLoopsAreOut, RunningIsWanted
  <2>5. KnownSettingsKept'
    <3> SUFFICES ASSUME NEW g \in Loops, g = current PROVE fields'[g] = live'
      BY <2>1 DEF service, KnownSettingsKept
    <3>1. g \in observers /\ fields[g] = live
      BY DEF ServiceInv, UpInv, KnownSettingsKept, Loops
    <3> QED BY <1>3, <3>1 DEF Deliver
  <2> QED BY <2>3, <2>4, <2>5 DEF ServiceInv, TypeOK
<1> QED BY <1>1, <1>2, <1>3

\* The platform and the user change nothing that the service has to keep.
LEMMA PlatformStep == ServiceInv /\ Platform => ServiceInv'
<1> SUFFICES ASSUME ServiceInv, Platform PROVE ServiceInv'
  OBVIOUS
<1>1. UNCHANGED <<service, settings, created, pc, active, engine, packet, history>>
  BY DEF Platform, NetworkChanges, Revoked, ConsentGiven, SettingsChange, loops
<1>2. FlagTypes'
  <2>1. notice' \in BOOLEAN /\ consent' \in BOOLEAN
    BY DEF Platform, NetworkChanges, Revoked, ConsentGiven, SettingsChange, ServiceInv, TypeOK,
           FlagTypes
  <2> QED BY <1>1, <2>1 DEF service, history, ServiceInv, TypeOK, FlagTypes
<1>3. NumberTypes'
  BY <1>1, ServiceAssumption DEF Platform, NetworkChanges, Revoked, ConsentGiven, SettingsChange,
           service, ServiceInv, TypeOK, NumberTypes
<1>4. SettingTypes'
  BY <1>1 DEF Platform, NetworkChanges, Revoked, ConsentGiven, SettingsChange, settings,
           ServiceInv, TypeOK, SettingTypes
<1>5. /\ tun' \in [Loops -> {"none", "open", "dead", "closed"}]
      /\ \A g \in Loops : g # current => tun'[g] = tun[g]
  BY DEF Platform, NetworkChanges, Revoked, ConsentGiven, SettingsChange, loops, ServiceInv,
         TypeOK, LoopTypes
<1>6. LoopTypes' /\ VerdictInv'
  BY <1>1, <1>5 DEF ServiceInv, TypeOK, LoopTypes, VerdictInv
<1>7. UpInv' /\ StoppingInv' /\ RunningIsWanted' /\ KnownSettingsKept'
  BY <1>1 DEF service, settings, history, ServiceInv, UpInv, StoppingInv, RunningIsWanted,
              KnownSettingsKept
<1>8. OldLoopsAreOut'
  <2>1. 1 .. created \subseteq Loops
    BY ServiceAssumption DEF ServiceInv, TypeOK, NumberTypes, Loops
  <2> QED BY <1>1, <1>5, <2>1 DEF service, settings, ServiceInv, OldLoopsAreOut
<1> QED BY <1>2, <1>3, <1>4, <1>6, <1>7, <1>8 DEF ServiceInv, TypeOK

\* A step that changes nothing keeps the invariant.
LEMMA StutterStep == ServiceInv /\ UNCHANGED vars => ServiceInv'
BY DEF vars, service, settings, loops, outside, history, ServiceInv, TypeOK, FlagTypes,
       NumberTypes, SettingTypes, LoopTypes, UpInv, StoppingInv, VerdictInv, OldLoopsAreOut,
       RunningIsWanted, KnownSettingsKept

\* Every step keeps the invariant.
LEMMA NextService == ServiceInv /\ [Next]_vars => ServiceInv'
BY LoopStep, StartStep, DownStep, UpdateStep, PlatformStep, StutterStep DEF Next, Main

-----------------------------------------------------------------------------
(* Theorems *)

\* The fields of the service, the interfaces and observers of its loops and
\* the settings they go by agree after every callback, in every order of them.
THEOREM ServiceInvariant == Spec => []ServiceInv
BY InitService, NextService, PTL DEF Spec

\* stopVPNThread and startVPNThread leave no old loop with an open interface
\* or an observer, however often the routes change.
THEOREM OldLoopsTornDown == Spec => []OldLoopsAreOut
BY ServiceInvariant, PTL DEF ServiceInv

\* No late route refresh brings a stopped service up again.
THEOREM StoppedStaysStopped == Spec => []RunningIsWanted
BY ServiceInvariant, PTL DEF ServiceInv

\* A packet loop decides as the settings it has mean, for every packet.
THEOREM LoopsDecideAsDocumented == Spec => []DecidesAsDocumented
<1>1. ServiceInv => DecidesAsDocumented
  <2> SUFFICES ASSUME ServiceInv, NEW g \in Loops, pc[g] \in {"forward", "log"},
                      Settled(packet[g].is, packet[g].by)
               PROVE  pc[g] = "forward" <=> Permitted(packet[g].is, packet[g].by)
    BY DEF DecidesAsDocumented
  <2>1. packet[g].is \in Packets /\ packet[g].by \in Setting
    BY PacketIsRecord DEF ServiceInv, VerdictInv
  <2>2. packet[g].is \in Packet
    BY <2>1, ServiceAssumption
  <2>3. pc[g] = "forward" <=> shouldForward(packet[g].is, packet[g].by)
    BY DEF ServiceInv, VerdictInv
  <2> QED BY <2>1, <2>2, <2>3, ForwardsWhatIsPermitted
<1> QED BY <1>1, ServiceInvariant, PTL

\* A session lasts as long as the service is up.
THEOREM SessionsAreRuns == Spec => SessionIsOneRun
<1>1. ServiceInv => (running <=> session # 0)
  BY DEF ServiceInv, UpInv
<1>2. ServiceInv /\ [Next]_vars => [running /\ running' => session' = session]_vars
  <2> SUFFICES ASSUME ServiceInv, Next, running, running' PROVE session' = session
    BY DEF vars
  <2>1. CASE \E g \in Loops : PacketLoop(g)
    BY <2>1 DEF PacketLoop, RunStart, RunEnter, LoopEnds, ReadPacket, Decide, Handle, ReadFails,
                ReadEnds, service
  <2>2. CASE Platform \/ \E k \in Keys : Deliver(k)
    BY <2>2 DEF Platform, NetworkChanges, Revoked, ConsentGiven, SettingsChange, Deliver, service
  <2>3. CASE scheduleRouteRefresh \/ RefreshNothing
    BY <2>3 DEF scheduleRouteRefresh, RefreshNothing
  <2>4. CASE StartCommand \/ StartRefused \/ StopCommand \/ onRevoke \/ onDestroy
    BY <2>4 DEF StartCommand, StartRefused, StopCommand, onRevoke, onDestroy, stopVPNThread
  <2>5. CASE RefreshRoutes
    <3>1. session # 0
      BY DEF ServiceInv, UpInv
    <3> QED BY <2>5, <3>1 DEF RefreshRoutes, Established, SessionOf, NotEstablished
  <2> QED BY <2>1, <2>2, <2>3, <2>4, <2>5 DEF Next, Main
<1> QED BY <1>1, <1>2, ServiceInvariant, PTL DEF Spec, SessionIsOneRun
=============================================================================
