# LANShield: specifications of the service and its forwarding engine

LANShield is an Android firewall for the local network. A `VpnService` routes
LAN traffic into a TUN device; a packet loop decides for each packet whether its
app may send it and hands what may pass to a user-space TCP/UDP engine (a
descendant of HTTP Toolkit's), which terminates the app's connections and
re-opens them on protected sockets. The first packets of a flow are labelled by
nDPI, a C library in the repository; flows, policies and sessions are kept in a
database, from which a worker uploads them to a research backend. This directory
holds TLA+ models of the service, its decisions, the engine, the upload and the
packet inspection, the TLC configurations that check them, and TLAPS proofs.

Paths below are relative to `src/app/src/main/java/`; the engine is
`tech/httptoolkit/android/vpn`, the rest `org/distrinet/lanshield`; C files are
below `src/app/src/main/jni/`.

## 1. Inventory

| part | state | operations | interacts with |
|---|---|---|---|
| packet loop (`vpnservice/VPNRunnable.kt`) | policy fields and cache, running flag | read a packet, find its app, decide, forward or log | calls `PolicyEngine`, `SessionHandler`; fed by LiveData observers |
| policy (`vpnservice/PolicyEngine.kt`) | none | `decide` | pure |
| VPN service (`vpnservice/VPNService.kt`) | tunnel, thread, network callback, session row | start, stop, revoke, destroy, route refresh | owns the packet loop |
| packet handler (`SessionHandler.java`) | none of its own | TCP, UDP, ICMP packet of an app | session table, sessions, NIO service, packet writer |
| session table (`SessionManager.java`) | 5-tuple -> session | create, look up, keep alive, close | both threads |
| session (`Session.java`) | sequence numbers, window, staging, sending stream, datagrams, flags, selection key | accessors | both threads, under its monitor |
| NIO service (`socket/SocketNIODataService.java`) | selector, two locks, shutdown flag | register, refresh, run | sessions' keys and monitors |
| reader and writer (`socket/SocketChannelReader.java`, `SocketChannelWriter.java`) | none | read, pump, write | session, upstream socket, packet writer |
| packet writer (`ClientPacketWriter.java`) | queue | write, run | TUN device |
| packet factories (`transport/`, `util/`) | none | parse, build | pure |
| backend sync (`backendsync/`) | database rows | upload flows, policies, sessions, ports | database, shared with UI and packet loop |
| packet inspection (`lanshield-dpi.c`, `ndpi/lib/`) | one detection module with its caches, one static flow, one serializer | inspect a packet, report it as JSON | called by the packet loop under a lock |
| serializer (`ndpi/lib/ndpi_serializer.c`) | buffer, header, status flags, snapshot | append a value, open and close blocks, lists and records, roll back, read TLV | used by the report |
| notifications, database, UI | | | see `PROJECT.json` |

Two threads do the forwarding. The *VPN thread* runs the packet loop and
`SessionHandler`; the *NIO thread* runs the selector. They meet in a session's
monitor, in the session table (a concurrent map, no lock), in the interest sets
of selection keys, and in the two locks around the selector. A third thread
writes the packets for the app. The service's callbacks run on the main thread,
which starts these three with each packet loop and delivers settings to it.

What is hard here:

* the engine acknowledges the app's data before it has delivered it and never
  retransmits what it sends to the app, so every mistake is a loss for good;
* a session is looked up before its monitor is taken, and a selected key waits
  for the monitor: what was true at the lookup may not be true inside;
* window, staging, backpressure and a deferred FIN meet in a pump that either
  thread may run;
* 32-bit sequence numbers wrap, and are parsed with a sign;
* one thread's change of an interest set must reach a `select()` under way;
* rows are uploaded, marked and deleted while others change them, and a request
  whose answer is lost may have been taken;
* a dissector of nDPI goes through stages packet by packet, and packets come
  lost, doubled and out of order, in LANShield all of them in one flow;
* every JSON call of the serializer rewrites the end of the text the last one
  left, and may find no memory;
* a packet loop is replaced while it runs, or stopped before it has begun, and
  knows the user's settings only once they have been delivered.

What makes each part correct is stated in section 3; the full list of hazards,
each at its line, is in `PROJECT.json`.

## 2. Modules

| module | models | code |
|---|---|---|
| `TcpDownload`, `TcpDownloadProofs` | client direction of one TCP connection, and its theorems | `SocketChannelReader`, ACK handling of `SessionHandler` |
| `BytePipe` | what the client direction promises, as an abstract specification | |
| `TcpUpload`, `TcpUploadProofs` | server direction of one TCP connection, and its theorems | data handling of `SessionHandler`, `SocketChannelWriter` |
| `TcpLifecycle`, `TcpLifecycleProofs` | the sessions of one TCP 5-tuple, and its theorems | `SessionManager`, `replySynAck`, `ackFinAck`, `resetTCPConnection`, `runTask` |
| `UdpForwarding`, `UdpForwardingProofs` | the sessions and datagrams of one UDP 5-tuple, and its theorems | `handleUDPPacket`, `writePendingUDPData`, `readUDP` |
| `NioSelector`, `NioSelectorProofs` | the locks around the selector, and its theorems | `SocketNIODataService` |
| `PolicyEngine` | the decision about a packet and what the settings mean | `PolicyEngine` |
| `VpnService`, `VpnServiceProofs` | the service, its packet loops and their settings, and the theorems about it and `PolicyEngine` | `VPNService`, `VPNRunnable` |
| `BackendSync`, `BackendSyncProofs` | the upload and the tables it shares with others, and its theorems | `SendToServerWorker`, the DAOs, `VPNService`'s session rows |
| `NdpiFlow` | packets, flows and the primitives of dissectors | `ndpi_main.c`, `ndpi_utils.c` |
| `NdpiServices`, `NdpiData`, `NdpiRemote`, `NdpiMedia`, `NdpiNames`, `NdpiMail`, `NdpiWeb`, `NdpiTls`, `NdpiPeer` | the dissectors, by the kind of protocol | `ndpi/lib/protocols/` |
| `NdpiDefaults` | default ports and the order of the dissectors | `ndpi_init_protocol_defaults`, `ndpi_set_protocol_detection_bitmask2` |
| `NdpiEngine` | one packet through the library, and giving up | `ndpi_main.c` |
| `LanshieldDpi` | the library in use; `MCDpi` joins it with the above | `lanshield-dpi.c` |
| `NdpiSerializer` | the serializer and the deserializer | `ndpi_serializer.c` |
| `SerializerUse`, `SerializerProofs` | three serializers under the same calls, the report of a packet, and their theorems | `ndpi_dpi2json`, `_doDPI` |
| `DpiSamples`, `MC...` | conversations to inspect, and the instances for TLC | |

Definitions named *Faulty variant* are what a plausible mistake would make of
the definition that follows; no specification uses them. `PROJECT.json` pairs
each with the property that must catch it.

### TcpDownload
State: the fields of `Session` the direction uses (`sendUnack`, `sendNext`,
`clientWindow`, staging as a number of bytes, `upstreamEof`,
`abortingConnection`, whether the session is open, the interest in OP_READ and
OP_WRITE), the thread in the monitor and how far it has come, the upstream
socket, both directions of the TUN device, and the app's TCP with a finite
receive buffer. Each iteration of the pump and of the read loop is a step, so
the app and the upstream move in between; the other thread cannot, since the
monitor is held. Packets carry numbers modulo `Mod`; the field `abs` is history.

Properties: `NoOverrun` (no byte outside the app's buffer), `AckReconstruction`
(`acceptAck` rebuilds the absolute number), `StagingBounded`, `NothingStranded`,
and `EventuallyDelivered` under fairness.

`BytePipe` says what all of this is for, without threads, windows, segments or
staging: bytes are offered, arrive in order in a bounded buffer and are consumed,
and the end is seen behind the last byte. `Pipe` in `TcpDownload` maps what the
upstream host has sent, what the app's TCP has received and what the app has read
onto it; `ImplementsPipe` is checked by TLC and proved.

### TcpUpload
The bytes of `sendingStream` are their numbers in the app's stream, so that
loss, repetition and order can be seen in what the upstream has taken. An action
is one stay in the monitor. Sequence numbers are parsed with a sign (`Signed`),
`recSequence` is wide, as in the code. The app's TCP retransmits, sends pure
ACKs, probes, FIN (alone or with the last data) and RST. The socket takes a
write whole, in part or, when it is full, not at all; then `sendingStream` gets
what `buffer.compact()` leaves behind its position. `AckedIsTaken` is the
counterpart of `IntactIsPrefix`: nothing is acknowledged that the engine has not
taken, since the app will not send it again. `intact` is history and ends the
claims when a write is cut short or a probe sets `recSequence` back.

### TcpLifecycle
No bytes, but all of the control of a session's life: the VPN thread's lookup
and entry are two steps, so are the NIO thread's selection of a key and its
entry. A packet carries the app's connection it belongs to; the app's TCP tells
old packets by it (its sequence numbers), the engine does not look.

### UdpForwarding
Lookup or creation, entry and `keepSessionAlive` are three steps of the VPN
thread, as in the code; the NIO thread's events are one step each.

### NioSelector
Every lock operation is a step: `tryLock`, `lock`, `unlock`, `wakeup`,
`register`, entering and leaving `select()`, entering and leaving a monitor.

### PolicyEngine
`decide` as operators on a packet (what is known of its protocol, app and
destination) and the settings. `Permitted` says what the settings mean: the
app's own policy first, else the default, which the policy for system apps and
the exemptions of multicast and DNS can only relax. `Settled` leaves out two
cases in which the code has no single meaning: a default that was never chosen,
and a packet without a known app that is both multicast and DNS, where only the
exemption of multicast is looked at (with an app both are).

### VpnService
A callback of the service is one action, since all of them run on the main
thread: `startVPNThread` is `Established` or `NotEstablished`, used by the start
command and by the route refresh; `stopVPNThread` is part of stop, revocation
and failure. The thread of each packet loop has a program counter: it starts the
NIO and writer threads, sets its flag, and then reads, decides and handles
packets. The app's policy is looked up before the other fields are read
(`ReadPacket`, `Decide`), so a delivery may come between. `live` is what the
LiveData hold, `store` what the user has chosen, `fields` what each loop knows.
Assumed of the platform: the read of a closed or revoked interface fails, and a
network callback that was begun runs to its end even if it is unregistered.

### BackendSync
The worker goes from request to request; a DAO call is a step, a request two (it
leaves, its answer is applied), and in between the packet threads, the user, the
service's coroutines and a port scan change the tables. A request may be lost
before or after the backend took it, or be answered in part (`named` are the
sessions whose entry in the answer can be read; none, if it is for another
installation): the next run begins anew. `Killed` is the process killed: the
tables, the data store and what has reached the backend remain, the worker's run,
the service's session object and the coroutines that were to write its row
(`VPNService.kt:244`, `:433`) are gone for good. So a session whose end was still
to be written keeps its row without an end, and `EverythingArrives` is about what
the tables and the service still hold (`LastEnd`). The history variable `raced` keeps the
policies and scans that changed while they were uploaded, which `setAllSynced`
and `deleteAll` mark and delete unseen (`SendToServerWorker.kt:175`, `:224`);
`DoneIsUploaded` excepts just these.

### nDPI
A dissector is an operator from packet and flow to the flow it leaves behind, in
the stages, conditions and exclusions of its C function. A packet is what the
dissectors ask of it: its headers, the bytes and texts that are told apart, and
where the code parses lines or records, these. The engine parses the headers,
tracks the connection and its retransmissions, guesses by port and address, tries
the dissectors in the order of `NdpiDefaults` and gives up with a guess; the
caches of the module are part of the flow while a packet is inspected.

`LanshieldDpi` has two modes. One is `_doDPI`: a static flow, cleared for every
packet, and given up after it; `init_dpi` may fail. The other is a caller that
keeps a flow per connection, as the library is written for. In both the packets
of a conversation come lost, doubled and in any order. `Recognised`, `BothSides`
and `DetectionLasts` are about the second, `CacheExplains` is
about the first. The module uses the library only through its two entry points,
which are constants (`Detect`, `GiveUp`) that `Dpi.cfg` gives the operators of
`NdpiEngine`. Abstractions: fields C keeps in unions are separate; categories
are left out where no dissector reads them; no risk masks are loaded; the
Aho-Corasick automata and the address tables hold one sample each; the caches
have `CacheSlots` slots of exact keys; the build has no libgcrypt, so the
encrypted initial packets of QUIC stay closed. Dissectors of protocols LANShield
does not enable are never called and not modelled.

### The serializer
Buffers are sequences of cells (a bracket, a key, a value, a type byte) of which
`used` are valid; the rest stays, as in the C buffer, for a rollback. A call may
find no memory for the buffer or the header; where it finds memory, the room it
asked for is taken to be enough (the code asks for four bytes for a 64-bit value,
`ndpi_serializer.c:1314`). Whether a separator is due is decided by bytes, as in
`ndpi_serialize_csv_pre`: `NoByte` tells whether the cells written so far have
any. The caller's texts end in a NUL; those the clone cuts out of the TLV buffer
do not, and the parameter `nul` says so. The same calls go
to a JSON, a CSV and a TLV serializer, so that the three can be compared. `marks`
remembers what the code shows differently or leaves broken, and the properties
say which marks they except:

* a block opened after the first record: its brace goes behind the array's
  bracket (`ndpi_serializer.c:1999`);
* a raw record that finds no memory, and a rollback to the middle of a list or of
  a later record;
* a report in which the call for a brace finds no memory, which `ndpi_dpi2json`
  ignores;
* TLV holds neither booleans nor raw text nor formats, and keeps 64-bit values of
  2^31 to 2^32 - 1 in 32 bits;
* CSV prints a 32-bit number under a name unsigned and with room for nine digits
  (`ndpi_serializer.c:1286`, mark `digits`), and a text under a numeric key up to
  a NUL (`:1114`), beyond its end when it comes from the TLV buffer (`slice`).
  `ClonesMatch` compares no CSV text in which one of these occurs;
* a first value without a byte leaves no separator behind it
  (`ndpi_serializer.c:680`): the header then names one column more than the line
  has fields. `CsvColumns` excepts such a line (`SeparatorLost`), and only it.

## 3. Runs

Each row is a run of `PROJECT.json`. *Violation* runs state what a comment of
the code says and show that the code does otherwise; the finding quotes it.

| run | question | result |
|---|---|---|
| `download` | is the client direction safe under every interleaving, does it implement the pipe, and does an app that reads get everything? | holds |
| `upload` | below 2^31: does the upstream get a prefix, is what is acknowledged taken, is everything written, does the writer come to rest? | holds, the first three until a write is cut short or a probe comes |
| `upload_partial_write` | is a write cut short resumed correctly? | violated: of n bytes of which p were taken the last p are put back instead of the last n - p |
| `selector` | is the lock protocol safe and free of deadlock, are events served, does shutdown stop the thread? | holds |
| `lifecycle` | do table, key and channel agree, and are the connections of one port kept apart, failures included? | holds |
| `lifecycle_live` | can the port be used again, does no closed session come back, and does every connect settle? | holds without the failures of `lifecycle` |
| `udp` | order, one live session, no forgotten datagram | holds |
| `service` | do starts, stops, refreshes, revocations and failures leave one loop with the right settings and nothing else, do old loops end, do the routes follow? | holds |
| `service_start_open` | is what the user blocks blocked? | violated after a start, until the settings are delivered |
| `sync` | is what is marked uploaded, is no flow sent twice in a pass, does everything that is left arrive over losses, retries, rivals and a killed process? | holds |
| `dpi` | is an undisturbed conversation recognised, whatever is doubled; do one side's packets never pass for two; does a detection last; does the static flow carry nothing over but the caches? | holds |
| `serializer` | does the text parse, do the formats agree, does a failed call change nothing and a rollback restore? | holds, marks excepted |

The type invariants that no run lists (`TcpUpload`, `TcpLifecycle`,
`UdpForwarding`, `BackendSync`) document the variables.

Constants switch single behaviours of the environment on and off, and a passing
run says by its constants what its result rests on. `upload` has everything on
but sequence numbers that cross 2^31; its history variable `intact` says whether
a write was cut short or a probe has set `recSequence` back, after which the
code keeps none of the promises about content. `lifecycle` and `service` have
everything on; `lifecycle_live` has refused connections, failing creation, RST
and a FIN without ACK off. What is switched off is where the code departs from
the property. The violation runs show the most important cases; the modules
contain more that no run asks about:

* sequence numbers are parsed with a sign, so that past 2^31 new data looks old,
  is dropped and acknowledged (`SessionHandler.java:185`, `Signed`): with
  `ClientIsn = 14` in `Upload.cfg` TLC finds `AckedIsTaken` violated at the
  second byte;
* an acknowledgement that comes with data is not read, so that it opens no window
  (`SessionHandler.java:201`, `MaxUploads`);
* a UDP session the NIO thread has just closed goes back into the table
  (`SessionHandler.java:142`), and one whose flow could not be inserted stays there
  without a key (`SessionManager.java:187`);
* a process that is killed loses the end of the session under way
  (`VPNService.kt:244`, `Killed`);
* a FIN that carries PSH is not answered (`SessionHandler.java:214`, `FinPushes`);
* a FIN or the upstream's end of stream closes the session with acknowledged
  data still in `sendingStream` (`SessionHandler.java:277`);
* a keep-alive probe sets `recSequence` back by one (`SessionHandler.java:393`,
  `KeepAlives`);
* a refused connection leaves its closed session in the table
  (`SocketNIODataService.java:170`, `ConnectMayFail`), so that the port stays
  blocked until a FIN comes;
* a RST only marks the session, which stays until the upstream has something to
  report (`SessionHandler.java:416`);
* the end of the TUN device ends the packet loop but not its NIO and writer
  threads (`VPNRunnable.kt:270`, `TunMayEnd`; `LoopsEnd` excepts it);
* a refresh that fails to establish leaves the old routes until the next network
  change (`VPNService.kt:398`; `RoutesFollow` excepts it);
* every packet meets a cleared flow, so that protocols told by request and answer
  are never confirmed in LANShield (`lanshield-dpi.c:138`).

Outside of the models, but worth knowing: `sendingStream` and the packet writer's
queue have no bound (`Session.java:199`, `ClientPacketWriter.java:59`), and
`TIME_OF_LAST_SYNC` is the time of the answer, so that app usage between reading
the statistics and the answer is sent by no run (`SendToServerWorker.kt:238`).

### Bounds
* `TcpDownload`: four bytes, a sequence space of 8 starting at 6 so that it
  wraps, segments of two bytes, a window field of at most 1 scaled by 2 over a
  buffer of 2 (the window closes, is rounded down and reopens), staging cap 2,
  reads of one byte (backpressure starts and ends, and staging is more than a
  window), two packets in the TUN device (acknowledgements and window updates are
  late), one upload, and an app and an upstream that may give up.
* `TcpUpload`: two bytes in packets of up to two, two queued packets, three
  retransmissions, pure ACKs or probes: enough for a retransmission behind new
  data, which is the case that matters, and for a write of two bytes of which one
  or none is taken. The proofs cover the rest. `upload_partial_write` has four
  bytes.
* `TcpLifecycle`: two connections of the app on the port (one reuse), three
  sessions (a repeated SYN may make one more), two packets under way; pushed data
  only in `lifecycle_live`.
* `VpnService`: two packet loops (a start and a refresh, or two starts), two
  changes of the routes (away and back), one change of the settings, one kind of
  packet and two settings that decide it differently. The proofs cover the rest:
  they hold for all packets, settings and numbers of loops.
* `UdpForwarding`: three sessions and four datagrams: a failure with datagrams
  queued, and a second one.
* `BackendSync`: two flows in batches of one (a batch behind a batch), one policy,
  one session, one scan, three changes by others, two ticks of the clock.
* `LanshieldDpi`: the conversations of `DpiSamples`, at least one per enabled
  protocol and some that meet in a cache, with up to three packets out of turn
  and eight in all: a doubled packet of each side and one that is late.
* `SerializerUse`: six calls of structure, three of every type of value between
  them, two reports of every protocol `ndpi_dpi2json` knows; one call may fail.
* `NioSelector`: three sessions. State is finite without further bounds, and
  deadlock is checked. The other runs stop at their bounds, so they do not check
  it.

`EventuallyDelivered` is claimed of apps that neither close nor upload (an
acknowledgement that rides on data is not read), and
`ConnectSettles` as long as the bound on sessions is not reached.

### Fairness
Each thread runs on when it can (weak fairness). Java's monitors and
`ReentrantLock` are not fair, so a thread that waits for one is only assumed to
get it if it is free again and again: strong fairness of the steps that wait for
a lock, in `NioSelector`. The selector reports a key that stays ready; among
several the iteration over `selectedKeys` goes to its end, hence strong fairness
per session in `TcpLifecycle` and `UdpForwarding`. The kernel delivers packets,
an app's TCP retransmits what is not answered, and for `EventuallyDelivered` the
app goes on reading. No fairness is assumed of the upstream host. In
`VpnService` a packet loop's thread goes on when it can, the main handler runs
what was posted, a network callback that was announced is called and an observed
LiveData delivers; no one has to send packets or commands. In `BackendSync`
WorkManager runs due work and coroutines run; a request is answered or times out;
and a backend that is asked again and again answers at last (strong fairness of
the full answers), without which nothing can be promised.

## 4. Proofs

`TcpDownloadProofs` proves for every value of the constants (assumption
`DownloadAssumption`: naturals, nonzero where the code divides or must make
progress, and the largest window smaller than the sequence space, which RFC 7323
guarantees):

* `DownloadInvariant`: `Spec => []DownloadInv`;
* `TypeCorrect`, `NeverOverruns`, `AcksReconstructed`, `FinIsComplete` from it;
* `DownloadIsPipe`: `Spec => ImplementsPipe`, the refinement. Every action is a
  step of `BytePipe` or leaves its variables alone; that a segment the app takes
  is next and fits its buffer is `DownstreamInv` and `WindowInv`, that the FIN
  finds all bytes there is `StreamInv`;
* `StagingNeverOverflows` and `NothingIsStranded`. The first is inductive as it
  stands. The second speaks of the moments in which no thread is in the monitor;
  `Drained` extends it to the read loop and its tail, through which the NIO
  thread reaches them without pumping again.

`NoOverrun` is not inductive: that a segment in flight fits the app's buffer
depends on the window the engine held when it sent it, which depends on an
acknowledgement that was itself in flight. `DownloadInv` therefore says, in five
parts: what aborting and end of stream imply (`AbortInv`); that every window the
engine holds, or will take over from a packet on its way, ends inside the buffer
(`WindowInv`: the window of a packet counts from the number it acknowledges, and
the app only moves its edge to the right); that segments on their way form one
contiguous piece from what the app has received to `sendNext` (`DownstreamInv`);
that acknowledgements on their way are ordered and between `sendUnack` and
`sendNext` (`UpstreamInv`); and that bytes are conserved from the upstream host
to the app (`StreamInv`). Because what is in flight never exceeds one window,
and a window is smaller than the sequence space, the remainder modulo `Mod`
determines the absolute number: the lemmas on `%` at the head of the module.

`NioSelectorProofs` proves for any set of sessions `LockProtocol`
(`Spec => []SelectorInv`) and from it `RegistersAlone`, `WakeupsReach` and
`WaitsAreAcyclic`. `SelectorInv` says who owns each lock and monitor, by where
the threads are (`OwnerInv`); that only registered sessions have events and the
session being registered is not among them (`RegisteredInv`: this is why the VPN
thread may wait for the handling lock inside a monitor); and that a `select()`
under way knows every interest but the one about to be announced, or has been
woken (`AnnouncedInv`).

`VpnServiceProofs` proves `ForwardsWhatIsPermitted` (`decide` is `Permitted`
wherever the settings are `Settled`) and `BlocksAreAnnounced`, by cases of what
is known of the packet; then `ServiceInvariant` (`Spec => []ServiceInv`) from `ServiceAssumption` (naturals, and packets and
settings of their types), and from it `OldLoopsTornDown`, `StoppedStaysStopped`,
`LoopsDecideAsDocumented` (with `ForwardsWhatIsPermitted`) and `SessionsAreRuns`.
`OldLoopsAreOut` is not inductive: `onDestroy` tears nothing down, so it needs
that a service that called `stopSelf` has nothing up (`StoppingInv`), and that
running, having a loop, observing and having a session are one and the same
between callbacks (`UpInv`).

`TcpUploadProofs` proves `UploadTypes`, `UploadsIntact` (`IntactIsPrefix`),
`AcknowledgedIsTaken` (`AckedIsTaken`) and `UploadsWhole` (`WrittenIsPrefix`), for
every sequence space, packet size and queue. The last three are about connections
whose numbers stay below 2^31 (`StaysBelow`) and do not pass 0 (`NeverZero`); both
hypotheses are needed. Past 2^31 data is dropped and acknowledged, as
section 3 says. And handleTCPPacket (`SessionHandler.java:185`) takes a
`recSequence` of 0 for "not set" and accepts any packet: with
`ClientIsn = 2 * Half - 2` in `Upload.cfg` TLC finds a retransmitted byte written
twice. Whether `addClientData` may take a packet is a comparison of a signed 32-bit
number with `recSequence`, so the invariant has to say where both stand: `PlaceInv`
says that `recSequence` is the number of the next byte, or of the one behind the
FIN once a pure ACK has passed it; `QueueInv` that the packets under way lead
without a gap from what is held to what was sent (`Leads`: some function tells for
each packet how much had been sent before it); `ResetInv` that nothing follows a
RST, which alone may move `recSequence` in a session that stays open; `RepliesInv`
that no acknowledgement under way goes beyond what is held. `UploadsWhole` has the
history variable out of its statement: where the socket takes all (`~SocketFills`)
and no probes are sent (`~KeepAlives`), `intact` stays true.

`TcpLifecycleProofs` proves for any number of connections, sessions and packets
`LifecycleTypes`, `OneUpstreamConnection` (`LiveIsTabled`), `ConnectionsNeverCrossed`
(`NeverCrossed`) and `NoClosedSessionInTable` (`NoZombie`). The VPN thread looks
a session up before it enters it, so each invariant is strengthened by what is
true of the session it waits for. `OneLive`: no other session is live meanwhile,
hence `keepSessionAlive` displaces none. `Uncrossed`: packets under way belong to
no later connection than the app's, SYNs are in order, and once the present
connection has been answered the table and the VPN thread hold no earlier one.
`Unclosed`: whoever closes a session has marked it as aborting; that is true only
if no connection is refused and no FIN comes without ACK, the two hypotheses of
`NoClosedSessionInTable` and of the run `lifecycle_live`.

`UdpForwardingProofs` proves `UdpTypes`, `OneSocketPerTuple` (`LiveIsTabled`,
strengthened by `OneLive` as above: a session just created is alone) and
`DatagramsInOrder` (`WrittenInOrder`): what each session has queued is in order
and after everything written, and a new session starts empty (`InOrder`), so that
the change from one session to the next keeps the order.

`BackendSyncProofs` proves for any finite sets of flows and apps, any sessions
and scans, and any batch size `SyncTypes`, `SyncedFlowsAreUploaded`,
`DoneRowsAreUploaded`, `FlowsOncePerPass` (the action property `OncePerPass`) and
`FlowsNoneSkipped`, its counterpart, which no run states: the cursor passes over
no due flow outside the batch. A mark is right because of what holds while the
request is under way, so `UploadInv` relates the tables to the request and the
backend at every stage: a flow in the request is not marked yet, so that an
answer that is lost and a later, older one cannot make a mark wrong
(`FlowUnderWay`); the policies read so far are exactly the due ones that did not
change since (`RuleUnderWay`), which is what `setAllSynced` relies on; scans are
at the backend, still in the table, or `raced` (`ScanInv`). `OncePerPass` needs
that all flows of a pass lie behind the cursor (`PassedBehindCursor`), and
`LastOfProperties`, that a finite nonempty set of numbers has a last one, by
well-founded induction on its subsets.

`SerializerProofs` proves for any callers that keep to the interface, any
reports, any number of calls and any call that finds no memory
`SerializerInvariant` (`Spec => []SerializerInv`), and from it
`FailedCallsChangeNothing`, `RollbackRestoresText`, `JsonTextParses` (`JsonParses`)
and `CsvTextHasColumns` (`CsvColumns`). That the text is JSON is far from
inductive: the next call takes brackets off again and goes on, so what counts is
where a reader stands in front of them. `GoodJson(s, k)` says it: read up to its
closing brackets (`Body`), the document leaves the reader inside `k` open blocks,
waiting for what the status flags say may come next (`Inside`), and the brackets
behind are those the flags promise to take off (`BracketsRight`, `FlagsRight`).
It asks this from either beginning of the text, a blank or the bracket of the
array, since the end of the first record replaces the one by the other without
reading what stands between. Beside it, `Standing` ties the caller's open list to
the flag of the serializer, and `SavedStanding` and `SavedGood` say what a rollback
rewriting two characters relies on: the text of the snapshot, up to its bracket,
is still in the buffer, under whatever was written since. The raw record that
overwrites it, a snapshot inside a list and one in the middle of a later record are
the cases where it is not, and `saved.sound` leaves them out. For CSV, `GoodCsv`
says that the separator after an empty first value was lost (`Lost`),
or that the reader is at the end of a line of `n`
fields, that the bytes written and the flag of the record's end tell whether `n` is
zero, and that the header has as many names as the first line, finished or not
(`HasColumns`); `CsvInv` also says so of the text a rollback would bring back.

The readers of JSON and CSV, `Run` and `ndpi_deserialize_clone_all` are recursive
functions. What they are on a given text is proved with the lemma `Induction` (a
set of naturals with 0 and all successors is `Nat`, from the well-foundedness of
inclusion among finite sets), applied to the set of lengths at which the claim holds: that the functions exist
(`JsonStatesDef`, `CsvStatesDef`, `RunDef`), that they depend on the cells read
and on no others (`JsonStatesAgree`, `CsvStatesAgree`), and that a report
(`ReportBalanced`: every block of `ndpi_dpi2json` is closed) keeps the
invariants call by call (`RunJson`, `RunCsv`).

Only model-checked: all liveness (fairness and ENABLED are out of the prover's
reach); `ClonesMatch`, which compares two serializers over every pair of a type and a
value; and `LanshieldDpi` with what it composes: what the dissectors make of a
conversation is a computation over concrete packets rather than an invariant of
steps.

## 5. Not modelled

Checksums, options, timestamps and layout of packets; the content of data; the
packet writer's queue as a resource; ICMP; `closingConnection` and `ackedToFin`,
which no code sets; notifications; the screens; the upload of app usage and how
open ports are found; a start command that was queued before `stopSelf` and
reaches the instance that is stopping. Of nDPI: dissectors that LANShield does
not enable, the tables of hosts and addresses, the Aho-Corasick automata, hashing
(JA3, fingerprints), the byte layout of certificates, and the parts of the
library nothing here calls (`ndpi_analyze.c`, HyperLogLog, the third-party
directory). `ndpi_typedefs.h` and the generated headers declare what the modules
use and have no behaviour of their own. `ndpi_module` is never freed, since
nothing calls `terminateNDPI` (`VPNRunnable.kt:70`).

The app's TCP, the upstream hosts, the selector, the sockets, the backend and
Room are external and modelled from how the code uses them: the TUN device is
reliable and in order in both directions, a socket reports data, end of stream or
an error, a closed channel's key is cancelled, a DAO call is atomic.

## 6. Plan

1. Done: `TcpDownload` with its refinement of `BytePipe`, `TcpUpload`,
   `TcpLifecycle`, `UdpForwarding`, `NioSelector`, `PolicyEngine`, `VpnService`,
   `BackendSync` and `SerializerUse`, model-checked and their safety properties
   proved (but for `ClonesMatch`); packet inspection, model-checked.
2. Proofs: `ClonesMatch`, item by item, from the invariant of the serializer;
   the action properties of `LanshieldDpi` from what the engine does to a flow that
   has a protocol.
3. `ClientPacketWriter`: its queue under a TUN device that fails; an abstract
   FIFO that `toClient` of the other modules refines.
4. `BytePipe` for the server direction, without its faulty cases.
