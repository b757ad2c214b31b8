---------------------------- MODULE NioSelector ----------------------------
(***************************************************************************)
(* The locks between the VPN thread and the NIO thread of                  *)
(* SocketNIODataService: nioSelectionLock, nioHandlingLock, the selector   *)
(* and the monitors of the sessions.                                       *)
(*                                                                         *)
(* The NIO thread selects holding nioSelectionLock and processes the       *)
(* selected keys holding nioHandlingLock and, one at a time, the session's *)
(* monitor.  The VPN thread, holding the monitor of the session whose      *)
(* packet it handles, registers a new session (registerSession,            *)
(* lockSelector) and announces a changed interest set (refreshSelect).     *)
(* Every lock operation is a step of its own.                              *)
(*                                                                         *)
(* A selector (external) waits for the interest sets it saw when select()  *)
(* was entered; wakeup() makes the select() under way, or else the next    *)
(* one, return at once; register() must not run beside select().           *)
(***************************************************************************)
CONSTANT Sessions   \* the sessions

None == "none"

ASSUME SelectorAssumption == None \notin Sessions

VARIABLES
    selectionLock, handlingLock,  \* owner: "vpn", "nio" or "none"
    monitor,        \* of each session: the thread in its monitor, or "none"
    registered,     \* sessions whose channel is registered
    interest,       \* sessions whose key asks for an event that is ready
    watched,        \* the interest sets as select() found them
    wakeup,         \* the selector's pending wakeup
    selected,       \* selectedKeys
    vpn, nio,       \* where the two threads are
    current, key,   \* the session each of them works on
    shutdown        \* SocketNIODataService.shutdown

locks == <<selectionLock, handlingLock, monitor>>
vars  == <<locks, registered, interest, watched, wakeup, selected, vpn, nio, current, key,
           shutdown>>

Threads == {"vpn", "nio"}

Init ==
    /\ selectionLock = None /\ handlingLock = None
    /\ monitor = [s \in Sessions |-> None]
    /\ registered = {} /\ interest = {} /\ watched = {} /\ wakeup = FALSE /\ selected = {}
    /\ vpn = "idle" /\ nio = "lockSelection"
    /\ current = None /\ key = None
    /\ shutdown = FALSE

-----------------------------------------------------------------------------
(* The VPN thread. *)

\* Faulty variant: a session is registered with every packet.
VpnEnterAgain(s) ==
    /\ vpn = "idle"
    /\ monitor[s] = None
    /\ monitor' = [monitor EXCEPT ![s] = "vpn"]
    /\ current' = s
    /\ vpn' = "trySelection"
    /\ UNCHANGED <<selectionLock, handlingLock, registered, interest, watched, wakeup,
                   selected, nio, key, shutdown>>

\* synchronized (session): a packet of session s.
VpnEnter(s) ==
    /\ vpn = "idle"
    /\ monitor[s] = None
    /\ monitor' = [monitor EXCEPT ![s] = "vpn"]
    /\ current' = s
    /\ vpn' = IF s \in registered THEN "subscribe" ELSE "trySelection"
    /\ UNCHANGED <<selectionLock, handlingLock, registered, interest, watched, wakeup,
                   selected, nio, key, shutdown>>

\* lockSelector: nioSelectionLock.tryLock().
TrySelection ==
    /\ vpn = "trySelection"
    /\ \/ selectionLock = None /\ selectionLock' = "vpn" /\ vpn' = "register"
       \/ selectionLock # None /\ UNCHANGED selectionLock /\ vpn' = "lockHandling"
    /\ UNCHANGED <<handlingLock, monitor, registered, interest, watched, wakeup, selected,
                   nio, current, key, shutdown>>

\* lockSelector: nioHandlingLock.lock().
VpnLockHandling ==
    /\ vpn = "lockHandling"
    /\ handlingLock = None
    /\ handlingLock' = "vpn"
    /\ vpn' = "wakeSelector"
    /\ UNCHANGED <<selectionLock, monitor, registered, interest, watched, wakeup, selected,
                   nio, current, key, shutdown>>

\* lockSelector: selector.wakeup().
WakeSelector ==
    /\ vpn = "wakeSelector"
    /\ wakeup' = TRUE
    /\ vpn' = "lockSelection"
    /\ UNCHANGED <<locks, registered, interest, watched, selected, nio, current, key,
                   shutdown>>

\* Faulty variant: the selection lock is not waited for.
VpnLockSelectionNot ==
    /\ vpn = "lockSelection"
    /\ handlingLock' = None
    /\ vpn' = "register"
    /\ UNCHANGED <<selectionLock, monitor, registered, interest, watched, wakeup, selected,
                   nio, current, key, shutdown>>

\* lockSelector: nioSelectionLock.lock().
VpnLockSelection ==
    /\ vpn = "lockSelection"
    /\ selectionLock = None
    /\ selectionLock' = "vpn"
    /\ vpn' = "unlockHandling"
    /\ UNCHANGED <<handlingLock, monitor, registered, interest, watched, wakeup, selected,
                   nio, current, key, shutdown>>

\* lockSelector: nioHandlingLock.unlock().
VpnUnlockHandling ==
    /\ vpn = "unlockHandling"
    /\ handlingLock' = None
    /\ vpn' = "register"
    /\ UNCHANGED <<selectionLock, monitor, registered, interest, watched, wakeup, selected,
                   nio, current, key, shutdown>>

\* registerSession: channel.register under the selection lock, then unlock.
Register ==
    /\ vpn = "register"
    /\ registered' = registered \cup {current}
    /\ selectionLock' = None
    /\ vpn' = "subscribe"
    /\ UNCHANGED <<handlingLock, monitor, interest, watched, wakeup, selected, nio, current,
                   key, shutdown>>

\* session.subscribeKey.
Subscribe ==
    /\ vpn = "subscribe"
    /\ interest' = interest \cup {current}
    /\ vpn' = "refresh"
    /\ UNCHANGED <<locks, registered, watched, wakeup, selected, nio, current, key, shutdown>>

\* Faulty variant: a selector that holds the lock is left alone.
RefreshTryNot ==
    /\ vpn = "refresh"
    /\ \/ /\ selectionLock = None
          /\ selectionLock' = "vpn" /\ vpn' = "refreshUnlock"
       \/ /\ selectionLock # None
          /\ vpn' = "leave"
          /\ UNCHANGED selectionLock
    /\ UNCHANGED <<handlingLock, monitor, registered, interest, watched, wakeup, selected, nio,
                   current, key, shutdown>>

\* refreshSelect: tryLock, and a wakeup if that fails.
RefreshTry ==
    /\ vpn = "refresh"
    /\ \/ /\ selectionLock = None
          /\ selectionLock' = "vpn" /\ vpn' = "refreshUnlock"
          /\ UNCHANGED wakeup
       \/ /\ selectionLock # None
          /\ wakeup' = TRUE /\ vpn' = "leave"
          /\ UNCHANGED selectionLock
    /\ UNCHANGED <<handlingLock, monitor, registered, interest, watched, selected, nio,
                   current, key, shutdown>>

RefreshUnlock ==
    /\ vpn = "refreshUnlock"
    /\ selectionLock' = None
    /\ vpn' = "leave"
    /\ UNCHANGED <<handlingLock, monitor, registered, interest, watched, wakeup, selected,
                   nio, current, key, shutdown>>

\* The end of the synchronized block.
VpnLeave ==
    /\ vpn = "leave"
    /\ monitor' = [monitor EXCEPT ![current] = None]
    /\ current' = None
    /\ vpn' = "idle"
    /\ UNCHANGED <<selectionLock, handlingLock, registered, interest, watched, wakeup,
                   selected, nio, key, shutdown>>

\* Faulty variant: the selector is not woken.
ShutdownAsleep ==
    /\ ~shutdown
    /\ shutdown' = TRUE
    /\ UNCHANGED <<locks, registered, interest, watched, wakeup, selected, vpn, nio, current,
                   key>>

\* SocketNIODataService.shutdown, from the service's thread.
Shutdown ==
    /\ ~shutdown
    /\ shutdown' = TRUE
    /\ wakeup' = TRUE
    /\ UNCHANGED <<locks, registered, interest, watched, selected, vpn, nio, current, key>>

-----------------------------------------------------------------------------
(* The NIO thread: runTask. *)

NioLockSelection ==
    /\ nio = "lockSelection"
    /\ \/ shutdown /\ nio' = "stopped" /\ UNCHANGED selectionLock
       \/ /\ ~shutdown /\ selectionLock = None
          /\ selectionLock' = "nio" /\ nio' = "select"
    /\ UNCHANGED <<handlingLock, monitor, registered, interest, watched, wakeup, selected,
                   vpn, current, key, shutdown>>

\* select() is entered.
SelectEnter ==
    /\ nio = "select"
    /\ watched' = registered \cap interest
    /\ nio' = "selecting"
    /\ UNCHANGED <<locks, registered, interest, wakeup, selected, vpn, current, key, shutdown>>

\* select() returns, because a watched key is ready or because it was woken;
\* the finally block releases the selection lock.
SelectReturn ==
    /\ nio = "selecting"
    /\ watched # {} \/ wakeup
    /\ selected' = selected \cup watched
    /\ watched' = {}
    /\ wakeup' = FALSE
    /\ selectionLock' = None
    /\ nio' = IF shutdown THEN "stopped" ELSE "lockHandling"
    /\ UNCHANGED <<handlingLock, monitor, registered, interest, vpn, current, key, shutdown>>

\* select() throws IOException: the lock is released and the loop goes on.
SelectFail ==
    /\ nio = "selecting"
    /\ watched' = {}
    /\ selectionLock' = None
    /\ nio' = "lockSelection"
    /\ UNCHANGED <<handlingLock, monitor, registered, interest, wakeup, selected, vpn, current,
                   key, shutdown>>

NioLockHandling ==
    /\ nio = "lockHandling"
    /\ handlingLock = None
    /\ handlingLock' = "nio"
    /\ nio' = "nextKey"
    /\ UNCHANGED <<selectionLock, monitor, registered, interest, watched, wakeup, selected,
                   vpn, current, key, shutdown>>

\* iterator.next(), then synchronized (session) is waited for.
NextKey(s) ==
    /\ nio = "nextKey"
    /\ s \in selected
    /\ key' = s
    /\ nio' = "lockSession"
    /\ UNCHANGED <<locks, registered, interest, watched, wakeup, selected, vpn, current,
                   shutdown>>

NioLockSession ==
    /\ nio = "lockSession"
    /\ monitor[key] = None
    /\ monitor' = [monitor EXCEPT ![key] = "nio"]
    /\ nio' = "process"
    /\ UNCHANGED <<selectionLock, handlingLock, registered, interest, watched, wakeup,
                   selected, vpn, current, key, shutdown>>

\* processSelectionKey, the end of the monitor and iterator.remove().  The
\* event may be served for good, or come back (a write the socket cut short).
Process ==
    /\ nio = "process"
    /\ monitor' = [monitor EXCEPT ![key] = None]
    /\ interest' \in {interest, interest \ {key}}
    /\ selected' = selected \ {key}
    /\ key' = None
    /\ nio' = IF shutdown THEN "unlockHandling" ELSE "nextKey"
    /\ UNCHANGED <<selectionLock, handlingLock, registered, watched, wakeup, vpn, current,
                   shutdown>>

KeysDone ==
    /\ nio = "nextKey"
    /\ selected = {}
    /\ nio' = "unlockHandling"
    /\ UNCHANGED <<locks, registered, interest, watched, wakeup, selected, vpn, current, key,
                   shutdown>>

NioUnlockHandling ==
    /\ nio = "unlockHandling"
    /\ handlingLock' = None
    /\ nio' = "lockSelection"
    /\ UNCHANGED <<selectionLock, monitor, registered, interest, watched, wakeup, selected,
                   vpn, current, key, shutdown>>

-----------------------------------------------------------------------------
\* What the VPN thread does once it is in a session's monitor.
VpnInside == TrySelection \/ VpnLockHandling \/ WakeSelector \/ VpnLockSelection
             \/ VpnUnlockHandling \/ Register \/ Subscribe \/ RefreshTry \/ RefreshUnlock
             \/ VpnLeave

Nio == NioLockSelection \/ SelectEnter \/ SelectReturn \/ NioLockHandling
       \/ (\E s \in Sessions : NextKey(s)) \/ NioLockSession \/ Process \/ KeysDone
       \/ NioUnlockHandling

Next == (\E s \in Sessions : VpnEnter(s)) \/ VpnInside \/ Shutdown \/ Nio \/ SelectFail

Spec == Init /\ [][Next]_vars

(* Fairness.  Each thread runs on when it can.  Java's locks and monitors    *)
(* are not fair: a thread that waits for one gets it if it is free again and *)
(* again, which is strong fairness of the steps that wait for a lock.  And   *)
(* select() does not throw for ever.                                         *)
FairSpec ==
    /\ Spec
    /\ WF_vars(VpnInside) /\ WF_vars(Nio)
    /\ SF_vars(VpnLockHandling) /\ SF_vars(VpnLockSelection)
    /\ SF_vars(SelectReturn)
    /\ SF_vars(NioLockSelection) /\ SF_vars(NioLockHandling) /\ SF_vars(NioLockSession)

-----------------------------------------------------------------------------
(* Properties *)

TypeOK ==
    /\ selectionLock \in Threads \cup {None} /\ handlingLock \in Threads \cup {None}
    /\ monitor \in [Sessions -> Threads \cup {None}]
    /\ registered \subseteq Sessions /\ interest \subseteq Sessions
    /\ watched \subseteq Sessions /\ selected \subseteq Sessions
    /\ wakeup \in BOOLEAN /\ shutdown \in BOOLEAN
    /\ vpn \in {"idle", "trySelection", "lockHandling", "wakeSelector", "lockSelection",
                "unlockHandling", "register", "subscribe", "refresh", "refreshUnlock", "leave"}
    /\ nio \in {"lockSelection", "select", "selecting", "lockHandling", "nextKey",
                "lockSession", "process", "unlockHandling", "stopped"}
    /\ vpn # "idle" => current \in Sessions
    /\ nio \in {"lockSession", "process"} => key \in Sessions

\* lockSelector's purpose: no channel is registered while the NIO thread is in
\* select(), whichever way the lock was obtained.
NoRegisterWhileSelecting ==
    ~(vpn = "register" /\ nio \in {"select", "selecting"})

\* refreshSelect's promise: a key that asks for a ready event is never left
\* waiting in a select() that does not watch it, once its packet is handled.
NoLostWakeup ==
    nio = "selecting" /\ vpn = "idle" => (interest \subseteq watched \/ wakeup)

\* The VPN thread waits for the handling lock only with a session that the
\* NIO thread cannot be waiting for: one that is not registered yet.
NoCircularWait ==
    ~(/\ vpn = "lockHandling" /\ handlingLock = "nio"
      /\ nio = "lockSession" /\ monitor[key] = "vpn")

\* Who owns the two locks and the monitors, by where the threads are.
OwnerInv ==
    /\ selectionLock = "vpn" <=> vpn \in {"unlockHandling", "register", "refreshUnlock"}
    /\ selectionLock = "nio" <=> nio \in {"select", "selecting"}
    /\ handlingLock = "vpn" <=> vpn \in {"wakeSelector", "lockSelection", "unlockHandling"}
    /\ handlingLock = "nio" <=> nio \in {"nextKey", "lockSession", "process", "unlockHandling"}
    /\ \A s \in Sessions :
          /\ monitor[s] = "vpn" <=> (vpn # "idle" /\ s = current)
          /\ monitor[s] = "nio" <=> (nio = "process" /\ s = key)

\* Only registered sessions have events, and a session on its way to its
\* registration is not one of them.
RegisteredInv ==
    /\ interest \subseteq registered /\ watched \subseteq registered
    /\ selected \subseteq registered
    /\ vpn \in {"trySelection", "lockHandling", "wakeSelector", "lockSelection",
                "unlockHandling", "register"} => current \notin registered
    /\ vpn \in {"subscribe", "refresh", "refreshUnlock"} => current \in registered
    /\ nio \in {"lockSession", "process"} => key \in selected

\* A select() under way knows every interest, but for the one that is about to
\* be announced, or it has been woken.
AnnouncedInv ==
    nio = "selecting" =>
        \/ wakeup
        \/ \A s \in interest \ watched : vpn = "refresh" /\ s = current

\* The inductive invariant of the lock protocol: from it follow that no channel
\* is registered beside select(), that no wakeup is lost and that the two
\* threads do not wait for each other.
SelectorInv == TypeOK /\ OwnerInv /\ RegisteredInv /\ AnnouncedInv

\* Every subscribed event is processed, unless the service shuts down.
EventsServed == \A s \in Sessions : s \in interest ~> (nio = "process" /\ key = s) \/ shutdown

\* After shutdown the NIO thread stops.
ShutdownStops == shutdown ~> nio = "stopped"
=============================================================================
