---------------------------- MODULE BackendSync ----------------------------
(***************************************************************************)
(* The upload of flows, policies, service sessions and open ports to the   *)
(* backend: SendToServerWorker, the tables it reads and marks, and those   *)
(* that write the tables meanwhile (the packet threads, the user, the      *)
(* service's coroutines and the port scan).                                *)
(*                                                                         *)
(* A run of the worker goes through its requests one after the other.      *)
(* Every DAO call is one step, every request two: it leaves, and later its *)
(* answer is applied.  In between it may be lost, refused or answered with *)
(* less than was asked; whether the backend took it or not, the worker     *)
(* then starts over at the next run.  When the process is killed the       *)
(* worker's run ends in the same way, and with it go the service's object  *)
(* of its session and the coroutines that were to write it.                *)
(*                                                                         *)
(* A flow is its primary key and its time of last activity, on which the   *)
(* whole protocol turns; uuids are numbers in the order the DAO sorts them *)
(* in.  Times are ticks of the millisecond clock: two changes of a flow    *)
(* may carry the same one.  The tables are functions that hold 0 or "none" *)
(* where there is no row.                                                  *)
(***************************************************************************)
EXTENDS Integers, FiniteSets

CONSTANTS
    Flows,        \* uuids of flows: 1 .. n
    BatchSize,    \* BATCH_SIZE
    Apps,         \* package names with a policy row
    Sessions,     \* uuids of the service's sessions: 1 .. n
    Scans,        \* port scans, each with rows of its own
    MaxTime,      \* bound: the clock
    MaxChanges,   \* bound: changes of the tables by others than the worker
    MaxIds        \* bound: installation ids the backend hands out

ASSUME SyncAssumption ==
    /\ BatchSize \in Nat \ {0} /\ MaxTime \in Nat \ {0} /\ MaxChanges \in Nat /\ MaxIds \in Nat \ {0}
    /\ Flows \subseteq Nat \ {0} /\ IsFiniteSet(Flows) /\ IsFiniteSet(Apps)
    /\ Apps \cap Scans = {}

VARIABLES
    clock,        \* System.currentTimeMillis
    share,        \* SHARE_LAN_METRICS_KEY
    flow,         \* Flow table: [end, synced] per uuid; end 0 if there is no row
    policy,       \* policy table: [value, sync] per app; value "none" if no row
    session,      \* the service's session: object, row and coroutines under way
    scanned,      \* uuids in the open-ports table
    uuid,         \* APP_INSTALLATION_UUID, 0 while there is none
    pc,           \* where the worker is
    cursor,       \* keyset cursor of syncFlows
    body,         \* what the worker has read for its next request
    got,          \* the backend: what it holds of each table, and the ids it has given
    changes,      \* changes so far
    passed,       \* history: flows uploaded in this pass of syncFlows
    seen,         \* history: scans made
    raced         \* history: policies and scans that changed during their upload

local   == <<clock, share, flow, policy, session, scanned>>
history == <<passed, seen, raced>>
vars    == <<local, uuid, pc, cursor, body, got, changes, history>>

NoRow  == [end |-> 0, synced |-> 0]
NoRule == [value |-> "none", sync |-> FALSE]

\* timeEnd and timeEndAtLastSync of createLANShieldSession; -2 where there is no
\* object or row yet, -1 where the object has gone with its process.
NewSession == [object |-> -2, row |-> -2, synced |-> -1, jobs |-> {}]

Nothing == [flows |-> {}, end |-> [f \in Flows |-> 0], rules |-> [a \in Apps |-> {}],
            ends |-> [s \in Sessions |-> -2], scans |-> {}]

Init ==
    /\ clock = 1 /\ share = TRUE
    /\ flow = [f \in Flows |-> NoRow]
    /\ policy = [a \in Apps |-> NoRule]
    /\ session = [s \in Sessions |-> NewSession]
    /\ scanned = {} /\ uuid = 0
    /\ pc = "idle" /\ cursor = 0 /\ body = Nothing
    /\ got = [end |-> [f \in Flows |-> 0], rule |-> [a \in Apps |-> "none"],
              ends |-> [s \in Sessions |-> -2], scans |-> {}, ids |-> 0]
    /\ changes = 0 /\ passed = {} /\ seen = {} /\ raced = {}

-----------------------------------------------------------------------------
(* The other writers of the tables. *)

Worker == <<uuid, pc, cursor, body, got>>

Change ==
    /\ changes < MaxChanges
    /\ changes' = changes + 1
    /\ UNCHANGED Worker

Tick ==
    /\ clock < MaxTime
    /\ clock' = clock + 1
    /\ UNCHANGED <<share, flow, policy, session, scanned, Worker, changes, history>>

\* insertFlow, or updateFlow after traffic: the object holds the time of its
\* last activity and, from its creation on, timeEndAtLastSync = 0.
FlowActive(f) ==
    /\ Change
    /\ flow' = [flow EXCEPT ![f] = [end |-> clock, synced |-> 0]]
    /\ UNCHANGED <<clock, share, policy, session, scanned, history>>

\* deleteFlowsWithAppId.  An updateFlow that follows finds no row; a flow that
\* is active in this place again is a new one.
FlowCleared(f) ==
    /\ Change
    /\ flow[f].end > 0
    /\ flow' = [flow EXCEPT ![f] = NoRow]
    /\ UNCHANGED <<clock, share, policy, session, scanned, history>>

\* The worker holds a copy of the policies, or its request is under way.
UploadingRules == pc \in {"acl2", "acl3", "aclPost", "aclWait", "aclMark"}

\* The user allows or blocks an app (insert, shouldSync = true), or gives it
\* back to the default (the view models delete the row, the receiver of the
\* notification's intent inserts it).
SetPolicy(a) ==
    /\ Change
    /\ policy' \in {[policy EXCEPT ![a] = [value |-> v, sync |-> TRUE]] :
                      v \in {"ALLOW", "BLOCK", "DEFAULT"}}
                   \cup {[policy EXCEPT ![a] = NoRule]}
    /\ raced' = IF UploadingRules THEN raced \cup {a} ELSE raced \ {a}
    /\ UNCHANGED <<clock, share, flow, session, scanned, passed, seen>>

\* startVPNThread creates the object and launches its insertion.
SessionStarts(s) ==
    /\ Change
    /\ session[s].object = -2
    /\ session' = [session EXCEPT ![s] = [@ EXCEPT !.object = 0, !.jobs = {"insert"}]]
    /\ UNCHANGED <<clock, share, flow, policy, scanned, history>>

\* stopLanShieldSession sets timeEnd in the object and launches the update.
SessionStops(s) ==
    /\ Change
    /\ session[s].object = 0
    /\ session' = [session EXCEPT ![s] =
         [@ EXCEPT !.object = clock, !.jobs = session[s].jobs \cup {"update"}]]
    /\ UNCHANGED <<clock, share, flow, policy, scanned, history>>

\* The coroutines run in any order: each writes the object as it is then.
SessionInserted(s) ==
    /\ "insert" \in session[s].jobs
    /\ session' = [session EXCEPT ![s] =
         [@ EXCEPT !.row = session[s].object, !.synced = -1, !.jobs = session[s].jobs \ {"insert"}]]
    /\ UNCHANGED <<clock, share, flow, policy, scanned, Worker, changes, history>>

\* @Update: nothing happens if the row is not there.
SessionUpdated(s) ==
    /\ "update" \in session[s].jobs
    /\ session' = [session EXCEPT ![s] =
         [@ EXCEPT !.row    = IF session[s].row = -2 THEN -2 ELSE session[s].object,
                   !.synced = IF session[s].row = -2 THEN session[s].synced ELSE -1,
                   !.jobs   = session[s].jobs \ {"update"}]]
    /\ UNCHANGED <<clock, share, flow, policy, scanned, Worker, changes, history>>

\* OpenPortsWorker or the ports screen: insertAll with new uuids.
Scan(n) ==
    /\ Change
    /\ n \notin seen
    /\ scanned' = scanned \cup {n}
    /\ seen' = seen \cup {n}
    /\ raced' = IF pc \in {"portsWait", "portsMark"} THEN raced \cup {n} ELSE raced
    /\ UNCHANGED <<clock, share, flow, policy, session, passed>>

ToggleShare ==
    /\ Change
    /\ share' = ~share
    /\ UNCHANGED <<clock, flow, policy, session, scanned, history>>

-----------------------------------------------------------------------------
(* The worker. *)

\* Faulty variant: a run goes on at the cursor of the run before.
doWorkKeepsCursor ==
    /\ pc = "idle" /\ share
    /\ pc' = IF uuid = 0 THEN "register" ELSE "flows"
    /\ passed' = {}
    /\ UNCHANGED <<local, uuid, cursor, body, got, changes, seen, raced>>

\* WorkManager runs the unique periodic work, again after a retry's backoff;
\* a user who does not share ends the run at once.
doWork ==
    /\ pc = "idle" /\ share
    /\ pc' = IF uuid = 0 THEN "register" ELSE "flows"
    /\ cursor' = 0 /\ passed' = {}
    /\ UNCHANGED <<local, uuid, body, got, changes, seen, raced>>

\* The answer is stored before anything is uploaded under it.
registerAppInstallation ==
    /\ pc = "register" /\ got.ids < MaxIds
    /\ got' = [got EXCEPT !.ids = @ + 1]
    /\ \/ uuid' = got.ids + 1 /\ pc' = "flows"
       \/ uuid' = 0 /\ pc' = "idle"
    /\ UNCHANGED <<local, cursor, body, changes, history>>

\* getNotSyncedFlowsAfter: the rows after the cursor that have moved on since
\* their last upload, in the order of their uuids, at most BATCH_SIZE.
NotSynced(after) == {f \in Flows : flow[f].synced < flow[f].end /\ f > after}
FirstOf(S)       == {f \in S : Cardinality({g \in S : g < f}) < BatchSize}

LastOf(S) == CHOOSE f \in S : \A g \in S : g <= f

\* Faulty variant: the cursor stays where it was.
syncFlowsNoCursor ==
    /\ pc = "flows"
    /\ LET batch == FirstOf(NotSynced(0))
       IN  IF batch = {} THEN pc' = "acl" /\ UNCHANGED <<cursor, body, passed>>
           ELSE /\ pc' = "flowsWait"
                /\ cursor' = LastOf(batch)
                /\ passed' = passed \cup batch
                /\ body' = [body EXCEPT !.flows = batch, !.end = [f \in Flows |-> flow[f].end]]
    /\ UNCHANGED <<local, uuid, got, changes, seen, raced>>

\* One round of syncFlows up to its request.  The cursor moves past the batch
\* whatever the answer is (it is read again only in the next round).
syncFlows ==
    /\ pc = "flows"
    /\ LET batch == FirstOf(NotSynced(cursor))
       IN  IF batch = {} THEN pc' = "acl" /\ UNCHANGED <<cursor, body, passed>>
           ELSE /\ pc' = "flowsWait"
                /\ cursor' = LastOf(batch)
                /\ passed' = passed \cup batch
                /\ body' = [body EXCEPT !.flows = batch, !.end = [f \in Flows |-> flow[f].end]]
    /\ UNCHANGED <<local, uuid, got, changes, seen, raced>>

\* Faulty variant: the rows of the batch are marked as they are now.
flowsMarkedNow(taken) ==
    /\ pc = "flowsWait" /\ taken \subseteq body.flows
    /\ got' = [got EXCEPT !.end = [f \in Flows |-> IF f \in taken THEN body.end[f] ELSE @[f]]]
    /\ flow' = [f \in Flows |-> IF f \in taken THEN [flow[f] EXCEPT !.synced = flow[f].end] ELSE flow[f]]
    /\ pc' = "flows" /\ body' = Nothing
    /\ UNCHANGED <<clock, share, policy, session, scanned, uuid, cursor, changes, history>>

\* The backend stores the batch and answers with the flows it took and their
\* time_end; each is marked with that time, not with the row's present one.
\* (No row is ever scheduled for deletion, so none is removed here.)
flowsAnswered(taken) ==
    /\ pc = "flowsWait" /\ taken \subseteq body.flows
    /\ got' = [got EXCEPT !.end = [f \in Flows |-> IF f \in taken THEN body.end[f] ELSE @[f]]]
    /\ flow' = [f \in Flows |-> IF f \in taken /\ flow[f].end > 0
                                THEN [flow[f] EXCEPT !.synced = body.end[f]] ELSE flow[f]]
    /\ pc' = "flows" /\ body' = Nothing
    /\ UNCHANGED <<clock, share, policy, session, scanned, uuid, cursor, changes, history>>

Unsynced(v) == {a \in Apps : policy[a].value = v /\ policy[a].sync}

\* One of the three queries of syncACL.
ReadRules(v) ==
    body' = [body EXCEPT !.rules = [a \in Apps |-> IF a \in Unsynced(v) THEN @[a] \cup {v} ELSE @[a]]]

readAllowed ==
    /\ pc = "acl" /\ pc' = "acl2" /\ ReadRules("ALLOW")
    /\ raced' = raced \ {a \in Apps : policy[a].sync}
    /\ UNCHANGED <<local, uuid, cursor, got, changes, passed, seen>>

readBlocked ==
    /\ pc = "acl2" /\ pc' = "acl3" /\ ReadRules("BLOCK")
    /\ UNCHANGED <<local, uuid, cursor, got, changes, history>>

\* Faulty variant: the rows are marked when they have been read.
readDefaultMarks ==
    /\ pc = "acl3" /\ pc' = "aclPost" /\ ReadRules("DEFAULT")
    /\ policy' = [a \in Apps |-> [policy[a] EXCEPT !.sync = FALSE]]
    /\ UNCHANGED <<clock, share, flow, session, scanned, uuid, cursor, got, changes, history>>

readDefault ==
    /\ pc = "acl3" /\ pc' = "aclPost" /\ ReadRules("DEFAULT")
    /\ UNCHANGED <<local, uuid, cursor, got, changes, history>>

\* syncACL returns if all three lists are empty.
syncACL ==
    /\ pc = "aclPost"
    /\ IF \A a \in Apps : body.rules[a] = {} THEN pc' = "sessions" /\ body' = Nothing
                                             ELSE pc' = "aclWait" /\ UNCHANGED body
    /\ UNCHANGED <<local, uuid, cursor, got, changes, history>>

\* The backend takes the lists in their order; an app may be in two of them.
LastRule(a) == IF "DEFAULT" \in body.rules[a] THEN "DEFAULT"
               ELSE IF "BLOCK" \in body.rules[a] THEN "BLOCK" ELSE "ALLOW"

\* Any message but ACL_SUCCESS leaves the rows as they are.
aclAnswered ==
    /\ pc = "aclWait"
    /\ got' = [got EXCEPT !.rule = [a \in Apps |-> IF body.rules[a] = {} THEN @[a] ELSE LastRule(a)]]
    /\ pc' \in {"aclMark", "sessions"}
    /\ body' = Nothing
    /\ UNCHANGED <<local, uuid, cursor, changes, history>>

\* setAllSynced marks every row, the ones changed since included.
setAllSynced ==
    /\ pc = "aclMark" /\ pc' = "sessions"
    /\ policy' = [a \in Apps |-> [policy[a] EXCEPT !.sync = FALSE]]
    /\ UNCHANGED <<clock, share, flow, session, scanned, uuid, cursor, body, got, changes, history>>

\* getAllShouldSync: rows whose end is not the one last uploaded.
syncLanShieldSessions ==
    /\ pc = "sessions"
    /\ LET due == {s \in Sessions : session[s].row # -2 /\ session[s].synced # session[s].row}
       IN  IF due = {} THEN pc' = "ports" /\ UNCHANGED body
           ELSE /\ pc' = "sessionsWait"
                /\ body' = [body EXCEPT !.ends = [s \in Sessions |-> IF s \in due THEN session[s].row ELSE -2]]
    /\ UNCHANGED <<local, uuid, cursor, got, changes, history>>

\* The sessions of the request under way.
Due == {s \in Sessions : body.ends[s] # -2}

\* The backend takes some of the sessions and names some of those in its answer
\* with the time_end it was sent: none if the answer is for another
\* installation, all but those whose entry cannot be read otherwise.
sessionsAnswered(taken, named) ==
    /\ pc = "sessionsWait" /\ taken \subseteq Due /\ named \subseteq taken
    /\ got' = [got EXCEPT !.ends = [s \in Sessions |-> IF s \in taken THEN body.ends[s] ELSE @[s]]]
    /\ session' = [s \in Sessions |-> IF s \in named THEN [session[s] EXCEPT !.synced = body.ends[s]]
                                                     ELSE session[s]]
    /\ pc' = "ports" /\ body' = Nothing
    /\ UNCHANGED <<clock, share, flow, policy, scanned, uuid, cursor, changes, history>>

syncOpenPorts ==
    /\ pc = "ports"
    /\ IF scanned = {} THEN pc' = "idle" /\ UNCHANGED body
                       ELSE pc' = "portsWait" /\ body' = [body EXCEPT !.scans = scanned]
    /\ raced' = raced \ scanned
    /\ UNCHANGED <<local, uuid, cursor, got, changes, passed, seen>>

portsAnswered ==
    /\ pc = "portsWait"
    /\ got' = [got EXCEPT !.scans = @ \cup body.scans]
    /\ pc' \in {"portsMark", "idle"}
    /\ body' = Nothing
    /\ UNCHANGED <<local, uuid, cursor, changes, history>>

\* deleteAll takes every row, the ones of a scan since included.
deleteAll ==
    /\ pc = "portsMark" /\ pc' = "idle"
    /\ scanned' = {}
    /\ UNCHANGED <<clock, share, flow, policy, session, uuid, cursor, body, got, changes, history>>

Waiting == {"flowsWait", "aclWait", "sessionsWait", "portsWait"}

\* The backend after it has taken the request under way.
Taken ==
    [got EXCEPT
       !.end   = [f \in Flows |-> IF f \in body.flows THEN body.end[f] ELSE @[f]],
       !.rule  = [a \in Apps |-> IF body.rules[a] = {} THEN @[a] ELSE LastRule(a)],
       !.ends  = [s \in Sessions |-> IF s \in Due THEN body.ends[s] ELSE @[s]],
       !.scans = @ \cup body.scans]

\* No answer in time, an HTTP error or a body that cannot be read: doWork
\* returns retry() or failure(), nothing is marked, and the next run begins
\* anew.  The backend may have taken the request.
lost ==
    /\ pc \in Waiting
    /\ pc' = "idle" /\ body' = Nothing
    /\ got' \in {got, Taken}
    /\ UNCHANGED <<local, uuid, cursor, changes, history>>

\* Android kills the process.  The tables and the data store remain; the run of
\* the worker, the object of the service's session and the coroutines that were
\* to insert or update its row do not.
Killed ==
    /\ changes < MaxChanges
    /\ changes' = changes + 1
    /\ pc' = "idle" /\ body' = Nothing
    /\ got' \in IF pc \in Waiting THEN {got, Taken} ELSE {got}
    /\ session' = [s \in Sessions |-> IF session[s].object = -2 THEN session[s]
                                      ELSE [session[s] EXCEPT !.object = -1, !.jobs = {}]]
    /\ UNCHANGED <<clock, share, flow, policy, scanned, uuid, cursor, history>>

-----------------------------------------------------------------------------
Upload == doWork \/ syncFlows \/ readAllowed \/ readBlocked \/ readDefault \/ syncACL \/ setAllSynced
          \/ syncLanShieldSessions \/ syncOpenPorts \/ deleteAll

Answer == \/ \E taken \in SUBSET body.flows : flowsAnswered(taken)
          \/ aclAnswered
          \/ \E taken \in SUBSET Due : \E named \in SUBSET taken : sessionsAnswered(taken, named)
          \/ portsAnswered

Next ==
    \/ Tick \/ ToggleShare
    \/ \E f \in Flows : FlowActive(f) \/ FlowCleared(f)
    \/ \E a \in Apps : SetPolicy(a)
    \/ \E s \in Sessions : SessionStarts(s) \/ SessionStops(s) \/ SessionInserted(s) \/ SessionUpdated(s)
    \/ \E n \in Scans : Scan(n)
    \/ Upload \/ registerAppInstallation \/ Answer \/ lost \/ Killed

Spec == Init /\ [][Next]_vars

(* Fairness: WorkManager runs due work and the worker goes on; coroutines    *)
(* run; a request is answered or times out; a backend asked again and again  *)
(* takes flows and sessions at last, and hands out an id that is stored.     *)
FairSpec ==
    /\ Spec /\ WF_vars(Upload) /\ WF_vars(Answer \/ lost)
    /\ \A s \in Sessions : WF_vars(SessionInserted(s)) /\ WF_vars(SessionUpdated(s))
    /\ SF_vars(flowsAnswered(body.flows)) /\ SF_vars(aclAnswered)
    /\ SF_vars(sessionsAnswered(Due, Due)) /\ SF_vars(registerAppInstallation /\ uuid' # 0)

-----------------------------------------------------------------------------
(* Properties *)

Rules == {"ALLOW", "BLOCK", "DEFAULT"}

PolicyRow  == [value : Rules \cup {"none"}, sync : BOOLEAN]
SessionRow == [object : -2 .. MaxTime, row : -2 .. MaxTime, synced : -1 .. MaxTime,
               jobs : SUBSET {"insert", "update"}]
Request    == [flows : SUBSET Flows, end : [Flows -> 0 .. MaxTime], rules : [Apps -> SUBSET Rules],
               ends : [Sessions -> -2 .. MaxTime], scans : SUBSET Scans]
Backend    == [end : [Flows -> 0 .. MaxTime], rule : [Apps -> Rules \cup {"none"}],
               ends : [Sessions -> -2 .. MaxTime], scans : SUBSET Scans, ids : 0 .. MaxIds]

TypeOK ==
    /\ clock \in 1 .. MaxTime /\ share \in BOOLEAN /\ changes \in 0 .. MaxChanges
    /\ flow \in [Flows -> [end : 0 .. MaxTime, synced : 0 .. MaxTime]]
    /\ policy \in [Apps -> PolicyRow] /\ session \in [Sessions -> SessionRow]
    /\ scanned \subseteq Scans /\ uuid \in 0 .. MaxIds /\ cursor \in Flows \cup {0}
    /\ body \in Request /\ got \in Backend
    /\ passed \subseteq Flows /\ seen \subseteq Scans /\ raced \subseteq Apps \cup Scans

\* timeEndAtLastSync is the time the backend echoed: a flow or session the
\* worker takes for synced is one whose last change the backend holds, however
\* changes, lost answers and repeated runs interleave.
SyncedIsUploaded ==
    /\ \A f \in Flows : flow[f].end > 0 /\ flow[f].synced >= flow[f].end => got.end[f] >= flow[f].end
    /\ \A s \in Sessions : session[s].row # -2 /\ session[s].synced = session[s].row
                             => got.ends[s] = session[s].row

\* syncFlows' comment: the keyset cursor on the immutable uuid cannot cause
\* rows to be duplicated.  No flow is sent twice in one pass, although rows
\* of earlier batches become due again while it runs.
OncePerPass == [][syncFlows /\ pc' = "flowsWait" => body'.flows \cap passed = {}]_vars

\* A policy or scan the worker has done with (marked as synced, or deleted) is
\* one the backend holds, unless it changed while the upload was under way.
DoneIsUploaded ==
    /\ \A a \in Apps : policy[a].value # "none" /\ ~policy[a].sync
                         => got.rule[a] = policy[a].value \/ a \in raced
    /\ seen \subseteq scanned \cup got.scans \cup raced

\* The bound on installation ids is used up before one was stored.
NoId == uuid = 0 /\ got.ids = MaxIds

\* The end of a session that is known to the service, or, after its process was
\* killed, only to the row.
LastEnd(s) == IF session[s].object = -1 THEN session[s].row ELSE session[s].object

\* Every activity of a flow and the end of every session reach the backend in
\* the end, unless the user stops sharing: over lost answers and repeated runs,
\* over changes during an upload, and in whichever order the coroutines that
\* insert and update a session's row have run.  If the process is killed before
\* they ran, the end they were to write is lost for good: nothing in the code
\* writes it later, and what is promised is what the row says.
EverythingArrives ==
    []<>(\/ /\ \A f \in Flows : got.end[f] >= flow[f].end
            /\ \A s \in Sessions : LastEnd(s) > 0 => got.ends[s] = LastEnd(s)
         \/ ~share \/ NoId)
=============================================================================
