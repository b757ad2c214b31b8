------------------------- MODULE BackendSyncProofs -------------------------
(***************************************************************************)
(* BackendSync proved for any tables, batch size and number of changes:    *)
(* what the worker takes for uploaded is with the backend, and the keyset  *)
(* cursor neither repeats nor skips a flow within a pass.                  *)
(***************************************************************************)
EXTENDS BackendSync, FiniteSetTheorems, WellFoundedInduction, TLAPS

(* What the worker has read waits in body only while it reads and while the  *)
(* request is under way, so that no answer or loss applies what was read     *)
(* for another request.                                                      *)
BodyIsOfRequest ==
    /\ body.flows # {} => pc = "flowsWait"
    /\ \A a \in Apps : body.rules[a] # {} => pc \in {"acl2", "acl3", "aclPost", "aclWait"}
    /\ \A s \in Sessions : body.ends[s] # -2 => pc = "sessionsWait"
    /\ body.scans # {} => pc = "portsWait"

\* A flow marked as synced is uploaded.
FlowSynced ==
    \A f \in Flows : flow[f].end > 0 /\ flow[f].synced >= flow[f].end => got.end[f] >= flow[f].end

\* A flow whose upload is under way is not marked: a request that is lost after
\* the backend took an older time cannot make a mark wrong.
FlowUnderWay == \A f \in body.flows : flow[f].end > 0 => flow[f].synced < flow[f].end

\* The same for the sessions of the service.
SessionSynced ==
    \A s \in Sessions : session[s].row # -2 /\ session[s].synced = session[s].row
                          => got.ends[s] = session[s].row

SessionUnderWay ==
    \A s \in Sessions : body.ends[s] # -2 => session[s].row = -2 \/ session[s].synced # session[s].row

\* A session's object has a time when a coroutine writes it to the row.
JobsHaveObject == \A s \in Sessions : session[s].jobs # {} => session[s].object >= 0

\* The policies read so far.
RulesRead == CASE pc = "acl2" -> {"ALLOW"} [] pc = "acl3" -> {"ALLOW", "BLOCK"} [] OTHER -> Rules

\* A policy marked as synced is uploaded, unless it changed meanwhile.
RuleDone ==
    \A a \in Apps : policy[a].value # "none" /\ ~policy[a].sync
                      => got.rule[a] = policy[a].value \/ a \in raced

\* From the first query to the answer, body holds exactly the due policies
\* among those read, as far as they did not change since.
RuleUnderWay ==
    pc \in {"acl2", "acl3", "aclPost", "aclWait"} =>
        \A a \in Apps \ raced : policy[a].value # "none" =>
            body.rules[a] = IF policy[a].sync /\ policy[a].value \in RulesRead
                            THEN {policy[a].value} ELSE {}

\* When all rows are about to be marked, the backend has those that did not
\* change since they were read.
RuleBeforeMark ==
    pc = "aclMark" => \A a \in Apps \ raced : policy[a].value # "none" => got.rule[a] = policy[a].value

\* No scan is lost, unless it was made during an upload.
ScanDone == seen \subseteq scanned \cup got.scans \cup raced

ScanUnderWay ==
    /\ pc = "portsWait" => scanned \subseteq body.scans \cup raced
    /\ pc = "portsMark" => scanned \subseteq got.scans \cup raced

\* What this pass has uploaded lies behind the cursor.
PassedBehindCursor == \A f \in passed : f <= cursor

\* The cursor does not skip a due flow either: a row it moves past is in the
\* batch.
NoneSkipped ==
    [][syncFlows /\ pc' = "flowsWait"
         => \A f \in NotSynced(cursor) : f <= cursor' => f \in body'.flows]_vars
-----------------------------------------------------------------------------
(* Types. *)

\* An empty request has the type of a request.
LEMMA NothingTyped == Nothing \in Request
BY SyncAssumption DEF Nothing, Request

\* Of two lists the backend applies the later one.
LEMMA LastRuleTyped == \A a \in Apps : LastRule(a) \in Rules
BY DEF LastRule, Rules

\* The fields of a session are written within their types.
LEMMA SessionEdits ==
    ASSUME NEW r \in SessionRow
    PROVE  /\ r.object \in -2 .. MaxTime /\ r.row \in -2 .. MaxTime /\ r.synced \in -1 .. MaxTime
           /\ \A o \in -2 .. MaxTime, j \in SUBSET {"insert", "update"} :
                 [r EXCEPT !.object = o, !.jobs = j] \in SessionRow
           /\ \A w \in -2 .. MaxTime, y \in -1 .. MaxTime, j \in SUBSET {"insert", "update"} :
                 [r EXCEPT !.row = w, !.synced = y, !.jobs = j] \in SessionRow
           /\ \A y \in -1 .. MaxTime : [r EXCEPT !.synced = y] \in SessionRow
           /\ r.jobs \in SUBSET {"insert", "update"}
BY DEF SessionRow

\* The last of a finite, nonempty set of numbers exists: among the sets of the
\* members above each member there is a least one, and it is empty.
LEMMA LastOfProperties ==
    ASSUME NEW S \in SUBSET Nat, IsFiniteSet(S), S # {}
    PROVE  LastOf(S) \in S /\ \A g \in S : g <= LastOf(S)
<1> DEFINE above(x) == {y \in S : y > x}
           T == {above(x) : x \in S}
           R == StrictSubsetOrdering(S)
<1>1. T \subseteq SUBSET S /\ T # {}
  OBVIOUS
<1>2. IsWellFoundedOn(R, SUBSET S)
  BY FS_StrictSubsetOrderingWellFounded, FS_FiniteSubsetsOfFinite
<1>3. PICK U \in T : \A V \in T : ~(<<V, U>> \in R)
  BY <1>1, <1>2, WFMin
<1>4. PICK x \in S : U = above(x)
  OBVIOUS
<1>5. ASSUME NEW y \in S, y > x PROVE FALSE
  <2>1. above(y) \subseteq above(x) /\ y \in above(x) /\ y \notin above(y)
    <3>1. x \in Nat /\ y \in Nat /\ \A z \in S : z \in Nat
      OBVIOUS
    <3>2. \A z \in S : z > y => z > x
      BY <1>5, <3>1
    <3>3. ~(y > y)
      BY <3>1
    <3> QED
      BY <1>5, <3>2, <3>3
  <2>2. <<above(y), above(x)>> \in R
    BY <2>1 DEF StrictSubsetOrdering
  <2> QED
    BY <1>3, <1>4, <2>2
<1>6. \A g \in S : g <= x
  BY <1>5
<1> QED
  BY <1>6 DEF LastOf

\* An answer to the request with the sessions.
AnySessionsAnswered ==
    \E taken \in SUBSET Due : \E named \in SUBSET taken : sessionsAnswered(taken, named)

\* The backend keeps its type when it takes a request that is lost.
LEMMA TakenTyped ==
    ASSUME TypeOK
    PROVE  /\ Taken \in Backend
           /\ Taken.end = [f \in Flows |-> IF f \in body.flows THEN body.end[f] ELSE got.end[f]]
           /\ Taken.rule = [a \in Apps |-> IF body.rules[a] = {} THEN got.rule[a] ELSE LastRule(a)]
           /\ Taken.ends = [s \in Sessions |-> IF s \in Due THEN body.ends[s] ELSE got.ends[s]]
           /\ Taken.scans = got.scans \cup body.scans
<1>1. /\ Taken.end = [f \in Flows |-> IF f \in body.flows THEN body.end[f] ELSE got.end[f]]
      /\ Taken.rule = [a \in Apps |-> IF body.rules[a] = {} THEN got.rule[a] ELSE LastRule(a)]
      /\ Taken.ends = [s \in Sessions |-> IF s \in Due THEN body.ends[s] ELSE got.ends[s]]
      /\ Taken.scans = got.scans \cup body.scans
  BY DEF Taken, TypeOK, Backend
<1>2. /\ [f \in Flows |-> IF f \in body.flows THEN body.end[f] ELSE got.end[f]] \in [Flows -> 0 .. MaxTime]
      /\ [a \in Apps |-> IF body.rules[a] = {} THEN got.rule[a] ELSE LastRule(a)]
            \in [Apps -> Rules \cup {"none"}]
      /\ [s \in Sessions |-> IF s \in Due THEN body.ends[s] ELSE got.ends[s]]
            \in [Sessions -> -2 .. MaxTime]
      /\ got.scans \cup body.scans \in SUBSET Scans
  BY LastRuleTyped DEF TypeOK, Request, Backend
<1>3. Taken \in Backend
  BY <1>2 DEF Taken, TypeOK, Backend
<1> QED
  BY <1>1, <1>3

\* A run that ends before its answer, alone or with its process, leaves the
\* tables but for the objects and the coroutines of the service's sessions.
LEMMA RunEnds ==
    ASSUME TypeOK, lost \/ Killed
    PROVE  /\ pc' = "idle" /\ body' = Nothing
           /\ UNCHANGED <<clock, share, flow, policy, scanned, uuid, cursor, passed, seen, raced>>
           /\ got' = got \/ (pc \in Waiting /\ got' = Taken)
           /\ changes' \in 0 .. MaxChanges
           /\ session' \in [Sessions -> SessionRow]
           /\ \A s \in Sessions :
                 /\ session'[s].row = session[s].row /\ session'[s].synced = session[s].synced
                 /\ session'[s].jobs # {} => session'[s] = session[s]
<1>1. CASE lost
  BY <1>1 DEF lost, local, history, TypeOK
<1>2. CASE Killed
  <2>1. /\ pc' = "idle" /\ body' = Nothing
        /\ UNCHANGED <<clock, share, flow, policy, scanned, uuid, cursor, passed, seen, raced>>
        /\ got' = got \/ (pc \in Waiting /\ got' = Taken)
        /\ changes' \in 0 .. MaxChanges
    <3>1. /\ pc' = "idle" /\ body' = Nothing
          /\ UNCHANGED <<clock, share, flow, policy, scanned, uuid, cursor, passed, seen, raced>>
      BY <1>2 DEF Killed, history
    <3>2. got' = got \/ (pc \in Waiting /\ got' = Taken)
      <4>1. got' \in IF pc \in Waiting THEN {got, Taken} ELSE {got}
        BY <1>2 DEF Killed
      <4> QED
        BY <4>1
    <3>3. changes' \in 0 .. MaxChanges
      <4>1. changes' = changes + 1 /\ changes < MaxChanges
        BY <1>2 DEF Killed
      <4>2. changes \in 0 .. MaxChanges
        BY DEF TypeOK
      <4> QED
        BY <4>1, <4>2, SyncAssumption
    <3> QED
      BY <3>1, <3>2, <3>3
  <2>2. ASSUME NEW s \in Sessions
        PROVE  /\ session'[s] \in SessionRow
               /\ session'[s].row = session[s].row /\ session'[s].synced = session[s].synced
               /\ session'[s].jobs # {} => session'[s] = session[s]
    <3>1. session[s] \in SessionRow /\ -1 \in -2 .. MaxTime
      BY SyncAssumption DEF TypeOK
    <3>2. session'[s] = session[s] \/ session'[s] = [session[s] EXCEPT !.object = -1, !.jobs = {}]
      BY <1>2 DEF Killed
    <3> QED
      BY <3>1, <3>2 DEF SessionRow
  <2>3. session' = [s \in Sessions |-> session'[s]]
    BY <1>2 DEF Killed
  <2>4. session' \in [Sessions -> SessionRow]
    BY <2>2, <2>3
  <2> QED
    BY <2>1, <2>2, <2>4
<1> QED
  BY <1>1, <1>2

\* The worker, the tables and the backend keep their types.
THEOREM SyncTypes == Spec => []TypeOK
<1> USE SyncAssumption
<1>1. Init => TypeOK
  BY NothingTyped DEF Init, TypeOK, NoRow, NoRule, NewSession, Rules, PolicyRow, SessionRow, Backend
<1>2. TypeOK /\ [Next]_vars => TypeOK'
  <2> SUFFICES ASSUME TypeOK, [Next]_vars PROVE TypeOK'
    OBVIOUS
  <2>1. CASE UNCHANGED vars
    BY <2>1 DEF vars, local, history, TypeOK
  <2>2. CASE Tick
    BY <2>2 DEF Tick, Worker, history, TypeOK
  <2>3. CASE ToggleShare
    BY <2>3 DEF ToggleShare, Change, Worker, history, TypeOK
  <2>4. ASSUME NEW f \in Flows, FlowActive(f) PROVE TypeOK'
    BY <2>4 DEF FlowActive, Change, Worker, history, TypeOK
  <2>5. ASSUME NEW f \in Flows, FlowCleared(f) PROVE TypeOK'
    BY <2>5 DEF FlowCleared, Change, Worker, history, NoRow, TypeOK
  <2>6. ASSUME NEW a \in Apps, SetPolicy(a) PROVE TypeOK'
    <3>1. policy' \in [Apps -> PolicyRow]
      <4>1. \A v \in Rules : [value |-> v, sync |-> TRUE] \in PolicyRow
        BY DEF PolicyRow
      <4>2. NoRule \in PolicyRow
        BY DEF NoRule, PolicyRow
      <4>3. \E r \in PolicyRow : policy' = [policy EXCEPT ![a] = r]
        BY <2>6, <4>1, <4>2 DEF SetPolicy, Rules
      <4> QED
        BY <4>3 DEF TypeOK
    <3>2. raced' \subseteq Apps \cup Scans
      BY <2>6 DEF SetPolicy, TypeOK
    <3>3. changes' \in 0 .. MaxChanges
      BY <2>6 DEF SetPolicy, Change, TypeOK
    <3> QED
      BY <2>6, <3>1, <3>2, <3>3 DEF SetPolicy, Change, Worker, TypeOK
  <2>7. ASSUME NEW s \in Sessions, SessionStarts(s) PROVE TypeOK'
    <3>1. session' \in [Sessions -> SessionRow]
      <4>1. session[s] \in SessionRow
        BY DEF TypeOK
      <4>2. /\ 0 \in -2 .. MaxTime /\ {"insert"} \in SUBSET {"insert", "update"}
        BY <4>1 DEF SessionRow, TypeOK
      <4>3. [session[s] EXCEPT !.object = 0, !.jobs = {"insert"}] \in SessionRow
        BY <4>1, <4>2, SessionEdits
      <4> QED
        BY <2>7, <4>3 DEF SessionStarts, TypeOK
    <3>2. changes' \in 0 .. MaxChanges
      BY <2>7 DEF SessionStarts, Change, TypeOK
    <3> QED
      BY <2>7, <3>1, <3>2 DEF SessionStarts, Change, Worker, history, TypeOK
  <2>8. ASSUME NEW s \in Sessions, SessionStops(s) PROVE TypeOK'
    <3>1. session' \in [Sessions -> SessionRow]
      <4>1. session[s] \in SessionRow
        BY DEF TypeOK
      <4>2. /\ clock \in -2 .. MaxTime /\ session[s].jobs \cup {"update"} \in SUBSET {"insert", "update"}
        BY <4>1 DEF SessionRow, TypeOK
      <4>3. [session[s] EXCEPT !.object = clock, !.jobs = session[s].jobs \cup {"update"}] \in SessionRow
        BY <4>1, <4>2, SessionEdits
      <4> QED
        BY <2>8, <4>3 DEF SessionStops, TypeOK
    <3>2. changes' \in 0 .. MaxChanges
      BY <2>8 DEF SessionStops, Change, TypeOK
    <3> QED
      BY <2>8, <3>1, <3>2 DEF SessionStops, Change, Worker, history, TypeOK
  <2>9. ASSUME NEW s \in Sessions, SessionInserted(s) PROVE TypeOK'
    <3>1. session' \in [Sessions -> SessionRow]
      <4>1. session[s] \in SessionRow
        BY DEF TypeOK
      <4>2. /\ session[s].object \in -2 .. MaxTime /\ -1 \in -1 .. MaxTime
            /\ session[s].jobs \ {"insert"} \in SUBSET {"insert", "update"}
        BY <4>1 DEF SessionRow, TypeOK
      <4>3. [session[s] EXCEPT !.row = session[s].object, !.synced = -1,
                                !.jobs = session[s].jobs \ {"insert"}] \in SessionRow
        BY <4>1, <4>2, SessionEdits
      <4> QED
        BY <2>9, <4>3 DEF SessionInserted, TypeOK
    <3> QED
      BY <2>9, <3>1 DEF SessionInserted, Worker, history, TypeOK
  <2>10. ASSUME NEW s \in Sessions, SessionUpdated(s) PROVE TypeOK'
    <3>1. session' \in [Sessions -> SessionRow]
      <4>1. session[s] \in SessionRow
        BY DEF TypeOK
      <4>2. /\ (IF session[s].row = -2 THEN -2 ELSE session[s].object) \in -2 .. MaxTime
            /\ (IF session[s].row = -2 THEN session[s].synced ELSE -1) \in -1 .. MaxTime
            /\ session[s].jobs \ {"update"} \in SUBSET {"insert", "update"}
        BY <4>1 DEF SessionRow, TypeOK
      <4>3. [session[s] EXCEPT !.row    = IF session[s].row = -2 THEN -2 ELSE session[s].object,
                                !.synced = IF session[s].row = -2 THEN session[s].synced ELSE -1,
                                !.jobs   = session[s].jobs \ {"update"}] \in SessionRow
        BY <4>1, <4>2, SessionEdits
      <4> QED
        BY <2>10, <4>3 DEF SessionUpdated, TypeOK
    <3> QED
      BY <2>10, <3>1 DEF SessionUpdated, Worker, history, TypeOK
  <2>11. ASSUME NEW n \in Scans, Scan(n) PROVE TypeOK'
    BY <2>11 DEF Scan, Change, Worker, TypeOK
  <2>12. CASE doWork
    BY <2>12 DEF doWork, local, TypeOK
  <2>13. CASE registerAppInstallation
    BY <2>13 DEF registerAppInstallation, local, history, TypeOK, Backend
  <2>14. CASE syncFlows
    <3> DEFINE batch == FirstOf(NotSynced(cursor))
    <3>1. batch \in SUBSET Flows
      BY DEF FirstOf, NotSynced
    <3>2. batch # {} => LastOf(batch) \in Flows
      BY <3>1, FS_Subset, LastOfProperties
    <3> HIDE DEF batch
    <3>3. CASE batch = {}
      BY <2>14, <3>3 DEF syncFlows, local, TypeOK, batch
    <3>4. CASE batch # {}
      <4>1. [f \in Flows |-> flow[f].end] \in [Flows -> 0 .. MaxTime]
        BY DEF TypeOK
      <4>2. body' = [body EXCEPT !.flows = batch, !.end = [f \in Flows |-> flow[f].end]]
        BY <2>14, <3>4 DEF syncFlows, batch
      <4>3. body' \in Request
        BY <3>1, <4>1, <4>2 DEF TypeOK, Request
      <4>4. cursor' \in Flows \cup {0} /\ passed' \subseteq Flows
        BY <2>14, <3>1, <3>2, <3>4 DEF syncFlows, TypeOK, batch
      <4> QED
        BY <2>14, <4>3, <4>4 DEF syncFlows, local, TypeOK
    <3> QED
      BY <3>3, <3>4
  <2>15. ASSUME NEW taken \in SUBSET body.flows, flowsAnswered(taken) PROVE TypeOK'
    <3>1. got' \in Backend
      BY <2>15 DEF flowsAnswered, TypeOK, Request, Backend
    <3>2. flow' \in [Flows -> [end : 0 .. MaxTime, synced : 0 .. MaxTime]]
      BY <2>15 DEF flowsAnswered, TypeOK, Request
    <3> QED
      BY <2>15, <3>1, <3>2, NothingTyped DEF flowsAnswered, history, TypeOK
  <2>16. CASE readAllowed
    BY <2>16 DEF readAllowed, ReadRules, local, Rules, TypeOK, Request
  <2>17. CASE readBlocked
    BY <2>17 DEF readBlocked, ReadRules, local, history, Rules, TypeOK, Request
  <2>18. CASE readDefault
    BY <2>18 DEF readDefault, ReadRules, local, history, Rules, TypeOK, Request
  <2>19. CASE syncACL
    BY <2>19, NothingTyped DEF syncACL, local, history, TypeOK
  <2>20. CASE aclAnswered
    BY <2>20, NothingTyped, LastRuleTyped DEF aclAnswered, local, history, TypeOK, Request, Backend
  <2>21. CASE setAllSynced
    <3>1. policy' \in [Apps -> PolicyRow]
      <4>1. \A r \in PolicyRow : [r EXCEPT !.sync = FALSE] \in PolicyRow
        BY DEF PolicyRow
      <4> QED
        BY <2>21, <4>1 DEF setAllSynced, TypeOK
    <3> QED
      BY <2>21, <3>1 DEF setAllSynced, history, TypeOK
  <2>22. CASE syncLanShieldSessions
    <3> DEFINE due == {s \in Sessions : session[s].row # -2 /\ session[s].synced # session[s].row}
               ends == [s \in Sessions |-> IF s \in due THEN session[s].row ELSE -2]
    <3>1. ends \in [Sessions -> -2 .. MaxTime]
      BY DEF TypeOK, SessionRow
    <3>2. body' = body \/ body' = [body EXCEPT !.ends = ends]
      BY <2>22 DEF syncLanShieldSessions
    <3> HIDE DEF ends
    <3>3. body' \in Request
      BY <3>1, <3>2 DEF TypeOK, Request
    <3> QED
      BY <2>22, <3>3 DEF syncLanShieldSessions, local, history, TypeOK
  <2>23. ASSUME NEW taken \in SUBSET Due, NEW named \in SUBSET taken, sessionsAnswered(taken, named)
         PROVE  TypeOK'
    <3>1. got' \in Backend
      BY <2>23 DEF sessionsAnswered, TypeOK, Request, Backend
    <3>2. session' \in [Sessions -> SessionRow]
      <4>1. ASSUME NEW s \in Sessions, s \in named
            PROVE  [session[s] EXCEPT !.synced = body.ends[s]]
                     \in SessionRow
        <5>1. body.ends[s] \in -1 .. MaxTime
          BY <4>1 DEF TypeOK, Request, Due
        <5> QED
          BY <5>1, SessionEdits DEF TypeOK
      <4> QED
        BY <2>23, <4>1 DEF sessionsAnswered, TypeOK
    <3> QED
      BY <2>23, <3>1, <3>2, NothingTyped DEF sessionsAnswered, history, TypeOK
  <2>24. CASE syncOpenPorts
    BY <2>24 DEF syncOpenPorts, local, TypeOK, Request
  <2>25. CASE portsAnswered
    BY <2>25, NothingTyped DEF portsAnswered, local, history, TypeOK, Request, Backend
  <2>26. CASE deleteAll
    BY <2>26 DEF deleteAll, history, TypeOK
  <2>27. CASE lost \/ Killed
    <3>1. got' \in Backend
      BY <2>27, RunEnds, TakenTyped DEF TypeOK
    <3> QED
      BY <2>27, <3>1, RunEnds, NothingTyped DEF TypeOK
  <2> QED
    BY <2>1, <2>2, <2>3, <2>4, <2>5, <2>6, <2>7, <2>8, <2>9, <2>10, <2>11, <2>12, <2>13,
       <2>14, <2>15, <2>16, <2>17, <2>18, <2>19, <2>20, <2>21, <2>22, <2>23, <2>24, <2>25, <2>26, <2>27
       DEF Next, Upload, Answer
<1> QED
  BY <1>1, <1>2, PTL DEF Spec

-----------------------------------------------------------------------------
(* The invariant, one table after the other. *)

\* Steps of the writers of the tables other than the worker.
Others ==
    \/ Tick \/ ToggleShare
    \/ \E f \in Flows : FlowActive(f) \/ FlowCleared(f)
    \/ \E a \in Apps : SetPolicy(a)
    \/ \E s \in Sessions : SessionStarts(s) \/ SessionStops(s) \/ SessionInserted(s) \/ SessionUpdated(s)
    \/ \E n \in Scans : Scan(n)
    \/ UNCHANGED vars

\* They leave the worker alone.
LEMMA OthersKeepWorker == ASSUME Others PROVE UNCHANGED Worker
BY DEF Others, Tick, ToggleShare, FlowActive, FlowCleared, SetPolicy, SessionStarts, SessionStops,
       SessionInserted, SessionUpdated, Scan, Change, Worker, vars

\* What the fields of body and got hold.
LEMMA FieldTypes ==
    ASSUME TypeOK
    PROVE  /\ body.flows \in SUBSET Flows /\ body.end \in [Flows -> 0 .. MaxTime]
           /\ body.rules \in [Apps -> SUBSET Rules] /\ body.ends \in [Sessions -> -2 .. MaxTime]
           /\ body.scans \in SUBSET Scans
           /\ got.end \in [Flows -> 0 .. MaxTime] /\ got.rule \in [Apps -> Rules \cup {"none"}]
           /\ got.ends \in [Sessions -> -2 .. MaxTime] /\ got.scans \in SUBSET Scans
BY DEF TypeOK, Request, Backend

\* An empty request holds nothing of any table.
LEMMA NothingHeld ==
    /\ Nothing.flows = {} /\ Nothing.scans = {}
    /\ \A a \in Apps : Nothing.rules[a] = {}
    /\ \A s \in Sessions : Nothing.ends[s] = -2
BY DEF Nothing

\* Each request carries what was read for it and nothing else.
LEMMA BodyStep == TypeOK /\ BodyIsOfRequest /\ [Next]_vars => BodyIsOfRequest'
<1> SUFFICES ASSUME TypeOK, BodyIsOfRequest, [Next]_vars PROVE BodyIsOfRequest'
  OBVIOUS
<1> USE DEF BodyIsOfRequest
<1>1. CASE Others
  BY <1>1, OthersKeepWorker DEF Worker
<1>2. CASE doWork \/ registerAppInstallation \/ setAllSynced \/ deleteAll
  BY <1>2 DEF doWork, registerAppInstallation, setAllSynced, deleteAll
<1>3. CASE body' = Nothing
  BY <1>3, NothingHeld
<1>4. CASE syncFlows
  BY <1>4 DEF syncFlows, TypeOK, Request
<1>5. CASE readAllowed \/ readBlocked \/ readDefault
  BY <1>5 DEF readAllowed, readBlocked, readDefault, ReadRules, TypeOK, Request
<1>6. CASE syncACL
  BY <1>3, <1>6 DEF syncACL
<1>7. CASE syncLanShieldSessions
  BY <1>7 DEF syncLanShieldSessions, TypeOK, Request
<1>8. CASE syncOpenPorts
  BY <1>8 DEF syncOpenPorts, TypeOK, Request
<1>9. CASE Answer \/ lost \/ Killed
  BY <1>3, <1>9 DEF Answer, flowsAnswered, aclAnswered, sessionsAnswered, portsAnswered, lost, Killed
<1> QED
  BY <1>1, <1>2, <1>4, <1>5, <1>6, <1>7, <1>8, <1>9 DEF Next, Upload, Others

\* A step that touches no flow, and puts none into a request, keeps the marks.
LEMMA FlowKept ==
    ASSUME FlowSynced, FlowUnderWay, flow' = flow, got'.end = got.end, body'.flows \subseteq body.flows
    PROVE  FlowSynced' /\ FlowUnderWay'
BY DEF FlowSynced, FlowUnderWay

\* Steps that are about another table than the flows.
LEMMA FlowFrame ==
    ASSUME TypeOK,
           \/ Tick \/ ToggleShare \/ UNCHANGED vars
           \/ \E a \in Apps : SetPolicy(a)
           \/ \E s \in Sessions : SessionStarts(s) \/ SessionStops(s) \/ SessionInserted(s) \/ SessionUpdated(s)
           \/ \E n \in Scans : Scan(n)
           \/ doWork \/ registerAppInstallation \/ readAllowed \/ readBlocked \/ readDefault \/ syncACL
           \/ aclAnswered \/ setAllSynced \/ syncLanShieldSessions \/ AnySessionsAnswered
           \/ syncOpenPorts \/ portsAnswered \/ deleteAll
    PROVE  flow' = flow /\ got'.end = got.end /\ body'.flows \subseteq body.flows
<1> USE DEF local, Worker, Change
<1>1. CASE \/ Tick \/ ToggleShare \/ UNCHANGED vars \/ (\E a \in Apps : SetPolicy(a))
           \/ \E n \in Scans : Scan(n)
  BY <1>1 DEF Tick, ToggleShare, vars, SetPolicy, Scan
<1>2. CASE \E s \in Sessions : SessionStarts(s) \/ SessionStops(s) \/ SessionInserted(s) \/ SessionUpdated(s)
  BY <1>2 DEF SessionStarts, SessionStops, SessionInserted, SessionUpdated
<1>3. CASE doWork \/ registerAppInstallation \/ setAllSynced \/ deleteAll
  BY <1>3 DEF doWork, registerAppInstallation, setAllSynced, deleteAll, TypeOK, Backend
<1>4. CASE readAllowed \/ readBlocked \/ readDefault
  BY <1>4 DEF readAllowed, readBlocked, readDefault, ReadRules, TypeOK, Request
<1>5. CASE syncACL \/ syncLanShieldSessions \/ syncOpenPorts
  BY <1>5, NothingHeld DEF syncACL, syncLanShieldSessions, syncOpenPorts, TypeOK, Request
<1>6. CASE aclAnswered \/ AnySessionsAnswered \/ portsAnswered
  BY <1>6, NothingHeld DEF aclAnswered, AnySessionsAnswered, sessionsAnswered, portsAnswered, TypeOK, Backend
<1> QED
  BY <1>1, <1>2, <1>3, <1>4, <1>5, <1>6

\* No step marks a flow whose last activity the backend does not hold.
LEMMA FlowStep ==
    TypeOK /\ TypeOK' /\ BodyIsOfRequest /\ FlowSynced /\ FlowUnderWay /\ [Next]_vars
      => FlowSynced' /\ FlowUnderWay'
<1> SUFFICES ASSUME TypeOK, TypeOK', BodyIsOfRequest, FlowSynced, FlowUnderWay, [Next]_vars
             PROVE  FlowSynced' /\ FlowUnderWay'
  OBVIOUS
<1> USE SyncAssumption
<1>1. ASSUME NEW f \in Flows, FlowActive(f) \/ FlowCleared(f)
      PROVE  FlowSynced' /\ FlowUnderWay'
  <2>1. UNCHANGED <<body, got>>
    BY <1>1 DEF FlowActive, FlowCleared, Change, Worker
  <2>2. \A g \in Flows : g # f => flow'[g] = flow[g]
    BY <1>1 DEF FlowActive, FlowCleared, TypeOK
  <2>3. flow'[f].end > 0 => flow'[f].synced < flow'[f].end
    BY <1>1 DEF FlowActive, FlowCleared, NoRow, TypeOK
  <2>4. flow'[f].end \in Nat /\ flow'[f].synced \in Nat
    BY DEF TypeOK
  <2>5. ~(flow'[f].end > 0 /\ flow'[f].synced >= flow'[f].end)
    BY <2>3, <2>4
  <2>6. FlowSynced'
    BY <2>1, <2>2, <2>5 DEF FlowSynced
  <2>7. body.flows \in SUBSET Flows
    BY FieldTypes
  <2>8. FlowUnderWay'
    BY <2>1, <2>2, <2>3, <2>7 DEF FlowUnderWay
  <2> QED
    BY <2>6, <2>8
<1>2. CASE syncFlows
  <2>1. flow' = flow /\ got' = got
    BY <1>2 DEF syncFlows, local
  <2>2. \A f \in body'.flows : f \in body.flows \/ flow[f].synced < flow[f].end
    <3>1. body' = body \/ body'.flows = FirstOf(NotSynced(cursor))
      BY <1>2 DEF syncFlows, TypeOK, Request
    <3> QED
      BY <3>1 DEF FirstOf, NotSynced
  <2>3. body'.flows \in SUBSET Flows
    BY FieldTypes DEF TypeOK, Request
  <2> QED
    BY <2>1, <2>2, <2>3 DEF FlowSynced, FlowUnderWay
<1>3. ASSUME NEW taken \in SUBSET body.flows, flowsAnswered(taken)
      PROVE  FlowSynced' /\ FlowUnderWay'
  <2>1. body'.flows = {}
    BY <1>3, NothingHeld DEF flowsAnswered
  <2>2. ASSUME NEW f \in Flows, flow'[f].end > 0, flow'[f].synced >= flow'[f].end
        PROVE  got'.end[f] >= flow'[f].end
    <3>1. got'.end[f] = IF f \in taken THEN body.end[f] ELSE got.end[f]
      BY <1>3 DEF flowsAnswered, TypeOK, Backend
    <3>2. flow'[f] = IF f \in taken /\ flow[f].end > 0 THEN [flow[f] EXCEPT !.synced = body.end[f]] ELSE flow[f]
      BY <1>3 DEF flowsAnswered
    <3>3. CASE f \in taken
      BY <2>2, <3>1, <3>2, <3>3 DEF TypeOK
    <3>4. CASE f \notin taken
      BY <2>2, <3>1, <3>2, <3>4 DEF FlowSynced
    <3> QED
      BY <3>3, <3>4
  <2> QED
    BY <2>1, <2>2 DEF FlowSynced, FlowUnderWay
<1>4. CASE lost \/ Killed
  <2>1. body'.flows = {} /\ flow' = flow
    BY <1>4, RunEnds, NothingHeld
  <2>2. ASSUME NEW f \in Flows, flow[f].end > 0, flow[f].synced >= flow[f].end
        PROVE  got'.end[f] = got.end[f]
    <3>1. f \notin body.flows
      BY <2>2 DEF FlowUnderWay, TypeOK
    <3>2. got' = got \/ got' = Taken
      BY <1>4, RunEnds
    <3> QED
      BY <3>1, <3>2, TakenTyped
  <2> QED
    BY <2>1, <2>2 DEF FlowSynced, FlowUnderWay
<1>5. CASE flow' = flow /\ got'.end = got.end /\ body'.flows \subseteq body.flows
  BY <1>5, FlowKept
<1> QED
  BY <1>1, <1>2, <1>3, <1>4, <1>5, FlowFrame DEF Next, Upload, Answer, AnySessionsAnswered

\* Steps that are about another table than the sessions.
LEMMA SessionFrame ==
    ASSUME TypeOK,
           \/ Tick \/ ToggleShare \/ UNCHANGED vars
           \/ \E f \in Flows : FlowActive(f) \/ FlowCleared(f)
           \/ \E a \in Apps : SetPolicy(a)
           \/ \E n \in Scans : Scan(n)
           \/ doWork \/ registerAppInstallation \/ syncFlows
           \/ \E taken \in SUBSET body.flows : flowsAnswered(taken)
           \/ readAllowed \/ readBlocked \/ readDefault \/ syncACL \/ aclAnswered \/ setAllSynced
           \/ syncOpenPorts \/ portsAnswered \/ deleteAll
    PROVE  session' = session /\ got'.ends = got.ends /\ (body'.ends = body.ends \/ body' = Nothing)
<1> USE DEF local, Worker, Change
<1>1. CASE \/ Tick \/ ToggleShare \/ UNCHANGED vars \/ (\E a \in Apps : SetPolicy(a))
           \/ (\E n \in Scans : Scan(n)) \/ \E f \in Flows : FlowActive(f) \/ FlowCleared(f)
  BY <1>1 DEF Tick, ToggleShare, vars, SetPolicy, Scan, FlowActive, FlowCleared
<1>2. CASE doWork \/ registerAppInstallation \/ setAllSynced \/ deleteAll
  BY <1>2 DEF doWork, registerAppInstallation, setAllSynced, deleteAll, TypeOK, Backend
<1>3. CASE readAllowed \/ readBlocked \/ readDefault
  BY <1>3 DEF readAllowed, readBlocked, readDefault, ReadRules, TypeOK, Request
<1>4. CASE syncFlows \/ syncACL \/ syncOpenPorts
  BY <1>4 DEF syncFlows, syncACL, syncOpenPorts, TypeOK, Request
<1>5. CASE (\E taken \in SUBSET body.flows : flowsAnswered(taken)) \/ aclAnswered \/ portsAnswered
  BY <1>5 DEF flowsAnswered, aclAnswered, portsAnswered, TypeOK, Backend
<1> QED
  BY <1>1, <1>2, <1>3, <1>4, <1>5

\* What makes the marks of the service's sessions right.
SessionInv == SessionSynced /\ SessionUnderWay /\ JobsHaveObject

\* No step marks a session whose end the backend does not hold, in whichever
\* order its coroutines run.
LEMMA SessionStep ==
    TypeOK /\ BodyIsOfRequest /\ SessionInv /\ [Next]_vars => SessionInv'
<1> SUFFICES ASSUME TypeOK, BodyIsOfRequest, SessionInv, [Next]_vars PROVE SessionInv'
  OBVIOUS
<1> USE SyncAssumption DEF SessionInv
<1>1. ASSUME NEW s \in Sessions,
             SessionStarts(s) \/ SessionStops(s) \/ SessionInserted(s) \/ SessionUpdated(s)
      PROVE  SessionInv'
  <2>1. UNCHANGED <<body, got>>
    BY <1>1 DEF SessionStarts, SessionStops, SessionInserted, SessionUpdated, Change, Worker
  <2>2. \A t \in Sessions : t # s => session'[t] = session[t]
    BY <1>1 DEF SessionStarts, SessionStops, SessionInserted, SessionUpdated, TypeOK
  <2>3. session[s] \in SessionRow /\ clock \in 1 .. MaxTime
    BY DEF TypeOK
  <2>4. session[s].jobs # {} => session[s].object >= 0
    BY DEF JobsHaveObject
  <2>5. CASE SessionStarts(s) \/ SessionStops(s)
    <3>1. \/ session'[s] = [session[s] EXCEPT !.object = 0, !.jobs = {"insert"}]
          \/ session'[s] = [session[s] EXCEPT !.object = clock, !.jobs = session[s].jobs \cup {"update"}]
      BY <2>5 DEF SessionStarts, SessionStops, TypeOK
    <3>2. session'[s].row = session[s].row /\ session'[s].synced = session[s].synced
      BY <2>3, <3>1 DEF SessionRow
    <3>3. session'[s].object >= 0
      <4>1. session'[s].object = 0 \/ session'[s].object = clock
        BY <2>3, <3>1 DEF SessionRow
      <4> QED
        BY <2>3, <4>1
    <3> QED
      BY <2>1, <2>2, <3>2, <3>3 DEF SessionSynced, SessionUnderWay, JobsHaveObject
  <2>6. CASE SessionInserted(s) \/ SessionUpdated(s)
    <3>1. session[s].object >= 0
      BY <2>4, <2>6 DEF SessionInserted, SessionUpdated
    <3>2. \E j : \/ session'[s] = [session[s] EXCEPT !.row = session[s].object, !.synced = -1, !.jobs = j]
                 \/ session'[s] = [session[s] EXCEPT
                      !.row = IF session[s].row = -2 THEN -2 ELSE session[s].object,
                      !.synced = IF session[s].row = -2 THEN session[s].synced ELSE -1, !.jobs = j]
      <4>1. CASE SessionInserted(s)
        BY <4>1 DEF SessionInserted, TypeOK
      <4>2. CASE SessionUpdated(s)
        BY <4>2 DEF SessionUpdated, TypeOK
      <4> QED
        BY <2>6, <4>1, <4>2
    <3>3. session'[s].row = -2 \/ session'[s].synced # session'[s].row
      <4>1. \/ session'[s].row = -2
            \/ session'[s].row = session[s].object /\ session'[s].synced = -1
        BY <2>3, <3>2 DEF SessionRow
      <4> QED
        BY <2>3, <3>1, <4>1 DEF SessionRow
    <3>4. session'[s].object = session[s].object
      BY <2>3, <3>2 DEF SessionRow
    <3> QED
      BY <2>1, <2>2, <2>4, <3>1, <3>3, <3>4 DEF SessionSynced, SessionUnderWay, JobsHaveObject
  <2> QED
    BY <1>1, <2>5, <2>6
<1>2. CASE syncLanShieldSessions
  <2>1. session' = session /\ got' = got
    BY <1>2 DEF syncLanShieldSessions, local
  <2>2. \A s \in Sessions : body'.ends[s] # -2 => body.ends[s] # -2 \/ session[s].synced # session[s].row
    BY <1>2 DEF syncLanShieldSessions, TypeOK, Request
  <2> QED
    BY <2>1, <2>2 DEF SessionSynced, SessionUnderWay, JobsHaveObject
<1>3. ASSUME NEW taken \in SUBSET Due, NEW named \in SUBSET taken, sessionsAnswered(taken, named)
      PROVE  SessionInv'
  <2>1. \A s \in Sessions : body'.ends[s] = -2
    BY <1>3, NothingHeld DEF sessionsAnswered
  <2>2. ASSUME NEW s \in Sessions
        PROVE  /\ session'[s].object = session[s].object /\ session'[s].jobs = session[s].jobs
               /\ session'[s].row # -2 /\ session'[s].synced = session'[s].row
                    => got'.ends[s] = session'[s].row
    <3>1. got'.ends[s] = IF s \in taken THEN body.ends[s] ELSE got.ends[s]
      BY <1>3 DEF sessionsAnswered, TypeOK, Backend
    <3>2. session'[s] = IF s \in named THEN [session[s] EXCEPT !.synced = body.ends[s]] ELSE session[s]
      BY <1>3 DEF sessionsAnswered
    <3>3. session[s] \in SessionRow
      BY DEF TypeOK
    <3>4. s \in taken => session[s].row = -2 \/ session[s].synced # session[s].row
      BY DEF SessionUnderWay, Due
    <3> QED
      BY <3>1, <3>2, <3>3, <3>4 DEF SessionRow, SessionSynced
  <2> QED
    BY <2>1, <2>2 DEF SessionSynced, SessionUnderWay, JobsHaveObject
<1>4. CASE lost \/ Killed
  <2>1. \A s \in Sessions : body'.ends[s] = -2
    BY <1>4, RunEnds, NothingHeld
  <2>2. ASSUME NEW s \in Sessions, session[s].row # -2, session[s].synced = session[s].row
        PROVE  got'.ends[s] = got.ends[s]
    <3>1. s \notin Due
      BY <2>2 DEF SessionUnderWay, Due
    <3>2. got' = got \/ got' = Taken
      BY <1>4, RunEnds
    <3> QED
      BY <3>1, <3>2, TakenTyped
  <2>3. \A s \in Sessions :
           /\ session'[s].row = session[s].row /\ session'[s].synced = session[s].synced
           /\ session'[s].jobs # {} => session'[s] = session[s]
    BY <1>4, RunEnds
  <2> QED
    BY <2>1, <2>2, <2>3 DEF SessionSynced, SessionUnderWay, JobsHaveObject
<1>5. CASE session' = session /\ got'.ends = got.ends /\ (body'.ends = body.ends \/ body' = Nothing)
  BY <1>5, NothingHeld DEF SessionSynced, SessionUnderWay, JobsHaveObject
<1> QED
  BY <1>1, <1>2, <1>3, <1>4, <1>5, SessionFrame DEF Next, Upload, Answer, AnySessionsAnswered

\* Steps that are about another table than the policies and the scans, and
\* neither start nor end an upload of theirs.
LEMMA RuleFrame ==
    ASSUME TypeOK,
           \/ Tick \/ ToggleShare \/ UNCHANGED vars
           \/ \E f \in Flows : FlowActive(f) \/ FlowCleared(f)
           \/ \E s \in Sessions : SessionStarts(s) \/ SessionStops(s) \/ SessionInserted(s) \/ SessionUpdated(s)
           \/ doWork \/ registerAppInstallation \/ syncFlows
           \/ \E taken \in SUBSET body.flows : flowsAnswered(taken)
           \/ syncLanShieldSessions \/ AnySessionsAnswered
    PROVE  /\ UNCHANGED <<policy, scanned, seen, raced>>
           /\ got'.rule = got.rule /\ got'.scans = got.scans
           /\ \/ pc' = pc /\ body' = body
              \/ pc' \in {"idle", "register", "flows", "flowsWait", "acl", "sessionsWait", "ports"}
<1> USE DEF local, Worker, Change, history
<1>1. CASE \/ Tick \/ ToggleShare \/ UNCHANGED vars \/ \E f \in Flows : FlowActive(f) \/ FlowCleared(f)
  BY <1>1 DEF Tick, ToggleShare, vars, FlowActive, FlowCleared
<1>2. CASE \E s \in Sessions : SessionStarts(s) \/ SessionStops(s) \/ SessionInserted(s) \/ SessionUpdated(s)
  BY <1>2 DEF SessionStarts, SessionStops, SessionInserted, SessionUpdated
<1>3. CASE doWork \/ registerAppInstallation
  BY <1>3 DEF doWork, registerAppInstallation, TypeOK, Backend
<1>4. CASE syncFlows \/ syncLanShieldSessions
  BY <1>4 DEF syncFlows, syncLanShieldSessions
<1>5. CASE (\E taken \in SUBSET body.flows : flowsAnswered(taken)) \/ AnySessionsAnswered
  BY <1>5 DEF flowsAnswered, AnySessionsAnswered, sessionsAnswered, TypeOK, Backend
<1> QED
  BY <1>1, <1>2, <1>3, <1>4, <1>5

\* Steps that change nothing of the policies but, at most, the scans' share of
\* the history.
LEMMA RuleKept ==
    ASSUME RuleDone, RuleUnderWay, RuleBeforeMark, policy' = policy, got'.rule = got.rule,
           Apps \cap raced' = Apps \cap raced,
           \/ pc' = pc /\ body' = body
           \/ pc' \notin {"acl2", "acl3", "aclPost", "aclWait", "aclMark"}
    PROVE  RuleDone' /\ RuleUnderWay' /\ RuleBeforeMark'
BY DEF RuleDone, RuleUnderWay, RuleBeforeMark, RulesRead

\* What makes the marks of the policies right.
RuleInv == RuleDone /\ RuleUnderWay /\ RuleBeforeMark

\* No step marks a policy the backend does not hold, unless it changed during
\* its upload.
LEMMA RuleStep == TypeOK /\ BodyIsOfRequest /\ RuleInv /\ [Next]_vars => RuleInv'
<1> SUFFICES ASSUME TypeOK, BodyIsOfRequest, RuleInv, [Next]_vars PROVE RuleInv'
  OBVIOUS
<1> USE SyncAssumption DEF RuleInv
<1>1. ASSUME NEW a \in Apps, SetPolicy(a) PROVE RuleInv'
  <2>1. UNCHANGED <<body, got, pc>>
    BY <1>1 DEF SetPolicy, Change, Worker
  <2>2. \A b \in Apps : b # a => policy'[b] = policy[b]
    BY <1>1 DEF SetPolicy, TypeOK
  <2>3. policy'[a].value = "none" \/ policy'[a].sync
    BY <1>1 DEF SetPolicy, TypeOK, NoRule
  <2>4. \A b \in Apps : b # a => (b \in raced' <=> b \in raced)
    BY <1>1 DEF SetPolicy
  <2>5. pc \in {"acl2", "acl3", "aclPost", "aclWait", "aclMark"} => a \in raced'
    BY <1>1 DEF SetPolicy, UploadingRules
  <2> QED
    BY <2>1, <2>2, <2>3, <2>4, <2>5 DEF RuleDone, RuleUnderWay, RuleBeforeMark, RulesRead
<1>2. CASE (\E n \in Scans : Scan(n)) \/ syncOpenPorts \/ portsAnswered \/ deleteAll
  <2>1. policy' = policy /\ got'.rule = got.rule
    BY <1>2 DEF Scan, syncOpenPorts, portsAnswered, deleteAll, Change, Worker, local, TypeOK, Backend
  <2>2. Apps \cap raced' = Apps \cap raced
    BY <1>2 DEF Scan, syncOpenPorts, portsAnswered, deleteAll, history, TypeOK
  <2>3. \/ pc' = pc /\ body' = body
        \/ pc' \notin {"acl2", "acl3", "aclPost", "aclWait", "aclMark"}
    BY <1>2 DEF Scan, syncOpenPorts, portsAnswered, deleteAll, Change, Worker
  <2> QED
    BY <2>1, <2>2, <2>3, RuleKept
<1>3. CASE readAllowed \/ readBlocked \/ readDefault
  <2>1. policy' = policy /\ got' = got
    BY <1>3 DEF readAllowed, readBlocked, readDefault, local
  <2>2. PICK v \in Rules : ReadRules(v) /\ (RulesRead' = IF pc = "acl" THEN {v} ELSE RulesRead \cup {v})
    <3>1. CASE readAllowed
      BY <3>1 DEF readAllowed, RulesRead, Rules
    <3>2. CASE readBlocked
      BY <3>2 DEF readBlocked, RulesRead, Rules
    <3>3. CASE readDefault
      BY <3>3 DEF readDefault, RulesRead, Rules
    <3> QED
      BY <1>3, <3>1, <3>2, <3>3
  <2>3. pc \in {"acl", "acl2", "acl3"} /\ pc' \in {"acl2", "acl3", "aclPost"}
    BY <1>3 DEF readAllowed, readBlocked, readDefault
  <2>4. \A a \in Apps : body'.rules[a] = IF policy[a].value = v /\ policy[a].sync
                                         THEN body.rules[a] \cup {v} ELSE body.rules[a]
    BY <2>2 DEF ReadRules, Unsynced, TypeOK, Request
  <2>5. \A a \in Apps : \/ a \in raced' <=> a \in raced
                        \/ pc = "acl" /\ policy[a].sync /\ a \notin raced'
    BY <1>3 DEF readAllowed, readBlocked, readDefault, history
  <2>6. ASSUME NEW a \in Apps, a \notin raced', policy[a].value # "none"
        PROVE  body'.rules[a] = IF policy[a].sync /\ policy[a].value \in RulesRead'
                                THEN {policy[a].value} ELSE {}
    <3>1. CASE pc = "acl"
      BY <2>2, <2>4, <3>1 DEF BodyIsOfRequest
    <3>2. CASE pc # "acl"
      <4>1. body.rules[a] = IF policy[a].sync /\ policy[a].value \in RulesRead
                            THEN {policy[a].value} ELSE {}
        BY <2>3, <2>5, <2>6, <3>2 DEF RuleUnderWay
      <4>2. RulesRead' = RulesRead \cup {v}
        BY <2>2, <3>2
      <4> QED
        BY <2>4, <4>1, <4>2
    <3> QED
      BY <3>1, <3>2
  <2> QED
    BY <2>1, <2>3, <2>5, <2>6 DEF RuleDone, RuleUnderWay, RuleBeforeMark
<1>4. CASE syncACL
  <2>1. UNCHANGED <<policy, got, raced>>
    BY <1>4 DEF syncACL, local, history
  <2>2. pc' = "sessions" \/ (pc = "aclPost" /\ pc' = "aclWait" /\ body' = body)
    BY <1>4 DEF syncACL
  <2> QED
    BY <2>1, <2>2 DEF RuleDone, RuleUnderWay, RuleBeforeMark, RulesRead
<1>5. CASE aclAnswered \/ lost \/ Killed
  <2>1. UNCHANGED <<policy, raced>> /\ pc' \notin {"acl2", "acl3", "aclPost", "aclWait"}
    BY <1>5, RunEnds DEF aclAnswered, local, history
  <2>2. \/ got' = got /\ pc' = "idle"
        \/ /\ pc \in Waiting
           /\ got'.rule = [a \in Apps |-> IF body.rules[a] = {} THEN got.rule[a] ELSE LastRule(a)]
    <3>1. CASE aclAnswered
      BY <3>1 DEF aclAnswered, Waiting, TypeOK, Backend
    <3>2. CASE lost \/ Killed
      BY <3>2, RunEnds, TakenTyped
    <3> QED
      BY <1>5, <3>1, <3>2
  <2>3. ASSUME NEW a \in Apps, a \notin raced, policy[a].value # "none", ~policy[a].sync
        PROVE  got'.rule[a] = policy[a].value
    <3>1. ASSUME pc \in Waiting PROVE body.rules[a] = {}
      <4>1. CASE pc = "aclWait"
        BY <2>3, <4>1 DEF RuleUnderWay
      <4>2. CASE pc # "aclWait"
        BY <3>1, <4>2 DEF Waiting, BodyIsOfRequest
      <4> QED
        BY <4>1, <4>2
    <3> QED
      BY <2>2, <2>3, <3>1 DEF RuleDone
  <2>4. ASSUME NEW a \in Apps, a \notin raced, policy[a].value # "none", policy[a].sync, pc' = "aclMark"
        PROVE  got'.rule[a] = policy[a].value
    <3>1. pc = "aclWait" /\ RulesRead = Rules
      BY <1>5, <2>4, RunEnds DEF aclAnswered, RulesRead
    <3>2. policy[a].value \in Rules
      BY <2>4 DEF TypeOK, PolicyRow
    <3>3. body.rules[a] = {policy[a].value}
      BY <2>4, <3>1, <3>2 DEF RuleUnderWay
    <3>4. LastRule(a) = policy[a].value
      BY <3>2, <3>3 DEF LastRule, Rules
    <3> QED
      BY <2>2, <2>4, <3>3, <3>4
  <2> QED
    BY <2>1, <2>3, <2>4 DEF RuleDone, RuleUnderWay, RuleBeforeMark
<1>6. CASE setAllSynced
  <2>1. UNCHANGED <<got, raced>> /\ pc = "aclMark" /\ pc' = "sessions"
    BY <1>6 DEF setAllSynced, history
  <2>2. \A a \in Apps : policy'[a].value = policy[a].value
    BY <1>6 DEF setAllSynced, TypeOK, PolicyRow
  <2> QED
    BY <2>1, <2>2 DEF RuleDone, RuleUnderWay, RuleBeforeMark
<1>7. CASE /\ UNCHANGED <<policy, scanned, seen, raced>>
           /\ got'.rule = got.rule /\ got'.scans = got.scans
           /\ \/ pc' = pc /\ body' = body
              \/ pc' \in {"idle", "register", "flows", "flowsWait", "acl", "sessionsWait", "ports"}
  BY <1>7, RuleKept
<1> QED
  BY <1>1, <1>2, <1>3, <1>4, <1>5, <1>6, <1>7, RuleFrame DEF Next, Upload, Answer, AnySessionsAnswered

\* What keeps the scans from being lost.
ScanInv == ScanDone /\ ScanUnderWay

\* Steps of the policies' upload leave the scans alone.
LEMMA ScanFrame ==
    ASSUME TypeOK,
           \/ \E a \in Apps : SetPolicy(a)
           \/ readAllowed \/ readBlocked \/ readDefault \/ syncACL \/ aclAnswered \/ setAllSynced
    PROVE  /\ UNCHANGED <<scanned, seen>> /\ got'.scans = got.scans
           /\ Scans \cap raced' = Scans \cap raced
           /\ \/ pc' = pc /\ body' = body
              \/ pc' \notin {"portsWait", "portsMark"}
<1> USE SyncAssumption DEF local, Worker, Change, history
<1>1. CASE \E a \in Apps : SetPolicy(a)
  BY <1>1 DEF SetPolicy
<1>2. CASE readAllowed \/ readBlocked \/ readDefault
  BY <1>2 DEF readAllowed, readBlocked, readDefault
<1>3. CASE syncACL \/ setAllSynced
  BY <1>3 DEF syncACL, setAllSynced
<1>4. CASE aclAnswered
  BY <1>4 DEF aclAnswered, TypeOK, Backend
<1> QED
  BY <1>1, <1>2, <1>3, <1>4

\* No step loses a scan, unless it was made during an upload.
LEMMA ScanStep == TypeOK /\ BodyIsOfRequest /\ ScanInv /\ [Next]_vars => ScanInv'
<1> SUFFICES ASSUME TypeOK, BodyIsOfRequest, ScanInv, [Next]_vars PROVE ScanInv'
  OBVIOUS
<1> USE SyncAssumption DEF ScanInv, ScanDone, ScanUnderWay
<1>1. ASSUME NEW n \in Scans, Scan(n) PROVE ScanInv'
  BY <1>1 DEF Scan, Change, Worker
<1>2. CASE syncOpenPorts
  <2>1. UNCHANGED <<scanned, seen, got>> /\ raced' = raced \ scanned
    BY <1>2 DEF syncOpenPorts, local
  <2>2. pc' = "idle" \/ (pc' = "portsWait" /\ body'.scans = scanned)
    BY <1>2 DEF syncOpenPorts, TypeOK, Request
  <2> QED
    BY <2>1, <2>2
<1>3. CASE portsAnswered
  <2>1. UNCHANGED <<scanned, seen, raced>> /\ pc = "portsWait" /\ pc' # "portsWait"
    BY <1>3 DEF portsAnswered, local, history
  <2>2. got'.scans = got.scans \cup body.scans
    BY <1>3 DEF portsAnswered, TypeOK, Backend
  <2> QED
    BY <2>1, <2>2
<1>4. CASE deleteAll
  BY <1>4 DEF deleteAll, history
<1>5. CASE lost \/ Killed
  <2>1. UNCHANGED <<scanned, seen, raced>> /\ pc' = "idle"
    BY <1>5, RunEnds
  <2>2. got' = got \/ got'.scans = got.scans \cup body.scans
    BY <1>5, RunEnds, TakenTyped
  <2> QED
    BY <2>1, <2>2
<1>6. CASE /\ UNCHANGED <<scanned, seen>> /\ got'.scans = got.scans
           /\ Scans \cap raced' = Scans \cap raced
           /\ \/ pc' = pc /\ body' = body
              \/ pc' \notin {"portsWait", "portsMark"}
  <2>1. scanned \subseteq Scans /\ seen \subseteq Scans
    BY DEF TypeOK
  <2> QED
    BY <1>6, <2>1
<1> QED
  BY <1>1, <1>2, <1>3, <1>4, <1>5, <1>6, RuleFrame, ScanFrame DEF Next, Upload, Answer, AnySessionsAnswered

-----------------------------------------------------------------------------
(* The theorems. *)

\* What the worker marked as uploaded is with the backend.
UploadInv == BodyIsOfRequest /\ FlowSynced /\ FlowUnderWay /\ SessionInv /\ RuleInv /\ ScanInv

\* It holds in every state, over lost answers, changes during an upload and
\* repeated runs.
LEMMA UploadInvariant == Spec => []UploadInv
<1>1. Init => UploadInv
  BY NothingHeld DEF Init, UploadInv, BodyIsOfRequest, FlowSynced, FlowUnderWay, SessionInv, SessionSynced,
     SessionUnderWay, JobsHaveObject, RuleInv, RuleDone, RuleUnderWay, RuleBeforeMark, ScanInv, ScanDone,
     ScanUnderWay, NoRow, NoRule, NewSession
<1>2. TypeOK /\ TypeOK' /\ UploadInv /\ [Next]_vars => UploadInv'
  BY BodyStep, FlowStep, SessionStep, RuleStep, ScanStep DEF UploadInv
<1> QED
  BY <1>1, <1>2, SyncTypes, PTL DEF Spec

\* A flow or a session the worker takes for synced is one whose last change the
\* backend holds.
THEOREM SyncedFlowsAreUploaded == Spec => []SyncedIsUploaded
<1>1. UploadInv => SyncedIsUploaded
  BY DEF UploadInv, FlowSynced, SessionInv, SessionSynced, SyncedIsUploaded
<1> QED
  BY <1>1, UploadInvariant, PTL

\* A policy marked as synced, and a scan that was deleted, is with the backend
\* unless it changed while the upload was under way.
THEOREM DoneRowsAreUploaded == Spec => []DoneIsUploaded
<1>1. UploadInv => DoneIsUploaded
  BY DEF UploadInv, RuleInv, RuleDone, ScanInv, ScanDone, DoneIsUploaded
<1> QED
  BY <1>1, UploadInvariant, PTL

-----------------------------------------------------------------------------
(* The keyset cursor. *)

\* What a round of syncFlows that sends a request does: its batch is due and
\* after the cursor, and the cursor moves to the last of it.
LEMMA RoundOfSyncFlows ==
    ASSUME TypeOK, syncFlows, pc' = "flowsWait"
    PROVE  /\ cursor' \in Nat /\ cursor \in Nat
           /\ body'.flows = FirstOf(NotSynced(cursor)) /\ passed' = passed \cup body'.flows
           /\ cursor' \in body'.flows /\ \A f \in body'.flows : f <= cursor'
           /\ \A f \in body'.flows : f \in Flows /\ f > cursor
<1> DEFINE batch == FirstOf(NotSynced(cursor))
<1>1. batch # {} /\ cursor' = LastOf(batch) /\ passed' = passed \cup batch /\ body'.flows = batch
  BY DEF syncFlows, TypeOK, Request
<1>2. batch \subseteq Flows /\ \A f \in batch : f > cursor
  BY DEF FirstOf, NotSynced
<1>3. batch \in SUBSET Nat /\ IsFiniteSet(batch)
  BY <1>2, FS_Subset, SyncAssumption
<1>4. LastOf(batch) \in batch /\ \A f \in batch : f <= LastOf(batch)
  BY <1>1, <1>3, LastOfProperties
<1>5. cursor \in Nat
  BY SyncAssumption DEF TypeOK
<1> QED
  BY <1>1, <1>2, <1>3, <1>4, <1>5

\* The cursor only moves on within a pass, past what is uploaded.
LEMMA CursorInvariant == Spec => []PassedBehindCursor
<1>1. Init => PassedBehindCursor
  BY DEF Init, PassedBehindCursor
<1>2. TypeOK /\ PassedBehindCursor /\ [Next]_vars => PassedBehindCursor'
  <2> SUFFICES ASSUME TypeOK, PassedBehindCursor, [Next]_vars PROVE PassedBehindCursor'
    OBVIOUS
  <2>1. CASE doWork
    BY <2>1 DEF doWork, PassedBehindCursor
  <2>2. CASE syncFlows /\ pc' = "flowsWait"
    <3>1. cursor < cursor' /\ cursor \in Nat /\ cursor' \in Nat
      BY <2>2, RoundOfSyncFlows
    <3>2. ASSUME NEW f \in passed' PROVE f <= cursor'
      <4>1. CASE f \in passed
        <5>1. f \in Nat /\ f <= cursor
          BY <4>1, SyncAssumption DEF PassedBehindCursor, TypeOK
        <5> QED
          BY <3>1, <5>1
      <4>2. CASE f \in body'.flows
        BY <2>2, <4>2, RoundOfSyncFlows
      <4> QED
        BY <2>2, <3>2, <4>1, <4>2, RoundOfSyncFlows
    <3> QED
      BY <3>2 DEF PassedBehindCursor
  <2>3. CASE UNCHANGED <<cursor, passed>>
    BY <2>3 DEF PassedBehindCursor
  <2>4. syncFlows => pc' = "flowsWait" \/ UNCHANGED <<cursor, passed>>
    BY DEF syncFlows
  <2>5. Others => UNCHANGED <<cursor, passed>>
    BY DEF Others, Tick, ToggleShare, FlowActive, FlowCleared, SetPolicy, SessionStarts, SessionStops,
           SessionInserted, SessionUpdated, Scan, Change, Worker, history, vars
  <2>6. ASSUME \/ readAllowed \/ readBlocked \/ readDefault \/ syncACL \/ setAllSynced
               \/ syncLanShieldSessions \/ syncOpenPorts \/ deleteAll \/ registerAppInstallation
               \/ Answer \/ lost \/ Killed
        PROVE  UNCHANGED <<cursor, passed>>
    BY <2>6 DEF readAllowed, readBlocked, readDefault, syncACL, setAllSynced, syncLanShieldSessions,
           syncOpenPorts, deleteAll, registerAppInstallation, Answer, flowsAnswered, aclAnswered,
           sessionsAnswered, portsAnswered, lost, Killed, history
  <2> QED
    BY <2>1, <2>2, <2>3, <2>4, <2>5, <2>6 DEF Next, Upload, Others
<1> QED
  BY <1>1, <1>2, SyncTypes, PTL DEF Spec

\* No flow is sent twice in a pass, although rows of earlier batches become due
\* again while it runs.
THEOREM FlowsOncePerPass == Spec => OncePerPass
<1>1. TypeOK /\ PassedBehindCursor /\ [Next]_vars
        => [syncFlows /\ pc' = "flowsWait" => body'.flows \cap passed = {}]_vars
  <2> SUFFICES ASSUME TypeOK, PassedBehindCursor, syncFlows, pc' = "flowsWait",
                      NEW f \in body'.flows, f \in passed
               PROVE  FALSE
    OBVIOUS
  <2>1. f \in Nat /\ f > cursor /\ cursor \in Nat
    BY RoundOfSyncFlows, SyncAssumption
  <2>2. f <= cursor
    BY DEF PassedBehindCursor
  <2> QED
    BY <2>1, <2>2
<1> QED
  BY <1>1, SyncTypes, CursorInvariant, PTL DEF Spec, OncePerPass

\* The rows taken are a lower part of the due ones: FirstOf is closed under
\* earlier members.
LEMMA FirstOfIsInitial ==
    ASSUME NEW S \in SUBSET Flows, NEW g \in FirstOf(S), NEW f \in S, f <= g
    PROVE  f \in FirstOf(S)
<1> DEFINE before(x) == {h \in S : h < x}
<1>1. \A x \in S : x \in Nat
  BY SyncAssumption
<1>2. before(f) \in SUBSET before(g)
  BY <1>1 DEF FirstOf
<1>3. IsFiniteSet(before(g))
  <2>1. before(g) \in SUBSET Flows
    OBVIOUS
  <2> QED
    BY <2>1, FS_Subset, SyncAssumption
<1>4. Cardinality(before(f)) <= Cardinality(before(g)) /\ Cardinality(before(g)) \in Nat
      /\ Cardinality(before(f)) \in Nat
  BY <1>2, <1>3, FS_Subset, FS_CardinalityType
<1>5. Cardinality(before(g)) < BatchSize
  BY DEF FirstOf
<1>6. Cardinality(before(f)) < BatchSize
  BY <1>4, <1>5, SyncAssumption
<1> QED
  BY <1>6 DEF FirstOf

\* The cursor moves past no due flow that is not in the batch, so that a pass
\* that is not interrupted misses none of the rows that were due.
THEOREM FlowsNoneSkipped == Spec => NoneSkipped
<1>1. TypeOK /\ [Next]_vars
        => [syncFlows /\ pc' = "flowsWait"
              => \A f \in NotSynced(cursor) : f <= cursor' => f \in body'.flows]_vars
  <2> SUFFICES ASSUME TypeOK, syncFlows, pc' = "flowsWait",
                      NEW f \in NotSynced(cursor), f <= cursor'
               PROVE  f \in body'.flows
    OBVIOUS
  <2>1. NotSynced(cursor) \in SUBSET Flows
    BY DEF NotSynced
  <2>2. body'.flows = FirstOf(NotSynced(cursor)) /\ cursor' \in FirstOf(NotSynced(cursor))
    BY RoundOfSyncFlows
  <2> QED
    BY <2>1, <2>2, FirstOfIsInitial
<1> QED
  BY <1>1, SyncTypes, PTL DEF Spec, NoneSkipped

=============================================================================
