--------------------------- MODULE IncidentService ---------------------------
(***************************************************************************)
(* The incident and score pipeline of one contestant:                      *)
(* server/app/services/telemetry.py, with the request handlers and Celery  *)
(* tasks that drive it.  A handler is a coroutine of the API process or a  *)
(* Celery worker; it runs one task at a time, and every database statement *)
(* (an await) is a step of its own, so handlers interleave between any two *)
(* of them.  Commits are atomic and a statement sees what is committed     *)
(* (PostgreSQL READ COMMITTED).                                            *)
(*                                                                         *)
(* A score row is stamped with its transaction's start (calculated_at is   *)
(* now()), and the latest row is the one with the latest stamp.  Only the  *)
(* order of stamps matters: openTx holds the handlers with an open         *)
(* transaction, older[h] those whose transaction began before h's, and     *)
(* superseded those whose transaction began before the one that wrote the  *)
(* latest row.                                                             *)
(***************************************************************************)
EXTENDS Sequences, ScoringEngine

CONSTANTS
    ApiHandlers,   \* coroutines of the API process: gRPC streams, heartbeats, REST
    Workers,       \* Celery worker processes
    ApiTypes,      \* indicator types that telemetry raises
    WorkerTypes,   \* indicator types that the Celery tasks raise
    TaskKinds,     \* bound: the kinds of task a run explores
    MaxIncidents,  \* bound on the incident rows
    MaxLocks       \* bound on the screen locks a proctor issues

Handlers == ApiHandlers \union Workers

ASSUME HandlerAssumption ==
    /\ ApiHandlers \intersect Workers = {}
    /\ IsFiniteSet(Handlers)
    /\ ApiTypes \subseteq DOMAIN IOA_WEIGHTS
    /\ WorkerTypes \subseteq DOMAIN IOA_WEIGHTS
    /\ MaxIncidents \in Nat /\ MaxLocks \in Nat
    /\ TaskKinds \subseteq {"review", "warn", "heartbeat", "recalc", "tick", "restart",
                             "cancel"}

VARIABLES
    incidents,          \* incident rows that can score, in insertion order
    screen_lock_count,  \* the contestant's column
    auto_locks, proctor_locks,  \* SCREEN_LOCK_ISSUED rows: RESOLVED and OPEN ones
    pending_warnings,   \* TelemetryService.pending_warnings, a dict in each process
    latest,             \* score of the latest IntegrityScore row, or NoScore
    openTx, older, superseded,  \* open transactions and their order (see above)
    pc, local           \* where each handler is, and its local variables

dbVars   == <<incidents, screen_lock_count, auto_locks, proctor_locks, latest>>
txVars   == <<openTx, older, superseded>>
pipelineVars == <<dbVars, pending_warnings, txVars, pc, local>>

Types   == ApiTypes \union WorkerTypes
Process == {"api"} \union Workers
ProcessOf(h) == IF h \in ApiHandlers THEN "api" ELSE h
NoScore == -1

Status == {"OPEN", "REVIEWED", "DISMISSED"}
NoTask == [kind |-> "none", type |-> "none", found |-> 0, count |-> 0,
           score |-> NoScore, reviewed |-> FALSE]

Open      == {i \in DOMAIN incidents : incidents[i].status = "OPEN"}
OpenOf(t) == {i \in Open : incidents[i].type = t}
TypesOf(h) == IF h \in ApiHandlers THEN ApiTypes ELSE WorkerTypes
Raisers(t) == {h \in Handlers : t \in TypesOf(h)}
Inserting(t) == {h \in Handlers : pc[h] = "insert" /\ local[h].type = t}
CurrentScore == calculate_score(incidents, Open)
DetectAt(labels) == {h \in Handlers : local[h].kind = "detect" /\ pc[h] \in labels}
LockRows == auto_locks + proctor_locks

-----------------------------------------------------------------------------
(***************************************************************************)
(* Transactions: begun by a session's first statement, ended by a commit   *)
(* or by closing the session.                                              *)
(***************************************************************************)
BeginTx(h) ==
    /\ openTx' = openTx \union {h}
    /\ older' = IF h \in openTx THEN older ELSE [older EXCEPT ![h] = openTx]
    /\ UNCHANGED superseded

(* h's transaction ends; stale are the open ones it leaves superseded.     *)
EndTx(h, stale) ==
    /\ openTx' = openTx \ {h}
    /\ older' = [g \in Handlers |-> IF g = h THEN {} ELSE older[g] \ {h}]
    /\ superseded' = (superseded \union stale) \ {h}

MoveTo(h, label) == pc' = [pc EXCEPT ![h] = label]

(* The task is over: the session is closed and the handler is free.        *)
Finish(h) ==
    /\ MoveTo(h, "idle")
    /\ local' = [local EXCEPT ![h] = NoTask]

FinishAtOnce(h) == Finish(h)         \* seeded fault: early return before the payloads

(* After the score, a heartbeat still consumes the queued payloads.        *)
AfterScore(h) ==
    IF local[h].kind = "heartbeat"
    THEN MoveTo(h, "consume") /\ local' = [local EXCEPT ![h].score = NoScore]
    ELSE Finish(h)

-----------------------------------------------------------------------------
(***************************************************************************)
(* process_telemetry_and_score: one detection, from the deduplication      *)
(* query to the automatic screen lock.  The score recalculation that ends  *)
(* it is shared with the other tasks below.                                *)
(***************************************************************************)
Heavy(t) == get_weight(t) >= 80

AnyStatusOf(t) ==                    \* seeded fault: the status filter is lost
    {i \in DOMAIN incidents : incidents[i].type = t}

ClosedOf(t) ==                       \* seeded fault: the status filter is inverted
    {i \in DOMAIN incidents : incidents[i].type = t /\ incidents[i].status # "OPEN"}

Duplicates(t) == OpenOf(t)

(* The bound: a detection starts while the table has room for its row.     *)
Room == Len(incidents) + Cardinality({g \in Handlers : pc[g] \in {"select", "insert"}})
          < MaxIncidents

(* The timeout task selects the contestants that went silent; the worker   *)
(* holds the row, lock counter included, until its run ends.               *)
SelectTimedOut(h, t) ==
    /\ h \in Workers /\ t \in WorkerTypes
    /\ pc[h] = "idle" /\ Room
    /\ local' = [local EXCEPT ![h] = [NoTask EXCEPT !.kind = "detect", !.type = t,
                                                   !.count = screen_lock_count]]
    /\ MoveTo(h, "select")
    /\ UNCHANGED <<dbVars, pending_warnings, txVars>>

(* A telemetry report starts at the deduplication query.                   *)
StartDetection(h, t) ==
    /\ h \in ApiHandlers /\ t \in ApiTypes
    /\ pc[h] = "idle" /\ Room
    /\ local' = [local EXCEPT ![h] = [NoTask EXCEPT !.kind = "detect", !.type = t]]
    /\ MoveTo(h, "select")
    /\ UNCHANGED <<dbVars, pending_warnings, txVars>>

(* SELECT an OPEN incident of the type; scalars().first() is any of them.  *)
SelectExisting(h) ==
    /\ pc[h] = "select"
    /\ LET dups == Duplicates(local[h].type)
       IN  \/ /\ dups = {}
              /\ MoveTo(h, "insert")
              /\ UNCHANGED local
           \/ \E found \in dups :
                /\ MoveTo(h, "refresh")
                /\ local' = [local EXCEPT ![h].found = found]
    /\ UNCHANGED <<dbVars, pending_warnings, txVars>>

(* An existing incident gets a new detected_at, whatever its status now is *)
(* (UPDATE ... WHERE id).                                                  *)
RefreshExisting(h) ==
    /\ pc[h] = "refresh"
    /\ incidents' = [incidents EXCEPT ![local[h].found].age = 0]
    /\ MoveTo(h, "escalate")
    /\ UNCHANGED <<screen_lock_count, auto_locks, proctor_locks, latest,
                   pending_warnings, txVars, local>>

(* create_incident: INSERT and commit; the refresh that follows it begins  *)
(* a new transaction.                                                      *)
InsertIncident(h) ==
    /\ pc[h] = "insert"
    /\ incidents' = Append(incidents,
                           [type |-> local[h].type, status |-> "OPEN", age |-> 0])
    /\ BeginTx(h)
    /\ MoveTo(h, "escalate")
    /\ UNCHANGED <<screen_lock_count, auto_locks, proctor_locks, latest, pending_warnings, local>>

LockEveryTime(h) == TRUE             \* seeded fault: a refresh locks again

IsNewIncident(h) == local[h].found = 0

(* weight >= 80: queue the screen lock in this process's dictionary and,   *)
(* for a new incident, read the contestant row whose counter it will bump. *)
(* A worker holds the row it selected at the start of its run, which is    *)
(* what the count it reads is; an API session reads it here.               *)
Escalate(h) ==
    /\ pc[h] = "escalate"
    /\ IF Heavy(local[h].type)
       THEN /\ pending_warnings' = [pending_warnings EXCEPT ![ProcessOf(h)] = TRUE]
            /\ MoveTo(h, IF IsNewIncident(h) THEN "lock" ELSE "score")
            /\ local' = IF h \in Workers THEN local
                        ELSE [local EXCEPT ![h].count = IF IsNewIncident(h)
                                                        THEN screen_lock_count ELSE 0]
       ELSE MoveTo(h, "score") /\ UNCHANGED <<pending_warnings, local>>
    /\ UNCHANGED <<dbVars, txVars>>

BumpTwice(h) == local[h].count + 2   \* seeded fault: one lock counted twice

BumpedCount(h) == local[h].count + 1

(* Commit the counter read earlier plus one, with the lock's own row.      *)
CommitLock(h) ==
    /\ pc[h] = "lock"
    /\ screen_lock_count' = BumpedCount(h)
    /\ IF local[h].kind = "warn"
       THEN Finish(h) /\ proctor_locks' = proctor_locks + 1 /\ UNCHANGED auto_locks
       ELSE /\ MoveTo(h, "score") /\ auto_locks' = auto_locks + 1
            /\ local' = [local EXCEPT ![h].count = 0]
            /\ UNCHANGED proctor_locks
    /\ EndTx(h, {})
    /\ UNCHANGED <<incidents, latest, pending_warnings>>

-----------------------------------------------------------------------------
(***************************************************************************)
(* recalculate_score.                                                      *)
(***************************************************************************)

(* SELECT the OPEN incidents and compute their score.                      *)
ReadOpen(h) ==
    /\ pc[h] = "score"
    /\ local' = [local EXCEPT ![h].score = CurrentScore]
    /\ BeginTx(h)
    /\ MoveTo(h, "compare")
    /\ UNCHANGED <<dbVars, pending_warnings>>

LevelUnchanged(h) ==                 \* seeded fault: only the level is compared
    latest # NoScore /\ score_to_level(local[h].score) = score_to_level(latest)

ScoreUnchanged(h) == local[h].score = latest

(* The latest row already holds this score: nothing is written.            *)
KeepScore(h) ==
    /\ pc[h] = "compare"
    /\ ScoreUnchanged(h)
    /\ AfterScore(h)
    /\ EndTx(h, {})
    /\ UNCHANGED <<dbVars, pending_warnings>>

CompareScore(h) ==
    /\ pc[h] = "compare"
    /\ ~ScoreUnchanged(h)
    /\ MoveTo(h, "write")
    /\ UNCHANGED <<dbVars, pending_warnings, txVars, local>>

(* INSERT and commit; the row is the latest unless a later stamp has it.   *)
WriteScore(h) ==
    /\ pc[h] = "write"
    /\ latest' = IF h \in superseded THEN latest ELSE local[h].score
    /\ EndTx(h, IF h \in superseded THEN {} ELSE older[h])
    /\ AfterScore(h)
    /\ UNCHANGED <<incidents, screen_lock_count, auto_locks, proctor_locks, pending_warnings>>

-----------------------------------------------------------------------------
(***************************************************************************)
(* The other tasks that reach the pipeline.                                *)
(***************************************************************************)

(* PATCH /incidents/{id}/review: a blind write of the verdict, whatever    *)
(* the status was; its refresh begins the transaction of the recalculation.*)
Review(h, i, verdict) ==
    /\ "review" \in TaskKinds /\ h \in ApiHandlers
    /\ pc[h] = "idle"
    /\ i \in DOMAIN incidents /\ verdict \in {"REVIEWED", "DISMISSED"}
    /\ incidents' = [incidents EXCEPT ![i].status = verdict, ![i].age = 0]
    /\ local' = [g \in Handlers |->
                   IF g = h THEN [NoTask EXCEPT !.kind = "review"]
                   ELSE IF local[g].kind = "detect" /\ local[g].type = incidents[i].type
                        THEN [local[g] EXCEPT !.reviewed = TRUE]
                        ELSE local[g]]
    /\ BeginTx(h)
    /\ MoveTo(h, "score")
    /\ UNCHANGED <<screen_lock_count, auto_locks, proctor_locks, latest, pending_warnings>>

(* POST /contestants/{id}/warning: read the contestant, queue the payload, *)
(* then commit the counter with a SCREEN_LOCK_ISSUED incident.             *)
SendWarning(h) ==
    /\ "warn" \in TaskKinds /\ h \in ApiHandlers
    /\ pc[h] = "idle"
    /\ proctor_locks + Cardinality({g \in Handlers : local[g].kind = "warn"}) < MaxLocks
    /\ local' = [local EXCEPT ![h] = [NoTask EXCEPT !.kind = "warn",
                                                   !.count = screen_lock_count]]
    /\ pending_warnings' = [pending_warnings EXCEPT !["api"] = TRUE]
    /\ MoveTo(h, "lock")
    /\ UNCHANGED <<dbVars, txVars>>

(* gRPC Heartbeat, once last_seen is committed: recalculate, then consume. *)
Heartbeat(h) ==
    /\ "heartbeat" \in TaskKinds /\ h \in ApiHandlers
    /\ pc[h] = "idle"
    /\ local' = [local EXCEPT ![h] = [NoTask EXCEPT !.kind = "heartbeat"]]
    /\ MoveTo(h, "score")
    /\ UNCHANGED <<dbVars, pending_warnings, txVars>>

ConsumeWarning(h) ==
    /\ pc[h] = "consume"
    /\ pending_warnings' = [pending_warnings EXCEPT !["api"] = FALSE]
    /\ Finish(h)
    /\ UNCHANGED <<dbVars, txVars>>

(* Celery beat: recalculate every active contestant, in one session whose  *)
(* transaction begins with the query that lists them.                      *)
RecalculateActive(h) ==
    /\ "recalc" \in TaskKinds /\ h \in Workers
    /\ pc[h] = "idle"
    /\ local' = [local EXCEPT ![h] = [NoTask EXCEPT !.kind = "recalc"]]
    /\ BeginTx(h)
    /\ MoveTo(h, "score")
    /\ UNCHANGED <<dbVars, pending_warnings>>

(* The agent's connection breaks: grpc.aio cancels the handler of its      *)
(* stream or heartbeat at whatever await it has reached.                   *)
CancelHandler(h) ==
    /\ "cancel" \in TaskKinds /\ h \in ApiHandlers
    /\ local[h].kind \in {"detect", "heartbeat"}
    /\ Finish(h)
    /\ EndTx(h, {})
    /\ UNCHANGED <<dbVars, pending_warnings>>

(* The API process dies: its coroutines and its dictionary are gone.       *)
ApiRestart ==
    /\ "restart" \in TaskKinds
    /\ \E h \in ApiHandlers : pc[h] # "idle"
    /\ pc' = [h \in Handlers |-> IF h \in ApiHandlers THEN "idle" ELSE pc[h]]
    /\ local' = [h \in Handlers |-> IF h \in ApiHandlers THEN NoTask ELSE local[h]]
    /\ pending_warnings' = [pending_warnings EXCEPT !["api"] = FALSE]
    /\ openTx' = openTx \ ApiHandlers
    /\ older' = [h \in Handlers |-> IF h \in ApiHandlers THEN {}
                                     ELSE older[h] \ ApiHandlers]
    /\ superseded' = superseded \ ApiHandlers
    /\ UNCHANGED dbVars

(* One minute passes: every OPEN incident is a minute older.  Ages beyond  *)
(* the last threshold decay alike and are not told apart.                  *)
Tick ==
    /\ "tick" \in TaskKinds
    /\ \E i \in Open : incidents[i].age <= DecayOld
    /\ incidents' = [i \in DOMAIN incidents |->
                       IF i \in Open /\ incidents[i].age <= DecayOld
                       THEN [incidents[i] EXCEPT !.age = @ + 1]
                       ELSE incidents[i]]
    /\ UNCHANGED <<screen_lock_count, auto_locks, proctor_locks, latest,
                   pending_warnings, txVars, pc, local>>

-----------------------------------------------------------------------------
Init ==
    /\ incidents = <<>>
    /\ screen_lock_count = 0
    /\ auto_locks = 0 /\ proctor_locks = 0
    /\ pending_warnings = [p \in Process |-> FALSE]
    /\ latest = NoScore
    /\ openTx = {} /\ superseded = {}
    /\ older = [h \in Handlers |-> {}]
    /\ pc = [h \in Handlers |-> "idle"]
    /\ local = [h \in Handlers |-> NoTask]

(* A task that has started runs on. *)
Continue(h) ==
    \/ SelectExisting(h) \/ RefreshExisting(h) \/ InsertIncident(h)
    \/ Escalate(h) \/ CommitLock(h)
    \/ ReadOpen(h) \/ KeepScore(h) \/ CompareScore(h) \/ WriteScore(h)
    \/ ConsumeWarning(h)

(* A request arrives or a periodic task is due. *)
Start(h) ==
    \/ \E t \in Types : SelectTimedOut(h, t) \/ StartDetection(h, t)
    \/ \E i \in DOMAIN incidents, verdict \in Status : Review(h, i, verdict)
    \/ SendWarning(h)
    \/ Heartbeat(h)
    \/ RecalculateActive(h)

IncidentNext ==
    \/ \E h \in Handlers : Start(h) \/ Continue(h) \/ CancelHandler(h)
    \/ ApiRestart
    \/ Tick

Spec == Init /\ [][IncidentNext]_pipelineVars

(***************************************************************************)
(* Coroutines and workers run on; beat schedules the recalculation every   *)
(* 30 s and agents send a heartbeat every 10 s, and neither queue starves  *)
(* a free worker or the event loop.                                        *)
(***************************************************************************)
Fairness ==
    /\ \A h \in Handlers : WF_pipelineVars(Continue(h))
    /\ \A h \in Workers : SF_pipelineVars(RecalculateActive(h))
    /\ SF_pipelineVars(\E h \in ApiHandlers : Heartbeat(h))

FairSpec == Spec /\ Fairness

-----------------------------------------------------------------------------
Label == {"idle", "select", "refresh", "insert", "escalate", "lock", "score",
          "compare", "write", "consume"}

Task == [kind : {"none", "detect", "review", "heartbeat", "recalc", "warn"},
         type : Types \union {"none"}, found : Nat, count : Nat,
         score : 0..100 \union {NoScore}, reviewed : BOOLEAN]

TypeOK ==
    /\ incidents \in Seq([type : Types, status : Status, age : Nat])
    /\ screen_lock_count \in Nat /\ auto_locks \in Nat /\ proctor_locks \in Nat
    /\ pending_warnings \in [Process -> BOOLEAN]
    /\ latest \in 0..100 \union {NoScore}
    /\ openTx \subseteq Handlers /\ superseded \subseteq openTx
    /\ older \in [Handlers -> SUBSET openTx]
    /\ pc \in [Handlers -> Label]
    /\ local \in [Handlers -> Task]

(***************************************************************************)
(* The deduplication SELECT and the INSERT it decides on are two steps, so *)
(* handlers that raced past the SELECT may each insert an OPEN incident of *)
(* the type; but never more of them than there are handlers that raise     *)
(* the type: once one is committed, every later handler refreshes it       *)
(* (telemetry.py:261-278).                                                 *)
(***************************************************************************)
DuplicateBound ==
    \A t \in Types :
        Cardinality(OpenOf(t)) + Cardinality(Inserting(t)) <= Cardinality(Raisers(t))

(***************************************************************************)
(* "Rather than creating a duplicate" (docs/scoring-algorithm.md:90): at   *)
(* most one OPEN incident of a type.  One handler at a time keeps it.      *)
(***************************************************************************)
AtMostOneOpen == \A t \in Types : Cardinality(OpenOf(t)) <= 1

(***************************************************************************)
(* A detection is not lost: from the moment a handler has refreshed or     *)
(* inserted, an OPEN incident of its type exists, unless a proctor closed  *)
(* one while the handler was at work (the UPDATE by id that refreshes a    *)
(* just dismissed incident does not reopen it).                            *)
(***************************************************************************)
DetectionCounted ==
    \A h \in DetectAt(Label \ {"select", "insert"}) :
        OpenOf(local[h].type) # {} \/ local[h].reviewed

(***************************************************************************)
(* "Let's do it only for NEW incidents" (telemetry.py:289): an incident    *)
(* row accounts for at most one automatic lock row, its refreshes for none.*)
(***************************************************************************)
LockOncePerIncident ==
    auto_locks + Cardinality(DetectAt({"lock"}))
      <= Cardinality({i \in DOMAIN incidents : Heavy(incidents[i].type)})

(***************************************************************************)
(* screen_lock_count is read, incremented and written back across awaits   *)
(* (telemetry.py:290-304, contestants.py:215-228).  Lost updates make it   *)
(* too small, and even smaller than before, but never larger than the      *)
(* number of locks on record.                                              *)
(***************************************************************************)
LockCountBound ==
    /\ screen_lock_count <= LockRows
    /\ \A h \in Handlers : local[h].count <= LockRows

(***************************************************************************)
(* Whatever stale scores racing handlers write, once the incidents and     *)
(* their ages stand still the latest row settles on their score            *)
(* (monitoring.py:81-95, telemetry.py:209-248).  Which incidents count is  *)
(* the code's answer, and docs/proctor-guide.md:155's: the OPEN ones; line *)
(* 192 has it that the weight of one confirmed in a review remains.        *)
(***************************************************************************)
ScoreConverges ==
    <>[][UNCHANGED incidents]_incidents => <>[](latest = CurrentScore)

(***************************************************************************)
(* A warning queued in the API process is handed to a heartbeat (or lost   *)
(* with the process): it does not stay queued (server.py:143).             *)
(***************************************************************************)
ApiWarningTaken == pending_warnings["api"] ~> ~pending_warnings["api"]

=============================================================================
