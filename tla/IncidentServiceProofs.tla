------------------------ MODULE IncidentServiceProofs ------------------------
(***************************************************************************)
(* Proofs about the incident pipeline, for every number of coroutines and  *)
(* workers, every set of indicator types and every bound.                  *)
(***************************************************************************)
EXTENDS IncidentService, FiniteSetTheorems, SequenceTheorems, TLAPS

Incident == [type : Types, status : Status, age : Nat]
Kind == {"none", "detect", "review", "heartbeat", "recalc", "warn"}

(* What a score can be is left to the scoring algorithm here.              *)
Scores == {calculate_score(ind, S) : ind \in Seq(Incident), S \in SUBSET Nat} \union {NoScore}

TaskRecord == [kind : Kind, type : Types \union {"none"}, found : Nat, count : Nat,
               score : Scores, reviewed : BOOLEAN]

Typed ==
    /\ incidents \in Seq(Incident)
    /\ screen_lock_count \in Nat /\ auto_locks \in Nat /\ proctor_locks \in Nat
    /\ pc \in [Handlers -> Label]
    /\ local \in [Handlers -> TaskRecord]

(***************************************************************************)
(* What a handler does and where it is go together, and a detection is of  *)
(* a type that its process raises.                                         *)
(***************************************************************************)
Sound(h) ==
    /\ pc[h] = "idle" <=> local[h].kind = "none"
    /\ pc[h] \in {"select", "refresh", "insert", "escalate"} => local[h].kind = "detect"
    /\ pc[h] = "lock" => local[h].kind \in {"detect", "warn"}
    /\ pc[h] = "consume" => local[h].kind = "heartbeat"
    /\ local[h].kind = "detect" => local[h].type \in TypesOf(h)
    /\ pc[h] \in {"select", "insert"} => local[h].found = 0
    /\ pc[h] = "refresh" => /\ local[h].found \in DOMAIN incidents
                            /\ incidents[local[h].found].type = local[h].type

Consistent == \A h \in Handlers : Sound(h)

-----------------------------------------------------------------------------
(* A type that a handler raises is an indicator type, and not "none".      *)
LEMMA TypesAreTypes == ASSUME NEW h PROVE TypesOf(h) \subseteq Types
BY DEF TypesOf, Types

(* The record of a free handler is a task record.                          *)
LEMMA NoTaskType == NoTask \in TaskRecord
BY DEF NoTask, TaskRecord, Kind, Scores

(* The score of the OPEN incidents is a score.                             *)
LEMMA CurrentScoreType == incidents \in Seq(Incident) => CurrentScore \in Scores
<1> SUFFICES ASSUME incidents \in Seq(Incident) PROVE CurrentScore \in Scores
    OBVIOUS
<1>1. Open \in SUBSET Nat
    BY DEF Open
<1> QED
    BY <1>1 DEF CurrentScore, Scores

(* The invariant's types and the handlers' consistency hold initially.     *)
LEMMA InitTypes == Init => Typed /\ Consistent
BY NoTaskType DEF Init, Typed, Consistent, Sound, Label, NoTask

(* Changing a field of a task record to a value of its type keeps it one.  *)
LEMMA TaskFields ==
    ASSUME NEW r \in TaskRecord
    PROVE  /\ \A n \in Nat : [r EXCEPT !.found = n] \in TaskRecord
           /\ \A n \in Nat : [r EXCEPT !.count = n] \in TaskRecord
           /\ \A n \in Scores : [r EXCEPT !.score = n] \in TaskRecord
           /\ [r EXCEPT !.reviewed = TRUE] \in TaskRecord
BY DEF TaskRecord

(* So does the start of a task.                                            *)
LEMMA NewTask ==
    ASSUME NEW k \in Kind, NEW t \in Types \union {"none"}, NEW n \in Nat
    PROVE  /\ [NoTask EXCEPT !.kind = k, !.type = t] \in TaskRecord
           /\ [NoTask EXCEPT !.kind = k, !.count = n] \in TaskRecord
           /\ [NoTask EXCEPT !.kind = k, !.type = t, !.count = n] \in TaskRecord
           /\ [NoTask EXCEPT !.kind = k] \in TaskRecord
BY NoTaskType DEF TaskRecord

(* Likewise for one handler's record among all of them.                    *)
LEMMA FieldChange ==
    ASSUME local \in [Handlers -> TaskRecord], NEW h \in Handlers
    PROVE  /\ \A n \in Nat : [local EXCEPT ![h].found = n] \in [Handlers -> TaskRecord]
           /\ \A n \in Nat : [local EXCEPT ![h].count = n] \in [Handlers -> TaskRecord]
           /\ \A n \in Scores : [local EXCEPT ![h].score = n] \in [Handlers -> TaskRecord]
<1>1. local[h] \in TaskRecord
    OBVIOUS
<1>2. ASSUME NEW n \in Nat
      PROVE  /\ [local EXCEPT ![h].found = n] \in [Handlers -> TaskRecord]
             /\ [local EXCEPT ![h].count = n] \in [Handlers -> TaskRecord]
  <2>1. [local[h] EXCEPT !.found = n] \in TaskRecord /\ [local[h] EXCEPT !.count = n] \in TaskRecord
    BY <1>1, TaskFields
  <2> QED
    BY <2>1
<1>3. ASSUME NEW n \in Scores
      PROVE  [local EXCEPT ![h].score = n] \in [Handlers -> TaskRecord]
  <2>1. [local[h] EXCEPT !.score = n] \in TaskRecord
    BY <1>1, TaskFields
  <2> QED
    BY <2>1
<1> QED
    BY <1>2, <1>3

(* Replacing a row leaves a table of rows.                                 *)
LEMMA RowChange ==
    ASSUME incidents \in Seq(Incident), NEW i \in DOMAIN incidents, NEW r \in Incident
    PROVE  [incidents EXCEPT ![i] = r] \in Seq(Incident)
<1>1. i \in 1..Len(incidents)
    BY LenProperties
<1> QED
    BY <1>1, ExceptSeq

(* A refresh, a review and a minute's ageing leave an incident row.        *)
LEMMA RowFields ==
    ASSUME NEW r \in Incident
    PROVE  /\ \A n \in Nat : [r EXCEPT !.age = n] \in Incident
           /\ \A s \in Status, n \in Nat : [r EXCEPT !.status = s, !.age = n] \in Incident
BY DEF Incident

(* Rows are numbered from 1 and finitely many.                             *)
LEMMA RowsAreNumbered ==
    ASSUME incidents \in Seq(Incident)
    PROVE  /\ DOMAIN incidents \subseteq Nat \ {0}
           /\ IsFiniteSet(DOMAIN incidents)
           /\ \A i \in DOMAIN incidents : incidents[i] \in Incident
<1>1. DOMAIN incidents = 1..Len(incidents) /\ Len(incidents) \in Nat
    BY LenProperties
<1>2. IsFiniteSet(1..Len(incidents))
    BY <1>1, FS_Interval
<1>3. \A i \in 1..Len(incidents) : incidents[i] \in Incident
    BY ElementOfSeq
<1> QED
    BY <1>1, <1>2, <1>3

-----------------------------------------------------------------------------
(* The start of a detection keeps the types.                               *)
LEMMA StartTypes ==
    ASSUME Typed, NEW h \in Handlers, NEW t \in Types,
           SelectTimedOut(h, t) \/ StartDetection(h, t)
    PROVE  Typed'
<1>1. local' \in [Handlers -> TaskRecord]
  <2>1. "detect" \in Kind
    BY DEF Kind
  <2>2. CASE SelectTimedOut(h, t)
    BY <2>1, <2>2, NewTask DEF Typed, SelectTimedOut
  <2>3. CASE StartDetection(h, t)
    BY <2>1, <2>3, NewTask DEF Typed, StartDetection
  <2> QED
    BY <2>2, <2>3
<1>2. pc' \in [Handlers -> Label]
    BY DEF Typed, SelectTimedOut, StartDetection, Label, MoveTo
<1> QED
    BY <1>1, <1>2 DEF Typed, SelectTimedOut, StartDetection, dbVars

(* The deduplication query keeps the types.                                *)
LEMMA SelectTypes ==
    ASSUME Typed, NEW h \in Handlers, SelectExisting(h)
    PROVE  Typed'
<1>1. local' \in [Handlers -> TaskRecord]
  <2>1. \/ UNCHANGED local
        \/ \E i \in DOMAIN incidents : local' = [local EXCEPT ![h].found = i]
    BY DEF SelectExisting, Duplicates, OpenOf, Open
  <2>2. \A i \in DOMAIN incidents : i \in Nat
    BY RowsAreNumbered DEF Typed
  <2> QED
    BY <2>1, <2>2, FieldChange DEF Typed
<1>2. pc' \in [Handlers -> Label]
    BY DEF Typed, SelectExisting, Label, MoveTo
<1> QED
    BY <1>1, <1>2 DEF Typed, SelectExisting, dbVars

(* Refreshing a row keeps the types.                                       *)
LEMMA RefreshTypes ==
    ASSUME Typed, Consistent, NEW h \in Handlers, RefreshExisting(h)
    PROVE  Typed'
<1>1. incidents' \in Seq(Incident)
    BY RowsAreNumbered, RowFields, RowChange DEF Typed, Consistent, Sound, RefreshExisting
<1>2. pc' \in [Handlers -> Label]
    BY DEF Typed, RefreshExisting, Label, MoveTo
<1> QED
    BY <1>1, <1>2 DEF Typed, RefreshExisting

(* Inserting a row keeps the types.                                        *)
LEMMA InsertTypes ==
    ASSUME Typed, Consistent, NEW h \in Handlers, InsertIncident(h)
    PROVE  Typed'
<1>1. [type |-> local[h].type, status |-> "OPEN", age |-> 0] \in Incident
    BY TypesAreTypes DEF Consistent, Sound, InsertIncident, Incident, Status
<1>2. incidents' \in Seq(Incident)
    BY <1>1 DEF Typed, InsertIncident
<1>3. pc' \in [Handlers -> Label]
    BY DEF Typed, InsertIncident, Label, MoveTo
<1> QED
    BY <1>2, <1>3 DEF Typed, InsertIncident

(* Queueing a lock keeps the types.                                        *)
LEMMA EscalateTypes ==
    ASSUME Typed, NEW h \in Handlers, Escalate(h)
    PROVE  Typed'
<1>1. \/ UNCHANGED local
      \/ \E n \in Nat : local' = [local EXCEPT ![h].count = n]
    BY DEF Escalate, Typed
<1>2. local' \in [Handlers -> TaskRecord]
    BY <1>1, FieldChange DEF Typed
<1>3. pc' \in [Handlers -> Label]
    BY DEF Typed, Escalate, Label, MoveTo
<1> QED
    BY <1>2, <1>3 DEF Typed, Escalate, dbVars

(* Committing a lock keeps the types.                                      *)
LEMMA CommitTypes ==
    ASSUME Typed, NEW h \in Handlers, CommitLock(h)
    PROVE  Typed'
<1>1. local' \in [Handlers -> TaskRecord]
    BY NoTaskType, FieldChange DEF Typed, CommitLock, Finish
<1>2. pc' \in [Handlers -> Label]
    BY DEF Typed, CommitLock, Finish, Label, MoveTo
<1>3. local[h].count \in Nat
    BY DEF Typed, TaskRecord
<1>4. screen_lock_count' \in Nat
    BY <1>3 DEF Typed, CommitLock, BumpedCount
<1>5. auto_locks' \in Nat /\ proctor_locks' \in Nat
    BY DEF Typed, CommitLock
<1> QED
    BY <1>1, <1>2, <1>4, <1>5 DEF Typed, CommitLock

(* Computing the score keeps the types.                                    *)
LEMMA ReadTypes ==
    ASSUME Typed, NEW h \in Handlers, ReadOpen(h)
    PROVE  Typed'
<1>1. CurrentScore \in Scores
    BY CurrentScoreType DEF Typed
<1>2. local' \in [Handlers -> TaskRecord]
    BY <1>1, FieldChange DEF Typed, ReadOpen
<1>3. pc' \in [Handlers -> Label]
    BY DEF Typed, ReadOpen, Label, MoveTo
<1> QED
    BY <1>2, <1>3 DEF Typed, ReadOpen, dbVars

(* So does what follows the score.                                         *)
LEMMA AfterScoreTypes ==
    ASSUME Typed, NEW h \in Handlers, AfterScore(h)
    PROVE  local' \in [Handlers -> TaskRecord] /\ pc' \in [Handlers -> Label]
<1>1. NoScore \in Scores
    BY DEF Scores
<1>2. local' \in [Handlers -> TaskRecord]
    BY <1>1, NoTaskType, FieldChange DEF Typed, AfterScore, Finish
<1>3. pc' \in [Handlers -> Label]
    BY DEF Typed, AfterScore, Finish, Label, MoveTo
<1> QED
    BY <1>2, <1>3

(* Comparing and writing the score keeps the types.                        *)
LEMMA WriteTypes ==
    ASSUME Typed, NEW h \in Handlers, KeepScore(h) \/ CompareScore(h) \/ WriteScore(h)
    PROVE  Typed'
<1>1. CASE KeepScore(h)
    BY <1>1, AfterScoreTypes DEF Typed, KeepScore, dbVars
<1>2. CASE CompareScore(h)
  <2>1. pc' \in [Handlers -> Label]
    BY <1>2 DEF Typed, CompareScore, Label, MoveTo
  <2> QED
    BY <1>2, <2>1 DEF Typed, CompareScore, dbVars
<1>3. CASE WriteScore(h)
    BY <1>3, AfterScoreTypes DEF Typed, WriteScore
<1> QED
    BY <1>1, <1>2, <1>3

(* A review keeps the types.                                               *)
LEMMA ReviewTypes ==
    ASSUME Typed, NEW h \in Handlers, NEW i \in DOMAIN incidents, NEW verdict \in Status,
           Review(h, i, verdict)
    PROVE  Typed'
<1>1. [incidents[i] EXCEPT !.status = verdict, !.age = 0] \in Incident
    BY RowsAreNumbered, RowFields DEF Typed
<1>2. incidents' = [incidents EXCEPT ![i] = [incidents[i] EXCEPT !.status = verdict, !.age = 0]]
    BY <1>1, RowsAreNumbered DEF Review, Typed
<1>3. incidents' \in Seq(Incident)
    BY <1>1, <1>2, RowChange DEF Typed
<1>4. [NoTask EXCEPT !.kind = "review"] \in TaskRecord
    BY NewTask DEF Kind
<1>5. local' \in [Handlers -> TaskRecord]
  <2>1. ASSUME NEW g \in Handlers PROVE local'[g] \in TaskRecord
    <3>1. local[g] \in TaskRecord
      BY DEF Typed
    <3>2. [local[g] EXCEPT !.reviewed = TRUE] \in TaskRecord
      BY <3>1, TaskFields
    <3> QED
      BY <1>4, <3>1, <3>2 DEF Review
  <2> QED
    BY <2>1 DEF Review
<1>6. pc' \in [Handlers -> Label]
    BY DEF Typed, Review, Label, MoveTo
<1> QED
    BY <1>3, <1>5, <1>6 DEF Typed, Review

(* Starting, finishing or cancelling the other tasks keeps the types.      *)
LEMMA TaskTypes ==
    ASSUME Typed, NEW h \in Handlers,
           SendWarning(h) \/ Heartbeat(h) \/ ConsumeWarning(h) \/ RecalculateActive(h)
             \/ CancelHandler(h)
    PROVE  Typed'
<1>1. local' \in [Handlers -> TaskRecord]
  <2>1. {"warn", "heartbeat", "recalc"} \subseteq Kind
    BY DEF Kind
  <2>2. CASE SendWarning(h)
    BY <2>1, <2>2, NewTask DEF Typed, SendWarning
  <2>3. CASE Heartbeat(h)
    BY <2>1, <2>3, NewTask DEF Typed, Heartbeat
  <2>4. CASE ConsumeWarning(h)
    BY <2>4, NoTaskType DEF Typed, ConsumeWarning, Finish
  <2>5. CASE RecalculateActive(h)
    BY <2>1, <2>5, NewTask DEF Typed, RecalculateActive
  <2>6. CASE CancelHandler(h)
    BY <2>6, NoTaskType DEF Typed, CancelHandler, Finish
  <2> QED
    BY <2>2, <2>3, <2>4, <2>5, <2>6
<1>2. pc' \in [Handlers -> Label]
    BY DEF Typed, SendWarning, Heartbeat, ConsumeWarning, RecalculateActive,
           CancelHandler, Finish, Label, MoveTo
<1>3. UNCHANGED dbVars
    BY DEF SendWarning, Heartbeat, ConsumeWarning, RecalculateActive, CancelHandler
<1> QED
    BY <1>1, <1>2, <1>3 DEF Typed, dbVars

(* A restart of the API process keeps the types.                           *)
LEMMA RestartTypes ==
    ASSUME Typed, ApiRestart
    PROVE  Typed'
<1>1. pc' \in [Handlers -> Label] /\ local' \in [Handlers -> TaskRecord]
    BY NoTaskType DEF Typed, ApiRestart, Label
<1> QED
    BY <1>1 DEF Typed, ApiRestart, dbVars

(* A minute's ageing keeps the types.                                      *)
LEMMA TickTypes ==
    ASSUME Typed, Tick
    PROVE  Typed'
<1>1. \A i \in DOMAIN incidents : incidents'[i] \in Incident
  <2> SUFFICES ASSUME NEW i \in DOMAIN incidents PROVE incidents'[i] \in Incident
    OBVIOUS
  <2>1. incidents[i] \in Incident
    BY RowsAreNumbered DEF Typed
  <2>2. incidents[i].age + 1 \in Nat
    BY <2>1 DEF Incident
  <2>3. [incidents[i] EXCEPT !.age = @ + 1] \in Incident
    BY <2>1, <2>2 DEF Incident
  <2> QED
    BY <2>1, <2>3 DEF Tick
<1>2. DOMAIN incidents' = 1..Len(incidents) /\ Len(incidents) \in Nat
    BY LenProperties DEF Typed, Tick
<1>3. incidents' = [i \in 1..Len(incidents) |-> incidents'[i]]
    BY <1>2 DEF Tick
<1>4. incidents' \in Seq(Incident)
    BY <1>1, <1>2, <1>3 DEF Typed
<1> QED
    BY <1>4 DEF Typed, Tick

(* Typed reads no transaction state: a stutter keeps it, and every action  *)
(* does.                                                                   *)
LEMMA StepTypes == Typed /\ Consistent /\ [IncidentNext]_pipelineVars => Typed'
<1> SUFFICES ASSUME Typed, Consistent, [IncidentNext]_pipelineVars
             PROVE  Typed'
    OBVIOUS
<1>1. ASSUME NEW h \in Handlers, Start(h)
      PROVE  Typed'
  <2>1. ASSUME NEW t \in Types, SelectTimedOut(h, t) \/ StartDetection(h, t)
        PROVE  Typed'
    BY <2>1, StartTypes
  <2>2. ASSUME NEW i \in DOMAIN incidents, NEW verdict \in Status, Review(h, i, verdict)
        PROVE  Typed'
    BY <2>2, ReviewTypes
  <2> QED
    BY <1>1, <2>1, <2>2, TaskTypes DEF Start
<1>2. ASSUME NEW h \in Handlers, Continue(h)
      PROVE  Typed'
    BY <1>2, SelectTypes, RefreshTypes, InsertTypes, EscalateTypes, CommitTypes,
       ReadTypes, WriteTypes, TaskTypes DEF Continue
<1>3. CASE UNCHANGED pipelineVars
    BY <1>3 DEF Typed, pipelineVars, dbVars
<1> QED
    BY <1>1, <1>2, <1>3, TaskTypes, RestartTypes, TickTypes DEF IncidentNext

-----------------------------------------------------------------------------
(* The rows a step leaves: only the insert adds one, and no step removes   *)
(* one or changes its type.                                                *)
RowsKept ==
    /\ DOMAIN incidents \subseteq DOMAIN incidents'
    /\ \A i \in DOMAIN incidents : incidents'[i].type = incidents[i].type

(* Every step keeps the rows.                                              *)
LEMMA StepRows == Typed /\ Consistent /\ [IncidentNext]_pipelineVars => RowsKept
<1> SUFFICES ASSUME Typed, Consistent, [IncidentNext]_pipelineVars
             PROVE  RowsKept
    OBVIOUS
<1>1. CASE UNCHANGED incidents
    BY <1>1 DEF RowsKept
<1>2. ASSUME NEW h \in Handlers, NEW i \in DOMAIN incidents, NEW verdict \in Status,
             Review(h, i, verdict)
      PROVE  RowsKept
    BY <1>2, RowsAreNumbered DEF RowsKept, Review, Typed, Incident
<1>3. ASSUME NEW h \in Handlers, RefreshExisting(h)
      PROVE  RowsKept
    BY <1>3, RowsAreNumbered DEF RowsKept, RefreshExisting, Typed, Incident
<1>4. ASSUME NEW h \in Handlers, InsertIncident(h)
      PROVE  RowsKept
    BY <1>4 DEF RowsKept, InsertIncident, Typed
<1>5. CASE Tick
    BY <1>5, RowsAreNumbered DEF RowsKept, Tick, Typed, Incident
<1>6. ASSUME NEW h \in Handlers, Start(h) \/ Continue(h) \/ CancelHandler(h)
      PROVE  RowsKept
    BY <1>1, <1>2, <1>3, <1>4, <1>6
       DEF Start, Continue, SelectTimedOut, StartDetection, SendWarning, Heartbeat,
           RecalculateActive, CancelHandler, SelectExisting, Escalate, CommitLock, ReadOpen,
           KeepScore, CompareScore, WriteScore, ConsumeWarning, dbVars
<1> QED
    BY <1>1, <1>5, <1>6 DEF IncidentNext, ApiRestart, pipelineVars, dbVars

(* A handler whose task, target and place stand still stays sound.         *)
LEMMA SoundFrame ==
    ASSUME RowsKept, NEW g \in Handlers, Sound(g),
           pc'[g] = pc[g],
           local'[g].kind = local[g].kind,
           local'[g].type = local[g].type,
           local'[g].found = local[g].found
    PROVE  Sound(g)'
BY DEF RowsKept, Sound

(* Likewise one whose task is over. *)
LEMMA IdleSound ==
    ASSUME NEW g \in Handlers, pc'[g] = "idle", local'[g] = NoTask
    PROVE  Sound(g)'
BY DEF Sound, NoTask

(* A handler that starts a task is sound.                                  *)
LEMMA StartSound ==
    ASSUME Typed, NEW h \in Handlers, Sound(h), Start(h)
    PROVE  Sound(h)'
<1>1. ASSUME NEW t \in Types, SelectTimedOut(h, t) \/ StartDetection(h, t)
      PROVE  Sound(h)'
  <2>1. t \in TypesOf(h)
    BY <1>1, HandlerAssumption DEF SelectTimedOut, StartDetection, TypesOf
  <2>2. /\ local'[h].kind = "detect" /\ local'[h].type = t /\ local'[h].found = 0
        /\ pc'[h] = "select"
    BY <1>1 DEF Typed, SelectTimedOut, StartDetection, MoveTo, NoTask
  <2> QED
    BY <2>1, <2>2 DEF Sound
<1>2. ASSUME NEW i \in DOMAIN incidents, NEW verdict \in Status, Review(h, i, verdict)
      PROVE  Sound(h)'
    BY <1>2 DEF Typed, Review, MoveTo, NoTask, Sound
<1>3. CASE SendWarning(h)
    BY <1>3 DEF Typed, SendWarning, MoveTo, NoTask, Sound
<1>4. CASE Heartbeat(h)
    BY <1>4 DEF Typed, Heartbeat, MoveTo, NoTask, Sound
<1>5. CASE RecalculateActive(h)
    BY <1>5 DEF Typed, RecalculateActive, MoveTo, NoTask, Sound
<1> QED
    BY <1>1, <1>2, <1>3, <1>4, <1>5 DEF Start

(* A handler stays sound from the query to the lock.                       *)
LEMMA DetectSound ==
    ASSUME Typed, RowsKept, NEW h \in Handlers, Sound(h),
           SelectExisting(h) \/ RefreshExisting(h) \/ InsertIncident(h) \/ Escalate(h)
    PROVE  Sound(h)'
<1>1. CASE SelectExisting(h)
  <2>1. CASE pc'[h] = "insert" /\ UNCHANGED local
    BY <1>1, <2>1 DEF SelectExisting, Sound
  <2>2. ASSUME NEW i \in Duplicates(local[h].type),
               local' = [local EXCEPT ![h].found = i], pc' = [pc EXCEPT ![h] = "refresh"]
        PROVE  Sound(h)'
    <3>1. i \in DOMAIN incidents /\ incidents[i].type = local[h].type
      BY DEF Duplicates, OpenOf, Open
    <3>2. /\ local'[h].kind = local[h].kind /\ local'[h].type = local[h].type
          /\ local'[h].found = i /\ pc'[h] = "refresh"
      BY <2>2 DEF Typed, TaskRecord
    <3>3. incidents' = incidents
      BY <1>1 DEF SelectExisting, dbVars
    <3> QED
      BY <1>1, <3>1, <3>2, <3>3 DEF Sound, SelectExisting
  <2> QED
    BY <1>1, <2>1, <2>2 DEF SelectExisting, MoveTo, Typed
<1>2. CASE RefreshExisting(h)
    BY <1>2 DEF RefreshExisting, MoveTo, Typed, Sound
<1>3. CASE InsertIncident(h)
    BY <1>3 DEF InsertIncident, MoveTo, Typed, Sound
<1>4. CASE Escalate(h)
  <2>1. pc'[h] \in {"lock", "score"}
    BY <1>4 DEF Escalate, MoveTo, Typed
  <2>2. local'[h].kind = local[h].kind /\ local'[h].type = local[h].type
    BY <1>4 DEF Escalate, Typed, TaskRecord
  <2> QED
    BY <1>4, <2>1, <2>2 DEF Escalate, Sound
<1> QED
    BY <1>1, <1>2, <1>3, <1>4

(* A handler that has scored is sound.                                     *)
LEMMA AfterScoreSound ==
    ASSUME Typed, NEW h \in Handlers, Sound(h), AfterScore(h)
    PROVE  Sound(h)'
<1>1. CASE Finish(h)
    BY <1>1, IdleSound DEF Finish, MoveTo, Typed
<1>2. CASE local[h].kind = "heartbeat"
    BY <1>2 DEF AfterScore, MoveTo, Typed, TaskRecord, Sound
<1> QED
    BY <1>1, <1>2 DEF AfterScore

(* A handler stays sound from the lock to the end of its task.             *)
LEMMA ScoreSound ==
    ASSUME Typed, NEW h \in Handlers, Sound(h),
           \/ CommitLock(h) \/ ReadOpen(h) \/ KeepScore(h) \/ CompareScore(h)
           \/ WriteScore(h) \/ ConsumeWarning(h) \/ CancelHandler(h)
    PROVE  Sound(h)'
<1>1. CASE CommitLock(h)
  <2>1. CASE Finish(h)
    BY <2>1, IdleSound DEF Finish, MoveTo, Typed
  <2>2. CASE /\ pc' = [pc EXCEPT ![h] = "score"]
             /\ local' = [local EXCEPT ![h].count = 0]
    BY <1>1, <2>2 DEF CommitLock, Typed, TaskRecord, Sound
  <2> QED
    BY <1>1, <2>1, <2>2 DEF CommitLock, MoveTo
<1>2. CASE ReadOpen(h)
    BY <1>2 DEF ReadOpen, MoveTo, Typed, TaskRecord, Sound
<1>3. CASE CompareScore(h)
    BY <1>3 DEF CompareScore, MoveTo, Typed, Sound
<1>4. CASE KeepScore(h) \/ WriteScore(h)
    BY <1>4, AfterScoreSound DEF KeepScore, WriteScore
<1>5. CASE ConsumeWarning(h) \/ CancelHandler(h)
    BY <1>5, IdleSound DEF ConsumeWarning, CancelHandler, Finish, MoveTo, Typed
<1> QED
    BY <1>1, <1>2, <1>3, <1>4, <1>5

(* A step of one handler leaves the others where they are; a review may    *)
(* only mark their detections as reviewed.                                 *)
LEMMA OthersStand ==
    ASSUME Typed, NEW h \in Handlers, Start(h) \/ Continue(h) \/ CancelHandler(h),
           NEW g \in Handlers, g # h
    PROVE  /\ pc'[g] = pc[g]
           /\ local'[g].kind = local[g].kind /\ local'[g].type = local[g].type
           /\ local'[g].found = local[g].found /\ local'[g].count = local[g].count
<1>1. CASE pc'[g] = pc[g] /\ local'[g] = local[g]
    BY <1>1
<1>2. ASSUME NEW i \in DOMAIN incidents, NEW verdict \in Status, Review(h, i, verdict)
      PROVE  /\ pc'[g] = pc[g]
             /\ local'[g].kind = local[g].kind /\ local'[g].type = local[g].type
             /\ local'[g].found = local[g].found /\ local'[g].count = local[g].count
  <2>1. local'[g] \in {local[g], [local[g] EXCEPT !.reviewed = TRUE]}
    BY <1>2 DEF Review
  <2> QED
    BY <1>2, <2>1 DEF Review, MoveTo, Typed, TaskRecord
<1>3. ASSUME NEW t \in Types, SelectTimedOut(h, t) \/ StartDetection(h, t)
      PROVE  pc'[g] = pc[g] /\ local'[g] = local[g]
    BY <1>3 DEF SelectTimedOut, StartDetection, MoveTo, Typed
<1>4. CASE SendWarning(h) \/ Heartbeat(h) \/ RecalculateActive(h) \/ CancelHandler(h)
    BY <1>4, <1>1 DEF SendWarning, Heartbeat, RecalculateActive, CancelHandler, Finish,
                      MoveTo, Typed
<1>5. ASSUME SelectExisting(h) \/ RefreshExisting(h) \/ InsertIncident(h) \/ Escalate(h)
      PROVE  pc'[g] = pc[g] /\ local'[g] = local[g]
    BY <1>5 DEF SelectExisting, RefreshExisting, InsertIncident, Escalate, MoveTo, Typed
<1>6. ASSUME \/ CommitLock(h) \/ ReadOpen(h) \/ KeepScore(h) \/ CompareScore(h)
             \/ WriteScore(h) \/ ConsumeWarning(h)
      PROVE  pc'[g] = pc[g] /\ local'[g] = local[g]
    BY <1>6 DEF CommitLock, ReadOpen, KeepScore, CompareScore, WriteScore, ConsumeWarning,
                AfterScore, Finish, MoveTo, Typed
<1> QED
    BY <1>1, <1>2, <1>3, <1>4, <1>5, <1>6 DEF Start, Continue

(* Every step keeps every handler sound.                                   *)
LEMMA StepConsistent == Typed /\ Consistent /\ [IncidentNext]_pipelineVars => Consistent'
<1> SUFFICES ASSUME Typed, Consistent, [IncidentNext]_pipelineVars, NEW g \in Handlers
             PROVE  Sound(g)'
    BY DEF Consistent
<1>1. RowsKept /\ Sound(g)
    BY StepRows DEF Consistent
<1>2. ASSUME NEW h \in Handlers, Start(h) \/ Continue(h) \/ CancelHandler(h)
      PROVE  Sound(g)'
  <2>1. CASE g = h
    BY <1>1, <1>2, <2>1, StartSound, DetectSound, ScoreSound DEF Continue
  <2>2. CASE g # h
    BY <1>1, <1>2, <2>2, OthersStand, SoundFrame
  <2> QED
    BY <2>1, <2>2
<1>3. CASE ApiRestart
  <2>1. CASE g \in ApiHandlers
    BY <1>3, <2>1, IdleSound DEF ApiRestart
  <2>2. CASE g \notin ApiHandlers
    BY <1>1, <1>3, <2>2, SoundFrame DEF ApiRestart
  <2> QED
    BY <2>1, <2>2
<1>4. CASE Tick \/ UNCHANGED pipelineVars
    BY <1>1, <1>4, SoundFrame DEF Tick, pipelineVars, txVars
<1> QED
    BY <1>2, <1>3, <1>4 DEF IncidentNext

-----------------------------------------------------------------------------
(* Locks are only added, one at a time, and a handler that holds a count   *)
(* has read it from the column or has none.                                *)
LEMMA LockStep ==
    ASSUME Typed, LockCountBound, [IncidentNext]_pipelineVars
    PROVE  LockCountBound'
<1> DEFINE Bounded(n) == n <= LockRows
<1>1. /\ LockRows \in Nat /\ screen_lock_count \in Nat /\ screen_lock_count <= LockRows
      /\ \A h \in Handlers : local[h].count \in Nat /\ local[h].count <= LockRows
    BY DEF Typed, TaskRecord, LockRows, LockCountBound
<1>2. ASSUME LockRows' = LockRows, screen_lock_count' = screen_lock_count,
             \A h \in Handlers : local'[h].count \in {0, screen_lock_count, local[h].count}
      PROVE  LockCountBound'
    BY <1>1, <1>2 DEF LockCountBound
<1>3. ASSUME NEW h \in Handlers, CommitLock(h)
      PROVE  LockCountBound'
  <2>1. LockRows' = LockRows + 1
    BY <1>3 DEF CommitLock, LockRows, Typed
  <2>2. screen_lock_count' = local[h].count + 1
    BY <1>3 DEF CommitLock, BumpedCount
  <2>3. \A g \in Handlers : local'[g].count \in {0, local[g].count}
    <3>1. CASE local' = [local EXCEPT ![h] = NoTask]
      BY <3>1 DEF NoTask, Typed
    <3>2. CASE local' = [local EXCEPT ![h].count = 0]
      BY <3>2 DEF Typed, TaskRecord
    <3> QED
      BY <1>3, <3>1, <3>2 DEF CommitLock, Finish
  <2> QED
    BY <1>1, <2>1, <2>2, <2>3 DEF LockCountBound
<1>4. ASSUME NEW h \in Handlers, ~CommitLock(h), Start(h) \/ Continue(h) \/ CancelHandler(h)
      PROVE  LockCountBound'
  <2>1. LockRows' = LockRows /\ screen_lock_count' = screen_lock_count
    BY <1>4 DEF LockRows, Start, Continue, SelectTimedOut, StartDetection, Review, SendWarning,
                Heartbeat, RecalculateActive, CancelHandler, SelectExisting, RefreshExisting,
                InsertIncident, Escalate, ReadOpen, KeepScore, CompareScore, WriteScore,
                ConsumeWarning, dbVars
  <2>2. local'[h].count \in {0, screen_lock_count, local[h].count}
    <3>1. CASE Start(h)
      BY <3>1 DEF Start, SelectTimedOut, StartDetection, Review, SendWarning, Heartbeat,
                  RecalculateActive, NoTask, Typed
    <3>2. CASE SelectExisting(h) \/ RefreshExisting(h) \/ InsertIncident(h) \/ Escalate(h)
      BY <3>2 DEF SelectExisting, RefreshExisting, InsertIncident, Escalate, Typed, TaskRecord
    <3>3. CASE ReadOpen(h) \/ KeepScore(h) \/ CompareScore(h) \/ WriteScore(h)
                 \/ ConsumeWarning(h) \/ CancelHandler(h)
      BY <3>3 DEF ReadOpen, KeepScore, CompareScore, WriteScore, ConsumeWarning, CancelHandler,
                  AfterScore, Finish, NoTask, Typed, TaskRecord
    <3> QED
      BY <1>4, <3>1, <3>2, <3>3 DEF Continue
  <2>3. \A g \in Handlers : local'[g].count \in {0, screen_lock_count, local[g].count}
    BY <1>4, <2>2, OthersStand
  <2> QED
    BY <1>2, <2>1, <2>3
<1>5. CASE ApiRestart
    BY <1>2, <1>5 DEF ApiRestart, dbVars, LockRows, NoTask
<1>6. CASE Tick \/ UNCHANGED pipelineVars
    BY <1>2, <1>6 DEF Tick, pipelineVars, dbVars, LockRows
<1> QED
    BY <1>3, <1>4, <1>5, <1>6 DEF IncidentNext

-----------------------------------------------------------------------------
(* Every row that is open after a step other than an insert was open, with *)
(* the same type, before it.                                               *)
LEMMA OpenShrinks ==
    ASSUME Typed, Consistent, [IncidentNext]_pipelineVars, \A h \in Handlers : ~InsertIncident(h),
           NEW t \in Types
    PROVE  OpenOf(t)' \subseteq OpenOf(t)
<1>1. ASSUME DOMAIN incidents' = DOMAIN incidents,
             \A i \in DOMAIN incidents :
                /\ incidents'[i].status = "OPEN" => incidents[i].status = "OPEN"
                /\ incidents'[i].type = incidents[i].type
      PROVE  OpenOf(t)' \subseteq OpenOf(t)
    BY <1>1 DEF OpenOf, Open
<1>2. CASE UNCHANGED incidents
    BY <1>2 DEF OpenOf, Open
<1>3. ASSUME NEW h \in Handlers, NEW i \in DOMAIN incidents, NEW verdict \in Status,
             Review(h, i, verdict)
      PROVE  OpenOf(t)' \subseteq OpenOf(t)
    BY <1>1, <1>3, RowsAreNumbered DEF Review, Typed, Incident
<1>4. ASSUME NEW h \in Handlers, RefreshExisting(h)
      PROVE  OpenOf(t)' \subseteq OpenOf(t)
    BY <1>1, <1>4, RowsAreNumbered DEF RefreshExisting, Typed, Incident
<1>5. CASE Tick
    BY <1>1, <1>5, RowsAreNumbered DEF Tick, Typed, Incident
<1>6. ASSUME NEW h \in Handlers, Start(h) \/ Continue(h) \/ CancelHandler(h)
      PROVE  OpenOf(t)' \subseteq OpenOf(t)
    BY <1>2, <1>3, <1>4, <1>6
       DEF Start, Continue, SelectTimedOut, StartDetection, SendWarning, Heartbeat,
           RecalculateActive, CancelHandler, SelectExisting, Escalate, CommitLock, ReadOpen,
           KeepScore, CompareScore, WriteScore, ConsumeWarning, dbVars
<1> QED
    BY <1>2, <1>5, <1>6 DEF IncidentNext, ApiRestart, pipelineVars, dbVars

(* A handler stands at the insert after a step other than its SELECT only  *)
(* if it stood there before.                                               *)
LEMMA InsertingShrinks ==
    ASSUME Typed, Consistent, [IncidentNext]_pipelineVars, \A h \in Handlers : ~SelectExisting(h),
           NEW t \in Types
    PROVE  Inserting(t)' \subseteq Inserting(t)
<1> SUFFICES ASSUME NEW g \in Handlers, pc'[g] = "insert", local'[g].type = t
             PROVE  pc[g] = "insert" /\ local[g].type = t
    BY DEF Inserting
<1>1. ASSUME NEW h \in Handlers, Start(h) \/ Continue(h) \/ CancelHandler(h)
      PROVE  pc[g] = "insert" /\ local[g].type = t
  <2>1. pc'[h] # "insert"
    <3>1. CASE Start(h)
      BY <3>1 DEF Start, SelectTimedOut, StartDetection, Review, SendWarning, Heartbeat,
                  RecalculateActive, MoveTo, Typed
    <3>2. CASE RefreshExisting(h) \/ InsertIncident(h) \/ Escalate(h) \/ CommitLock(h)
      BY <3>2 DEF RefreshExisting, InsertIncident, Escalate, CommitLock, Finish, MoveTo, Typed
    <3>3. CASE ReadOpen(h) \/ KeepScore(h) \/ CompareScore(h) \/ WriteScore(h)
                 \/ ConsumeWarning(h) \/ CancelHandler(h)
      BY <3>3 DEF ReadOpen, KeepScore, CompareScore, WriteScore, ConsumeWarning, CancelHandler,
                  AfterScore, Finish, MoveTo, Typed
    <3> QED
      BY <1>1, <3>1, <3>2, <3>3 DEF Continue
  <2> QED
    BY <1>1, <2>1, OthersStand
<1>2. CASE ApiRestart
    BY <1>2 DEF ApiRestart
<1>3. CASE Tick \/ UNCHANGED pipelineVars
    BY <1>3 DEF Tick, pipelineVars, txVars
<1> QED
    BY <1>1, <1>2, <1>3 DEF IncidentNext

(* Open rows and handlers are finitely many, and only a handler that       *)
(* raises the type inserts it.                                             *)
LEMMA Finite ==
    ASSUME Typed, Consistent, NEW t \in Types
    PROVE  /\ IsFiniteSet(OpenOf(t)) /\ IsFiniteSet(Inserting(t)) /\ IsFiniteSet(Raisers(t))
           /\ Inserting(t) \subseteq Raisers(t)
<1>1. IsFiniteSet(OpenOf(t))
    BY RowsAreNumbered, FS_Subset DEF OpenOf, Open, Typed
<1>2. IsFiniteSet(Inserting(t)) /\ IsFiniteSet(Raisers(t))
    BY HandlerAssumption, FS_Subset DEF Inserting, Raisers
<1>3. Inserting(t) \subseteq Raisers(t)
    BY DEF Inserting, Raisers, Consistent, Sound
<1> QED
    BY <1>1, <1>2, <1>3

(* Every step keeps the bound on duplicates: a SELECT that finds none      *)
(* starts from no open row, an insert turns an inserting handler into a row. *)
LEMMA DuplicateStep ==
    ASSUME Typed, Consistent, DuplicateBound, [IncidentNext]_pipelineVars
    PROVE  DuplicateBound'
<1> SUFFICES ASSUME NEW t \in Types
             PROVE  (Cardinality(OpenOf(t)) + Cardinality(Inserting(t))
                        <= Cardinality(Raisers(t)))'
    BY DEF DuplicateBound
<1>1. /\ Cardinality(OpenOf(t)) \in Nat /\ Cardinality(Inserting(t)) \in Nat
      /\ Cardinality(Raisers(t)) \in Nat /\ Cardinality(Raisers(t))' = Cardinality(Raisers(t))
      /\ Cardinality(OpenOf(t)) + Cardinality(Inserting(t)) <= Cardinality(Raisers(t))
    BY Finite, FS_CardinalityType DEF DuplicateBound, Raisers
<1>2. Typed' /\ Consistent'
    BY StepTypes, StepConsistent
<1>3. Inserting(t)' \subseteq Raisers(t)
    BY <1>2 DEF Inserting, Raisers, Consistent, Sound
<1>4. ASSUME NEW h \in Handlers, SelectExisting(h)
      PROVE  (Cardinality(OpenOf(t)) + Cardinality(Inserting(t)) <= Cardinality(Raisers(t)))'
  <2>1. OpenOf(t)' = OpenOf(t)
    BY <1>4 DEF SelectExisting, dbVars, OpenOf, Open
  <2>2. CASE OpenOf(t) = {}
    <3>1. Cardinality(OpenOf(t)') = 0
      BY <2>1, <2>2, FS_EmptySet
    <3>2. /\ Cardinality(Inserting(t)') <= Cardinality(Raisers(t))
          /\ Cardinality(Inserting(t)') \in Nat
      BY <1>3, Finite, FS_Subset, FS_CardinalityType
    <3> QED
      BY <1>1, <3>1, <3>2
  <2>3. CASE OpenOf(t) # {}
    <3>1. Inserting(t)' \subseteq Inserting(t)
      BY <1>4, <2>3 DEF SelectExisting, Inserting, Duplicates, MoveTo, Typed, TaskRecord
    <3>2. /\ Cardinality(Inserting(t)') <= Cardinality(Inserting(t))
          /\ Cardinality(Inserting(t)') \in Nat
      BY <3>1, Finite, FS_Subset, FS_CardinalityType
    <3> QED
      BY <1>1, <2>1, <3>2
  <2> QED
    BY <2>2, <2>3
<1>5. ASSUME NEW h \in Handlers, InsertIncident(h), local[h].type = t
      PROVE  (Cardinality(OpenOf(t)) + Cardinality(Inserting(t)) <= Cardinality(Raisers(t)))'
  <2>1. OpenOf(t)' \subseteq OpenOf(t) \union {Len(incidents) + 1}
    BY <1>5 DEF InsertIncident, OpenOf, Open, Typed
  <2>2. Inserting(t)' \subseteq Inserting(t) \ {h} /\ h \in Inserting(t)
    BY <1>5 DEF InsertIncident, Inserting, MoveTo, Typed
  <2>3. Cardinality(OpenOf(t)') <= Cardinality(OpenOf(t)) + 1 /\ Cardinality(OpenOf(t)') \in Nat
    <3>1. /\ IsFiniteSet(OpenOf(t) \union {Len(incidents) + 1})
          /\ Cardinality(OpenOf(t) \union {Len(incidents) + 1})
                \in {Cardinality(OpenOf(t)), Cardinality(OpenOf(t)) + 1}
      BY Finite, FS_AddElement
    <3> QED
      BY <1>1, <2>1, <3>1, FS_Subset, FS_CardinalityType
  <2>4. /\ Cardinality(Inserting(t)') <= Cardinality(Inserting(t)) - 1
        /\ Cardinality(Inserting(t)') \in Nat
    <3>1. /\ IsFiniteSet(Inserting(t) \ {h})
          /\ Cardinality(Inserting(t) \ {h}) = Cardinality(Inserting(t)) - 1
      BY <2>2, Finite, FS_RemoveElement
    <3> QED
      BY <1>1, <2>2, <3>1, FS_Subset, FS_CardinalityType
  <2> QED
    BY <1>1, <2>3, <2>4
<1>6. ASSUME OpenOf(t)' \subseteq OpenOf(t), Inserting(t)' \subseteq Inserting(t)
      PROVE  (Cardinality(OpenOf(t)) + Cardinality(Inserting(t)) <= Cardinality(Raisers(t)))'
  <2>1. Cardinality(OpenOf(t)') <= Cardinality(OpenOf(t)) /\ Cardinality(OpenOf(t)') \in Nat
    BY <1>6, Finite, FS_Subset, FS_CardinalityType
  <2>2. /\ Cardinality(Inserting(t)') <= Cardinality(Inserting(t))
        /\ Cardinality(Inserting(t)') \in Nat
    BY <1>6, Finite, FS_Subset, FS_CardinalityType
  <2> QED
    BY <1>1, <2>1, <2>2
<1>7. ASSUME NEW h \in Handlers, InsertIncident(h), local[h].type # t
      PROVE  OpenOf(t)' \subseteq OpenOf(t) /\ Inserting(t)' \subseteq Inserting(t)
    BY <1>7 DEF InsertIncident, OpenOf, Open, Inserting, MoveTo, Typed
<1> QED
    BY <1>4, <1>5, <1>6, <1>7, OpenShrinks, InsertingShrinks

-----------------------------------------------------------------------------
(* What DetectionCounted says of one handler.                              *)
Counted(h) == (\E i \in Open : incidents[i].type = local[h].type) \/ local[h].reviewed
StillOpen == \A i \in Open : i \in Open' /\ incidents'[i].type = incidents[i].type
Standing == Label \ {"select", "insert"}

(* Only a review closes rows.                                              *)
LEMMA OpenGrows ==
    ASSUME Typed, Consistent, [IncidentNext]_pipelineVars,
           \A h \in Handlers, i \in DOMAIN incidents, verdict \in Status : ~Review(h, i, verdict)
    PROVE  StillOpen
<1>1. ASSUME DOMAIN incidents \subseteq DOMAIN incidents',
             \A i \in DOMAIN incidents :
                incidents'[i].status = incidents[i].status /\ incidents'[i].type = incidents[i].type
      PROVE  StillOpen
    BY <1>1 DEF StillOpen, Open
<1>2. CASE UNCHANGED incidents
    BY <1>2 DEF StillOpen, Open
<1>3. ASSUME NEW h \in Handlers, RefreshExisting(h)
      PROVE  StillOpen
    BY <1>1, <1>3, RowsAreNumbered DEF RefreshExisting, Typed, Incident
<1>4. ASSUME NEW h \in Handlers, InsertIncident(h)
      PROVE  StillOpen
    BY <1>1, <1>4 DEF InsertIncident, Typed
<1>5. CASE Tick
    BY <1>1, <1>5, RowsAreNumbered DEF Tick, Typed, Incident
<1>6. ASSUME NEW h \in Handlers, Start(h) \/ Continue(h) \/ CancelHandler(h)
      PROVE  StillOpen
    BY <1>2, <1>3, <1>4, <1>6
       DEF Start, Continue, SelectTimedOut, StartDetection, SendWarning, Heartbeat,
           RecalculateActive, CancelHandler, SelectExisting, Escalate, CommitLock, ReadOpen,
           KeepScore, CompareScore, WriteScore, ConsumeWarning, dbVars
<1> QED
    BY <1>2, <1>5, <1>6 DEF IncidentNext, ApiRestart, pipelineVars, dbVars

(* A detection that stands past its insert or refresh after a step stood   *)
(* there, marked no differently, before it, or has just selected, inserted *)
(* or been reviewed.                                                       *)
LEMMA StandingBefore ==
    ASSUME Typed, Consistent, [IncidentNext]_pipelineVars, NEW g \in Handlers,
           local'[g].kind = "detect", pc'[g] \in Standing
    PROVE  \/ SelectExisting(g)
           \/ InsertIncident(g)
           \/ \E h \in Handlers, i \in DOMAIN incidents, verdict \in Status : Review(h, i, verdict)
           \/ /\ local[g].kind = "detect" /\ pc[g] \in Standing
              /\ local'[g].type = local[g].type /\ local'[g].reviewed = local[g].reviewed
<1>1. ASSUME NEW h \in Handlers, h # g, Start(h) \/ Continue(h) \/ CancelHandler(h),
             \A i \in DOMAIN incidents, verdict \in Status : ~Review(h, i, verdict)
      PROVE  pc'[g] = pc[g] /\ local'[g] = local[g]
  <2>1. CASE Start(h)
    BY <1>1, <2>1 DEF Start, SelectTimedOut, StartDetection, SendWarning, Heartbeat,
                      RecalculateActive, MoveTo, Typed
  <2>2. CASE SelectExisting(h) \/ RefreshExisting(h) \/ InsertIncident(h) \/ Escalate(h)
    BY <1>1, <2>2 DEF SelectExisting, RefreshExisting, InsertIncident, Escalate, MoveTo, Typed
  <2>3. CASE CommitLock(h) \/ ReadOpen(h) \/ KeepScore(h) \/ CompareScore(h) \/ WriteScore(h)
               \/ ConsumeWarning(h) \/ CancelHandler(h)
    BY <1>1, <2>3 DEF CommitLock, ReadOpen, KeepScore, CompareScore, WriteScore, ConsumeWarning,
                      CancelHandler, AfterScore, Finish, MoveTo, Typed
  <2> QED
    BY <1>1, <2>1, <2>2, <2>3 DEF Continue
<1>2. ASSUME Start(g), \A i \in DOMAIN incidents, verdict \in Status : ~Review(g, i, verdict)
      PROVE  FALSE
    BY <1>2 DEF Start, SelectTimedOut, StartDetection, SendWarning, Heartbeat, RecalculateActive,
                MoveTo, NoTask, Typed, Standing
<1>3. ASSUME Continue(g) \/ CancelHandler(g), ~SelectExisting(g), ~InsertIncident(g)
      PROVE  /\ local[g].kind = "detect" /\ pc[g] \in Standing
             /\ local'[g].type = local[g].type /\ local'[g].reviewed = local[g].reviewed
  <2>1. pc[g] \in Standing
    BY <1>3 DEF Continue, RefreshExisting, Escalate, CommitLock, ReadOpen, KeepScore,
                CompareScore, WriteScore, ConsumeWarning, CancelHandler, AfterScore, Finish, MoveTo,
                NoTask, Typed, Standing, Label
  <2>2. CASE RefreshExisting(g) \/ Escalate(g) \/ CompareScore(g) \/ ReadOpen(g)
    BY <2>1, <2>2 DEF RefreshExisting, Escalate, CompareScore, ReadOpen, Typed, TaskRecord
  <2>3. CASE CommitLock(g)
    BY <2>1, <2>3 DEF CommitLock, Finish, NoTask, Typed, TaskRecord
  <2>4. CASE KeepScore(g) \/ WriteScore(g) \/ ConsumeWarning(g) \/ CancelHandler(g)
    BY <2>1, <2>4 DEF KeepScore, WriteScore, ConsumeWarning, CancelHandler, AfterScore, Finish,
                      NoTask, Typed, TaskRecord
  <2> QED
    BY <1>3, <2>1, <2>2, <2>3, <2>4 DEF Continue
<1>4. CASE ApiRestart
  <2>1. pc'[g] = pc[g] /\ local'[g] = local[g]
    BY <1>4 DEF ApiRestart, NoTask
  <2> QED
    BY <2>1
<1>5. CASE Tick \/ UNCHANGED pipelineVars
    BY <1>5 DEF Tick, pipelineVars, txVars
<1> QED
    BY <1>1, <1>2, <1>3, <1>4, <1>5 DEF IncidentNext, Start

(* Every step keeps detections counted: only a review closes a row, and it *)
(* marks the detections of its type.                                       *)
LEMMA CountedStep ==
    ASSUME Typed, Consistent, DetectionCounted, [IncidentNext]_pipelineVars
    PROVE  DetectionCounted'
<1>1. Typed' /\ Consistent' /\ RowsKept
    BY StepTypes, StepConsistent, StepRows
<1> SUFFICES ASSUME NEW g \in Handlers, local'[g].kind = "detect", pc'[g] \in Standing
             PROVE  Counted(g)'
    BY DEF DetectionCounted, DetectAt, Counted, Standing, OpenOf
<1>2. local[g].kind = "detect" /\ pc[g] \in Standing => Counted(g)
    BY DEF DetectionCounted, DetectAt, Counted, Standing, OpenOf
<1>3. CASE SelectExisting(g)
  <2>1. PICK i \in OpenOf(local[g].type) : local' = [local EXCEPT ![g].found = i]
    BY <1>3 DEF SelectExisting, Duplicates, MoveTo, Typed, Standing
  <2>2. UNCHANGED incidents /\ local'[g].type = local[g].type
    BY <1>3, <2>1 DEF SelectExisting, dbVars, Typed, TaskRecord
  <2> QED
    BY <2>1, <2>2 DEF Counted, OpenOf, Open
<1>4. CASE InsertIncident(g)
  <2>1. /\ Len(incidents) + 1 \in Open'
        /\ incidents'[Len(incidents) + 1].type = local[g].type
    BY <1>4 DEF InsertIncident, Open, Typed
  <2> QED
    BY <1>4, <2>1 DEF InsertIncident, Counted
<1>5. ASSUME NEW h \in Handlers, NEW i \in DOMAIN incidents, NEW verdict \in Status,
             Review(h, i, verdict)
      PROVE  Counted(g)'
  <2>1. g # h
    BY <1>5 DEF Review, NoTask, Typed
  <2>2. local'[g] = IF local[g].kind = "detect" /\ local[g].type = incidents[i].type
                    THEN [local[g] EXCEPT !.reviewed = TRUE] ELSE local[g]
    BY <1>5, <2>1 DEF Review
  <2>3. local[g].kind = "detect" /\ pc'[g] = pc[g] /\ local'[g].type = local[g].type
    BY <1>5, <2>1, OthersStand DEF Start
  <2>4. CASE local[g].type = incidents[i].type
    BY <2>2, <2>3, <2>4 DEF Counted, Typed, TaskRecord
  <2>5. CASE local[g].type # incidents[i].type
    <3>1. local'[g] = local[g]
      BY <2>2, <2>5
    <3>2. \A j \in Open : incidents[j].type = local[g].type
             => j \in Open' /\ incidents'[j].type = incidents[j].type
      BY <1>1, <1>5, <2>5 DEF Review, Open, RowsKept
    <3> QED
      BY <1>2, <2>3, <3>1, <3>2 DEF Counted
  <2> QED
    BY <2>4, <2>5
<1>6. ASSUME \A h \in Handlers, i \in DOMAIN incidents, verdict \in Status : ~Review(h, i, verdict),
             local[g].kind = "detect", pc[g] \in Standing,
             local'[g].type = local[g].type, local'[g].reviewed = local[g].reviewed
      PROVE  Counted(g)'
  <2>1. StillOpen
    BY <1>6, OpenGrows
  <2> QED
    BY <1>2, <1>6, <2>1 DEF Counted, StillOpen
<1> QED
    BY <1>3, <1>4, <1>5, <1>6, StandingBefore

-----------------------------------------------------------------------------
(* LockOncePerIncident is not inductive: a handler that has just inserted  *)
(* a heavy incident owes it a lock before it stands at the commit.         *)
HeavyRows == {i \in DOMAIN incidents : Heavy(incidents[i].type)}
AboutToOwe(h) == pc[h] = "escalate" /\ local[h].found = 0 /\ Heavy(local[h].type)
Owing == {h \in Handlers : local[h].kind = "detect" /\ (pc[h] = "lock" \/ AboutToOwe(h))}
LockOwed == auto_locks + Cardinality(Owing) <= Cardinality(HeavyRows)

(* A handler owes a lock after a step only if it owed it before, or has    *)
(* just inserted a heavy incident.                                         *)
LEMMA OwingBefore ==
    ASSUME Typed, Consistent, [IncidentNext]_pipelineVars, NEW g \in Owing'
    PROVE  \/ g \in Owing
           \/ InsertIncident(g) /\ Heavy(local[g].type)
<1> g \in Handlers
    BY DEF Owing
<1>1. ASSUME NEW h \in Handlers, h # g, Start(h) \/ Continue(h) \/ CancelHandler(h)
      PROVE  g \in Owing
    BY <1>1, OthersStand DEF Owing, AboutToOwe
<1>2. CASE Start(g)
  <2>1. CASE SendWarning(g)
    BY <2>1 DEF SendWarning, NoTask, Typed, Owing
  <2>2. CASE ~SendWarning(g)
    <3>1. pc'[g] \in {"select", "score"}
      BY <1>2, <2>2 DEF Start, SelectTimedOut, StartDetection, Review, Heartbeat,
                        RecalculateActive, MoveTo, Typed
    <3> QED
      BY <3>1 DEF Owing, AboutToOwe
  <2> QED
    BY <2>1, <2>2
<1>3. CASE SelectExisting(g) \/ CancelHandler(g)
    BY <1>3 DEF SelectExisting, CancelHandler, Finish, MoveTo, NoTask, Typed, Owing, AboutToOwe
<1>4. CASE RefreshExisting(g)
  <2>1. local[g].found # 0 /\ UNCHANGED local
    BY <1>4, RowsAreNumbered DEF RefreshExisting, Typed, Consistent, Sound
  <2> QED
    BY <1>4, <2>1 DEF RefreshExisting, MoveTo, Typed, Owing, AboutToOwe
<1>5. CASE InsertIncident(g)
    BY <1>5 DEF InsertIncident, MoveTo, Typed, Owing, AboutToOwe
<1>6. CASE Escalate(g)
  <2>1. pc'[g] = "lock"
    BY <1>6 DEF Escalate, MoveTo, Typed, Owing, AboutToOwe
  <2>2. Heavy(local[g].type) /\ local[g].found = 0
    BY <1>6, <2>1 DEF Escalate, IsNewIncident, MoveTo, Typed
  <2> QED
    BY <1>6, <2>2 DEF Escalate, Consistent, Sound, Owing, AboutToOwe
<1>7. CASE CommitLock(g) \/ ReadOpen(g) \/ CompareScore(g)
    BY <1>7 DEF CommitLock, ReadOpen, CompareScore, Finish, MoveTo, NoTask, Typed, Owing, AboutToOwe
<1>8. CASE KeepScore(g) \/ WriteScore(g) \/ ConsumeWarning(g)
    BY <1>8 DEF KeepScore, WriteScore, ConsumeWarning, AfterScore, Finish, MoveTo, NoTask, Typed,
                Owing, AboutToOwe
<1>9. CASE ApiRestart
    BY <1>9 DEF ApiRestart, NoTask, Owing, AboutToOwe
<1>10. CASE Tick \/ UNCHANGED pipelineVars
    BY <1>10 DEF Tick, pipelineVars, txVars, Owing, AboutToOwe
<1> QED
    BY <1>1, <1>2, <1>3, <1>4, <1>5, <1>6, <1>7, <1>8, <1>9, <1>10 DEF IncidentNext, Continue

(* Only a detection's commit adds an automatic lock row.                   *)
LEMMA AutoLocks ==
    ASSUME Typed, [IncidentNext]_pipelineVars
    PROVE  \/ UNCHANGED auto_locks
           \/ \E h \in Handlers : /\ CommitLock(h) /\ local[h].kind # "warn"
                                  /\ auto_locks' = auto_locks + 1
<1>1. ASSUME NEW h \in Handlers, Start(h) \/ CancelHandler(h)
      PROVE  UNCHANGED auto_locks
    BY <1>1 DEF Start, SelectTimedOut, StartDetection, Review, SendWarning, Heartbeat,
                RecalculateActive, CancelHandler, dbVars
<1>2. ASSUME NEW h \in Handlers, Continue(h), ~CommitLock(h)
      PROVE  UNCHANGED auto_locks
    BY <1>2 DEF Continue, SelectExisting, RefreshExisting, InsertIncident, Escalate, ReadOpen,
                KeepScore, CompareScore, WriteScore, ConsumeWarning, dbVars
<1>3. ASSUME NEW h \in Handlers, CommitLock(h)
      PROVE  \/ UNCHANGED auto_locks
             \/ local[h].kind # "warn" /\ auto_locks' = auto_locks + 1
    BY <1>3 DEF CommitLock
<1>4. CASE ApiRestart \/ Tick \/ UNCHANGED pipelineVars
    BY <1>4 DEF ApiRestart, Tick, pipelineVars, dbVars
<1> QED
    BY <1>1, <1>2, <1>3, <1>4 DEF IncidentNext

(* Every step keeps the locks owed below the heavy rows: an insert adds a  *)
(* row with its debt, a commit turns the debt into a lock.                 *)
LEMMA OwedStep ==
    ASSUME Typed, Consistent, LockOwed, [IncidentNext]_pipelineVars
    PROVE  LockOwed'
<1>1. Typed' /\ Consistent' /\ RowsKept
    BY StepTypes, StepConsistent, StepRows
<1>2. IsFiniteSet(Owing) /\ IsFiniteSet(Owing') /\ IsFiniteSet(HeavyRows)
  <2>1. IsFiniteSet(Owing) /\ IsFiniteSet(Owing')
    BY HandlerAssumption, FS_Subset DEF Owing
  <2>2. IsFiniteSet(HeavyRows)
    BY RowsAreNumbered, FS_Subset DEF HeavyRows, Typed
  <2> QED
    BY <2>1, <2>2
<1>3. IsFiniteSet(HeavyRows')
  <2>1. IsFiniteSet(DOMAIN incidents')
    <3>1. DOMAIN incidents' = 1..Len(incidents') /\ Len(incidents') \in Nat
      BY <1>1, LenProperties DEF Typed
    <3> QED
      BY <3>1, FS_Interval
  <2> QED
    BY <2>1, FS_Subset DEF HeavyRows
<1>4. /\ Cardinality(Owing) \in Nat /\ Cardinality(Owing') \in Nat
      /\ Cardinality(HeavyRows) \in Nat /\ Cardinality(HeavyRows') \in Nat
      /\ auto_locks \in Nat
      /\ auto_locks + Cardinality(Owing) <= Cardinality(HeavyRows)
    BY <1>2, <1>3, FS_CardinalityType DEF LockOwed, Typed
<1>5. HeavyRows \subseteq HeavyRows' /\ Cardinality(HeavyRows) <= Cardinality(HeavyRows')
  <2>1. HeavyRows \subseteq HeavyRows'
    BY <1>1 DEF HeavyRows, RowsKept
  <2> QED
    BY <1>3, <2>1, FS_Subset
<1>6. ASSUME NEW h \in Handlers, InsertIncident(h), Heavy(local[h].type)
      PROVE  LockOwed'
  <2>1. Owing' \subseteq Owing \union {h}
    <3>1. ASSUME NEW g \in Owing', g # h PROVE g \in Owing
      <4>1. g \in Handlers
        BY DEF Owing
      <4>2. ~(local[g].kind = "none") => pc'[g] = pc[g]
        BY <1>6, <3>1, <4>1 DEF InsertIncident, MoveTo, Typed
      <4> QED
        BY <1>6, <3>1, <4>1 DEF InsertIncident, MoveTo, Typed, Owing, AboutToOwe
    <3> QED
      BY <3>1
  <2>2. Cardinality(Owing') <= Cardinality(Owing) + 1
    <3>1. /\ IsFiniteSet(Owing \union {h})
          /\ Cardinality(Owing \union {h}) \in {Cardinality(Owing), Cardinality(Owing) + 1}
      BY <1>2, FS_AddElement
    <3> QED
      BY <1>4, <2>1, <3>1, FS_Subset
  <2>3. Cardinality(HeavyRows') >= Cardinality(HeavyRows) + 1
    <3> DEFINE new == Len(incidents) + 1
    <3>1. new \notin HeavyRows /\ new \in HeavyRows'
      BY <1>6 DEF InsertIncident, HeavyRows, Typed
    <3>2. /\ HeavyRows \union {new} \subseteq HeavyRows'
          /\ Cardinality(HeavyRows \union {new}) = Cardinality(HeavyRows) + 1
      BY <1>2, <1>5, <3>1, FS_AddElement
    <3> HIDE DEF new
    <3>3. Cardinality(HeavyRows \union {new}) <= Cardinality(HeavyRows')
      BY <1>3, <3>2, FS_Subset
    <3> QED
      BY <1>4, <3>2, <3>3
  <2>4. auto_locks' = auto_locks
    BY <1>6 DEF InsertIncident
  <2> QED
    BY <1>4, <2>2, <2>3, <2>4 DEF LockOwed
<1>7. ASSUME Owing' \subseteq Owing, UNCHANGED auto_locks
      PROVE  LockOwed'
  <2>1. Cardinality(Owing') <= Cardinality(Owing)
    BY <1>2, <1>7, FS_Subset
  <2> QED
    BY <1>4, <1>5, <1>7, <2>1 DEF LockOwed
<1>8. ASSUME Owing' \subseteq Owing, NEW h \in Handlers, CommitLock(h), local[h].kind # "warn",
             auto_locks' = auto_locks + 1
      PROVE  LockOwed'
  <2>1. h \in Owing /\ h \notin Owing'
    <3>1. h \in Owing
      BY <1>8 DEF CommitLock, Owing, Consistent, Sound
    <3>2. pc'[h] = "score"
      BY <1>8 DEF CommitLock, MoveTo, Typed
    <3> QED
      BY <3>1, <3>2 DEF Owing, AboutToOwe
  <2>2. Cardinality(Owing') <= Cardinality(Owing) - 1
    <3>1. IsFiniteSet(Owing \ {h}) /\ Cardinality(Owing \ {h}) = Cardinality(Owing) - 1
      BY <1>2, <2>1, FS_RemoveElement
    <3>2. Owing' \subseteq Owing \ {h}
      BY <1>8, <2>1
    <3> QED
      BY <3>1, <3>2, FS_Subset
  <2> QED
    BY <1>4, <1>5, <1>8, <2>2 DEF LockOwed
<1> QED
    BY <1>6, <1>7, <1>8, OwingBefore, AutoLocks DEF Owing

-----------------------------------------------------------------------------
(***************************************************************************)
(* The inductive invariant: the types, and what links the rows, the        *)
(* counters and the handlers' places (telemetry.py:251-310).               *)
(***************************************************************************)
Linked ==
    /\ Consistent
    /\ LockCountBound /\ DuplicateBound /\ DetectionCounted /\ LockOwed

Inv == Typed /\ Linked

(* The inductive invariant holds in every reachable state.                 *)
LEMMA InvHolds == Spec => []Inv
<1>1. Init => Inv
  <2> SUFFICES ASSUME Init PROVE Inv
    OBVIOUS
  <2>1. Typed /\ Consistent
    BY InitTypes
  <2>2. LockCountBound
    BY DEF Init, LockCountBound, LockRows, NoTask
  <2>3. DuplicateBound
    <3> SUFFICES ASSUME NEW t \in Types
                 PROVE  Cardinality(OpenOf(t)) + Cardinality(Inserting(t))
                          <= Cardinality(Raisers(t))
      BY DEF DuplicateBound
    <3>1. OpenOf(t) = {} /\ Inserting(t) = {}
      BY DEF Init, OpenOf, Open, Inserting
    <3>2. Cardinality(Raisers(t)) \in Nat
      BY <2>1, Finite, FS_CardinalityType
    <3> QED
      BY <3>1, <3>2, FS_EmptySet
  <2>4. DetectionCounted
    BY DEF Init, DetectionCounted, DetectAt, NoTask
  <2>5. LockOwed
    <3>1. Owing = {} /\ HeavyRows = {} /\ auto_locks = 0
      BY DEF Init, Owing, HeavyRows, NoTask
    <3> QED
      BY <3>1, FS_EmptySet DEF LockOwed
  <2> QED
    BY <2>1, <2>2, <2>3, <2>4, <2>5 DEF Inv, Linked
<1>2. Inv /\ [IncidentNext]_pipelineVars => Inv'
    BY StepTypes, StepConsistent, LockStep, DuplicateStep, CountedStep, OwedStep DEF Inv, Linked
<1> QED
    BY <1>1, <1>2, PTL DEF Spec

(***************************************************************************)
(* However many handlers race through the deduplication query, an          *)
(* indicator type never has more OPEN incidents than there are handlers    *)
(* that raise it (telemetry.py:261-278).                                   *)
(***************************************************************************)
THEOREM DuplicatesAreBounded == Spec => []DuplicateBound
BY InvHolds, PTL DEF Inv, Linked

(***************************************************************************)
(* A lost update can make screen_lock_count too small but never larger     *)
(* than the locks on record (telemetry.py:290-304, contestants.py:215-228).*)
(***************************************************************************)
THEOREM LockCountIsBounded == Spec => []LockCountBound
BY InvHolds, PTL DEF Inv, Linked

(***************************************************************************)
(* A detection that was inserted or refreshed is backed by an OPEN         *)
(* incident of its type until it is scored, unless a proctor reviewed one  *)
(* meanwhile (telemetry.py:261-310).                                       *)
(***************************************************************************)
THEOREM DetectionsAreCounted == Spec => []DetectionCounted
BY InvHolds, PTL DEF Inv, Linked

(***************************************************************************)
(* An incident row accounts for at most one automatic lock                 *)
(* (telemetry.py:280-308).                                                 *)
(***************************************************************************)
THEOREM OneLockPerIncident == Spec => []LockOncePerIncident
<1>1. Inv => LockOncePerIncident
  <2> SUFFICES ASSUME Inv PROVE LockOncePerIncident
    OBVIOUS
  <2>1. DetectAt({"lock"}) \subseteq Owing
    BY DEF DetectAt, Owing
  <2>2. IsFiniteSet(Owing)
    BY HandlerAssumption, FS_Subset DEF Owing
  <2>3. /\ Cardinality(DetectAt({"lock"})) <= Cardinality(Owing)
        /\ Cardinality(DetectAt({"lock"})) \in Nat /\ Cardinality(Owing) \in Nat
    BY <2>1, <2>2, FS_Subset, FS_CardinalityType
  <2>4. Cardinality(HeavyRows) \in Nat
    BY RowsAreNumbered, FS_Subset, FS_CardinalityType DEF Inv, Linked, Typed, HeavyRows
  <2> QED
    BY <2>3, <2>4 DEF Inv, Linked, LockOwed, LockOncePerIncident, HeavyRows, Typed
<1> QED
    BY <1>1, InvHolds, PTL
=============================================================================
