------------------------- MODULE AgentSessionProofs -------------------------
(***************************************************************************)
(* Proofs about one contestant's session, for any numbers of calls, API    *)
(* processes and workers, and any number of faults.                        *)
(***************************************************************************)
EXTENDS AgentSession, FiniteSetTheorems, TLAPS

Call == [at : {"free", "request", "recalculate", "policy", "response"},
         server : Servers \union {NoCall}, warn : BOOLEAN, disconnect : BOOLEAN]

SessionTyped ==
    /\ waiting \in Calls \union {NoCall}
    /\ home \in Servers
    /\ call \in [Calls -> Call]
    /\ pending_warning \in [Servers -> BOOLEAN]
    /\ pending_disconnect \in [Servers -> BOOLEAN]
    /\ is_online \in BOOLEAN /\ unreported \in BOOLEAN
    /\ check \in [Workers -> {"idle", "selected", "marked"}]
    /\ queued \in Nat /\ shown \in Nat
    /\ owed \in [Workers -> Nat]

(* A handler runs in one of the processes.                                 *)
HandledSomewhere == \A c \in Calls : call[c].at # "free" => call[c].server \in Servers

(* A worker that has selected the contestant owes a report of the session  *)
(* it saw; if the contestant is back by now, one of the next session too.  *)
ReportsOwed ==
    \A w \in Workers :
        /\ is_online \/ check[w] # "idle" => owed[w] > 0
        /\ is_online /\ check[w] = "marked" => owed[w] > 1

(* An offline contestant whose silence is not flagged is about to be.      *)
FlagIsComing == unreported => is_online \/ \E w \in Workers : check[w] = "marked"

-----------------------------------------------------------------------------
LEMMA SessionInit ==
    Init => /\ SessionTyped /\ HandledSomewhere /\ AwaitedIsServed
            /\ LocksAreQueued /\ ReportsOwed /\ FlagIsComing
<1> SUFFICES ASSUME Init
             PROVE  /\ SessionTyped /\ HandledSomewhere /\ AwaitedIsServed
                    /\ LocksAreQueued /\ ReportsOwed /\ FlagIsComing
    OBVIOUS
<1>1. SessionTyped /\ HandledSomewhere /\ AwaitedIsServed /\ ReportsOwed /\ FlagIsComing
    BY DEF Init, Free, Call, SessionTyped, HandledSomewhere, AwaitedIsServed, ReportsOwed, FlagIsComing
<1>2. Carrying = {} /\ Pending = {}
    BY DEF Init, Free, Carrying, Pending
<1>3. LocksAreQueued
    BY <1>2, FS_EmptySet DEF Init, LocksAreQueued
<1> QED BY <1>1, <1>3

-----------------------------------------------------------------------------
(* A lock is shown for a warning that the answer carries.                  *)
LEMMA AnswerShows ==
    ASSUME SessionTyped, NEW c \in Calls, HeartbeatAnswered(c)
    PROVE  shown' = shown \/ (call[c].warn /\ shown' = shown + 1)
<1>1. DeployWarning => shown' \in {shown, shown + 1}
    BY DEF DeployWarning
<1>2. CASE call[c].disconnect
    BY <1>2 DEF HeartbeatAnswered
<1>3. CASE ~call[c].disconnect /\ call[c].warn
    BY <1>1, <1>3 DEF HeartbeatAnswered
<1>4. CASE ~call[c].disconnect /\ ~call[c].warn
    BY <1>4 DEF HeartbeatAnswered
<1> QED BY <1>2, <1>3, <1>4

LEMMA AgentTyped ==
    ASSUME SessionTyped, NEW c \in Calls, SendHeartbeat(c) \/ HeartbeatAnswered(c)
    PROVE  SessionTyped'
<1>1. call[c] \in Call
    BY DEF SessionTyped
<1>2. CASE SendHeartbeat(c)
  <2>1. [call[c] EXCEPT !.at = "request", !.server = home] \in Call
      BY <1>1 DEF Call, SessionTyped
  <2>2. call' = [call EXCEPT ![c] = [call[c] EXCEPT !.at = "request", !.server = home]]
      BY <1>2 DEF SendHeartbeat, SessionTyped
  <2> QED BY <1>2, <2>1, <2>2 DEF SendHeartbeat, SessionTyped, rowVars, historyVars
<1>3. CASE HeartbeatAnswered(c)
  <2>1. Free \in Call
      BY DEF Free, Call
  <2>2. shown' \in Nat
      BY <1>3, AnswerShows DEF SessionTyped
  <2> QED BY <1>3, <2>1, <2>2 DEF HeartbeatAnswered, SessionTyped, rowVars
<1> QED BY <1>2, <1>3

LEMMA HandlerTyped ==
    ASSUME SessionTyped, HandledSomewhere, NEW c \in Calls, Handle(c) \/ Network(c)
    PROVE  SessionTyped'
<1>1. call[c] \in Call /\ Free \in Call /\ FailureAnswer(c) \in Call
    BY DEF SessionTyped, Free, FailureAnswer, Call
<1>2. CASE UpdateHeartbeat(c)
  <2>1. [call[c] EXCEPT !.at = "recalculate"] \in Call
      BY <1>1 DEF Call
  <2>2. owed' \in [Workers -> Nat] /\ unreported' \in BOOLEAN
    <3>1. CASE is_online
        BY <1>2, <3>1 DEF UpdateHeartbeat, ComesOnline, SessionTyped
    <3>2. CASE ~is_online
        BY <1>2, <3>2 DEF UpdateHeartbeat, ComesOnline, SessionTyped
    <3> QED BY <3>1, <3>2
  <2>3. call' = [call EXCEPT ![c] = [call[c] EXCEPT !.at = "recalculate"]]
      BY <1>2 DEF UpdateHeartbeat, ComesOnline, SessionTyped
  <2> QED BY <1>2, <2>1, <2>2, <2>3 DEF UpdateHeartbeat, ComesOnline, MarkSeen, SessionTyped, agentVars
<1>3. CASE ConsumePayloads(c)
  <2> DEFINE s == call[c].server
             new == [at |-> "policy", server |-> s, warn |-> pending_warning[s],
                     disconnect |-> pending_disconnect[s]]
  <2>1. s \in Servers
      BY <1>1, <1>3 DEF ConsumePayloads, HandledSomewhere
  <2>2. new \in Call
      BY <2>1 DEF Call, SessionTyped
  <2> QED BY <1>3, <2>2 DEF ConsumePayloads, ClearQueued, SessionTyped, agentVars, rowVars, historyVars
<1>4. CASE Respond(c)
  <2>1. [call[c] EXCEPT !.at = "response"] \in Call
      BY <1>1 DEF Call
  <2>2. call' = [call EXCEPT ![c] = [call[c] EXCEPT !.at = "response"]]
      BY <1>4 DEF Respond, SessionTyped
  <2> QED BY <1>4, <2>1, <2>2 DEF Respond, SessionTyped, agentVars, rowVars, historyVars
<1>5. CASE Abandon(c)
    BY <1>1, <1>5 DEF Abandon, SessionTyped, agentVars, rowVars, historyVars
<1>6. CASE HandlerFails(c)
    BY <1>1, <1>6 DEF HandlerFails, SessionTyped, agentVars, rowVars, historyVars
<1>7. CASE LoseRequest(c)
    BY <1>1, <1>7 DEF LoseRequest, HeartbeatFailed, SessionTyped, rowVars, historyVars
<1>8. CASE GiveUp(c)
    BY <1>8 DEF GiveUp, HeartbeatFailed, SessionTyped, apiVars, rowVars, historyVars
<1> QED BY <1>2, <1>3, <1>4, <1>5, <1>6, <1>7, <1>8 DEF Handle, Network

LEMMA SessionTypedNext ==
    ASSUME SessionTyped, HandledSomewhere, [Next]_vars
    PROVE  SessionTyped'
<1> USE DEF SessionTyped
<1>1. ASSUME NEW c \in Calls, SendHeartbeat(c) \/ HeartbeatAnswered(c) PROVE SessionTyped'
    BY <1>1, AgentTyped
<1>2. ASSUME NEW c \in Calls, Handle(c) \/ Network(c) PROVE SessionTyped'
    BY <1>2, HandlerTyped
<1>3. CASE Screen
    BY <1>3 DEF Screen, CloseLock, GraceOver, CountdownOver, apiVars, rowVars, historyVars
<1>4. ASSUME NEW s \in Servers, QueueWarning(s) PROVE SessionTyped'
    BY <1>4 DEF QueueWarning, agentVars, rowVars
<1>5. ASSUME NEW s \in Servers, QueueDisconnect(s) PROVE SessionTyped'
    BY <1>5 DEF QueueDisconnect, agentVars, rowVars, historyVars
<1>6. ASSUME NEW s \in Servers, ApiRestart(s) PROVE SessionTyped'
  <2>1. Free \in Call
      BY DEF Free, Call
  <2>2. waiting' \in Calls \union {NoCall} /\ home' \in Servers
      BY <1>6 DEF ApiRestart, CallsBreak, HeartbeatFailed, agentVars
  <2> QED BY <1>6, <2>1, <2>2 DEF ApiRestart, ClearQueued, rowVars, historyVars
<1>7. ASSUME NEW w \in Workers, Check(w) PROVE SessionTyped'
  <2>1. CASE SelectTimedOut(w)
      BY <2>1 DEF SelectTimedOut, agentVars, apiVars, rowVars, historyVars
  <2>2. CASE MarkOffline(w)
      BY <2>2 DEF MarkOffline, SetOffline, agentVars, apiVars, historyVars
  <2>3. CASE RaiseTimeout(w)
    <3>1. owed[w] \in Nat /\ owed' = [owed EXCEPT ![w] = IF owed[w] > 0 THEN owed[w] - 1 ELSE 0]
        BY <2>3 DEF RaiseTimeout
    <3>2. owed' \in [Workers -> Nat]
        BY <3>1
    <3> QED BY <2>3, <3>2 DEF RaiseTimeout, RaiseIncident, agentVars, apiVars, rowVars
  <2> QED BY <1>7, <2>1, <2>2, <2>3 DEF Check
<1>8. ASSUME NEW w \in Workers, WorkerCrash(w) PROVE SessionTyped'
    BY <1>8 DEF WorkerCrash, agentVars, apiVars, rowVars, historyVars
<1>9. CASE AgentDies \/ Tick
    BY <1>9 DEF AgentDies, Tick, agentVars, apiVars, rowVars, historyVars
<1>11. CASE AgentStarts
  <2>1. CASE is_online
      BY <1>11, <2>1 DEF AgentStarts, ComesOnline, MarkSeen, apiVars
  <2>2. CASE ~is_online
      BY <1>11, <2>2 DEF AgentStarts, ComesOnline, MarkSeen, apiVars
  <2> QED BY <2>1, <2>2
<1>10. CASE UNCHANGED vars
    BY <1>10 DEF vars, agentVars, apiVars, rowVars, historyVars
<1> QED BY <1>1, <1>2, <1>3, <1>4, <1>5, <1>6, <1>7, <1>8, <1>9, <1>10, <1>11 DEF Next

-----------------------------------------------------------------------------
(* Steps of a call leave its process; a restart frees the calls of the     *)
(* process, and breaks the one awaited if it is one of them.               *)
LEMMA ServedNext ==
    ASSUME SessionTyped, HandledSomewhere, AwaitedIsServed, [Next]_vars
    PROVE  HandledSomewhere' /\ AwaitedIsServed'
<1> DEFINE Goal == HandledSomewhere' /\ AwaitedIsServed'
<1> USE DEF SessionTyped, HandledSomewhere, AwaitedIsServed
<1>0. Free.at = "free" /\ NoCall \notin Calls
    BY SessionAssumption DEF Free
<1>1. ASSUME NEW c \in Calls, SendHeartbeat(c) PROVE Goal
    BY <1>0, <1>1 DEF SendHeartbeat
<1>2. ASSUME NEW c \in Calls, HeartbeatAnswered(c) \/ Abandon(c) PROVE Goal
    BY <1>0, <1>2 DEF HeartbeatAnswered, Abandon, agentVars
<1>3. ASSUME NEW c \in Calls, UpdateHeartbeat(c) \/ Respond(c) PROVE Goal
  <2>1. call'[c].server = call[c].server /\ call[c].at # "free"
      BY <1>3 DEF UpdateHeartbeat, Respond, Call
  <2>2. \A d \in Calls : d # c => call'[d] = call[d]
      BY <1>3 DEF UpdateHeartbeat, Respond
  <2> QED BY <1>3, <2>1, <2>2 DEF UpdateHeartbeat, Respond, agentVars
<1>4. ASSUME NEW c \in Calls, ConsumePayloads(c) PROVE Goal
  <2>1. call'[c].server = call[c].server /\ call[c].at # "free"
      BY <1>4 DEF ConsumePayloads
  <2>2. \A d \in Calls : d # c => call'[d] = call[d]
      BY <1>4 DEF ConsumePayloads
  <2> QED BY <1>4, <2>1, <2>2 DEF ConsumePayloads, agentVars
<1>5. ASSUME NEW c \in Calls, HandlerFails(c) PROVE Goal
  <2>1. FailureAnswer(c).server = call[c].server
      BY DEF FailureAnswer, Free
  <2> QED BY <1>5, <2>1 DEF HandlerFails, agentVars
<1>6. ASSUME NEW c \in Calls, LoseRequest(c) \/ GiveUp(c) PROVE Goal
    BY <1>0, <1>6 DEF LoseRequest, GiveUp, HeartbeatFailed, apiVars
<1>7. ASSUME NEW s \in Servers, ApiRestart(s) PROVE Goal
    BY <1>0, <1>7 DEF ApiRestart, CallsBreak, HeartbeatFailed, agentVars
<1>8. CASE \/ Screen \/ AgentDies \/ AgentStarts \/ Tick \/ UNCHANGED vars
           \/ \E s \in Servers : QueueWarning(s) \/ QueueDisconnect(s)
           \/ \E w \in Workers : Check(w) \/ WorkerCrash(w)
    BY <1>0, <1>8
    DEF Screen, CloseLock, GraceOver, CountdownOver, AgentDies, AgentStarts, Tick, vars, Check,
        QueueWarning, QueueDisconnect, SelectTimedOut, MarkOffline, RaiseTimeout, WorkerCrash,
        agentVars, apiVars
<1> QED BY <1>1, <1>2, <1>3, <1>4, <1>5, <1>6, <1>7, <1>8 DEF Next, Handle, Network

(* Coming online adds to what every worker owes, a report takes one off    *)
(* and marking offline ends what is_online asks for.                       *)
LEMMA OwedNext ==
    ASSUME SessionTyped, ReportsOwed, [Next]_vars
    PROVE  ReportsOwed'
<1> USE DEF SessionTyped, ReportsOwed
<1>1. CASE AgentStarts \/ \E c \in Calls : UpdateHeartbeat(c)
  <2>1. check' = check /\ ComesOnline
      BY <1>1 DEF AgentStarts, UpdateHeartbeat
  <2>2. CASE is_online
      BY <2>1, <2>2 DEF ComesOnline, MarkSeen
  <2>3. CASE ~is_online
      BY <2>1, <2>3 DEF ComesOnline, MarkSeen
  <2> QED BY <2>2, <2>3
<1>2. ASSUME NEW w \in Workers, SelectTimedOut(w) PROVE ReportsOwed'
    BY <1>2 DEF SelectTimedOut, TimedOut, rowVars, historyVars
<1>3. ASSUME NEW w \in Workers, MarkOffline(w) PROVE ReportsOwed'
    BY <1>3 DEF MarkOffline, SetOffline, historyVars
<1>4. ASSUME NEW w \in Workers, RaiseTimeout(w) PROVE ReportsOwed'
    BY <1>4 DEF RaiseTimeout, rowVars
<1>5. ASSUME NEW w \in Workers, WorkerCrash(w) PROVE ReportsOwed'
    BY <1>5 DEF WorkerCrash, rowVars, historyVars
<1>6. ASSUME UNCHANGED <<is_online, check, owed>> PROVE ReportsOwed'
    BY <1>6
<1>7. CASE \/ Screen \/ AgentDies \/ Tick \/ UNCHANGED vars
           \/ \E s \in Servers : QueueWarning(s) \/ QueueDisconnect(s) \/ ApiRestart(s)
    BY <1>6, <1>7
    DEF Screen, CloseLock, GraceOver, CountdownOver, AgentDies, Tick, vars,
        QueueWarning, QueueDisconnect, ApiRestart, rowVars, historyVars
<1>8. ASSUME NEW c \in Calls, \/ SendHeartbeat(c) \/ HeartbeatAnswered(c) \/ Network(c)
                              \/ ConsumePayloads(c) \/ Respond(c) \/ Abandon(c)
      PROVE  ReportsOwed'
    BY <1>6, <1>8
    DEF SendHeartbeat, HeartbeatAnswered, Network, HandlerFails, LoseRequest, GiveUp,
        ConsumePayloads, Respond, Abandon, rowVars, historyVars
<1> QED BY <1>1, <1>2, <1>3, <1>4, <1>5, <1>7, <1>8 DEF Next, Handle, Check

(* A warned worker is one that marked offline and has not crashed.         *)
LEMMA FlagNext ==
    ASSUME SessionTyped, FlagIsComing, [Next]_vars, "worker" \notin Faults
    PROVE  FlagIsComing'
<1> USE DEF SessionTyped, FlagIsComing
<1>1. CASE AgentStarts \/ \E c \in Calls : UpdateHeartbeat(c)
    BY <1>1 DEF AgentStarts, UpdateHeartbeat, ComesOnline, MarkSeen
<1>2. ASSUME NEW w \in Workers, SelectTimedOut(w) PROVE FlagIsComing'
  <2>1. \A v \in Workers : check[v] = "marked" => check'[v] = "marked"
      BY <1>2 DEF SelectTimedOut
  <2> QED BY <1>2, <2>1 DEF SelectTimedOut, rowVars, historyVars
<1>3. ASSUME NEW w \in Workers, MarkOffline(w) PROVE FlagIsComing'
  <2>1. check'[w] = "marked"
      BY <1>3 DEF MarkOffline
  <2> QED BY <2>1
<1>4. ASSUME NEW w \in Workers, RaiseTimeout(w) PROVE FlagIsComing'
    BY <1>4 DEF RaiseTimeout, RaiseIncident
<1>5. ASSUME NEW w \in Workers, WorkerCrash(w) PROVE FlagIsComing'
    BY <1>5 DEF WorkerCrash, Strikes
<1>6. ASSUME UNCHANGED <<is_online, check, unreported>> PROVE FlagIsComing'
    BY <1>6
<1>7. CASE \/ Screen \/ AgentDies \/ Tick \/ UNCHANGED vars
           \/ \E s \in Servers : QueueWarning(s) \/ QueueDisconnect(s) \/ ApiRestart(s)
    BY <1>6, <1>7
    DEF Screen, CloseLock, GraceOver, CountdownOver, AgentDies, Tick, vars,
        QueueWarning, QueueDisconnect, ApiRestart, rowVars, historyVars
<1>8. ASSUME NEW c \in Calls, \/ SendHeartbeat(c) \/ HeartbeatAnswered(c) \/ Network(c)
                              \/ ConsumePayloads(c) \/ Respond(c) \/ Abandon(c)
      PROVE  FlagIsComing'
    BY <1>6, <1>8
    DEF SendHeartbeat, HeartbeatAnswered, Network, HandlerFails, LoseRequest, GiveUp,
        ConsumePayloads, Respond, Abandon, rowVars, historyVars
<1> QED BY <1>1, <1>2, <1>3, <1>4, <1>5, <1>7, <1>8 DEF Next, Handle, Check

-----------------------------------------------------------------------------
LEMMA PayloadsFinite ==
    ASSUME SessionTyped
    PROVE  /\ IsFiniteSet(Carrying) /\ Cardinality(Carrying) \in Nat
           /\ IsFiniteSet(Pending) /\ Cardinality(Pending) \in Nat
<1>1. Carrying \subseteq Calls /\ Pending \subseteq Servers
    BY DEF Carrying, Pending
<1> QED BY <1>1, SessionAssumption, FS_Subset, FS_CardinalityType

LEMMA FewerLocks ==
    ASSUME SessionTyped, LocksAreQueued, queued' = queued, shown' = shown,
           Carrying' \subseteq Carrying, Pending' \subseteq Pending
    PROVE  LocksAreQueued'
<1>1. /\ Cardinality(Carrying') <= Cardinality(Carrying) /\ Cardinality(Carrying') \in Nat
      /\ Cardinality(Pending') <= Cardinality(Pending) /\ Cardinality(Pending') \in Nat
    BY PayloadsFinite, FS_Subset, FS_CardinalityType
<1> QED BY <1>1, PayloadsFinite DEF SessionTyped, LocksAreQueued

(* A warning moves from a process to an answer, and from there to a lock.  *)
LEMMA LocksNext ==
    ASSUME SessionTyped, SessionTyped', HandledSomewhere, LocksAreQueued, [Next]_vars
    PROVE  LocksAreQueued'
<1>0. /\ call \in [Calls -> Call] /\ pending_warning \in [Servers -> BOOLEAN]
      /\ queued \in Nat /\ shown \in Nat /\ ~Free.warn
    BY DEF SessionTyped, Free
<1>1. ASSUME NEW c \in Calls, ConsumePayloads(c) PROVE LocksAreQueued'
  <2> DEFINE s == call[c].server
  <2>1. /\ s \in Servers /\ UNCHANGED <<queued, shown>>
        /\ call'[c].warn = pending_warning[s] /\ \A d \in Calls : d # c => call'[d] = call[d]
        /\ Pending' = Pending \ {s}
      BY <1>0, <1>1 DEF ConsumePayloads, HandledSomewhere, ClearQueued, Pending, historyVars
  <2> HIDE DEF s
  <2>2. CASE pending_warning[s]
    <3>1. s \in Pending /\ Carrying' \subseteq Carrying \union {c}
        BY <2>1, <2>2 DEF Pending, Carrying
    <3>2. Cardinality(Pending') = Cardinality(Pending) - 1
        BY <2>1, <3>1, PayloadsFinite, FS_RemoveElement
    <3>3. /\ IsFiniteSet(Carrying \union {c})
          /\ Cardinality(Carrying \union {c}) <= Cardinality(Carrying) + 1
          /\ Cardinality(Carrying \union {c}) \in Nat
        BY PayloadsFinite, FS_AddElement, FS_CardinalityType
    <3>4. Cardinality(Carrying') <= Cardinality(Carrying \union {c}) /\ Cardinality(Carrying') \in Nat
        BY <3>1, <3>3, FS_Subset, FS_CardinalityType
    <3> QED BY <1>0, <2>1, <3>2, <3>3, <3>4, PayloadsFinite DEF LocksAreQueued
  <2>3. CASE ~pending_warning[s]
    <3>1. Carrying' \subseteq Carrying /\ Pending' \subseteq Pending
        BY <2>1, <2>3 DEF Carrying
    <3> QED BY <2>1, <3>1, FewerLocks
  <2> QED BY <2>2, <2>3
<1>2. ASSUME NEW c \in Calls, HeartbeatAnswered(c) PROVE LocksAreQueued'
  <2>1. /\ UNCHANGED <<queued, pending_warning>> /\ Carrying' = Carrying \ {c}
      BY <1>0, <1>2 DEF HeartbeatAnswered, Carrying
  <2>2. Pending' = Pending
      BY <2>1 DEF Pending
  <2>3. CASE shown' = shown
      BY <2>1, <2>2, <2>3, FewerLocks
  <2>4. CASE call[c].warn /\ shown' = shown + 1
    <3>1. c \in Carrying
        BY <2>4 DEF Carrying
    <3>2. Cardinality(Carrying') = Cardinality(Carrying) - 1
        BY <2>1, <3>1, PayloadsFinite, FS_RemoveElement
    <3> QED BY <1>0, <2>1, <2>2, <2>4, <3>2, PayloadsFinite DEF LocksAreQueued
  <2> QED BY <1>2, <2>3, <2>4, AnswerShows
<1>3. ASSUME NEW s \in Servers, QueueWarning(s) PROVE LocksAreQueued'
  <2>1. /\ queued' = queued + 1 /\ shown' = shown /\ Pending' = Pending \union {s}
      BY <1>0, <1>3 DEF QueueWarning, Pending
  <2>2. Carrying' = Carrying
      BY <1>3 DEF QueueWarning, Carrying
  <2>3. /\ IsFiniteSet(Pending \union {s})
        /\ Cardinality(Pending \union {s}) <= Cardinality(Pending) + 1
        /\ Cardinality(Pending \union {s}) \in Nat
    <3> DEFINE P == Pending
    <3>1. IsFiniteSet(P) /\ Cardinality(P) \in Nat
        BY PayloadsFinite
    <3> HIDE DEF P
    <3>2. /\ IsFiniteSet(P \union {s})
          /\ Cardinality(P \union {s}) = IF s \in P THEN Cardinality(P) ELSE Cardinality(P) + 1
        BY <3>1, FS_AddElement
    <3> QED BY <3>1, <3>2 DEF P
  <2> QED BY <1>0, <2>1, <2>2, <2>3, PayloadsFinite DEF LocksAreQueued
<1>4. ASSUME UNCHANGED <<queued, shown>>, \A d \in Calls : call'[d].warn => call[d].warn,
             \A s \in Servers : pending_warning'[s] => pending_warning[s]
      PROVE  LocksAreQueued'
  <2>1. Carrying' \subseteq Carrying /\ Pending' \subseteq Pending
      BY <1>4 DEF Carrying, Pending
  <2> QED BY <1>4, <2>1, FewerLocks
<1>5. ASSUME NEW c \in Calls, \/ SendHeartbeat(c) \/ UpdateHeartbeat(c) \/ Respond(c)
                              \/ Abandon(c) \/ LoseRequest(c) \/ GiveUp(c)
      PROVE  LocksAreQueued'
  <2>1. CASE SendHeartbeat(c) \/ UpdateHeartbeat(c) \/ Respond(c)
    <3>1. call'[c].warn = call[c].warn
        BY <1>0, <2>1 DEF SendHeartbeat, UpdateHeartbeat, Respond, Call
    <3>2. \A d \in Calls : d # c => call'[d] = call[d]
        BY <1>0, <2>1 DEF SendHeartbeat, UpdateHeartbeat, Respond
    <3>3. UNCHANGED <<queued, shown, pending_warning>>
        BY <2>1 DEF SendHeartbeat, UpdateHeartbeat, Respond, historyVars
    <3>4. Carrying' \subseteq Carrying /\ Pending' = Pending
        BY <3>1, <3>2, <3>3 DEF Carrying, Pending
    <3> QED BY <3>3, <3>4, FewerLocks
  <2>2. CASE Abandon(c) \/ LoseRequest(c)
    <3>1. Carrying' \subseteq Carrying /\ Pending' = Pending /\ UNCHANGED <<queued, shown>>
        BY <1>0, <2>2 DEF Abandon, LoseRequest, Carrying, Pending, historyVars
    <3> QED BY <3>1, FewerLocks
  <2>3. CASE GiveUp(c)
    <3>1. Carrying' = Carrying /\ Pending' = Pending /\ UNCHANGED <<queued, shown>>
        BY <2>3 DEF GiveUp, Carrying, Pending, apiVars, historyVars
    <3> QED BY <3>1, FewerLocks
  <2> QED BY <1>5, <2>1, <2>2, <2>3
<1>6. ASSUME NEW c \in Calls, HandlerFails(c) PROVE LocksAreQueued'
  <2>1. ~FailureAnswer(c).warn
      BY DEF FailureAnswer, Free
  <2> QED BY <1>0, <1>4, <1>6, <2>1 DEF HandlerFails, historyVars
<1>7. ASSUME NEW s \in Servers, ApiRestart(s) PROVE LocksAreQueued'
    BY <1>0, <1>4, <1>7 DEF ApiRestart, ClearQueued, historyVars
<1>8. CASE \/ Screen \/ AgentDies \/ AgentStarts \/ Tick \/ UNCHANGED vars
           \/ \E s \in Servers : QueueDisconnect(s)
           \/ \E w \in Workers : Check(w) \/ WorkerCrash(w)
    BY <1>4, <1>8
    DEF Screen, CloseLock, GraceOver, CountdownOver, AgentDies, AgentStarts, Tick, vars, Check,
        QueueDisconnect, SelectTimedOut, MarkOffline, RaiseTimeout, WorkerCrash,
        apiVars, historyVars
<1> QED BY <1>1, <1>2, <1>3, <1>5, <1>6, <1>7, <1>8 DEF Next, Handle, Network

-----------------------------------------------------------------------------
LEMMA SessionInvariant ==
    Spec => [](SessionTyped /\ HandledSomewhere /\ AwaitedIsServed /\ LocksAreQueued /\ ReportsOwed)
<1> DEFINE Inv == SessionTyped /\ HandledSomewhere /\ AwaitedIsServed /\ LocksAreQueued /\ ReportsOwed
<1>1. Init => Inv
    BY SessionInit
<1>2. Inv /\ [Next]_vars => Inv'
    BY SessionTypedNext, ServedNext, LocksNext, OwedNext
<1> QED BY <1>1, <1>2, PTL DEF Spec

(***************************************************************************)
(* The call that the heartbeat loop awaits is in progress, for any number  *)
(* of processes and faults (heartbeat.go:100-107, client.go:147-172).      *)
(***************************************************************************)
THEOREM AwaitedCallsAreServed == Spec => []AwaitedIsServed
BY SessionInvariant, PTL

(***************************************************************************)
(* Each screen lock answers a warning of its own, for any number of calls  *)
(* that overlap and of warnings (telemetry.py:32-38, server.py:143).       *)
(***************************************************************************)
THEOREM LocksComeFromWarnings == Spec => []LocksAreQueued
BY SessionInvariant, PTL

(***************************************************************************)
(* A worker raises one HEARTBEAT_TIMEOUT at most each time the contestant  *)
(* came online, for any number of workers (monitoring.py:42-69).           *)
(***************************************************************************)
THEOREM OneTimeoutPerSession == Spec => TimeoutOncePerSession
<1>1. ReportsOwed => \A w \in Workers : RaiseTimeout(w) => owed[w] > 0
    BY DEF ReportsOwed, RaiseTimeout
<1> QED BY <1>1, SessionInvariant, PTL DEF TimeoutOncePerSession, Spec

(***************************************************************************)
(* While workers do not die between their two commits, a contestant that   *)
(* went offline is flagged, for any number of workers (monitoring.py:60).  *)
(***************************************************************************)
THEOREM SilenceIsFlaggedInTheEnd ==
    ASSUME "worker" \notin Faults
    PROVE  Spec => []SilenceIsFlagged
<1>1. SessionTyped /\ HandledSomewhere /\ FlagIsComing /\ [Next]_vars => FlagIsComing'
    BY FlagNext
<1>2. FlagIsComing => SilenceIsFlagged
    BY DEF FlagIsComing, SilenceIsFlagged
<1> QED BY <1>1, <1>2, SessionInit, SessionInvariant, PTL DEF Spec
=============================================================================
