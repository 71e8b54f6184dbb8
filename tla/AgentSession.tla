---------------------------- MODULE AgentSession ----------------------------
(***************************************************************************)
(* One contestant's session: the agent's heartbeat loop and screen lock    *)
(* (agent/internal/heartbeat/heartbeat.go, agent/internal/gui/app.go), the *)
(* gRPC Heartbeat handler (server/app/grpc/server.py), the payloads that   *)
(* proctors queue for the agent (telemetry.py, contestants.py) and the     *)
(* Celery task that looks for silent agents (tasks/monitoring.py).         *)
(*                                                                         *)
(* A heartbeat is a call: a coroutine in the API process whose awaits are  *)
(* steps, with a request and a response that the network can lose.  The    *)
(* agent has one call outstanding, but when it has given one up the server *)
(* may still be at work on it.  The contestant is enrolled in an active    *)
(* competition throughout.  Time is counted in heartbeat intervals.        *)
(*                                                                         *)
(* The production image starts uvicorn with four worker processes          *)
(* (server/Dockerfile), the development setup starts one.  Each imports    *)
(* the application, runs a gRPC server of its own and has its own copy of  *)
(* TelemetryService's dictionaries; the agent's connection belongs to one  *)
(* of them, and a proctor's request goes to any.                           *)
(***************************************************************************)
EXTENDS Naturals, FiniteSets

CONSTANTS
    Calls,        \* heartbeat RPCs that can be in progress at once
    NoCall,       \* the agent awaits no answer
    Servers,      \* API processes
    Workers,      \* Celery worker processes
    Timeout,      \* AGENT_HEARTBEAT_TIMEOUT_SECONDS, in heartbeat intervals (3)
    Faults,       \* bound: the faults a run explores
    MaxFaults,    \* bound on their number
    MaxQueued     \* bound on the payloads that proctors queue

FaultKinds == {"request", "response", "policy", "restart", "worker", "agent"}

ASSUME SessionAssumption ==
    /\ IsFiniteSet(Calls) /\ NoCall \notin Calls
    /\ IsFiniteSet(Servers) /\ Servers # {}
    /\ IsFiniteSet(Workers)
    /\ Timeout \in Nat
    /\ Faults \subseteq FaultKinds /\ MaxFaults \in Nat
    /\ MaxQueued \in Nat

VARIABLES
    alive,        \* the agent process runs
    waiting,      \* the call the agent awaits, or NoCall
    home,         \* the API process that its connection goes to
    lock,         \* "off", "on" (isLockActive) or "grace" (30 s after it closed)
    countdown,    \* warningOn: the GUI's countdown runs
    call,         \* call[c]: where the handler of c is, in which process, its payloads
    pending_warning, pending_disconnect,   \* TelemetryService's, in each process
    is_online,    \* the contestant's columns: is_online, and
    silent,       \* the whole intervals since last_seen
    check,        \* check[w]: where worker w's timeout check is
    queued,       \* warnings queued so far
    shown,        \* screen locks shown so far
    unreported,   \* the contestant came online, and no timeout was raised since
    owed,         \* owed[w]: times it came online less timeouts w raised, at most 2
    faults        \* how many faults have struck

agentVars   == <<alive, waiting, home, lock, countdown>>
apiVars     == <<call, pending_warning, pending_disconnect>>
rowVars     == <<is_online, silent>>
historyVars == <<queued, shown, unreported, owed>>
vars == <<agentVars, apiVars, rowVars, check, historyVars, faults>>

Free == [at |-> "free", server |-> NoCall, warn |-> FALSE, disconnect |-> FALSE]

Strikes(kind) ==
    /\ kind \in Faults /\ faults < MaxFaults
    /\ faults' = faults + 1

-----------------------------------------------------------------------------
(***************************************************************************)
(* The agent's heartbeat loop.                                             *)
(***************************************************************************)

(* The ticker fires; the loop is sequential, so no call is outstanding.    *)
SendHeartbeat(c) ==
    /\ alive /\ waiting = NoCall
    /\ call[c] = Free
    /\ call' = [call EXCEPT ![c].at = "request", ![c].server = home]
    /\ waiting' = c
    /\ UNCHANGED <<alive, home, lock, countdown, pending_warning, pending_disconnect,
                   rowVars, check, historyVars, faults>>

(* The RPC returns an error: the agent counts it and waits for the ticker; *)
(* the channel connects again, to any of the processes.                    *)
HeartbeatFailed ==
    /\ waiting' = NoCall
    /\ home' \in Servers
    /\ UNCHANGED <<alive, lock, countdown>>

LockAllowed == lock = "off"

DeployQuietly ==                     \* seeded fault: nothing happens during the grace period
    IF LockAllowed
    THEN lock' = "on" /\ shown' = shown + 1 /\ UNCHANGED countdown
    ELSE UNCHANGED <<lock, countdown, shown>>

DeployWarning ==
    IF LockAllowed
    THEN lock' = "on" /\ shown' = shown + 1 /\ UNCHANGED countdown
    ELSE countdown' = TRUE /\ UNCHANGED <<lock, shown>>

(* The answer arrives.  acknowledged is not looked at: any answer is a     *)
(* success.  A forced disconnect exits the process.                        *)
HeartbeatAnswered(c) ==
    /\ alive /\ waiting = c /\ call[c].at = "response"
    /\ waiting' = NoCall
    /\ IF call[c].disconnect
       THEN /\ alive' = FALSE /\ lock' = "off" /\ countdown' = FALSE
            /\ UNCHANGED shown
       ELSE /\ UNCHANGED alive
            /\ IF call[c].warn THEN DeployWarning
               ELSE UNCHANGED <<lock, shown, countdown>>
    /\ call' = [call EXCEPT ![c] = Free]
    /\ UNCHANGED <<home, pending_warning, pending_disconnect, rowVars, check, queued,
                   unreported, owed, faults>>

(* The contestant acknowledges and waits, or kills the overlay 50 times.   *)
CloseLock ==
    /\ alive /\ lock = "on"
    /\ lock' = "grace" /\ countdown' = TRUE
    /\ UNCHANGED <<alive, waiting, home, apiVars, rowVars, check, historyVars, faults>>

GraceOver ==
    /\ alive /\ lock = "grace"
    /\ lock' = "off"
    /\ UNCHANGED <<alive, waiting, home, countdown, apiVars, rowVars, check, historyVars, faults>>

CountdownOver ==
    /\ alive /\ countdown
    /\ countdown' = FALSE
    /\ UNCHANGED <<alive, waiting, home, lock, apiVars, rowVars, check, historyVars, faults>>

-----------------------------------------------------------------------------
(***************************************************************************)
(* The Heartbeat handler.                                                  *)
(***************************************************************************)

SeenOnly == silent' = 0 /\ UNCHANGED is_online     \* seeded fault: the mark is left as it is

MarkSeen == silent' = 0 /\ is_online' = TRUE

ComesOnline ==
    /\ MarkSeen
    /\ IF is_online THEN UNCHANGED <<unreported, owed>>
       ELSE /\ unreported' = TRUE
            /\ owed' = [w \in Workers |-> IF owed[w] < 2 THEN owed[w] + 1 ELSE 2]

(* ingest_heartbeat and update_heartbeat: last_seen = now, is_online.      *)
UpdateHeartbeat(c) ==
    /\ call[c].at = "request"
    /\ ComesOnline
    /\ call' = [call EXCEPT ![c].at = "recalculate"]
    /\ UNCHANGED <<agentVars, pending_warning, pending_disconnect, check, queued, shown,
                   faults>>

KeepQueued(s) == UNCHANGED <<pending_warning, pending_disconnect>>  \* seeded fault: read, not consumed

ClearQueued(s) ==
    /\ pending_warning' = [pending_warning EXCEPT ![s] = FALSE]
    /\ pending_disconnect' = [pending_disconnect EXCEPT ![s] = FALSE]

(* recalculate_score is done: consume_warning and consume_disconnect.      *)
ConsumePayloads(c) ==
    /\ call[c].at = "recalculate"
    /\ LET s == call[c].server
       IN  /\ call' = [call EXCEPT ![c] = [at |-> "policy", server |-> s,
                                           warn |-> pending_warning[s],
                                           disconnect |-> pending_disconnect[s]]]
           /\ ClearQueued(s)
    /\ UNCHANGED <<agentVars, rowVars, check, historyVars, faults>>

(* The policy is read and the response is sent.                            *)
Respond(c) ==
    /\ call[c].at = "policy"
    /\ call' = [call EXCEPT ![c].at = "response"]
    /\ UNCHANGED <<agentVars, pending_warning, pending_disconnect, rowVars, check, historyVars, faults>>

FailureAnswer(c) == [Free EXCEPT !.at = "response", !.server = call[c].server]

(* The database fails in the recalculation or in the policy query: the     *)
(* handler answers acknowledged = False, without the payloads.             *)
HandlerFails(c) ==
    /\ call[c].at \in {"recalculate", "policy"}
    /\ Strikes("policy")
    /\ call' = [call EXCEPT ![c] = FailureAnswer(c)]
    /\ UNCHANGED <<agentVars, pending_warning, pending_disconnect, rowVars, check, historyVars>>

(* The request is lost.                                                    *)
LoseRequest(c) ==
    /\ call[c].at = "request" /\ waiting = c
    /\ Strikes("request")
    /\ HeartbeatFailed
    /\ call' = [call EXCEPT ![c] = Free]
    /\ UNCHANGED <<pending_warning, pending_disconnect, rowVars, check, historyVars>>

(* The connection breaks while the server is at work: the agent gives the  *)
(* call up, the handler goes on.                                           *)
GiveUp(c) ==
    /\ call[c].at \in {"request", "recalculate", "policy", "response"} /\ waiting = c
    /\ Strikes("response")
    /\ HeartbeatFailed
    /\ UNCHANGED <<apiVars, rowVars, check, historyVars>>

(* Nobody waits for the call any more: once the server learns of it,       *)
(* grpc.aio cancels the handler at whatever await it has reached, or drops *)
(* its response.                                                           *)
Abandon(c) ==
    /\ call[c] # Free /\ waiting # c
    /\ call' = [call EXCEPT ![c] = Free]
    /\ UNCHANGED <<agentVars, pending_warning, pending_disconnect, rowVars, check, historyVars, faults>>

Unnoticed(s) == UNCHANGED agentVars     \* seeded fault: the agent goes on waiting

CallsBreak(s) == IF home = s THEN HeartbeatFailed ELSE UNCHANGED agentVars

(* An API process restarts: its coroutines and dictionaries are gone.      *)
ApiRestart(s) ==
    /\ Strikes("restart")
    /\ call' = [c \in Calls |-> IF call[c].server = s THEN Free ELSE call[c]]
    /\ ClearQueued(s)
    /\ CallsBreak(s)
    /\ UNCHANGED <<rowVars, check, historyVars>>

-----------------------------------------------------------------------------
(***************************************************************************)
(* Proctors, and telemetry of a heavy indicator, queue payloads, in the    *)
(* process that their request or report reached.                           *)
(***************************************************************************)
QueueWarning(s) ==
    /\ queued < MaxQueued
    /\ pending_warning' = [pending_warning EXCEPT ![s] = TRUE]
    /\ queued' = queued + 1
    /\ UNCHANGED <<agentVars, call, pending_disconnect, rowVars, check, shown, unreported,
                   owed, faults>>

QueueDisconnect(s) ==
    /\ MaxQueued > 0 /\ ~pending_disconnect[s]
    /\ pending_disconnect' = [pending_disconnect EXCEPT ![s] = TRUE]
    /\ UNCHANGED <<agentVars, call, pending_warning, rowVars, check, historyVars, faults>>

-----------------------------------------------------------------------------
(***************************************************************************)
(* check_heartbeat_timeouts: select, mark offline and commit, raise.       *)
(***************************************************************************)
AnyRow == silent > Timeout           \* seeded fault: offline contestants are selected too

TimedOut == is_online /\ silent > Timeout

SelectTimedOut(w) ==
    /\ check[w] = "idle" /\ TimedOut
    /\ check' = [check EXCEPT ![w] = "selected"]
    /\ UNCHANGED <<agentVars, apiVars, rowVars, historyVars, faults>>

NotCommitted == UNCHANGED is_online  \* seeded fault: the session closes uncommitted

SetOffline == is_online' = FALSE

MarkOffline(w) ==
    /\ check[w] = "selected"
    /\ SetOffline
    /\ check' = [check EXCEPT ![w] = "marked"]
    /\ UNCHANGED <<agentVars, apiVars, silent, historyVars, faults>>

RaiseNothing == UNCHANGED unreported    \* seeded fault: marked offline, not flagged

RaiseIncident == unreported' = FALSE

(* process_telemetry_and_score with HEARTBEAT_TIMEOUT.                     *)
RaiseTimeout(w) ==
    /\ check[w] = "marked"
    /\ RaiseIncident
    /\ owed' = [owed EXCEPT ![w] = IF @ > 0 THEN @ - 1 ELSE 0]
    /\ check' = [check EXCEPT ![w] = "idle"]
    /\ UNCHANGED <<agentVars, apiVars, rowVars, queued, shown, faults>>

(* The worker dies; the task is delivered again, as a new run.             *)
WorkerCrash(w) ==
    /\ check[w] # "idle"
    /\ Strikes("worker")
    /\ check' = [check EXCEPT ![w] = "idle"]
    /\ UNCHANGED <<agentVars, apiVars, rowVars, historyVars>>

-----------------------------------------------------------------------------
(* The agent is killed, or the machine is; it is started again.            *)
AgentDies ==
    /\ alive
    /\ Strikes("agent")
    /\ alive' = FALSE /\ waiting' = NoCall
    /\ lock' = "off" /\ countdown' = FALSE
    /\ UNCHANGED <<home, apiVars, rowVars, check, historyVars>>

(* It enrols again before its loop begins, which marks it seen, too.       *)
AgentStarts ==
    /\ "agent" \in Faults /\ ~alive
    /\ alive' = TRUE /\ home' \in Servers
    /\ ComesOnline
    /\ UNCHANGED <<waiting, lock, countdown, apiVars, check, queued, shown, faults>>

(* An interval passes.                                                     *)
Tick ==
    /\ silent <= Timeout
    /\ silent' = silent + 1
    /\ UNCHANGED <<agentVars, apiVars, is_online, check, historyVars, faults>>

(* The agent has just enrolled.                                            *)
Init ==
    /\ alive = TRUE /\ waiting = NoCall /\ home \in Servers
    /\ lock = "off" /\ countdown = FALSE
    /\ call = [c \in Calls |-> Free]
    /\ pending_warning = [s \in Servers |-> FALSE]
    /\ pending_disconnect = [s \in Servers |-> FALSE]
    /\ is_online = TRUE /\ silent = 0
    /\ check = [w \in Workers |-> "idle"]
    /\ queued = 0 /\ shown = 0 /\ unreported = TRUE
    /\ owed = [w \in Workers |-> 1]
    /\ faults = 0

Handle(c) == UpdateHeartbeat(c) \/ ConsumePayloads(c) \/ Respond(c) \/ Abandon(c)

Network(c) == HandlerFails(c) \/ LoseRequest(c) \/ GiveUp(c)

Screen == CloseLock \/ GraceOver \/ CountdownOver

Check(w) == SelectTimedOut(w) \/ MarkOffline(w) \/ RaiseTimeout(w)

Next ==
    \/ \E c \in Calls : SendHeartbeat(c) \/ HeartbeatAnswered(c) \/ Handle(c) \/ Network(c)
    \/ Screen
    \/ \E s \in Servers : QueueWarning(s) \/ QueueDisconnect(s) \/ ApiRestart(s)
    \/ \E w \in Workers : Check(w) \/ WorkerCrash(w)
    \/ AgentDies \/ AgentStarts
    \/ Tick

Spec == Init /\ [][Next]_vars

(***************************************************************************)
(* The agent's ticker, the event loop, beat and its workers, and time run  *)
(* on.  Nothing is assumed of proctors, of a restarted agent, or of the    *)
(* contestant who has to close the lock.                                   *)
(***************************************************************************)
Fairness ==
    /\ WF_vars(\E c \in Calls : SendHeartbeat(c))
    /\ \A c \in Calls : WF_vars(HeartbeatAnswered(c)) /\ WF_vars(Handle(c))
    /\ \A w \in Workers : WF_vars(Check(w))
    /\ WF_vars(Tick)

FairSpec == Spec /\ Fairness

-----------------------------------------------------------------------------
(***************************************************************************)
(* The heartbeat loop makes one call at a time and sets no deadline        *)
(* (heartbeat.go:100-107, client.go:147-172): if it ever awaited a call    *)
(* that nobody serves, it would never send a heartbeat again.  Whatever is *)
(* lost, and whichever side restarts, the awaited call is in progress.     *)
(***************************************************************************)
AwaitedIsServed == waiting # NoCall => alive /\ call[waiting].server = home

Carrying == {c \in Calls : call[c].warn}
Pending == {s \in Servers : pending_warning[s]}

(***************************************************************************)
(* Every screen lock shown answers a warning of its own: payloads are      *)
(* consumed at most once, however calls overlap, and are never invented    *)
(* (telemetry.py:32-38, server.py:143, heartbeat.go:137-147).              *)
(***************************************************************************)
LocksAreQueued ==
    shown + Cardinality(Carrying) + Cardinality(Pending) <= queued

(***************************************************************************)
(* A worker raises at most one HEARTBEAT_TIMEOUT for each time the         *)
(* contestant came online: going silent is reported once, not every 15 s   *)
(* (monitoring.py:42-69).                                                  *)
(***************************************************************************)
TimeoutOncePerSession == [][\A w \in Workers : RaiseTimeout(w) => owed[w] > 0]_vars

(***************************************************************************)
(* "A HEARTBEAT_TIMEOUT incident is auto-generated" (docs/proctor-guide.md *)
(* :279): when no check is at work, a contestant that went offline has     *)
(* been flagged since it was last online.                                  *)
(* The mark and the incident are separate commits (monitoring.py:60-69): a *)
(* worker that dies between them loses the incident for good, since the    *)
(* contestant is no longer selected.                                       *)
(***************************************************************************)
SilenceIsFlagged == (\A w \in Workers : check[w] = "idle") => (unreported => is_online)

(***************************************************************************)
(* An agent that runs on is seen: whatever calls are lost, and even if a   *)
(* stale timeout check marks it offline, it is shown online again          *)
(* (competition.py:240-252).                                               *)
(***************************************************************************)
RunningIsSeen == <>[]alive => []<>is_online

(***************************************************************************)
(* An agent that is gone is found out: late heartbeats notwithstanding,    *)
(* it ends up offline (README.md:182, monitoring.py:41-61).                *)
(***************************************************************************)
GoneIsFoundOut == <>[](~alive) => <>[](~is_online)

(* Calls no longer break, and none that broke is still in progress.        *)
Calm == faults = MaxFaults /\ \A c \in Calls : call[c] # Free => waiting = c

(***************************************************************************)
(* "Queue a screen-lock warning payload for the contestant's agent"        *)
(* (contestants.py:212): a warning that is queued when calls no longer     *)
(* break reaches the contestant, as a lock or a countdown, unless the      *)
(* agent is gone.  It does while there is one API process; where there are *)
(* more, the request may have reached another one than the agent is        *)
(* connected to (telemetry.py:25-38), and then nobody ever takes it.       *)
(***************************************************************************)
WarningArrives ==
    \A s \in Servers :
        pending_warning[s] /\ Calm ~> lock = "on" \/ countdown \/ ~alive
=============================================================================
