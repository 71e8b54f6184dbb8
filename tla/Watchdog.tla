------------------------------ MODULE Watchdog ------------------------------
(***************************************************************************)
(* The second process on a contestant's machine, which starts the agent    *)
(* again when it has been ended (agent/internal/watchdog/watchdog.go), and *)
(* the port the agent binds so that only one of them runs                  *)
(* (agent/cmd/voight/main.go).  On Unix the liveness check sends os.Signal *)
(* (nil), which Go refuses for every process: the answer is always "dead". *)
(* The contestant ends and starts agents at will.  Time is counted in      *)
(* checks; an agent reaches its bind, the first thing it does, between two *)
(* of them.  That another program is given the PID of an agent that ended  *)
(* is left out.                                                            *)
(***************************************************************************)
EXTENDS Naturals

CONSTANTS
    Machines,     \* bound: kinds of machine, a subset of Kinds
    Pids,         \* bound: process identifiers
    NoPid,
    MaxMissed,    \* MaxMissedChecks
    MaxExcuses    \* bound: failed and misled checks between two running agents

Kinds == {"windows", "linux", "linux service", "darwin"}

ASSUME WatchdogAssumption ==
    Machines \subseteq Kinds /\ NoPid \notin Pids /\ MaxMissed \in Nat \ {0}
    /\ MaxExcuses \in Nat

VARIABLES
    machine,      \* the kind of machine
    process,      \* process[p]: "free", or an agent "starting", "running", or
                  \* "refused" while its message box is up
    service,      \* the agent the service manager runs; NoPid if it was told of
                  \* none; Lost if that one has ended
    agentPID,     \* w.agentPID
    missedChecks, \* w.missedChecks, counted up to MaxMissed + 1
    down,         \* checks since an agent was running,
    failed,       \* those of them whose restart failed, and
    misled        \* those that took another process for the agent

history == <<down, failed, misled>>
watchdogVars == <<machine, process, service, agentPID, missedChecks, history>>

Running == {p \in Pids : process[p] = "running"}

Lost == "lost"

Unless(p) == IF service = p THEN Lost ELSE service

-----------------------------------------------------------------------------
(* net.Listen on 127.0.0.1:40999.  The one that fails says so and exits;   *)
(* on Windows it waits in the message box first.                           *)
PortTaken == Running # {}

BeginAgent(p) ==
    /\ process[p] = "starting"
    /\ IF ~PortTaken
       THEN /\ process' = [process EXCEPT ![p] = "running"]
            /\ down' = 0 /\ failed' = 0 /\ misled' = 0
            /\ UNCHANGED service
       ELSE /\ process' = [process EXCEPT ![p] = IF machine = "windows" THEN "refused" ELSE "free"]
            /\ service' = Unless(p)
            /\ UNCHANGED history
    /\ UNCHANGED <<machine, agentPID, missedChecks>>

(* The contestant ends an agent, closes a message box, or starts an agent. *)
EndProcess(p) ==
    /\ process[p] \in {"running", "refused"}
    /\ process' = [process EXCEPT ![p] = "free"]
    /\ service' = Unless(p)
    /\ UNCHANGED <<machine, agentPID, missedChecks, history>>

StartByHand(p) ==
    /\ process[p] = "free"
    /\ process' = [process EXCEPT ![p] = "starting"]
    /\ UNCHANGED <<machine, service, agentPID, missedChecks, history>>

(* The plist says KeepAlive: launchd starts the agent again when it ends.  *)
KeepAlive(p) ==
    /\ machine = "darwin" /\ service = Lost /\ process[p] = "free"
    /\ process' = [process EXCEPT ![p] = "starting"]
    /\ service' = p
    /\ UNCHANGED <<machine, agentPID, missedChecks, history>>

-----------------------------------------------------------------------------
(* FindProcess finds every PID on Unix, where Signal(nil) then fails.  On  *)
(* Windows tasklist may fail too; any process of the PID passes for the    *)
(* agent, one that waits in its message box as well.                       *)
isAgentAlive == IF machine = "windows" /\ process[agentPID] # "free" THEN BOOLEAN ELSE {FALSE}

(* systemctl restart and launchctl unload end the agent that the service   *)
(* manager runs.                                                           *)
Ended == IF service \in Pids THEN [process EXCEPT ![service] = "free"] ELSE process

restartService(p) ==
    /\ machine \in {"linux service", "darwin"}
    /\ Ended[p] = "free"
    /\ process' = [Ended EXCEPT ![p] = "starting"]
    /\ service' = p
    /\ UNCHANGED agentPID

(* What is left when the service manager fails or is not there: all as it  *)
(* was (no unit, no plist written), or its agent ended and none started.   *)
Leftovers ==
    {[process |-> process, service |-> service]} \union
    (IF machine = "linux service" THEN {[process |-> Ended, service |-> Lost]} ELSE {}) \union
    (IF machine = "darwin" THEN {[process |-> Ended, service |-> NoPid]} ELSE {})

(* cmd.Start, which may fail.                                              *)
directRestart(left, p) ==
    /\ left.process[p] = "free"
    /\ process' = [left.process EXCEPT ![p] = "starting"]
    /\ service' = left.service
    /\ agentPID' = p

startFails(left) == process' = left.process /\ service' = left.service /\ UNCHANGED agentPID

(* Kept by the checker: a check without a running agent, and its excuse.   *)
Count(failures, mistakes) ==
    /\ down' = IF Running = {} THEN down + 1 ELSE 0
    /\ failed' = IF Running = {} THEN failed + failures ELSE 0
    /\ misled' = IF Running = {} THEN misled + mistakes ELSE 0
    /\ failed' + misled' <= MaxExcuses

(* Seeded fault: gives up when the service manager fails.                  *)
NoFallback ==
    /\ (\E p \in Pids : restartService(p)) \/ (\E left \in Leftovers : startFails(left))
    /\ Count(0, 0)

(* os.Executable failing is a start that fails with everything as it was.  *)
attemptRestart ==
    \/ /\ \E p \in Pids : \/ restartService(p)
                          \/ \E left \in Leftovers : directRestart(left, p)
       /\ Count(0, 0)
    \/ /\ \E left \in Leftovers : startFails(left)
       /\ Count(1, 0)

Alarm(missed) == missed >= MaxMissed

Check ==
    /\ \A p \in Pids : process[p] # "starting"
    /\ \E alive \in isAgentAlive :
        \/ /\ alive
           /\ missedChecks' = 0
           /\ Count(0, 1)
           /\ UNCHANGED <<process, service, agentPID>>
        \/ /\ ~alive
           /\ missedChecks' = IF missedChecks <= MaxMissed THEN missedChecks + 1 ELSE missedChecks
           /\ IF Alarm(missedChecks + 1) THEN attemptRestart
              ELSE Count(0, 0) /\ UNCHANGED <<process, service, agentPID>>
    /\ UNCHANGED machine

(* The watchdog is given the PID of an agent that runs.                    *)
WatchdogInit ==
    /\ machine \in Machines
    /\ agentPID \in Pids
    /\ process = [p \in Pids |-> IF p = agentPID THEN "running" ELSE "free"]
    /\ service \in IF machine = "linux service" THEN {agentPID} ELSE {NoPid}
    /\ missedChecks = 0 /\ down = 0 /\ failed = 0 /\ misled = 0

WatchdogNext ==
    \/ Check
    \/ \E p \in Pids : BeginAgent(p) \/ EndProcess(p) \/ StartByHand(p) \/ KeepAlive(p)

WatchdogSpec == WatchdogInit /\ [][WatchdogNext]_watchdogVars

-----------------------------------------------------------------------------
(***************************************************************************)
(* "If the Agent is forcefully terminated, the Watchdog process will       *)
(* attempt to restart it" (README.md:182): by the MaxMissed-th check after *)
(* the last agent ended one is starting, whatever else was started,        *)
(* refused or ended meanwhile and whichever of the ways to start it        *)
(* failed.  A start that failed is made up for at the next check; a check  *)
(* that took an agent the port refused for the running one costs           *)
(* MaxMissed checks at most.                                               *)
(***************************************************************************)
BackInTime == down <= MaxMissed * (misled + 1) + failed

=============================================================================
