----------------------------- MODULE PartsProofs -----------------------------
(***************************************************************************)
(* Proofs about five parts that share no state: the network monitor's      *)
(* deduplication, for every set of endpoints and every length of its two   *)
(* periods; the watchdog, for any number of processes and of missed        *)
(* checks, on the machines where a refused agent exits at once; the        *)
(* dashboards' sockets, for any numbers of sockets and of broadcasts under *)
(* way; the copies of the detection policy, for any API processes and      *)
(* requests, any rule lists and any number of updates; and the scores of   *)
(* any number of indicators.                                               *)
(***************************************************************************)
EXTENDS NetworkMonitor, Watchdog, WebSocketHub, DetectionPolicy, ScoringEngineMC,
        ProofLemmas, FiniteSetTheorems, SequenceTheorems, TLAPS

(* The network monitor.                                                    *)

Ages == 0..Never

AgesTyped ==
    /\ seenConns \in [Conns -> Ages]
    /\ overdue \in [Conns -> Nat]
    /\ sinceReport \in [Conns -> 0..Dedup]
    /\ closest \in [Conns -> 0..Dedup]

(***************************************************************************)
(* What has been left out since it was known by name has been looked at at *)
(* least as long ago, and lately enough to be skipped.                     *)
(***************************************************************************)
LeftOutSinceSeen ==
    \A c \in Conns : overdue[c] > 0 => /\ seenConns[c] # Never
                                       /\ overdue[c] <= seenConns[c]

(***************************************************************************)
(* An endpoint reported within the period has an entry that is no older    *)
(* than the report: the clean-up does not reach it.                        *)
(***************************************************************************)
SeenSinceReport ==
    \A c \in Conns : sinceReport[c] < Dedup => /\ seenConns[c] # Never
                                               /\ seenConns[c] <= sinceReport[c]

NetworkInv ==
    AgesTyped /\ LeftOutSinceSeen /\ SeenSinceReport /\ ReportedInTime /\ ReportsAreSpaced

-----------------------------------------------------------------------------
LEMMA NetworkInitInv == NetworkInit => NetworkInv
BY NetworkAssumption
   DEF NetworkInit, NetworkInv, AgesTyped, Ages, LeftOutSinceSeen, SeenSinceReport,
       ReportedInTime, ReportsAreSpaced, Never

(* What a scan makes of one endpoint's entry.                              *)
LEMMA ScanOfOne ==
    ASSUME NetworkInv, Scan, NEW c \in Conns
    PROVE  /\ seenConns'[c] \in Ages /\ overdue'[c] \in Nat
           /\ sinceReport'[c] \in 0..Dedup /\ closest'[c] \in 0..Dedup
           /\ overdue'[c] > 0 => seenConns'[c] # Never /\ overdue'[c] <= seenConns'[c]
           /\ sinceReport'[c] < Dedup => seenConns'[c] # Never /\ seenConns'[c] <= sinceReport'[c]
           /\ overdue'[c] < Dedup
           /\ closest'[c] >= Dedup
<1> USE NetworkAssumption
<1>1. /\ seenConns[c] \in 0..(Forget + 1) /\ overdue[c] \in Nat
      /\ sinceReport[c] \in 0..Dedup /\ closest[c] = Dedup
      /\ overdue[c] > 0 => seenConns[c] # Forget + 1 /\ overdue[c] <= seenConns[c]
      /\ sinceReport[c] < Dedup => seenConns[c] # Forget + 1 /\ seenConns[c] <= sinceReport[c]
      /\ overdue[c] < Dedup
    BY DEF NetworkInv, AgesTyped, Ages, LeftOutSinceSeen, SeenSinceReport, ReportedInTime,
           ReportsAreSpaced, Never
<1>2. CASE Skipped(c)
  <2>1. /\ seenConns'[c] = Aged(c) /\ sinceReport'[c] = Gap(c) /\ closest'[c] = closest[c]
        /\ overdue'[c] \in {0, overdue[c] + 1}
        /\ connected[c] = NoName => overdue'[c] = 0
      BY <1>2 DEF Scan, Marked, Reported
  <2>2. connected[c] # NoName => seenConns[c] # Forget + 1 /\ seenConns[c] + 1 < Dedup
      BY <1>2 DEF Skipped, Recent, Never
  <2> QED BY <1>1, <2>1, <2>2 DEF Aged, Forgotten, Gap, Ages, Never
<1>3. CASE ~Skipped(c)
  <2>1. seenConns'[c] = 0 /\ overdue'[c] = 0
      BY <1>3 DEF Scan, Marked, Reported
  <2>2. Gap(c) = Dedup
      BY <1>1, <1>3 DEF Skipped, Recent, Gap, Never
  <2>3. sinceReport'[c] \in {0, Dedup} /\ closest'[c] = Dedup
      BY <1>1, <2>2 DEF Scan
  <2> QED BY <2>1, <2>3 DEF Ages, Never
<1> QED BY <1>2, <1>3

LEMMA NetworkNextInv == NetworkInv /\ [NetworkNext]_networkVars => NetworkInv'
<1> SUFFICES ASSUME NetworkInv, [NetworkNext]_networkVars PROVE NetworkInv'
    OBVIOUS
<1> USE NetworkAssumption
<1>1. CASE Scan
  <2>1. AgesTyped'
      BY <1>1, ScanOfOne DEF Scan, AgesTyped
  <2> QED BY <1>1, <2>1, ScanOfOne
          DEF NetworkInv, LeftOutSinceSeen, SeenSinceReport, ReportedInTime, ReportsAreSpaced
<1>2. ASSUME UNCHANGED <<seenConns, sinceReport, closest>>,
             \/ UNCHANGED overdue
             \/ overdue' = [c \in Conns |-> 0]
             \/ \E c \in Conns : overdue' = [overdue EXCEPT ![c] = 0]
      PROVE  NetworkInv'
  <2>1. /\ overdue' \in [Conns -> Nat]
        /\ \A c \in Conns : overdue'[c] = overdue[c] \/ overdue'[c] = 0
      BY <1>2 DEF NetworkInv, AgesTyped
  <2> QED BY <1>2, <2>1
          DEF NetworkInv, AgesTyped, LeftOutSinceSeen, SeenSinceReport, ReportedInTime,
              ReportsAreSpaced, Ages, Never
<1>3. CASE ~Scan
    BY <1>2, <1>3
    DEF NetworkNext, OpenConnection, CloseConnection, UpdateDNSCache, ReplaceWatchlist, networkVars
<1> QED BY <1>1, <1>3

LEMMA NetworkInvariant == NetworkSpec => []NetworkInv
BY NetworkInitInv, NetworkNextInv, PTL DEF NetworkSpec

(***************************************************************************)
(* An open connection to a watched domain is left out for less than 30 s   *)
(* once its address has a name, for any endpoints, periods and policies    *)
(* (network.go:107-119).                                                   *)
(***************************************************************************)
THEOREM ReportsComeInTime == NetworkSpec => []ReportedInTime
<1>1. NetworkInv => ReportedInTime
    BY DEF NetworkInv
<1> QED BY <1>1, NetworkInvariant, PTL

(***************************************************************************)
(* No endpoint is reported twice within 30 s, whatever is opened again,    *)
(* renamed or cleaned up meanwhile (network.go:107, 376).                  *)
(***************************************************************************)
THEOREM ReportsKeepTheirDistance == NetworkSpec => []ReportsAreSpaced
<1>1. NetworkInv => ReportsAreSpaced
    BY DEF NetworkInv
<1> QED BY <1>1, NetworkInvariant, PTL

-----------------------------------------------------------------------------
(* The watchdog.                                                           *)

Stages == {"free", "starting", "running", "refused"}

WatchdogTyped ==
    /\ machine \in Machines
    /\ process \in [Pids -> Stages]
    /\ missedChecks \in Nat /\ down \in Nat /\ failed \in Nat /\ misled \in Nat

(* Where the checks without an agent have used up their excuses, one is    *)
(* being started, and the next check waits for that one's bind.            *)
StartIsUnderWay ==
    down >= MaxMissed * (misled + 1) + failed =>
        Running = {} /\ \E p \in Pids : process[p] = "starting"

WatchdogInv ==
    /\ WatchdogTyped
    /\ BackInTime
    /\ down <= missedChecks + MaxMissed * misled + failed
    /\ StartIsUnderWay

-----------------------------------------------------------------------------
LEMMA WatchdogInitInv == WatchdogInit => WatchdogInv
<1> SUFFICES ASSUME WatchdogInit PROVE WatchdogInv
    OBVIOUS
<1>1. /\ machine \in Machines /\ process \in [Pids -> Stages]
      /\ missedChecks = 0 /\ down = 0 /\ failed = 0 /\ misled = 0
    BY DEF WatchdogInit, Stages
<1>2. MaxMissed \in Nat \ {0}
    BY WatchdogAssumption
<1>3. MaxMissed * misled = 0 /\ MaxMissed * (misled + 1) = MaxMissed
    BY <1>1, <1>2
<1> QED BY <1>1, <1>2, <1>3 DEF WatchdogInv, WatchdogTyped, BackInTime, StartIsUnderWay

(* A check spoils no process's stage, and adds none that runs.             *)
LEMMA RestartStep ==
    ASSUME process \in [Pids -> Stages], attemptRestart
    PROVE  /\ process' \in [Pids -> Stages] /\ Running' \subseteq Running
           /\ \/ Count(0, 0) /\ \E p \in Pids : process'[p] = "starting"
              \/ Count(1, 0)
<1>1. Ended \in [Pids -> Stages] /\ \A p \in Pids : Ended[p] \in {"free", process[p]}
    BY DEF Ended, Stages
<1>2. \A left \in Leftovers :
          left.process \in [Pids -> Stages] /\ \A p \in Pids : left.process[p] \in {"free", process[p]}
  <2> SUFFICES ASSUME NEW left \in Leftovers
               PROVE  left.process \in [Pids -> Stages]
                      /\ \A p \in Pids : left.process[p] \in {"free", process[p]}
      OBVIOUS
  <2>1. \/ left = [process |-> process, service |-> service]
        \/ left = [process |-> Ended, service |-> Lost]
        \/ left = [process |-> Ended, service |-> NoPid]
      BY Zenon DEF Leftovers
  <2> QED BY <1>1, <2>1
<1>3. ASSUME NEW p \in Pids, restartService(p)
      PROVE  process' \in [Pids -> Stages] /\ Running' \subseteq Running /\ process'[p] = "starting"
    BY <1>1, <1>3 DEF restartService, Running, Stages
<1>4. ASSUME NEW p \in Pids, NEW left \in Leftovers, directRestart(left, p)
      PROVE  process' \in [Pids -> Stages] /\ Running' \subseteq Running /\ process'[p] = "starting"
    BY <1>2, <1>4 DEF directRestart, Running, Stages
<1>5. ASSUME NEW left \in Leftovers, startFails(left)
      PROVE  process' \in [Pids -> Stages] /\ Running' \subseteq Running
    BY <1>2, <1>5 DEF startFails, Running
<1> QED BY <1>3, <1>4, <1>5 DEF attemptRestart

(* A check without an agent and without an excuse counts one more miss,    *)
(* and raises the alarm when the excuses are used up.                      *)
LEMMA CheckStep ==
    ASSUME WatchdogInv, Check
    PROVE  WatchdogInv'
<1> DEFINE spare == MaxMissed * misled
<1>0. /\ MaxMissed \in Nat \ {0} /\ missedChecks \in Nat /\ down \in Nat
      /\ failed \in Nat /\ misled \in Nat /\ spare \in Nat
      /\ process \in [Pids -> Stages] /\ machine \in Machines
    BY WatchdogAssumption DEF WatchdogInv, WatchdogTyped
<1>1. /\ MaxMissed * (misled + 1) = spare + MaxMissed
      /\ MaxMissed * ((misled + 1) + 1) = spare + MaxMissed + MaxMissed
      /\ MaxMissed * (0 + 1) = MaxMissed /\ MaxMissed * 0 = 0
      /\ misled + 0 = misled /\ failed + 0 = failed
    BY <1>0
<1>2. down < spare + MaxMissed + failed
    BY <1>0, <1>1 DEF WatchdogInv, StartIsUnderWay, Check
<1>3. down <= missedChecks + spare + failed
    BY DEF WatchdogInv
<1>7. machine' = machine
    BY DEF Check
<1>8. \/ missedChecks' = 0 /\ Count(0, 1) /\ process' = process
      \/ /\ missedChecks' = IF missedChecks <= MaxMissed THEN missedChecks + 1 ELSE missedChecks
         /\ \/ missedChecks + 1 >= MaxMissed /\ attemptRestart
            \/ ~(missedChecks + 1 >= MaxMissed) /\ Count(0, 0) /\ process' = process
    BY DEF Check, Alarm
<1>4. CASE Running # {}
  <2>1. /\ down' = 0 /\ failed' = 0 /\ misled' = 0 /\ machine' = machine
        /\ missedChecks' \in Nat /\ process' \in [Pids -> Stages]
    <3>1. Count(0, 1) \/ Count(0, 0) \/ Count(1, 0)
        BY <1>0, <1>8, RestartStep
    <3>2. process' \in [Pids -> Stages] /\ missedChecks' \in Nat
        BY <1>0, <1>8, RestartStep
    <3> QED BY <1>4, <1>7, <3>1, <3>2 DEF Count
  <2>2. MaxMissed * misled' = 0 /\ MaxMissed * (misled' + 1) = MaxMissed
      BY <1>1, <2>1
  <2>3. WatchdogTyped'
      BY <1>0, <2>1 DEF WatchdogTyped
  <2>4. BackInTime' /\ StartIsUnderWay'
      BY <1>0, <2>1, <2>2 DEF BackInTime, StartIsUnderWay
  <2>5. down' <= missedChecks' + MaxMissed * misled' + failed'
      BY <2>1, <2>2
  <2> QED BY <2>3, <2>4, <2>5 DEF WatchdogInv
<1>5. CASE Running = {} /\ missedChecks' = 0 /\ Count(0, 1) /\ process' = process
  <2>1. down' = down + 1 /\ failed' = failed /\ misled' = misled + 1 /\ machine' = machine
      BY <1>1, <1>5 DEF Check, Count
  <2>2. MaxMissed * misled' = spare + MaxMissed
      BY <1>0, <1>1, <2>1
  <2>3. MaxMissed * (misled' + 1) = spare + MaxMissed + MaxMissed
      BY <1>1, <2>1
  <2> HIDE DEF spare
  <2> QED BY <1>0, <1>2, <1>5, <2>1, <2>2, <2>3 DEF WatchdogInv, WatchdogTyped, BackInTime, StartIsUnderWay
<1>6. CASE /\ Running = {} /\ misled' = misled /\ down' = down + 1 /\ machine' = machine
           /\ missedChecks' = IF missedChecks <= MaxMissed THEN missedChecks + 1 ELSE missedChecks
           /\ process' \in [Pids -> Stages] /\ Running' \subseteq Running
           /\ \/ failed' = failed + 1
              \/ /\ failed' = failed
                 /\ missedChecks + 1 >= MaxMissed => \E p \in Pids : process'[p] = "starting"
  <2>1. MaxMissed * misled' = spare /\ MaxMissed * (misled' + 1) = spare + MaxMissed
      BY <1>1, <1>6
  <2>2. missedChecks' \in Nat /\ failed' \in Nat
      BY <1>0, <1>6
  <2> HIDE DEF spare
  <2>3. /\ down' <= spare + MaxMissed + failed'
        /\ down' <= missedChecks' + spare + failed'
      BY <1>0, <1>2, <1>3, <1>6
  <2>4. down' >= spare + MaxMissed + failed' => \E p \in Pids : process'[p] = "starting"
      BY <1>0, <1>2, <1>3, <1>6
  <2>5. Running' = {} /\ down' \in Nat /\ misled' \in Nat /\ machine' \in Machines
      BY <1>0, <1>6
  <2> QED BY <1>6, <2>1, <2>2, <2>3, <2>4, <2>5 DEF WatchdogInv, WatchdogTyped, BackInTime, StartIsUnderWay
<1>9. CASE Running = {} /\ missedChecks + 1 >= MaxMissed /\ attemptRestart
           /\ missedChecks' = IF missedChecks <= MaxMissed THEN missedChecks + 1 ELSE missedChecks
    BY <1>0, <1>1, <1>6, <1>7, <1>9, RestartStep DEF Count
<1>10. CASE Running = {} /\ ~(missedChecks + 1 >= MaxMissed) /\ Count(0, 0) /\ process' = process
            /\ missedChecks' = IF missedChecks <= MaxMissed THEN missedChecks + 1 ELSE missedChecks
  <2>1. Running' = Running
      BY <1>10 DEF Running
  <2> QED BY <1>0, <1>1, <1>6, <1>7, <1>10, <2>1 DEF Count
<1> QED BY <1>4, <1>5, <1>8, <1>9, <1>10

LEMMA ProcessSteps ==
    ASSUME WatchdogInv, NEW p \in Pids,
           BeginAgent(p) \/ EndProcess(p) \/ StartByHand(p) \/ KeepAlive(p)
    PROVE  WatchdogInv'
<1>0. /\ process \in [Pids -> Stages] /\ missedChecks \in Nat /\ MaxMissed \in Nat \ {0}
      /\ StartIsUnderWay
    BY WatchdogAssumption DEF WatchdogInv, WatchdogTyped
<1>1. CASE BeginAgent(p) /\ Running = {}
  <2>1. /\ process' = [process EXCEPT ![p] = "running"] /\ UNCHANGED <<machine, missedChecks>>
        /\ down' = 0 /\ failed' = 0 /\ misled' = 0
      BY <1>1 DEF BeginAgent, PortTaken
  <2>2. MaxMissed * misled' = 0 /\ MaxMissed * (misled' + 1) = MaxMissed
      BY <1>0, <2>1
  <2>3. process' \in [Pids -> Stages]
      BY <1>0, <2>1 DEF Stages
  <2> QED BY <1>0, <2>1, <2>2, <2>3 DEF WatchdogInv, WatchdogTyped, BackInTime, StartIsUnderWay
<1>2. ASSUME process' \in [Pids -> Stages], UNCHANGED <<machine, missedChecks, history>>,
             Running = {} /\ (\E q \in Pids : process[q] = "starting") =>
                 Running' = {} /\ \E q \in Pids : process'[q] = "starting"
      PROVE  WatchdogInv'
    BY <1>2 DEF WatchdogInv, WatchdogTyped, BackInTime, StartIsUnderWay, history
<1>3. CASE BeginAgent(p) /\ Running # {}
  <2>1. process' \in [Pids -> Stages] /\ UNCHANGED <<machine, missedChecks, history>>
      BY <1>0, <1>3 DEF BeginAgent, PortTaken, Stages
  <2> QED BY <1>2, <1>3, <2>1
<1>4. CASE EndProcess(p)
  <2>1. /\ process' = [process EXCEPT ![p] = "free"] /\ process[p] # "starting"
        /\ UNCHANGED <<machine, missedChecks, history>>
      BY <1>4 DEF EndProcess
  <2>2. Running' \subseteq Running /\ \A q \in Pids : process[q] = "starting" => process'[q] = "starting"
      BY <1>0, <2>1 DEF Running
  <2>3. process' \in [Pids -> Stages]
      BY <1>0, <2>1 DEF Stages
  <2> QED BY <1>2, <2>1, <2>2, <2>3
<1>5. CASE StartByHand(p) \/ KeepAlive(p)
  <2>1. /\ process' = [process EXCEPT ![p] = "starting"]
        /\ UNCHANGED <<machine, missedChecks, history>>
      BY <1>5 DEF StartByHand, KeepAlive
  <2>2. Running' \subseteq Running /\ process'[p] = "starting"
      BY <1>0, <2>1 DEF Running
  <2>3. process' \in [Pids -> Stages]
      BY <1>0, <2>1 DEF Stages
  <2> QED BY <1>2, <2>1, <2>2, <2>3
<1> QED BY <1>1, <1>3, <1>4, <1>5

LEMMA WatchdogNextInv == WatchdogInv /\ [WatchdogNext]_watchdogVars => WatchdogInv'
<1> SUFFICES ASSUME WatchdogInv, [WatchdogNext]_watchdogVars PROVE WatchdogInv'
    OBVIOUS
<1>1. CASE UNCHANGED watchdogVars
    BY <1>1 DEF watchdogVars, history, WatchdogInv, WatchdogTyped, BackInTime, StartIsUnderWay, Running
<1>2. CASE WatchdogNext
    BY <1>2, CheckStep, ProcessSteps DEF WatchdogNext
<1> QED BY <1>1, <1>2

(***************************************************************************)
(* Within MaxMissed checks of the last agent's end one is being started,   *)
(* a failed start costs one check more and one that took a refused agent   *)
(* for the running one MaxMissed, for any number of processes, any limit   *)
(* and on every kind of machine (watchdog.go:44-78, 136-242).              *)
(***************************************************************************)
THEOREM AgentsComeBackInTime == WatchdogSpec => []BackInTime
<1>1. WatchdogInv => BackInTime
    BY DEF WatchdogInv
<1> QED BY <1>1, WatchdogNextInv, WatchdogInitInv, PTL DEF WatchdogSpec

-----------------------------------------------------------------------------
(* The dashboards' sockets.                                                *)

Sending == [at : {"sending"}, channel : Channels, rest : SUBSET Channels,
            used : {Cardinality(S) : S \in SUBSET Sockets},
            sent : SUBSET Sockets, to : Sockets, dead : SUBSET Sockets,
            calm : BOOLEAN, orphan : BOOLEAN]

(* A channel that has sockets is a key.                                    *)
SetsTyped ==
    /\ active \in [Channels -> SUBSET Sockets]
    /\ \A ch \in Channels : active[ch] # {} => ch \in keys

(* A broadcast whose channel is no longer a key iterates over an orphan.   *)
KeyOrOrphan(r, ks) == r = Idle \/ (r \in Sending /\ (r.orphan \/ r.channel \in ks))

HubInv ==
    /\ SetsTyped
    /\ task \in [Broadcasts -> Sending \union {Idle}]
    /\ \A b \in Broadcasts : KeyOrOrphan(task[b], keys)

-----------------------------------------------------------------------------
LEMMA SendingAt == ~(Idle \in Sending) /\ Idle.at = "idle" /\ \A r \in Sending : r.at = "sending"
BY DEF Sending, Idle

(* What a change of a channel's set does to a broadcast over it.           *)
LEMMA DisturbedRecord ==
    ASSUME NEW r \in Sending, NEW calm \in BOOLEAN, NEW orphan \in BOOLEAN
    PROVE  LET d == [r EXCEPT !.calm = calm, !.orphan = orphan]
           IN  d \in Sending /\ d.channel = r.channel /\ d.orphan = orphan
BY DEF Sending

LEMMA YieldRecord ==
    ASSUME NEW r \in Sending, NEW w \in Sockets, NEW dead \in SUBSET Sockets
    PROVE  LET d == [r EXCEPT !.to = w, !.sent = @ \union {w}, !.dead = dead]
           IN  d \in Sending /\ d.channel = r.channel /\ d.orphan = r.orphan
BY DEF Sending

LEMMA DisturbedSound ==
    ASSUME HubInv, NEW ch \in Channels, NEW members, NEW dropped \in BOOLEAN, NEW ks,
           \A k \in Channels : k \in keys => k \in ks \/ (k = ch /\ dropped)
    PROVE  /\ Disturbed(ch, members, dropped) \in [Broadcasts -> Sending \union {Idle}]
           /\ \A b \in Broadcasts : KeyOrOrphan(Disturbed(ch, members, dropped)[b], ks)
<1> SUFFICES ASSUME NEW b \in Broadcasts
             PROVE  /\ Disturbed(ch, members, dropped)[b] \in Sending \union {Idle}
                    /\ KeyOrOrphan(Disturbed(ch, members, dropped)[b], ks)
    BY DEF Disturbed
<1>1. CASE task[b] = Idle
  <2>1. Disturbed(ch, members, dropped)[b] = Idle
      BY <1>1, SendingAt DEF Disturbed, On
  <2> QED BY <2>1 DEF KeyOrOrphan
<1>2. CASE task[b] \in Sending
  <2>1. task[b].at = "sending" /\ task[b].channel \in Channels
      BY <1>2 DEF Sending
  <2>2. task[b].orphan \/ task[b].channel \in keys
      BY <1>2, SendingAt DEF HubInv, KeyOrOrphan
  <2>3. CASE task[b].channel = ch
    <3> DEFINE calm == task[b].calm /\ members = active[ch]
               orphan == task[b].orphan \/ dropped
               d == [task[b] EXCEPT !.calm = calm, !.orphan = orphan]
    <3>1. Disturbed(ch, members, dropped)[b] = d
      <4>1. b \in On(ch)
          BY <2>1, <2>3 DEF On
      <4> QED BY <4>1, Zenon DEF Disturbed
    <3>2. calm \in BOOLEAN /\ orphan \in BOOLEAN /\ (orphan \/ ch \in ks)
        BY <2>2, <2>3
    <3> HIDE DEF calm, orphan
    <3>3. d \in Sending /\ d.channel = task[b].channel /\ d.orphan = orphan
        BY <1>2, <3>2, DisturbedRecord, Zenon
    <3> HIDE DEF d
    <3> QED BY <2>3, <3>1, <3>2, <3>3 DEF KeyOrOrphan
  <2>4. CASE task[b].channel # ch
    <3>1. Disturbed(ch, members, dropped)[b] = task[b]
        BY <2>4 DEF Disturbed, On
    <3> QED BY <1>2, <2>1, <2>2, <2>4, <3>1 DEF KeyOrOrphan
  <2> QED BY <2>3, <2>4
<1> QED BY <1>1, <1>2 DEF HubInv

LEMMA BeginSound ==
    ASSUME NEW b \in Broadcasts, NEW channels \in SUBSET Channels, NEW ks,
           NEW sets \in [Channels -> SUBSET Sockets],
           \A ch \in Channels : sets[ch] # {} => ch \in ks,
           NEW others \in [Broadcasts -> Sending \union {Idle}],
           \A c \in Broadcasts : KeyOrOrphan(others[c], ks),
           Begin(b, channels, sets, others)
    PROVE  task' \in [Broadcasts -> Sending \union {Idle}] /\ \A c \in Broadcasts : KeyOrOrphan(task'[c], ks)
<1>1. ASSUME NEW r, r = Idle \/ r \in Sending, KeyOrOrphan(r, ks), task' = [others EXCEPT ![b] = r]
      PROVE  task' \in [Broadcasts -> Sending \union {Idle}] /\ \A c \in Broadcasts : KeyOrOrphan(task'[c], ks)
    BY <1>1
<1>2. CASE task' = [others EXCEPT ![b] = Idle]
    BY <1>1, <1>2 DEF KeyOrOrphan
<1>3. CASE task' # [others EXCEPT ![b] = Idle]
  <2> DEFINE full == {ch \in channels : sets[ch] # {}}
             ch == IF Competition \in full THEN Competition ELSE "global"
             r(w) == [at |-> "sending", channel |-> ch, rest |-> channels \ {Competition, ch},
                      used |-> Cardinality(sets[ch]), sent |-> {w}, to |-> w,
                      dead |-> {}, calm |-> TRUE, orphan |-> FALSE]
  <2>1. full # {} /\ \E w \in sets[ch] : task' = [others EXCEPT ![b] = r(w)]
      BY <1>3 DEF Begin
  <2>2. ch \in full /\ ch \in Channels /\ ch \in ks /\ sets[ch] \in SUBSET Sockets
      BY <2>1 DEF Channels
  <2> HIDE DEF ch
  <2>3. PICK w \in sets[ch] : task' = [others EXCEPT ![b] = r(w)]
      BY <2>1
  <2>4. r(w) \in Sending /\ KeyOrOrphan(r(w), ks)
      BY <2>2 DEF Sending, KeyOrOrphan
  <2> HIDE DEF r
  <2> QED BY <1>1, <2>3, <2>4
<1> QED BY <1>2, <1>3

-----------------------------------------------------------------------------
LEMMA EndpointSteps ==
    ASSUME HubInv, NEW w \in Sockets, connect(w) \/ ClientLeaves(w) \/ disconnect(w)
    PROVE  HubInv'
<1> DEFINE ch == ChannelOf(w)
<1>0. ch \in Channels /\ active \in [Channels -> SUBSET Sockets]
    BY HubAssumption DEF Channels, HubInv, SetsTyped
<1>1. CASE connect(w)
  <2>1. /\ keys' = keys \union {ch} /\ active' = [active EXCEPT ![ch] = active[ch] \union {w}]
        /\ task' = Disturbed(ch, JoinedBy(w), FALSE)
      BY <1>1 DEF connect, JoinedBy
  <2>2. SetsTyped'
      BY <1>0, <2>1 DEF SetsTyped, HubInv
  <2>3. /\ task' \in [Broadcasts -> Sending \union {Idle}]
        /\ \A b \in Broadcasts : KeyOrOrphan(task'[b], keys')
      BY <1>0, <2>1, DisturbedSound
  <2> QED BY <2>2, <2>3 DEF HubInv
<1>2. CASE ClientLeaves(w)
    BY <1>2 DEF ClientLeaves, HubInv, SetsTyped, KeyOrOrphan
<1>3. CASE disconnect(w)
  <2> DEFINE left == active[ch] \ {w}
  <2>1. CASE ch \notin keys
      BY <1>3, <2>1 DEF disconnect, HubInv, SetsTyped, KeyOrOrphan
  <2>2. CASE ch \in keys
    <3>1. /\ active' = [active EXCEPT ![ch] = left]
          /\ keys' = IF left = {} THEN keys \ {ch} ELSE keys
          /\ task' = Disturbed(ch, left, left = {})
        BY <1>3, <2>2 DEF disconnect
    <3>2. left \in SUBSET Sockets /\ (left = {}) \in BOOLEAN
        BY <1>0
    <3>3. SetsTyped'
        BY <1>0, <2>2, <3>1, <3>2 DEF SetsTyped, HubInv
    <3>4. \A k \in Channels : k \in keys => k \in keys' \/ (k = ch /\ left = {})
        BY <3>1
    <3>5. /\ task' \in [Broadcasts -> Sending \union {Idle}]
          /\ \A b \in Broadcasts : KeyOrOrphan(task'[b], keys')
      <4> DEFINE dropped == left = {}
      <4>1. dropped \in BOOLEAN /\ \A k \in Channels : k \in keys => k \in keys' \/ (k = ch /\ dropped)
          BY <3>2, <3>4
      <4>2. task' = Disturbed(ch, left, dropped)
          BY <3>1
      <4> HIDE DEF dropped, left
      <4> QED BY <1>0, <4>1, <4>2, DisturbedSound
    <3> QED BY <3>3, <3>5 DEF HubInv
  <2> QED BY <2>1, <2>2
<1> QED BY <1>1, <1>2, <1>3

LEMMA BroadcastSteps ==
    ASSUME HubInv, NEW b \in Broadcasts, StartBroadcast(b) \/ Advance(b)
    PROVE  HubInv'
<1>0. /\ active \in [Channels -> SUBSET Sockets] /\ \A ch \in Channels : active[ch] # {} => ch \in keys
      /\ task \in [Broadcasts -> Sending \union {Idle}] /\ \A c \in Broadcasts : KeyOrOrphan(task[c], keys)
    BY DEF HubInv, SetsTyped
<1>1. CASE StartBroadcast(b)
  <2>1. PICK channels \in {{Competition}, Channels} : Begin(b, channels, active, task)
      BY <1>1 DEF StartBroadcast
  <2>2. channels \in SUBSET Channels
      BY DEF Channels
  <2>3. task' \in [Broadcasts -> Sending \union {Idle}] /\ \A c \in Broadcasts : KeyOrOrphan(task'[c], keys)
      BY <1>0, <2>1, <2>2, BeginSound
  <2> QED BY <1>1, <2>3 DEF StartBroadcast, HubInv, SetsTyped
<1>2. CASE Advance(b)
  <2> DEFINE ch == task[b].channel
  <2>1. /\ task[b] \in Sending /\ ch \in Channels /\ task[b].to \in Sockets
        /\ task[b].dead \in SUBSET Sockets /\ task[b].rest \in SUBSET Channels
        /\ task[b].orphan \/ ch \in keys
    <3>1. task[b] \in Sending
        BY <1>0, <1>2, SendingAt DEF Advance
    <3> QED BY <1>0, <3>1, SendingAt DEF Sending, KeyOrOrphan
  <2>2. ASSUME NEW raised \in BOOLEAN PROVE Dead(b, raised) \in SUBSET Sockets
      BY <2>1 DEF Dead
  <2>3. CASE task' = [task EXCEPT ![b] = Idle] /\ UNCHANGED <<socket, keys, active>>
      BY <1>0, <2>3 DEF HubInv, SetsTyped, KeyOrOrphan
  <2>4. ASSUME NEW raised \in BOOLEAN, Yield(b, raised) PROVE HubInv'
    <3>1. PICK w \in Yet(b) :
             task' = [task EXCEPT ![b].to = w, ![b].sent = @ \union {w}, ![b].dead = Dead(b, raised)]
        BY <2>4 DEF Yield
    <3> DEFINE d == [task[b] EXCEPT !.to = w, !.sent = @ \union {w}, !.dead = Dead(b, raised)]
    <3>2. task' = [task EXCEPT ![b] = d]
        BY <1>0, <3>1
    <3>3. w \in Sockets
        BY <1>0, <2>1 DEF Yet
    <3>4. d \in Sending /\ d.channel = ch /\ d.orphan = task[b].orphan
      <4> DEFINE r == task[b]
                 dead == Dead(b, raised)
      <4>1. r \in Sending /\ dead \in SUBSET Sockets
          BY <2>1, <2>2
      <4> HIDE DEF r, dead
      <4>2. LET y == [r EXCEPT !.to = w, !.sent = @ \union {w}, !.dead = dead]
            IN  y \in Sending /\ y.channel = r.channel /\ y.orphan = r.orphan
          BY <4>1, <3>3, YieldRecord, Zenon
      <4> QED BY <4>2 DEF r, dead
    <3> HIDE DEF d
    <3>5. KeyOrOrphan(d, keys)
        BY <2>1, <3>4 DEF KeyOrOrphan
    <3> QED BY <1>0, <2>4, <3>2, <3>4, <3>5 DEF Yield, HubInv, SetsTyped
  <2>5. ASSUME NEW raised \in BOOLEAN, CleanUp(b, raised), ~SizeChanged(b) PROVE HubInv'
    <3> DEFINE sets == [active EXCEPT ![ch] = @ \ Dead(b, raised)]
    <3>1. ch \in keys
        BY <2>1, <2>5 DEF SizeChanged
    <3>2. /\ active' = sets /\ UNCHANGED <<socket, keys>>
          /\ Begin(b, task[b].rest, sets, Disturbed(ch, sets[ch], FALSE))
        BY <2>5, <3>1 DEF CleanUp
    <3>3. sets \in [Channels -> SUBSET Sockets] /\ \A k \in Channels : sets[k] # {} => k \in keys
        BY <1>0, <2>1
    <3> DEFINE others == Disturbed(ch, sets[ch], FALSE)
    <3>4. others \in [Broadcasts -> Sending \union {Idle}] /\ \A c \in Broadcasts : KeyOrOrphan(others[c], keys)
        BY <2>1, DisturbedSound
    <3> HIDE DEF sets, others
    <3>5. task' \in [Broadcasts -> Sending \union {Idle}] /\ \A c \in Broadcasts : KeyOrOrphan(task'[c], keys)
        BY <2>1, <3>2, <3>3, <3>4, BeginSound DEF others
    <3> QED BY <3>2, <3>3, <3>5 DEF HubInv, SetsTyped
  <2>6. \E raised \in BOOLEAN :
           \/ task' = [task EXCEPT ![b] = Idle] /\ UNCHANGED <<socket, keys, active>>
           \/ Yield(b, raised)
           \/ CleanUp(b, raised) /\ ~SizeChanged(b)
      BY <1>2 DEF Advance
  <2> QED BY <2>3, <2>4, <2>5, <2>6
<1> QED BY <1>1, <1>2

LEMMA HubInitInv == HubInit => HubInv
BY DEF HubInit, HubInv, SetsTyped, KeyOrOrphan

LEMMA HubNextInv == HubInv /\ [HubNext]_hubVars => HubInv'
<1> SUFFICES ASSUME HubInv, [HubNext]_hubVars PROVE HubInv'
    OBVIOUS
<1>1. CASE UNCHANGED hubVars
    BY <1>1 DEF hubVars, HubInv, SetsTyped, KeyOrOrphan
<1>2. CASE HubNext
    BY <1>2, EndpointSteps, BroadcastSteps DEF HubNext
<1> QED BY <1>1, <1>2

(***************************************************************************)
(* No clean-up fails on a channel that has been dropped, for any numbers   *)
(* of sockets that come and go and of broadcasts (manager.py:43).          *)
(***************************************************************************)
THEOREM CleanUpsFindTheirSet == HubSpec => []CleanUpFindsTheSet
<1>1. HubInv => CleanUpFindsTheSet
    BY SendingAt DEF HubInv, CleanUpFindsTheSet
<1> QED BY <1>1, HubInitInv, HubNextInv, PTL DEF HubSpec

-----------------------------------------------------------------------------
(* The detection policy.                                                   *)

(* A request is free, or a reader's or a writer's record.                  *)
Shaped(q) ==
    \/ q = Free
    \/ q = [at |-> q.at, server |-> q.server, policy |-> q.policy]
    \/ q = [at |-> q.at, server |-> q.server, policy |-> q.policy, loaded |-> q.loaded]

(***************************************************************************)
(* What a request is about to bring to the process's copy was read from    *)
(* the row: a writer, too, reads it back first.                            *)
(***************************************************************************)
ReadFromRow(q) ==
    /\ q.at = "refresh" => row \in past
    /\ q.at = "apply" => q.policy \in past

PolicyInv ==
    /\ request = [r \in Requests |-> request[r]]
    /\ cache = [s \in Servers |-> cache[s]]
    /\ row # NoPolicy => row \in past
    /\ \A r \in Requests : Shaped(request[r]) /\ ReadFromRow(request[r])
    /\ CacheWasInForce

-----------------------------------------------------------------------------
LEMMA PolicyInitInv == PolicyInit => PolicyInv
BY DEF PolicyInit, PolicyInv, Shaped, ReadFromRow, Free, CacheWasInForce

(* A request that moves on, or ends, keeps its record.                     *)
LEMMA Moves ==
    ASSUME PolicyInv, NEW r \in Requests, NEW label, request[r].at # "free"
    PROVE  /\ MoveRequest(r, label) =>
                /\ request' = [request EXCEPT ![r] = request'[r]]
                /\ Shaped(request'[r]) /\ request'[r].at = label
                /\ request'[r].policy = request[r].policy
           /\ Done(r) => /\ request' = [request EXCEPT ![r] = request'[r]]
                         /\ Shaped(request'[r]) /\ request'[r].at = "free"
BY DEF PolicyInv, MoveRequest, Done, Free, Shaped

(* One that reads the row keeps what it has read.                          *)
LEMMA Reads ==
    ASSUME PolicyInv, NEW r \in Requests, request[r].at # "free"
    PROVE  /\ request' = [request EXCEPT ![r].at = "apply", ![r].policy = row] =>
                /\ request' = [request EXCEPT ![r] = request'[r]]
                /\ Shaped(request'[r]) /\ request'[r].at = "apply" /\ request'[r].policy = row
           /\ request' = [request EXCEPT ![r].at = "commit", ![r].loaded = row] =>
                /\ request' = [request EXCEPT ![r] = request'[r]]
                /\ Shaped(request'[r]) /\ request'[r].at = "commit"
<1> DEFINE q == request[r]
<1>1. /\ request = [p \in Requests |-> request[p]]
      /\ \/ q = [at |-> q.at, server |-> q.server, policy |-> q.policy]
         \/ q = [at |-> q.at, server |-> q.server, policy |-> q.policy, loaded |-> q.loaded]
    BY DEF PolicyInv, Shaped, Free
<1>2. ASSUME request' = [request EXCEPT ![r].at = "apply", ![r].policy = row]
      PROVE  /\ request' = [request EXCEPT ![r] = request'[r]]
             /\ Shaped(request'[r]) /\ request'[r].at = "apply" /\ request'[r].policy = row
  <2>1. request'[r] = [q EXCEPT !.at = "apply", !.policy = row]
      BY <1>1, <1>2
  <2>2. \/ request'[r] = [at |-> "apply", server |-> q.server, policy |-> row]
        \/ request'[r] = [at |-> "apply", server |-> q.server, policy |-> row, loaded |-> q.loaded]
      BY <1>1, <2>1
  <2>3. request' = [request EXCEPT ![r] = request'[r]]
      BY <1>1, <1>2
  <2> QED BY <2>2, <2>3 DEF Shaped
<1>3. ASSUME request' = [request EXCEPT ![r].at = "commit", ![r].loaded = row]
      PROVE  /\ request' = [request EXCEPT ![r] = request'[r]]
             /\ Shaped(request'[r]) /\ request'[r].at = "commit"
  <2>1. request'[r] = [q EXCEPT !.at = "commit", !.loaded = row]
      BY <1>1, <1>3
  <2>2. \/ request'[r] = [at |-> "commit", server |-> q.server, policy |-> q.policy]
        \/ request'[r] = [at |-> "commit", server |-> q.server, policy |-> q.policy, loaded |-> row]
      BY <1>1, <2>1
  <2>3. request' = [request EXCEPT ![r] = request'[r]]
      BY <1>1, <1>3
  <2> QED BY <2>2, <2>3 DEF Shaped
<1> QED BY <1>2, <1>3

(* A step of one request that leaves the copies alone.                     *)
LEMMA OneRequest ==
    ASSUME PolicyInv, NEW r \in Requests, request' = [request EXCEPT ![r] = request'[r]],
           UNCHANGED cache, UNCHANGED <<row, past>> \/ \E policy : Store(policy),
           Shaped(request'[r]), ReadFromRow(request[r])'
    PROVE  PolicyInv'
<1>1. past \subseteq past' /\ (row' = row \/ row' \in past')
    BY DEF Store
<1>2. /\ request' = [q \in Requests |-> request'[q]]
      /\ \A q \in Requests : q # r => request'[q] = request[q]
    BY DEF PolicyInv
<1>3. ASSUME NEW q \in Requests PROVE Shaped(request[q])' /\ ReadFromRow(request[q])'
  <2>1. CASE q = r
      BY <2>1 DEF Shaped
  <2>2. CASE q # r
      BY <1>1, <1>2, <2>2 DEF PolicyInv, ReadFromRow, Shaped
  <2> QED BY <2>1, <2>2
<1>4. CacheWasInForce'
    BY <1>1 DEF PolicyInv, CacheWasInForce
<1>5. row' # NoPolicy => row' \in past'
    BY <1>1 DEF PolicyInv
<1>6. cache' = [s \in Servers |-> cache'[s]]
    BY DEF PolicyInv
<1> QED BY <1>2, <1>3, <1>4, <1>5, <1>6 DEF PolicyInv

LEMMA ReadSteps ==
    ASSUME PolicyInv, NEW r \in Requests,
           \/ \E s \in Servers : StartRead(r, s)
           \/ SelectPolicy(r) \/ RefreshPolicy(r) \/ CreateDefault(r)
    PROVE  PolicyInv'
<1>1. ASSUME NEW s \in Servers, StartRead(r, s) PROVE PolicyInv'
  <2>1. /\ request' = [request EXCEPT ![r] = request'[r]]
        /\ request'[r] = [at |-> "select", server |-> s, policy |-> NoPolicy]
      BY <1>1 DEF StartRead, PolicyInv
  <2>2. Shaped(request'[r]) /\ request'[r].at = "select"
      BY <2>1 DEF Shaped
  <2> QED BY <1>1, <2>1, <2>2, OneRequest DEF StartRead, ReadFromRow
<1>2. ASSUME row # NoPolicy, request[r].at \in {"select", "refresh"},
             request' = [request EXCEPT ![r].at = "apply", ![r].policy = row],
             UNCHANGED <<row, past, cache>>
      PROVE  PolicyInv'
  <2>1. row \in past
      BY <1>2 DEF PolicyInv
  <2>2. /\ request' = [request EXCEPT ![r] = request'[r]]
        /\ Shaped(request'[r]) /\ request'[r].at = "apply" /\ request'[r].policy = row
      BY <1>2, Reads
  <2>3. ReadFromRow(request[r])' /\ UNCHANGED <<row, past>> /\ UNCHANGED cache
      BY <1>2, <2>1, <2>2 DEF ReadFromRow
  <2> QED BY <2>2, <2>3, OneRequest
<1>3. CASE SelectPolicy(r)
  <2>1. CASE row # NoPolicy
      BY <1>2, <1>3, <2>1 DEF SelectPolicy, RequestAt
  <2>2. CASE row = NoPolicy
    <3>1. MoveRequest(r, "create") \/ Done(r)
        BY <1>3, <2>2 DEF SelectPolicy
    <3> QED BY <1>3, <3>1, Moves, OneRequest DEF SelectPolicy, RequestAt, ReadFromRow
  <2> QED BY <2>1, <2>2
<1>4. CASE RefreshPolicy(r)
  <2>1. request[r].at = "refresh" /\ row \in past /\ UNCHANGED <<row, past, cache>>
      BY <1>4 DEF RefreshPolicy, RequestAt, PolicyInv, ReadFromRow
  <2> QED BY <1>4, <2>1, Reads, OneRequest DEF RefreshPolicy, ReadFromRow
<1>5. CASE CreateDefault(r)
  <2>1. request[r].at = "create" /\ UNCHANGED cache
      BY <1>5 DEF CreateDefault, RequestAt
  <2>2. CASE Store(Default) /\ MoveRequest(r, "refresh")
      BY <2>1, <2>2, Moves, OneRequest DEF ReadFromRow, Store
  <2>3. CASE Done(r) /\ UNCHANGED <<row, past>>
      BY <2>1, <2>3, Moves, OneRequest DEF ReadFromRow
  <2> QED BY <1>5, <2>2, <2>3 DEF CreateDefault
<1> QED BY <1>1, <1>3, <1>4, <1>5

LEMMA WriteSteps ==
    ASSUME PolicyInv, NEW r \in Requests,
           \/ \E s \in Servers, policy \in Updates : StartPut(r, s, policy)
           \/ LoadPolicy(r) \/ CommitPut(r)
    PROVE  PolicyInv'
<1>1. ASSUME NEW s \in Servers, NEW policy \in Updates, StartPut(r, s, policy) PROVE PolicyInv'
  <2>1. /\ request' = [request EXCEPT ![r] = request'[r]]
        /\ request'[r] = [at |-> "load", server |-> s, policy |-> policy, loaded |-> NoPolicy]
      BY <1>1 DEF StartPut, PolicyInv
  <2>2. Shaped(request'[r]) /\ request'[r].at = "load"
      BY <2>1 DEF Shaped
  <2> QED BY <1>1, <2>1, <2>2, OneRequest DEF StartPut, ReadFromRow
<1>2. CASE LoadPolicy(r)
  <2> QED BY <1>2, Reads, OneRequest DEF LoadPolicy, RequestAt, ReadFromRow
<1>3. CASE CommitPut(r)
  <2>1. request[r].at = "commit" /\ UNCHANGED cache
      BY <1>3 DEF CommitPut, RequestAt
  <2>2. ASSUME NEW policy, Store(policy), MoveRequest(r, "refresh") PROVE PolicyInv'
      BY <2>1, <2>2, Moves, OneRequest DEF ReadFromRow, Store
  <2>3. CASE Done(r) /\ UNCHANGED <<row, past>>
      BY <2>1, <2>3, Moves, OneRequest DEF ReadFromRow
  <2> QED BY <1>3, <2>2, <2>3 DEF CommitPut, AfterCommit
<1> QED BY <1>1, <1>2, <1>3

(* The one step that changes a copy by what a request carries.             *)
LEMMA ApplyStep ==
    ASSUME PolicyInv, NEW r \in Requests, ApplyPolicy(r)
    PROVE  PolicyInv'
<1>1. /\ request[r].at = "apply" /\ UNCHANGED <<row, past>>
      /\ cache' = [cache EXCEPT ![request[r].server] = request[r].policy]
    BY DEF ApplyPolicy, RequestAt, Cached
<1>2. request[r].policy \in past
    BY <1>1 DEF PolicyInv, ReadFromRow
<1>3. /\ request' = [request EXCEPT ![r] = request'[r]]
      /\ Shaped(request'[r]) /\ request'[r].at \in {"free", "answer"}
    BY <1>1, Moves DEF ApplyPolicy
<1>4. CacheWasInForce' /\ cache' = [s \in Servers |-> cache'[s]]
    BY <1>1, <1>2 DEF PolicyInv, CacheWasInForce
<1>5. ASSUME NEW q \in Requests PROVE Shaped(request[q])' /\ ReadFromRow(request[q])'
  <2>1. CASE q = r
      BY <1>3, <2>1 DEF ReadFromRow, Shaped
  <2>2. CASE q # r
      BY <1>1, <1>3, <2>2 DEF PolicyInv, ReadFromRow, Shaped
  <2> QED BY <2>1, <2>2
<1> QED BY <1>1, <1>3, <1>4, <1>5 DEF PolicyInv

LEMMA AnswerStep ==
    ASSUME PolicyInv, NEW r \in Requests, AgentUpdates(r)
    PROVE  PolicyInv'
BY Moves, OneRequest DEF AgentUpdates, RequestAt, ReadFromRow

LEMMA RestartSteps ==
    ASSUME PolicyInv, (\E s \in Servers : ServerRestarts(s)) \/ AgentRestarts
    PROVE  PolicyInv'
<1>1. /\ UNCHANGED <<row, past>>
      /\ request' = [r \in Requests |-> request'[r]]
      /\ \A r \in Requests : request'[r] = Free \/ request'[r] = request[r]
    BY DEF ServerRestarts, AgentRestarts
<1>2. /\ cache' = [s \in Servers |-> cache'[s]]
      /\ \A s \in Servers : cache'[s] \in {cache[s], Default}
    BY DEF ServerRestarts, AgentRestarts, PolicyInv
<1>3. ASSUME NEW r \in Requests PROVE Shaped(request[r])' /\ ReadFromRow(request[r])'
    BY <1>1 DEF PolicyInv, Shaped, ReadFromRow, Free
<1>4. CacheWasInForce'
    BY <1>1, <1>2 DEF PolicyInv, CacheWasInForce, Default, NoRules
<1> QED BY <1>1, <1>2, <1>3, <1>4 DEF PolicyInv

LEMMA PolicyNextInv == PolicyInv /\ [PolicyNext]_policyVars => PolicyInv'
<1> SUFFICES ASSUME PolicyInv, [PolicyNext]_policyVars PROVE PolicyInv'
    OBVIOUS
<1>1. CASE UNCHANGED policyVars
    BY <1>1 DEF policyVars, PolicyInv, CacheWasInForce, ReadFromRow, Shaped
<1>2. ASSUME NEW r \in Requests, Proceed(r) PROVE PolicyInv'
    BY <1>2, ReadSteps, WriteSteps, ApplyStep, AnswerStep DEF Proceed
<1>3. ASSUME NEW r \in Proctors, NEW s \in Servers, NEW policy \in Updates, StartPut(r, s, policy)
      PROVE  PolicyInv'
    BY <1>3, WriteSteps DEF Requests
<1>4. ASSUME NEW r \in Requests, NEW s \in Servers, StartRead(r, s) PROVE PolicyInv'
    BY <1>4, ReadSteps
<1> QED BY <1>1, <1>2, <1>3, <1>4, RestartSteps DEF PolicyNext

(***************************************************************************)
(* Every copy holds a policy that was in force, whole, for any number of   *)
(* processes, proctors and concurrent updates (policy.py:59-69).           *)
(***************************************************************************)
THEOREM CopiesWereInForce == PolicySpec => []CacheWasInForce
<1>1. PolicyInv => CacheWasInForce
    BY DEF PolicyInv
<1> QED BY <1>1, PolicyInitInv, PolicyNextInv, PTL DEF PolicySpec

-----------------------------------------------------------------------------
(***************************************************************************)
(* The scores.  RawTenths is the sum's fold over the set of indicators,    *)
(* one chosen at a time.                                                   *)
(***************************************************************************)
Tenths(i) == get_weight(i.type) * calculate_decay(i.age)

Chosen(s) == CHOOSE x \in s : TRUE

(* g is the fold over the subsets of S that have at most n elements.       *)
Folded(ind, S, n, g) ==
    g = [s \in {t \in SUBSET S : Cardinality(t) <= n} |->
           IF s = {} THEN 0 ELSE Tenths(ind[Chosen(s)]) + g[s \ {Chosen(s)}]]

LEMMA FoldsExist ==
    ASSUME NEW ind, NEW S, IsFiniteSet(S)
    PROVE  \A n \in Nat : \E g : Folded(ind, S, n, g)
<1> DEFINE N == {n \in Nat : \E g : Folded(ind, S, n, g)}
           Small(n) == {t \in SUBSET S : Cardinality(t) <= n}
<1>0. ASSUME NEW s \in SUBSET S
      PROVE  /\ Cardinality(s) \in Nat
             /\ s # {} => /\ Chosen(s) \in s /\ s \ {Chosen(s)} \in SUBSET S
                          /\ Cardinality(s \ {Chosen(s)}) = Cardinality(s) - 1
             /\ Cardinality(s) = 0 <=> s = {}
  <2>1. IsFiniteSet(s)
      BY FS_Subset
  <2>2. s # {} => Chosen(s) \in s
      BY Zenon DEF Chosen
  <2> QED BY <2>1, <2>2, FS_CardinalityType, FS_EmptySet, FS_RemoveElement
<1>1. 0 \in N
  <2> DEFINE g == [s \in {t \in SUBSET S : Cardinality(t) <= 0} |-> 0]
  <2>1. \A s \in {t \in SUBSET S : Cardinality(t) <= 0} : s = {}
    <3> SUFFICES ASSUME NEW s \in SUBSET S, Cardinality(s) <= 0 PROVE s = {}
        OBVIOUS
    <3>1. Cardinality(s) \in Nat
        BY <1>0
    <3>2. Cardinality(s) = 0
        BY <3>1
    <3> QED BY <3>2, <1>0
  <2>2. g = [s \in {t \in SUBSET S : Cardinality(t) <= 0} |->
               IF s = {} THEN 0 ELSE Tenths(ind[Chosen(s)]) + g[s \ {Chosen(s)}]]
      BY <2>1
  <2> HIDE DEF g
  <2> QED BY <2>2, Zenon DEF Folded
<1>2. ASSUME NEW n \in Nat, n \in N PROVE n + 1 \in N
  <2>1. PICK g : Folded(ind, S, n, g)
      BY <1>2
  <2> DEFINE h == [s \in Small(n + 1) |->
                     IF s \in Small(n) THEN g[s]
                     ELSE Tenths(ind[Chosen(s)]) + g[s \ {Chosen(s)}]]
  <2>2. ASSUME NEW s \in Small(n + 1)
        PROVE  h[s] = IF s = {} THEN 0 ELSE Tenths(ind[Chosen(s)]) + h[s \ {Chosen(s)}]
    <3>0. s \in SUBSET S /\ Cardinality(s) \in Nat /\ Cardinality(s) <= n + 1
        BY <1>0
    <3>1. CASE s = {}
      <4>1. s \in Small(n)
        <5>1. Cardinality(s) = 0
            BY <3>1, FS_EmptySet
        <5> QED BY <3>0, <5>1
      <4>2. g[s] = 0
          BY <2>1, <3>1, <4>1 DEF Folded
      <4> QED BY <3>1, <4>1, <4>2
    <3>2. CASE s # {}
      <4> DEFINE u == s \ {Chosen(s)}
      <4>1. u \in Small(n) /\ u \in Small(n + 1)
          BY <1>0, <3>0, <3>2
      <4>2. h[u] = g[u]
          BY <4>1
      <4>3. h[s] = Tenths(ind[Chosen(s)]) + g[u]
        <5>1. CASE s \in Small(n)
          <6>1. g[s] = Tenths(ind[Chosen(s)]) + g[u]
              BY <2>1, <3>2, <5>1 DEF Folded
          <6> QED BY <5>1, <6>1
        <5>2. CASE s \notin Small(n)
            BY <5>2
        <5> QED BY <5>1, <5>2
      <4> HIDE DEF h
      <4> QED BY <3>2, <4>2, <4>3
    <3> QED BY <3>1, <3>2
  <2>3. h = [s \in Small(n + 1) |-> h[s]]
      OBVIOUS
  <2> HIDE DEF h
  <2>4. Folded(ind, S, n + 1, h)
      BY <2>2, <2>3 DEF Folded
  <2> QED BY <2>4
<1>3. Nat \subseteq N
  <2> HIDE DEF N
  <2> QED BY <1>1, <1>2, SetInduction
<1> QED BY <1>3

AllFolded(ind, S, g) ==
    g = [s \in SUBSET S |-> IF s = {} THEN 0 ELSE Tenths(ind[Chosen(s)]) + g[s \ {Chosen(s)}]]

LEMMA RawIsFold ==
    ASSUME NEW ind, NEW S, IsFiniteSet(S)
    PROVE  \E g : RawTenths(ind, S) = g[S] /\ AllFolded(ind, S, g)
<1> DEFINE iter == CHOOSE g : g = [s \in SUBSET S |->
                     IF s = {} THEN 0 ELSE Tenths(ind[Chosen(s)]) + g[s \ {Chosen(s)}]]
<1>1. RawTenths(ind, S) = iter[S]
    BY Zenon DEF RawTenths, MapThenSumSet, MapThenFoldSet, Tenths, Chosen
<1>2. SUBSET S = {t \in SUBSET S : Cardinality(t) <= Cardinality(S)}
    BY FS_Subset
<1>3. \E g : g = [s \in SUBSET S |->
                     IF s = {} THEN 0 ELSE Tenths(ind[Chosen(s)]) + g[s \ {Chosen(s)}]]
  <2>1. Cardinality(S) \in Nat
      BY FS_CardinalityType
  <2>2. PICK g : Folded(ind, S, Cardinality(S), g)
      BY <2>1, FoldsExist, Zenon
  <2>3. g = [s \in SUBSET S |->
               IF s = {} THEN 0 ELSE Tenths(ind[Chosen(s)]) + g[s \ {Chosen(s)}]]
      BY <1>2, <2>2, Zenon DEF Folded
  <2> QED BY <2>3, Zenon
<1>4. iter = [s \in SUBSET S |->
                     IF s = {} THEN 0 ELSE Tenths(ind[Chosen(s)]) + iter[s \ {Chosen(s)}]]
    BY <1>3, Zenon
<1>5. AllFolded(ind, S, iter)
  <2> HIDE DEF iter
  <2> QED BY <1>4, Zenon DEF AllFolded
<1> HIDE DEF iter
<1> QED BY <1>1, <1>5

(* What the fold comes to: whichever element of a set is taken first, its  *)
(* tenths are added to those of the others.                                *)
SumOver(ind, S, g) ==
    /\ g \in [SUBSET S -> Nat] /\ g[{}] = 0
    /\ \A s \in SUBSET S : \A x \in s : g[s] = Tenths(ind[x]) + g[s \ {x}]

LEMMA RawIsSum ==
    ASSUME NEW ind, NEW S, IsFiniteSet(S), \A x \in S : Tenths(ind[x]) \in Nat
    PROVE  \E g : SumOver(ind, S, g) /\ RawTenths(ind, S) = g[S]
<1>0. PICK g : RawTenths(ind, S) = g[S] /\ AllFolded(ind, S, g)
    BY RawIsFold
<1>1. g = [s \in SUBSET S |-> IF s = {} THEN 0 ELSE Tenths(ind[Chosen(s)]) + g[s \ {Chosen(s)}]]
    BY <1>0, Zenon DEF AllFolded
<1> DEFINE Fine(s) == g[s] \in Nat /\ \A x \in s : g[s] = Tenths(ind[x]) + g[s \ {x}]
           N == {n \in Nat : \A s \in SUBSET S : Cardinality(s) <= n => Fine(s)}
<1>2. ASSUME NEW s \in SUBSET S
      PROVE  IsFiniteSet(s) /\ Cardinality(s) \in Nat
    BY FS_Subset, FS_CardinalityType
<1>3. 0 \in N
  <2> SUFFICES ASSUME NEW s \in SUBSET S, Cardinality(s) <= 0 PROVE Fine(s)
      OBVIOUS
  <2>1. s = {}
    <3>1. IsFiniteSet(s) /\ Cardinality(s) \in Nat
        BY <1>2
    <3>2. Cardinality(s) = 0
        BY <3>1
    <3> QED BY <3>1, <3>2, FS_EmptySet
  <2>2. g[s] = 0
      BY <1>1, <2>1
  <2> QED BY <2>1, <2>2
<1>4. ASSUME NEW n \in Nat, n \in N PROVE n + 1 \in N
  <2> SUFFICES ASSUME NEW s \in SUBSET S, Cardinality(s) = n + 1 PROVE Fine(s)
    <3>1. \A s \in SUBSET S : Cardinality(s) <= n + 1 => Cardinality(s) <= n \/ Cardinality(s) = n + 1
      <4> SUFFICES ASSUME NEW s \in SUBSET S, Cardinality(s) <= n + 1
                   PROVE  Cardinality(s) <= n \/ Cardinality(s) = n + 1
          OBVIOUS
      <4>1. Cardinality(s) \in Nat
          BY <1>2
      <4> QED BY <4>1
    <3> QED BY <1>4, <3>1
  <2>0. ASSUME NEW x \in s PROVE s \ {x} \in SUBSET S /\ Fine(s \ {x}) /\ Tenths(ind[x]) \in Nat
    <3>1. Cardinality(s \ {x}) <= n
        BY <1>2, FS_RemoveElement
    <3> QED BY <1>4, <3>1
  <2> DEFINE y == Chosen(s)
  <2>1. s # {} /\ y \in s
    <3>1. s # {}
        BY FS_EmptySet
    <3> QED BY <3>1, Zenon DEF Chosen
  <2>2. g[s] = Tenths(ind[y]) + g[s \ {y}]
      BY <1>1, <2>1
  <2> HIDE DEF y
  <2>3. g[s] \in Nat
    <3>1. g[s \ {y}] \in Nat /\ Tenths(ind[y]) \in Nat
        BY <2>0, <2>1
    <3> QED BY <2>2, <3>1
  <2>4. ASSUME NEW x \in s PROVE g[s] = Tenths(ind[x]) + g[s \ {x}]
    <3>1. CASE x = y
        BY <2>2, <3>1
    <3>2. CASE x # y
      <4>1. x \in s \ {y} /\ y \in s \ {x} /\ (s \ {x}) \ {y} = (s \ {y}) \ {x}
          BY <2>1, <3>2
      <4>2. g[s \ {y}] = Tenths(ind[x]) + g[(s \ {y}) \ {x}]
          BY <2>0, <2>1, <4>1
      <4>3. g[s \ {x}] = Tenths(ind[y]) + g[(s \ {y}) \ {x}]
          BY <2>0, <4>1
      <4>4. /\ Tenths(ind[x]) \in Nat /\ Tenths(ind[y]) \in Nat
            /\ g[s \ {x}] \in Nat /\ g[s \ {y}] \in Nat
          BY <2>0, <2>1
      <4>5. g[(s \ {y}) \ {x}] \in Nat
        <5>1. IsFiniteSet(s \ {y}) /\ Cardinality(s \ {y}) <= n
            BY <1>2, <2>1, FS_RemoveElement
        <5>2. Cardinality((s \ {y}) \ {x}) <= n
          <6>1. IsFiniteSet((s \ {y}) \ {x}) /\ Cardinality((s \ {y}) \ {x}) <= Cardinality(s \ {y})
              BY <5>1, FS_Subset
          <6> QED BY <5>1, <6>1, FS_CardinalityType
        <5> QED BY <1>4, <5>2
      <4> DEFINE rest == g[(s \ {y}) \ {x}]
                 others == g[s \ {x}]
                 tx == Tenths(ind[x])
                 ty == Tenths(ind[y])
      <4>6. g[s] = ty + (tx + rest) /\ others = ty + rest /\ rest \in Nat /\ tx \in Nat /\ ty \in Nat
          BY <2>2, <4>2, <4>3, <4>4, <4>5
      <4>7. g[s] = tx + others
        <5> HIDE DEF rest, others, tx, ty
        <5> QED BY <4>6
      <4> QED BY <4>7
    <3> QED BY <3>1, <3>2
  <2> QED BY <2>3, <2>4
<1>5. Nat \subseteq N
  <2> HIDE DEF N
  <2> QED BY <1>3, <1>4, SetInduction
<1>6. ASSUME NEW s \in SUBSET S PROVE Fine(s)
  <2>1. Cardinality(s) \in N /\ Cardinality(s) <= Cardinality(s)
      BY <1>2, <1>5
  <2> QED BY <2>1
<1>7. g[{}] = 0
    BY <1>1
<1>8. g \in [SUBSET S -> Nat]
  <2>1. g = [s \in SUBSET S |-> g[s]]
      BY <1>1
  <2> QED BY <1>6, <2>1
<1>9. SumOver(ind, S, g)
    BY <1>6, <1>7, <1>8 DEF SumOver
<1> QED BY <1>0, <1>9
(***************************************************************************)
(* A sum is no more than another if every indicator that counts has one of *)
(* its own there that counts no less.                                      *)
(***************************************************************************)
Matched(ind, S, old, T, h) ==
    /\ \A x \in S : Tenths(ind[x]) > 0 => h[x] \in T /\ Tenths(ind[x]) <= Tenths(old[h[x]])
    /\ \A x, z \in S : Tenths(ind[x]) > 0 /\ Tenths(ind[z]) > 0 /\ h[x] = h[z] => x = z

Countable(ind, S) == IsFiniteSet(S) /\ \A x \in S : Tenths(ind[x]) \in Nat

LEMMA RawCompare ==
    ASSUME NEW ind, NEW S, NEW old, NEW T, NEW h,
           Countable(ind, S), Countable(old, T), Matched(ind, S, old, T, h)
    PROVE  /\ RawTenths(ind, S) \in Nat /\ RawTenths(old, T) \in Nat
           /\ RawTenths(ind, S) <= RawTenths(old, T)
<1>1. PICK g : SumOver(ind, S, g) /\ RawTenths(ind, S) = g[S]
    BY RawIsSum DEF Countable
<1>2. PICK k : SumOver(old, T, k) /\ RawTenths(old, T) = k[T]
    BY RawIsSum DEF Countable
<1>3. /\ \A s \in SUBSET S : g[s] \in Nat
      /\ \A t \in SUBSET T : k[t] \in Nat
    BY <1>1, <1>2 DEF SumOver
<1> DEFINE Below(s, t) == (\A x \in s : Tenths(ind[x]) > 0 => h[x] \in t) => g[s] <= k[t]
           N == {n \in Nat : \A s \in SUBSET S, t \in SUBSET T : Cardinality(s) = n => Below(s, t)}
<1>4. ASSUME NEW s \in SUBSET S
      PROVE  IsFiniteSet(s) /\ Cardinality(s) \in Nat
    BY FS_Subset, FS_CardinalityType DEF Countable
<1>5. 0 \in N
  <2> SUFFICES ASSUME NEW s \in SUBSET S, NEW t \in SUBSET T, Cardinality(s) = 0 PROVE g[s] <= k[t]
      OBVIOUS
  <2>1. s = {}
      BY <1>4, FS_EmptySet
  <2>2. g[s] = 0
      BY <1>1, <2>1 DEF SumOver
  <2> QED BY <1>3, <2>2
<1>6. ASSUME NEW n \in Nat, n \in N PROVE n + 1 \in N
  <2> SUFFICES ASSUME NEW s \in SUBSET S, NEW t \in SUBSET T, Cardinality(s) = n + 1,
                      \A x \in s : Tenths(ind[x]) > 0 => h[x] \in t
               PROVE  g[s] <= k[t]
      OBVIOUS
  <2>1. PICK x \in s : TRUE
    <3>1. s # {}
        BY FS_EmptySet
    <3> QED BY <3>1
  <2>2. Cardinality(s \ {x}) = n
    <3>1. IsFiniteSet(s)
        BY <1>4
    <3>2. Cardinality(s \ {x}) = Cardinality(s) - 1
        BY <3>1, FS_RemoveElement
    <3> QED BY <3>2
  <2>3. g[s] = Tenths(ind[x]) + g[s \ {x}] /\ g[s \ {x}] \in Nat /\ Tenths(ind[x]) \in Nat
      BY <1>1, <1>3 DEF SumOver, Countable
  <2>4. CASE Tenths(ind[x]) = 0
    <3>1. Below(s \ {x}, t)
        BY <1>6, <2>2
    <3>2. g[s \ {x}] <= k[t]
        BY <3>1
    <3> QED BY <2>3, <2>4, <3>2
  <2>5. CASE Tenths(ind[x]) > 0
    <3> DEFINE y == h[x]
    <3>1. y \in t /\ y \in T /\ Tenths(ind[x]) <= Tenths(old[y]) /\ Tenths(old[y]) \in Nat
        BY <2>5 DEF Matched, Countable
    <3>2. k[t] = Tenths(old[y]) + k[t \ {y}] /\ k[t \ {y}] \in Nat
        BY <1>2, <1>3, <3>1 DEF SumOver
    <3>3. \A z \in s \ {x} : Tenths(ind[z]) > 0 => h[z] \in t \ {y}
        BY <2>5 DEF Matched
    <3>4. g[s \ {x}] <= k[t \ {y}]
      <4> HIDE DEF y
      <4>1. Below(s \ {x}, t \ {y})
          BY <1>6, <2>2
      <4> QED BY <3>3, <4>1
    <3> HIDE DEF y
    <3> QED BY <2>3, <3>1, <3>2, <3>4
  <2> QED BY <2>3, <2>4, <2>5
<1>7. Nat \subseteq N
  <2> HIDE DEF N
  <2> QED BY <1>5, <1>6, SetInduction
<1>8. Below(S, T)
  <2>1. Cardinality(S) \in N
      BY <1>4, <1>7
  <2> QED BY <2>1
<1>9. g[S] <= k[T]
    BY <1>8 DEF Matched
<1> QED BY <1>1, <1>2, <1>3, <1>9
(***************************************************************************)
(* The score: its terms, its truncation and its cap.                       *)
(***************************************************************************)
LEMMA WeightIsNat == ASSUME NEW t PROVE get_weight(t) \in Nat
BY DEF get_weight, IOA_WEIGHTS

LEMMA DecayFalls ==
    ASSUME NEW a \in Nat, NEW b \in Nat, a <= b
    PROVE  /\ calculate_decay(a) \in {1, 4, 7, 10} /\ calculate_decay(b) \in {1, 4, 7, 10}
           /\ calculate_decay(b) <= calculate_decay(a)
BY ScoringAssumption DEF calculate_decay

LEMMA TenthsFall ==
    ASSUME NEW i, NEW j, i.type = j.type, i.age \in Nat, j.age \in Nat, i.age >= j.age
    PROVE  /\ Tenths(i) \in Nat /\ Tenths(i) <= Tenths(j)
           /\ Tenths(i) > 0 <=> get_weight(i.type) > 0
<1>1. PICK w \in Nat : w = get_weight(i.type)
    BY WeightIsNat
<1>2. PICK d \in {1, 4, 7, 10}, e \in {1, 4, 7, 10} :
          d = calculate_decay(i.age) /\ e = calculate_decay(j.age) /\ d <= e
    BY DecayFalls
<1>3. Tenths(i) = w * d /\ Tenths(j) = w * e
    BY <1>1, <1>2 DEF Tenths
<1>4. w * d \in Nat /\ w * d <= w * e /\ (w * d > 0 <=> w > 0)
    BY <1>1, <1>2
<1> QED BY <1>1, <1>3, <1>4

LEMMA DivTen ==
    ASSUME NEW r \in Nat, NEW q \in Nat, r <= q
    PROVE  r \div 10 \in Nat /\ r \div 10 <= q \div 10
           /\ 10 * (r \div 10) <= r /\ r <= 10 * (r \div 10) + 9
OBVIOUS

Indicator == [type : ReportedTypes, age : Nat]

LEMMA TenthsTyped ==
    ASSUME NEW ind, NEW n \in Nat, \A x \in 1..n : ind[x] \in Indicator
    PROVE  Countable(ind, 1..n)
<1>1. IsFiniteSet(1..n)
    BY FS_Interval
<1>2. ASSUME NEW x \in 1..n PROVE Tenths(ind[x]) \in Nat
    BY TenthsFall DEF Indicator
<1> QED BY <1>1, <1>2 DEF Countable

Scores(ind, n) == {x \in 1..n : get_weight(ind[x].type) > 0}

LEMMA ScoreCompare ==
    ASSUME NEW ind, NEW n \in Nat, \A x \in 1..n : ind[x] \in Indicator,
           NEW old, NEW m \in Nat, \A x \in 1..m : old[x] \in Indicator,
           NEW h, Matched(ind, 1..n, old, 1..m, h)
    PROVE  calculate_score(ind, 1..n) <= calculate_score(old, 1..m)
<1>1. Countable(ind, 1..n) /\ Countable(old, 1..m) /\ Countable(old, {})
  <2>1. Countable(old, {})
      BY FS_EmptySet DEF Countable
  <2> QED BY <2>1, TenthsTyped
<1> DEFINE r == RawTenths(ind, 1..n)
           q == RawTenths(old, 1..m)
<1>2. r \in Nat /\ q \in Nat /\ r <= q
    BY <1>1, RawCompare
<1>3. ASSUME NEW x \in 1..n
      PROVE  x \in Scores(ind, n) <=> Tenths(ind[x]) > 0
    BY TenthsFall DEF Scores, Indicator
<1>4. ASSUME NEW x \in 1..m
      PROVE  x \in Scores(old, m) <=> Tenths(old[x]) > 0
    BY TenthsFall DEF Scores, Indicator
<1>5. r # 0 => Scores(ind, n) # {}
  <2> SUFFICES ASSUME Scores(ind, n) = {} PROVE r = 0
      OBVIOUS
  <2>1. \A x \in 1..n : ~(Tenths(ind[x]) > 0)
      BY <1>3
  <2>2. Matched(ind, 1..n, old, {}, h)
      BY <2>1 DEF Matched
  <2>3. r <= RawTenths(old, {}) /\ RawTenths(old, {}) \in Nat
      BY <1>1, <2>2, RawCompare
  <2>4. PICK g : SumOver(old, {}, g) /\ RawTenths(old, {}) = g[{}]
      BY <1>1, RawIsSum DEF Countable
  <2>5. RawTenths(old, {}) = 0
      BY <2>4 DEF SumOver
  <2> QED BY <1>2, <2>3, <2>5
<1>6. r # 0 /\ Cardinality(Scores(old, m)) = 1 => Cardinality(Scores(ind, n)) = 1
  <2> SUFFICES ASSUME r # 0, Cardinality(Scores(old, m)) = 1
               PROVE  Cardinality(Scores(ind, n)) = 1
      OBVIOUS
  <2>1. IsFiniteSet(Scores(old, m))
    <3>1. IsFiniteSet(1..m) /\ Scores(old, m) \in SUBSET (1..m)
        BY FS_Interval DEF Scores
    <3> QED BY <3>1, FS_Subset
  <2>2. PICK k : Scores(old, m) = {k}
      BY <2>1, FS_Singleton
  <2>3. PICK x : x \in Scores(ind, n)
      BY <1>5
  <2>4. ASSUME NEW z \in Scores(ind, n) PROVE h[z] = k
    <3>1. z \in 1..n /\ Tenths(ind[z]) > 0
        BY <1>3 DEF Scores
    <3>2. h[z] \in 1..m /\ Tenths(ind[z]) <= Tenths(old[h[z]])
        BY <3>1 DEF Matched
    <3>3. Tenths(ind[z]) \in Nat /\ Tenths(old[h[z]]) \in Nat
        BY <1>1, <3>1, <3>2 DEF Countable
    <3>4. Tenths(old[h[z]]) > 0
        BY <3>1, <3>2, <3>3
    <3> QED BY <1>4, <2>2, <3>2, <3>4
  <2>5. ASSUME NEW z \in Scores(ind, n) PROVE z = x
    <3>1. z \in 1..n /\ x \in 1..n /\ Tenths(ind[z]) > 0 /\ Tenths(ind[x]) > 0
        BY <1>3, <2>3 DEF Scores
    <3> QED BY <2>3, <2>4, <3>1 DEF Matched
  <2>6. Scores(ind, n) = {x}
      BY <2>3, <2>5
  <2> QED BY <2>6, FS_Singleton
<1>7. IntOfRaw(ind, 1..n) <= IntOfRaw(old, 1..m) /\ IntOfRaw(ind, 1..n) \in Nat /\ IntOfRaw(old, 1..m) \in Nat
  <2>1. /\ IntOfRaw(ind, 1..n) = IF Cardinality(Scores(ind, n)) = 1 /\ r = 630 THEN 62 ELSE r \div 10
        /\ IntOfRaw(old, 1..m) = IF Cardinality(Scores(old, m)) = 1 /\ q = 630 THEN 62 ELSE q \div 10
      BY Zenon DEF IntOfRaw, Scores
  <2> HIDE DEF r, q
  <2> QED BY <1>2, <1>6, <2>1
<1> QED BY <1>7 DEF calculate_score, Capped
(***************************************************************************)
(* A history's indicators are a sequence of known types and ages.          *)
(***************************************************************************)
HistoryInv == indicators \in Seq(Indicator)

LEMMA HistoryTyped ==
    ASSUME HistoryInv
    PROVE  /\ Len(indicators) \in Nat /\ All = 1..Len(indicators)
           /\ \A x \in 1..Len(indicators) : indicators[x] \in Indicator
BY LenProperties, ElementOfSeq DEF HistoryInv, All

LEMMA ReportKeeps ==
    ASSUME HistoryInv, NEW t \in ReportedTypes, Report(t)
    PROVE  HistoryInv' /\ Score' >= Score
<1> DEFINE n == Len(indicators)
           e == [type |-> t, age |-> 0]
           h == [x \in 1..n |-> x]
<1>1. n \in Nat /\ All = 1..n /\ \A x \in 1..n : indicators[x] \in Indicator
    BY HistoryTyped
<1>2. e \in Indicator
    BY DEF Indicator
<1>3. indicators' = Append(indicators, e)
    BY DEF Report
<1>4. /\ indicators' \in Seq(Indicator) /\ Len(indicators') = n + 1
      /\ \A x \in 1..n : indicators'[x] = indicators[x]
  <2> HIDE DEF e
  <2> QED BY <1>2, <1>3, AppendProperties DEF HistoryInv
<1>5. HistoryInv'
    BY <1>4 DEF HistoryInv
<1>6. All' = 1..(n + 1) /\ \A x \in 1..(n + 1) : indicators'[x] \in Indicator
    BY <1>4, LenProperties, ElementOfSeq DEF All
<1>7. Matched(indicators, 1..n, indicators', 1..(n + 1), h)
  <2>1. ASSUME NEW x \in 1..n
        PROVE  /\ h[x] = x /\ x \in 1..(n + 1)
               /\ Tenths(indicators[x]) \in Nat /\ Tenths(indicators'[x]) = Tenths(indicators[x])
    <3>1. x \in 1..(n + 1) /\ h[x] = x
        BY <1>1
    <3>2. Tenths(indicators[x]) \in Nat
        BY <1>1, TenthsTyped DEF Countable
    <3> QED BY <1>4, <3>1, <3>2
  <2> HIDE DEF h, n
  <2> QED BY <2>1 DEF Matched
<1>8. calculate_score(indicators, 1..n) <= calculate_score(indicators', 1..(n + 1))
  <2> HIDE DEF h, n
  <2> QED BY <1>1, <1>6, <1>7, ScoreCompare
<1>9. Score = calculate_score(indicators, 1..n) /\ Score' = calculate_score(indicators', 1..(n + 1))
    BY <1>1, <1>6 DEF Score
<1> QED BY <1>5, <1>8, <1>9
LEMMA FunctionIsSeq ==
    ASSUME NEW S, NEW n \in Nat, NEW f \in [1..n -> S]
    PROVE  f \in Seq(S) /\ Len(f) = n /\ DOMAIN f = 1..n
OBVIOUS

(* Indicators that only change their age stay where they are.              *)
LEMMA AgesChange ==
    ASSUME NEW ind, NEW old, NEW n \in Nat,
           \A x \in 1..n : ind[x] \in Indicator /\ old[x] \in Indicator,
           \A x \in 1..n : ind[x].type = old[x].type /\ ind[x].age >= old[x].age
    PROVE  calculate_score(ind, 1..n) <= calculate_score(old, 1..n)
<1> DEFINE h == [x \in 1..n |-> x]
<1>1. ASSUME NEW x \in 1..n
      PROVE  h[x] = x /\ Tenths(ind[x]) <= Tenths(old[x])
    BY TenthsFall DEF Indicator
<1>2. Matched(ind, 1..n, old, 1..n, h)
  <2> HIDE DEF h
  <2> QED BY <1>1 DEF Matched
<1> HIDE DEF h
<1> QED BY <1>2, ScoreCompare

LEMMA RefreshKeeps ==
    ASSUME HistoryInv, NEW i \in All, Refresh(i)
    PROVE  HistoryInv' /\ Score' >= Score
<1> DEFINE n == Len(indicators)
<1>1. n \in Nat /\ All = 1..n /\ i \in 1..n /\ \A x \in 1..n : indicators[x] \in Indicator
    BY HistoryTyped
<1>2. PICK e \in Indicator : e = [indicators[i] EXCEPT !.age = 0]
    BY <1>1 DEF Indicator
<1>3. e.type = indicators[i].type /\ e.age = 0
    BY <1>1, <1>2 DEF Indicator
<1>4. indicators' = [indicators EXCEPT ![i] = e]
    BY <1>2 DEF Refresh
<1>5. /\ indicators' \in Seq(Indicator) /\ Len(indicators') = n
      /\ \A x \in 1..n : indicators'[x] = IF x = i THEN e ELSE indicators[x]
    BY <1>1, <1>4, ExceptSeq DEF HistoryInv
<1>6. All' = 1..n /\ \A x \in 1..n : indicators'[x] \in Indicator
    BY <1>5, LenProperties, ElementOfSeq DEF All
<1>7. \A x \in 1..n : indicators[x].type = indicators'[x].type /\ indicators[x].age >= indicators'[x].age
  <2> SUFFICES ASSUME NEW x \in 1..n
               PROVE  /\ indicators[x].type = indicators'[x].type
                      /\ indicators[x].age >= indicators'[x].age
      OBVIOUS
  <2>1. indicators[x].age \in Nat
      BY <1>1 DEF Indicator
  <2>2. CASE x = i
      BY <1>3, <1>5, <2>1, <2>2
  <2>3. CASE x # i
      BY <1>5, <2>1, <2>3
  <2> QED BY <2>2, <2>3
<1>8. calculate_score(indicators, 1..n) <= calculate_score(indicators', 1..n)
  <2> HIDE DEF n
  <2> QED BY <1>1, <1>6, <1>7, AgesChange
<1> QED BY <1>1, <1>5, <1>6, <1>8 DEF Score, HistoryInv

LEMMA PassKeeps ==
    ASSUME HistoryInv, Pass
    PROVE  HistoryInv' /\ Score' <= Score
<1> DEFINE n == Len(indicators)
<1>1. n \in Nat /\ All = 1..n /\ \A x \in 1..n : indicators[x] \in Indicator
    BY HistoryTyped
<1>2. ASSUME NEW x \in 1..n
      PROVE  /\ indicators'[x] \in Indicator /\ indicators'[x].type = indicators[x].type
             /\ indicators'[x].age >= indicators[x].age
  <2>1. indicators[x].age \in Nat /\ indicators[x].type \in ReportedTypes
      BY <1>1 DEF Indicator
  <2>2. PICK a \in Nat : a >= indicators[x].age
                         /\ a = IF indicators[x].age <= DecayOld THEN indicators[x].age + 1 ELSE indicators[x].age
      BY <2>1
  <2>3. indicators'[x] = [indicators[x] EXCEPT !.age = a]
      BY <1>1, <2>2 DEF Pass
  <2> QED BY <1>1, <2>1, <2>2, <2>3 DEF Indicator
<1>3. indicators' \in [1..n -> Indicator]
    BY <1>1, <1>2 DEF Pass
<1>4. indicators' \in Seq(Indicator) /\ All' = 1..n
  <2> HIDE DEF n
  <2> QED BY <1>1, <1>3, FunctionIsSeq DEF All
<1>5. calculate_score(indicators', 1..n) <= calculate_score(indicators, 1..n)
  <2> HIDE DEF n
  <2> QED BY <1>1, <1>2, AgesChange
<1> QED BY <1>1, <1>4, <1>5 DEF Score, HistoryInv

LEMMA CloseKeeps ==
    ASSUME HistoryInv, NEW i \in All, CloseIncident(i)
    PROVE  HistoryInv' /\ Score' <= Score
<1> DEFINE n == Len(indicators)
           m == n - 1
           h == [j \in 1..m |-> IF j < i THEN j ELSE j + 1]
<1>1. n \in Nat /\ All = 1..n /\ i \in 1..n /\ \A x \in 1..n : indicators[x] \in Indicator
    BY HistoryTyped
<1>2. m \in Nat /\ indicators' = [j \in 1..m |-> indicators[IF j < i THEN j ELSE j + 1]]
    BY <1>1 DEF CloseIncident
<1>3. ASSUME NEW j \in 1..m
      PROVE  h[j] \in 1..n /\ indicators'[j] = indicators[h[j]] /\ indicators'[j] \in Indicator
    BY <1>1, <1>2
<1>4. ASSUME NEW j \in 1..m, NEW k \in 1..m, h[j] = h[k] PROVE j = k
    BY <1>1, <1>4
<1>5. indicators' \in Seq(Indicator) /\ All' = 1..m
  <2>1. indicators' \in [1..m -> Indicator]
      BY <1>2, <1>3
  <2> HIDE DEF m
  <2> QED BY <1>2, <2>1, FunctionIsSeq DEF All
<1>6. Matched(indicators', 1..m, indicators, 1..n, h)
  <2>1. ASSUME NEW j \in 1..m
        PROVE  Tenths(indicators'[j]) \in Nat /\ Tenths(indicators'[j]) <= Tenths(indicators[h[j]])
    <3>1. Tenths(indicators'[j]) \in Nat /\ indicators'[j] = indicators[h[j]]
        BY <1>3, TenthsFall DEF Indicator
    <3> QED BY <3>1
  <2> HIDE DEF h, m, n
  <2> QED BY <1>3, <1>4, <2>1 DEF Matched
<1>7. calculate_score(indicators', 1..m) <= calculate_score(indicators, 1..n)
  <2> HIDE DEF h, m, n
  <2> QED BY <1>1, <1>2, <1>3, <1>6, ScoreCompare
<1> QED BY <1>1, <1>5, <1>7 DEF Score, HistoryInv

LEMMA HistoryInitInv == HistoryInit => HistoryInv
BY DEF HistoryInit, HistoryInv

LEMMA HistoryStepInv == HistoryInv /\ [HistoryNext]_indicators => HistoryInv'
<1>1. ASSUME HistoryInv, HistoryNext PROVE HistoryInv'
    BY <1>1, ReportKeeps, RefreshKeeps, CloseKeeps, PassKeeps DEF HistoryNext
<1>2. ASSUME HistoryInv, UNCHANGED indicators PROVE HistoryInv'
    BY <1>2 DEF HistoryInv
<1> QED BY <1>1, <1>2

(***************************************************************************)
(* Whatever has been reported and however old it is, another detection or  *)
(* a repeated one does not lower the score.                                *)
(***************************************************************************)
THEOREM NewsDoesNotLower == HistorySpec => NewsNeverLowers
<1>1. HistoryInv => [(\E t \in ReportedTypes : Report(t)) \/ (\E i \in All : Refresh(i))
                       => Score' >= Score]_indicators
    BY ReportKeeps, RefreshKeeps
<1> QED BY <1>1, HistoryInitInv, HistoryStepInv, PTL DEF HistorySpec, NewsNeverLowers

(***************************************************************************)
(* Nor does time or a proctor's review raise it.                           *)
(***************************************************************************)
THEOREM RestDoesNotRaise == HistorySpec => RestNeverRaises
<1>1. HistoryInv => [Pass \/ (\E i \in All : CloseIncident(i)) => Score' <= Score]_indicators
    BY PassKeeps, CloseKeeps
<1> QED BY <1>1, HistoryInitInv, HistoryStepInv, PTL DEF HistorySpec, RestNeverRaises
=============================================================================
