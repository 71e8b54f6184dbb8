------------------------------ MODULE PartsMC ------------------------------
(***************************************************************************)
(* The small components, which share no state, side by side for TLC: each  *)
(* behaviour is one part's, and the variables of the others keep their     *)
(* first values.  The cache has two parts: by itself, under all faults and *)
(* with replays, and as the client uses it; of the incident pipeline, which *)
(* has runs of its own, there is an instance with more room for rows.      *)
(***************************************************************************)
EXTENDS GrpcClient, NetworkMonitor, Watchdog, WebSocketHub, ScoringEngineMC, Enrollment,
        SettingsForm, IncidentService

CONSTANTS c1, c2, cdn, rig, chat, docs, nowhere, d1, d2, d3, ctf

VARIABLE part

(* An endpoint that several domains share, and one on a private address.   *)
TheConns == {c1, c2}
TheIpOf(c) == IF c = c2 THEN rig ELSE cdn
TheLocalAI(c) == c = c2
TheReverseName(ip) == nowhere
TheLists == {{chat}, {docs}}

(* Two dashboards on the competition, one on the global channel.           *)
TheSockets == {d1, d2, d3}
TheChannelOf(w) == IF w = d3 THEN "global" ELSE ctf

(* m1 gives a team only, m2 the team and its name once more.  eve is a     *)
(* team mate, whom only proctors know.                                     *)
TheToken(a) == [team |-> "red", name |-> IF a = "m1" THEN NoTokenName ELSE "red"]
TheEditNames == {[handle |-> h, team |-> "red"] : h \in {"red", "eve"}}

agentVars == <<allVars, networkVars, watchdogVars>>
serverVars == <<hubVars, indicators, enrolVars, settingsVars, pipelineVars>>
partsVars == <<part, agentVars, serverVars>>

Still(p, vars) == IF part = p THEN TRUE ELSE UNCHANGED vars

(* The parts that stand still begin in one of their initial states only.   *)
PartsInit ==
    /\ part \in {"cache", "client", "network", "watchdog", "hub", "scores", "enrol",
                 "settings", "pipeline"}
    /\ ClientInit /\ NetworkInit /\ WatchdogInit
    /\ HubInit /\ HistoryInit /\ EnrolInit /\ SettingsInit /\ Init
    /\ part # "network" => watchlist = CHOOSE list \in AIDomains : TRUE
    /\ part # "watchdog" => /\ machine = CHOOSE m \in Machines : TRUE
                            /\ agentPID = CHOOSE p \in Pids : TRUE
    /\ part # "settings" => visited = "settings"

(* Three requests and one other event, or two of each.                     *)
SettingsBound == settingsSent + settingsEvents <= 4

AgentNext ==
    /\ \/ part = "cache" /\ CacheNext /\ UNCHANGED clientVars
       \/ part = "client" /\ ClientNext
       \/ part = "network" /\ NetworkNext
       \/ part = "watchdog" /\ WatchdogNext
    /\ part \notin {"cache", "client"} => UNCHANGED allVars
    /\ Still("network", networkVars)
    /\ Still("watchdog", watchdogVars)
    /\ UNCHANGED <<part, serverVars>>

ServerNext ==
    /\ \/ part = "hub" /\ HubNext
       \/ part = "scores" /\ HistoryNext
       \/ part = "enrol" /\ EnrolNext
       \/ part = "settings" /\ SettingsNext /\ SettingsBound'
       \/ part = "pipeline" /\ IncidentNext
    /\ Still("hub", hubVars) /\ Still("scores", indicators) /\ Still("enrol", enrolVars)
    /\ Still("settings", settingsVars) /\ Still("pipeline", pipelineVars)
    /\ UNCHANGED <<part, agentVars>>

PartsNext == AgentNext \/ ServerNext

PartsSpec == PartsInit /\ [][PartsNext]_partsVars
=============================================================================
