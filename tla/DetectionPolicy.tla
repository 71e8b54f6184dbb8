--------------------------- MODULE DetectionPolicy ---------------------------
(***************************************************************************)
(* The global detection policy on its way from the proctors to the agents. *)
(* Proctors read and write its row (server/app/api/policy.py); every API   *)
(* process judges reports by a copy of it (ScoringEngine's dynamic_domains *)
(* and dynamic_processes), which it takes from whatever request read the   *)
(* row last; an agent watches for the names it was last sent, by the       *)
(* answer to a heartbeat (server/app/grpc/server.py) or by its own GET     *)
(* (FetchGlobalPolicy, agent/internal/config/config.go).                   *)
(*                                                                         *)
(* A request is a coroutine: a statement of its session is a step, and so  *)
(* is what it does with the result, so what it applies may be out of date. *)
(* The rules on file extensions are a third column that takes the same     *)
(* way as the two modelled here.                                           *)
(***************************************************************************)
EXTENDS Naturals, FiniteSets

CONSTANTS
    Servers,      \* API processes
    Proctors,     \* requests of the dashboard that can be in progress at once
    Lists,        \* rule lists: names -> actions
    Updates,      \* bound: the policies that proctors send
    Parents(_),   \* Parents(n): the domains that n is a subdomain of
    Critical,     \* CRITICAL_AI_DOMAINS
    High,         \* HIGH_AI_DOMAINS
    Builtin,      \* the names the agent watches for by default
    NoPolicy,     \* the table is empty
    MaxPuts,      \* bound on the updates
    MaxRestarts   \* bound on the restarts of processes and agent

Actions == {"ESCALATE", "WARN", "LOG_ONLY"}

NoRules == [n \in {} |-> "WARN"]

ASSUME PolicyAssumption ==
    /\ IsFiniteSet(Servers) /\ Servers # {}
    /\ IsFiniteSet(Proctors) /\ Proctors \cap {"fetch", "heartbeat"} = {}
    /\ \A list \in Lists : \A n \in DOMAIN list : list[n] \in Actions
    /\ NoPolicy \notin [{"domains", "processes"} -> Lists \union {NoRules}]
    /\ Updates \subseteq [domains : Lists \union {NoRules}, processes : Lists \union {NoRules}]
    /\ MaxPuts \in Nat /\ MaxRestarts \in Nat

Policies == [domains : Lists \union {NoRules}, processes : Lists \union {NoRules}]
Default  == [domains |-> NoRules, processes |-> NoRules]

Requests == Proctors \union {"fetch", "heartbeat"}

VARIABLES
    row,          \* the SystemPolicy row
    past,         \* every policy the row has held
    cache,        \* cache[s]: what process s judges by
    request,      \* request[r]: where it is, in which process, what it read
    agent,        \* the names the agent watches for
    home,         \* the process that its gRPC connection goes to
    puts,         \* updates begun
    restarts      \* restarts so far

policyVars == <<row, past, cache, request, agent, home, puts, restarts>>

Free == [at |-> "free"]

RequestAt(r, label) == request[r].at = label
MoveRequest(r, label) == request' = [request EXCEPT ![r].at = label]
Done(r) == request' = [request EXCEPT ![r] = Free]

Store(policy) == row' = policy /\ past' = past \union {policy}

-----------------------------------------------------------------------------
(***************************************************************************)
(* Judging a report.                                                       *)
(***************************************************************************)
(* An exact match wins; among rules for its parents, the first in the      *)
(* list: the order is left open.                                           *)
RulesFor(rules, n) ==
    IF n \in DOMAIN rules THEN {rules[n]}
    ELSE {rules[d] : d \in Parents(n) \cap DOMAIN rules}

Verdict(action) ==
    CASE action = "ESCALATE" -> "NETWORK_AI_CRITICAL"
      [] action = "WARN" -> "NETWORK_AI_HIGH"
      [] OTHER -> "none"

Hardcoded(n) ==
    IF n \in Critical THEN "NETWORK_AI_CRITICAL"
    ELSE IF n \in High THEN "NETWORK_AI_HIGH"
    ELSE IF Parents(n) \cap Critical # {} THEN "NETWORK_AI_CRITICAL"
    ELSE IF Parents(n) \cap High # {} THEN "NETWORK_AI_HIGH" ELSE "none"

(* What a connection to n may be recorded as.                              *)
classify_network_event(policy, n) ==
    IF RulesFor(policy.domains, n) = {} THEN {Hardcoded(n)}
    ELSE {Verdict(a) : a \in RulesFor(policy.domains, n)}

(* What a process is recorded as, that the agent puts into a category.     *)
classify_process(policy, category, n) ==
    IF n \notin DOMAIN policy.processes
    THEN CASE category = "EVASION" -> "PROXY_VPN"
           [] category \in {"AI_EDITOR", "LOCAL_LLM", "AI_AGENT"} -> category
           [] OTHER -> "none"
    ELSE CASE policy.processes[n] = "ESCALATE" -> "AI_AGENT"
           [] policy.processes[n] = "WARN" -> "AI_EDITOR"
           [] OTHER -> "none"

-----------------------------------------------------------------------------
(***************************************************************************)
(* Reading: GET /api/policy, from the dashboard or the agent, and the end  *)
(* of the Heartbeat handler.                                               *)
(***************************************************************************)
StartRead(r, s) ==
    /\ RequestAt(r, "free")
    /\ r = "heartbeat" => s = home
    /\ request' = [request EXCEPT ![r] = [at |-> "select", server |-> s, policy |-> NoPolicy]]
    /\ UNCHANGED <<row, past, cache, agent, home, puts, restarts>>

(* A heartbeat leaves an empty table as it is, a GET fills it.             *)
SelectPolicy(r) ==
    /\ RequestAt(r, "select")
    /\ IF row # NoPolicy
       THEN request' = [request EXCEPT ![r].at = "apply", ![r].policy = row]
       ELSE IF r = "heartbeat" THEN Done(r) ELSE MoveRequest(r, "create")
    /\ UNCHANGED <<row, past, cache, agent, home, puts, restarts>>

(* INSERT the default with id = 1; a second INSERT breaks the primary key. *)
CreateDefault(r) ==
    /\ RequestAt(r, "create")
    /\ IF row = NoPolicy
       THEN Store(Default) /\ MoveRequest(r, "refresh")
       ELSE Done(r) /\ UNCHANGED <<row, past>>
    /\ UNCHANGED <<cache, agent, home, puts, restarts>>

RefreshPolicy(r) ==
    /\ RequestAt(r, "refresh")
    /\ request' = [request EXCEPT ![r].at = "apply", ![r].policy = row]
    /\ UNCHANGED <<row, past, cache, agent, home, puts, restarts>>

-----------------------------------------------------------------------------
(***************************************************************************)
(* Writing: PUT /api/policy.                                               *)
(***************************************************************************)
StartPut(r, s, policy) ==
    /\ RequestAt(r, "free") /\ puts < MaxPuts
    /\ request' = [request EXCEPT ![r] = [at |-> "load", server |-> s, policy |-> policy,
                                          loaded |-> NoPolicy]]
    /\ puts' = puts + 1
    /\ UNCHANGED <<row, past, cache, agent, home, restarts>>

LoadPolicy(r) ==
    /\ RequestAt(r, "load")
    /\ request' = [request EXCEPT ![r].at = "commit", ![r].loaded = row]
    /\ UNCHANGED <<row, past, cache, agent, home, puts, restarts>>

(* The UPDATE sets the columns that differ from what was loaded.           *)
Changed(loaded, new) ==
    [column \in {"domains", "processes"} |->
        IF new[column] # loaded[column] THEN new[column] ELSE row[column]]

SkipRefresh(r) == MoveRequest(r, "apply")        \* seeded fault: the update itself is applied

AfterCommit(r) == MoveRequest(r, "refresh")

CommitPut(r) ==
    /\ RequestAt(r, "commit")
    /\ IF request[r].loaded # NoPolicy
       THEN Store(Changed(request[r].loaded, request[r].policy)) /\ AfterCommit(r)
       ELSE IF row = NoPolicy
       THEN Store(request[r].policy) /\ AfterCommit(r)
       ELSE Done(r) /\ UNCHANGED <<row, past>>
    /\ UNCHANGED <<cache, agent, home, puts, restarts>>

-----------------------------------------------------------------------------
(***************************************************************************)
(* update_dynamic_policy, and the answer to the agent.                     *)
(***************************************************************************)
CachedByDashboard(r) ==                   \* seeded fault: heartbeats leave the copy alone
    cache' = IF r = "heartbeat" THEN cache
             ELSE [cache EXCEPT ![request[r].server] = request[r].policy]

Cached(r) == cache' = [cache EXCEPT ![request[r].server] = request[r].policy]

ApplyPolicy(r) ==
    /\ RequestAt(r, "apply")
    /\ Cached(r)
    /\ IF r \in Proctors THEN Done(r) ELSE MoveRequest(r, "answer")
    /\ UNCHANGED <<row, past, agent, home, puts, restarts>>

(* The lists sent replace the agent's own, unless they are empty.          *)
Watched(policy) ==
    [column \in {"domains", "processes"} |->
        IF DOMAIN policy[column] # {} THEN DOMAIN policy[column] ELSE agent[column]]

AgentUpdates(r) ==
    /\ RequestAt(r, "answer")
    /\ agent' = Watched(request[r].policy)
    /\ Done(r)
    /\ UNCHANGED <<row, past, cache, home, puts, restarts>>

-----------------------------------------------------------------------------
Restart == restarts < MaxRestarts /\ restarts' = restarts + 1

(* The process's copy and its requests are gone; the agent connects to     *)
(* some process again.                                                     *)
ServerRestarts(s) ==
    /\ Restart
    /\ cache' = [cache EXCEPT ![s] = Default]
    /\ request' = [r \in Requests |->
                     IF ~RequestAt(r, "free") /\ request[r].server = s THEN Free ELSE request[r]]
    /\ IF home = s THEN home' \in Servers ELSE UNCHANGED home
    /\ UNCHANGED <<row, past, agent, puts>>

(* A GET that the agent no longer waits for is like one of the dashboard.  *)
AgentRestarts ==
    /\ Restart
    /\ agent' = [column \in {"domains", "processes"} |-> Builtin]
    /\ home' \in Servers
    /\ request' = [r \in Requests |-> IF r \in Proctors THEN request[r] ELSE Free]
    /\ UNCHANGED <<row, past, cache, puts>>

PolicyInit ==
    /\ row = NoPolicy /\ past = {}
    /\ cache = [s \in Servers |-> Default]
    /\ request = [r \in Requests |-> Free]
    /\ agent = [column \in {"domains", "processes"} |-> Builtin]
    /\ home \in Servers
    /\ puts = 0 /\ restarts = 0

Proceed(r) ==
    \/ SelectPolicy(r) \/ CreateDefault(r) \/ RefreshPolicy(r)
    \/ LoadPolicy(r) \/ CommitPut(r)
    \/ ApplyPolicy(r) \/ AgentUpdates(r)

PolicyNext ==
    \/ \E r \in Requests, s \in Servers : StartRead(r, s)
    \/ \E r \in Proctors, s \in Servers, policy \in Updates : StartPut(r, s, policy)
    \/ \E r \in Requests : Proceed(r)
    \/ \E s \in Servers : ServerRestarts(s)
    \/ AgentRestarts

PolicySpec == PolicyInit /\ [][PolicyNext]_policyVars

(* Event loops run, and the agent keeps sending heartbeats; the proctors   *)
(* may do nothing.                                                         *)
PolicyFairSpec ==
    /\ PolicySpec
    /\ \A r \in Requests : WF_policyVars(Proceed(r))
    /\ WF_policyVars(\E s \in Servers : StartRead("heartbeat", s))

-----------------------------------------------------------------------------
(***************************************************************************)
(* A process judges by a policy that was in force at some time, whole:     *)
(* after concurrent updates of different columns the row holds neither of  *)
(* the two that were sent, and no copy may hold one of them either         *)
(* (policy.py:59-69, engine.py:183-197).                                   *)
(***************************************************************************)
CacheWasInForce == \A s \in Servers : cache[s] \in past \union {Default}

(***************************************************************************)
(* "Policy changes are pushed to all agents within 60 seconds"             *)
(* (docs/proctor-guide.md), and the process that the agent reports to      *)
(* judges by them: in the end, whatever requests that read the row earlier *)
(* apply later, a connection to a domain under a rule, or a process with   *)
(* one, is among the names watched for and is recorded as the rule says.   *)
(* Only a list that is cleared never reaches the agent.                    *)
(***************************************************************************)
InEffect(policy) ==
    /\ \A d \in DOMAIN policy.domains :
          d \in agent.domains /\ classify_network_event(cache[home], d) = {Verdict(policy.domains[d])}
    /\ \A n \in DOMAIN policy.processes :
          n \in agent.processes
            /\ classify_process(cache[home], "AI_AGENT", n)
                 = classify_process(policy, "AI_AGENT", n)

PolicyTakesEffect == <>[](row # NoPolicy => InEffect(row))
=============================================================================
