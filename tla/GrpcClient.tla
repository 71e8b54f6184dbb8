----------------------------- MODULE GrpcClient -----------------------------
(***************************************************************************)
(* How the agent reports: sendTelemetryReport of                           *)
(* agent/internal/grpcclient/client.go, called by every monitor's          *)
(* goroutine, over the connection main.go makes once, with the offline     *)
(* cache of TelemetryCache behind it.  A report whose stream breaks in     *)
(* Send is enqueued in the cache; one that fails before or after Send is   *)
(* not.  ReplayCache, which would empty the cache, has no caller.          *)
(***************************************************************************)
EXTENDS TelemetryCache

CONSTANTS Reports    \* the reports the monitors send

ASSUME ReportAssumption == IsFiniteSet(Reports)

VARIABLES
    conn,      \* c.conn: "none" before Connect, "failed" if it failed, or "dialed"
    network,   \* the server can be reached
    report,    \* report[r]: how far the call that sends r has got
    owner,     \* the report whose Enqueue holds the cache, or NoReport
    key        \* key[r]: the key r is cached under, or 0

clientVars == <<conn, network, report, owner, key>>
allVars == <<cacheVars, clientVars>>

NoReport == "nobody"

Set(r, stage) == report' = [report EXCEPT ![r] = stage]

(* NewClient opens the cache, main.go connects.  Dialling does not wait    *)
(* for the server; it fails on the TLS files, and is not tried again.      *)
Connect ==
    /\ conn = "none"
    /\ conn' \in {"dialed", "failed"}
    /\ UNCHANGED <<cacheVars, network, report, owner, key>>

OpenCache == OpenStore /\ UNCHANGED clientVars

(* The network goes down, or comes back.                                   *)
NetworkChange ==
    /\ network' = ~network
    /\ UNCHANGED <<cacheVars, conn, report, owner, key>>

(* A monitor sends a report: StreamTelemetry fails without a connection.   *)
OpenStream(r) ==
    /\ conn # "none" /\ report[r] = "new"
    /\ Set(r, IF conn = "dialed" /\ network THEN "send" ELSE "failed")
    /\ UNCHANGED <<cacheVars, conn, network, owner, key>>

(* stream.Send succeeds once the report is on its way.                     *)
StreamSend(r) ==
    /\ report[r] = "send" /\ network
    /\ Set(r, "receive")
    /\ UNCHANGED <<cacheVars, conn, network, owner, key>>

(* Send fails: cache the report, waiting for the cache's mutex.            *)
StreamSendFails(r) ==
    /\ report[r] = "send" /\ ~network
    /\ IF db = "open"
       THEN BeginEnqueue(TRUE) /\ owner' = r /\ Set(r, "enqueue")
       ELSE op = NoOp /\ Set(r, "failed") /\ UNCHANGED <<cacheVars, owner>>
    /\ UNCHANGED <<conn, network, key>>

(* CloseAndRecv: the acknowledgement, if the network lasts that long.      *)
CloseAndRecv(r) ==
    /\ report[r] = "receive"
    /\ Set(r, IF network THEN "acknowledged" ELSE "failed")
    /\ UNCHANGED <<cacheVars, conn, network, owner, key>>

(* The Enqueue under way.                                                  *)
CacheStep ==
    /\ (\E ok \in BOOLEAN : Prune(ok)) \/ Put \/ PutFails
    /\ IF op' = NoOp
       THEN /\ Set(owner, IF sequence' # sequence THEN "cached" ELSE "failed")
            /\ key' = [key EXCEPT ![owner] = IF sequence' # sequence THEN sequence' ELSE 0]
            /\ owner' = NoReport
       ELSE UNCHANGED <<report, owner, key>>
    /\ UNCHANGED <<conn, network>>

ClientInit ==
    /\ CacheInit
    /\ conn = "none" /\ network = TRUE
    /\ report = [r \in Reports |-> "new"]
    /\ owner = NoReport
    /\ key = [r \in Reports |-> 0]

ClientStep(r) ==
    \/ OpenStream(r) \/ StreamSend(r) \/ StreamSendFails(r) \/ CloseAndRecv(r)

ClientNext ==
    \/ Connect \/ OpenCache \/ NetworkChange \/ CacheStep
    \/ \E r \in Reports : ClientStep(r)

(* Every call runs on, and the network is up again and again.              *)
ClientSpec ==
    /\ ClientInit /\ [][ClientNext]_allVars
    /\ WF_allVars(Connect) /\ WF_allVars(OpenCache) /\ WF_allVars(CacheStep)
    /\ \A r \in Reports : WF_allVars(ClientStep(r))
    /\ WF_allVars(NetworkChange)

-----------------------------------------------------------------------------
(***************************************************************************)
(* "And replays it upon reconnection" (README.md:480): a cached report     *)
(* reaches the server, given a network that keeps coming back.             *)
(***************************************************************************)
CachedIsReplayed ==
    \A r \in Reports : report[r] = "cached" ~> key[r] > 0 /\ deliveries[key[r]] > 0
=============================================================================
