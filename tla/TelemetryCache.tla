--------------------------- MODULE TelemetryCache ---------------------------
(***************************************************************************)
(* The agent's offline cache, agent/internal/cache/store.go: a BoltDB      *)
(* bucket of telemetry reports under ascending keys.  Every operation      *)
(* holds the cache's mutex from its first statement to its return, so op   *)
(* is the one operation under way; its transactions are steps of their     *)
(* own, the process can die between any two of them, and a write           *)
(* transaction can fail (a full or failing disk), which BoltDB rolls back. *)
(*                                                                         *)
(* The size the cache checks is that of the BoltDB file.  It is measured   *)
(* here in reports, and like the file it never shrinks: pages that deleted *)
(* reports leave are reused, not given back.                               *)
(***************************************************************************)
EXTENDS Integers, FiniteSets, Functions

CONSTANTS
    MaxEntries,   \* maxSizeMB, in reports
    PruneCount,   \* reports a full cache drops at once (100)
    Faults,       \* bound: the mishaps a run explores
    MaxMishaps,   \* bound on their number
    MaxReports    \* bound on the reports enqueued

FaultKinds == {"crash", "prune", "put", "delete", "unacked", "damage"}

ASSUME CacheAssumption ==
    /\ MaxEntries \in Nat \ {0}
    /\ PruneCount \in Nat \ {0}
    /\ Faults \subseteq FaultKinds
    /\ MaxMishaps \in Nat /\ MaxReports \in Nat

VARIABLES
    bucket,      \* key -> "intact" or "corrupt"; on disk
    sequence,    \* the bucket's sequence number; on disk
    fileSize,    \* on disk
    db,          \* c.db: "nil", "open", or "closed" by Close
    entryCount,  \* c.entryCount
    op,          \* the operation that holds c.mu
    deliveries,  \* how often the server received the report of each key
    mishaps      \* how many faults have struck so far

diskVars == <<bucket, sequence, fileSize>>
cacheVars == <<diskVars, db, entryCount, op, deliveries, mishaps>>

NoOp == [kind |-> "none", full |-> FALSE, valid |-> TRUE, at |-> 0, keysToDelete |-> {}]
Keys == DOMAIN bucket
Without(S) == Restrict(bucket, Keys \ S)

(* A fault of this kind strikes now. *)
Strikes(kind) ==
    /\ kind \in Faults /\ mishaps < MaxMishaps
    /\ mishaps' = mishaps + 1

Return == op' = NoOp

-----------------------------------------------------------------------------
(* Open: create the bucket if need be and count its entries.               *)
OpenStore ==
    /\ db # "open" /\ op = NoOp
    /\ db' = "open"
    /\ entryCount' = Cardinality(Keys)
    /\ UNCHANGED <<diskVars, op, deliveries, mishaps>>

(* Close leaves c.db set: later transactions fail with "not open".         *)
CloseStore ==
    /\ db = "open" /\ op = NoOp
    /\ db' = "closed"
    /\ UNCHANGED <<diskVars, entryCount, op, deliveries, mishaps>>

-----------------------------------------------------------------------------
(***************************************************************************)
(* Enqueue: prune if full, marshal, put.                                   *)
(***************************************************************************)
FullByCount == entryCount >= MaxEntries   \* seeded fault: the in-memory count decides

FileFull == fileSize >= MaxEntries

(* valid: proto.Marshal accepts the report (it refuses malformed UTF-8).   *)
BeginEnqueue(valid) ==
    /\ db = "open" /\ op = NoOp
    /\ sequence < MaxReports
    /\ op' = [kind |-> IF FileFull THEN "prune" ELSE "put", full |-> FileFull,
              valid |-> valid, at |-> 0, keysToDelete |-> {}]
    /\ UNCHANGED <<diskVars, db, entryCount, deliveries, mishaps>>

OldestKeys(S) == \A j \in S, k \in Keys \ S : j < k

(* pruneOldest ignores its transaction's error: the count goes down anyway.*)
Prune(ok) ==
    /\ op.kind = "prune"
    /\ \E S \in SUBSET Keys :
         /\ OldestKeys(S)
         /\ Cardinality(S) = IF Cardinality(Keys) < PruneCount
                             THEN Cardinality(Keys) ELSE PruneCount
         /\ IF ok THEN bucket' = Without(S) /\ UNCHANGED mishaps
                  ELSE S # {} /\ Strikes("prune") /\ UNCHANGED bucket
         /\ entryCount' = entryCount - Cardinality(S)
    /\ op' = [op EXCEPT !.kind = "put"]
    /\ UNCHANGED <<sequence, fileSize, db, deliveries>>

MarshalFails ==
    /\ op.kind = "put" /\ ~op.valid
    /\ Return
    /\ UNCHANGED <<diskVars, db, entryCount, deliveries, mishaps>>

NextByCount == entryCount + 1             \* seeded fault: keys are reused

NextSequence == sequence + 1

Put ==
    /\ op.kind = "put" /\ op.valid
    /\ sequence' = sequence + 1
    /\ bucket' = [k \in Keys \union {NextSequence} |->
                    IF k = NextSequence THEN "intact" ELSE bucket[k]]
    /\ fileSize' = IF Cardinality(Keys \union {NextSequence}) > fileSize
                   THEN Cardinality(Keys \union {NextSequence}) ELSE fileSize
    /\ entryCount' = entryCount + 1
    /\ Return
    /\ UNCHANGED <<db, deliveries, mishaps>>

PutFails ==
    /\ op.kind = "put" /\ op.valid
    /\ Strikes("put")
    /\ Return
    /\ UNCHANGED <<diskVars, db, entryCount, deliveries>>

-----------------------------------------------------------------------------
(***************************************************************************)
(* Replay: in one read transaction send the entries in key order until a   *)
(* send fails; then delete, in one write transaction, those sent and those *)
(* that do not unmarshal.                                                  *)
(***************************************************************************)
BeginReplay ==
    /\ db = "open" /\ op = NoOp
    /\ op' = [NoOp EXCEPT !.kind = "replay"]
    /\ UNCHANGED <<diskVars, db, entryCount, deliveries, mishaps>>

AtCursor(k) == k > op.at /\ \A j \in Keys : j > op.at => k <= j

Sent(k) == [op EXCEPT !.at = k, !.keysToDelete = @ \union {k}]
StopReplay == op' = [op EXCEPT !.kind = "delete"]
StopReplayAt(k) ==                        \* seeded fault: the failed send is deleted too
    op' = [Sent(k) EXCEPT !.kind = "delete"]
SendFailed(k) == StopReplay

SkipCorrupt(k) ==
    /\ op.kind = "replay" /\ AtCursor(k) /\ bucket[k] = "corrupt"
    /\ op' = Sent(k)
    /\ UNCHANGED <<diskVars, db, entryCount, deliveries, mishaps>>

Send(k) ==
    /\ op.kind = "replay" /\ AtCursor(k) /\ bucket[k] = "intact"
    /\ deliveries' = [deliveries EXCEPT ![k] = @ + 1]
    /\ op' = Sent(k)
    /\ UNCHANGED <<diskVars, db, entryCount, mishaps>>

(* The connection is down, or goes down before the answer arrives.         *)
SendFails(k) ==
    /\ op.kind = "replay" /\ AtCursor(k) /\ bucket[k] = "intact"
    /\ \/ UNCHANGED <<deliveries, mishaps>>
       \/ /\ Strikes("unacked")
          /\ deliveries' = [deliveries EXCEPT ![k] = @ + 1]
    /\ SendFailed(k)
    /\ UNCHANGED <<diskVars, db, entryCount>>

ReplayAllSent ==
    /\ op.kind = "replay" /\ \A k \in Keys : k <= op.at
    /\ StopReplay
    /\ UNCHANGED <<diskVars, db, entryCount, deliveries, mishaps>>

CountDown == entryCount' = entryCount - Cardinality(op.keysToDelete)

DeleteSent ==
    /\ op.kind = "delete"
    /\ bucket' = Without(op.keysToDelete)
    /\ CountDown
    /\ Return
    /\ UNCHANGED <<sequence, fileSize, db, deliveries, mishaps>>

DeleteFails ==
    /\ op.kind = "delete" /\ op.keysToDelete # {}
    /\ Strikes("delete")
    /\ Return
    /\ UNCHANGED <<diskVars, db, entryCount, deliveries>>

-----------------------------------------------------------------------------
(* The agent dies, or is killed; its memory and its lock are gone.         *)
Crash ==
    /\ db # "nil"
    /\ Strikes("crash")
    /\ db' = "nil"
    /\ entryCount' = 0
    /\ Return
    /\ UNCHANGED <<diskVars, deliveries>>

(* A stored value no longer unmarshals.                                    *)
Damage(k) ==
    /\ Strikes("damage")
    /\ db # "open"
    /\ bucket[k] = "intact"
    /\ bucket' = [bucket EXCEPT ![k] = "corrupt"]
    /\ UNCHANGED <<sequence, fileSize, db, entryCount, op, deliveries>>

CacheInit ==
    /\ bucket = [k \in {} |-> "intact"]
    /\ sequence = 0 /\ fileSize = 0
    /\ db = "nil" /\ entryCount = 0 /\ op = NoOp
    /\ deliveries = [k \in 1..MaxReports |-> 0]
    /\ mishaps = 0

CacheNext ==
    \/ OpenStore \/ CloseStore
    \/ \E valid \in BOOLEAN : BeginEnqueue(valid)
    \/ \E ok \in BOOLEAN : Prune(ok)
    \/ MarshalFails \/ Put \/ PutFails
    \/ BeginReplay
    \/ \E k \in Keys : SkipCorrupt(k) \/ Send(k) \/ SendFails(k)
    \/ ReplayAllSent \/ DeleteSent \/ DeleteFails
    \/ Crash
    \/ \E k \in Keys : Damage(k)

CacheSpec == CacheInit /\ [][CacheNext]_cacheVars

-----------------------------------------------------------------------------
Operations == {"none", "prune", "put", "replay", "delete"}

CacheTypeOK ==
    /\ Keys \subseteq 1..sequence
    /\ bucket \in [Keys -> {"intact", "corrupt"}]
    /\ sequence \in 0..MaxReports
    /\ fileSize \in Nat
    /\ db \in {"nil", "open", "closed"}
    /\ entryCount \in Int
    /\ op \in [kind : Operations, full : BOOLEAN, valid : BOOLEAN,
               at : 0..MaxReports, keysToDelete : SUBSET Keys]
    /\ deliveries \in [1..MaxReports -> Nat]
    /\ mishaps \in Nat

(***************************************************************************)
(* The cache outgrows its limit only by failures: a report is stored in a  *)
(* full cache only after a prune, so each report above the limit stands    *)
(* for a prune whose transaction failed (store.go:114-118, 269).           *)
(***************************************************************************)
CacheBound == Cardinality(Keys) <= MaxEntries + mishaps

(***************************************************************************)
(* "Count returns the number of cached entries" (store.go:223): between    *)
(* operations the count kept in memory is the bucket's size, whatever      *)
(* crashes, failed deletes and failed puts came before.  A prune that      *)
(* fails breaks it.  ReplayCache decides by it whether there is anything   *)
(* to replay (client.go:200).                                              *)
(***************************************************************************)
EntryCountExact == db # "nil" /\ op = NoOp => entryCount = Cardinality(Keys)

(***************************************************************************)
(* Replaying is at least once, but a report reaches the server again only  *)
(* after a mishap: a lost answer, a failed delete or a crash between the   *)
(* sends and the delete (store.go:163-213).                                *)
(***************************************************************************)
RepeatsNeedMishaps == \A k \in 1..MaxReports : deliveries[k] <= 1 + mishaps

(***************************************************************************)
(* The cache is a ReportQueue: first in first out, and no report is given  *)
(* up but after its delivery, as damaged, or as one of the oldest of a     *)
(* full cache.                                                             *)
(***************************************************************************)
Queue == INSTANCE ReportQueue WITH
    last <- sequence,
    pending <- Keys,
    damaged <- {k \in Keys : bucket[k] = "corrupt"},
    handedOver <- {k \in 1..MaxReports : deliveries[k] > 0},
    cramped <- op.kind = "prune"

ImplementsQueue == Queue!Spec

=============================================================================
