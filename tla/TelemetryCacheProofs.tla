------------------------ MODULE TelemetryCacheProofs ------------------------
(***************************************************************************)
(* Proofs about the offline cache, for every size limit, prune count, set  *)
(* of faults and number of reports, by itself and as the client uses it.   *)
(***************************************************************************)
EXTENDS GrpcClient, FiniteSetTheorems, TLAPS

(***************************************************************************)
(* The bucket never outgrows its file, and a put that is about to happen   *)
(* has room: Enqueue saw a file that is not full, or has pruned.           *)
(***************************************************************************)
FileRoom ==
    /\ op.kind \in {"prune", "put"} => sequence < MaxReports
    /\ Cardinality(Keys) <= fileSize
    /\ op.kind = "put" => Cardinality(Keys) < MaxEntries + mishaps

(***************************************************************************)
(* What a replay has behind it: the entries up to its cursor, each of them *)
(* delivered or corrupt; other operations have nothing to delete.          *)
(***************************************************************************)
Replayed ==
    /\ op.kind \in {"none", "prune", "put"} => op.at = 0 /\ op.keysToDelete = {}
    /\ op.keysToDelete = {k \in Keys : k <= op.at}
    /\ \A k \in op.keysToDelete : deliveries[k] > 0 \/ bucket[k] = "corrupt"

(***************************************************************************)
(* Deliveries of an entry that is not about to be deleted are each owed to *)
(* a mishap; a key not yet given out has none.                             *)
(***************************************************************************)
Repeats ==
    /\ \A k \in Keys \ op.keysToDelete : deliveries[k] <= mishaps
    /\ \A k \in 1..MaxReports : k > sequence => deliveries[k] = 0

CacheInv == CacheTypeOK /\ FileRoom /\ CacheBound /\ Replayed /\ Repeats /\ RepeatsNeedMishaps

-----------------------------------------------------------------------------
(* A set of keys is finite, and a bucket loses what is deleted from it.    *)
LEMMA KeysFinite ==
    ASSUME CacheTypeOK
    PROVE  /\ IsFiniteSet(Keys)
           /\ Cardinality(Keys) \in Nat
           /\ sequence \in Nat
           /\ Keys \subseteq Nat
           /\ Keys \subseteq 1..MaxReports
           /\ \A k \in 1..MaxReports : deliveries[k] \in Nat
<1>1. sequence \in Nat
    BY CacheAssumption DEF CacheTypeOK
<1>2. IsFiniteSet(1..sequence)
    BY <1>1, FS_Interval
<1>3. IsFiniteSet(Keys)
    BY <1>2, FS_Subset DEF CacheTypeOK
<1>4. Keys \subseteq 1..MaxReports
    BY <1>1, CacheAssumption DEF CacheTypeOK
<1> QED
    BY <1>1, <1>3, <1>4, FS_CardinalityType DEF CacheTypeOK

(* Without(S) keeps the other entries as they are.                         *)
LEMMA WithoutKeys ==
    ASSUME NEW S, CacheTypeOK, bucket' = Without(S)
    PROVE  /\ Keys' = Keys \ S
           /\ \A k \in Keys' : bucket'[k] = bucket[k]
           /\ bucket' \in [Keys' -> {"intact", "corrupt"}]
BY DEF Without, Restrict, Keys, CacheTypeOK

(* A cursor at zero has nothing behind it.                                 *)
LEMMA NothingBehind == CacheTypeOK => {k \in Keys : k <= 0} = {}
<1> SUFFICES ASSUME CacheTypeOK, NEW k \in Keys PROVE ~(k <= 0)
    OBVIOUS
<1> QED
    BY KeysFinite

(* Deleting leaves no more entries than there were.                        *)
LEMMA FewerKeys ==
    ASSUME CacheTypeOK, NEW T \in SUBSET Keys
    PROVE  /\ IsFiniteSet(T)
           /\ Cardinality(T) \in Nat
           /\ Cardinality(T) <= Cardinality(Keys)
BY KeysFinite, FS_Subset, FS_CardinalityType

(* Deleting entries takes away as many as are deleted.                     *)
LEMMA KeysRemoved ==
    ASSUME CacheTypeOK, NEW T \in SUBSET Keys
    PROVE  Cardinality(Keys \ T) = Cardinality(Keys) - Cardinality(T)
<1>1. Keys \cap T = T
    OBVIOUS
<1> QED
    BY <1>1, KeysFinite, FS_Difference

-----------------------------------------------------------------------------
LEMMA InitInv == CacheInit => CacheInv
<1> SUFFICES ASSUME CacheInit PROVE CacheInv
    OBVIOUS
<1> USE DEF CacheInit
<1>1. Keys = {}
    BY DEF Keys
<1>2. CacheTypeOK
    BY <1>1, CacheAssumption DEF CacheTypeOK, Keys, NoOp, Operations
<1>3. Cardinality(Keys) = 0
    BY <1>1, FS_EmptySet
<1>4. FileRoom /\ CacheBound
    BY <1>3, CacheAssumption DEF FileRoom, CacheBound, NoOp
<1>5. Replayed /\ Repeats /\ RepeatsNeedMishaps
    BY <1>1 DEF Replayed, Repeats, RepeatsNeedMishaps, NoOp
<1> QED
    BY <1>2, <1>4, <1>5 DEF CacheInv

(* Adding one key to a bucket adds one to its size.                        *)
LEMMA OneMoreKey ==
    ASSUME CacheTypeOK, NEW k, k \notin Keys
    PROVE  Cardinality(Keys \union {k}) = Cardinality(Keys) + 1
BY KeysFinite, FS_AddElement

(***************************************************************************)
(* The steps that leave the bucket, its keys and the mishaps alone and do  *)
(* not begin a put: they matter to no part of Inv but Replayed.            *)
(***************************************************************************)
LEMMA OpenInv == CacheInv /\ OpenStore => CacheInv'
BY KeysFinite DEF CacheInv, OpenStore, CacheTypeOK, FileRoom, CacheBound, Replayed, Repeats,
                  RepeatsNeedMishaps, diskVars, Keys

(* Closing the database leaves the bucket as it is.                        *)
LEMMA CloseInv == CacheInv /\ CloseStore => CacheInv'
BY DEF CacheInv, CloseStore, CacheTypeOK, FileRoom, CacheBound, Replayed, Repeats,
       RepeatsNeedMishaps, diskVars, Keys

(* An Enqueue prunes next if the file is full, else it has room to put.    *)
LEMMA BeginEnqueueInv == ASSUME NEW valid \in BOOLEAN
                         PROVE  CacheInv /\ BeginEnqueue(valid) => CacheInv'
<1> SUFFICES ASSUME CacheInv, BeginEnqueue(valid) PROVE CacheInv'
    OBVIOUS
<1> USE DEF CacheInv, BeginEnqueue, diskVars
<1>1. Keys' = Keys /\ bucket' = bucket
    BY DEF Keys
<1>. FileFull \in BOOLEAN
    BY DEF FileFull
<1>2. CacheTypeOK'
    BY <1>1 DEF CacheTypeOK, NoOp, Operations
<1>3. op'.kind = "put" => fileSize < MaxEntries
    BY CacheAssumption DEF NoOp, FileFull, CacheTypeOK
<1>4. FileRoom' /\ CacheBound'
    BY <1>1, <1>3, KeysFinite, CacheAssumption DEF FileRoom, CacheBound, CacheTypeOK
<1>5. op'.keysToDelete = op.keysToDelete /\ op'.at = op.at
    BY DEF NoOp
<1>6. Replayed' /\ Repeats' /\ RepeatsNeedMishaps'
    BY <1>1, <1>5 DEF Replayed, Repeats, RepeatsNeedMishaps, CacheTypeOK
<1> QED
    BY <1>2, <1>4, <1>6

(* A prune that finds the bucket empty changes nothing; one that succeeds  *)
(* makes room for a report; one that fails is a mishap.                    *)
LEMMA PruneInv == ASSUME NEW ok \in BOOLEAN
                  PROVE  CacheInv /\ Prune(ok) => CacheInv'
<1> SUFFICES ASSUME CacheInv, Prune(ok) PROVE CacheInv'
    OBVIOUS
<1> USE DEF CacheInv
<1>1. PICK S \in SUBSET Keys :
        /\ Cardinality(S) = IF Cardinality(Keys) < PruneCount
                            THEN Cardinality(Keys) ELSE PruneCount
        /\ IF ok THEN bucket' = Without(S) /\ UNCHANGED mishaps
                 ELSE S # {} /\ Strikes("prune") /\ UNCHANGED bucket
        /\ entryCount' = entryCount - Cardinality(S)
    BY DEF Prune
<1>2. op.kind = "prune" /\ op' = [op EXCEPT !.kind = "put"]
    BY DEF Prune
<1>3. UNCHANGED <<sequence, fileSize, db, deliveries>>
    BY DEF Prune
<1>4. /\ op'.kind = "put" /\ op'.at = 0 /\ op'.keysToDelete = {}
      /\ op.at = 0 /\ op.keysToDelete = {}
    BY <1>2 DEF CacheTypeOK, Replayed
<1>5. Cardinality(Keys) \in Nat /\ Cardinality(S) \in Nat /\ IsFiniteSet(Keys)
    BY KeysFinite, FewerKeys
<1>6. op' \in [kind : Operations, full : BOOLEAN, valid : BOOLEAN,
               at : 0..MaxReports, keysToDelete : SUBSET Keys']
    BY <1>2, <1>4 DEF CacheTypeOK, Operations
<1>7. \A k \in 1..sequence : ~(k <= 0)
    BY KeysFinite
<1>8. CASE ok
  <2>1. Keys' = Keys \ S /\ bucket' \in [Keys' -> {"intact", "corrupt"}]
        /\ \A k \in Keys' : bucket'[k] = bucket[k]
    BY <1>1, <1>8, WithoutKeys
  <2>2. Cardinality(Keys') = Cardinality(Keys) - Cardinality(S)
    BY <2>1, KeysRemoved
  <2>3. mishaps' = mishaps
    BY <1>1, <1>8
  <2>4. CacheTypeOK'
    BY <2>1, <2>3, <1>1, <1>3, <1>5, <1>6 DEF CacheTypeOK
  <2>5. Cardinality(Keys') + 1 <= MaxEntries + mishaps
    <3>1. CASE Keys = {}
      BY <3>1, <2>1, FS_EmptySet, CacheAssumption DEF CacheTypeOK
    <3>2. CASE Keys # {}
      BY <3>2, <2>2, <1>1, <1>5, FS_EmptySet, CacheAssumption DEF CacheBound, CacheTypeOK
    <3> QED
      BY <3>1, <3>2
  <2>6. FileRoom' /\ CacheBound'
    BY <2>2, <2>3, <2>5, <1>2, <1>3, <1>5, CacheAssumption DEF FileRoom, CacheBound, CacheTypeOK
  <2>7. Replayed' /\ Repeats' /\ RepeatsNeedMishaps'
    BY <2>1, <2>3, <1>3, <1>4, <1>7 DEF Replayed, Repeats, RepeatsNeedMishaps
  <2> QED
    BY <2>4, <2>6, <2>7
<1>9. CASE ~ok
  <2>1. bucket' = bucket /\ Keys' = Keys /\ mishaps' = mishaps + 1
    BY <1>1, <1>9 DEF Strikes, Keys
  <2>2. CacheTypeOK'
    BY <2>1, <1>1, <1>3, <1>5, <1>6 DEF CacheTypeOK
  <2>3. FileRoom' /\ CacheBound'
    BY <2>1, <1>2, <1>3, <1>5, CacheAssumption DEF FileRoom, CacheBound, CacheTypeOK
  <2>4. Replayed'
    BY <2>1, <1>3, <1>4 DEF Replayed
  <2>5. Repeats' /\ RepeatsNeedMishaps'
    BY <2>1, <1>3, <1>4, KeysFinite DEF Repeats, RepeatsNeedMishaps, CacheTypeOK
  <2> QED
    BY <2>2, <2>3, <2>4, <2>5
<1> QED
    BY <1>8, <1>9

(* The steps that end an operation without touching the bucket: the report *)
(* is refused, or a transaction fails.                                     *)
LEMMA ReturnInv ==
    ASSUME CacheInv, Return, UNCHANGED <<diskVars, db, deliveries>>, entryCount' \in Int,
           \/ mishaps' = mishaps /\ op.keysToDelete = {}
           \/ mishaps' = mishaps + 1
    PROVE  CacheInv'
<1> USE DEF CacheInv, Return, diskVars
<1>1. Keys' = Keys /\ bucket' = bucket
    BY DEF Keys
<1>2. op' = NoOp /\ op'.kind = "none" /\ op'.at = 0 /\ op'.keysToDelete = {}
    BY DEF NoOp
<1>3. op' \in [kind : Operations, full : BOOLEAN, valid : BOOLEAN,
               at : 0..MaxReports, keysToDelete : SUBSET Keys']
    BY CacheAssumption DEF NoOp, Operations
<1>4. CacheTypeOK'
    BY <1>1, <1>3 DEF CacheTypeOK
<1>5. FileRoom' /\ CacheBound'
    BY <1>1, <1>2, KeysFinite, CacheAssumption DEF FileRoom, CacheBound, CacheTypeOK
<1>6. Replayed'
    BY <1>1, <1>2, NothingBehind DEF Replayed
<1>7. \A k \in Keys' \ op'.keysToDelete : deliveries'[k] <= mishaps'
    BY <1>1, <1>2, KeysFinite DEF Repeats, RepeatsNeedMishaps, CacheTypeOK
<1>8. Repeats' /\ RepeatsNeedMishaps'
    BY <1>1, <1>2, <1>7, KeysFinite DEF Repeats, RepeatsNeedMishaps, CacheTypeOK
<1> QED
    BY <1>4, <1>5, <1>6, <1>8

(* A report that does not marshal is not stored.                           *)
LEMMA MarshalFailsInv == CacheInv /\ MarshalFails => CacheInv'
BY ReturnInv DEF MarshalFails, CacheInv, Replayed, CacheTypeOK, diskVars

(* A put that fails is rolled back.                                        *)
LEMMA PutFailsInv == CacheInv /\ PutFails => CacheInv'
BY ReturnInv DEF PutFails, Strikes, CacheInv, CacheTypeOK, diskVars

(* A delete that fails is a mishap: what was sent may be sent again.       *)
LEMMA DeleteFailsInv == CacheInv /\ DeleteFails => CacheInv'
BY ReturnInv DEF DeleteFails, Strikes, CacheInv, CacheTypeOK, diskVars

(* A crash ends the operation too, and forgets the count.                  *)
LEMMA CrashInv == CacheInv /\ Crash => CacheInv'
<1> SUFFICES ASSUME CacheInv, Crash PROVE CacheInv'
    OBVIOUS
<1> USE DEF CacheInv, Crash, Strikes, Return, diskVars
<1>1. Keys' = Keys /\ bucket' = bucket
    BY DEF Keys
<1>2. op' = NoOp /\ op'.kind = "none" /\ op'.at = 0 /\ op'.keysToDelete = {}
    BY DEF NoOp
<1>3. op' \in [kind : Operations, full : BOOLEAN, valid : BOOLEAN,
               at : 0..MaxReports, keysToDelete : SUBSET Keys']
    BY CacheAssumption DEF NoOp, Operations
<1>4. CacheTypeOK'
    BY <1>1, <1>3 DEF CacheTypeOK
<1>5. FileRoom' /\ CacheBound'
    BY <1>1, <1>2, KeysFinite, CacheAssumption DEF FileRoom, CacheBound, CacheTypeOK
<1>6. Replayed'
    BY <1>1, <1>2, NothingBehind DEF Replayed
<1>7. \A k \in Keys' \ op'.keysToDelete : deliveries'[k] <= mishaps'
    BY <1>1, <1>2, KeysFinite DEF Repeats, RepeatsNeedMishaps, CacheTypeOK
<1>8. Repeats' /\ RepeatsNeedMishaps'
    BY <1>1, <1>2, <1>7, KeysFinite DEF Repeats, RepeatsNeedMishaps, CacheTypeOK
<1> QED
    BY <1>4, <1>5, <1>6, <1>8

(* A put uses a fresh key, which has no deliveries.                        *)
LEMMA PutInv == CacheInv /\ Put => CacheInv'
<1> SUFFICES ASSUME CacheInv, Put PROVE CacheInv'
    OBVIOUS
<1> USE DEF CacheInv, Put, Return, NextSequence
<1>1. sequence + 1 \notin Keys /\ sequence \in Nat
    BY KeysFinite DEF CacheTypeOK
<1>2. /\ Keys' = Keys \union {sequence + 1}
      /\ \A k \in Keys : bucket'[k] = bucket[k]
      /\ bucket' \in [Keys' -> {"intact", "corrupt"}]
    BY <1>1 DEF Keys, CacheTypeOK
<1>3. Cardinality(Keys') = Cardinality(Keys) + 1 /\ Cardinality(Keys) \in Nat
    BY <1>1, <1>2, OneMoreKey, KeysFinite
<1>4. op' = NoOp /\ op'.kind = "none" /\ op'.at = 0 /\ op'.keysToDelete = {}
    BY DEF NoOp
<1>5. op' \in [kind : Operations, full : BOOLEAN, valid : BOOLEAN,
               at : 0..MaxReports, keysToDelete : SUBSET Keys']
    BY CacheAssumption DEF NoOp, Operations
<1>6. op.keysToDelete = {} /\ sequence < MaxReports
    BY DEF Replayed, FileRoom
<1>7. CacheTypeOK'
    BY <1>1, <1>2, <1>3, <1>5, <1>6, CacheAssumption DEF CacheTypeOK
<1>8. FileRoom' /\ CacheBound'
    BY <1>1, <1>2, <1>3, <1>4, CacheAssumption DEF FileRoom, CacheBound, CacheTypeOK
<1>9. Replayed'
    BY <1>1, <1>2, <1>4, NothingBehind DEF Replayed
<1>10. \A k \in Keys' : deliveries[k] <= mishaps
    BY <1>1, <1>2, <1>6, KeysFinite, CacheAssumption DEF Repeats, CacheTypeOK
<1>11. Repeats' /\ RepeatsNeedMishaps'
    BY <1>1, <1>4, <1>10, KeysFinite DEF Repeats, RepeatsNeedMishaps, CacheTypeOK
<1> QED
    BY <1>7, <1>8, <1>9, <1>11

(* Beginning a replay.                                                     *)
LEMMA BeginReplayInv == CacheInv /\ BeginReplay => CacheInv'
<1> SUFFICES ASSUME CacheInv, BeginReplay PROVE CacheInv'
    OBVIOUS
<1> USE DEF CacheInv, BeginReplay, diskVars
<1>1. Keys' = Keys /\ bucket' = bucket
    BY DEF Keys
<1>2. op'.kind = "replay" /\ op'.at = op.at /\ op'.keysToDelete = op.keysToDelete
    BY DEF NoOp
<1>3. CacheTypeOK'
    BY <1>1 DEF CacheTypeOK, NoOp, Operations
<1>4. FileRoom' /\ CacheBound'
    BY <1>1, <1>2 DEF FileRoom, CacheBound
<1>5. Replayed' /\ Repeats' /\ RepeatsNeedMishaps'
    BY <1>1, <1>2 DEF Replayed, Repeats, RepeatsNeedMishaps
<1> QED
    BY <1>3, <1>4, <1>5

(* Moving the cursor past an entry, delivered now or corrupt.              *)
LEMMA CursorMoves ==
    ASSUME CacheInv, NEW k \in Keys, AtCursor(k), op.kind = "replay", op' = Sent(k),
           UNCHANGED <<diskVars, db, entryCount, mishaps>>,
           \/ deliveries' = deliveries /\ bucket[k] = "corrupt"
           \/ deliveries' = [deliveries EXCEPT ![k] = @ + 1]
    PROVE  CacheInv'
<1> USE DEF CacheInv, diskVars
<1>1. Keys' = Keys /\ bucket' = bucket
    BY DEF Keys
<1>2. /\ op'.kind = "replay" /\ op'.at = k
      /\ op'.keysToDelete = op.keysToDelete \union {k}
    BY DEF Sent, CacheTypeOK
<1>3. k \in 1..MaxReports /\ k \in Nat /\ op.at \in Nat
    BY KeysFinite, CacheAssumption DEF CacheTypeOK
<1>4. op' \in [kind : Operations, full : BOOLEAN, valid : BOOLEAN,
               at : 0..MaxReports, keysToDelete : SUBSET Keys']
  <2>1. k \in 0..MaxReports /\ op.keysToDelete \union {k} \in SUBSET Keys'
    BY <1>1, <1>3, CacheAssumption DEF CacheTypeOK
  <2> QED
    BY <2>1 DEF Sent, CacheTypeOK
<1>5. deliveries' \in [1..MaxReports -> Nat]
    BY <1>3 DEF CacheTypeOK
<1>6. CacheTypeOK'
    BY <1>1, <1>4, <1>5 DEF CacheTypeOK
<1>7. FileRoom' /\ CacheBound'
    BY <1>1, <1>2 DEF FileRoom, CacheBound
<1>8. \A j \in Keys : j <= k <=> j <= op.at \/ j = k
    BY <1>3, KeysFinite DEF AtCursor
<1>9. \A j \in 1..MaxReports :
      \/ deliveries'[j] = deliveries[j]
      \/ j = k /\ deliveries'[j] = deliveries[j] + 1
    BY <1>3 DEF CacheTypeOK
<1>10. deliveries'[k] > 0 \/ bucket[k] = "corrupt"
  <2>1. CASE deliveries' = [deliveries EXCEPT ![k] = @ + 1]
    BY <2>1, <1>3, KeysFinite DEF CacheTypeOK
  <2> QED
    BY <2>1
<1>11. k \notin op.keysToDelete
    BY <1>3 DEF AtCursor, Replayed
<1>12. Replayed'
  <2>1. op'.keysToDelete = {j \in Keys' : j <= op'.at}
    BY <1>1, <1>2, <1>8 DEF Replayed
  <2>2. \A j \in op'.keysToDelete : deliveries'[j] > 0 \/ bucket'[j] = "corrupt"
    BY <1>1, <1>2, <1>9, <1>10, KeysFinite DEF Replayed, CacheTypeOK
  <2> QED
    BY <2>1, <2>2, <1>2 DEF Replayed
<1>13. \A j \in Keys' \ op'.keysToDelete : deliveries'[j] <= mishaps'
    BY <1>1, <1>2, <1>9, KeysFinite DEF Repeats, CacheTypeOK
<1>14. deliveries'[k] <= 1 + mishaps
    BY <1>3, <1>9, <1>11, KeysFinite DEF Repeats, CacheTypeOK
<1>15. Repeats' /\ RepeatsNeedMishaps'
    BY <1>3, <1>9, <1>13, <1>14, KeysFinite DEF Repeats, RepeatsNeedMishaps, CacheTypeOK
<1> QED
    BY <1>6, <1>7, <1>12, <1>15

(* A damaged entry is passed over and will be deleted.                     *)
LEMMA SkipCorruptInv == ASSUME NEW k \in Keys PROVE CacheInv /\ SkipCorrupt(k) => CacheInv'
BY CursorMoves DEF SkipCorrupt, diskVars

(* A delivered entry is behind the cursor and will be deleted.             *)
LEMMA SendInv == ASSUME NEW k \in Keys PROVE CacheInv /\ Send(k) => CacheInv'
BY CursorMoves DEF Send, diskVars

(* The replay stops; the entry at the cursor may have been delivered all   *)
(* the same, which is a mishap.                                            *)
LEMMA StopInv ==
    ASSUME CacheInv, op.kind = "replay", StopReplay, UNCHANGED <<diskVars, db, entryCount>>,
           \/ UNCHANGED <<deliveries, mishaps>>
           \/ \E k \in Keys : /\ mishaps' = mishaps + 1
                              /\ AtCursor(k)
                              /\ deliveries' = [deliveries EXCEPT ![k] = @ + 1]
    PROVE  CacheInv'
<1> USE DEF CacheInv, StopReplay, diskVars
<1>1. Keys' = Keys /\ bucket' = bucket
    BY DEF Keys
<1>2. op'.kind = "delete" /\ op'.at = op.at /\ op'.keysToDelete = op.keysToDelete
    BY DEF CacheTypeOK
<1>3. op' \in [kind : Operations, full : BOOLEAN, valid : BOOLEAN,
               at : 0..MaxReports, keysToDelete : SUBSET Keys']
    BY <1>1 DEF CacheTypeOK, Operations
<1>4. CASE UNCHANGED <<deliveries, mishaps>>
  <2>1. CacheTypeOK' /\ FileRoom' /\ CacheBound'
    BY <1>1, <1>2, <1>3, <1>4 DEF CacheTypeOK, FileRoom, CacheBound
  <2>2. Replayed' /\ Repeats' /\ RepeatsNeedMishaps'
    BY <1>1, <1>2, <1>4 DEF Replayed, Repeats, RepeatsNeedMishaps
  <2> QED
    BY <2>1, <2>2
<1>5. ASSUME NEW k \in Keys, mishaps' = mishaps + 1, AtCursor(k),
             deliveries' = [deliveries EXCEPT ![k] = @ + 1]
      PROVE  CacheInv'
  <2>1. k \in 1..MaxReports /\ k \in Nat /\ op.at \in Nat
    BY KeysFinite, CacheAssumption DEF CacheTypeOK
  <2>2. \A j \in 1..MaxReports :
          \/ deliveries'[j] = deliveries[j]
          \/ j = k /\ deliveries'[j] = deliveries[j] + 1
    BY <1>5, <2>1 DEF CacheTypeOK
  <2>3. deliveries' \in [1..MaxReports -> Nat]
    BY <2>1, <1>5 DEF CacheTypeOK
  <2>4. CacheTypeOK'
    <3>1. mishaps' \in Nat
      BY <1>5 DEF CacheTypeOK
    <3> QED
      BY <3>1, <1>1, <1>3, <2>3 DEF CacheTypeOK
  <2>5. FileRoom' /\ CacheBound'
    BY <1>1, <1>2, <1>5, KeysFinite, CacheAssumption DEF FileRoom, CacheBound, CacheTypeOK
  <2>6. Replayed'
    <3>1. op'.keysToDelete = {j \in Keys' : j <= op'.at}
      BY <1>1, <1>2 DEF Replayed
    <3>2. \A j \in op.keysToDelete : j \in 1..MaxReports /\ deliveries[j] \in Nat
      BY KeysFinite DEF CacheTypeOK
    <3>3. \A j \in op'.keysToDelete : deliveries'[j] > 0 \/ bucket'[j] = "corrupt"
      BY <1>1, <1>2, <2>2, <3>2 DEF Replayed
    <3> QED
      BY <3>1, <3>3, <1>2 DEF Replayed
  <2>7. k \notin op.keysToDelete /\ deliveries[k] <= mishaps
    BY <2>1, <1>5 DEF AtCursor, Replayed, Repeats
  <2>8. k <= sequence /\ sequence \in Nat
    BY KeysFinite DEF CacheTypeOK
  <2>9. Repeats' /\ RepeatsNeedMishaps'
    BY <1>1, <1>2, <1>5, <2>1, <2>2, <2>7, <2>8, KeysFinite
       DEF Repeats, RepeatsNeedMishaps, CacheTypeOK
  <2> QED
    BY <2>4, <2>5, <2>6, <2>9
<1> QED
    BY <1>4, <1>5

(* A send that fails stops the replay; what was sent will be deleted.      *)
LEMMA SendFailsInv == ASSUME NEW k \in Keys PROVE CacheInv /\ SendFails(k) => CacheInv'
BY StopInv DEF SendFails, SendFailed, Strikes, diskVars

(* A replay that has sent everything deletes it.                           *)
LEMMA ReplayAllSentInv == CacheInv /\ ReplayAllSent => CacheInv'
BY StopInv DEF ReplayAllSent, diskVars

(* Deleting what was sent, or found corrupt: the bucket only shrinks.      *)
LEMMA DeleteSentInv == CacheInv /\ DeleteSent => CacheInv'
<1> SUFFICES ASSUME CacheInv, DeleteSent PROVE CacheInv'
    OBVIOUS
<1> USE DEF CacheInv, DeleteSent, Return
<1> DEFINE S == op.keysToDelete
<1>1. /\ Keys' = Keys \ S
      /\ \A k \in Keys' : bucket'[k] = bucket[k]
      /\ bucket' \in [Keys' -> {"intact", "corrupt"}]
    BY WithoutKeys
<1>2. op' = NoOp /\ op'.kind = "none" /\ op'.at = 0 /\ op'.keysToDelete = {}
    BY DEF NoOp
<1>3. op' \in [kind : Operations, full : BOOLEAN, valid : BOOLEAN,
               at : 0..MaxReports, keysToDelete : SUBSET Keys']
    BY CacheAssumption DEF NoOp, Operations
<1>4. S \in SUBSET Keys
    BY DEF CacheTypeOK
<1>5. Cardinality(S) \in Nat /\ Cardinality(Keys) \in Nat
    BY <1>4, FewerKeys, KeysFinite
<1>6. CacheTypeOK'
  <2>1. entryCount' \in Int
    BY <1>5 DEF CacheTypeOK, CountDown
  <2> QED
    BY <1>1, <1>3, <2>1 DEF CacheTypeOK
<1>7. Cardinality(Keys') <= Cardinality(Keys) /\ Cardinality(Keys') \in Nat
    BY <1>1, FewerKeys, Keys \ S \in SUBSET Keys
<1>8. FileRoom' /\ CacheBound'
    BY <1>2, <1>5, <1>7, CacheAssumption DEF FileRoom, CacheBound, CacheTypeOK
<1>9. Replayed'
    BY <1>1, <1>2, NothingBehind DEF Replayed
<1>10. Repeats' /\ RepeatsNeedMishaps'
    BY <1>1, <1>2 DEF Repeats, RepeatsNeedMishaps
<1> QED
    BY <1>6, <1>8, <1>9, <1>10

(* A corrupt entry is still an entry.                                      *)
LEMMA DamageInv == ASSUME NEW k \in Keys PROVE CacheInv /\ Damage(k) => CacheInv'
<1> SUFFICES ASSUME CacheInv, Damage(k) PROVE CacheInv'
    OBVIOUS
<1> USE DEF CacheInv, Damage, Strikes
<1>1. /\ Keys' = Keys
      /\ bucket' \in [Keys -> {"intact", "corrupt"}]
      /\ \A j \in Keys : bucket'[j] = "corrupt" \/ bucket'[j] = bucket[j]
    BY DEF Keys, CacheTypeOK
<1>2. CacheTypeOK'
    BY <1>1 DEF CacheTypeOK
<1>3. FileRoom' /\ CacheBound'
    BY <1>1, KeysFinite, CacheAssumption DEF FileRoom, CacheBound, CacheTypeOK
<1>4. Replayed'
    BY <1>1 DEF Replayed
<1>5. Repeats' /\ RepeatsNeedMishaps'
    BY <1>1, KeysFinite DEF Repeats, RepeatsNeedMishaps, CacheTypeOK
<1> QED
    BY <1>2, <1>3, <1>4, <1>5

-----------------------------------------------------------------------------
LEMMA NextInv == CacheInv /\ [CacheNext]_cacheVars => CacheInv'
<1> SUFFICES ASSUME CacheInv, [CacheNext]_cacheVars PROVE CacheInv'
    OBVIOUS
<1>1. CASE OpenStore \/ CloseStore
    BY <1>1, OpenInv, CloseInv
<1>2. CASE \E valid \in BOOLEAN : BeginEnqueue(valid)
    BY <1>2, BeginEnqueueInv
<1>3. CASE \E ok \in BOOLEAN : Prune(ok)
    BY <1>3, PruneInv
<1>4. CASE MarshalFails \/ Put \/ PutFails
    BY <1>4, MarshalFailsInv, PutInv, PutFailsInv
<1>5. CASE BeginReplay \/ ReplayAllSent \/ DeleteSent \/ DeleteFails
    BY <1>5, BeginReplayInv, ReplayAllSentInv, DeleteSentInv, DeleteFailsInv
<1>6. CASE \E k \in Keys : SkipCorrupt(k) \/ Send(k) \/ SendFails(k)
    BY <1>6, SkipCorruptInv, SendInv, SendFailsInv
<1>7. CASE Crash
    BY <1>7, CrashInv
<1>8. CASE \E k \in Keys : Damage(k)
    BY <1>8, DamageInv
<1>9. CASE UNCHANGED cacheVars
    BY <1>9 DEF cacheVars, diskVars, CacheInv, CacheTypeOK, FileRoom, CacheBound, Replayed, Repeats,
                RepeatsNeedMishaps, Keys
<1> QED
    BY <1>1, <1>2, <1>3, <1>4, <1>5, <1>6, <1>7, <1>8, <1>9 DEF CacheNext

(***************************************************************************)
(* The state of the cache is always well formed: its keys come from the    *)
(* sequence, and a replay deletes only keys it has passed.                 *)
(***************************************************************************)
THEOREM TypeCorrect == CacheSpec => []CacheTypeOK
<1>1. CacheInv => CacheTypeOK
    BY DEF CacheInv
<1> QED
    BY <1>1, InitInv, NextInv, PTL DEF CacheSpec

(***************************************************************************)
(* Whatever fails, the cache exceeds its limit by at most one report per   *)
(* failure (store.go:114-118).                                             *)
(***************************************************************************)
THEOREM CacheIsBounded == CacheSpec => []CacheBound
<1>1. CacheInv => CacheBound
    BY DEF CacheInv
<1> QED
    BY <1>1, InitInv, NextInv, PTL DEF CacheSpec

(***************************************************************************)
(* A report reaches the server more than once only after that many mishaps *)
(* (store.go:163-213).                                                     *)
(***************************************************************************)
THEOREM RepeatsAreMishaps == CacheSpec => []RepeatsNeedMishaps
<1>1. CacheInv => RepeatsNeedMishaps
    BY DEF CacheInv
<1> QED
    BY <1>1, InitInv, NextInv, PTL DEF CacheSpec

-----------------------------------------------------------------------------
(***************************************************************************)
(* The cache implements the queue.  What the queue sees of the bucket:     *)
(***************************************************************************)
Damaged   == {k \in Keys : bucket[k] = "corrupt"}
Delivered == {k \in 1..MaxReports : deliveries[k] > 0}
Cramped   == op.kind = "prune"

QueueUnchanged == UNCHANGED <<sequence, Keys, Damaged, Delivered, Cramped>>

(* An empty cache is an empty queue.                                       *)
LEMMA InitQueue == CacheInit => Queue!Init
BY CacheAssumption DEF CacheInit, Queue!Init, Keys, NoOp

(* The queue's variables are the bucket, its damage, the deliveries and    *)
(* whether a prune is due; nothing else.                                   *)
LEMMA Visible == QueueUnchanged => UNCHANGED Queue!queueVars
BY DEF QueueUnchanged, Queue!queueVars, Damaged, Delivered, Cramped

(* What a step that leaves bucket and deliveries alone leaves as it was.   *)
LEMMA Invisible ==
    ASSUME UNCHANGED <<bucket, sequence, deliveries>>
    PROVE  UNCHANGED <<sequence, Keys, Damaged, Delivered>>
BY DEF Keys, Damaged, Delivered

(* Removing entries from the bucket, seen from the queue.                  *)
LEMMA Removal ==
    ASSUME CacheTypeOK, NEW S \in SUBSET Keys, bucket' = Without(S),
           UNCHANGED <<sequence, deliveries>>
    PROVE  /\ Keys' = Keys \ S
           /\ Damaged' = Damaged \ S
           /\ Delivered' = Delivered
           /\ sequence' = sequence
BY WithoutKeys DEF Damaged, Delivered

(* A put keeps a report under a new ticket.                                *)
LEMMA PutStep == CacheInv /\ Put => Queue!Keep
<1> SUFFICES ASSUME CacheInv, Put PROVE Queue!Keep
    OBVIOUS
<1> USE DEF CacheInv, Put, NextSequence
<1>1. sequence + 1 \notin Keys
    BY KeysFinite DEF CacheTypeOK
<1>2. /\ Keys' = Keys \union {sequence + 1}
      /\ bucket'[sequence + 1] = "intact"
      /\ \A k \in Keys : bucket'[k] = bucket[k]
    BY <1>1 DEF Keys, CacheTypeOK
<1>3. Damaged' = Damaged
    BY <1>1, <1>2 DEF Damaged
<1>4. op.kind # "prune" /\ op'.kind # "prune"
    BY DEF Return, NoOp
<1> QED
    BY <1>2, <1>3, <1>4 DEF Queue!Keep, Damaged

(* An Enqueue that finds the file full makes the queue cramped; one that   *)
(* does not is invisible.                                                  *)
LEMMA BeginEnqueueStep ==
    ASSUME CacheInv, NEW valid \in BOOLEAN, BeginEnqueue(valid)
    PROVE  Queue!FindFull \/ QueueUnchanged
<1>1. ~Cramped
    BY DEF BeginEnqueue, NoOp, Cramped
<1>2. UNCHANGED <<sequence, Keys, Damaged, Delivered>>
    BY Invisible DEF BeginEnqueue, diskVars
<1>3. CASE FileFull
  <2>1. Cramped'
    BY <1>3 DEF BeginEnqueue, Cramped
  <2> QED
    BY <1>1, <1>2, <2>1 DEF Queue!FindFull, Damaged, Delivered, Cramped
<1>4. CASE ~FileFull
  <2>1. ~Cramped'
    BY <1>4 DEF BeginEnqueue, Cramped
  <2> QED
    BY <1>1, <1>2, <2>1 DEF QueueUnchanged, Cramped
<1> QED
    BY <1>3, <1>4

(* A cramped queue gives up on making room when the cache's prune is cut   *)
(* short: nothing goes.                                                    *)
LEMMA NoRoomMade ==
    ASSUME Cramped, ~Cramped', UNCHANGED <<bucket, sequence, deliveries>>
    PROVE  \E S \in SUBSET Keys : Queue!MakeRoom(S)
<1>1. UNCHANGED <<sequence, Keys, Damaged, Delivered>>
    BY Invisible
<1>2. Queue!MakeRoom({})
    BY <1>1 DEF Queue!MakeRoom, Damaged, Delivered, Cramped
<1> QED
    BY <1>2

(* A prune makes room, if its transaction does not fail.                   *)
LEMMA PruneStep ==
    ASSUME CacheInv, NEW ok \in BOOLEAN, Prune(ok)
    PROVE  \E S \in SUBSET Keys : Queue!MakeRoom(S)
<1> USE DEF CacheInv
<1>1. PICK S \in SUBSET Keys :
        /\ OldestKeys(S)
        /\ IF ok THEN bucket' = Without(S) ELSE UNCHANGED bucket
    BY DEF Prune
<1>2. UNCHANGED <<sequence, deliveries>>
    BY DEF Prune
<1>3. Cramped /\ ~Cramped'
    BY DEF Prune, Cramped, CacheTypeOK
<1>4. CASE ok
  <2>1. /\ Keys' = Keys \ S /\ Damaged' = Damaged \ S
        /\ Delivered' = Delivered /\ sequence' = sequence
    BY <1>1, <1>2, <1>4, Removal
  <2>2. Queue!MakeRoom(S)
    BY <1>1, <1>3, <2>1 DEF Queue!MakeRoom, OldestKeys, Damaged, Delivered, Cramped
  <2> QED
    BY <2>2
<1>5. CASE ~ok
    BY <1>1, <1>2, <1>3, <1>5, NoRoomMade
<1> QED
    BY <1>4, <1>5

(* A crash cuts a prune that is due short; else the queue sees nothing.    *)
LEMMA CrashStep ==
    ASSUME Crash
    PROVE  (\E S \in SUBSET Keys : Queue!MakeRoom(S)) \/ QueueUnchanged
<1>1. UNCHANGED <<bucket, sequence, deliveries>> /\ ~Cramped'
    BY DEF Crash, diskVars, Return, NoOp, Cramped
<1>2. CASE Cramped
    BY <1>1, <1>2, NoRoomMade
<1>3. CASE ~Cramped
    BY <1>1, <1>3, Invisible DEF QueueUnchanged, Cramped
<1> QED
    BY <1>2, <1>3

(* A delivery comes after those of all older entries, except corrupt ones. *)
LEMMA DeliveryStep ==
    ASSUME CacheInv, NEW k \in Keys, op.kind = "replay", AtCursor(k), bucket[k] = "intact",
           deliveries' = [deliveries EXCEPT ![k] = @ + 1], UNCHANGED diskVars,
           op'.kind # "prune"
    PROVE  Queue!HandOver(k)
<1> USE DEF CacheInv, diskVars
<1>1. Keys' = Keys /\ Damaged' = Damaged
    BY DEF Keys, Damaged
<1>2. k \in 1..MaxReports /\ op.at \in Nat
    BY KeysFinite, CacheAssumption DEF CacheTypeOK
<1>3. Delivered' = Delivered \union {k}
    BY <1>2, KeysFinite DEF Delivered, CacheTypeOK
<1>4. ASSUME NEW j \in Keys, j < k
      PROVE  j \in Delivered \union Damaged
  <2>1. j <= op.at
    BY <1>2, <1>4, KeysFinite DEF AtCursor
  <2>2. j \in op.keysToDelete /\ j \in 1..MaxReports
    BY <2>1, KeysFinite DEF Replayed
  <2> QED
    BY <2>2 DEF Replayed, Delivered, Damaged
<1> QED
    BY <1>1, <1>3, <1>4 DEF Queue!HandOver, Damaged, Delivered

(* A replay step hands a report over, or is invisible.                     *)
LEMMA ReplayStep ==
    ASSUME CacheInv, NEW k \in Keys, SkipCorrupt(k) \/ Send(k) \/ SendFails(k)
    PROVE  Queue!HandOver(k) \/ QueueUnchanged
<1>1. op.kind # "prune" /\ op'.kind # "prune"
    BY DEF SkipCorrupt, Send, SendFails, SendFailed, StopReplay, Sent, CacheInv, CacheTypeOK
<1>2. \/ UNCHANGED <<bucket, sequence, deliveries>>
      \/ Queue!HandOver(k)
    BY <1>1, DeliveryStep DEF SkipCorrupt, Send, SendFails, diskVars
<1> QED
    BY <1>1, <1>2, Invisible DEF QueueUnchanged, Cramped

(* What a replay deletes was delivered or is damaged.                      *)
LEMMA DeleteStep == CacheInv /\ DeleteSent => \E S \in SUBSET Keys : Queue!Discard(S)
<1> SUFFICES ASSUME CacheInv, DeleteSent PROVE \E S \in SUBSET Keys : Queue!Discard(S)
    OBVIOUS
<1> USE DEF CacheInv, DeleteSent
<1>1. PICK S \in SUBSET Keys : S = op.keysToDelete
    BY DEF CacheTypeOK
<1>2. /\ Keys' = Keys \ S /\ Damaged' = Damaged \ S
      /\ Delivered' = Delivered /\ sequence' = sequence
    BY <1>1, Removal
<1>3. S \subseteq Keys \intersect (Delivered \union Damaged)
    BY <1>1, KeysFinite DEF Replayed, Delivered, Damaged
<1>4. op.kind # "prune" /\ op'.kind # "prune"
    BY DEF Return, NoOp
<1>5. Queue!Discard(S)
    BY <1>2, <1>3, <1>4 DEF Queue!Discard, Damaged, Delivered
<1> QED
    BY <1>5

(* Damage to a stored value is damage to a report of the queue.            *)
LEMMA DamageStep == ASSUME CacheInv, NEW k \in Keys, Damage(k) PROVE Queue!Damage(k)
<1> USE DEF CacheInv, Damage
<1>1. Keys' = Keys
    BY DEF Keys, CacheTypeOK
<1>2. Damaged' = Damaged \union {k}
    BY <1>1 DEF Damaged, Keys, CacheTypeOK
<1> QED
    BY <1>1, <1>2 DEF Queue!Damage, Damaged

(* Every step of the cache is a step of the queue or invisible to it.      *)
LEMMA NextQueue == CacheInv /\ [CacheNext]_cacheVars => [Queue!Next]_(Queue!queueVars)
<1> SUFFICES ASSUME CacheInv, [CacheNext]_cacheVars
             PROVE  Queue!Next \/ QueueUnchanged
    BY Visible
<1>1. CASE Put
    BY <1>1, PutStep DEF Queue!Next
<1>2. CASE \E valid \in BOOLEAN : BeginEnqueue(valid)
    BY <1>2, BeginEnqueueStep DEF Queue!Next
<1>3. CASE \E ok \in BOOLEAN : Prune(ok)
    BY <1>3, PruneStep DEF Queue!Next
<1>4. CASE Crash
    BY <1>4, CrashStep DEF Queue!Next
<1>5. CASE \E k \in Keys : SkipCorrupt(k) \/ Send(k) \/ SendFails(k)
  <2>1. PICK k \in Keys : SkipCorrupt(k) \/ Send(k) \/ SendFails(k)
    BY <1>5
  <2> QED
    BY <2>1, ReplayStep DEF Queue!Next
<1>6. CASE DeleteSent
    BY <1>6, DeleteStep DEF Queue!Next
<1>7. CASE \E k \in Keys : Damage(k)
  <2>1. PICK k \in Keys : Damage(k)
    BY <1>7
  <2>2. Queue!Damage(k)
    BY <2>1, DamageStep
  <2> QED
    BY <2>2 DEF Queue!Next
<1>8. CASE \/ OpenStore \/ CloseStore \/ MarshalFails \/ PutFails \/ BeginReplay
           \/ ReplayAllSent \/ DeleteFails \/ UNCHANGED cacheVars
  <2>1. UNCHANGED <<bucket, sequence, deliveries>>
    BY <1>8 DEF OpenStore, CloseStore, MarshalFails, PutFails, BeginReplay,
                ReplayAllSent, DeleteFails, cacheVars, diskVars
  <2>2. Cramped' = Cramped
    BY <1>8 DEF OpenStore, CloseStore, MarshalFails, PutFails, BeginReplay, ReplayAllSent,
                StopReplay, DeleteFails, Return, NoOp, cacheVars, Cramped, CacheInv, CacheTypeOK
  <2> QED
    BY <2>1, <2>2, Invisible DEF QueueUnchanged
<1>9. \/ Put \/ (\E valid \in BOOLEAN : BeginEnqueue(valid))
      \/ (\E ok \in BOOLEAN : Prune(ok)) \/ Crash
      \/ (\E k \in Keys : SkipCorrupt(k) \/ Send(k) \/ SendFails(k))
      \/ DeleteSent \/ (\E k \in Keys : Damage(k))
      \/ OpenStore \/ CloseStore \/ MarshalFails \/ PutFails \/ BeginReplay
      \/ ReplayAllSent \/ DeleteFails \/ UNCHANGED cacheVars
    BY DEF CacheNext
<1> QED
    BY <1>1, <1>2, <1>3, <1>4, <1>5, <1>6, <1>7, <1>8, <1>9

(***************************************************************************)
(* The offline cache hands reports over oldest first and gives none up but *)
(* after its delivery, as damaged, or as one of the oldest to make room    *)
(* (store.go:106-277).                                                     *)
(***************************************************************************)
THEOREM CacheImplementsQueue == CacheSpec => ImplementsQueue
BY InitInv, NextInv, InitQueue, NextQueue, PTL DEF CacheSpec, ImplementsQueue, Queue!Spec

-----------------------------------------------------------------------------
(***************************************************************************)
(* The count in memory: exact as long as no prune fails.                   *)
(***************************************************************************)
CountExact == db # "nil" => entryCount = Cardinality(Keys)

(* The count goes with the bucket at every step but a failed prune.        *)
LEMMA CountNext ==
    ASSUME "prune" \notin Faults, CacheInv, CountExact, [CacheNext]_cacheVars
    PROVE  CountExact'
<1> USE DEF CountExact
<1>1. Cardinality(Keys) \in Nat /\ IsFiniteSet(Keys)
    BY KeysFinite DEF CacheInv
<1>2. CASE OpenStore
    BY <1>2 DEF OpenStore, diskVars, Keys
<1>3. CASE \E ok \in BOOLEAN : Prune(ok)
  <2>1. PICK S \in SUBSET Keys :
          bucket' = Without(S) /\ entryCount' = entryCount - Cardinality(S)
    BY <1>3 DEF Prune, Strikes
  <2>2. Keys' = Keys \ S
    BY <2>1, WithoutKeys DEF CacheInv
  <2>3. Cardinality(Keys') = Cardinality(Keys) - Cardinality(S)
    BY <2>2, KeysRemoved DEF CacheInv
  <2>4. db' = db
    BY <1>3 DEF Prune
  <2> QED
    BY <2>1, <2>3, <2>4
<1>4. CASE Put
  <2>1. sequence + 1 \notin Keys
    BY KeysFinite DEF CacheInv, CacheTypeOK
  <2>2. Keys' = Keys \union {sequence + 1}
    BY <1>4 DEF Put, NextSequence, Keys
  <2>3. Cardinality(Keys') = Cardinality(Keys) + 1
    BY <2>1, <2>2, OneMoreKey DEF CacheInv
  <2> QED
    BY <1>4, <2>3 DEF Put
<1>5. CASE DeleteSent
  <2>1. op.keysToDelete \in SUBSET Keys
    BY DEF CacheInv, CacheTypeOK
  <2>2. Keys' = Keys \ op.keysToDelete
    BY <1>5, WithoutKeys DEF DeleteSent, CacheInv
  <2>3. Cardinality(Keys') = Cardinality(Keys) - Cardinality(op.keysToDelete)
    BY <2>1, <2>2, KeysRemoved DEF CacheInv
  <2> QED
    BY <1>5, <2>3 DEF DeleteSent, CountDown
<1>6. CASE Crash
    BY <1>6 DEF Crash
<1>7. CASE \E k \in Keys : Damage(k)
  <2>1. Keys' = Keys
    BY <1>7 DEF Damage, Keys, CacheInv, CacheTypeOK
  <2> QED
    BY <1>7, <2>1 DEF Damage
<1>8. CASE \/ CloseStore \/ (\E valid \in BOOLEAN : BeginEnqueue(valid))
           \/ MarshalFails \/ PutFails \/ BeginReplay
           \/ (\E k \in Keys : SkipCorrupt(k) \/ Send(k) \/ SendFails(k))
           \/ ReplayAllSent \/ DeleteFails \/ UNCHANGED cacheVars
  <2>1. UNCHANGED <<bucket, entryCount>> /\ (db' = db \/ db = "open")
    BY <1>8 DEF CloseStore, BeginEnqueue, MarshalFails, PutFails, BeginReplay, SkipCorrupt,
                Send, SendFails, ReplayAllSent, DeleteFails, cacheVars, diskVars
  <2>2. Keys' = Keys
    BY <2>1 DEF Keys
  <2> QED
    BY <2>1, <2>2
<1> QED
    BY <1>2, <1>3, <1>4, <1>5, <1>6, <1>7, <1>8 DEF CacheNext

(***************************************************************************)
(* Unless a prune fails, Count returns the number of cached entries,       *)
(* through crashes, failed puts and failed deletes (store.go:223).         *)
(***************************************************************************)
THEOREM CountIsExact ==
    ASSUME "prune" \notin Faults
    PROVE  CacheSpec => []EntryCountExact
<1>1. CacheInit => CountExact
    BY DEF CacheInit, CountExact
<1>2. CacheInv /\ CountExact /\ [CacheNext]_cacheVars => CountExact'
    BY CountNext
<1>3. CountExact => EntryCountExact
    BY DEF CountExact, EntryCountExact
<1> QED
    BY <1>1, <1>2, <1>3, InitInv, NextInv, PTL DEF CacheSpec

-----------------------------------------------------------------------------
(***************************************************************************)
(* The client's calls are the cache's operations: whatever monitors, the   *)
(* stream and the network do, a step leaves the cache alone or is one of   *)
(* its own.                                                                *)
(***************************************************************************)
LEMMA ClientStepIsCaches == [ClientNext]_allVars => [CacheNext]_cacheVars
<1> SUFFICES ASSUME [ClientNext]_allVars PROVE [CacheNext]_cacheVars
    OBVIOUS
<1>1. CASE OpenCache
    BY <1>1 DEF OpenCache, CacheNext
<1>2. CASE CacheStep
    BY <1>2 DEF CacheStep, CacheNext
<1>3. CASE \E r \in Reports : StreamSendFails(r)
  <2>1. BeginEnqueue(TRUE) \/ UNCHANGED cacheVars
      BY <1>3 DEF StreamSendFails
  <2> QED BY <2>1 DEF CacheNext
<1>4. CASE \/ Connect \/ NetworkChange \/ UNCHANGED allVars
           \/ \E r \in Reports : OpenStream(r) \/ StreamSend(r) \/ CloseAndRecv(r)
    BY <1>4 DEF Connect, NetworkChange, allVars, OpenStream, StreamSend, CloseAndRecv
<1> QED BY <1>1, <1>2, <1>3, <1>4 DEF ClientNext, ClientStep

(***************************************************************************)
(* As the client uses it, too, the cache hands over oldest first and gives *)
(* nothing up but for the reasons of the queue (client.go:175-197).        *)
(***************************************************************************)
THEOREM ClientKeepsQueue == ClientSpec => ImplementsQueue
<1>1. ClientInit => CacheInit
    BY DEF ClientInit
<1>2. ClientSpec => CacheSpec
    BY <1>1, ClientStepIsCaches, PTL DEF ClientSpec, CacheSpec
<1> QED BY <1>2, CacheImplementsQueue
=============================================================================
