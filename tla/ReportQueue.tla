----------------------------- MODULE ReportQueue -----------------------------
(***************************************************************************)
(* What the agent's offline cache promises: a queue on disk that hands its *)
(* reports over oldest first and at least once, and that gives a report up *)
(* only after handing it over, when it finds it damaged, or to make room,  *)
(* the oldest ones first.  Reports are told apart by the ticket they get   *)
(* when they are kept.                                                     *)
(***************************************************************************)
EXTENDS Naturals

VARIABLES
    last,       \* the latest ticket given out
    pending,    \* tickets of the reports still kept
    damaged,    \* those of them that cannot be read back
    handedOver, \* tickets of the reports the server has received
    cramped     \* a new report found the queue full: room has to be made

queueVars == <<last, pending, damaged, handedOver, cramped>>

Init ==
    /\ last = 0
    /\ pending = {} /\ damaged = {} /\ handedOver = {}
    /\ cramped = FALSE

Keep ==
    /\ ~cramped
    /\ last' = last + 1
    /\ pending' = pending \union {last + 1}
    /\ UNCHANGED <<damaged, handedOver, cramped>>

(* Oldest first: every older report still kept went before it.             *)
HandOver(k) ==
    /\ k \in pending \ damaged
    /\ \A j \in pending : j < k => j \in handedOver \union damaged
    /\ handedOver' = handedOver \union {k}
    /\ UNCHANGED <<last, pending, damaged, cramped>>

Damage(k) ==
    /\ damaged' = damaged \union {k}
    /\ k \in pending
    /\ UNCHANGED <<last, pending, handedOver, cramped>>

(* Reports that are done with, or unreadable, are removed.                 *)
Discard(S) ==
    /\ ~cramped
    /\ S \subseteq pending \intersect (handedOver \union damaged)
    /\ pending' = pending \ S
    /\ damaged' = damaged \ S
    /\ UNCHANGED <<last, handedOver, cramped>>

(* A report arrives at a full queue. *)
FindFull ==
    /\ ~cramped
    /\ cramped' = TRUE
    /\ UNCHANGED <<last, pending, damaged, handedOver>>

(* The oldest reports make room, handed over or not.                       *)
MakeRoom(S) ==
    /\ cramped /\ cramped' = FALSE
    /\ S \subseteq pending
    /\ \A j \in S, k \in pending \ S : j < k
    /\ pending' = pending \ S
    /\ damaged' = damaged \ S
    /\ UNCHANGED <<last, handedOver>>

Next ==
    \/ Keep \/ FindFull
    \/ \E k \in pending : HandOver(k) \/ Damage(k)
    \/ \E S \in SUBSET pending : Discard(S) \/ MakeRoom(S)

Spec == Init /\ [][Next]_queueVars
=============================================================================
