---------------------------- MODULE FleetCommand ----------------------------
(***************************************************************************)
(* The fleet page (dashboard/src/pages/FleetCommand.jsx): the list of      *)
(* nodes, one by one or selected edited, deleted and warned, each          *)
(* operation behind a dialog; other proctors delete and edit too.  Of a    *)
(* node there is the version of its handle and team, one more with every   *)
(* edit.  A step is a browser task, or the server's part of one request.   *)
(***************************************************************************)
EXTENDS Naturals, FiniteSets, Functions, QueryClient

CONSTANTS
    FleetNodes,
    MaxFleetRequests,   \* bound on the requests sent, a bulk operation's one by one
    MaxFleetEvents      \* bound on polls, losses, others' changes and changes of selection

ASSUME FleetAssumption == IsFiniteSet(FleetNodes) /\ "none" \notin FleetNodes

VARIABLES
    enrolled,       \* the server's rows: node -> version
    warnings,       \* node -> warnings queued for it
    agents,         \* the page's query
    selectedNodes,
    warningTarget, editTarget,      \* the node of the dialog, or "none"
    confirmDialog,  \* what Confirm does: <<>> or <<[do, nodes, bulk]>>
    fleetRequests,  \* under way: [no, do, node, bulk, at]
    sentRequests, fleetEvents,
    changed         \* (history) node -> the version the page has seen saved, 0: deleted

dialogVars == <<selectedNodes, warningTarget, editTarget, confirmDialog>>
fleetVars == <<enrolled, warnings, agents, dialogVars, fleetRequests, sentRequests, fleetEvents, changed>>

FleetEvent == fleetEvents < MaxFleetEvents /\ fleetEvents' = fleetEvents + 1

Idle == warningTarget = "none" /\ editTarget = "none" /\ confirmDialog = <<>>

(* Tab, status filter and search leave any part of what was fetched.       *)
AgentRows == IF HasData(agents) THEN DOMAIN DataOf(agents) ELSE {}

-----------------------------------------------------------------------------
(* What a page step leaves alone: the server, and the requests.            *)
PageStep == UNCHANGED <<enrolled, warnings, agents, fleetRequests, sentRequests, changed>>

(* A node that another filter hides, or that has gone, stays selected.     *)
selectOne(n) ==
    /\ Idle /\ FleetEvent /\ n \in AgentRows
    /\ selectedNodes' = IF n \in selectedNodes THEN selectedNodes \ {n} ELSE selectedNodes \union {n}
    /\ UNCHANGED <<warningTarget, editTarget, confirmDialog>> /\ PageStep

(* The box is checked if as many are selected as shown; a click on it then *)
(* clears the selection, and otherwise selects the rows that are shown.    *)
selectAll(shown) ==
    /\ Idle /\ FleetEvent /\ shown # {}
    /\ selectedNodes' = IF Cardinality(selectedNodes) = Cardinality(shown) THEN {} ELSE shown
    /\ UNCHANGED <<warningTarget, editTarget, confirmDialog>> /\ PageStep

Confirming(do, nodes, bulk) ==
    /\ confirmDialog' = <<[do |-> do, nodes |-> nodes, bulk |-> bulk]>>
    /\ UNCHANGED <<selectedNodes, warningTarget, editTarget, fleetEvents>> /\ PageStep

handleDelete(n) == Idle /\ n \in AgentRows /\ Confirming("delete", {n}, FALSE)

setWarningTarget(n) ==
    /\ Idle /\ n \in AgentRows
    /\ warningTarget' = n
    /\ UNCHANGED <<selectedNodes, editTarget, confirmDialog, fleetEvents>> /\ PageStep

(* On top of the warning's dialog, which stays.                            *)
handleSendWarning ==
    /\ warningTarget # "none" /\ confirmDialog = <<>>
    /\ Confirming("warn", {warningTarget}, FALSE)

handleBulkWarning == Idle /\ selectedNodes # {} /\ Confirming("warn", selectedNodes, TRUE)
handleBulkDelete == Idle /\ selectedNodes # {} /\ Confirming("delete", selectedNodes, TRUE)

setEditTarget(n) ==
    /\ Idle /\ n \in AgentRows
    /\ editTarget' = n
    /\ UNCHANGED <<selectedNodes, warningTarget, confirmDialog, fleetEvents>> /\ PageStep

(* Cancel, ABORT, or a click outside: the dialog on top.                   *)
CloseDialog ==
    /\ ~Idle
    /\ confirmDialog' = <<>>
    /\ warningTarget' = IF confirmDialog = <<>> THEN "none" ELSE warningTarget
    /\ editTarget' = IF confirmDialog = <<>> THEN "none" ELSE editTarget
    /\ UNCHANGED <<selectedNodes, fleetEvents>> /\ PageStep

SendAll(do, nodes, bulk) ==
    /\ sentRequests + Cardinality(nodes) <= MaxFleetRequests
    /\ fleetRequests' = fleetRequests \union
         {[no |-> sentRequests, do |-> do, node |-> n, bulk |-> bulk, at |-> "sent"] : n \in nodes}
    /\ sentRequests' = sentRequests + Cardinality(nodes)

(* Confirm: the dialog does not wait for the requests it starts.           *)
Confirm ==
    /\ confirmDialog # <<>>
    /\ SendAll(confirmDialog[1].do, confirmDialog[1].nodes, confirmDialog[1].bulk)
    /\ confirmDialog' = <<>>
    /\ UNCHANGED <<enrolled, warnings, agents, selectedNodes, warningTarget, editTarget, fleetEvents, changed>>

(* SAVE CHANGES: its dialog waits, the button stays enabled.               *)
handleEditSave ==
    /\ editTarget # "none" /\ confirmDialog = <<>>
    /\ SendAll("edit", {editTarget}, FALSE)
    /\ UNCHANGED <<enrolled, warnings, agents, dialogVars, fleetEvents, changed>>

-----------------------------------------------------------------------------
AnswerAt(r, at) == fleetRequests' = (fleetRequests \ {r}) \union {[r EXCEPT !.at = at]}

delete_contestant(r) ==
    /\ r.do = "delete" /\ r.at = "sent"
    /\ IF r.node \in DOMAIN enrolled
       THEN enrolled' = Restrict(enrolled, DOMAIN enrolled \ {r.node}) /\ AnswerAt(r, "done")
       ELSE AnswerAt(r, "refused") /\ UNCHANGED enrolled
    /\ UNCHANGED <<warnings, agents, dialogVars, sentRequests, fleetEvents, changed>>

update_contestant(r) ==
    /\ r.do = "edit" /\ r.at = "sent"
    /\ IF r.node \in DOMAIN enrolled
       THEN enrolled' = [enrolled EXCEPT ![r.node] = @ + 1] /\ AnswerAt(r, "done")
       ELSE AnswerAt(r, "refused") /\ UNCHANGED enrolled
    /\ UNCHANGED <<warnings, agents, dialogVars, sentRequests, fleetEvents, changed>>

(* The lock is queued and counted; then send_contestant_update is called   *)
(* without the contestant's id, which raises, and the answer is an error.  *)
send_warning(r) ==
    /\ r.do = "warn" /\ r.at = "sent"
    /\ warnings' = IF r.node \in DOMAIN enrolled THEN [warnings EXCEPT ![r.node] = @ + 1] ELSE warnings
    /\ AnswerAt(r, IF r.node \in DOMAIN enrolled THEN "error" ELSE "refused")
    /\ UNCHANGED <<enrolled, agents, dialogVars, sentRequests, fleetEvents, changed>>

OtherDeletes(n) ==
    /\ FleetEvent /\ n \in DOMAIN enrolled
    /\ enrolled' = Restrict(enrolled, DOMAIN enrolled \ {n})
    /\ UNCHANGED <<warnings, agents, dialogVars, fleetRequests, sentRequests, changed>>

-----------------------------------------------------------------------------
Bulk(r) == {q \in fleetRequests : q.no = r.no}

JoinsFetch == Polled(agents)        \* seeded fault: a fetch under way will do

(* invalidateQueries, and refetch.                                         *)
AgentsRefreshed == Invalidated(Invalidated(agents))

(* The operation has succeeded, for all of its nodes: the page fetches its *)
(* list, closes whichever dialog of its kind is open by now, or drops the  *)
(* selection, whatever it is by now.                                       *)
Succeeds(r) ==
    /\ \A q \in Bulk(r) : q.at = "done"
    /\ agents' = IF r.do = "warn" THEN agents ELSE AgentsRefreshed
    /\ editTarget' = IF r.do = "edit" THEN "none" ELSE editTarget
    /\ warningTarget' = IF r.do = "warn" /\ ~r.bulk THEN "none" ELSE warningTarget
    /\ selectedNodes' = IF r.bulk THEN {} ELSE selectedNodes
    /\ changed' = [n \in FleetNodes |->
                     IF n \notin {q.node : q \in Bulk(r)} THEN changed[n]
                     ELSE IF r.do = "delete" \/ n \notin DOMAIN enrolled THEN 0
                     ELSE enrolled[n]]
    /\ fleetRequests' = fleetRequests \ Bulk(r)
    /\ UNCHANGED <<enrolled, warnings, confirmDialog, sentRequests, fleetEvents>>

(* An answer with an error, or none: a toast says so.  Of a bulk operation *)
(* the other requests go on unheard, and nothing is fetched.               *)
Fails(r) ==
    /\ r.at # "unheard"
    /\ IF r.at \in {"refused", "error"} THEN UNCHANGED fleetEvents ELSE FleetEvent
    /\ fleetRequests' = (fleetRequests \ Bulk(r)) \union
         {[q EXCEPT !.at = "unheard"] : q \in {p \in Bulk(r) \ {r} : p.at = "sent"}}
    /\ UNCHANGED <<enrolled, warnings, agents, dialogVars, sentRequests, changed>>

Unheard(r) ==
    /\ r.at = "unheard"
    /\ fleetRequests' = fleetRequests \ {r}
    /\ IF r.node \notin DOMAIN enrolled THEN UNCHANGED <<enrolled, warnings>>
       ELSE IF r.do = "delete"
       THEN enrolled' = Restrict(enrolled, DOMAIN enrolled \ {r.node}) /\ UNCHANGED warnings
       ELSE warnings' = [warnings EXCEPT ![r.node] = @ + 1] /\ UNCHANGED enrolled
    /\ UNCHANGED <<agents, dialogVars, sentRequests, fleetEvents, changed>>

(* Every ten seconds.                                                      *)
PollAgents ==
    /\ FleetEvent /\ ~Fetching(agents)
    /\ agents' = Polled(agents)
    /\ UNCHANGED <<enrolled, warnings, dialogVars, fleetRequests, sentRequests, changed>>

AgentsProgress ==
    /\ agents' \in Progress(agents, enrolled)
    /\ IF agents'.failed /\ ~Fetching(agents') THEN FleetEvent ELSE UNCHANGED fleetEvents
    /\ UNCHANGED <<enrolled, warnings, dialogVars, fleetRequests, sentRequests, changed>>

FleetInit ==
    /\ enrolled = [n \in FleetNodes |-> 1] /\ warnings = [n \in FleetNodes |-> 0]
    /\ agents = Mounted
    /\ selectedNodes = {} /\ warningTarget = "none" /\ editTarget = "none" /\ confirmDialog = <<>>
    /\ fleetRequests = {} /\ sentRequests = 0 /\ fleetEvents = 0
    /\ changed = [n \in FleetNodes |-> 1]

FleetNext ==
    \/ \E n \in FleetNodes : \/ selectOne(n) \/ handleDelete(n) \/ setWarningTarget(n)
                             \/ setEditTarget(n) \/ OtherDeletes(n)
    \/ \E shown \in SUBSET AgentRows : selectAll(shown)
    \/ handleSendWarning \/ handleBulkWarning \/ handleBulkDelete
    \/ CloseDialog \/ Confirm \/ handleEditSave
    \/ \E r \in fleetRequests : \/ delete_contestant(r) \/ update_contestant(r) \/ send_warning(r)
                                 \/ Succeeds(r) \/ Fails(r) \/ Unheard(r)
    \/ PollAgents \/ AgentsProgress

FleetSpec == FleetInit /\ [][FleetNext]_fleetVars

-----------------------------------------------------------------------------
(***************************************************************************)
(* What the page has been told is done, it shows, or is fetching, or could *)
(* not fetch (FleetCommand.jsx:314-344, 452-470): a node whose deletion    *)
(* has succeeded is not listed, alone or in bulk, and one that was edited  *)
(* is not listed as it was before, although a poll may be under way.       *)
(***************************************************************************)
OwnChangesShow ==
    \/ Fetching(agents) \/ agents.failed
    \/ \A n \in AgentRows : changed[n] # 0 /\ DataOf(agents)[n] >= changed[n]
=============================================================================
