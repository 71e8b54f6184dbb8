-------------------------- MODULE CompetitionGrid --------------------------
(***************************************************************************)
(* A competition's page (dashboard/src/pages/CompetitionView.jsx): the     *)
(* contestants' cards, of a list fetched every minute and of the updates   *)
(* the socket brings meanwhile; adding, editing, deleting, warning a team. *)
(* All are of one team.  Of a contestant's row there is the version, one   *)
(* more with every change.  DashboardSocket has the socket itself; here it *)
(* delivers in order, and loses what is sent while it is down.             *)
(***************************************************************************)
EXTENDS Naturals, Sequences, FiniteSets, Functions, QueryClient

CONSTANTS
    Contestants,
    MaxGridRequests,    \* bound on the requests sent
    MaxGridEvents       \* bound on changes by agents and others, losses, filters and polls

ASSUME GridAssumption == IsFiniteSet(Contestants) /\ "nobody" \notin Contestants

VARIABLES
    rows,               \* the server's: contestant -> version
    unused,             \* ids that no row has had
    locks,              \* contestant -> warnings queued
    realContestants,    \* the query
    contestantUpdates,  \* the hook's state: contestant -> version
    onWire,             \* updates broadcast and not yet delivered
    isConnected,
    matching,           \* those that search and filter leave
    gridDialog,         \* what Confirm does: <<>> or <<[do, nodes]>>
    gridEdit,           \* editTarget, "nobody", or "new": the dialog to add one
    gridRequests,       \* under way: [no, do, node, at]
    gridSent, gridEvents,
    deleted             \* (history) those whose deletion the page has seen succeed

gridVars == <<rows, unused, locks, realContestants, contestantUpdates, onWire, isConnected, matching,
              gridDialog, gridEdit, gridRequests, gridSent, gridEvents, deleted>>

ServerSide == <<rows, unused, locks>>
SocketSide == <<contestantUpdates, onWire, isConnected>>
PageSide == <<matching, gridDialog, gridEdit>>
RequestSide == <<gridRequests, gridSent>>

GridEvent == gridEvents < MaxGridEvents /\ gridEvents' = gridEvents + 1

-----------------------------------------------------------------------------
WithStrangers ==                    \* seeded fault: an update is enough to have a card
    LET listed == IF HasData(realContestants) THEN DataOf(realContestants) ELSE [c \in {} |-> 0]
    IN  [c \in DOMAIN contestantUpdates \union DOMAIN listed |->
           IF c \in DOMAIN contestantUpdates THEN contestantUpdates[c] ELSE listed[c]]

(* Those listed; an update hides what has been fetched, older or newer.    *)
mergedContestants ==
    LET listed == IF HasData(realContestants) THEN DataOf(realContestants) ELSE [c \in {} |-> 0]
    IN  [c \in DOMAIN listed |->
           IF c \in DOMAIN contestantUpdates THEN contestantUpdates[c] ELSE listed[c]]

processedContestants == DOMAIN mergedContestants \intersect matching

(* Search, or a filter on state.                                           *)
SetFilter(found) ==
    /\ GridEvent /\ gridDialog = <<>> /\ gridEdit = "nobody"
    /\ found # matching /\ matching' = found
    /\ UNCHANGED <<ServerSide, realContestants, SocketSide, gridDialog, gridEdit, RequestSide, deleted>>

-----------------------------------------------------------------------------
NoGridDialog == gridDialog = <<>> /\ gridEdit = "nobody"

AskToConfirm(do, nodes) ==
    /\ NoGridDialog
    /\ gridDialog' = <<[do |-> do, nodes |-> nodes]>>
    /\ UNCHANGED <<ServerSide, realContestants, SocketSide, matching, gridEdit, RequestSide, gridEvents, deleted>>

DeleteContestant(c) == c \in processedContestants /\ AskToConfirm("delete", {c})

(* The members are the ones that are shown.                                *)
handleTeamWarning == processedContestants # {} /\ AskToConfirm("warn", processedContestants)

OpenForm(form) ==
    /\ NoGridDialog /\ form \in processedContestants \union {"new"}
    /\ gridEdit' = form
    /\ UNCHANGED <<ServerSide, realContestants, SocketSide, matching, gridDialog, RequestSide, gridEvents, deleted>>

CloseGridDialog ==
    /\ ~NoGridDialog
    /\ gridDialog' = <<>> /\ gridEdit' = "nobody"
    /\ UNCHANGED <<ServerSide, realContestants, SocketSide, matching, RequestSide, gridEvents, deleted>>

SendGrid(do, nodes) ==
    /\ gridSent + Cardinality(nodes) <= MaxGridRequests
    /\ gridRequests' = gridRequests \union
         {[no |-> gridSent, do |-> do, node |-> c, at |-> "sent"] : c \in nodes}
    /\ gridSent' = gridSent + Cardinality(nodes)
    /\ UNCHANGED <<rows, locks, realContestants, SocketSide, matching, gridEvents, deleted>>

ConfirmGrid ==
    /\ gridDialog # <<>>
    /\ SendGrid(gridDialog[1].do, gridDialog[1].nodes)
    /\ gridDialog' = <<>> /\ UNCHANGED <<unused, gridEdit>>

(* SAVE CHANGES, and Add & Generate Token: the form waits for the answer,  *)
(* and the button stays enabled.                                           *)
SaveForm ==
    /\ gridEdit # "nobody"
    /\ \E c \in Contestants :
          /\ IF gridEdit = "new" THEN c \in unused ELSE c = gridEdit
          /\ unused' = unused \ {c}
          /\ SendGrid(IF gridEdit = "new" THEN "add" ELSE "edit", {c})
    /\ UNCHANGED <<gridDialog, gridEdit>>

-----------------------------------------------------------------------------
Answers(r, at) == gridRequests' = (gridRequests \ {r}) \union {[r EXCEPT !.at = at]}

(* The server's part.  None of these but a warning would be broadcast, and *)
(* a warning is not, as the call that would do it raises.                  *)
Serve(r) ==
    /\ r.at = "sent"
    /\ IF r.do # "add" /\ r.node \notin DOMAIN rows
       THEN Answers(r, "refused") /\ UNCHANGED ServerSide
       ELSE \/ /\ r.do = "warn"
               /\ locks' = [locks EXCEPT ![r.node] = @ + 1]
               /\ rows' = [rows EXCEPT ![r.node] = @ + 1]
               /\ Answers(r, "refused")
            \/ /\ r.do = "delete"
               /\ rows' = Restrict(rows, DOMAIN rows \ {r.node})
               /\ Answers(r, "done") /\ UNCHANGED locks
            \/ /\ r.do \in {"edit", "add"}
               /\ rows' = [c \in DOMAIN rows \union {r.node} |->
                             IF c # r.node THEN rows[c] ELSE IF r.do = "add" THEN 1 ELSE rows[c] + 1]
               /\ Answers(r, "done") /\ UNCHANGED locks
    /\ UNCHANGED <<unused, realContestants, SocketSide, PageSide, gridSent, gridEvents, deleted>>

(* A report of the contestant's agent; a socket that is down misses it.    *)
Telemetry(c) ==
    /\ GridEvent /\ c \in DOMAIN rows
    /\ rows' = [rows EXCEPT ![c] = @ + 1]
    /\ onWire' = IF isConnected THEN Append(onWire, [node |-> c, version |-> rows'[c]]) ELSE onWire
    /\ UNCHANGED <<unused, locks, realContestants, contestantUpdates, isConnected, PageSide, RequestSide, deleted>>

DeliverUpdate ==
    /\ onWire # <<>>
    /\ LET u == Head(onWire)
       IN  contestantUpdates' = [c \in DOMAIN contestantUpdates \union {u.node} |->
                                   IF c = u.node THEN u.version ELSE contestantUpdates[c]]
    /\ onWire' = Tail(onWire)
    /\ UNCHANGED <<ServerSide, realContestants, isConnected, PageSide, RequestSide, gridEvents, deleted>>

ConnectionLost ==
    /\ GridEvent /\ isConnected
    /\ isConnected' = FALSE /\ onWire' = <<>>
    /\ UNCHANGED <<ServerSide, realContestants, contestantUpdates, PageSide, RequestSide, deleted>>

(* The state that the updates made stays as it was.                        *)
ConnectedAnew ==
    /\ ~isConnected /\ isConnected' = TRUE
    /\ UNCHANGED <<ServerSide, realContestants, contestantUpdates, onWire, PageSide, RequestSide, gridEvents, deleted>>

-----------------------------------------------------------------------------
RequestSucceeds(r) ==
    /\ r.at = "done"
    /\ realContestants' = Invalidated(realContestants)
    /\ gridEdit' = IF r.do \in {"edit", "add"} /\ (gridEdit = "new" <=> r.do = "add")
                   THEN "nobody" ELSE gridEdit
    /\ deleted' = IF r.do = "delete" THEN deleted \union {r.node} ELSE deleted
    /\ gridRequests' = gridRequests \ {r}
    /\ UNCHANGED <<ServerSide, SocketSide, matching, gridDialog, gridSent, gridEvents>>

(* The rest of a team's warnings goes on all the same.                     *)
RequestFails(r) ==
    /\ IF r.at = "refused" THEN UNCHANGED gridEvents ELSE GridEvent
    /\ gridRequests' = gridRequests \ {r}
    /\ UNCHANGED <<ServerSide, realContestants, SocketSide, PageSide, gridSent, deleted>>

(* Every minute.                                                           *)
PollContestants ==
    /\ GridEvent /\ ~Fetching(realContestants)
    /\ realContestants' = Polled(realContestants)
    /\ UNCHANGED <<ServerSide, SocketSide, PageSide, RequestSide, deleted>>

ContestantsProgress ==
    /\ realContestants' \in Progress(realContestants, rows)
    /\ IF realContestants'.failed /\ ~Fetching(realContestants') THEN GridEvent ELSE UNCHANGED gridEvents
    /\ UNCHANGED <<ServerSide, SocketSide, PageSide, RequestSide, deleted>>

GridInit ==
    /\ \E enrolledNow \in SUBSET Contestants : /\ enrolledNow # {} /\ rows = [c \in enrolledNow |-> 1]
                                             /\ unused = Contestants \ enrolledNow
    /\ locks = [c \in Contestants |-> 0]
    /\ realContestants = Mounted
    /\ contestantUpdates = [c \in {} |-> 0] /\ onWire = <<>> /\ isConnected = FALSE
    /\ matching = Contestants /\ gridDialog = <<>> /\ gridEdit = "nobody"
    /\ gridRequests = {} /\ gridSent = 0 /\ gridEvents = 0 /\ deleted = {}

GridNext ==
    \/ \E found \in SUBSET Contestants : SetFilter(found)
    \/ \E c \in Contestants : DeleteContestant(c) \/ Telemetry(c)
    \/ \E form \in Contestants \union {"new"} : OpenForm(form)
    \/ handleTeamWarning \/ CloseGridDialog \/ ConfirmGrid \/ SaveForm
    \/ \E r \in gridRequests : Serve(r) \/ RequestSucceeds(r) \/ RequestFails(r)
    \/ DeliverUpdate \/ ConnectionLost \/ ConnectedAnew
    \/ PollContestants \/ ContestantsProgress

GridSpec == GridInit /\ [][GridNext]_gridVars

-----------------------------------------------------------------------------
(***************************************************************************)
(* A contestant whose deletion the page has seen succeed has no card, once *)
(* the list is fetched (CompetitionView.jsx:55-71, 136-139): neither a     *)
(* poll that was under way nor an update that comes late brings it back.   *)
(***************************************************************************)
DeletedHasNoCard ==
    \/ Fetching(realContestants) \/ realContestants.failed
    \/ DOMAIN mergedContestants \intersect deleted = {}
=============================================================================
