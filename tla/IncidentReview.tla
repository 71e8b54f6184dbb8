--------------------------- MODULE IncidentReview ---------------------------
(***************************************************************************)
(* The incidents page (dashboard/src/pages/Incidents.jsx): one list per    *)
(* status, the review dialog with its note, and ACKNOWLEDGE ALL, while     *)
(* incidents are raised and another proctor reviews them too.  A list that *)
(* is not shown stays in the query cache; it is fetched when it is shown   *)
(* again unless it is fresh, which an invalidation ends.  A step is a      *)
(* browser task, or the server's part of one request.                      *)
(***************************************************************************)
EXTENDS Naturals, FiniteSets, QueryClient

CONSTANTS
    Incidents,
    Filters,        \* the statuses that have a list: OPEN, REVIEWED, DISMISSED
    MaxRequests,    \* bound on the review requests that are sent
    MaxReviewEvents \* bound on alerts, others' reviews, changes of list and failures, together

ASSUME ReviewAssumption ==
    /\ IsFiniteSet(Incidents) /\ "nothing" \notin Incidents
    /\ "OPEN" \in Filters

VARIABLES
    status,         \* the server's rows
    statusFilter,   \* the list shown
    lists,          \* the query of each list
    outdated,       \* queries invalidated since their data came
    shownList,      \* what the page shows: the statuses of the incidents in it
    reviewDialog,   \* the incident of the dialog, or "nothing"
    reviewNote,     \* the incident in whose dialog the text was begun, or "nothing"
    requests,       \* reviews under way: [no, id, status, note, all, at]
    issued, events, \* requests sent, and what MaxReviewEvents bounds, so far
    confirmed,      \* (history) reviews whose success the page has handled
    overtaken       \* (history) queries invalidated while an answer was on its way that stays

reviewVars == <<status, statusFilter, lists, outdated, shownList, reviewDialog, reviewNote,
                requests, issued, events, confirmed, overtaken>>
screenVars == <<statusFilter, shownList, reviewDialog, reviewNote>>
queryVars == <<lists, outdated, overtaken>>
requestVars == <<requests, issued, events, confirmed>>

(* GET /incidents?status=...                                               *)
Listed(f) == [i \in {j \in Incidents : status[j] = f} |-> f]

(* placeholderData: a list that has no data yet leaves the former one.     *)
Shown(f, queries) == IF HasData(queries[f]) THEN DataOf(queries[f]) ELSE shownList
ShownOpen == {i \in DOMAIN shownList : shownList[i] = "OPEN"}

Event == events < MaxReviewEvents /\ events' = events + 1

-----------------------------------------------------------------------------
(* invalidateQueries on some lists: the one shown is fetched anew.         *)
Invalidate(keys) ==
    /\ lists' = [k \in Filters |-> IF k \in keys /\ k = statusFilter THEN Invalidated(lists[k])
                                   ELSE lists[k]]
    /\ outdated' = outdated \union keys
    /\ overtaken' = overtaken \union
         {k \in keys : lists[k].fetch = "read" /\ (k # statusFilter \/ ~HasData(lists[k]))}

InvalidateShown == Invalidate({statusFilter})   \* seeded fault: the other lists stay fresh

(* queryKey ['incidents']: every list.  The badge's query, invalidated     *)
(* along with them, is in DashboardSocket.                                 *)
InvalidateLists == Invalidate(Filters)

(* An alert, of an incident that is none of these.                         *)
Alert ==
    /\ Event /\ InvalidateLists
    /\ UNCHANGED <<status, screenVars, requests, issued, confirmed>>

(* Another proctor's review: no message tells the page.                    *)
OtherProctor(i) ==
    /\ Event /\ status[i] = "OPEN"
    /\ status' = [status EXCEPT ![i] = "REVIEWED"]
    /\ UNCHANGED <<screenVars, queryVars, requests, issued, confirmed>>

(* A list that is not fresh, five seconds old or invalidated, is fetched.  *)
SetStatusFilter(f) ==
    /\ Event /\ reviewDialog = "nothing" /\ f # statusFilter
    /\ statusFilter' = f
    /\ shownList' = Shown(f, lists)
    /\ \/ lists' = [lists EXCEPT ![f] = Polled(@)]
       \/ f \notin outdated /\ HasData(lists[f]) /\ UNCHANGED lists
    /\ UNCHANGED <<status, outdated, overtaken, reviewDialog, reviewNote, requests, issued, confirmed>>

(* New data is fresh, even of a fetch that an invalidation has overtaken.  *)
Fetch(k) ==
    /\ \E q \in Progress(lists[k], Listed(k)) :
          /\ lists' = [lists EXCEPT ![k] = q]
          /\ IF q.failed /\ ~Fetching(q) THEN Event ELSE UNCHANGED events
          /\ outdated' = IF ~q.failed /\ ~Fetching(q) THEN outdated \ {k} ELSE outdated
    /\ overtaken' = IF lists[k].fetch = "sent" THEN overtaken \ {k} ELSE overtaken
    /\ shownList' = IF k = statusFilter THEN Shown(k, lists') ELSE shownList
    /\ UNCHANGED <<status, statusFilter, reviewDialog, reviewNote, requests, issued, confirmed>>

-----------------------------------------------------------------------------
(* REVIEW on a row that is shown as open.  The note is not reset.          *)
OpenReview(i) ==
    /\ reviewDialog = "nothing" /\ i \in ShownOpen
    /\ reviewDialog' = i
    /\ UNCHANGED <<status, statusFilter, shownList, queryVars, reviewNote, requestVars>>

TypeNote ==
    /\ reviewDialog # "nothing" /\ reviewNote = "nothing"
    /\ reviewNote' = reviewDialog
    /\ UNCHANGED <<status, statusFilter, shownList, queryVars, reviewDialog, requestVars>>

Cancel ==
    /\ reviewDialog # "nothing"
    /\ reviewDialog' = "nothing"
    /\ UNCHANGED <<status, statusFilter, shownList, queryVars, reviewNote, requestVars>>

ReviewRequest(i, decision, note, all) ==
    [no |-> issued, id |-> i, status |-> decision, note |-> note, all |-> all, at |-> "sent"]

Send(new) ==
    /\ issued + Cardinality(new) <= MaxRequests
    /\ requests' = requests \union new
    /\ issued' = issued + Cardinality(new)
    /\ UNCHANGED <<status, screenVars, queryVars, events, confirmed>>

(* The buttons stay enabled while a review is under way.                   *)
handleReview(decision) ==
    /\ reviewDialog # "nothing"
    /\ Send({ReviewRequest(reviewDialog, decision, reviewNote, FALSE)})

(* ACKNOWLEDGE ALL: the open ones among those that match the search.       *)
handleReviewAll ==
    /\ reviewDialog = "nothing" /\ statusFilter = "OPEN"
    /\ \E matches \in SUBSET ShownOpen :
          matches # {} /\ Send({ReviewRequest(i, "REVIEWED", "nothing", TRUE) : i \in matches})

Batch(r) == {q \in requests : q.all /\ q.no = r.no}

(* PATCH /incidents/{id}/review, whatever the row's status is.             *)
ServerReviews(r) ==
    /\ r.at = "sent"
    /\ status' = [status EXCEPT ![r.id] = r.status]
    /\ requests' = (requests \ {r}) \union {[r EXCEPT !.at = "ok"]}
    /\ UNCHANGED <<screenVars, queryVars, issued, events, confirmed>>

(* The request or its answer is lost: the page keeps its dialog, and lets  *)
(* the rest of a batch go unheard (Promise.all), fetching nothing.         *)
ReviewFails(r) ==
    /\ Event /\ r.at \in {"sent", "ok"}
    /\ requests' = (requests \ ({r} \union Batch(r)))
                    \union {[q EXCEPT !.at = "unheard"] : q \in {p \in Batch(r) \ {r} : p.at = "sent"}}
    /\ UNCHANGED <<status, screenVars, queryVars, issued, confirmed>>

ReviewedUnheard(r) ==
    /\ r.at = "unheard"
    /\ status' = [status EXCEPT ![r.id] = r.status]
    /\ requests' = requests \ {r}
    /\ UNCHANGED <<screenVars, queryVars, issued, events, confirmed>>

(* reviewMutation.onSuccess: closes whichever dialog is open by now.       *)
ReviewSucceeded(r) ==
    /\ r.at = "ok" /\ ~r.all
    /\ InvalidateLists
    /\ reviewDialog' = "nothing" /\ reviewNote' = "nothing"
    /\ requests' = requests \ {r}
    /\ confirmed' = confirmed \union {r.id}
    /\ UNCHANGED <<status, statusFilter, shownList, issued, events>>

AllReviewed(r) ==
    /\ r.all /\ \A q \in Batch(r) : q.at = "ok"
    /\ InvalidateLists
    /\ requests' = requests \ Batch(r)
    /\ confirmed' = confirmed \union {q.id : q \in Batch(r)}
    /\ UNCHANGED <<status, screenVars, issued, events>>

ReviewInit ==
    /\ status = [i \in Incidents |-> "OPEN"]
    /\ statusFilter = "OPEN"
    /\ lists = [k \in Filters |-> IF k = "OPEN" THEN Mounted ELSE [Mounted EXCEPT !.fetch = "idle"]]
    /\ outdated = {} /\ overtaken = {}
    /\ shownList = [i \in {} |-> "OPEN"]
    /\ reviewDialog = "nothing" /\ reviewNote = "nothing"
    /\ requests = {} /\ issued = 0 /\ events = 0 /\ confirmed = {}

ReviewNext ==
    \/ \E i \in Incidents : OtherProctor(i) \/ OpenReview(i)
    \/ \E f \in Filters : SetStatusFilter(f) \/ Fetch(f)
    \/ Alert \/ TypeNote \/ Cancel \/ handleReviewAll
    \/ \E decision \in Filters \ {"OPEN"} : handleReview(decision)
    \/ \E r \in requests : \/ ServerReviews(r) \/ ReviewFails(r) \/ ReviewedUnheard(r)
                            \/ ReviewSucceeded(r) \/ AllReviewed(r)

ReviewSpec == ReviewInit /\ [][ReviewNext]_reviewVars

-----------------------------------------------------------------------------
(***************************************************************************)
(* An incident whose review the page has seen succeed is not left in its   *)
(* list of open ones, whichever lists were shown and fetched meanwhile     *)
(* (Incidents.jsx:64-90): the list is being fetched or could not be.       *)
(* Excepted is a list that had an answer on its way when it was            *)
(* invalidated, out of sight or for the first time: that answer is taken   *)
(* for fresh.                                                              *)
(***************************************************************************)
OwnReviewShows ==
    statusFilter = "OPEN" =>
        LET q == lists["OPEN"]
        IN  \/ ~HasData(q) \/ Fetching(q) \/ q.failed \/ "OPEN" \in overtaken
            \/ DOMAIN DataOf(q) \intersect confirmed = {}
=============================================================================
