-------------------------- MODULE CompetitionsPages --------------------------
(***************************************************************************)
(* The competitions page (dashboard/src/pages/CompetitionsList.jsx): the   *)
(* list, the form to create or edit one, with its banner, the status       *)
(* buttons; and the layout's mission timer (components/Layout.jsx), which  *)
(* shows an active competition and has a query of its own.  Of a row there *)
(* is whether it is active, which entry its name and description are, and  *)
(* its banner.  An entry is what was typed into one form, numbered; typing *)
(* over the entry of a competition while it is edited leaves it that one's *)
(* own.  A step is a browser task, or the server's part of one request.    *)
(***************************************************************************)
EXTENDS Naturals, FiniteSets, Functions, QueryClient

CONSTANTS
    Competitions,
    FirstCompetition,   \* the one there is at first
    MaxEntered,         \* bound on the entries typed
    MaxCompRequests,    \* bound on the requests sent
    MaxCompEvents       \* bound on banners chosen, polls and failures, together

ASSUME PagesAssumption ==
    /\ IsFiniteSet(Competitions) /\ Competitions \intersect {"none", "new"} = {}
    /\ FirstCompetition \in Competitions /\ MaxEntered \in Nat \ {0}

VARIABLES
    competition,    \* the server's rows: id -> [active, entry, banner]; banner 0: a
                    \* predefined one, otherwise the number of the file uploaded
    freeIds,        \* ids that no row has had
    competitions,   \* the page's query
    activeList,     \* the layout's: the ids of the active ones
    createOpen, editingId,
    newComp,        \* the form's fields: [entry, banner]; entry 0: no name
    compDialog,     \* the one whose deletion is to be confirmed, or "none"
    uploading,      \* banners under way: the entry in the form when each was chosen, and it
    compRequests,   \* under way: [no, do, id, fields, active, at]
    compSent, compEvents,
    entered,        \* entries so far: 1..entered
    madeFor,        \* (history) entry -> the competition it was typed for, or "none" yet
    spread,         \* (history) entries that a late banner has put into another form
    doubtful,       \* (history) entries of which Create was clicked again unanswered, or
                    \* whose answer was lost
    untold          \* (history) the active ones have changed and the layout was not told

formVars == <<createOpen, editingId, newComp>>
entryVars == <<entered, madeFor, spread, doubtful>>
pagesVars == <<competition, freeIds, competitions, activeList, formVars, compDialog, uploading,
               compRequests, compSent, compEvents, entryVars, untold>>

EmptyForm == [entry |-> 0, banner |-> 0]

CompEvent == compEvents < MaxCompEvents /\ compEvents' = compEvents + 1
ActiveIds == {c \in DOMAIN competition : competition[c].active}
ListedComps == IF HasData(competitions) THEN DOMAIN DataOf(competitions) ELSE {}

-----------------------------------------------------------------------------
FormStep == UNCHANGED <<competition, freeIds, competitions, activeList, compDialog, uploading,
                        compRequests, compSent, compEvents, untold>>

NoModal == ~createOpen /\ compDialog = "none"

(* New Competition: the form as it was left.                               *)
OpenCreate ==
    /\ NoModal /\ ~(Fetching(competitions) /\ ~HasData(competitions))
    /\ createOpen' = TRUE
    /\ UNCHANGED <<editingId, newComp, entryVars>> /\ FormStep

openEditModal(c) ==
    /\ NoModal /\ c \in ListedComps
    /\ LET comp == DataOf(competitions)[c]
       IN  newComp' = [entry |-> comp.entry, banner |-> comp.banner]
    /\ createOpen' = TRUE /\ editingId' = c
    /\ UNCHANGED entryVars /\ FormStep

(* A name is typed into a form that has none.                              *)
EnterName ==
    /\ createOpen /\ newComp.entry = 0 /\ entered < MaxEntered
    /\ entered' = entered + 1
    /\ newComp' = [newComp EXCEPT !.entry = entered']
    /\ madeFor' = [madeFor EXCEPT ![entered'] = editingId]
    /\ UNCHANGED <<createOpen, editingId, spread, doubtful>> /\ FormStep

(* A click on a predefined banner.                                         *)
ChooseBanner ==
    /\ createOpen /\ newComp' = [newComp EXCEPT !.banner = 0]
    /\ UNCHANGED <<createOpen, editingId, entryVars>> /\ FormStep

(* A click beside the form leaves everything in it.                        *)
ClickBeside ==
    createOpen /\ createOpen' = FALSE /\ UNCHANGED <<editingId, newComp, entryVars>> /\ FormStep

CancelKeepsFields ==                \* seeded fault: what was entered stays
    /\ createOpen /\ createOpen' = FALSE /\ editingId' = "none" /\ newComp' = newComp
    /\ UNCHANGED entryVars /\ FormStep

CancelForm ==
    /\ createOpen /\ createOpen' = FALSE /\ editingId' = "none" /\ newComp' = EmptyForm
    /\ UNCHANGED entryVars /\ FormStep

(* A banner is chosen.  Its answer brings the fields of then back, into    *)
(* whatever form there is by then.                                         *)
handleFileUpload ==
    /\ createOpen /\ CompEvent
    /\ uploading' = uploading \union {[entry |-> newComp.entry, file |-> compEvents']}
    /\ UNCHANGED <<competition, freeIds, competitions, activeList, formVars, compDialog,
                   compRequests, compSent, entryVars, untold>>

Uploaded(u) ==
    /\ uploading' = uploading \ {u}
    /\ \/ /\ newComp' = [entry |-> u.entry, banner |-> u.file]
          /\ spread' = IF newComp.entry = u.entry THEN spread ELSE spread \union {u.entry}
       \/ UNCHANGED <<newComp, spread>>             \* refused or lost
    /\ UNCHANGED <<competition, freeIds, competitions, activeList, createOpen, editingId, compDialog,
                   compRequests, compSent, compEvents, entered, madeFor, doubtful, untold>>

-----------------------------------------------------------------------------
SendComp(do, id, fields, active) ==
    /\ compSent < MaxCompRequests
    /\ compSent' = compSent + 1
    /\ compRequests' = compRequests \union
         {[no |-> compSent, do |-> do, id |-> id, fields |-> fields, active |-> active, at |-> "sent"]}
    /\ UNCHANGED <<competition, freeIds, competitions, activeList, formVars, uploading, compEvents,
                   entered, madeFor, spread, untold>>

Creating(entry) == \E r \in compRequests : r.do = "create" /\ r.fields.entry = entry

(* Create or Save Changes, which need a name: the form waits with all its  *)
(* fields, and its button stays enabled.                                   *)
handleSaveCompetition ==
    /\ createOpen /\ newComp.entry # 0
    /\ \/ /\ editingId # "none" /\ SendComp("update", editingId, newComp, FALSE)
          /\ UNCHANGED doubtful
       \/ /\ editingId = "none" /\ SendComp("create", "none", newComp, FALSE)
          /\ doubtful' = IF Creating(newComp.entry) THEN doubtful \union {newComp.entry} ELSE doubtful
    /\ UNCHANGED compDialog

(* START; STOP and ARCHIVE; RESET TIMER, which changes only the time.      *)
handleUpdateStatus(c, active) ==
    /\ NoModal /\ c \in ListedComps
    /\ SendComp("status", c, EmptyForm, active) /\ UNCHANGED <<compDialog, doubtful>>

handleResetTimer(c) ==
    /\ NoModal /\ c \in ListedComps
    /\ SendComp("reset", c, EmptyForm, FALSE) /\ UNCHANGED <<compDialog, doubtful>>

DeleteComp(c) ==
    /\ NoModal /\ c \in ListedComps /\ compDialog' = c
    /\ UNCHANGED <<competition, freeIds, competitions, activeList, formVars, uploading,
                   compRequests, compSent, compEvents, entryVars, untold>>

ConfirmDeletion ==
    /\ compDialog # "none" /\ compDialog' = "none"
    /\ \/ SendComp("delete", compDialog, EmptyForm, FALSE) /\ UNCHANGED doubtful
       \/ UNCHANGED <<competition, freeIds, competitions, activeList, formVars, uploading,
                      compRequests, compSent, compEvents, entryVars, untold>>    \* Cancel

-----------------------------------------------------------------------------
(* The service would remove the file of a banner that goes, and raises     *)
(* NameError instead: it does not import os.  The request changes nothing. *)
RaisesNameError(r) ==
    /\ competition[r.id].banner # 0
    /\ \/ r.do = "delete"
       \/ r.do = "update" /\ r.fields.banner # competition[r.id].banner

Inserted(c, fields) ==
    [d \in DOMAIN competition \union {c} |->
        IF d = c THEN [active |-> FALSE, entry |-> fields.entry, banner |-> fields.banner]
        ELSE competition[d]]

Changed(r) ==
    CASE r.do = "update" -> [competition EXCEPT ![r.id] = [active |-> @.active, entry |-> r.fields.entry,
                                                           banner |-> r.fields.banner]]
      [] r.do = "status" -> [competition EXCEPT ![r.id].active = r.active]
      [] r.do = "delete" -> Restrict(competition, DOMAIN competition \ {r.id})
      [] OTHER -> competition

(* The server's part: done, or refused with 404 or 500.                    *)
ServeComp(r) ==
    /\ r.at = "sent"
    /\ \/ /\ r.do = "create"
          /\ \E c \in freeIds :
                /\ competition' = Inserted(c, r.fields) /\ freeIds' = freeIds \ {c}
                /\ madeFor' = [madeFor EXCEPT ![r.fields.entry] = c]
          /\ compRequests' = (compRequests \ {r}) \union {[r EXCEPT !.at = "done"]}
       \/ /\ r.do # "create" /\ UNCHANGED <<freeIds, madeFor>>
          /\ IF r.id \in DOMAIN competition /\ ~RaisesNameError(r)
             THEN /\ competition' = Changed(r)
                  /\ compRequests' = (compRequests \ {r}) \union {[r EXCEPT !.at = "done"]}
             ELSE /\ UNCHANGED competition
                  /\ compRequests' = (compRequests \ {r}) \union {[r EXCEPT !.at = "refused"]}
    /\ UNCHANGED <<competitions, activeList, formVars, compDialog, uploading,
                   compSent, compEvents, entered, spread, doubtful, untold>>

OnlyIfEdited(r) ==          \* seeded fault: a change of status leaves the timer as it is
    IF r.do \in {"status", "reset", "delete"} THEN activeList ELSE Invalidated(activeList)

(* All but a deletion tell the layout.                                     *)
LayoutRefreshed(r) == IF r.do = "delete" THEN activeList ELSE Invalidated(activeList)

(* A first fetch of the layout's goes on, with what it has read.           *)
CompSucceeds(r) ==
    /\ r.at = "done"
    /\ competitions' = Invalidated(competitions)
    /\ activeList' = LayoutRefreshed(r)
    /\ untold' = (untold \/ r.do = "delete" \/ (activeList.fetch = "read" /\ ~HasData(activeList)))
    /\ IF r.do \in {"create", "update"}
       THEN createOpen' = FALSE /\ editingId' = "none" /\ newComp' = EmptyForm
       ELSE UNCHANGED formVars
    /\ compRequests' = compRequests \ {r}
    /\ UNCHANGED <<competition, freeIds, compDialog, uploading, compSent, compEvents, entryVars>>

(* A toast, and nothing more.                                              *)
CompFails(r) ==
    /\ IF r.at = "refused" THEN UNCHANGED compEvents ELSE CompEvent
    /\ compRequests' = compRequests \ {r}
    /\ untold' = (untold \/ r.at = "done")
    /\ doubtful' = IF r.do = "create" /\ r.at = "done" THEN doubtful \union {r.fields.entry} ELSE doubtful
    /\ UNCHANGED <<competition, freeIds, competitions, activeList, formVars, compDialog, uploading,
                   compSent, entered, madeFor, spread>>

ListProgress ==
    /\ competitions' \in Progress(competitions, competition)
    /\ IF competitions'.failed /\ ~Fetching(competitions') THEN CompEvent ELSE UNCHANGED compEvents
    /\ UNCHANGED <<competition, freeIds, activeList, formVars, compDialog, uploading,
                   compRequests, compSent, entryVars, untold>>

(* The layout's query, every thirty seconds too.                           *)
LayoutProgress ==
    /\ \/ /\ activeList' \in Progress(activeList, ActiveIds)
          /\ IF activeList'.failed /\ ~Fetching(activeList') THEN CompEvent ELSE UNCHANGED compEvents
          /\ untold' = (untold /\ activeList'.fetch # "read")
       \/ /\ CompEvent /\ ~Fetching(activeList)
          /\ activeList' = Polled(activeList) /\ UNCHANGED untold
    /\ UNCHANGED <<competition, freeIds, competitions, formVars, compDialog, uploading,
                   compRequests, compSent, entryVars>>

PagesInit ==
    /\ competition = [c \in {FirstCompetition} |-> [active |-> FALSE, entry |-> 1, banner |-> 0]]
    /\ freeIds = Competitions \ {FirstCompetition}
    /\ competitions = Mounted /\ activeList = Mounted
    /\ createOpen = FALSE /\ editingId = "none" /\ newComp = EmptyForm /\ compDialog = "none"
    /\ uploading = {} /\ compRequests = {} /\ compSent = 0 /\ compEvents = 0
    /\ entered = 1 /\ madeFor = [e \in 1..MaxEntered |-> IF e = 1 THEN FirstCompetition ELSE "none"]
    /\ spread = {} /\ doubtful = {} /\ untold = FALSE

PagesNext ==
    \/ OpenCreate \/ EnterName \/ ChooseBanner \/ ClickBeside \/ CancelForm
    \/ handleFileUpload \/ handleSaveCompetition
    \/ \E c \in Competitions : openEditModal(c) \/ handleResetTimer(c) \/ DeleteComp(c)
    \/ \E c \in Competitions, active \in BOOLEAN : handleUpdateStatus(c, active)
    \/ \E u \in uploading : Uploaded(u)
    \/ ConfirmDeletion
    \/ \E r \in compRequests : ServeComp(r) \/ CompSucceeds(r) \/ CompFails(r)
    \/ ListProgress \/ LayoutProgress

PagesSpec == PagesInit /\ [][PagesNext]_pagesVars

-----------------------------------------------------------------------------
(***************************************************************************)
(* No competition is given the name and description that were typed for    *)
(* another (CompetitionsList.jsx:81-123), however forms are left, reopened *)
(* and saved while requests are under way, but for two ways that the code  *)
(* leaves open: a banner that arrives when its form has given way to       *)
(* another puts its entry there (l.117), and Create clicked again before   *)
(* it is answered, or after its answer was lost, makes a second one of it. *)
(***************************************************************************)
FieldsStayOwn ==
    \A c \in DOMAIN competition :
        LET entry == competition[c].entry
        IN  entry \in spread \union doubtful \/ madeFor[entry] = c

(***************************************************************************)
(* The mission timer follows what the page has done (Layout.jsx:58-82,     *)
(* CompetitionsList.jsx:81-147): it is of an active competition, if there  *)
(* is one, or its list is being fetched or could not be, or the answer to  *)
(* a change is on its way; a deletion and an answer that was lost are what *)
(* it is not told of.                                                      *)
(***************************************************************************)
TimerIsOfActive ==
    HasData(activeList) =>
        \/ Fetching(activeList) \/ activeList.failed \/ untold
        \/ \E r \in compRequests : r.at = "done"
        \/ DataOf(activeList) = ActiveIds
=============================================================================
