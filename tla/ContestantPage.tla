--------------------------- MODULE ContestantPage ---------------------------
(***************************************************************************)
(* The page of one contestant (dashboard/src/pages/ContestantDetail.jsx):  *)
(* five queries, two of which are polled, a button that fetches them all   *)
(* again, and the two commands, Send Warning and Disconnect, each behind   *)
(* the same confirmation dialog.  What a query is about changes on the     *)
(* server at any time; of it there is the number of changes.  A step is a  *)
(* browser task, or the server's part of one request.                      *)
(***************************************************************************)
EXTENDS Naturals, Sequences, QueryClient

CONSTANTS
    Keys,               \* bound: which of the page's queries there are
    MaxCommands,        \* bound on the commands sent
    MaxPageEvents       \* bound on changes, clicks on refresh, polls and losses

AllKeys == {"contestant", "incidents", "scores", "resources", "activity"}
PolledKeys == {"resources", "activity"}

ASSUME PageAssumption == Keys \subseteq AllKeys /\ "contestant" \in Keys

VARIABLES
    changes,        \* key -> how often what it is about has changed on the server
    pageQueries,    \* key -> the query
    commandDialog,  \* confirmDialog: <<>>, or <<"warning">> or <<"disconnect">>
    screenOpen,     \* the dialog with the contestant's screen
    commands,       \* under way: [no, do, at]
    sentCommands, pageEvents,
    queuedCommands, \* the payloads queued for the agent
    asked           \* (history) key -> changes at the last refresh of what was there

pageVars == <<changes, pageQueries, commandDialog, screenOpen, commands, sentCommands, pageEvents,
              queuedCommands, asked>>

PageEvent == pageEvents < MaxPageEvents /\ pageEvents' = pageEvents + 1

(* isLoading: until there is something of the contestant, a skeleton.      *)
ShowsPage == HasData(pageQueries["contestant"]) \/ pageQueries["contestant"].failed

-----------------------------------------------------------------------------
DialogStep == UNCHANGED <<changes, pageQueries, commands, sentCommands, pageEvents, queuedCommands, asked>>

(* From the page, or from the screen viewer's menu.                        *)
handleWarning == ShowsPage /\ commandDialog = <<>> /\ commandDialog' = <<"warning">>
                     /\ UNCHANGED screenOpen /\ DialogStep
handleDisconnect == ShowsPage /\ commandDialog = <<>> /\ screenOpen /\ commandDialog' = <<"disconnect">>
                    /\ UNCHANGED screenOpen /\ DialogStep

ToggleScreen ==
    /\ ShowsPage /\ commandDialog = <<>>
    /\ screenOpen \/ HasData(pageQueries["contestant"])
    /\ screenOpen' = ~screenOpen
    /\ UNCHANGED commandDialog /\ DialogStep

CancelCommand ==
    /\ commandDialog # <<>>
    /\ commandDialog' = <<>>
    /\ UNCHANGED screenOpen /\ DialogStep

(* onConfirm: the dialog, and its button, stay until the answer.           *)
ConfirmCommand ==
    /\ commandDialog # <<>>
    /\ sentCommands < MaxCommands /\ sentCommands' = sentCommands + 1
    /\ commands' = commands \union {[no |-> sentCommands, do |-> commandDialog[1], at |-> "sent"]}
    /\ UNCHANGED <<changes, pageQueries, commandDialog, screenOpen, pageEvents, queuedCommands, asked>>

(* send_warning and send_disconnect: the payload is queued, the contestant *)
(* and its incidents change; the answer to a warning is an error.          *)
QueueCommand(c) ==
    /\ c.at = "sent"
    /\ queuedCommands' = Append(queuedCommands, c.do)
    /\ changes' = [k \in Keys |->
                     IF k = "incidents" \/ (k = "contestant" /\ c.do = "warning") THEN changes[k] + 1
                     ELSE changes[k]]
    /\ commands' = (commands \ {c}) \union {[c EXCEPT !.at = IF c.do = "warning" THEN "error" ELSE "ok"]}
    /\ UNCHANGED <<pageQueries, commandDialog, screenOpen, sentCommands, pageEvents, asked>>

(* A toast, and the dialog that is open by now closes, whichever it is.    *)
CommandAnswered(c) ==
    /\ IF c.at = "sent" THEN PageEvent ELSE UNCHANGED pageEvents
    /\ commands' = commands \ {c}
    /\ commandDialog' = <<>>
    /\ UNCHANGED <<changes, pageQueries, screenOpen, sentCommands, queuedCommands, asked>>

-----------------------------------------------------------------------------
ServerChanges(k) ==
    /\ PageEvent
    /\ changes' = [changes EXCEPT ![k] = @ + 1]
    /\ UNCHANGED <<pageQueries, commandDialog, screenOpen, commands, sentCommands, queuedCommands, asked>>

Rejoined(q) == Polled(q)        \* seeded fault: a fetch under way will do

Refetched(q) == Invalidated(q)

(* handleManualRefresh: all five.                                          *)
handleManualRefresh ==
    /\ ShowsPage /\ commandDialog = <<>> /\ PageEvent
    /\ pageQueries' = [k \in Keys |-> Refetched(pageQueries[k])]
    /\ asked' = [k \in Keys |-> IF HasData(pageQueries[k]) THEN changes[k] ELSE asked[k]]
    /\ UNCHANGED <<changes, commandDialog, screenOpen, commands, sentCommands, queuedCommands>>

(* refetchInterval.                                                        *)
PollPage(k) ==
    /\ k \in PolledKeys /\ ~Fetching(pageQueries[k]) /\ PageEvent
    /\ pageQueries' = [pageQueries EXCEPT ![k] = Polled(@)]
    /\ UNCHANGED <<changes, commandDialog, screenOpen, commands, sentCommands, queuedCommands, asked>>

PageProgress(k) ==
    /\ \E q \in Progress(pageQueries[k], changes[k]) :
          /\ pageQueries' = [pageQueries EXCEPT ![k] = q]
          /\ IF q.failed /\ ~Fetching(q) THEN PageEvent ELSE UNCHANGED pageEvents
    /\ UNCHANGED <<changes, commandDialog, screenOpen, commands, sentCommands, queuedCommands, asked>>

ContestantPageInit ==
    /\ changes = [k \in Keys |-> 0]
    /\ pageQueries = [k \in Keys |-> Mounted]
    /\ commandDialog = <<>> /\ screenOpen = FALSE
    /\ commands = {} /\ sentCommands = 0 /\ pageEvents = 0 /\ queuedCommands = <<>>
    /\ asked = [k \in Keys |-> 0]

ContestantPageNext ==
    \/ handleWarning \/ handleDisconnect \/ ToggleScreen \/ CancelCommand \/ ConfirmCommand
    \/ \E c \in commands : QueueCommand(c) \/ CommandAnswered(c)
    \/ handleManualRefresh
    \/ \E k \in Keys : ServerChanges(k) \/ PollPage(k) \/ PageProgress(k)

ContestantPageSpec == ContestantPageInit /\ [][ContestantPageNext]_pageVars

-----------------------------------------------------------------------------
(***************************************************************************)
(* A manual refresh refreshes (ContestantDetail.jsx:71-77): after it, all  *)
(* that was on the page is at least as new as the click, or being fetched, *)
(* or could not be, although a poll that the server had already read may   *)
(* have been under way.                                                    *)
(***************************************************************************)
RefreshIsFresh ==
    \A k \in Keys :
        LET q == pageQueries[k] IN
        HasData(q) => Fetching(q) \/ q.failed \/ DataOf(q) >= asked[k]
=============================================================================
