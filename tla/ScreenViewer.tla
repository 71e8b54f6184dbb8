---------------------------- MODULE ScreenViewer ----------------------------
(***************************************************************************)
(* The live screens (dashboard/src/components/ScreenViewer.jsx) and the    *)
(* store they come from (server/app/services/screen_broadcast.py), one in  *)
(* each API process.  Each time the list of contestants is another array,  *)
(* and each five seconds, a loop starts that fetches one screen after the  *)
(* other; nothing ends a loop that is still under way.  An image is shown  *)
(* through an object URL, which keeps it in memory until it is revoked.    *)
(* The component is mounted, left and mounted again: CompetitionView       *)
(* switches between nodes and screens, ContestantDetail opens it in a      *)
(* dialog.  What is in an image is left out.  A step lasts until the next  *)
(* await.                                                                  *)
(***************************************************************************)
EXTENDS Naturals, Sequences, FiniteSets, SequencesExt

CONSTANTS
    Nodes,          \* contestants of the page, all enrolled
    ScreenServers,      \* API processes: each keeps the uploads that reached it
    MaxEntries,     \* images a process keeps (500)
    MaxLoops,       \* bound on the loops under way
    MaxUrls,        \* bound on the object URLs made
    MaxUploads      \* bound on the uploads

ASSUME ViewerAssumption == IsFiniteSet(Nodes) /\ MaxEntries \in Nat \ {0}

VARIABLES
    store,          \* store[p]: the contestants whose image p has, oldest first
    uploads,        \* how many there have been
    viewing,        \* the component is mounted
    loops,          \* fetchScreenshots under way: [no, mine, todo, at, node]; mine:
                    \* begun since the component was mounted last
    screenshots,    \* node -> [url, available]; url 0: none
    fullscreenId,   \* the one shown enlarged, or "none"
    made,           \* object URLs made so far: 1..made
    alive,          \* those of this mount that are not revoked
    left            \* those of earlier mounts

viewerVars == <<store, uploads, viewing, loops, screenshots, fullscreenId, made, alive, left>>

NoScreen == [url |-> 0, available |-> FALSE]
UrlOf(c) == screenshots[c].url
HeldUrls == {UrlOf(c) : c \in Nodes} \ {0}

-----------------------------------------------------------------------------
(* ScreenStore.update: the image takes its place as the newest; past the   *)
(* limit the oldest is evicted.                                            *)
Stored(images, c) ==
    LET newest == Append(Remove(images, c), c)
    IN  IF Len(newest) > MaxEntries THEN Tail(newest) ELSE newest

upload_screenshot(p, c) ==
    /\ uploads < MaxUploads
    /\ uploads' = uploads + 1
    /\ store' = [store EXCEPT ![p] = Stored(@, c)]
    /\ UNCHANGED <<viewing, loops, screenshots, fullscreenId, made, alive, left>>

(* Another list of contestants, or the timer's tick: a loop over those     *)
(* that are online now.                                                    *)
fetchScreenshots ==
    /\ viewing /\ Cardinality(loops) < MaxLoops
    /\ \E online \in (SUBSET Nodes) \ {{}}, no \in 1..MaxLoops \ {l.no : l \in loops} :
          loops' = loops \union {[no |-> no, mine |-> TRUE, todo |-> online, at |-> "next", node |-> "none"]}
    /\ UNCHANGED <<store, uploads, viewing, screenshots, fullscreenId, made, alive, left>>

Moved(l, new) == (loops \ {l}) \union new

(* The loop goes on with the rest, if any.                                 *)
Onwards(l) ==
    LET rest == l.todo \ {l.node}
    IN  IF rest = {} THEN {} ELSE {[l EXCEPT !.todo = rest, !.at = "next", !.node = "none"]}

NextScreen(l) ==
    /\ l.at = "next"
    /\ \E c \in l.todo : loops' = Moved(l, {[l EXCEPT !.at = "sent", !.node = c]})
    /\ UNCHANGED <<store, uploads, viewing, screenshots, fullscreenId, made, alive, left>>

(* get_screenshot, by whichever process: the image, or none; or the token  *)
(* has expired, or the network fails, which the loop passes over.          *)
Answered(l) ==
    /\ l.at = "sent"
    /\ \/ /\ \E p \in ScreenServers : l.node \in ToSet(store[p])
          /\ loops' = Moved(l, {[l EXCEPT !.at = "image"]})
       \/ loops' = Moved(l, {[l EXCEPT !.at = "refused"]})
       \/ loops' = Moved(l, Onwards(l))
    /\ UNCHANGED <<store, uploads, viewing, screenshots, fullscreenId, made, alive, left>>

RevokedIfAvailable(l) ==            \* seeded fault: an image marked unavailable is forgotten
    IF screenshots[l.node].available THEN {UrlOf(l.node)} ELSE {}

(* What the setter revokes: the URL in the state it replaces.              *)
Revoked(l) == {UrlOf(l.node)}

(* createObjectURL and the setter.  A loop that has outlived its mount has *)
(* the setter of a component that is gone: React forgets what it returns,  *)
(* and may have run it on the old state, which revokes an image of that.   *)
ShowImage(l) ==
    /\ l.at = "image" /\ made < MaxUrls
    /\ made' = made + 1
    /\ IF l.mine
       THEN /\ screenshots' = [screenshots EXCEPT ![l.node] = [url |-> made', available |-> TRUE]]
            /\ alive' = (alive \ Revoked(l)) \union {made'}
            /\ UNCHANGED left
       ELSE /\ \E gone \in {{}} \union {{url} : url \in left} : left' = (left \ gone) \union {made'}
            /\ UNCHANGED <<screenshots, alive>>
    /\ loops' = Moved(l, Onwards(l))
    /\ UNCHANGED <<store, uploads, viewing, fullscreenId>>

MarkUnavailable(l) ==
    /\ l.at = "refused"
    /\ screenshots' = IF l.mine THEN [screenshots EXCEPT ![l.node].available = FALSE] ELSE screenshots
    /\ loops' = Moved(l, Onwards(l))
    /\ UNCHANGED <<store, uploads, viewing, fullscreenId, made, alive, left>>

-----------------------------------------------------------------------------
(* A picture in the grid, and its frame that says LIVE.                    *)
HasScreenshot(c) == screenshots[c].available /\ UrlOf(c) # 0

(* Click on a picture, or its Expand button; the dialog's close button.    *)
Enlarge(c) ==
    /\ viewing /\ fullscreenId = "none" /\ HasScreenshot(c)
    /\ fullscreenId' = c
    /\ UNCHANGED <<store, uploads, viewing, loops, screenshots, made, alive, left>>

Reduce ==
    /\ viewing /\ fullscreenId # "none"
    /\ fullscreenId' = "none"
    /\ UNCHANGED <<store, uploads, viewing, loops, screenshots, made, alive, left>>

(* The effect's cleanup sees the screenshots of the first render: none.    *)
SeenByCleanup == {}

(* The component goes with its state; its loops go on.                     *)
Leave ==
    /\ viewing
    /\ viewing' = FALSE
    /\ left' = left \union (alive \ SeenByCleanup) /\ alive' = {}
    /\ loops' = {[l EXCEPT !.mine = FALSE] : l \in loops}
    /\ screenshots' = [c \in Nodes |-> NoScreen] /\ fullscreenId' = "none"
    /\ UNCHANGED <<store, uploads, made>>

Enter ==
    /\ ~viewing
    /\ viewing' = TRUE
    /\ UNCHANGED <<store, uploads, loops, screenshots, fullscreenId, made, alive, left>>

ViewerInit ==
    /\ store = [p \in ScreenServers |-> <<>>] /\ uploads = 0
    /\ viewing = TRUE /\ loops = {}
    /\ screenshots = [c \in Nodes |-> NoScreen]
    /\ fullscreenId = "none" /\ made = 0 /\ alive = {} /\ left = {}

ViewerNext ==
    \/ \E p \in ScreenServers, c \in Nodes : upload_screenshot(p, c)
    \/ fetchScreenshots \/ Reduce \/ Leave \/ Enter
    \/ \E c \in Nodes : Enlarge(c)
    \/ \E l \in loops : NextScreen(l) \/ Answered(l) \/ ShowImage(l) \/ MarkUnavailable(l)

ViewerSpec == ViewerInit /\ [][ViewerNext]_viewerVars

-----------------------------------------------------------------------------
(* What a card of the grid or the enlarged view puts on the screen.        *)
Displayed ==
    {UrlOf(c) : c \in {d \in Nodes : HasScreenshot(d) \/ fullscreenId = d}} \ {0}

(***************************************************************************)
(* However many loops race, those of earlier mounts among them, no image   *)
(* is on the screen whose URL is revoked, and of the images made since the *)
(* component was mounted none is kept in memory but the last of each       *)
(* contestant (ScreenViewer.jsx:54-93).  Those of earlier mounts are       *)
(* (left), though l.95 says "Cleanup object URLs on unmount".              *)
(***************************************************************************)
ImagesInHand == Displayed \subseteq alive /\ alive \subseteq HeldUrls

=============================================================================
