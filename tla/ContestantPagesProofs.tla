------------------------ MODULE ContestantPagesProofs ------------------------
(***************************************************************************)
(* Proofs about the pages that show incidents and contestants, each for    *)
(* any objects and any bounds: the incidents page, the live screens, the   *)
(* fleet page, a competition's page and a contestant's.                    *)
(***************************************************************************)
EXTENDS IncidentReview, ScreenViewer, FleetCommand, CompetitionGrid, ContestantPage,
        ProofLemmas, FiniteSetTheorems, TLAPS

(* The contestant's page.                                                  *)

PageTyped ==
    /\ changes \in [Keys -> Nat] /\ asked \in [Keys -> Nat]
    /\ pageQueries \in [Keys -> Query(Nat)]

(***************************************************************************)
(* A key that has no data has not been asked for; one that has been read   *)
(* was read after the last click.                                          *)
(***************************************************************************)
KeyFresh(q, now, at) ==
    /\ Sound(q) /\ at <= now
    /\ ~HasData(q) => at = 0
    /\ q.fetch = "read" => q.answer[1] >= at
    /\ HasData(q) => Fetching(q) \/ q.failed \/ DataOf(q) >= at

PageInv ==
    PageTyped /\ \A k \in Keys : KeyFresh(pageQueries[k], changes[k], asked[k])

-----------------------------------------------------------------------------
LEMMA MountedFresh == Mounted \in Query(Nat) /\ KeyFresh(Mounted, 0, 0)
BY MountedQuery DEF KeyFresh

LEMMA LaterFresh ==
    ASSUME NEW q, NEW now \in Nat, NEW at \in Nat, KeyFresh(q, now, at)
    PROVE  KeyFresh(q, now + 1, at)
BY DEF KeyFresh

LEMMA PolledFresh ==
    ASSUME NEW q \in Query(Nat), NEW now \in Nat, NEW at \in Nat, KeyFresh(q, now, at)
    PROVE  Polled(q) \in Query(Nat) /\ KeyFresh(Polled(q), now, at)
<1> DEFINE p == Polled(q)
<1>1. /\ p \in Query(Nat) /\ Sound(p) /\ Fetching(p)
      /\ p.data = q.data /\ p.answer = q.answer /\ (p.fetch = "read" <=> q.fetch = "read")
    BY PolledQuery DEF KeyFresh
<1> HIDE DEF p
<1>2. KeyFresh(p, now, at)
    BY <1>1 DEF KeyFresh, HasData
<1> QED BY <1>1, <1>2 DEF p

(* The click: all that is on the page is sent for anew.                    *)
LEMMA RefetchedFresh ==
    ASSUME NEW q \in Query(Nat), NEW now \in Nat, NEW at \in Nat, KeyFresh(q, now, at)
    PROVE  /\ Refetched(q) \in Query(Nat)
           /\ KeyFresh(Refetched(q), now, IF HasData(q) THEN now ELSE at)
<1> DEFINE p == Invalidated(q)
<1>1. /\ p \in Query(Nat) /\ Sound(p) /\ Fetching(p) /\ p.data = q.data
      /\ HasData(q) => p.fetch = "sent"
      /\ ~HasData(q) => p.answer = q.answer /\ (p.fetch = "read" <=> q.fetch = "read")
    BY InvalidatedQuery DEF KeyFresh
<1>2. Refetched(q) = p
    BY DEF Refetched
<1> HIDE DEF p
<1>3. CASE HasData(q)
    BY <1>1, <1>2, <1>3 DEF KeyFresh, HasData
<1>4. CASE ~HasData(q)
    BY <1>1, <1>2, <1>4 DEF KeyFresh, HasData
<1> QED BY <1>3, <1>4

LEMMA ProgressFresh ==
    ASSUME NEW q \in Query(Nat), NEW now \in Nat, NEW at \in Nat, KeyFresh(q, now, at),
           NEW p \in Progress(q, now)
    PROVE  p \in Query(Nat) /\ KeyFresh(p, now, at)
<1>1. /\ p \in Query(Nat) /\ Sound(p) /\ Fetching(q)
      /\ HasFailed(q, p) \/ IsRead(q, p, now) \/ HasArrived(q, p)
    BY ProgressQuery DEF KeyFresh
<1>2. CASE HasFailed(q, p)
    BY <1>1, <1>2 DEF KeyFresh, HasFailed, HasData, Fetching
<1>3. CASE IsRead(q, p, now)
    BY <1>1, <1>3 DEF KeyFresh, IsRead, HasData, Fetching
<1>4. CASE HasArrived(q, p)
    BY <1>1, <1>4 DEF KeyFresh, HasArrived, HasData, DataOf, Fetching, Sound
<1> QED BY <1>1, <1>2, <1>3, <1>4

LEMMA PageInitInv == ContestantPageInit => PageInv
<1> SUFFICES ASSUME ContestantPageInit PROVE PageInv
    OBVIOUS
<1>1. /\ changes = [k \in Keys |-> 0] /\ asked = [k \in Keys |-> 0]
      /\ pageQueries = [k \in Keys |-> Mounted]
    BY DEF ContestantPageInit
<1> QED BY <1>1, MountedFresh DEF PageInv, PageTyped

LEMMA PageStepInv == PageInv /\ [ContestantPageNext]_pageVars => PageInv'
<1> SUFFICES ASSUME PageInv, [ContestantPageNext]_pageVars PROVE PageInv'
    OBVIOUS
<1>0. /\ changes \in [Keys -> Nat] /\ asked \in [Keys -> Nat] /\ pageQueries \in [Keys -> Query(Nat)]
      /\ \A k \in Keys : KeyFresh(pageQueries[k], changes[k], asked[k])
    BY DEF PageInv, PageTyped
(* Most steps leave the queries alone, and at most change the server.      *)
<1>1. ASSUME UNCHANGED <<pageQueries, asked>>, changes' \in [Keys -> Nat],
             \A k \in Keys : changes'[k] = changes[k] \/ changes'[k] = changes[k] + 1
      PROVE  PageInv'
  <2>1. ASSUME NEW k \in Keys PROVE KeyFresh(pageQueries[k], changes'[k], asked[k])
    <3> QED BY <1>0, <1>1, <2>1, LaterFresh
  <2> QED BY <1>0, <1>1, <2>1 DEF PageInv, PageTyped
<1>2. CASE UNCHANGED <<changes, pageQueries, asked>>
    BY <1>0, <1>1, <1>2
<1>3. ASSUME NEW c \in commands, QueueCommand(c) PROVE PageInv'
    BY <1>0, <1>1, <1>3 DEF QueueCommand
<1>4. ASSUME NEW k \in Keys, ServerChanges(k) PROVE PageInv'
    BY <1>0, <1>1, <1>4 DEF ServerChanges
<1>5. CASE handleManualRefresh
  <2>1. /\ pageQueries' = [k \in Keys |-> Refetched(pageQueries[k])]
        /\ asked' = [k \in Keys |-> IF HasData(pageQueries[k]) THEN changes[k] ELSE asked[k]]
        /\ changes' = changes
      BY <1>5 DEF handleManualRefresh
  <2>2. ASSUME NEW k \in Keys
        PROVE  pageQueries'[k] \in Query(Nat) /\ KeyFresh(pageQueries'[k], changes[k], asked'[k])
      BY <1>0, <2>1, RefetchedFresh
  <2> QED BY <1>0, <2>1, <2>2 DEF PageInv, PageTyped
(* The others concern one query.                                           *)
<1>6. ASSUME NEW k \in Keys, NEW q \in Query(Nat), pageQueries' = [pageQueries EXCEPT ![k] = q],
             KeyFresh(q, changes[k], asked[k]), UNCHANGED <<changes, asked>>
      PROVE  PageInv'
    BY <1>0, <1>6 DEF PageInv, PageTyped
<1>7. ASSUME NEW k \in Keys, PollPage(k) PROVE PageInv'
  <2>1. Polled(pageQueries[k]) \in Query(Nat) /\ KeyFresh(Polled(pageQueries[k]), changes[k], asked[k])
      BY <1>0, PolledFresh
  <2> QED BY <1>6, <1>7, <2>1 DEF PollPage
<1>8. ASSUME NEW k \in Keys, PageProgress(k) PROVE PageInv'
  <2>1. PICK q \in Progress(pageQueries[k], changes[k]) : pageQueries' = [pageQueries EXCEPT ![k] = q]
      BY <1>8 DEF PageProgress
  <2>2. q \in Query(Nat) /\ KeyFresh(q, changes[k], asked[k])
      BY <1>0, ProgressFresh
  <2> QED BY <1>6, <1>8, <2>1, <2>2 DEF PageProgress
<1>9. CASE handleWarning \/ handleDisconnect \/ ToggleScreen \/ CancelCommand \/ ConfirmCommand
    BY <1>2, <1>9 DEF handleWarning, handleDisconnect, ToggleScreen, CancelCommand, ConfirmCommand, DialogStep
<1>10. ASSUME NEW c \in commands, CommandAnswered(c) PROVE PageInv'
    BY <1>2, <1>10 DEF CommandAnswered
<1>11. CASE UNCHANGED pageVars
    BY <1>2, <1>11 DEF pageVars
<1> QED BY <1>3, <1>4, <1>5, <1>7, <1>8, <1>9, <1>10, <1>11 DEF ContestantPageNext

(***************************************************************************)
(* A manual refresh refreshes, for any keys and whatever polls and changes *)
(* are under way.                                                          *)
(***************************************************************************)
THEOREM RefreshesAreFresh == ContestantPageSpec => []RefreshIsFresh
<1>1. PageInv => RefreshIsFresh
    BY DEF PageInv, KeyFresh, RefreshIsFresh
<1> QED BY <1>1, PageInitInv, PageStepInv, PTL DEF ContestantPageSpec

-----------------------------------------------------------------------------
(* The live screens.                                                       *)

Screens == [url : Nat, available : BOOLEAN]
Loop == [no : Int, mine : BOOLEAN, todo : SUBSET Nodes, at : {"next", "sent", "image", "refused"},
         node : Nodes \union {"none"}]

ViewerTyped ==
    /\ viewing \in BOOLEAN /\ made \in Nat
    /\ screenshots \in [Nodes -> Screens]
    /\ loops \subseteq Loop /\ \A l \in loops : l.at # "next" => l.node \in Nodes

(* No two contestants are shown through the same URL.                      *)
UrlsAreOwn ==
    /\ \A c \in Nodes : UrlOf(c) <= made
    /\ \A c, d \in Nodes : c # d => UrlOf(c) # UrlOf(d) \/ UrlOf(c) = 0

(* An image of this mount is in memory while its contestant has it.        *)
AliveIsHeld == alive = HeldUrls

ViewerInv == ViewerTyped /\ UrlsAreOwn /\ AliveIsHeld

-----------------------------------------------------------------------------
LEMMA ViewerInitInv == ViewerInit => ViewerInv
<1> SUFFICES ASSUME ViewerInit PROVE ViewerInv
    OBVIOUS
<1>1. \A c \in Nodes : screenshots[c] = NoScreen
    BY DEF ViewerInit
<1>2. NoScreen \in Screens /\ NoScreen.url = 0
    BY DEF NoScreen, Screens
<1>3. ViewerTyped
    BY <1>2 DEF ViewerInit, ViewerTyped
<1>4. UrlsAreOwn /\ AliveIsHeld
    BY <1>1, <1>2 DEF ViewerInit, UrlsAreOwn, AliveIsHeld, HeldUrls, UrlOf
<1> QED BY <1>3, <1>4 DEF ViewerInv

(* A loop that has dealt with its node goes on, or ends.                   *)
LEMMA OnwardsLoop ==
    ASSUME NEW l \in Loop
    PROVE  Onwards(l) \subseteq Loop /\ \A m \in Onwards(l) : m.at = "next"
<1> DEFINE rest == l.todo \ {l.node}
           one == [l EXCEPT !.todo = rest]
           two == [one EXCEPT !.at = "next"]
           next == [two EXCEPT !.node = "none"]
<1>1. one \in Loop
    BY DEF Loop
<1>2. Onwards(l) \subseteq {next}
    BY Zenon DEF Onwards
<1> HIDE DEF one
<1>3. two \in Loop /\ two.at = "next"
    BY <1>1 DEF Loop
<1> HIDE DEF two
<1>4. next \in Loop /\ next.at = "next"
    BY <1>3 DEF Loop
<1> HIDE DEF next
<1> QED BY <1>2, <1>4

LEMMA LoopAt ==
    ASSUME NEW l \in Loop, NEW at \in {"sent", "image", "refused"}, NEW c \in Nodes
    PROVE  /\ [l EXCEPT !.at = at] \in Loop /\ [l EXCEPT !.at = at].node = l.node
           /\ [l EXCEPT !.at = at, !.node = c] \in Loop
           /\ [l EXCEPT !.at = at, !.node = c].node = c
<1> DEFINE one == [l EXCEPT !.at = at]
           two == [one EXCEPT !.node = c]
<1>1. one \in Loop /\ one.node = l.node
    BY DEF Loop
<1>2. [l EXCEPT !.at = at, !.node = c] = two
    BY Zenon
<1>3. one = [l EXCEPT !.at = at]
    BY Zenon
<1> HIDE DEF one
<1>4. two \in Loop /\ two.node = c
    BY <1>1 DEF Loop
<1> HIDE DEF two
<1> QED BY <1>1, <1>2, <1>3, <1>4

(* An image gets a URL that no contestant has had; the one it replaces     *)
(* goes, and no other.                                                     *)
LEMMA ImageShown ==
    ASSUME ViewerTyped, UrlsAreOwn, AliveIsHeld, NEW n \in Nodes,
           made' = made + 1,
           screenshots' = [screenshots EXCEPT ![n] = [url |-> made', available |-> TRUE]],
           alive' = (alive \ {UrlOf(n)}) \union {made'}
    PROVE  UrlsAreOwn' /\ alive' = HeldUrls'
<1>1. /\ made \in Nat /\ made' = made + 1
      /\ \A c \in Nodes : UrlOf(c) \in Nat /\ UrlOf(c) <= made
      /\ \A c, d \in Nodes : c # d => UrlOf(c) # UrlOf(d) \/ UrlOf(c) = 0
    BY DEF ViewerTyped, Screens, UrlsAreOwn, UrlOf
<1>2. \A c \in Nodes : UrlOf(c)' = IF c = n THEN made' ELSE UrlOf(c)
    BY DEF ViewerTyped, Screens, UrlOf
<1>3. UrlsAreOwn'
    BY <1>1, <1>2 DEF UrlsAreOwn
<1>4. ASSUME NEW x PROVE x \in HeldUrls' <=> x # 0 /\ \E c \in Nodes : UrlOf(c)' = x
    BY DEF HeldUrls
<1>5. ASSUME NEW x PROVE x \in alive <=> x # 0 /\ \E c \in Nodes : UrlOf(c) = x
    BY DEF AliveIsHeld, HeldUrls
<1>6. ASSUME NEW x PROVE x \in alive' <=> x \in HeldUrls'
  <2>1. CASE x = made'
      BY <1>1, <1>2, <1>4, <2>1
  <2>2. CASE x # made'
    <3>1. x \in alive' <=> x # UrlOf(n) /\ x # 0 /\ \E c \in Nodes : UrlOf(c) = x
        BY <1>5, <2>2
    <3>2. x \in HeldUrls' <=> x # 0 /\ \E c \in Nodes : c # n /\ UrlOf(c) = x
        BY <1>2, <1>4, <2>2
    <3> QED BY <1>1, <3>1, <3>2
  <2> QED BY <2>1, <2>2
<1> QED BY <1>3, <1>6

LEMMA ViewerStepInv == ViewerInv /\ [ViewerNext]_viewerVars => ViewerInv'
<1> SUFFICES ASSUME ViewerInv, [ViewerNext]_viewerVars PROVE ViewerInv'
    OBVIOUS
<1>0. /\ viewing \in BOOLEAN /\ made \in Nat /\ screenshots \in [Nodes -> Screens]
      /\ loops \subseteq Loop /\ \A l \in loops : l.at # "next" => l.node \in Nodes
    BY DEF ViewerInv, ViewerTyped
(* What does not touch the images.                                         *)
<1>1. ASSUME UNCHANGED <<viewing, screenshots, made, alive>>, loops' \subseteq Loop,
             \A l \in loops' : l.at # "next" => l.node \in Nodes
      PROVE  ViewerInv'
    BY <1>0, <1>1 DEF ViewerInv, ViewerTyped, UrlsAreOwn, AliveIsHeld, HeldUrls, UrlOf
<1>2. ASSUME UNCHANGED <<viewing, loops, screenshots, made, alive>> PROVE ViewerInv'
    BY <1>0, <1>1, <1>2
<1>3. CASE fetchScreenshots
  <2>1. PICK online \in SUBSET Nodes, no \in 1..MaxLoops :
           loops' = loops \union {[no |-> no, mine |-> TRUE, todo |-> online, at |-> "next", node |-> "none"]}
      BY <1>3 DEF fetchScreenshots
  <2>2. [no |-> no, mine |-> TRUE, todo |-> online, at |-> "next", node |-> "none"] \in Loop
      BY DEF Loop
  <2> DEFINE new == [no |-> no, mine |-> TRUE, todo |-> online, at |-> "next", node |-> "none"]
  <2>3. new \in Loop /\ new.at = "next" /\ loops' = loops \union {new}
      BY <2>1, <2>2
  <2> HIDE DEF new
  <2>4. loops' \subseteq Loop /\ \A l \in loops' : l.at # "next" => l.node \in Nodes
      BY <1>0, <2>3
  <2>5. UNCHANGED <<viewing, screenshots, made, alive>>
      BY <1>3 DEF fetchScreenshots
  <2> QED BY <1>1, <2>4, <2>5
(* One loop moves on.                                                      *)
<1>4. ASSUME NEW l \in loops, NEW new \in SUBSET Loop, \A m \in new : m.at # "next" => m.node \in Nodes,
             loops' = Moved(l, new)
      PROVE  loops' \subseteq Loop /\ \A m \in loops' : m.at # "next" => m.node \in Nodes
    BY <1>0, <1>4 DEF Moved
<1>5. ASSUME NEW l \in loops, NextScreen(l) PROVE ViewerInv'
  <2>1. PICK c \in l.todo : loops' = Moved(l, {[l EXCEPT !.at = "sent", !.node = c]})
      BY <1>5 DEF NextScreen
  <2>2. c \in Nodes
      BY <1>0 DEF Loop
  <2> DEFINE m == [l EXCEPT !.at = "sent", !.node = c]
  <2>3. m \in Loop /\ m.node = c
      BY <1>0, <2>2, LoopAt, Zenon
  <2> HIDE DEF m
  <2>4. loops' = Moved(l, {m})
      BY <2>1 DEF m
  <2> QED BY <1>1, <1>4, <1>5, <2>2, <2>3, <2>4 DEF NextScreen
<1>6. ASSUME NEW l \in loops, Answered(l) PROVE ViewerInv'
  <2>1. l \in Loop /\ l.node \in Nodes /\ UNCHANGED <<viewing, screenshots, made, alive>>
      BY <1>0, <1>6 DEF Answered
  <2>2. ASSUME NEW at \in {"image", "refused"}, loops' = Moved(l, {[l EXCEPT !.at = at]}) PROVE ViewerInv'
    <3> DEFINE m == [l EXCEPT !.at = at]
    <3>1. m \in Loop /\ m.node = l.node
        BY <2>1, LoopAt
    <3> HIDE DEF m
    <3>2. loops' = Moved(l, {m})
        BY <2>2 DEF m
    <3> QED BY <1>1, <1>4, <2>1, <3>1, <3>2
  <2>3. CASE loops' = Moved(l, Onwards(l))
      BY <1>1, <1>4, <2>1, <2>3, OnwardsLoop
  <2> QED BY <1>6, <2>2, <2>3 DEF Answered
(* An image arrives, or none does.                                         *)
<1>7. ASSUME NEW l \in loops, loops' = Moved(l, Onwards(l))
      PROVE  loops' \subseteq Loop /\ \A m \in loops' : m.at # "next" => m.node \in Nodes
    BY <1>0, <1>4, <1>7, OnwardsLoop
<1>8. ASSUME NEW l \in loops, ShowImage(l) PROVE ViewerInv'
  <2>1. l.node \in Nodes /\ made' = made + 1 /\ made' \in Nat /\ viewing' = viewing
      BY <1>0, <1>8 DEF ShowImage
  <2>2. CASE l.mine
    <3>1. /\ screenshots' = [screenshots EXCEPT ![l.node] = [url |-> made', available |-> TRUE]]
          /\ alive' = (alive \ {UrlOf(l.node)}) \union {made'}
        BY <1>8, <2>2 DEF ShowImage, Revoked
    <3>2. UrlsAreOwn' /\ alive' = HeldUrls'
        BY <2>1, <3>1, ImageShown DEF ViewerInv
    <3>3. screenshots' \in [Nodes -> Screens]
        BY <1>0, <2>1, <3>1 DEF Screens
    <3> QED BY <1>0, <1>7, <1>8, <2>1, <3>2, <3>3 DEF ShowImage, ViewerInv, ViewerTyped, AliveIsHeld
  <2>3. CASE ~l.mine
    <3>1. UNCHANGED <<screenshots, alive>>
        BY <1>8, <2>3 DEF ShowImage
    <3>2. UrlsAreOwn' /\ AliveIsHeld'
        BY <1>0, <2>1, <3>1 DEF ViewerInv, UrlsAreOwn, AliveIsHeld, HeldUrls, UrlOf, Screens
    <3> QED BY <1>0, <1>7, <1>8, <2>1, <3>1, <3>2 DEF ShowImage, ViewerInv, ViewerTyped
  <2> QED BY <2>2, <2>3
<1>9. ASSUME NEW l \in loops, MarkUnavailable(l) PROVE ViewerInv'
  <2>1. l.node \in Nodes /\ UNCHANGED <<viewing, made, alive>>
      BY <1>0, <1>9 DEF MarkUnavailable
  <2> DEFINE marked == [screenshots EXCEPT ![l.node].available = FALSE]
  <2>2. marked \in [Nodes -> Screens] /\ \A c \in Nodes : marked[c].url = screenshots[c].url
    <3> DEFINE s == [screenshots[l.node] EXCEPT !.available = FALSE]
    <3>1. s \in Screens /\ s.url = screenshots[l.node].url
        BY <1>0, <2>1 DEF Screens
    <3>2. marked = [screenshots EXCEPT ![l.node] = s]
        OBVIOUS
    <3> HIDE DEF s, marked
    <3> QED BY <1>0, <2>1, <3>1, <3>2
  <2>3. screenshots' = marked \/ screenshots' = screenshots
      BY <1>9 DEF MarkUnavailable
  <2> HIDE DEF marked
  <2>4. screenshots' \in [Nodes -> Screens] /\ \A c \in Nodes : UrlOf(c)' = UrlOf(c)
      BY <1>0, <2>2, <2>3 DEF UrlOf
  <2>5. HeldUrls' = HeldUrls
      BY <2>4 DEF HeldUrls
  <2>6. UrlsAreOwn' /\ AliveIsHeld'
      BY <2>1, <2>4, <2>5 DEF ViewerInv, UrlsAreOwn, AliveIsHeld
  <2>7. loops' = Moved(l, Onwards(l))
      BY <1>9 DEF MarkUnavailable
  <2> QED BY <1>0, <1>7, <2>1, <2>4, <2>6, <2>7 DEF ViewerInv, ViewerTyped
(* The component goes, and its loops go on without it.                     *)
<1>10. CASE Leave
  <2>1. /\ viewing' = FALSE /\ alive' = {} /\ UNCHANGED made
        /\ screenshots' = [c \in Nodes |-> NoScreen]
        /\ loops' = {[l EXCEPT !.mine = FALSE] : l \in loops}
      BY <1>10 DEF Leave
  <2>2. ASSUME NEW l \in loops
        PROVE  /\ [l EXCEPT !.mine = FALSE] \in Loop
               /\ [l EXCEPT !.mine = FALSE].at # "next" => [l EXCEPT !.mine = FALSE].node \in Nodes
    <3> DEFINE m == [l EXCEPT !.mine = FALSE]
    <3>1. m \in Loop /\ m.at = l.at /\ m.node = l.node
        BY <1>0 DEF Loop
    <3> HIDE DEF m
    <3>2. m.at # "next" => m.node \in Nodes
        BY <1>0, <3>1
    <3> QED BY <3>1, <3>2 DEF m
  <2>3. loops' \subseteq Loop /\ \A l \in loops' : l.at # "next" => l.node \in Nodes
      BY <2>1, <2>2
  <2>4. /\ screenshots' \in [Nodes -> Screens]
        /\ \A c \in Nodes : UrlOf(c)' = 0
      BY <2>1 DEF NoScreen, Screens, UrlOf
  <2>5. UrlsAreOwn' /\ AliveIsHeld'
      BY <1>0, <2>1, <2>4 DEF UrlsAreOwn, AliveIsHeld, HeldUrls
  <2> QED BY <1>0, <2>1, <2>3, <2>4, <2>5 DEF ViewerInv, ViewerTyped
<1>11. ASSUME NEW c, Enlarge(c) \/ \E p : upload_screenshot(p, c) PROVE ViewerInv'
    BY <1>2, <1>11 DEF Enlarge, upload_screenshot
<1>12. CASE Reduce \/ UNCHANGED viewerVars
    BY <1>2, <1>12 DEF Reduce, viewerVars
<1>13. CASE Enter
    BY <1>0, <1>13 DEF Enter, ViewerInv, ViewerTyped, UrlsAreOwn, AliveIsHeld, HeldUrls, UrlOf
<1> QED BY <1>3, <1>5, <1>6, <1>8, <1>9, <1>10, <1>11, <1>12, <1>13 DEF ViewerNext

(***************************************************************************)
(* No image on the screen has its URL revoked, and of those made since the *)
(* component was mounted none stays in memory but the last of each         *)
(* contestant (ScreenViewer.jsx:54-93), for any contestants, API processes *)
(* and loops, those of earlier mounts among them.                          *)
(***************************************************************************)
THEOREM ImagesAreInHand == ViewerSpec => []ImagesInHand
<1>1. ViewerInv => ImagesInHand
    BY DEF ViewerInv, AliveIsHeld, ImagesInHand, Displayed, HeldUrls
<1> QED BY <1>1, ViewerInitInv, ViewerStepInv, PTL DEF ViewerSpec

-----------------------------------------------------------------------------
(* Lists of rows: something of each of some objects.                       *)

Partial(S, V) == UNION {[T -> V] : T \in SUBSET S}

LEMMA PartialIs ==
    ASSUME NEW S, NEW V, NEW f
    PROVE  f \in Partial(S, V) <=> DOMAIN f \in SUBSET S /\ f \in [DOMAIN f -> V]
BY DEF Partial

-----------------------------------------------------------------------------
(* The fleet page.                                                         *)

FleetRequest == [no : Nat, do : {"delete", "edit", "warn"}, node : FleetNodes, bulk : BOOLEAN,
                 at : {"sent", "done", "refused", "error", "unheard"}]
Versions == Partial(FleetNodes, Nat)

FleetTyped ==
    /\ enrolled \in Versions /\ changed \in [FleetNodes -> Nat]
    /\ agents \in Query(Versions) /\ Sound(agents)
    /\ fleetRequests \subseteq FleetRequest /\ sentRequests \in Nat

DialogsTyped ==
    /\ selectedNodes \subseteq FleetNodes
    /\ warningTarget \in FleetNodes \union {"none"} /\ editTarget \in FleetNodes \union {"none"}
    /\ \/ confirmDialog = <<>>
       \/ \E do \in {"delete", "warn"}, nodes \in SUBSET FleetNodes, bulk \in BOOLEAN :
             confirmDialog = <<[do |-> do, nodes |-> nodes, bulk |-> bulk]>>

(* The requests of one number are of one operation.                        *)
Numbered ==
    /\ \A r \in fleetRequests : r.no < sentRequests
    /\ \A r, q \in fleetRequests : r.no = q.no => r.do = q.do

(* What was deleted stays so, and a warning is never answered.             *)
DoneIsDone ==
    \A r \in fleetRequests : r.at = "done" =>
        r.do # "warn" /\ (r.do = "delete" => r.node \notin DOMAIN enrolled)

(* Nothing can be done before there are rows, and they never go again.     *)
ListCameFirst ==
    \/ HasData(agents)
    \/ selectedNodes = {} /\ Idle /\ fleetRequests = {}

(* A list that has in it all that the page has seen done.                  *)
Reflects(list, done) == \A n \in DOMAIN list : done[n] # 0 /\ list[n] >= done[n]

ListsReflect ==
    /\ Reflects(enrolled, changed)
    /\ agents.fetch = "read" => Reflects(agents.answer[1], changed)
    /\ HasData(agents) => Fetching(agents) \/ agents.failed \/ Reflects(DataOf(agents), changed)

FleetInv ==
    FleetTyped /\ DialogsTyped /\ Numbered /\ DoneIsDone /\ ListCameFirst /\ ListsReflect

-----------------------------------------------------------------------------
LEMMA FleetInitInv == FleetInit => FleetInv
<1> SUFFICES ASSUME FleetInit PROVE FleetInv
    OBVIOUS
<1>1. enrolled \in Versions /\ changed \in [FleetNodes -> Nat] /\ Reflects(enrolled, changed)
    BY PartialIs DEF FleetInit, Versions, Reflects
<1>2. /\ agents \in Query(Versions) /\ Sound(agents) /\ Fetching(agents)
      /\ agents.fetch = "sent"
    BY MountedQuery DEF FleetInit
<1> QED BY <1>1, <1>2 DEF FleetInit, FleetInv, FleetTyped, DialogsTyped, Numbered, DoneIsDone,
                          ListCameFirst, Idle, ListsReflect

(* A step of the page: its dialogs only.                                   *)
LEMMA FleetPageStep ==
    ASSUME FleetInv, PageStep, DialogsTyped', ListCameFirst'
    PROVE  FleetInv'
BY DEF FleetInv, PageStep, FleetTyped, Numbered, DoneIsDone, ListsReflect, Reflects

(* Requests that have moved on, or gone.                                   *)
LEMMA RequestsMoveOn ==
    ASSUME fleetRequests \subseteq FleetRequest, Numbered, DoneIsDone, UNCHANGED sentRequests,
           \A n \in DOMAIN enrolled' : n \in DOMAIN enrolled,
           \A p \in fleetRequests' :
              \E q \in fleetRequests :
                 /\ p \in FleetRequest /\ p.no = q.no /\ p.do = q.do /\ p.node = q.node
                 /\ p.at = "done" => \/ q.at = "done"
                                     \/ p.do # "warn" /\ (p.do = "delete" => p.node \notin DOMAIN enrolled')
    PROVE  fleetRequests' \subseteq FleetRequest /\ Numbered' /\ DoneIsDone'
BY DEF Numbered, DoneIsDone

LEMMA AnswerIs ==
    ASSUME NEW r \in FleetRequest, NEW at \in {"done", "refused", "error", "unheard"}
    PROVE  LET p == [r EXCEPT !.at = at]
           IN  p \in FleetRequest /\ p.no = r.no /\ p.do = r.do /\ p.node = r.node /\ p.at = at
BY DEF FleetRequest

(* New requests, all of one operation.                                     *)
LEMMA SendAllInv ==
    ASSUME FleetInv, HasData(agents), NEW do \in {"delete", "edit", "warn"},
           NEW nodes \in SUBSET FleetNodes, NEW bulk \in BOOLEAN, SendAll(do, nodes, bulk),
           UNCHANGED <<enrolled, agents, changed>>, DialogsTyped'
    PROVE  FleetInv'
<1> DEFINE new == {[no |-> sentRequests, do |-> do, node |-> n, bulk |-> bulk, at |-> "sent"] : n \in nodes}
<1>1. /\ sentRequests \in Nat /\ fleetRequests \subseteq FleetRequest
      /\ fleetRequests' = fleetRequests \union new
      /\ sentRequests' = sentRequests + Cardinality(nodes)
    BY DEF SendAll, FleetInv, FleetTyped
<1>2. IsFiniteSet(nodes)
    BY FleetAssumption, FS_Subset
<1>3. Cardinality(nodes) \in Nat /\ (nodes # {} => Cardinality(nodes) # 0)
    BY <1>2, FS_CardinalityType, FS_EmptySet
<1>4. \A p \in new : p \in FleetRequest /\ p.no = sentRequests /\ p.do = do /\ p.at = "sent" /\ nodes # {}
    BY <1>1 DEF FleetRequest
<1> HIDE DEF new
<1>5. fleetRequests' \subseteq FleetRequest /\ sentRequests' \in Nat
    BY <1>1, <1>3, <1>4
<1>6. Numbered' /\ DoneIsDone'
    BY <1>1, <1>3, <1>4 DEF FleetInv, Numbered, DoneIsDone, FleetRequest
<1> QED BY <1>5, <1>6 DEF FleetInv, FleetTyped, ListCameFirst, ListsReflect, Reflects

(* What the server does to its rows is nothing the page has seen done yet. *)
LEMMA RowsMoveOn ==
    ASSUME FleetInv, UNCHANGED <<agents, dialogVars, changed>>,
           enrolled' \in Versions,
           \A n \in DOMAIN enrolled' : n \in DOMAIN enrolled /\ enrolled'[n] >= enrolled[n],
           fleetRequests' \subseteq FleetRequest, Numbered', DoneIsDone', UNCHANGED sentRequests,
           fleetRequests = {} => fleetRequests' = {}
    PROVE  FleetInv'
<1>1. enrolled \in [DOMAIN enrolled -> Nat] /\ DOMAIN enrolled \in SUBSET FleetNodes
      /\ enrolled' \in [DOMAIN enrolled' -> Nat] /\ changed \in [FleetNodes -> Nat]
    BY PartialIs DEF FleetInv, FleetTyped, Versions
<1>2. Reflects(enrolled', changed')
  <2> SUFFICES ASSUME NEW n \in DOMAIN enrolled' PROVE changed[n] # 0 /\ enrolled'[n] >= changed[n]
      BY DEF Reflects
  <2>1. n \in DOMAIN enrolled /\ enrolled'[n] >= enrolled[n] /\ changed[n] # 0 /\ enrolled[n] >= changed[n]
      BY DEF FleetInv, ListsReflect, Reflects
  <2> QED BY <1>1, <2>1
<1> QED BY <1>2 DEF FleetInv, FleetTyped, DialogsTyped, dialogVars, Idle, ListCameFirst, ListsReflect, Reflects

LEMMA RowGone ==
    ASSUME enrolled \in Versions, NEW n, enrolled' = Restrict(enrolled, DOMAIN enrolled \ {n})
    PROVE  /\ enrolled' \in Versions /\ n \notin DOMAIN enrolled'
           /\ \A m \in DOMAIN enrolled' : m \in DOMAIN enrolled /\ enrolled'[m] >= enrolled[m]
<1>1. enrolled \in [DOMAIN enrolled -> Nat] /\ DOMAIN enrolled \in SUBSET FleetNodes
    BY PartialIs DEF Versions
<1>2. enrolled' = [m \in DOMAIN enrolled \ {n} |-> enrolled[m]]
    BY DEF Restrict
<1>3. enrolled' \in [DOMAIN enrolled' -> Nat] /\ DOMAIN enrolled' = DOMAIN enrolled \ {n}
    BY <1>1, <1>2
<1>4. enrolled' \in Versions
    BY <1>1, <1>3, PartialIs DEF Versions
<1>5. ASSUME NEW m \in DOMAIN enrolled' PROVE m \in DOMAIN enrolled /\ enrolled'[m] >= enrolled[m]
    BY <1>1, <1>2, <1>5
<1> QED BY <1>3, <1>4, <1>5

LEMMA RowEdited ==
    ASSUME enrolled \in Versions, NEW n \in DOMAIN enrolled, enrolled' = [enrolled EXCEPT ![n] = @ + 1]
    PROVE  /\ enrolled' \in Versions
           /\ \A m \in DOMAIN enrolled' : m \in DOMAIN enrolled /\ enrolled'[m] >= enrolled[m]
<1>1. enrolled \in [DOMAIN enrolled -> Nat] /\ DOMAIN enrolled \in SUBSET FleetNodes
    BY PartialIs DEF Versions
<1>2. enrolled' \in [DOMAIN enrolled' -> Nat] /\ DOMAIN enrolled' = DOMAIN enrolled
    BY <1>1
<1>3. enrolled' \in Versions
    BY <1>1, <1>2, PartialIs DEF Versions
<1>4. ASSUME NEW m \in DOMAIN enrolled' PROVE m \in DOMAIN enrolled /\ enrolled'[m] >= enrolled[m]
  <2>1. CASE m = n
      BY <1>1, <2>1
  <2>2. CASE m # n
      BY <1>1, <1>2, <2>2
  <2> QED BY <2>1, <2>2
<1> QED BY <1>3, <1>4

(* One request is answered.                                                *)
LEMMA OneAnswered ==
    ASSUME FleetInv, NEW r \in fleetRequests, NEW at \in {"done", "refused", "error"}, AnswerAt(r, at),
           UNCHANGED <<agents, dialogVars, changed, sentRequests>>,
           enrolled' \in Versions,
           \A n \in DOMAIN enrolled' : n \in DOMAIN enrolled /\ enrolled'[n] >= enrolled[n],
           at = "done" => r.do # "warn" /\ (r.do = "delete" => r.node \notin DOMAIN enrolled')
    PROVE  FleetInv'
<1> DEFINE p == [r EXCEPT !.at = at]
<1>1. p \in FleetRequest /\ p.no = r.no /\ p.do = r.do /\ p.node = r.node /\ p.at = at
  <2>1. r \in FleetRequest /\ at \in {"done", "refused", "error", "unheard"}
      BY DEF FleetInv, FleetTyped
  <2> QED BY <2>1, AnswerIs, Zenon
<1>2. fleetRequests' = (fleetRequests \ {r}) \union {p}
    BY DEF AnswerAt
<1> HIDE DEF p
<1>3. fleetRequests' \subseteq FleetRequest /\ Numbered' /\ DoneIsDone'
    BY <1>1, <1>2, RequestsMoveOn DEF FleetInv, FleetTyped
<1> QED BY <1>2, <1>3, RowsMoveOn

LEMMA PagesActionsInv ==
    ASSUME FleetInv
    PROVE  /\ \A n \in FleetNodes :
                 selectOne(n) \/ handleDelete(n) \/ setWarningTarget(n) \/ setEditTarget(n) => FleetInv'
           /\ \A shown \in SUBSET AgentRows : selectAll(shown) => FleetInv'
           /\ handleSendWarning \/ handleBulkWarning \/ handleBulkDelete \/ CloseDialog => FleetInv'
<1>1. /\ DialogsTyped /\ ListCameFirst
      /\ AgentRows # {} => HasData(agents)
      /\ AgentRows \subseteq FleetNodes
  <2>1. HasData(agents) => DataOf(agents) \in Versions
      BY DataInD DEF FleetInv, FleetTyped
  <2> QED BY <2>1, PartialIs DEF FleetInv, AgentRows, Versions
<1>2. ASSUME NEW do \in {"delete", "warn"}, NEW nodes \in SUBSET FleetNodes, NEW bulk \in BOOLEAN,
             HasData(agents), Confirming(do, nodes, bulk)
      PROVE  FleetInv'
  <2>1. DialogsTyped'
      BY <1>1, <1>2 DEF Confirming, DialogsTyped
  <2>2. ListCameFirst'
      BY <1>2 DEF Confirming, PageStep, ListCameFirst
  <2> QED BY <1>2, <2>1, <2>2, FleetPageStep DEF Confirming
<1>3. ASSUME NEW n \in FleetNodes, selectOne(n) PROVE FleetInv'
  <2>1. HasData(agents)
      BY <1>1, <1>3 DEF selectOne
  <2>2. DialogsTyped' /\ ListCameFirst'
      BY <1>1, <1>3, <2>1 DEF selectOne, PageStep, DialogsTyped, ListCameFirst
  <2> QED BY <1>3, <2>2, FleetPageStep DEF selectOne
<1>4. ASSUME NEW shown \in SUBSET AgentRows, selectAll(shown) PROVE FleetInv'
  <2>1. HasData(agents)
      BY <1>1, <1>4 DEF selectAll
  <2>2. DialogsTyped' /\ ListCameFirst'
      BY <1>1, <1>4, <2>1 DEF selectAll, PageStep, DialogsTyped, ListCameFirst
  <2> QED BY <1>4, <2>2, FleetPageStep DEF selectAll
<1>5. ASSUME NEW n \in FleetNodes, setWarningTarget(n) \/ setEditTarget(n) PROVE FleetInv'
  <2>1. HasData(agents) /\ PageStep
      BY <1>1, <1>5 DEF setWarningTarget, setEditTarget
  <2>2. DialogsTyped'
      BY <1>1, <1>5 DEF setWarningTarget, setEditTarget, DialogsTyped
  <2>3. ListCameFirst'
      BY <2>1 DEF PageStep, ListCameFirst
  <2> QED BY <2>1, <2>2, <2>3, FleetPageStep
<1>6. ASSUME NEW n \in FleetNodes, handleDelete(n) PROVE FleetInv'
    BY <1>1, <1>2, <1>6 DEF handleDelete
<1>7. CASE handleSendWarning
    BY <1>1, <1>2, <1>7 DEF handleSendWarning, DialogsTyped, ListCameFirst, Idle
<1>8. CASE handleBulkWarning
    BY <1>1, <1>2, <1>8 DEF handleBulkWarning, DialogsTyped, ListCameFirst
<1>9. CASE handleBulkDelete
    BY <1>1, <1>2, <1>9 DEF handleBulkDelete, DialogsTyped, ListCameFirst
<1>10. CASE CloseDialog
  <2>1. HasData(agents) /\ PageStep
      BY <1>1, <1>10 DEF CloseDialog, ListCameFirst
  <2>2. DialogsTyped'
      BY <1>1, <1>10 DEF CloseDialog, DialogsTyped
  <2>3. ListCameFirst'
      BY <2>1 DEF PageStep, ListCameFirst
  <2> QED BY <2>1, <2>2, <2>3, FleetPageStep
<1> QED BY <1>3, <1>4, <1>5, <1>6, <1>7, <1>8, <1>9, <1>10

LEMMA FleetServerInv ==
    ASSUME FleetInv, NEW r \in fleetRequests,
           delete_contestant(r) \/ update_contestant(r) \/ send_warning(r) \/ Unheard(r)
    PROVE  FleetInv'
<1>0. enrolled \in Versions /\ r \in FleetRequest
    BY DEF FleetInv, FleetTyped
<1>1. \A n \in DOMAIN enrolled : enrolled[n] >= enrolled[n]
    BY <1>0, PartialIs DEF Versions
<1>2. CASE delete_contestant(r)
  <2>1. CASE r.node \in DOMAIN enrolled
    <3>1. enrolled' = Restrict(enrolled, DOMAIN enrolled \ {r.node}) /\ AnswerAt(r, "done") /\ r.do = "delete"
        BY <1>2, <2>1 DEF delete_contestant
    <3> QED BY <1>0, <1>2, <3>1, RowGone, OneAnswered DEF delete_contestant
  <2>2. CASE r.node \notin DOMAIN enrolled
      BY <1>0, <1>1, <1>2, <2>2, OneAnswered DEF delete_contestant
  <2> QED BY <2>1, <2>2
<1>3. CASE update_contestant(r)
  <2>1. CASE r.node \in DOMAIN enrolled
    <3>1. enrolled' = [enrolled EXCEPT ![r.node] = @ + 1] /\ AnswerAt(r, "done") /\ r.do = "edit"
        BY <1>3, <2>1 DEF update_contestant
    <3> QED BY <1>0, <1>3, <2>1, <3>1, RowEdited, OneAnswered DEF update_contestant
  <2>2. CASE r.node \notin DOMAIN enrolled
      BY <1>0, <1>1, <1>3, <2>2, OneAnswered DEF update_contestant
  <2> QED BY <2>1, <2>2
<1>4. CASE send_warning(r)
  <2>1. PICK at \in {"error", "refused"} : AnswerAt(r, at)
      BY <1>4 DEF send_warning
  <2> QED BY <1>0, <1>1, <1>4, <2>1, OneAnswered DEF send_warning
<1>5. CASE Unheard(r)
  <2>1. /\ enrolled' \in Versions
        /\ \A n \in DOMAIN enrolled' : n \in DOMAIN enrolled /\ enrolled'[n] >= enrolled[n]
    <3>1. enrolled' = enrolled \/ enrolled' = Restrict(enrolled, DOMAIN enrolled \ {r.node})
        BY <1>5 DEF Unheard
    <3> QED BY <1>0, <1>1, <3>1, RowGone
  <2>2. fleetRequests' = fleetRequests \ {r} /\ UNCHANGED <<agents, dialogVars, sentRequests, changed>>
      BY <1>5 DEF Unheard
  <2>3. fleetRequests' \subseteq FleetRequest /\ Numbered' /\ DoneIsDone'
      BY <2>1, <2>2, RequestsMoveOn DEF FleetInv, FleetTyped
  <2> QED BY <2>1, <2>2, <2>3, RowsMoveOn
<1> QED BY <1>2, <1>3, <1>4, <1>5

(* What the page then has seen done, the server's rows reflect.            *)
LEMMA SucceedsInv ==
    ASSUME FleetInv, NEW r \in fleetRequests, Succeeds(r)
    PROVE  FleetInv'
<1>0. /\ enrolled \in [DOMAIN enrolled -> Nat] /\ changed \in [FleetNodes -> Nat]
      /\ DOMAIN enrolled \in SUBSET FleetNodes
      /\ agents \in Query(Versions) /\ Sound(agents) /\ HasData(agents)
      /\ r \in FleetRequest
    BY PartialIs DEF FleetInv, FleetTyped, Versions, ListCameFirst
<1>1. \A q \in Bulk(r) : q \in fleetRequests /\ q.at = "done" /\ q.do = r.do
    BY DEF Succeeds, Bulk, FleetInv, Numbered
<1>2. r \in Bulk(r) /\ r.do # "warn"
    BY <1>1 DEF Bulk, FleetInv, DoneIsDone
<1>3. agents' = AgentsRefreshed
    BY <1>2 DEF Succeeds
<1>4. /\ agents' \in Query(Versions) /\ Sound(agents') /\ Fetching(agents') /\ agents'.fetch = "sent"
      /\ HasData(agents')
  <2> DEFINE p == Invalidated(agents)
  <2>1. p \in Query(Versions) /\ Sound(p) /\ p.data = agents.data
      BY <1>0, InvalidatedQuery
  <2>2. HasData(p) /\ agents' = Invalidated(p)
      BY <1>0, <1>3, <2>1 DEF HasData, AgentsRefreshed
  <2> HIDE DEF p
  <2>3. /\ Invalidated(p) \in Query(Versions) /\ Sound(Invalidated(p)) /\ Fetching(Invalidated(p))
        /\ Invalidated(p).data = p.data /\ Invalidated(p).fetch = "sent"
      BY <2>1, <2>2, InvalidatedQuery
  <2> QED BY <2>2, <2>3 DEF HasData
<1>5. changed' \in [FleetNodes -> Nat] /\ Reflects(enrolled, changed')
  <2>1. changed' = [n \in FleetNodes |->
                     IF n \notin {q.node : q \in Bulk(r)} THEN changed[n]
                     ELSE IF r.do = "delete" \/ n \notin DOMAIN enrolled THEN 0
                     ELSE enrolled[n]]
      BY DEF Succeeds
  <2>2. changed' \in [FleetNodes -> Nat]
      BY <1>0, <2>1
  <2>3. ASSUME NEW n \in DOMAIN enrolled PROVE changed'[n] # 0 /\ enrolled[n] >= changed'[n]
    <3>1. n \in FleetNodes /\ changed[n] # 0 /\ enrolled[n] >= changed[n] /\ enrolled[n] \in Nat
          /\ changed[n] \in Nat
        BY <1>0 DEF FleetInv, ListsReflect, Reflects
    <3>2. CASE n \notin {q.node : q \in Bulk(r)}
        BY <2>1, <3>1, <3>2
    <3>3. CASE n \in {q.node : q \in Bulk(r)}
      <4>1. r.do # "delete"
          BY <1>1, <3>3 DEF FleetInv, DoneIsDone
      <4>2. changed'[n] = enrolled[n]
          BY <2>1, <3>1, <3>3, <4>1
      <4> QED BY <3>1, <4>2
    <3> QED BY <3>2, <3>3
  <2> QED BY <2>2, <2>3 DEF Reflects
<1>6. fleetRequests' \subseteq FleetRequest /\ Numbered' /\ DoneIsDone' /\ UNCHANGED <<enrolled, sentRequests>>
  <2>1. fleetRequests' = fleetRequests \ Bulk(r) /\ UNCHANGED <<enrolled, sentRequests>>
      BY DEF Succeeds
  <2> QED BY <2>1, RequestsMoveOn DEF FleetInv, FleetTyped
<1>7. DialogsTyped'
    BY DEF FleetInv, DialogsTyped, Succeeds
<1>8. ListCameFirst' /\ ListsReflect'
    BY <1>4, <1>5, <1>6 DEF ListCameFirst, ListsReflect
<1> QED BY <1>0, <1>4, <1>5, <1>6, <1>7, <1>8 DEF FleetInv, FleetTyped

LEMMA FailsInv ==
    ASSUME FleetInv, NEW r \in fleetRequests, Fails(r)
    PROVE  FleetInv'
<1> DEFINE unsent == {p \in Bulk(r) \ {r} : p.at = "sent"}
<1>0. /\ fleetRequests \subseteq FleetRequest /\ unsent \subseteq fleetRequests /\ enrolled \in Versions
      /\ UNCHANGED <<enrolled, agents, dialogVars, sentRequests, changed>>
    BY DEF FleetInv, FleetTyped, Bulk, Fails
<1>1. \A n \in DOMAIN enrolled : enrolled[n] >= enrolled[n]
    BY <1>0, PartialIs DEF Versions
<1>2. fleetRequests' = (fleetRequests \ Bulk(r)) \union {[q EXCEPT !.at = "unheard"] : q \in unsent}
    BY DEF Fails
<1> HIDE DEF unsent
<1>3. ASSUME NEW p \in fleetRequests'
      PROVE  \E q \in fleetRequests :
                 /\ p \in FleetRequest /\ p.no = q.no /\ p.do = q.do /\ p.node = q.node
                 /\ p.at = "done" => q.at = "done"
  <2>1. CASE p \in fleetRequests
      BY <1>0, <2>1
  <2>2. ASSUME NEW q \in unsent, p = [q EXCEPT !.at = "unheard"]
        PROVE  /\ q \in fleetRequests /\ p \in FleetRequest /\ p.no = q.no /\ p.do = q.do
               /\ p.node = q.node /\ p.at # "done"
    <3>1. q \in FleetRequest /\ q \in fleetRequests
        BY <1>0
    <3>2. /\ p \in FleetRequest /\ p.no = q.no /\ p.do = q.do /\ p.node = q.node /\ p.at = "unheard"
        BY <2>2, <3>1, AnswerIs, Zenon
    <3> QED BY <3>1, <3>2
  <2>3. p \in fleetRequests \/ \E q \in unsent : p = [q EXCEPT !.at = "unheard"]
      BY <1>2
  <2> QED BY <2>1, <2>2, <2>3
<1>4. fleetRequests' \subseteq FleetRequest /\ Numbered' /\ DoneIsDone'
    BY <1>0, <1>3, RequestsMoveOn DEF FleetInv
<1> QED BY <1>0, <1>1, <1>4, RowsMoveOn

(* A fetch of the list goes on.                                            *)
LEMMA FetchInv ==
    ASSUME FleetInv, PollAgents \/ AgentsProgress
    PROVE  FleetInv'
<1>0. /\ enrolled \in Versions /\ agents \in Query(Versions) /\ Sound(agents)
      /\ UNCHANGED <<enrolled, dialogVars, fleetRequests, sentRequests, changed>>
    BY DEF FleetInv, FleetTyped, PollAgents, AgentsProgress
<1>1. /\ agents' \in Query(Versions) /\ Sound(agents')
      /\ HasData(agents) => HasData(agents')
      /\ agents'.fetch = "read" => Reflects(agents'.answer[1], changed)
      /\ HasData(agents') => Fetching(agents') \/ agents'.failed \/ Reflects(DataOf(agents'), changed)
  <2>1. CASE PollAgents
    <3>1. agents' = Polled(agents)
        BY <2>1 DEF PollAgents
    <3>2. /\ agents' \in Query(Versions) /\ Sound(agents') /\ Fetching(agents')
          /\ agents'.data = agents.data /\ agents'.answer = agents.answer
          /\ (agents'.fetch = "read" <=> agents.fetch = "read")
        BY <1>0, <3>1, PolledQuery
    <3> QED BY <3>2 DEF FleetInv, ListsReflect, HasData
  <2>2. CASE AgentsProgress
    <3>1. /\ agents' \in Query(Versions) /\ Sound(agents')
          /\ HasFailed(agents, agents') \/ IsRead(agents, agents', enrolled) \/ HasArrived(agents, agents')
      <4>1. agents' \in Progress(agents, enrolled)
          BY <2>2 DEF AgentsProgress
      <4> QED BY <1>0, <4>1, ProgressQuery
    <3>2. CASE HasFailed(agents, agents')
        BY <3>1, <3>2 DEF HasFailed, HasData, FleetInv, ListsReflect
    <3>3. CASE IsRead(agents, agents', enrolled)
        BY <3>1, <3>3 DEF IsRead, HasData, Fetching, FleetInv, ListsReflect
    <3>4. CASE HasArrived(agents, agents')
        BY <1>0, <3>1, <3>4 DEF HasArrived, HasData, DataOf, Sound, FleetInv, ListsReflect
    <3> QED BY <3>1, <3>2, <3>3, <3>4
  <2> QED BY <2>1, <2>2
<1>2. FleetTyped' /\ DialogsTyped' /\ Numbered' /\ DoneIsDone'
    BY <1>0, <1>1 DEF FleetInv, FleetTyped, DialogsTyped, Numbered, DoneIsDone, dialogVars
<1>3. ListCameFirst' /\ ListsReflect'
    BY <1>0, <1>1 DEF FleetInv, ListCameFirst, ListsReflect, Reflects, Idle, dialogVars
<1> QED BY <1>2, <1>3 DEF FleetInv

LEMMA FleetStepInv == FleetInv /\ [FleetNext]_fleetVars => FleetInv'
<1> SUFFICES ASSUME FleetInv, [FleetNext]_fleetVars PROVE FleetInv'
    OBVIOUS
<1>1. CASE Confirm
  <2>1. confirmDialog # <<>> /\ HasData(agents)
      BY <1>1 DEF Confirm, FleetInv, ListCameFirst, Idle
  <2>2. PICK do \in {"delete", "warn"}, nodes \in SUBSET FleetNodes, bulk \in BOOLEAN :
             confirmDialog = <<[do |-> do, nodes |-> nodes, bulk |-> bulk]>>
      BY <2>1 DEF FleetInv, DialogsTyped
  <2>3. SendAll(do, nodes, bulk) /\ UNCHANGED <<enrolled, agents, changed>>
      BY <1>1, <2>2 DEF Confirm
  <2>4. DialogsTyped'
      BY <1>1 DEF Confirm, FleetInv, DialogsTyped
  <2> QED BY <2>1, <2>3, <2>4, SendAllInv
<1>2. CASE handleEditSave
  <2>1. editTarget \in FleetNodes /\ HasData(agents)
      BY <1>2 DEF handleEditSave, FleetInv, DialogsTyped, ListCameFirst, Idle
  <2>2. SendAll("edit", {editTarget}, FALSE) /\ UNCHANGED <<enrolled, agents, changed>>
      BY <1>2 DEF handleEditSave
  <2>3. DialogsTyped'
      BY <1>2 DEF handleEditSave, FleetInv, DialogsTyped, dialogVars
  <2> QED BY <2>1, <2>2, <2>3, SendAllInv
<1>3. ASSUME NEW n \in FleetNodes, OtherDeletes(n) PROVE FleetInv'
  <2>1. enrolled \in Versions
      BY DEF FleetInv, FleetTyped
  <2>2. /\ enrolled' \in Versions
        /\ \A m \in DOMAIN enrolled' : m \in DOMAIN enrolled /\ enrolled'[m] >= enrolled[m]
      BY <1>3, <2>1, RowGone DEF OtherDeletes
  <2>3. UNCHANGED <<agents, dialogVars, changed, fleetRequests, sentRequests>>
      BY <1>3 DEF OtherDeletes
  <2>4. fleetRequests' \subseteq FleetRequest /\ Numbered' /\ DoneIsDone'
      BY <2>2, <2>3, RequestsMoveOn DEF FleetInv, FleetTyped
  <2> QED BY <2>2, <2>3, <2>4, RowsMoveOn
<1>4. CASE UNCHANGED fleetVars
    BY <1>4 DEF fleetVars, dialogVars, FleetInv, FleetTyped, DialogsTyped, Numbered, DoneIsDone,
                ListCameFirst, Idle, ListsReflect, Reflects
<1> QED BY <1>1, <1>2, <1>3, <1>4, PagesActionsInv, FleetServerInv, SucceedsInv, FailsInv, FetchInv
        DEF FleetNext

(***************************************************************************)
(* What the page has been told is done, it shows, for any nodes, requests  *)
(* and changes by others.                                                  *)
(***************************************************************************)
THEOREM ChangesAreShown == FleetSpec => []OwnChangesShow
<1>1. FleetInv => OwnChangesShow
    BY DEF FleetInv, ListsReflect, Reflects, OwnChangesShow, AgentRows
<1> QED BY <1>1, FleetInitInv, FleetStepInv, PTL DEF FleetSpec

-----------------------------------------------------------------------------
(* A competition's page.                                                   *)

GridRows == Partial(Contestants, Nat)
GridRequest == [no : Nat, do : {"add", "edit", "delete", "warn"}, node : Contestants,
                at : {"sent", "done", "refused"}]

GridTyped ==
    /\ rows \in GridRows /\ unused \subseteq Contestants
    /\ realContestants \in Query(GridRows) /\ Sound(realContestants)
    /\ gridRequests \subseteq GridRequest /\ gridSent \in Nat

GridPageTyped ==
    /\ matching \subseteq Contestants
    /\ gridEdit \in Contestants \union {"nobody", "new"}
    /\ \/ gridDialog = <<>>
       \/ \E do \in {"delete", "warn"}, nodes \in SUBSET Contestants :
             gridDialog = <<[do |-> do, nodes |-> nodes]>>

(* An id is given out once: to the request that adds its row.              *)
Adding == {r \in gridRequests : r.do = "add" /\ r.at = "sent"}
Coming(c) == c \in unused \/ \E r \in Adding : r.node = c
IdsOnce ==
    /\ \A c \in DOMAIN rows : ~Coming(c)
    /\ \A r \in Adding : r.node \notin unused
    /\ \A r, q \in Adding : r.node = q.node => r = q

(* So a row that was deleted does not come back.                           *)
Gone(c) == c \notin DOMAIN rows /\ ~Coming(c)
GoneStays ==
    /\ \A c \in deleted : Gone(c)
    /\ \A r \in gridRequests : r.do = "delete" /\ r.at = "done" => Gone(r.node)

(* Nothing is deleted before there are rows, and they never go again.      *)
CardsCameFirst ==
    \/ HasData(realContestants)
    \/ gridDialog = <<>> /\ deleted = {} /\ \A r \in gridRequests : r.do # "delete"

DeletedUnlisted ==
    /\ realContestants.fetch = "read" => DOMAIN realContestants.answer[1] \intersect deleted = {}
    /\ HasData(realContestants) => \/ Fetching(realContestants) \/ realContestants.failed
                                   \/ DOMAIN DataOf(realContestants) \intersect deleted = {}

GridInv ==
    GridTyped /\ GridPageTyped /\ IdsOnce /\ GoneStays /\ CardsCameFirst /\ DeletedUnlisted

-----------------------------------------------------------------------------
LEMMA GridInitInv == GridInit => GridInv
<1> SUFFICES ASSUME GridInit PROVE GridInv
    OBVIOUS
<1>1. PICK enrolledNow \in SUBSET Contestants :
         rows = [c \in enrolledNow |-> 1] /\ unused = Contestants \ enrolledNow
    BY DEF GridInit
<1>2. rows \in GridRows /\ DOMAIN rows = enrolledNow
  <2>1. rows \in [enrolledNow -> Nat] /\ DOMAIN rows = enrolledNow
      BY <1>1
  <2> QED BY <2>1, PartialIs DEF GridRows
<1>3. /\ realContestants \in Query(GridRows) /\ Sound(realContestants)
      /\ Fetching(realContestants) /\ realContestants.fetch = "sent"
    BY MountedQuery DEF GridInit
<1>4. gridRequests = {} /\ deleted = {} /\ Adding = {}
    BY DEF GridInit, Adding
<1>5. GridTyped /\ GridPageTyped /\ CardsCameFirst /\ DeletedUnlisted
    BY <1>1, <1>2, <1>3 DEF GridInit, GridTyped, GridPageTyped, CardsCameFirst, DeletedUnlisted
<1>6. IdsOnce /\ GoneStays
    BY <1>1, <1>2, <1>4 DEF IdsOnce, GoneStays, Coming
<1> QED BY <1>5, <1>6 DEF GridInv

(* A step of the page.                                                     *)
LEMMA GridPageStep ==
    ASSUME GridInv, UNCHANGED <<rows, unused, realContestants, gridRequests, gridSent, deleted>>,
           GridPageTyped', gridDialog' # <<>> => gridDialog # <<>> \/ HasData(realContestants)
    PROVE  GridInv'
BY DEF GridInv, GridTyped, IdsOnce, Coming, Adding, GoneStays, Gone, CardsCameFirst, DeletedUnlisted

LEMMA GridActionsInv ==
    ASSUME GridInv,
           \/ \E found \in SUBSET Contestants : SetFilter(found)
           \/ \E c \in Contestants : DeleteContestant(c)
           \/ \E form \in Contestants \union {"new"} : OpenForm(form)
           \/ handleTeamWarning \/ CloseGridDialog
    PROVE  GridInv'
<1>1. /\ GridPageTyped
      /\ processedContestants \subseteq Contestants
      /\ processedContestants # {} => HasData(realContestants)
    BY DEF GridInv, GridPageTyped, processedContestants, mergedContestants
<1>2. ASSUME NEW do \in {"delete", "warn"}, NEW nodes \in SUBSET processedContestants, nodes # {},
             AskToConfirm(do, nodes)
      PROVE  GridInv'
  <2>1. GridPageTyped'
      BY <1>1, <1>2 DEF AskToConfirm, GridPageTyped
  <2> QED BY <1>1, <1>2, <2>1, GridPageStep DEF AskToConfirm, ServerSide, RequestSide
<1>3. ASSUME NEW found \in SUBSET Contestants, SetFilter(found) PROVE GridInv'
  <2>1. GridPageTyped'
      BY <1>1, <1>3 DEF SetFilter, GridPageTyped
  <2> QED BY <1>3, <2>1, GridPageStep DEF SetFilter, ServerSide, RequestSide
<1>4. ASSUME NEW form, OpenForm(form) PROVE GridInv'
  <2>1. GridPageTyped'
      BY <1>1, <1>4 DEF OpenForm, GridPageTyped
  <2> QED BY <1>4, <2>1, GridPageStep DEF OpenForm, ServerSide, RequestSide
<1>5. CASE CloseGridDialog
  <2>1. GridPageTyped'
      BY <1>1, <1>5 DEF CloseGridDialog, GridPageTyped
  <2> QED BY <1>5, <2>1, GridPageStep DEF CloseGridDialog, ServerSide, RequestSide
<1>6. ASSUME NEW c \in Contestants, DeleteContestant(c) PROVE GridInv'
    BY <1>2, <1>6 DEF DeleteContestant
<1>7. CASE handleTeamWarning
    BY <1>2, <1>7 DEF handleTeamWarning
<1> QED BY <1>3, <1>4, <1>5, <1>6, <1>7

(* New requests.  One that adds a row takes its id.                        *)
LEMMA SendGridInv ==
    ASSUME GridInv, NEW do \in {"add", "edit", "delete", "warn"}, NEW nodes \in SUBSET Contestants,
           SendGrid(do, nodes), GridPageTyped', gridDialog' # <<>> => gridDialog # <<>>,
           \/ do # "add" /\ unused' \subseteq unused
           \/ do = "add" /\ \E c \in unused : nodes = {c} /\ unused' = unused \ {c},
           do = "delete" => HasData(realContestants)
    PROVE  GridInv'
<1> DEFINE new == {[no |-> gridSent, do |-> do, node |-> c, at |-> "sent"] : c \in nodes}
<1>1. /\ gridSent \in Nat /\ gridRequests \subseteq GridRequest /\ unused \subseteq Contestants
      /\ gridRequests' = gridRequests \union new
      /\ gridSent' = gridSent + Cardinality(nodes)
      /\ UNCHANGED <<rows, realContestants, deleted>>
    BY DEF SendGrid, GridInv, GridTyped
<1>2. Cardinality(nodes) \in Nat
    BY GridAssumption, FS_Subset, FS_CardinalityType
<1>3. \A p \in new : p \in GridRequest /\ p.do = do /\ p.at = "sent" /\ p.node \in nodes
    BY <1>1 DEF GridRequest
<1>4. \A p, q \in new : p.node = q.node => p = q
    OBVIOUS
<1> HIDE DEF new
<1>5. GridTyped'
    BY <1>1, <1>2, <1>3 DEF GridInv, GridTyped
<1>6. CardsCameFirst' /\ DeletedUnlisted'
    BY <1>1, <1>3 DEF GridInv, CardsCameFirst, DeletedUnlisted
<1>7. /\ \A c : Coming(c)' => Coming(c)
      /\ \A r \in Adding' : r.node \notin unused'
      /\ \A r, q \in Adding' : r.node = q.node => r = q
  <2>1. CASE do # "add"
    <3>1. Adding' = Adding
        BY <1>1, <1>3, <2>1 DEF Adding
    <3> QED BY <2>1, <3>1 DEF Coming, GridInv, IdsOnce
  <2>2. CASE do = "add"
    <3>1. Adding' = Adding \union new
        BY <1>1, <1>3, <2>2 DEF Adding
    <3>2. PICK c \in unused : nodes = {c} /\ unused' = unused \ {c}
        BY <2>2
    <3> QED BY <1>3, <1>4, <3>1, <3>2 DEF Coming, GridInv, IdsOnce
  <2> QED BY <2>1, <2>2
<1>8. IdsOnce' /\ GoneStays'
    BY <1>1, <1>3, <1>7 DEF GridInv, IdsOnce, GoneStays, Gone
<1> QED BY <1>5, <1>6, <1>8 DEF GridInv

(* One request is served: only that of an addition makes a row, and only   *)
(* that of its own id.                                                     *)
LEMMA ServedInv ==
    ASSUME GridInv, NEW r \in gridRequests, r.at = "sent", NEW at \in {"done", "refused"}, Answers(r, at),
           UNCHANGED <<unused, realContestants, PageSide, gridSent, deleted>>,
           rows' \in GridRows,
           \A c \in DOMAIN rows' : c \in DOMAIN rows \/ (r.do = "add" /\ c = r.node),
           r.do = "delete" /\ at = "done" => r.node \in DOMAIN rows /\ r.node \notin DOMAIN rows'
    PROVE  GridInv'
<1> DEFINE p == [r EXCEPT !.at = at]
<1>1. p \in GridRequest /\ p.do = r.do /\ p.node = r.node /\ p.at = at
  <2>1. r \in GridRequest
      BY DEF GridInv, GridTyped
  <2> QED BY <2>1 DEF GridRequest
<1>2. gridRequests' = (gridRequests \ {r}) \union {p}
    BY DEF Answers
<1> HIDE DEF p
<1>3. Adding' = Adding \ {r}
    BY <1>1, <1>2 DEF Adding
<1>4. \A c : Coming(c)' => Coming(c)
    BY <1>3 DEF Coming
<1>5. r.do = "add" => Coming(r.node) /\ ~Coming(r.node)'
  <2> SUFFICES ASSUME r.do = "add" PROVE Coming(r.node) /\ ~Coming(r.node)'
      OBVIOUS
  <2>1. r \in Adding
      BY DEF Adding
  <2> QED BY <1>3, <2>1 DEF Coming, GridInv, IdsOnce
<1>6. IdsOnce'
    BY <1>3, <1>4, <1>5 DEF GridInv, IdsOnce
<1>7. \A c : Gone(c) => Gone(c)'
    BY <1>4, <1>5 DEF Gone
<1>8. GoneStays'
  <2>1. r.do = "delete" /\ at = "done" => Gone(r.node)'
      BY <1>4 DEF GridInv, IdsOnce, Gone
  <2> QED BY <1>1, <1>2, <1>7, <2>1 DEF GridInv, GoneStays
<1>9. GridTyped' /\ GridPageTyped'
    BY <1>1, <1>2 DEF GridInv, GridTyped, GridPageTyped, PageSide
<1>10. CardsCameFirst' /\ DeletedUnlisted'
    BY <1>1, <1>2 DEF GridInv, CardsCameFirst, DeletedUnlisted, PageSide
<1> QED BY <1>6, <1>8, <1>9, <1>10 DEF GridInv

LEMMA ServeInv ==
    ASSUME GridInv, NEW r \in gridRequests, Serve(r)
    PROVE  GridInv'
<1>0. /\ rows \in [DOMAIN rows -> Nat] /\ DOMAIN rows \in SUBSET Contestants /\ r.node \in Contestants
      /\ r.at = "sent" /\ UNCHANGED <<unused, realContestants, PageSide, gridSent, deleted>>
    BY PartialIs DEF GridInv, GridTyped, GridRows, GridRequest, Serve
<1>1. CASE r.do # "add" /\ r.node \notin DOMAIN rows
  <2>1. Answers(r, "refused") /\ UNCHANGED rows
      BY <1>1 DEF Serve, ServerSide
  <2> QED BY <1>0, <1>1, <2>1, ServedInv DEF GridInv, GridTyped
<1>2. CASE ~(r.do # "add" /\ r.node \notin DOMAIN rows)
  <2>1. CASE r.do = "warn"
    <3>1. rows' = [rows EXCEPT ![r.node] = @ + 1] /\ Answers(r, "refused")
        BY <1>2, <2>1 DEF Serve
    <3>2. rows' \in [DOMAIN rows' -> Nat] /\ DOMAIN rows' = DOMAIN rows
      <4>1. r.node \in DOMAIN rows
          BY <1>2, <2>1
      <4> DEFINE n == r.node
      <4> HIDE DEF n
      <4>2. rows' = [rows EXCEPT ![n] = @ + 1] /\ n \in DOMAIN rows
          BY <3>1, <4>1 DEF n
      <4> QED BY <1>0, <4>2
    <3>3. rows' \in GridRows
        BY <1>0, <3>2, PartialIs DEF GridRows
    <3> QED BY <1>0, <2>1, <3>1, <3>2, <3>3, ServedInv
  <2>2. CASE r.do = "delete"
    <3>1. rows' = Restrict(rows, DOMAIN rows \ {r.node}) /\ Answers(r, "done")
        BY <1>2, <2>2 DEF Serve
    <3>2. rows' \in [DOMAIN rows' -> Nat] /\ DOMAIN rows' = DOMAIN rows \ {r.node}
        BY <1>0, <3>1 DEF Restrict
    <3>3. rows' \in GridRows
        BY <1>0, <3>2, PartialIs DEF GridRows
    <3> QED BY <1>0, <1>2, <2>2, <3>1, <3>2, <3>3, ServedInv
  <2>3. CASE r.do \in {"edit", "add"}
    <3>1. /\ rows' = [c \in DOMAIN rows \union {r.node} |->
                        IF c # r.node THEN rows[c] ELSE IF r.do = "add" THEN 1 ELSE rows[c] + 1]
          /\ Answers(r, "done")
        BY <1>2, <2>3 DEF Serve
    <3>2. DOMAIN rows' = DOMAIN rows \union {r.node} /\ (r.do = "edit" => r.node \in DOMAIN rows)
        BY <1>2, <3>1
    <3>3. \A c \in DOMAIN rows' : rows'[c] \in Nat
        BY <1>0, <2>3, <3>1, <3>2
    <3>4. rows' \in [DOMAIN rows' -> Nat]
        BY <3>1, <3>2, <3>3
    <3>5. rows' \in GridRows
        BY <1>0, <3>2, <3>4, PartialIs DEF GridRows
    <3> QED BY <1>0, <2>3, <3>1, <3>2, <3>5, ServedInv
  <2>4. r.do \in {"warn", "delete", "edit", "add"}
      BY <1>2 DEF Serve
  <2> QED BY <2>1, <2>2, <2>3, <2>4
<1> QED BY <1>1, <1>2

(* A request is over.                                                      *)
LEMMA RequestOver ==
    ASSUME GridInv, NEW r \in gridRequests, RequestSucceeds(r) \/ RequestFails(r)
    PROVE  GridInv'
<1>0. /\ gridRequests' = gridRequests \ {r} /\ UNCHANGED <<rows, unused, gridSent, matching, gridDialog>>
      /\ realContestants \in Query(GridRows) /\ Sound(realContestants)
    BY DEF RequestSucceeds, RequestFails, ServerSide, PageSide, GridInv, GridTyped
<1>1. \A c : (Coming(c)' => Coming(c)) /\ (Gone(c) => Gone(c)')
    BY <1>0 DEF Coming, Adding, Gone
<1>2. IdsOnce'
    BY <1>0, <1>1 DEF GridInv, IdsOnce, Adding
<1>3. CASE RequestFails(r)
  <2>1. UNCHANGED <<realContestants, PageSide, deleted>>
      BY <1>3 DEF RequestFails
  <2>2. GoneStays' /\ CardsCameFirst' /\ DeletedUnlisted'
      BY <1>0, <1>1, <2>1 DEF GridInv, GoneStays, CardsCameFirst, DeletedUnlisted, PageSide
  <2> QED BY <1>0, <1>2, <2>1, <2>2 DEF GridInv, GridTyped, GridPageTyped, PageSide
<1>4. CASE RequestSucceeds(r)
  <2>1. /\ realContestants' = Invalidated(realContestants) /\ r.at = "done"
        /\ deleted' = IF r.do = "delete" THEN deleted \union {r.node} ELSE deleted
        /\ gridEdit' \in {gridEdit, "nobody"}
      BY <1>4 DEF RequestSucceeds
  <2>2. /\ realContestants' \in Query(GridRows) /\ Sound(realContestants') /\ Fetching(realContestants')
        /\ realContestants'.data = realContestants.data
        /\ HasData(realContestants) => realContestants'.fetch = "sent"
        /\ ~HasData(realContestants) =>
              /\ realContestants'.answer = realContestants.answer
              /\ (realContestants'.fetch = "read" <=> realContestants.fetch = "read")
      BY <1>0, <2>1, InvalidatedQuery
  <2>3. GoneStays'
      BY <1>0, <1>1, <2>1 DEF GridInv, GoneStays
  <2>4. HasData(realContestants') <=> HasData(realContestants)
      BY <2>2 DEF HasData
  <2>5. r.do # "delete" \/ HasData(realContestants)
      BY DEF GridInv, CardsCameFirst
  <2>6. CardsCameFirst'
      BY <1>0, <2>1, <2>4, <2>5 DEF GridInv, CardsCameFirst
  <2>7. DeletedUnlisted'
    <3>1. CASE HasData(realContestants)
        BY <2>2, <3>1 DEF DeletedUnlisted
    <3>2. CASE ~HasData(realContestants)
        BY <2>1, <2>2, <2>4, <2>5, <3>2 DEF GridInv, DeletedUnlisted
    <3> QED BY <3>1, <3>2
  <2>8. GridTyped' /\ GridPageTyped'
      BY <1>0, <2>1, <2>2 DEF GridInv, GridTyped, GridPageTyped
  <2> QED BY <1>2, <2>3, <2>6, <2>7, <2>8 DEF GridInv
<1> QED BY <1>3, <1>4

(* Agents' reports and the socket change no set of rows.                   *)
LEMMA GridSocketInv ==
    ASSUME GridInv, (\E c \in Contestants : Telemetry(c)) \/ DeliverUpdate \/ ConnectionLost \/ ConnectedAnew
    PROVE  GridInv'
<1>1. ASSUME DOMAIN rows' = DOMAIN rows, rows' \in GridRows,
             UNCHANGED <<unused, realContestants, PageSide, RequestSide, deleted>>
      PROVE  GridInv'
  <2>1. GridTyped' /\ GridPageTyped' /\ CardsCameFirst' /\ DeletedUnlisted'
      BY <1>1 DEF GridInv, GridTyped, GridPageTyped, CardsCameFirst, DeletedUnlisted, PageSide, RequestSide
  <2>2. IdsOnce' /\ GoneStays'
      BY <1>1 DEF GridInv, IdsOnce, GoneStays, Gone, Coming, Adding, RequestSide
  <2> QED BY <2>1, <2>2 DEF GridInv
<1>2. rows \in GridRows
    BY DEF GridInv, GridTyped
<1>3. ASSUME NEW c \in Contestants, Telemetry(c) PROVE GridInv'
  <2>1. rows' = [rows EXCEPT ![c] = @ + 1] /\ c \in DOMAIN rows
      BY <1>3 DEF Telemetry
  <2>2. rows \in [DOMAIN rows -> Nat] /\ DOMAIN rows \in SUBSET Contestants
      BY <1>2, PartialIs DEF GridRows
  <2>3. rows' \in [DOMAIN rows' -> Nat] /\ DOMAIN rows' = DOMAIN rows
      BY <2>1, <2>2
  <2>4. rows' \in GridRows
      BY <2>2, <2>3, PartialIs DEF GridRows
  <2> QED BY <1>1, <1>3, <2>3, <2>4 DEF Telemetry
<1>4. CASE DeliverUpdate \/ ConnectionLost \/ ConnectedAnew
    BY <1>1, <1>2, <1>4 DEF DeliverUpdate, ConnectionLost, ConnectedAnew, ServerSide
<1> QED BY <1>3, <1>4

LEMMA GridFetchInv ==
    ASSUME GridInv, PollContestants \/ ContestantsProgress
    PROVE  GridInv'
<1> DEFINE q == realContestants
           p == realContestants'
<1>0. /\ rows \in GridRows /\ q \in Query(GridRows) /\ Sound(q)
      /\ UNCHANGED <<ServerSide, PageSide, RequestSide, deleted>>
      /\ \A c \in deleted : c \notin DOMAIN rows
    BY DEF GridInv, GridTyped, GoneStays, Gone, PollContestants, ContestantsProgress
<1>1. /\ p \in Query(GridRows) /\ Sound(p)
      /\ HasData(q) => HasData(p)
      /\ p.fetch = "read" => DOMAIN p.answer[1] \intersect deleted = {}
      /\ HasData(p) => Fetching(p) \/ p.failed \/ DOMAIN DataOf(p) \intersect deleted = {}
  <2>1. CASE PollContestants
    <3>1. p = Polled(q)
        BY <2>1 DEF PollContestants
    <3>2. /\ p \in Query(GridRows) /\ Sound(p) /\ Fetching(p)
          /\ p.data = q.data /\ p.answer = q.answer
          /\ (p.fetch = "read" <=> q.fetch = "read")
        BY <1>0, <3>1, PolledQuery
    <3> QED BY <3>2 DEF GridInv, DeletedUnlisted, HasData
  <2>2. CASE ContestantsProgress
    <3>1. p \in Query(GridRows) /\ Sound(p) /\ (HasFailed(q, p) \/ IsRead(q, p, rows) \/ HasArrived(q, p))
      <4>1. p \in Progress(q, rows)
          BY <2>2 DEF ContestantsProgress
      <4> QED BY <1>0, <4>1, ProgressQuery
    <3>2. CASE HasFailed(q, p)
        BY <3>1, <3>2 DEF HasFailed, HasData, GridInv, DeletedUnlisted
    <3>3. CASE IsRead(q, p, rows)
        BY <1>0, <3>1, <3>3 DEF IsRead, HasData, Fetching
    <3>4. CASE HasArrived(q, p)
        BY <1>0, <3>1, <3>4 DEF HasArrived, HasData, DataOf, Sound, GridInv, DeletedUnlisted
    <3> QED BY <3>1, <3>2, <3>3, <3>4
  <2> QED BY <2>1, <2>2
<1>2. GridTyped' /\ GridPageTyped' /\ CardsCameFirst' /\ DeletedUnlisted'
    BY <1>0, <1>1 DEF GridInv, GridTyped, GridPageTyped, CardsCameFirst, DeletedUnlisted, ServerSide,
                      PageSide, RequestSide
<1>3. IdsOnce' /\ GoneStays'
    BY <1>0 DEF GridInv, IdsOnce, GoneStays, Gone, Coming, Adding, ServerSide, RequestSide
<1> QED BY <1>2, <1>3 DEF GridInv

LEMMA GridStepInv == GridInv /\ [GridNext]_gridVars => GridInv'
<1> SUFFICES ASSUME GridInv, [GridNext]_gridVars PROVE GridInv'
    OBVIOUS
<1>1. CASE ConfirmGrid
  <2>1. gridDialog # <<>> /\ HasData(realContestants)
      BY <1>1 DEF ConfirmGrid, GridInv, CardsCameFirst
  <2>2. PICK do \in {"delete", "warn"}, nodes \in SUBSET Contestants :
             gridDialog = <<[do |-> do, nodes |-> nodes]>>
      BY <2>1 DEF GridInv, GridPageTyped
  <2>3. SendGrid(do, nodes) /\ UNCHANGED <<unused, gridEdit, matching>> /\ gridDialog' = <<>>
      BY <1>1, <2>2 DEF ConfirmGrid, SendGrid
  <2>4. GridPageTyped'
      BY <2>3 DEF GridInv, GridPageTyped
  <2> QED BY <2>1, <2>3, <2>4, SendGridInv
<1>2. CASE SaveForm
  <2>1. PICK c \in Contestants :
          /\ IF gridEdit = "new" THEN c \in unused ELSE c = gridEdit
          /\ unused' = unused \ {c}
          /\ SendGrid(IF gridEdit = "new" THEN "add" ELSE "edit", {c})
      BY <1>2 DEF SaveForm
  <2>2. GridPageTyped' /\ gridDialog' = gridDialog
      BY <1>2, <2>1 DEF SaveForm, SendGrid, GridInv, GridPageTyped
  <2>3. CASE gridEdit = "new"
      BY <2>1, <2>2, <2>3, SendGridInv
  <2>4. CASE gridEdit # "new"
      BY <2>1, <2>2, <2>4, SendGridInv
  <2> QED BY <2>3, <2>4
<1>3. CASE UNCHANGED gridVars
  <2>1. GridPageTyped'
      BY <1>3 DEF gridVars, GridInv, GridPageTyped
  <2> QED BY <1>3, <2>1, GridPageStep DEF gridVars
<1> QED BY <1>1, <1>2, <1>3, GridActionsInv, ServeInv, RequestOver, GridSocketInv, GridFetchInv
        DEF GridNext

(***************************************************************************)
(* A contestant that the page has deleted has no card, for any contestants *)
(* and whatever polls, updates and reconnections come between.             *)
(***************************************************************************)
THEOREM DeletedAreNotShown == GridSpec => []DeletedHasNoCard
<1>1. GridInv => DeletedHasNoCard
    BY DEF GridInv, DeletedUnlisted, DeletedHasNoCard, mergedContestants
<1> QED BY <1>1, GridInitInv, GridStepInv, PTL DEF GridSpec

-----------------------------------------------------------------------------
(* The incidents page.                                                     *)

Statuses == Filters \union {"REVIEWED"}
ReviewLists == Partial(Incidents, Filters)
ReviewRequests == [no : Nat, id : Incidents, status : Statuses \ {"OPEN"},
                   note : Incidents \union {"nothing"}, all : BOOLEAN, at : {"sent", "ok", "unheard"}]

ReviewTyped ==
    /\ status \in [Incidents -> Statuses]
    /\ lists \in [Filters -> Query(ReviewLists)] /\ \A k \in Filters : Sound(lists[k])
    /\ requests \subseteq ReviewRequests /\ issued \in Nat
    /\ confirmed \subseteq Incidents

ScreenTyped ==
    /\ statusFilter \in Filters /\ shownList \in ReviewLists
    /\ reviewDialog \in Incidents \union {"nothing"} /\ reviewNote \in Incidents \union {"nothing"}

(* Nothing makes an incident open again.                                   *)
DecidedStays ==
    /\ \A i \in confirmed : status[i] # "OPEN"
    /\ \A r \in requests : r.at = "ok" => status[r.id] # "OPEN"

(***************************************************************************)
(* The list of open incidents while it is not shown too: it is outdated if *)
(* it is not without those that are confirmed; and what has been read of   *)
(* it is without them unless an invalidation has overtaken it.             *)
(***************************************************************************)
OpenListClean ==
    LET q == lists["OPEN"]
    IN  /\ q.fetch = "read" => \/ "OPEN" \in overtaken
                               \/ DOMAIN q.answer[1] \intersect confirmed = {}
        /\ \/ ~HasData(q) \/ Fetching(q) \/ q.failed \/ "OPEN" \in overtaken
           \/ statusFilter # "OPEN" /\ "OPEN" \in outdated
           \/ DOMAIN DataOf(q) \intersect confirmed = {}

ReviewInv == ReviewTyped /\ ScreenTyped /\ DecidedStays /\ OpenListClean

-----------------------------------------------------------------------------
LEMMA ReviewInitInv == ReviewInit => ReviewInv
<1> SUFFICES ASSUME ReviewInit PROVE ReviewInv
    OBVIOUS
<1> DEFINE unseen == [Mounted EXCEPT !.fetch = "idle"]
<1>1. /\ Mounted \in Query(ReviewLists) /\ Sound(Mounted) /\ ~HasData(Mounted) /\ Mounted.fetch = "sent"
    BY MountedQuery
<1>2. unseen \in Query(ReviewLists) /\ Sound(unseen)
    BY <1>1 DEF Query, Sound
<1>3. lists = [k \in Filters |-> IF k = "OPEN" THEN Mounted ELSE unseen]
    BY DEF ReviewInit
<1> HIDE DEF unseen
<1>4. /\ lists \in [Filters -> Query(ReviewLists)] /\ \A k \in Filters : Sound(lists[k])
      /\ lists["OPEN"] = Mounted
    BY <1>1, <1>2, <1>3, ReviewAssumption
<1>5. [i \in {} |-> "OPEN"] \in ReviewLists
  <2> DEFINE none == [i \in {} |-> "OPEN"]
  <2>1. DOMAIN none = {} /\ none \in [DOMAIN none -> Filters]
      OBVIOUS
  <2> HIDE DEF none
  <2>2. none \in ReviewLists
      BY <2>1, PartialIs DEF ReviewLists
  <2> QED BY <2>2 DEF none
<1>6. ReviewTyped /\ ScreenTyped
    BY <1>4, <1>5, ReviewAssumption DEF ReviewInit, ReviewTyped, ScreenTyped, Statuses
<1>7. DecidedStays
    BY DEF ReviewInit, DecidedStays
<1>8. OpenListClean
    BY <1>1, <1>4 DEF OpenListClean
<1> QED BY <1>6, <1>7, <1>8 DEF ReviewInv

LEMMA ListedIs ==
    ASSUME NEW f \in Filters, status \in [Incidents -> Statuses]
    PROVE  /\ Listed(f) \in ReviewLists
           /\ \A i \in DOMAIN Listed(f) : i \in Incidents /\ status[i] = f
<1> DEFINE list == Listed(f)
<1>1. DOMAIN list = {j \in Incidents : status[j] = f} /\ list \in [DOMAIN list -> Filters]
    BY DEF Listed
<1> HIDE DEF list
<1>2. list \in ReviewLists
    BY <1>1, PartialIs DEF ReviewLists
<1> QED BY <1>1, <1>2 DEF list

LEMMA ShownIs ==
    ASSUME NEW f \in Filters, NEW queries \in [Filters -> Query(ReviewLists)], ScreenTyped
    PROVE  Shown(f, queries) \in ReviewLists
<1>1. queries[f] \in Query(ReviewLists)
    OBVIOUS
<1>2. HasData(queries[f]) => DataOf(queries[f]) \in ReviewLists
    BY <1>1, DataInD
<1> QED BY <1>2 DEF Shown, ScreenTyped

(* A step that leaves the queries alone.                                   *)
LEMMA ReviewStepStill ==
    ASSUME ReviewInv, UNCHANGED <<queryVars, statusFilter, confirmed>>, ScreenTyped',
           status' \in [Incidents -> Statuses], \A i \in Incidents : status[i] # "OPEN" => status'[i] # "OPEN",
           requests' \subseteq ReviewRequests, issued' \in Nat,
           \A r \in requests' : r.at = "ok" => status'[r.id] # "OPEN"
    PROVE  ReviewInv'
BY DEF ReviewInv, ReviewTyped, DecidedStays, OpenListClean, queryVars

(* An invalidation clears the list whatever is confirmed with it.          *)
LEMMA InvalidationCleans ==
    ASSUME ReviewInv, InvalidateLists, UNCHANGED <<statusFilter, status>>,
           ScreenTyped', requests' \subseteq ReviewRequests, issued' \in Nat, confirmed' \subseteq Incidents,
           DecidedStays'
    PROVE  ReviewInv'
<1>1. /\ lists \in [Filters -> Query(ReviewLists)] /\ \A k \in Filters : Sound(lists[k])
      /\ statusFilter \in Filters /\ "OPEN" \in Filters
    BY ReviewAssumption DEF ReviewInv, ReviewTyped, ScreenTyped
<1>2. /\ lists' = [k \in Filters |-> IF k = statusFilter THEN Invalidated(lists[k]) ELSE lists[k]]
      /\ outdated' = outdated \union Filters
      /\ overtaken' = overtaken \union
           {k \in Filters : lists[k].fetch = "read" /\ (k # statusFilter \/ ~HasData(lists[k]))}
    BY DEF InvalidateLists, Invalidate
<1>3. ASSUME NEW k \in Filters
      PROVE  /\ Invalidated(lists[k]) \in Query(ReviewLists) /\ Sound(Invalidated(lists[k]))
             /\ Fetching(Invalidated(lists[k])) /\ Invalidated(lists[k]).data = lists[k].data
             /\ HasData(lists[k]) => Invalidated(lists[k]).fetch = "sent"
             /\ ~HasData(lists[k]) => (Invalidated(lists[k]).fetch = "read" <=> lists[k].fetch = "read")
    BY <1>1, InvalidatedQuery
<1>4. lists' \in [Filters -> Query(ReviewLists)] /\ \A k \in Filters : Sound(lists'[k])
    BY <1>1, <1>2, <1>3
<1>5. OpenListClean'
  <2>1. CASE statusFilter = "OPEN"
    <3>1. lists'["OPEN"] = Invalidated(lists["OPEN"])
        BY <1>1, <1>2, <2>1
    <3>2. Fetching(lists'["OPEN"])
        BY <1>1, <1>3, <3>1
    <3>3. lists'["OPEN"].fetch = "read" => lists["OPEN"].fetch = "read" /\ ~HasData(lists["OPEN"])
        BY <1>1, <1>3, <3>1
    <3> QED BY <1>1, <1>2, <3>2, <3>3 DEF OpenListClean
  <2>2. CASE statusFilter # "OPEN"
    <3>1. lists'["OPEN"] = lists["OPEN"] /\ "OPEN" \in outdated' /\ statusFilter' # "OPEN"
        BY <1>1, <1>2, <2>2
    <3>2. lists["OPEN"].fetch = "read" => "OPEN" \in overtaken'
        BY <1>1, <1>2, <2>2
    <3> QED BY <3>1, <3>2 DEF OpenListClean
  <2> QED BY <2>1, <2>2
<1> QED BY <1>4, <1>5 DEF ReviewInv, ReviewTyped

LEMMA ReviewPageInv ==
    ASSUME ReviewInv,
           \/ \E i \in Incidents : OtherProctor(i) \/ OpenReview(i)
           \/ Alert \/ TypeNote \/ Cancel \/ handleReviewAll
           \/ \E decision \in Filters \ {"OPEN"} : handleReview(decision)
    PROVE  ReviewInv'
<1>0. ReviewTyped /\ ScreenTyped /\ DecidedStays
    BY DEF ReviewInv
<1>1. ASSUME NEW i \in Incidents, OtherProctor(i) PROVE ReviewInv'
  <2>1. /\ status' = [status EXCEPT ![i] = "REVIEWED"]
        /\ UNCHANGED <<screenVars, queryVars, requests, issued, confirmed>>
      BY <1>1 DEF OtherProctor
  <2>2. status' \in [Incidents -> Statuses] /\ \A j \in Incidents : status[j] # "OPEN" => status'[j] # "OPEN"
      BY <1>0, <2>1 DEF ReviewTyped, Statuses
  <2>3. ScreenTyped'
      BY <1>0, <2>1 DEF ScreenTyped, screenVars
  <2>4. \A r \in requests' : r \in ReviewRequests /\ (r.at = "ok" => status'[r.id] # "OPEN")
      BY <1>0, <2>1, <2>2 DEF ReviewTyped, DecidedStays, ReviewRequests
  <2> QED BY <1>0, <2>1, <2>2, <2>3, <2>4, ReviewStepStill DEF ReviewTyped, screenVars
<1>2. ASSUME UNCHANGED <<status, statusFilter, queryVars, requestVars>>, ScreenTyped' PROVE ReviewInv'
    BY <1>0, <1>2, ReviewStepStill DEF requestVars, ReviewTyped, DecidedStays
<1>3. ASSUME NEW i \in Incidents, OpenReview(i) PROVE ReviewInv'
    BY <1>0, <1>2, <1>3 DEF OpenReview, ScreenTyped
<1>4. CASE TypeNote \/ Cancel
    BY <1>0, <1>2, <1>4 DEF TypeNote, Cancel, ScreenTyped
<1>5. CASE Alert
    BY <1>0, <1>5, InvalidationCleans DEF Alert, screenVars, ReviewTyped, ScreenTyped, DecidedStays
<1>6. ASSUME NEW new, IsFiniteSet(new), new \subseteq ReviewRequests, \A r \in new : r.at = "sent", Send(new)
      PROVE  ReviewInv'
  <2>1. /\ requests' = requests \union new /\ issued' = issued + Cardinality(new)
        /\ UNCHANGED <<status, screenVars, queryVars, confirmed>>
      BY <1>6 DEF Send
  <2>2. requests' \subseteq ReviewRequests /\ issued' \in Nat
      BY <1>0, <1>6, <2>1, FS_CardinalityType DEF ReviewTyped
  <2>3. \A r \in requests' : r.at = "ok" => status'[r.id] # "OPEN"
      BY <1>0, <1>6, <2>1 DEF DecidedStays
  <2>4. ScreenTyped'
      BY <1>0, <2>1 DEF ScreenTyped, screenVars
  <2> QED BY <1>0, <2>1, <2>2, <2>3, <2>4, ReviewStepStill DEF ReviewTyped, screenVars
<1>7. ASSUME NEW decision \in Filters \ {"OPEN"}, handleReview(decision) PROVE ReviewInv'
  <2> DEFINE r == ReviewRequest(reviewDialog, decision, reviewNote, FALSE)
  <2>1. r \in ReviewRequests /\ r.at = "sent"
      BY <1>0, <1>7 DEF handleReview, ReviewRequest, ReviewRequests, ReviewTyped, ScreenTyped, Statuses
  <2>2. IsFiniteSet({r}) /\ Send({r})
      BY <1>7, FS_Singleton DEF handleReview
  <2> QED BY <1>6, <2>1, <2>2
<1>8. CASE handleReviewAll
  <2>1. PICK matches \in SUBSET ShownOpen :
           Send({ReviewRequest(i, "REVIEWED", "nothing", TRUE) : i \in matches})
      BY <1>8 DEF handleReviewAll
  <2> DEFINE new == {ReviewRequest(i, "REVIEWED", "nothing", TRUE) : i \in matches}
  <2>2. DOMAIN shownList \subseteq Incidents
      BY <1>0, PartialIs DEF ScreenTyped, ReviewLists
  <2>3. matches \subseteq Incidents /\ IsFiniteSet(matches)
      BY <2>2, ReviewAssumption, FS_Subset DEF ShownOpen
  <2>4. IsFiniteSet(new)
    <3> DEFINE request == [i \in matches |-> ReviewRequest(i, "REVIEWED", "nothing", TRUE)]
    <3>1. request \in Surjection(matches, new)
        BY Zenon DEF Surjection
    <3> QED BY <2>3, <3>1, FS_Surjection
  <2>5. \A r \in new : r \in ReviewRequests /\ r.at = "sent"
    <3>1. ASSUME NEW i \in matches
          PROVE  /\ ReviewRequest(i, "REVIEWED", "nothing", TRUE) \in ReviewRequests
                 /\ ReviewRequest(i, "REVIEWED", "nothing", TRUE).at = "sent"
        BY <1>0, <2>3 DEF ReviewRequest, ReviewRequests, ReviewTyped, Statuses
    <3> QED BY <3>1
  <2> HIDE DEF new
  <2>6. Send(new)
      BY <2>1 DEF new
  <2> QED BY <1>6, <2>4, <2>5, <2>6
<1> QED BY <1>1, <1>3, <1>4, <1>5, <1>7, <1>8

LEMMA ReviewRequestsInv ==
    ASSUME ReviewInv, NEW r \in requests,
           \/ ServerReviews(r) \/ ReviewFails(r) \/ ReviewedUnheard(r)
           \/ ReviewSucceeded(r) \/ AllReviewed(r)
    PROVE  ReviewInv'
<1>0. ReviewTyped /\ ScreenTyped /\ DecidedStays /\ r \in ReviewRequests
    BY DEF ReviewInv, ReviewTyped
<1>1. ASSUME NEW q \in ReviewRequests, NEW at \in {"ok", "unheard"}
      PROVE  LET p == [q EXCEPT !.at = at]
             IN  p \in ReviewRequests /\ p.id = q.id /\ p.at = at
    BY DEF ReviewRequests
<1>2. ASSUME status' = [status EXCEPT ![r.id] = r.status]
      PROVE  /\ status' \in [Incidents -> Statuses] /\ status'[r.id] # "OPEN"
             /\ \A i \in Incidents : status[i] # "OPEN" => status'[i] # "OPEN"
  <2>1. r.id \in Incidents /\ r.status \in Statuses \ {"OPEN"}
      BY <1>0 DEF ReviewRequests
  <2> QED BY <1>0, <1>2, <2>1 DEF ReviewTyped
<1>3. CASE ServerReviews(r)
  <2> DEFINE p == [r EXCEPT !.at = "ok"]
  <2>1. p \in ReviewRequests /\ p.id = r.id /\ p.at = "ok"
      BY <1>0, <1>1, Zenon
  <2>2. /\ status' = [status EXCEPT ![r.id] = r.status]
        /\ requests' = (requests \ {r}) \union {p}
        /\ UNCHANGED <<screenVars, queryVars, issued, confirmed>>
      BY <1>3 DEF ServerReviews
  <2> HIDE DEF p
  <2>3. \A q \in requests' : q \in ReviewRequests /\ (q.at = "ok" => status'[q.id] # "OPEN")
      BY <1>0, <1>2, <2>1, <2>2 DEF ReviewTyped, DecidedStays, ReviewRequests
  <2>4. ScreenTyped' /\ statusFilter' = statusFilter
      BY <1>0, <2>2 DEF ScreenTyped, screenVars
  <2> QED BY <1>0, <1>2, <2>2, <2>3, <2>4, ReviewStepStill DEF ReviewTyped
<1>4. CASE ReviewedUnheard(r)
  <2>1. /\ status' = [status EXCEPT ![r.id] = r.status]
        /\ requests' = requests \ {r}
        /\ UNCHANGED <<screenVars, queryVars, issued, confirmed>>
      BY <1>4 DEF ReviewedUnheard
  <2>2. \A q \in requests' : q \in ReviewRequests /\ (q.at = "ok" => status'[q.id] # "OPEN")
      BY <1>0, <1>2, <2>1 DEF ReviewTyped, DecidedStays, ReviewRequests
  <2>3. ScreenTyped' /\ statusFilter' = statusFilter
      BY <1>0, <2>1 DEF ScreenTyped, screenVars
  <2> QED BY <1>0, <1>2, <2>1, <2>2, <2>3, ReviewStepStill DEF ReviewTyped
<1>5. CASE ReviewFails(r)
  <2> DEFINE unsent == {p \in Batch(r) \ {r} : p.at = "sent"}
  <2>1. /\ requests' = (requests \ ({r} \union Batch(r))) \union {[q EXCEPT !.at = "unheard"] : q \in unsent}
        /\ UNCHANGED <<status, screenVars, queryVars, issued, confirmed>>
      BY <1>5 DEF ReviewFails
  <2>2. unsent \subseteq requests /\ requests \subseteq ReviewRequests
      BY <1>0 DEF Batch, ReviewTyped
  <2> HIDE DEF unsent
  <2>3. ASSUME NEW p \in requests' PROVE p \in ReviewRequests /\ (p.at = "ok" => status'[p.id] # "OPEN")
    <3>1. CASE p \in requests
        BY <1>0, <2>1, <2>2, <3>1 DEF DecidedStays
    <3>2. ASSUME NEW q \in unsent, p = [q EXCEPT !.at = "unheard"]
          PROVE  p \in ReviewRequests /\ p.at # "ok"
      <4>1. q \in ReviewRequests
          BY <2>2
      <4>2. p \in ReviewRequests /\ p.at = "unheard"
          BY <1>1, <3>2, <4>1, Zenon
      <4> QED BY <4>2
    <3> QED BY <2>1, <3>1, <3>2
  <2>4. ScreenTyped' /\ statusFilter' = statusFilter
      BY <1>0, <2>1 DEF ScreenTyped, screenVars
  <2> QED BY <1>0, <2>1, <2>3, <2>4, ReviewStepStill DEF ReviewTyped
<1>6. CASE ReviewSucceeded(r)
  <2>1. /\ r.at = "ok" /\ InvalidateLists /\ requests' = requests \ {r}
        /\ confirmed' = confirmed \union {r.id}
        /\ reviewDialog' = "nothing" /\ reviewNote' = "nothing"
        /\ UNCHANGED <<status, statusFilter, shownList, issued>>
      BY <1>6 DEF ReviewSucceeded
  <2>2. ScreenTyped' /\ requests' \subseteq ReviewRequests /\ confirmed' \subseteq Incidents /\ issued' \in Nat
      BY <1>0, <2>1 DEF ScreenTyped, ReviewTyped, ReviewRequests
  <2>3. DecidedStays'
      BY <1>0, <2>1 DEF DecidedStays
  <2> QED BY <2>1, <2>2, <2>3, InvalidationCleans
<1>7. CASE AllReviewed(r)
  <2>1. /\ \A q \in Batch(r) : q \in requests /\ q.at = "ok"
        /\ InvalidateLists /\ requests' = requests \ Batch(r)
        /\ confirmed' = confirmed \union {q.id : q \in Batch(r)}
        /\ UNCHANGED <<status, screenVars, issued>>
      BY <1>7 DEF AllReviewed, Batch
  <2>2. ScreenTyped' /\ requests' \subseteq ReviewRequests /\ confirmed' \subseteq Incidents /\ issued' \in Nat
        /\ statusFilter' = statusFilter
      BY <1>0, <2>1 DEF ScreenTyped, ReviewTyped, ReviewRequests, screenVars
  <2>3. DecidedStays'
      BY <1>0, <2>1 DEF DecidedStays
  <2> QED BY <2>1, <2>2, <2>3, InvalidationCleans
<1> QED BY <1>3, <1>4, <1>5, <1>6, <1>7

(* Another list is shown.                                                  *)
LEMMA FilterInv ==
    ASSUME ReviewInv, NEW f \in Filters, SetStatusFilter(f)
    PROVE  ReviewInv'
<1>0. /\ lists \in [Filters -> Query(ReviewLists)] /\ \A k \in Filters : Sound(lists[k])
      /\ ScreenTyped /\ "OPEN" \in Filters /\ OpenListClean
      /\ statusFilter' = f /\ shownList' = Shown(f, lists)
      /\ UNCHANGED <<status, outdated, overtaken, reviewDialog, reviewNote, requests, issued, confirmed>>
    BY ReviewAssumption DEF ReviewInv, ReviewTyped, SetStatusFilter
<1>1. /\ Polled(lists[f]) \in Query(ReviewLists) /\ Sound(Polled(lists[f])) /\ Fetching(Polled(lists[f]))
      /\ Polled(lists[f]).answer = lists[f].answer
      /\ (Polled(lists[f]).fetch = "read" <=> lists[f].fetch = "read")
    BY <1>0, PolledQuery
<1>2. CASE lists' = [lists EXCEPT ![f] = Polled(@)]
  <2>1. lists' \in [Filters -> Query(ReviewLists)] /\ \A k \in Filters : Sound(lists'[k])
      BY <1>0, <1>1, <1>2
  <2>2. CASE f = "OPEN"
    <3>1. lists'["OPEN"] = Polled(lists[f])
        BY <1>0, <1>2, <2>2
    <3> QED BY <1>0, <1>1, <2>1, <2>2, <3>1, ShownIs DEF ReviewInv, ReviewTyped, ScreenTyped,
                DecidedStays, OpenListClean
  <2>3. CASE f # "OPEN"
    <3>1. lists'["OPEN"] = lists["OPEN"]
        BY <1>0, <1>2, <2>3
    <3>2. OpenListClean'
        BY <1>0, <2>3, <3>1 DEF OpenListClean
    <3> QED BY <1>0, <2>1, <3>2, ShownIs DEF ReviewInv, ReviewTyped, ScreenTyped, DecidedStays
  <2> QED BY <2>2, <2>3
<1>3. CASE f \notin outdated /\ HasData(lists[f]) /\ UNCHANGED lists
  <2>1. OpenListClean'
      BY <1>0, <1>3 DEF OpenListClean
  <2> QED BY <1>0, <1>3, <2>1, ShownIs DEF ReviewInv, ReviewTyped, ScreenTyped, DecidedStays
<1> QED BY <1>2, <1>3 DEF SetStatusFilter

LEMMA ListFetchInv ==
    ASSUME ReviewInv, NEW k \in Filters, Fetch(k)
    PROVE  ReviewInv'
<1>0. /\ lists \in [Filters -> Query(ReviewLists)] /\ \A f \in Filters : Sound(lists[f])
      /\ status \in [Incidents -> Statuses]
      /\ ScreenTyped /\ "OPEN" \in Filters /\ OpenListClean /\ DecidedStays
      /\ UNCHANGED <<status, statusFilter, reviewDialog, reviewNote, requests, issued, confirmed>>
    BY ReviewAssumption DEF ReviewInv, ReviewTyped, Fetch
<1>1. PICK p \in Progress(lists[k], Listed(k)) :
         /\ lists' = [lists EXCEPT ![k] = p]
         /\ outdated' = IF ~p.failed /\ ~Fetching(p) THEN outdated \ {k} ELSE outdated
    BY DEF Fetch
<1>2. /\ p \in Query(ReviewLists) /\ Sound(p)
      /\ HasFailed(lists[k], p) \/ IsRead(lists[k], p, Listed(k)) \/ HasArrived(lists[k], p)
  <2>1. Listed(k) \in ReviewLists
      BY <1>0, ListedIs
  <2> QED BY <1>0, <2>1, ProgressQuery
<1>3. /\ overtaken' = IF lists[k].fetch = "sent" THEN overtaken \ {k} ELSE overtaken
      /\ shownList' = IF k = statusFilter THEN Shown(k, lists') ELSE shownList
    BY DEF Fetch
<1>4. lists' \in [Filters -> Query(ReviewLists)] /\ \A f \in Filters : Sound(lists'[f])
    BY <1>0, <1>1, <1>2
<1>5. ScreenTyped'
    BY <1>0, <1>3, <1>4, ShownIs DEF ScreenTyped
<1>6. OpenListClean'
  <2>1. CASE k # "OPEN"
    <3>1. lists'["OPEN"] = lists["OPEN"] /\ ("OPEN" \in overtaken => "OPEN" \in overtaken')
          /\ ("OPEN" \in outdated => "OPEN" \in outdated')
        BY <1>0, <1>1, <1>3, <2>1
    <3> QED BY <1>0, <3>1 DEF OpenListClean
  <2>2. CASE k = "OPEN"
    <3>1. lists'["OPEN"] = p
        BY <1>0, <1>1, <2>2
    <3>2. CASE HasFailed(lists[k], p)
        BY <3>1, <3>2 DEF HasFailed, OpenListClean
    <3>3. CASE IsRead(lists[k], p, Listed(k))
      <4>1. DOMAIN Listed(k) \intersect confirmed = {}
          BY <1>0, <2>2, ListedIs DEF DecidedStays
      <4> QED BY <1>0, <3>1, <3>3, <4>1 DEF IsRead, OpenListClean, Fetching
    <3>4. CASE HasArrived(lists[k], p)
      <4>1. overtaken' = overtaken /\ p.data = lists["OPEN"].answer /\ lists["OPEN"].fetch = "read"
            /\ p.fetch # "read"
          BY <1>3, <2>2, <3>4 DEF HasArrived
      <4> QED BY <1>0, <3>1, <4>1 DEF OpenListClean, DataOf
    <3> QED BY <1>2, <3>2, <3>3, <3>4
  <2> QED BY <2>1, <2>2
<1> QED BY <1>0, <1>4, <1>5, <1>6 DEF ReviewInv, ReviewTyped, DecidedStays

LEMMA ReviewStepInv == ReviewInv /\ [ReviewNext]_reviewVars => ReviewInv'
<1> SUFFICES ASSUME ReviewInv, [ReviewNext]_reviewVars PROVE ReviewInv'
    OBVIOUS
<1>1. CASE UNCHANGED reviewVars
    BY <1>1 DEF reviewVars, ReviewInv, ReviewTyped, ScreenTyped, DecidedStays, OpenListClean
<1> QED BY <1>1, ReviewPageInv, ReviewRequestsInv, FilterInv, ListFetchInv DEF ReviewNext

(***************************************************************************)
(* The page's own reviews show in its list of open incidents, for any      *)
(* incidents, lists and reviews, others' among them.                       *)
(***************************************************************************)
THEOREM ReviewsAreShown == ReviewSpec => []OwnReviewShows
<1>1. ReviewInv => OwnReviewShows
    BY DEF ReviewInv, OpenListClean, OwnReviewShows
<1> QED BY <1>1, ReviewInitInv, ReviewStepInv, PTL DEF ReviewSpec
=============================================================================
