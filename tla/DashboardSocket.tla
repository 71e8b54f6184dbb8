-------------------------- MODULE DashboardSocket --------------------------
(***************************************************************************)
(* The dashboard's end of the WebSocket (useWebSocket,                     *)
(* dashboard/src/services/websocket.js) on a page whose competition may    *)
(* change, and what Layout.jsx makes of the incident alerts: notifications *)
(* and the badge with the number of open incidents.                        *)
(*                                                                         *)
(* The steps are the browser's tasks.  React runs the function handed to a *)
(* state setter at once only if no update of the component is pending, and *)
(* otherwise as it renders; even with none pending it may wait.            *)
(***************************************************************************)
EXTENDS Naturals, Sequences, SequencesExt, QueryClient

CONSTANTS
    Channels,       \* competitions, or "global"
    Home,           \* the one the hook is mounted for first
    AlertLimit,     \* alerts the hook keeps (50)
    NoticeLimit,    \* notifications the layout keeps (20)
    MaxSockets,     \* bound on the WebSockets made
    MaxSocketEvents  \* bound on messages sent and changes of page, together

ASSUME SocketAssumption ==
    /\ Home \in Channels /\ "nowhere" \notin Channels
    /\ AlertLimit \in Nat \ {0} /\ NoticeLimit \in Nat \ {0}

VARIABLES
    page,           \* competitionId, or "nowhere" once unmounted
    moves,          \* changes of page so far
    sockets,        \* every WebSocket made: its channel, state, last message heard
    wsRef,          \* the index of the last one
    timers,         \* pending reconnections: set of [id, channel]
    timerRef,       \* reconnectTimeout.current
    sent,           \* what the server has broadcast: sequence of [to, kind]
    buffer,         \* updateBuffer.current: the message of the last update, incidents
    pending,        \* the component has an update queued
    setters,        \* the functions queued: [of, atOnce, held]
    updates,        \* contestantUpdates: the messages that made them
    alerts,         \* incidentAlerts, newest first
    notified,       \* alerts the layout's effect has queued as notifications
    notices,        \* Layout's notifications, newest first: [id, read]
    badge,          \* the query for the number of open incidents
    early           \* (history) the alerts shown last before the badge had data

wireVars == <<page, moves, sockets, wsRef, timers, timerRef, sent>>
viewVars == <<setters, updates, alerts, notified, notices, badge, early>>
socketVars == <<wireVars, buffer, pending, viewVars>>

mounted == page # "nowhere"

-----------------------------------------------------------------------------
(* connect, for the channel of its closure.                                *)
Connected(ch, socks) == Append(socks, [channel |-> ch, state |-> "connecting", heard |-> 0])

(* The effect's cleanup: the last timer is cleared, the last socket closed *)
(* (its close event comes later).                                          *)
TimersLeft == {t \in timers : t.id # timerRef}
SocketsLeft ==
    IF sockets[wsRef].state \in {"connecting", "open"}
    THEN [sockets EXCEPT ![wsRef].state = "closing"] ELSE sockets

(* Another competition: the cleanup, and the effect anew.                  *)
ChangeCompetition(ch) ==
    /\ mounted /\ ch # page /\ moves + Len(sent) < MaxSocketEvents /\ Len(sockets) < MaxSockets
    /\ page' = ch /\ moves' = moves + 1
    /\ timers' = TimersLeft
    /\ sockets' = Connected(ch, SocketsLeft)
    /\ wsRef' = Len(sockets')
    /\ UNCHANGED <<timerRef, sent, buffer, pending, viewVars>>

Unmount ==
    /\ mounted /\ moves + Len(sent) < MaxSocketEvents
    /\ page' = "nowhere" /\ moves' = moves + 1
    /\ timers' = TimersLeft /\ sockets' = SocketsLeft
    /\ UNCHANGED <<wsRef, timerRef, sent, buffer, pending, viewVars>>

onopen(s) ==
    /\ sockets[s].state = "connecting"
    /\ sockets' = [sockets EXCEPT ![s].state = "open", ![s].heard = Len(sent)]
    /\ pending' = mounted
    /\ UNCHANGED <<page, moves, wsRef, timers, timerRef, sent, buffer, viewVars>>

(* The network or the server ends a connection, or refuses it.             *)
Drop(s) ==
    /\ sockets[s].state \in {"connecting", "open"} /\ Len(sockets) < MaxSockets
    /\ sockets' = [sockets EXCEPT ![s].state = "closing"]
    /\ UNCHANGED <<page, moves, wsRef, timers, timerRef, sent, buffer, pending, viewVars>>

UntilMoved(s) ==        \* seeded fault: a flag that the cleanup sets stops all reconnections
    IF moves > 0 THEN {} ELSE {[id |-> s, channel |-> sockets[s].channel]}

(* The next attempt, for the same channel, in three seconds.               *)
Reconnection(s) == {[id |-> s, channel |-> sockets[s].channel]}

onclose(s) ==
    /\ sockets[s].state = "closing"
    /\ sockets' = [sockets EXCEPT ![s].state = "closed"]
    /\ timers' = timers \union Reconnection(s)
    /\ timerRef' = s
    /\ pending' = mounted
    /\ UNCHANGED <<page, moves, wsRef, sent, buffer, viewVars>>

TimerFires(t) ==
    /\ Len(sockets) < MaxSockets
    /\ timers' = timers \ {t}
    /\ sockets' = Connected(t.channel, sockets)
    /\ wsRef' = Len(sockets')
    /\ UNCHANGED <<page, moves, timerRef, sent, buffer, pending, viewVars>>

-----------------------------------------------------------------------------
ServerSends(ch, kind) ==
    /\ moves + Len(sent) < MaxSocketEvents
    /\ sent' = Append(sent, [to |-> ch, kind |-> kind])
    /\ UNCHANGED <<page, moves, sockets, wsRef, timers, timerRef, buffer, pending, viewVars>>

(* A socket hears its channel's messages in order.  A newer update of a    *)
(* contestant replaces the older one in the buffer; incidents pile up.     *)
(* setLastMessage queues an update of the component.                       *)
onmessage(s, n) ==
    /\ sockets[s].state = "open" /\ sent[n].to = sockets[s].channel
    /\ n > sockets[s].heard
    /\ \A m \in (sockets[s].heard + 1)..(n - 1) : sent[m].to # sockets[s].channel
    /\ sockets' = [sockets EXCEPT ![s].heard = n]
    /\ buffer' = IF sent[n].kind = "incident_alert"
                 THEN [buffer EXCEPT !.incidents = Append(@, n)]
                 ELSE [buffer EXCEPT !.contestants = <<n>>]
    /\ pending' = mounted
    /\ UNCHANGED <<page, moves, wsRef, timers, timerRef, sent, viewVars>>

NoUpdates == [contestants |-> <<>>, incidents |-> <<>>]

(* The setter of a flush, if there is anything to flush.                   *)
Setter(of, atOnce, held) ==
    IF held = <<>> THEN <<>> ELSE <<[of |-> of, atOnce |-> atOnce, held |-> held]>>

(* The flush every 500 ms.  A setter that React runs as it renders looks   *)
(* into the buffer then; held is what it was made for.  The second setter  *)
(* of a flush always waits, as the first has queued an update.             *)
flush ==
    /\ mounted /\ buffer # NoUpdates
    /\ \E atOnce \in IF pending THEN {FALSE} ELSE BOOLEAN :
          setters' = setters
                     \o Setter("contestants", atOnce, buffer.contestants)
                     \o Setter("incidents", atOnce /\ buffer.contestants = <<>>, buffer.incidents)
    /\ buffer' = NoUpdates
    /\ pending' = TRUE
    /\ UNCHANGED <<wireVars, updates, alerts, notified, notices, badge, early>>

-----------------------------------------------------------------------------
(* What a setter adds: computed at once, or from the buffer as it is now.  *)
Added(e) == IF e.atOnce THEN e.held ELSE buffer[e.of]

Limited(s, limit) == SubSeq(s, 1, IF Len(s) < limit THEN Len(s) ELSE limit)

(* The state after the setters queued for it, in order.                    *)
NextUpdates ==
    FoldLeft(LAMBDA u, e : IF e.of = "contestants" THEN u \union ToSet(Added(e)) ELSE u,
             updates, setters)
AfterSetter(e, a) == IF e.of = "incidents" THEN Limited(Added(e) \o a, AlertLimit) ELSE a
NextAlerts ==
    LET after[i \in 0..Len(setters)] ==
          IF i = 0 THEN alerts ELSE AfterSetter(setters[i], after[i - 1])
    IN  after[Len(setters)]

(* setNotifications in the layout's effect: those not yet in the list, on  *)
(* top of it.                                                              *)
NextNotices ==
    LET known == {n.id : n \in ToSet(notices)}
        new == SelectSeq(notified, LAMBDA id : id \notin known)
    IN  Limited([i \in DOMAIN new |-> [id |-> new[i], read |-> FALSE]] \o notices, NoticeLimit)

UnlessFetching == IF Fetching(badge) THEN badge ELSE Invalidated(badge)  \* seeded fault: a fetch under way will do

BadgeInvalidated == Invalidated(badge)

(* The component renders; the layout's effect follows when the array of    *)
(* alerts is another one, which it is after every setter, and not empty.   *)
Render ==
    LET changed == NextAlerts # <<>> /\ \E e \in ToSet(setters) : e.of = "incidents"
    IN  /\ mounted /\ pending
        /\ setters' = <<>>
        /\ updates' = NextUpdates /\ alerts' = NextAlerts
        /\ notices' = NextNotices
        /\ notified' = IF changed THEN NextAlerts ELSE <<>>
        /\ badge' = IF changed THEN BadgeInvalidated ELSE badge
        /\ early' = IF ~HasData(badge) THEN ToSet(NextAlerts) ELSE early
        /\ pending' = changed
        /\ UNCHANGED <<wireVars, buffer>>

(* markRead, markAllRead: the list as it was rendered, marked, replaces    *)
(* whatever the effect has queued.                                         *)
MarkRead(ids) ==
    /\ mounted /\ \E n \in ToSet(notices) : n.id \in ids /\ ~n.read
    /\ notices' = [i \in DOMAIN notices |-> [notices[i] EXCEPT !.read = @ \/ notices[i].id \in ids]]
    /\ notified' = <<>>
    /\ pending' = TRUE
    /\ UNCHANGED <<wireVars, buffer, setters, updates, alerts, badge, early>>

BadgeProgress ==
    /\ mounted
    /\ badge' \in Progress(badge, Len(sent))
    /\ UNCHANGED <<wireVars, buffer, pending, setters, updates, alerts, notified, notices, early>>

SocketInit ==
    /\ page = Home /\ moves = 0
    /\ sockets = Connected(Home, <<>>) /\ wsRef = 1
    /\ timers = {} /\ timerRef = 0
    /\ sent = <<>> /\ buffer = NoUpdates
    /\ pending = FALSE /\ setters = <<>>
    /\ updates = {} /\ alerts = <<>> /\ notified = <<>> /\ notices = <<>>
    /\ badge = Mounted /\ early = {}

SocketNext ==
    \/ \E ch \in Channels : ChangeCompetition(ch)
    \/ Unmount
    \/ \E s \in DOMAIN sockets : onopen(s) \/ Drop(s) \/ onclose(s)
    \/ \E t \in timers : TimerFires(t)
    \/ \E ch \in Channels, kind \in {"incident_alert", "contestant_update"} : ServerSends(ch, kind)
    \/ \E s \in DOMAIN sockets, n \in DOMAIN sent : onmessage(s, n)
    \/ flush \/ Render
    \/ \E ids \in {{n.id} : n \in ToSet(notices)} \union {{n.id : n \in ToSet(notices)}} : MarkRead(ids)
    \/ BadgeProgress

SocketSpec == SocketInit /\ [][SocketNext]_socketVars

-----------------------------------------------------------------------------
(***************************************************************************)
(* A page is never left without news of the competition it shows: some     *)
(* socket to it is open or on its way, or has yet to report its end, or a  *)
(* timer will open one (websocket.js:64-111), although sockets of earlier  *)
(* competitions come back after their cleanup and share the two refs.      *)
(***************************************************************************)
CurrentIsCovered ==
    mounted => \/ \E s \in ToSet(sockets) : s.channel = page /\ s.state # "closed"
               \/ \E t \in timers : t.channel = page

(***************************************************************************)
(* The badge does not stay behind the alerts that the layout has shown     *)
(* (Layout.jsx:84-104): its number is newer, or being fetched, or could    *)
(* not be fetched.  Alerts shown before the first number came are          *)
(* excepted: the query does not cancel its first fetch for them.           *)
(***************************************************************************)
BadgeCatchesUp ==
    mounted => \/ Fetching(badge) \/ badge.failed
               \/ \A n \in ToSet(alerts) : n \in early \/ n <= DataOf(badge)

(***************************************************************************)
(* "Flushes WebSocket buffer to React state every 500ms" (websocket.js:85):*)
(* what a flush takes from the buffer is in the state the page then        *)
(* renders.                                                                *)
(***************************************************************************)
FlushReachesState ==
    [][Render => \A e \in ToSet(setters) :
         ToSet(e.held) \subseteq updates' \union ToSet(alerts')]_socketVars
=============================================================================
