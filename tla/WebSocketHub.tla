---------------------------- MODULE WebSocketHub ----------------------------
(***************************************************************************)
(* The dashboards' sockets in one API process (server/app/ws/manager.py,   *)
(* endpoints.py) and the broadcasts that the telemetry pipeline makes      *)
(* (services/telemetry.py).  A broadcast iterates over the live set of     *)
(* sockets and awaits each send; endpoints add and remove sockets          *)
(* meanwhile.  Python ends an iteration with a RuntimeError when it finds  *)
(* that the set's size has changed; the pipeline logs that and goes on.    *)
(* The steps are the event loop's, from one await to the next.  That a set *)
(* iterated over after a change that kept its size may yield a member      *)
(* twice is left out.                                                      *)
(***************************************************************************)
EXTENDS Naturals, FiniteSets

CONSTANTS
    Sockets,          \* WebSocket objects
    ChannelOf(_),     \* the channel it asks for: a competition's id, or "global"
    Competition,      \* the contestant's competition
    Broadcasts        \* bound: tasks that broadcast

ASSUME HubAssumption ==
    /\ IsFiniteSet(Sockets) /\ Competition # "global"
    /\ \A w \in Sockets : ChannelOf(w) \in {Competition, "global"}

VARIABLES
    socket,           \* socket[w]: "new", "open", "closing" (the client left), "closed"
    keys, active,     \* manager.active_connections: its keys; channel -> set of sockets
    task              \* task[b]: a broadcast under way

hubVars == <<socket, keys, active, task>>

Channels == {Competition, "global"}

(* channel: the one under way, and rest those to do then.  used: the size  *)
(* of its set when the iteration began.  sent: those sent to, the last is  *)
(* to.  dead: sends that raised.  calm: nothing joined or left since.      *)
(* orphan: the set has been dropped from active_connections since.         *)
Idle == [at |-> "idle"]

On(ch) == {b \in Broadcasts : task[b].at = "sending" /\ task[b].channel = ch}

(* The tasks, when the set of ch becomes members, or is dropped with them. *)
Disturbed(ch, members, dropped) ==
    [b \in Broadcasts |-> IF b \in On(ch)
                          THEN [task[b] EXCEPT !.calm = @ /\ members = active[ch],
                                               !.orphan = @ \/ dropped]
                          ELSE task[b]]

-----------------------------------------------------------------------------
JoinedBy(w) == active[ChannelOf(w)] \union {w}

(* websocket_endpoint: accepted, and registered before the next await.     *)
connect(w) ==
    /\ socket[w] = "new"
    /\ socket' = [socket EXCEPT ![w] = "open"]
    /\ keys' = keys \union {ChannelOf(w)}
    /\ active' = [active EXCEPT ![ChannelOf(w)] = JoinedBy(w)]
    /\ task' = Disturbed(ChannelOf(w), JoinedBy(w), FALSE)

ClientLeaves(w) ==
    /\ socket[w] = "open"
    /\ socket' = [socket EXCEPT ![w] = "closing"]
    /\ UNCHANGED <<keys, active, task>>

(* The endpoint's receive_json raises: disconnect.                         *)
disconnect(w) ==
    LET ch == ChannelOf(w)
        left == active[ch] \ {w}
    IN  /\ socket[w] = "closing"
        /\ socket' = [socket EXCEPT ![w] = "closed"]
        /\ IF ch \in keys
           THEN /\ active' = [active EXCEPT ![ch] = left]
                /\ keys' = IF left = {} THEN keys \ {ch} ELSE keys
                /\ task' = Disturbed(ch, left, left = {})
           ELSE UNCHANGED <<keys, active, task>>

-----------------------------------------------------------------------------
(* broadcast_to_competition on the first of channels that has any socket,  *)
(* the competition's before the global one; sets and others as given.      *)
Begin(b, channels, sets, others) ==
    LET full == {ch \in channels : sets[ch] # {}}
        ch == IF Competition \in full THEN Competition ELSE "global"
    IN  IF full = {} THEN task' = [others EXCEPT ![b] = Idle]
        ELSE \E w \in sets[ch] :
                task' = [others EXCEPT ![b] =
                           [at |-> "sending", channel |-> ch,
                            rest |-> channels \ {Competition, ch},
                            used |-> Cardinality(sets[ch]), sent |-> {w}, to |-> w,
                            dead |-> {}, calm |-> TRUE, orphan |-> FALSE]]

(* send_contestant_update, in a task of its own, and send_incident_alert   *)
(* for the competition and then for the global channel.                    *)
StartBroadcast(b) ==
    /\ task[b].at = "idle"
    /\ \E channels \in {{Competition}, Channels} : Begin(b, channels, active, task)
    /\ UNCHANGED <<socket, keys, active>>

CopyChanged(b) == FALSE           \* seeded fault: the iteration is over a copy

(* What next() looks at: the set, which is empty once it has been dropped. *)
SizeChanged(b) ==
    task[b].orphan \/ Cardinality(active[task[b].channel]) # task[b].used

Dead(b, raised) == task[b].dead \union (IF raised THEN {task[b].to} ELSE {})

(* The members the iteration may yet yield.                                *)
Yet(b) == active[task[b].channel] \ task[b].sent

Yield(b, raised) ==
    /\ \E w \in Yet(b) :
          task' = [task EXCEPT ![b].to = w, ![b].sent = @ \union {w}, ![b].dead = Dead(b, raised)]
    /\ UNCHANGED <<socket, keys, active>>

(* The loop is over: the dead are discarded from the channel's set, which  *)
(* is looked up again, and the next channel follows.                       *)
CleanUp(b, raised) ==
    LET ch == task[b].channel
        sets == [active EXCEPT ![ch] = @ \ Dead(b, raised)]
    IN  /\ IF Dead(b, raised) # {} /\ ch \notin keys
           THEN task' = [task EXCEPT ![b] = [at |-> "key error"]] /\ UNCHANGED active
           ELSE /\ active' = sets
                /\ Begin(b, task[b].rest, sets, Disturbed(ch, sets[ch], FALSE))
        /\ UNCHANGED <<socket, keys>>

(* A send returns, or raises as its socket has gone; the loop goes on.     *)
Advance(b) ==
    /\ task[b].at = "sending"
    /\ \E raised \in IF socket[task[b].to] = "open" THEN {FALSE}
                     ELSE IF socket[task[b].to] = "closed" THEN {TRUE} ELSE BOOLEAN :
          IF SizeChanged(b)
          THEN task' = [task EXCEPT ![b] = Idle] /\ UNCHANGED <<socket, keys, active>>
          ELSE \/ Yield(b, raised)
               \/ (Yet(b) = {} \/ ~task[b].calm) /\ CleanUp(b, raised)

HubInit ==
    /\ socket = [w \in Sockets |-> "new"]
    /\ keys = {} /\ active = [ch \in Channels |-> {}]
    /\ task = [b \in Broadcasts |-> Idle]

HubNext ==
    \/ \E w \in Sockets : connect(w) \/ ClientLeaves(w) \/ disconnect(w)
    \/ \E b \in Broadcasts : StartBroadcast(b) \/ Advance(b)

HubSpec == HubInit /\ [][HubNext]_hubVars

-----------------------------------------------------------------------------
(***************************************************************************)
(* The clean-up looks the channel's set up again after all the awaits      *)
(* (manager.py:43), and does not fail: where the set was dropped           *)
(* meanwhile, the iteration had raised before.                             *)
(***************************************************************************)
CleanUpFindsTheSet == \A b \in Broadcasts : task[b].at # "key error"
=============================================================================
