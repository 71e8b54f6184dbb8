# LOCKON VOIGHT: a TLA+ verification project

LOCKON VOIGHT watches contestants of a CTF competition for the use of AI tools.
An **agent** (Go) on each contestant's machine reports processes, connections,
files and resources; a **server** (Python: FastAPI, gRPC, Celery, PostgreSQL)
turns the reports into incidents and a score, shows them to **proctors** on a
**dashboard** (React), and sends screen locks, disconnects and policies back.

This directory models that system in TLA+. The modules are translated from the
source: an action stands for what one handler does from one `await` (or lock, or
system call, or browser task) to the next, and `PROJECT.json` names, for every
definition, the lines it stands for. TLC checks twelve small instances: seven
of which what they ask holds, and five that show a disagreement between the code and
what its documents or comments say. Every safety property that the passing runs
check is proved with TLAPS, one of them under a condition, for every value of the
constants.

1. [The system](#1-the-system)
2. [The modules](#2-the-modules)
3. [The runs](#3-the-runs)
4. [Fairness](#4-fairness)
5. [What is proved](#5-what-is-proved)
6. [What the code does otherwise than its documents say](#6-what-the-code-does-otherwise-than-its-documents-say)
7. [What is not modelled](#7-what-is-not-modelled)
8. [The plan](#8-the-plan)

## 1. The system

### Components, their state and operations

| Component | State | Operations |
|---|---|---|
| Incident and score pipeline (`server/app/services/telemetry.py`, driven by `grpc/server.py`, `api/contestants.py`, `api/incidents.py`, `tasks/monitoring.py`) | `incidents`, `integrity_scores`, `contestants.screen_lock_count`; the class dictionaries `pending_warnings`, `pending_disconnects` of each process | process a detection (deduplicate, insert or refresh, lock, recalculate, broadcast), review, recalculate, queue and consume payloads |
| Scoring engine (`server/app/scoring/engine.py`) | `dynamic_domains`, `dynamic_processes` of each process | score, decay, level; classify a domain or a process; take a policy over |
| Heartbeat (`grpc/server.py`, `agent/internal/heartbeat`) | `last_seen`, `is_online`; the agent's lock and grace period | send, record, recalculate, consume payloads, answer; show the lock, count down, disconnect |
| Timeout check (`server/app/tasks/monitoring.py`) | none of its own | select silent contestants, mark them offline, raise an incident for each |
| Enrolment (`server/app/services/competition.py`, `agent/cmd/voight/main.go`) | `competitions`, `contestants`; the agent's contestant id | enroll; add, rename and delete contestants; open, close and delete competitions |
| Offline cache (`agent/internal/cache/store.go`) | a BoltDB bucket, `entryCount` | open, close, enqueue (and prune), replay |
| gRPC client (`agent/internal/grpcclient/client.go`) | the connection | connect, send a report, fall back to the cache |
| Detection policy (`server/app/api/policy.py`, `agent/internal/config/config.go`) | the `system_policy` row; every process's copy; the agent's lists | read, write, apply, send, fetch |
| Network monitor (`agent/internal/monitor/network.go`) | `seenConns`, `dnsCache`, the watched domains | scan, update the DNS cache, clean up |
| WebSocket hub (`server/app/ws`) | `active_connections` of each process | connect, disconnect, broadcast |
| Watchdog (`agent/internal/watchdog`) | `agentPID`, `missedChecks` | check, restart |
| Accounts (`server/app/api/auth.py`, the pages `Login`, `Setup`, `UserManagement`, `services/api.js`, `hooks/useAuth.jsx`) | `proctors`; the tokens in localStorage; a page's calls | set up, log in and out, renew; list, register, edit, switch and delete accounts |
| Settings (`server/app/api/settings.py`, the pages `Settings` and `Dashboard`) | `settings.json`, the banner's image; the form | load, save, replace and remove the banner; edit and apply |
| Screens (`server/app/services/screen_broadcast.py`, `ScreenViewer.jsx`) | each process's store of images; the object URLs | upload, evict; fetch, replace, enlarge |
| Dashboard: live updates (`services/websocket.js`, `Layout.jsx`) | sockets, timers, the update buffer; notifications and badge | connect, reconnect, buffer, flush, notify |
| Dashboard: pages for incidents, nodes, a competition and a contestant | query cache, selections, dialogs | review, edit, warn, delete, disconnect, refresh |
| Dashboard: pages for the policy and competitions | the edited copy; the form and its banner | edit, select, preset, import, deploy; create, edit, start and end, delete |
| Other monitors, eBPF tracer, integrity check, remediation, GUI, download page | see section 7 | not modelled |

### How they interact

* The agent calls the server by **gRPC** (Enroll, Heartbeat, StreamTelemetry,
  RequestHelp, Disconnect) and polls two REST endpoints. Everything the server
  wants of an agent travels in the **answer to a heartbeat**.
* Inside an API process every handler is a **coroutine**; between two awaits
  nothing else runs, at each await anything may. Celery **workers** are
  processes of their own and share only the database.
* The production image starts **four API processes** (`server/Dockerfile:47`),
  each with its own gRPC server and its own copy of every class attribute and
  module-level singleton: the payload dictionaries, the policy copy, the
  WebSocket sets, the screens. An agent's connection belongs to one of them.
* The database is PostgreSQL at READ COMMITTED; no handler locks a row, and
  only primary keys and the names of proctors are unique
  (`server/app/models/core.py:22` leaves those of competitions free).
* In the agent, monitors are **goroutines** that share the configuration, the
  gRPC client and the offline cache.
* The dashboard's **pages** share a query cache (react-query), the tokens in
  localStorage and nothing else; they learn of the server's changes from polls,
  from fetches after their own requests, and from one WebSocket for each
  competition. Every click, timer and answer is a task of its own in the browser.

### What is hard about it, and what makes it correct

Every read-then-write across an await (deduplication, lock counter, latest
score, enrolment look-up, offline mark, policy copy, settings file) may
interleave with itself in another process; payloads are consumed before they are
delivered; processes restart and their dictionaries with them; connections break
and leave handlers behind that the server cancels at whatever await they have
reached. In the browser an answer on its way may be older than what the page has
just done, a form may have been left when its answer comes, and timers outlive
what they were set for. The hazards, each at its line, are listed in
`PROJECT.json`. A component is correct when

* pipeline: a detection leaves an open incident behind; repeated detections do
  not multiply incidents or locks; the latest score settles on the formula's;
* scoring engine: the score never falls with news and never rises with time or
  a review;
* heartbeat: each lock shown was queued, each queued warning arrives, the agent
  never waits for ever; online and offline follow the agent in the end;
* timeout check: silence is flagged, once;
* enrolment: one row per call, and an agent reports as its own contestant;
* cache: a bounded first-in first-out queue that delivers at least once;
* policy: a process judges by a policy that was in force, in the end by the one
  that is;
* network monitor: a watched connection is reported in time, and not repeatedly;
* hub: a broadcast cleans up the set it began with;
* watchdog: an agent that was ended is started again in time;
* accounts: a session that can be renewed is kept, and an account shown as
  administrator is one;
* settings: the banner that is named exists, and a form without changes shows
  what is in force;
* screens: an image that is shown is in memory, and none is kept that is not;
* live updates: a page is never left without a socket for its competition, the
  badge follows the alerts, what is flushed is shown;
* pages: what a page was told is done it does not show undone, and forms mix
  nothing up.

## 2. The modules

| Module | What it is |
|---|---|
| `ScoringEngine` | Pure operators: weights, decay, truncation and cap, levels. Used by `IncidentService`. |
| `ScoringEngineMC` | Histories of indicators that are reported, refreshed, closed and age, over which the scores before and after each are compared. |
| `IncidentService` | The pipeline of one contestant: handlers and workers, one statement a step. |
| `IncidentServiceProofs` | Its inductive invariant and theorems. |
| `TelemetryCache` | The offline cache, its transactions, crashes and damaged entries. |
| `ReportQueue` | What a cache promises: a FIFO queue that forgets the oldest and delivers the front. Abstract specification of `TelemetryCache`. |
| `TelemetryCacheProofs` | Inductive invariant, theorems, and the refinement, of the cache alone and as `GrpcClient` uses it. |
| `GrpcClient` | The client's report calls on top of `TelemetryCache` (it EXTENDS it): the composition of monitors, stream and cache. |
| `AgentSession`, `AgentSessionMC` | The heartbeat loop of one agent, the handler, the payload dictionaries of each API process, the timeout check. |
| `AgentSessionProofs` | Its safety: awaited calls, locks, timeouts. |
| `Enrollment`, `EnrollmentProofs` | Enrolment into one competition, with proctors editing it, and the proofs about it. |
| `DetectionPolicy`, `DetectionPolicyMC` | The policy row, every process's copy, the agent's lists. |
| `NetworkMonitor`, `WebSocketHub`, `Watchdog` | The components of these names. |
| `PartsProofs` | The proofs about these three, the policy's copies and the scores. |
| `PartsMC` | The cache, the client, these three, the scores, enrolment, the settings and a second instance of the pipeline side by side in one instance. They share no state, so each behaviour is one part's. |
| `QueryClient` | What the pages use of react-query: a query's data, its fetch, polling and invalidation. Operators, used by all pages below. |
| `DashboardSocket` | `useWebSocket` and what the layout makes of the alerts. |
| `DashboardSession` | Setup, login, tokens and their renewal, routes. |
| `IncidentReview` | The incidents page. |
| `ScreenViewer` | The live screens, and the store in each API process. |
| `PolicyEditor` | The detection policy page. |
| `FleetCommand` | The page of all nodes. |
| `CompetitionGrid` | One competition's page. |
| `ContestantPage` | One contestant's page. |
| `SettingsForm` | The settings form, the banner, and the file of both. |
| `CompetitionsPages` | The competitions page with its form, the server's part of its requests, and the layout's mission timer. |
| `ProofLemmas` | Induction over sets of numbers, and what becomes of a query: lemmas for the proofs above and below. |
| `ContestantPagesProofs` | The proofs about `IncidentReview`, `ScreenViewer`, `FleetCommand`, `CompetitionGrid` and `ContestantPage`. |
| `AdminPagesProofs` | Those about `DashboardSession`, `SettingsForm`, `PolicyEditor`, `CompetitionsPages` and `DashboardSocket`. |
| `UserManagement` | The accounts page and its routes. |
| `DashboardMC` | The dashboard modules but `SettingsForm` side by side in one instance. |

**Naming.** Definitions carry the names of the functions and variables they
model where there is one (`calculate_score`, `pending_warnings`, `seenConns`,
`handleBulkDelete`). A handler is in the state its next await gives it (`pc`,
`call[c].at`, `request[r].at`); a page's request is `sent`, then `done` or
`refused` by the server, then answered or lost. Variables that the code does not
have are histories, and said to be: `queued` and `shown` in `AgentSession`,
`auto_locks` and `proctor_locks` (counts of incident rows) in `IncidentService`,
`mishaps` and `deliveries` in `TelemetryCache`, `past` in `DetectionPolicy`,
`overdue` and `closest` in `NetworkMonitor`, `down`, `failed` and `misled` in
`Watchdog`, and in the
dashboard's modules those marked `(history)`.

**Seeded faults.** A definition marked `seeded fault` is not part of the model.
It is what a neighbouring definition would be after a plausible slip (a lost
guard, a missing reset, an off-by-one); putting it in that definition's place
makes the named run fail, which shows that the property depends on that piece
of code. `PROJECT.json` lists them under `mutants`, one for each property.

### IncidentService

One contestant; the handlers of its telemetry, heartbeats and proctors' requests
in the API process ("api": the one its agent is connected to), and Celery
workers. `StartDetection`, `SelectExisting`, `RefreshExisting` or
`InsertIncident`, `Escalate`, `CommitLock`, `ReadOpen`, `KeepScore` or
`CompareScore` and `WriteScore` are the statements of
`process_telemetry_and_score`; `Review`, `SendWarning`, `Heartbeat`,
`RecalculateActive` and `SelectTimedOut` lead into the same chain.
`calculated_at` is the start of the transaction (PostgreSQL's `now()`), so a row
committed later may not be the *latest*: `openTx`, `older` and `superseded` hold
just the order this needs. `CancelHandler` is grpc.aio cancelling a coroutine,
`ApiRestart` ends all of them. Incident rows that score nothing (such as
SCREEN_LOCK_ISSUED) are counted, not listed.

### TelemetryCache and GrpcClient

The bucket is a set of keys; a key is the sequence number BoltDB gives out.
`Enqueue` is check, prune, put; `Replay` is a read transaction that sends from a
cursor and a write transaction that deletes, between which the process may
crash. The mutex makes one operation run at a time (`op`). Each transaction may
fail and a value may be damaged on disk, as often as `MaxMishaps` allows.
`GrpcClient` adds the calls of several monitors: a report is cached only if
`stream.Send` itself fails.

### AgentSession

One agent, one contestant, several API processes and workers. A heartbeat is
`SendHeartbeat`, `UpdateHeartbeat`, `ConsumePayloads`, `Respond`,
`HeartbeatAnswered`; requests and answers are lost, the database fails, processes
restart, the agent dies. When a connection breaks, the agent goes on and its
handler may too, until it is cancelled (`Abandon`). Time is counted in heartbeat
intervals. The lock is `on`, then in its 30 s of `grace`, in which a further
warning starts only the countdown. The agent has just enrolled at first, and each
agent that starts enrols again: `ComesOnline` is what the server's row gains by
that, as by a heartbeat. An enrolment whose answer is lost is in `Enrollment`.

### Enrollment

Two machines, one competition. The handler's statements are steps; a row may be
renamed or deleted between any two of them, the competition closed or deleted.
Two rows for one contestant make `scalar_one_or_none` raise, for good.

### DetectionPolicy

GET, PUT and the end of the Heartbeat handler are coroutines that read the row
and apply what they read after a further await. An UPDATE writes the columns that
differ from what was loaded, so two PUTs can mix. An agent replaces its lists by
those it is sent, unless they are empty.

### NetworkMonitor, WebSocketHub, Watchdog

A scan is one step and ages are counted in scans; the DNS cache is filled by a
step of another goroutine, at any time. A broadcast is a task that iterates the
live set with one step per send; Python's check of the set's size is
`SizeChanged`.

The watchdog's machine is one of four kinds (Windows, Linux with and without a
service, macOS). `Check` is one pass of its loop: `isAgentAlive` answers "dead" on
Unix whatever runs, and on Windows "alive" for any process that has the PID, or
"dead" if tasklist fails. `attemptRestart` goes through the service manager
(`restartService`) or, where that fails or is missing, `directRestart`; the service
manager may have ended its agent before it fails (`Leftovers`), and `cmd.Start`
may fail as well (`startFails`). `BeginAgent` is the agent's bind of the port: the
one that finds it taken exits, on Windows after its message box was closed. The
contestant ends and starts agents at will, and launchd keeps one alive.

### QueryClient

A query keeps its last data while it fetches. A fetch is sent, *read* by the
server, and answered, so an answer may be older than what has happened since.
`Polled` (an interval, a reconnection) joins a fetch under way; `Invalidated`
(`invalidateQueries`, `refetch`) cancels it and sends another, except for the
first one of a query, which has nothing to fall back to and goes on. That
exception is what several properties below must except, or survive.

### DashboardSocket

Each `connect` appends a socket, which connects, opens, is closed by either end
and reports it in an event of its own; that event sets a timer for the channel
of its closure, whoever closed it. `wsRef` and `timerRef` are the two refs that
all of them share. A message goes to the buffer; a flush hands two functions to
React and clears the buffer, and whether a function runs at once or as the
component renders is React's choice (`setters`, `Render`). The layout's effect
follows each render and invalidates the badge's query.

### DashboardSession

A token is the number of the pair it came in; `staleAccess` and `staleRefresh`
are the newest that have expired. A call carries the token of the moment; on its
first 401 it renews with the refresh token of the moment, keeps the new pair and
is sent again, each call for itself. `BackToLogin` clears the tokens and reloads
the page. `initial_setup` looks for an account and inserts one in two steps.

### The pages

`IncidentReview` (lists by status, the confirmation, reviews one by one and in
bulk), `FleetCommand` (selection, three dialogs, single and bulk operations),
`CompetitionGrid` (cards merged from the list and the socket's updates),
`ContestantPage` (five queries, two commands), `UserManagement` (accounts),
`CompetitionsPages` (a form that keeps its fields, a banner upload that answers
late, a second query in the layout), `PolicyEditor` (an edited copy, presets,
import, selections, deployment) and `SettingsForm` share one shape: the server's
rows, the page's queries, its dialogs, and the requests under way. A row's
content is a version or the object it was entered for, whatever its properties
need to tell two apart. A step is a browser task or the server's part of one
request. Other proctors act on the server, unheard.

`SettingsForm` also has the file: `LoadForBanner`, `ReplaceImage`, `OpenFile`
(which empties it) and `Dump` are the steps of the routes, which several
processes take at once. Each writes from the file's beginning, so that the rest of
a longer JSON may stay behind a shorter one; such a file, like an empty one, is
read as the defaults. `RequestDies` is a crash or a statement that fails between
two of the steps.

`CompetitionsPages` numbers what is typed into a form (an *entry*) and follows it
from the form through requests and rows. The form waits with its fields and with
its button enabled while a request is under way, so that one entry may be sent
again; a late banner spreads the entry of its form into whatever form is open.
`RaisesNameError` is the service's missing `os` import.

`ScreenViewer` has the store (an image takes its place as the newest, the oldest
is evicted) and the viewer's fetch loops, which overlap: object URLs are numbered
as they are made and `alive` until revoked. The component is left (`Leave`) and
mounted again (`Enter`), with an empty state; its loops go on, as those of a
component that is gone (`mine` is FALSE), and the URLs of earlier mounts are in
`left`, for the clean-up at unmount revokes none (`SeenByCleanup`).

## 3. The runs

| Run | Instance | What it shows |
|---|---|---|
| `incident` | two coroutines, one worker, two types (both above the lock threshold of 80), two incident rows, one proctor's lock, reviews and cancellations | `DetectionCounted`, `LockOncePerIncident`, `LockCountBound` |
| `incident_score` | two coroutines, one worker, one incident that is fresh or decayed, with restarts | `ScoreConverges`, `ApiWarningTaken` |
| `parts` | cache: four reports, a limit of two, prunes of two, two mishaps of any kind (crash, failed prune, put or delete, lost acknowledgement, damaged entry); client: three reports through that cache; network: two endpoints (one whose address two domains share, one private), two watch lists, dedup window of 3 scans, clean-up after 4; watchdog: each kind of machine, three PIDs, `MaxMissedChecks` 3, two failed or misled checks; hub: two dashboards on the competition, one global, two broadcasts; scores: up to three indicators of six types, one of each class of weight and one without a weight, the default decay bands (1, 2 and 3 minutes), ages to beyond the last; enrolment: two machines of one contestant, two calls, two edits, two starts each; settings: three requests (so that two may have loaded the first one's banner) and one crash, loss, other's save or change of page or form, or two of each, one value besides the defaults; pipeline: two coroutines that raise one type below the lock threshold, four incident rows, reviews and cancellations | `CacheBound`, `RepeatsNeedMishaps`, `ImplementsQueue`, `ReportedInTime`, `ReportsAreSpaced`, `BackInTime`, `CleanUpFindsTheSet`, `NewsNeverLowers`, `RestNeverRaises`, `EnrolledOncePerCall`, `EnrolledAsItself`, `DuplicateBound`, `BannerIsOnDisk`, `FormShowsSettings` |
| `session_safety` | two calls, two API processes, two workers, one queued warning, two faults of any kind but a worker's death | `LocksAreQueued`, `AwaitedIsServed`, `SilenceIsFlagged`, `TimeoutOncePerSession` |
| `session_live` | two calls, one API process, one worker, two queued warnings, one fault of any kind | `RunningIsSeen`, `GoneIsFoundOut`, `WarningArrives` |
| `policy` | one API process, two proctors, a domain and its subdomain, two updates that differ in both columns, one restart | `CacheWasInForce`, `PolicyTakesEffect` |
| `dashboard` | eleven parts: socket (a competition and the global channel, three sockets, two messages or changes of page); session (three pairs of tokens, two calls, two expiries or losses); review (two incidents, two requests and one other event, or one and two); viewer (two processes with a store of one, two nodes, two loops); fleet and grid (two nodes, two requests, one other event); contestant (two queries, three events); editor (two domains and an extension, two of the three built in, three edits); pages (three competitions, one of them there at first, one entry to be typed, two requests, one poll or loss) and form (the same, one banner or loss, the layout waiting); users (two accounts, one request, one event) | `CurrentIsCovered`, `BadgeCatchesUp`, `SessionIsKept`, `OwnReviewShows`, `ImagesInHand`, `OwnChangesShow`, `DeletedHasNoCard`, `RefreshIsFresh`, `CleanShowsInForce`, `FieldsStayOwn`, `TimerIsOfActive` |
| `session_warning_elsewhere` | two API processes, no fault | violates `WarningArrives` |
| `incident_dedup_race` | two coroutines, one worker | violates `AtMostOneOpen` |
| `client_replayed` | two reports, cache of two, no fault | violates `CachedIsReplayed` |
| `socket_flush` | two sockets at most, two messages | violates `FlushReachesState` |
| `users_admin` | two accounts, two requests | violates `AdminHasAccess` |

Deadlock is checked unless a system may really stop: agents stay off, all
reports are sent, the bounds on edits, faults or clicks are used up.

What the dashboard's properties except is part of what they say: `BadgeCatchesUp`
the alerts shown before the badge's first number; `SessionIsKept` messages that
were lost; `CleanShowsInForce` and `FormShowsSettings` changes by others, of which
no message tells the page, and requests that have begun to change what is in force
and are not answered; `BannerIsOnDisk` a banner whose removal is not yet saved, or
never will be because the request died; `FieldsStayOwn` entries that a late banner
has put into another form, and those of which Create was clicked again before it
was answered or after its answer was lost; `TimerIsOfActive` a deletion,
an answer that was lost and one on its way; `BackInTime` allows a check for each
restart that failed, and `MaxMissed` for each check that took a refused agent for
the running one. Each exception is a history variable or a condition
in the property, and each is something the code does.

### Why these bounds are enough

* **Two actors of a kind** are what a read-then-write race needs; `incident` has
  three (two coroutines and a worker), so that a stale write can meet a fresh one
  while a third party looks. The pipeline in `parts` has room for four rows of a
  type, two more than `DuplicateBound` allows; two rows, as in
  `incident`, could not exceed it. The theorems (section 5) hold for any number.
* **Two faults** let a restart follow a lost answer, and one warning is enough to
  be shown twice if it ever were (`session_safety`). Two warnings are needed for
  one to arrive in the grace period of the other (`session_live`).
* **The cache** needs a prune of as many as its limit, so that one failed prune
  lets two reports in where only a mishap's worth is allowed, had the count
  decided; the theorems hold for every size.
* **The pages** need two objects, one the request is about and one it is not,
  two requests that overtake each other, and one event from outside between
  them. A poll that is under way when a request is answered, an answer read
  before the change, and a failure of either come within these bounds; the
  mutants of each property need one of them. Three sockets are one more than the
  change of competition makes, so that one of a competition that was left comes
  back beside it.
* **Time** is counted in the smallest unit that a comparison can tell apart:
  ages stop one beyond the last band (`ScoringEngine`, `IncidentService`, where the
  bands are of width 0 so that an incident is fresh or fully decayed), `silent`
  one beyond `Timeout`, `Dedup = 3` scans and `Forget = 4`, which the code has
  as 30 s and 5 minutes with a scan every 5 s. Timers of the pages fire at any time.
* **Counters** are bounded in guards and every bound is a constant (`Max...`,
  `AlertLimit`, `NoticeLimit`) with a comment that says so. The hook's 50 alerts,
  the layout's 20 notifications and the store's limit are 2, 1 and 1, so that they
  are reached.
* **Thresholds** in `incident_score` (5 and 8) put the fresh and the decayed
  score of the type at one level, so that a comparison of levels instead of
  scores would be caught.
* **The watchdog** needs two excuses, so that a failed restart follows a check
  that was misled, or the other way round, between two running agents.
* **What belongs to nothing else** is not explored together: `parts` and
  `dashboard` bound the requests and the other events of the settings and of the
  reviews by their sum (`SettingsBound`, `ReviewBound`), and the competitions
  page has two parts, one without uploads, and one in which the layout's query,
  which no step of the form reads, waits for its first answer.
* Symmetry is used on calls, processes and workers (`session_safety`), none of
  which any definition singles out, and only with safety properties.

## 4. Fairness

* `IncidentService!Fairness`: tasks that have started run on (WF), because event
  loop and workers never wait for each other; the periodic recalculation and the
  heartbeats (beat every 30 s, agents every 10 s) occur again and again (SF: a
  worker or coroutine that is free again and again is used). Nothing is assumed
  of proctors or of detections. `ScoreConverges` supposes that incidents and
  their ages stand still in the end, as they do once all are closed or decayed.
* `AgentSession!Fairness`: the ticker, the handlers, beat and its workers, and
  time (WF). No fairness for a restarted agent, a proctor or the contestant who
  has to close the lock. `WarningArrives` asks for a warning that is queued once
  calls no longer break (`Calm`); earlier ones can be lost with an answer.
* `DetectionPolicy!PolicyFairSpec`: coroutines run on and heartbeats are sent (WF).
* `GrpcClient!ClientSpec`: calls run on, the network comes back again and again.
* The other parts of `parts` and all of the dashboard are checked for safety
  only; "in time" is counted in scans and checks there. A browser may throttle or
  suspend the timers of a page, so nothing is assumed of them.

## 5. What is proved

The proof modules prove every obligation with SMT, Zenon and, for the temporal
steps, the PTL backend. The assumptions are those of the modules
(`HandlerAssumption`, `ScoringAssumption`, `CacheAssumption` and the like, which
TLC evaluates in the runs), and nothing else.

### TelemetryCacheProofs

`TypeCorrect`, `CacheIsBounded`, `RepeatsAreMishaps` and `CacheImplementsQueue`,
for every limit, prune size, number of reports and set of faults, and
`CountIsExact`, which supposes that no prune fails: `pruneOldest` lowers
`entryCount` even when its transaction fails.

None of the properties is inductive as it stands. `CacheInv` adds

* `FileRoom`: the bucket fits in its file, and a put that is about to happen has
  room (the file was not full, or a prune has come first, or a mishap pays for
  it); `CacheBound` follows;
* `Replayed`: what a replay is going to delete is exactly the keys up to its
  cursor, and each of them was delivered or cannot be read;
* `Repeats`: deliveries of an entry that is not about to be deleted are each
  owed to a mishap, and a key not yet given out has none; `RepeatsNeedMishaps`
  follows, since a delivery moves the cursor past the entry.

There is one lemma for each action. `ClientKeepsQueue` shows the same refinement
for `GrpcClient`: each of its steps leaves the cache alone or is one of its own.
The refinement maps the bucket to the
queue's pending reports and the deliveries to what was handed over; each step is
a `Keep`, `FindFull`, `HandOver`, `Damage`, `Discard` or `MakeRoom` of
`ReportQueue`, or a stutter.

### IncidentServiceProofs

`DuplicatesAreBounded`, `LockCountIsBounded`, `DetectionsAreCounted` and
`OneLockPerIncident`, for any handlers, workers, types and bounds. The inductive
invariant `Inv` is the types (`Typed`) and `Linked`:

* `Consistent`: what a handler does and where it is go together; a handler about
  to insert has found nothing, one about to refresh holds a row of its own type;
* `DuplicateBound`: the open incidents of a type plus the handlers about to insert
  one never exceed the handlers that raise the type. A handler joins those about
  to insert only when no incident of the type is open, and then the others that
  are about to insert are raisers too; an insert moves one from the one set to the other;
* `LockOwed`: automatic locks plus the handlers that still owe one are at most
  the heavy rows. `LockOncePerIncident` alone is not inductive: a handler that
  has just inserted a heavy row owes it a lock before it stands at the commit.
  `OwingBefore` shows that no other step adds a debt, `AutoLocks` that only a
  commit adds a lock, and `OwedStep` counts;
* `LockCountBound` and `DetectionCounted`, with the same case split.

### AgentSessionProofs

`AwaitedCallsAreServed`, `LocksComeFromWarnings` and `OneTimeoutPerSession`, for
any numbers of calls, API processes, workers and faults, and
`SilenceIsFlaggedInTheEnd`, which supposes that workers do not die (a worker's
death is in section 6). With the types:

* `HandledSomewhere`: a call in progress has a process, so that a restart which
  frees the calls of a process frees the awaited one only if the agent is
  connected to that process, and then the agent's call breaks with it;
* `LocksAreQueued` counts: a warning moves from a process's dictionary to a
  call, and from there to a lock; no step makes two of one;
* `ReportsOwed`: a worker between selecting and raising owes a report of the
  session it saw, and of the next one too if the contestant is back by then;
* `FlagIsComing`: an offline contestant not yet flagged has been marked by a
  worker that is about to raise the incident. `SilenceIsFlagged`, which speaks of
  idle workers, is not inductive.

### EnrollmentProofs

`AgentsEnrolAsThemselves` and `RowsAreOncePerCall`, for any machines, calls and
edits. `EnrolledAsItself` speaks of enrolled agents; `HeldRows` says the same of
the row that a handler holds at each of its statements: ids are given out once,
so that the row of an id it holds is its contestant's, or gone.
`EnrolledOncePerCall` is inductive together with that: a handler joins those
about to insert only when the contestant has no row (`SelectContestant`), and
then at most all calls are about to insert; an insert takes one away.

### PartsProofs

Five parts that share no state, each with its inductive invariant.

* **Network monitor** (`ReportsComeInTime`, `ReportsKeepTheirDistance`, for any
  endpoints, policies and periods, if the clean-up comes no earlier than the
  deduplication ends). Both need to know how the entry of `seenConns` relates to
  the histories: what is left out was seen at least as long ago
  (`LeftOutSinceSeen`), and an endpoint reported within the period still has its
  entry (`SeenSinceReport`), which the clean-up would otherwise take.
* **Watchdog** (`AgentsComeBackInTime`, for any processes, limit and kinds of
  machine). With each failed restart and each misled check as an excuse,
  `WatchdogInv` says that the checks without an agent are at most the missed ones
  and the excuses, and `StartIsUnderWay` that once the excuses are used up one is
  being started, so that the next check, which waits for its bind, counts from 0.
  A misled check sets `missedChecks` back to 0 and so costs `MaxMissed` checks; a
  failed restart leaves it where it is, so that the next check tries again
  (`RestartStep`, `CheckStep`).
* **Hub** (`CleanUpsFindTheirSet`, for any sockets and broadcasts). The clean-up
  looks up a channel after awaits in which it may have been dropped; `KeyOrOrphan`
  says that a broadcast whose channel is no key iterates over a dropped set, which
  makes the iteration raise first. A channel that has sockets is a key (`SetsTyped`).
* **Detection policy** (`CopiesWereInForce`, for any processes, proctors and
  updates). A copy is written from what a request has read several awaits before,
  so the invariant adds that the row, and what each request is about to apply,
  was in force (`ReadFromRow`).
* **Scores** (`NewsDoesNotLower`, `RestDoesNotRaise`, for any number of indicators, any ages and any decay thresholds). `RawTenths` is a
  fold over a set that takes out an arbitrary element each time.
  `FoldsExist` shows by induction on the sets' size that the fold's recursive
  equation has a solution, `RawIsSum` that any element may be taken first, and
  `RawCompare` that a sum is no more than another if each indicator that counts
  has one of its own in the other that counts no less. All four steps of a history
  are such a comparison: a report and a refresh forwards, a review (whose
  indicators move up one place) and time backwards. `ScoreCompare` carries it
  through the truncation, where the one sum that loses a point to the doubles
  (63 of a single indicator) must not overtake another 63, and the cap.

### ProofLemmas

`SetInduction` is induction over the natural numbers for a *set*: the library's
theorem takes a formula as a parameter, which the provers cannot instantiate, so
it is proved anew from the minimal element of the set's complement (`WFMin`).
The other lemmas say what becomes of a react-query query at a poll, an
invalidation and a step of its fetch, whatever its data are.

### ContestantPagesProofs

Each theorem is for any objects, requests, events and failures. The state a
property speaks of is seldom enough: an answer that is on its way was read
before something else happened, so every invariant also says what such an answer
may hold.

* `RefreshesAreFresh` (`ContestantPage`). `PageInv`: an answer that has been read
  since the last click was read after it; a click during the very first fetch,
  which is not cancelled, cannot happen before there are data.
* `ImagesAreInHand` (`ScreenViewer`), over any number of mounts. `ViewerInv` adds
  `UrlsAreOwn` (no two contestants hold one URL, and none beyond the last made, so
  that revoking the URL that is replaced takes away nobody else's) and
  `AliveIsHeld` (the URLs of this mount in memory are just those held); a loop of
  an earlier mount touches neither.
* `ChangesAreShown` (`FleetCommand`). `FleetInv` adds `ListsReflect` (the rows and
  an answer just read have all that the page has seen done), `DoneIsDone` (a
  deletion that succeeded stays so), `Numbered` (what a number's requests have in
  common) and `ListCameFirst` (an operation needs rows to be chosen from, so the
  invalidation that follows it is never the one that the first fetch swallows).
* `DeletedAreNotShown` (`CompetitionGrid`). `GridInv` adds `IdsOnce` and
  `GoneStays` (an id is given out to one insert, so a deleted row does not come
  back), `CardsCameFirst` and `DeletedUnlisted`, as above.
* `ReviewsAreShown` (`IncidentReview`). `ReviewInv` adds `DecidedStays` and
  `OpenListClean`, which follows the list of open incidents also while another
  one is shown: it is outdated then, and the reason to fetch it when it is shown.

### AdminPagesProofs

* `SessionsAreKept` (`DashboardSession`, an action property). `SessionInv`: a
  renewal that was refused was asked for with a token that is out of date, and
  stays so, or a message was lost.
* `BannersAreOnDisk` and `FormsShowSettings` (`SettingsForm`), for any processes.
  `BannersAreOwn`: an upload's number is in no file and in nobody's copy of it
  before it is saved, so that no other request can remove its image, and one that a
  request has removed is named only until that request saves or dies; `DataIsFiles`:
  what the page has received is what the file holds unless a request has begun to
  write it or the page has missed a change.
* `CleanPagesShowInForce` (`PolicyEditor`). `EditorInv`: an answer that has been
  read since the last deployment is the policy in force.
* `FieldsAreOwn` and `TimersAreOfActive` (`CompetitionsPages`). Apart from the
  excepted entries, an entry belongs to the competition it was typed for, or was
  made into, wherever it is: in the rows and the list on its way (`RowsAreOwn`), in
  the form and the banners under way (`FormIsOwn`), and in the requests
  (`RequestsAreOwn`: at most one that creates from it). `ListIsActive` is as above.
* `PagesAreCovered` (`DashboardSocket`). `CurrentIsCovered` is inductive with the
  types: a socket that ends leaves a timer for its channel, and a timer that fires
  another socket; the clean-up's timer and socket are taken from a page that is left.
* `BadgesCatchUp` (`DashboardSocket`). `BadgeInv` says of an answer on its way what
  the property says of the badge. The alerts after a render are a recursive function
  of the queued setters; that there is one (`RunsExist`) and what it returns
  (`NextAlertsTyped`) are shown with `SetInduction`.

An unanswered request excuses the settings form, the policy page and the mission
timer only from the step on at which it changes what is in force. The guards of each
CASE are disjoint: TLC would take overlapping ones in their order, which the language
leaves open.

### Only model-checked

Every invariant that a passing run checks, and every action property, is stated
by a theorem, `SilenceIsFlagged` under the condition named above. Liveness under fairness and `ENABLED` are beyond the prover and stay with
TLC: `ScoreConverges`, `ApiWarningTaken`, `RunningIsSeen`, `GoneIsFoundOut`,
`WarningArrives` and `PolicyTakesEffect`, and so do the five violations.
`UserManagement` is checked by
`users_admin` alone. No module has a RECURSIVE operator.

## 6. What the code does otherwise than its documents say

Shown by runs:

* A proctor's warning is queued in the memory of whichever API process the
  request reaches; with `--workers 4` the agent's heartbeats may go to another
  one for ever (`session_warning_elsewhere`; `contestants.py:212`).
* Two concurrent detections of a type insert two open incidents
  (`incident_dedup_race`; `docs/scoring-algorithm.md:90`).
* Nothing calls `ReplayCache` (`client_replayed`; `README.md:480`).
* A flush of the update buffer clears it before React has run the functions that
  read it, unless React runs them at once; what was flushed is lost
  (`socket_flush`; `websocket.js:85`).
* The accounts page spells roles in capitals and the server stores what it is
  sent, while `require_admin` accepts `"admin"` only: an account for which ADMIN is
  chosen on the page is refused by every route for administrators, one that was an
  administrator before included (`users_admin`; `UserManagement.jsx:19`). A role
  that is left as it was is sent as the server spells it.

Met while modelling, and kept in the model, without a run of their own:

* The score counts open incidents only (`telemetry.py:215`), so that a review which
  confirms an incident lowers the score as one that dismisses it does.
  `docs/proctor-guide.md:192` says of a confirmed one "The weight remains in the
  score calculation", line 155 that scores are calculated from open incidents only.
  The model and `ScoreConverges` follow the code.
* On Unix `process.Signal(os.Signal(nil))` fails for every process, so the
  watchdog takes a running agent for dead and, from the third check on, "restarts"
  it every 3 s (`watchdog.go:79` "checks if the agent process is still running"):
  with a service the running agent is ended and started over and over, without one
  the port refuses the second instance.
* The viewer's clean-up at unmount (`ScreenViewer.jsx:95` "Cleanup object URLs on
  unmount") sees the screenshots of the first render, which are none: each visit
  leaves its images in memory. `ImagesInHand` is about those of the present mount.
* A competition whose banner was uploaded can neither be deleted nor be given
  another banner: the service uses `os` without importing it
  (`services/competition.py:73`, `94`), the request ends with 500 and nothing is
  changed (`api/competitions.py:145` "Delete a competition and all related data").
* `screen_lock_count` loses one of two concurrent increments
  (`docs/proctor-guide.md:228`), and a score row is repeated when two
  recalculations race (`docs/scoring-algorithm.md:93`).
* A worker that raises a heavy incident queues the lock in its own memory, and
  records it as deployed (`telemetry.py:283-300`).
* A worker that dies between marking a contestant offline and raising the
  incident leaves the silence unflagged (`monitoring.py:60-69`,
  `docs/proctor-guide.md:279`); a heartbeat between the selection and the mark is
  overwritten.
* An answer that is lost takes its payload along (`server.py:143`).
* The lock comes first and the countdown after it (`README.md:502` has it the
  other way round), and within the grace period the countdown comes without a lock.
* `int()` truncates: 90 × 0.7 scores 62 (`docs/scoring-algorithm.md:15`). The decay
  bands end after 1, 2 and 3 minutes by default (`config.py:57-59`), not after 5,
  15 and 30 (`docs/scoring-algorithm.md:22-27`, `docs/proctor-guide.md:156`).
* Two contestant rows of one name, by a race or a proctor's hand, end all
  further enrolments of that contestant (`docs/deployment-guide.md:124`). The
  fingerprint is overwritten and never compared (`README.md:84`).
* `Enqueue` on a full cache prunes and succeeds (`store.go:105` says it returns
  an error); since the file never shrinks, every later `Enqueue` prunes again. A
  prune whose transaction fails still lowers the count.
* A report that fails before or after `stream.Send` is neither delivered nor
  cached (`client.go:181`, `README.md:480`).
* A policy list that is cleared never reaches the agents; one that is set
  *replaces* the agent's list, where `telemetry.proto` speaks of extra names. Two
  concurrent PUTs leave a row that nobody sent.
* On Windows a second instance that the port refuses waits in a message box; if the
  watchdog started it, it is taken for the agent until the box is closed (the
  checks that `BackInTime` counts as misled). No route answers the watchdog's POST
  to `/api/watchdog/agent-down`.
* A dashboard that joins or leaves during a broadcast ends it with a
  RuntimeError: the remaining dashboards, and the global channel, miss the message
  (`manager.py:31` "Broadcast a message to all proctors watching a competition").
* `send_warning` calls `send_contestant_update` with an argument missing
  (`contestants.py:234`, `manager.py:43`): the warning is queued and the request
  answered 500, so the pages show a failure of what was done.
* `initial_setup` looks for an account and inserts one in separate awaits
  (`auth.py:149`): two requests make two administrators. None of the roles the
  accounts page offers passes `register_proctor`'s pattern, so its creation of
  an account is always refused.
* `checkAuth` takes any error for the end of the session, a server that does not
  answer included (`useAuth.jsx:20-27`).
* The socket of a competition that was left, or of a page that has gone, comes
  back three seconds after its close event (`websocket.js:64`), and stays.
* Applying the settings form sends no banner and so drops it
  (`Settings.jsx:118`); a banner that answers late puts the fields of the form it
  was chosen in over those of the form that is open (`CompetitionsList.jsx:117`).
  Create stays enabled while it waits (`CompetitionsList.jsx:617`): a second click
  makes a second competition of the same fields.
* The settings file is emptied by each writer before it is written, by four
  processes (`settings.py:81-82`, `131-132`): a reader in between, or two writers
  at once, and the settings are the defaults. A crash between the removal of the old
  banner and the write leaves the old one named (`settings.py:121-131`).

## 7. What is not modelled

* **In modelled components, server and agent:** RequestHelp and Disconnect, which
  insert incidents without deduplication; deletion of a contestant while its
  reports are processed; `cleanup_expired_data`; the policy's file extensions
  on the server (they take the way of the other two columns) and scan intervals
  (which a running agent never reads again); re-used PIDs; an enrolment of
  `AgentSession` whose answer is lost; a data race on the agent's lists; back-pressure of a slow socket; a set that yields a member twice
  after a change that kept its size; the login rate limit; `change_password`; SIEM
  forwarding, which keeps nothing.
* **In modelled components, dashboard:** sorting, paging, charts, exports,
  breadcrumbs and other presentation; the start page but for its banner; a second
  rule of the same name in the policy editor; a rule's category and description.
* **Other monitors** (processes, resources, files, memory, ports) and the **eBPF
  tracer**: scans are operating-system I/O, and what they find enters
  `IncidentService` as detections. The windows of the resource monitor are planned.
* **Integrity check, remediation**: nothing reads the one's result, nothing
  calls the other.
* **Download page and theme**: the one packs a ZIP in the browser and keeps
  nothing, the other is presentation.
* **GUI, migrations, deployment, generated code**: presentation or build files.

## 8. The plan

The order was: scoring and the incident pipeline; the cache with its abstract
queue and proofs; the session; enrolment; policy, network monitor, hub and
watchdog; the dashboard with accounts, settings and screens. What follows, most
important first:

1. **Incident pipeline, rest:** RequestHelp and Disconnect incidents, deletion of
   the contestant or competition, retention clean-up.
2. **ResourceMonitor and ProcessMonitor:** sliding windows and the spike rule; the
   memory of PIDs reported. Properties: a sustained load is reported once per
   window, a PID that is re-used is reported again.
3. **Accounts, rest:** the sliding window of login attempts in each process,
   deactivation against issued tokens.
4. **Composition:** `AgentSession` with `DetectionPolicy` (one heartbeat, payloads
   and policy), `IncidentService` with `WebSocketHub` and `DashboardSocket`,
   `DetectionPolicy` with `PolicyEditor`.
5. **Proofs:** `SilenceIsFlagged` with workers that die, restricted to what then
   holds; that `IncidentService`'s score is `ScoringEngine`'s of the rows a
   recalculation read; safety of `UserManagement` (what a row shows after a change).
