# TLA+ verification of IsTheTubeRunning

IsTheTubeRunning tells commuters when a disruption of the London transport network
touches one of their routes. The backend (FastAPI, SQLAlchemy on PostgreSQL, Redis,
Celery) keeps routes, polls TfL every 30 seconds and alerts by e-mail and SMS; the
frontend (React) edits routes and polls the backend. This directory holds TLA+ modules
of its core, TLC instances of them, and TLAPS proofs. `PROJECT.json` maps every
definition to the lines it models.

All paths below are relative to `backend/app/` unless they begin with `frontend/` or `deploy/`.

## 1. Inventory

Components in order of weight; the properties are what makes each correct, and those
marked (m) are stated in a module here.

| Component | State | Operations | Correct when |
|---|---|---|---|
| **Alert deduplication** `services/alert_service.py` | Redis key `alert:{route}:{user}:{schedule}`: per line `full_hash`, `status_hash`, time; TTL to the end of the window. `NotificationLog` rows | `_process_single_route`: schedule, disruptions, `_should_send_alert`, `detect_cleared_lines`, deliveries, commit, `_store_alert_state` | (m) stored state was said; a window starts fresh; a failure repeats at most one message; status changes reach the reader; nothing is repeated in a window |
| **Line state log** same file, `main.py` | Redis `line_state:{line}`, table `line_disruption_state_logs` | `_log_line_disruption_state_changes`, `warm_up_line_state_cache` | (m) each change is logged once; Redis agrees with the newest row; a lasting state is logged |
| **Alert run** same file, `celery/tasks.py` | one session, the statistics of the run | `process_all_routes`, `check_disruptions_and_alert` | (m) statistics are true; a skipped route is reported |
| **Route index** `services/user_route_index_service.py`, `celery/tasks.py` | `user_route_station_index` (line, station, version), soft-deleted rows | `build_route_station_index`, `rebuild_routes`, `find_stale_route_ids`, `detect_and_rebuild_stale_routes` | (m) one build per process; the first index is exact; what is found stale is rebuilt |
| **Route management** `services/user_route_service.py` | `user_routes`, `user_route_segments`, schedules; soft deletion | create, update, delete a route; `upsert_segments`, `update_segment`, `delete_segment`; schedules | (m) active segments are numbered 0, 1, ...; deletion is complete |
| **TfL service** `services/tfl_service.py` | tables `lines` (`last_updated`, `route_variants`), `stations`, `station_connections`; Redis caches | `fetch_lines`, `fetch_stations`, `build_station_graph`, `validate_route` | (m) connections of a line come from one network; an undisturbed build repairs what others left; graph, rows and lists converge; an alarm of changed metadata has a cause |
| **Route validation, station resolution** `helpers/`, `services/tfl_service.py` | none | `validate_route`, `resolve_station_or_hub`, `_resolve_station_for_line` | (m) exactly the journeys that can be travelled are accepted; what is accepted is indexed |
| **Disruption matching** `services/disruption_matching_service.py`, `helpers/disruption_helpers.py` | none | set operations on (line, station) | (m) who travels past a disruption is told; page and alert agree |
| **Contacts and verification** `services/verification_service.py`, `api/contacts.py` | contacts, codes, rate limits | add, verify, delete, set primary | (m) only addresses the person reads are verified and told; primaries, codes and failures exceed their limits by requests that overlap only |
| **Notification preferences** `services/notification_preference_service.py` | `notification_preferences` | create, update, delete | (m) duplicates and number bounded under concurrency; targets exist and belong to the user |
| **Notification delivery** `services/{notification,email,sms}_service.py` | none | render and send | I/O |
| **Authentication, accounts** `core/auth.py`, `services/auth_service.py` | JWKS cache, `users` | verify a token, get or create a user | (m) one live user per person |
| **Administration** `services/admin_service.py`, `api/admin.py` | as above | queries, anonymisation, triggers | (m) anonymisation is complete for a user without requests under way |
| **Celery worker** `celery/{app,database,schedules}.py` | one event loop and engine per process | tasks, beat | a task never uses another process's connections |
| **Core** `core/` | configuration, engine, Redis, telemetry | start-up | I/O |
| **Frontend polling** `frontend/src/lib/PollingCoordinator.ts`, `usePolling.ts` | registry of polls, timers, callbacks in flight | register, pause, resume, focus | (m) a running poll never dies; loops multiply only over an unfinished callback; nothing that needs a login is fetched without one |
| **Frontend authentication** `frontend/src/contexts/Backend*Context.tsx` | user, guard, availability | login, validate, clear | after a logout nobody is signed in |
| **Segment builder, schedule grid** `frontend/src/components/routes/` | reducers | pure state machines | a journey stays dense and acyclic; cells and schedules convert both ways |
| **Pages, API client; deployment** | none | rendering, I/O, one-shot scripts | |

### How they interact

* **Beat -> alert run -> alert deduplication.** The beat queues `check_disruptions_and_alert`
  every 30 s; a run may last 300 s, and `deploy/docker-compose.prod.yml` runs two worker
  processes: runs overlap. One session serves a whole run; Redis is shared by all.
* **Alert run -> line state log.** `_fetch_global_disruption_data` logs line states through
  the same session before the loop over the routes.
* **Web process -> Redis.** Its start hydrates `line_state:*` from the rows, whatever the workers do.
* **Route requests -> route index.** An edit rebuilds the index inside its own transaction.
* **Graph build -> detection -> rebuild tasks.** `build_station_graph` commits, its caller queues
  the detection, the detection queues one rebuild per stale route.
* **Route index -> alert deduplication.** Station disruptions reach a route through its index.
* **Contacts, preferences -> alert run.** Read when routes are loaded and when a message is sent.
* **Administrator -> account.** Anonymisation is one transaction against requests that were
  authenticated before it.
* **Metadata refresh, graph build, requests -> Redis lists.** Each fills or drops the same
  keys after its own commit; a starting web process fills them from the rows.

### What is hard

No component takes a lock. Redis and PostgreSQL are written one after the other without a
transaction over both; deliveries cannot be undone. Relationships load soft-deleted rows.
A rollback expires the objects of a shared session. `fetch_lines` commits a version before
the data it stands for. Every hazard is in `PROJECT.json` at its line, with the properties
that would catch it or a note why there is none.

## 2. Plan

| # | Module | Status |
|---|---|---|
| 1 | `AlertPromise` (abstract), `AlertDedup` (implements it), `AlertDedupProofs` | done |
| 2 | `LineStateLog`, `LineStateLogProofs` | done |
| 3 | `AlertPoll`, `RouteAlertsProofs` (second half) | done |
| 4 | `RouteIndex`, `RouteIndexProofs` | done |
| 5 | `StationGraph`, `StationGraphProofs`: the graph build on PostgreSQL | done |
| 6 | `ReferenceCache`, `ReferenceCacheProofs`: metadata and stations between TfL, PostgreSQL and Redis | done |
| 7 | `RouteRules`, `RouteAlertsProofs` (first half): validation, hub resolution, index, matching, against reference definitions | done |
| 8 | `UserAccount`, `UserAccountProofs`: contacts, verification, limits, preferences, anonymisation | done |
| 9 | `Polling`, `PollingProofs`: the coordinator of the frontend | done |
| 10 | station disruptions; `StationGraph` composed with `RouteIndex`; frontend login and segment builder | open |

Abstract specifications worth stating: `AlertPromise` (done); a set of stations per route, for
`RouteIndex` once segments are filtered; the last complete network, for `StationGraph`. Theorems
left: `AlertsKeepPromise` with failures, for a promise that allows one repetition for each; every
invariant the passing runs check is the subject of a theorem.

## 3. Modules

### AlertDedup

One (route, user, schedule). `store`/`expiry` are the Redis key and its expiry; an entry
holds the content that `full_hash` hashes (`Status` of it is what `status_hash` hashes) and
its time. `poll[w]` are the local variables of worker `w`, `pc[w]` where it is:

| Action | Code |
|---|---|
| `Begin` | `_get_active_routes`, `_get_active_schedule`, `_get_route_disruptions`: takes what TfL reports and the preferences |
| `Check` / `CheckFails` | `_should_send_alert` and `detect_cleared_lines`; the Redis error path |
| `Send` | the loop over preferences of the status update, then of the alert; any subset of the reachable ones succeeds |
| `Commit` / `CommitFails` | commit of the notification logs; the rollback that ends the run |
| `Get`, `Set` / `StoreFails` | `_update_alert_state_remove_cleared`, `_store_alert_state`: read, merge, SETEX |
| `Crash`, `Flush`, `Tick` | hard time limit or restart; loss of the key; the clock, expiry, start of a window |
| `Change`, `DeletePref`, `VerifyContact`, `DeleteContact` | TfL and the user |

`told`, `said`, `repeats` are history, read by no action. `Send` keeps one reader for all
preferences of a route: a message delivered to one counts as said, because `alerts_sent > 0`
is the only condition of the code. Days of the week are abstracted to one schedule a day.
When a line has disruptions that are cleared and others that are suppressed, the last one
in TfL's answer decides; its order is arbitrary, so `ClearedLines` is nondeterministic.

`AlertPromise` knows neither Redis nor polls: a status change is told at once, a new reason
after the cooldown, the same content not again in a window, a clearing only after an alert.
`KeepsPromise` maps `told` to it and is checked as a property.

### LineStateLog

`Begin`, `Read`, `Compare`, `Commit`, `Fail` are `_log_line_disruption_state_changes` line by
line of the network: the GET and the compare-and-SET are two steps, and the rows appear with the
commit. `WarmUp` and `Hydrate` are the web process. A poll's batch timestamp is later than all
before it; only the order of timestamps is modelled. The hash of a line is its state: collisions
are ignored. ADR 08 says only disruptions are logged; the code logs every state, and so does the module.

### AlertPoll

One run over all routes with the session they share. A failed commit (or a failed fetch or log
that rolls back) makes the session "expired": the next attribute of a loaded object is read
outside a greenlet and raises, which `Abandon` turns into the end of the loop. Content and
deduplication are left to `AlertDedup`; `Process` chooses which messages a route has.

### RouteIndex

One route on PostgreSQL at READ COMMITTED. Each request or task is a process: it opens a session
(`tx[p]` holds what it loaded and what it will write), builds the entries, soft-deletes the index
rows it sees (`Clear`) and commits everything at once (`Commit`), or not (`Rollback`, by the
partial unique index, the one row `update_segment` changes being gone, or a failure).

* `Replace`, `Open` + `Move`, `Open` + `Cut`, `DeleteRoute`, `Rebuild` are `upsert_segments`,
  `update_segment`, `delete_segment`, `delete_route` and `rebuild_routes` with a route.
  Requests that fail before they write anything are not steps.
* `get_route_by_id` assigns the active segments to a collection with `delete-orphan`: the
  soft-deleted rows it took out are removed for good at the next flush (`orphans`).
* The builder reads whatever the session has: after `upsert_segments` all rows of the route,
  soft-deleted ones too, with equal sequence numbers in any order (`InOrder`); after an edit
  the collection and the stations loaded before it.
* Rows that another request removed for good meanwhile stop only an UPDATE of one row
  (`Missing`): the DELETE of an orphan that is gone is a warning of SQLAlchemy, and the
  renumbering UPDATE of several rows, whose count asyncpg does not report, passes over them.
* `FetchLines` commits `last_updated` for every line; `StoreGraph` commits the variants later.
* `Detect` counts soft-deleted index rows too (`old`), as `find_stale_route_ids` does.
* A waiting UPDATE at READ COMMITTED checks its rows again once the other transaction ends and
  passes over those soft-deleted meanwhile; taking the victims at the start and soft-deleting
  those still there has the same outcome, so the wait is not a step. Graph builds do not overlap.
* A hub is one station standing for its members; `Unresolvable` is the `ValueError` of a
  hub without a station on the line.

### StationGraph

`build_station_graph` by any number of builders: `FetchLines`, then for each line `FetchStations`
and `CommitStations` (a commit each, with the calls for hubs between the read and the write), then
`StartDelete` and `Delete` (the UPDATE that soft-deletes all connections: its snapshot, and the wait for the
row locks of another build), `FetchInbound` and `FetchOutbound` for each line (two calls, between which TfL may
change its network; an error of a direction is swallowed and counts as empty), and the final `Commit`. `Refused` is the violation of a unique index:
`Station.tfl_id` for stations, the partial index of active connections for the commit.
`Updated` writes the list of lines it read, so that of two builds one line can be lost. A stored
route is its direction and its stops. Stations are never deleted. Of the builders one is the daily `Task`.

### ReferenceCache

One list per kind under one Redis key. `Refresh`, `Fetch`, `Upsert`, `Cache`, `Compare` are
`refresh_metadata_with_change_detection` kind by kind; `Request` starts the same three steps for a
web request that missed the cache. `Selected` models SQLAlchemy's identity map: the
session made with `expire_on_commit=False` keeps the objects loaded before the upsert, and the SELECT after it
does not overwrite them. `Build`/`Invalidate` is the part of the graph build that touches stations;
`List`, `WarmUp`/`Warm` fill lists from rows. Versions stand for descriptions; kinds whose upsert overwrites
nothing but a timestamp are not `Described`.

### RouteRules

One request at a time: `Validate` (`Judged` gives the first check that fails, and its segment),
`Store`, `BuildIndex`, and `Disrupt`, one status of TfL with the sections it names. Every operator is a
rule of the code; the properties compare them with `Travels`, a reference that knows places
and journeys only. The three networks are a usual one, one whose line serves both stations of a
hub, and a loop. Where the code's rules agree only under a condition, the property names it:
`Simple` (no variant calls twice at a station) and `OneOfHub` (a line serves one station of a hub); what
happens without it is in section 6. `FirstOf` is the station `select_station_from_candidates` takes, the
least in the order of ids. `RulesInit`, `RulesNext` and `RulesSpec` have names of their own because
`RouteAlertsProofs` extends this module and `AlertPoll`.

### UserAccount

One person. An operation that reads before it writes is two actions with the row ids it read in
`req[s]`; one that commits twice (a code and its log, a verification and the reset of the limit) is three.
Ids are used once. A code the person has received is `known`; he may enter it for any contact. A deleted contact may be
added again by the person under another id. That a change of the primary finds the contact and then looks for
the primaries is one step; its commit is the one UPDATE of up to two rows, which passes over a row deleted
meanwhile and writes the other (`Moved`). A code is entered by who has received it: that the six digits are not guessed
is assumed, as no limit of the code's counts attempts. `recent` and `logged` separate what the limit should
count from what `RateLimitLog` counts. `late` are users with a request under way at their anonymisation.

### Polling

A timer whose id the entry holds is `timer`; one whose id was overwritten is a stray and cannot be
cleared any more. `Finish` is the continuation after `await callback()`, which looks the key up again and so
schedules for whatever is registered then. A change of the login gives the context a new value, so
every poll unregisters and registers again in the effects that run before the provider's own.
Unavailability unmounts the whole tree, the coordinator included; timers of the old one find nothing in it.
`Logout` is the change of the state and the effects that follow it in one: a timer that is due between the two
in the browser may still fetch once.

## 4. Runs

| Run | Expect | Asks |
|---|---|---|
| `dedup_faults` | pass | one worker, seven kinds of report, two preferences, two changes, two failures: types, `StoredWasSaid`, `FreshWindow`, `OneRepeatPerFault` |
| `dedup_promise` | pass | two lines, two severities and two reasons, no failure: refinement of `AlertPromise`, and liveness `StatusReachesReader` |
| `log_faults` | pass | two lines, a failure, a restart: `RepeatsAreLosses`, `CacheIsNewest`; a lasting state is logged when nothing is lost |
| `poll_run` | pass | three routes, three failures: the statistics are true |
| `index_races` | pass | two processes, four requests, a failure, three journeys (one to a hub), no graph build: types, keys, `OneBuildPerProcess` |
| `index_live` | pass | one process, four journeys on a branching and a straight line, three requests, a graph build, a failure or lost message: dense sequence, complete deletion, exact first index, stale indexes rebuilt |
| `index_journey` | violation | the second index of a route mixes soft-deleted segments in |
| `graph_builds` | pass | two builders, two lines, two networks that may change between the two directions of a line, one error or swallowed error: `BuildsDoNotMix`, `CleanBuildRepairs`, `GraphConverges` |
| `reference_lists` | pass | a task and a web session, two kinds of metadata and the stations, a change, a fault: `AlarmsHaveCause`, `ListsConverge` |
| `rules_journeys` | pass | all requests of one to three segments over four stations, a hub and an unknown id, three networks: `RulesTypeOK`, `AcceptsJourneys`, `AcceptedIsIndexed`, `TravellersAreTold` |
| `account_requests` | pass | two requests at once, two users in turn, three contacts: `OnlyMineIsTold`, `RatesAreLimited`, `RacesAreBounded`, `NothingSurvives` |
| `polling_loops` | pass | a poll with login and one without, three registrations each: `LoopsAreCounted`, `LoggedOutIsQuiet`, `PollsRecur` |

Bounds. A window of four ticks in a day of six holds a message, its cooldown (two), the end and
the next window; one line suffices for repetition, two for the merge of the key. Two changes give
A, B, A, the shortest history a lost write confuses. Two failures let the repair of one be hit by
the next. Three routes are a route before, at and after a failure. Three edits are what a
leftover row needs: to arise, to be taken for an orphan, to be missed; with a fourth, at once with the third, the row
is gone when the later one commits: an orphan to delete, a row to renumber, the row to change. Three-stop journeys
allow a deletion, and network states `usual` and `works` differ in a variant two journeys use. Two builders
are what an overlap needs; the second network reroutes a line past a station that had no row, and
leaves the other line as it was. In `account_requests` each behaviour keeps to one of seven habits, sets of operations that touch the
same state: primaries; primaries that are deleted meanwhile; contacts that are deleted, with a stranger's address;
limits with time and crashes; anonymisation with alerts; preferences that move; preferences that are deleted, with alerts
and a stranger's address. A limit of one with two requests is the smallest that can be
exceeded; three contacts allow a deletion and an addition anew. `MaxMounts` of three is a registration, one over its
callback, and one over both. Deadlock checking is off for the modules that stop at their bounds or end
when a request is done, and on for `StationGraph`, `ReferenceCache` and `Polling`, where something is always possible.

`dedup_faults` and `dedup_promise` have one worker because with two the properties on repetition
are false (`NoRepeatBeforeEnd` in section 6); `StoredWasSaid` and `FreshWindow` hold for any number of
workers and are proved so.
`SequenceIsDense`, `DeletionIsComplete`, `FirstIndexIsExact` and `StaleIsRebuilt` hold only while
transactions do not overlap (`raced` remembers whether they did): an edit that overlaps a deletion
leaves active segments on the deleted route, and a rebuild that overlaps an edit brings the
old index back. In `index_live` no station is in a hub: a soft-deleted hub segment whose pair no longer
resolves makes every later rebuild fail, and what is stale stays so.

Fairness. `AlertDedup` and `LineStateLog`: weak fairness of a worker's steps, since the beat keeps
starting polls and a task runs until it ends; strong fairness of a delivery that succeeds, since providers
do not refuse for ever. Time need not pass. `RouteIndex`: weak fairness of a request in
progress (`Continue` or `Rollback`), of the worker taking detections and rebuilds, and of the second
half of a graph build; no request and no fetch need ever happen. `StationGraph`: weak fairness of the beat's
daily task and of each build under way; an administrator need never ask for one. `ReferenceCache`: strong fairness of the daily refresh and
build, which a busy worker only delays, weak fairness of steps under way and of Redis expiry. `Polling`:
weak fairness of due timers and of fetches, which end or fail. Crashes and losses are never fair.

## 5. Proofs

Theorems hold for every value of the constants that meets the assumptions named in the modules
(`SeverityAssumption`, `ReportAssumption`, `TimeAssumption`, `WorkerAssumption`, `RouteAssumption`,
`MetadataAssumption`, `ContinuityAssumption`, `JourneyAssumption`, `InputAssumption`, ...), all evaluated by TLC in the runs; a theorem that needs more
says so in its statement. Each rests on an inductive invariant with one lemma per action (`Init`, `Next`, then PTL).

| Theorem | Says | Argument |
|---|---|---|
| `AlertDedupProofs!TypeCorrect`, `LineStateLogProofs!LogTypes`, `RouteAlertsProofs!PollTypes` and `RulesTypes`, `RouteIndexProofs!IndexTypes`, `StationGraphProofs!GraphTypes`, `ReferenceCacheProofs!CacheTypes`, `UserAccountProofs!AccountTypes`, `PollingProofs!PollingTypes` | the type invariants, and what they say beside: a builder or a session that rests holds nothing, only a running poll has a timer, no two active segments have one number, a preference names a row of its live user, a verdict a segment of its request | `IndexTypes` needs that an id belongs to one row or to the rows one session will add, and that a commit is refused by the partial unique index |
| `AlertDedupProofs!StoredStateWasSaid` | Redis and status updates speak only of what was delivered, for any number of workers | `IInv` adds that each of the three sources of a write (the entry read back, the lines being alerted, what other workers stored) was delivered, and that a poll past its delivery delivered. The property alone is not inductive: it says nothing of what a worker read before and writes later |
| `AlertDedupProofs!WindowsStartFresh` | the state of a window is gone when the next one opens, for any number of workers and failures, if the window ends more than a poll's time limit before midnight (`Short`) | a poll began inside a window and writes within its limit, so on the same day (`Timely`): what is stored expires between the end of today's window and that end plus the limit (`IExpiry`). Without `Short` it is false (section 6) |
| `AlertDedupProofs!EachFaultRepeatsOnce` | one worker, `Short`: a line's messages that tell nothing new are at most the failures | `InOrder` relates what the reader was told, the key and the poll's locals at each step: they agree, or the poll carries what was told and will write it. A failure may put a line out of order, once; the repetition that follows puts it in order again. So repeats, plus one while a line is out of order, never exceed the failures |
| `AlertDedupProofs!AlertsKeepPromise` | one worker, `Short`, no failure: `AlertDedup` implements `AlertPromise` | without a failure no line is ever out of order, so what the code decides by its key the promise decides by what was told; the initial state maps to an initial state, `Tick` and a `Send` that delivers to steps, all else to stutters |
| `LineStateLogProofs!RepeatedRowsArePaidFor` | one worker: a line has at most one repeated row for each failure or start of the web process | a row repeats only if the hash in Redis, the one a comparison holds or one still to be hydrated is not that of the newest row. Such a debt is made by a failure or a start, moves from one place to the next, and is paid with the repeated row: repeats plus debts never exceed failures plus starts (`Owed`) |
| `LineStateLogProofs!RedisIsNewestRow` | one worker, no failure and no start: Redis has the hash of the newest row whenever the worker rests | then nothing is owed |
| `RouteAlertsProofs!SkipsAreReported` | no error counted, no route skipped | checked + to do = loaded as long as the loop runs |
| `RouteAlertsProofs!SentCountIsTrue`, `LostLogsAreFailedCommits` | `alerts_sent` and the logs agree with deliveries | the deliveries of the message in progress are neither committed nor counted |
| `RouteIndexProofs!BuildsOfDifferentProcesses` | at most one active build per process, for any number of them | a process about to commit has marked every build of its own that is there; others only add theirs |
| `RouteIndexProofs!SequenceStaysDense` | while no two transactions overlapped, the active segments are numbered 0, 1, ... and never exactly one, for journeys of any length | one process is busy, what an open edit has read is what is stored, what a built session will write is dense. `delete_segment` renumbers by counting the rows below a number: the numbers after it are those before without the last |
| `RouteIndexProofs!DeletionLeavesNothing` | while no two transactions overlapped, a deleted route has no active segment and no index entry | a session that clears has marked every build, and no session of a deleted route adds anything |
| `RouteIndexProofs!FirstJourneyIsIndexed` | while no two transactions overlapped, the index of a route requested once holds the stations `Travelled` counts on some network, and no other, for any network and journey | two facts about data, then an invariant. `ExpandIsTravelled`: what `_expand_segment_to_stations` cuts out of each variant is what the reference counts, in either direction and with stations called at twice. `OrderIsJourney`: rows with different numbers come in one order. The invariant (`Untouched`, `FirstJourney`) says that nothing exists before the first request, that rows and index are exact after it, and so is what any session under way will write; an edit that opens finds no rows, for it would be a second request |
| `RouteAlertsProofs!ValidationIsRight` | on a network without loops exactly the journeys that can be travelled are accepted | `JudgedIsRight`: the code's first index of any equivalent station (`PlaceIs`) stands for a position of every station of the place, because the station a hub resolves to has the hub's equivalents (`ResolveKeepsPlace`), and one variant with both places in order is a connection (`ConnectedIs`) |
| `RouteAlertsProofs!IndexIsBuilt` | the index of an accepted journey is built, and has both ends of each hop if a line serves one station of a hub | an accepted hop has a variant through both places, so each end has a station the line serves (`EndsExist`) and resolution never raises; with one station per hub it is the one the variant passes (`OnLineIsOne`), and `Between` spans the two (`IndexHasHop`) |
| `RouteAlertsProofs!PassersAreTold` | whoever travels past a disruption that can be read is alerted; the page shows nothing that is not alerted | what the traveller passes lies between the ends of a hop on a variant, and all of that is indexed (`IndexHasHop`); without stops the line of the hop is among the lines of the index |
| `StationGraphProofs!GraphSound` | while nothing was swallowed, a commit leaves the connections its build found and no other, however builds overlap and TfL changes | TfL's networks have a connection in common (`ContinuityAssumption`), which every build that reaches its commit has found and inserts. So any connections that are there include it, a build whose deletion missed another's commit meets it active and is refused (`CommitReplaces`), and a commit that is not refused replaces all of the graph |
| `StationGraphProofs!CleanBuildsRepair` | the commit of a build that met no other, no error and no change leaves TfL's graph, whatever was there before | such a build is the only one busy, so the rows it read are those there, each line done has all its stops' rows, its deletion covers every connection, and of each line answered it holds all connections and both directions (`Undisturbed`) |
| `ReferenceCacheProofs!QuietWithoutCause` | while TfL changes nothing, a refresh raises an alarm only if a kind was empty when it began, whatever overlaps it | each kind is stored whole and as served, or not at all, and so is what a refresh had loaded; what it has done with a kind equals what is served (`Calm`) |
| `UserAccountProofs!OnlyHisOwnAreTold` | only addresses the person reads are verified and alerted, for any number of requests, contacts and codes | the inductive invariant adds that a code he has read was sent to an address of his, that what a request remembers of its contact (the address a code goes to, that the row to verify is his) holds as long as the row is there, ids being used once, and that preferences and the requests that write them name contacts |
| `UserAccountProofs!NothingIsLeft` | of a user anonymised with no request under way nothing is left, and nothing comes back | a deleted user who is not `late` also has no request under way (`GoneIsForgotten`), and a request that begins is one of a live user (`Requesters`); a preference names a contact of its own user (`PrefsOwned`), so nobody else's request touches his |
| `UserAccountProofs!LimitsHold` | the counts behind the rate limits exceed them by less than the number of requests at once | what is counted and the requests that were let through and will add to it are counted together: the sum is below limit + sessions, since a request is let through only below the limit, and those let through are among the sessions |
| `UserAccountProofs!RacesStayBounded` | primaries of a kind, preferences for a contact and their number likewise | the same count over the rows there and the rows to be inserted or promoted (`PromotionsSound`, `PrimariesBounded`, `PrefsBounded`, `NamesBounded`) |
| `PollingProofs!LoopsCounted` | a running poll never dies out; loops multiply only over an unfinished callback or a stray timer, for any number of polls | `LoopsAreCounted` with the types is inductive: a step moves a loop between timer, stray and callback, and a registration pays for its new timer with an overlap when anything was left |
| `PollingProofs!QuietWhenLoggedOut` | after a logout no poll that needs a login calls the backend, but for the focus refresh scheduled before | such a poll is paused as long as nobody is logged in (`Paused`), and only a running one has a timer that fetches |

Only model-checked: liveness (`StatusReachesReader`, `StateIsLoggedUnlessLost`, `StaleIsRebuilt`, `GraphConverges`,
`ListsConverge`, `PollsRecur`), for which there is no proof support. The hypotheses of the theorems on one worker are those of the
runs: with two workers the properties are false.

Two ways of arguing recur. `InOrder` is a recursive function, and induction theorems cannot be used by the
installed provers: its value is taken by `CHOOSE`, so `InOrderUses` and `OrdersAgree` show that such a function exists
(a witness of the journey's prefixes) and that two of them agree everywhere, since they would differ at a least
place and agree just before it. That a set of numbers has a least element follows from the library's theorem that
inclusion of finite sets is well-founded (`LeastOfNat`). And the invariants of `RouteRules` say that what a step got is the value of an operator of `net` and
`request`, which no step changes, so that its properties are facts about operators (`JudgedIsRight`, `ValidIsAccepted`, `EndsExist`,
`IndexHasHop`), with no state in them.

## 6. Disagreements between code and documentation

The run `index_journey` is in `PROJECT.json` with the lines quoted. The modules state more
properties that comments and documents promise and the code does not keep. TLC finds each
violated when it is the one property of the run named, changed as given:

| Property | Instance | What happens | Said otherwise at |
|---|---|---|---|
| `AlertDedup!NoRepeatBeforeEnd` | `MCAlertDedup_faults` with `Worker = {w1, w2}`, `TaskLimit = 2`, `MaxFaults = 0`, `MaxChanges = 1`, `Horizon = 4` | GET, delivery and SETEX are not one step and two workers poll: both alert | `services/alert_service.py:1967` |
| `AlertDedup!DeletedNotLoaded` | `MCAlertDedup_faults` | `selectinload(UserRoute.notification_preferences)` loads soft-deleted preferences, which are notified for ever | `docs/adr/03-database.md:40` |
| `AlertDedup!NoStaleAcrossWindows` | `MCAlertDedup_faults` with one preference, `Day = 4`, `End = 3`, `Cooldown = 1`, `Horizon = 5`, `MaxChanges = 0`, `MaxFaults = 0` | the time to live is computed with the date of the write: a poll that ends after midnight stores its state until the end of the next window | `services/alert_service.py:2026` |
| `LineStateLog!StateIsLogged` | `MCLineStateLog_faults` | Redis has the hash before the commit; when that fails, the next poll finds no change | `services/alert_service.py:552` |
| `AlertPoll!RoutesAreIndependent` | `MCAlertPoll_run` | the rollback of one route's commit expires the others: the run ends | `services/alert_service.py:611` |
| `RouteIndex!NoHiddenStaleness` | `MCRouteIndex_live` with `MaxEdits = 1`, `MaxRefreshes = 2` | an index built between the two commits of a graph build has the new version and old variants | `celery/tasks.py:349` |
| `ReferenceCache!ChangesAreReported` | `MCReferenceCache_lists` | the refresh compares objects the session has kept with themselves: a changed description is never reported, and the list with the old one is cached | `services/tfl_service.py:1205` |
| `RouteRules!NoStationTwice` | `MCRouteRules_journeys` | a hub's code and the id of one of its stations are two ids, resolved to one station | `services/tfl_service.py:3257` |

Others met while modelling, reproduced with earlier instances or read off the code:

* A lost Redis write after an alert, then a return to the old status: the return equals the
  stored state and is never alerted.
* `is_time_in_schedule_window` includes the end, where the key has just expired: a poll of the
  last moment may alert again.
* After a Redis error in `_should_send_alert` a message without a line can be sent by SMS.
* The comment in `_store_alert_state` that disruptions that reappear have another `full_hash` does not hold: they
  have the same, and are taken for known until the line was cleared.
* Overlapping polls log a change twice; the warm-up may overwrite a newer hash.
* A failed logging of line states expires the loaded routes and so stops the run, although
  logging is said not to block; failures inside a run are swallowed, so the task's retry hardly ever runs.
* `delete_segment` validates nothing: the journey left need not be connected, and two at once leave
  fewer than two segments.
* On a loop `stations.index` finds the first call only: a hop to a station called at twice is refused,
  although the comment at `services/tfl_service.py:3661` allows it (`AcceptsJourneys` needs `Simple`).
* Where a line serves two stations of a hub, the first by id is stored and any (LIMIT 1 without ORDER BY)
  is indexed; a hop with no variant between those two is swallowed and never alerts, though the
  journey was accepted (`AcceptedIsIndexed` needs `OneOfHub`). An id that is a hub and repeats is answered
  with a 404 instead of a message of validation.
* A status of TfL without readable stops alerts by line; the page of the route shows nothing.
  One with a section that can be read and another that cannot is matched with the first only.
* When TfL changes its network between the inbound and the outbound call of a line, the line has the
  connections and routes of both until the next build; nothing reports it. With three networks the
  last of which is the first again, and builds that overlap, the routes of a line can stay those of the second while its connections
  are those of the third: SQLAlchemy writes no attribute that equals what the session loaded.
* A build whose every sequence fails commits an empty graph; a crash between the commit and the
  invalidation leaves old lists; `_rebuild_graph_async` swallows what the task's retry waits for.
* A refresh that failed half way loses or raises the alarm of its first part when it is retried.
* Two primaries, or two preferences for one contact, make later requests on them fail (`scalar_one_or_none`) until
  one is deleted. The primary's deletion makes no other contact primary.
* A request authenticated before an anonymisation can leave contacts, codes, preferences or an
  active route on the deleted user (`late`); the contact then blocks its address for the person's new
  account, which his old token creates. "This should never happen" in `create_user` happens when the user
  another request inserted is anonymised before the loser selects him.
* In the frontend a registration over an awaited callback (a login, changed options) leaves a second loop
  for good; a focus refresh runs after a pause or an unregister; the fetch that ends last wins; a
  validation in flight may sign a user in again after `clearAuth`.

## 7. Not modelled

Rendering and delivery of messages, wording, telemetry and configuration; schedules, names and time
zones of routes; the rebuild of all routes in one session; where the soft time limit is
caught (polls end by the hard limit); partial delivery among the preferences of one message, which
the code does not retry; station disruptions (`fetch_station_disruptions`), the network graph endpoint and the
grouping of stations by hub for lists; tokens and signing keys; the administrator's lists and
statistics, which only read; the login, segment builder and schedule grid of the frontend;
in `UserAccount` more than one route of a user. Hash collisions and clock skew between processes are ignored.
