------------------------------ MODULE AlertPoll ------------------------------
(* One run of check_disruptions_and_alert: AlertService.process_all_routes over *)
(* the active routes with the one database session they share, the statistics   *)
(* it returns, and the Celery task around it.  What an alert says and when it   *)
(* is due is AlertDedup's subject; here a message is a message.                 *)
EXTENDS Integers, FiniteSets

CONSTANTS
    Route,      \* active routes in the database
    MaxPrefs,   \* bound: deliveries per message
    MaxFaults   \* bound: failures

ASSUME RouteAssumption == IsFiniteSet(Route)
ASSUME BoundAssumption == {MaxPrefs, MaxFaults} \subseteq Nat

VARIABLES
    phase,      \* "load", "log", "routes", then "done" or "retry"
    session,    \* "live", or "expired": a rollback expired the loaded objects
    loaded,     \* routes _get_active_routes returned
    todo,       \* routes the loop has not reached
    cur,        \* stages left of the current route: a status update, an alert
    added,      \* notification logs added to the session, not committed
    count,      \* deliveries of the message being sent
    stats,      \* routes_checked, alerts_sent, errors
    committed,  \* notification logs in the database
    faults,
    delivered, failed   \* history: messages delivered; steps that failed

vars == <<phase, session, loaded, todo, cur, added, count, stats, committed,
          faults, delivered, failed>>

Stage == {"clear", "alert"}
Failure == {"load", "log", "fetch", "commit", "session"}

Init ==
    /\ phase = "load" /\ session = "live"
    /\ loaded = {} /\ todo = {} /\ cur = {} /\ added = 0 /\ count = 0
    /\ stats = [checked |-> 0, sent |-> 0, errors |-> 0]
    /\ committed = 0 /\ faults = 0 /\ delivered = 0 /\ failed = {}

Fails(what) == /\ faults < MaxFaults
               /\ faults' = faults + 1
               /\ failed' = failed \cup {what}
Works == UNCHANGED <<faults, failed>>

\* _get_active_routes: an SQL error yields no routes.
Load ==
    /\ phase = "load"
    /\ phase' = "log"
    /\ \/ Works /\ loaded' = Route
       \/ Fails("load") /\ UNCHANGED loaded
    /\ todo' = loaded'
    /\ UNCHANGED <<session, cur, added, count, stats, committed, delivered>>

\* _fetch_global_disruption_data.  Fetching the lines or logging their states may
\* fail; most of these failures roll the session back, and all are swallowed.
FetchGlobal ==
    /\ phase = "log"
    /\ phase' = "routes"
    /\ \/ Works /\ UNCHANGED session
       \/ Fails("log") /\ session' \in {"live", "expired"}
    /\ UNCHANGED <<loaded, todo, cur, added, count, stats, committed, delivered>>

\* Slip: giving the run up is not counted as an error.
AbandonQuietly ==
    /\ phase = "routes" /\ session = "expired"
    /\ cur # {} \/ todo # {}
    /\ phase' = "done"
    /\ UNCHANGED <<session, loaded, todo, cur, added, count, stats, committed, delivered, faults, failed>>

\* An attribute of an expired object cannot be read outside a greenlet: the
\* exception leaves the loop, process_all_routes counts it and returns.
Abandon ==
    /\ phase = "routes"
    /\ session = "expired"
    /\ cur # {} \/ todo # {}
    /\ phase' = "done"
    /\ stats' = [stats EXCEPT !.checked = IF cur = {} THEN @ + 1 ELSE @,
                              !.errors = @ + 1]
    /\ UNCHANGED <<session, loaded, todo, cur, added, count, committed, delivered, faults, failed>>

\* _process_single_route up to the messages it has to send, if any: the route
\* may be out of its schedule or have nothing new; its disruptions may be
\* impossible to fetch, which counts as an error of the route, or, when the
\* fetch rolled the session back, ends the run as Abandon does.
Process(r, stages) ==
    /\ phase = "routes" /\ session = "live" /\ cur = {}
    /\ r \in todo
    /\ todo' = todo \ {r}
    /\ \/ Works /\ cur' = stages
          /\ stats' = [stats EXCEPT !.checked = @ + 1]
          /\ UNCHANGED <<phase, session>>
       \/ Fails("fetch") /\ cur' = {}
          /\ stats' = [stats EXCEPT !.checked = @ + 1, !.errors = @ + 1]
          /\ \/ UNCHANGED <<phase, session>>
             \/ phase' = "done" /\ session' = "expired"
    /\ UNCHANGED <<loaded, added, count, committed, delivered>>

\* The status update goes before the alert.
First(stages) == IF "clear" \in stages THEN "clear" ELSE "alert"

\* Deliver to one more preference: add its log (_create_notification_log).
Deliver ==
    /\ phase = "routes" /\ session = "live" /\ cur # {}
    /\ added < MaxPrefs
    /\ added' = added + 1
    /\ \/ delivered' = delivered + 1 /\ count' = count + 1
       \/ UNCHANGED <<delivered, count>>          \* FAILED is logged too
    /\ UNCHANGED <<phase, session, loaded, todo, cur, stats, committed, faults, failed>>

\* Slips of Commit: the counter is not reset for the next message; what could not
\* be committed counts all the same; the logs of a status update are not
\* committed.
CommitKeepsCount ==
    /\ phase = "routes" /\ session = "live" /\ cur # {}
    /\ cur' = cur \ {First(cur)}
    /\ added' = 0
    /\ committed' = committed + added
    /\ Works
    /\ UNCHANGED <<phase, session, loaded, todo, count, stats, delivered>>
CommitCountsLost ==
    /\ phase = "routes" /\ session = "live" /\ cur # {}
    /\ cur' = cur \ {First(cur)}
    /\ added' = 0 /\ count' = 0
    /\ stats' = [stats EXCEPT !.sent = @ + count]
    /\ Fails("commit") /\ session' = "expired"
    /\ UNCHANGED <<phase, loaded, todo, committed, delivered>>
CommitAlertsOnly ==
    /\ phase = "routes" /\ session = "live" /\ cur # {}
    /\ cur' = cur \ {First(cur)}
    /\ added' = 0 /\ count' = 0
    /\ committed' = IF First(cur) = "alert" THEN committed + added ELSE committed
    /\ stats' = [stats EXCEPT !.sent = IF First(cur) = "alert" THEN @ + count ELSE @]
    /\ Works
    /\ UNCHANGED <<phase, session, loaded, todo, delivered>>

\* Commit the logs.  Only alerts count as alerts_sent; when the commit fails the
\* session is rolled back and the message counts for nothing.
Commit ==
    /\ phase = "routes" /\ session = "live" /\ cur # {}
    /\ cur' = cur \ {First(cur)}
    /\ added' = 0 /\ count' = 0
    /\ \/ /\ Works
          /\ committed' = committed + added
          /\ stats' = [stats EXCEPT !.sent = IF First(cur) = "alert" THEN @ + count ELSE @]
          /\ UNCHANGED session
       \/ Fails("commit") /\ session' = "expired" /\ UNCHANGED <<committed, stats>>
    /\ UNCHANGED <<phase, loaded, todo, delivered>>

\* Returning the statistics ends the task with status "success".
Return ==
    /\ phase = "routes" /\ cur = {} /\ todo = {}
    /\ phase' = "done"
    /\ UNCHANGED <<session, loaded, todo, cur, added, count, stats, committed,
                   delivered, faults, failed>>

\* The session cannot be made or closed: the only failures the task retries.
Retry ==
    /\ phase \in {"load", "done"}
    /\ phase' = "retry"
    /\ Fails("session")
    /\ UNCHANGED <<session, loaded, todo, cur, added, count, stats, committed, delivered>>

Run == \/ Load \/ FetchGlobal \/ Abandon \/ Deliver \/ Commit \/ Return
       \/ \E r \in Route, stages \in SUBSET Stage : Process(r, stages)
Next == Run \/ Retry

Spec == Init /\ [][Next]_vars

------------------------------------------------------------------------------
TypeOK ==
    /\ phase \in {"load", "log", "routes", "done", "retry"}
    /\ session \in {"live", "expired"}
    /\ loaded \in SUBSET Route /\ todo \subseteq loaded
    /\ cur \subseteq Stage
    /\ added \in 0..MaxPrefs /\ count \in 0..added
    /\ stats \in [checked : Nat, sent : Nat, errors : Nat]
    /\ committed \in Nat /\ delivered \in Nat
    /\ faults \in 0..MaxFaults /\ failed \subseteq Failure

\* A run that leaves a route it loaded unprocessed says so in its errors.
NoSilentSkip ==
    phase = "done" /\ stats.errors = 0 => todo = {} /\ stats.checked = Cardinality(loaded)

\* alerts_sent never claims a message that was not delivered or whose log is
\* not in the database.
SentIsLogged == stats.sent <= committed /\ stats.sent <= delivered

\* A delivered message without a log in the database comes from a failed commit.
DeliveredIsLogged ==
    phase = "done" /\ "commit" \notin failed => delivered <= committed

\* A route whose messages cannot be logged is an error of that route: "Process
\* each route individually" (process_all_routes).
RoutesAreIndependent ==
    phase = "done" /\ failed = {"commit"} => stats.checked = Cardinality(Route)

==============================================================================
