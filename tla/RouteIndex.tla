------------------------------ MODULE RouteIndex ------------------------------
(* One route, its segments and the inverted index (line, station) -> route that *)
(* decides which disruptions reach it: UserRouteService and                     *)
(* UserRouteIndexService on PostgreSQL (READ COMMITTED, one session per request *)
(* or task), the graph build that refreshes the lines, and the tasks that       *)
(* detect and rebuild stale indexes.  Rows are soft-deleted, never removed,     *)
(* except where the ORM removes them.                                           *)
EXTENDS SequencesExt

CONSTANTS
    Line, Station,
    None,          \* the line of a destination segment
    Network,       \* states of TfL's network
    Variants,      \* of each network and line: its route variants
    InHub,         \* stations that belong to a hub
    Serves,        \* of each line: the stations that say it serves them
    Journey,       \* valid journeys: sequences of [at, line]
    Proc,          \* web requests and workers that may run at once
    MaxEdits,      \* bound: requests
    MaxRefreshes,  \* bound: fetches of the lines
    MaxFaults      \* bound: rollbacks, crashes, lost messages

Stop == [at : Station, line : Line \cup {None}]
MIN_ROUTE_SEGMENTS == 2
MAX_ROUTE_SEGMENTS == 20
ASSUME JourneyAssumption ==
    /\ Journey \subseteq Seq(Stop)
    /\ \A j \in Journey : Len(j) >= MIN_ROUTE_SEGMENTS /\ Len(j) <= MAX_ROUTE_SEGMENTS
    /\ None \notin Line
ASSUME NetworkAssumption == Variants \in [Network -> [Line -> SUBSET Seq(Station)]]
ASSUME BoundAssumption == {MaxEdits, MaxRefreshes, MaxFaults} \subseteq Nat

VARIABLES
    route,      \* "live" or "deleted"
    segs,       \* committed UserRouteSegment rows, soft-deleted ones too
    index,      \* active UserRouteStationIndex rows, by the build that wrote them
    old,        \* versions of the soft-deleted index rows
    net,        \* committed Line.route_variants
    version,    \* Line.last_updated
    graph,      \* the graph build: "idle", or "fetched" its lines
    detect,     \* detect_and_rebuild_stale_routes is queued
    jobs,       \* rebuild_route_indexes tasks queued
    pc, tx,     \* of each process: the next step and the session of its request
    ids,        \* primary keys given out
    edits, refreshes, faults,
    raced       \* history: two transactions overlapped, or one and a detection

lines  == <<net, version, graph, refreshes>>
queues == <<detect, jobs>>
tables == <<route, segs, index, old>>
vars == <<route, segs, index, old, net, version, graph, detect, jobs, pc, tx, ids,
          edits, refreshes, faults, raced>>

Row == [id : Nat, seq : Nat, at : Station, line : Line \cup {None}, dead : BOOLEAN]
Entry == [line : Line, station : Station, version : Nat]
Build == [id : Nat, by : Proc, entries : SUBSET Entry]

Active(rows) == {r \in rows : ~r.dead}
Ids(rows) == {r.id : r \in rows}

------------------------------------------------------------------------------
\* _expand_segment_to_stations: the stations between two stops, both included, on
\* every variant of the line that has both.
Between(from, to, stations) ==
    LET first(s) == Min({k \in DOMAIN stations : stations[k] = s})
    IN  IF {from, to} \subseteq Range(stations)
        THEN {stations[k] : k \in Min({first(from), first(to)}) .. Max({first(from), first(to)})}
        ELSE {}

\* _resolve_station_for_line raises when no station of the hub serves the line.
Unresolvable(stops) ==
    \E i \in 1 .. Len(stops) - 1 :
       /\ stops[i].line # None
       /\ \E s \in {stops[i].at, stops[i + 1].at} \cap InHub : s \notin Serves[stops[i].line]

\* Slip: the last pair is forgotten.
ExpandButLast(stops, n, v) ==
    UNION {{[line |-> stops[i].line, station |-> s, version |-> v] :
               s \in UNION {Between(stops[i].at, stops[i + 1].at, stations) :
                               stations \in Variants[n][stops[i].line]}} :
           i \in {k \in 1 .. Len(stops) - 2 : stops[k].line # None}}

\* _process_segments: every pair of consecutive segments is expanded on the line
\* of the first; a pair no variant has contributes nothing.
Expand(stops, n, v) ==
    UNION {{[line |-> stops[i].line, station |-> s, version |-> v] :
               s \in UNION {Between(stops[i].at, stops[i + 1].at, stations) :
                               stations \in Variants[n][stops[i].line]}} :
           i \in {k \in 1 .. Len(stops) - 1 : stops[k].line # None}}

\* UserRoute.segments: all rows, soft-deleted ones too, ordered by sequence alone;
\* rows with one sequence number come in any order.
Places == 0 .. Max({Len(j) : j \in Journey})
InOrder(rows) ==
    LET upto[n \in Places] ==
          IF n = 0 THEN {<<>>}
          ELSE {s \o t : s \in upto[n - 1], t \in SetToSeqs({r \in rows : r.seq = n - 1})}
    IN  upto[Max(Places)] \cap Seq(rows)

------------------------------------------------------------------------------
\* A session: the segments it loaded and the soft-deleted ones it took out of the
\* collection, the network it read; the rows it soft-deletes, changes, adds and
\* removes; the index entries it builds and the builds it soft-deletes.
NoTx == [kind |-> "none", loaded |-> {}, orphans |-> {}, net |-> CHOOSE n \in Network : TRUE, version |-> 0,
         kill |-> {}, move |-> <<>>, renumber |-> <<>>, add |-> {}, entries |-> {}, victims |-> {}]

Init ==
    /\ route = "live" /\ segs = {} /\ index = {} /\ old = {}
    /\ net \in Network /\ version = 1 /\ graph = "idle"
    /\ detect = FALSE /\ jobs = 0
    /\ pc = [p \in Proc |-> "idle"]
    /\ tx = [p \in Proc |-> NoTx]
    /\ ids = 0 /\ edits = 0 /\ refreshes = 0 /\ faults = 0 /\ raced = FALSE

Go(p, step, t) == pc' = [pc EXCEPT ![p] = step] /\ tx' = [tx EXCEPT ![p] = t]
Close(p) == pc' = [pc EXCEPT ![p] = "idle"] /\ tx' = [tx EXCEPT ![p] = NoTx]
Overlaps(p) == raced' = (raced \/ \E q \in Proc \ {p} : pc[q] # "idle")

Request == edits < MaxEdits /\ edits' = edits + 1
Session == [NoTx EXCEPT !.net = net, !.version = version]

\* The index service reads the segments in some order and builds its entries.  A
\* request that fails here changes nothing and is not a step.
Built(t, stops) == [t EXCEPT !.entries = Expand(stops, t.net, t.version)]

\* upsert_segments: soft-delete the active segments, add the new ones, flush, and
\* build from all rows of the route.
Replace(p, j) ==
    /\ pc[p] = "idle" /\ route = "live" /\ Request
    /\ LET add == {[id |-> ids + i, seq |-> i - 1, at |-> j[i].at, line |-> j[i].line,
                    dead |-> FALSE] : i \in DOMAIN j}
       IN \E stops \in InOrder(segs \cup add) :
            /\ ~Unresolvable(stops)
            /\ Go(p, "built", Built([Session EXCEPT !.kind = "replace", !.add = add,
                                       !.kill = Ids(Active(segs))], stops))
    /\ ids' = ids + Len(j)
    /\ Overlaps(p)
    /\ UNCHANGED <<tables, lines, queues, faults>>

\* get_route_by_id for update_segment and delete_segment: load the segments and
\* their stations and lines, then assign the active ones to the collection, which
\* makes the soft-deleted ones orphans: the next flush removes them.
Open(p) ==
    /\ pc[p] = "idle" /\ route = "live" /\ Request
    /\ Go(p, "open", [Session EXCEPT !.kind = "edit", !.loaded = Active(segs),
                                     !.orphans = Ids(segs \ Active(segs))])
    /\ Overlaps(p)
    /\ UNCHANGED <<tables, lines, queues, ids, faults>>

\* Validation fails, or there is no such segment.
Reject(p) ==
    /\ pc[p] = "open"
    /\ Close(p)
    /\ UNCHANGED <<tables, lines, queues, ids, edits, faults, raced>>

\* update_segment: set the new station or line of one segment.  The build reads
\* the stations and lines the session loaded before.
Move(p, j) ==
    /\ pc[p] = "open" /\ route = "live"
    /\ LET t == tx[p]
           here(r) == r.seq + 1 \in DOMAIN j /\ j[r.seq + 1] = [at |-> r.at, line |-> r.line]
       IN /\ Len(j) = Cardinality(t.loaded)
          /\ \E r \in t.loaded :
               /\ ~here(r) /\ r.seq + 1 \in DOMAIN j /\ \A s \in t.loaded \ {r} : here(s)
               /\ j[r.seq + 1].line = None => r.line = None
               /\ \E stops \in InOrder(t.loaded) :
                    /\ ~Unresolvable(stops)
                    /\ Go(p, "built", Built([t EXCEPT !.move = [i \in {r.id} |-> j[r.seq + 1]]], stops))
    /\ UNCHANGED <<tables, lines, queues, ids, edits, faults, raced>>

\* Slip: the segments that stay keep their sequence numbers.
CutKeepsNumbers(p, r) ==
    /\ pc[p] = "open" /\ route = "live"
    /\ r \in tx[p].loaded /\ Cardinality(tx[p].loaded) > 2
    /\ \E stops \in InOrder(tx[p].loaded) :
          /\ ~Unresolvable(stops)
          /\ Go(p, "built", Built([tx[p] EXCEPT !.kill = {r.id}], stops))
    /\ UNCHANGED <<tables, lines, queues, ids, edits, faults, raced>>

\* delete_segment: soft-delete one of at least three, renumber the others.  The
\* one deleted is still in the collection the build reads.
Cut(p, r) ==
    /\ pc[p] = "open" /\ route = "live"
    /\ LET t == tx[p]
           rest == t.loaded \ {r}
           rank(s) == Cardinality({x \in rest : x.seq < s.seq})
       IN /\ r \in t.loaded /\ Cardinality(t.loaded) > MIN_ROUTE_SEGMENTS
          /\ \E stops \in InOrder(t.loaded) :
               /\ ~Unresolvable(stops)
               /\ Go(p, "built",
                     Built([t EXCEPT !.kill = {r.id},
                                     !.renumber = [i \in Ids(rest) |->
                                        rank(CHOOSE s \in rest : s.id = i)]], stops))
    /\ UNCHANGED <<tables, lines, queues, ids, edits, faults, raced>>

\* delete_route: soft-delete the segments; the index and the route follow.
DeleteRoute(p) ==
    /\ pc[p] = "idle" /\ route = "live" /\ Request
    /\ Go(p, "built", [NoTx EXCEPT !.kind = "delete", !.kill = Ids(Active(segs))])
    /\ Overlaps(p)
    /\ UNCHANGED <<tables, lines, queues, ids, faults>>

\* rebuild_routes for this route, as a queued task or for an administrator.  A
\* failure is counted in the result and the task is not retried.
Rebuild(p, queued) ==
    /\ pc[p] = "idle"
    /\ IF queued THEN jobs > 0 /\ jobs' = jobs - 1 /\ UNCHANGED edits
                 ELSE Request /\ UNCHANGED jobs
    /\ \E stops \in InOrder(segs) :
          IF route = "live" /\ ~Unresolvable(stops)
          THEN /\ Go(p, "built", Built([Session EXCEPT !.kind = "rebuild"], stops))
               /\ Overlaps(p)
          ELSE UNCHANGED <<pc, tx, raced>>
    /\ UNCHANGED <<tables, lines, detect, ids, faults>>

\* Slip: nothing is soft-deleted before the new entries.
ClearNothing(p) ==
    /\ pc[p] = "built"
    /\ Go(p, "cleared", tx[p])
    /\ UNCHANGED <<tables, lines, queues, ids, edits, faults, raced>>

\* _delete_existing_index: the UPDATE takes the rows committed when it starts.  If
\* another transaction holds them it waits, and then passes over those that are
\* soft-deleted by now; rows added meanwhile it does not see.
Clear(p) ==
    /\ pc[p] = "built"
    /\ Go(p, "cleared", [tx[p] EXCEPT !.victims = {b.id : b \in index}])
    /\ UNCHANGED <<tables, lines, queues, ids, edits, faults, raced>>

\* The segments after the transaction.  Changed columns are written by primary
\* key, whether the row is soft-deleted or not; a row that is gone stays so.
Written(t) ==
    {[id   |-> r.id,
      seq  |-> IF r.id \in DOMAIN t.renumber THEN t.renumber[r.id] ELSE r.seq,
      at   |-> IF r.id \in DOMAIN t.move THEN t.move[r.id].at ELSE r.at,
      line |-> IF r.id \in DOMAIN t.move THEN t.move[r.id].line ELSE r.line,
      dead |-> r.dead \/ r.id \in t.kill] : r \in {r \in segs : r.id \notin t.orphans}} \cup t.add

\* The one row that update_segment changes is gone: a flush checks the row count of an
\* UPDATE of one row only.  Those of the renumbering, always two at least, and the DELETE
\* of the orphans pass over rows that are gone.
Missing(t) == ~(DOMAIN t.move \subseteq Ids(segs))

\* Slip: no unique index.
ConflictOfKeys(t) == Missing(t)

\* The unique index on (route_id, sequence) of active rows, and StaleDataError.
Conflict(t) ==
    \/ \E r, s \in Active(Written(t)) : r.id # s.id /\ r.seq = s.seq
    \/ Missing(t)

\* Slip: delete_route leaves the index alone.
CommitKeepsIndex(p) ==
    /\ pc[p] = "cleared" /\ ~Conflict(tx[p])
    /\ LET t == tx[p]
           stay == {b \in index : b.id \notin t.victims \/ t.kind = "delete"}
       IN /\ segs' = Written(t)
          /\ route' = IF t.kind = "delete" THEN "deleted" ELSE route
          /\ old' = old \cup {e.version : e \in UNION {b.entries : b \in index \ stay}}
          /\ index' = IF t.entries = {} THEN stay
                      ELSE stay \cup {[id |-> ids + 1, by |-> p, entries |-> t.entries]}
    /\ ids' = ids + 1
    /\ Close(p)
    /\ UNCHANGED <<lines, queues, edits, faults, raced>>

\* Everything the session wrote appears at once.
Commit(p) ==
    /\ pc[p] = "cleared" /\ ~Conflict(tx[p])
    /\ LET t == tx[p]
           stay == {b \in index : b.id \notin t.victims}
       IN /\ segs' = Written(t)
          /\ route' = IF t.kind = "delete" THEN "deleted" ELSE route
          /\ old' = old \cup {e.version : e \in UNION {b.entries : b \in index \ stay}}
          /\ index' = IF t.entries = {} THEN stay
                      ELSE stay \cup {[id |-> ids + 1, by |-> p, entries |-> t.entries]}
    /\ ids' = ids + 1
    /\ Close(p)
    /\ UNCHANGED <<lines, queues, edits, faults, raced>>

\* Nothing of it does: the database refuses it, or the connection or the process
\* is lost.  A task that dies is not run again.
Rollback(p) ==
    /\ \/ pc[p] = "cleared" /\ Conflict(tx[p]) /\ UNCHANGED faults
       \/ pc[p] # "idle" /\ faults < MaxFaults /\ faults' = faults + 1
    /\ Close(p)
    /\ UNCHANGED <<tables, lines, queues, ids, edits, raced>>

------------------------------------------------------------------------------
\* fetch_lines without the cache commits last_updated = now for every line: for a
\* web request, or as the first step of build_station_graph.
FetchLines ==
    /\ refreshes < MaxRefreshes
    /\ refreshes' = refreshes + 1
    /\ version' = version + 1
    /\ graph' \in {graph, "fetched"}
    /\ UNCHANGED <<net, tables, queues, pc, tx, ids, edits, faults, raced>>

\* The rest of build_station_graph commits the route variants; the caller queues
\* the detection.
StoreGraph ==
    /\ graph = "fetched"
    /\ graph' = "idle"
    /\ net' \in Network
    /\ detect' = TRUE
    /\ UNCHANGED <<version, refreshes, tables, jobs, pc, tx, ids, edits, faults, raced>>

\* Slip: one version behind is not stale.
DetectLate ==
    /\ detect /\ detect' = FALSE
    /\ jobs' = IF \E v \in old \cup {e.version : e \in UNION {b.entries : b \in index}} : v < version - 1
               THEN jobs + 1 ELSE jobs
    /\ raced' = (raced \/ \E p \in Proc : pc[p] # "idle")
    /\ UNCHANGED <<tables, lines, pc, tx, ids, edits, faults>>

\* detect_and_rebuild_stale_routes: find_stale_route_ids asks for index rows with
\* line_data_version < last_updated, soft-deleted ones included.
Detect ==
    /\ detect /\ detect' = FALSE
    /\ jobs' = IF \E v \in old \cup {e.version : e \in UNION {b.entries : b \in index}} : v < version
               THEN jobs + 1 ELSE jobs
    /\ raced' = (raced \/ \E p \in Proc : pc[p] # "idle")
    /\ UNCHANGED <<tables, lines, pc, tx, ids, edits, faults>>

\* The graph build fails and is rolled back; a message to a worker is lost.
Lose ==
    /\ faults < MaxFaults
    /\ faults' = faults + 1
    /\ \/ graph = "fetched" /\ graph' = "idle" /\ UNCHANGED queues
       \/ detect /\ detect' = FALSE /\ UNCHANGED <<graph, jobs>>
       \/ jobs > 0 /\ jobs' = jobs - 1 /\ UNCHANGED <<graph, detect>>
    /\ UNCHANGED <<net, version, refreshes, tables, pc, tx, ids, edits, raced>>

Continue(p) == \/ Reject(p) \/ Clear(p) \/ Commit(p) \/ Rebuild(p, TRUE)
               \/ \E j \in Journey : Move(p, j)
               \/ \E r \in tx[p].loaded : Cut(p, r)
Start(p) == \/ Open(p) \/ DeleteRoute(p) \/ Rebuild(p, FALSE)
            \/ \E j \in Journey : Replace(p, j)

Next == \/ \E p \in Proc : Start(p) \/ Continue(p) \/ Rollback(p)
        \/ FetchLines \/ StoreGraph \/ Detect \/ Lose

Spec == Init /\ [][Next]_vars

\* A request in progress goes on, the worker takes its tasks, a graph build ends.
Fairness == /\ WF_vars(Detect) /\ WF_vars(StoreGraph)
            /\ \A p \in Proc : WF_vars(Continue(p) \/ Rollback(p))
FairSpec == Spec /\ Fairness

------------------------------------------------------------------------------
Tx == [kind : {"none", "replace", "edit", "delete", "rebuild"},
       loaded : SUBSET Row, orphans : SUBSET Nat, net : Network, version : Nat,
       kill : SUBSET Nat, add : SUBSET Row, entries : SUBSET Entry, victims : SUBSET Nat]

TypeOK ==
    /\ route \in {"live", "deleted"}
    /\ segs \in SUBSET Row
    /\ \A r, s \in segs : r.id = s.id => r = s
    /\ \A r, s \in Active(segs) : r.seq = s.seq => r = s
    /\ index \in SUBSET Build /\ old \in SUBSET Nat
    /\ net \in Network /\ version \in Nat /\ graph \in {"idle", "fetched"}
    /\ detect \in BOOLEAN /\ jobs \in Nat
    /\ pc \in [Proc -> {"idle", "open", "built", "cleared"}]
    /\ DOMAIN tx = Proc
    /\ \A p \in Proc : [f \in DOMAIN NoTx \ {"move", "renumber"} |-> tx[p][f]] \in Tx
    /\ ids \in Nat /\ edits \in 0..MaxEdits /\ refreshes \in 0..MaxRefreshes
    /\ faults \in 0..MaxFaults /\ raced \in BOOLEAN

Settled == \A p \in Proc : pc[p] = "idle"
Indexed == UNION {{<<e.line, e.station>> : e \in b.entries} : b \in index}
Current == Active(segs)

\* Reference: a station of a line is travelled on j if some pair of stops on the line
\* is on a variant on which the station stands between their first occurrences.
Travelled(j, n) ==
    {e \in Line \X Station :
       \E i \in 1 .. Len(j) - 1 : j[i].line = e[1] /\ \E v \in Variants[n][e[1]] :
          \E a, b, k \in DOMAIN v :
             /\ {v[a], v[b]} = {j[i].at, j[i + 1].at} /\ a <= k /\ k <= b /\ v[k] = e[2]
             /\ \A c \in DOMAIN v : v[c] \in {v[a], v[b]} => c >= a /\ (v[c] = v[b] => c >= b)}
IsJourney(j) == {<<r.seq + 1, r.at, r.line>> : r \in Current}
                   = {<<i, j[i].at, j[i].line>> : i \in DOMAIN j}

\* Two processes that write the index at once leave entries of both, for no lock
\* and no constraint keeps one out; but never two builds of one process, so a
\* route has at most as many builds as processes and one rebuild alone heals it.
OneBuildPerProcess == \A a, b \in index : a.by = b.by => a = b

\* When no two transactions overlap, the active segments of a route are numbered
\* 0, 1, ... and are at least two: what validation, the expansion and the screens
\* rely on.
SequenceIsDense ==
    ~raced => /\ {r.seq : r \in Current} = 0 .. Cardinality(Current) - 1
              /\ Cardinality(Current) # 1

\* ... and a deleted route leaves no active segment or index entry: the cascade
\* that delete_route replaces is complete.
DeletionIsComplete ==
    route = "deleted" /\ ~raced => Current = {} /\ index = {}

\* ... and the first journey of a route is indexed exactly: the stations of its
\* segment pairs on the network of the build, whatever graph builds and rebuilds
\* come between.
FirstIndexIsExact ==
    route = "live" /\ ~raced /\ edits <= 1 /\ Current # {} =>
       \E n \in Network, j \in Journey : IsJourney(j) /\ Indexed = Travelled(j, n)

\* "One row per station in each user's journey (expanded from sparse
\* route_segments)" (UserRouteStationIndex), after every request.
IndexIsJourney ==
    route = "live" /\ ~raced /\ Settled /\ Current # {} =>
       \E j \in Journey : IsJourney(j) /\ \E n \in Network : Indexed = Travelled(j, n)

\* The index a graph build made wrong is rebuilt: the detection "ensures route
\* station indexes stay accurate as TfL line data changes"
\* (detect_and_rebuild_stale_routes).
NoHiddenStaleness ==
    /\ route = "live" /\ ~raced /\ faults = 0 /\ edits <= 1 /\ Current # {}
    /\ Settled /\ graph = "idle" /\ ~detect /\ jobs = 0
    => \E j \in Journey : IsJourney(j) /\ Indexed = Travelled(j, net)

\* Liveness: what a detection finds to be behind the lines is rebuilt from lines
\* at least as new, if nothing fails or overlaps.
StaleIsRebuilt ==
    [](~raced /\ faults = 0) =>
       \A v \in 1 .. MaxRefreshes + 1 :
          (detect /\ version = v) ~>
             (route = "deleted" \/ \A b \in index : \A e \in b.entries : e.version >= v)

===============================================================================
