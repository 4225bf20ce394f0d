----------------------------- MODULE StationGraph -----------------------------
(* The graph of stations that routes are validated on: TfLService builds it from *)
(* TfL's answers in one long request or task (build_station_graph), and commits  *)
(* the stations of each line on the way and the connections at the end.  Builds  *)
(* may overlap: the daily task and the administrator's request take no lock but  *)
(* the row locks of PostgreSQL (READ COMMITTED).  Connections are soft-deleted;  *)
(* only active rows are here.  The Redis lists are in ReferenceCache.            *)
EXTENDS Integers, Sequences

CONSTANTS
    Line, Station,
    Network,      \* TfL's successive networks: of each line, its stations in order
    Builder,      \* requests and tasks that build
    Task,         \* the one of them that is the daily task
    MaxFaults     \* bound: errors and crashes, those a build swallows included

Versions == DOMAIN Network
Directions == {"inbound", "outbound"}
Edge == Station \X Station \X Line

\* Both directions between consecutive stations: _process_station_pair.
EdgesOf(stops, line) ==
    UNION {{<<stops[i], stops[i + 1], line>>, <<stops[i + 1], stops[i], line>>}
           : i \in 1 .. Len(stops) - 1}
LineEdges(v, line) == IF v = 0 THEN {} ELSE EdgesOf(Network[v][line], line)
NetworkEdges(v) == UNION {LineEdges(v, line) : line \in Line}

ASSUME NetworkAssumption == Network \in Seq([Line -> Seq(Station)]) /\ Network # <<>>
\* TfL never replaces its whole network at once.
ASSUME ContinuityAssumption ==
    \E e \in Edge : \A v \in Versions : e \in NetworkEdges(v)
ASSUME GraphBoundAssumption == MaxFaults \in Nat
ASSUME TaskAssumption == Task \in Builder

VARIABLES
    net,         \* external: the network TfL serves
    stationRow,  \* of each station: Station.lines; {} when there is no row
    connection,  \* active StationConnection rows
    variants,    \* Line.route_variants: <<direction, stops>> of each route stored
    build,       \* of each builder: its step and what its session holds
    faults, misses,  \* errors that ended a build, and that one swallowed
    clean        \* history: builders whose build met no other, no error, no change

graphVars == <<net, stationRow, connection, variants, build, faults, misses, clean>>
tables == <<stationRow, connection, variants>>
bounds == <<faults, misses>>

NoRoutes == [l \in Line |-> {}]
NoRows == [s \in Station |-> {}]
NoBuild == [at |-> "idle", lines |-> {}, todo |-> {}, line |-> "none", seen |-> 0,
            rows |-> NoRows, loaded |-> NoRoutes, routes |-> NoRoutes, got |-> {},
            old |-> {}, new |-> {}]
Go(b, session) == build' = [build EXCEPT ![b] = session]

Init ==
    /\ net = 1
    /\ stationRow = NoRows /\ connection = {} /\ variants = NoRoutes
    /\ build = [b \in Builder |-> NoBuild]
    /\ faults = 0 /\ misses = 0 /\ clean = {}

Busy == {b \in Builder : build[b].at # "idle"}

------------------------------------------------------------------------------
\* fetch_lines(use_cache=False): the lines of TfL, upserted and committed; the session
\* keeps their route_variants as they were then.
FetchLines(b) ==
    /\ build[b].at = "idle"
    /\ LET lines == {l \in Line : Network[net][l] # <<>>} IN
       Go(b, [build[b] EXCEPT !.at = "stations", !.lines = lines, !.todo = lines,
                              !.loaded = variants, !.routes = variants])
    /\ clean' = IF Busy = {} THEN {b} ELSE {}
    /\ UNCHANGED <<net, tables, bounds>>

\* _fetch_stations_from_api, to its commit: TfL's stations of the next line and the
\* rows that exist; then a call for the hub of each station.  Lines come in TfL's order,
\* which is any.
FetchStations(b, line) ==
    /\ build[b].at = "stations" /\ line \in build[b].todo
    /\ Go(b, [build[b] EXCEPT !.at = "hubs", !.line = line, !.seen = net,
                              !.rows = stationRow])
    /\ UNCHANGED <<net, tables, bounds, clean>>

StopsOf(v, line) == {Network[v][line][i] : i \in DOMAIN Network[v][line]}
Stops(b) == StopsOf(build[b].seen, build[b].line)

\* Mutant: the line in hand replaces the lines of the station.
MUpdated(b, s) == {build[b].line}

\* _update_existing_station assigns the list it read with the line appended, and
\* nothing when the line was in it; _create_new_station inserts.
Updated(b, s) ==
    LET read == build[b].rows[s] IN
    IF build[b].line \in read THEN stationRow[s] ELSE read \cup {build[b].line}

\* Station.tfl_id is unique: a row inserted meanwhile fails the build.
Inserted(b) == \E s \in Stops(b) : build[b].rows[s] = {} /\ stationRow[s] # {}

CommitStations(b) ==
    /\ build[b].at = "hubs" /\ ~Inserted(b)
    /\ stationRow' = [s \in Station |-> IF s \in Stops(b) THEN Updated(b, s)
                                        ELSE stationRow[s]]
    /\ Go(b, [build[b] EXCEPT !.at = "stations", !.todo = @ \ {build[b].line},
                              !.line = "none", !.seen = 0, !.rows = NoRows])
    /\ UNCHANGED <<net, connection, variants, bounds, clean>>

\* Mutant: the connections are not deleted.
MStartDelete(b) ==
    /\ build[b].at = "stations" /\ build[b].todo = {}
    /\ Go(b, [build[b] EXCEPT !.at = "deleting"])
    /\ UNCHANGED <<net, tables, bounds, clean>>

\* soft_delete of all connections: the UPDATE sees the active rows of its start, waits
\* for the transactions that hold them, and leaves those deleted meanwhile.
StartDelete(b) ==
    /\ build[b].at = "stations" /\ build[b].todo = {}
    /\ Go(b, [build[b] EXCEPT !.at = "deleting", !.old = connection])
    /\ UNCHANGED <<net, tables, bounds, clean>>

\* Between its deletion and its commit.
Collects(b) == build[b].at \in {"sequences", "outbound"}
Holds(b) == IF Collects(b) THEN build[b].old ELSE {}

Delete(b) ==
    /\ build[b].at = "deleting"
    /\ \A o \in Builder \ {b} : Holds(o) \cap build[b].old = {}
    /\ Go(b, [build[b] EXCEPT !.at = "sequences", !.todo = build[b].lines])
    /\ UNCHANGED <<net, tables, bounds, clean>>

\* An answer of TfL for one direction: the connections of the pairs of which both stations
\* have a row (_process_station_pair) and the routes of the direction.  An error is logged
\* and counts as none of them.
Pairs(line, ok) ==
    {e \in LineEdges(net, line) : ok /\ stationRow[e[1]] # {} /\ stationRow[e[2]] # {}}
RoutesOf(direction, line, ok) ==
    IF ok /\ Network[net][line] # <<>> THEN {<<direction, Network[net][line]>>} ELSE {}
Swallow(b, ok) ==
    /\ ~ok => faults + misses < MaxFaults
    /\ misses' = IF ok THEN misses ELSE misses + 1
    /\ clean' = IF ok THEN clean ELSE clean \ {b}
    /\ UNCHANGED <<net, tables, faults>>

\* _process_route_sequence for the next line, inbound.
FetchInbound(b, line, ok) ==
    /\ build[b].at = "sequences" /\ line \in build[b].todo
    /\ Go(b, [build[b] EXCEPT !.at = "outbound", !.line = line, !.todo = @ \ {line},
                              !.new = @ \cup Pairs(line, ok),
                              !.got = RoutesOf("inbound", line, ok)])
    /\ Swallow(b, ok)

\* _store_line_routes keeps the routes when neither direction has any.
Stored(routes, line, found) == [routes EXCEPT ![line] = IF found = {} THEN @ ELSE found]

\* The same, outbound: a call of its own, which TfL may answer from its next network.
FetchOutbound(b, ok) ==
    /\ build[b].at = "outbound"
    /\ LET line == build[b].line
           found == build[b].got \cup RoutesOf("outbound", line, ok) IN
       Go(b, [build[b] EXCEPT !.at = "sequences", !.line = "none", !.got = {},
                              !.new = @ \cup Pairs(line, ok),
                              !.routes = Stored(@, line, found)])
    /\ Swallow(b, ok)

\* Mutant: no partial unique index.
MConflict(b) == FALSE

\* uq_station_connection_active.
Conflict(b) == build[b].new \cap (connection \ build[b].old) # {}

\* The commit of the deletion, of the new connections and of the routes that differ from
\* those loaded.  A deletion that waits for it passes over the rows it deleted.
Commit(b) ==
    /\ build[b].at = "sequences" /\ build[b].todo = {} /\ ~Conflict(b)
    /\ connection' = (connection \ build[b].old) \cup build[b].new
    /\ variants' = [l \in Line |-> IF build[b].routes[l] = build[b].loaded[l]
                                   THEN variants[l] ELSE build[b].routes[l]]
    /\ build' = [o \in Builder |->
                    IF o = b THEN NoBuild
                    ELSE [build[o] EXCEPT !.old = @ \ build[b].old]]
    /\ clean' = clean \ {b}
    /\ UNCHANGED <<net, stationRow, bounds>>

\* Mutant: no rollback.
MRefused(b) ==
    /\ \/ build[b].at = "hubs" /\ Inserted(b)
       \/ build[b].at = "sequences" /\ build[b].todo = {} /\ Conflict(b)
    /\ Go(b, [build[b] EXCEPT !.at = "idle"]) /\ clean' = clean \ {b}
    /\ UNCHANGED <<net, tables, bounds>>

\* A unique index refuses the rows: rollback, 500 or 503.
Refused(b) ==
    /\ \/ build[b].at = "hubs" /\ Inserted(b)
       \/ build[b].at = "sequences" /\ build[b].todo = {} /\ Conflict(b)
    /\ Go(b, NoBuild) /\ clean' = clean \ {b}
    /\ UNCHANGED <<net, tables, bounds>>

\* An API error in the first phases, an error of the database, a crash: the
\* transaction under way is rolled back, and no cache is dropped.
Fail(b) ==
    /\ build[b].at # "idle" /\ faults + misses < MaxFaults
    /\ faults' = faults + 1
    /\ Go(b, NoBuild) /\ clean' = clean \ {b}
    /\ UNCHANGED <<net, tables, misses>>

BuildStep(b) ==
    \/ \E line \in Line :
        \/ FetchStations(b, line)
        \/ \E ok \in BOOLEAN : FetchInbound(b, line, ok)
    \/ \E ok \in BOOLEAN : FetchOutbound(b, ok)
    \/ CommitStations(b) \/ StartDelete(b) \/ Delete(b)
    \/ Commit(b) \/ Refused(b)

------------------------------------------------------------------------------
\* External: TfL moves to its next network.
NetworkChanges ==
    /\ net + 1 \in Versions /\ net' = net + 1
    /\ clean' = {}
    /\ UNCHANGED <<tables, build, bounds>>

Next ==
    \/ \E b \in Builder : FetchLines(b) \/ BuildStep(b) \/ Fail(b)
    \/ NetworkChanges

Spec == Init /\ [][Next]_graphVars
\* The task is scheduled every day and a build under way goes on; whether an administrator
\* asks for one, what TfL does and what fails is left open.
FairSpec ==
    /\ Spec
    /\ WF_graphVars(FetchLines(Task))
    /\ \A b \in Builder : WF_graphVars(BuildStep(b))

------------------------------------------------------------------------------
Route == Directions \X Seq(Station)
Build == [at : {"idle", "stations", "hubs", "deleting", "sequences", "outbound"},
          lines : SUBSET Line, todo : SUBSET Line, line : Line \cup {"none"},
          seen : {0} \cup Versions, rows : [Station -> SUBSET Line],
          loaded : [Line -> SUBSET Route], routes : [Line -> SUBSET Route],
          got : SUBSET Route, old : SUBSET Edge, new : SUBSET Edge]

\* Every variable has its type, and a builder that does nothing holds nothing.
TypeOK ==
    /\ net \in Versions
    /\ stationRow \in [Station -> SUBSET Line]
    /\ connection \subseteq Edge
    /\ variants \in [Line -> SUBSET Route]
    /\ build \in [Builder -> Build]
    /\ \A b \in Builder : build[b].at = "idle" => build[b] = NoBuild
    /\ faults \in 0 .. MaxFaults /\ misses \in 0 .. MaxFaults
    /\ clean \subseteq Busy

\* As long as no error was swallowed, the commit of a build leaves the connections that it
\* found itself and no other: of builds that overlap, the row locks and the partial unique
\* index refuse one, so that a line never has what two of them were told (soft_delete and
\* the commit of build_station_graph).
BuildsDoNotMix ==
    [][\A b \in Builder : misses = 0 /\ Commit(b) => connection' = build[b].new]_graphVars

Exact(row, edges, routes) ==
    /\ edges = NetworkEdges(net)
    /\ \A l \in Line : LET stops == Network[net][l] IN
          stops # <<>> => /\ routes[l] = Directions \X {stops}
                          /\ \A s \in StopsOf(net, l) : l \in row[s]

\* Whatever earlier builds that failed, overlapped or missed an answer have left, the
\* commit of a build that met no other build, no error and no change of TfL's network
\* leaves TfL's connections, routes and stations (build_station_graph).
CleanBuildRepairs ==
    [][\A b \in clean : Commit(b) => Exact(stationRow', connection', variants')]_graphVars

\* Once TfL changes no more and errors have stopped, the graph, the routes and the lines
\* of the stations become those of TfL and stay so: lost updates of Station.lines, lines
\* lost by a swallowed error and refused builds are made up for by those that follow.
GraphConverges == <>[]Exact(stationRow, connection, variants)

==============================================================================
