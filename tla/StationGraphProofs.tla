-------------------------- MODULE StationGraphProofs --------------------------
(* Whatever builds overlap, and however many lines, stations and builders there  *)
(* are, a build that commits leaves its own connections only.  The argument:     *)
(* TfL's networks have a connection in common; every build whose calls were all  *)
(* answered inserts it, so the unique index lets a build commit only if its      *)
(* deletion covers every active row, and what it leaves is its own rows.         *)
EXTENDS StationGraph, TLAPS

Common == CHOOSE e \in Edge : \A v \in Versions : e \in NetworkEdges(v)
Rooted == stationRow[Common[1]] # {} /\ stationRow[Common[2]] # {}

\* A station that had a row when it was read has one.
RowsStay == \A b \in Builder : \A s \in Station : build[b].rows[s] # {} => stationRow[s] # {}
\* When its stations are committed, a build has seen the common line.
SeesCommon ==
    \A b \in Builder :
        LET m == build[b] IN
        /\ m.at # "idle" => Common[3] \in m.lines
        /\ m.at \in {"stations", "hubs"} => Common[3] \in m.todo \/ Rooted
        /\ m.at \in {"hubs", "outbound"} => m.line \in Line
        /\ m.at = "hubs" => m.seen \in Versions
        /\ m.at \in {"deleting", "sequences", "outbound"} => Rooted
        /\ m.at \notin {"sequences", "outbound"} => m.new = {}
\* What a build deletes is all there is, or another has replaced it since.
DeletesAll ==
    \A b \in Builder :
        build[b].at \in {"deleting", "sequences", "outbound"} =>
            \/ build[b].old = connection
            \/ build[b].old \subseteq connection /\ Common \in connection \ build[b].old
\* What a build inserts has the common connection once its line was asked for.
InsertsCommon ==
    \A b \in Builder :
        build[b].at \in {"sequences", "outbound"} =>
            Common[3] \in build[b].todo \/ Common \in build[b].new

Answered == misses = 0 => DeletesAll /\ InsertsCommon
IInv == TypeOK /\ RowsStay /\ SeesCommon /\ Answered

------------------------------------------------------------------------------
LEMMA VersionFacts ==
  /\ Versions \subseteq Nat \ {0} /\ 1 \in Versions
  /\ \A v \in Versions : Network[v] \in [Line -> Seq(Station)]
  BY NetworkAssumption DEF Versions

LEMMA EdgeFacts ==
  ASSUME NEW v \in {0} \cup Versions, NEW l \in Line, NEW e \in LineEdges(v, l)
  PROVE  /\ v \in Versions
         /\ e \in Edge /\ e[3] = l
         /\ e[1] \in StopsOf(v, l) /\ e[2] \in StopsOf(v, l)
         /\ Network[v][l] # <<>>
  <1>1. v \in Versions
    BY DEF LineEdges
  <1>2. v # 0 /\ Network[v][l] \in Seq(Station)
    BY <1>1, VersionFacts
  <1> DEFINE stops == Network[v][l]
  <1>3. PICK i \in 1 .. Len(stops) - 1 :
          e \in {<<stops[i], stops[i + 1], l>>, <<stops[i + 1], stops[i], l>>}
    BY <1>2 DEF LineEdges, EdgesOf
  <1>4. i \in DOMAIN stops /\ i + 1 \in DOMAIN stops
    BY <1>2
  <1>5. stops[i] \in Station /\ stops[i + 1] \in Station /\ stops # <<>>
    BY <1>2, <1>4
  <1> QED BY <1>1, <1>3, <1>4, <1>5 DEF Edge, StopsOf

LEMMA CommonFacts ==
  /\ Common \in Edge /\ Common[1] \in Station /\ Common[2] \in Station /\ Common[3] \in Line
  /\ \A v \in Versions : /\ Common \in LineEdges(v, Common[3])
                         /\ Common[1] \in StopsOf(v, Common[3])
                         /\ Common[2] \in StopsOf(v, Common[3])
                         /\ Network[v][Common[3]] # <<>>
  <1>1. Common \in Edge /\ \A v \in Versions : Common \in NetworkEdges(v)
    BY ContinuityAssumption DEF Common
  <1>2. Common[1] \in Station /\ Common[2] \in Station /\ Common[3] \in Line
    BY <1>1 DEF Edge
  <1>3. ASSUME NEW v \in Versions
        PROVE  Common \in LineEdges(v, Common[3])
    <2>1. PICK l \in Line : Common \in LineEdges(v, l)
      BY <1>1 DEF NetworkEdges
    <2> QED BY <2>1, EdgeFacts
  <1> QED BY <1>1, <1>2, <1>3, EdgeFacts

------------------------------------------------------------------------------
LEMMA InitIInv == Init => IInv
  <1> SUFFICES ASSUME Init PROVE IInv
    OBVIOUS
  <1>1. NoBuild \in Build /\ NoBuild.at = "idle"
    BY DEF NoBuild, NoRows, NoRoutes, Build
  <1>2. TypeOK
    BY <1>1, VersionFacts, GraphBoundAssumption DEF Init, TypeOK, NoRows, NoRoutes
  <1>3. RowsStay
    BY DEF Init, RowsStay, NoBuild, NoRows
  <1>4. SeesCommon
    BY DEF Init, SeesCommon, NoBuild
  <1>5. DeletesAll /\ InsertsCommon
    BY <1>1 DEF Init, DeletesAll, InsertsCommon
  <1> QED BY <1>2, <1>3, <1>4, <1>5 DEF IInv, Answered

\* A session that ends holds nothing and takes nothing with it.
LEMMA EndStep ==
  ASSUME IInv, NEW b \in Builder, build' = [build EXCEPT ![b] = NoBuild],
         clean' = clean \ {b}, UNCHANGED <<net, tables>>, misses' = misses,
         faults' \in 0 .. MaxFaults
  PROVE  IInv'
  <1>1. NoBuild \in Build /\ NoBuild.at = "idle" /\ NoBuild.rows = NoRows /\ NoBuild.new = {}
    BY DEF NoBuild, NoRows, NoRoutes, Build
  <1>2. TypeOK'
    BY <1>1 DEF IInv, TypeOK, tables, Busy
  <1>3. RowsStay'
    BY <1>1 DEF IInv, TypeOK, RowsStay, NoRows, tables
  <1>4. SeesCommon'
    BY <1>1 DEF IInv, TypeOK, SeesCommon, Rooted, tables
  <1>5. Answered'
    BY <1>1 DEF IInv, TypeOK, Answered, DeletesAll, InsertsCommon, tables
  <1> QED BY <1>2, <1>3, <1>4, <1>5 DEF IInv

\* The step of a session, in terms of the session after it.
LEMMA SessionStep ==
  ASSUME IInv, NEW b \in Builder, NEW m \in Build, build' = [build EXCEPT ![b] = m],
         m.at # "idle"
  PROVE  /\ build' \in [Builder -> Build] /\ build'[b] = m
         /\ \A o \in Builder : o # b => build'[o] = build[o]
         /\ \A o \in Builder : build'[o].at = "idle" => build'[o] = NoBuild
         /\ build[b].at # "idle" => Busy' = Busy
         /\ build[b].at = "idle" => Busy' = Busy \cup {b}
  BY DEF IInv, TypeOK, Busy

LEMMA FetchLinesStep ==
  ASSUME IInv, NEW b \in Builder, FetchLines(b)
  PROVE  IInv'
  <1> DEFINE lines == {l \in Line : Network[net][l] # <<>>}
             m == [NoBuild EXCEPT !.at = "stations", !.lines = lines, !.todo = lines,
                                  !.loaded = variants, !.routes = variants]
  <1>1. build[b] = NoBuild /\ build[b].at = "idle" /\ UNCHANGED <<net, tables, bounds>>
    BY DEF IInv, TypeOK, FetchLines
  <1>2. build' = [build EXCEPT ![b] = m]
    BY <1>1 DEF FetchLines, Go, IInv, TypeOK
  <1>3. m \in Build
    BY DEF IInv, TypeOK, NoBuild, NoRows, NoRoutes, Build
  <1>4. Common[3] \in m.lines /\ Common[3] \in m.todo
    BY CommonFacts DEF IInv, TypeOK, NoBuild
  <1>5. m.at = "stations" /\ m.new = {} /\ m.rows = NoRows
    BY DEF NoBuild
  <1> HIDE DEF m
  <1>6. /\ build' \in [Builder -> Build] /\ build'[b] = m /\ Busy' = Busy \cup {b}
        /\ \A o \in Builder : o # b => build'[o] = build[o]
        /\ \A o \in Builder : build'[o].at = "idle" => build'[o] = NoBuild
    BY <1>1, <1>2, <1>3, <1>5, SessionStep
  <1>7. TypeOK'
    BY <1>1, <1>6 DEF IInv, TypeOK, FetchLines, tables, bounds
  <1>8. RowsStay'
    BY <1>1, <1>5, <1>6 DEF IInv, RowsStay, NoRows, tables
  <1>9. SeesCommon'
    BY <1>1, <1>4, <1>5, <1>6 DEF IInv, SeesCommon, Rooted, tables
  <1>10. Answered'
    BY <1>1, <1>5, <1>6 DEF IInv, Answered, DeletesAll, InsertsCommon, tables, bounds
  <1> QED BY <1>7, <1>8, <1>9, <1>10 DEF IInv

LEMMA FetchStationsStep ==
  ASSUME IInv, NEW b \in Builder, NEW line \in Line, FetchStations(b, line)
  PROVE  IInv'
  <1> DEFINE n == build[b]
             m == [n EXCEPT !.at = "hubs", !.line = line, !.seen = net, !.rows = stationRow]
  <1>1. n \in Build /\ n.at = "stations" /\ UNCHANGED <<net, tables, bounds, clean>>
    BY DEF IInv, TypeOK, FetchStations
  <1>2. build' = [build EXCEPT ![b] = m]
    BY DEF FetchStations, Go, IInv, TypeOK
  <1>3. m \in Build
    BY <1>1 DEF IInv, TypeOK, Build
  <1>5. /\ m.at = "hubs" /\ m.new = n.new /\ m.rows = stationRow /\ m.lines = n.lines
        /\ m.todo = n.todo /\ m.line = line /\ m.seen = net
    BY <1>1 DEF Build
  <1> HIDE DEF m
  <1>6. /\ build' \in [Builder -> Build] /\ build'[b] = m /\ Busy' = Busy
        /\ \A o \in Builder : o # b => build'[o] = build[o]
        /\ \A o \in Builder : build'[o].at = "idle" => build'[o] = NoBuild
    BY <1>1, <1>2, <1>3, <1>5, SessionStep
  <1>7. TypeOK'
    BY <1>1, <1>6 DEF IInv, TypeOK, tables, bounds
  <1>8. RowsStay'
    BY <1>1, <1>5, <1>6 DEF IInv, RowsStay, tables
  <1>9. SeesCommon'
    <2> SUFFICES ASSUME NEW o \in Builder
                 PROVE  LET k == build'[o] IN
                        /\ k.at # "idle" => Common[3] \in k.lines
                        /\ k.at \in {"stations", "hubs"} => Common[3] \in k.todo \/ Rooted'
                        /\ k.at \in {"hubs", "outbound"} => k.line \in Line
                        /\ k.at = "hubs" => k.seen \in Versions
                        /\ k.at \in {"deleting", "sequences", "outbound"} => Rooted'
                        /\ k.at \notin {"sequences", "outbound"} => k.new = {}
      BY DEF SeesCommon
    <2>1. Rooted' = Rooted
      BY <1>1 DEF Rooted, tables
    <2>2. CASE o = b
      BY <2>1, <2>2, <1>1, <1>5, <1>6 DEF IInv, TypeOK, SeesCommon
    <2>3. CASE o # b
      BY <2>1, <2>3, <1>6 DEF IInv, SeesCommon
    <2> QED BY <2>2, <2>3
  <1>10. Answered'
    BY <1>1, <1>5, <1>6 DEF IInv, Answered, DeletesAll, InsertsCommon, tables, bounds
  <1> QED BY <1>7, <1>8, <1>9, <1>10 DEF IInv

\* Station.lines of a row never becomes empty, and the stops of the line have rows.
LEMMA CommitStationsStep ==
  ASSUME IInv, NEW b \in Builder, CommitStations(b)
  PROVE  IInv'
  <1> DEFINE n == build[b]
             m == [n EXCEPT !.at = "stations", !.todo = @ \ {n.line},
                            !.line = "none", !.seen = 0, !.rows = NoRows]
  <1>1. n \in Build /\ n.at = "hubs" /\ UNCHANGED <<net, connection, variants, bounds, clean>>
    BY DEF IInv, TypeOK, CommitStations
  <1>2. build' = [build EXCEPT ![b] = m]
    BY DEF CommitStations, Go, IInv, TypeOK
  <1>3. m \in Build
    BY <1>1 DEF Build, NoRows
  <1>5. /\ m.at = "stations" /\ m.new = n.new /\ m.rows = NoRows /\ m.lines = n.lines
        /\ m.todo = n.todo \ {n.line}
    BY <1>1 DEF Build
  <1> HIDE DEF m
  <1>6. /\ build' \in [Builder -> Build] /\ build'[b] = m /\ Busy' = Busy
        /\ \A o \in Builder : o # b => build'[o] = build[o]
        /\ \A o \in Builder : build'[o].at = "idle" => build'[o] = NoBuild
    BY <1>1, <1>2, <1>3, <1>5, SessionStep
  <1>7. n.line \in Line /\ n.seen \in Versions
    BY <1>1 DEF IInv, SeesCommon
  <1>8. ASSUME NEW s \in Station
        PROVE  Updated(b, s) \subseteq Line /\ Updated(b, s) # {}
    <2>1. n.rows[s] \subseteq Line /\ stationRow[s] \subseteq Line
      BY <1>1 DEF IInv, TypeOK, Build
    <2>2. n.rows[s] # {} => stationRow[s] # {}
      BY DEF IInv, RowsStay
    <2> QED BY <1>7, <2>1, <2>2 DEF Updated
  <1>9. stationRow' = [s \in Station |-> IF s \in Stops(b) THEN Updated(b, s) ELSE stationRow[s]]
    BY DEF CommitStations
  <1>10. stationRow' \in [Station -> SUBSET Line]
    BY <1>8, <1>9 DEF IInv, TypeOK
  <1>11. \A s \in Station : /\ stationRow[s] # {} => stationRow'[s] # {}
                            /\ s \in Stops(b) => stationRow'[s] # {}
    BY <1>8, <1>9
  <1>12. TypeOK'
    BY <1>1, <1>6, <1>10 DEF IInv, TypeOK, bounds
  <1>13. RowsStay'
    <2> SUFFICES ASSUME NEW o \in Builder, NEW s \in Station, build'[o].rows[s] # {}
                 PROVE  stationRow'[s] # {}
      BY DEF RowsStay
    <2>1. o # b
      BY <1>5, <1>6 DEF NoRows
    <2> QED BY <1>6, <1>11, <2>1 DEF IInv, RowsStay
  <1>14. Rooted => Rooted'
    BY <1>11, CommonFacts DEF Rooted
  <1>15. Common[3] \in m.todo \/ Rooted'
    <2>1. CASE n.line = Common[3]
      BY <2>1, <1>7, <1>11, CommonFacts DEF Rooted, Stops
    <2>2. CASE n.line # Common[3]
      BY <2>2, <1>1, <1>5, <1>14 DEF IInv, SeesCommon
    <2> QED BY <2>1, <2>2
  <1>16. SeesCommon'
    <2> SUFFICES ASSUME NEW o \in Builder
                 PROVE  LET k == build'[o] IN
                        /\ k.at # "idle" => Common[3] \in k.lines
                        /\ k.at \in {"stations", "hubs"} => Common[3] \in k.todo \/ Rooted'
                        /\ k.at \in {"hubs", "outbound"} => k.line \in Line
                        /\ k.at = "hubs" => k.seen \in Versions
                        /\ k.at \in {"deleting", "sequences", "outbound"} => Rooted'
                        /\ k.at \notin {"sequences", "outbound"} => k.new = {}
      BY DEF SeesCommon
    <2>1. CASE o = b
      BY <2>1, <1>1, <1>5, <1>6, <1>15 DEF IInv, SeesCommon
    <2>2. CASE o # b
      BY <2>2, <1>6, <1>14 DEF IInv, SeesCommon
    <2> QED BY <2>1, <2>2
  <1>17. Answered'
    BY <1>1, <1>5, <1>6 DEF IInv, Answered, DeletesAll, InsertsCommon, bounds
  <1> QED BY <1>12, <1>13, <1>16, <1>17 DEF IInv

\* The deletion covers what is there as it starts.
LEMMA StartDeleteStep ==
  ASSUME IInv, NEW b \in Builder, StartDelete(b)
  PROVE  IInv'
  <1> DEFINE n == build[b]
             m == [n EXCEPT !.at = "deleting", !.old = connection]
  <1>1. /\ n \in Build /\ n.at = "stations" /\ n.todo = {}
        /\ UNCHANGED <<net, tables, bounds, clean>>
    BY DEF IInv, TypeOK, StartDelete
  <1>2. build' = [build EXCEPT ![b] = m]
    BY DEF StartDelete, Go, IInv, TypeOK
  <1>3. m \in Build
    BY <1>1 DEF Build, IInv, TypeOK
  <1>5. /\ m.at = "deleting" /\ m.new = n.new /\ m.rows = n.rows /\ m.lines = n.lines
        /\ m.old = connection
    BY <1>1 DEF Build
  <1> HIDE DEF m
  <1>6. /\ build' \in [Builder -> Build] /\ build'[b] = m /\ Busy' = Busy
        /\ \A o \in Builder : o # b => build'[o] = build[o]
        /\ \A o \in Builder : build'[o].at = "idle" => build'[o] = NoBuild
    BY <1>1, <1>2, <1>3, <1>5, SessionStep
  <1>7. TypeOK'
    BY <1>1, <1>6 DEF IInv, TypeOK, tables, bounds
  <1>8. RowsStay'
    BY <1>1, <1>5, <1>6 DEF IInv, RowsStay, tables
  <1>9. SeesCommon'
    BY <1>1, <1>5, <1>6 DEF IInv, SeesCommon, Rooted, tables
  <1>10. Answered'
    BY <1>1, <1>5, <1>6 DEF IInv, Answered, DeletesAll, InsertsCommon, tables, bounds
  <1> QED BY <1>7, <1>8, <1>9, <1>10 DEF IInv

LEMMA DeleteStep ==
  ASSUME IInv, NEW b \in Builder, Delete(b)
  PROVE  IInv'
  <1> DEFINE n == build[b]
             m == [n EXCEPT !.at = "sequences", !.todo = n.lines]
  <1>1. n \in Build /\ n.at = "deleting" /\ UNCHANGED <<net, tables, bounds, clean>>
    BY DEF IInv, TypeOK, Delete
  <1>2. build' = [build EXCEPT ![b] = m]
    BY DEF Delete, Go, IInv, TypeOK
  <1>3. m \in Build
    BY <1>1 DEF Build
  <1>5. /\ m.at = "sequences" /\ m.new = n.new /\ m.rows = n.rows /\ m.lines = n.lines
        /\ m.old = n.old /\ m.todo = n.lines
    BY <1>1 DEF Build
  <1> HIDE DEF m
  <1>6. /\ build' \in [Builder -> Build] /\ build'[b] = m /\ Busy' = Busy
        /\ \A o \in Builder : o # b => build'[o] = build[o]
        /\ \A o \in Builder : build'[o].at = "idle" => build'[o] = NoBuild
    BY <1>1, <1>2, <1>3, <1>5, SessionStep
  <1>7. TypeOK'
    BY <1>1, <1>6 DEF IInv, TypeOK, tables, bounds
  <1>8. RowsStay'
    BY <1>1, <1>5, <1>6 DEF IInv, RowsStay, tables
  <1>9. SeesCommon'
    BY <1>1, <1>5, <1>6 DEF IInv, SeesCommon, Rooted, tables
  <1>10. n.new = {} /\ Common[3] \in n.lines
    BY <1>1 DEF IInv, SeesCommon
  <1>11. Answered'
    BY <1>1, <1>5, <1>6, <1>10 DEF IInv, Answered, DeletesAll, InsertsCommon, tables, bounds
  <1> QED BY <1>7, <1>8, <1>9, <1>11 DEF IInv

\* What an answer gives has its types, and an answer for the common line has the common
\* connection.
LEMMA AnswerFacts ==
  ASSUME IInv, NEW line \in Line, NEW ok \in BOOLEAN, NEW direction \in Directions
  PROVE  /\ Pairs(line, ok) \subseteq Edge /\ Pairs(line, ok) \subseteq LineEdges(net, line)
         /\ RoutesOf(direction, line, ok) \subseteq Route
         /\ ok /\ Rooted /\ line = Common[3] => Common \in Pairs(line, ok)
  <1>1. net \in Versions
    BY DEF IInv, TypeOK
  <1>2. Pairs(line, ok) \subseteq LineEdges(net, line)
    BY DEF Pairs
  <1>3. LineEdges(net, line) \subseteq Edge
    BY <1>1, EdgeFacts
  <1>4. RoutesOf(direction, line, ok) \subseteq Route
    BY <1>1, VersionFacts DEF RoutesOf, Route
  <1>5. ok /\ Rooted /\ line = Common[3] => Common \in Pairs(line, ok)
    BY <1>1, CommonFacts DEF Pairs, Rooted
  <1> QED BY <1>2, <1>3, <1>4, <1>5

\* A swallowed error is counted.
LEMMA SwallowFacts ==
  ASSUME IInv, NEW b \in Builder, NEW ok \in BOOLEAN, Swallow(b, ok)
  PROVE  /\ misses' \in 0 .. MaxFaults /\ clean' \subseteq clean
         /\ misses' = 0 => misses = 0 /\ ok
         /\ UNCHANGED <<net, tables, faults>>
  BY GraphBoundAssumption DEF IInv, TypeOK, Swallow

LEMMA FetchInboundStep ==
  ASSUME IInv, NEW b \in Builder, NEW line \in Line, NEW ok \in BOOLEAN,
         FetchInbound(b, line, ok)
  PROVE  IInv'
  <1> DEFINE n == build[b]
             m == [n EXCEPT !.at = "outbound", !.line = line, !.todo = @ \ {line},
                            !.new = @ \cup Pairs(line, ok),
                            !.got = RoutesOf("inbound", line, ok)]
  <1>1. n \in Build /\ n.at = "sequences" /\ line \in n.todo
    BY DEF IInv, TypeOK, FetchInbound
  <1>2. build' = [build EXCEPT ![b] = m]
    BY DEF FetchInbound, Go, IInv, TypeOK
  <1>3. /\ Pairs(line, ok) \subseteq Edge /\ RoutesOf("inbound", line, ok) \subseteq Route
        /\ ok /\ Rooted /\ line = Common[3] => Common \in Pairs(line, ok)
    BY AnswerFacts DEF Directions
  <1>4. m \in Build
    BY <1>1, <1>3 DEF Build
  <1>5. /\ m.at = "outbound" /\ m.new = n.new \cup Pairs(line, ok) /\ m.rows = n.rows
        /\ m.lines = n.lines /\ m.old = n.old /\ m.todo = n.todo \ {line} /\ m.line = line
    BY <1>1 DEF Build
  <1> HIDE DEF m
  <1>6. /\ build' \in [Builder -> Build] /\ build'[b] = m /\ Busy' = Busy
        /\ \A o \in Builder : o # b => build'[o] = build[o]
        /\ \A o \in Builder : build'[o].at = "idle" => build'[o] = NoBuild
    BY <1>1, <1>2, <1>4, <1>5, SessionStep
  <1>7. /\ misses' \in 0 .. MaxFaults /\ clean' \subseteq clean
        /\ misses' = 0 => misses = 0 /\ ok
        /\ UNCHANGED <<net, tables, faults>>
    BY SwallowFacts DEF FetchInbound
  <1>8. TypeOK'
    BY <1>6, <1>7 DEF IInv, TypeOK, tables
  <1>9. RowsStay'
    BY <1>5, <1>6, <1>7 DEF IInv, RowsStay, tables
  <1>10. Rooted
    BY <1>1 DEF IInv, SeesCommon
  <1>11. SeesCommon'
    BY <1>1, <1>5, <1>6, <1>7, <1>10 DEF IInv, SeesCommon, Rooted, tables
  <1>12. Answered'
    BY <1>1, <1>3, <1>5, <1>6, <1>7, <1>10 DEF IInv, Answered, DeletesAll, InsertsCommon, tables
  <1> QED BY <1>8, <1>9, <1>11, <1>12 DEF IInv

LEMMA FetchOutboundStep ==
  ASSUME IInv, NEW b \in Builder, NEW ok \in BOOLEAN, FetchOutbound(b, ok)
  PROVE  IInv'
  <1> DEFINE n == build[b]
             found == n.got \cup RoutesOf("outbound", n.line, ok)
             m == [n EXCEPT !.at = "sequences", !.line = "none", !.got = {},
                            !.new = @ \cup Pairs(n.line, ok),
                            !.routes = Stored(@, n.line, found)]
  <1>1. n \in Build /\ n.at = "outbound" /\ n.line \in Line
    BY DEF IInv, TypeOK, SeesCommon, FetchOutbound
  <1>2. build' = [build EXCEPT ![b] = m]
    BY DEF FetchOutbound, Go, IInv, TypeOK
  <1>3. Pairs(n.line, ok) \subseteq Edge /\ RoutesOf("outbound", n.line, ok) \subseteq Route
    BY <1>1, AnswerFacts DEF Directions
  <1>4. Stored(n.routes, n.line, found) \in [Line -> SUBSET Route]
    BY <1>1, <1>3 DEF Stored, Build
  <1>5. m \in Build
    BY <1>1, <1>3, <1>4 DEF Build
  <1>6. /\ m.at = "sequences" /\ m.new = n.new \cup Pairs(n.line, ok) /\ m.rows = n.rows
        /\ m.lines = n.lines /\ m.old = n.old /\ m.todo = n.todo
    BY <1>1 DEF Build
  <1> HIDE DEF m
  <1>7. /\ build' \in [Builder -> Build] /\ build'[b] = m /\ Busy' = Busy
        /\ \A o \in Builder : o # b => build'[o] = build[o]
        /\ \A o \in Builder : build'[o].at = "idle" => build'[o] = NoBuild
    BY <1>1, <1>2, <1>5, <1>6, SessionStep
  <1>8. /\ misses' \in 0 .. MaxFaults /\ clean' \subseteq clean
        /\ misses' = 0 => misses = 0 /\ ok
        /\ UNCHANGED <<net, tables, faults>>
    BY SwallowFacts DEF FetchOutbound
  <1>9. TypeOK'
    BY <1>7, <1>8 DEF IInv, TypeOK, tables
  <1>10. RowsStay'
    BY <1>6, <1>7, <1>8 DEF IInv, RowsStay, tables
  <1>11. SeesCommon'
    BY <1>1, <1>6, <1>7, <1>8 DEF IInv, SeesCommon, Rooted, tables
  <1>12. Answered'
    BY <1>1, <1>6, <1>7, <1>8 DEF IInv, Answered, DeletesAll, InsertsCommon, tables
  <1> QED BY <1>9, <1>10, <1>11, <1>12 DEF IInv

\* No conflict: the common connection, which the build inserts, is not left active, so its
\* deletion covers everything, and what is there afterwards is what it inserts.
LEMMA CommitReplaces ==
  ASSUME IInv, NEW b \in Builder, Commit(b), misses = 0
  PROVE  /\ build[b].old = connection /\ Common \in build[b].new
         /\ connection' = build[b].new
  <1>1. /\ build[b].at = "sequences" /\ build[b].todo = {}
        /\ build[b].new \cap (connection \ build[b].old) = {}
        /\ connection' = (connection \ build[b].old) \cup build[b].new
    BY DEF Commit, Conflict
  <1>2. DeletesAll /\ InsertsCommon
    BY DEF IInv, Answered
  <1>3. Common \in build[b].new
    BY <1>1, <1>2 DEF InsertsCommon
  <1>4. build[b].old = connection
    BY <1>1, <1>2, <1>3 DEF DeletesAll
  <1> QED BY <1>1, <1>3, <1>4

\* So nothing is left for those that wait.
LEMMA CommitStep ==
  ASSUME IInv, NEW b \in Builder, Commit(b)
  PROVE  IInv'
  <1> DEFINE n == build[b]
             rest(o) == [build[o] EXCEPT !.old = @ \ n.old]
  <1>1. /\ n \in Build /\ n.at = "sequences" /\ n.todo = {}
        /\ n.new \cap (connection \ n.old) = {}
        /\ connection' = (connection \ n.old) \cup n.new
        /\ clean' = clean \ {b} /\ UNCHANGED <<net, stationRow, bounds>>
    BY DEF IInv, TypeOK, Commit, Conflict
  <1>2. build'[b] = NoBuild /\ \A o \in Builder : o # b => build'[o] = rest(o)
    BY DEF Commit
  <1>3. ASSUME NEW o \in Builder
        PROVE  /\ rest(o) \in Build
               /\ rest(o).at = build[o].at /\ rest(o).rows = build[o].rows
               /\ rest(o).new = build[o].new /\ rest(o).lines = build[o].lines
               /\ rest(o).todo = build[o].todo /\ rest(o).line = build[o].line
               /\ rest(o).seen = build[o].seen /\ rest(o).old = build[o].old \ n.old
               /\ build[o].at = "idle" => rest(o) = NoBuild
    <2>1. build[o] \in Build /\ (build[o].at = "idle" => build[o] = NoBuild)
      BY DEF IInv, TypeOK
    <2>2. [NoBuild EXCEPT !.old = @ \ n.old] = NoBuild
      BY DEF NoBuild
    <2> QED BY <2>1, <2>2 DEF Build
  <1>4. NoBuild \in Build /\ NoBuild.at = "idle" /\ NoBuild.rows = NoRows /\ NoBuild.new = {}
    BY DEF NoBuild, NoRows, NoRoutes, Build
  <1> HIDE DEF rest
  <1>5. /\ build' \in [Builder -> Build]
        /\ \A o \in Builder : build'[o].at = "idle" => build'[o] = NoBuild
        /\ Busy' = Busy \ {b}
    <2>1. build' \in [Builder -> Build]
      <3>1. \A o \in Builder : build'[o] \in Build
        BY <1>2, <1>3, <1>4
      <3>2. DOMAIN build' = Builder /\ build' = [o \in DOMAIN build' |-> build'[o]]
        BY DEF Commit
      <3> QED BY <3>1, <3>2
    <2>2. \A o \in Builder : build'[o].at = "idle" => build'[o] = NoBuild
      BY <1>2, <1>3, <1>4
    <2>3. Busy' = Busy \ {b}
      <3>1. build'[b].at = "idle" /\ \A o \in Builder : o # b => build'[o].at = build[o].at
        BY <1>2, <1>3, <1>4
      <3> QED BY <3>1 DEF Busy
    <2> QED BY <2>1, <2>2, <2>3
  <1>6. variants' \in [Line -> SUBSET Route]
    BY <1>1 DEF Commit, IInv, TypeOK, Build
  <1>7. TypeOK'
    BY <1>1, <1>5, <1>6 DEF IInv, TypeOK, bounds, Build
  <1>8. RowsStay'
    BY <1>1, <1>2, <1>3, <1>4 DEF IInv, RowsStay, NoRows
  <1>9. SeesCommon'
    <2> SUFFICES ASSUME NEW o \in Builder
                 PROVE  LET k == build'[o] IN
                        /\ k.at # "idle" => Common[3] \in k.lines
                        /\ k.at \in {"stations", "hubs"} => Common[3] \in k.todo \/ Rooted'
                        /\ k.at \in {"hubs", "outbound"} => k.line \in Line
                        /\ k.at = "hubs" => k.seen \in Versions
                        /\ k.at \in {"deleting", "sequences", "outbound"} => Rooted'
                        /\ k.at \notin {"sequences", "outbound"} => k.new = {}
      BY DEF SeesCommon
    <2>1. Rooted' = Rooted
      BY <1>1 DEF Rooted
    <2>2. CASE o = b
      BY <2>2, <1>2, <1>4
    <2>3. CASE o # b
      BY <2>1, <2>3, <1>2, <1>3 DEF IInv, SeesCommon
    <2> QED BY <2>2, <2>3
  <1>10. Answered'
    <2> SUFFICES ASSUME misses = 0 PROVE (DeletesAll /\ InsertsCommon)'
      BY <1>1 DEF Answered, bounds
    <2>1. DeletesAll /\ InsertsCommon
      BY DEF IInv, Answered
    <2>2. n.old = connection /\ Common \in n.new /\ connection' = n.new
      BY CommitReplaces
    <2>3. DeletesAll'
      <3> SUFFICES ASSUME NEW o \in Builder,
                          build'[o].at \in {"deleting", "sequences", "outbound"}
                   PROVE  build'[o].old \subseteq connection' /\ Common \in connection' \ build'[o].old
        BY DEF DeletesAll
      <3>1. o # b
        BY <1>2, <1>4
      <3>2. build[o].old \subseteq connection
        BY <3>1, <1>2, <1>3, <2>1 DEF DeletesAll
      <3>3. build'[o].old = {}
        BY <3>1, <3>2, <1>2, <1>3, <2>2
      <3> QED BY <3>3, <2>2
    <2>4. InsertsCommon'
      <3> SUFFICES ASSUME NEW o \in Builder, build'[o].at \in {"sequences", "outbound"}
                   PROVE  Common[3] \in build'[o].todo \/ Common \in build'[o].new
        BY DEF InsertsCommon
      <3>1. o # b
        BY <1>2, <1>4
      <3> QED BY <3>1, <1>2, <1>3, <2>1 DEF InsertsCommon
    <2> QED BY <2>3, <2>4
  <1> QED BY <1>7, <1>8, <1>9, <1>10 DEF IInv

LEMMA NetworkChangesStep ==
  ASSUME IInv, NetworkChanges
  PROVE  IInv'
  <1>1. /\ net' \in Versions /\ clean' = {} /\ UNCHANGED <<tables, build, bounds>>
    BY DEF NetworkChanges
  <1>2. TypeOK'
    BY <1>1 DEF IInv, TypeOK, tables, bounds
  <1>3. RowsStay' /\ SeesCommon'
    BY <1>1 DEF IInv, RowsStay, SeesCommon, Rooted, tables
  <1>4. Answered'
    BY <1>1 DEF IInv, Answered, DeletesAll, InsertsCommon, tables, bounds
  <1> QED BY <1>2, <1>3, <1>4 DEF IInv

LEMMA NextIInv == IInv /\ [Next]_graphVars => IInv'
  <1> SUFFICES ASSUME IInv, [Next]_graphVars PROVE IInv'
    OBVIOUS
  <1>1. ASSUME NEW b \in Builder, FetchLines(b) PROVE IInv'
    BY <1>1, FetchLinesStep
  <1>2. ASSUME NEW b \in Builder, BuildStep(b) PROVE IInv'
    <2>1. CASE \E line \in Line : FetchStations(b, line)
      BY <2>1, FetchStationsStep
    <2>2. CASE \E line \in Line : \E ok \in BOOLEAN : FetchInbound(b, line, ok)
      BY <2>2, FetchInboundStep
    <2>8. CASE \E ok \in BOOLEAN : FetchOutbound(b, ok)
      BY <2>8, FetchOutboundStep
    <2>3. CASE CommitStations(b)
      BY <2>3, CommitStationsStep
    <2>4. CASE StartDelete(b)
      BY <2>4, StartDeleteStep
    <2>5. CASE Delete(b)
      BY <2>5, DeleteStep
    <2>6. CASE Commit(b)
      BY <2>6, CommitStep
    <2>7. CASE Refused(b)
      <3>1. faults' \in 0 .. MaxFaults /\ misses' = misses
        BY <2>7 DEF Refused, bounds, IInv, TypeOK
      <3> QED BY <2>7, <3>1, EndStep DEF Refused, Go
    <2> QED BY <1>2, <2>1, <2>2, <2>3, <2>4, <2>5, <2>6, <2>7, <2>8 DEF BuildStep
  <1>3. ASSUME NEW b \in Builder, Fail(b) PROVE IInv'
    <2>1. faults' \in 0 .. MaxFaults
      BY <1>3, GraphBoundAssumption DEF Fail, IInv, TypeOK
    <2> QED BY <1>3, <2>1, EndStep DEF Fail, Go
  <1>4. CASE NetworkChanges
    BY <1>4, NetworkChangesStep
  <1>5. CASE UNCHANGED graphVars
    <2>1. TypeOK'
      BY <1>5 DEF IInv, TypeOK, Busy, graphVars
    <2>2. RowsStay' /\ SeesCommon'
      BY <1>5 DEF IInv, RowsStay, SeesCommon, Rooted, graphVars
    <2>3. Answered'
      BY <1>5 DEF IInv, Answered, DeletesAll, InsertsCommon, graphVars
    <2> QED BY <2>1, <2>2, <2>3 DEF IInv
  <1> QED BY <1>1, <1>2, <1>3, <1>4, <1>5 DEF Next

------------------------------------------------------------------------------
LEMMA SpecIInv == Spec => []IInv
  BY InitIInv, NextIInv, PTL DEF Spec

\* Every variable has its type, for any lines, stations and builders.
THEOREM GraphTypes == Spec => []TypeOK
  <1>1. IInv => TypeOK
    BY DEF IInv
  <1> QED BY <1>1, SpecIInv, PTL

\* For any number of builds that overlap, lines, stations and networks: unless an error was
\* swallowed, a build that commits leaves its own connections and no other.
THEOREM GraphSound == Spec => BuildsDoNotMix
  <1>1. IInv /\ [Next]_graphVars =>
           [\A b \in Builder : misses = 0 /\ Commit(b) => connection' = build[b].new]_graphVars
    BY CommitReplaces
  <1> QED BY <1>1, SpecIInv, PTL DEF Spec, BuildsDoNotMix

------------------------------------------------------------------------------
\* What a build that meets no other has done of its work.
Rows(m, l) == \/ l \in m.todo /\ m.at \in {"stations", "hubs"}
              \/ \A s \in StopsOf(net, l) : l \in stationRow[s]
Complete(m, l) ==
    /\ LineEdges(net, l) \subseteq m.new
    /\ IF m.at = "outbound" /\ l = m.line
       THEN m.got = {<<"inbound", Network[net][l]>>}
       ELSE m.routes[l] = Directions \X {Network[net][l]}
Answers(m) ==
    /\ m.new \subseteq NetworkEdges(net)
    /\ \A l \in m.lines \ m.todo : Complete(m, l)
Undisturbed(m) ==
    /\ m.lines = {l \in Line : Network[net][l] # <<>>}
    /\ m.loaded = variants
    /\ \A l \in m.lines : Rows(m, l)
    /\ m.at = "hubs" => m.seen = net /\ m.rows = stationRow
    /\ m.at \in {"deleting", "sequences", "outbound"} => m.old = connection
    /\ m.at \in {"sequences", "outbound"} => Answers(m)
Alone(b) == \A o \in Builder \ {b} : build[o].at = "idle"
Clean == \A b \in clean : Alone(b) /\ Undisturbed(build[b])

\* Only the builder that works can be one that meets no other.
LEMMA AloneStep ==
  ASSUME IInv, Clean, NEW b \in Builder, build[b].at # "idle", clean' \subseteq clean,
         \A o \in Builder : o # b => build'[o] = build[o],
         b \in clean /\ b \in clean' => Undisturbed(build[b])'
  PROVE  Clean'
  <1>1. \A o \in clean : o = b
    BY DEF Clean, Alone, IInv, TypeOK, Busy
  <1>2. b \in clean' => Alone(b)'
    BY DEF Clean, Alone
  <1> QED BY <1>1, <1>2 DEF Clean

\* A build that begins while all rest has nothing behind it.
LEMMA FetchLinesClean ==
  ASSUME IInv, Clean, NEW b \in Builder, FetchLines(b)
  PROVE  Clean'
  <1> DEFINE lines == {l \in Line : Network[net][l] # <<>>}
             m == [NoBuild EXCEPT !.at = "stations", !.lines = lines, !.todo = lines,
                                  !.loaded = variants, !.routes = variants]
  <1>1. /\ build[b] = NoBuild /\ UNCHANGED <<net, tables, bounds>>
        /\ clean' = IF Busy = {} THEN {b} ELSE {}
    BY DEF IInv, TypeOK, FetchLines
  <1>2. build' = [build EXCEPT ![b] = m]
    BY <1>1 DEF FetchLines, Go, IInv, TypeOK
  <1>3. m.at = "stations" /\ m.lines = lines /\ m.todo = lines /\ m.loaded = variants
    BY DEF NoBuild
  <1> HIDE DEF m
  <1>4. build'[b] = m /\ \A o \in Builder : o # b => build'[o] = build[o]
    BY <1>2 DEF IInv, TypeOK
  <1>5. Undisturbed(build[b])'
    BY <1>1, <1>3, <1>4 DEF Undisturbed, Rows, tables
  <1>6. Busy = {} => Alone(b)'
    BY <1>4 DEF Alone, Busy
  <1> QED BY <1>1, <1>5, <1>6 DEF Clean

LEMMA FetchStationsClean ==
  ASSUME IInv, Clean, NEW b \in Builder, NEW line \in Line, FetchStations(b, line)
  PROVE  Clean'
  <1> DEFINE n == build[b]
             m == [n EXCEPT !.at = "hubs", !.line = line, !.seen = net, !.rows = stationRow]
  <1>1. n \in Build /\ n.at = "stations" /\ UNCHANGED <<net, tables, bounds, clean>>
    BY DEF IInv, TypeOK, FetchStations
  <1>2. build' = [build EXCEPT ![b] = m]
    BY DEF FetchStations, Go, IInv, TypeOK
  <1>3. /\ m.at = "hubs" /\ m.rows = stationRow /\ m.lines = n.lines /\ m.todo = n.todo
        /\ m.seen = net /\ m.loaded = n.loaded
    BY <1>1 DEF Build
  <1> HIDE DEF m
  <1>4. build'[b] = m /\ \A o \in Builder : o # b => build'[o] = build[o]
    BY <1>2 DEF IInv, TypeOK
  <1>5. b \in clean => Undisturbed(build[b])'
    BY <1>1, <1>3, <1>4 DEF Clean, Undisturbed, Rows, tables
  <1> QED BY <1>1, <1>4, <1>5, AloneStep

\* Nobody wrote the rows since they were read, so the stops of the line get it and the
\* others keep theirs.
LEMMA CommitStationsClean ==
  ASSUME IInv, Clean, NEW b \in Builder, CommitStations(b)
  PROVE  Clean'
  <1> DEFINE n == build[b]
             m == [n EXCEPT !.at = "stations", !.todo = @ \ {n.line},
                            !.line = "none", !.seen = 0, !.rows = NoRows]
  <1>1. n \in Build /\ n.at = "hubs" /\ UNCHANGED <<net, connection, variants, bounds, clean>>
    BY DEF IInv, TypeOK, CommitStations
  <1>2. build' = [build EXCEPT ![b] = m]
    BY DEF CommitStations, Go, IInv, TypeOK
  <1>3. /\ m.at = "stations" /\ m.lines = n.lines /\ m.todo = n.todo \ {n.line}
        /\ m.loaded = n.loaded
    BY <1>1 DEF Build
  <1> HIDE DEF m
  <1>4. build'[b] = m /\ \A o \in Builder : o # b => build'[o] = build[o]
    BY <1>2 DEF IInv, TypeOK
  <1>5. ASSUME b \in clean PROVE Undisturbed(build[b])'
    <2>1. /\ n.lines = {l \in Line : Network[net][l] # <<>>} /\ n.loaded = variants
          /\ \A l \in n.lines : Rows(n, l)
          /\ n.seen = net /\ n.rows = stationRow
      BY <1>1, <1>5 DEF Clean, Undisturbed
    <2>2. \A s \in Station : /\ stationRow[s] \subseteq stationRow'[s]
                             /\ s \in StopsOf(net, n.line) => n.line \in stationRow'[s]
      BY <2>1 DEF CommitStations, Updated, Stops
    <2>3. ASSUME NEW l \in n.lines
          PROVE  l \in m.todo \/ \A s \in StopsOf(net, l) : l \in stationRow'[s]
      <3>1. StopsOf(net, l) \subseteq Station
        BY <2>1, VersionFacts DEF StopsOf, IInv, TypeOK
      <3>2. CASE l = n.line
        BY <2>2, <3>1, <3>2
      <3>3. CASE l # n.line
        BY <1>1, <1>3, <2>1, <2>2, <3>1, <3>3 DEF Rows
      <3> QED BY <3>2, <3>3
    <2>4. net' = net /\ variants' = variants
      BY <1>1
    <2> QED BY <1>3, <1>4, <2>1, <2>3, <2>4 DEF Undisturbed, Rows
  <1> QED BY <1>1, <1>4, <1>5, AloneStep

LEMMA StartDeleteClean ==
  ASSUME IInv, Clean, NEW b \in Builder, StartDelete(b)
  PROVE  Clean'
  <1> DEFINE n == build[b]
             m == [n EXCEPT !.at = "deleting", !.old = connection]
  <1>1. /\ n \in Build /\ n.at = "stations" /\ n.todo = {}
        /\ UNCHANGED <<net, tables, bounds, clean>>
    BY DEF IInv, TypeOK, StartDelete
  <1>2. build' = [build EXCEPT ![b] = m]
    BY DEF StartDelete, Go, IInv, TypeOK
  <1>3. /\ m.at = "deleting" /\ m.lines = n.lines /\ m.old = connection
        /\ m.todo = n.todo /\ m.loaded = n.loaded
    BY <1>1 DEF Build
  <1> HIDE DEF m
  <1>4. build'[b] = m /\ \A o \in Builder : o # b => build'[o] = build[o]
    BY <1>2 DEF IInv, TypeOK
  <1>5. b \in clean => Undisturbed(build[b])'
    BY <1>1, <1>3, <1>4 DEF Clean, Undisturbed, Rows, tables
  <1> QED BY <1>1, <1>4, <1>5, AloneStep

LEMMA DeleteClean ==
  ASSUME IInv, Clean, NEW b \in Builder, Delete(b)
  PROVE  Clean'
  <1> DEFINE n == build[b]
             m == [n EXCEPT !.at = "sequences", !.todo = n.lines]
  <1>1. /\ n \in Build /\ n.at = "deleting" /\ n.new = {}
        /\ UNCHANGED <<net, tables, bounds, clean>>
    BY DEF IInv, TypeOK, SeesCommon, Delete
  <1>2. build' = [build EXCEPT ![b] = m]
    BY DEF Delete, Go, IInv, TypeOK
  <1>3. /\ m.at = "sequences" /\ m.lines = n.lines /\ m.old = n.old
        /\ m.todo = n.lines /\ m.loaded = n.loaded /\ m.new = {}
    BY <1>1 DEF Build
  <1> HIDE DEF m
  <1>4. build'[b] = m /\ \A o \in Builder : o # b => build'[o] = build[o]
    BY <1>2 DEF IInv, TypeOK
  <1>5. b \in clean => Undisturbed(build[b])'
    BY <1>1, <1>3, <1>4 DEF Clean, Undisturbed, Rows, Answers, Complete, tables
  <1> QED BY <1>1, <1>4, <1>5, AloneStep

\* Every stop of the line has a row, so no pair is passed over.
LEMMA AllPairs ==
  ASSUME IInv, NEW line \in Line, NEW n, n.lines = {l \in Line : Network[net][l] # <<>>},
         \A l \in n.lines : \A s \in StopsOf(net, l) : l \in stationRow[s]
  PROVE  Pairs(line, TRUE) = LineEdges(net, line)
  <1> SUFFICES ASSUME NEW e \in LineEdges(net, line)
               PROVE  stationRow[e[1]] # {} /\ stationRow[e[2]] # {}
    BY DEF Pairs
  <1>1. e[1] \in StopsOf(net, line) /\ e[2] \in StopsOf(net, line) /\ line \in n.lines
    BY EdgeFacts DEF IInv, TypeOK
  <1> QED BY <1>1

LEMMA FetchInboundClean ==
  ASSUME IInv, Clean, NEW b \in Builder, NEW line \in Line, NEW ok \in BOOLEAN,
         FetchInbound(b, line, ok)
  PROVE  Clean'
  <1> DEFINE n == build[b]
             m == [n EXCEPT !.at = "outbound", !.line = line, !.todo = @ \ {line},
                            !.new = @ \cup Pairs(line, ok),
                            !.got = RoutesOf("inbound", line, ok)]
  <1>1. /\ n \in Build /\ n.at = "sequences" /\ UNCHANGED <<net, tables>>
        /\ clean' = IF ok THEN clean ELSE clean \ {b}
    BY DEF IInv, TypeOK, FetchInbound, Swallow
  <1>2. build' = [build EXCEPT ![b] = m]
    BY DEF FetchInbound, Go, IInv, TypeOK
  <1>3. /\ m.at = "outbound" /\ m.lines = n.lines /\ m.old = n.old /\ m.loaded = n.loaded
        /\ m.todo = n.todo \ {line} /\ m.line = line /\ m.routes = n.routes
        /\ m.got = RoutesOf("inbound", line, ok) /\ m.new = n.new \cup Pairs(line, ok)
    BY <1>1 DEF Build
  <1> HIDE DEF m
  <1>4. build'[b] = m /\ \A o \in Builder : o # b => build'[o] = build[o]
    BY <1>2 DEF IInv, TypeOK
  <1>5. ASSUME b \in clean, b \in clean' PROVE Undisturbed(build[b])'
    <2>1. ok = TRUE
      BY <1>1, <1>5
    <2>2. /\ n.lines = {l \in Line : Network[net][l] # <<>>}
          /\ \A l \in n.lines : \A s \in StopsOf(net, l) : l \in stationRow[s]
          /\ Answers(n) /\ Undisturbed(n)
      BY <1>1, <1>5 DEF Clean, Undisturbed, Rows
    <2>3. m.new = n.new \cup LineEdges(net, line)
      BY <1>3, <2>1, <2>2, AllPairs
    <2>4. ASSUME NEW l \in m.lines \ m.todo
          PROVE  Complete(m, l)
      <3>1. Network[net][l] # <<>>
        BY <1>3, <2>2
      <3>2. CASE l = line
        BY <1>3, <2>1, <2>3, <3>1, <3>2 DEF RoutesOf, Complete
      <3>3. CASE l # line
        BY <1>1, <1>3, <2>2, <2>3, <3>3 DEF Answers, Complete
      <3> QED BY <3>2, <3>3
    <2>5. m.new \subseteq NetworkEdges(net)
      BY <2>2, <2>3 DEF Answers, NetworkEdges
    <2>6. UNCHANGED <<net, stationRow, connection, variants>>
      BY <1>1 DEF tables
    <2>7. Answers(build[b])'
      BY <1>4, <2>4, <2>5, <2>6 DEF Answers, Complete
    <2>8. /\ m.lines = {l \in Line : Network[net][l] # <<>>} /\ m.loaded = variants
          /\ m.old = connection
      BY <1>1, <1>3, <2>2 DEF Undisturbed
    <2> QED BY <1>3, <1>4, <2>2, <2>6, <2>7, <2>8 DEF Undisturbed, Rows
  <1>6. clean' \subseteq clean /\ build[b].at # "idle"
    BY <1>1
  <1> QED BY <1>4, <1>5, <1>6, AloneStep

\* With the second direction the routes of the line are complete.
LEMMA FetchOutboundClean ==
  ASSUME IInv, Clean, NEW b \in Builder, NEW ok \in BOOLEAN, FetchOutbound(b, ok)
  PROVE  Clean'
  <1> DEFINE n == build[b]
             found == n.got \cup RoutesOf("outbound", n.line, ok)
             m == [n EXCEPT !.at = "sequences", !.line = "none", !.got = {},
                            !.new = @ \cup Pairs(n.line, ok),
                            !.routes = Stored(@, n.line, found)]
  <1>1. /\ n \in Build /\ n.at = "outbound" /\ n.line \in Line
        /\ UNCHANGED <<net, tables>> /\ clean' = IF ok THEN clean ELSE clean \ {b}
    BY DEF IInv, TypeOK, SeesCommon, FetchOutbound, Swallow
  <1>2. build' = [build EXCEPT ![b] = m]
    BY DEF FetchOutbound, Go, IInv, TypeOK
  <1>3. /\ m.at = "sequences" /\ m.lines = n.lines /\ m.old = n.old /\ m.loaded = n.loaded
        /\ m.todo = n.todo /\ m.routes = Stored(n.routes, n.line, found)
        /\ m.new = n.new \cup Pairs(n.line, ok)
    BY <1>1 DEF Build
  <1> HIDE DEF m
  <1>4. build'[b] = m /\ \A o \in Builder : o # b => build'[o] = build[o]
    BY <1>2 DEF IInv, TypeOK
  <1>5. ASSUME b \in clean, b \in clean' PROVE Undisturbed(build[b])'
    <2>1. ok = TRUE
      BY <1>1, <1>5
    <2>2. /\ n.lines = {l \in Line : Network[net][l] # <<>>}
          /\ \A l \in n.lines : \A s \in StopsOf(net, l) : l \in stationRow[s]
          /\ Answers(n) /\ Undisturbed(n)
      BY <1>1, <1>5 DEF Clean, Undisturbed, Rows
    <2>3. m.new = n.new \cup LineEdges(net, n.line)
      BY <1>1, <1>3, <2>1, <2>2, AllPairs
    <2>4. ASSUME NEW l \in m.lines \ m.todo
          PROVE  Complete(m, l)
      <3>1. n.routes \in [Line -> SUBSET Route] /\ l \in Line /\ Network[net][l] # <<>>
        BY <1>1, <1>3, <2>2 DEF Build
      <3>2. Complete(n, l)
        BY <1>3, <2>2 DEF Answers
      <3>3. CASE l = n.line
        <4>1. found = Directions \X {Network[net][l]}
          BY <1>1, <2>1, <3>1, <3>2, <3>3 DEF Complete, RoutesOf, Directions
        <4>2. m.routes[l] = Directions \X {Network[net][l]}
          <5>1. Directions \X {Network[net][l]} # {}
            <6>1. <<"inbound", Network[net][l]>> \in Directions \X {Network[net][l]}
              BY DEF Directions
            <6> QED BY <6>1
          <5>2. found # {}
            BY <4>1, <5>1
          <5>3. m.routes[l] = found
            <6> HIDE DEF found
            <6> QED BY <1>3, <3>1, <3>3, <5>2 DEF Stored
          <5> QED BY <4>1, <5>3
        <4> QED BY <1>3, <2>3, <3>3, <4>2 DEF Complete
      <3>4. CASE l # n.line
        <4>1. m.routes[l] = n.routes[l]
          BY <1>3, <3>1, <3>4 DEF Stored
        <4> QED BY <1>3, <2>3, <3>2, <3>4, <4>1 DEF Complete
      <3> QED BY <3>3, <3>4
    <2>5. m.new \subseteq NetworkEdges(net)
      BY <1>1, <2>2, <2>3 DEF Answers, NetworkEdges
    <2>6. UNCHANGED <<net, stationRow, connection, variants>>
      BY <1>1 DEF tables
    <2>7. Answers(build[b])'
      BY <1>4, <2>4, <2>5, <2>6 DEF Answers, Complete
    <2>8. /\ m.lines = {l \in Line : Network[net][l] # <<>>} /\ m.loaded = variants
          /\ m.old = connection
      BY <1>1, <1>3, <2>2 DEF Undisturbed
    <2> QED BY <1>3, <1>4, <2>2, <2>6, <2>7, <2>8 DEF Undisturbed, Rows
  <1>6. clean' \subseteq clean /\ build[b].at # "idle"
    BY <1>1
  <1> QED BY <1>4, <1>5, <1>6, AloneStep

\* Who commits, is refused or fails is no longer one of them.
LEMMA EndClean ==
  ASSUME IInv, Clean, NEW b \in Builder, build[b].at # "idle", clean' = clean \ {b}
  PROVE  Clean'
  <1>1. clean' = {}
    BY DEF Clean, Alone, IInv, TypeOK, Busy
  <1> QED BY <1>1 DEF Clean

LEMMA NextClean == IInv /\ Clean /\ [Next]_graphVars => Clean'
  <1> SUFFICES ASSUME IInv, Clean, [Next]_graphVars PROVE Clean'
    OBVIOUS
  <1>1. ASSUME NEW b \in Builder, FetchLines(b) PROVE Clean'
    BY <1>1, FetchLinesClean
  <1>2. ASSUME NEW b \in Builder, BuildStep(b) PROVE Clean'
    <2>1. CASE \E line \in Line : FetchStations(b, line)
      BY <2>1, FetchStationsClean
    <2>2. CASE \E line \in Line : \E ok \in BOOLEAN : FetchInbound(b, line, ok)
      BY <2>2, FetchInboundClean
    <2>8. CASE \E ok \in BOOLEAN : FetchOutbound(b, ok)
      BY <2>8, FetchOutboundClean
    <2>3. CASE CommitStations(b)
      BY <2>3, CommitStationsClean
    <2>4. CASE StartDelete(b)
      BY <2>4, StartDeleteClean
    <2>5. CASE Delete(b)
      BY <2>5, DeleteClean
    <2>6. CASE Commit(b)
      BY <2>6, EndClean DEF Commit
    <2>7. CASE Refused(b)
      BY <2>7, EndClean DEF Refused
    <2> QED BY <1>2, <2>1, <2>2, <2>3, <2>4, <2>5, <2>6, <2>7, <2>8 DEF BuildStep
  <1>3. ASSUME NEW b \in Builder, Fail(b) PROVE Clean'
    BY <1>3, EndClean DEF Fail
  <1>4. CASE NetworkChanges
    BY <1>4 DEF NetworkChanges, Clean
  <1>5. CASE UNCHANGED graphVars
    BY <1>5 DEF graphVars, Clean, Alone, Undisturbed, Rows, Answers, Complete
  <1> QED BY <1>1, <1>2, <1>3, <1>4, <1>5 DEF Next

\* What such a build commits is TfL's network.
LEMMA CommitIsExact ==
  ASSUME IInv, Clean, NEW b \in clean, Commit(b)
  PROVE  Exact(stationRow', connection', variants')
  <1> DEFINE n == build[b]
  <1>1. /\ b \in Builder /\ n \in Build /\ n.at = "sequences" /\ n.todo = {}
        /\ stationRow' = stationRow
        /\ connection' = (connection \ n.old) \cup n.new
        /\ variants' = [l \in Line |-> IF n.routes[l] = n.loaded[l] THEN variants[l]
                                       ELSE n.routes[l]]
    BY DEF Commit, IInv, TypeOK, Busy
  <1>2. /\ n.lines = {l \in Line : Network[net][l] # <<>>}
        /\ n.loaded = variants /\ n.old = connection
        /\ \A l \in n.lines : \A s \in StopsOf(net, l) : l \in stationRow[s]
        /\ n.new \subseteq NetworkEdges(net)
        /\ \A l \in n.lines : LineEdges(net, l) \subseteq n.new
                              /\ n.routes[l] = Directions \X {Network[net][l]}
    BY <1>1 DEF Clean, Undisturbed, Rows, Answers, Complete
  <1>3. \A l \in Line : LineEdges(net, l) \subseteq n.new
    <2> SUFFICES ASSUME NEW l \in Line, NEW e \in LineEdges(net, l) PROVE e \in n.new
      OBVIOUS
    <2>1. net \in {0} \cup Versions
      BY DEF IInv, TypeOK
    <2>2. Network[net][l] # <<>>
      BY <2>1, EdgeFacts
    <2>3. l \in n.lines
      BY <1>2, <2>2
    <2> QED BY <1>2, <2>3
  <1>4. connection' = NetworkEdges(net)
    BY <1>1, <1>2, <1>3 DEF NetworkEdges
  <1>5. \A l \in n.lines : variants'[l] = Directions \X {Network[net][l]}
    BY <1>1, <1>2
  <1> QED BY <1>1, <1>2, <1>4, <1>5 DEF Exact

\* Whatever earlier builds have left, the commit of a build that met no other build, no
\* error and no change of TfL's network leaves TfL's graph, for any number of builders.
THEOREM CleanBuildsRepair == Spec => CleanBuildRepairs
  <1>1. Init => Clean
    BY DEF Init, Clean
  <1>2. IInv /\ Clean /\ [Next]_graphVars =>
           [\A b \in clean : Commit(b) => Exact(stationRow', connection', variants')]_graphVars
    BY CommitIsExact
  <1> QED BY <1>1, <1>2, NextClean, SpecIInv, PTL DEF Spec, CleanBuildRepairs
==============================================================================
