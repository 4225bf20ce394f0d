------------------------------ MODULE RouteRules ------------------------------
(* The rules that take a user's journey from the request to his alerts, one      *)
(* request at a time: validate_route, the stations that are stored, the index    *)
(* that is built from them and the disruptions that are matched with it.  Each   *)
(* rule treats hubs in its own way; the properties say that together they agree. *)
(* Rows, sessions and soft deletion are in RouteIndex.                           *)
EXTENDS SequencesExt

CONSTANTS
    StationOrder,    \* the stations, sorted by tfl_id
    Hub, HubOf,      \* hubs; of each station its hub or None
    Line, None,
    Network,         \* states of the tables
    Variants,        \* of each network and line: its route variants
    Serves,          \* of each network and line: the stations whose `lines` have it
    Request,         \* journeys a client may send: sequences of [at, line]
    Report,          \* line statuses of TfL: [line, severity, sections], a section being
                     \* [named, stops], where a stop without a NaPTAN id is None
    Disabled,        \* severities that do not alert
    MAX_ROUTE_SEGMENTS

MIN_ROUTE_SEGMENTS == 2
Station == ToSet(StationOrder)
Id == Station \cup Hub
Segment == [at : Id, line : Line \cup {None}]

ASSUME OrderAssumption == StationOrder \in Seq(Station)
ASSUME HubAssumption == HubOf \in [Station -> Hub \cup {None}] /\ Hub \cap Station = {}
ASSUME VariantAssumption == Variants \in [Network -> [Line -> SUBSET Seq(Station)]]
\* A station of a variant is among the stations TfL lists for the line.
ASSUME ServesAssumption ==
    /\ Serves \in [Network -> [Line -> SUBSET Station]]
    /\ \A n \in Network, l \in Line : \A v \in Variants[n][l] : Range(v) \subseteq Serves[n][l]
ASSUME NoneAssumption == None \notin Line \cup Station \cup Hub
ASSUME InputAssumption == Request \subseteq Seq(Segment) /\ \A status \in Report : status.line \in Line

VARIABLES
    net,       \* the tables the request reads
    request,   \* what the client sent
    at,        \* what was done last
    verdict,   \* of validate_route
    stored,    \* UserRouteSegment rows
    index,     \* UserRouteStationIndex rows: <<line, station>>
    report,    \* a status of TfL, and who learns of it
    alerted, shown

ruleVars == <<net, request, at, verdict, stored, index, report, alerted, shown>>

Unjudged == [is |-> "none", at |-> 0]
NoReport == [line |-> None, severity |-> None, sections |-> {}]

RulesInit ==
    /\ net \in Network /\ request \in Request
    /\ at = "sent" /\ verdict = Unjudged
    /\ stored = <<>> /\ index = {}
    /\ report = NoReport /\ alerted = FALSE /\ shown = FALSE

------------------------------------------------------------------------------
(* Stations and hubs *)

FirstOf(stations) == StationOrder[Min({i \in DOMAIN StationOrder : StationOrder[i] \in stations})]
Members(hub) == {s \in Station : HubOf[s] = hub}

Serving(stations, line) == stations \cap Serves[net][line]

\* resolve_station_or_hub: a station by its own tfl_id, else the first of the hub that
\* serves the line, any when there is no line; 404 without candidates.
Candidates(id, line) ==
    IF id \in Station THEN {id}
    ELSE IF line = None THEN Members(id) ELSE Serving(Members(id), line)
Resolve(segment) == FirstOf(Candidates(segment.at, segment.line))
Resolvable(segment) == Candidates(segment.at, segment.line) # {}

\* Mutant: a station stands for itself alone.
MEquivalents(s) == {s}

\* _get_hub_equivalent_stations
Equivalents(s) == IF HubOf[s] = None THEN {s} ELSE Members(HubOf[s])

\* check_stations_in_route and validate_station_order: the first occurrence of each.
Place(s, variant) == Min({i \in DOMAIN variant : variant[i] = s})
InOrder(from, to, variant) ==
    {from, to} \subseteq Range(variant) /\ Place(from, variant) < Place(to, variant)
\* _check_any_hub_connection
Connected(from, to, line) ==
    \E f \in Equivalents(from), t \in Equivalents(to) :
        \E v \in Variants[net][line] : InOrder(f, t, v)

------------------------------------------------------------------------------
(* Validation *)

RightLength(segments) == Len(segments) \in MIN_ROUTE_SEGMENTS .. MAX_ROUTE_SEGMENTS
Hops(segments) == 1 .. Len(segments) - 1
Repeated(segments) == {j \in DOMAIN segments : \E i \in 1 .. j - 1 : segments[i].at = segments[j].at}
NoLine(segments) == {i \in Hops(segments) : segments[i].line = None}
Broken(segments) ==
    {i \in Hops(segments) :
        ~Connected(Resolve(segments[i]), Resolve(segments[i + 1]), segments[i].line)}
Invalid(i) == [is |-> "invalid", at |-> i]
Missing == [is |-> "missing", at |-> 0]

\* Mutant: the position counted from one more.
MJudged(segments) == Invalid(Len(segments) + 1)

\* validate_route: the number of segments, ids that repeat (whose name is looked up as a
\* station's, so a hub is "not found"), lines, resolution, connections; the first that fails.
Judged(segments) ==
    IF ~RightLength(segments) THEN Invalid(0)
    ELSE IF Repeated(segments) # {}
         THEN LET j == Min(Repeated(segments)) IN
              IF segments[j].at \in Station THEN Invalid(j) ELSE Missing
    ELSE IF NoLine(segments) # {} THEN Invalid(Min(NoLine(segments)))
    ELSE IF \E i \in DOMAIN segments : ~Resolvable(segments[i]) THEN Missing
    ELSE IF Broken(segments) # {} THEN Invalid(Min(Broken(segments)))
    ELSE [is |-> "valid", at |-> 0]

Validate ==
    /\ at = "sent"
    /\ verdict' = Judged(request)
    /\ at' = IF verdict'.is = "valid" THEN "validated" ELSE "done"
    /\ UNCHANGED <<net, request, stored, index, report, alerted, shown>>

\* upsert_segments: each segment is resolved with its own line.
Store ==
    /\ at = "validated"
    /\ stored' = [i \in DOMAIN request |-> [at |-> Resolve(request[i]), line |-> request[i].line]]
    /\ at' = "stored"
    /\ UNCHANGED <<net, request, verdict, index, report, alerted, shown>>

------------------------------------------------------------------------------
(* The index *)

\* Mutant: the station as stored.
MOnLine(s, line) == {s}

\* _resolve_station_for_line: any station of the hub that serves the line (LIMIT 1).
OnLine(s, line) == IF HubOf[s] = None THEN {s} ELSE Serving(Members(HubOf[s]), line)

\* Mutant: the stations between are left out.
MBetween(from, to, v) == {from, to}

Between(from, to, v) ==
    LET i == Place(from, v)  j == Place(to, v) IN
    {v[k] : k \in Min({i, j}) .. Max({i, j})}
\* _expand_segment_to_stations; no variant is an error that _process_segments swallows.
Expanded(from, to, line) ==
    UNION {Between(from, to, v) : v \in {w \in Variants[net][line] : {from, to} \subseteq Range(w)}}

\* build_route_station_index in the same transaction.
BuildIndex ==
    /\ at = "stored"
    /\ IF \E i \in Hops(stored) : {} \in {OnLine(stored[i].at, stored[i].line),
                                          OnLine(stored[i + 1].at, stored[i].line)}
       THEN at' = "failed" /\ UNCHANGED index
       ELSE /\ at' = "indexed"
            /\ \E from, to \in [Hops(stored) -> Station] :
                 /\ \A i \in Hops(stored) : /\ from[i] \in OnLine(stored[i].at, stored[i].line)
                                            /\ to[i] \in OnLine(stored[i + 1].at, stored[i].line)
                 /\ index' = UNION {{stored[i].line} \X Expanded(from[i], to[i], stored[i].line) :
                                       i \in Hops(stored)}
    /\ UNCHANGED <<net, request, verdict, stored, report, alerted, shown>>

------------------------------------------------------------------------------
(* Disruptions *)

\* Sections that have all their fields and a stop: _extract_affected_routes_from_disruption.
AffectedRoutes(status) ==
    {section.stops \ {None} : section \in {x \in status.sections : x.named}} \ {{}}
\* _extract_disruption_from_line_status
Disruption(status) ==
    [line |-> status.line, severity |-> status.severity,
     stations |-> UNION AffectedRoutes(status)]

Pairs(d) == {d.line} \X d.stations
Matches(d) == Pairs(d) \cap index # {}
\* Lines of the index, or of the segments as long as there is no index.
LinesOf == IF index # {} THEN {e[1] : e \in index}
           ELSE {stored[i].line : i \in DOMAIN stored} \ {None}

\* A poll (_get_route_disruptions) matches stations, or the line when TfL names no station;
\* the page of the route (match_disruptions_to_route) matches stations only.
Alerts(d) ==
    /\ d.severity \notin Disabled
    /\ IF d.stations # {} THEN Matches(d) ELSE d.line \in LinesOf
Shows(d) == d.severity \notin Disabled /\ Matches(d)

Disrupt(status) ==
    /\ at = "indexed"
    /\ report' = status
    /\ alerted' = Alerts(Disruption(status)) /\ shown' = Shows(Disruption(status))
    /\ at' = "done"
    /\ UNCHANGED <<net, request, verdict, stored, index>>

RulesNext == Validate \/ Store \/ BuildIndex \/ \E status \in Report : Disrupt(status)
RulesSpec == RulesInit /\ [][RulesNext]_ruleVars

------------------------------------------------------------------------------
\* Every variable has its type, and a verdict names a segment of the request.
RulesTypeOK ==
    /\ net \in Network /\ request \in Request
    /\ at \in {"sent", "validated", "stored", "failed", "indexed", "done"}
    /\ verdict.is \in {"none", "valid", "invalid", "missing"}
    /\ verdict.at \in {0} \cup DOMAIN request
    /\ stored = <<>> \/ stored \in Seq([at : Station, line : Line \cup {None}])
    /\ index \subseteq Line \X Station
    /\ report \in Report \cup {NoReport} /\ alerted \in BOOLEAN /\ shown \in BOOLEAN

\* A place is a hub with all its stations, or a station without one.
PlaceOf(id) == IF id \in Hub THEN Members(id) ELSE Equivalents(id)
\* No variant calls twice at a station: a loop would.
Simple == \A l \in Line : \A v \in Variants[net][l] : IsInjective(v)
\* A line serves one station of a hub.
OneOfHub == \A l \in Line, s, t \in Station :
                s # t /\ HubOf[s] = HubOf[t] /\ HubOf[s] # None => ~({s, t} \subseteq Serves[net][l])
Travels(i, v) ==
    \E j, k \in DOMAIN v : j < k /\ v[j] \in PlaceOf(request[i].at) /\ v[k] \in PlaceOf(request[i + 1].at)

\* The reference: some variant of the line runs from the one place to the other.
IsJourney ==
    /\ Len(request) \in MIN_ROUTE_SEGMENTS .. MAX_ROUTE_SEGMENTS
    /\ IsInjective([i \in DOMAIN request |-> request[i].at])
    /\ \A i \in Hops(request) :
          request[i].line # None /\ \E v \in Variants[net][request[i].line] : Travels(i, v)
    /\ \A i \in DOMAIN request :
          LET here == PlaceOf(request[i].at) IN
          /\ here # {}
          /\ request[i].at \in Hub /\ request[i].line # None
                => here \cap Serves[net][request[i].line] # {}

\* Validation accepts exactly the journeys on which each hop can be travelled between the two
\* places, whatever mixture of stations and hubs the request names them with (validate_route).
AcceptsJourneys == Simple /\ at # "sent" => (verdict.is = "valid" <=> IsJourney)

\* "Should not happen if validation passed" (_resolve_station_for_line): the index of an
\* accepted journey is built, and as long as a line serves one station of a hub, all its hops
\* are in it, though validation, storage and index each resolve hubs in another way.
AcceptedIsIndexed ==
    /\ at # "failed"
    /\ OneOfHub /\ at = "indexed" =>
          \A i \in Hops(request) : \A id \in {request[i].at, request[i + 1].at} :
              \E s \in PlaceOf(id) : <<request[i].line, s>> \in index

\* TfL's status can be read whole or names no stop that can be read.
Legible ==
    \/ AffectedRoutes(report) = {}
    \/ UNION AffectedRoutes(report) = (UNION {section.stops : section \in report.sections}) \ {None}
Passes(v, j, k) == report.sections = {} \/ \E m \in j .. k, section \in report.sections :
                                              v[m] \in section.stops

\* Whoever travels past a disruption that alerts is told, also when TfL names no stop or none
\* that can be read; and the page shows only what also alerts.
TravellersAreTold ==
    /\ shown => alerted
    /\ Simple /\ OneOfHub /\ report # NoReport /\ report.severity \notin Disabled /\ Legible =>
         \A i \in Hops(request) : \A v \in Variants[net][report.line] :
            (/\ report.line = request[i].line
             /\ \E j, k \in DOMAIN v :
                  /\ j < k /\ v[j] \in PlaceOf(request[i].at) /\ v[k] \in PlaceOf(request[i + 1].at)
                  /\ Passes(v, j, k))
               => alerted

\* "Validate route doesn't visit same station twice" (tfl_service.py:3257): of an accepted
\* journey, no two segments are stored with one station.
NoStationTwice == \A i, j \in DOMAIN stored : stored[i].at = stored[j].at => i = j
===============================================================================
