------------------------- MODULE RouteAlertsProofs -------------------------
(* Who is alerted, and what is counted of it.  Theorems about RouteRules, for    *)
(* every network, request and report: what is accepted, indexed and told of one  *)
(* journey.  Theorems about AlertPoll, for every set of routes, every number of  *)
(* deliveries and of failures: what the statistics of a run say is true.         *)
EXTENDS RouteRules, AlertPoll, FiniteSetTheorems, WellFoundedInduction, TLAPS

(***************************************************************************)
(* The rules of one journey: RouteRules                                    *)
(***************************************************************************)

\* A set of numbers that is not empty has a least one.
LEMMA LeastOfNat == ASSUME NEW S \in SUBSET Nat, S # {} PROVE \E m \in S : \A k \in S : m <= k
<1> DEFINE upto(k) == {m \in S : m <= k}
           T == {upto(k) : k \in S}
<1>1. T \subseteq FiniteSubsetsOf(S) /\ T # {}
  <2>1. ASSUME NEW k \in S PROVE IsFiniteSet(upto(k)) /\ upto(k) \in SUBSET S
    <3>1. upto(k) \in SUBSET Nat /\ k \in Nat /\ \A m \in upto(k) : m <= k
      OBVIOUS
    <3> QED  BY <3>1, FS_BoundedSetOfNaturals
  <2> HIDE DEF upto
  <2>2. \A k \in S : upto(k) \in FiniteSubsetsOf(S)
    BY <2>1 DEF FiniteSubsetsOf
  <2>3. T \subseteq FiniteSubsetsOf(S)
    BY <2>2
  <2>4. \A k \in S : upto(k) \in T
    OBVIOUS
  <2> HIDE DEF T
  <2> QED  BY <2>3, <2>4
<1>2. PICK x \in T : \A y \in T : ~(<<y, x>> \in StrictSubsetOrdering(S))
  BY <1>1, FS_StrictSubsetOrderingWellFounded, WFMin
<1>3. PICK m \in S : x = upto(m)
  OBVIOUS
<1>4. ASSUME NEW k \in S, k < m PROVE FALSE
  <2>1. upto(k) \in T /\ upto(k) \in SUBSET S /\ upto(m) \in SUBSET S
    OBVIOUS
  <2>2. upto(k) \subseteq upto(m)
    <3>1. ASSUME NEW j \in S, j <= k PROVE j <= m
      BY <1>4, <3>1
    <3> QED  BY <3>1
  <2>3. m \in upto(m) /\ m \notin upto(k)
    BY <1>4
  <2>4. <<upto(k), x>> \in StrictSubsetOrdering(S)
    BY <1>3, <2>1, <2>2, <2>3 DEF StrictSubsetOrdering
  <2> QED  BY <1>2, <2>1, <2>4
<1>5. \A k \in S : m <= k
  BY <1>4
<1> QED  BY <1>5

\* The first of a set of numbers that is not empty is one of them.
LEMMA FirstIsIn == ASSUME NEW S \in SUBSET Nat, S # {} PROVE Min(S) \in S
BY LeastOfNat DEF Min

------------------------------------------------------------------------------
(* Stations and places *)

\* The station that is chosen is one of the candidates.
LEMMA FirstOfIsIn ==
    ASSUME NEW stations \in SUBSET Station, stations # {}
    PROVE  FirstOf(stations) \in stations
<1>. DEFINE positions == {i \in DOMAIN StationOrder : StationOrder[i] \in stations}
<1>1. positions \in SUBSET Nat /\ positions # {}
  BY OrderAssumption DEF Station, ToSet
<1>2. Min(positions) \in positions
  BY <1>1, FirstIsIn
<1>. QED  BY <1>2 DEF FirstOf

\* A station belongs to its place.
LEMMA StationIsEquivalent ==
    ASSUME NEW s \in Station
    PROVE  s \in Equivalents(s) /\ Equivalents(s) \subseteq Station
BY HubAssumption DEF Equivalents, Members

\* A segment resolves to a station that stands for the place the segment names.
LEMMA ResolveKeepsPlace ==
    ASSUME net \in Network, NEW segment \in Segment, Resolvable(segment)
    PROVE  /\ Resolve(segment) \in Station
           /\ Equivalents(Resolve(segment)) = PlaceOf(segment.at)
<1>. DEFINE candidates == Candidates(segment.at, segment.line)
            s == Resolve(segment)
<1>1. segment.at \in Id /\ segment.line \in Line \cup {None}
  BY DEF Segment
<1>2. candidates \in SUBSET Station /\ candidates # {}
  BY <1>1 DEF Resolvable, Candidates, Members, Serving
<1>3. s \in candidates
  BY <1>2, FirstOfIsIn DEF Resolve
<1>4. CASE segment.at \in Station
  BY <1>3, <1>4, HubAssumption DEF Candidates, PlaceOf
<1>5. CASE segment.at \in Hub
  <2>1. segment.at \notin Station
    BY <1>5, HubAssumption
  <2>2. s \in Members(segment.at)
    BY <1>3, <2>1 DEF Candidates, Serving
  <2>3. HubOf[s] = segment.at /\ s \in Station
    BY <2>2 DEF Members
  <2>4. segment.at # None
    BY <1>5, NoneAssumption
  <2>. QED  BY <1>5, <2>3, <2>4 DEF Equivalents, PlaceOf
<1>. QED  BY <1>1, <1>2, <1>3, <1>4, <1>5 DEF Id

\* What can be resolved: a hub with a station and, on a line, with one of the line.
LEMMA ResolvableIs ==
    ASSUME NEW segment \in Segment
    PROVE  LET here == PlaceOf(segment.at) IN
           Resolvable(segment) <=>
              /\ here # {}
              /\ segment.at \in Hub /\ segment.line # None => here \cap Serves[net][segment.line] # {}
<1>1. segment.at \in Id
  BY DEF Segment
<1>2. CASE segment.at \in Station
  <2>1. segment.at \notin Hub /\ PlaceOf(segment.at) # {}
    BY <1>2, HubAssumption, StationIsEquivalent DEF PlaceOf
  <2>. QED  BY <1>2, <2>1 DEF Resolvable, Candidates
<1>3. CASE segment.at \in Hub
  <2>1. segment.at \notin Station
    BY <1>3, HubAssumption
  <2>. QED  BY <1>3, <2>1 DEF Resolvable, Candidates, PlaceOf, Serving
<1>. QED  BY <1>1, <1>2, <1>3 DEF Id

\* The place of a station on a variant that has it.
LEMMA PlaceIsOnVariant ==
    ASSUME NEW variant \in Seq(Station), NEW s \in Range(variant)
    PROVE  Place(s, variant) \in DOMAIN variant /\ variant[Place(s, variant)] = s
<1>. DEFINE positions == {i \in DOMAIN variant : variant[i] = s}
<1>1. positions \in SUBSET Nat /\ positions # {}
  BY DEF Range
<1>2. Min(positions) \in positions
  BY <1>1, FirstIsIn
<1>. QED  BY <1>2 DEF Place

\* On a variant that calls nowhere twice a station has one place.
LEMMA PlaceIs ==
    ASSUME NEW variant \in Seq(Station), IsInjective(variant), NEW k \in DOMAIN variant
    PROVE  Place(variant[k], variant) = k
<1>1. variant[k] \in Range(variant)
  BY DEF Range
<1>. QED  BY <1>1, PlaceIsOnVariant DEF IsInjective

\* The variants of a line are sequences of stations that the line serves.
LEMMA VariantIs ==
    ASSUME net \in Network, NEW line \in Line, NEW v \in Variants[net][line]
    PROVE  v \in Seq(Station) /\ Range(v) \subseteq Serves[net][line]
BY VariantAssumption, ServesAssumption

------------------------------------------------------------------------------
(* Validation *)

\* What validation accepts, its conditions together.
LEMMA JudgedIs ==
    ASSUME NEW segments
    PROVE  Judged(segments).is = "valid" <=>
              /\ RightLength(segments) /\ Repeated(segments) = {} /\ NoLine(segments) = {}
              /\ \A i \in DOMAIN segments : Resolvable(segments[i])
              /\ Broken(segments) = {}
BY DEF Judged, Invalid, Missing

\* A verdict has its type and names a segment.
LEMMA JudgedType ==
    ASSUME NEW segments \in Seq(Segment)
    PROVE  /\ Judged(segments).is \in {"valid", "invalid", "missing"}
           /\ Judged(segments).at \in {0} \cup DOMAIN segments
<1>1. /\ Repeated(segments) \in SUBSET DOMAIN segments
      /\ NoLine(segments) \in SUBSET DOMAIN segments
      /\ Broken(segments) \in SUBSET DOMAIN segments
      /\ DOMAIN segments \subseteq Nat
  BY DEF Repeated, NoLine, Broken, Hops
<1>2. \A S \in SUBSET DOMAIN segments : S # {} => Min(S) \in DOMAIN segments
  BY <1>1, FirstIsIn
<1>. QED  BY <1>1, <1>2 DEF Judged, Invalid, Missing

\* Two stations are connected exactly if a variant runs from the place of the one to the
\* place of the other.
LEMMA ConnectedIs ==
    ASSUME net \in Network, Simple, NEW from \in Station, NEW to \in Station, NEW line \in Line
    PROVE  Connected(from, to, line) <=>
              \E v \in Variants[net][line] : \E j, k \in DOMAIN v :
                 j < k /\ v[j] \in Equivalents(from) /\ v[k] \in Equivalents(to)
<1>1. ASSUME NEW v \in Variants[net][line]
      PROVE  (\E f \in Equivalents(from), t \in Equivalents(to) : InOrder(f, t, v))
             <=> (\E j, k \in DOMAIN v :
                     j < k /\ v[j] \in Equivalents(from) /\ v[k] \in Equivalents(to))
  <2>1. v \in Seq(Station) /\ IsInjective(v)
    BY VariantIs DEF Simple
  <2>2. ASSUME NEW f \in Equivalents(from), NEW t \in Equivalents(to), InOrder(f, t, v)
        PROVE  \E j, k \in DOMAIN v :
                  j < k /\ v[j] \in Equivalents(from) /\ v[k] \in Equivalents(to)
    <3>1. /\ Place(f, v) \in DOMAIN v /\ v[Place(f, v)] = f
          /\ Place(t, v) \in DOMAIN v /\ v[Place(t, v)] = t
          /\ Place(f, v) < Place(t, v)
      BY <2>1, <2>2, PlaceIsOnVariant DEF InOrder
    <3>. QED  BY <3>1
  <2>3. ASSUME NEW j \in DOMAIN v, NEW k \in DOMAIN v, j < k,
               v[j] \in Equivalents(from), v[k] \in Equivalents(to)
        PROVE  InOrder(v[j], v[k], v)
    <3>1. Place(v[j], v) = j /\ Place(v[k], v) = k
      BY <2>1, PlaceIs
    <3>. QED  BY <2>3, <3>1 DEF InOrder, Range
  <2>. QED  BY <2>2, <2>3
<1>. QED  BY <1>1 DEF Connected

\* Ids that do not repeat are injective.
LEMMA RepeatedIs ==
    ASSUME NEW segments \in Seq(Segment)
    PROVE  Repeated(segments) = {} <=> IsInjective([i \in DOMAIN segments |-> segments[i].at])
<1>1. DOMAIN segments = 1 .. Len(segments) /\ Len(segments) \in Nat
  OBVIOUS
<1>2. ASSUME Repeated(segments) = {}, NEW a \in DOMAIN segments, NEW b \in DOMAIN segments,
             segments[a].at = segments[b].at
      PROVE  a = b
  <2>1. ~(a < b) /\ ~(b < a)
    BY <1>1, <1>2 DEF Repeated
  <2>. QED  BY <1>1, <2>1
<1>3. ASSUME NEW j \in Repeated(segments)
      PROVE  \E a, b \in DOMAIN segments : segments[a].at = segments[b].at /\ a # b
  BY <1>1 DEF Repeated
<1>. QED  BY <1>2, <1>3 DEF IsInjective

\* The verdict is right, as long as no variant calls twice at a station.
LEMMA JudgedIsRight ==
    ASSUME net \in Network, request \in Seq(Segment), Simple
    PROVE  Judged(request).is = "valid" <=> IsJourney
<1>1. DOMAIN request = 1 .. Len(request) /\ Len(request) \in Nat
  OBVIOUS
<1>2. \A i \in DOMAIN request : request[i] \in Segment /\ request[i].line \in Line \cup {None}
  <2>1. \A segment \in Segment : segment.line \in Line \cup {None}
    BY DEF Segment
  <2>. QED  BY <2>1
<1>. DEFINE Placed == \A i \in DOMAIN request :
                        LET here == PlaceOf(request[i].at) IN
                        /\ here # {}
                        /\ request[i].at \in Hub /\ request[i].line # None
                              => here \cap Serves[net][request[i].line] # {}
            Travelled == \A i \in Hops(request) : \E v \in Variants[net][request[i].line] : Travels(i, v)
<1>3. (\A i \in DOMAIN request : Resolvable(request[i])) <=> Placed
  BY <1>2, ResolvableIs
<1>4. NoLine(request) = {} <=> \A i \in Hops(request) : request[i].line # None
  BY DEF NoLine
<1>5. ASSUME Placed, NoLine(request) = {}
      PROVE  Broken(request) = {} <=> Travelled
  <2>1. ASSUME NEW i \in Hops(request)
        PROVE  Connected(Resolve(request[i]), Resolve(request[i + 1]), request[i].line)
               <=> \E v \in Variants[net][request[i].line] : Travels(i, v)
    <3>1. i \in DOMAIN request /\ i + 1 \in DOMAIN request
      BY <1>1 DEF Hops
    <3>2. request[i].line \in Line
      BY <1>2, <1>4, <1>5, <3>1
    <3>3. /\ Resolve(request[i]) \in Station /\ Resolve(request[i + 1]) \in Station
          /\ Equivalents(Resolve(request[i])) = PlaceOf(request[i].at)
          /\ Equivalents(Resolve(request[i + 1])) = PlaceOf(request[i + 1].at)
      BY <1>2, <1>3, <1>5, <3>1, ResolveKeepsPlace
    <3>. QED  BY <3>2, <3>3, ConnectedIs DEF Travels
  <2>. QED  BY <2>1 DEF Broken
<1>6. Repeated(request) = {} <=> IsInjective([i \in DOMAIN request |-> request[i].at])
  BY RepeatedIs
<1>7. IsJourney <=> /\ RightLength(request)
                    /\ IsInjective([i \in DOMAIN request |-> request[i].at])
                    /\ \A i \in Hops(request) : request[i].line # None
                    /\ Placed /\ Travelled
  BY DEF IsJourney, RightLength
<1>. HIDE DEF Placed, Travelled
<1>. QED  BY <1>3, <1>4, <1>5, <1>6, <1>7, JudgedIs

------------------------------------------------------------------------------
(* The index of an accepted journey *)

\* The rows of the request, and the index that may be built from rows.
Rows == [i \in DOMAIN request |-> [at |-> Resolve(request[i]), line |-> request[i].line]]
EndsOf(from, to) ==
    /\ from \in [Hops(stored) -> Station] /\ to \in [Hops(stored) -> Station]
    /\ \A i \in Hops(stored) : /\ from[i] \in OnLine(stored[i].at, stored[i].line)
                               /\ to[i] \in OnLine(stored[i + 1].at, stored[i].line)
IndexOf(from, to) ==
    UNION {{stored[i].line} \X Expanded(from[i], to[i], stored[i].line) : i \in Hops(stored)}
Built == \E from, to : EndsOf(from, to) /\ index = IndexOf(from, to)

\* What an accepted request has: lines on its hops, and stations for its places.
Accepted ==
    /\ \A i \in DOMAIN request : /\ Resolve(request[i]) \in Station
                                 /\ Equivalents(Resolve(request[i])) = PlaceOf(request[i].at)
    /\ \A i \in Hops(request) :
         /\ request[i].line \in Line
         /\ \E f \in PlaceOf(request[i].at), t \in PlaceOf(request[i + 1].at) :
               \E v \in Variants[net][request[i].line] : InOrder(f, t, v)

\* A request that is judged valid is accepted in this sense, loops or not.
LEMMA ValidIsAccepted ==
    ASSUME net \in Network, request \in Seq(Segment), Judged(request).is = "valid"
    PROVE  Accepted
<1>1. DOMAIN request = 1 .. Len(request) /\ Len(request) \in Nat
  OBVIOUS
<1>2. /\ NoLine(request) = {} /\ Broken(request) = {}
      /\ \A i \in DOMAIN request : Resolvable(request[i])
  BY JudgedIs
<1>3. \A i \in DOMAIN request : request[i] \in Segment
  OBVIOUS
<1>4. ASSUME NEW i \in DOMAIN request
      PROVE  /\ Resolve(request[i]) \in Station
             /\ Equivalents(Resolve(request[i])) = PlaceOf(request[i].at)
  BY <1>2, <1>3, ResolveKeepsPlace
<1>5. ASSUME NEW i \in Hops(request)
      PROVE  /\ request[i].line \in Line
             /\ \E f \in PlaceOf(request[i].at), t \in PlaceOf(request[i + 1].at) :
                   \E v \in Variants[net][request[i].line] : InOrder(f, t, v)
  <2>1. i \in DOMAIN request /\ i + 1 \in DOMAIN request
    BY <1>1 DEF Hops
  <2>2. request[i].line \in Line
    BY <1>2, <1>3, <2>1 DEF NoLine, Segment
  <2>3. Connected(Resolve(request[i]), Resolve(request[i + 1]), request[i].line)
    BY <1>2 DEF Broken
  <2>. QED  BY <1>4, <2>1, <2>2, <2>3 DEF Connected
<1>. QED  BY <1>4, <1>5 DEF Accepted

\* A station of the place that the line serves is one the index may take.
LEMMA ServedIsOnLine ==
    ASSUME NEW s \in Station, NEW line, NEW f \in Equivalents(s), f \in Serves[net][line]
    PROVE  f \in OnLine(s, line)
BY DEF OnLine, Equivalents, Serving

\* What the index takes is a station of the place.
LEMMA OnLineIsPlace ==
    ASSUME NEW s \in Station, NEW line, NEW f \in OnLine(s, line)
    PROVE  f \in Equivalents(s) /\ f \in Station
BY DEF OnLine, Equivalents, Serving, Members

\* It is the only one if the line serves one station of a hub.
LEMMA OnLineIsOne ==
    ASSUME OneOfHub, NEW s \in Station, NEW line \in Line,
           NEW f \in OnLine(s, line), NEW g \in OnLine(s, line)
    PROVE  f = g
BY DEF OneOfHub, OnLine, Serving, Members

\* The stations between two of a variant, and both of them, are on it.
LEMMA BetweenIs ==
    ASSUME NEW v \in Seq(Station), NEW f \in Range(v), NEW t \in Range(v)
    PROVE  /\ Between(f, t, v) \subseteq Range(v)
           /\ f \in Between(f, t, v) /\ t \in Between(f, t, v)
           /\ \A k \in DOMAIN v :
                 Place(f, v) <= k /\ k <= Place(t, v) => v[k] \in Between(f, t, v)
<1>. DEFINE i == Place(f, v)
            j == Place(t, v)
<1>1. DOMAIN v = 1 .. Len(v) /\ Len(v) \in Nat
  OBVIOUS
<1>2. i \in 1 .. Len(v) /\ v[i] = f /\ j \in 1 .. Len(v) /\ v[j] = t
  BY <1>1, PlaceIsOnVariant
<1>3. Between(f, t, v) = {v[k] : k \in Min({i, j}) .. Max({i, j})}
  BY DEF Between
<1>. HIDE DEF i, j
<1>4. /\ Min({i, j}) \in {i, j} /\ Max({i, j}) \in {i, j}
      /\ Min({i, j}) <= i /\ Min({i, j}) <= j /\ i <= Max({i, j}) /\ j <= Max({i, j})
  BY <1>2 DEF Min, Max
<1>5. i \in Min({i, j}) .. Max({i, j}) /\ j \in Min({i, j}) .. Max({i, j})
  BY <1>2, <1>4
<1>6. \A k \in Min({i, j}) .. Max({i, j}) : k \in DOMAIN v
  BY <1>1, <1>2, <1>4
<1>7. \A k \in DOMAIN v : i <= k /\ k <= j => k \in Min({i, j}) .. Max({i, j})
  BY <1>1, <1>2, <1>4
<1>8. Between(f, t, v) \subseteq Range(v)
  BY <1>3, <1>6 DEF Range
<1>9. f \in Between(f, t, v) /\ t \in Between(f, t, v)
  BY <1>2, <1>3, <1>5
<1>10. \A k \in DOMAIN v : i <= k /\ k <= j => v[k] \in Between(f, t, v)
  BY <1>3, <1>7
<1>. QED  BY <1>8, <1>9, <1>10 DEF i, j

\* Both ends of each hop have a station to take.
LEMMA EndsExist ==
    ASSUME net \in Network, request \in Seq(Segment), Accepted, stored = Rows
    PROVE  /\ Hops(stored) = Hops(request)
           /\ \A i \in Hops(request) :
                 /\ stored[i].line = request[i].line
                 /\ stored[i].at \in Station /\ stored[i + 1].at \in Station
                 /\ Equivalents(stored[i].at) = PlaceOf(request[i].at)
                 /\ Equivalents(stored[i + 1].at) = PlaceOf(request[i + 1].at)
                 /\ OnLine(stored[i].at, stored[i].line) # {}
                 /\ OnLine(stored[i + 1].at, stored[i].line) # {}
<1>1. DOMAIN request = 1 .. Len(request) /\ Len(request) \in Nat
  OBVIOUS
<1>2. stored \in Seq([at : Station, line : Line \cup {None}]) /\ Len(stored) = Len(request)
  <2>1. \A i \in DOMAIN request : request[i].line \in Line \cup {None}
    <3>1. \A segment \in Segment : segment.line \in Line \cup {None}
      BY DEF Segment
    <3>. QED  BY <3>1
  <2>2. \A i \in DOMAIN request : [at |-> Resolve(request[i]), line |-> request[i].line]
                                    \in [at : Station, line : Line \cup {None}]
    BY <2>1 DEF Accepted
  <2>3. stored = [i \in 1 .. Len(request) |-> [at |-> Resolve(request[i]), line |-> request[i].line]]
    BY <1>1 DEF Rows
  <2>. QED  BY <1>1, <2>2, <2>3
<1>3. Hops(stored) = Hops(request)
  BY <1>2 DEF Hops
<1>4. ASSUME NEW i \in Hops(request)
      PROVE  /\ stored[i].line = request[i].line
             /\ stored[i].at \in Station /\ stored[i + 1].at \in Station
             /\ Equivalents(stored[i].at) = PlaceOf(request[i].at)
             /\ Equivalents(stored[i + 1].at) = PlaceOf(request[i + 1].at)
             /\ OnLine(stored[i].at, stored[i].line) # {}
             /\ OnLine(stored[i + 1].at, stored[i].line) # {}
  <2>1. i \in DOMAIN request /\ i + 1 \in DOMAIN request
    BY <1>1 DEF Hops
  <2>2. /\ stored[i].at = Resolve(request[i]) /\ stored[i].line = request[i].line
        /\ stored[i + 1].at = Resolve(request[i + 1])
    BY <2>1 DEF Rows
  <2>3. /\ stored[i].at \in Station /\ Equivalents(stored[i].at) = PlaceOf(request[i].at)
        /\ stored[i + 1].at \in Station
        /\ Equivalents(stored[i + 1].at) = PlaceOf(request[i + 1].at)
        /\ stored[i].line \in Line
    BY <2>1, <2>2 DEF Accepted
  <2>4. PICK f \in Equivalents(stored[i].at), t \in Equivalents(stored[i + 1].at) :
           \E v \in Variants[net][stored[i].line] : InOrder(f, t, v)
    BY <2>2, <2>3 DEF Accepted
  <2>5. f \in Serves[net][stored[i].line] /\ t \in Serves[net][stored[i].line]
    BY <2>3, <2>4, VariantIs DEF InOrder
  <2>6. f \in OnLine(stored[i].at, stored[i].line) /\ t \in OnLine(stored[i + 1].at, stored[i].line)
    BY <2>3, <2>5, ServedIsOnLine
  <2>. QED  BY <2>2, <2>3, <2>6
<1>. QED  BY <1>3, <1>4

\* Where a line serves one station of a hub, the index has all that lies between the places of
\* a hop, on every variant that runs from the one to the other.
LEMMA IndexHasHop ==
    ASSUME net \in Network, request \in Seq(Segment), Accepted, stored = Rows, Built, OneOfHub,
           NEW i \in Hops(request), NEW v \in Variants[net][request[i].line],
           NEW f \in PlaceOf(request[i].at), NEW t \in PlaceOf(request[i + 1].at),
           f \in Range(v), t \in Range(v)
    PROVE  {request[i].line} \X Between(f, t, v) \subseteq index
<1>. DEFINE line == request[i].line
<1>1. /\ Hops(stored) = Hops(request) /\ stored[i].line = line /\ line \in Line
      /\ stored[i].at \in Station /\ stored[i + 1].at \in Station
      /\ f \in Equivalents(stored[i].at) /\ t \in Equivalents(stored[i + 1].at)
  BY EndsExist DEF Accepted
<1>2. PICK from, to : EndsOf(from, to) /\ index = IndexOf(from, to)
  BY DEF Built
<1>3. f \in OnLine(stored[i].at, line) /\ t \in OnLine(stored[i + 1].at, line)
  <2>1. f \in Serves[net][line] /\ t \in Serves[net][line]
    BY <1>1, VariantIs
  <2>. QED  BY <1>1, <2>1, ServedIsOnLine
<1>4. from[i] = f /\ to[i] = t
  <2>1. from[i] \in OnLine(stored[i].at, line) /\ to[i] \in OnLine(stored[i + 1].at, line)
    BY <1>1, <1>2 DEF EndsOf
  <2>. QED  BY <1>1, <1>3, <2>1, OnLineIsOne
<1>5. Between(f, t, v) \subseteq Expanded(f, t, line)
  BY DEF Expanded
<1>6. {line} \X Expanded(f, t, line) \subseteq index
  BY <1>1, <1>2, <1>4 DEF IndexOf
<1>. QED  BY <1>5, <1>6

------------------------------------------------------------------------------
(* The steps of the request *)

\* What a request has got by each step: a valid verdict, its rows, their index, an answer.
RulesInv ==
    /\ RulesTypeOK
    /\ at = "sent" => verdict = Unjudged
    /\ at # "sent" => verdict = Judged(request)
    /\ at # "failed"
    /\ report # NoReport => at = "done"
    /\ at \in {"validated", "stored", "indexed"} \/ report # NoReport => verdict.is = "valid"
    /\ at \in {"stored", "indexed"} \/ report # NoReport => stored = Rows
    /\ at = "indexed" \/ report # NoReport => Built
    /\ report # NoReport => /\ alerted <=> Alerts(Disruption(report))
                            /\ shown <=> Shows(Disruption(report))
    /\ report = NoReport => ~alerted /\ ~shown

\* A report names a line of the network, which no report at all does not.
LEMMA ReportIsNew == ASSUME NEW status \in Report PROVE status # NoReport
BY InputAssumption, NoneAssumption DEF NoReport

\* The verdict and the rows depend on the request and the tables only.
LEMMA SameVerdict ==
    ASSUME UNCHANGED <<net, request>>
    PROVE  Judged(request)' = Judged(request) /\ Rows' = Rows
<1>1. Rows' = Rows
  BY DEF Rows, Resolve, FirstOf, Candidates, Serving
<1>2. Broken(request)' = Broken(request)
  BY DEF Broken, Connected, Hops, InOrder, Place, Resolve, FirstOf, Candidates, Serving
<1>3. (\A i \in DOMAIN request : Resolvable(request[i]))'
      <=> \A i \in DOMAIN request : Resolvable(request[i])
  BY DEF Resolvable, Candidates, Serving
<1>4. /\ RightLength(request)' <=> RightLength(request)
      /\ Repeated(request)' = Repeated(request) /\ NoLine(request)' = NoLine(request)
  BY DEF RightLength, Repeated, NoLine, Hops
<1>. QED  BY <1>1, <1>2, <1>3, <1>4 DEF Judged, Invalid, Missing

\* The index depends on the rows and the tables only.
LEMMA SameIndex ==
    ASSUME UNCHANGED <<net, stored, index>>
    PROVE  Built' <=> Built
BY DEF Built, EndsOf, IndexOf, OnLine, Serving, Hops, Expanded, Between, Place

\* Nothing is known of a request that was just sent.
LEMMA RulesInitInv == RulesInit => RulesInv
<1>. SUFFICES ASSUME RulesInit PROVE RulesInv
  OBVIOUS
<1>1. /\ net \in Network /\ request \in Request /\ at = "sent" /\ verdict = Unjudged
      /\ stored = <<>> /\ index = {} /\ report = NoReport /\ alerted = FALSE /\ shown = FALSE
  BY DEF RulesInit
<1>2. verdict.is = "none" /\ verdict.at = 0
  BY <1>1 DEF Unjudged
<1>3. RulesTypeOK
  BY <1>1, <1>2 DEF RulesTypeOK
<1>. QED  BY <1>1, <1>3 DEF RulesInv

\* The verdict is that of the rules.
LEMMA ValidateInv == RulesInv /\ Validate => RulesInv'
<1>. SUFFICES ASSUME RulesInv, Validate PROVE RulesInv'
  OBVIOUS
<1>1. request \in Seq(Segment)
  BY InputAssumption DEF RulesInv, RulesTypeOK
<1>2. /\ verdict' = Judged(request) /\ verdict'.is \in {"valid", "invalid", "missing"}
      /\ verdict'.at \in {0} \cup DOMAIN request
  BY <1>1, JudgedType DEF Validate
<1>3. Judged(request)' = Judged(request)
  BY SameVerdict DEF Validate
<1>4. at' \in {"validated", "done"} /\ (at' = "validated" => verdict'.is = "valid")
      /\ report = NoReport /\ ~alerted /\ ~shown
  BY DEF Validate, RulesInv
<1>5. RulesTypeOK'
  BY <1>2, <1>4 DEF Validate, RulesInv, RulesTypeOK
<1>. QED  BY <1>2, <1>3, <1>4, <1>5 DEF Validate, RulesInv, NoReport

\* The rows of an accepted request are typed.
LEMMA RowsType ==
    ASSUME net \in Network, request \in Seq(Segment), Judged(request).is = "valid"
    PROVE  Rows \in Seq([at : Station, line : Line \cup {None}])
<1>1. DOMAIN request = 1 .. Len(request) /\ Len(request) \in Nat
  OBVIOUS
<1>2. \A i \in DOMAIN request : Resolve(request[i]) \in Station /\ request[i].line \in Line \cup {None}
  <2>1. \A segment \in Segment : segment.line \in Line \cup {None}
    BY DEF Segment
  <2>. QED  BY <2>1, ValidIsAccepted DEF Accepted
<1>3. Rows = [i \in 1 .. Len(request) |-> [at |-> Resolve(request[i]), line |-> request[i].line]]
  BY <1>1 DEF Rows
<1>. QED  BY <1>1, <1>2, <1>3

\* The rows are those of the request.
LEMMA StoreInv == RulesInv /\ Store => RulesInv'
<1>. SUFFICES ASSUME RulesInv, Store PROVE RulesInv'
  OBVIOUS
<1>1. request \in Seq(Segment) /\ net \in Network
  BY InputAssumption DEF RulesInv, RulesTypeOK
<1>2. verdict = Judged(request) /\ verdict.is = "valid"
  BY DEF RulesInv, Store
<1>3. stored' = Rows /\ stored' \in Seq([at : Station, line : Line \cup {None}])
  BY <1>1, <1>2, RowsType DEF Store, Rows
<1>4. Judged(request)' = Judged(request) /\ Rows' = Rows
  BY SameVerdict DEF Store
<1>5. report = NoReport /\ ~alerted /\ ~shown
  BY DEF Store, RulesInv
<1>6. RulesTypeOK'
  BY <1>3 DEF Store, RulesInv, RulesTypeOK
<1>. QED  BY <1>2, <1>3, <1>4, <1>5, <1>6 DEF Store, RulesInv, NoReport

\* The index of an accepted request is built, of stations on the lines of its hops.
LEMMA BuildIndexInv == RulesInv /\ BuildIndex => RulesInv'
<1>. SUFFICES ASSUME RulesInv, BuildIndex PROVE RulesInv'
  OBVIOUS
<1>1. request \in Seq(Segment) /\ net \in Network
  BY InputAssumption DEF RulesInv, RulesTypeOK
<1>2. verdict = Judged(request) /\ verdict.is = "valid" /\ stored = Rows
  BY DEF RulesInv, BuildIndex
<1>3. Accepted
  BY <1>1, <1>2, ValidIsAccepted
<1>4. /\ Hops(stored) = Hops(request)
      /\ \A i \in Hops(stored) : /\ stored[i].line \in Line
                                 /\ OnLine(stored[i].at, stored[i].line) # {}
                                 /\ OnLine(stored[i + 1].at, stored[i].line) # {}
  BY <1>1, <1>2, <1>3, EndsExist DEF Accepted
<1>5. at' = "indexed" /\ \E from, to : EndsOf(from, to) /\ index' = IndexOf(from, to)
  BY <1>4 DEF BuildIndex, EndsOf, IndexOf
<1>6. PICK from, to : EndsOf(from, to) /\ index' = IndexOf(from, to)
  BY <1>5
<1>7. index' \subseteq Line \X Station
  <2>1. ASSUME NEW i \in Hops(stored)
        PROVE  {stored[i].line} \X Expanded(from[i], to[i], stored[i].line) \subseteq Line \X Station
    <3>1. stored[i].line \in Line
      BY <1>4
    <3>2. ASSUME NEW v \in Variants[net][stored[i].line], {from[i], to[i]} \subseteq Range(v)
          PROVE  Between(from[i], to[i], v) \subseteq Station
      <4>1. v \in Seq(Station) /\ Range(v) \subseteq Serves[net][stored[i].line]
        BY <1>1, <3>1, VariantIs
      <4>2. Serves[net][stored[i].line] \subseteq Station
        BY <1>1, <3>1, ServesAssumption
      <4>. QED  BY <3>2, <4>1, <4>2, BetweenIs
    <3>. QED  BY <3>1, <3>2 DEF Expanded
  <2>. QED  BY <1>6, <2>1 DEF IndexOf
<1>8. Built'
  <2>1. EndsOf(from, to)' <=> EndsOf(from, to)
    BY DEF BuildIndex, EndsOf, OnLine, Serving, Hops
  <2>2. IndexOf(from, to)' = IndexOf(from, to)
    BY DEF BuildIndex, IndexOf, Hops, Expanded, Between, Place
  <2>. QED  BY <1>6, <2>1, <2>2 DEF Built
<1>9. Judged(request)' = Judged(request) /\ Rows' = Rows
  BY SameVerdict DEF BuildIndex
<1>10. report = NoReport /\ ~alerted /\ ~shown
  BY DEF BuildIndex, RulesInv
<1>11. UNCHANGED <<net, request, verdict, stored, report, alerted, shown>>
  BY DEF BuildIndex
<1>12. RulesTypeOK'
  BY <1>5, <1>7, <1>11 DEF RulesInv, RulesTypeOK
<1>. QED  BY <1>2, <1>5, <1>8, <1>9, <1>10, <1>11, <1>12 DEF RulesInv

\* A report is answered from the index.
LEMMA DisruptInv == ASSUME RulesInv, NEW status \in Report, Disrupt(status) PROVE RulesInv'
<1>1. UNCHANGED <<net, request, verdict, stored, index>> /\ at = "indexed" /\ at' = "done"
  BY DEF Disrupt
<1>2. Judged(request)' = Judged(request) /\ Rows' = Rows /\ (Built' <=> Built)
  BY <1>1, SameVerdict, SameIndex
<1>3. /\ verdict = Judged(request) /\ verdict.is = "valid" /\ stored = Rows /\ Built
  BY <1>1 DEF RulesInv
<1>4. report' \in Report /\ report' # NoReport' /\ NoReport' = NoReport
  BY ReportIsNew DEF Disrupt, NoReport
<1>5. alerted' \in BOOLEAN /\ shown' \in BOOLEAN
  BY DEF Disrupt, Alerts, Shows
<1>6. /\ alerted' <=> Alerts(Disruption(report))'
      /\ shown' <=> Shows(Disruption(report))'
  BY <1>1 DEF Disrupt, Alerts, Shows, Disruption, Matches, Pairs, LinesOf, AffectedRoutes
<1>7. RulesTypeOK'
  BY <1>1, <1>4, <1>5 DEF RulesInv, RulesTypeOK
<1>. QED  BY <1>1, <1>2, <1>3, <1>4, <1>6, <1>7 DEF RulesInv

\* The invariant of the rules.
THEOREM RulesInvariant == RulesSpec => []RulesInv
<1>1. RulesInv /\ [RulesNext]_ruleVars => RulesInv'
  <2>. SUFFICES ASSUME RulesInv, [RulesNext]_ruleVars PROVE RulesInv'
    OBVIOUS
  <2>1. CASE UNCHANGED ruleVars
    <3>1. UNCHANGED <<net, request, at, verdict, stored, index, report, alerted, shown>>
      BY <2>1 DEF ruleVars
    <3>2. Judged(request)' = Judged(request) /\ Rows' = Rows /\ (Built' <=> Built)
      BY <3>1, SameVerdict, SameIndex
    <3>3. /\ Alerts(Disruption(report))' <=> Alerts(Disruption(report))
          /\ Shows(Disruption(report))' <=> Shows(Disruption(report))
      BY <3>1 DEF Alerts, Shows, Disruption, Matches, Pairs, LinesOf, AffectedRoutes
    <3>4. RulesTypeOK'
      BY <3>1 DEF RulesInv, RulesTypeOK
    <3>. QED  BY <3>1, <3>2, <3>3, <3>4 DEF RulesInv, NoReport, Unjudged
  <2>2. ASSUME NEW status \in Report, Disrupt(status) PROVE RulesInv'
    BY <2>2, DisruptInv
  <2>. QED  BY <2>1, <2>2, ValidateInv, StoreInv, BuildIndexInv DEF RulesNext
<1>. QED  BY <1>1, RulesInitInv, PTL DEF RulesSpec

\* RouteRules' type invariant: a verdict names a segment of the request, stored segments and
\* index entries have stations of the database (validate_route, upsert_segments).
THEOREM RulesTypes == RulesSpec => []RulesTypeOK
<1>1. RulesInv => RulesTypeOK
  BY DEF RulesInv
<1>. QED  BY <1>1, RulesInvariant, PTL

\* For every network and request: validate_route accepts exactly the journeys that can be
\* travelled between the places they name, as long as no variant calls twice at a station.
THEOREM ValidationIsRight == RulesSpec => []AcceptsJourneys
<1>1. RulesInv => AcceptsJourneys
  <2>. SUFFICES ASSUME RulesInv, Simple, at # "sent"
                PROVE  verdict.is = "valid" <=> IsJourney
    BY DEF AcceptsJourneys
  <2>1. request \in Seq(Segment) /\ net \in Network /\ verdict = Judged(request)
    BY InputAssumption DEF RulesInv, RulesTypeOK
  <2>. QED  BY <2>1, JudgedIsRight
<1>. QED  BY <1>1, RulesInvariant, PTL

\* For every network and request: building the index of an accepted journey never fails, and
\* where a line serves one station of a hub both ends of all its hops are in it.
THEOREM IndexIsBuilt == RulesSpec => []AcceptedIsIndexed
<1>1. RulesInv => AcceptedIsIndexed
  <2>. SUFFICES ASSUME RulesInv, OneOfHub, at = "indexed", NEW i \in Hops(request),
                       NEW id \in {request[i].at, request[i + 1].at}
                PROVE  \E s \in PlaceOf(id) : <<request[i].line, s>> \in index
    BY DEF AcceptedIsIndexed, RulesInv
  <2>1. request \in Seq(Segment) /\ net \in Network /\ Judged(request).is = "valid"
        /\ stored = Rows /\ Built
    BY InputAssumption DEF RulesInv, RulesTypeOK
  <2>2. Accepted
    BY <2>1, ValidIsAccepted
  <2>3. PICK f \in PlaceOf(request[i].at), t \in PlaceOf(request[i + 1].at),
             v \in Variants[net][request[i].line] : InOrder(f, t, v)
    BY <2>2 DEF Accepted
  <2>4. f \in Range(v) /\ t \in Range(v) /\ v \in Seq(Station)
    BY <2>1, <2>2, <2>3, VariantIs DEF InOrder, Accepted
  <2>5. {request[i].line} \X Between(f, t, v) \subseteq index
    BY <2>1, <2>2, <2>4, IndexHasHop
  <2>6. <<request[i].line, f>> \in index /\ <<request[i].line, t>> \in index
    BY <2>4, <2>5, BetweenIs
  <2>. QED  BY <2>3, <2>6
<1>. QED  BY <1>1, RulesInvariant, PTL

\* What the page shows also alerts: the page matches stations only.
LEMMA ShownIsAlerted == ASSUME NEW d, Shows(d) PROVE Alerts(d)
BY DEF Shows, Alerts, Matches, Pairs

\* For every network, request and report: whoever travels past a disruption that alerts is
\* told, also when TfL names no stop or none that can be read; the page shows only what alerts.
THEOREM PassersAreTold == RulesSpec => []TravellersAreTold
<1>1. RulesInv => TravellersAreTold
  <2>. SUFFICES ASSUME RulesInv PROVE TravellersAreTold
    OBVIOUS
  <2>1. shown => alerted
    BY ShownIsAlerted DEF RulesInv
  <2>2. ASSUME Simple, OneOfHub, report # NoReport, report.severity \notin Disabled, Legible,
               NEW i \in Hops(request), NEW v \in Variants[net][report.line],
               report.line = request[i].line, NEW j \in DOMAIN v, NEW k \in DOMAIN v,
               j < k, v[j] \in PlaceOf(request[i].at), v[k] \in PlaceOf(request[i + 1].at),
               Passes(v, j, k)
        PROVE  alerted
    <3>. DEFINE line == request[i].line
                d == Disruption(report)
    <3>1. request \in Seq(Segment) /\ net \in Network /\ Judged(request).is = "valid"
          /\ stored = Rows /\ Built
      BY <2>2, InputAssumption DEF RulesInv, RulesTypeOK
    <3>2. Accepted
      BY <3>1, ValidIsAccepted
    <3>3. line \in Line /\ v \in Variants[net][line] /\ v \in Seq(Station) /\ IsInjective(v)
      BY <2>2, <3>1, <3>2, VariantIs DEF Accepted, Simple
    <3>4. v[j] \in Range(v) /\ v[k] \in Range(v)
      BY DEF Range
    <3>5. {line} \X Between(v[j], v[k], v) \subseteq index
      BY <2>2, <3>1, <3>2, <3>3, <3>4, IndexHasHop
    <3>6. ASSUME NEW m \in j .. k PROVE <<line, v[m]>> \in index /\ v[m] \in Station
      <4>1. Place(v[j], v) = j /\ Place(v[k], v) = k
        BY <3>3, PlaceIs
      <4>2. m \in DOMAIN v /\ j <= m /\ m <= k /\ v[m] \in Station
        BY <3>3
      <4>. QED  BY <3>3, <3>4, <3>5, <4>1, <4>2, BetweenIs
    <3>7. /\ d.line = line /\ d.severity = report.severity
          /\ d.stations = UNION AffectedRoutes(report)
      BY <2>2 DEF Disruption
    <3>8. CASE AffectedRoutes(report) = {}
      <4>1. <<line, v[j]>> \in index
        <5>1. j \in j .. k
          BY <2>2, <3>3
        <5>. QED  BY <3>6, <5>1
      <4>2. line \in LinesOf
        BY <4>1 DEF LinesOf
      <4>3. d.stations = {}
        BY <3>7, <3>8
      <4>. QED  BY <2>2, <3>7, <4>2, <4>3 DEF Alerts, RulesInv
    <3>9. CASE AffectedRoutes(report) # {}
      <4>1. report.sections # {}
        BY <3>9 DEF AffectedRoutes
      <4>2. PICK m \in j .. k, section \in report.sections : v[m] \in section.stops
        BY <2>2, <4>1 DEF Passes
      <4>3. v[m] # None
        BY <3>6, NoneAssumption
      <4>4. v[m] \in (UNION {x.stops : x \in report.sections}) \ {None}
        BY <4>2, <4>3
      <4>5. v[m] \in d.stations
        BY <2>2, <3>7, <3>9, <4>4 DEF Legible
      <4>6. Matches(d)
        BY <3>6, <3>7, <4>5 DEF Matches, Pairs
      <4>. QED  BY <2>2, <3>7, <4>5, <4>6 DEF Alerts, RulesInv
    <3>. QED  BY <3>8, <3>9
  <2>. QED  BY <2>1, <2>2 DEF TravellersAreTold
<1>. QED  BY <1>1, RulesInvariant, PTL

(***************************************************************************)
(* A run over all routes: AlertPoll                                        *)
(***************************************************************************)

\* The loop has counted the routes it took from its list, and it leaves the list
\* before its end only with an error.
Counted ==
    /\ phase = "load" => loaded = {} /\ todo = {} /\ stats.checked = 0
    /\ phase \in {"log", "routes"} \/ (phase = "done" /\ stats.errors = 0)
          => stats.checked + Cardinality(todo) = Cardinality(loaded)
    /\ phase = "done" /\ stats.errors = 0 => todo = {}

\* The deliveries of the message being sent are on their way to the database, and
\* there are none between messages or once the session is expired.
Logged ==
    /\ stats.sent + count <= delivered
    /\ stats.sent <= committed
    /\ "commit" \notin failed => delivered <= committed + count
    /\ cur = {} \/ session = "expired" \/ phase # "routes" => count = 0

IInv == TypeOK /\ Counted /\ Logged

------------------------------------------------------------------------------
\* The lists of the loop are finite, so that they can be counted.
LEMMA TodoFinite ==
    ASSUME TypeOK
    PROVE  IsFiniteSet(loaded) /\ IsFiniteSet(todo)
BY RouteAssumption, FS_Subset DEF TypeOK

\* What fails is counted and remembered.
LEMMA FailsType ==
    ASSUME TypeOK, NEW what \in Failure, Works \/ Fails(what)
    PROVE  faults' \in 0..MaxFaults /\ failed' \subseteq Failure
<1>. MaxFaults \in Nat
  BY BoundAssumption
<1>1. CASE Works
  BY <1>1 DEF TypeOK, Works
<1>2. CASE Fails(what)
  BY <1>2 DEF TypeOK, Fails
<1>. QED  BY <1>1, <1>2

\* Counting a route, an error or both in the statistics.
Stats == [checked : Nat, sent : Nat, errors : Nat]
LEMMA StatsCount ==
    ASSUME NEW s \in Stats, NEW c \in Nat, NEW e \in Nat
    PROVE  LET t == [s EXCEPT !.checked = c, !.errors = e]
           IN  t \in Stats /\ t.checked = c /\ t.errors = e /\ t.sent = s.sent
BY DEF Stats

\* A route without an error.
LEMMA StatsCheck ==
    ASSUME NEW s \in Stats, NEW c \in Nat
    PROVE  LET t == [s EXCEPT !.checked = c]
           IN  t \in Stats /\ t.checked = c /\ t.errors = s.errors /\ t.sent = s.sent
BY DEF Stats

\* A run starts with nothing counted.
LEMMA InitInv == Init => IInv
BY FS_EmptySet, BoundAssumption DEF Init, IInv, TypeOK, Counted, Logged

\* Loading lists all routes or, on an error, none; nothing was counted before.
LEMMA LoadInv == IInv /\ Load => IInv'
<1>. SUFFICES ASSUME IInv, Load PROVE IInv'
  OBVIOUS
<1>1. TypeOK'
  <2>1. "load" \in Failure /\ (Works \/ Fails("load"))
    BY DEF Failure, Load
  <2>2. faults' \in 0..MaxFaults /\ failed' \subseteq Failure
    BY <2>1, FailsType DEF IInv
  <2>. QED  BY <2>2, BoundAssumption DEF IInv, TypeOK, Load
<1>2. Counted'
  <2>1. Cardinality(todo') \in Nat
    BY <1>1, RouteAssumption, FS_Subset, FS_CardinalityType DEF TypeOK
  <2>. QED  BY <2>1 DEF IInv, TypeOK, Counted, Load
<1>3. Logged'
  BY DEF IInv, TypeOK, Logged, Load, Works, Fails
<1>. QED  BY <1>1, <1>2, <1>3 DEF IInv

\* The session may expire here, with nothing delivered yet.
LEMMA FetchGlobalInv == IInv /\ FetchGlobal => IInv'
<1>. SUFFICES ASSUME IInv, FetchGlobal PROVE IInv'
  OBVIOUS
<1>1. TypeOK'
  <2>1. "log" \in Failure /\ (Works \/ Fails("log"))
    BY DEF Failure, FetchGlobal
  <2>2. faults' \in 0..MaxFaults /\ failed' \subseteq Failure
    BY <2>1, FailsType DEF IInv
  <2>. QED  BY <2>2, BoundAssumption DEF IInv, TypeOK, FetchGlobal
<1>2. Counted'
  BY DEF IInv, Counted, FetchGlobal
<1>3. Logged'
  BY DEF IInv, TypeOK, Logged, FetchGlobal, Works, Fails
<1>. QED  BY <1>1, <1>2, <1>3 DEF IInv

\* Giving up is an error, and what was delivered before is committed.
LEMMA AbandonInv == IInv /\ Abandon => IInv'
<1>. SUFFICES ASSUME IInv, Abandon PROVE IInv'
  OBVIOUS
<1>1. stats.checked \in Nat /\ stats.errors \in Nat /\ stats.sent \in Nat
  BY DEF IInv, TypeOK
<1>2. /\ stats' \in [checked : Nat, sent : Nat, errors : Nat]
      /\ stats'.errors = stats.errors + 1 /\ stats'.sent = stats.sent
  <2>. DEFINE checked == IF cur = {} THEN stats.checked + 1 ELSE stats.checked
  <2>1. stats' = [stats EXCEPT !.checked = checked, !.errors = stats.errors + 1]
    BY DEF Abandon
  <2>2. checked \in Nat /\ stats.errors + 1 \in Nat
    BY <1>1
  <2>3. stats \in Stats
    BY DEF IInv, TypeOK, Stats
  <2>. HIDE DEF checked
  <2>. QED  BY <2>1, <2>2, <2>3, StatsCount DEF Stats
<1>3. TypeOK'
  BY <1>2 DEF IInv, TypeOK, Abandon
<1>4. Counted'
  BY <1>1, <1>2 DEF Counted, Abandon
<1>5. Logged'
  BY <1>2 DEF IInv, TypeOK, Logged, Abandon
<1>. QED  BY <1>3, <1>4, <1>5 DEF IInv

\* A route taken from the list is counted, fetched or not.
LEMMA ProcessInv ==
    \A r \in Route, stages \in SUBSET Stage : IInv /\ Process(r, stages) => IInv'
<1>. SUFFICES ASSUME NEW r \in Route, NEW stages \in SUBSET Stage, IInv, Process(r, stages)
              PROVE IInv'
  OBVIOUS
<1>1. stats.checked \in Nat /\ stats.errors \in Nat /\ stats.sent \in Nat
  BY DEF IInv, TypeOK
<1>2. /\ stats' \in [checked : Nat, sent : Nat, errors : Nat]
      /\ stats'.checked = stats.checked + 1 /\ stats'.sent = stats.sent
      /\ phase' = "done" => stats'.errors > 0
      /\ phase' \in {"routes", "done"}
  <2>1. /\ stats \in Stats
        /\ stats.checked + 1 \in Nat /\ stats.errors + 1 \in Nat /\ stats.errors + 1 > 0
    BY <1>1 DEF IInv, TypeOK, Stats
  <2>2. CASE /\ stats' = [stats EXCEPT !.checked = stats.checked + 1]
             /\ UNCHANGED <<phase, session>>
    <3>1. phase' = "routes"
      BY <2>2 DEF Process
    <3>. QED  BY <2>1, <2>2, <3>1, StatsCheck DEF Stats
  <2>3. CASE stats' = [stats EXCEPT !.checked = stats.checked + 1,
                                    !.errors = stats.errors + 1]
    <3>1. phase' \in {"routes", "done"}
      BY DEF Process
    <3>. QED  BY <2>1, <2>3, <3>1, StatsCount DEF Stats
  <2>. QED  BY <2>2, <2>3 DEF Process
<1>3. TypeOK'
  <2>1. "fetch" \in Failure /\ (Works \/ Fails("fetch"))
    BY DEF Failure, Process
  <2>2. faults' \in 0..MaxFaults /\ failed' \subseteq Failure
    BY <2>1, FailsType DEF IInv
  <2>. QED  BY <1>2, <2>2, BoundAssumption DEF IInv, TypeOK, Process
<1>4. Counted'
  <2>1. /\ Cardinality(todo') = Cardinality(todo) - 1
        /\ Cardinality(todo) \in Nat /\ Cardinality(loaded) \in Nat
    BY TodoFinite, FS_RemoveElement, FS_CardinalityType DEF IInv, Process
  <2>. QED  BY <1>1, <1>2, <2>1 DEF IInv, TypeOK, Counted, Process
<1>5. Logged'
  BY <1>2 DEF IInv, TypeOK, Logged, Process, Works, Fails
<1>. QED  BY <1>3, <1>4, <1>5 DEF IInv

\* A delivery is counted together with its log.
LEMMA DeliverInv == IInv /\ Deliver => IInv'
<1>. SUFFICES ASSUME IInv, Deliver PROVE IInv'
  OBVIOUS
<1>1. TypeOK'
  BY BoundAssumption DEF IInv, TypeOK, Deliver
<1>2. Counted'
  BY DEF IInv, Counted, Deliver
<1>3. Logged'
  BY DEF IInv, TypeOK, Logged, Deliver
<1>. QED  BY <1>1, <1>2, <1>3 DEF IInv

\* The commit hands the counted deliveries to the statistics, or drops both.
LEMMA CommitInv == IInv /\ Commit => IInv'
<1>. SUFFICES ASSUME IInv, Commit PROVE IInv'
  OBVIOUS
<1>1. /\ stats.checked \in Nat /\ stats.errors \in Nat /\ stats.sent \in Nat
      /\ added \in Nat /\ count \in 0..added
  BY BoundAssumption DEF IInv, TypeOK
<1>2. /\ stats' \in [checked : Nat, sent : Nat, errors : Nat]
      /\ stats'.checked = stats.checked /\ stats'.errors = stats.errors
      /\ stats'.sent \in {stats.sent, stats.sent + count}
      /\ stats'.sent = stats.sent \/ committed' = committed + added
  BY <1>1 DEF IInv, TypeOK, Commit
<1>3. TypeOK'
  <2>1. "commit" \in Failure /\ (Works \/ Fails("commit"))
    BY DEF Failure, Commit
  <2>2. faults' \in 0..MaxFaults /\ failed' \subseteq Failure
    BY <2>1, FailsType DEF IInv
  <2>. QED  BY <1>1, <1>2, <2>2, BoundAssumption DEF IInv, TypeOK, Commit
<1>4. Counted'
  BY <1>2 DEF IInv, Counted, Commit
<1>5. Logged'
  BY <1>1, <1>2 DEF IInv, TypeOK, Logged, Commit, Works, Fails
<1>. QED  BY <1>3, <1>4, <1>5 DEF IInv

\* The run returns at the end of its list, between messages.
LEMMA ReturnInv == IInv /\ Return => IInv'
BY DEF IInv, TypeOK, Counted, Logged, Return

\* A run to be retried claims nothing.
LEMMA RetryInv == IInv /\ Retry => IInv'
<1>. SUFFICES ASSUME IInv, Retry PROVE IInv'
  OBVIOUS
<1>1. TypeOK'
  <2>1. "session" \in Failure /\ Fails("session")
    BY DEF Failure, Retry
  <2>2. faults' \in 0..MaxFaults /\ failed' \subseteq Failure
    BY <2>1, FailsType DEF IInv
  <2>. QED  BY <2>2 DEF IInv, TypeOK, Retry
<1>2. Counted' /\ Logged'
  BY DEF IInv, TypeOK, Counted, Logged, Retry, Fails
<1>. QED  BY <1>1, <1>2 DEF IInv

\* The inductive step.
LEMMA NextInv == IInv /\ [Next]_vars => IInv'
<1>1. CASE UNCHANGED vars
  BY <1>1 DEF IInv, TypeOK, Counted, Logged, vars
<1>2. CASE Next
  BY <1>2, LoadInv, FetchGlobalInv, AbandonInv, ProcessInv, DeliverInv, CommitInv,
     ReturnInv, RetryInv DEF Next, Run
<1>. QED  BY <1>1, <1>2

\* The inductive invariant holds in every state of a run.
LEMMA Invariance == Spec => []IInv
BY InitInv, NextInv, PTL DEF Spec

\* Whatever fails, the variables of a run keep their types: no message counts more
\* deliveries than it logged, and the list of the loop holds loaded routes only.
THEOREM PollTypes == Spec => []TypeOK
<1>1. IInv => TypeOK
  BY DEF IInv
<1>. QED  BY <1>1, Invariance, PTL

\* A run of process_all_routes that leaves a loaded route unprocessed reports an
\* error.
THEOREM SkipsAreReported == Spec => []NoSilentSkip
<1>1. IInv => NoSilentSkip
  BY FS_EmptySet DEF IInv, TypeOK, Counted, NoSilentSkip
<1>. QED  BY <1>1, Invariance, PTL

\* alerts_sent is backed by deliveries and by committed notification logs.
THEOREM SentCountIsTrue == Spec => []SentIsLogged
<1>1. IInv => SentIsLogged
  BY DEF IInv, TypeOK, Logged, SentIsLogged
<1>. QED  BY <1>1, Invariance, PTL

\* Only a failed commit loses the log of a delivered message.
THEOREM LostLogsAreFailedCommits == Spec => []DeliveredIsLogged
<1>1. IInv => DeliveredIsLogged
  BY DEF IInv, TypeOK, Logged, DeliveredIsLogged
<1>. QED  BY <1>1, Invariance, PTL
=============================================================================
