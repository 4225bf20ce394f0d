--------------------------- MODULE RouteIndexProofs ---------------------------
(* Theorems about RouteIndex, for any network, journeys, processes and bounds.   *)
(* However many requests and tasks write the index at once, a process never      *)
(* leaves two builds of its own, ids are keys and the sequence numbers of active *)
(* segments unique.  While requests follow one another, the segments of a route  *)
(* are numbered without gaps, a deletion is complete and the first journey is    *)
(* indexed exactly.                                                              *)
EXTENDS RouteIndex, FiniteSetTheorems, WellFoundedInduction, TLAPS

------------------------------------------------------------------------------
(* Builds of the index *)

\* The sessions are those of the processes, and each has room for its victims.
Sessions == /\ DOMAIN pc = Proc /\ DOMAIN tx = Proc
            /\ \A p \in Proc : "victims" \in DOMAIN tx[p]

\* A process about to commit has marked every build of its own that is there.
ClearsItsOwn ==
    \A p \in Proc : pc[p] = "cleared" =>
       \A b \in index : b.by = p => b.id \in tx[p].victims

IInv == Sessions /\ ClearsItsOwn /\ OneBuildPerProcess

\* There is no index at first.
LEMMA InitIInv == Init => IInv
  BY DEF Init, IInv, Sessions, ClearsItsOwn, OneBuildPerProcess, NoTx

\* A step of p's session that does not commit leaves the index alone, and p is
\* about to commit only if the session marked every build.
LEMMA SessionStep ==
  ASSUME IInv, NEW p \in Proc, NEW step, NEW t, Go(p, step, t), index' = index,
         "victims" \in DOMAIN t,
         step = "cleared" => t.victims = {b.id : b \in index}
  PROVE  IInv'
  <1>1. Sessions'
    BY DEF IInv, Sessions, Go
  <1>2. ClearsItsOwn'
    <2> SUFFICES ASSUME NEW q \in Proc, pc'[q] = "cleared", NEW b \in index, b.by = q
                 PROVE  b.id \in tx'[q].victims
      BY DEF ClearsItsOwn
    <2>1. CASE q = p
      BY <2>1 DEF IInv, Sessions, Go
    <2>2. CASE q # p
      BY <2>2 DEF IInv, Sessions, ClearsItsOwn, Go
    <2> QED BY <2>1, <2>2
  <1>3. OneBuildPerProcess'
    BY DEF IInv, OneBuildPerProcess
  <1> QED BY <1>1, <1>2, <1>3 DEF IInv

\* A closed session does not matter.
LEMMA CloseStep ==
  ASSUME IInv, NEW p \in Proc, Close(p), index' = index
  PROVE  IInv'
  <1>1. Go(p, "idle", NoTx)
    BY DEF Go, Close
  <1>2. "victims" \in DOMAIN NoTx
    BY DEF NoTx
  <1> QED BY <1>1, <1>2, SessionStep

\* The commit removes the builds the session marked, p's own among them, and adds
\* at most one.
LEMMA CommitStep ==
  ASSUME IInv, NEW p \in Proc, Commit(p)
  PROVE  IInv'
  <1> DEFINE stay == {b \in index : b.id \notin tx[p].victims}
             new  == [id |-> ids + 1, by |-> p, entries |-> tx[p].entries]
  <1>1. index' \subseteq stay \cup {new} /\ pc[p] = "cleared" /\ Close(p)
    BY DEF Commit
  <1>2. \A b \in stay : b.by # p
    BY <1>1 DEF IInv, ClearsItsOwn
  <1>3. new.by = p
    OBVIOUS
  <1> HIDE DEF stay, new
  <1>4. stay \subseteq index
    BY DEF stay
  <1>5. Sessions' /\ pc'[p] = "idle" /\ \A q \in Proc \ {p} : pc'[q] = pc[q] /\ tx'[q] = tx[q]
    BY <1>1 DEF IInv, Sessions, Close, NoTx
  <1>6. ClearsItsOwn'
    <2> SUFFICES ASSUME NEW q \in Proc, pc'[q] = "cleared", NEW b \in index', b.by = q
                 PROVE  b.id \in tx'[q].victims
      BY DEF ClearsItsOwn
    <2>1. q # p /\ b \in index
      BY <1>1, <1>3, <1>4, <1>5
    <2> QED BY <2>1, <1>5 DEF IInv, ClearsItsOwn
  <1>7. OneBuildPerProcess'
    <2> SUFFICES ASSUME NEW a \in index', NEW b \in index', a.by = b.by
                 PROVE  a = b
      BY DEF OneBuildPerProcess
    <2> QED BY <1>1, <1>2, <1>3, <1>4 DEF IInv, OneBuildPerProcess
  <1> QED BY <1>5, <1>6, <1>7 DEF IInv

\* A step that touches neither sessions nor index.
LEMMA OtherStep ==
  ASSUME IInv, UNCHANGED <<index, pc, tx>>
  PROVE  IInv'
  BY DEF IInv, Sessions, ClearsItsOwn, OneBuildPerProcess

\* A rebuild either starts a session or only takes its message.
LEMMA RebuildStep ==
  ASSUME IInv, NEW p \in Proc, NEW queued \in BOOLEAN, Rebuild(p, queued)
  PROVE  IInv'
  <1>1. index' = index
    BY DEF Rebuild, tables
  <1>2. \/ UNCHANGED <<pc, tx>>
        \/ \E stops : Go(p, "built", Built([Session EXCEPT !.kind = "rebuild"], stops))
    BY DEF Rebuild
  <1>3. CASE UNCHANGED <<pc, tx>>
    BY <1>1, <1>3, OtherStep
  <1>4. ASSUME NEW stops, Go(p, "built", Built([Session EXCEPT !.kind = "rebuild"], stops))
        PROVE  IInv'
    <2>1. "victims" \in DOMAIN Built([Session EXCEPT !.kind = "rebuild"], stops)
      BY DEF Built, Session, NoTx
    <2> QED BY <1>1, <1>4, <2>1, SessionStep
  <1> QED BY <1>2, <1>3, <1>4

\* Every step of the system preserves the invariant.
LEMMA NextIInv == IInv /\ [Next]_vars => IInv'
  <1> SUFFICES ASSUME IInv, [Next]_vars PROVE IInv'
    OBVIOUS
  <1>1. CASE UNCHANGED vars
    BY <1>1, OtherStep DEF vars
  <1>2. ASSUME NEW p \in Proc, Start(p) PROVE IInv'
    <2>1. CASE Open(p)
      <3> DEFINE t == [Session EXCEPT !.kind = "edit", !.loaded = Active(segs),
                                      !.orphans = Ids(segs \ Active(segs))]
      <3>1. "victims" \in DOMAIN t
        BY DEF Session, NoTx
      <3>2. Go(p, "open", t) /\ index' = index
        BY <2>1 DEF Open, tables
      <3> QED BY <3>1, <3>2, SessionStep
    <2>2. CASE DeleteRoute(p)
      <3> DEFINE t == [NoTx EXCEPT !.kind = "delete", !.kill = Ids(Active(segs))]
      <3>1. "victims" \in DOMAIN t
        BY DEF NoTx
      <3>2. Go(p, "built", t) /\ index' = index
        BY <2>2 DEF DeleteRoute, tables
      <3> QED BY <3>1, <3>2, SessionStep
    <2>3. CASE Rebuild(p, FALSE)
      BY <2>3, RebuildStep
    <2>4. ASSUME NEW j \in Journey, Replace(p, j) PROVE IInv'
      <3>1. PICK stops, add : Go(p, "built", Built([Session EXCEPT !.kind = "replace",
                                 !.add = add, !.kill = Ids(Active(segs))], stops))
        BY <2>4 DEF Replace
      <3>2. "victims" \in DOMAIN Built([Session EXCEPT !.kind = "replace",
                                 !.add = add, !.kill = Ids(Active(segs))], stops)
        BY DEF Built, Session, NoTx
      <3> QED BY <3>1, <3>2, <2>4, SessionStep DEF Replace, tables
    <2> QED BY <1>2, <2>1, <2>2, <2>3, <2>4 DEF Start
  <1>3. ASSUME NEW p \in Proc, Continue(p) PROVE IInv'
    <2>1. CASE Reject(p)
      BY <2>1, CloseStep DEF Reject, tables
    <2>2. CASE Clear(p)
      BY <2>2, SessionStep DEF Clear, IInv, Sessions, tables
    <2>3. CASE Commit(p)
      BY <2>3, CommitStep
    <2>4. CASE Rebuild(p, TRUE)
      BY <2>4, RebuildStep
    <2>5. ASSUME NEW j \in Journey, Move(p, j) PROVE IInv'
      <3>1. PICK c, stops : Go(p, "built", Built([tx[p] EXCEPT !.move = c], stops))
        BY <2>5 DEF Move
      <3>2. "victims" \in DOMAIN Built([tx[p] EXCEPT !.move = c], stops)
        BY DEF Built, IInv, Sessions
      <3> QED BY <3>1, <3>2, <2>5, SessionStep DEF Move, tables
    <2>6. ASSUME NEW r \in tx[p].loaded, Cut(p, r) PROVE IInv'
      <3>1. PICK c, stops :
              Go(p, "built", Built([tx[p] EXCEPT !.kill = {r.id}, !.renumber = c], stops))
        BY <2>6 DEF Cut
      <3>2. "victims" \in DOMAIN Built([tx[p] EXCEPT !.kill = {r.id}, !.renumber = c], stops)
        BY DEF Built, IInv, Sessions
      <3> QED BY <3>1, <3>2, <2>6, SessionStep DEF Cut, tables
    <2> QED BY <1>3, <2>1, <2>2, <2>3, <2>4, <2>5, <2>6 DEF Continue
  <1>4. ASSUME NEW p \in Proc, Rollback(p) PROVE IInv'
    BY <1>4, CloseStep DEF Rollback, tables
  <1>5. CASE FetchLines \/ StoreGraph \/ Detect \/ Lose
    BY <1>5, OtherStep DEF FetchLines, StoreGraph, Detect, Lose, tables
  <1> QED BY <1>1, <1>2, <1>3, <1>4, <1>5 DEF Next

\* At any time the live builds of a route's index come from different processes.
THEOREM BuildsOfDifferentProcesses == Spec => []OneBuildPerProcess
  <1>1. IInv => OneBuildPerProcess
    BY DEF IInv
  <1> QED BY <1>1, InitIInv, NextIInv, PTL DEF Spec

------------------------------------------------------------------------------
(* Types and keys *)

Finite(S) == {T \in SUBSET S : IsFiniteSet(T)}
Partial(T) == UNION {[S -> T] : S \in SUBSET Nat}
SessionRecord ==
    [kind : {"none", "replace", "edit", "delete", "rebuild"},
     loaded : Finite(Row), orphans : SUBSET Nat, net : Network, version : Nat,
     kill : SUBSET Nat, move : Partial(Stop), renumber : Partial(Nat), add : Finite(Row),
     entries : SUBSET Entry, victims : SUBSET Nat]

Types ==
    /\ route \in {"live", "deleted"}
    /\ segs \in Finite(Row) /\ index \in SUBSET Build /\ old \in SUBSET Nat
    /\ net \in Network /\ version \in Nat /\ graph \in {"idle", "fetched"}
    /\ detect \in BOOLEAN /\ jobs \in Nat
    /\ pc \in [Proc -> {"idle", "open", "built", "cleared"}]
    /\ tx \in [Proc -> SessionRecord]
    /\ ids \in Nat /\ edits \in 0..MaxEdits /\ refreshes \in 0..MaxRefreshes
    /\ faults \in 0..MaxFaults /\ raced \in BOOLEAN

\* An id is given out once, to a row of the table or to one that a session will add.
IdsAreKeys ==
    /\ \A r, s \in segs : r.id = s.id => r = s
    /\ \A r \in segs : r.id <= ids
    /\ \A p \in Proc : \A r \in tx[p].add :
          /\ r.id <= ids /\ r.id \notin Ids(segs)
          /\ \A s \in tx[p].add : r.id = s.id => r = s
    /\ \A p, q \in Proc : p # q => Ids(tx[p].add) \cap Ids(tx[q].add) = {}

\* The partial unique index.
SequenceIsKey == \A r, s \in Active(segs) : r.seq = s.seq => r = s

------------------------------------------------------------------------------
(* While no two transactions overlap *)

Dense(rows) == /\ {r.seq : r \in rows} = 0 .. Cardinality(rows) - 1
               /\ Cardinality(rows) # 1

\* One process is busy, and none on a deleted route.
OneIsBusy ==
    /\ \A p, q \in Proc : pc[p] # "idle" /\ pc[q] # "idle" => p = q
    /\ route = "deleted" => \A p \in Proc : pc[p] = "idle"

\* What it has read is what is stored, and what it will write is a route again.
Fresh(t) == /\ t.loaded = Active(segs) /\ t.orphans = Ids(segs \ Active(segs))
            /\ t.kill = {} /\ t.add = {} /\ DOMAIN t.move = {} /\ DOMAIN t.renumber = {}
Result(t) == Active(Written(t))
Sound(step, t) ==
    /\ step = "open" => Fresh(t) /\ t.kind = "edit"
    /\ step # "open" => /\ Dense(Result(t))
                       /\ (t.kind = "delete" => Result(t) = {} /\ t.entries = {})
    /\ step = "cleared" => \A b \in index : b.id \in t.victims

Serial ==
    ~raced => /\ OneIsBusy /\ Dense(Active(segs))
              /\ (route = "deleted" => Active(segs) = {} /\ index = {})
              /\ (\A p \in Proc : pc[p] # "idle" => Sound(pc[p], tx[p]))

------------------------------------------------------------------------------
(* What the expansion returns *)

\* A set of numbers that is not empty has a least one.
LEMMA LeastOfNat == ASSUME NEW S \in SUBSET Nat, S # {} PROVE \E m \in S : \A k \in S : m <= k
<1> DEFINE upto(k) == {m \in S : m <= k}
           T == {upto(k) : k \in S}
<1>1. T \subseteq FiniteSubsetsOf(S) /\ T # {}
  <2>1. ASSUME NEW k \in S PROVE IsFiniteSet(upto(k)) /\ upto(k) \in SUBSET S
    <3>1. upto(k) \in SUBSET Nat /\ k \in Nat /\ \A m \in upto(k) : m <= k
      OBVIOUS
    <3> QED  BY <3>1, FS_BoundedSetOfNaturals
  <2> HIDE DEF upto
  <2>2. \A k \in S : upto(k) \in FiniteSubsetsOf(S)
    BY <2>1 DEF FiniteSubsetsOf
  <2>3. T \subseteq FiniteSubsetsOf(S)
    BY <2>2
  <2>4. \A k \in S : upto(k) \in T
    OBVIOUS
  <2> HIDE DEF T
  <2> QED  BY <2>3, <2>4
<1>2. PICK x \in T : \A y \in T : ~(<<y, x>> \in StrictSubsetOrdering(S))
  BY <1>1, FS_StrictSubsetOrderingWellFounded, WFMin
<1>3. PICK m \in S : x = upto(m)
  OBVIOUS
<1>4. ASSUME NEW k \in S, k < m PROVE FALSE
  <2>1. upto(k) \in T /\ upto(k) \in SUBSET S /\ upto(m) \in SUBSET S
    OBVIOUS
  <2>2. upto(k) \subseteq upto(m)
    <3>1. ASSUME NEW j \in S, j <= k PROVE j <= m
      BY <1>4, <3>1
    <3> QED  BY <3>1
  <2>3. m \in upto(m) /\ m \notin upto(k)
    BY <1>4
  <2>4. <<upto(k), x>> \in StrictSubsetOrdering(S)
    BY <1>3, <2>1, <2>2, <2>3 DEF StrictSubsetOrdering
  <2> QED  BY <1>2, <2>1, <2>4
<1>5. \A k \in S : m <= k
  BY <1>4
<1> QED  BY <1>5

\* The least of a set of numbers is one of them.
LEMMA MinIsIn == ASSUME NEW S \in SUBSET Nat, S # {} PROVE Min(S) \in S
BY LeastOfNat DEF Min

\* The stations between two stops are stations of the variant.
LEMMA BetweenIsOnVariant ==
    ASSUME NEW from, NEW to, NEW stations \in Seq(Station)
    PROVE  Between(from, to, stations) \subseteq Station
<1> DEFINE at(s) == {k \in DOMAIN stations : stations[k] = s}
           first(s) == Min(at(s))
<1>1. DOMAIN stations = 1 .. Len(stations) /\ Len(stations) \in Nat
  OBVIOUS
<1>2. ASSUME NEW s \in Range(stations) PROVE first(s) \in 1 .. Len(stations)
  <2>1. at(s) \in SUBSET Nat /\ at(s) # {}
    BY <1>1 DEF Range
  <2>2. first(s) \in at(s)
    BY <2>1, MinIsIn
  <2> QED  BY <1>1, <2>2
<1>3. CASE {from, to} \subseteq Range(stations)
  <2>1. first(from) \in 1 .. Len(stations) /\ first(to) \in 1 .. Len(stations)
    BY <1>2, <1>3
  <2> DEFINE a == first(from)
             b == first(to)
  <2>2. Between(from, to, stations) = {stations[k] : k \in Min({a, b}) .. Max({a, b})}
    BY <1>3 DEF Between
  <2> HIDE DEF a, b
  <2>3. a \in 1 .. Len(stations) /\ b \in 1 .. Len(stations)
    BY <2>1 DEF a, b
  <2>4. Min({a, b}) \in {a, b} /\ Max({a, b}) \in {a, b}
    BY <2>3 DEF Min, Max
  <2>5. \A k \in Min({a, b}) .. Max({a, b}) : k \in 1 .. Len(stations)
    BY <1>1, <2>3, <2>4
  <2>6. \A k \in 1 .. Len(stations) : stations[k] \in Station
    OBVIOUS
  <2> QED  BY <2>2, <2>5, <2>6
<1>4. CASE ~({from, to} \subseteq Range(stations))
  BY <1>4 DEF Between
<1> QED  BY <1>3, <1>4

\* An expansion consists of index entries.
LEMMA ExpansionIsTyped ==
    ASSUME NEW stops \in Seq(Row), NEW n \in Network, NEW v \in Nat
    PROVE  Expand(stops, n, v) \in SUBSET Entry
<1> SUFFICES ASSUME NEW e \in Expand(stops, n, v) PROVE e \in Entry
  OBVIOUS
<1>1. PICK i \in 1 .. Len(stops) - 1 :
         /\ stops[i].line # None
         /\ \E s \in UNION {Between(stops[i].at, stops[i + 1].at, stations) :
                               stations \in Variants[n][stops[i].line]} :
               e = [line |-> stops[i].line, station |-> s, version |-> v]
  BY DEF Expand
<1>2. stops[i].line \in Line
  <2>1. Len(stops) \in Nat /\ stops[i] \in Row
    OBVIOUS
  <2> QED  BY <1>1, <2>1 DEF Row
<1>3. PICK stations \in Variants[n][stops[i].line] :
             \E s \in Between(stops[i].at, stops[i + 1].at, stations) :
               e = [line |-> stops[i].line, station |-> s, version |-> v]
  BY <1>1
<1>4. stations \in Seq(Station)
  BY <1>2, NetworkAssumption
<1>5. PICK s \in Between(stops[i].at, stops[i + 1].at, stations) :
               e = [line |-> stops[i].line, station |-> s, version |-> v]
  BY <1>3
<1>6. s \in Station
  BY <1>4, BetweenIsOnVariant
<1> QED  BY <1>2, <1>5, <1>6 DEF Entry

\* The rows in order are rows.
LEMMA OrderIsOfRows == ASSUME NEW rows, NEW stops \in InOrder(rows) PROVE stops \in Seq(rows)
BY DEF InOrder

------------------------------------------------------------------------------
(* Types *)

\* A session begins with no columns to change.
LEMMA EmptyIsPartial == ASSUME NEW T PROVE <<>> \in Partial(T) /\ DOMAIN <<>> = {}
<1>1. <<>> \in [{} -> T] /\ {} \in SUBSET Nat
  OBVIOUS
<1> QED  BY <1>1 DEF Partial

\* The changed columns are those of rows, by id.
LEMMA PartialIs ==
    ASSUME NEW T, NEW f \in Partial(T)
    PROVE  DOMAIN f \in SUBSET Nat /\ \A i \in DOMAIN f : f[i] \in T
<1>1. PICK S \in SUBSET Nat : f \in [S -> T]
  BY DEF Partial
<1> QED  BY <1>1

\* Part of a finite table is one.
LEMMA PartOfFinite ==
    ASSUME NEW S, NEW A \in Finite(S), NEW B \in SUBSET A
    PROVE  B \in Finite(S)
<1>1. IsFiniteSet(A) /\ A \in SUBSET S
  BY DEF Finite
<1>2. IsFiniteSet(B)
  BY <1>1, FS_Subset
<1> QED  BY <1>1, <1>2 DEF Finite

\* The ids of rows are numbers.
LEMMA IdsAreNumbers == ASSUME NEW rows \in SUBSET Row PROVE Ids(rows) \in SUBSET Nat
BY DEF Ids, Row

\* A process without a request has an empty session.
LEMMA NoTxIsTyped == ASSUME Network # {} PROVE NoTx \in SessionRecord
<1>1. (CHOOSE n \in Network : TRUE) \in Network
  OBVIOUS
<1>2. {} \in Finite(Row)
  BY FS_EmptySet DEF Finite
<1> QED  BY <1>1, <1>2, EmptyIsPartial DEF NoTx, SessionRecord

\* A new session has read the lines.
LEMMA SessionIsTyped == ASSUME Types PROVE Session \in SessionRecord /\ NoTx \in SessionRecord
<1>1. NoTx \in SessionRecord
  BY NoTxIsTyped DEF Types
<1>2. net \in Network /\ version \in Nat
  BY DEF Types
<1> QED  BY <1>1, <1>2 DEF Session, SessionRecord

\* A build adds index entries to the session.
LEMMA BuiltIsTyped ==
    ASSUME NEW t \in SessionRecord, NEW rows \in SUBSET Row, NEW stops \in InOrder(rows)
    PROVE  Built(t, stops) \in SessionRecord
<1>1. stops \in Seq(Row)
  BY OrderIsOfRows
<1>2. t.net \in Network /\ t.version \in Nat
  BY DEF SessionRecord
<1>3. Expand(stops, t.net, t.version) \in SUBSET Entry
  BY <1>1, <1>2, ExpansionIsTyped
<1> QED  BY <1>3 DEF Built, SessionRecord

\* A session that goes on keeps the types, and the others are as they were.
LEMMA GoIsTyped ==
    ASSUME Types, NEW p \in Proc, NEW step \in {"idle", "open", "built", "cleared"},
           NEW t \in SessionRecord, Go(p, step, t)
    PROVE  /\ pc' \in [Proc -> {"idle", "open", "built", "cleared"}]
           /\ tx' \in [Proc -> SessionRecord]
           /\ pc'[p] = step /\ tx'[p] = t
           /\ \A q \in Proc : q # p => pc'[q] = pc[q] /\ tx'[q] = tx[q]
BY DEF Go, Types

\* A session that ends leaves the empty one.
LEMMA CloseIsGo == ASSUME NEW p, Close(p) PROVE Go(p, "idle", NoTx)
BY DEF Go, Close

\* The rows a request adds, with the next ids.
Rows(j) == {[id |-> ids + i, seq |-> i - 1, at |-> j[i].at, line |-> j[i].line,
             dead |-> FALSE] : i \in DOMAIN j}

\* The rows of a journey have new ids and are numbered 0, 1, ...
LEMMA RowsAreTyped ==
    ASSUME Types, NEW j \in Journey
    PROVE  /\ Rows(j) \in Finite(Row) /\ Len(j) \in Nat /\ Len(j) >= 2
           /\ \A r \in Rows(j) : r.id > ids /\ r.id <= ids + Len(j) /\ ~r.dead
           /\ \A r, s \in Rows(j) : r.id = s.id => r = s
           /\ {r.seq : r \in Rows(j)} = 0 .. Len(j) - 1
           /\ Cardinality(Rows(j)) = Len(j)
<1> DEFINE f == [i \in DOMAIN j |-> [id |-> ids + i, seq |-> i - 1, at |-> j[i].at,
                                     line |-> j[i].line, dead |-> FALSE]]
<1>1. /\ DOMAIN j = 1 .. Len(j) /\ Len(j) \in Nat /\ ids \in Nat /\ Len(j) >= 2
      /\ \A i \in DOMAIN j : j[i] \in Stop
  BY JourneyAssumption DEF Types, MIN_ROUTE_SEGMENTS
<1>2. \A i \in DOMAIN j : f[i] \in Row /\ f[i].id = ids + i /\ f[i].seq = i - 1 /\ ~f[i].dead
  BY <1>1 DEF Row, Stop
<1>3. Rows(j) = {f[i] : i \in DOMAIN j} /\ DOMAIN f = DOMAIN j
  BY DEF Rows
<1> HIDE DEF f
<1>4. \A i, k \in DOMAIN j : f[i] = f[k] => i = k
  BY <1>1, <1>2
<1>5. f \in Bijection(DOMAIN j, Rows(j))
  <2>1. f \in [DOMAIN j -> Rows(j)]
    BY <1>3 DEF f
  <2>2. f \in Surjection(DOMAIN j, Rows(j))
    BY <2>1, <1>3 DEF Surjection
  <2>3. f \in Injection(DOMAIN j, Rows(j))
    BY <2>1, <1>4 DEF Injection, IsInjective
  <2> QED  BY <2>2, <2>3 DEF Bijection
<1>6. ExistsBijection(DOMAIN j, Rows(j))
  BY <1>5 DEF ExistsBijection
<1>7. IsFiniteSet(DOMAIN j) /\ Cardinality(DOMAIN j) = Len(j)
  <2>1. 1 \in Int /\ Len(j) \in Int /\ ~(1 > Len(j))
    BY <1>1
  <2>2. IsFiniteSet(1 .. Len(j)) /\ Cardinality(1 .. Len(j)) = Len(j) - 1 + 1
    BY <2>1, FS_Interval
  <2> QED  BY <1>1, <2>2
<1>8. IsFiniteSet(Rows(j)) /\ Cardinality(Rows(j)) = Len(j)
  BY <1>6, <1>7, FS_Bijection
<1>9. Rows(j) \in SUBSET Row
  BY <1>2, <1>3
<1>10. \A r \in Rows(j) : r.id > ids /\ r.id <= ids + Len(j) /\ ~r.dead
  BY <1>1, <1>2, <1>3
<1>11. \A r, s \in Rows(j) : r.id = s.id => r = s
  BY <1>1, <1>2, <1>3
<1>12. {r.seq : r \in Rows(j)} = 0 .. Len(j) - 1
  <2>1. ASSUME NEW r \in Rows(j) PROVE r.seq \in 0 .. Len(j) - 1
    BY <1>1, <1>2, <1>3
  <2>2. ASSUME NEW k \in 0 .. Len(j) - 1 PROVE \E r \in Rows(j) : r.seq = k
    <3>1. k + 1 \in DOMAIN j /\ k + 1 - 1 = k
      BY <1>1
    <3>2. f[k + 1] \in Rows(j) /\ f[k + 1].seq = k
      BY <1>2, <1>3, <3>1
    <3> QED  BY <3>2
  <2> QED  BY <2>1, <2>2
<1> QED  BY <1>1, <1>8, <1>9, <1>10, <1>11, <1>12 DEF Finite

\* The rows a session leaves.
LEMMA WrittenIs ==
    ASSUME NEW t, NEW x
    PROVE  x \in Written(t) <=>
             \/ x \in t.add
             \/ \E r \in segs : /\ r.id \notin t.orphans
                                /\ x = [id   |-> r.id,
                                        seq  |-> IF r.id \in DOMAIN t.renumber THEN t.renumber[r.id] ELSE r.seq,
                                        at   |-> IF r.id \in DOMAIN t.move THEN t.move[r.id].at ELSE r.at,
                                        line |-> IF r.id \in DOMAIN t.move THEN t.move[r.id].line ELSE r.line,
                                        dead |-> r.dead \/ r.id \in t.kill]
BY DEF Written

\* What a session leaves is a finite table of rows.
LEMMA WrittenIsTyped == ASSUME Types, NEW t \in SessionRecord PROVE Written(t) \in Finite(Row)
<1> DEFINE S == {r \in segs : r.id \notin t.orphans}
           new(r) == [id   |-> r.id,
                      seq  |-> IF r.id \in DOMAIN t.renumber THEN t.renumber[r.id] ELSE r.seq,
                      at   |-> IF r.id \in DOMAIN t.move THEN t.move[r.id].at ELSE r.at,
                      line |-> IF r.id \in DOMAIN t.move THEN t.move[r.id].line ELSE r.line,
                      dead |-> r.dead \/ r.id \in t.kill]
           W == {new(r) : r \in S}
           f == [r \in S |-> new(r)]
<1>1. Written(t) = W \cup t.add
  BY DEF Written
<1>2. /\ t.renumber \in Partial(Nat) /\ t.move \in Partial(Stop) /\ t.add \in Finite(Row)
      /\ segs \in Finite(Row)
  BY DEF SessionRecord, Types
<1>3. /\ \A i \in DOMAIN t.renumber : t.renumber[i] \in Nat
      /\ \A i \in DOMAIN t.move : t.move[i] \in Stop
  BY <1>2, PartialIs
<1>4. ASSUME NEW r \in S PROVE new(r) \in Row
  <2>1. r \in Row
    BY <1>2 DEF Finite
  <2>2. r.id \in DOMAIN t.move => t.move[r.id].at \in Station /\ t.move[r.id].line \in Line \cup {None}
    BY <1>3 DEF Stop
  <2> QED  BY <1>3, <2>1, <2>2 DEF Row
<1>5. f \in [S -> W] /\ \A x \in W : \E r \in S : f[r] = x
  OBVIOUS
<1>6. W \in SUBSET Row
  BY <1>4
<1> HIDE DEF f, W, new
<1>7. f \in Surjection(S, W)
  BY <1>5 DEF Surjection
<1>8. IsFiniteSet(S)
  BY <1>2, FS_Subset DEF Finite
<1>9. IsFiniteSet(W)
  BY <1>7, <1>8, FS_Surjection
<1>10. IsFiniteSet(W \cup t.add) /\ t.add \in SUBSET Row
  BY <1>2, <1>9, FS_Union DEF Finite
<1> QED  BY <1>1, <1>6, <1>10 DEF Finite

\* Every step keeps the types.
LEMMA TypesKept == Types /\ [Next]_vars => Types'
<1> SUFFICES ASSUME Types, [Next]_vars PROVE Types'
  OBVIOUS
<1>1. ASSUME UNCHANGED vars PROVE Types'
  BY <1>1 DEF Types, vars
<1>2. Session \in SessionRecord /\ NoTx \in SessionRecord
  BY SessionIsTyped
<1>3. /\ Active(segs) \in Finite(Row) /\ Ids(Active(segs)) \in SUBSET Nat
      /\ Ids(segs \ Active(segs)) \in SUBSET Nat
  <2>1. segs \in Finite(Row) /\ Active(segs) \in SUBSET segs /\ segs \ Active(segs) \in SUBSET Row
    BY DEF Types, Active, Finite
  <2>2. Active(segs) \in Finite(Row)
    BY <2>1, PartOfFinite
  <2> QED  BY <2>1, <2>2, IdsAreNumbers DEF Finite
<1>4. ASSUME NEW p \in Proc, NEW step \in {"idle", "open", "built", "cleared"}, NEW t \in SessionRecord,
             Go(p, step, t), UNCHANGED <<tables, lines, detect>>,
             jobs' \in Nat /\ ids' \in Nat /\ edits' \in 0..MaxEdits /\ faults' \in 0..MaxFaults,
             raced' \in BOOLEAN
      PROVE  Types'
  <2>1. pc' \in [Proc -> {"idle", "open", "built", "cleared"}] /\ tx' \in [Proc -> SessionRecord]
    BY <1>4, GoIsTyped
  <2> QED  BY <1>4, <2>1 DEF Types, tables, lines
<1>5. \A p : Overlaps(p) => raced' \in BOOLEAN
  BY DEF Overlaps, Types
<1>6. Request => edits' \in 0..MaxEdits
  BY BoundAssumption DEF Request, Types
<1>7. /\ jobs \in Nat /\ ids \in Nat /\ edits \in 0..MaxEdits /\ faults \in 0..MaxFaults /\ raced \in BOOLEAN
      /\ tx \in [Proc -> SessionRecord]
  BY DEF Types
<1>8. ASSUME NEW p \in Proc, Start(p) PROVE Types'
  <2>1. CASE Open(p)
    <3> DEFINE t == [Session EXCEPT !.kind = "edit", !.loaded = Active(segs),
                                    !.orphans = Ids(segs \ Active(segs))]
    <3>1. t \in SessionRecord
      BY <1>2, <1>3 DEF SessionRecord
    <3>2. Go(p, "open", t) /\ Request /\ Overlaps(p) /\ UNCHANGED <<tables, lines, queues, ids, faults>>
      BY <2>1 DEF Open
    <3> HIDE DEF t
    <3> QED  BY <1>4, <1>5, <1>6, <1>7, <3>1, <3>2 DEF queues
  <2>2. CASE DeleteRoute(p)
    <3> DEFINE t == [NoTx EXCEPT !.kind = "delete", !.kill = Ids(Active(segs))]
    <3>1. t \in SessionRecord
      BY <1>2, <1>3 DEF SessionRecord
    <3>2. Go(p, "built", t) /\ Request /\ Overlaps(p) /\ UNCHANGED <<tables, lines, queues, ids, faults>>
      BY <2>2 DEF DeleteRoute
    <3> HIDE DEF t
    <3> QED  BY <1>4, <1>5, <1>6, <1>7, <3>1, <3>2 DEF queues
  <2>3. CASE Rebuild(p, FALSE)
    <3>1. Request /\ UNCHANGED <<jobs, tables, lines, detect, ids, faults>>
      BY <2>3 DEF Rebuild
    <3>2. CASE UNCHANGED <<pc, tx, raced>>
      BY <1>6, <3>1, <3>2 DEF Types, tables, lines
    <3>3. ASSUME NEW stops \in InOrder(segs), Overlaps(p),
                 Go(p, "built", Built([Session EXCEPT !.kind = "rebuild"], stops))
          PROVE  Types'
      <4>1. [Session EXCEPT !.kind = "rebuild"] \in SessionRecord /\ segs \in SUBSET Row
        BY <1>2 DEF SessionRecord, Types, Finite
      <4>2. Built([Session EXCEPT !.kind = "rebuild"], stops) \in SessionRecord
        BY <4>1, BuiltIsTyped
      <4> QED  BY <1>4, <1>5, <1>6, <1>7, <3>1, <3>3, <4>2
    <3> QED  BY <2>3, <3>2, <3>3 DEF Rebuild
  <2>4. ASSUME NEW j \in Journey, Replace(p, j) PROVE Types'
    <3>1. PICK stops \in InOrder(segs \cup Rows(j)) :
            Go(p, "built", Built([Session EXCEPT !.kind = "replace", !.add = Rows(j),
                                                 !.kill = Ids(Active(segs))], stops))
      BY <2>4 DEF Replace, Rows
    <3>2. Rows(j) \in Finite(Row) /\ Len(j) \in Nat
      BY RowsAreTyped
    <3> DEFINE t == [Session EXCEPT !.kind = "replace", !.add = Rows(j), !.kill = Ids(Active(segs))]
    <3>3. t \in SessionRecord /\ segs \cup Rows(j) \in SUBSET Row
      BY <1>2, <1>3, <3>2 DEF SessionRecord, Types, Finite
    <3> HIDE DEF t
    <3>4. Built(t, stops) \in SessionRecord
      BY <3>3, BuiltIsTyped
    <3>5. Go(p, "built", Built(t, stops))
      BY <3>1 DEF t
    <3>6. Request /\ Overlaps(p) /\ ids' = ids + Len(j) /\ UNCHANGED <<tables, lines, queues, faults>>
      BY <2>4 DEF Replace
    <3> QED  BY <1>4, <1>5, <1>6, <1>7, <3>2, <3>4, <3>5, <3>6 DEF queues
  <2> QED  BY <1>8, <2>1, <2>2, <2>3, <2>4 DEF Start
<1>9. ASSUME NEW p \in Proc, Continue(p) PROVE Types'
  <2>0. tx[p] \in SessionRecord
    BY <1>7
  <2>1. CASE Reject(p)
    BY <1>2, <1>4, <1>7, <2>1, CloseIsGo DEF Reject, queues
  <2>2. CASE Clear(p)
    <3> DEFINE t == [tx[p] EXCEPT !.victims = {b.id : b \in index}]
    <3>1. {b.id : b \in index} \in SUBSET Nat
      BY DEF Types, Build
    <3>2. t \in SessionRecord
      BY <2>0, <3>1 DEF SessionRecord
    <3>3. Go(p, "cleared", t) /\ UNCHANGED <<tables, lines, queues, ids, edits, faults, raced>>
      BY <2>2 DEF Clear
    <3> HIDE DEF t
    <3> QED  BY <1>4, <1>7, <3>2, <3>3 DEF queues
  <2>3. CASE Commit(p)
    <3> DEFINE stay == {b \in index : b.id \notin tx[p].victims}
               new == [id |-> ids + 1, by |-> p, entries |-> tx[p].entries]
    <3>1. /\ segs' = Written(tx[p]) /\ route' \in {route, "deleted"} /\ Close(p) /\ ids' = ids + 1
          /\ old' = old \cup {e.version : e \in UNION {b.entries : b \in index \ stay}}
          /\ index' \in {stay, stay \cup {new}}
          /\ UNCHANGED <<lines, queues, edits, faults, raced>>
      BY <2>3 DEF Commit
    <3>2. Written(tx[p]) \in Finite(Row)
      BY <2>0, WrittenIsTyped
    <3>3. new \in Build
      BY <1>7, <2>0 DEF SessionRecord, Build
    <3>4. stay \in SUBSET Build
      BY DEF Types
    <3>5. ASSUME NEW e \in UNION {b.entries : b \in index \ stay} PROVE e.version \in Nat
      <4>1. PICK b \in index : e \in b.entries
        OBVIOUS
      <4>2. e \in Entry
        BY <4>1 DEF Types, Build
      <4> QED  BY <4>2 DEF Entry
    <3> HIDE DEF stay, new
    <3>6. old' \in SUBSET Nat
      BY <3>1, <3>5 DEF Types
    <3>7. index' \in SUBSET Build
      BY <3>1, <3>3, <3>4
    <3>8. pc' \in [Proc -> {"idle", "open", "built", "cleared"}] /\ tx' \in [Proc -> SessionRecord]
      BY <1>2, <3>1, CloseIsGo, GoIsTyped
    <3>9. ids' \in Nat /\ route' \in {"live", "deleted"}
      BY <1>7, <3>1 DEF Types
    <3> QED  BY <3>1, <3>2, <3>6, <3>7, <3>8, <3>9 DEF Types, lines, queues
  <2>4. CASE Rebuild(p, TRUE)
    <3>1. jobs' \in Nat /\ UNCHANGED <<edits, tables, lines, detect, ids, faults>>
      BY <1>7, <2>4 DEF Rebuild
    <3>2. CASE UNCHANGED <<pc, tx, raced>>
      BY <3>1, <3>2 DEF Types, tables, lines
    <3>3. ASSUME NEW stops \in InOrder(segs), Overlaps(p),
                 Go(p, "built", Built([Session EXCEPT !.kind = "rebuild"], stops))
          PROVE  Types'
      <4>1. [Session EXCEPT !.kind = "rebuild"] \in SessionRecord /\ segs \in SUBSET Row
        BY <1>2 DEF SessionRecord, Types, Finite
      <4>2. Built([Session EXCEPT !.kind = "rebuild"], stops) \in SessionRecord
        BY <4>1, BuiltIsTyped
      <4> QED  BY <1>4, <1>5, <1>7, <3>1, <3>3, <4>2
    <3> QED  BY <2>4, <3>2, <3>3 DEF Rebuild
  <2>5. ASSUME NEW j \in Journey, Move(p, j) PROVE Types'
    <3>1. PICK r \in tx[p].loaded, stops \in InOrder(tx[p].loaded) :
            /\ r.seq + 1 \in DOMAIN j
            /\ Go(p, "built", Built([tx[p] EXCEPT !.move = [i \in {r.id} |-> j[r.seq + 1]]], stops))
      BY <2>5 DEF Move
    <3> DEFINE m == [i \in {r.id} |-> j[r.seq + 1]]
               t == [tx[p] EXCEPT !.move = m]
    <3>2. m \in Partial(Stop)
      <4>1. tx[p].loaded \in SUBSET Row
        BY <2>0 DEF SessionRecord, Finite
      <4>2. {r.id} \in SUBSET Nat
        BY <4>1 DEF Row
      <4>3. j[r.seq + 1] \in Stop
        BY <3>1, JourneyAssumption
      <4>4. m \in [{r.id} -> Stop]
        BY <4>3
      <4> QED  BY <4>2, <4>4 DEF Partial
    <3> HIDE DEF m
    <3>3. t \in SessionRecord /\ tx[p].loaded \in SUBSET Row
      BY <2>0, <3>2 DEF SessionRecord, Finite
    <3>4. Go(p, "built", Built(t, stops))
      BY <3>1 DEF m
    <3> HIDE DEF t
    <3>5. Built(t, stops) \in SessionRecord
      BY <3>3, BuiltIsTyped
    <3>6. UNCHANGED <<tables, lines, queues, ids, edits, faults, raced>>
      BY <2>5 DEF Move
    <3> QED  BY <1>4, <1>7, <3>4, <3>5, <3>6 DEF queues
  <2>6. ASSUME NEW r \in tx[p].loaded, Cut(p, r) PROVE Types'
    <3> DEFINE rest == tx[p].loaded \ {r}
               below(s) == {x \in rest : x.seq < s.seq}
               rank(s) == Cardinality(below(s))
               n == [i \in Ids(rest) |-> rank(CHOOSE s \in rest : s.id = i)]
               t == [tx[p] EXCEPT !.kill = {r.id}, !.renumber = n]
    <3>1. PICK stops \in InOrder(tx[p].loaded) : Go(p, "built", Built(t, stops))
      BY <2>6 DEF Cut
    <3>2. tx[p].loaded \in SUBSET Row /\ rest \in SUBSET Row /\ IsFiniteSet(rest)
      BY <2>0, FS_Subset DEF SessionRecord, Finite
    <3>3. ASSUME NEW s PROVE rank(s) \in Nat
      <4>1. below(s) \in SUBSET rest
        OBVIOUS
      <4> QED  BY <3>2, <4>1, FS_Subset, FS_CardinalityType
    <3>4. n \in Partial(Nat)
      <4> HIDE DEF rank
      <4>1. n \in [Ids(rest) -> Nat]
        BY <3>3
      <4>2. Ids(rest) \in SUBSET Nat
        BY <3>2, IdsAreNumbers
      <4> QED  BY <4>1, <4>2 DEF Partial
    <3> HIDE DEF n
    <3>5. {r.id} \in SUBSET Nat
      BY <3>2 DEF Row
    <3>6. t \in SessionRecord
      BY <2>0, <3>4, <3>5 DEF SessionRecord
    <3> HIDE DEF t
    <3>7. Built(t, stops) \in SessionRecord
      BY <3>2, <3>6, BuiltIsTyped
    <3>8. UNCHANGED <<tables, lines, queues, ids, edits, faults, raced>>
      BY <2>6 DEF Cut
    <3> QED  BY <1>4, <1>7, <3>1, <3>7, <3>8 DEF queues
  <2> QED  BY <1>9, <2>1, <2>2, <2>3, <2>4, <2>5, <2>6 DEF Continue
<1>10. ASSUME NEW p \in Proc, Rollback(p) PROVE Types'
  <2>1. faults' \in 0..MaxFaults
    BY <1>7, <1>10, BoundAssumption DEF Rollback
  <2> QED  BY <1>2, <1>4, <1>7, <1>10, <2>1, CloseIsGo DEF Rollback, queues
<1>11. ASSUME FetchLines \/ StoreGraph \/ Detect \/ Lose PROVE Types'
  <2>1. CASE FetchLines
    BY <2>1, BoundAssumption DEF FetchLines, Types, tables, queues
  <2>2. CASE StoreGraph
    <3>1. /\ UNCHANGED <<route, segs, index, old, version, jobs, pc, tx, ids, edits,
                         refreshes, faults, raced>>
          /\ graph' = "idle" /\ net' \in Network /\ detect' = TRUE
      BY <2>2 DEF StoreGraph, tables
    <3> QED  BY <3>1 DEF Types
  <2>3. CASE Detect
    <3>1. /\ UNCHANGED <<route, segs, index, old, net, version, graph, pc, tx, ids, edits, refreshes, faults>>
          /\ detect' = FALSE /\ jobs' \in {jobs, jobs + 1}
          /\ raced' = (raced \/ \E p \in Proc : pc[p] # "idle")
      BY <2>3 DEF Detect, tables, lines
    <3>2. jobs' \in Nat
      BY <1>7, <3>1
    <3>3. raced' \in BOOLEAN
      BY <3>1
    <3> QED  BY <3>1, <3>2, <3>3 DEF Types
  <2>4. CASE Lose
    <3>1. /\ UNCHANGED <<route, segs, index, old, net, version, refreshes, pc, tx, ids, edits, raced>>
          /\ graph' \in {"idle", graph} /\ detect' \in {detect, FALSE}
          /\ jobs' = jobs \/ (jobs > 0 /\ jobs' = jobs - 1)
          /\ faults < MaxFaults /\ faults' = faults + 1
      BY <2>4 DEF Lose, tables, queues
    <3>2. jobs' \in Nat /\ faults' \in 0..MaxFaults
      BY <1>7, <3>1, BoundAssumption
    <3>3. graph' \in {"idle", "fetched"}
      BY <3>1 DEF Types
    <3>4. detect' \in BOOLEAN
      BY <3>1 DEF Types
    <3> QED  BY <3>1, <3>2, <3>3, <3>4 DEF Types
  <2> QED  BY <1>11, <2>1, <2>2, <2>3, <2>4
<1> QED  BY <1>1, <1>8, <1>9, <1>10, <1>11 DEF Next

------------------------------------------------------------------------------
(* Keys *)

\* A step that gives no row an id, and writes none, keeps the ids keys.
LEMMA KeysStay ==
    ASSUME Types, IdsAreKeys, UNCHANGED segs, ids' \in Nat, ids' >= ids,
           \A p \in Proc : tx'[p].add \subseteq tx[p].add
    PROVE  IdsAreKeys'
<1>1. ids \in Nat /\ \A r \in segs : r.id \in Nat
  BY DEF Types, Finite, Row
<1>2. \A r \in segs' : r.id <= ids'
  BY <1>1 DEF IdsAreKeys
<1>3. ASSUME NEW p \in Proc, NEW r \in tx'[p].add
      PROVE  /\ r.id <= ids' /\ r.id \notin Ids(segs')
             /\ \A s \in tx'[p].add : r.id = s.id => r = s
  <2>1. r \in tx[p].add /\ tx[p].add \in SUBSET Row
    BY DEF Types, SessionRecord, Finite
  <2>2. r.id \in Nat
    BY <2>1 DEF Row
  <2> QED  BY <1>1, <2>1, <2>2 DEF IdsAreKeys
<1>4. ASSUME NEW p \in Proc, NEW q \in Proc, p # q
      PROVE  Ids(tx'[p].add) \cap Ids(tx'[q].add) = {}
  <2>1. Ids(tx[p].add) \cap Ids(tx[q].add) = {}
    BY <1>4 DEF IdsAreKeys
  <2>2. Ids(tx'[p].add) \subseteq Ids(tx[p].add) /\ Ids(tx'[q].add) \subseteq Ids(tx[q].add)
    BY DEF Ids
  <2> QED  BY <2>1, <2>2
<1>5. Ids(segs)' = Ids(segs')
  OBVIOUS
<1> QED  BY <1>2, <1>3, <1>4 DEF IdsAreKeys, Ids

\* The ids of what is written are those of the table and of the rows added.
LEMMA WrittenIds ==
    ASSUME Types, IdsAreKeys, NEW p \in Proc
    PROVE  /\ \A r, s \in Written(tx[p]) : r.id = s.id => r = s
           /\ \A x \in Written(tx[p]) : x.id \in Ids(segs) \cup Ids(tx[p].add)
<1> DEFINE t == tx[p]
           new(r) == [id   |-> r.id,
                      seq  |-> IF r.id \in DOMAIN t.renumber THEN t.renumber[r.id] ELSE r.seq,
                      at   |-> IF r.id \in DOMAIN t.move THEN t.move[r.id].at ELSE r.at,
                      line |-> IF r.id \in DOMAIN t.move THEN t.move[r.id].line ELSE r.line,
                      dead |-> r.dead \/ r.id \in t.kill]
<1>1. \A x \in Written(t) : x \in t.add \/ \E r \in segs : x = new(r)
  BY DEF Written
<1>2. \A r : new(r).id = r.id
  OBVIOUS
<1> HIDE DEF new
<1>3. /\ \A r, s \in segs : r.id = s.id => r = s
      /\ \A r \in t.add : r.id \notin Ids(segs) /\ \A s \in t.add : r.id = s.id => r = s
  BY DEF IdsAreKeys
<1> HIDE DEF t
<1>4. ASSUME NEW x \in Written(t), NEW y \in Written(t), x.id = y.id PROVE x = y
  <2>1. CASE x \in t.add /\ y \in t.add
    BY <1>3, <1>4, <2>1
  <2>2. CASE x \in t.add /\ y \notin t.add
    BY <1>1, <1>2, <1>3, <1>4, <2>2 DEF Ids
  <2>3. CASE x \notin t.add /\ y \in t.add
    BY <1>1, <1>2, <1>3, <1>4, <2>3 DEF Ids
  <2>4. CASE x \notin t.add /\ y \notin t.add
    <3>1. PICK r \in segs : x = new(r)
      BY <1>1, <2>4
    <3>2. PICK s \in segs : y = new(s)
      BY <1>1, <2>4
    <3>3. r = s
      BY <1>2, <1>3, <1>4, <3>1, <3>2
    <3> QED  BY <3>1, <3>2, <3>3
  <2> QED  BY <2>1, <2>2, <2>3, <2>4
<1>5. \A x \in Written(t) : x.id \in Ids(segs) \cup Ids(t.add)
  BY <1>1, <1>2 DEF Ids
<1> QED  BY <1>4, <1>5 DEF t

\* The commit keeps ids and sequence numbers unique: the first for each new id is
\* one session's, the second by the unique index.
LEMMA CommitKeeps ==
    ASSUME Types, IdsAreKeys, NEW p \in Proc, Commit(p)
    PROVE  IdsAreKeys' /\ SequenceIsKey'
<1>1. /\ segs' = Written(tx[p]) /\ Close(p) /\ ids' = ids + 1 /\ ~Conflict(tx[p])
  BY DEF Commit
<1>2. /\ \A r, s \in segs' : r.id = s.id => r = s
      /\ \A x \in segs' : x.id \in Ids(segs) \cup Ids(tx[p].add)
  BY <1>1, WrittenIds
<1>3. tx'[p] = NoTx /\ \A q \in Proc : q # p => tx'[q] = tx[q]
  BY <1>1, CloseIsGo, SessionIsTyped, GoIsTyped
<1>4. NoTx.add = {}
  BY DEF NoTx
<1>5. ids \in Nat /\ \A q \in Proc : tx[q].add \in SUBSET Row
  BY DEF Types, SessionRecord, Finite
<1>6. segs \in SUBSET Row
  BY DEF Types, Finite
<1>7. \A i \in Ids(segs) \cup Ids(tx[p].add) : i \in Nat /\ i <= ids
  BY <1>5, <1>6 DEF IdsAreKeys, Ids, Row
<1>8. \A r \in segs' : r.id <= ids'
  BY <1>1, <1>2, <1>5, <1>7
<1>9. ASSUME NEW q \in Proc, NEW r \in tx'[q].add
      PROVE  /\ r.id <= ids' /\ r.id \notin Ids(segs)'
             /\ \A s \in tx'[q].add : r.id = s.id => r = s
  <2>1. q # p /\ r \in tx[q].add
    BY <1>3, <1>4
  <2>2. r.id \in Nat /\ r.id <= ids /\ r.id \notin Ids(segs)
    BY <1>5, <2>1 DEF IdsAreKeys, Row
  <2>3. r.id \notin Ids(tx[p].add)
    BY <2>1 DEF IdsAreKeys, Ids
  <2>4. r.id \notin Ids(segs')
    BY <1>2, <2>2, <2>3 DEF Ids
  <2>5. \A s \in tx'[q].add : r.id = s.id => r = s
    BY <1>3, <2>1 DEF IdsAreKeys
  <2> QED  BY <1>1, <1>5, <2>2, <2>4, <2>5 DEF Ids
<1>10. ASSUME NEW a \in Proc, NEW q \in Proc, a # q
       PROVE  Ids(tx'[a].add) \cap Ids(tx'[q].add) = {}
  <2>1. tx'[a].add \subseteq tx[a].add /\ tx'[q].add \subseteq tx[q].add
    BY <1>3, <1>4
  <2>2. Ids(tx[a].add) \cap Ids(tx[q].add) = {}
    BY <1>10 DEF IdsAreKeys
  <2> QED  BY <2>1, <2>2 DEF Ids
<1>11. IdsAreKeys'
  <2>1. \A q \in Proc : \A r \in tx'[q].add :
          /\ r.id <= ids' /\ r.id \notin Ids(segs)'
          /\ \A s \in tx'[q].add : r.id = s.id => r = s
    BY <1>9
  <2>2. \A a, q \in Proc : a # q => Ids(tx'[a].add) \cap Ids(tx'[q].add) = {}
    BY <1>10
  <2> QED  BY <1>2, <1>8, <2>1, <2>2 DEF IdsAreKeys, Ids
<1>12. \A r, s \in Active(segs') : r.seq = s.seq => r.id = s.id
  BY <1>1 DEF Conflict
<1>13. SequenceIsKey'
  BY <1>2, <1>12 DEF SequenceIsKey, Active
<1> QED  BY <1>11, <1>13

\* The rows of a new journey get ids no row has.
LEMMA ReplaceKeeps ==
    ASSUME Types, IdsAreKeys, SequenceIsKey, NEW p \in Proc, NEW j \in Journey, Replace(p, j)
    PROVE  IdsAreKeys' /\ SequenceIsKey'
<1>1. PICK stops \in InOrder(segs \cup Rows(j)) :
        Go(p, "built", Built([Session EXCEPT !.kind = "replace", !.add = Rows(j),
                                             !.kill = Ids(Active(segs))], stops))
  BY DEF Replace, Rows
<1> DEFINE t == [Session EXCEPT !.kind = "replace", !.add = Rows(j), !.kill = Ids(Active(segs))]
<1>2. t.add = Rows(j) /\ Built(t, stops).add = t.add
  BY DEF Session, NoTx, Built
<1> HIDE DEF t
<1>3. tx'[p] = Built(t, stops) /\ \A q \in Proc : q # p => tx'[q] = tx[q]
  BY <1>1 DEF t, Go, Types
<1>4. tx'[p].add = Rows(j)
  BY <1>2, <1>3
<1>5. UNCHANGED segs /\ ids' = ids + Len(j) /\ ids \in Nat
  BY DEF Replace, tables, Types
<1>6. /\ Len(j) \in Nat /\ \A r \in Rows(j) : r.id > ids /\ r.id <= ids + Len(j) /\ r.id \in Nat
      /\ \A r, s \in Rows(j) : r.id = s.id => r = s
  BY RowsAreTyped DEF Finite, Row
<1>7. /\ \A r \in segs : r.id \in Nat /\ r.id <= ids
      /\ \A q \in Proc : \A r \in tx[q].add : r.id \in Nat /\ r.id <= ids
  BY DEF IdsAreKeys, Types, SessionRecord, Finite, Row
<1>8. \A r \in segs' : r.id <= ids'
  BY <1>5, <1>6, <1>7
<1>9. ASSUME NEW q \in Proc, NEW r \in tx'[q].add
      PROVE  /\ r.id <= ids' /\ r.id \notin Ids(segs)
             /\ \A s \in tx'[q].add : r.id = s.id => r = s
  <2>1. CASE q = p
    <3>1. r \in Rows(j) /\ r.id <= ids' /\ \A s \in tx'[q].add : r.id = s.id => r = s
      BY <1>4, <1>5, <1>6, <2>1
    <3>2. \A s \in segs : s.id # r.id
      BY <1>5, <1>6, <1>7, <3>1
    <3> QED  BY <3>1, <3>2 DEF Ids
  <2>2. CASE q # p
    <3>1. r \in tx[q].add /\ tx'[q] = tx[q]
      BY <1>3, <2>2
    <3>2. r.id <= ids'
      BY <1>5, <1>6, <1>7, <3>1
    <3> QED  BY <3>1, <3>2 DEF IdsAreKeys
  <2> QED  BY <2>1, <2>2
<1>10. ASSUME NEW q \in Proc, q # p PROVE Ids(tx'[p].add) \cap Ids(tx'[q].add) = {}
  <2>1. \A r \in Rows(j), s \in tx[q].add : r.id # s.id
    BY <1>5, <1>6, <1>7
  <2>2. tx'[q] = tx[q]
    BY <1>3, <1>10
  <2> QED  BY <1>4, <2>1, <2>2 DEF Ids
<1>11. ASSUME NEW a \in Proc, NEW q \in Proc, a # q
       PROVE  Ids(tx'[a].add) \cap Ids(tx'[q].add) = {}
  <2>1. CASE a = p \/ q = p
    BY <1>10, <1>11, <2>1
  <2>2. CASE a # p /\ q # p
    <3>1. tx'[a] = tx[a] /\ tx'[q] = tx[q]
      BY <1>3, <2>2
    <3> QED  BY <1>11, <3>1 DEF IdsAreKeys
  <2> QED  BY <2>1, <2>2
<1>12. \A q \in Proc : \A r \in tx'[q].add :
          /\ r.id <= ids' /\ r.id \notin Ids(segs)
          /\ \A s \in tx'[q].add : r.id = s.id => r = s
  BY <1>9
<1>13. \A a, q \in Proc : a # q => Ids(tx'[a].add) \cap Ids(tx'[q].add) = {}
  BY <1>11
<1>14. \A r, s \in segs' : r.id = s.id => r = s
  BY <1>5 DEF IdsAreKeys
<1>15. IdsAreKeys'
  BY <1>5, <1>8, <1>12, <1>13, <1>14 DEF IdsAreKeys, Ids
<1> QED  BY <1>5, <1>15 DEF SequenceIsKey, Active

\* A step of a session that adds no rows.
LEMMA GoKeeps ==
    ASSUME Types, IdsAreKeys, SequenceIsKey, NEW p \in Proc, NEW step, NEW t, Go(p, step, t),
           t.add \subseteq tx[p].add, UNCHANGED <<segs, ids>>
    PROVE  IdsAreKeys' /\ SequenceIsKey'
<1>1. tx'[p] = t /\ \A q \in Proc : q # p => tx'[q] = tx[q]
  BY DEF Go, Types
<1>2. \A q \in Proc : tx'[q].add \subseteq tx[q].add
  BY <1>1
<1>3. ids' \in Nat /\ ids' >= ids
  BY DEF Types
<1> QED  BY <1>2, <1>3, KeysStay DEF SequenceIsKey, Active

\* A step of no session keeps the keys.
LEMMA OtherKeeps ==
    ASSUME Types, IdsAreKeys, SequenceIsKey, UNCHANGED <<segs, ids, tx>>
    PROVE  IdsAreKeys' /\ SequenceIsKey'
<1>1. ids' \in Nat /\ ids' >= ids
  BY DEF Types
<1> QED  BY <1>1, KeysStay DEF SequenceIsKey, Active

\* A rebuild writes no segments.
LEMMA RebuildKeeps ==
    ASSUME Types, IdsAreKeys, SequenceIsKey, NEW p \in Proc, NEW queued \in BOOLEAN,
           Rebuild(p, queued)
    PROVE  IdsAreKeys' /\ SequenceIsKey'
<1>1. UNCHANGED <<segs, ids>>
  BY DEF Rebuild, tables
<1>2. CASE UNCHANGED <<pc, tx, raced>>
  BY <1>1, <1>2, OtherKeeps
<1>3. ASSUME NEW stops, Go(p, "built", Built([Session EXCEPT !.kind = "rebuild"], stops))
      PROVE  IdsAreKeys' /\ SequenceIsKey'
  <2>1. Built([Session EXCEPT !.kind = "rebuild"], stops).add = {}
    BY DEF Built, Session, NoTx
  <2>2. Built([Session EXCEPT !.kind = "rebuild"], stops).add \subseteq tx[p].add
    BY <2>1
  <2> QED  BY <1>1, <1>3, <2>2, GoKeeps
<1>4. \/ UNCHANGED <<pc, tx, raced>>
      \/ \E stops : Go(p, "built", Built([Session EXCEPT !.kind = "rebuild"], stops))
  BY DEF Rebuild
<1> QED  BY <1>2, <1>3, <1>4

\* Every step keeps the keys.
LEMMA KeysKept ==
    Types /\ IdsAreKeys /\ SequenceIsKey /\ [Next]_vars => IdsAreKeys' /\ SequenceIsKey'
<1> SUFFICES ASSUME Types, IdsAreKeys, SequenceIsKey, [Next]_vars
             PROVE  IdsAreKeys' /\ SequenceIsKey'
  OBVIOUS
<1>1. ASSUME UNCHANGED vars PROVE IdsAreKeys' /\ SequenceIsKey'
  BY <1>1, OtherKeeps DEF vars
<1>2. NoTx.add = {} /\ NoTx.add \subseteq {}
  BY DEF NoTx
<1>3. ASSUME NEW p \in Proc, Start(p) PROVE IdsAreKeys' /\ SequenceIsKey'
  <2>1. CASE Open(p)
    <3> DEFINE t == [Session EXCEPT !.kind = "edit", !.loaded = Active(segs),
                                    !.orphans = Ids(segs \ Active(segs))]
    <3>1. t.add \subseteq tx[p].add
      BY DEF Session, NoTx
    <3>2. Go(p, "open", t) /\ UNCHANGED <<segs, ids>>
      BY <2>1 DEF Open, tables
    <3> HIDE DEF t
    <3> QED  BY <3>1, <3>2, GoKeeps
  <2>2. CASE DeleteRoute(p)
    <3> DEFINE t == [NoTx EXCEPT !.kind = "delete", !.kill = Ids(Active(segs))]
    <3>1. t.add \subseteq tx[p].add
      BY DEF NoTx
    <3>2. Go(p, "built", t) /\ UNCHANGED <<segs, ids>>
      BY <2>2 DEF DeleteRoute, tables
    <3> HIDE DEF t
    <3> QED  BY <3>1, <3>2, GoKeeps
  <2>3. CASE Rebuild(p, FALSE)
    BY <2>3, RebuildKeeps
  <2>4. ASSUME NEW j \in Journey, Replace(p, j) PROVE IdsAreKeys' /\ SequenceIsKey'
    BY <2>4, ReplaceKeeps
  <2> QED  BY <1>3, <2>1, <2>2, <2>3, <2>4 DEF Start
<1>4. ASSUME NEW p \in Proc, Close(p), UNCHANGED <<segs, ids>> PROVE IdsAreKeys' /\ SequenceIsKey'
  <2>1. Go(p, "idle", NoTx) /\ NoTx.add \subseteq tx[p].add
    BY <1>2, <1>4, CloseIsGo
  <2> QED  BY <1>4, <2>1, GoKeeps
<1>5. ASSUME NEW p \in Proc, Continue(p) PROVE IdsAreKeys' /\ SequenceIsKey'
  <2>0. tx[p] \in SessionRecord
    BY DEF Types
  <2>1. CASE Reject(p)
    BY <1>4, <2>1 DEF Reject, tables
  <2>2. CASE Clear(p)
    <3> DEFINE t == [tx[p] EXCEPT !.victims = {b.id : b \in index}]
    <3>1. t.add = tx[p].add
      BY <2>0 DEF SessionRecord
    <3>2. Go(p, "cleared", t) /\ UNCHANGED <<segs, ids>>
      BY <2>2 DEF Clear, tables
    <3> HIDE DEF t
    <3> QED  BY <3>1, <3>2, GoKeeps
  <2>3. CASE Commit(p)
    BY <2>3, CommitKeeps
  <2>4. CASE Rebuild(p, TRUE)
    BY <2>4, RebuildKeeps
  <2>5. ASSUME NEW j \in Journey, Move(p, j) PROVE IdsAreKeys' /\ SequenceIsKey'
    <3>1. PICK m, stops : Go(p, "built", Built([tx[p] EXCEPT !.move = m], stops))
      BY <2>5 DEF Move
    <3>2. Built([tx[p] EXCEPT !.move = m], stops).add = tx[p].add
      BY <2>0 DEF SessionRecord, Built
    <3> QED  BY <2>5, <3>1, <3>2, GoKeeps DEF Move, tables
  <2>6. ASSUME NEW r \in tx[p].loaded, Cut(p, r) PROVE IdsAreKeys' /\ SequenceIsKey'
    <3>1. PICK n, stops : Go(p, "built", Built([tx[p] EXCEPT !.kill = {r.id}, !.renumber = n], stops))
      BY <2>6 DEF Cut
    <3>2. Built([tx[p] EXCEPT !.kill = {r.id}, !.renumber = n], stops).add = tx[p].add
      BY <2>0 DEF SessionRecord, Built
    <3> QED  BY <2>6, <3>1, <3>2, GoKeeps DEF Cut, tables
  <2> QED  BY <1>5, <2>1, <2>2, <2>3, <2>4, <2>5, <2>6 DEF Continue
<1>6. ASSUME NEW p \in Proc, Rollback(p) PROVE IdsAreKeys' /\ SequenceIsKey'
  BY <1>4, <1>6 DEF Rollback, tables
<1>7. ASSUME FetchLines \/ StoreGraph \/ Detect \/ Lose PROVE IdsAreKeys' /\ SequenceIsKey'
  BY <1>7, OtherKeeps DEF FetchLines, StoreGraph, Detect, Lose, tables
<1> QED  BY <1>1, <1>3, <1>5, <1>6, <1>7 DEF Next

------------------------------------------------------------------------------
(* What one request leaves is numbered without gaps *)

\* Of a table without gaps k rows come before the number k.
LEMMA Below ==
    ASSUME NEW L \in Finite(Row), Dense(L), \A x, y \in L : x.seq = y.seq => x = y,
           NEW k \in 0 .. Cardinality(L)
    PROVE  Cardinality({x \in L : x.seq < k}) = k
<1> DEFINE B == {x \in L : x.seq < k}
           f == [x \in B |-> x.seq]
<1>1. Cardinality(L) \in Nat /\ IsFiniteSet(L) /\ L \in SUBSET Row
  BY FS_CardinalityType DEF Finite
<1>2. \A x \in L : x.seq \in 0 .. Cardinality(L) - 1
  BY DEF Dense
<1>3. \A x \in B : f[x] \in 0 .. k - 1
  BY <1>1, <1>2
<1>4. ASSUME NEW i \in 0 .. k - 1 PROVE \E x \in B : f[x] = i
  <2>1. i \in 0 .. Cardinality(L) - 1 /\ i < k
    BY <1>1
  <2>2. PICK x \in L : x.seq = i
    BY <2>1 DEF Dense
  <2> QED  BY <2>1, <2>2
<1>5. \A x, y \in B : f[x] = f[y] => x = y
  OBVIOUS
<1>6. f \in [B -> 0 .. k - 1]
  BY <1>3
<1> HIDE DEF f
<1>7. f \in Bijection(B, 0 .. k - 1)
  <2>1. f \in Surjection(B, 0 .. k - 1)
    BY <1>4, <1>6 DEF Surjection
  <2>2. f \in Injection(B, 0 .. k - 1)
    BY <1>5, <1>6 DEF Injection, IsInjective
  <2> QED  BY <2>1, <2>2 DEF Bijection
<1>8. IsFiniteSet(B)
  <2>1. B \in SUBSET L
    OBVIOUS
  <2> QED  BY <1>1, <2>1, FS_Subset
<1> HIDE DEF B
<1>9. ExistsBijection(B, 0 .. k - 1)
  BY <1>7 DEF ExistsBijection
<1>10. Cardinality(0 .. k - 1) = Cardinality(B)
  BY <1>8, <1>9, FS_Bijection
<1>11. Cardinality(0 .. k - 1) = k
  <2>1. 0 \in Int /\ k - 1 \in Int /\ k \in Nat
    BY <1>1
  <2>2. Cardinality(0 .. k - 1) = IF 0 > k - 1 THEN 0 ELSE k - 1 - 0 + 1
    BY <2>1, FS_Interval
  <2> QED  BY <2>1, <2>2
<1> QED  BY <1>10, <1>11 DEF B

\* A row is taken out and the others are counted anew.
LEMMA CutIsDense ==
    ASSUME NEW L \in Finite(Row), Dense(L), \A x, y \in L : x.seq = y.seq => x = y,
           NEW r \in L, Cardinality(L) > MIN_ROUTE_SEGMENTS
    PROVE  /\ Cardinality(L \ {r}) = Cardinality(L) - 1 /\ Cardinality(L) \in Nat
           /\ {Cardinality({x \in L \ {r} : x.seq < s.seq}) : s \in L \ {r}} = 0 .. Cardinality(L) - 2
<1> DEFINE rest == L \ {r}
           n == Cardinality(L)
           before(s) == {x \in rest : x.seq < s.seq}
           upto(s) == {x \in L : x.seq < s.seq}
<1>1. n \in Nat /\ n > 2 /\ IsFiniteSet(L) /\ L \in SUBSET Row
  BY FS_CardinalityType DEF Finite, MIN_ROUTE_SEGMENTS
<1>2. Cardinality(rest) = n - 1
  BY <1>1, FS_RemoveElement
<1>3. \A x \in L : x.seq \in 0 .. n - 1
  BY DEF Dense
<1>4. ASSUME NEW s \in rest
      PROVE  /\ s.seq < r.seq => Cardinality(before(s)) = s.seq
             /\ s.seq > r.seq => Cardinality(before(s)) = s.seq - 1
             /\ s.seq # r.seq
  <2>1. s.seq \in 0 .. n - 1 /\ r.seq \in 0 .. n - 1 /\ s.seq \in 0 .. n
    BY <1>1, <1>3
  <2>2. Cardinality(upto(s)) = s.seq /\ IsFiniteSet(upto(s))
    <3>1. upto(s) \in SUBSET L
      OBVIOUS
    <3> QED  BY <1>1, <2>1, <3>1, Below, FS_Subset
  <2>3. before(s) = upto(s) \ {r}
    OBVIOUS
  <2>4. r \in upto(s) <=> r.seq < s.seq
    OBVIOUS
  <2>5. Cardinality(before(s)) = IF r \in upto(s) THEN Cardinality(upto(s)) - 1 ELSE Cardinality(upto(s))
    BY <2>2, <2>3, FS_RemoveElement
  <2>6. s.seq # r.seq
    OBVIOUS
  <2> HIDE DEF before, upto
  <2> QED  BY <2>1, <2>2, <2>4, <2>5, <2>6
<1>5. ASSUME NEW s \in rest PROVE Cardinality(before(s)) \in 0 .. n - 2
  <2>1. s.seq \in 0 .. n - 1 /\ r.seq \in 0 .. n - 1
    BY <1>3
  <2> HIDE DEF before, rest
  <2> QED  BY <1>1, <1>4, <2>1
<1>6. ASSUME NEW i \in 0 .. n - 2 PROVE \E s \in rest : Cardinality(before(s)) = i
  <2>1. i \in 0 .. n - 1 /\ i + 1 \in 0 .. n - 1 /\ r.seq \in 0 .. n - 1
    BY <1>1, <1>3
  <2>2. CASE i < r.seq
    <3>1. PICK s \in L : s.seq = i
      BY <2>1 DEF Dense
    <3>2. s \in rest
      BY <2>1, <2>2, <3>1
    <3> QED  BY <1>4, <2>2, <3>1, <3>2
  <2>3. CASE i >= r.seq
    <3>1. PICK s \in L : s.seq = i + 1
      BY <2>1 DEF Dense
    <3>2. s \in rest /\ s.seq > r.seq /\ s.seq - 1 = i
      BY <2>1, <2>3, <3>1
    <3> QED  BY <1>4, <3>2
  <2> QED  BY <2>1, <2>2, <2>3
<1>7. {Cardinality(before(s)) : s \in rest} = 0 .. n - 2
  <2> HIDE DEF before, rest, n
  <2> QED  BY <1>5, <1>6
<1> QED  BY <1>1, <1>2, <1>7

\* The active rows after a request that adds none.
LEMMA WrittenActives ==
    ASSUME Types, IdsAreKeys, NEW t \in SessionRecord, t.add = {}
    PROVE  LET S == {r \in Active(segs) : r.id \notin t.orphans /\ r.id \notin t.kill}
           IN  /\ Cardinality(Active(Written(t))) = Cardinality(S)
               /\ {x.seq : x \in Active(Written(t))}
                    = {IF r.id \in DOMAIN t.renumber THEN t.renumber[r.id] ELSE r.seq : r \in S}
<1> DEFINE S == {r \in Active(segs) : r.id \notin t.orphans /\ r.id \notin t.kill}
           num(r) == IF r.id \in DOMAIN t.renumber THEN t.renumber[r.id] ELSE r.seq
           new(r) == [id   |-> r.id,
                      seq  |-> num(r),
                      at   |-> IF r.id \in DOMAIN t.move THEN t.move[r.id].at ELSE r.at,
                      line |-> IF r.id \in DOMAIN t.move THEN t.move[r.id].line ELSE r.line,
                      dead |-> r.dead \/ r.id \in t.kill]
           A == Active(Written(t))
           f == [r \in S |-> new(r)]
<1>1. \A r : new(r).id = r.id /\ new(r).seq = num(r) /\ (new(r).dead <=> r.dead \/ r.id \in t.kill)
  OBVIOUS
<1>2. Written(t) = {new(r) : r \in {r \in segs : r.id \notin t.orphans}}
  BY DEF Written
<1> HIDE DEF new, num
<1>3. \A r \in S : new(r) \in A
  BY <1>1, <1>2 DEF Active
<1>4. \A x \in A : \E r \in S : x = new(r)
  BY <1>1, <1>2 DEF Active
<1>5. \A r, s \in S : new(r) = new(s) => r = s
  <2>1. \A r, s \in S : r.id = s.id => r = s
    BY DEF IdsAreKeys, Active
  <2> QED  BY <1>1, <2>1
<1>6. f \in Bijection(S, A)
  <2>1. f \in [S -> A]
    BY <1>3
  <2>2. \A x \in A : \E r \in S : f[r] = x
    BY <1>4
  <2>3. \A r, s \in S : f[r] = f[s] => r = s
    BY <1>5
  <2> HIDE DEF f, S, A
  <2>4. f \in Surjection(S, A)
    BY <2>1, <2>2 DEF Surjection
  <2>5. f \in Injection(S, A)
    BY <2>1, <2>3 DEF Injection, IsInjective
  <2> QED  BY <2>4, <2>5 DEF Bijection
<1>7. IsFiniteSet(S)
  <2>1. segs \in Finite(Row) /\ S \in SUBSET segs
    BY DEF Types, Active
  <2> QED  BY <2>1, PartOfFinite DEF Finite
<1>8. Cardinality(A) = Cardinality(S)
  <2> HIDE DEF A, S, f
  <2> QED  BY <1>6, <1>7, FS_Bijection DEF ExistsBijection
<1>9. {x.seq : x \in A} = {num(r) : r \in S}
  <2> HIDE DEF A, S
  <2>1. \A x \in A : x.seq \in {num(r) : r \in S}
    BY <1>1, <1>4
  <2>2. \A r \in S : num(r) \in {x.seq : x \in A}
    BY <1>1, <1>3
  <2> QED  BY <2>1, <2>2
<1> QED  BY <1>8, <1>9 DEF num

------------------------------------------------------------------------------
(* Alone, a request leaves a route *)

\* The rows depend on what the session changes, not on what it builds or clears.
LEMMA SameWritten ==
    ASSUME NEW t, NEW u, u.orphans = t.orphans, u.kill = t.kill, u.move = t.move,
           u.renumber = t.renumber, u.add = t.add
    PROVE  Written(u) = Written(t)
BY DEF Written

\* An active row is a new one, or was active and is not deleted.
LEMMA ResultIs ==
    ASSUME NEW t, NEW x \in Result(t), x \notin t.add
    PROVE  \E r \in Active(segs) : r.id \notin t.kill
<1> DEFINE new(r) == [id   |-> r.id,
                      seq  |-> IF r.id \in DOMAIN t.renumber THEN t.renumber[r.id] ELSE r.seq,
                      at   |-> IF r.id \in DOMAIN t.move THEN t.move[r.id].at ELSE r.at,
                      line |-> IF r.id \in DOMAIN t.move THEN t.move[r.id].line ELSE r.line,
                      dead |-> r.dead \/ r.id \in t.kill]
<1>1. \A r : new(r).dead <=> r.dead \/ r.id \in t.kill
  OBVIOUS
<1>2. \A y \in Written(t) : y \in t.add \/ \E r \in segs : y = new(r)
  BY DEF Written
<1> HIDE DEF new
<1>3. x \in Written(t) /\ ~x.dead
  BY DEF Result, Active
<1>4. PICK r \in segs : x = new(r)
  BY <1>2, <1>3
<1> QED  BY <1>1, <1>3, <1>4 DEF Active

\* No rows at all are numbered without gaps.
LEMMA NoneAreDense == Dense({})
<1>1. Cardinality({}) = 0
  BY FS_EmptySet
<1>2. 0 .. 0 - 1 = {}
  OBVIOUS
<1> QED  BY <1>1, <1>2 DEF Dense

\* Nor do gaps come if no row comes, goes or is renumbered.
LEMMA KeptAreDense ==
    ASSUME Types, IdsAreKeys, Dense(Active(segs)), NEW t \in SessionRecord, t.add = {},
           t.kill = {}, DOMAIN t.renumber = {},
           t.orphans \subseteq Ids(segs \ Active(segs))
    PROVE  Dense(Result(t))
<1>1. \A r \in Active(segs) : r.id \notin t.orphans
  BY DEF IdsAreKeys, Ids, Active
<1>2. {r \in Active(segs) : r.id \notin t.orphans /\ r.id \notin t.kill} = Active(segs)
  BY <1>1
<1>3. /\ Cardinality(Result(t)) = Cardinality(Active(segs))
      /\ {x.seq : x \in Result(t)} = {r.seq : r \in Active(segs)}
  BY <1>2, WrittenActives DEF Result
<1> QED  BY <1>3 DEF Dense

\* The rows of a new journey replace the old ones.
LEMMA ReplacedAreDense ==
    ASSUME Types, NEW j \in Journey, NEW t, t.add = Rows(j), t.kill = Ids(Active(segs))
    PROVE  Dense(Result(t))
<1>1. Result(t) = Rows(j)
  <2>1. \A x \in Rows(j) : x \in Result(t)
    BY RowsAreTyped DEF Result, Active, Written
  <2>2. ASSUME NEW x \in Result(t), x \notin Rows(j) PROVE FALSE
    BY <2>2, ResultIs DEF Ids
  <2> QED  BY <2>1, <2>2
<1>2. /\ Len(j) \in Nat /\ Len(j) >= 2 /\ {r.seq : r \in Rows(j)} = 0 .. Len(j) - 1
      /\ Cardinality(Rows(j)) = Len(j)
  BY RowsAreTyped
<1> QED  BY <1>1, <1>2 DEF Dense

\* A deletion leaves no active row.
LEMMA DeletedIsEmpty ==
    ASSUME NEW t, t.add = {}, t.kill = Ids(Active(segs))
    PROVE  Result(t) = {}
BY ResultIs DEF Ids

\* The rows that stay when one is taken out are numbered by those before them.
LEMMA CutAreDense ==
    ASSUME Types, IdsAreKeys, SequenceIsKey, Dense(Active(segs)), NEW t \in SessionRecord,
           NEW r \in Active(segs), Cardinality(Active(segs)) > MIN_ROUTE_SEGMENTS,
           t.add = {}, t.kill = {r.id}, t.orphans = Ids(segs \ Active(segs)),
           t.renumber = [i \in Ids(Active(segs) \ {r}) |->
                           Cardinality({x \in Active(segs) \ {r} :
                              x.seq < (CHOOSE s \in Active(segs) \ {r} : s.id = i).seq})]
    PROVE  Dense(Result(t))
<1> DEFINE L == Active(segs)
           rest == L \ {r}
           rank(s) == Cardinality({x \in rest : x.seq < s.seq})
           S == {s \in L : s.id \notin t.orphans /\ s.id \notin t.kill}
           num(s) == IF s.id \in DOMAIN t.renumber THEN t.renumber[s.id] ELSE s.seq
<1>1. \A a, b \in segs : a.id = b.id => a = b
  BY DEF IdsAreKeys
<1>2. S = rest
  <2>1. \A s \in L : s.id \notin t.orphans
    BY <1>1 DEF Ids, Active
  <2>2. \A s \in L : s.id = r.id => s = r
    BY <1>1 DEF Active
  <2> QED  BY <2>1, <2>2
<1>3. ASSUME NEW s \in rest PROVE num(s) = rank(s)
  <2>1. s.id \in Ids(rest) /\ DOMAIN t.renumber = Ids(rest)
    BY DEF Ids
  <2>2. (CHOOSE x \in rest : x.id = s.id) = s
    <3>1. \A x \in rest : x.id = s.id => x = s
      BY <1>1 DEF Active
    <3> QED  BY <3>1
  <2>3. t.renumber[s.id] = rank(CHOOSE x \in rest : x.id = s.id)
    BY <2>1
  <2> HIDE DEF rank
  <2> QED  BY <2>1, <2>2, <2>3
<1>4. L \in Finite(Row)
  <2>1. segs \in Finite(Row) /\ L \in SUBSET segs
    BY DEF Types, Active
  <2> QED  BY <2>1, PartOfFinite
<1>5. \A x, y \in L : x.seq = y.seq => x = y
  BY DEF SequenceIsKey
<1>6. /\ Cardinality(Result(t)) = Cardinality(S)
      /\ {x.seq : x \in Result(t)} = {num(s) : s \in S}
  BY WrittenActives DEF Result
<1> HIDE DEF num, S
<1>7. /\ Cardinality(rest) = Cardinality(L) - 1 /\ Cardinality(L) \in Nat
      /\ {rank(s) : s \in rest} = 0 .. Cardinality(L) - 2
  <2> HIDE DEF L
  <2> QED  BY <1>4, <1>5, CutIsDense DEF L
<1> HIDE DEF rank, rest, L
<1>8. {num(s) : s \in rest} = {rank(s) : s \in rest}
  BY <1>3
<1>9. Cardinality(Result(t)) = Cardinality(L) - 1 /\ Cardinality(L) > 2
  BY <1>2, <1>6, <1>7 DEF MIN_ROUTE_SEGMENTS, L
<1>10. {x.seq : x \in Result(t)} = 0 .. Cardinality(Result(t)) - 1
  <2>1. Cardinality(L) - 2 = Cardinality(Result(t)) - 1
    BY <1>7, <1>9
  <2> QED  BY <1>2, <1>6, <1>7, <1>8, <2>1
<1> QED  BY <1>7, <1>9, <1>10 DEF Dense

\* A session stays sound while it and the tables do not change.
LEMMA SoundStays ==
    ASSUME NEW p \in Proc, NEW step, NEW t, Sound(step, t), pc'[p] = step, tx'[p] = t,
           UNCHANGED <<segs, index>>
    PROVE  Sound(pc[p], tx[p])'
<1>1. Written(tx[p])' = Written(t)
  BY DEF Written
<1>2. Result(tx[p])' = Result(t)
  BY <1>1 DEF Result, Active
<1>3. Dense(Result(tx[p]))' <=> Dense(Result(t))
  BY <1>2 DEF Dense
<1>4. Fresh(tx[p])' <=> Fresh(t)
  BY DEF Fresh, Active, Ids
<1> QED  BY <1>2, <1>3, <1>4 DEF Sound

\* A session goes on, alone, to a step at which it is sound.
LEMMA GoIsSerial ==
    ASSUME Types, Serial, NEW p \in Proc, NEW step \in {"open", "built", "cleared"},
           NEW t \in SessionRecord, Go(p, step, t), UNCHANGED <<route, segs, index>>,
           ~raced' => /\ ~raced /\ route = "live" /\ Sound(step, t)
                      /\ \A q \in Proc : q # p => pc[q] = "idle"
    PROVE  Serial'
<1> SUFFICES ASSUME ~raced'
             PROVE  /\ OneIsBusy' /\ Dense(Active(segs))'
                    /\ (route = "deleted" => Active(segs) = {} /\ index = {})'
                    /\ \A q \in Proc : pc'[q] # "idle" => Sound(pc[q], tx[q])'
  BY DEF Serial
<1>1. /\ ~raced /\ route' = "live" /\ Sound(step, t) /\ Dense(Active(segs))
      /\ \A q \in Proc : q # p => pc'[q] = "idle"
  <2>1. \A q \in Proc : q # p => pc'[q] = pc[q]
    BY GoIsTyped
  <2> QED  BY <2>1 DEF Serial
<1>2. pc'[p] = step /\ tx'[p] = t
  BY GoIsTyped
<1>3. OneIsBusy'
  BY <1>1 DEF OneIsBusy
<1>4. Dense(Active(segs))'
  BY <1>1 DEF Dense, Active
<1>5. Sound(pc[p], tx[p])'
  BY <1>1, <1>2, SoundStays
<1> QED  BY <1>1, <1>3, <1>4, <1>5

\* A session ends and leaves the tables alone, or no session does anything.
LEMMA EndIsSerial ==
    ASSUME Types, Serial, UNCHANGED <<route, segs, index>>, ~raced' => ~raced,
           \/ UNCHANGED <<pc, tx>>
           \/ \E p \in Proc : Close(p)
    PROVE  Serial'
<1> SUFFICES ASSUME ~raced'
             PROVE  /\ OneIsBusy' /\ Dense(Active(segs))'
                    /\ (route = "deleted" => Active(segs) = {} /\ index = {})'
                    /\ \A q \in Proc : pc'[q] # "idle" => Sound(pc[q], tx[q])'
  BY DEF Serial
<1>1. \A q \in Proc : pc'[q] # "idle" => pc'[q] = pc[q] /\ tx'[q] = tx[q]
  BY DEF Close, Types
<1>2. OneIsBusy'
  BY <1>1 DEF OneIsBusy, Serial
<1>3. Dense(Active(segs))'
  BY DEF Dense, Active, Serial
<1>4. (route = "deleted" => Active(segs) = {} /\ index = {})'
  BY DEF Active, Serial
<1>5. ASSUME NEW q \in Proc, pc'[q] # "idle" PROVE Sound(pc[q], tx[q])'
  <2>1. Sound(pc[q], tx[q]) /\ pc'[q] = pc[q] /\ tx'[q] = tx[q]
    BY <1>1, <1>5 DEF Serial
  <2> QED  BY <2>1, SoundStays
<1> QED  BY <1>2, <1>3, <1>4, <1>5

\* Who is busy is alone, on a live route.
LEMMA BusyIsAlone ==
    ASSUME Types, Serial, ~raced, NEW p \in Proc, pc[p] # "idle"
    PROVE  /\ route = "live" /\ Sound(pc[p], tx[p]) /\ Dense(Active(segs))
           /\ \A q \in Proc : q # p => pc[q] = "idle"
BY DEF Serial, OneIsBusy, Types

\* What a commit leaves, when it is alone.
LEMMA CommitIsSerial ==
    ASSUME Types, Serial, NEW p \in Proc, Commit(p)
    PROVE  Serial'
<1> SUFFICES ASSUME ~raced
             PROVE  /\ OneIsBusy' /\ Dense(Active(segs))'
                    /\ (route = "deleted" => Active(segs) = {} /\ index = {})'
                    /\ \A q \in Proc : pc'[q] # "idle" => Sound(pc[q], tx[q])'
  BY DEF Serial, Commit
<1> DEFINE t == tx[p]
           stay == {b \in index : b.id \notin t.victims}
<1>1. /\ pc[p] = "cleared" /\ segs' = Written(t) /\ Close(p)
      /\ route' = IF t.kind = "delete" THEN "deleted" ELSE route
      /\ t.entries = {} => index' = stay
  BY DEF Commit
<1>2. /\ route = "live" /\ Sound("cleared", t)
      /\ \A q \in Proc : q # p => pc[q] = "idle"
  BY <1>1, BusyIsAlone
<1>3. stay = {} /\ Dense(Result(t)) /\ (t.kind = "delete" => Result(t) = {} /\ t.entries = {})
  BY <1>2 DEF Sound
<1>4. \A q \in Proc : pc'[q] = "idle"
  BY <1>1, <1>2 DEF Close, Types
<1>5. Active(segs)' = Result(t)
  BY <1>1 DEF Result, Active
<1>6. Dense(Active(segs))'
  BY <1>3, <1>5 DEF Dense
<1>7. (route = "deleted" => Active(segs) = {} /\ index = {})'
  BY <1>1, <1>2, <1>3, <1>5
<1> QED  BY <1>4, <1>6, <1>7 DEF OneIsBusy

\* What a request that starts alone will write.
LEMMA StartIsSerial ==
    ASSUME Types, IdsAreKeys, Serial, NEW p \in Proc, Start(p) \/ Rebuild(p, TRUE)
    PROVE  Serial'
<1>1. Session \in SessionRecord /\ NoTx \in SessionRecord
  BY SessionIsTyped
<1>2. /\ Active(segs) \in Finite(Row) /\ Ids(Active(segs)) \in SUBSET Nat
      /\ Ids(segs \ Active(segs)) \in SUBSET Nat /\ segs \in SUBSET Row
  <2>1. segs \in Finite(Row) /\ Active(segs) \in SUBSET segs /\ segs \ Active(segs) \in SUBSET Row
    BY DEF Types, Active, Finite
  <2>2. Active(segs) \in Finite(Row)
    BY <2>1, PartOfFinite
  <2> QED  BY <2>1, <2>2, IdsAreNumbers DEF Finite
<1>3. Overlaps(p) /\ ~raced' => ~raced /\ \A q \in Proc : q # p => pc[q] = "idle"
  BY DEF Overlaps
<1>4. ASSUME NEW step \in {"open", "built"}, NEW t \in SessionRecord, Go(p, step, t),
             UNCHANGED tables, Overlaps(p), route = "live",
             Dense(Active(segs)) => Sound(step, t)
      PROVE  Serial'
  <2>1. ~raced => Dense(Active(segs))
    BY DEF Serial
  <2> QED  BY <1>3, <1>4, <2>1, GoIsSerial DEF tables
<1>5. CASE Open(p)
  <2> DEFINE t == [Session EXCEPT !.kind = "edit", !.loaded = Active(segs),
                                  !.orphans = Ids(segs \ Active(segs))]
  <2>1. t \in SessionRecord
    BY <1>1, <1>2 DEF SessionRecord
  <2>2. Sound("open", t)
    BY EmptyIsPartial DEF Sound, Fresh, Session, NoTx
  <2>3. Go(p, "open", t) /\ UNCHANGED tables /\ Overlaps(p) /\ route = "live"
    BY <1>5 DEF Open
  <2> HIDE DEF t
  <2> QED  BY <1>4, <2>1, <2>2, <2>3
<1>6. CASE DeleteRoute(p)
  <2> DEFINE t == [NoTx EXCEPT !.kind = "delete", !.kill = Ids(Active(segs))]
  <2>1. t \in SessionRecord
    BY <1>1, <1>2 DEF SessionRecord
  <2>2. t.add = {} /\ t.kill = Ids(Active(segs)) /\ t.entries = {}
    BY DEF NoTx
  <2>3. Go(p, "built", t) /\ UNCHANGED tables /\ Overlaps(p) /\ route = "live"
    BY <1>6 DEF DeleteRoute
  <2> HIDE DEF t
  <2>4. Result(t) = {}
    BY <2>2, DeletedIsEmpty
  <2>5. Sound("built", t)
    BY <2>2, <2>4, NoneAreDense DEF Sound
  <2> QED  BY <1>4, <2>1, <2>3, <2>5
<1>7. ASSUME NEW queued \in BOOLEAN, Rebuild(p, queued) PROVE Serial'
  <2>1. UNCHANGED tables
    BY <1>7 DEF Rebuild
  <2>2. CASE UNCHANGED <<pc, tx, raced>>
    BY <2>1, <2>2, EndIsSerial DEF tables
  <2>3. ASSUME NEW stops \in InOrder(segs), Overlaps(p), route = "live",
               Go(p, "built", Built([Session EXCEPT !.kind = "rebuild"], stops))
        PROVE  Serial'
    <3> DEFINE s == [Session EXCEPT !.kind = "rebuild"]
               t == Built(s, stops)
    <3>1. s \in SessionRecord
      BY <1>1 DEF SessionRecord
    <3>2. /\ t.add = {} /\ t.kill = {} /\ DOMAIN t.renumber = {} /\ t.orphans = {}
          /\ t.kind = "rebuild"
      BY EmptyIsPartial DEF Session, NoTx, Built
    <3> HIDE DEF s
    <3>3. t \in SessionRecord
      BY <1>2, <3>1, BuiltIsTyped
    <3>4. Go(p, "built", t)
      BY <2>3 DEF s
    <3> HIDE DEF t
    <3>5. Dense(Active(segs)) => Sound("built", t)
      BY <3>2, <3>3, KeptAreDense DEF Sound
    <3> QED  BY <1>4, <2>1, <2>3, <3>3, <3>4, <3>5
  <2> QED  BY <1>7, <2>2, <2>3 DEF Rebuild
<1>8. ASSUME NEW j \in Journey, Replace(p, j) PROVE Serial'
  <2> DEFINE s == [Session EXCEPT !.kind = "replace", !.add = Rows(j), !.kill = Ids(Active(segs))]
  <2>1. PICK stops \in InOrder(segs \cup Rows(j)) : Go(p, "built", Built(s, stops))
    BY <1>8 DEF Replace, Rows
  <2>2. Rows(j) \in Finite(Row)
    BY RowsAreTyped
  <2>3. s \in SessionRecord /\ segs \cup Rows(j) \in SUBSET Row
    BY <1>1, <1>2, <2>2 DEF SessionRecord, Finite
  <2> DEFINE t == Built(s, stops)
  <2>4. t.add = Rows(j) /\ t.kill = Ids(Active(segs)) /\ t.kind = "replace"
    BY DEF Session, NoTx, Built
  <2> HIDE DEF s
  <2>5. t \in SessionRecord
    BY <2>3, BuiltIsTyped
  <2> HIDE DEF t
  <2>6. Sound("built", t)
    BY <2>4, ReplacedAreDense DEF Sound
  <2>7. Go(p, "built", t)
    BY <2>1 DEF t
  <2>8. UNCHANGED tables /\ Overlaps(p) /\ route = "live"
    BY <1>8 DEF Replace
  <2> QED  BY <1>4, <2>5, <2>6, <2>7, <2>8
<1> QED  BY <1>5, <1>6, <1>7, <1>8 DEF Start

\* An edit that is open alone has read what is stored.
LEMMA EditIsSerial ==
    ASSUME Types, IdsAreKeys, SequenceIsKey, Serial, NEW p \in Proc,
           (\E j \in Journey : Move(p, j)) \/ \E r \in tx[p].loaded : Cut(p, r)
    PROVE  Serial'
<1> DEFINE t == tx[p]
<1>1. t \in SessionRecord /\ pc[p] = "open" /\ UNCHANGED <<tables, raced>>
  BY DEF Types, Move, Cut
<1>2. t.loaded \in SUBSET Row /\ IsFiniteSet(t.loaded)
  BY <1>1 DEF SessionRecord, Finite
<1>3. ~raced => /\ route = "live" /\ Fresh(t) /\ t.kind = "edit" /\ Dense(Active(segs))
                /\ \A q \in Proc : q # p => pc[q] = "idle"
  BY <1>1, BusyIsAlone DEF Sound
<1>4. ASSUME NEW u \in SessionRecord, Go(p, "built", u), ~raced => Sound("built", u)
      PROVE  Serial'
  BY <1>1, <1>3, <1>4, GoIsSerial DEF tables
<1>5. ASSUME NEW j \in Journey, Move(p, j) PROVE Serial'
  <2>1. PICK r \in t.loaded, stops \in InOrder(t.loaded) :
          /\ r.seq + 1 \in DOMAIN j
          /\ Go(p, "built", Built([t EXCEPT !.move = [i \in {r.id} |-> j[r.seq + 1]]], stops))
    BY <1>5 DEF Move
  <2> DEFINE m == [i \in {r.id} |-> j[r.seq + 1]]
             s == [t EXCEPT !.move = m]
             u == Built(s, stops)
  <2>2. m \in Partial(Stop)
    <3>1. {r.id} \in SUBSET Nat
      BY <1>2 DEF Row
    <3>2. j[r.seq + 1] \in Stop
      BY <2>1, JourneyAssumption
    <3>3. m \in [{r.id} -> Stop]
      BY <3>2
    <3> QED  BY <3>1, <3>3 DEF Partial
  <2> HIDE DEF m
  <2>3. s \in SessionRecord
    BY <1>1, <2>2 DEF SessionRecord
  <2>4. /\ u.add = t.add /\ u.kill = t.kill /\ u.renumber = t.renumber
        /\ u.orphans = t.orphans /\ u.kind = t.kind
    BY <1>1 DEF SessionRecord, Built
  <2>5. Go(p, "built", u)
    BY <2>1 DEF m
  <2> HIDE DEF s
  <2>6. u \in SessionRecord
    BY <1>2, <2>3, BuiltIsTyped
  <2> HIDE DEF u
  <2>7. ~raced => Sound("built", u)
    BY <1>3, <2>4, <2>6, KeptAreDense DEF Sound, Fresh
  <2> QED  BY <1>4, <2>5, <2>6, <2>7
<1>6. ASSUME NEW r \in t.loaded, Cut(p, r) PROVE Serial'
  <2> DEFINE n == [i \in Ids(t.loaded \ {r}) |->
                     Cardinality({x \in t.loaded \ {r} :
                        x.seq < (CHOOSE s \in t.loaded \ {r} : s.id = i).seq})]
             s == [t EXCEPT !.kill = {r.id}, !.renumber = n]
  <2>1. /\ Cardinality(t.loaded) > MIN_ROUTE_SEGMENTS
        /\ \E stops \in InOrder(t.loaded) : Go(p, "built", Built(s, stops))
    BY <1>6 DEF Cut
  <2>2. PICK stops \in InOrder(t.loaded) : Go(p, "built", Built(s, stops))
    BY <2>1
  <2> DEFINE u == Built(s, stops)
  <2>3. n \in Partial(Nat)
    <3> DEFINE rest == t.loaded \ {r}
               below(i) == {x \in rest : x.seq < (CHOOSE y \in rest : y.id = i).seq}
               rank(i) == Cardinality(below(i))
    <3>1. ASSUME NEW i PROVE rank(i) \in Nat
      <4>1. below(i) \in SUBSET t.loaded
        OBVIOUS
      <4> HIDE DEF below
      <4> QED  BY <1>2, <4>1, FS_Subset, FS_CardinalityType
    <3>2. n = [i \in Ids(rest) |-> rank(i)]
      OBVIOUS
    <3>3. Ids(rest) \in SUBSET Nat
      <4>1. rest \in SUBSET Row
        BY <1>2
      <4> QED  BY <4>1, IdsAreNumbers
    <3> HIDE DEF n, rank, rest
    <3>4. n \in [Ids(rest) -> Nat]
      BY <3>1, <3>2
    <3> QED  BY <3>3, <3>4 DEF Partial
  <2> HIDE DEF n
  <2>4. {r.id} \in SUBSET Nat
    BY <1>2 DEF Row
  <2>5. s \in SessionRecord
    BY <1>1, <2>3, <2>4 DEF SessionRecord
  <2>6. /\ u.add = t.add /\ u.kill = {r.id} /\ u.renumber = n
        /\ u.orphans = t.orphans /\ u.kind = t.kind
    BY <1>1 DEF SessionRecord, Built
  <2> HIDE DEF s
  <2>7. u \in SessionRecord
    BY <1>2, <2>5, BuiltIsTyped
  <2>8. Go(p, "built", u)
    BY <2>2
  <2> HIDE DEF u
  <2>9. ASSUME ~raced PROVE Sound("built", u)
    <3>1. /\ t.loaded = Active(segs) /\ t.orphans = Ids(segs \ Active(segs)) /\ t.add = {}
          /\ t.kind = "edit" /\ Dense(Active(segs))
      BY <1>3, <2>9 DEF Fresh
    <3>2. r \in Active(segs) /\ Cardinality(Active(segs)) > MIN_ROUTE_SEGMENTS
      BY <2>1, <3>1
    <3>3. u.renumber = [i \in Ids(Active(segs) \ {r}) |->
                          Cardinality({x \in Active(segs) \ {r} :
                             x.seq < (CHOOSE s_1 \in Active(segs) \ {r} : s_1.id = i).seq})]
      BY <2>6, <3>1 DEF n
    <3> HIDE DEF t
    <3>4. Dense(Result(u))
      BY <2>6, <2>7, <3>1, <3>2, <3>3, CutAreDense
    <3> QED  BY <2>6, <3>1, <3>4 DEF Sound
  <2> QED  BY <1>4, <2>7, <2>8, <2>9
<1> QED  BY <1>5, <1>6

\* The UPDATE of a request that is alone takes every index row.
LEMMA ClearIsSerial ==
    ASSUME Types, Serial, NEW p \in Proc, Clear(p)
    PROVE  Serial'
<1> DEFINE t == tx[p]
           ids_ == {b.id : b \in index}
           u == [t EXCEPT !.victims = ids_]
<1>1. t \in SessionRecord /\ ids_ \in SUBSET Nat
  BY DEF Types, Build
<1>2. /\ u \in SessionRecord /\ u.victims = ids_ /\ u.kind = t.kind /\ u.entries = t.entries
      /\ u.orphans = t.orphans /\ u.kill = t.kill /\ u.move = t.move
      /\ u.renumber = t.renumber /\ u.add = t.add
  <2> HIDE DEF ids_, t
  <2> QED  BY <1>1 DEF SessionRecord
<1>3. pc[p] = "built" /\ Go(p, "cleared", u) /\ UNCHANGED <<tables, raced>>
  BY DEF Clear
<1> HIDE DEF u
<1>4. Result(u) = Result(t)
  BY <1>2, SameWritten DEF Result
<1>5. ASSUME ~raced
      PROVE  /\ route = "live" /\ Sound("cleared", u)
             /\ \A q \in Proc : q # p => pc[q] = "idle"
  <2>1. /\ route = "live" /\ Sound("built", t) /\ \A q \in Proc : q # p => pc[q] = "idle"
    BY <1>3, <1>5, BusyIsAlone
  <2>2. \A b \in index : b.id \in u.victims
    BY <1>2
  <2> QED  BY <1>2, <1>4, <2>1, <2>2 DEF Sound
<1> QED  BY <1>2, <1>3, <1>5, GoIsSerial DEF tables

\* Every step keeps what holds while no two transactions overlap.
LEMMA SerialKept ==
    Types /\ IdsAreKeys /\ SequenceIsKey /\ Serial /\ [Next]_vars => Serial'
<1> SUFFICES ASSUME Types, IdsAreKeys, SequenceIsKey, Serial, [Next]_vars PROVE Serial'
  OBVIOUS
<1>1. CASE UNCHANGED vars
  BY <1>1, EndIsSerial DEF vars
<1>2. ASSUME NEW p \in Proc, Start(p) \/ Continue(p) \/ Rollback(p) PROVE Serial'
  <2>1. CASE Reject(p) \/ Rollback(p)
    BY <2>1, EndIsSerial DEF Reject, Rollback, tables
  <2>2. CASE Start(p) \/ Rebuild(p, TRUE)
    BY <2>2, StartIsSerial
  <2> QED  BY <1>2, <2>1, <2>2, EditIsSerial, ClearIsSerial, CommitIsSerial DEF Continue
<1>3. CASE FetchLines \/ StoreGraph \/ Detect \/ Lose
  <2>1. UNCHANGED <<route, segs, index, pc, tx>>
    BY <1>3 DEF FetchLines, StoreGraph, Detect, Lose, tables
  <2>2. ~raced' => ~raced
    BY <1>3 DEF FetchLines, StoreGraph, Detect, Lose
  <2> QED  BY <2>1, <2>2, EndIsSerial
<1> QED  BY <1>1, <1>2, <1>3 DEF Next

------------------------------------------------------------------------------
(* The theorems *)

Inv == Types /\ IdsAreKeys /\ SequenceIsKey /\ Serial

\* A route begins without segments and without requests.
LEMMA InitInv == Init => Inv
<1> SUFFICES ASSUME Init PROVE Inv
  OBVIOUS
<1>1. NoTx \in SessionRecord
  BY NoTxIsTyped DEF Init
<1>2. Types
  <2>1. {} \in Finite(Row)
    BY FS_EmptySet DEF Finite
  <2>2. /\ pc \in [Proc -> {"idle", "open", "built", "cleared"}]
        /\ tx \in [Proc -> SessionRecord]
    BY <1>1 DEF Init
  <2>3. /\ edits \in 0..MaxEdits /\ refreshes \in 0..MaxRefreshes /\ faults \in 0..MaxFaults
        /\ version \in Nat /\ jobs \in Nat /\ ids \in Nat
    BY BoundAssumption DEF Init
  <2>4. /\ route \in {"live", "deleted"} /\ graph \in {"idle", "fetched"} /\ net \in Network
        /\ detect \in BOOLEAN /\ raced \in BOOLEAN
    BY DEF Init
  <2> QED  BY <2>1, <2>2, <2>3, <2>4 DEF Init, Types
<1>3. NoTx.add = {}
  BY DEF NoTx
<1>4. IdsAreKeys /\ SequenceIsKey
  BY <1>3 DEF Init, IdsAreKeys, SequenceIsKey, Active, Ids
<1>5. Active(segs) = {}
  BY DEF Init, Active
<1>6. Serial
  BY <1>5, NoneAreDense DEF Init, Serial, OneIsBusy
<1> QED  BY <1>2, <1>4, <1>6 DEF Inv

\* The invariant is inductive.
LEMMA NextInv == Inv /\ [Next]_vars => Inv'
BY TypesKept, KeysKept, SerialKept DEF Inv

\* The session without the maps it writes by key has the fields TypeOK speaks of.
LEMMA InvIsTyped == Inv => TypeOK
<1> SUFFICES ASSUME Inv PROVE TypeOK
  OBVIOUS
<1>1. ASSUME NEW p \in Proc
      PROVE  [f \in DOMAIN NoTx \ {"move", "renumber"} |-> tx[p][f]] \in Tx
  <2>1. DOMAIN NoTx \ {"move", "renumber"}
          = {"kind", "loaded", "orphans", "net", "version", "kill", "add", "entries", "victims"}
    BY DEF NoTx
  <2>2. tx[p] \in SessionRecord
    BY DEF Inv, Types
  <2> DEFINE g == [f \in DOMAIN NoTx \ {"move", "renumber"} |-> tx[p][f]]
  <2>3. g = [kind |-> tx[p].kind, loaded |-> tx[p].loaded, orphans |-> tx[p].orphans,
             net |-> tx[p].net, version |-> tx[p].version, kill |-> tx[p].kill,
             add |-> tx[p].add, entries |-> tx[p].entries, victims |-> tx[p].victims]
    BY <2>1
  <2> HIDE DEF g
  <2>4. g \in Tx
    BY <2>2, <2>3 DEF Tx, SessionRecord, Finite
  <2> QED  BY <2>4 DEF g
<1>2. /\ route \in {"live", "deleted"}
      /\ segs \in SUBSET Row /\ index \in SUBSET Build /\ old \in SUBSET Nat
      /\ net \in Network /\ version \in Nat /\ graph \in {"idle", "fetched"}
      /\ detect \in BOOLEAN /\ jobs \in Nat
      /\ pc \in [Proc -> {"idle", "open", "built", "cleared"}] /\ DOMAIN tx = Proc
      /\ ids \in Nat /\ edits \in 0..MaxEdits /\ refreshes \in 0..MaxRefreshes
      /\ faults \in 0..MaxFaults /\ raced \in BOOLEAN
  BY DEF Inv, Types, Finite
<1>3. /\ \A r, s \in segs : r.id = s.id => r = s
      /\ \A r, s \in Active(segs) : r.seq = s.seq => r = s
  BY DEF Inv, IdsAreKeys, SequenceIsKey
<1> QED  BY <1>1, <1>2, <1>3 DEF TypeOK

\* The tables and the sessions keep their types; ids are primary keys, and the
\* sequence numbers of the active segments are unique at every commit, however
\* many requests and tasks overlap.
THEOREM IndexTypes == Spec => []TypeOK
<1> QED  BY InitInv, NextInv, InvIsTyped, PTL DEF Spec

\* While requests follow one another, the active segments of a route are numbered
\* 0, 1, ... and are none or at least two, whatever the requests replace, move and
\* cut out, and whatever fails on the way.
THEOREM SequenceStaysDense == Spec => []SequenceIsDense
<1>1. Inv => SequenceIsDense
  BY DEF Inv, Serial, SequenceIsDense, Dense, Current
<1> QED  BY <1>1, InitInv, NextInv, PTL DEF Spec

\* While requests follow one another, a deleted route has no active segment and no
\* index entry left.
THEOREM DeletionLeavesNothing == Spec => []DeletionIsComplete
<1>1. Inv => DeletionIsComplete
  BY DEF Inv, Serial, DeletionIsComplete, Current
<1> QED  BY <1>1, InitInv, NextInv, PTL DEF Spec

------------------------------------------------------------------------------
(* The first journey of a route *)

\* The rows of a journey, by their contents.
Spells(rows, j) ==
    /\ rows \in SUBSET Row
    /\ \A r \in rows : /\ ~r.dead /\ r.seq + 1 \in DOMAIN j
                       /\ r.at = j[r.seq + 1].at /\ r.line = j[r.seq + 1].line
    /\ \A i \in DOMAIN j : \E r \in rows : r.seq = i - 1
    /\ \A r, s \in rows : r.seq = s.seq => r = s

\* Journeys have a longest one, for validation limits their length.
LEMMA PlacesAre ==
    ASSUME NEW j \in Journey
    PROVE  \E m \in Nat : Places = 0 .. m /\ Max(Places) = m /\ Len(j) <= m
<1>. DEFINE lengths == {Len(k) : k \in Journey}
            below == {MAX_ROUTE_SEGMENTS - n : n \in lengths}
<1>1. \A n \in lengths : n \in Nat /\ n <= MAX_ROUTE_SEGMENTS
  BY JourneyAssumption DEF MIN_ROUTE_SEGMENTS
<1>2. below \in SUBSET Nat /\ below # {}
  <2>1. Len(j) \in lengths
    OBVIOUS
  <2>. HIDE DEF lengths
  <2>. QED  BY <1>1, <2>1 DEF MAX_ROUTE_SEGMENTS
<1>3. PICK b \in below : \A k \in below : b <= k
  BY <1>2, LeastOfNat
<1>4. PICK m \in lengths : b = MAX_ROUTE_SEGMENTS - m
  OBVIOUS
<1>5. \A n \in lengths : n <= m
  <2>. SUFFICES ASSUME NEW n \in lengths PROVE n <= m
    OBVIOUS
  <2>1. b <= MAX_ROUTE_SEGMENTS - n
    BY <1>3
  <2>. HIDE DEF lengths
  <2>. QED  BY <1>1, <1>4, <2>1 DEF MAX_ROUTE_SEGMENTS
<1>6. Len(j) <= m /\ m \in Nat
  BY <1>1, <1>5
<1>7. Max(lengths) = m
  <2>. HIDE DEF lengths
  <2>. QED  BY <1>1, <1>5 DEF Max
<1>8. Places = 0 .. m
  BY <1>7 DEF Places
<1>9. Max(0 .. m) = m
  BY <1>6 DEF Max
<1>. QED  BY <1>6, <1>8, <1>9

\* One row has one order.
LEMMA OrdersOfOne == ASSUME NEW r PROVE SetToSeqs({r}) = {<<r>>}
<1>1. Cardinality({r}) = 1
  BY FS_Singleton
<1>2. SetToSeqs({r}) = {f \in [1 .. 1 -> {r}] : \A i, k \in 1 .. 1 : i # k => f[i] # f[k]}
  BY <1>1 DEF SetToSeqs
<1>3. ASSUME NEW f \in [1 .. 1 -> {r}] PROVE f = <<r>>
  OBVIOUS
<1>4. <<r>> \in [1 .. 1 -> {r}]
  OBVIOUS
<1>. QED  BY <1>2, <1>3, <1>4

\* Without rows there is one order, the empty one.
LEMMA OrdersOfNone == SetToSeqs({}) = {<<>>}
<1>1. Cardinality({}) = 0
  BY FS_EmptySet
<1>2. SetToSeqs({}) = {f \in [1 .. 0 -> {}] : \A i, k \in 1 .. 0 : i # k => f[i] # f[k]}
  BY <1>1 DEF SetToSeqs
<1>3. ASSUME NEW f \in [1 .. 0 -> {}] PROVE f = <<>>
  OBVIOUS
<1>4. <<>> \in [1 .. 0 -> {}]
  OBVIOUS
<1>. QED  BY <1>2, <1>3, <1>4

\* The function by which InOrder goes through the places.
Longer(orders, next) == {s \o t : s \in orders, t \in next}
Following(rows, n) == SetToSeqs({r \in rows : r.seq = n - 1})
Orders(rows, f) == f = [n \in Places |-> IF n = 0 THEN {<<>>} ELSE Longer(f[n - 1], Following(rows, n))]

\* If there is one, InOrder uses one.
LEMMA InOrderUses ==
    ASSUME NEW rows, NEW g, Orders(rows, g)
    PROVE  \E f : Orders(rows, f) /\ InOrder(rows) = f[Max(Places)] \cap Seq(rows)
<1>. DEFINE F == CHOOSE f : Orders(rows, f)
<1>1. Orders(rows, F)
  OBVIOUS
<1>2. InOrder(rows) = F[Max(Places)] \cap Seq(rows)
  BY DEF InOrder, Orders, Longer, Following
<1>. QED  BY <1>1, <1>2

\* Its values, place by place.
LEMMA OrdersAre ==
    ASSUME NEW m \in Nat, Places = 0 .. m, NEW rows, NEW f
    PROVE  Orders(rows, f) <=> /\ f = [n \in Places |-> f[n]]
                               /\ f[0] = {<<>>}
                               /\ \A n \in 1 .. m : f[n] = Longer(f[n - 1], Following(rows, n))
<1>. DEFINE e(n) == IF n = 0 THEN {<<>>} ELSE Longer(f[n - 1], Following(rows, n))
<1>1. \A n \in 1 .. m : n # 0 /\ n \in Places
  OBVIOUS
<1>2. \A n \in Places : n = 0 \/ n \in 1 .. m
  OBVIOUS
<1>3. 0 \in Places
  OBVIOUS
<1>4. /\ e(0) = {<<>>}
      /\ \A n \in 1 .. m : e(n) = Longer(f[n - 1], Following(rows, n))
  BY <1>1
<1>5. Orders(rows, f) <=> f = [n \in Places |-> e(n)]
  BY DEF Orders
<1>. HIDE DEF e
<1>. QED  BY <1>1, <1>2, <1>3, <1>4, <1>5

\* There is no other.
LEMMA OrdersAgree ==
    ASSUME NEW m \in Nat, Places = 0 .. m, NEW rows, NEW f, NEW g, Orders(rows, f), Orders(rows, g)
    PROVE  f[m] = g[m]
<1>. DEFINE bad == {k \in 0 .. m : f[k] # g[k]}
<1>1. SUFFICES ASSUME bad # {} PROVE FALSE
  OBVIOUS
<1>2. PICK k \in bad : \A i \in bad : k <= i
  <2>1. bad \in SUBSET Nat
    OBVIOUS
  <2>. HIDE DEF bad
  <2>. QED  BY <1>1, <2>1, LeastOfNat
<1>3. k \in 0 .. m /\ f[k] # g[k]
  OBVIOUS
<1>4. k # 0
  BY <1>3, OrdersAre
<1>5. k - 1 \in 0 .. m /\ k \in 1 .. m /\ ~(k <= k - 1)
  BY <1>3, <1>4
<1>6. f[k - 1] = g[k - 1]
  BY <1>2, <1>5
<1>. QED  BY <1>3, <1>5, <1>6, OrdersAre

\* The rows of a journey have one order, that of the journey.
LEMMA OrderIsJourney ==
    ASSUME NEW j \in Journey, NEW rows, Spells(rows, j), NEW stops \in InOrder(rows)
    PROVE  /\ DOMAIN stops = DOMAIN j /\ Len(stops) = Len(j) /\ stops \in Seq(Row)
           /\ \A i \in DOMAIN j : stops[i].at = j[i].at /\ stops[i].line = j[i].line
<1>1. PICK L \in Nat : L = Len(j)
  BY JourneyAssumption
<1>. DEFINE row(i) == CHOOSE r \in rows : r.seq = i - 1
            end(n) == IF n <= L THEN n ELSE L
            h(n) == [i \in 1 .. end(n) |-> row(i)]
            g == [n \in Places |-> {h(n)}]
<1>2. DOMAIN j = 1 .. L
  BY <1>1, JourneyAssumption
<1>3. PICK m \in Nat : Places = 0 .. m /\ Max(Places) = m /\ L <= m
  BY <1>1, PlacesAre
<1>4. ASSUME NEW i \in 1 .. L
      PROVE  /\ row(i) \in rows /\ row(i) \in Row /\ row(i).seq = i - 1
             /\ {r \in rows : r.seq = i - 1} = {row(i)}
  <2>1. \E r \in rows : r.seq = i - 1
    BY <1>2 DEF Spells
  <2>2. row(i) \in rows /\ row(i).seq = i - 1
    BY <2>1
  <2>. HIDE DEF row
  <2>3. \A r \in rows : r.seq = i - 1 => r = row(i)
    BY <2>2 DEF Spells
  <2>. QED  BY <2>2, <2>3 DEF Spells
<1>5. ASSUME NEW n \in 1 .. L PROVE Following(rows, n) = {<<row(n)>>}
  BY <1>4, OrdersOfOne DEF Following
<1>6. ASSUME NEW n \in Nat, n > L PROVE Following(rows, n) = {<<>>}
  <2>1. ASSUME NEW r \in rows, r.seq = n - 1 PROVE FALSE
    <3>1. r.seq + 1 \in 1 .. L
      BY <1>2 DEF Spells
    <3>. QED  BY <1>6, <2>1, <3>1
  <2>2. {r \in rows : r.seq = n - 1} = {}
    BY <2>1
  <2>. QED  BY <2>2, OrdersOfNone DEF Following
<1>. HIDE DEF row
<1>7. ASSUME NEW n \in Nat
      PROVE  /\ end(n) \in Nat /\ h(n) \in Seq(Row) /\ Len(h(n)) = end(n)
             /\ \A i \in 1 .. end(n) : h(n)[i] = row(i)
  <2>1. end(n) \in Nat /\ end(n) <= L
    OBVIOUS
  <2>2. \A i \in 1 .. end(n) : row(i) \in Row
    BY <1>4, <2>1
  <2>. HIDE DEF end
  <2>. QED  BY <2>1, <2>2
<1>8. h(0) = <<>>
  OBVIOUS
<1>9. ASSUME NEW n \in Nat, n # 0, n <= L PROVE h(n - 1) \o <<row(n)>> = h(n)
  <2>1. n - 1 \in Nat /\ end(n) = n /\ end(n - 1) = n - 1
    BY <1>9
  <2>2. row(n) \in Row
    BY <1>4, <1>9
  <2>3. /\ h(n - 1) \in Seq(Row) /\ Len(h(n - 1)) = n - 1 /\ h(n) \in Seq(Row) /\ Len(h(n)) = n
        /\ \A i \in 1 .. n - 1 : h(n - 1)[i] = row(i)
        /\ \A i \in 1 .. n : h(n)[i] = row(i)
    BY <1>7, <2>1
  <2>. HIDE DEF h
  <2>4. h(n - 1) \o <<row(n)>> \in Seq(Row) /\ Len(h(n - 1) \o <<row(n)>>) = n
    BY <2>1, <2>2, <2>3
  <2>5. ASSUME NEW i \in 1 .. n PROVE (h(n - 1) \o <<row(n)>>)[i] = h(n)[i]
    BY <2>1, <2>2, <2>3
  <2>. QED  BY <2>3, <2>4, <2>5
<1>10. ASSUME NEW n \in Nat, n # 0, n > L PROVE h(n - 1) \o <<>> = h(n)
  <2>1. end(n) = L /\ end(n - 1) = L
    BY <1>10
  <2>2. h(n - 1) = h(n)
    BY <2>1
  <2>3. h(n) \in Seq(Row)
    BY <1>7
  <2>. HIDE DEF h
  <2>. QED  BY <2>2, <2>3
<1>. HIDE DEF h, end
<1>11. ASSUME NEW n \in 1 .. m PROVE Longer({h(n - 1)}, Following(rows, n)) = {h(n)}
  <2>1. CASE n <= L
    <3>1. Following(rows, n) = {<<row(n)>>} /\ h(n - 1) \o <<row(n)>> = h(n)
      BY <1>5, <1>9, <2>1
    <3>. QED  BY <3>1 DEF Longer
  <2>2. CASE n > L
    <3>1. Following(rows, n) = {<<>>} /\ h(n - 1) \o <<>> = h(n)
      BY <1>6, <1>10, <2>2
    <3>. QED  BY <3>1 DEF Longer
  <2>3. n <= L \/ n > L
    OBVIOUS
  <2>. QED  BY <2>1, <2>2, <2>3
<1>12. Orders(rows, g)
  <2>1. g = [n \in Places |-> g[n]] /\ g[0] = {<<>>}
    BY <1>3, <1>8
  <2>2. ASSUME NEW n \in 1 .. m PROVE g[n] = Longer(g[n - 1], Following(rows, n))
    <3>1. n \in Places /\ n - 1 \in Places
      BY <1>3
    <3>. QED  BY <1>11, <3>1
  <2>. HIDE DEF g
  <2>. QED  BY <1>3, <2>1, <2>2, OrdersAre
<1>13. stops = h(m)
  <2>1. g[m] = {h(m)}
    BY <1>3
  <2>. HIDE DEF g
  <2>2. PICK f : Orders(rows, f) /\ InOrder(rows) = f[m] \cap Seq(rows)
    BY <1>3, <1>12, InOrderUses
  <2>3. f[m] = g[m]
    BY <1>3, <1>12, <2>2, OrdersAgree
  <2>. QED  BY <2>1, <2>2, <2>3
<1>14. end(m) = L
  BY <1>3 DEF end
<1>15. stops \in Seq(Row) /\ Len(stops) = L /\ \A i \in 1 .. L : stops[i] = row(i)
  BY <1>7, <1>13, <1>14
<1>16. ASSUME NEW i \in DOMAIN j PROVE stops[i].at = j[i].at /\ stops[i].line = j[i].line
  <2>1. row(i) \in rows /\ row(i).seq = i - 1 /\ stops[i] = row(i) /\ i - 1 + 1 = i
    BY <1>2, <1>4, <1>15
  <2>. QED  BY <2>1 DEF Spells
<1>. QED  BY <1>1, <1>2, <1>15, <1>16

\* The stations between two stops, as the reference Travelled counts them.
Crossed(v, from, to, s) ==
    \E a, b, k \in DOMAIN v :
       /\ {v[a], v[b]} = {from, to} /\ a <= k /\ k <= b /\ v[k] = s
       /\ \A c \in DOMAIN v : v[c] \in {v[a], v[b]} => c >= a /\ (v[c] = v[b] => c >= b)

\* The expansion counts the same.
LEMMA BetweenIsCrossed ==
    ASSUME NEW v \in Seq(Station), NEW from, NEW to, NEW s
    PROVE  /\ s \in Between(from, to, v) <=> Crossed(v, from, to, s)
           /\ Crossed(v, from, to, s) => s \in Station
<1>. DEFINE at(x) == {k \in DOMAIN v : v[k] = x}
            first(x) == Min(at(x))
            i == first(from)
            l == first(to)
            Here(a, b, k) ==
                /\ {v[a], v[b]} = {from, to} /\ a <= k /\ k <= b /\ v[k] = s
                /\ \A c \in DOMAIN v : v[c] \in {v[a], v[b]} => c >= a /\ (v[c] = v[b] => c >= b)
<1>1. DOMAIN v = 1 .. Len(v) /\ Len(v) \in Nat
  OBVIOUS
<1>2. Crossed(v, from, to, s) <=> \E a, b, k \in DOMAIN v : Here(a, b, k)
  BY DEF Crossed
<1>3. Crossed(v, from, to, s) => s \in Station
  BY DEF Crossed
<1>4. ASSUME NEW x \in Range(v)
      PROVE  /\ first(x) \in DOMAIN v /\ v[first(x)] = x
             /\ \A c \in DOMAIN v : v[c] = x => first(x) <= c
  <2>1. at(x) \in SUBSET Nat /\ at(x) # {}
    BY <1>1 DEF Range
  <2>2. PICK k \in at(x) : \A c \in at(x) : k <= c
    BY <2>1, LeastOfNat
  <2>. HIDE DEF at
  <2>3. first(x) \in at(x) /\ \A c \in at(x) : first(x) <= c
    BY <2>2 DEF Min
  <2>. QED  BY <2>3 DEF at
<1>5. ASSUME NEW a \in DOMAIN v, NEW b \in DOMAIN v, NEW k \in DOMAIN v, Here(a, b, k)
      PROVE  from \in Range(v) /\ to \in Range(v)
  <2>1. from \in {v[a], v[b]} /\ to \in {v[a], v[b]}
    BY <1>5
  <2>. QED  BY <2>1 DEF Range
<1>6. CASE ~({from, to} \subseteq Range(v))
  <2>1. Between(from, to, v) = {}
    BY <1>6 DEF Between
  <2>. HIDE DEF Here
  <2>2. ~\E a, b, k \in DOMAIN v : Here(a, b, k)
    BY <1>5, <1>6
  <2>. QED  BY <1>2, <1>3, <2>1, <2>2
<1>7. CASE {from, to} \subseteq Range(v)
  <2>1. Between(from, to, v) = {v[k] : k \in Min({i, l}) .. Max({i, l})}
    BY <1>7 DEF Between
  <2>. HIDE DEF first
  <2>2. /\ i \in 1 .. Len(v) /\ l \in 1 .. Len(v) /\ v[i] = from /\ v[l] = to
        /\ \A c \in 1 .. Len(v) : (v[c] = from => i <= c) /\ (v[c] = to => l <= c)
    BY <1>1, <1>4, <1>7
  <2>. HIDE DEF i, l
  <2>3. /\ Min({i, l}) = IF i <= l THEN i ELSE l
        /\ Max({i, l}) = IF i <= l THEN l ELSE i
    BY <2>2 DEF Min, Max
  <2>4. ASSUME NEW k \in Min({i, l}) .. Max({i, l}), v[k] = s
        PROVE  \E a, b, c \in DOMAIN v : Here(a, b, c)
    <3>1. CASE i <= l
      <4>1. k \in DOMAIN v /\ i \in DOMAIN v /\ l \in DOMAIN v /\ i <= k /\ k <= l
        BY <1>1, <2>2, <2>3, <2>4, <3>1
      <4>2. \A c \in DOMAIN v : v[c] \in {v[i], v[l]} => c >= i /\ (v[c] = v[l] => c >= l)
        BY <1>1, <2>2, <3>1
      <4>3. Here(i, l, k)
        BY <2>2, <2>4, <4>1, <4>2
      <4>. HIDE DEF Here
      <4>. QED  BY <4>1, <4>3
    <3>2. CASE ~(i <= l)
      <4>1. k \in DOMAIN v /\ i \in DOMAIN v /\ l \in DOMAIN v /\ l <= k /\ k <= i
        BY <1>1, <2>2, <2>3, <2>4, <3>2
      <4>2. \A c \in DOMAIN v : v[c] \in {v[l], v[i]} => c >= l /\ (v[c] = v[i] => c >= i)
        BY <1>1, <2>2, <3>2
      <4>3. Here(l, i, k)
        BY <2>2, <2>4, <4>1, <4>2
      <4>. HIDE DEF Here
      <4>. QED  BY <4>1, <4>3
    <3>. QED  BY <3>1, <3>2
  <2>5. ASSUME NEW a \in DOMAIN v, NEW b \in DOMAIN v, NEW k \in DOMAIN v, Here(a, b, k)
        PROVE  k \in Min({i, l}) .. Max({i, l}) /\ v[k] = s
    <3>1. /\ a \in 1 .. Len(v) /\ b \in 1 .. Len(v) /\ k \in 1 .. Len(v)
          /\ a <= k /\ k <= b /\ v[k] = s
          /\ (v[a] = from /\ v[b] = to) \/ (v[a] = to /\ v[b] = from)
          /\ \A c \in 1 .. Len(v) : (v[c] = v[a] => c >= a) /\ (v[c] = v[b] => c >= b)
      BY <1>1, <2>5
    <3>2. (a = i /\ b = l) \/ (a = l /\ b = i)
      BY <2>2, <3>1
    <3>. QED  BY <2>2, <2>3, <3>1, <3>2
  <2>. HIDE DEF Here
  <2>6. s \in Between(from, to, v) <=> \E a, b, k \in DOMAIN v : Here(a, b, k)
    BY <2>1, <2>4, <2>5
  <2>. QED  BY <1>2, <1>3, <2>6
<1>. QED  BY <1>6, <1>7

\* The stations of index entries.
Pairs(entries) == {<<e.line, e.station>> : e \in entries}

\* What is built from the stops of a journey is what is travelled on it.
LEMMA ExpandIsTravelled ==
    ASSUME NEW j \in Journey, NEW n \in Network, NEW w \in Nat, NEW stops,
           DOMAIN stops = DOMAIN j, Len(stops) = Len(j),
           \A i \in DOMAIN j : stops[i].at = j[i].at /\ stops[i].line = j[i].line
    PROVE  Pairs(Expand(stops, n, w)) = Travelled(j, n)
<1>. DEFINE Hop == 1 .. Len(j) - 1
            Here(line, s, i) ==
               /\ j[i].line = line
               /\ \E v \in Variants[n][line] : s \in Between(j[i].at, j[i + 1].at, v)
<1>1. /\ Len(j) \in Nat /\ DOMAIN j = 1 .. Len(j) /\ \A i \in DOMAIN j : j[i] \in Stop
  BY JourneyAssumption
<1>2. \A i \in Hop : /\ stops[i].at = j[i].at /\ stops[i + 1].at = j[i + 1].at
                     /\ stops[i].line = j[i].line /\ j[i].line \in Line \cup {None}
  <2>1. \A i \in Hop : i \in DOMAIN j /\ i + 1 \in DOMAIN j
    BY <1>1
  <2>2. \A x \in Stop : x.line \in Line \cup {None}
    BY DEF Stop
  <2>. QED  BY <1>1, <2>1, <2>2
<1>3. \A line \in Line : \A v \in Variants[n][line] : v \in Seq(Station)
  BY NetworkAssumption
<1>4. ASSUME NEW line, NEW s
      PROVE  <<line, s>> \in Pairs(Expand(stops, n, w))
             <=> line \in Line /\ \E i \in Hop : Here(line, s, i)
  <2>. DEFINE entries(i) ==
               {[line |-> stops[i].line, station |-> x, version |-> w] :
                   x \in UNION {Between(stops[i].at, stops[i + 1].at, v) : v \in Variants[n][stops[i].line]}}
  <2>1. Expand(stops, n, w) = UNION {entries(i) : i \in {k \in Hop : stops[k].line # None}}
    BY DEF Expand
  <2>2. ASSUME NEW i \in Hop
        PROVE  (\E e \in entries(i) : e.line = line /\ e.station = s) <=> Here(line, s, i)
    <3>. DEFINE X == UNION {Between(stops[i].at, stops[i + 1].at, v) : v \in Variants[n][stops[i].line]}
    <3>1. /\ stops[i].at = j[i].at /\ stops[i + 1].at = j[i + 1].at /\ stops[i].line = j[i].line
      BY <1>2
    <3>2. s \in X <=> \E v \in Variants[n][j[i].line] : s \in Between(j[i].at, j[i + 1].at, v)
      BY <3>1
    <3>3. entries(i) = {[line |-> stops[i].line, station |-> x, version |-> w] : x \in X}
      OBVIOUS
    <3>. HIDE DEF X, entries
    <3>4. ASSUME NEW e \in entries(i), e.line = line, e.station = s
          PROVE  stops[i].line = line /\ s \in X
      BY <3>3, <3>4
    <3>5. ASSUME stops[i].line = line, s \in X
          PROVE  \E e \in entries(i) : e.line = line /\ e.station = s
      <4>. DEFINE e == [line |-> stops[i].line, station |-> s, version |-> w]
      <4>1. e \in entries(i) /\ e.line = line /\ e.station = s
        BY <3>3, <3>5
      <4>. HIDE DEF e
      <4>. QED  BY <4>1
    <3>6. (\E e \in entries(i) : e.line = line /\ e.station = s) <=> stops[i].line = line /\ s \in X
      BY <3>4, <3>5
    <3>. QED  BY <3>1, <3>2, <3>6
  <2>. HIDE DEF entries, Here
  <2>3. <<line, s>> \in Pairs(Expand(stops, n, w))
        <=> \E i \in Hop : stops[i].line # None /\ \E e \in entries(i) : e.line = line /\ e.station = s
    BY <2>1 DEF Pairs
  <2>4. ASSUME NEW i \in Hop, Here(line, s, i) PROVE line \in Line <=> stops[i].line # None
    BY <1>2, <2>4, JourneyAssumption DEF Here
  <2>. QED  BY <2>2, <2>3, <2>4
<1>5. ASSUME NEW line \in Line, NEW s
      PROVE  <<line, s>> \in Travelled(j, n) <=> \E i \in Hop : Here(line, s, i)
  <2>. DEFINE There(e) ==
               \E i \in Hop : j[i].line = e[1] /\ \E v \in Variants[n][e[1]] :
                  Crossed(v, j[i].at, j[i + 1].at, e[2])
  <2>1. Travelled(j, n) = {e \in Line \X Station : There(e)}
    BY DEF Travelled, Crossed
  <2>2. There(<<line, s>>)
        <=> \E i \in Hop : j[i].line = line /\ \E v \in Variants[n][line] :
               Crossed(v, j[i].at, j[i + 1].at, s)
    OBVIOUS
  <2>. HIDE DEF There
  <2>3. There(<<line, s>>) => s \in Station
    BY <1>3, <2>2, BetweenIsCrossed
  <2>4. There(<<line, s>>) <=> \E i \in Hop : Here(line, s, i)
    BY <1>3, <2>2, BetweenIsCrossed
  <2>. QED  BY <2>1, <2>3, <2>4
<1>. HIDE DEF Here, Hop
<1>6. \A e \in Pairs(Expand(stops, n, w)) : e \in Travelled(j, n)
  <2>. SUFFICES ASSUME NEW e \in Pairs(Expand(stops, n, w)) PROVE e \in Travelled(j, n)
    OBVIOUS
  <2>1. PICK line, s : e = <<line, s>>
    BY DEF Pairs
  <2>. QED  BY <1>4, <1>5, <2>1
<1>7. \A e \in Travelled(j, n) : e \in Pairs(Expand(stops, n, w))
  <2>. SUFFICES ASSUME NEW e \in Travelled(j, n) PROVE e \in Pairs(Expand(stops, n, w))
    OBVIOUS
  <2>1. PICK line \in Line, s \in Station : e = <<line, s>>
    BY DEF Travelled
  <2>. QED  BY <1>4, <1>5, <2>1
<1>. QED  BY <1>6, <1>7

\* Before the first request there is nothing to index, to detect or to rebuild.
Untouched ==
    edits = 0 => /\ segs = {} /\ index = {} /\ old = {} /\ jobs = 0
                 /\ \A p \in Proc : pc[p] = "idle"

\* The rows are those of a journey and the pairs are what is travelled on it.
Exact(rows, pairs) ==
    \/ rows = {} /\ pairs = {}
    \/ \E j \in Journey, n \in Network : Spells(rows, j) /\ pairs = Travelled(j, n)

\* What the first request, or a rebuild after it, writes is exact; one that edits finds
\* nothing to edit.
Plan(step, t) == IF step = "open" THEN t.loaded = {} ELSE Exact(Written(t), Pairs(t.entries))
FirstJourney ==
    ~raced /\ edits <= 1 => /\ Exact(segs, Indexed)
                            /\ \A p \in Proc : pc[p] # "idle" => Plan(pc[p], tx[p])

\* A request counts as an edit, and without one nothing is written.
LEMMA UntouchedKept ==
    ASSUME Types, Untouched, [Next]_vars
    PROVE  Untouched'
<1>. SUFFICES ASSUME edits' = 0
              PROVE  /\ segs' = {} /\ index' = {} /\ old' = {} /\ jobs' = 0
                     /\ \A p \in Proc : pc'[p] = "idle"
  BY DEF Untouched
<1>1. edits \in Nat
  BY BoundAssumption DEF Types
<1>2. ~Request
  BY <1>1 DEF Request
<1>3. ASSUME edits = 0, NEW p \in Proc, Start(p) \/ Continue(p) \/ Rollback(p) PROVE FALSE
  <2>1. pc[p] = "idle" /\ jobs = 0
    BY <1>3 DEF Untouched
  <2>2. ~Start(p)
    <3>1. ~Open(p) /\ ~DeleteRoute(p) /\ ~Rebuild(p, FALSE)
      BY <1>2 DEF Open, DeleteRoute, Rebuild
    <3>2. ~\E j \in Journey : Replace(p, j)
      BY <1>2 DEF Replace
    <3>. QED  BY <3>1, <3>2 DEF Start
  <2>3. ~Rollback(p) /\ ~Reject(p) /\ ~Clear(p) /\ ~Commit(p)
    BY <2>1 DEF Rollback, Reject, Clear, Commit
  <2>4. ~Rebuild(p, TRUE)
    BY <2>1 DEF Rebuild
  <2>5. ASSUME NEW j PROVE ~Move(p, j)
    BY <2>1 DEF Move
  <2>6. ASSUME NEW r PROVE ~Cut(p, r)
    BY <2>1 DEF Cut
  <2>. QED  BY <1>3, <2>2, <2>3, <2>4, <2>5, <2>6 DEF Continue
<1>4. ASSUME UNCHANGED edits PROVE edits = 0
  BY <1>4
<1>5. CASE UNCHANGED vars
  BY <1>4, <1>5 DEF vars, Untouched
<1>6. ASSUME NEW p \in Proc, Start(p) \/ Continue(p) \/ Rollback(p) PROVE FALSE
  <2>1. CASE UNCHANGED edits
    BY <1>3, <1>4, <1>6, <2>1
  <2>2. CASE Request
    BY <1>2, <2>2
  <2>3. UNCHANGED edits \/ Request
    BY <1>6 DEF Start, Continue, Open, DeleteRoute, Rebuild, Replace, Reject, Clear, Commit, Move, Cut,
                Rollback
  <2>. QED  BY <2>1, <2>2, <2>3
<1>7. CASE FetchLines \/ StoreGraph \/ Lose
  <2>1. UNCHANGED <<edits, tables, pc>>
    BY <1>7 DEF FetchLines, StoreGraph, Lose
  <2>2. jobs = 0
    BY <1>4, <2>1 DEF Untouched
  <2>3. UNCHANGED jobs
    BY <1>7, <2>2 DEF FetchLines, StoreGraph, Lose, queues
  <2>. QED  BY <1>4, <2>1, <2>3 DEF Untouched, tables
<1>8. CASE Detect
  <2>1. UNCHANGED <<edits, tables, pc>>
    BY <1>8 DEF Detect
  <2>2. index = {} /\ old = {} /\ jobs = 0
    BY <1>4, <2>1 DEF Untouched
  <2>3. old \cup {e.version : e \in UNION {b.entries : b \in index}} = {}
    BY <2>2
  <2>4. UNCHANGED jobs
    BY <1>8, <2>3 DEF Detect
  <2>. QED  BY <1>4, <2>1, <2>4 DEF Untouched, tables
<1>. QED  BY <1>5, <1>6, <1>7, <1>8 DEF Next

\* A session that writes no rows leaves them.
LEMMA WrittenIsKept ==
    ASSUME Types, NEW t, t.add = {}, t.kill = {}, t.orphans = {}, DOMAIN t.move = {},
           DOMAIN t.renumber = {}
    PROVE  Written(t) = segs
<1>1. segs \in SUBSET Row
  BY DEF Types, Finite
<1>2. ASSUME NEW r \in segs
      PROVE  [id   |-> r.id,
              seq  |-> IF r.id \in DOMAIN t.renumber THEN t.renumber[r.id] ELSE r.seq,
              at   |-> IF r.id \in DOMAIN t.move THEN t.move[r.id].at ELSE r.at,
              line |-> IF r.id \in DOMAIN t.move THEN t.move[r.id].line ELSE r.line,
              dead |-> r.dead \/ r.id \in t.kill] = r
  <2>1. r \in Row
    BY <1>1
  <2>2. (r.dead \/ r.id \in t.kill) = r.dead
    BY <2>1 DEF Row
  <2>. QED  BY <2>1, <2>2 DEF Row
<1>3. \A x : x \in Written(t) <=> x \in segs
  BY <1>2, WrittenIs
<1>. QED  BY <1>3

\* Without rows there is only what the session adds.
LEMMA WrittenIsAdded == ASSUME segs = {}, NEW t PROVE Written(t) = t.add
BY DEF Written

\* The index that is built from exact rows is exact.
LEMMA BuiltIsExact ==
    ASSUME NEW rows, NEW pairs, Exact(rows, pairs), NEW stops \in InOrder(rows),
           NEW n \in Network, NEW w \in Nat
    PROVE  Exact(rows, Pairs(Expand(stops, n, w)))
<1>1. CASE rows = {} /\ pairs = {}
  <2>1. stops \in Seq({})
    BY <1>1, OrderIsOfRows
  <2>2. Len(stops) = 0
    BY <2>1
  <2>3. 1 .. Len(stops) - 1 = {}
    BY <2>2
  <2>4. Expand(stops, n, w) = {}
    BY <2>3 DEF Expand
  <2>. QED  BY <1>1, <2>4 DEF Exact, Pairs
<1>2. ASSUME NEW j \in Journey, Spells(rows, j) PROVE Exact(rows, Pairs(Expand(stops, n, w)))
  <2>1. /\ DOMAIN stops = DOMAIN j /\ Len(stops) = Len(j)
        /\ \A i \in DOMAIN j : stops[i].at = j[i].at /\ stops[i].line = j[i].line
    BY <1>2, OrderIsJourney
  <2>2. Pairs(Expand(stops, n, w)) = Travelled(j, n)
    BY <2>1, ExpandIsTravelled
  <2>. QED  BY <1>2, <2>2 DEF Exact
<1>. QED  BY <1>1, <1>2 DEF Exact

\* The rows of a new journey spell it.
LEMMA RowsSpell == ASSUME Types, NEW j \in Journey PROVE Spells(Rows(j), j)
<1>. DEFINE row(i) == [id |-> ids + i, seq |-> i - 1, at |-> j[i].at, line |-> j[i].line, dead |-> FALSE]
<1>1. DOMAIN j = 1 .. Len(j) /\ Len(j) \in Nat
  BY JourneyAssumption
<1>2. Rows(j) \in SUBSET Row
  BY RowsAreTyped DEF Finite
<1>3. ASSUME NEW i \in DOMAIN j
      PROVE  /\ row(i).seq = i - 1 /\ row(i).at = j[i].at /\ row(i).line = j[i].line /\ ~row(i).dead
             /\ row(i).seq + 1 = i
  BY <1>1
<1>4. Rows(j) = {row(i) : i \in DOMAIN j}
  BY DEF Rows
<1>. HIDE DEF row
<1>5. ASSUME NEW r \in Rows(j)
      PROVE  \E i \in DOMAIN j : r = row(i)
  BY <1>4
<1>6. \A r \in Rows(j) : /\ ~r.dead /\ r.seq + 1 \in DOMAIN j
                         /\ r.at = j[r.seq + 1].at /\ r.line = j[r.seq + 1].line
  BY <1>3, <1>5
<1>7. \A i \in DOMAIN j : \E r \in Rows(j) : r.seq = i - 1
  BY <1>3, <1>4
<1>8. \A r, s \in Rows(j) : r.seq = s.seq => r = s
  BY <1>3, <1>5
<1>. QED  BY <1>2, <1>6, <1>7, <1>8 DEF Spells

\* A session goes on, alone, with an exact plan.
LEMMA GoIsFirst ==
    ASSUME Types, FirstJourney, NEW p \in Proc, NEW step \in {"open", "built", "cleared"},
           NEW t \in SessionRecord, Go(p, step, t), UNCHANGED <<segs, index>>,
           ~raced' /\ edits' <= 1 =>
              ~raced /\ edits <= 1 /\ Plan(step, t) /\ \A q \in Proc : q # p => pc[q] = "idle"
    PROVE  FirstJourney'
<1>. SUFFICES ASSUME ~raced', edits' <= 1
              PROVE  Exact(segs, Indexed)' /\ \A q \in Proc : pc'[q] # "idle" => Plan(pc[q], tx[q])'
  BY DEF FirstJourney
<1>1. Exact(segs, Indexed) /\ Plan(step, t) /\ \A q \in Proc : q # p => pc'[q] = "idle"
  BY GoIsTyped DEF FirstJourney
<1>2. pc'[p] = step /\ tx'[p] = t
  BY GoIsTyped
<1>3. Exact(segs, Indexed)'
  BY <1>1 DEF Exact, Indexed
<1>4. Written(tx[p])' = Written(t)
  BY <1>2 DEF Written
<1>5. Plan(pc[p], tx[p])'
  BY <1>1, <1>2, <1>4 DEF Plan, Exact
<1>. QED  BY <1>1, <1>3, <1>5

\* A session ends and leaves the tables alone, or no session does anything.
LEMMA EndIsFirst ==
    ASSUME Types, FirstJourney, UNCHANGED <<segs, index>>,
           ~raced' /\ edits' <= 1 => ~raced /\ edits <= 1,
           \/ UNCHANGED <<pc, tx>>
           \/ \E p \in Proc : Close(p)
    PROVE  FirstJourney'
<1>. SUFFICES ASSUME ~raced', edits' <= 1
              PROVE  Exact(segs, Indexed)' /\ \A q \in Proc : pc'[q] # "idle" => Plan(pc[q], tx[q])'
  BY DEF FirstJourney
<1>1. \A q \in Proc : pc'[q] # "idle" => pc'[q] = pc[q] /\ tx'[q] = tx[q]
  BY DEF Close, Types
<1>2. Exact(segs, Indexed)'
  BY DEF Exact, Indexed, FirstJourney
<1>3. ASSUME NEW q \in Proc, pc'[q] # "idle" PROVE Plan(pc[q], tx[q])'
  <2>1. Plan(pc[q], tx[q]) /\ pc'[q] = pc[q] /\ tx'[q] = tx[q]
    BY <1>1, <1>3 DEF FirstJourney
  <2>2. Written(tx[q])' = Written(tx[q])
    BY <2>1 DEF Written
  <2>. QED  BY <2>1, <2>2 DEF Plan, Exact
<1>. QED  BY <1>2, <1>3

\* What the first request and a rebuild will write.
LEMMA StartIsFirst ==
    ASSUME Types, Untouched, FirstJourney, NEW p \in Proc, Start(p) \/ Rebuild(p, TRUE)
    PROVE  FirstJourney'
<1>1. Session \in SessionRecord /\ NoTx \in SessionRecord
  BY SessionIsTyped
<1>2. /\ Active(segs) \in Finite(Row) /\ Ids(Active(segs)) \in SUBSET Nat
      /\ Ids(segs \ Active(segs)) \in SUBSET Nat /\ segs \in SUBSET Row
  <2>1. segs \in Finite(Row) /\ Active(segs) \in SUBSET segs /\ segs \ Active(segs) \in SUBSET Row
    BY DEF Types, Active, Finite
  <2>2. Active(segs) \in Finite(Row)
    BY <2>1, PartOfFinite
  <2>. QED  BY <2>1, <2>2, IdsAreNumbers DEF Finite
<1>3. edits \in Nat /\ net \in Network /\ version \in Nat
  BY BoundAssumption DEF Types
<1>4. Request /\ edits' <= 1 => edits = 0 /\ segs = {}
  BY <1>3 DEF Request, Untouched
<1>5. Request \/ UNCHANGED edits => (edits' <= 1 => edits <= 1)
  BY <1>3 DEF Request
<1>6. ASSUME NEW step \in {"open", "built"}, NEW t \in SessionRecord, Go(p, step, t),
             UNCHANGED tables, Overlaps(p), Request \/ UNCHANGED edits,
             ~raced /\ edits' <= 1 => Plan(step, t)
      PROVE  FirstJourney'
  <2>1. ~raced' => ~raced /\ \A q \in Proc : q # p => pc[q] = "idle"
    BY <1>6 DEF Overlaps
  <2>. QED  BY <1>5, <1>6, <2>1, GoIsFirst DEF tables
<1>7. CASE Open(p)
  <2>. DEFINE t == [Session EXCEPT !.kind = "edit", !.loaded = Active(segs),
                                   !.orphans = Ids(segs \ Active(segs))]
  <2>1. t \in SessionRecord /\ t.loaded = Active(segs)
    BY <1>1, <1>2 DEF SessionRecord
  <2>2. Go(p, "open", t) /\ UNCHANGED tables /\ Overlaps(p) /\ Request
    BY <1>7 DEF Open
  <2>. HIDE DEF t
  <2>3. edits' <= 1 => Plan("open", t)
    BY <1>4, <2>1, <2>2 DEF Plan, Active
  <2>. QED  BY <1>6, <2>1, <2>2, <2>3
<1>8. CASE DeleteRoute(p)
  <2>. DEFINE t == [NoTx EXCEPT !.kind = "delete", !.kill = Ids(Active(segs))]
  <2>1. t \in SessionRecord
    BY <1>1, <1>2 DEF SessionRecord
  <2>2. t.add = {} /\ t.entries = {}
    BY DEF NoTx
  <2>3. Go(p, "built", t) /\ UNCHANGED tables /\ Overlaps(p) /\ Request
    BY <1>8 DEF DeleteRoute
  <2>. HIDE DEF t
  <2>4. edits' <= 1 => Plan("built", t)
    BY <1>4, <2>2, <2>3, WrittenIsAdded DEF Plan, Exact, Pairs
  <2>. QED  BY <1>6, <2>1, <2>3, <2>4
<1>9. ASSUME NEW queued \in BOOLEAN, Rebuild(p, queued) PROVE FirstJourney'
  <2>1. UNCHANGED tables /\ (Request \/ UNCHANGED edits)
    BY <1>9 DEF Rebuild
  <2>2. CASE UNCHANGED <<pc, tx, raced>>
    BY <1>5, <2>1, <2>2, EndIsFirst DEF tables
  <2>3. ASSUME NEW stops \in InOrder(segs), Overlaps(p),
               Go(p, "built", Built([Session EXCEPT !.kind = "rebuild"], stops))
        PROVE  FirstJourney'
    <3>. DEFINE s == [Session EXCEPT !.kind = "rebuild"]
                t == Built(s, stops)
    <3>1. s \in SessionRecord
      BY <1>1 DEF SessionRecord
    <3>2. /\ t.add = {} /\ t.kill = {} /\ DOMAIN t.renumber = {} /\ DOMAIN t.move = {}
          /\ t.orphans = {} /\ t.entries = Expand(stops, net, version)
      BY EmptyIsPartial DEF Session, NoTx, Built
    <3>. HIDE DEF s
    <3>3. t \in SessionRecord
      BY <1>2, <3>1, BuiltIsTyped
    <3>4. Go(p, "built", t)
      BY <2>3 DEF s
    <3>. HIDE DEF t
    <3>5. Written(t) = segs
      BY <3>2, WrittenIsKept
    <3>6. ~raced /\ edits' <= 1 => Plan("built", t)
      <4>1. ~raced /\ edits <= 1 => Exact(segs, Pairs(t.entries))
        BY <1>3, <3>2, BuiltIsExact DEF FirstJourney
      <4>. QED  BY <1>5, <2>1, <3>5, <4>1 DEF Plan
    <3>. QED  BY <1>6, <2>1, <2>3, <3>3, <3>4, <3>6
  <2>. QED  BY <1>9, <2>2, <2>3 DEF Rebuild
<1>10. ASSUME NEW j \in Journey, Replace(p, j) PROVE FirstJourney'
  <2>. DEFINE s == [Session EXCEPT !.kind = "replace", !.add = Rows(j), !.kill = Ids(Active(segs))]
  <2>1. PICK stops \in InOrder(segs \cup Rows(j)) : Go(p, "built", Built(s, stops))
    BY <1>10 DEF Replace, Rows
  <2>2. Rows(j) \in Finite(Row)
    BY RowsAreTyped
  <2>3. s \in SessionRecord /\ segs \cup Rows(j) \in SUBSET Row
    BY <1>1, <1>2, <2>2 DEF SessionRecord, Finite
  <2>. DEFINE t == Built(s, stops)
  <2>4. t.add = Rows(j) /\ t.entries = Expand(stops, net, version)
    BY DEF Session, NoTx, Built
  <2>. HIDE DEF s
  <2>5. t \in SessionRecord
    BY <2>3, BuiltIsTyped
  <2>6. Go(p, "built", t)
    BY <2>1
  <2>. HIDE DEF t
  <2>7. UNCHANGED tables /\ Overlaps(p) /\ Request
    BY <1>10 DEF Replace
  <2>8. ASSUME edits' <= 1 PROVE Plan("built", t)
    <3>1. segs = {} /\ segs \cup Rows(j) = Rows(j)
      BY <1>4, <2>7, <2>8
    <3>2. Exact(Rows(j), Travelled(j, net))
      BY <1>3, RowsSpell DEF Exact
    <3>3. stops \in InOrder(Rows(j))
      BY <3>1
    <3>4. Exact(Rows(j), Pairs(t.entries))
      BY <1>3, <2>4, <3>2, <3>3, BuiltIsExact
    <3>5. Written(t) = Rows(j)
      BY <2>4, <3>1, WrittenIsAdded
    <3>. QED  BY <3>4, <3>5 DEF Plan
  <2>. QED  BY <1>6, <2>5, <2>6, <2>7, <2>8
<1>. QED  BY <1>7, <1>8, <1>9, <1>10 DEF Start

\* What a commit leaves, when it is alone.
LEMMA CommitIsFirst ==
    ASSUME Types, Serial, FirstJourney, NEW p \in Proc, Commit(p)
    PROVE  FirstJourney'
<1>. SUFFICES ASSUME ~raced, edits <= 1
              PROVE  Exact(segs, Indexed)' /\ \A q \in Proc : pc'[q] # "idle" => Plan(pc[q], tx[q])'
  BY DEF FirstJourney, Commit
<1>. DEFINE t == tx[p]
            stay == {b \in index : b.id \notin t.victims}
<1>1. /\ pc[p] = "cleared" /\ segs' = Written(t) /\ Close(p)
      /\ index' = IF t.entries = {} THEN stay
                  ELSE stay \cup {[id |-> ids + 1, by |-> p, entries |-> t.entries]}
  BY DEF Commit
<1>2. Sound("cleared", t) /\ \A q \in Proc : q # p => pc[q] = "idle"
  BY <1>1, BusyIsAlone
<1>3. stay = {}
  BY <1>2 DEF Sound
<1>4. \A q \in Proc : pc'[q] = "idle"
  BY <1>1, <1>2 DEF Close, Types
<1>5. Plan("cleared", t)
  BY <1>1 DEF FirstJourney
<1>6. Indexed' = Pairs(t.entries)
  <2>. HIDE DEF stay, t
  <2>1. CASE t.entries = {}
    <3>1. index' = {}
      BY <1>1, <1>3, <2>1
    <3>. QED  BY <2>1, <3>1 DEF Indexed, Pairs
  <2>2. CASE t.entries # {}
    <3>. DEFINE b == [id |-> ids + 1, by |-> p, entries |-> t.entries]
    <3>1. index' = {b} /\ b.entries = t.entries
      BY <1>1, <1>3, <2>2
    <3>2. Indexed' = UNION {{<<e.line, e.station>> : e \in c.entries} : c \in {b}}
      BY <3>1 DEF Indexed
    <3>. HIDE DEF b
    <3>. QED  BY <3>1, <3>2 DEF Pairs
  <2>. QED  BY <2>1, <2>2
<1>7. segs' = Written(t) /\ Exact(Written(t), Pairs(t.entries))
  BY <1>1, <1>5 DEF Plan
<1>. HIDE DEF t
<1>8. Exact(segs, Indexed)'
  BY <1>6, <1>7 DEF Exact
<1>. QED  BY <1>4, <1>8

\* Every step keeps the first journey exact while no two transactions overlap.
LEMMA FirstKept ==
    ASSUME Types, Serial, Untouched, FirstJourney, [Next]_vars
    PROVE  FirstJourney'
<1>1. CASE UNCHANGED vars
  BY <1>1, EndIsFirst DEF vars
<1>2. ASSUME NEW p \in Proc, Start(p) \/ Continue(p) \/ Rollback(p) PROVE FirstJourney'
  <2>1. CASE Reject(p) \/ Rollback(p)
    BY <2>1, EndIsFirst DEF Reject, Rollback, tables
  <2>2. CASE Start(p) \/ Rebuild(p, TRUE)
    BY <2>2, StartIsFirst
  <2>3. CASE (\E j \in Journey : Move(p, j)) \/ \E r \in tx[p].loaded : Cut(p, r)
    <3>1. pc[p] = "open" /\ tx[p].loaded # {} /\ UNCHANGED <<edits, raced>>
      BY <2>3 DEF Move, Cut
    <3>2. ~(~raced /\ edits <= 1)
      BY <3>1 DEF FirstJourney, Plan
    <3>. QED  BY <3>1, <3>2 DEF FirstJourney
  <2>4. CASE Clear(p)
    <3>. DEFINE t == tx[p]
                u == [t EXCEPT !.victims = {b.id : b \in index}]
    <3>1. t \in SessionRecord /\ {b.id : b \in index} \in SUBSET Nat
      BY DEF Types, Build
    <3>2. /\ u \in SessionRecord /\ u.entries = t.entries /\ u.orphans = t.orphans
          /\ u.kill = t.kill /\ u.move = t.move /\ u.renumber = t.renumber /\ u.add = t.add
      <4>. HIDE DEF t
      <4>. QED  BY <3>1 DEF SessionRecord
    <3>3. pc[p] = "built" /\ Go(p, "cleared", u) /\ UNCHANGED <<tables, edits, raced>>
      BY <2>4 DEF Clear
    <3>. HIDE DEF u
    <3>4. Written(u) = Written(t)
      BY <3>2, SameWritten
    <3>5. ASSUME ~raced, edits <= 1
          PROVE  Plan("cleared", u) /\ \A q \in Proc : q # p => pc[q] = "idle"
      <4>1. Plan("built", t)
        BY <3>3, <3>5 DEF FirstJourney
      <4>2. \A q \in Proc : q # p => pc[q] = "idle"
        BY <3>3, <3>5, BusyIsAlone
      <4>. QED  BY <3>2, <3>4, <4>1, <4>2 DEF Plan
    <3>. QED  BY <3>2, <3>3, <3>5, GoIsFirst DEF tables
  <2>. QED  BY <1>2, <2>1, <2>2, <2>3, <2>4, CommitIsFirst DEF Continue
<1>3. CASE FetchLines \/ StoreGraph \/ Detect \/ Lose
  <2>1. UNCHANGED <<route, segs, index, pc, tx, edits>>
    BY <1>3 DEF FetchLines, StoreGraph, Detect, Lose, tables
  <2>2. ~raced' => ~raced
    BY <1>3 DEF FetchLines, StoreGraph, Detect, Lose
  <2>. QED  BY <2>1, <2>2, EndIsFirst
<1>. QED  BY <1>1, <1>2, <1>3 DEF Next

\* A journey whose rows are spelt is the one the route has.
LEMMA SpeltIsJourney == ASSUME NEW j \in Journey, Spells(segs, j) PROVE IsJourney(j)
<1>1. DOMAIN j = 1 .. Len(j) /\ Len(j) \in Nat
  BY JourneyAssumption
<1>2. Current = segs /\ segs \in SUBSET Row
  BY DEF Current, Active, Spells
<1>3. ASSUME NEW r \in segs
      PROVE  \E i \in DOMAIN j : <<r.seq + 1, r.at, r.line>> = <<i, j[i].at, j[i].line>>
  BY DEF Spells
<1>4. ASSUME NEW i \in DOMAIN j
      PROVE  \E r \in segs : <<i, j[i].at, j[i].line>> = <<r.seq + 1, r.at, r.line>>
  <2>1. PICK r \in segs : r.seq = i - 1
    BY DEF Spells
  <2>2. r.seq + 1 = i
    BY <1>1, <2>1
  <2>. QED  BY <2>2 DEF Spells
<1>. QED  BY <1>2, <1>3, <1>4 DEF IsJourney

\* While requests follow one another, the first journey of a route is indexed exactly, for every
\* network and journey: the index holds what the reference counts as travelled, and nothing else,
\* whatever graph builds, detections, rebuilds and rollbacks come between.
THEOREM FirstJourneyIsIndexed == Spec => []FirstIndexIsExact
<1>1. Init => Untouched /\ FirstJourney
  <2>1. Init => Indexed = {} /\ segs = {}
    BY DEF Init, Indexed
  <2>. QED  BY <2>1 DEF Init, Untouched, FirstJourney, Exact
<1>2. Inv /\ Untouched /\ FirstJourney /\ [Next]_vars => (Untouched /\ FirstJourney)'
  BY UntouchedKept, FirstKept DEF Inv
<1>3. Inv /\ FirstJourney => FirstIndexIsExact
  <2>. SUFFICES ASSUME Inv, FirstJourney, ~raced, edits <= 1, Current # {}
                PROVE  \E n \in Network, j \in Journey : IsJourney(j) /\ Indexed = Travelled(j, n)
    BY DEF FirstIndexIsExact
  <2>1. segs # {}
    BY DEF Current, Active
  <2>. QED  BY <2>1, SpeltIsJourney DEF FirstJourney, Exact
<1>. QED  BY <1>1, <1>2, <1>3, InitInv, NextInv, PTL DEF Spec

===============================================================================
