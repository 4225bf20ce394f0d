-------------------------- MODULE LineStateLogProofs --------------------------
(* Theorems about LineStateLog, for any lines, states, failures and restarts:  *)
(* the types for any number of workers; for one worker, that repeated rows are *)
(* paid for by failures and restarts, and that Redis holds the newest row when *)
(* there were none.                                                            *)
EXTENDS LineStateLog, FiniteSetTheorems, TLAPS

\* A poll logs only lines it has seen a state of, each once and at its own time.
PollOK(s, p) ==
    /\ \A l \in p.todo : p.seen[l] \in State
    /\ s = "compare" => /\ p.line \in Line \ p.todo
                        /\ p.seen[p.line] \in State
    /\ \A r \in p.added : /\ r.at = p.at
                          /\ r.line \notin p.todo
                          /\ s = "compare" => r.line # p.line
    /\ s = "idle" => p = NoPoll
IPolls == \A w \in Worker : PollOK(pc[w], poll[w])

\* The times in use.  Any of them have a latest, so that there is a time after
\* them and a newest among any rows: what Now and Newest choose is there.
Times == {0} \cup {r.at : r \in rows} \cup {poll[w].at : w \in Worker}
HasLatest(ts) == \E m \in ts : \A t \in ts : t <= m
ITimes == \A ts \in SUBSET Times : ts # {} => HasLatest(ts)

IType == TypeOK /\ IPolls /\ ITimes /\ faults \in Nat /\ restarts \in Nat

------------------------------------------------------------------------------
\* An idle worker's locals.
LEMMA NoPollType == NoPoll \in Poll /\ \A s : s # "compare" => PollOK(s, NoPoll)
BY DEF NoPoll, Poll, PollOK

\* The times in use are numbers.
LEMMA TimesType == TypeOK => Times \subseteq Nat
BY DEF TypeOK, Times, Row, Poll

\* A batch begins after every time in use.
LEMMA NowIsLater ==
    ASSUME TypeOK, ITimes
    PROVE  Now \in Nat /\ \A t \in Times : t < Now
<1>1. Now = 1 + Max(Times)
  BY DEF Now, Times
<1>2. HasLatest(Times)
  BY DEF ITimes, Times
<1>3. Max(Times) \in Times /\ \A t \in Times : Max(Times) >= t
  <2>1. \E m \in Times : \A t \in Times : m >= t
    BY <1>2, TimesType DEF HasLatest
  <2>. QED  BY <2>1 DEF Max
<1>. QED  BY <1>1, <1>3, TimesType

\* Any rows that were committed have a newest.
LEMMA NewestIsRow ==
    ASSUME TypeOK, ITimes, NEW rs \in SUBSET rows, rs # {}
    PROVE  Newest(rs) \in rs /\ \A s \in rs : s.at <= Newest(rs).at
<1>1. {r.at : r \in rs} \in SUBSET Times /\ {r.at : r \in rs} # {}
  BY DEF Times
<1>2. HasLatest({r.at : r \in rs})
  BY <1>1 DEF ITimes
<1>3. \E r \in rs : \A s \in rs : s.at <= r.at
  BY <1>2 DEF HasLatest
<1>. QED  BY <1>3 DEF Newest

\* The hash the warm-up reads is a state, or none.
LEMMA LatestType ==
    ASSUME TypeOK, ITimes, NEW l \in Line
    PROVE  Latest(l) \in State \cup {None}
<1>1. CASE RowsOf(l) = {}
  BY <1>1 DEF Latest
<1>2. CASE RowsOf(l) # {}
  <2>1. RowsOf(l) \in SUBSET rows
    BY DEF RowsOf
  <2>2. Newest(RowsOf(l)) \in rows
    BY <1>2, <2>1, NewestIsRow
  <2>. QED  BY <1>2, <2>2 DEF Latest, TypeOK, Row
<1>. QED  BY <1>1, <1>2

\* A step of worker w brings no time but that of its poll.
LEMMA TimesStep ==
    ASSUME NEW w \in Worker, \A v \in Worker \ {w} : poll'[v] = poll[v],
           \A r \in rows' : r.at \in Times
    PROVE  Times' \subseteq Times \cup {poll'[w].at}
<1>. SUFFICES ASSUME NEW t \in Times' PROVE t \in Times \cup {poll'[w].at}
  OBVIOUS
<1>1. CASE t = 0
  BY <1>1 DEF Times
<1>2. ASSUME NEW r \in rows', t = r.at PROVE t \in Times
  BY <1>2
<1>3. ASSUME NEW v \in Worker, t = poll'[v].at PROVE t \in Times \cup {poll'[w].at}
  <2>1. CASE v = w
    BY <1>3, <2>1
  <2>2. CASE v # w
    BY <1>3, <2>2 DEF Times
  <2>. QED  BY <2>1, <2>2
<1>. QED  BY <1>1, <1>2, <1>3 DEF Times

\* Committed rows and polls bear times in use.
LEMMA RowTimes == (\A r \in rows : r.at \in Times) /\ \A w \in Worker : poll[w].at \in Times
BY DEF Times

\* No step but the start of a poll brings a new time.
LEMMA TimesShrink == ITimes /\ Times' \subseteq Times => ITimes'
BY DEF ITimes

\* The start of a poll brings one, later than all.
LEMMA TimesGrow ==
    ASSUME TypeOK, ITimes, Times' \subseteq Times \cup {Now}
    PROVE  ITimes'
<1>. SUFFICES ASSUME NEW ts \in SUBSET Times', ts # {}
              PROVE  HasLatest(ts)
  BY DEF ITimes
<1>1. Now \in Nat /\ \A t \in Times : t < Now
  BY NowIsLater
<1>2. CASE Now \in ts
  BY <1>1, <1>2, TimesType DEF HasLatest
<1>3. CASE Now \notin ts
  <2>1. ts \in SUBSET Times
    BY <1>3
  <2>. QED  BY <2>1 DEF ITimes
<1>. QED  BY <1>2, <1>3

\* A step of one worker to a poll that is in order.
LEMMA GoKeeps ==
    ASSUME IType, NEW w \in Worker, NEW s \in {"idle", "scan", "compare", "commit"},
           NEW p \in Poll, Go(w, s, p), PollOK(s, p)
    PROVE  /\ pc' \in [Worker -> {"idle", "scan", "compare", "commit"}]
           /\ poll' \in [Worker -> Poll]
           /\ IPolls'
           /\ pc'[w] = s /\ poll'[w] = p
           /\ \A v \in Worker \ {w} : pc'[v] = pc[v] /\ poll'[v] = poll[v]
<1>1. /\ pc'[w] = s /\ poll'[w] = p
      /\ \A v \in Worker \ {w} : pc'[v] = pc[v] /\ poll'[v] = poll[v]
      /\ pc' \in [Worker -> {"idle", "scan", "compare", "commit"}]
      /\ poll' \in [Worker -> Poll]
  BY DEF Go, IType, TypeOK
<1>2. IPolls'
  BY <1>1 DEF IType, IPolls
<1>. QED  BY <1>1, <1>2

------------------------------------------------------------------------------
\* One lemma per action.  A new poll sees what TfL says and takes a later time.
LEMMA BeginType == \A w \in Worker : IType /\ Begin(w) => IType'
<1>. SUFFICES ASSUME NEW w \in Worker, IType, Begin(w) PROVE IType'
  OBVIOUS
<1>. DEFINE p == [NoPoll EXCEPT !.seen = report, !.at = Now,
                                !.todo = {l \in Line : report[l] # None}]
<1>1. Now \in Nat
  BY NowIsLater DEF IType
<1>2. /\ p.seen = report /\ p.at = Now /\ p.todo = {l \in Line : report[l] # None}
      /\ p.added = {}
  BY DEF NoPoll
<1>3. p \in Poll
  BY <1>1, NoPollType DEF Poll, IType, TypeOK
<1>4. PollOK("scan", p)
  BY <1>2 DEF PollOK, IType, TypeOK
<1>5. Go(w, "scan", p)
  BY DEF Begin
<1>6. p.at = Now
  BY <1>2
<1>. HIDE DEF p
<1>7. /\ pc' \in [Worker -> {"idle", "scan", "compare", "commit"}]
      /\ poll' \in [Worker -> Poll] /\ IPolls' /\ poll'[w] = p
      /\ \A v \in Worker \ {w} : poll'[v] = poll[v]
  BY <1>3, <1>4, <1>5, GoKeeps
<1>8. Times' \subseteq Times \cup {Now}
  BY <1>6, <1>7, TimesStep, RowTimes DEF Begin
<1>9. ITimes'
  BY <1>8, TimesGrow DEF IType
<1>. QED  BY <1>7, <1>9 DEF Begin, IType, TypeOK

\* Reading the hash of a line takes it from the list.
LEMMA ReadType == \A w \in Worker, l \in Line : IType /\ Read(w, l) => IType'
<1>. SUFFICES ASSUME NEW w \in Worker, NEW l \in Line, IType, Read(w, l) PROVE IType'
  OBVIOUS
<1>. DEFINE q == poll[w]
            p == [q EXCEPT !.line = l, !.old = cache[l], !.todo = @ \ {l}]
<1>1. q \in Poll /\ PollOK("scan", q) /\ l \in q.todo
  BY DEF IType, TypeOK, IPolls, Read
<1>2. /\ p.seen = q.seen /\ p.at = q.at /\ p.todo = q.todo \ {l}
      /\ p.line = l /\ p.added = q.added
  BY <1>1 DEF Poll
<1>3. p \in Poll
  BY <1>1 DEF Poll, IType, TypeOK
<1>4. PollOK("compare", p)
  BY <1>1, <1>2 DEF PollOK
<1>5. Go(w, "compare", p)
  BY DEF Read
<1>6. p.at = q.at
  BY <1>2
<1>. HIDE DEF p
<1>7. /\ pc' \in [Worker -> {"idle", "scan", "compare", "commit"}]
      /\ poll' \in [Worker -> Poll] /\ IPolls' /\ poll'[w] = p
      /\ \A v \in Worker \ {w} : poll'[v] = poll[v]
  BY <1>3, <1>4, <1>5, GoKeeps
<1>8. Times' \subseteq Times
  BY <1>6, <1>7, TimesStep, RowTimes DEF Read
<1>. QED  BY <1>7, <1>8, TimesShrink DEF Read, IType, TypeOK, bounds

\* What the comparison makes of the poll q.
RowOf(q) == [line |-> q.line, hash |-> q.seen[q.line], at |-> q.at]
Compared(q) == LET next == [q EXCEPT !.line = None, !.old = None]
               IN  IF q.seen[q.line] = q.old THEN next
                   ELSE [next EXCEPT !.added = @ \cup {RowOf(q)}]

\* It adds the row of the line if that differs, and keeps the rest.
LEMMA ComparedFields ==
    ASSUME NEW q \in Poll, RowOf(q) \in Row
    PROVE  LET p == Compared(q)
           IN  /\ p \in Poll /\ p.seen = q.seen /\ p.at = q.at /\ p.todo = q.todo
               /\ p.added = IF q.seen[q.line] = q.old THEN q.added
                            ELSE q.added \cup {RowOf(q)}
<1>. DEFINE next == [q EXCEPT !.line = None, !.old = None]
            more == q.added \cup {RowOf(q)}
<1>1. /\ next \in Poll /\ next.seen = q.seen /\ next.at = q.at /\ next.todo = q.todo
      /\ next.added = q.added
  BY DEF Poll
<1>2. more \in SUBSET Row /\ Compared(q) = IF q.seen[q.line] = q.old THEN next
                                           ELSE [next EXCEPT !.added = more]
  BY <1>1 DEF Poll, Compared
<1>. HIDE DEF next
<1>. QED  BY <1>1, <1>2 DEF Poll

\* The comparison adds the row of its line, which no row was added for yet.
LEMMA CompareStep ==
    ASSUME IType, NEW w \in Worker, Compare(w)
    PROVE  LET q == poll[w]
               s == IF q.todo = {} THEN "commit" ELSE "scan"
           IN  /\ pc[w] = "compare" /\ q \in Poll /\ PollOK("compare", q) /\ RowOf(q) \in Row
               /\ Go(w, s, Compared(q)) /\ Compared(q) \in Poll /\ PollOK(s, Compared(q))
               /\ cache' = IF q.seen[q.line] = q.old THEN cache
                           ELSE [cache EXCEPT ![q.line] = q.seen[q.line]]
<1>. DEFINE q == poll[w]
            s == IF q.todo = {} THEN "commit" ELSE "scan"
<1>1. pc[w] = "compare" /\ q \in Poll /\ PollOK("compare", q)
  BY DEF IType, TypeOK, IPolls, Compare
<1>2. q.line \in Line /\ q.seen[q.line] \in State /\ q.at \in Nat /\ RowOf(q) \in Row
  BY <1>1 DEF PollOK, Poll, RowOf, Row
<1>3. /\ Go(w, s, Compared(q))
      /\ cache' = IF q.seen[q.line] = q.old THEN cache
                  ELSE [cache EXCEPT ![q.line] = q.seen[q.line]]
  <2>1. CASE q.seen[q.line] = q.old
    BY <2>1 DEF Compare, ScanOn, Compared
  <2>2. CASE q.seen[q.line] # q.old
    BY <2>2 DEF Compare, ScanOn, Compared, RowOf
  <2>. QED  BY <2>1, <2>2
<1>4. /\ Compared(q) \in Poll /\ Compared(q).seen = q.seen /\ Compared(q).at = q.at
      /\ Compared(q).todo = q.todo
      /\ Compared(q).added \subseteq q.added \cup {RowOf(q)}
  BY <1>1, <1>2, ComparedFields
<1>5. PollOK(s, Compared(q))
  BY <1>1, <1>2, <1>4 DEF PollOK, RowOf
<1>. QED  BY <1>1, <1>2, <1>3, <1>4, <1>5

\* A comparison keeps the types, whether it logs the line or not.
LEMMA CompareType == \A w \in Worker : IType /\ Compare(w) => IType'
<1>. SUFFICES ASSUME NEW w \in Worker, IType, Compare(w) PROVE IType'
  OBVIOUS
<1>. DEFINE q == poll[w]
            s == IF q.todo = {} THEN "commit" ELSE "scan"
            p == Compared(q)
<1>1. /\ q \in Poll /\ PollOK("compare", q) /\ Go(w, s, p) /\ p \in Poll /\ PollOK(s, p)
      /\ s \in {"idle", "scan", "compare", "commit"} /\ p.at = q.at
      /\ cache' = IF q.seen[q.line] = q.old THEN cache
                  ELSE [cache EXCEPT ![q.line] = q.seen[q.line]]
  BY CompareStep, ComparedFields
<1>2. cache' \in [Line -> State \cup {None}]
  BY <1>1 DEF PollOK, IType, TypeOK
<1>. HIDE DEF p, s
<1>3. /\ pc' \in [Worker -> {"idle", "scan", "compare", "commit"}]
      /\ poll' \in [Worker -> Poll] /\ IPolls' /\ poll'[w] = p
      /\ \A v \in Worker \ {w} : poll'[v] = poll[v]
  BY <1>1, GoKeeps
<1>4. Times' \subseteq Times
  BY <1>1, <1>3, TimesStep, RowTimes DEF Compare
<1>. QED  BY <1>2, <1>3, <1>4, TimesShrink DEF Compare, IType, TypeOK, bounds

\* The end of a poll: its rows are committed or lost, and all bear its time.
LEMMA EndType ==
    ASSUME IType, NEW w \in Worker, Go(w, "idle", NoPoll),
           rows' \in {rows, rows \cup poll[w].added},
           UNCHANGED <<report, cache, warm, restarts>>, faults' \in Nat
    PROVE  IType'
<1>1. /\ pc' \in [Worker -> {"idle", "scan", "compare", "commit"}]
      /\ poll' \in [Worker -> Poll] /\ IPolls' /\ poll'[w] = NoPoll
      /\ \A v \in Worker \ {w} : poll'[v] = poll[v]
  BY NoPollType, GoKeeps
<1>2. /\ poll[w] \in Poll /\ poll[w].added \subseteq Row
      /\ \A r \in poll[w].added : r.at = poll[w].at
  BY DEF IType, TypeOK, Poll, IPolls, PollOK
<1>3. rows' \subseteq Row
  BY <1>2 DEF IType, TypeOK
<1>4. Times' \subseteq Times
  <2>1. \A r \in rows' : r.at \in Times
    BY <1>2, RowTimes
  <2>2. poll'[w].at \in Times
    BY <1>1 DEF NoPoll, Times
  <2>. QED  BY <1>1, <2>1, <2>2, TimesStep
<1>. QED  BY <1>1, <1>3, <1>4, TimesShrink DEF IType, TypeOK

\* A step of neither the workers nor the rows leaves the polls and the times alone.
LEMMA SamePolls == IPolls /\ ITimes /\ UNCHANGED <<rows, pc, poll>> => IPolls' /\ ITimes'
<1>. SUFFICES ASSUME IPolls, ITimes, UNCHANGED <<rows, pc, poll>> PROVE IPolls' /\ ITimes'
  OBVIOUS
<1>1. IPolls'
  BY DEF IPolls
<1>2. Times' = Times
  BY DEF Times
<1>. QED  BY <1>1, <1>2, TimesShrink

\* The warm-up reads and writes states, and no times.
LEMMA WarmType == IType /\ (WarmUp \/ \E l \in Line : Hydrate(l)) => IType'
<1>. SUFFICES ASSUME IType, WarmUp \/ \E l \in Line : Hydrate(l) PROVE IType'
  OBVIOUS
<1>1. CASE WarmUp
  <2>1. warm' \in [todo : SUBSET Line, hash : [Line -> State \cup {None}]]
    BY <1>1, LatestType DEF WarmUp, IType, TypeOK, LinesOf, Row
  <2>2. UNCHANGED <<report, cache, rows, pc, poll, faults>> /\ restarts' = restarts + 1
    BY <1>1 DEF WarmUp, worker
  <2>3. TypeOK'
    BY <2>1, <2>2 DEF IType, TypeOK
  <2>. QED  BY <2>2, <2>3, SamePolls DEF IType
<1>2. ASSUME NEW l \in Line, Hydrate(l) PROVE IType'
  <2>1. cache' \in [Line -> State \cup {None}]
    BY <1>2 DEF Hydrate, IType, TypeOK
  <2>2. warm' \in [todo : SUBSET Line, hash : [Line -> State \cup {None}]]
    BY <1>2 DEF Hydrate, IType, TypeOK, Idle
  <2>3. UNCHANGED <<report, rows, pc, poll, faults, restarts>>
    BY <1>2 DEF Hydrate, worker, bounds
  <2>4. TypeOK'
    BY <2>1, <2>2, <2>3 DEF IType, TypeOK
  <2>. QED  BY <2>3, <2>4, SamePolls DEF IType
<1>. QED  BY <1>1, <1>2

\* The inductive step, and the first state.
LEMMA NextType == IType /\ [Next]_vars => IType'
<1>. SUFFICES ASSUME IType, [Next]_vars PROVE IType'
  OBVIOUS
<1>1. CASE UNCHANGED vars
  BY <1>1, SamePolls DEF vars, IType, TypeOK
<1>2. ASSUME NEW w \in Worker, Commit(w) \/ Fail(w) PROVE IType'
  BY <1>2, EndType DEF Commit, Fail, bounds, IType
<1>3. ASSUME NEW l \in Line, NEW s \in State \cup {None}, Change(l, s) PROVE IType'
  BY <1>3, SamePolls DEF Change, worker, IType, TypeOK
<1>. QED  BY <1>1, <1>2, <1>3, BeginType, ReadType, CompareType, WarmType DEF Next, WorkerStep

\* The types hold at first.
LEMMA InitIsTyped == Init => IType
<1>. SUFFICES ASSUME Init PROVE IType
  OBVIOUS
<1>1. TypeOK
  BY NoPollType DEF Init, TypeOK, Idle
<1>2. IPolls
  BY NoPollType DEF Init, IPolls
<1>3. \A ts \in SUBSET Times : \A t \in ts : t = 0
  BY DEF Init, Times, NoPoll
<1>4. ITimes
  BY <1>3 DEF ITimes, HasLatest
<1>. QED  BY <1>1, <1>2, <1>4 DEF Init, IType

\* For any number of workers, failures and restarts: a poll logs states TfL
\* reported, and every variable keeps its type.
THEOREM LogTypes == Spec => []TypeOK
<1>1. IType => TypeOK
  BY DEF IType
<1>. QED  BY <1>1, InitIsTyped, NextType, PTL DEF Spec
------------------------------------------------------------------------------
\* One worker.  The rows of its poll count as soon as they are added.  A line is
\* in debt while the hash in Redis, the hash a comparison holds or a hash still
\* to be hydrated may not be that of its newest row: only then can the next row
\* repeat it.  A debt is made by a failure or a start of the web process, moves
\* from one place to the next, and is paid with the repeated row.
AllRows(w) == rows \cup poll[w].added
Of(rs, l) == {r \in rs : r.line = l}
NewestHash(rs) == IF rs = {} THEN None ELSE Newest(rs).hash
Repeats(rs) == {r \in rs : LET older == {s \in rs : s.at < r.at}
                           IN  older # {} /\ Newest(older).hash = r.hash}
Wrong(h, rs) == IF h = NewestHash(rs) THEN 0 ELSE 1
Comparing(w, l) == pc[w] = "compare" /\ poll[w].line = l
Held(w, l, rs) == IF Comparing(w, l)
                  THEN Wrong(poll[w].old, rs)
                       + (IF cache[l] = poll[w].old THEN 0 ELSE Wrong(cache[l], rs))
                  ELSE Wrong(cache[l], rs)
Pending(l) == IF l \in warm.todo THEN 1 ELSE 0
Owed(w, l) == LET rs == Of(AllRows(w), l)
              IN  Cardinality(Repeats(rs)) + Held(w, l, rs) + Pending(l)

Lone(w) ==
    /\ IsFiniteSet(AllRows(w))
    /\ pc[w] # "idle" => \A r \in rows : r.at < poll[w].at
    /\ \A l \in Line : Owed(w, l) <= faults + restarts

\* One more row counts for at most one.
LEMMA AddOne ==
    ASSUME NEW rs, NEW row, IsFiniteSet(rs)
    PROVE  /\ IsFiniteSet(rs \cup {row})
           /\ Cardinality(rs) \in Nat /\ Cardinality(rs \cup {row}) \in Nat
           /\ Cardinality(rs \cup {row}) <= Cardinality(rs) + 1
BY FS_AddElement, FS_CardinalityType

\* The rows of a line a poll logs are all older than its own.
LEMMA NewRowIsNewest ==
    ASSUME NEW rs, NEW row, row.at \in Nat, \A r \in rs : r.at \in Nat /\ r.at < row.at
    PROVE  /\ NewestHash(rs \cup {row}) = row.hash
           /\ Repeats(rs \cup {row}) =
                IF rs # {} /\ row.hash = NewestHash(rs) THEN Repeats(rs) \cup {row}
                ELSE Repeats(rs)
<1>. DEFINE more == rs \cup {row}
            older(qs, r) == {s \in qs : s.at < r.at}
<1>1. Newest(more) = row
  <2>1. \A s \in more : s.at <= row.at
    OBVIOUS
  <2>2. \A r \in more : (\A s \in more : s.at <= r.at) => r = row
    OBVIOUS
  <2>. QED  BY <2>1, <2>2 DEF Newest
<1>2. NewestHash(more) = row.hash
  BY <1>1 DEF NewestHash
<1>3. \A r \in rs : older(more, r) = older(rs, r)
  OBVIOUS
<1>4. older(more, row) = rs /\ row \notin rs
  OBVIOUS
<1>. DEFINE repeats == rs # {} /\ row.hash = NewestHash(rs)
<1>5. \A r \in more : r \in Repeats(more) <=> (r \in Repeats(rs) \/ (r = row /\ repeats))
  <2>1. \A r \in rs : r \in Repeats(more) <=> r \in Repeats(rs)
    <3>1. SUFFICES ASSUME NEW r \in rs PROVE r \in Repeats(more) <=> r \in Repeats(rs)
      OBVIOUS
    <3>2. r \in Repeats(more) <=> older(more, r) # {} /\ Newest(older(more, r)).hash = r.hash
      BY DEF Repeats
    <3>3. r \in Repeats(rs) <=> older(rs, r) # {} /\ Newest(older(rs, r)).hash = r.hash
      BY DEF Repeats
    <3>. QED  BY <1>3, <3>2, <3>3
  <2>2. row \in Repeats(more) <=> repeats
    <3>1. row \in Repeats(more)
             <=> older(more, row) # {} /\ Newest(older(more, row)).hash = row.hash
      BY DEF Repeats
    <3>. QED  BY <1>4, <3>1 DEF NewestHash
  <2>3. row \notin Repeats(rs)
    BY <1>4 DEF Repeats
  <2>. HIDE DEF repeats
  <2>. QED  BY <2>1, <2>2, <2>3, <1>4
<1>6. Repeats(more) \subseteq more /\ Repeats(rs) \subseteq rs
  BY DEF Repeats
<1>7. CASE repeats
  <2>1. Repeats(more) = Repeats(rs) \cup {row}
    BY <1>5, <1>6, <1>7
  <2>. QED  BY <1>2, <1>7, <2>1
<1>8. CASE ~repeats
  <2>1. Repeats(more) = Repeats(rs)
    BY <1>4, <1>5, <1>6, <1>8
  <2>. QED  BY <1>2, <1>8, <2>1
<1>. QED  BY <1>7, <1>8

\* Rows that are lost made no older row a repetition.
LEMMA LostRowsRepeat ==
    ASSUME NEW rs, NEW lost, \A r \in rs, s \in lost : ~(s.at < r.at)
    PROVE  Repeats(rs) \subseteq Repeats(rs \cup lost)
<1>1. \A r \in rs : {s \in rs \cup lost : s.at < r.at} = {s \in rs : s.at < r.at}
  OBVIOUS
<1>. QED  BY <1>1 DEF Repeats

\* What a line owes is made of small numbers.
LEMMA OwedParts ==
    ASSUME NEW w, NEW l, IsFiniteSet(AllRows(w))
    PROVE  LET rs == Of(AllRows(w), l)
           IN  /\ IsFiniteSet(rs) /\ IsFiniteSet(Repeats(rs)) /\ Cardinality(Repeats(rs)) \in Nat
               /\ \A h : Wrong(h, rs) \in {0, 1}
               /\ Held(w, l, rs) \in {0, 1, 2} /\ Pending(l) \in {0, 1}
<1>. DEFINE rs == Of(AllRows(w), l)
<1>1. rs \in SUBSET AllRows(w) /\ Repeats(rs) \in SUBSET rs
  BY DEF Of, Repeats
<1>2. IsFiniteSet(rs) /\ IsFiniteSet(Repeats(rs)) /\ Cardinality(Repeats(rs)) \in Nat
  BY <1>1, FS_Subset, FS_CardinalityType
<1>3. \A h : Wrong(h, rs) \in {0, 1}
  BY DEF Wrong
<1>4. Held(w, l, rs) \in {0, 1, 2}
  <2>. HIDE DEF rs
  <2>. QED  BY <1>3 DEF Held
<1>. QED  BY <1>2, <1>3, <1>4 DEF Pending

------------------------------------------------------------------------------
\* One lemma per action of the lone worker w.  A new poll adds no row yet.
LEMMA BeginOwes ==
    ASSUME IType, NEW w \in Worker, Lone(w), Begin(w)
    PROVE  Lone(w)'
<1>1. poll[w].added = {} /\ pc[w] = "idle"
  BY DEF Begin, IType, IPolls, PollOK, NoPoll
<1>2. /\ pc'[w] = "scan" /\ poll'[w].added = {} /\ poll'[w].at = Now
      /\ UNCHANGED <<cache, rows, warm, faults, restarts>>
  BY DEF Begin, Go, NoPoll, IType, TypeOK
<1>3. \A r \in rows : r.at < Now
  BY NowIsLater, RowTimes DEF IType
<1>4. AllRows(w)' = AllRows(w)
  BY <1>1, <1>2 DEF AllRows
<1>5. \A l \in Line : Owed(w, l)' = Owed(w, l)
  BY <1>1, <1>2, <1>4 DEF Owed, Held, Comparing, Pending
<1>. QED  BY <1>2, <1>3, <1>4, <1>5 DEF Lone

\* The hash read for the comparison owes what Redis owed.
LEMMA ReadOwes ==
    ASSUME IType, NEW w \in Worker, NEW k \in Line, Lone(w), Read(w, k)
    PROVE  Lone(w)'
<1>1. poll[w] \in Poll
  BY DEF IType, TypeOK
<1>2. /\ pc[w] = "scan" /\ pc'[w] = "compare"
      /\ poll'[w].added = poll[w].added /\ poll'[w].at = poll[w].at
      /\ poll'[w].line = k /\ poll'[w].old = cache[k]
      /\ UNCHANGED <<cache, rows, warm, faults, restarts>>
  BY <1>1 DEF Read, Go, Poll, IType, TypeOK, bounds
<1>3. AllRows(w)' = AllRows(w)
  BY <1>2 DEF AllRows
<1>4. ASSUME NEW l \in Line
      PROVE  Owed(w, l)' = Owed(w, l)
  <2>. DEFINE rs == Of(AllRows(w), l)
  <2>1. Wrong(cache[l], rs) \in {0, 1}
    BY DEF Wrong
  <2>2. Held(w, l, rs)' = Held(w, l, rs)
    <3>1. rs' = rs
      BY <1>3
    <3>2. \A h : Wrong(h, rs)' = Wrong(h, rs)
      BY <3>1
    <3>. HIDE DEF rs
    <3>3. CASE l = k
      BY <1>2, <2>1, <3>1, <3>3 DEF Held, Comparing, Wrong
    <3>4. CASE l # k
      BY <1>2, <3>1, <3>4 DEF Held, Comparing
    <3>. QED  BY <3>3, <3>4
  <2>. QED  BY <1>2, <1>3, <2>2 DEF Owed, Pending
<1>. QED  BY <1>2, <1>3, <1>4 DEF Lone

\* The comparison repeats a row only if the hash it held was wrong, and makes the
\* hash in Redis right.
LEMMA CompareOwes ==
    ASSUME IType, NEW w \in Worker, Lone(w), Compare(w)
    PROVE  Lone(w)'
<1>. DEFINE q == poll[w]
            k == q.line
            row == RowOf(q)
            differs == q.seen[k] # q.old
<1>1. /\ pc[w] = "compare" /\ q \in Poll /\ PollOK("compare", q) /\ row \in Row
      /\ k \in Line /\ row.line = k /\ row.hash = q.seen[k] /\ row.at = q.at
      /\ UNCHANGED <<rows, warm, faults, restarts>>
  BY CompareStep DEF PollOK, RowOf, Compare, bounds
<1>2. /\ pc'[w] \in {"scan", "commit"} /\ poll'[w].at = q.at
      /\ poll'[w].added = IF differs THEN q.added \cup {row} ELSE q.added
      /\ cache' = IF differs THEN [cache EXCEPT ![k] = q.seen[k]] ELSE cache
  <2>. DEFINE p == Compared(q)
              s == IF q.todo = {} THEN "commit" ELSE "scan"
  <2>1. /\ Go(w, s, p)
        /\ cache' = IF differs THEN [cache EXCEPT ![k] = q.seen[k]] ELSE cache
    BY CompareStep
  <2>2. p.at = q.at /\ p.added = IF differs THEN q.added \cup {row} ELSE q.added
    BY <1>1, ComparedFields
  <2>. HIDE DEF p
  <2>3. pc'[w] = s /\ poll'[w] = p
    BY <2>1 DEF Go, IType, TypeOK
  <2>. QED  BY <2>1, <2>2, <2>3
<1>3. AllRows(w)' = IF differs THEN AllRows(w) \cup {row} ELSE AllRows(w)
  BY <1>1, <1>2 DEF AllRows
<1>4. IsFiniteSet(AllRows(w)')
  BY <1>3, FS_AddElement DEF Lone
<1>5. pc'[w] # "idle" => \A r \in rows' : r.at < poll'[w].at
  BY <1>1, <1>2 DEF Lone
<1>6. ASSUME NEW l \in Line
      PROVE  Owed(w, l)' <= faults + restarts
  <2>. DEFINE rs == Of(AllRows(w), l)
  <2>1. /\ IsFiniteSet(rs) /\ IsFiniteSet(Repeats(rs)) /\ Cardinality(Repeats(rs)) \in Nat
        /\ \A h : Wrong(h, rs) \in {0, 1} /\ Pending(l) \in {0, 1}
        /\ Owed(w, l) = Cardinality(Repeats(rs)) + Held(w, l, rs) + Pending(l)
        /\ Owed(w, l) <= faults + restarts
    BY OwedParts DEF Lone, Owed
  <2>2. Owed(w, l)' = Cardinality(Repeats(rs')) + Wrong(cache'[l], rs') + Pending(l)
    BY <1>1, <1>2 DEF Owed, Held, Comparing, Pending, Wrong
  <2>3. CASE l # k
    <3>1. rs' = rs /\ cache'[l] = cache[l]
      BY <1>1, <1>2, <1>3, <2>3 DEF Of
    <3>2. Held(w, l, rs) = Wrong(cache[l], rs)
      BY <2>3 DEF Held, Comparing
    <3>. QED  BY <2>1, <2>2, <3>1, <3>2
  <2>4. CASE l = k /\ ~differs
    <3>1. rs' = rs /\ cache' = cache
      BY <1>2, <1>3, <2>4 DEF Of
    <3>2. Wrong(cache[l], rs) <= Held(w, l, rs) /\ Held(w, l, rs) \in {0, 1, 2}
      <4>. HIDE DEF rs
      <4>. QED  BY <1>1, <2>1, <2>4 DEF Held, Comparing
    <3>. QED  BY <1>1, <2>1, <2>2, <3>1, <3>2 DEF IType
  <2>5. CASE l = k /\ differs
    <3>1. rs' = rs \cup {row}
      BY <1>1, <1>3, <2>5 DEF Of
    <3>2. row.at \in Nat /\ \A r \in rs : r.at \in Nat /\ r.at < row.at
      <4>1. \A r \in rs : r \in rows
        BY <1>1, <2>5 DEF Of, AllRows, PollOK
      <4>. QED  BY <1>1, <4>1 DEF Lone, IType, TypeOK, Row
    <3>3. /\ NewestHash(rs') = row.hash
          /\ Repeats(rs') = IF rs # {} /\ row.hash = NewestHash(rs)
                            THEN Repeats(rs) \cup {row} ELSE Repeats(rs)
      <4>. HIDE DEF rs, row
      <4>. QED  BY <3>1, <3>2, NewRowIsNewest
    <3>4. Wrong(cache'[l], rs') = 0
      BY <1>1, <1>2, <2>5, <3>3 DEF Wrong, IType, TypeOK
    <3>5. Held(w, l, rs) >= Wrong(q.old, rs)
      <4>. HIDE DEF rs
      <4>. QED  BY <1>1, <2>1, <2>5 DEF Held, Comparing
    <3>6. Cardinality(Repeats(rs')) <= Cardinality(Repeats(rs)) + Wrong(q.old, rs)
      <4>1. CASE row.hash = NewestHash(rs)
        <5>1. Wrong(q.old, rs) = 1
          BY <1>1, <2>5, <4>1 DEF Wrong
        <5>2. Cardinality(Repeats(rs) \cup {row}) <= Cardinality(Repeats(rs)) + 1
          <6>. HIDE DEF rs, row
          <6>. QED  BY <2>1, AddOne
        <5>. HIDE DEF rs, row
        <5>. QED  BY <2>1, <3>3, <5>1, <5>2
      <4>2. CASE row.hash # NewestHash(rs)
        <5>. HIDE DEF rs, row
        <5>. QED  BY <2>1, <3>3, <4>2
      <4>. QED  BY <4>1, <4>2
    <3>7. Cardinality(Repeats(rs')) \in Nat /\ Held(w, l, rs) \in {0, 1, 2}
      <4>1. Held(w, l, rs) \in {0, 1, 2}
        BY OwedParts DEF Lone
      <4>2. Cardinality(Repeats(rs')) \in Nat
        <5>. HIDE DEF rs, row
        <5>. QED  BY <2>1, <3>3, AddOne
      <4>. QED  BY <4>1, <4>2
    <3>. HIDE DEF rs
    <3>. QED  BY <2>1, <2>2, <3>4, <3>5, <3>6, <3>7 DEF IType
  <2>. QED  BY <2>3, <2>4, <2>5
<1>. QED  BY <1>1, <1>4, <1>5, <1>6 DEF Lone

\* The commit makes the rows of the poll rows like the others.
LEMMA CommitOwes ==
    ASSUME IType, NEW w \in Worker, Lone(w), Commit(w)
    PROVE  Lone(w)'
<1>1. /\ pc[w] = "commit" /\ pc'[w] = "idle" /\ poll'[w].added = {}
      /\ UNCHANGED <<cache, warm, faults, restarts>>
  BY DEF Commit, Go, NoPoll, IType, TypeOK, bounds
<1>2. AllRows(w)' = AllRows(w)
  BY <1>1 DEF AllRows, Commit
<1>3. \A l \in Line : Owed(w, l)' = Owed(w, l)
  BY <1>1, <1>2 DEF Owed, Held, Comparing, Pending
<1>. QED  BY <1>1, <1>2, <1>3 DEF Lone

\* A failure loses the newest rows: Redis may be ahead of the rows that stay.
LEMMA FailOwes ==
    ASSUME IType, NEW w \in Worker, Lone(w), Fail(w)
    PROVE  Lone(w)'
<1>1. /\ pc[w] # "idle" /\ pc'[w] = "idle" /\ poll'[w].added = {}
      /\ faults' = faults + 1
      /\ UNCHANGED <<cache, rows, warm, restarts>>
  BY DEF Fail, Go, NoPoll, IType, TypeOK
<1>2. AllRows(w)' = rows /\ rows \in SUBSET AllRows(w)
  BY <1>1 DEF AllRows
<1>3. IsFiniteSet(AllRows(w)')
  BY <1>2, FS_Subset DEF Lone
<1>4. ASSUME NEW l \in Line
      PROVE  Owed(w, l)' <= faults' + restarts'
  <2>. DEFINE rs == Of(AllRows(w), l)
              old == Of(rows, l)
              lost == Of(poll[w].added, l)
  <2>1. /\ IsFiniteSet(Repeats(rs)) /\ Cardinality(Repeats(rs)) \in Nat
        /\ Pending(l) \in {0, 1} /\ Held(w, l, rs) \in {0, 1, 2}
        /\ Owed(w, l) = Cardinality(Repeats(rs)) + Held(w, l, rs) + Pending(l)
        /\ Owed(w, l) <= faults + restarts
    BY OwedParts DEF Lone, Owed
  <2>2. Owed(w, l)' = Cardinality(Repeats(old)) + Wrong(cache[l], old) + Pending(l)
    BY <1>1, <1>2 DEF Owed, Held, Comparing, Pending, Wrong
  <2>3. rs = old \cup lost
    BY DEF AllRows, Of
  <2>4. \A r \in old, s \in lost : ~(s.at < r.at)
    <3>1. \A s \in poll[w].added : s.at = poll[w].at /\ s.at \in Nat
      BY DEF IType, TypeOK, Poll, Row, IPolls, PollOK
    <3>2. \A r \in rows : r.at \in Nat /\ r.at < poll[w].at
      BY <1>1 DEF Lone, IType, TypeOK, Row
    <3>. QED  BY <3>1, <3>2 DEF Of
  <2>5. Repeats(old) \in SUBSET Repeats(rs)
    <3>. HIDE DEF rs, old, lost
    <3>. QED  BY <2>3, <2>4, LostRowsRepeat
  <2>6. Cardinality(Repeats(old)) \in Nat /\ Cardinality(Repeats(old)) <= Cardinality(Repeats(rs))
    BY <2>1, <2>5, FS_Subset, FS_CardinalityType
  <2>7. Wrong(cache[l], old) \in {0, 1}
    BY DEF Wrong
  <2>. HIDE DEF rs, old
  <2>. QED  BY <1>1, <2>1, <2>2, <2>6, <2>7 DEF IType
<1>. QED  BY <1>1, <1>3, <1>4 DEF Lone

\* A start of the web process pays for the hash of each line it will write.
LEMMA WarmUpOwes ==
    ASSUME IType, NEW w \in Worker, Lone(w), WarmUp
    PROVE  Lone(w)'
<1>1. /\ warm.todo = {} /\ restarts' = restarts + 1
      /\ UNCHANGED <<cache, rows, pc, poll, faults>>
  BY DEF WarmUp, Idle, worker
<1>2. AllRows(w)' = AllRows(w)
  BY <1>1 DEF AllRows
<1>3. ASSUME NEW l \in Line
      PROVE  Owed(w, l)' <= faults' + restarts'
  <2>. DEFINE rs == Of(AllRows(w), l)
  <2>1. /\ Cardinality(Repeats(rs)) \in Nat /\ Held(w, l, rs) \in {0, 1, 2}
        /\ Owed(w, l) = Cardinality(Repeats(rs)) + Held(w, l, rs) + Pending(l)
        /\ Owed(w, l) <= faults + restarts
    BY OwedParts DEF Lone, Owed
  <2>2. Owed(w, l)' = Cardinality(Repeats(rs)) + Held(w, l, rs) + Pending(l)'
    BY <1>1, <1>2 DEF Owed, Held, Comparing, Wrong
  <2>3. Pending(l) = 0 /\ Pending(l)' \in {0, 1}
    BY <1>1 DEF Pending
  <2>. HIDE DEF rs
  <2>. QED  BY <1>1, <2>1, <2>2, <2>3 DEF IType
<1>. QED  BY <1>1, <1>2, <1>3 DEF Lone

\* Writing it may make the hash in Redis wrong, and takes it off the list.
LEMMA HydrateOwes ==
    ASSUME IType, NEW w \in Worker, NEW k \in Line, Lone(w), Hydrate(k)
    PROVE  Lone(w)'
<1>1. /\ k \in warm.todo /\ warm'.todo = warm.todo \ {k}
      /\ \A l \in Line : l # k => cache'[l] = cache[l]
      /\ UNCHANGED <<rows, pc, poll, faults, restarts>>
  BY DEF Hydrate, Idle, worker, bounds, IType, TypeOK
<1>2. AllRows(w)' = AllRows(w)
  BY <1>1 DEF AllRows
<1>3. ASSUME NEW l \in Line
      PROVE  Owed(w, l)' <= faults' + restarts'
  <2>. DEFINE rs == Of(AllRows(w), l)
  <2>1. /\ Cardinality(Repeats(rs)) \in Nat /\ Held(w, l, rs) \in {0, 1, 2}
        /\ \A h : Wrong(h, rs) \in {0, 1}
        /\ Owed(w, l) = Cardinality(Repeats(rs)) + Held(w, l, rs) + Pending(l)
        /\ Owed(w, l) <= faults + restarts
    BY OwedParts DEF Lone, Owed
  <2>2. /\ rs' = rs
        /\ Owed(w, l)' = Cardinality(Repeats(rs)) + Held(w, l, rs)' + Pending(l)'
    BY <1>2 DEF Owed
  <2>3. CASE l # k
    <3>1. Held(w, l, rs)' = Held(w, l, rs) /\ Pending(l)' = Pending(l)
      BY <1>1, <2>2, <2>3 DEF Held, Comparing, Wrong, Pending
    <3>. QED  BY <1>1, <2>1, <2>2, <3>1
  <2>4. CASE l = k
    <3>1. Pending(l) = 1 /\ Pending(l)' = 0
      BY <1>1, <2>4 DEF Pending
    <3>2. Held(w, l, rs)' \in {0, 1, 2} /\ Held(w, l, rs)' <= Held(w, l, rs) + 1
      <4>1. \A h : Wrong(h, rs)' = Wrong(h, rs)
        BY <2>2 DEF Wrong
      <4>. HIDE DEF rs
      <4>. QED  BY <1>1, <2>1, <2>2, <4>1 DEF Held, Comparing, Wrong
    <3>. HIDE DEF rs
    <3>. QED  BY <1>1, <2>1, <2>2, <3>1, <3>2 DEF IType
  <2>. QED  BY <2>3, <2>4
<1>. QED  BY <1>1, <1>2, <1>3 DEF Lone

\* The inductive step for the only worker.
LEMMA NextOwes ==
    ASSUME IType, NEW w, Worker = {w}, Lone(w), [Next]_vars
    PROVE  Lone(w)'
<1>1. CASE UNCHANGED vars
  BY <1>1 DEF vars, Lone, AllRows, Owed, Held, Comparing, Pending, Wrong
<1>2. ASSUME NEW l \in Line, NEW s \in State \cup {None}, Change(l, s)
      PROVE  Lone(w)'
  BY <1>2 DEF Change, worker, Lone, AllRows, Owed, Held, Comparing, Pending, Wrong
<1>. QED  BY <1>1, <1>2, BeginOwes, ReadOwes, CompareOwes, CommitOwes, FailOwes,
             WarmUpOwes, HydrateOwes DEF Next, WorkerStep

\* At first there is no row and no hash.
LEMMA InitOwes ==
    ASSUME Init, NEW w \in Worker
    PROVE  Lone(w)
<1>1. AllRows(w) = {} /\ pc[w] = "idle"
  BY DEF Init, AllRows, NoPoll
<1>2. ASSUME NEW l \in Line PROVE Owed(w, l) = 0
  <2>1. Of(AllRows(w), l) = {} /\ Repeats({}) = {} /\ Cardinality({}) = 0
    BY <1>1, FS_EmptySet DEF Of, Repeats
  <2>2. cache[l] = None /\ warm.todo = {}
    BY DEF Init, Idle
  <2>. QED  BY <1>1, <2>1, <2>2 DEF Owed, Held, Comparing, Pending, Wrong, NewestHash
<1>. QED  BY <1>1, <1>2, FS_EmptySet DEF Init, Lone

\* With one worker a repeated row is paid for, at every step.
ILone == \A w \in Worker : Worker = {w} => Lone(w)
LEMMA LoneIsInvariant == Spec => [](IType /\ ILone)
<1>1. Init => IType /\ ILone
  BY InitIsTyped, InitOwes DEF ILone
<1>2. IType /\ ILone /\ [Next]_vars => IType' /\ ILone'
  BY NextType, NextOwes DEF ILone
<1>. QED  BY <1>1, <1>2, PTL DEF Spec

\* One worker in numbers is one by name.
LEMMA OnlyWorker == Cardinality(Worker) = 1 => \E w \in Worker : Worker = {w}
BY WorkerAssumption, FS_Singleton

\* With one worker, whatever fails, restarts or races with the warm-up: a line
\* has at most one repeated row for each failure and each start of the web
\* process.
THEOREM RepeatedRowsArePaidFor == Spec => []RepeatsAreLosses
<1>1. IType /\ ILone => RepeatsAreLosses
  <2>. SUFFICES ASSUME IType, NEW w \in Worker, Lone(w), Worker = {w}, NEW l \in Line
                PROVE  Cardinality(Repeated(l)) <= faults + restarts
    BY OnlyWorker DEF ILone, RepeatsAreLosses
  <2>. DEFINE rs == Of(AllRows(w), l)
              old == RowsOf(l)
              lost == Of(poll[w].added, l)
  <2>1. /\ IsFiniteSet(Repeats(rs)) /\ Cardinality(Repeats(rs)) \in Nat
        /\ Held(w, l, rs) \in {0, 1, 2} /\ Pending(l) \in {0, 1}
        /\ Cardinality(Repeats(rs)) + Held(w, l, rs) + Pending(l) <= faults + restarts
    BY OwedParts DEF Lone, Owed
  <2>2. rs = old \cup lost
    BY DEF AllRows, Of, RowsOf
  <2>3. \A r \in old, s \in lost : ~(s.at < r.at)
    <3>1. \A s \in poll[w].added : pc[w] # "idle" /\ s.at = poll[w].at /\ s.at \in Nat
      BY DEF IType, TypeOK, Poll, NoPoll, Row, IPolls, PollOK
    <3>2. pc[w] # "idle" => \A r \in rows : r.at \in Nat /\ r.at < poll[w].at
      BY DEF Lone, IType, TypeOK, Row
    <3>. QED  BY <3>1, <3>2 DEF Of, RowsOf
  <2>4. Repeats(old) \in SUBSET Repeats(rs)
    <3>. HIDE DEF rs, old, lost
    <3>. QED  BY <2>2, <2>3, LostRowsRepeat
  <2>5. Cardinality(Repeats(old)) \in Nat /\ Cardinality(Repeats(old)) <= Cardinality(Repeats(rs))
    BY <2>1, <2>4, FS_Subset, FS_CardinalityType
  <2>6. Repeated(l) = Repeats(old)
    BY DEF Repeated, Repeats
  <2>. HIDE DEF rs, old
  <2>. QED  BY <2>1, <2>5, <2>6 DEF IType
<1>. QED  BY <1>1, LoneIsInvariant, PTL

\* With one worker, as long as nothing failed and no web process started: between
\* polls Redis holds the hash of the newest row of every line.
THEOREM RedisIsNewestRow == Spec => []CacheIsNewest
<1>1. IType /\ ILone => CacheIsNewest
  <2>. SUFFICES ASSUME IType, NEW w \in Worker, Lone(w), faults = 0, restarts = 0,
                       pc[w] = "idle", NEW l \in Line
                PROVE  cache[l] = Latest(l)
    BY OnlyWorker DEF ILone, CacheIsNewest
  <2>. DEFINE rs == Of(AllRows(w), l)
  <2>1. rs = RowsOf(l)
    BY DEF AllRows, Of, RowsOf, IType, IPolls, PollOK, NoPoll
  <2>2. Held(w, l, rs) = Wrong(cache[l], rs)
    BY DEF Held, Comparing
  <2>3. /\ Cardinality(Repeats(rs)) \in Nat /\ Wrong(cache[l], rs) \in {0, 1}
        /\ Pending(l) \in {0, 1}
        /\ Cardinality(Repeats(rs)) + Held(w, l, rs) + Pending(l) <= 0
    BY OwedParts DEF Lone, Owed
  <2>4. Wrong(cache[l], rs) = 0
    <3>. HIDE DEF rs
    <3>. QED  BY <2>2, <2>3
  <2>. QED  BY <2>1, <2>4 DEF Wrong, NewestHash, Latest
<1>. QED  BY <1>1, LoneIsInvariant, PTL
===============================================================================
