------------------------- MODULE ReferenceCacheProofs -------------------------
(* Theorems about ReferenceCache, for any kinds, items, sessions and bounds: the *)
(* types, and that a refresh raises no alarm while TfL changes nothing unless it *)
(* began with a kind empty.                                                      *)
EXTENDS ReferenceCache, SequenceTheorems, TLAPS

\* A session at work has a kind in hand, and a free one holds nothing.
SessionOK(s) == /\ s \in Session
                /\ s.op = "none" <=> s = Free
                /\ s.op # "none" => s.todo # <<>> \/ s.at = "compare"

IType == TypeOK /\ DOMAIN cached = Kind /\ proc \in [Proc -> Session]

\* A session moves to another state, which is a session, and the others stay.
Moves(p, s) == /\ proc' \in [Proc -> Session] /\ proc'[p] = s /\ SessionOK(s)
               /\ \A q \in Proc : q # p => proc'[q] = proc[q]

------------------------------------------------------------------------------
(* Types *)

\* The kinds still to do are the one in hand and those after it.
LEMMA TodoParts ==
    ASSUME NEW S, NEW todo \in Seq(S), todo # <<>>
    PROVE  /\ Head(todo) \in S /\ Tail(todo) \in Seq(S)
           /\ Len(todo) > 1 => Tail(todo) # <<>>
           /\ ~(Len(todo) > 1) => Tail(todo) = <<>>
           /\ ToSet(todo) = {Head(todo)} \cup ToSet(Tail(todo))
<1>1. /\ Len(todo) \in Nat /\ Len(todo) >= 1 /\ Head(todo) = todo[1] /\ Head(todo) \in S
      /\ Tail(todo) \in Seq(S) /\ Len(Tail(todo)) = Len(todo) - 1
      /\ \A i \in 1 .. Len(Tail(todo)) : Tail(todo)[i] = todo[i + 1]
  BY HeadTailProperties, EmptySeq, LenProperties
<1>2. Len(todo) > 1 => Tail(todo) # <<>>
  <2> DEFINE rest == Tail(todo)
  <2>1. Len(rest) = Len(todo) - 1
    BY <1>1
  <2> HIDE DEF rest
  <2>2. rest = <<>> => Len(rest) = 0
    OBVIOUS
  <2>3. Len(todo) > 1 => rest # <<>>
    BY <1>1, <2>1, <2>2
  <2> QED  BY <2>3 DEF rest
<1>3. ~(Len(todo) > 1) => Tail(todo) = <<>>
  BY <1>1, EmptySeq
<1>4. DOMAIN todo = 1 .. Len(todo) /\ DOMAIN Tail(todo) = 1 .. Len(Tail(todo))
  BY <1>1, LenProperties
<1>5. ASSUME NEW i \in DOMAIN todo PROVE todo[i] \in {Head(todo)} \cup ToSet(Tail(todo))
  <2>1. CASE i = 1
    BY <1>1, <2>1
  <2>2. CASE i # 1
    <3>1. i - 1 \in 1 .. Len(Tail(todo)) /\ i - 1 + 1 = i
      BY <1>1, <1>4, <2>2
    <3>2. Tail(todo)[i - 1] = todo[i]
      BY <1>1, <3>1
    <3> QED  BY <1>4, <3>1, <3>2 DEF ToSet
  <2> QED  BY <2>1, <2>2
<1>6. ASSUME NEW i \in DOMAIN Tail(todo) PROVE Tail(todo)[i] \in ToSet(todo)
  <2>1. i + 1 \in DOMAIN todo /\ Tail(todo)[i] = todo[i + 1]
    BY <1>1, <1>4
  <2> QED  BY <2>1 DEF ToSet
<1>7. Head(todo) \in ToSet(todo)
  <2>1. 1 \in DOMAIN todo
    BY <1>1, <1>4
  <2> QED  BY <1>1, <2>1 DEF ToSet
<1> QED  BY <1>1, <1>2, <1>3, <1>5, <1>6, <1>7 DEF ToSet

\* One kind is a sequence of kinds.
LEMMA OneKind ==
    ASSUME NEW kind \in Kind
    PROVE  <<kind>> \in Seq(Kind) /\ <<kind>> # <<>> /\ Head(<<kind>>) = kind
OBVIOUS

\* Every kind of metadata is a kind.
LEMMA MetadataIsKind == ToSet(Metadata) \subseteq Kind
BY DEF Kind

\* No version is a version.
LEMMA NoRowsAreRows == NoRows \in Rows
BY CacheBoundAssumption DEF NoRows, Rows

\* A free session holds nothing.
LEMMA FreeIsOK == SessionOK(Free)
<1>1. <<>> \in Seq(Kind)
  OBVIOUS
<1> QED  BY <1>1, NoRowsAreRows DEF Free, SessionOK, Session

\* A session that is replaced by a good one has moved.
LEMMA GoMoves ==
    ASSUME IType, NEW p \in Proc, NEW s, SessionOK(s), Go(p, s)
    PROVE  Moves(p, s)
BY DEF Go, IType, Moves, SessionOK

\* What is known of a session that is at work.
LEMMA AtWork ==
    ASSUME IType, NEW p \in Proc, proc[p].at # "idle"
    PROVE  /\ proc[p] \in Session /\ proc[p].op # "none"
           /\ proc[p].at # "compare" => proc[p].todo \in Seq(Kind) /\ proc[p].todo # <<>>
           /\ proc[p].at # "compare" => Next1(p) \in Kind
<1>1. /\ proc[p] \in Session /\ (proc[p].op = "none" <=> proc[p] = Free)
      /\ proc[p].op # "none" => proc[p].todo # <<>> \/ proc[p].at = "compare"
  BY DEF IType, TypeOK
<1>2. Free.at = "idle"
  BY DEF Free
<1>3. proc[p].op # "none" /\ proc[p].todo \in Seq(Kind)
  BY <1>1, <1>2 DEF Session
<1> QED  BY <1>1, <1>3, TodoParts DEF Next1

\* The lists of rows.
LEMMA ContentIsList == ASSUME NEW rows \in Rows, NEW kind PROVE Content(rows, kind) \in Lists(kind)
BY DEF Content, Lists, Rows, Of

\* A fetch holds what TfL serves of the kind in hand.
LEMMA FetchIs ==
    ASSUME IType, NEW p \in Proc, Fetch(p)
    PROVE  \E t : /\ Moves(p, t) /\ t.op = proc[p].op /\ t.at = "upsert" /\ t.todo = proc[p].todo
                  /\ t.loaded = proc[p].loaded /\ t.result = proc[p].result
                  /\ \A i \in Item : t.answer[i] = IF KindOf[i] = Next1(p) THEN served[i] ELSE 0
<1> DEFINE a == [i \in Item |-> IF KindOf[i] = Next1(p) THEN served[i] ELSE 0]
           t == [proc[p] EXCEPT !.at = "upsert", !.answer = a]
<1>1. /\ proc[p] \in Session /\ proc[p].op # "none" /\ proc[p].todo # <<>>
  BY AtWork DEF Fetch
<1>2. a \in Rows
  BY CacheBoundAssumption DEF IType, TypeOK, Rows
<1>3. \A i \in Item : a[i] = IF KindOf[i] = Next1(p) THEN served[i] ELSE 0
  OBVIOUS
<1>4. Go(p, t)
  BY DEF Fetch
<1> HIDE DEF a
<1>5. /\ t \in Session /\ t.op = proc[p].op /\ t.at = "upsert" /\ t.todo = proc[p].todo
      /\ t.loaded = proc[p].loaded /\ t.result = proc[p].result /\ t.answer = a
  BY <1>1, <1>2 DEF Session
<1> HIDE DEF t
<1>6. SessionOK(t)
  BY <1>1, <1>5 DEF SessionOK, Free
<1>7. Moves(p, t)
  BY <1>4, <1>6, GoMoves
<1> QED  BY <1>3, <1>5, <1>7

\* The upsert writes rows and holds the list it selected.
LEMMA UpsertIs ==
    ASSUME IType, NEW p \in Proc, Upsert(p)
    PROVE  /\ Upserted(p) \in Rows /\ stored' = Upserted(p)
           /\ \E t : /\ Moves(p, t) /\ t.op = proc[p].op /\ t.at = "cache" /\ t.todo = proc[p].todo
                     /\ t.loaded = proc[p].loaded /\ t.result = Selected(p)
<1> DEFINE t == [proc[p] EXCEPT !.at = "cache", !.answer = NoRows, !.result = Selected(p)]
<1>1. /\ proc[p] \in Session /\ proc[p].op # "none" /\ proc[p].todo # <<>>
  BY AtWork DEF Upsert
<1>2. proc[p].answer \in Rows /\ proc[p].loaded \in Rows /\ proc[p].result \in Rows /\ stored \in Rows
  BY <1>1 DEF Session, IType, TypeOK
<1>3. Upserted(p) \in Rows
  BY <1>2 DEF Upserted, Rows
<1>4. Selected(p) \in Rows
  BY <1>2, <1>3 DEF Selected, Rows
<1>5. /\ t \in Session /\ t.op = proc[p].op /\ t.at = "cache" /\ t.todo = proc[p].todo
      /\ t.loaded = proc[p].loaded /\ t.result = Selected(p)
  BY <1>1, <1>4, NoRowsAreRows DEF Session
<1>6. Go(p, t) /\ stored' = Upserted(p)
  BY DEF Upsert
<1> HIDE DEF t
<1>7. SessionOK(t)
  BY <1>1, <1>5 DEF SessionOK, Free
<1>8. Moves(p, t)
  BY <1>6, <1>7, GoMoves
<1> QED  BY <1>3, <1>5, <1>6, <1>8

\* A list is cached, and a refresh has one kind less to do.
LEMMA CacheIs ==
    ASSUME IType, NEW p \in Proc, Cache(p)
    PROVE  /\ cached' = [cached EXCEPT ![Next1(p)] = Content(proc[p].result, Next1(p))]
           /\ Content(proc[p].result, Next1(p)) \in Lists(Next1(p)) /\ Next1(p) \in Kind
           /\ \E t : /\ Moves(p, t)
                     /\ \/ t = Free
                        \/ /\ t.op = "refresh" /\ proc[p].op = "refresh"
                           /\ t.at = IF Len(proc[p].todo) > 1 THEN "fetch" ELSE "compare"
                           /\ t.todo = Tail(proc[p].todo)
                           /\ t.loaded = proc[p].loaded /\ t.result = proc[p].result
<1> DEFINE q == proc[p]
           t == [q EXCEPT !.at = IF Len(q.todo) > 1 THEN "fetch" ELSE "compare", !.todo = Tail(q.todo)]
<1>1. /\ q \in Session /\ q.op # "none" /\ q.todo \in Seq(Kind) /\ q.todo # <<>> /\ Next1(p) \in Kind
  BY AtWork DEF Cache
<1>2. Content(q.result, Next1(p)) \in Lists(Next1(p))
  <2>1. q.result \in Rows
    BY <1>1 DEF Session
  <2> QED  BY <2>1, ContentIsList
<1>3. /\ cached' = [cached EXCEPT ![Next1(p)] = Content(q.result, Next1(p))]
      /\ q.op = "refresh" => Go(p, t)
      /\ q.op # "refresh" => Go(p, Free)
  BY DEF Cache
<1>4. Tail(q.todo) \in Seq(Kind) /\ (Len(q.todo) > 1 => Tail(q.todo) # <<>>)
  BY <1>1, TodoParts
<1>5. CASE q.op # "refresh"
  <2>1. Moves(p, Free)
    BY <1>3, <1>5, FreeIsOK, GoMoves
  <2> QED  BY <1>1, <1>2, <1>3, <2>1
<1>6. CASE q.op = "refresh"
  <2> HIDE DEF q
  <2>1. /\ t \in Session /\ t.op = "refresh" /\ t.todo = Tail(q.todo)
        /\ t.at = IF Len(q.todo) > 1 THEN "fetch" ELSE "compare"
        /\ t.loaded = q.loaded /\ t.result = q.result
    BY <1>1, <1>4, <1>6 DEF Session
  <2> HIDE DEF t
  <2>2. SessionOK(t)
    BY <1>4, <2>1 DEF SessionOK, Free
  <2>3. Moves(p, t)
    BY <1>3, <1>6, <2>2, GoMoves
  <2> QED  BY <1>1, <1>2, <1>3, <1>6, <2>1, <2>3 DEF q
<1> QED  BY <1>5, <1>6

\* The warm-up caches a list that is not empty.
LEMMA WarmIs ==
    ASSUME IType, NEW p \in Proc, Warm(p)
    PROVE  /\ cached' \in {cached, [cached EXCEPT ![Next1(p)] = Content(proc[p].result, Next1(p))]}
           /\ Content(proc[p].result, Next1(p)) \in Lists(Next1(p)) /\ Next1(p) \in Kind
           /\ \E t : Moves(p, t) /\ (t = Free \/ (t.op = proc[p].op /\ t.at = "warm"))
<1> DEFINE q == proc[p]
           t == [q EXCEPT !.todo = Tail(q.todo)]
<1>1. /\ q \in Session /\ q.op # "none" /\ q.todo \in Seq(Kind) /\ q.todo # <<>> /\ Next1(p) \in Kind
      /\ q.at = "warm"
  BY AtWork DEF Warm
<1>2. Content(q.result, Next1(p)) \in Lists(Next1(p))
  <2>1. q.result \in Rows
    BY <1>1 DEF Session
  <2> QED  BY <2>1, ContentIsList
<1>3. /\ cached' \in {cached, [cached EXCEPT ![Next1(p)] = Content(q.result, Next1(p))]}
      /\ Go(p, IF Len(q.todo) > 1 THEN t ELSE Free)
  BY DEF Warm
<1>4. Tail(q.todo) \in Seq(Kind) /\ (Len(q.todo) > 1 => Tail(q.todo) # <<>>)
  BY <1>1, TodoParts
<1>5. CASE ~(Len(q.todo) > 1)
  <2>1. Go(p, Free)
    BY <1>3, <1>5
  <2>2. Moves(p, Free)
    BY <2>1, FreeIsOK, GoMoves
  <2> QED  BY <1>1, <1>2, <1>3, <2>2
<1>6. CASE Len(q.todo) > 1
  <2>1. Go(p, t)
    BY <1>3, <1>6
  <2> HIDE DEF q
  <2>2. t \in Session /\ t.op = q.op /\ t.todo = Tail(q.todo) /\ t.at = "warm"
    BY <1>1, <1>4 DEF Session
  <2> HIDE DEF t
  <2>3. SessionOK(t)
    BY <1>1, <1>4, <1>6, <2>2 DEF SessionOK, Free
  <2>4. Moves(p, t)
    BY <2>1, <2>3, GoMoves
  <2> QED  BY <1>1, <1>2, <1>3, <2>2, <2>4 DEF q
<1> QED  BY <1>5, <1>6

\* The build, a request and the warm-up begin sessions that fetch or cache.
LEMMA StartIs ==
    ASSUME IType, NEW p \in Proc,
           WarmUp(p) \/ \E kind \in Kind : Request(p, kind) \/ List(p, kind) \/ Build(p, kind)
    PROVE  \E t : Moves(p, t) /\ t.op # "refresh" /\ t.at \notin {"upsert", "compare"}
<1> DEFINE Starts(u) == /\ u.op \in {"request", "build", "warm-up"} /\ u.todo # <<>>
                        /\ u.at \in {"fetch", "cache", "invalidate", "warm"}
<1>1. ASSUME NEW s \in Session, Starts(s), Go(p, s)
      PROVE  \E t : Moves(p, t) /\ t.op # "refresh" /\ t.at \notin {"upsert", "compare"}
  <2>1. SessionOK(s)
    BY <1>1 DEF SessionOK, Free
  <2>2. Moves(p, s)
    BY <1>1, <2>1, GoMoves
  <2> QED  BY <1>1, <2>2
<1>2. Free \in Session /\ stored \in Rows
  BY FreeIsOK DEF SessionOK, IType, TypeOK
<1>3. CASE WarmUp(p)
  <2> DEFINE t == [Free EXCEPT !.op = "warm-up", !.at = "warm", !.todo = Metadata, !.result = stored]
  <2>1. Go(p, t)
    BY <1>3 DEF WarmUp
  <2>2. t \in Session /\ Starts(t)
    BY <1>2, MetadataAssumption DEF Session
  <2> HIDE DEF t
  <2> QED  BY <1>1, <2>1, <2>2
<1>4. ASSUME NEW kind \in Kind, List(p, kind)
      PROVE  \E t : Moves(p, t) /\ t.op # "refresh" /\ t.at \notin {"upsert", "compare"}
  <2> DEFINE t == [Free EXCEPT !.op = "request", !.at = "cache", !.todo = <<kind>>, !.result = stored]
  <2>1. Go(p, t)
    BY <1>4 DEF List
  <2>2. t \in Session /\ Starts(t)
    BY <1>2, OneKind DEF Session
  <2> HIDE DEF t
  <2> QED  BY <1>1, <2>1, <2>2
<1>5. ASSUME NEW kind \in Kind, Request(p, kind)
      PROVE  \E t : Moves(p, t) /\ t.op # "refresh" /\ t.at \notin {"upsert", "compare"}
  <2> DEFINE t == [Free EXCEPT !.op = "request", !.at = "fetch", !.todo = <<kind>>]
  <2>1. Go(p, t)
    BY <1>5 DEF Request
  <2>2. t \in Session /\ Starts(t)
    BY <1>2, OneKind DEF Session
  <2> HIDE DEF t
  <2> QED  BY <1>1, <2>1, <2>2
<1>6. ASSUME NEW kind \in Kind, Build(p, kind)
      PROVE  \E t : Moves(p, t) /\ t.op # "refresh" /\ t.at \notin {"upsert", "compare"}
  <2> DEFINE t == [Free EXCEPT !.op = "build", !.at = "invalidate", !.todo = <<kind>>]
  <2>1. Go(p, t)
    BY <1>6 DEF Build
  <2>2. t \in Session /\ Starts(t)
    BY <1>2, OneKind DEF Session
  <2> HIDE DEF t
  <2> QED  BY <1>1, <2>1, <2>2
<1> QED  BY <1>3, <1>4, <1>5, <1>6

\* A refresh begins with the metadata that is stored, and all kinds to do.
LEMMA RefreshIs ==
    ASSUME IType, NEW p \in Proc, Refresh(p)
    PROVE  \E t : /\ Moves(p, t) /\ t.op = "refresh" /\ t.at = "fetch" /\ t.todo = Metadata
                  /\ t.result = NoRows
                  /\ \A i \in Item : t.loaded[i] = IF KindOf[i] \in Listed THEN 0 ELSE stored[i]
<1> DEFINE l == [i \in Item |-> IF KindOf[i] \in Listed THEN 0 ELSE stored[i]]
           t == [Free EXCEPT !.op = "refresh", !.at = "fetch", !.todo = Metadata, !.loaded = l]
<1>1. l \in Rows
  BY CacheBoundAssumption DEF IType, TypeOK, Rows
<1>2. \A i \in Item : l[i] = IF KindOf[i] \in Listed THEN 0 ELSE stored[i]
  OBVIOUS
<1>3. Go(p, t)
  BY DEF Refresh
<1> HIDE DEF l
<1>4. /\ t \in Session /\ t.op = "refresh" /\ t.at = "fetch" /\ t.todo = Metadata
      /\ t.result = NoRows /\ t.loaded = l
  BY <1>1, NoRowsAreRows, MetadataAssumption DEF Free, Session
<1> HIDE DEF t
<1>5. SessionOK(t)
  BY <1>4, MetadataAssumption DEF SessionOK, Free
<1>6. Moves(p, t)
  BY <1>3, <1>5, GoMoves
<1> QED  BY <1>2, <1>4, <1>6

\* A step of a session keeps the types if what it writes is typed.
LEMMA MoveIsTyped ==
    ASSUME IType, NEW p \in Proc, NEW t, Moves(p, t), stored' \in Rows,
           DOMAIN cached' = Kind /\ \A kind \in Kind : cached'[kind] = Null \/ cached'[kind] \in Lists(kind),
           UNCHANGED <<served, changes>>, faults' \in 0 .. MaxFaults,
           report' \in {"none", "success", "changes"}
    PROVE  IType'
<1>1. \A q \in Proc : SessionOK(proc'[q])
  <2>1. \A q \in Proc : SessionOK(proc[q])
    BY DEF IType, TypeOK, SessionOK
  <2> QED  BY <2>1 DEF Moves
<1>2. served' \in Rows /\ changes' \in 0 .. MaxChanges
  BY DEF IType, TypeOK
<1> QED  BY <1>1, <1>2 DEF IType, TypeOK, SessionOK, Moves

\* A list written under its key is typed.
LEMMA WriteIsTyped ==
    ASSUME IType, NEW kind \in Kind, NEW list, list = Null \/ list \in Lists(kind),
           cached' = [cached EXCEPT ![kind] = list]
    PROVE  DOMAIN cached' = Kind /\ \A k \in Kind : cached'[k] = Null \/ cached'[k] \in Lists(k)
<1>1. DOMAIN cached = Kind /\ \A k \in Kind : cached[k] = Null \/ cached[k] \in Lists(k)
  BY DEF IType, TypeOK
<1>2. cached'[kind] = list /\ \A k \in Kind : k # kind => cached'[k] = cached[k]
  BY <1>1
<1>3. DOMAIN cached' = Kind
  BY <1>1
<1> QED  BY <1>1, <1>2, <1>3

\* Every step keeps the types.
LEMMA NextType == IType /\ [Next]_cacheVars => IType'
<1> SUFFICES ASSUME IType, [Next]_cacheVars PROVE IType'
  OBVIOUS
<1>1. /\ DOMAIN cached = Kind /\ \A k \in Kind : cached[k] = Null \/ cached[k] \in Lists(k)
      /\ stored \in Rows /\ served \in Rows /\ faults \in 0 .. MaxFaults
      /\ changes \in 0 .. MaxChanges /\ report \in {"none", "success", "changes"}
      /\ MaxChanges \in Nat /\ MaxFaults \in Nat
  BY CacheBoundAssumption DEF IType, TypeOK
<1>2. CASE UNCHANGED cacheVars
  BY <1>2 DEF cacheVars, IType, TypeOK
<1>3. ASSUME NEW p \in Proc, Refresh(p) PROVE IType'
  BY <1>1, <1>3, RefreshIs, MoveIsTyped DEF Refresh
<1>4. ASSUME NEW p \in Proc, NEW kind \in Kind, Build(p, kind) PROVE IType'
  <2>1. stored' \in Rows
    BY <1>1, <1>4 DEF Build, Rows
  <2> QED  BY <1>1, <1>4, <2>1, StartIs, MoveIsTyped DEF Build
<1>5. ASSUME NEW p \in Proc, WarmUp(p) \/ \E kind \in Kind : Request(p, kind) \/ List(p, kind)
      PROVE  IType'
  <2>1. UNCHANGED <<served, stored, cached, changes, faults, report>>
    BY <1>5 DEF WarmUp, Request, List
  <2> QED  BY <1>1, <1>5, <2>1, StartIs, MoveIsTyped
<1>6. ASSUME NEW p \in Proc, Step(p) \/ Fail(p) PROVE IType'
  <2>1. CASE Fetch(p)
    BY <1>1, <2>1, FetchIs, MoveIsTyped DEF Fetch
  <2>2. CASE Upsert(p)
    BY <1>1, <2>2, UpsertIs, MoveIsTyped DEF Upsert
  <2>3. CASE Cache(p)
    <3>1. UNCHANGED <<served, stored, changes, faults, report>>
      BY <2>3 DEF Cache
    <3>2. DOMAIN cached' = Kind /\ \A k \in Kind : cached'[k] = Null \/ cached'[k] \in Lists(k)
      BY <2>3, CacheIs, WriteIsTyped
    <3> QED  BY <1>1, <2>3, <3>1, <3>2, CacheIs, MoveIsTyped
  <2>4. CASE Warm(p)
    <3>1. UNCHANGED <<served, stored, changes, faults, report>>
      BY <2>4 DEF Warm
    <3>2. DOMAIN cached' = Kind /\ \A k \in Kind : cached'[k] = Null \/ cached'[k] \in Lists(k)
      BY <1>1, <2>4, WarmIs, WriteIsTyped
    <3> QED  BY <1>1, <2>4, <3>1, <3>2, WarmIs, MoveIsTyped
  <2>5. CASE Compare(p)
    BY <1>1, <2>5, FreeIsOK, GoMoves, MoveIsTyped DEF Compare
  <2>6. CASE Invalidate(p)
    <3>1. /\ UNCHANGED <<served, stored, changes, faults, report>> /\ Go(p, Free)
          /\ cached' = [cached EXCEPT ![Next1(p)] = Null] /\ proc[p].at = "invalidate"
      BY <2>6 DEF Invalidate
    <3>2. Next1(p) \in Kind
      BY <3>1, AtWork
    <3>3. DOMAIN cached' = Kind /\ \A k \in Kind : cached'[k] = Null \/ cached'[k] \in Lists(k)
      BY <3>1, <3>2, WriteIsTyped
    <3> QED  BY <1>1, <3>1, <3>3, FreeIsOK, GoMoves, MoveIsTyped
  <2>7. CASE Fail(p)
    <3>1. /\ UNCHANGED <<served, stored, cached, changes, report>> /\ Go(p, Free)
          /\ faults' = faults + 1 /\ faults < MaxFaults
      BY <2>7 DEF Fail
    <3>2. faults' \in 0 .. MaxFaults
      BY <1>1, <3>1
    <3> QED  BY <1>1, <3>1, <3>2, FreeIsOK, GoMoves, MoveIsTyped
  <2> QED  BY <1>6, <2>1, <2>2, <2>3, <2>4, <2>5, <2>6, <2>7 DEF Step
<1>7. ASSUME NEW kind \in Kind, Expire(kind) PROVE IType'
  <2>1. UNCHANGED <<served, stored, proc, changes, faults, report>>
    BY <1>7 DEF Expire
  <2>2. DOMAIN cached' = Kind /\ \A k \in Kind : cached'[k] = Null \/ cached'[k] \in Lists(k)
    BY <1>7, WriteIsTyped DEF Expire
  <2> QED  BY <2>1, <2>2 DEF IType, TypeOK
<1>8. ASSUME NEW i \in Item, Change(i) PROVE IType'
  <2>1. /\ UNCHANGED <<stored, cached, proc, faults, report>> /\ changes < MaxChanges
        /\ changes' = changes + 1 /\ served' = [served EXCEPT ![i] = @ + 1]
        /\ served[i] < IF i \in Described THEN MaxVersion ELSE 1
    BY <1>8 DEF Change
  <2>2. served[i] \in 0 .. MaxVersion /\ served[i] < MaxVersion
    BY <1>1, <2>1, CacheBoundAssumption DEF Rows
  <2>3. served' \in Rows /\ changes' \in 0 .. MaxChanges
    <3>1. served[i] + 1 \in 0 .. MaxVersion
      BY <2>2, CacheBoundAssumption
    <3>2. served' \in Rows
      BY <1>1, <2>1, <3>1 DEF Rows
    <3> QED  BY <1>1, <2>1, <3>2
  <2> QED  BY <2>1, <2>3 DEF IType, TypeOK
<1> QED  BY <1>2, <1>3, <1>4, <1>5, <1>6, <1>7, <1>8 DEF Next

\* They hold at first.
LEMMA InitType == Init => IType
<1> SUFFICES ASSUME Init PROVE IType
  OBVIOUS
<1>1. served \in Rows
  BY CacheBoundAssumption DEF Init, Rows
<1>2. DOMAIN cached = Kind /\ \A k \in Kind : cached[k] = Null
  BY DEF Init
<1>3. proc \in [Proc -> Session] /\ \A p \in Proc : proc[p] = Free
  BY FreeIsOK DEF Init, SessionOK
<1>4. \A p \in Proc : SessionOK(proc[p])
  BY <1>3, FreeIsOK
<1>5. changes \in 0 .. MaxChanges /\ faults \in 0 .. MaxFaults
  BY CacheBoundAssumption DEF Init
<1> QED  BY <1>1, <1>2, <1>3, <1>4, <1>5, NoRowsAreRows DEF Init, IType, TypeOK, SessionOK

\* Rows, lists and sessions keep their types: a session at work has a kind in hand, and
\* one that ended holds nothing, however sessions overlap and fail.
THEOREM CacheTypes == Spec => []TypeOK
<1>1. IType => TypeOK
  BY DEF IType
<1> QED  BY <1>1, InitType, NextType, PTL DEF Spec

------------------------------------------------------------------------------
(* While TfL changes nothing *)

\* The rows of a kind are those TfL serves, or there are none.
Same(rows, kind) == \A i \in Of(kind) : rows[i] = served[i]
AllOrNone(rows, kind) == Empty(rows, kind) \/ Same(rows, kind)

\* What a session holds: what it fetched; what a refresh loaded as it began; and of
\* every kind a refresh has done, what TfL serves.
Quiet(s) ==
    /\ s.at = "upsert" =>
          \A i \in Item : s.answer[i] = IF KindOf[i] = Head(s.todo) THEN served[i] ELSE 0
    /\ s.op = "refresh" =>
          /\ s.at \in {"fetch", "upsert", "cache", "compare"}
          /\ ToSet(s.todo) \subseteq ToSet(Metadata)
          /\ \A i \in Item : KindOf[i] \in Listed => s.loaded[i] = 0 /\ s.result[i] = 0
          /\ \A kind \in ToSet(Metadata) : AllOrNone(s.loaded, kind)
          /\ \A kind \in ToSet(Metadata) \ ToSet(s.todo) : Same(s.result, kind)
          /\ (s.at = "cache" => Same(s.result, Head(s.todo)))
    /\ s.at = "compare" => s.op = "refresh" /\ s.todo = <<>>

Calm == /\ \A kind \in Kind : AllOrNone(stored, kind)
        /\ \A p \in Proc : Quiet(proc[p])
IInv == IType /\ (changes = 0 => Calm)

\* A row is stored as it is served, or not at all.
LEMMA StoredIsServed ==
    ASSUME Calm, NEW i \in Item
    PROVE  KindOf[i] \in Kind /\ stored[i] \in {0, served[i]}
<1>1. KindOf[i] \in Kind /\ i \in Of(KindOf[i])
  BY KindAssumption DEF Of
<1> QED  BY <1>1 DEF Calm, AllOrNone, Empty, Same

\* A step of a session that leaves the rows alone keeps the calm.
LEMMA MoveIsCalm ==
    ASSUME Calm, NEW p \in Proc, NEW t, Moves(p, t), Quiet(t), UNCHANGED served,
           \A kind \in Kind : AllOrNone(stored', kind)
    PROVE  Calm'
<1>1. \A kind \in Kind : AllOrNone(stored, kind)'
  BY DEF AllOrNone, Same, Empty
<1>2. ASSUME NEW q \in Proc PROVE Quiet(proc[q])'
  <2>1. CASE q = p
    <3>1. proc'[q] = t
      BY <2>1 DEF Moves
    <3> QED  BY <3>1 DEF Quiet, AllOrNone, Same
  <2>2. CASE q # p
    <3>1. proc'[q] = proc[q] /\ Quiet(proc[q])
      BY <2>2 DEF Moves, Calm
    <3> QED  BY <3>1 DEF Quiet, AllOrNone, Same
  <2> QED  BY <2>1, <2>2
<1> QED  BY <1>1, <1>2 DEF Calm

\* What the upsert leaves of the kind in hand is what TfL serves; the rest stays.
LEMMA UpsertedIsServed ==
    ASSUME IType, Calm, NEW p \in Proc, proc[p].at = "upsert", NEW i \in Item
    PROVE  Upserted(p)[i] = IF KindOf[i] = Next1(p) THEN served[i] ELSE stored[i]
<1>1. stored[i] \in {0, served[i]}
  BY StoredIsServed
<1>2. proc[p].answer[i] = IF KindOf[i] = Next1(p) THEN served[i] ELSE 0
  BY DEF Calm, Quiet, Next1
<1>3. Upserted(p)[i] = IF proc[p].answer[i] = 0 THEN stored[i]
                       ELSE IF i \in Described \/ stored[i] = 0 THEN proc[p].answer[i]
                       ELSE stored[i]
  BY DEF Upserted
<1> QED  BY <1>1, <1>2, <1>3

\* An upsert keeps the calm.
LEMMA UpsertIsCalm ==
    ASSUME IType, Calm, NEW p \in Proc, Upsert(p)
    PROVE  Calm'
<1> DEFINE q == proc[p]
<1>1. /\ q.at = "upsert" /\ Quiet(q) /\ UNCHANGED served /\ stored' = Upserted(p)
      /\ q.todo \in Seq(Kind) /\ q.todo # <<>> /\ Next1(p) \in Kind
  BY AtWork DEF Upsert, Calm
<1>2. PICK t : /\ Moves(p, t) /\ t.op = q.op /\ t.at = "cache" /\ t.todo = q.todo
               /\ t.loaded = q.loaded /\ t.result = Selected(p)
  BY UpsertIs
<1>3. ASSUME NEW kind \in Kind PROVE AllOrNone(stored', kind)
  <2>1. AllOrNone(stored, kind)
    BY DEF Calm
  <2>2. \A i \in Of(kind) : i \in Item /\ KindOf[i] = kind
    BY DEF Of
  <2>3. CASE kind = Next1(p)
    BY <1>1, <2>2, <2>3, UpsertedIsServed DEF AllOrNone, Same
  <2>4. CASE kind # Next1(p)
    BY <1>1, <2>1, <2>2, <2>4, UpsertedIsServed DEF AllOrNone, Same, Empty
  <2> QED  BY <2>3, <2>4
<1>4. ASSUME q.op = "refresh" PROVE Quiet(t)
  <2>1. Next1(p) \in ToSet(q.todo) /\ Next1(p) \in ToSet(Metadata) /\ Next1(p) \notin Listed
    BY <1>1, <1>4, TodoParts, KindAssumption DEF Next1, Quiet
  <2>2. \A i \in Item : Selected(p)[i] = IF KindOf[i] # Next1(p) THEN q.result[i]
                                         ELSE IF q.loaded[i] # 0 THEN q.loaded[i]
                                         ELSE Upserted(p)[i]
    BY DEF Selected
  <2>3. Same(Selected(p), Next1(p))
    <3> SUFFICES ASSUME NEW i \in Of(Next1(p)) PROVE Selected(p)[i] = served[i]
      BY DEF Same
    <3>1. i \in Item /\ KindOf[i] = Next1(p)
      BY DEF Of
    <3>2. q.loaded[i] \in {0, served[i]}
      BY <1>1, <1>4, <2>1 DEF Quiet, AllOrNone, Empty, Same
    <3>3. Upserted(p)[i] = served[i]
      BY <1>1, <3>1, UpsertedIsServed
    <3> QED  BY <2>2, <3>1, <3>2, <3>3
  <2>4. ASSUME NEW kind \in ToSet(Metadata) \ ToSet(q.todo) PROVE Same(Selected(p), kind)
    <3>1. Same(q.result, kind) /\ kind # Next1(p)
      BY <1>1, <1>4, <2>1 DEF Quiet
    <3>2. \A i \in Of(kind) : i \in Item /\ KindOf[i] = kind
      BY DEF Of
    <3> QED  BY <2>2, <3>1, <3>2 DEF Same
  <2>5. \A i \in Item : KindOf[i] \in Listed => Selected(p)[i] = 0
    BY <1>1, <1>4, <2>1, <2>2 DEF Quiet
  <2>6. /\ ToSet(t.todo) \subseteq ToSet(Metadata)
        /\ \A i \in Item : KindOf[i] \in Listed => t.loaded[i] = 0 /\ t.result[i] = 0
        /\ \A kind \in ToSet(Metadata) : AllOrNone(t.loaded, kind)
    BY <1>1, <1>2, <1>4, <2>5 DEF Quiet
  <2>7. /\ \A kind \in ToSet(Metadata) \ ToSet(t.todo) : Same(t.result, kind)
        /\ Same(t.result, Head(t.todo))
    BY <1>2, <2>3, <2>4 DEF Next1
  <2> QED  BY <1>2, <2>6, <2>7 DEF Quiet
<1>5. Quiet(t)
  <2>1. CASE q.op # "refresh"
    BY <1>2, <2>1 DEF Quiet
  <2> QED  BY <1>4, <2>1
<1> QED  BY <1>1, <1>2, <1>3, <1>5, MoveIsCalm

\* So does the next kind of a refresh.
LEMMA CacheIsCalm ==
    ASSUME IType, Calm, NEW p \in Proc, Cache(p)
    PROVE  Calm'
<1> DEFINE q == proc[p]
<1>1. /\ q.at = "cache" /\ Quiet(q) /\ UNCHANGED <<served, stored>>
      /\ q.todo \in Seq(Kind) /\ q.todo # <<>>
      /\ \A kind \in Kind : AllOrNone(stored, kind)
  BY AtWork DEF Cache, Calm
<1>2. PICK t : /\ Moves(p, t)
               /\ \/ t = Free
                  \/ /\ t.op = "refresh" /\ q.op = "refresh"
                     /\ t.at = IF Len(q.todo) > 1 THEN "fetch" ELSE "compare"
                     /\ t.todo = Tail(q.todo)
                     /\ t.loaded = q.loaded /\ t.result = q.result
  BY CacheIs
<1>3. CASE t = Free
  BY <1>1, <1>2, <1>3, MoveIsCalm DEF Quiet, Free
<1>4. ASSUME t # Free PROVE Quiet(t)
  <2>1. /\ ToSet(q.todo) = {Head(q.todo)} \cup ToSet(Tail(q.todo))
        /\ ~(Len(q.todo) > 1) => Tail(q.todo) = <<>>
    BY <1>1, TodoParts
  <2>2. ToSet(t.todo) \subseteq ToSet(Metadata)
    BY <1>1, <1>2, <1>4, <2>1 DEF Quiet
  <2>3. \A kind \in ToSet(Metadata) \ ToSet(t.todo) : Same(t.result, kind)
    BY <1>1, <1>2, <1>4, <2>1 DEF Quiet
  <2>4. /\ \A i \in Item : KindOf[i] \in Listed => t.loaded[i] = 0 /\ t.result[i] = 0
        /\ \A kind \in ToSet(Metadata) : AllOrNone(t.loaded, kind)
    BY <1>1, <1>2, <1>4 DEF Quiet
  <2>5. /\ t.op = "refresh" /\ t.at \in {"fetch", "compare"}
        /\ (t.at = "compare" => t.todo = <<>>)
    BY <1>2, <1>4, <2>1
  <2> QED  BY <2>2, <2>3, <2>4, <2>5 DEF Quiet
<1> QED  BY <1>1, <1>2, <1>3, <1>4, MoveIsCalm

\* A build writes what TfL serves.
LEMMA BuildIsCalm ==
    ASSUME IType, Calm, NEW p \in Proc, NEW kind \in Kind, Build(p, kind)
    PROVE  Calm'
<1>1. /\ \A i \in Item : stored'[i] = IF KindOf[i] = kind /\ served[i] # 0 THEN served[i] ELSE stored[i]
      /\ UNCHANGED served
  BY DEF Build
<1>2. ASSUME NEW k \in Kind PROVE AllOrNone(stored', k)
  <2>1. AllOrNone(stored, k) /\ \A i \in Of(k) : i \in Item /\ KindOf[i] = k
    BY DEF Calm, Of
  <2>2. CASE k = kind
    BY <1>1, <2>1, <2>2, StoredIsServed DEF AllOrNone, Same
  <2>3. CASE k # kind
    BY <1>1, <2>1, <2>3 DEF AllOrNone, Same, Empty
  <2> QED  BY <2>2, <2>3
<1>3. PICK t : Moves(p, t) /\ t.op # "refresh" /\ t.at \notin {"upsert", "compare"}
  BY StartIs
<1>4. Quiet(t)
  BY <1>3 DEF Quiet
<1> QED  BY <1>1, <1>2, <1>3, <1>4, MoveIsCalm

\* A refresh begins with all or none of each kind.
LEMMA RefreshIsCalm ==
    ASSUME IType, Calm, NEW p \in Proc, Refresh(p)
    PROVE  Calm'
<1>1. UNCHANGED <<served, stored>> /\ \A kind \in Kind : AllOrNone(stored, kind)
  BY DEF Refresh, Calm
<1>2. PICK t : /\ Moves(p, t) /\ t.op = "refresh" /\ t.at = "fetch" /\ t.todo = Metadata
               /\ t.result = NoRows
               /\ \A i \in Item : t.loaded[i] = IF KindOf[i] \in Listed THEN 0 ELSE stored[i]
  BY RefreshIs
<1>3. ASSUME NEW kind \in ToSet(Metadata) PROVE AllOrNone(t.loaded, kind)
  <2>1. kind \notin Listed /\ AllOrNone(stored, kind) /\ \A i \in Of(kind) : i \in Item /\ KindOf[i] = kind
    BY <1>1, KindAssumption, MetadataIsKind DEF Of
  <2>2. \A i \in Of(kind) : t.loaded[i] = stored[i]
    BY <1>2, <2>1
  <2> QED  BY <2>1, <2>2 DEF AllOrNone, Same, Empty
<1>4. \A i \in Item : KindOf[i] \in Listed => t.loaded[i] = 0 /\ t.result[i] = 0
  BY <1>2 DEF NoRows
<1>5. Quiet(t)
  BY <1>2, <1>3, <1>4 DEF Quiet
<1> QED  BY <1>1, <1>2, <1>5, MoveIsCalm

\* Every step keeps the invariant.
LEMMA NextInv == IInv /\ [Next]_cacheVars => IInv'
<1> SUFFICES ASSUME IType, changes = 0 => Calm, [Next]_cacheVars, changes' = 0
             PROVE  Calm'
  BY NextType DEF IInv
<1>1. CASE UNCHANGED cacheVars
  <2>1. changes = 0 /\ Calm /\ UNCHANGED <<served, stored, proc>>
    BY <1>1 DEF cacheVars
  <2> QED  BY <2>1 DEF Calm, AllOrNone, Same, Empty, Quiet
<1>2. ASSUME NEW i \in Item, Change(i) PROVE Calm'
  BY <1>2, CacheBoundAssumption DEF Change, IType, TypeOK
<1>3. ASSUME NEW kind \in Kind, Expire(kind) PROVE Calm'
  <2>1. changes = 0 /\ Calm /\ UNCHANGED <<served, stored, proc>>
    BY <1>3 DEF Expire
  <2> QED  BY <2>1 DEF Calm, AllOrNone, Same, Empty, Quiet
<1>4. ASSUME NEW p \in Proc, Refresh(p) \/ \E kind \in Kind : Build(p, kind) PROVE Calm'
  <2>1. changes = 0 /\ Calm
    BY <1>4 DEF Refresh, Build
  <2> QED  BY <1>4, <2>1, RefreshIsCalm, BuildIsCalm
<1>5. ASSUME NEW p \in Proc, NEW t, Moves(p, t), Quiet(t), UNCHANGED <<served, stored, changes>>
      PROVE  Calm'
  <2>1. Calm /\ \A kind \in Kind : AllOrNone(stored', kind)
    BY <1>5 DEF Calm
  <2> QED  BY <1>5, <2>1, MoveIsCalm
<1>6. ASSUME NEW p \in Proc, WarmUp(p) \/ \E kind \in Kind : Request(p, kind) \/ List(p, kind)
      PROVE  Calm'
  <2>1. UNCHANGED <<served, stored, changes>>
    BY <1>6 DEF WarmUp, Request, List
  <2>2. PICK t : Moves(p, t) /\ t.op # "refresh" /\ t.at \notin {"upsert", "compare"}
    BY <1>6, StartIs
  <2>3. Quiet(t)
    BY <2>2 DEF Quiet
  <2> QED  BY <1>5, <2>1, <2>2, <2>3
<1>7. ASSUME NEW p \in Proc, Step(p) \/ Fail(p) PROVE Calm'
  <2>0. changes = 0 /\ Calm /\ Quiet(proc[p]) /\ Quiet(Free)
    <3>1. changes' = changes
      BY <1>7 DEF Step, Fail, Fetch, Upsert, Cache, Compare, Invalidate, Warm
    <3> QED  BY <3>1 DEF Calm, Quiet, Free
  <2>1. CASE Fetch(p)
    <3>1. PICK t : /\ Moves(p, t) /\ t.op = proc[p].op /\ t.at = "upsert" /\ t.todo = proc[p].todo
                   /\ t.loaded = proc[p].loaded /\ t.result = proc[p].result
                   /\ \A i \in Item : t.answer[i] = IF KindOf[i] = Next1(p) THEN served[i] ELSE 0
      BY <2>1, FetchIs
    <3>2. proc[p].at = "fetch" /\ UNCHANGED <<served, stored, changes>>
      BY <2>1 DEF Fetch
    <3>3. Quiet(t)
      BY <2>0, <3>1, <3>2 DEF Quiet, Next1
    <3> QED  BY <1>5, <3>1, <3>2, <3>3
  <2>2. CASE Upsert(p)
    BY <2>0, <2>2, UpsertIsCalm
  <2>3. CASE Cache(p)
    BY <2>0, <2>3, CacheIsCalm
  <2>4. CASE Warm(p)
    <3>1. PICK t : Moves(p, t) /\ (t = Free \/ (t.op = proc[p].op /\ t.at = "warm"))
      BY <2>4, WarmIs
    <3>2. proc[p].at = "warm" /\ UNCHANGED <<served, stored, changes>>
      BY <2>4 DEF Warm
    <3>3. proc[p].op # "refresh"
      BY <2>0, <3>2 DEF Quiet
    <3>4. Quiet(t)
      BY <2>0, <3>1, <3>3 DEF Quiet
    <3> QED  BY <1>5, <3>1, <3>2, <3>4
  <2>5. CASE Compare(p) \/ Invalidate(p) \/ Fail(p)
    <3>1. UNCHANGED <<served, stored, changes>> /\ Go(p, Free)
      BY <2>5 DEF Compare, Invalidate, Fail
    <3>2. Moves(p, Free)
      BY <3>1, FreeIsOK, GoMoves
    <3> QED  BY <1>5, <2>0, <3>1, <3>2
  <2> QED  BY <1>7, <2>1, <2>2, <2>3, <2>4, <2>5 DEF Step
<1> QED  BY <1>1, <1>2, <1>3, <1>4, <1>6, <1>7 DEF Next

\* Nothing is stored at first.
LEMMA InitInv == Init => IInv
<1> SUFFICES ASSUME Init PROVE Calm
  BY InitType DEF IInv
<1>1. \A kind \in Kind : Empty(stored, kind)
  BY DEF Init, Empty, NoRows, Of
<1>2. Quiet(Free)
  BY DEF Quiet, Free
<1> QED  BY <1>1, <1>2 DEF Calm, AllOrNone, Init

\* A refresh that runs to its end began with a kind empty, or ends with what it began with.
LEMMA CompareIsQuiet ==
    ASSUME IInv, NEW p \in Proc, Compare(p), report' = "changes", changes = 0
    PROVE  \E kind \in ToSet(Metadata) : Empty(proc[p].loaded, kind)
<1> SUFFICES ASSUME \A kind \in ToSet(Metadata) : ~Empty(proc[p].loaded, kind) PROVE FALSE
  OBVIOUS
<1> DEFINE q == proc[p]
<1>1. /\ q \in Session /\ q.at = "compare" /\ Quiet(q) /\ q.result # q.loaded
  BY DEF Compare, IInv, Calm, IType
<1>2. q.op = "refresh" /\ ToSet(q.todo) = {}
  <2>1. q.op = "refresh" /\ q.todo = <<>>
    BY <1>1 DEF Quiet
  <2> QED  BY <2>1 DEF ToSet
<1>3. ASSUME NEW i \in Item PROVE q.result[i] = q.loaded[i]
  <2>1. i \in Of(KindOf[i]) /\ KindOf[i] \in ToSet(Metadata) \cup Listed
    BY KindAssumption DEF Of, Kind
  <2>2. CASE KindOf[i] \in Listed
    BY <1>1, <1>2, <2>2 DEF Quiet
  <2>3. CASE KindOf[i] \in ToSet(Metadata)
    <3>1. Same(q.loaded, KindOf[i]) /\ Same(q.result, KindOf[i])
      BY <1>1, <1>2, <2>3 DEF Quiet, AllOrNone
    <3> QED  BY <2>1, <3>1 DEF Same
  <2> QED  BY <2>1, <2>2, <2>3
<1>4. q.result \in [Item -> 0 .. MaxVersion] /\ q.loaded \in [Item -> 0 .. MaxVersion]
  BY <1>1 DEF Session, Rows
<1>5. q.result = q.loaded
  <2> HIDE DEF q
  <2> QED  BY <1>3, <1>4
<1> QED  BY <1>1, <1>5

\* While TfL changes nothing, whatever requests, warm-ups, builds and failures overlap with
\* it, a refresh raises an alarm only if a kind was empty when it began.
THEOREM QuietWithoutCause == Spec => AlarmsHaveCause
<1>1. IInv /\ [Next]_cacheVars =>
        [\A p \in Proc : (Compare(p) /\ report' = "changes" /\ changes = 0)
           => \E kind \in ToSet(Metadata) : Empty(proc[p].loaded, kind)]_cacheVars
  BY CompareIsQuiet
<1> QED  BY <1>1, InitInv, NextInv, PTL DEF Spec, AlarmsHaveCause
===============================================================================
