---------------------------- MODULE ReferenceCache ----------------------------
(* Reference data that TfLService copies from TfL to PostgreSQL and from there   *)
(* to Redis, each kind as one list under one key: metadata (severity codes,      *)
(* disruption categories, stop types), which requests, the administrator's sync  *)
(* and the daily refresh fetch, and the stations, which only the graph build     *)
(* writes and requests list.  A web process warms the cache up when it starts.   *)
EXTENDS SequencesExt

CONSTANTS
    Metadata,      \* sequence of the kinds fetched, in the order of the refresh
    Listed,        \* kinds listed from the database: the stations
    Item,          \* rows, by TfL's identifier
    KindOf,        \* of each item: its kind
    Described,     \* items with a description, which the upsert overwrites
    Worker, Web,   \* sessions that may be at work at once: of tasks, of requests
    Null,
    MaxVersion,    \* bound: descriptions TfL gives an item
    MaxChanges,    \* bound: changes of what TfL serves
    MaxFaults      \* bound: API errors and crashes

Proc == Worker \cup Web
Kind == ToSet(Metadata) \cup Listed
Of(kind) == {i \in Item : KindOf[i] = kind}

ASSUME KindAssumption == KindOf \in [Item -> Kind] /\ ToSet(Metadata) \cap Listed = {}
ASSUME MetadataAssumption == Metadata \in Seq(Kind) /\ Metadata # <<>>
ASSUME DescribedAssumption == Described \subseteq Item
ASSUME CacheBoundAssumption == MaxVersion \in Nat \ {0} /\ {MaxChanges, MaxFaults} \subseteq Nat

VARIABLES
    served,   \* external: of each item the version TfL serves, 0 when it serves none
    stored,   \* committed rows: of each item the version stored, 0 when there is none
    cached,   \* of each kind: the list in Redis, or Null
    proc,     \* of each session: its operation, its step and what it holds
    changes, faults,
    report    \* what the last refresh to end said: "none", "success" or "changes"

cacheVars == <<served, stored, cached, proc, changes, faults, report>>

Rows == [Item -> 0 .. MaxVersion]
NoRows == [i \in Item |-> 0]
Content(rows, kind) == [i \in Of(kind) |-> rows[i]]
Empty(rows, kind) == \A i \in Of(kind) : rows[i] = 0
Free == [op |-> "none", at |-> "idle", todo |-> <<>>, loaded |-> NoRows,
         answer |-> NoRows, result |-> NoRows]

Init ==
    /\ served \in {v \in [Item -> {0, 1}] : \A kind \in Kind : ~Empty(v, kind)}
    /\ stored = NoRows
    /\ cached = [kind \in Kind |-> Null]
    /\ proc = [p \in Proc |-> Free]
    /\ changes = 0 /\ faults = 0 /\ report = "none"

Go(p, session) == proc' = [proc EXCEPT ![p] = session]
Next1(p) == Head(proc[p].todo)      \* the kind in hand

------------------------------------------------------------------------------
(* Metadata *)

\* fetch_severity_codes, fetch_disruption_categories, fetch_stop_types on a cache miss,
\* for a request: a session that has loaded nothing.
Request(p, kind) ==
    /\ proc[p].op = "none" /\ kind \in ToSet(Metadata) /\ cached[kind] = Null
    /\ Go(p, [Free EXCEPT !.op = "request", !.at = "fetch", !.todo = <<kind>>])
    /\ UNCHANGED <<served, stored, cached, changes, faults, report>>

\* refresh_metadata_with_change_detection, to its first fetch: the session loads all
\* metadata and keeps the objects.
Refresh(p) ==
    /\ proc[p].op = "none"
    /\ Go(p, [Free EXCEPT !.op = "refresh", !.at = "fetch", !.todo = Metadata,
                           !.loaded = [i \in Item |-> IF KindOf[i] \in Listed THEN 0 ELSE stored[i]]])
    /\ UNCHANGED <<served, stored, cached, changes, faults, report>>

Fetch(p) ==
    /\ proc[p].at = "fetch"
    /\ Go(p, [proc[p] EXCEPT !.at = "upsert",
                              !.answer = [i \in Item |-> IF KindOf[i] = Next1(p) THEN served[i] ELSE 0]])
    /\ UNCHANGED <<served, stored, cached, changes, faults, report>>

\* Mutant: ON CONFLICT DO NOTHING.
MUpserted(p) == [i \in Item |-> IF stored[i] = 0 THEN proc[p].answer[i] ELSE stored[i]]

\* INSERT ... ON CONFLICT DO UPDATE of what TfL answered, nothing deleted, and commit;
\* then the SELECT, which leaves objects the session holds as they were loaded
\* (expire_on_commit=False, no populate_existing).
Upserted(p) ==
    [i \in Item |-> IF proc[p].answer[i] = 0 THEN stored[i]
                    ELSE IF i \in Described \/ stored[i] = 0 THEN proc[p].answer[i]
                    ELSE stored[i]]

\* Mutant: only the last kind is kept.
MSelected(p) ==
    [i \in Item |-> IF KindOf[i] # Next1(p) THEN 0
                    ELSE IF proc[p].loaded[i] # 0 THEN proc[p].loaded[i]
                    ELSE Upserted(p)[i]]

Selected(p) ==
    [i \in Item |-> IF KindOf[i] # Next1(p) THEN proc[p].result[i]
                    ELSE IF proc[p].loaded[i] # 0 THEN proc[p].loaded[i]
                    ELSE Upserted(p)[i]]

Upsert(p) ==
    /\ proc[p].at = "upsert"
    /\ stored' = Upserted(p)
    /\ Go(p, [proc[p] EXCEPT !.at = "cache", !.answer = NoRows, !.result = Selected(p)])
    /\ UNCHANGED <<served, cached, changes, faults, report>>

\* The list is cached; the refresh goes on to the next kind, a request ends.
Cache(p) ==
    /\ proc[p].at = "cache"
    /\ cached' = [cached EXCEPT ![Next1(p)] = Content(proc[p].result, Next1(p))]
    /\ IF proc[p].op = "refresh"
       THEN Go(p, [proc[p] EXCEPT !.at = IF Len(proc[p].todo) > 1 THEN "fetch" ELSE "compare",
                                  !.todo = Tail(@)])
       ELSE Go(p, Free)
    /\ UNCHANGED <<served, stored, changes, faults, report>>

\* Mutant: the session is not closed.
MCompare(p) ==
    /\ proc[p].at = "compare"
    /\ report' = IF proc[p].loaded # NoRows /\ proc[p].result # proc[p].loaded
                 THEN "changes" ELSE "success"
    /\ Go(p, [proc[p] EXCEPT !.at = "idle"])
    /\ UNCHANGED <<served, stored, cached, changes, faults>>

\* The hashes of each kind before and after; the first population reports nothing.
Compare(p) ==
    /\ proc[p].at = "compare"
    /\ report' = IF proc[p].loaded # NoRows /\ proc[p].result # proc[p].loaded
                 THEN "changes" ELSE "success"
    /\ Go(p, Free)
    /\ UNCHANGED <<served, stored, cached, changes, faults>>

------------------------------------------------------------------------------
(* Stations, and the start of a web process *)

\* build_station_graph commits the stations, then drops the lists.
Build(p, kind) ==
    /\ proc[p].op = "none" /\ kind \in Listed
    /\ stored' = [i \in Item |-> IF KindOf[i] = kind /\ served[i] # 0 THEN served[i]
                                 ELSE stored[i]]
    /\ Go(p, [Free EXCEPT !.op = "build", !.at = "invalidate", !.todo = <<kind>>])
    /\ UNCHANGED <<served, cached, changes, faults, report>>

Invalidate(p) ==
    /\ proc[p].at = "invalidate"
    /\ cached' = [cached EXCEPT ![Next1(p)] = Null]
    /\ Go(p, Free)
    /\ UNCHANGED <<served, stored, changes, faults, report>>

\* fetch_stations of the API on a cache miss; 503 or 404 when there is no row.
List(p, kind) ==
    /\ proc[p].op = "none" /\ kind \in Listed
    /\ cached[kind] = Null /\ ~Empty(stored, kind)
    /\ Go(p, [Free EXCEPT !.op = "request", !.at = "cache", !.todo = <<kind>>, !.result = stored])
    /\ UNCHANGED <<served, stored, cached, changes, faults, report>>

\* warm_up_metadata_cache: all metadata is read, then each list that is not empty cached.
WarmUp(p) ==
    /\ proc[p].op = "none"
    /\ Go(p, [Free EXCEPT !.op = "warm-up", !.at = "warm", !.todo = Metadata, !.result = stored])
    /\ UNCHANGED <<served, stored, cached, changes, faults, report>>

Warm(p) ==
    /\ proc[p].at = "warm"
    /\ cached' = IF Empty(proc[p].result, Next1(p)) THEN cached
                 ELSE [cached EXCEPT ![Next1(p)] = Content(proc[p].result, Next1(p))]
    /\ Go(p, IF Len(proc[p].todo) > 1 THEN [proc[p] EXCEPT !.todo = Tail(@)] ELSE Free)
    /\ UNCHANGED <<served, stored, changes, faults, report>>

------------------------------------------------------------------------------
\* An API error, a lost connection or a crash ends the operation where it stands; what it
\* has committed and cached stays.  The task retries: a new refresh.
Fail(p) ==
    /\ proc[p].op # "none" /\ faults < MaxFaults
    /\ faults' = faults + 1
    /\ Go(p, Free)
    /\ UNCHANGED <<served, stored, cached, changes, report>>

Expire(kind) ==
    /\ cached[kind] # Null
    /\ cached' = [cached EXCEPT ![kind] = Null]
    /\ UNCHANGED <<served, stored, proc, changes, faults, report>>

\* External: TfL adds an item or describes it anew.  It takes none back: a row once
\* stored is never deleted, and the lists keep it.
Change(i) ==
    /\ changes < MaxChanges /\ changes' = changes + 1
    /\ served[i] < IF i \in Described THEN MaxVersion ELSE 1
    /\ served' = [served EXCEPT ![i] = @ + 1]
    /\ UNCHANGED <<stored, cached, proc, faults, report>>

Step(p) == Fetch(p) \/ Upsert(p) \/ Cache(p) \/ Compare(p) \/ Invalidate(p) \/ Warm(p)

Next ==
    \/ \E p \in Proc :
        \/ p \in Worker /\ (Refresh(p) \/ \E kind \in Kind : Build(p, kind))
        \/ p \in Web /\ (WarmUp(p) \/ \E kind \in Kind : Request(p, kind) \/ List(p, kind))
        \/ Step(p) \/ Fail(p)
    \/ \E kind \in Kind : Expire(kind)
    \/ \E i \in Item : Change(i)

Spec == Init /\ [][Next]_cacheVars
\* Beat queues the refresh and the build every day and the worker takes them in turn;
\* entries expire; what is under way goes on.  Requests, restarts and errors may come or not.
FairSpec ==
    /\ Spec
    /\ \A p \in Worker : /\ SF_cacheVars(Refresh(p))
                         /\ \A kind \in Listed : SF_cacheVars(Build(p, kind))
    /\ \A p \in Proc : WF_cacheVars(Step(p))
    /\ \A kind \in Kind : WF_cacheVars(Expire(kind))

------------------------------------------------------------------------------
Lists(kind) == [Of(kind) -> 0 .. MaxVersion]
Session == [op : {"none", "request", "refresh", "build", "warm-up"},
            at : {"idle", "fetch", "upsert", "cache", "compare", "invalidate", "warm"},
            todo : Seq(Kind), loaded : Rows, answer : Rows, result : Rows]

\* Every variable has its type, a free session holds nothing and one at work has its kinds.
TypeOK ==
    /\ served \in Rows /\ stored \in Rows
    /\ \A kind \in Kind : cached[kind] = Null \/ cached[kind] \in Lists(kind)
    /\ \A p \in Proc : /\ proc[p] \in Session
                       /\ proc[p].op = "none" <=> proc[p] = Free
                       /\ proc[p].op # "none" => proc[p].todo # <<>> \/ proc[p].at = "compare"
    /\ changes \in 0 .. MaxChanges /\ faults \in 0 .. MaxFaults
    /\ report \in {"none", "success", "changes"}

\* While TfL has changed nothing, a refresh reports a change only when a kind was empty as it
\* began: requests, restarts, retries and what other sessions write cause no other alarm
\* (refresh_metadata_with_change_detection).  The alarm that is left is a first population
\* that failed half way, or one that a request began.
AlarmsHaveCause ==
    [][\A p \in Proc : (Compare(p) /\ report' = "changes" /\ changes = 0)
          => \E kind \in ToSet(Metadata) : Empty(proc[p].loaded, kind)]_cacheVars

\* Once TfL changes no more and errors have stopped, the rows are TfL's and what Redis holds
\* is what is stored, for good: lists filled from rows read before a commit, or by a session
\* that held old objects, are replaced.
ListsConverge ==
    <>[](\A i \in Item : served[i] # 0 =>
            /\ stored[i] = served[i]
            /\ cached[KindOf[i]] # Null => cached[KindOf[i]][i] = served[i])

\* "Raises MetadataChangeDetectedError if any changes are detected" (tfl_service.py:1205): a
\* refresh that runs to its end and overwrote a description with another reports a change.
ChangesAreReported ==
    [][\A p \in Proc :
          (Compare(p) /\ \E i \in Item : proc[p].loaded[i] \notin {0, stored[i]})
              => report' = "changes"]_cacheVars
==============================================================================
