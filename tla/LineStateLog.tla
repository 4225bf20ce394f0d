----------------------------- MODULE LineStateLog -----------------------------
(* The log of line states: every poll compares what TfL reports of each line   *)
(* with the hash in Redis (line_state:{line}), adds rows for the lines that    *)
(* differ, writes Redis, and commits the rows at the end.  The web process     *)
(* hydrates Redis from the rows when it starts.                                *)
EXTENDS Integers, FiniteSetsExt

CONSTANTS
    Line,
    State,        \* aggregate states of a line (create_line_aggregate_hash)
    None,         \* no hash in Redis, no row, the line not in TfL's answer
    Worker,
    MaxChanges,   \* bound: changes of what TfL reports
    MaxFaults,    \* bound: failed commits, Redis errors and crashes
    MaxRestarts   \* bound: starts of the web process

ASSUME NoneAssumption == None \notin State
ASSUME WorkerAssumption == IsFiniteSet(Worker)     \* --concurrency=2
ASSUME BoundAssumption == {MaxChanges, MaxFaults, MaxRestarts} \subseteq Nat

VARIABLES
    report,    \* what TfL says of each line
    cache,     \* Redis: the last known hash of each line
    rows,      \* committed LineDisruptionStateLog rows, one per line and poll
    pc, poll,  \* the workers: next step and locals
    warm,      \* the web process: lines to hydrate and the hashes it read
    changes, faults, restarts

worker == <<pc, poll>>
bounds == <<changes, faults, restarts>>
vars == <<report, cache, rows, pc, poll, warm, changes, faults, restarts>>

Row == [line : Line, hash : State, at : Nat]
RowsOf(l) == {r \in rows : r.line = l}

\* The most recent row of a line by detected_at, as warm_up_line_state_cache
\* selects it; detected_at is the time the poll began.
Newest(rs) == CHOOSE r \in rs : \A s \in rs : s.at <= r.at
Latest(l) == IF RowsOf(l) = {} THEN None ELSE Newest(RowsOf(l)).hash

Poll == [seen : [Line -> State \cup {None}], at : Nat, todo : SUBSET Line,
         line : Line \cup {None}, old : State \cup {None}, added : SUBSET Row]
NoPoll == [seen |-> [l \in Line |-> None], at |-> 0, todo |-> {},
           line |-> None, old |-> None, added |-> {}]
Idle == [todo |-> {}, hash |-> [l \in Line |-> None]]

Init ==
    /\ report \in [Line -> State]
    /\ cache = [l \in Line |-> None]
    /\ rows = {}
    /\ pc = [w \in Worker |-> "idle"] /\ poll = [w \in Worker |-> NoPoll]
    /\ warm = Idle
    /\ changes = 0 /\ faults = 0 /\ restarts = 0

Go(w, s, p) == pc' = [pc EXCEPT ![w] = s] /\ poll' = [poll EXCEPT ![w] = p]

\* A time later than any so far: only the order of the batch times matters.
Now == 1 + Max({0} \cup {r.at : r \in rows} \cup {poll[w].at : w \in Worker})

\* Slip: a line TfL does not mention is compared too.
BeginAllLines(w) ==
    /\ pc[w] = "idle"
    /\ \E l \in Line : report[l] # None
    /\ Go(w, "scan", [NoPoll EXCEPT !.seen = report, !.at = Now, !.todo = Line])
    /\ UNCHANGED <<report, cache, rows, warm, changes, faults, restarts>>

\* One batch timestamp for all rows of the poll; no disruptions, nothing to do.
Begin(w) ==
    /\ pc[w] = "idle"
    /\ \E l \in Line : report[l] # None
    /\ Go(w, "scan", [NoPoll EXCEPT !.seen = report, !.at = Now,
                                    !.todo = {l \in Line : report[l] # None}])
    /\ UNCHANGED <<report, cache, rows, warm, changes, faults, restarts>>

\* GET the last hash of the next line.
Read(w, l) ==
    /\ pc[w] = "scan"
    /\ l \in poll[w].todo
    /\ Go(w, "compare", [poll[w] EXCEPT !.line = l, !.old = cache[l],
                                        !.todo = @ \ {l}])
    /\ UNCHANGED <<report, cache, rows, warm, bounds>>

\* Slip: rows are added whether the hash differs or not.
CompareAlways(w) ==
    /\ pc[w] = "compare"
    /\ LET p == poll[w]
           row == [line |-> p.line, hash |-> p.seen[p.line], at |-> p.at]
       IN Go(w, IF p.todo = {} THEN "commit" ELSE "scan",
             [p EXCEPT !.line = None, !.old = None, !.added = @ \cup {row}])
    /\ cache' = [cache EXCEPT ![poll[w].line] = poll[w].seen[poll[w].line]]
    /\ UNCHANGED <<report, rows, warm, bounds>>

\* If it differs: add the rows to the session and SET the new hash.
ScanOn(w, p) == Go(w, IF p.todo = {} THEN "commit" ELSE "scan", p)
Compare(w) ==
    /\ pc[w] = "compare"
    /\ LET p == poll[w]
           l == p.line
           row == [line |-> l, hash |-> p.seen[l], at |-> p.at]
           next == [p EXCEPT !.line = None, !.old = None]
       IN IF p.seen[l] = p.old
          THEN ScanOn(w, next) /\ UNCHANGED cache
          ELSE /\ ScanOn(w, [next EXCEPT !.added = @ \cup {row}])
               /\ cache' = [cache EXCEPT ![l] = p.seen[l]]
    /\ UNCHANGED <<report, rows, warm, bounds>>

\* Slip: the commit is forgotten.
CommitNothing(w) == /\ pc[w] = "commit" /\ Go(w, "idle", NoPoll)
                    /\ UNCHANGED <<report, cache, rows, warm, bounds>>

\* One commit for all lines, if any row was added.
LinesOf(rs) == {r.line : r \in rs}
Commit(w) ==
    /\ pc[w] = "commit"
    /\ rows' = rows \cup poll[w].added
    /\ Go(w, "idle", NoPoll)
    /\ UNCHANGED <<report, cache, warm, bounds>>

\* A Redis error or a failed commit rolls everything back; so does a crash.
\* What the poll wrote to Redis stays.
Fail(w) ==
    /\ pc[w] # "idle"
    /\ faults < MaxFaults
    /\ faults' = faults + 1
    /\ Go(w, "idle", NoPoll)
    /\ UNCHANGED <<report, cache, rows, warm, changes, restarts>>

\* warm_up_line_state_cache in the lifespan of the web process: read the latest
\* rows, then SET line after line.
WarmUp ==
    /\ warm = Idle
    /\ restarts < MaxRestarts
    /\ restarts' = restarts + 1
    /\ warm' = [todo |-> LinesOf(rows), hash |-> [l \in Line |-> Latest(l)]]
    /\ UNCHANGED <<report, cache, rows, worker, changes, faults>>

Hydrate(l) ==
    /\ l \in warm.todo
    /\ cache' = [cache EXCEPT ![l] = warm.hash[l]]
    /\ warm' = IF warm.todo = {l} THEN Idle ELSE [warm EXCEPT !.todo = @ \ {l}]
    /\ UNCHANGED <<report, rows, worker, bounds>>

Change(l, s) ==
    /\ changes < MaxChanges
    /\ s # report[l]
    /\ changes' = changes + 1
    /\ report' = [report EXCEPT ![l] = s]
    /\ UNCHANGED <<cache, rows, worker, warm, faults, restarts>>

WorkerStep(w) == \/ Begin(w) \/ Compare(w) \/ Commit(w)
                 \/ \E l \in Line : Read(w, l)
Next == \/ \E w \in Worker : WorkerStep(w) \/ Fail(w)
        \/ WarmUp \/ \E l \in Line : Hydrate(l)
        \/ \E l \in Line, s \in State \cup {None} : Change(l, s)

Spec == Init /\ [][Next]_vars

\* The beat keeps starting polls and a started poll goes on.
Fairness == \A w \in Worker : WF_vars(WorkerStep(w))
FairSpec == Spec /\ Fairness

------------------------------------------------------------------------------
TypeOK ==
    /\ report \in [Line -> State \cup {None}]
    /\ cache \in [Line -> State \cup {None}]
    /\ rows \subseteq Row
    /\ pc \in [Worker -> {"idle", "scan", "compare", "commit"}]
    /\ poll \in [Worker -> Poll]
    /\ warm \in [todo : SUBSET Line, hash : [Line -> State \cup {None}]]

\* Rows of a line that say what its row before them said: no change was there to
\* log.
Repeated(l) == {r \in RowsOf(l) :
                  LET older == {s \in RowsOf(l) : s.at < r.at}
                  IN  older # {} /\ Newest(older).hash = r.hash}

\* With one worker a change is logged once; each failure and each start of the
\* web process while a poll runs costs at most one repeated row of a line.
RepeatsAreLosses ==
    Cardinality(Worker) = 1 =>
       \A l \in Line : Cardinality(Repeated(l)) <= faults + restarts

\* Between polls Redis holds the hash of the newest row of every line, as the
\* warm-up assumes, unless something failed or the warm-up raced with a poll.
CacheIsNewest ==
    Cardinality(Worker) = 1 /\ faults = 0 /\ restarts = 0 =>
       \A w \in Worker : pc[w] = "idle" => \A l \in Line : cache[l] = Latest(l)

\* Liveness: a state that lasts is the newest row in the end: after a failed
\* commit "the next poll will re-detect the state change"
\* (_log_line_disruption_state_changes).
StateIsLogged ==
    \A l \in Line : []<>(report[l] \in {None, Latest(l)})

\* The same for a system in which no commit is lost and no web process starts.
StateIsLoggedUnlessLost == [](faults = 0 /\ restarts = 0) => StateIsLogged

===============================================================================
