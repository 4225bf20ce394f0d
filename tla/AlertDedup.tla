------------------------------ MODULE AlertDedup ------------------------------
(* The alert path of AlertService for one (route, user, schedule): the poll   *)
(* tasks that Celery runs, the per-line state they keep in Redis under the    *)
(* key alert:{route}:{user}:{schedule}, and what the preferences of the route *)
(* are told.  Several worker processes may run a poll of the same route at    *)
(* once (the production worker runs with --concurrency=2 and the beat fires   *)
(* every 30 s while a poll may take up to 300 s).                             *)
EXTENDS Integers, FiniteSets

CONSTANTS
    Line,       \* lines the route uses
    Severity,   \* severity levels TfL reports
    Reason,     \* reason texts
    Disabled,   \* severities of AlertDisabledSeverity: reported, not alerted
    Cleared,    \* those of them with is_cleared_state
    Report,     \* what TfL may say of one line: sets of disruptions
    Pref,       \* notification preferences of the route
    EmailPref,  \* those of them that send e-mail (the others send SMS)
    Worker,     \* worker processes
    Day,        \* length of a day in ticks
    Start, End, \* the schedule window, both ends included
    Cooldown,   \* ALERT_COOLDOWN_MINUTES in ticks
    TaskLimit,  \* task_time_limit in ticks
    Horizon,    \* bound: last tick
    MaxChanges, \* bound: how often the environment (TfL, the user) acts
    MaxFaults   \* bound: failures of Redis, the database or a process

Disruption == [sev : Severity, reason : Reason]

ASSUME SeverityAssumption == Cleared \subseteq Disabled /\ Disabled \subseteq Severity
ASSUME ReportAssumption ==
    /\ Report \subseteq SUBSET Disruption
    /\ {} \in Report                        \* the line is missing from the data
    /\ \A r \in Report : \A d, e \in r : d.sev = e.sev => d = e
ASSUME PrefAssumption == EmailPref \subseteq Pref
ASSUME WorkerAssumption == IsFiniteSet(Worker)
ASSUME TimeAssumption ==
    /\ {Day, Start, End, Cooldown, TaskLimit, Horizon} \subseteq Nat
    /\ Start < End /\ End < Day
ASSUME BoundAssumption == {MaxChanges, MaxFaults} \subseteq Nat

VARIABLES
    now,      \* the clock
    report,   \* what fetch_line_disruptions returns for each line
    contact,  \* of each preference: the state of the contact it targets
    deleted,  \* preferences the user soft-deleted
    store,    \* the v2 state in Redis, one entry per line
    expiry,   \* when that key expires
    pc,       \* of each worker: the next step of its poll
    poll,     \* of each worker: the local variables of that poll
    changes, faults,      \* how often the environment acted, what failed
    told,     \* history: the last alert delivered for each line in this window
    said,     \* history: every <<line, content>> ever delivered
    repeats   \* history: alerts and updates of a line that told nothing new

env  == <<report, contact, deleted, changes>>
hist == <<told, said, repeats>>
redis == <<store, expiry>>
vars == <<now, report, contact, deleted, store, expiry, pc, poll, changes, faults,
          told, said, repeats>>

------------------------------------------------------------------------------
\* Content of an alert for a line: its alertable disruptions (the full_hash),
\* and their severities alone (the status_hash).
Alertable(r) == {d \in r : d.sev \notin Disabled}
Status(content) == {d.sev : d \in content}

Content == SUBSET Disruption
Entry   == [full : Content, at : Nat]
NoEntry == [full |-> {}, at |-> 0]       \* an alerted line has content: {} is free

TimeOfDay(t) == t % Day
InWindow(t)  == Start <= TimeOfDay(t) /\ TimeOfDay(t) <= End

\* Slips of _check_line_alert_needed: the equal full_hash is not tested, the
\* cooldown is not applied.
AlertNeededForSame(content, entry, t) ==
    \/ entry = NoEntry
    \/ Status(content) # Status(entry.full)
    \/ t >= entry.at + Cooldown
AlertNeededAtOnce(content, entry, t) == entry = NoEntry \/ content # entry.full

\* _check_line_alert_needed: is an alert due for a line with this content?
AlertNeeded(content, entry, t) ==
    \/ entry = NoEntry
    \/ Status(content) # Status(entry.full)
    \/ content # entry.full /\ t >= entry.at + Cooldown

\* detect_cleared_lines: lines of the stored state with nothing alertable any
\* more.  The last disruption TfL lists for the line decides, and its place in
\* the answer is arbitrary, so a line with mixed reports may go either way.
ClearedLines(seen, entries) ==
    LET quiet == {l \in Line : entries[l] # NoEntry /\ Alertable(seen[l]) = {}}
        may   == {l \in quiet : \E d \in seen[l] : d.sev \in Cleared}
        must  == {l \in may : \A d \in seen[l] : d.sev \in Cleared}
    IN  {c \in SUBSET may : must \subseteq c}

AlertableLines(seen) == {l \in Line : Alertable(seen[l]) # {}}
DueLines(seen, entries, t) ==
    {l \in AlertableLines(seen) : AlertNeeded(Alertable(seen[l]), entries[l], t)}

\* The locals of a poll: the disruptions and the preferences it loaded, when it
\* began; the lines to alert and those that cleared; which of the two messages
\* it is sending, whether any was delivered; the state read back before it is
\* written, and when.
Poll == [seen : [Line -> Report], roster : SUBSET Pref, begun : Nat,
         due : SUBSET Line, cleared : SUBSET Line, stage : {"alert", "clear"},
         sent : BOOLEAN, got : [Line -> Entry], stamp : Nat]
Step == {"idle", "check", "send", "commit", "get", "set"}
Nothing == [l \in Line |-> NoEntry]
NoPoll == [seen |-> [l \in Line |-> {}], roster |-> {}, begun |-> 0,
           due |-> {}, cleared |-> {}, stage |-> "alert",
           sent |-> FALSE, got |-> Nothing, stamp |-> 0]

\* What the message being sent says of a line, and whether the reader knew it:
\* the same content, or another reason inside the cooldown; for a status update,
\* a line he was not alerted of.
Redundant(content, entry, t) ==
    /\ entry # NoEntry
    /\ \/ content = entry.full
       \/ Status(content) = Status(entry.full) /\ t < entry.at + Cooldown
Useless(p, l) == IF p.stage = "alert" THEN Redundant(Alertable(p.seen[l]), told[l], now)
                                      ELSE told[l] = NoEntry
Topic(p) == IF p.stage = "alert" THEN p.due ELSE p.cleared

------------------------------------------------------------------------------
Init ==
    /\ now = 0
    /\ report \in [Line -> Report]
    /\ contact \in [Pref -> {"unverified", "verified"}]
    /\ deleted = {}
    /\ store = Nothing /\ expiry = 0
    /\ pc = [w \in Worker |-> "idle"]
    /\ poll = [w \in Worker |-> NoPoll]
    /\ changes = 0 /\ faults = 0
    /\ told = Nothing /\ said = {} /\ repeats = [l \in Line |-> 0]

\* The poll goes on with step s and the locals p, or is over.
Continue(w, s, p) == /\ pc' = [pc EXCEPT ![w] = s]
                     /\ poll' = [poll EXCEPT ![w] = p]
Stop(w) == Continue(w, "idle", NoPoll)

\* After one message: the alert follows the status update if a line is due.
Finish(w, p) == IF p.stage = "clear" /\ p.due # {}
                THEN Continue(w, "send", [p EXCEPT !.stage = "alert", !.sent = FALSE])
                ELSE Stop(w)

\* _get_active_routes, _get_active_schedule and _get_route_disruptions.  A route
\* with no disruptions at all is skipped, and so is one whose fetch fails: its
\* poll changes nothing and is not a step.
Begin(w) ==
    /\ pc[w] = "idle"
    /\ InWindow(now)
    /\ \E l \in Line : report[l] # {}
    /\ Continue(w, "check",
                [NoPoll EXCEPT !.seen = report, !.begun = now,
                               !.roster = {p \in Pref : contact[p] # "gone"}])
    /\ UNCHANGED <<now, env, redis, faults, hist>>

\* _should_send_alert and detect_cleared_lines.
Check(w) ==
    /\ pc[w] = "check"
    /\ LET p   == poll[w]
           due == DueLines(p.seen, store, now)
       IN  \E c \in ClearedLines(p.seen, store) :
             IF c = {} /\ due = {}
             THEN Stop(w)
             ELSE Continue(w, "send",
                     [p EXCEPT !.due = due, !.cleared = c,
                               !.stage = IF c # {} THEN "clear" ELSE "alert"])
    /\ UNCHANGED <<now, env, redis, faults, hist>>

\* The GET fails: alert everything, treat nothing as cleared.
CheckFails(w) ==
    /\ pc[w] = "check"
    /\ faults < MaxFaults
    /\ faults' = faults + 1
    /\ Continue(w, "send", [poll[w] EXCEPT !.due = AlertableLines(poll[w].seen)])
    /\ UNCHANGED <<now, env, redis, hist>>

\* Preferences a message can reach: the contact is there and verified when the
\* message is sent, and an e-mail has something to say (_build_disruption_subject
\* refuses an empty list; the SMS is sent without a line in it).
Reachable(p) == {q \in p.roster : /\ contact[q] = "verified"
                                  /\ Topic(p) # {} \/ q \notin EmailPref}

\* _send_alerts_for_route and _send_status_update_notifications, the loop over
\* the preferences: each delivery succeeds or is logged as failed.
Send(w, ok) ==
    /\ pc[w] = "send"
    /\ LET p == poll[w]
           tell == {l \in Topic(p) : ok # {}}
           about(l) == IF p.stage = "alert" THEN [full |-> Alertable(p.seen[l]), at |-> now]
                                            ELSE NoEntry
       IN  /\ ok \subseteq Reachable(p)
           /\ told' = [l \in Line |-> IF l \in tell THEN about(l) ELSE told[l]]
           /\ said' = said \cup {<<l, about(l).full>> : l \in tell}
           /\ repeats' = [l \in Line |-> IF l \in tell /\ Useless(p, l)
                                            /\ TimeOfDay(now) < End
                                         THEN repeats[l] + 1 ELSE repeats[l]]
           /\ IF p.roster = {} THEN Finish(w, p)
              ELSE Continue(w, "commit", [p EXCEPT !.sent = ok # {}])
    /\ UNCHANGED <<now, env, redis, faults>>

\* Slip: the state is written although nobody was told.
CommitUntold(w) ==
    /\ pc[w] = "commit"
    /\ Continue(w, "get", poll[w])
    /\ UNCHANGED <<now, env, redis, faults, hist>>

\* The notification logs are committed; the state is written only if somebody
\* was told.
Commit(w) ==
    /\ pc[w] = "commit"
    /\ IF poll[w].sent THEN Continue(w, "get", poll[w]) ELSE Finish(w, poll[w])
    /\ UNCHANGED <<now, env, redis, faults, hist>>

\* The commit fails: the rollback expires every object the session loaded, the
\* next attribute read raises, and process_all_routes gives the poll up.
CommitFails(w) ==
    /\ pc[w] = "commit"
    /\ faults < MaxFaults
    /\ faults' = faults + 1
    /\ Stop(w)
    /\ UNCHANGED <<now, env, redis, hist>>

\* _store_alert_state, _update_alert_state_remove_cleared: read the clock and
\* the state ...
Get(w) ==
    /\ pc[w] = "get"
    /\ IF poll[w].stage = "clear" /\ store = Nothing
       THEN Finish(w, poll[w])
       ELSE Continue(w, "set", [poll[w] EXCEPT !.got = store, !.stamp = now])
    /\ UNCHANGED <<now, env, redis, faults, hist>>

\* Slips: the entry is dated to the start of a cooldown; the key lives a day.
MergedEarlier(p) == [l \in Line |-> IF l \notin Topic(p) THEN p.got[l]
                                    ELSE IF p.stage = "clear" THEN NoEntry
                                    ELSE [full |-> Alertable(p.seen[l]), at |-> p.stamp - Cooldown]]
\* ... and write it with the time left to the end of the window, if any is.
Merged(p) == [l \in Line |-> IF l \notin Topic(p) THEN p.got[l]
                             ELSE IF p.stage = "clear" THEN NoEntry
                             ELSE [full |-> Alertable(p.seen[l]), at |-> p.stamp]]
TimeToLiveDay(stamp) == Day
TimeToLive(stamp) == End - TimeOfDay(stamp)
Set(w) ==
    /\ pc[w] = "set"
    /\ LET p   == poll[w]
           ttl == TimeToLive(p.stamp)
       IN  /\ IF ttl > 0 /\ (p.stage = "alert" \/ Merged(p) # Nothing)
              THEN store' = Merged(p) /\ expiry' = now + ttl
              ELSE /\ store' = IF p.stage = "clear" THEN Nothing ELSE store
                   /\ UNCHANGED expiry
           /\ Finish(w, p)
    /\ UNCHANGED <<now, env, faults, hist>>

\* Redis fails while the state is written: logged and forgotten.
StoreFails(w) ==
    /\ pc[w] \in {"get", "set"}
    /\ faults < MaxFaults
    /\ faults' = faults + 1
    /\ Finish(w, poll[w])
    /\ UNCHANGED <<now, env, redis, hist>>

\* The process dies: time limit, restart, deployment.
Crash(w) ==
    /\ pc[w] # "idle"
    /\ faults < MaxFaults
    /\ faults' = faults + 1
    /\ Stop(w)
    /\ UNCHANGED <<now, env, redis, hist>>

Flush ==
    /\ store # Nothing
    /\ faults < MaxFaults
    /\ faults' = faults + 1
    /\ store' = Nothing
    /\ UNCHANGED <<now, env, expiry, pc, poll, hist>>

\* Time passes; no poll outlives its time limit.  The key expires at the end of
\* the window, and what was said counts for one window.
Tick ==
    /\ now < Horizon
    /\ \A w \in Worker : pc[w] # "idle" => now < poll[w].begun + TaskLimit
    /\ now' = now + 1
    /\ store' = IF now' >= expiry THEN Nothing ELSE store
    /\ told' = IF TimeOfDay(now') = Start THEN Nothing ELSE told
    /\ UNCHANGED <<env, expiry, pc, poll, faults, said, repeats>>

\* The environment: TfL changes what it reports of a line; the user deletes a
\* preference, verifies a contact or deletes one.
Act == changes < MaxChanges /\ changes' = changes + 1

Change(l, r) ==
    /\ Act
    /\ report[l] # r
    /\ report' = [report EXCEPT ![l] = r]
    /\ UNCHANGED <<now, contact, deleted, redis, pc, poll, faults, hist>>

DeletePref(p) ==
    /\ Act
    /\ p \notin deleted /\ contact[p] # "gone"
    /\ deleted' = deleted \cup {p}
    /\ UNCHANGED <<now, report, contact, redis, pc, poll, faults, hist>>

SetContact(p, from, to) ==
    /\ Act
    /\ contact[p] \in from
    /\ contact' = [contact EXCEPT ![p] = to]
    /\ UNCHANGED <<now, report, deleted, redis, pc, poll, faults, hist>>
VerifyContact(p) == SetContact(p, {"unverified"}, "verified")
DeleteContact(p) == SetContact(p, {"unverified", "verified"}, "gone")

Fault == \/ Flush
         \/ \E w \in Worker : CheckFails(w) \/ CommitFails(w) \/ StoreFails(w) \/ Crash(w)
Environment == \/ \E l \in Line, r \in Report : Change(l, r)
               \/ \E p \in Pref : DeletePref(p) \/ VerifyContact(p) \/ DeleteContact(p)
WorkerStep(w) == \/ Begin(w) \/ Check(w) \/ Commit(w) \/ Get(w) \/ Set(w)
                 \/ \E ok \in SUBSET Pref : Send(w, ok)

Next == Tick \/ Environment \/ Fault \/ \E w \in Worker : WorkerStep(w)

Spec == Init /\ [][Next]_vars

------------------------------------------------------------------------------
TypeOK ==
    /\ now \in 0..Horizon
    /\ report \in [Line -> Report]
    /\ contact \in [Pref -> {"unverified", "verified", "gone"}]
    /\ deleted \subseteq Pref
    /\ store \in [Line -> Entry] /\ expiry \in Nat
    /\ pc \in [Worker -> Step]
    /\ poll \in [Worker -> Poll]
    /\ changes \in 0..MaxChanges /\ faults \in 0..MaxFaults
    /\ told \in [Line -> Entry]
    /\ said \subseteq Line \X Content
    /\ repeats \in [Line -> Nat]

\* Whatever the workers, the failures and the interleaving of their reads and
\* writes of the key: Redis never says of a line what no alert ever said, and a
\* status update that a line is clear never speaks of a line nobody was alerted
\* of (_store_alert_state runs only when alerts_sent > 0).
StoredWasSaid ==
    /\ \A l \in Line : store[l] # NoEntry => <<l, store[l].full>> \in said
    /\ \A w \in Worker : \A l \in poll[w].cleared :
          \E c \in Content : c # {} /\ <<l, c>> \in said

\* The state of a window is gone when the next one opens, although a slow poll
\* writes it with a time to live it computed earlier: "between windows, expired
\* keys allow fresh alerts" (_store_alert_state).
FreshWindow ==
    TimeOfDay(now) \notin Start .. End + TaskLimit => store = Nothing

\* What the comment in _store_alert_state says of it: "TTL expires at schedule end
\* time, so stale data doesn't persist across windows".  A poll of a window that
\* ends at midnight writes after midnight, with the time left to the end of the
\* next day's window.
NoStaleAcrossWindows ==
    [][now' # now /\ TimeOfDay(now') = Start => store' = Nothing]_vars

\* With one worker each failure (Redis, the commit, a crash, a flush) costs at
\* most one redundant message about a line: what was lost is repeated once and
\* then remembered again.
OneRepeatPerFault ==
    Cardinality(Worker) = 1 => \A l \in Line : repeats[l] <= faults

\* With one worker and no failure the alerts keep their promise: AlertDedup
\* implements AlertPromise, what was told being what the reader remembers.
Promise == INSTANCE AlertPromise WITH NoContent <- {}
KeepsPromise == Promise!Spec

\* What the promise leaves out: until the window ends, where the key is gone, a
\* line is not alerted again with content its reader already has ("within a
\* window, content-based deduplication prevents spam", _store_alert_state).
NoRepeatBeforeEnd ==
    [][\A l \in Line : told[l] # NoEntry /\ told'[l].full = told[l].full
                          /\ TimeOfDay(now) < End
                          => told'[l] = told[l]]_told

\* A poll does not notify a preference the user had deleted before it began
\* ("All SELECT queries must filter by deleted_at IS NULL", ADR 03).
DeletedNotLoaded ==
    [][\A w \in Worker : pc[w] = "idle" /\ pc'[w] # "idle"
                            => poll'[w].roster \cap deleted = {}]_vars

\* Liveness.  The beat keeps starting polls and a poll goes on; the providers do
\* not refuse messages for ever.  Time need not pass.
AllSent(w) == Send(w, Reachable(poll[w]))
Fairness == \A w \in Worker : WF_vars(WorkerStep(w)) /\ SF_vars(AllSent(w))
FairSpec == Spec /\ Fairness

\* Before the window ends the reader's last message about a disrupted line ends up with
\* the severities the line has now, if anybody can be reached: "bypass cooldown
\* if severity/status changes -> alert immediately" (ADR 08).
StatusReachesReader ==
    \A l \in Line :
       []<>(\/ TimeOfDay(now) \notin Start .. End - 1
            \/ Alertable(report[l]) = {}
            \/ \A p \in Pref : contact[p] # "verified"
            \/ Status(told[l].full) = Status(Alertable(report[l])))

==============================================================================
