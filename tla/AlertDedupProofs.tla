--------------------------- MODULE AlertDedupProofs ---------------------------
(* Theorems about AlertDedup, for every number of lines, preferences, failures *)
(* and every report.  For any number of workers: the types; that Redis and the *)
(* status updates never speak of a disruption nobody was alerted of; that the  *)
(* state of a window is gone when the next one opens.  For one worker: that a  *)
(* failure costs at most one repeated message of a line, and that without one  *)
(* the alerts implement AlertPromise.                                          *)
EXTENDS AlertDedup, FiniteSetTheorems, TLAPS

\* What makes StoredWasSaid inductive.  A line is written to the key from three
\* places: from what was read of it before (got), from the alert being stored
\* (due), and from what other workers stored meanwhile.  All three must have been
\* delivered before, and a poll past its delivery is one that delivered.  PollOK
\* says it of a worker at step s with the locals p, h being what was ever said.
Said(l, c, h) == c # {} /\ <<l, c>> \in h
Delivered(s, p) == s \in {"get", "set"} \/ (s = "commit" /\ p.sent)
PollOK(s, p, h) ==
    /\ \A l \in Line : p.got[l] # NoEntry => Said(l, p.got[l].full, h)
    /\ \A l \in p.due : Alertable(p.seen[l]) # {}
    /\ \A l \in p.cleared : \E c \in Content : Said(l, c, h)
    /\ Delivered(s, p) /\ p.stage = "alert" =>
          \A l \in p.due : <<l, Alertable(p.seen[l])>> \in h
IStored == \A l \in Line : store[l] # NoEntry => Said(l, store[l].full, said)
IPolls  == \A w \in Worker : PollOK(pc[w], poll[w], said)
IInv == TypeOK /\ IStored /\ IPolls

------------------------------------------------------------------------------
\* What may be alerted of a report is a content of the stored state.
LEMMA AlertableType == \A r \in Report : Alertable(r) \in Content
BY ReportAssumption DEF Alertable, Content

\* The empty entry and the empty state are well formed.
LEMMA NoEntryType == NoEntry \in Entry /\ Nothing \in [Line -> Entry]
BY DEF NoEntry, Entry, Content, Nothing

\* A worker without a poll has well-formed locals.
LEMMA NoPollType == NoPoll \in Poll
BY NoEntryType, ReportAssumption DEF NoPoll, Poll

\* The types of a state variable by variable, as the steps below use them.
LEMMA ContinueType ==
    ASSUME NEW w \in Worker, NEW s \in Step, NEW p \in Poll, Continue(w, s, p),
           pc \in [Worker -> Step], poll \in [Worker -> Poll]
    PROVE  pc' \in [Worker -> Step] /\ poll' \in [Worker -> Poll]
BY DEF Continue

\* Going on after a message, to the alert or to rest, keeps the types.
LEMMA FinishType ==
    ASSUME NEW w \in Worker, NEW p \in Poll, Finish(w, p),
           pc \in [Worker -> Step], poll \in [Worker -> Poll]
    PROVE  pc' \in [Worker -> Step] /\ poll' \in [Worker -> Poll]
<1>1. [p EXCEPT !.stage = "alert", !.sent = FALSE] \in Poll
  BY DEF Poll
<1>2. {"send", "idle"} \subseteq Step
  BY DEF Step
<1>. QED  BY <1>1, <1>2, ContinueType, NoPollType DEF Finish, Stop

\* The state _store_alert_state writes is well formed.
LEMMA MergedType ==
    ASSUME NEW p \in Poll
    PROVE  Merged(p) \in [Line -> Entry]
<1>1. \A l \in Line : p.seen[l] \in Report /\ p.got[l] \in Entry /\ p.stamp \in Nat
  BY DEF Poll
<1>. QED  BY <1>1, AlertableType, NoEntryType DEF Merged, Entry

\* The initial states are well typed.
LEMMA InitType == Init => TypeOK
BY NoEntryType, NoPollType, BoundAssumption, TimeAssumption
   DEF Init, TypeOK, Step

------------------------------------------------------------------------------
\* One lemma per action: it keeps the types.  First the start of a poll.
LEMMA BeginType == \A w \in Worker : TypeOK /\ Begin(w) => TypeOK'
<1>. SUFFICES ASSUME NEW w \in Worker, TypeOK, Begin(w) PROVE TypeOK'
  OBVIOUS
<1>. DEFINE p == [NoPoll EXCEPT !.seen = report, !.begun = now,
                                !.roster = {q \in Pref : contact[q] # "gone"}]
<1>1. p \in Poll
  <2>1. now \in Nat /\ report \in [Line -> Report]
    BY TimeAssumption DEF TypeOK
  <2>2. {q \in Pref : contact[q] # "gone"} \in SUBSET Pref
    OBVIOUS
  <2>. QED  BY <2>1, <2>2, NoPollType DEF Poll
<1>2. pc' \in [Worker -> Step] /\ poll' \in [Worker -> Poll]
  <2>1. Continue(w, "check", p) /\ "check" \in Step
    BY DEF Begin, Step
  <2>. QED  BY <1>1, <2>1, ContinueType DEF TypeOK
<1>. QED  BY <1>2 DEF TypeOK, Begin, env, redis, hist

\* The deduplication check keeps the types, whatever lines it finds cleared.
LEMMA CheckType == \A w \in Worker : TypeOK /\ Check(w) => TypeOK'
<1>. SUFFICES ASSUME NEW w \in Worker, TypeOK, Check(w) PROVE TypeOK'
  OBVIOUS
<1>. DEFINE p == poll[w]
            due == DueLines(p.seen, store, now)
            q(c) == [p EXCEPT !.due = due, !.cleared = c,
                              !.stage = IF c # {} THEN "clear" ELSE "alert"]
<1>1. PICK c \in ClearedLines(p.seen, store) :
         IF c = {} /\ due = {} THEN Stop(w) ELSE Continue(w, "send", q(c))
  BY DEF Check
<1>2. p \in Poll /\ c \subseteq Line /\ due \subseteq Line
  BY DEF TypeOK, ClearedLines, DueLines, AlertableLines
<1>3. q(c) \in Poll
  BY <1>2 DEF Poll
<1>4. pc' \in [Worker -> Step] /\ poll' \in [Worker -> Poll]
  <2>1. CASE Stop(w)
    BY <2>1, ContinueType, NoPollType DEF Stop, Step, TypeOK
  <2>2. CASE Continue(w, "send", q(c))
    <3>1. "send" \in Step
      BY DEF Step
    <3>. QED  BY <1>3, <2>2, <3>1, ContinueType DEF TypeOK
  <2>. QED  BY <1>1, <2>1, <2>2
<1>. QED  BY <1>4 DEF TypeOK, Check, env, redis, hist

\* So does the check that could not read Redis.
LEMMA CheckFailsType == \A w \in Worker : TypeOK /\ CheckFails(w) => TypeOK'
<1>. SUFFICES ASSUME NEW w \in Worker, TypeOK, CheckFails(w) PROVE TypeOK'
  OBVIOUS
<1>. DEFINE p == [poll[w] EXCEPT !.due = AlertableLines(poll[w].seen)]
<1>1. p \in Poll /\ "send" \in Step
  BY DEF TypeOK, Poll, AlertableLines, Step
<1>2. pc' \in [Worker -> Step] /\ poll' \in [Worker -> Poll]
  BY <1>1, ContinueType DEF TypeOK, CheckFails
<1>3. faults' \in 0..MaxFaults
  BY BoundAssumption DEF TypeOK, CheckFails
<1>. QED  BY <1>2, <1>3 DEF TypeOK, CheckFails, env, redis, hist

\* A delivery keeps the types, of the history variables too.
LEMMA SendType == \A w \in Worker, ok \in SUBSET Pref : TypeOK /\ Send(w, ok) => TypeOK'
<1>. SUFFICES ASSUME NEW w \in Worker, NEW ok \in SUBSET Pref, TypeOK, Send(w, ok)
              PROVE TypeOK'
  OBVIOUS
<1>. DEFINE p == poll[w]
            q == [p EXCEPT !.sent = ok # {}]
            about(l) == IF p.stage = "alert" THEN [full |-> Alertable(p.seen[l]), at |-> now]
                                             ELSE NoEntry
<1>1. p \in Poll /\ now \in Nat
  BY TimeAssumption DEF TypeOK
<1>2. q \in Poll
  BY <1>1 DEF Poll
<1>3. pc' \in [Worker -> Step] /\ poll' \in [Worker -> Poll]
  <2>1. CASE Finish(w, p)
    BY <1>1, <2>1, FinishType DEF TypeOK
  <2>2. CASE Continue(w, "commit", q)
    <3>1. "commit" \in Step
      BY DEF Step
    <3>. QED  BY <1>2, <2>2, <3>1, ContinueType DEF TypeOK
  <2>. QED  BY <2>1, <2>2 DEF Send
<1>4. \A l \in Line : about(l) \in Entry
  <2>1. \A l \in Line : p.seen[l] \in Report
    BY <1>1 DEF Poll
  <2>. QED  BY <1>1, <2>1, AlertableType, NoEntryType DEF Entry
<1>5. told' \in [Line -> Entry]
  BY <1>4 DEF TypeOK, Send
<1>6. said' \subseteq Line \X Content
  <2>1. Topic(p) \subseteq Line
    BY <1>1 DEF Topic, Poll
  <2>. QED  BY <1>4, <2>1 DEF TypeOK, Send, Entry
<1>7. repeats' \in [Line -> Nat]
  BY DEF TypeOK, Send
<1>. QED  BY <1>3, <1>5, <1>6, <1>7 DEF TypeOK, Send, env, redis

\* The commit keeps the types.
LEMMA CommitType == \A w \in Worker : TypeOK /\ Commit(w) => TypeOK'
<1>. SUFFICES ASSUME NEW w \in Worker, TypeOK, Commit(w) PROVE TypeOK'
  OBVIOUS
<1>1. poll[w] \in Poll /\ "get" \in Step
  BY DEF TypeOK, Step
<1>2. pc' \in [Worker -> Step] /\ poll' \in [Worker -> Poll]
  BY <1>1, ContinueType, FinishType DEF TypeOK, Commit
<1>. QED  BY <1>2 DEF TypeOK, Commit, env, redis, hist

\* Reading the key back keeps the types.
LEMMA GetType == \A w \in Worker : TypeOK /\ Get(w) => TypeOK'
<1>. SUFFICES ASSUME NEW w \in Worker, TypeOK, Get(w) PROVE TypeOK'
  OBVIOUS
<1>. DEFINE q == [poll[w] EXCEPT !.got = store, !.stamp = now]
<1>1. poll[w] \in Poll /\ "set" \in Step
  BY DEF TypeOK, Step
<1>2. q \in Poll
  <2>1. now \in Nat /\ store \in [Line -> Entry]
    BY TimeAssumption DEF TypeOK
  <2>. QED  BY <1>1, <2>1 DEF Poll
<1>3. pc' \in [Worker -> Step] /\ poll' \in [Worker -> Poll]
  BY <1>1, <1>2, ContinueType, FinishType DEF TypeOK, Get
<1>. QED  BY <1>3 DEF TypeOK, Get, env, redis, hist

\* Writing the key keeps the types; the time to live written is positive.
LEMMA SetType == \A w \in Worker : TypeOK /\ Set(w) => TypeOK'
<1>. SUFFICES ASSUME NEW w \in Worker, TypeOK, Set(w) PROVE TypeOK'
  OBVIOUS
<1>. DEFINE p == poll[w]
            ttl == TimeToLive(p.stamp)
<1>1. p \in Poll
  BY DEF TypeOK
<1>2. pc' \in [Worker -> Step] /\ poll' \in [Worker -> Poll]
  BY <1>1, FinishType DEF TypeOK, Set
<1>3. store' \in [Line -> Entry]
  BY <1>1, MergedType, NoEntryType DEF TypeOK, Set
<1>4. ttl \in Int
  <2>1. p.stamp \in Nat /\ Day \in Nat /\ Day > 0 /\ End \in Nat
    BY <1>1, TimeAssumption DEF Poll
  <2>. QED  BY <2>1 DEF TimeToLive, TimeOfDay
<1>5. expiry' \in Nat
  BY <1>4, TimeAssumption DEF TypeOK, Set
<1>. QED  BY <1>2, <1>3, <1>5 DEF TypeOK, Set, env, hist

\* The failures keep the types.
LEMMA FaultType == TypeOK /\ Fault => TypeOK'
<1>. SUFFICES ASSUME TypeOK, Fault PROVE TypeOK'
  OBVIOUS
<1>1. ASSUME Flush PROVE TypeOK'
  BY <1>1, NoEntryType, BoundAssumption DEF TypeOK, Flush, env, hist
<1>2. ASSUME NEW w \in Worker, CommitFails(w) \/ Crash(w) PROVE TypeOK'
  <2>1. pc' \in [Worker -> Step] /\ poll' \in [Worker -> Poll]
    BY <1>2, ContinueType, NoPollType DEF TypeOK, CommitFails, Crash, Stop, Step
  <2>. QED  BY <1>2, <2>1, BoundAssumption DEF TypeOK, CommitFails, Crash, env, redis, hist
<1>3. ASSUME NEW w \in Worker, StoreFails(w) PROVE TypeOK'
  <2>1. pc' \in [Worker -> Step] /\ poll' \in [Worker -> Poll]
    BY <1>3, FinishType DEF TypeOK, StoreFails
  <2>. QED  BY <1>3, <2>1, BoundAssumption DEF TypeOK, StoreFails, env, redis, hist
<1>. QED  BY <1>1, <1>2, <1>3, CheckFailsType DEF Fault

\* The clock keeps the types.
LEMMA TickType == TypeOK /\ Tick => TypeOK'
BY NoEntryType, TimeAssumption DEF TypeOK, Tick, env

\* What TfL and the user do keeps the types.
LEMMA EnvironmentType == TypeOK /\ Environment => TypeOK'
<1>. SUFFICES ASSUME TypeOK, Environment PROVE TypeOK'
  OBVIOUS
<1>1. ASSUME NEW l \in Line, NEW r \in Report, Change(l, r) PROVE TypeOK'
  BY <1>1, BoundAssumption DEF TypeOK, Change, Act, redis, hist
<1>2. ASSUME NEW p \in Pref, DeletePref(p) PROVE TypeOK'
  BY <1>2, BoundAssumption DEF TypeOK, DeletePref, Act, redis, hist
<1>3. ASSUME NEW p \in Pref, VerifyContact(p) \/ DeleteContact(p) PROVE TypeOK'
  BY <1>3, BoundAssumption DEF TypeOK, VerifyContact, DeleteContact, SetContact, Act, redis, hist
<1>. QED  BY <1>1, <1>2, <1>3 DEF Environment

\* Every step keeps the types.
LEMMA NextType == TypeOK /\ [Next]_vars => TypeOK'
<1>. SUFFICES ASSUME TypeOK, [Next]_vars PROVE TypeOK'
  OBVIOUS
<1>1. CASE UNCHANGED vars
  BY <1>1 DEF TypeOK, vars
<1>2. ASSUME NEW w \in Worker, WorkerStep(w) PROVE TypeOK'
  BY <1>2, BeginType, CheckType, CommitType, GetType, SetType, SendType DEF WorkerStep
<1>. QED  BY <1>1, <1>2, TickType, EnvironmentType, FaultType DEF Next

\* Every variable keeps its type, whatever the constants.
THEOREM TypeCorrect == Spec => []TypeOK
BY InitType, NextType, PTL DEF Spec

------------------------------------------------------------------------------
\* A poll that spoke only of what was said still does when more is said.
LEMMA SaidGrows ==
    ASSUME NEW s, NEW p, NEW h, NEW g, h \subseteq g, PollOK(s, p, h)
    PROVE  PollOK(s, p, g)
BY DEF PollOK, Said

\* A worker without a poll speaks of nothing.
LEMMA NoPollOK == \A h : PollOK("idle", NoPoll, h)
BY DEF PollOK, NoPoll, Nothing, Delivered

\* A step of worker w that leaves the others alone.
LEMMA ContinueOK ==
    ASSUME TypeOK, IPolls, said \subseteq said', NEW w \in Worker, NEW s, NEW p,
           Continue(w, s, p), PollOK(s, p, said')
    PROVE  IPolls'
<1>1. ASSUME NEW v \in Worker PROVE PollOK(pc'[v], poll'[v], said')
  <2>1. CASE v = w
    BY <2>1 DEF Continue, TypeOK
  <2>2. CASE v # w
    <3>1. pc'[v] = pc[v] /\ poll'[v] = poll[v]
      BY <2>2 DEF Continue, TypeOK
    <3>2. PollOK(pc[v], poll[v], said)
      BY DEF IPolls
    <3>. QED  BY <3>1, <3>2, SaidGrows
  <2>. QED  BY <2>1, <2>2
<1>. QED  BY <1>1 DEF IPolls

\* Going on after a message drops no obligation of the poll.
LEMMA FinishOK ==
    ASSUME TypeOK, IPolls, said \subseteq said', NEW w \in Worker, NEW s, NEW p \in Poll,
           Finish(w, p), PollOK(s, p, said')
    PROVE  IPolls'
<1>. DEFINE q == [p EXCEPT !.stage = "alert", !.sent = FALSE]
<1>1. q.got = p.got /\ q.due = p.due /\ q.seen = p.seen /\ q.cleared = p.cleared
  BY DEF Poll
<1>2. PollOK("send", q, said')
  BY <1>1 DEF PollOK, Delivered
<1>. QED  BY <1>2, ContinueOK, NoPollOK DEF Finish, Stop

\* Ending a poll keeps the invariant of all polls.
LEMMA StopOK ==
    ASSUME TypeOK, IPolls, said \subseteq said', NEW w \in Worker, Stop(w)
    PROVE  IPolls'
BY ContinueOK, NoPollOK DEF Stop

------------------------------------------------------------------------------
\* One lemma per action that does more than end a poll.
LEMMA BeginKeeps == \A w \in Worker : IInv /\ Begin(w) => IPolls' /\ IStored'
<1>. SUFFICES ASSUME NEW w \in Worker, IInv, Begin(w) PROVE IPolls' /\ IStored'
  OBVIOUS
<1>. DEFINE p == [NoPoll EXCEPT !.seen = report, !.begun = now,
                                !.roster = {q \in Pref : contact[q] # "gone"}]
<1>1. said' = said /\ store' = store /\ Continue(w, "check", p)
  BY DEF Begin, hist, redis
<1>2. p.got = Nothing /\ p.due = {} /\ p.cleared = {}
  BY DEF NoPoll
<1>3. PollOK("check", p, said)
  BY <1>2 DEF PollOK, Nothing, Delivered
<1>. QED  BY <1>1, <1>3, ContinueOK DEF IInv, IStored

\* A check finds due lines with something to alert and, as the stored state was
\* said, cleared lines that were said.
LEMMA CheckKeeps == \A w \in Worker : IInv /\ Check(w) => IPolls' /\ IStored'
<1>. SUFFICES ASSUME NEW w \in Worker, IInv, Check(w) PROVE IPolls' /\ IStored'
  OBVIOUS
<1>. DEFINE p == poll[w]
            due == DueLines(p.seen, store, now)
            q(c) == [p EXCEPT !.due = due, !.cleared = c,
                              !.stage = IF c # {} THEN "clear" ELSE "alert"]
<1>1. PICK c \in ClearedLines(p.seen, store) :
         IF c = {} /\ due = {} THEN Stop(w) ELSE Continue(w, "send", q(c))
  BY DEF Check
<1>2. said' = said /\ store' = store
  BY DEF Check, hist, redis
<1>3. p \in Poll
  BY DEF IInv, TypeOK
<1>4. q(c).got = p.got /\ q(c).seen = p.seen /\ q(c).due = due /\ q(c).cleared = c
  BY <1>3 DEF Poll
<1>5. \A l \in due : Alertable(p.seen[l]) # {}
  BY DEF DueLines, AlertableLines
<1>6. \A l \in c : \E d \in Content : Said(l, d, said)
  <2>1. ASSUME NEW l \in c PROVE \E d \in Content : Said(l, d, said)
    <3>1. l \in Line /\ store[l] # NoEntry
      BY DEF ClearedLines
    <3>2. Said(l, store[l].full, said) /\ store[l].full \in Content
      BY <3>1 DEF IInv, IStored, TypeOK, Entry
    <3>. QED  BY <3>2
  <2>. QED  BY <2>1
<1>7. \A l \in Line : p.got[l] # NoEntry => Said(l, p.got[l].full, said)
  BY DEF IInv, IPolls, PollOK
<1>8. PollOK("send", q(c), said)
  <2>. HIDE DEF q, due
  <2>. QED  BY <1>4, <1>5, <1>6, <1>7 DEF PollOK, Delivered
<1>. QED  BY <1>1, <1>2, <1>8, ContinueOK, StopOK DEF IInv, IStored

\* The check that could not read Redis clears nothing.
LEMMA CheckFailsKeeps == \A w \in Worker : IInv /\ CheckFails(w) => IPolls' /\ IStored'
<1>. SUFFICES ASSUME NEW w \in Worker, IInv, CheckFails(w) PROVE IPolls' /\ IStored'
  OBVIOUS
<1>. DEFINE p == poll[w]
            q == [p EXCEPT !.due = AlertableLines(p.seen)]
<1>1. said' = said /\ store' = store /\ Continue(w, "send", q)
  BY DEF CheckFails, hist, redis
<1>2. p \in Poll /\ PollOK(pc[w], p, said)
  BY DEF IInv, TypeOK, IPolls
<1>3. q.got = p.got /\ q.seen = p.seen /\ q.cleared = p.cleared
      /\ q.due = AlertableLines(p.seen)
  BY <1>2 DEF Poll
<1>4. PollOK("send", q, said)
  BY <1>2, <1>3 DEF PollOK, Delivered, AlertableLines
<1>. QED  BY <1>1, <1>4, ContinueOK DEF IInv, IStored

\* The delivery is what makes the due lines said.
LEMMA SendKeeps ==
    \A w \in Worker, ok \in SUBSET Pref : IInv /\ Send(w, ok) => IPolls' /\ IStored'
<1>. SUFFICES ASSUME NEW w \in Worker, NEW ok \in SUBSET Pref, IInv, Send(w, ok)
              PROVE IPolls' /\ IStored'
  OBVIOUS
<1>. DEFINE p == poll[w]
            q == [p EXCEPT !.sent = ok # {}]
<1>1. said \subseteq said' /\ store' = store
  BY DEF Send, redis
<1>2. IStored'
  BY <1>1 DEF IInv, IStored, Said
<1>3. p \in Poll /\ PollOK(pc[w], p, said)
  BY DEF IInv, TypeOK, IPolls
<1>4. PollOK(pc[w], p, said')
  BY <1>1, <1>3, SaidGrows
<1>5. CASE Finish(w, p)
  BY <1>1, <1>2, <1>3, <1>4, <1>5, FinishOK DEF IInv
<1>6. CASE Continue(w, "commit", q)
  <2>1. q.got = p.got /\ q.seen = p.seen /\ q.cleared = p.cleared /\ q.due = p.due
        /\ q.stage = p.stage /\ q.sent = (ok # {})
    BY <1>3 DEF Poll
  <2>2. ok # {} /\ p.stage = "alert" => \A l \in p.due : <<l, Alertable(p.seen[l])>> \in said'
    BY DEF Send, Topic
  <2>3. PollOK("commit", q, said')
    BY <1>4, <2>1, <2>2 DEF PollOK, Delivered
  <2>. QED  BY <1>1, <1>2, <1>6, <2>3, ContinueOK DEF IInv
<1>. QED  BY <1>5, <1>6 DEF Send

\* A poll gets past its commit only if it delivered.
LEMMA CommitKeeps == \A w \in Worker : IInv /\ Commit(w) => IPolls' /\ IStored'
<1>. SUFFICES ASSUME NEW w \in Worker, IInv, Commit(w) PROVE IPolls' /\ IStored'
  OBVIOUS
<1>1. said' = said /\ store' = store /\ pc[w] = "commit"
  BY DEF Commit, hist, redis
<1>2. poll[w] \in Poll /\ PollOK("commit", poll[w], said)
  BY <1>1 DEF IInv, TypeOK, IPolls
<1>3. CASE poll[w].sent /\ Continue(w, "get", poll[w])
  <2>1. PollOK("get", poll[w], said)
    BY <1>2, <1>3 DEF PollOK, Delivered
  <2>. QED  BY <1>1, <1>3, <2>1, ContinueOK DEF IInv, IStored
<1>4. CASE Finish(w, poll[w])
  BY <1>1, <1>2, <1>4, FinishOK DEF IInv, IStored
<1>. QED  BY <1>3, <1>4 DEF Commit

\* What is read back from the key was said.
LEMMA GetKeeps == \A w \in Worker : IInv /\ Get(w) => IPolls' /\ IStored'
<1>. SUFFICES ASSUME NEW w \in Worker, IInv, Get(w) PROVE IPolls' /\ IStored'
  OBVIOUS
<1>. DEFINE p == poll[w]
            q == [p EXCEPT !.got = store, !.stamp = now]
<1>1. said' = said /\ store' = store /\ pc[w] = "get"
  BY DEF Get, hist, redis
<1>2. p \in Poll /\ PollOK("get", p, said)
  BY <1>1 DEF IInv, TypeOK, IPolls
<1>3. CASE Finish(w, p)
  BY <1>1, <1>2, <1>3, FinishOK DEF IInv, IStored
<1>4. CASE Continue(w, "set", q)
  <2>1. q.got = store /\ q.seen = p.seen /\ q.cleared = p.cleared /\ q.due = p.due
        /\ q.stage = p.stage
    BY <1>2 DEF Poll
  <2>2. PollOK("set", q, said)
    BY <1>2, <2>1 DEF PollOK, Delivered, IInv, IStored
  <2>. QED  BY <1>1, <1>4, <2>2, ContinueOK DEF IInv, IStored
<1>. QED  BY <1>3, <1>4 DEF Get

\* What is written is what was read, less the cleared lines, or what was alerted.
LEMMA SetKeeps == \A w \in Worker : IInv /\ Set(w) => IPolls' /\ IStored'
<1>. SUFFICES ASSUME NEW w \in Worker, IInv, Set(w) PROVE IPolls' /\ IStored'
  OBVIOUS
<1>. DEFINE p == poll[w]
<1>1. said' = said /\ pc[w] = "set" /\ Finish(w, p)
  BY DEF Set, hist
<1>2. p \in Poll /\ PollOK("set", p, said)
  BY <1>1 DEF IInv, TypeOK, IPolls
<1>3. IPolls'
  BY <1>1, <1>2, FinishOK DEF IInv
<1>4. ASSUME NEW l \in Line, Merged(p)[l] # NoEntry
      PROVE  Said(l, Merged(p)[l].full, said)
  <2>1. CASE l \notin Topic(p)
    BY <1>2, <1>4, <2>1 DEF Merged, PollOK
  <2>2. CASE l \in Topic(p) /\ p.stage = "alert"
    <3>1. Merged(p)[l].full = Alertable(p.seen[l]) /\ l \in p.due
      BY <2>2 DEF Merged, Topic
    <3>. QED  BY <1>2, <2>2, <3>1 DEF PollOK, Delivered, Said
  <2>. QED  BY <1>2, <1>4, <2>1, <2>2 DEF Merged, Poll
<1>5. store' \in {Merged(p), Nothing, store}
  BY DEF Set
<1>6. IStored'
  BY <1>1, <1>4, <1>5 DEF IInv, IStored, Nothing
<1>. QED  BY <1>3, <1>6

\* The failures forget; they write nothing that was not said.
LEMMA FaultKeeps == IInv /\ Fault => IPolls' /\ IStored'
<1>. SUFFICES ASSUME IInv, Fault PROVE IPolls' /\ IStored'
  OBVIOUS
<1>1. CASE Flush
  BY <1>1 DEF Flush, IInv, IStored, IPolls, Nothing, hist
<1>2. ASSUME NEW w \in Worker, CommitFails(w) \/ Crash(w) PROVE IPolls' /\ IStored'
  <2>1. said' = said /\ store' = store /\ Stop(w)
    BY <1>2 DEF CommitFails, Crash, hist, redis
  <2>. QED  BY <2>1, StopOK DEF IInv, IStored
<1>3. ASSUME NEW w \in Worker, StoreFails(w) PROVE IPolls' /\ IStored'
  <2>1. said' = said /\ store' = store /\ Finish(w, poll[w])
    BY <1>3 DEF StoreFails, hist, redis
  <2>2. poll[w] \in Poll /\ PollOK(pc[w], poll[w], said)
    BY DEF IInv, TypeOK, IPolls
  <2>. QED  BY <2>1, <2>2, FinishOK DEF IInv, IStored
<1>. QED  BY <1>1, <1>2, <1>3, CheckFailsKeeps DEF Fault

\* The inductive step.
LEMMA NextKeeps == IInv /\ [Next]_vars => IInv'
<1>. SUFFICES ASSUME IInv, [Next]_vars PROVE IPolls' /\ IStored'
  BY NextType DEF IInv
<1>1. CASE UNCHANGED vars
  BY <1>1 DEF IInv, IStored, IPolls, vars
<1>2. CASE Tick
  BY <1>2 DEF Tick, IInv, IStored, IPolls, Nothing
<1>3. CASE Environment
  <2>1. UNCHANGED <<store, said, pc, poll>>
    BY <1>3 DEF Environment, Change, DeletePref, VerifyContact, DeleteContact,
                SetContact, redis, hist
  <2>. QED  BY <2>1 DEF IInv, IStored, IPolls
<1>4. ASSUME NEW w \in Worker, WorkerStep(w) PROVE IPolls' /\ IStored'
  BY <1>4, BeginKeeps, CheckKeeps, SendKeeps, CommitKeeps, GetKeeps, SetKeeps DEF WorkerStep
<1>. QED  BY <1>1, <1>2, <1>3, <1>4, FaultKeeps DEF Next

\* The inductive invariant holds at first.
LEMMA InitKeeps == Init => IInv
<1>. SUFFICES ASSUME Init PROVE IStored /\ IPolls
  BY InitType DEF IInv
<1>1. IStored
  BY DEF Init, IStored, Nothing
<1>2. \A w \in Worker : pc[w] = "idle" /\ poll[w] = NoPoll
  BY DEF Init
<1>. QED  BY <1>1, <1>2, NoPollOK DEF IPolls

\* For any number of workers, any failures and any interleaving of their reads
\* and writes of the key: the stored state and the status updates only speak of
\* disruptions somebody was alerted of.
THEOREM StoredStateWasSaid == Spec => []StoredWasSaid
<1>1. IInv => StoredWasSaid
  BY DEF IInv, IStored, IPolls, PollOK, Said, StoredWasSaid
<1>. QED  BY <1>1, InitKeeps, NextKeeps, PTL DEF Spec
------------------------------------------------------------------------------
\* Time.  The rest holds of a schedule that ends more than the time limit of a
\* poll before midnight.
Short == End + TaskLimit < Day

\* A time is so many days and a time of day.
LEMMA Division ==
    ASSUME NEW t \in Nat
    PROVE  /\ t = Day * (t \div Day) + TimeOfDay(t)
           /\ t \div Day \in Int /\ TimeOfDay(t) \in 0 .. Day - 1
<1>1. Day \in Nat /\ Day > 0
  BY TimeAssumption
<1>2. t = Day * (t \div Day) + (t % Day)
  BY <1>1, SMT
<1>3. t \div Day \in Int /\ t % Day \in 0 .. Day - 1
  BY <1>1, SMT
<1>. QED  BY <1>2, <1>3 DEF TimeOfDay

\* There is one way to write it so.
LEMMA OneTimeOfDay ==
    ASSUME NEW p \in Int, NEW q \in Int, NEW r \in 0 .. Day - 1, NEW s \in 0 .. Day - 1,
           Day * q + r = Day * p + s
    PROVE  r = s
<1>0. Day \in Nat /\ Day > 0
  BY TimeAssumption
<1>1. Day * (q - p) = s - r
  BY <1>0, SMT
<1>2. CASE q - p >= 1
  <2>1. Day * (q - p) >= Day
    BY <1>0, <1>2, SMT
  <2>. QED  BY <1>0, <1>1, <2>1
<1>3. CASE q - p <= -1
  <2>1. Day * (q - p) <= -Day
    BY <1>0, <1>3, SMT
  <2>. QED  BY <1>0, <1>1, <2>1
<1>4. CASE q - p = 0
  BY <1>0, <1>1, <1>4, SMT
<1>. QED  BY <1>2, <1>3, <1>4

\* Later on the same day.
LEMMA LaterToday ==
    ASSUME NEW t \in Nat, NEW k \in Nat, TimeOfDay(t) + k < Day
    PROVE  TimeOfDay(t + k) = TimeOfDay(t) + k
<1>1. /\ t = Day * (t \div Day) + TimeOfDay(t)
      /\ t \div Day \in Int /\ TimeOfDay(t) \in 0 .. Day - 1
  BY Division
<1>2. /\ t + k = Day * ((t + k) \div Day) + TimeOfDay(t + k)
      /\ (t + k) \div Day \in Int /\ TimeOfDay(t + k) \in 0 .. Day - 1
  <2>1. t + k \in Nat
    OBVIOUS
  <2>. QED  BY <2>1, Division
<1>. DEFINE q == t \div Day
            p == (t + k) \div Day
            r == TimeOfDay(t) + k
            s == TimeOfDay(t + k)
<1>3. r \in 0 .. Day - 1 /\ Day \in Nat
  BY <1>1, TimeAssumption
<1>4. Day * q + r = Day * p + s
  <2>1. t = Day * q + TimeOfDay(t) /\ t + k = Day * p + s
    BY <1>1, <1>2
  <2>2. q \in Int /\ p \in Int /\ s \in Int /\ TimeOfDay(t) \in Int /\ Day \in Int
    BY <1>1, <1>2, <1>3
  <2>. HIDE DEF p, q, s
  <2>. DEFINE x == Day * q
              y == Day * p
  <2>3. x \in Int /\ y \in Int
    BY <2>2
  <2>4. t = x + TimeOfDay(t) /\ t + k = y + s
    BY <2>1
  <2>. HIDE DEF x, y
  <2>5. x + r = y + s
    BY <2>2, <2>3, <2>4
  <2>. QED  BY <2>5 DEF x, y
<1>. HIDE DEF p, q, r, s
<1>5. r = s
  BY <1>1, <1>2, <1>3, <1>4, OneTimeOfDay DEF p, q, s
<1>. QED  BY <1>5 DEF r, s

\* The next tick is the next time of the day, or midnight.
LEMMA NextTime ==
    ASSUME NEW t \in Nat
    PROVE  /\ TimeOfDay(t) \in 0 .. Day - 1
           /\ TimeOfDay(t + 1) = IF TimeOfDay(t) + 1 = Day THEN 0 ELSE TimeOfDay(t) + 1
<1>1. /\ t = Day * (t \div Day) + TimeOfDay(t)
      /\ t \div Day \in Int /\ TimeOfDay(t) \in 0 .. Day - 1
  BY Division
<1>2. Day \in Nat /\ Day > 0
  BY TimeAssumption
<1>3. CASE TimeOfDay(t) + 1 # Day
  <2>1. TimeOfDay(t) + 1 < Day
    BY <1>1, <1>2, <1>3
  <2>. QED  BY <1>1, <1>3, <2>1, LaterToday
<1>4. CASE TimeOfDay(t) + 1 = Day
  <2>. DEFINE q == t \div Day
              p == (t + 1) \div Day
              s == TimeOfDay(t + 1)
  <2>1. t + 1 = Day * p + s /\ p \in Int /\ s \in 0 .. Day - 1
    <3>1. t + 1 \in Nat
      OBVIOUS
    <3>. QED  BY <3>1, Division
  <2>2. t + 1 = Day * (q + 1) + 0 /\ q + 1 \in Int /\ 0 \in 0 .. Day - 1
    <3>1. t + 1 = Day * q + Day /\ q \in Int
      BY <1>1, <1>2, <1>4
    <3>. HIDE DEF q
    <3>. QED  BY <1>2, <3>1, SMT
  <2>. HIDE DEF p, q, s
  <2>3. 0 = s
    BY <2>1, <2>2, OneTimeOfDay
  <2>. QED  BY <1>1, <1>4, <2>3 DEF s
<1>. QED  BY <1>3, <1>4

\* A poll that keeps its time limit stays in the day it began in.
LEMMA RunningToday ==
    ASSUME Short, NEW b \in Nat, NEW t \in Nat, InWindow(b), b <= t, t <= b + TaskLimit
    PROVE  /\ TimeOfDay(t) = TimeOfDay(b) + (t - b) /\ TimeOfDay(b) \in Nat
           /\ Start <= TimeOfDay(t) /\ TimeOfDay(t) <= End + TaskLimit
<1>1. {Start, End, TaskLimit, Day} \subseteq Nat
  BY TimeAssumption
<1>2. TimeOfDay(b) \in Nat /\ Start <= TimeOfDay(b) /\ TimeOfDay(b) <= End
  BY <1>1, NextTime DEF InWindow
<1>. DEFINE k == t - b
<1>3. k \in Nat /\ k <= TaskLimit /\ TimeOfDay(b) + k < Day /\ t = b + k
  BY <1>1, <1>2 DEF Short
<1>. HIDE DEF k
<1>4. TimeOfDay(t) = TimeOfDay(b) + k
  BY <1>2, <1>3, LaterToday
<1>. QED  BY <1>1, <1>2, <1>3, <1>4 DEF k

------------------------------------------------------------------------------
\* What makes FreshWindow inductive: a poll keeps its time limit, and the state
\* expires between the end of the window it was written in and the time limit of
\* the polls of that window.
Timely(s, p, t) ==
    s # "idle" => /\ p.begun <= t /\ t <= p.begun + TaskLimit
                  /\ InWindow(p.begun)
                  /\ s = "set" => p.begun <= p.stamp /\ p.stamp <= t
ITimely == \A w \in Worker : Timely(pc[w], poll[w], now)
Today == now - TimeOfDay(now)
IExpiry == store # Nothing => /\ now < expiry
                              /\ Start <= TimeOfDay(now)
                              /\ Today + End <= expiry
                              /\ expiry <= Today + End + TaskLimit
IFresh == TypeOK /\ ITimely /\ IExpiry

\* A step of a poll, or its failure: the poll goes on with the beginning it had,
\* and reads the clock before it writes.
Moves(w) == WorkerStep(w) \/ CheckFails(w) \/ CommitFails(w) \/ StoreFails(w) \/ Crash(w)
GoesOn(w, s, p) ==
    /\ Continue(w, s, p)
    /\ s # "idle" => IF pc[w] = "idle" THEN p.begun = now /\ InWindow(now)
                                       ELSE p.begun = poll[w].begun
    /\ s = "set" => p.stamp = now

\* Going on after a message keeps the beginning of the poll.
LEMMA FinishGoesOn ==
    ASSUME NEW w \in Worker, poll[w] \in Poll, pc[w] # "idle", Finish(w, poll[w])
    PROVE  \E s, p : GoesOn(w, s, p)
<1>. DEFINE q == [poll[w] EXCEPT !.stage = "alert", !.sent = FALSE]
<1>1. q.begun = poll[w].begun
  BY DEF Poll
<1>2. GoesOn(w, "send", q) \/ GoesOn(w, "idle", NoPoll)
  BY <1>1 DEF Finish, Stop, GoesOn
<1>. QED  BY <1>2

\* So does every step of a poll; a new one begins now, inside the window.
LEMMA MovesGoOn ==
    ASSUME TypeOK, NEW w \in Worker, Moves(w)
    PROVE  now' = now /\ \E s, p : GoesOn(w, s, p)
<1>. DEFINE p == poll[w]
<1>1. p \in Poll
  BY DEF TypeOK
<1>2. CASE Begin(w)
  <2>. DEFINE q == [NoPoll EXCEPT !.seen = report, !.begun = now,
                                  !.roster = {x \in Pref : contact[x] # "gone"}]
  <2>1. q.begun = now
    BY DEF NoPoll
  <2>2. GoesOn(w, "check", q)
    BY <1>2, <2>1 DEF Begin, GoesOn
  <2>. QED  BY <1>2, <2>2 DEF Begin
<1>3. CASE Check(w)
  <2>. DEFINE due == DueLines(p.seen, store, now)
              q(c) == [p EXCEPT !.due = due, !.cleared = c,
                                !.stage = IF c # {} THEN "clear" ELSE "alert"]
  <2>1. PICK c \in ClearedLines(p.seen, store) :
           IF c = {} /\ due = {} THEN Stop(w) ELSE Continue(w, "send", q(c))
    BY <1>3 DEF Check
  <2>2. q(c).begun = p.begun
    BY <1>1 DEF Poll
  <2>3. GoesOn(w, "idle", NoPoll) \/ GoesOn(w, "send", q(c))
    BY <1>3, <2>1, <2>2 DEF Check, Stop, GoesOn
  <2>. QED  BY <1>3, <2>3 DEF Check
<1>4. CASE CheckFails(w)
  <2>. DEFINE q == [p EXCEPT !.due = AlertableLines(p.seen)]
  <2>1. q.begun = p.begun
    BY <1>1 DEF Poll
  <2>2. GoesOn(w, "send", q)
    BY <1>4, <2>1 DEF CheckFails, GoesOn
  <2>. QED  BY <1>4, <2>2 DEF CheckFails
<1>5. ASSUME NEW ok \in SUBSET Pref, Send(w, ok)
      PROVE  now' = now /\ \E s, r : GoesOn(w, s, r)
  <2>. DEFINE q == [p EXCEPT !.sent = ok # {}]
  <2>1. q.begun = p.begun
    BY <1>1 DEF Poll
  <2>2. now' = now /\ pc[w] = "send" /\ (Finish(w, p) \/ Continue(w, "commit", q))
    BY <1>5 DEF Send
  <2>3. CASE Continue(w, "commit", q)
    <3>1. GoesOn(w, "commit", q)
      BY <2>1, <2>2, <2>3 DEF GoesOn
    <3>. QED  BY <2>2, <3>1
  <2>. QED  BY <1>1, <2>2, <2>3, FinishGoesOn
<1>6. CASE Commit(w)
  <2>1. CASE Continue(w, "get", p)
    <3>1. GoesOn(w, "get", p)
      BY <1>6, <2>1 DEF Commit, GoesOn
    <3>. QED  BY <1>6, <3>1 DEF Commit
  <2>. QED  BY <1>1, <1>6, <2>1, FinishGoesOn DEF Commit
<1>7. CASE Get(w)
  <2>. DEFINE q == [p EXCEPT !.got = store, !.stamp = now]
  <2>1. q.begun = p.begun /\ q.stamp = now
    BY <1>1 DEF Poll
  <2>2. CASE Continue(w, "set", q)
    <3>1. GoesOn(w, "set", q)
      BY <1>7, <2>1, <2>2 DEF Get, GoesOn
    <3>. QED  BY <1>7, <3>1 DEF Get
  <2>. QED  BY <1>1, <1>7, <2>2, FinishGoesOn DEF Get
<1>8. CASE Set(w) \/ StoreFails(w)
  BY <1>1, <1>8, FinishGoesOn DEF Set, StoreFails
<1>9. CASE CommitFails(w) \/ Crash(w)
  <2>1. GoesOn(w, "idle", NoPoll)
    BY <1>9 DEF CommitFails, Crash, Stop, GoesOn
  <2>. QED  BY <1>9, <2>1 DEF CommitFails, Crash
<1>. QED  BY <1>2, <1>3, <1>4, <1>5, <1>6, <1>7, <1>8, <1>9 DEF Moves, WorkerStep

\* A poll that keeps its time limit keeps it at its next step.
LEMMA MovesTimely ==
    ASSUME TypeOK, ITimely, NEW w \in Worker, Moves(w)
    PROVE  ITimely'
<1>1. now' = now /\ now \in Nat /\ TaskLimit \in Nat
  BY MovesGoOn, TimeAssumption DEF TypeOK
<1>2. PICK s, p : GoesOn(w, s, p)
  BY MovesGoOn
<1>3. pc' = [pc EXCEPT ![w] = s] /\ poll' = [poll EXCEPT ![w] = p]
  BY <1>2 DEF GoesOn, Continue
<1>4. Timely(s, p, now)
  BY <1>1, <1>2 DEF GoesOn, ITimely, Timely
<1>5. ASSUME NEW v \in Worker PROVE Timely(pc'[v], poll'[v], now)
  <2>1. CASE v = w
    BY <1>3, <1>4, <2>1 DEF TypeOK
  <2>2. CASE v # w
    BY <1>3, <2>2 DEF TypeOK, ITimely
  <2>. QED  BY <2>1, <2>2
<1>. QED  BY <1>1, <1>5 DEF ITimely

\* What is written expires after the window, within the time limit of its polls:
\* the time to live was computed at most a time limit ago, on the same day.
LEMMA SetExpiry ==
    ASSUME Short, IFresh, NEW w \in Worker, Set(w)
    PROVE  IExpiry'
<1>. DEFINE p == poll[w]
            b == p.begun
            ttl == TimeToLive(p.stamp)
<1>1. /\ p \in Poll /\ b \in Nat /\ p.stamp \in Nat /\ now \in Nat
      /\ {Start, End, TaskLimit, Day} \subseteq Nat
  BY TimeAssumption DEF IFresh, TypeOK, Poll
<1>2. /\ b <= now /\ now <= b + TaskLimit /\ InWindow(b)
      /\ b <= p.stamp /\ p.stamp <= now
  BY DEF Set, IFresh, ITimely, Timely
<1>3. /\ TimeOfDay(now) = TimeOfDay(b) + (now - b) /\ Start <= TimeOfDay(now)
      /\ TimeOfDay(b) \in Nat
  BY <1>1, <1>2, RunningToday
<1>4. TimeOfDay(p.stamp) = TimeOfDay(b) + (p.stamp - b)
  <2>1. p.stamp <= b + TaskLimit
    BY <1>1, <1>2
  <2>. QED  BY <1>1, <1>2, <2>1, RunningToday
<1>5. now' = now
  BY DEF Set
<1>6. CASE ttl > 0 /\ expiry' = now + ttl
  BY <1>1, <1>2, <1>3, <1>4, <1>5, <1>6 DEF IExpiry, TimeToLive, Today
<1>7. CASE store' = Nothing
  BY <1>7 DEF IExpiry
<1>8. CASE store' = store /\ expiry' = expiry
  BY <1>5, <1>8 DEF IFresh, IExpiry, Today
<1>. QED  BY <1>6, <1>7, <1>8 DEF Set

\* No other step of a poll writes the key.
LEMMA MovesExpiry ==
    ASSUME Short, IFresh, NEW w \in Worker, Moves(w)
    PROVE  IExpiry'
<1>1. CASE Set(w)
  BY <1>1, SetExpiry
<1>2. CASE UNCHANGED <<now, store, expiry>>
  BY <1>2 DEF IFresh, IExpiry, Today
<1>. QED  BY <1>1, <1>2 DEF Moves, WorkerStep, Begin, Check, Commit, Get, Send, CheckFails,
          CommitFails, StoreFails, Crash, redis

\* A state that outlives a tick outlives it within its day.
LEMMA TickExpiry ==
    ASSUME Short, IFresh, Tick, store' # Nothing
    PROVE  /\ store' = store /\ now + 1 < expiry
           /\ TimeOfDay(now + 1) = TimeOfDay(now) + 1
<1>1. store' = store /\ store # Nothing /\ now \in Nat /\ expiry \in Nat /\ now + 1 < expiry
  BY TimeAssumption DEF Tick, IFresh, TypeOK
<1>2. expiry <= Today + End + TaskLimit
  BY <1>1 DEF IFresh, IExpiry
<1>3. TimeOfDay(now) + 1 < Day /\ TimeOfDay(now) \in Nat
  BY <1>1, <1>2, NextTime, TimeAssumption DEF Today, Short
<1>. QED  BY <1>1, <1>3, LaterToday

\* Time does not break the limit, and takes the state with it.
LEMMA TickFresh ==
    ASSUME Short, IFresh, Tick
    PROVE  ITimely' /\ IExpiry'
<1>1. /\ now \in Nat /\ now' = now + 1 /\ expiry' = expiry /\ expiry \in Nat
      /\ {Start, End, TaskLimit} \subseteq Nat
  BY TimeAssumption DEF Tick, IFresh, TypeOK
<1>2. ASSUME NEW w \in Worker PROVE Timely(pc'[w], poll'[w], now')
  <2>1. poll[w] \in Poll /\ poll[w].begun \in Nat /\ poll[w].stamp \in Nat
    BY DEF IFresh, TypeOK, Poll
  <2>. QED  BY <1>1, <2>1 DEF Tick, IFresh, ITimely, Timely
<1>3. ASSUME store' # Nothing
      PROVE  /\ now' < expiry' /\ Start <= TimeOfDay(now')
             /\ Today' + End <= expiry' /\ expiry' <= Today' + End + TaskLimit
  <2>1. /\ store # Nothing /\ now + 1 < expiry /\ TimeOfDay(now') = TimeOfDay(now) + 1
        /\ TimeOfDay(now) \in Nat
    BY <1>1, <1>3, TickExpiry, NextTime
  <2>2. Today' = Today
    BY <1>1, <2>1 DEF Today
  <2>3. Start <= TimeOfDay(now) /\ Today + End <= expiry /\ expiry <= Today + End + TaskLimit
    BY <2>1 DEF IFresh, IExpiry
  <2>. QED  BY <1>1, <2>1, <2>2, <2>3
<1>. QED  BY <1>2, <1>3 DEF ITimely, IExpiry

\* No step breaks the time limits or the expiry.
LEMMA NextFresh == Short /\ IFresh /\ [Next]_vars => IFresh'
<1>. SUFFICES ASSUME Short, IFresh, [Next]_vars PROVE ITimely' /\ IExpiry'
  BY NextType DEF IFresh
<1>1. CASE UNCHANGED vars
  BY <1>1 DEF vars, IFresh, ITimely, IExpiry, Today
<1>2. CASE Environment
  <2>1. UNCHANGED <<now, store, expiry, pc, poll>>
    BY <1>2 DEF Environment, Change, DeletePref, VerifyContact, DeleteContact,
                SetContact, redis
  <2>. QED  BY <2>1 DEF IFresh, ITimely, IExpiry, Today
<1>3. CASE Flush
  BY <1>3 DEF Flush, IFresh, ITimely, IExpiry
<1>4. ASSUME NEW w \in Worker, Moves(w) PROVE ITimely' /\ IExpiry'
  BY <1>4, MovesTimely, MovesExpiry DEF IFresh
<1>. QED  BY <1>1, <1>2, <1>3, <1>4, TickFresh DEF Next, Fault, Moves

\* For any number of workers, any failures and a schedule that ends more than the
\* time limit of a poll before midnight: the state of a window is gone when the
\* next one opens.
THEOREM WindowsStartFresh ==
    ASSUME Short
    PROVE  Spec => []FreshWindow
<1>1. Init => IFresh
  BY InitType DEF Init, IFresh, ITimely, Timely, IExpiry
<1>2. IFresh => FreshWindow
  <2>. SUFFICES ASSUME IFresh, store # Nothing
                PROVE  TimeOfDay(now) \in Start .. End + TaskLimit
    BY DEF FreshWindow
  <2>. QED  BY NextTime, TimeAssumption DEF IFresh, TypeOK, IExpiry, Today
<1>3. IFresh /\ [Next]_vars => IFresh'
  BY NextFresh
<1>. QED  BY <1>1, <1>2, <1>3, PTL DEF Spec
------------------------------------------------------------------------------
\* What makes OneRepeatPerFault inductive, for the only worker w and the line l.
\* Between two messages the key and the reader agree while the window is open
\* (Settled); between a message and the state that records it the reader knows
\* what will be written (Learned); what was read back is what is there (ReadBack);
\* a line waits for its message only if that is news (DueIsNews), and a status
\* update only if its reader was alerted (ClearedIsTold).  Here s is the step of
\* the worker, p its locals, e what the reader was told, k the key, t the time.
IsOpen(t) == Start <= TimeOfDay(t) /\ TimeOfDay(t) < End
Same(k, e) == k.full = e.full /\ e.at <= k.at /\ (k = NoEntry <=> e = NoEntry)
Agree(k, e, t) == (k # NoEntry => e # NoEntry) /\ (IsOpen(t) => Same(k, e))
Pending(l, s, p) == l \in Topic(p) /\ Delivered(s, p)
Ahead(s, p) == s = "send" \/ (s \in {"commit", "get", "set"} /\ p.stage = "clear")

Settled(l, s, p, e, k, t) == ~Pending(l, s, p) => Agree(k, e, t)
Learned(l, s, p, e, t) ==
    Pending(l, s, p) => IF p.stage = "clear" THEN e = NoEntry
                        ELSE /\ e.full = Alertable(p.seen[l]) /\ e.full # {}
                             /\ e.at <= t /\ (s = "set" => e.at <= p.stamp)
ReadBack(l, s, p, e, k, t) ==
    s = "set" /\ ~Pending(l, s, p) => /\ p.got[l] # NoEntry => e # NoEntry
                                      /\ IsOpen(t) => p.got[l] = k
DueIsNews(l, s, p, e, t) ==
    l \in p.due /\ Ahead(s, p) => \/ TimeOfDay(t) >= End
                                  \/ ~Redundant(Alertable(p.seen[l]), e, t)
ClearedIsTold(l, s, p, e) == l \in p.cleared /\ s = "send" /\ p.stage = "clear" => e # NoEntry
Ordered(l, s, p, e, k, t) ==
    /\ Settled(l, s, p, e, k, t) /\ Learned(l, s, p, e, t) /\ ReadBack(l, s, p, e, k, t)
    /\ DueIsNews(l, s, p, e, t) /\ ClearedIsTold(l, s, p, e)

\* A failure may put a line out of order, once; the repetition that follows puts
\* it in order again.
InOrder(w, l) == Ordered(l, pc[w], poll[w], told[l], store[l], now)
Debt(w, l) == IF InOrder(w, l) THEN 0 ELSE 1
IDebt == \A w \in Worker : Worker = {w} => \A l \in Line : repeats[l] + Debt(w, l) <= faults

\* The values a step compares.
LEMMA Values ==
    ASSUME TypeOK, NEW w \in Worker, NEW l \in Line
    PROVE  /\ poll[w] \in Poll /\ now \in Nat /\ Cooldown \in Nat
           /\ {Start, End, Day, TaskLimit} \subseteq Nat
           /\ told[l] \in Entry /\ store[l] \in Entry
           /\ told[l].at \in Nat /\ store[l].at \in Nat
           /\ poll[w].stamp \in Nat /\ poll[w].begun \in Nat /\ TimeOfDay(now) \in Nat
BY NextTime, TimeAssumption DEF TypeOK, Poll, Entry

\* The beginning of a poll disturbs nothing.
LEMMA BeginOrders ==
    ASSUME TypeOK, NEW w \in Worker, NEW l \in Line, Begin(w), InOrder(w, l)
    PROVE  InOrder(w, l)'
<1>1. Agree(store[l], told[l], now)
  BY DEF Begin, InOrder, Ordered, Settled, Pending, Delivered
<1>2. pc'[w] = "check" /\ store' = store /\ told' = told /\ now' = now
  BY DEF Begin, Continue, TypeOK, redis, hist
<1>. QED  BY <1>1, <1>2 DEF InOrder, Ordered, Settled, Learned, ReadBack, DueIsNews,
          ClearedIsTold, Pending, Delivered, Ahead

\* A worker between two messages is in order if key and reader agree.
LEMMA RestOrders ==
    ASSUME TypeOK, NEW w \in Worker, NEW l \in Line, Stop(w),
           Agree(store'[l], told'[l], now')
    PROVE  InOrder(w, l)'
<1>1. pc'[w] = "idle" /\ poll'[w] = NoPoll
  BY DEF Stop, Continue, TypeOK
<1>. QED  BY <1>1 DEF InOrder, Ordered, Settled, Learned, ReadBack, DueIsNews,
          ClearedIsTold, Pending, Delivered, Ahead

\* The same after a message, the alert that may follow still being news.
LEMMA FinishOrders ==
    ASSUME TypeOK, NEW w \in Worker, NEW l \in Line, Finish(w, poll[w]),
           Agree(store'[l], told'[l], now'),
           poll[w].stage = "clear" /\ l \in poll[w].due =>
              \/ TimeOfDay(now') >= End
              \/ ~Redundant(Alertable(poll[w].seen[l]), told'[l], now')
    PROVE  InOrder(w, l)'
<1>. DEFINE p == poll[w]
            q == [p EXCEPT !.stage = "alert", !.sent = FALSE]
<1>1. p \in Poll
  BY Values
<1>2. CASE Stop(w)
  BY <1>2, RestOrders
<1>3. CASE p.stage = "clear" /\ Continue(w, "send", q)
  <2>1. q.seen = p.seen /\ q.due = p.due /\ q.stage = "alert"
    BY <1>1 DEF Poll
  <2>2. pc'[w] = "send" /\ poll'[w] = q
    BY <1>3 DEF Continue, TypeOK
  <2>. HIDE DEF q
  <2>. QED  BY <1>3, <2>1, <2>2 DEF InOrder, Ordered, Settled, Learned, ReadBack, DueIsNews,
            ClearedIsTold, Pending, Delivered, Ahead
<1>. QED  BY <1>2, <1>3 DEF Finish

\* What the key calls due is news to a reader who agrees with it, and what it
\* calls cleared he was alerted of.
LEMMA NeededIsNews ==
    ASSUME NEW e \in Entry, NEW k \in Entry, NEW t \in Nat, NEW c, Same(k, e),
           AlertNeeded(c, k, t)
    PROVE  ~Redundant(c, e, t)
<1>1. e.at \in Nat /\ k.at \in Nat /\ Cooldown \in Nat
  BY TimeAssumption DEF Entry
<1>. QED  BY <1>1 DEF Same, AlertNeeded, Redundant

\* What the check decides is in order.
LEMMA CheckOrders ==
    ASSUME TypeOK, ITimely, Short, NEW w \in Worker, NEW l \in Line, Check(w), InOrder(w, l)
    PROVE  InOrder(w, l)'
<1>. DEFINE p == poll[w]
            due == DueLines(p.seen, store, now)
            q(c) == [p EXCEPT !.due = due, !.cleared = c,
                              !.stage = IF c # {} THEN "clear" ELSE "alert"]
<1>1. p \in Poll
  BY Values
<1>2. Agree(store[l], told[l], now)
  BY DEF Check, InOrder, Ordered, Settled, Pending, Delivered
<1>3. store' = store /\ told' = told /\ now' = now
  <2>1. UNCHANGED <<now, redis, hist>>
    BY Zenon DEF Check
  <2>. QED  BY <2>1 DEF redis, hist
<1>4. PICK c \in ClearedLines(p.seen, store) :
         IF c = {} /\ due = {} THEN Stop(w) ELSE Continue(w, "send", q(c))
  BY DEF Check
<1>5. l \in c => told[l] # NoEntry
  BY <1>2 DEF ClearedLines, Agree
<1>6. l \in due => TimeOfDay(now) >= End \/ ~Redundant(Alertable(p.seen[l]), told[l], now)
  <2>. SUFFICES ASSUME l \in due, ~(TimeOfDay(now) >= End)
                PROVE  ~Redundant(Alertable(p.seen[l]), told[l], now)
    OBVIOUS
  <2>1. Start <= TimeOfDay(now)
    BY Values, RunningToday DEF ITimely, Timely, Check
  <2>2. Same(store[l], told[l])
    BY <1>2, <2>1, Values DEF Agree, IsOpen
  <2>. QED  BY <2>2, Values, NeededIsNews DEF DueLines
<1>7. CASE Stop(w)
  BY <1>2, <1>3, <1>7, RestOrders
<1>8. CASE Continue(w, "send", q(c))
  <2>1. q(c).seen = p.seen /\ q(c).due = due /\ q(c).cleared = c
    BY <1>1 DEF Poll
  <2>2. pc'[w] = "send" /\ poll'[w] = q(c)
    BY <1>8 DEF Continue, TypeOK
  <2>. HIDE DEF q, due
  <2>. QED  BY <1>2, <1>3, <1>5, <1>6, <2>1, <2>2 DEF InOrder, Ordered, Settled, Learned,
            ReadBack, DueIsNews, ClearedIsTold, Pending, Delivered, Ahead
<1>. QED  BY <1>4, <1>7, <1>8

\* A message to somebody puts its lines in order, whatever was lost before.
LEMMA TellingOrders ==
    ASSUME TypeOK, IPolls, NEW w \in Worker, NEW ok \in SUBSET Pref, Send(w, ok),
           ok # {}, NEW l \in Topic(poll[w]), l \in Line
    PROVE  InOrder(w, l)'
<1>. DEFINE p == poll[w]
            q == [p EXCEPT !.sent = ok # {}]
<1>1. p \in Poll /\ now \in Nat
  BY Values
<1>2. p.roster # {} /\ Continue(w, "commit", q) /\ now' = now /\ pc[w] = "send"
  BY DEF Send, Reachable
<1>3. q.stage = p.stage /\ q.due = p.due /\ q.cleared = p.cleared /\ q.seen = p.seen
  BY <1>1 DEF Poll
<1>4. pc'[w] = "commit" /\ poll'[w] = q /\ q.sent
  BY <1>1, <1>2 DEF Continue, TypeOK, Poll
<1>5. told'[l] = IF p.stage = "alert" THEN [full |-> Alertable(p.seen[l]), at |-> now]
                                      ELSE NoEntry
  BY DEF Send
<1>6. p.stage = "alert" => Alertable(p.seen[l]) # {}
  BY DEF Topic, IPolls, PollOK
<1>7. p.stage \in {"alert", "clear"}
  BY <1>1 DEF Poll
<1>. HIDE DEF q, p
<1>8. Pending(l, "commit", q)
  BY <1>3, <1>4 DEF Pending, Delivered, Topic, p
<1>. QED  BY <1>1, <1>2, <1>3, <1>4, <1>5, <1>6, <1>7, <1>8 DEF InOrder, Ordered, Settled,
          Learned, ReadBack, DueIsNews, ClearedIsTold, Ahead, Redundant

\* A message nobody got changes nothing the reader or the key knows.
LEMMA UntoldOrders ==
    ASSUME TypeOK, NEW w \in Worker, NEW ok \in SUBSET Pref, Send(w, ok), NEW l \in Line,
           ok = {} \/ l \notin Topic(poll[w]), InOrder(w, l)
    PROVE  InOrder(w, l)'
<1>. DEFINE p == poll[w]
            q == [p EXCEPT !.sent = ok # {}]
<1>1. p \in Poll
  BY Values
<1>2. told'[l] = told[l] /\ store' = store /\ now' = now /\ pc[w] = "send"
  BY DEF Send, redis
<1>3. Agree(store[l], told[l], now)
  BY <1>2 DEF InOrder, Ordered, Settled, Pending, Delivered
<1>4. CASE Continue(w, "commit", q)
  <2>1. /\ q.stage = p.stage /\ q.due = p.due /\ q.cleared = p.cleared /\ q.seen = p.seen
        /\ q.sent => ok # {}
    BY <1>1 DEF Poll
  <2>2. pc'[w] = "commit" /\ poll'[w] = q
    BY <1>4 DEF Continue, TypeOK
  <2>. HIDE DEF q
  <2>3. ~Pending(l, "commit", q)
    BY <2>1 DEF Pending, Delivered, Topic
  <2>. QED  BY <1>2, <1>3, <2>1, <2>2, <2>3 DEF InOrder, Ordered, Settled, Learned, ReadBack,
            DueIsNews, ClearedIsTold, Ahead
<1>5. CASE Finish(w, p)
  <2>1. p.stage = "clear" /\ l \in p.due =>
           TimeOfDay(now) >= End \/ ~Redundant(Alertable(p.seen[l]), told[l], now)
    BY <1>2 DEF InOrder, Ordered, DueIsNews, Ahead
  <2>. QED  BY <1>2, <1>3, <1>5, <2>1, FinishOrders
<1>. QED  BY <1>4, <1>5 DEF Send

\* A message that is counted as a repetition is one about a line out of order.
LEMMA RepeatsOutOfOrder ==
    ASSUME TypeOK, NEW w \in Worker, NEW ok \in SUBSET Pref, Send(w, ok), NEW l \in Line
    PROVE  /\ repeats'[l] \in {repeats[l], repeats[l] + 1}
           /\ repeats'[l] # repeats[l] => ok # {} /\ l \in Topic(poll[w]) /\ ~InOrder(w, l)
<1>. DEFINE p == poll[w]
<1>1. p \in Poll /\ pc[w] = "send" /\ End \in Nat /\ TimeOfDay(now) \in Nat
  BY Values DEF Send
<1>2. repeats'[l] = IF ok # {} /\ l \in Topic(p) /\ Useless(p, l) /\ TimeOfDay(now) < End
                    THEN repeats[l] + 1 ELSE repeats[l]
  BY DEF Send
<1>3. l \in Topic(p) /\ Useless(p, l) /\ TimeOfDay(now) < End => ~InOrder(w, l)
  <2>1. p.stage \in {"alert", "clear"}
    BY <1>1 DEF Poll
  <2>2. CASE p.stage = "alert"
    BY <1>1, <2>2 DEF Topic, Useless, InOrder, Ordered, DueIsNews, Ahead
  <2>3. CASE p.stage = "clear"
    BY <1>1, <2>3 DEF Topic, Useless, InOrder, Ordered, ClearedIsTold
  <2>. QED  BY <2>1, <2>2, <2>3
<1>. QED  BY <1>2, <1>3

\* The commit decides whether the state is written: it is, if anybody was told.
LEMMA CommitOrders ==
    ASSUME TypeOK, NEW w \in Worker, NEW l \in Line, Commit(w), InOrder(w, l)
    PROVE  InOrder(w, l)'
<1>. DEFINE p == poll[w]
<1>1. p \in Poll /\ pc[w] = "commit" /\ UNCHANGED <<now, store, told>>
  BY Values DEF Commit, redis, hist
<1>2. CASE p.sent /\ Continue(w, "get", p)
  <2>1. pc'[w] = "get" /\ poll'[w] = p
    BY <1>2 DEF Continue, TypeOK
  <2>2. Pending(l, "get", p) = Pending(l, "commit", p)
    BY <1>2 DEF Pending, Delivered
  <2>. QED  BY <1>1, <2>1, <2>2 DEF InOrder, Ordered, Settled, Learned, ReadBack,
            DueIsNews, ClearedIsTold, Ahead
<1>3. CASE ~p.sent /\ Finish(w, p)
  <2>1. Agree(store[l], told[l], now)
    BY <1>1, <1>3 DEF InOrder, Ordered, Settled, Pending, Delivered
  <2>2. p.stage = "clear" /\ l \in p.due =>
           TimeOfDay(now) >= End \/ ~Redundant(Alertable(p.seen[l]), told[l], now)
    BY <1>1 DEF InOrder, Ordered, DueIsNews, Ahead
  <2>. QED  BY <1>1, <1>3, <2>1, <2>2, FinishOrders
<1>. QED  BY <1>2, <1>3 DEF Commit

\* What is read back is what there is; an empty key leaves nothing to clear.
LEMMA GetOrders ==
    ASSUME TypeOK, NEW w \in Worker, NEW l \in Line, Get(w), InOrder(w, l)
    PROVE  InOrder(w, l)'
<1>. DEFINE p == poll[w]
            q == [p EXCEPT !.got = store, !.stamp = now]
<1>1. /\ p \in Poll /\ pc[w] = "get" /\ UNCHANGED <<now, store, told>>
      /\ now \in Nat /\ told[l].at \in Nat /\ p.stage \in {"alert", "clear"}
  BY Values DEF Get, redis, hist, Poll
<1>2. CASE p.stage = "clear" /\ store = Nothing /\ Finish(w, p)
  <2>1. Agree(store[l], told[l], now)
    BY <1>1, <1>2 DEF InOrder, Ordered, Settled, Learned, Agree, Same, Nothing, NoEntry
  <2>2. l \in p.due =>
           TimeOfDay(now) >= End \/ ~Redundant(Alertable(p.seen[l]), told[l], now)
    BY <1>1, <1>2 DEF InOrder, Ordered, DueIsNews, Ahead
  <2>. QED  BY <1>1, <1>2, <2>1, <2>2, FinishOrders
<1>3. CASE Continue(w, "set", q)
  <2>1. /\ q.stage = p.stage /\ q.due = p.due /\ q.cleared = p.cleared /\ q.seen = p.seen
        /\ q.got = store /\ q.stamp = now
    BY <1>1 DEF Poll
  <2>2. pc'[w] = "set" /\ poll'[w] = q
    BY <1>3 DEF Continue, TypeOK
  <2>. HIDE DEF q
  <2>3. Pending(l, "set", q) = Pending(l, "get", p)
    BY <2>1 DEF Pending, Delivered, Topic
  <2>4. Agree(store[l], told[l], now) => ReadBack(l, "set", q, told[l], store[l], now)
    BY <2>1 DEF Agree, ReadBack
  <2>. QED  BY <1>1, <2>1, <2>2, <2>3, <2>4 DEF InOrder, Ordered, Settled, Learned, ReadBack,
            DueIsNews, ClearedIsTold, Ahead
<1>. QED  BY <1>2, <1>3 DEF Get

\* What is written is what the reader was told, or what was there.  A poll that
\* finds the window over writes nothing, or deletes the key.
LEMMA SetOrders ==
    ASSUME TypeOK, ITimely, Short, NEW w \in Worker, NEW l \in Line, Set(w), InOrder(w, l)
    PROVE  InOrder(w, l)'
<1>. DEFINE p == poll[w]
            ttl == TimeToLive(p.stamp)
<1>1. /\ p \in Poll /\ pc[w] = "set" /\ Finish(w, p) /\ UNCHANGED <<now, told>>
      /\ p.stage \in {"alert", "clear"} /\ NoEntry.full = {} /\ NoEntry.at = 0
  BY Values DEF Set, hist, Poll, NoEntry
<1>2. l \in p.due /\ p.stage = "clear" =>
         TimeOfDay(now) >= End \/ ~Redundant(Alertable(p.seen[l]), told[l], now)
  BY <1>1 DEF InOrder, Ordered, DueIsNews, Ahead
<1>3. CASE ttl > 0 /\ store'[l] = Merged(p)[l]
  <2>1. CASE l \in Topic(p) /\ p.stage = "alert"
    <3>1. store'[l] = [full |-> Alertable(p.seen[l]), at |-> p.stamp]
      BY <1>3, <2>1 DEF Merged
    <3>2. told[l].full = Alertable(p.seen[l]) /\ told[l].full # {} /\ told[l].at <= p.stamp
      BY <1>1, <2>1 DEF InOrder, Ordered, Learned, Pending, Delivered
    <3>3. Agree(store'[l], told[l], now)
      BY <1>1, <3>1, <3>2 DEF Agree, Same
    <3>. QED  BY <1>1, <1>2, <3>3, FinishOrders
  <2>2. CASE l \in Topic(p) /\ p.stage = "clear"
    <3>1. store'[l] = NoEntry
      BY <1>3, <2>2 DEF Merged
    <3>2. told[l] = NoEntry
      BY <1>1, <2>2 DEF InOrder, Ordered, Learned, Pending, Delivered
    <3>3. Agree(store'[l], told[l], now)
      BY <1>1, <3>1, <3>2 DEF Agree, Same
    <3>. QED  BY <1>1, <1>2, <3>3, FinishOrders
  <2>3. CASE l \notin Topic(p)
    <3>1. store'[l] = p.got[l]
      BY <1>3, <2>3 DEF Merged
    <3>2. Agree(store'[l], told[l], now)
      BY <1>1, <2>3, <3>1 DEF InOrder, Ordered, Settled, ReadBack, Pending, Agree
    <3>. QED  BY <1>1, <1>2, <3>2, FinishOrders
  <2>. QED  BY <1>1, <2>1, <2>2, <2>3
<1>4. CASE ~(ttl > 0) /\ store'[l] \in {NoEntry, store[l]}
           /\ (p.stage = "clear" => store'[l] = NoEntry)
  <2>1. ~IsOpen(now)
    <3>1. /\ p.begun \in Nat /\ p.stamp \in Nat /\ now \in Nat
          /\ {Start, End, TaskLimit, Day} \subseteq Nat
      BY Values
    <3>2. /\ p.begun <= now /\ now <= p.begun + TaskLimit /\ InWindow(p.begun)
          /\ p.begun <= p.stamp /\ p.stamp <= now
      BY <1>1 DEF ITimely, Timely
    <3>3. TimeOfDay(now) = TimeOfDay(p.begun) + (now - p.begun) /\ TimeOfDay(p.begun) \in Nat
      BY <3>1, <3>2, RunningToday
    <3>4. TimeOfDay(p.stamp) = TimeOfDay(p.begun) + (p.stamp - p.begun)
      <4>1. p.stamp <= p.begun + TaskLimit
        BY <3>1, <3>2
      <4>. QED  BY <3>1, <3>2, <4>1, RunningToday
    <3>5. ~(End - TimeOfDay(p.stamp) > 0)
      BY <1>4 DEF TimeToLive
    <3>. QED  BY <3>1, <3>2, <3>3, <3>4, <3>5 DEF IsOpen
  <2>2. store'[l] # NoEntry => told[l] # NoEntry
    BY <1>1, <1>4 DEF InOrder, Ordered, Settled, Learned, Agree, Pending, Delivered
  <2>3. Agree(store'[l], told[l], now)
    BY <2>1, <2>2 DEF Agree
  <2>. QED  BY <1>1, <1>2, <2>3, FinishOrders
<1>5. CASE p.stage = "clear" /\ Merged(p) = Nothing /\ store' = Nothing
  <2>1. CASE ttl > 0
    BY <1>3, <1>5, <2>1
  <2>2. CASE ~(ttl > 0)
    BY <1>4, <1>5, <2>2 DEF Nothing
  <2>. QED  BY <2>1, <2>2
<1>. QED
  <2>1. \/ ttl > 0 /\ store' = Merged(p)
        \/ ~(ttl > 0) /\ store' = IF p.stage = "clear" THEN Nothing ELSE store
        \/ p.stage = "clear" /\ Merged(p) = Nothing /\ store' = Nothing
    BY <1>1 DEF Set
  <2>. QED  BY <1>3, <1>4, <1>5, <2>1 DEF Nothing

\* Time keeps a line in order: a poll stays in its window, the state outlives it,
\* and a new window finds no poll, no state and a reader who was told nothing.
LEMMA TickOrders ==
    ASSUME IFresh, Short, NEW w \in Worker, NEW l \in Line, Tick, InOrder(w, l)
    PROVE  InOrder(w, l)'
<1>. DEFINE p == poll[w]
            e == told[l]
<1>1. /\ TypeOK /\ p \in Poll /\ now \in Nat /\ now' = now + 1 /\ now + 1 \in Nat
      /\ {Start, End, Day, TaskLimit} \subseteq Nat
      /\ pc' = pc /\ poll' = poll /\ e.at \in Nat /\ TimeOfDay(now) \in Nat
  BY Values DEF IFresh, Tick
<1>2. TimeOfDay(now + 1) = IF TimeOfDay(now) + 1 = Day THEN 0 ELSE TimeOfDay(now) + 1
  BY <1>1, NextTime
<1>3. store' # Nothing => store' = store /\ TimeOfDay(now + 1) = TimeOfDay(now) + 1
                          /\ Start <= TimeOfDay(now)
  BY TickExpiry DEF IFresh, IExpiry, Tick
<1>4. pc[w] # "idle" => /\ TimeOfDay(now + 1) = TimeOfDay(now) + 1
                        /\ Start <= TimeOfDay(now)
  <2>. SUFFICES ASSUME pc[w] # "idle"
                PROVE  TimeOfDay(now + 1) = TimeOfDay(now) + 1 /\ Start <= TimeOfDay(now)
    OBVIOUS
  <2>1. /\ p.begun \in Nat /\ p.begun <= now /\ now + 1 <= p.begun + TaskLimit
        /\ InWindow(p.begun)
    BY <1>1, Values DEF IFresh, ITimely, Timely, Tick
  <2>2. /\ TimeOfDay(now + 1) = TimeOfDay(p.begun) + (now + 1 - p.begun)
        /\ TimeOfDay(p.begun) \in Nat
    BY <1>1, <2>1, RunningToday
  <2>3. TimeOfDay(now) = TimeOfDay(p.begun) + (now - p.begun) /\ Start <= TimeOfDay(now)
    <3>1. now <= p.begun + TaskLimit
      BY <1>1, <2>1
    <3>. QED  BY <1>1, <2>1, <3>1, RunningToday
  <2>. QED  BY <1>1, <2>1, <2>2, <2>3
<1>5. CASE TimeOfDay(now + 1) = Start
  <2>1. pc[w] = "idle" /\ store' = Nothing /\ told' = Nothing
    BY <1>1, <1>3, <1>4, <1>5 DEF Tick
  <2>2. Agree(store'[l], told'[l], now')
    BY <2>1 DEF Agree, Same, Nothing, NoEntry
  <2>. QED  BY <1>1, <2>1, <2>2 DEF InOrder, Ordered, Settled, Learned, ReadBack,
            DueIsNews, ClearedIsTold, Pending, Delivered, Ahead
<1>6. CASE TimeOfDay(now + 1) # Start
  <2>1. told' = told
    BY <1>1, <1>6 DEF Tick
  <2>2. store' = store \/ store' = Nothing
    BY DEF Tick
  <2>3. IsOpen(now + 1) => IsOpen(now) /\ store' = store
    <3>. SUFFICES ASSUME IsOpen(now + 1) PROVE IsOpen(now) /\ store' = store
      OBVIOUS
    <3>1. /\ TimeOfDay(now + 1) = TimeOfDay(now) + 1 /\ TimeOfDay(now) + 1 < End
          /\ Start <= TimeOfDay(now)
      BY <1>1, <1>2, <1>6 DEF IsOpen
    <3>2. expiry \in Nat
      BY <1>1 DEF TypeOK
    <3>3. store # Nothing => now + 1 < expiry
      BY <1>1, <3>1, <3>2 DEF IFresh, IExpiry, Today
    <3>. QED  BY <1>1, <3>1, <3>2, <3>3 DEF IsOpen, Tick
  <2>4. Settled(l, pc[w], p, e, store[l], now) => Settled(l, pc[w], p, e, store'[l], now + 1)
    BY <2>2, <2>3 DEF Settled, Agree, Nothing
  <2>5. Learned(l, pc[w], p, e, now) => Learned(l, pc[w], p, e, now + 1)
    BY <1>1 DEF Learned
  <2>6. ReadBack(l, pc[w], p, e, store[l], now) => ReadBack(l, pc[w], p, e, store'[l], now + 1)
    BY <2>3 DEF ReadBack
  <2>7. DueIsNews(l, pc[w], p, e, now) => DueIsNews(l, pc[w], p, e, now + 1)
    <3>. SUFFICES ASSUME Ahead(pc[w], p),
                         TimeOfDay(now) >= End \/ ~Redundant(Alertable(p.seen[l]), e, now)
                  PROVE  \/ TimeOfDay(now + 1) >= End
                         \/ ~Redundant(Alertable(p.seen[l]), e, now + 1)
      BY DEF DueIsNews
    <3>1. TimeOfDay(now + 1) = TimeOfDay(now) + 1
      BY <1>4 DEF Ahead
    <3>2. CASE TimeOfDay(now) >= End
      BY <1>1, <3>1, <3>2
    <3>3. CASE ~Redundant(Alertable(p.seen[l]), e, now)
      BY <1>1, <3>3, Values DEF Redundant
    <3>. QED  BY <3>2, <3>3
  <2>. HIDE DEF p, e
  <2>. QED  BY <1>1, <2>1, <2>4, <2>5, <2>6, <2>7 DEF InOrder, Ordered, p, e
<1>. QED  BY <1>5, <1>6

\* What TfL and the user do is none of the reader's or the key's business.
LEMMA EnvironmentOrders ==
    Environment => UNCHANGED <<now, store, expiry, pc, poll, faults, told, repeats>>
BY DEF Environment, Change, DeletePref, VerifyContact, DeleteContact, SetContact, redis, hist

\* Every failure is counted and tells nobody anything.
LEMMA FaultCounts == Fault => faults' = faults + 1 /\ repeats' = repeats
BY DEF Fault, Flush, CheckFails, CommitFails, StoreFails, Crash, hist

\* A line out of order costs the failure that put it there, or a repetition that
\* puts it in order again.
LEMMA NextDebt == Short /\ IInv /\ IFresh /\ IDebt /\ [Next]_vars => IDebt'
<1>. SUFFICES ASSUME Short, IInv, IFresh, IDebt, [Next]_vars,
                     NEW w \in Worker, Worker = {w}, NEW l \in Line
              PROVE  repeats'[l] + Debt(w, l)' <= faults'
  BY DEF IDebt
<1>0. /\ repeats[l] \in Nat /\ faults \in Nat /\ TypeOK /\ ITimely /\ IPolls
      /\ repeats[l] + Debt(w, l) <= faults
  BY DEF IInv, IFresh, IDebt, TypeOK
<1>1. Debt(w, l) \in {0, 1} /\ Debt(w, l)' \in {0, 1}
  BY DEF Debt
<1>2. CASE /\ repeats' = repeats /\ faults' = faults
           /\ InOrder(w, l) => InOrder(w, l)'
  BY <1>0, <1>1, <1>2 DEF Debt
<1>3. CASE UNCHANGED vars
  <2>1. InOrder(w, l) => InOrder(w, l)'
    BY <1>3 DEF vars, InOrder
  <2>. QED  BY <1>2, <1>3, <2>1 DEF vars
<1>4. CASE Tick
  BY <1>2, <1>4, TickOrders DEF Tick
<1>5. CASE Environment
  <2>1. InOrder(w, l) => InOrder(w, l)'
    BY <1>5, EnvironmentOrders DEF InOrder
  <2>. QED  BY <1>2, <1>5, <2>1, EnvironmentOrders
<1>6. CASE Fault
  BY <1>0, <1>1, <1>6, FaultCounts
<1>7. CASE Begin(w) \/ Check(w) \/ Commit(w) \/ Get(w) \/ Set(w)
  <2>1. InOrder(w, l) => InOrder(w, l)'
    BY <1>0, <1>7, BeginOrders, CheckOrders, CommitOrders, GetOrders, SetOrders
  <2>. QED  BY <1>2, <1>7, <2>1 DEF Begin, Check, Commit, Get, Set, hist
<1>8. ASSUME NEW ok \in SUBSET Pref, Send(w, ok)
      PROVE  repeats'[l] + Debt(w, l)' <= faults'
  <2>1. faults' = faults
    BY <1>8 DEF Send
  <2>2. CASE ok # {} /\ l \in Topic(poll[w])
    <3>1. InOrder(w, l)'
      BY <1>0, <1>8, <2>2, TellingOrders
    <3>2. repeats'[l] \in {repeats[l], repeats[l] + 1} /\ (repeats'[l] # repeats[l] => ~InOrder(w, l))
      BY <1>0, <1>8, RepeatsOutOfOrder
    <3>. QED  BY <1>0, <2>1, <3>1, <3>2 DEF Debt
  <2>3. CASE ok = {} \/ l \notin Topic(poll[w])
    <3>1. InOrder(w, l) => InOrder(w, l)'
      BY <1>0, <1>8, <2>3, UntoldOrders
    <3>2. repeats'[l] = repeats[l]
      BY <1>0, <1>8, <2>3, RepeatsOutOfOrder
    <3>. QED  BY <1>0, <2>1, <3>1, <3>2 DEF Debt
  <2>. QED  BY <2>2, <2>3
<1>. QED  BY <1>3, <1>4, <1>5, <1>6, <1>7, <1>8 DEF Next, WorkerStep

\* The initial states are in order.
LEMMA InitDebt == Init => IFresh /\ IDebt
<1>. SUFFICES ASSUME Init PROVE IFresh /\ IDebt
  OBVIOUS
<1>1. IFresh
  BY InitType DEF Init, IFresh, ITimely, Timely, IExpiry
<1>2. ASSUME NEW w \in Worker, NEW l \in Line PROVE InOrder(w, l)
  <2>1. pc[w] = "idle" /\ told[l] = NoEntry /\ store[l] = NoEntry
    BY <1>2 DEF Init, Nothing
  <2>2. Agree(store[l], told[l], now)
    BY <2>1 DEF Agree, Same, NoEntry
  <2>. QED  BY <2>1, <2>2 DEF InOrder, Ordered, Settled, Learned, ReadBack,
            DueIsNews, ClearedIsTold, Pending, Delivered, Ahead
<1>3. ASSUME NEW l \in Line PROVE repeats[l] = 0 /\ faults = 0
  BY <1>3 DEF Init
<1>. QED  BY <1>1, <1>2, <1>3 DEF IDebt, Debt

\* A set of one element is that element's.
LEMMA OnlyWorker == Cardinality(Worker) = 1 => \E w \in Worker : Worker = {w}
BY WorkerAssumption, FS_Singleton

\* With one worker and a schedule that ends more than the time limit of a poll
\* before midnight, whatever fails and whenever: each failure costs at most one
\* message about a line that its reader already had.
THEOREM EachFaultRepeatsOnce ==
    ASSUME Short
    PROVE  Spec => []OneRepeatPerFault
<1>. DEFINE I == IInv /\ IFresh /\ IDebt
<1>1. Init => I
  BY InitKeeps, InitDebt
<1>2. I => OneRepeatPerFault
  <2>. SUFFICES ASSUME I, Cardinality(Worker) = 1, NEW l \in Line PROVE repeats[l] <= faults
    BY DEF OneRepeatPerFault
  <2>1. PICK w \in Worker : Worker = {w}
    BY OnlyWorker
  <2>2. repeats[l] + Debt(w, l) <= faults /\ repeats[l] \in Nat /\ faults \in Nat
    BY <2>1 DEF IDebt, IInv, TypeOK
  <2>. QED  BY <2>2 DEF Debt
<1>3. I /\ [Next]_vars => I'
  BY NextKeeps, NextFresh, NextDebt
<1>. QED  BY <1>1, <1>2, <1>3, PTL DEF Spec

------------------------------------------------------------------------------
\* With one worker and no failure every line is in order at every step.
LEMMA NoFaultNoDebt ==
    ASSUME TypeOK, IDebt, MaxFaults = 0, NEW w \in Worker, Worker = {w}, NEW l \in Line
    PROVE  InOrder(w, l)
<1>1. repeats[l] \in Nat /\ faults = 0 /\ repeats[l] + Debt(w, l) <= faults
  BY DEF TypeOK, IDebt
<1>. QED  BY <1>1 DEF Debt

\* A delivered alert is an alert of the promise.
LEMMA AlertPromised ==
    ASSUME TypeOK, TypeOK', IPolls, NEW w \in Worker, NEW ok \in SUBSET Pref, Send(w, ok),
           ok # {}, poll[w].stage = "alert", poll[w].due # {},
           \A l \in Line : InOrder(w, l)
    PROVE  Promise!Next
<1>. DEFINE p == poll[w]
<1>1. /\ p \in Poll /\ now \in Nat /\ {Start, End, Day, Cooldown} \subseteq Nat
      /\ pc[w] = "send" /\ TimeOfDay(now) \in Nat
  BY Values, TimeAssumption, NextTime DEF Send, TypeOK
<1>2. p.due \in (SUBSET Line) \ {{}}
  BY <1>1 DEF Poll
<1>3. told' = [l \in Line |-> IF l \in p.due THEN [full |-> Alertable(p.seen[l]), at |-> now]
                                             ELSE told[l]]
  BY DEF Send, Topic
<1>4. ASSUME NEW l \in Line, l \in p.due
      PROVE  /\ told'[l].at = now /\ told'[l].full # {}
             /\ Promise!News(l, told'[l].full) \/ now % Day >= End
  <2>1. told'[l].at = now /\ told'[l].full = Alertable(p.seen[l])
    BY <1>3, <1>4
  <2>2. Alertable(p.seen[l]) # {}
    BY <1>4 DEF IPolls, PollOK
  <2>3. TimeOfDay(now) >= End \/ ~Redundant(Alertable(p.seen[l]), told[l], now)
    BY <1>1, <1>4 DEF InOrder, Ordered, DueIsNews, Ahead
  <2>4. told[l].at \in Nat
    BY DEF TypeOK, Entry
  <2>. QED  BY <1>1, <2>1, <2>2, <2>3, <2>4
            DEF Promise!News, Promise!NotTold, Redundant, NoEntry, TimeOfDay
<1>5. told' \in [Line -> [full : Content, at : Nat]]
  BY DEF TypeOK, Entry
<1>6. \A l \in Line : l \notin p.due => told'[l] = told[l]
  BY <1>3
<1>7. now' = now
  BY DEF Send
<1>8. Promise!Alert(p.due)
  BY <1>4, <1>5, <1>6, <1>7 DEF Promise!Alert
<1>. QED  BY <1>2, <1>8 DEF Promise!Next

\* A delivered status update is an all-clear of the promise.
LEMMA AllClearPromised ==
    ASSUME TypeOK, NEW w \in Worker, NEW ok \in SUBSET Pref, Send(w, ok),
           ok # {}, poll[w].stage = "clear", poll[w].cleared # {},
           \A l \in Line : InOrder(w, l)
    PROVE  Promise!Next
<1>. DEFINE p == poll[w]
<1>1. p \in Poll /\ pc[w] = "send" /\ now' = now
  BY DEF TypeOK, Send
<1>2. p.cleared \in (SUBSET Line) \ {{}}
  BY <1>1 DEF Poll
<1>3. told' = [l \in Line |-> IF l \in p.cleared THEN NoEntry ELSE told[l]]
  BY DEF Send, Topic
<1>4. \A l \in p.cleared : told[l] # NoEntry
  BY <1>1, <1>2 DEF InOrder, Ordered, ClearedIsTold
<1>5. Promise!AllClear(p.cleared)
  BY <1>1, <1>3, <1>4 DEF Promise!AllClear, Promise!NotTold, NoEntry
<1>. QED  BY <1>2, <1>5 DEF Promise!Next

\* A step of the alert path is a step of the promise, or none.
LEMMA StepPromised ==
    ASSUME Short, MaxFaults = 0, NEW w \in Worker, Worker = {w},
           IInv, IFresh, IDebt, [Next]_vars
    PROVE  [Promise!Next]_<<now, told>>
<1>0. TypeOK /\ IPolls /\ TypeOK' /\ \A l \in Line : InOrder(w, l)
  BY NextType, NoFaultNoDebt DEF IInv
<1>1. CASE UNCHANGED <<now, told>>
  BY <1>1
<1>2. CASE Tick
  <2>1. Promise!Tick
    BY <1>2 DEF Tick, Promise!Tick, Promise!NotTold, Nothing, NoEntry, TimeOfDay
  <2>. QED  BY <2>1 DEF Promise!Next
<1>3. ASSUME NEW ok \in SUBSET Pref, Send(w, ok)
      PROVE  [Promise!Next]_<<now, told>>
  <2>1. CASE ok = {} \/ Topic(poll[w]) = {}
    <3>1. told' = [l \in Line |-> told[l]] /\ now' = now
      BY <1>3, <2>1 DEF Send
    <3>2. told' = told
      BY <1>0, <3>1 DEF TypeOK
    <3>. QED  BY <3>1, <3>2
  <2>2. CASE ok # {} /\ Topic(poll[w]) # {}
    <3>1. poll[w].stage \in {"alert", "clear"}
      BY <1>0 DEF TypeOK, Poll
    <3>2. Topic(poll[w]) = IF poll[w].stage = "alert" THEN poll[w].due ELSE poll[w].cleared
      BY DEF Topic
    <3>3. Promise!Next
      BY <1>0, <1>3, <2>2, <3>1, <3>2, AlertPromised, AllClearPromised
    <3>. QED  BY <3>3
  <2>. QED  BY <2>1, <2>2
<1>4. CASE Fault
  <2>1. faults \in 0 .. 0 /\ faults' \in 0 .. 0
    BY <1>0 DEF TypeOK
  <2>2. faults' = faults + 1
    BY <1>4, FaultCounts
  <2>. QED  BY <2>1, <2>2
<1>5. CASE Begin(w) \/ Check(w) \/ Commit(w) \/ Get(w) \/ Set(w)
  <2>1. now' = now /\ UNCHANGED hist
    BY <1>5, Zenon DEF Begin, Check, Commit, Get, Set
  <2>. QED  BY <1>1, <2>1 DEF hist
<1>6. CASE Environment
  BY <1>1, <1>6, EnvironmentOrders
<1>7. CASE UNCHANGED vars
  BY <1>1, <1>7 DEF vars
<1>. QED  BY <1>2, <1>3, <1>4, <1>5, <1>6, <1>7 DEF Next, WorkerStep

\* With one worker, no failure and a schedule that ends more than the time limit of
\* a poll before midnight the alert path implements the promise of ADR 08, for any
\* lines, reports and preferences.
THEOREM AlertsKeepPromise ==
    ASSUME Short, MaxFaults = 0, Cardinality(Worker) = 1
    PROVE  Spec => KeepsPromise
<1>. DEFINE I == IInv /\ IFresh /\ IDebt
<1>1. PICK w \in Worker : Worker = {w}
  BY OnlyWorker
<1>2. Init => I /\ Promise!Init
  <2>1. Init => Promise!Init
    BY DEF Init, Promise!Init, Promise!NotTold, Nothing, NoEntry
  <2>. QED  BY <2>1, InitKeeps, InitDebt
<1>3. I /\ [Next]_vars => I'
  BY NextKeeps, NextFresh, NextDebt
<1>4. I /\ [Next]_vars => [Promise!Next]_<<now, told>>
  BY <1>1, StepPromised
<1>5. I /\ [Next]_vars => [Promise!Next]_(Promise!pvars)
  BY <1>4 DEF Promise!pvars
<1>. QED  BY <1>2, <1>3, <1>5, PTL DEF Spec, KeepsPromise, Promise!Spec
===============================================================================
