-------------------------------- MODULE Polling --------------------------------
(* The polls of the web pages: PollingCoordinator, the provider that pauses it   *)
(* and the hook that registers with it.  A callback is awaited and goes on by    *)
(* looking its key up again, so what it finds may be a later registration.       *)
EXTENDS Integers

CONSTANTS
    Key,          \* polls
    Authenticated,\* those that require a login
    MaxMounts,    \* bound: registrations of one poll
    MaxFocus      \* bound: focus timers of one poll at a time

ASSUME PollingAssumption == Authenticated \subseteq Key /\ MaxMounts \in Nat /\ MaxFocus \in Nat

VARIABLES
    up,         \* the backend is available
    loggedIn,   \* isBackendAuthenticated
    entry,      \* of each key "none", "running" or "paused"
    timer,      \* the timer whose id the entry holds is still to fire
    strays,     \* timers still to fire whose id was overwritten
    flights,    \* callbacks awaited, which schedule the next when they end
    focus,      \* staggered refreshes of the window's focus still to run
    fetched,    \* the last step began a fetch of this key
    mounts,     \* registrations so far
    overlaps    \* registrations while a callback or a stray timer of the key was left

pollVars == <<up, loggedIn, entry, timer, strays, flights, focus, fetched, mounts, overlaps>>

Init ==
    /\ up = TRUE /\ loggedIn \in BOOLEAN
    /\ entry = [k \in Key |-> "none"] /\ timer = [k \in Key |-> FALSE]
    /\ strays = [k \in Key |-> 0] /\ flights = [k \in Key |-> 0] /\ focus = [k \in Key |-> 0]
    /\ fetched = [k \in Key |-> FALSE]
    /\ mounts = [k \in Key |-> 0] /\ overlaps = [k \in Key |-> 0]

Registered == {k \in Key : entry[k] # "none"}
Nothing == [k \in Key |-> FALSE]

\* Mutant: the state at registration is not looked at.
MState(k, login) == "running"

\* registerPoll pauses at once what requires the login that is not there.
State(k, login) == IF k \in Authenticated /\ ~login THEN "paused" ELSE "running"

\* register, after unregister where the key is there; pausing clears the timer again.
Register(keys, login) ==
    /\ entry' = [k \in Key |-> IF k \in keys THEN State(k, login) ELSE entry[k]]
    /\ timer' = [k \in Key |-> IF k \in keys THEN entry'[k] = "running" ELSE timer[k]]
    /\ mounts' = [k \in Key |-> IF k \in keys THEN mounts[k] + 1 ELSE mounts[k]]
    /\ overlaps' = [k \in Key |-> IF k \in keys /\ flights[k] + strays[k] > 0
                                  THEN overlaps[k] + 1 ELSE overlaps[k]]
    /\ \A k \in keys : mounts[k] < MaxMounts

\* A component is mounted, or its options change: the effect of usePolling.
Mount(k) ==
    /\ up /\ Register({k}, loggedIn)
    /\ fetched' = Nothing
    /\ UNCHANGED <<up, loggedIn, strays, flights, focus>>

\* Mutant: the timer is left.
MCleared(k) == timer

Cleared(k) == [timer EXCEPT ![k] = FALSE]

\* unregister
Unmount(k) ==
    /\ up /\ entry[k] # "none"
    /\ entry' = [entry EXCEPT ![k] = "none"] /\ timer' = Cleared(k)
    /\ fetched' = Nothing
    /\ UNCHANGED <<up, loggedIn, strays, flights, focus, mounts, overlaps>>

\* The value of the context changes with the login, so every poll registers anew before the
\* provider's own effect pauses or resumes, which then finds nothing to do.
Login ==
    /\ up /\ ~loggedIn /\ loggedIn' = TRUE
    /\ Register(Registered, TRUE)
    /\ fetched' = Nothing
    /\ UNCHANGED <<up, strays, flights, focus>>
Logout ==
    /\ up /\ loggedIn /\ loggedIn' = FALSE
    /\ Register(Registered, FALSE)
    /\ fetched' = Nothing
    /\ UNCHANGED <<up, strays, flights, focus>>

\* AppRoutes takes all pages and the provider away: what runs on finds an empty coordinator.
\* The user is logged in again by a validation after they are back.
Unavailable ==
    /\ up /\ up' = FALSE /\ loggedIn' = FALSE
    /\ entry' = [k \in Key |-> "none"] /\ timer' = [k \in Key |-> FALSE]
    /\ strays' = [k \in Key |-> 0] /\ flights' = [k \in Key |-> 0]
    /\ fetched' = Nothing /\ overlaps' = [k \in Key |-> 0]
    /\ UNCHANGED <<focus, mounts>>
Available ==
    /\ ~up /\ up' = TRUE /\ fetched' = Nothing
    /\ UNCHANGED <<loggedIn, entry, timer, strays, flights, focus, mounts, overlaps>>

------------------------------------------------------------------------------
(* Timers and callbacks *)

Calls(k) ==
    /\ flights' = [flights EXCEPT ![k] = @ + IF entry[k] = "running" THEN 1 ELSE 0]
    /\ fetched' = [Nothing EXCEPT ![k] = entry[k] = "running"]

Fire(k) ==
    /\ timer[k] /\ timer' = [timer EXCEPT ![k] = FALSE] /\ Calls(k)
    /\ UNCHANGED <<up, loggedIn, entry, strays, focus, mounts, overlaps>>
FireStray(k) ==
    /\ strays[k] > 0 /\ strays' = [strays EXCEPT ![k] = @ - 1] /\ Calls(k)
    /\ UNCHANGED <<up, loggedIn, entry, timer, focus, mounts, overlaps>>

\* Mutant: a callback that fails ends the loop.
MSchedules(k, failed) == entry[k] = "running" /\ ~failed

\* The key is looked up; a failure is logged.
Schedules(k, failed) == entry[k] = "running"

\* scheduleNext overwrites the id the entry holds.
Finish(k) ==
    /\ flights[k] > 0 /\ flights' = [flights EXCEPT ![k] = @ - 1]
    /\ \E failed \in BOOLEAN :
         IF Schedules(k, failed)
         THEN /\ strays' = [strays EXCEPT ![k] = @ + IF timer[k] THEN 1 ELSE 0]
              /\ timer' = [timer EXCEPT ![k] = TRUE]
         ELSE UNCHANGED <<strays, timer>>
    /\ fetched' = Nothing
    /\ UNCHANGED <<up, loggedIn, entry, focus, mounts, overlaps>>

\* Running polls are refreshed; the refresh keeps the entry and asks nothing when it runs.
Focus ==
    /\ \A k \in Key : focus[k] < MaxFocus
    /\ focus' = [k \in Key |-> focus[k] + IF entry[k] = "running" THEN 1 ELSE 0]
    /\ fetched' = Nothing
    /\ UNCHANGED <<up, loggedIn, entry, timer, strays, flights, mounts, overlaps>>
Refresh(k) ==
    /\ focus[k] > 0 /\ focus' = [focus EXCEPT ![k] = @ - 1]
    /\ fetched' = [Nothing EXCEPT ![k] = TRUE]
    /\ UNCHANGED <<up, loggedIn, entry, timer, strays, flights, mounts, overlaps>>

Next ==
    \/ \E k \in Key : Mount(k) \/ Unmount(k) \/ Fire(k) \/ FireStray(k) \/ Finish(k) \/ Refresh(k)
    \/ Login \/ Logout \/ Unavailable \/ Available \/ Focus

\* The event loop runs timers that are due, and a fetch ends (or fails).
Fairness == \A k \in Key : WF_pollVars(Fire(k)) /\ WF_pollVars(FireStray(k)) /\ WF_pollVars(Finish(k))
Spec == Init /\ [][Next]_pollVars /\ Fairness

------------------------------------------------------------------------------
\* Every variable has its type, and what is not running has no timer of its own.
TypeOK ==
    /\ up \in BOOLEAN /\ loggedIn \in BOOLEAN
    /\ entry \in [Key -> {"none", "running", "paused"}] /\ timer \in [Key -> BOOLEAN]
    /\ strays \in [Key -> Nat] /\ flights \in [Key -> Nat] /\ focus \in [Key -> 0 .. MaxFocus]
    /\ fetched \in [Key -> BOOLEAN] /\ mounts \in [Key -> 0 .. MaxMounts] /\ overlaps \in [Key -> Nat]
    /\ \A k \in Key : timer[k] => entry[k] = "running"

\* A poll that is registered and not paused never dies out, whatever it is registered over,
\* and never runs as more loops than there were registrations over an unfinished one
\* (scheduleNext; "already registered, replacing").
LoopsAreCounted ==
    \A k \in Key :
        LET loops == strays[k] + flights[k] + IF timer[k] THEN 1 ELSE 0 IN
        /\ entry[k] = "running" => timer[k] \/ flights[k] > 0
        /\ loops <= 1 + overlaps[k]

\* "Auth-aware polling (pause authenticated polls when logged out)" (PollingCoordinator.ts:6):
\* what requires a login fetches without one only as a refresh of the focus before the logout.
LoggedOutIsQuiet ==
    [][\A k \in Authenticated : fetched'[k] /\ ~loggedIn' => focus'[k] < focus[k]]_pollVars

\* A poll that stays registered and running fetches again and again.
PollsRecur == \A k \in Key : []<>(fetched[k] \/ entry[k] # "running")
===============================================================================
