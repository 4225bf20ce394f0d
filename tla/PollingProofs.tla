----------------------------- MODULE PollingProofs -----------------------------
(* Polling: types, and the number of loops of a poll, for any number of polls.   *)
EXTENDS Polling, TLAPS

\* LoopsAreCounted is inductive together with the types: what a step takes from one of timer,
\* strays and flights it gives to another, and a registration adds a timer that it pays for with
\* an overlap when anything was left.
IInv == TypeOK /\ LoopsAreCounted

LEMMA InitIsCounted == Init => IInv
  BY PollingAssumption DEF Init, IInv, TypeOK, LoopsAreCounted

\* Registering polls, each of them or none, keeps the invariant (register, registerPoll).
LEMMA RegisterKeeps ==
    ASSUME IInv, NEW keys \in SUBSET Key, NEW login \in BOOLEAN,
           Register(keys, login),
           up' \in BOOLEAN, loggedIn' \in BOOLEAN, fetched' = Nothing,
           UNCHANGED <<strays, flights, focus>>
    PROVE  IInv'
<1> USE PollingAssumption DEF IInv, TypeOK
<1>1. /\ entry' \in [Key -> {"none", "running", "paused"}]
      /\ timer' \in [Key -> BOOLEAN]
      /\ \A k \in Key : timer'[k] => entry'[k] = "running"
  BY DEF Register, State
<1>2. /\ mounts' \in [Key -> 0 .. MaxMounts] /\ overlaps' \in [Key -> Nat]
  <2>1. \A k \in Key : mounts'[k] \in 0 .. MaxMounts
    BY DEF Register
  <2>2. \A k \in Key : overlaps'[k] \in Nat
    BY DEF Register
  <2> QED  BY <2>1, <2>2 DEF Register
<1>3. TypeOK'
  BY <1>1, <1>2 DEF Nothing
<1>4. ASSUME NEW k \in Key
      PROVE  /\ entry'[k] = "running" => timer'[k] \/ flights'[k] > 0
             /\ strays'[k] + flights'[k] + (IF timer'[k] THEN 1 ELSE 0) <= 1 + overlaps'[k]
  <2>1. CASE k \notin keys
    BY <2>1 DEF Register, LoopsAreCounted
  <2>2. CASE k \in keys
    <3>1. entry'[k] = "running" => timer'[k]
      BY <2>2 DEF Register
    <3>2. CASE flights[k] + strays[k] > 0
      <4>1. overlaps'[k] = overlaps[k] + 1
        BY <2>2, <3>2 DEF Register
      <4>2. strays[k] + flights[k] <= 1 + overlaps[k]
        BY DEF LoopsAreCounted
      <4> QED  BY <3>1, <4>1, <4>2
    <3>3. CASE ~(flights[k] + strays[k] > 0)
      <4>1. strays[k] = 0 /\ flights[k] = 0 /\ overlaps'[k] = overlaps[k]
        BY <2>2, <3>3 DEF Register
      <4> QED  BY <3>1, <4>1
    <3> QED  BY <3>2, <3>3
  <2> QED  BY <2>1, <2>2
<1> QED  BY <1>3, <1>4 DEF LoopsAreCounted

LEMMA MountKeeps ==
    ASSUME IInv, NEW k \in Key, Mount(k)
    PROVE  IInv'
<1>1. {k} \in SUBSET Key /\ loggedIn \in BOOLEAN /\ up' \in BOOLEAN /\ loggedIn' \in BOOLEAN
  BY DEF Mount, IInv, TypeOK
<1> QED  BY <1>1, RegisterKeeps DEF Mount

LEMMA LoginKeeps ==
    ASSUME IInv, Login \/ Logout
    PROVE  IInv'
<1>1. /\ Registered \in SUBSET Key /\ TRUE \in BOOLEAN /\ FALSE \in BOOLEAN
      /\ up' \in BOOLEAN /\ loggedIn' \in BOOLEAN
  BY DEF Login, Logout, Registered, IInv, TypeOK
<1>2. CASE Login
  BY <1>1, <1>2, RegisterKeeps DEF Login
<1>3. CASE Logout
  BY <1>1, <1>3, RegisterKeeps DEF Logout
<1> QED  BY <1>2, <1>3

LEMMA UnmountKeeps ==
    ASSUME IInv, NEW k \in Key, Unmount(k)
    PROVE  IInv'
<1> USE DEF Unmount, Cleared, IInv, TypeOK
<1>1. TypeOK'
  BY DEF Nothing
<1>2. LoopsAreCounted'
  BY DEF LoopsAreCounted
<1> QED  BY <1>1, <1>2

LEMMA AvailabilityKeeps ==
    ASSUME IInv, Unavailable \/ Available
    PROVE  IInv'
<1> USE DEF IInv, TypeOK
<1>1. CASE Unavailable
  <2>1. TypeOK'
    BY <1>1 DEF Unavailable, Nothing
  <2>2. LoopsAreCounted'
    BY <1>1 DEF Unavailable, LoopsAreCounted
  <2> QED  BY <2>1, <2>2
<1>2. CASE Available
  BY <1>2 DEF Available, Nothing, LoopsAreCounted
<1> QED  BY <1>1, <1>2

\* What a call fetches and awaits has its type.
LEMMA CallsTypes ==
    ASSUME IInv, NEW k \in Key, Calls(k)
    PROVE  /\ flights' \in [Key -> Nat] /\ fetched' \in [Key -> BOOLEAN]
           /\ flights'[k] = flights[k] + IF entry[k] = "running" THEN 1 ELSE 0
           /\ \A j \in Key \ {k} : flights'[j] = flights[j]
<1> DEFINE running == entry[k] = "running"
<1>1. fetched' = [Nothing EXCEPT ![k] = running]
  BY DEF Calls
<1>2. running \in BOOLEAN /\ Nothing \in [Key -> BOOLEAN]
  BY DEF Nothing
<1> HIDE DEF running
<1>3. fetched' \in [Key -> BOOLEAN]
  BY <1>1, <1>2
<1>4. /\ flights' \in [Key -> Nat]
      /\ flights'[k] = flights[k] + IF entry[k] = "running" THEN 1 ELSE 0
      /\ \A j \in Key \ {k} : flights'[j] = flights[j]
  BY DEF Calls, IInv, TypeOK
<1> QED  BY <1>3, <1>4

\* A timer that fires becomes a callback in flight, or nothing (executeCallback).
LEMMA FireKeeps ==
    ASSUME IInv, NEW k \in Key, Fire(k) \/ FireStray(k)
    PROVE  IInv'
<1> USE DEF IInv, TypeOK
<1>1. /\ flights' \in [Key -> Nat] /\ fetched' \in [Key -> BOOLEAN]
      /\ flights'[k] = flights[k] + IF entry[k] = "running" THEN 1 ELSE 0
      /\ \A j \in Key \ {k} : flights'[j] = flights[j]
  BY CallsTypes DEF Fire, FireStray
<1>2. CASE Fire(k)
  <2>1. /\ timer' \in [Key -> BOOLEAN] /\ timer[k] /\ ~timer'[k]
        /\ \A j \in Key \ {k} : timer'[j] = timer[j]
    BY <1>2 DEF Fire
  <2>2. UNCHANGED <<up, loggedIn, entry, strays, focus, mounts, overlaps>>
    BY <1>2 DEF Fire
  <2>3. TypeOK'
    BY <1>1, <2>1, <2>2
  <2>4. LoopsAreCounted'
    BY <1>1, <2>1, <2>2 DEF LoopsAreCounted
  <2> QED  BY <2>3, <2>4
<1>3. CASE FireStray(k)
  <2>1. /\ strays' \in [Key -> Nat] /\ strays'[k] = strays[k] - 1
        /\ \A j \in Key \ {k} : strays'[j] = strays[j]
    BY <1>3 DEF FireStray
  <2>2. UNCHANGED <<up, loggedIn, entry, timer, focus, mounts, overlaps>>
    BY <1>3 DEF FireStray
  <2>3. TypeOK'
    BY <1>1, <2>1, <2>2
  <2>4. LoopsAreCounted'
    BY <1>1, <2>1, <2>2 DEF LoopsAreCounted
  <2> QED  BY <2>3, <2>4
<1> QED  BY <1>2, <1>3

\* A callback that ends becomes a timer, and the timer it overwrites a stray (scheduleNext).
LEMMA FinishKeeps ==
    ASSUME IInv, NEW k \in Key, Finish(k)
    PROVE  IInv'
<1> USE DEF IInv, TypeOK
<1>1. /\ flights' \in [Key -> Nat] /\ flights'[k] = flights[k] - 1
      /\ \A j \in Key \ {k} : flights'[j] = flights[j]
      /\ fetched' \in [Key -> BOOLEAN]
      /\ UNCHANGED <<up, loggedIn, entry, focus, mounts, overlaps>>
  BY DEF Finish, Nothing
<1>2. CASE entry[k] = "running"
  <2>1. /\ strays' = [strays EXCEPT ![k] = @ + IF timer[k] THEN 1 ELSE 0]
        /\ timer' = [timer EXCEPT ![k] = TRUE]
    BY <1>2 DEF Finish, Schedules
  <2>2. /\ strays' \in [Key -> Nat] /\ timer' \in [Key -> BOOLEAN] /\ timer'[k]
        /\ strays'[k] = strays[k] + IF timer[k] THEN 1 ELSE 0
        /\ \A j \in Key \ {k} : strays'[j] = strays[j] /\ timer'[j] = timer[j]
    BY <2>1
  <2>3. TypeOK'
    BY <1>1, <1>2, <2>2
  <2>4. LoopsAreCounted'
    BY <1>1, <1>2, <2>2 DEF LoopsAreCounted
  <2> QED  BY <2>3, <2>4
<1>3. CASE entry[k] # "running"
  <2>1. UNCHANGED <<strays, timer>>
    BY <1>3 DEF Finish, Schedules
  <2>2. TypeOK'
    BY <1>1, <2>1
  <2>3. LoopsAreCounted'
    BY <1>1, <1>3, <2>1 DEF LoopsAreCounted
  <2> QED  BY <2>2, <2>3
<1> QED  BY <1>2, <1>3

LEMMA FocusKeeps ==
    ASSUME IInv, Focus \/ \E k \in Key : Refresh(k)
    PROVE  IInv'
<1> USE PollingAssumption DEF IInv, TypeOK
<1>1. CASE Focus
  <2>1. focus' \in [Key -> 0 .. MaxFocus]
    BY <1>1 DEF Focus
  <2> QED  BY <1>1, <2>1 DEF Focus, Nothing, LoopsAreCounted
<1>2. ASSUME NEW k \in Key, Refresh(k)
      PROVE  IInv'
  <2>1. focus[k] - 1 \in 0 .. MaxFocus
    BY <1>2 DEF Refresh
  <2>2. focus' \in [Key -> 0 .. MaxFocus]
    BY <1>2, <2>1 DEF Refresh
  <2>3. Nothing \in [Key -> BOOLEAN]
    BY DEF Nothing
  <2>4. fetched' \in [Key -> BOOLEAN]
    BY <1>2, <2>3 DEF Refresh
  <2> QED  BY <1>2, <2>2, <2>4 DEF Refresh, LoopsAreCounted
<1> QED  BY <1>1, <1>2

LEMMA StepKeeps == IInv /\ [Next]_pollVars => IInv'
<1> SUFFICES ASSUME IInv, [Next]_pollVars
             PROVE  IInv'
  OBVIOUS
<1>1. CASE UNCHANGED pollVars
  BY <1>1 DEF pollVars, IInv, TypeOK, LoopsAreCounted
<1>2. CASE Next
  BY <1>2, MountKeeps, UnmountKeeps, FireKeeps, FinishKeeps, FocusKeeps, LoginKeeps,
     AvailabilityKeeps DEF Next
<1> QED  BY <1>1, <1>2

\* Every variable of the coordinator keeps its type, and a poll that does not run has no timer.
THEOREM PollingTypes == Spec => []TypeOK
<1>1. IInv => TypeOK
  BY DEF IInv
<1> QED  BY InitIsCounted, StepKeeps, <1>1, PTL DEF Spec

\* For any number of polls and registrations: a poll that is registered and running never dies
\* out, and runs as more than one loop only as often as it was registered over an unfinished one.
THEOREM LoopsCounted == Spec => []LoopsAreCounted
<1>1. IInv => LoopsAreCounted
  BY DEF IInv
<1> QED  BY InitIsCounted, StepKeeps, <1>1, PTL DEF Spec

------------------------------------------------------------------------------
\* While nobody is logged in, no poll that requires the login runs: the registration looks at the
\* login, and every login and logout registers all polls anew.
Paused == ~loggedIn => \A k \in Authenticated : entry[k] # "running"

\* Registering with the login there is after the step leaves those polls paused.
LEMMA RegisterPauses ==
    ASSUME NEW keys \in SUBSET Key, Register(keys, loggedIn'), loggedIn' \in BOOLEAN,
           \A k \in Authenticated \ keys : ~loggedIn' => entry[k] # "running"
    PROVE  Paused'
<1> SUFFICES ASSUME ~loggedIn', NEW k \in Authenticated
             PROVE  entry'[k] # "running"
  BY DEF Paused
<1>1. k \in Key
  BY PollingAssumption
<1>2. CASE k \in keys
  BY <1>1, <1>2 DEF Register, State
<1>3. CASE k \notin keys
  BY <1>1, <1>3 DEF Register
<1> QED  BY <1>2, <1>3

LEMMA StepPauses == IInv /\ Paused /\ [Next]_pollVars => Paused'
<1> SUFFICES ASSUME IInv, Paused, [Next]_pollVars
             PROVE  Paused'
  OBVIOUS
<1> USE PollingAssumption DEF IInv, TypeOK
<1>1. ASSUME NEW k \in Key, Mount(k)
      PROVE  Paused'
  <2>1. {k} \in SUBSET Key /\ loggedIn' = loggedIn /\ Register({k}, loggedIn')
    BY <1>1 DEF Mount
  <2>2. loggedIn' \in BOOLEAN
    BY <2>1
  <2>3. \A j \in Authenticated \ {k} : ~loggedIn' => entry[j] # "running"
    BY <2>1 DEF Paused
  <2> QED  BY <2>1, <2>2, <2>3, RegisterPauses
<1>2. CASE Login \/ Logout
  <2>1. Registered \in SUBSET Key /\ loggedIn' \in BOOLEAN /\ Register(Registered, loggedIn')
    BY <1>2 DEF Login, Logout, Registered
  <2>2. \A j \in Authenticated \ Registered : ~loggedIn' => entry[j] # "running"
    BY DEF Registered
  <2> QED  BY <2>1, <2>2, RegisterPauses
<1>3. ASSUME NEW k \in Key, Unmount(k)
      PROVE  Paused'
  BY <1>3 DEF Unmount, Paused
<1>4. CASE Unavailable
  BY <1>4 DEF Unavailable, Paused
<1>5. CASE Available \/ Focus \/ UNCHANGED pollVars
  BY <1>5 DEF Available, Focus, Paused, pollVars
<1>6. ASSUME NEW k \in Key, Fire(k) \/ FireStray(k) \/ Finish(k) \/ Refresh(k)
      PROVE  Paused'
  BY <1>6 DEF Fire, FireStray, Finish, Refresh, Paused
<1> QED  BY <1>1, <1>2, <1>3, <1>4, <1>5, <1>6 DEF Next

\* What a step fetches runs when the step begins, or was refreshed for the focus.
Quiet == \A k \in Authenticated : fetched'[k] /\ ~loggedIn' => focus'[k] < focus[k]

LEMMA CallsQuietly ==
    ASSUME IInv, Paused, NEW k \in Key, Calls(k), loggedIn' = loggedIn
    PROVE  Quiet
<1> SUFFICES ASSUME NEW j \in Authenticated, ~loggedIn'
             PROVE  ~fetched'[j]
  BY DEF Quiet
<1> DEFINE running == entry[k] = "running"
<1>1. fetched' = [Nothing EXCEPT ![k] = running] /\ j \in Key
  BY PollingAssumption DEF Calls
<1>2. running \in BOOLEAN /\ (j = k => ~running)
  BY DEF Paused
<1>3. Nothing[j] = FALSE /\ Nothing \in [Key -> BOOLEAN]
  BY <1>1 DEF Nothing
<1> HIDE DEF running
<1> QED  BY <1>1, <1>2, <1>3

LEMMA StepIsQuiet == IInv /\ Paused /\ Next => Quiet
<1> SUFFICES ASSUME IInv, Paused, Next
             PROVE  Quiet
  OBVIOUS
<1>1. CASE fetched' = Nothing
  BY <1>1, PollingAssumption DEF Nothing, Quiet
<1>2. ASSUME NEW k \in Key, Fire(k) \/ FireStray(k)
      PROVE  Quiet
  BY <1>2, CallsQuietly DEF Fire, FireStray
<1>3. ASSUME NEW k \in Key, Refresh(k)
      PROVE  Quiet
  <2>1. fetched' = [Nothing EXCEPT ![k] = TRUE] /\ focus' = [focus EXCEPT ![k] = @ - 1]
    BY <1>3 DEF Refresh
  <2>2. focus'[k] < focus[k]
    BY <2>1, PollingAssumption DEF IInv, TypeOK
  <2>3. \A j \in Authenticated : j # k => ~fetched'[j]
    BY <2>1, PollingAssumption DEF Nothing
  <2> QED  BY <2>2, <2>3 DEF Quiet
<1> QED  BY <1>1, <1>2, <1>3 DEF Next, Mount, Unmount, Finish, Login, Logout, Unavailable,
           Available, Focus

\* Whatever is mounted, fetched or logged out in any order: a poll that requires a login fetches
\* without one only as a refresh of the focus that was queued before the logout.
THEOREM QuietWhenLoggedOut == Spec => LoggedOutIsQuiet
<1>1. Init => Paused
  BY PollingAssumption DEF Init, Paused
<1>2. IInv /\ Paused /\ [Next]_pollVars => [Quiet]_pollVars
  BY StepIsQuiet
<1> QED  BY InitIsCounted, StepKeeps, StepPauses, <1>1, <1>2, PTL DEF Spec, LoggedOutIsQuiet, Quiet
================================================================================
