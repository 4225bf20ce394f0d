----------------------------- MODULE AlertPromise -----------------------------
(* What the alerts of one (route, user, schedule) promise their reader, with   *)
(* no Redis, no workers and no polls: "if severity or status changes, alert    *)
(* immediately; if only the reason changes, wait the cooldown; the same        *)
(* content is not sent again in a window" (ADR 08, Per-Line Alert Cooldown).   *)
EXTENDS Integers

CONSTANTS Line, Content, NoContent, Status(_), Cooldown, Day, Start, End, Horizon

VARIABLES now, told   \* told[l]: content and time of the last message about l

NotTold == [full |-> NoContent, at |-> 0]
pvars == <<now, told>>

Init == now = 0 /\ told = [l \in Line |-> NotTold]

\* Within the window a message is news: the first of its line, another status,
\* or another reason once the cooldown has passed.
News(l, c) == \/ told[l] = NotTold
              \/ Status(c) # Status(told[l].full)
              \/ c # told[l].full /\ now >= told[l].at + Cooldown

Alert(lines) ==
    /\ told' \in [Line -> [full : Content, at : Nat]]
    /\ \A l \in Line : IF l \notin lines THEN told'[l] = told[l]
                       ELSE /\ told'[l].at = now /\ told'[l].full # NoContent
                            /\ News(l, told'[l].full) \/ now % Day >= End
    /\ UNCHANGED now

\* A line is declared clear once, and only to a reader who was alerted of it.
AllClear(lines) ==
    /\ \A l \in lines : told[l] # NotTold
    /\ told' = [l \in Line |-> IF l \in lines THEN NotTold ELSE told[l]]
    /\ UNCHANGED now

Tick == /\ now < Horizon
        /\ now' = now + 1
        /\ told' = IF now' % Day = Start THEN [l \in Line |-> NotTold] ELSE told

Next == \/ Tick
        \/ \E lines \in (SUBSET Line) \ {{}} : AllClear(lines) \/ Alert(lines)

Spec == Init /\ [][Next]_pvars
===============================================================================
