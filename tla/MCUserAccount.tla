---------------------------- MODULE MCUserAccount ----------------------------
(* Instance of UserAccount for TLC: two requests at once, two addresses of the   *)
(* person and one of a stranger.  Each behaviour keeps to one part of the state: *)
(* primaries, addresses, limits over time, anonymisation, preferences.           *)
EXTENDS UserAccount, TLC

MCKind == [a \in Address |-> "email"]
Verify == {"signup", "add", "code", "verify"}
Habit(does, addresses, maxContacts, maxCodes) ==
    [does |-> Verify \cup does, addresses |-> addresses, maxContacts |-> maxContacts, maxCodes |-> maxCodes]
MCHabits ==
    {Habit({"primary"}, {"first", "second", "strange"}, 3, 2),
     Habit({"primary", "delete contact"}, {"first", "second"}, 3, 2),
     Habit({"delete contact"}, {"first", "strange"}, 3, 2),
     Habit({"wait", "crash"}, {"first"}, 2, 3),
     Habit({"route", "prefer", "alert", "delete contact", "anonymise"}, {"first"}, 2, 1),
     Habit({"route", "prefer", "move", "delete route"}, {"first", "second"}, 2, 2),
     Habit({"route", "prefer", "alert", "delete preference", "delete contact"}, {"first", "strange"}, 2, 1)}
Symmetric == Permutations(Session)
===============================================================================
