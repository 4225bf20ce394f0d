------------------------------ MODULE UserAccount ------------------------------
(* A person's account as his requests, which run at once, an admin and the poll  *)
(* see it: the user row made on the first request, contacts and their            *)
(* verification, the preferences of one route, and anonymisation.  A request     *)
(* reads, checks and then commits; what it checked may be stale by then, and a   *)
(* request that has committed once may end there.                                *)
EXTENDS Integers, Sequences, FiniteSets

CONSTANTS
    Session,         \* requests at once
    User, Contact, Preference,  \* ids of rows: natural numbers
    Address, Kind,   \* e-mail addresses and phone numbers; which of both
    Mine,            \* those whose messages the person reads
    None,
    VERIFICATION_CODE_RATE_LIMIT, ADD_CONTACT_FAILURE_RATE_LIMIT,
    MAX_NOTIFICATION_PREFERENCES_PER_ROUTE,
    Habits           \* bounds, one of which a behaviour keeps to: the operations that occur,
                     \* the addresses added, the contacts and the codes ever made:
                     \* [does, addresses, maxContacts, maxCodes]

ASSUME UserAccountAssumption ==
    /\ User \subseteq Nat \ {0} /\ Contact \subseteq Nat \ {0} /\ Preference \subseteq Nat \ {0}
    /\ IsFiniteSet(Contact) /\ IsFiniteSet(Preference) /\ IsFiniteSet(Session)
    /\ Session # {}
    /\ Mine \subseteq Address /\ None \notin Address
    /\ Kind \in [Address -> {"email", "sms"}]
    /\ \A h \in Habits : h.addresses \subseteq Address /\ h.maxCodes \in Nat
                          /\ h.maxContacts \in 0 .. Cardinality(Contact)
    /\ VERIFICATION_CODE_RATE_LIMIT \in Nat /\ ADD_CONTACT_FAILURE_RATE_LIMIT \in Nat
    /\ MAX_NOTIFICATION_PREFERENCES_PER_ROUTE \in Nat

VARIABLES
    user,       \* User rows: "none", "live", "deleted" (anonymised)
    route,      \* of each user his route: "none", "active", "inactive", "deleted"
    contact,    \* EmailAddress and PhoneNumber rows; an id is used once
    codes,      \* VerificationCode rows; known: the person has read it; recent: made in this
                \* hour and since the last verification
    logged,     \* codes that RateLimitLog counts
    failures,   \* of each user the failed additions that RateLimitLog counts
    pref,       \* NotificationPreference rows of the user's route
    req,        \* of each session the request and what it has read
    told,       \* addresses that alerts went to
    habit,      \* one of Habits
    late,       \* users who had a request under way when they were anonymised
    broken      \* a first request found no user

accountVars == <<habit, user, route, contact, codes, logged, failures, pref, req, told, late, broken>>

NoContact == [is |-> "free", user |-> 0, address |-> None, verified |-> FALSE, primary |-> FALSE]
NoPref == [is |-> "free", user |-> 0, contact |-> 0]
Idle == [op |-> "idle", user |-> 0, contact |-> 0, address |-> None, code |-> 0, pref |-> 0, seen |-> {}]

Init ==
    /\ habit \in Habits
    /\ user = [u \in User |-> "none"] /\ route = [u \in User |-> "none"]
    /\ contact = [c \in Contact |-> NoContact] /\ pref = [p \in Preference |-> NoPref]
    /\ codes = <<>> /\ logged = {} /\ failures = [u \in User |-> 0]
    /\ req = [s \in Session |-> Idle]
    /\ told = {} /\ late = {} /\ broken = FALSE

Live == {u \in User : user[u] = "live"}
IsContact(c, u) == contact[c].is = "row" /\ contact[c].user = u
ContactsOf(u, kind) == {c \in Contact : IsContact(c, u) /\ Kind[contact[c].address] = kind}
Primaries(u, kind) == {c \in ContactsOf(u, kind) : contact[c].primary}
Unused(rows) == {r \in DOMAIN rows : rows[r].is = "free"}
New(rows) == CHOOSE r \in Unused(rows) : TRUE

\* A request of the authenticated user is under way; it ends.
Go(s, r) == req[s] = Idle /\ r.op \in habit.does /\ req' = [req EXCEPT ![s] = r]
Goes(s, op) == req' = [req EXCEPT ![s].op = op]
\* Bound: what a request will insert has an id left.
Room(op, left) == Cardinality({s \in Session : req[s].op = op}) < left
Ends(s) == req' = [req EXCEPT ![s] = Idle]

------------------------------------------------------------------------------
(* The user row: get_or_create_user *)

FindNoUser(s) ==
    /\ Live = {} /\ Go(s, [Idle EXCEPT !.op = "signup"])
    /\ UNCHANGED <<habit, user, route, contact, codes, logged, failures, pref, told, late, broken>>

\* The unique index on the external id lets one insertion in; the loser rolls back.
InsertUser(s) ==
    /\ req[s].op = "signup"
    /\ IF Live = {}
       THEN /\ \E u \in User : user[u] = "none" /\ user' = [user EXCEPT ![u] = "live"]
            /\ Ends(s)
       ELSE Goes(s, "reselect") /\ UNCHANGED user
    /\ UNCHANGED <<habit, route, contact, codes, logged, failures, pref, told, late, broken>>

FindUser(s) ==
    /\ req[s].op = "reselect"
    /\ broken' = (broken \/ Live = {})
    /\ Ends(s)
    /\ UNCHANGED <<habit, user, route, contact, codes, logged, failures, pref, told, late>>

------------------------------------------------------------------------------
(* Contacts *)

AddContact(s, a) ==
    /\ \E u \in Live :
         /\ Room("add", habit.maxContacts - Cardinality(Contact \ Unused(contact)))
         /\ failures[u] < ADD_CONTACT_FAILURE_RATE_LIMIT
         /\ Go(s, [Idle EXCEPT !.op = "add", !.user = u, !.address = a, !.seen = ContactsOf(u, Kind[a])])
    /\ UNCHANGED <<habit, user, route, contact, codes, logged, failures, pref, told, late, broken>>

\* The first contact of its kind is primary; an address is in one row at most.
InsertContact(s) ==
    /\ req[s].op = "add"
    /\ IF \E c \in Contact : contact[c].is = "row" /\ contact[c].address = req[s].address
       THEN Goes(s, "conflict") /\ UNCHANGED contact
       ELSE /\ Unused(contact) # {}
            /\ contact' = [contact EXCEPT ![New(contact)] =
                  [is |-> "row", user |-> req[s].user, address |-> req[s].address,
                   verified |-> FALSE, primary |-> req[s].seen = {}]]
            /\ Ends(s)
    /\ UNCHANGED <<habit, user, route, codes, logged, failures, pref, told, late, broken>>

RecordFailure(s) ==
    /\ req[s].op = "conflict"
    /\ failures' = [failures EXCEPT ![req[s].user] = @ + 1]
    /\ Ends(s)
    /\ UNCHANGED <<habit, user, route, contact, codes, logged, pref, told, late, broken>>

\* Two primaries fail (MultipleResultsFound).
SetPrimary(s, c) ==
    /\ \E u \in Live :
         /\ IsContact(c, u) /\ contact[c].verified
         /\ LET primaries == Primaries(u, Kind[contact[c].address]) IN
            /\ Cardinality(primaries) <= 1
            /\ Go(s, [Idle EXCEPT !.op = "primary", !.user = u, !.contact = c, !.seen = primaries])
    /\ UNCHANGED <<habit, user, route, contact, codes, logged, failures, pref, told, late, broken>>

\* Only what differs from what was read is written.  With another primary that is one UPDATE
\* for two rows, which passes over one that is gone; an UPDATE of one row alone fails then.
Moved(r) == [c \in Contact |-> IF contact[c].is # "row" THEN contact[c]
                               ELSE IF c = r.contact THEN [contact[c] EXCEPT !.primary = TRUE]
                               ELSE IF c \in r.seen THEN [contact[c] EXCEPT !.primary = FALSE]
                               ELSE contact[c]]

CommitPrimary(s) ==
    /\ req[s].op = "primary"
    /\ contact' = IF req[s].contact \in req[s].seen THEN contact ELSE Moved(req[s])
    /\ Ends(s)
    /\ UNCHANGED <<habit, user, route, codes, logged, failures, pref, told, late, broken>>

\* Rows go, and the preferences that name them (ON DELETE CASCADE).
Without(gone) == [c \in Contact |-> IF c \in gone THEN [NoContact EXCEPT !.is = "gone"] ELSE contact[c]]

\* Mutant: the preferences stay.
MCascaded(gone) == pref

Cascaded(gone) == [p \in Preference |-> IF pref[p].contact \in gone THEN NoPref ELSE pref[p]]

DeleteContact(s, c) ==
    /\ req[s] = Idle /\ "delete contact" \in habit.does /\ \E u \in Live : IsContact(c, u)
    /\ contact' = Without({c}) /\ pref' = Cascaded({c})
    /\ UNCHANGED <<habit, user, route, codes, logged, failures, req, told, late, broken>>

------------------------------------------------------------------------------
(* Verification *)

\* Mutant: a request too many.
MMayAsk(c) == Cardinality({i \in logged : codes[i].contact = c}) <= VERIFICATION_CODE_RATE_LIMIT

\* check_verification_rate_limit
MayAsk(c) == Cardinality({i \in logged : codes[i].contact = c}) < VERIFICATION_CODE_RATE_LIMIT

AskCode(s, c) ==
    /\ \E u \in Live :
         /\ Room("code", habit.maxCodes - Len(codes))
         /\ IsContact(c, u) /\ MayAsk(c)
         /\ Go(s, [Idle EXCEPT !.op = "code", !.user = u, !.contact = c, !.address = contact[c].address])
    /\ UNCHANGED <<habit, user, route, contact, codes, logged, failures, pref, told, late, broken>>

CommitCode(s) ==
    /\ req[s].op = "code"
    /\ codes' = Append(codes, [user |-> req[s].user, contact |-> req[s].contact, used |-> FALSE,
                               expired |-> FALSE, recent |-> TRUE, known |-> FALSE])
    /\ req' = [req EXCEPT ![s].op = "log", ![s].code = Len(codes) + 1]
    /\ UNCHANGED <<habit, user, route, contact, logged, failures, pref, told, late, broken>>

LogCode(s) ==
    /\ req[s].op = "log"
    /\ logged' = logged \cup {req[s].code}
    /\ Goes(s, "send")
    /\ UNCHANGED <<habit, user, route, contact, codes, failures, pref, told, late, broken>>

\* A code that cannot be sent stays, and counts.
SendCode(s) ==
    /\ req[s].op = "send"
    /\ \E delivered \in BOOLEAN :
         codes' = [codes EXCEPT ![req[s].code].known = delivered /\ req[s].address \in Mine]
    /\ Ends(s)
    /\ UNCHANGED <<habit, user, route, contact, logged, failures, pref, told, late, broken>>

\* Mutant: a code stands for any contact of the user.
MFits(i, c, u) == codes[i].user = u /\ ~codes[i].used /\ ~codes[i].expired

Fits(i, c, u) ==
    /\ codes[i].user = u /\ codes[i].contact = c
    /\ ~codes[i].used /\ ~codes[i].expired

\* The person enters a code he has read, for whichever contact.
EnterCode(s, i, c) ==
    /\ codes[i].known
    /\ \E u \in Live :
         /\ Fits(i, c, u) /\ IsContact(c, u)
         /\ Go(s, [Idle EXCEPT !.op = "verify", !.user = u, !.contact = c, !.code = i])
    /\ UNCHANGED <<habit, user, route, contact, codes, logged, failures, pref, told, late, broken>>

CommitVerified(s) ==
    /\ req[s].op = "verify"
    /\ IF contact[req[s].contact].is = "row"
       THEN /\ contact' = [contact EXCEPT ![req[s].contact].verified = TRUE]
            /\ codes' = [codes EXCEPT ![req[s].code].used = TRUE]
            /\ Goes(s, "reset")
       ELSE Ends(s) /\ UNCHANGED <<habit, contact, codes>>
    /\ UNCHANGED <<habit, user, route, logged, failures, pref, told, late, broken>>

ResetLimit(s) ==
    /\ req[s].op = "reset"
    /\ logged' = {i \in logged : codes[i].contact # req[s].contact}
    /\ codes' = [i \in DOMAIN codes |-> IF codes[i].contact = req[s].contact
                                        THEN [codes[i] EXCEPT !.recent = FALSE] ELSE codes[i]]
    /\ Ends(s)
    /\ UNCHANGED <<habit, user, route, contact, failures, pref, told, late, broken>>

------------------------------------------------------------------------------
(* The route and its preferences *)

\* create_route and update_route; the latter is written to a deleted route in vain.
EditRoute(s) ==
    /\ \E u \in Live : route[u] # "deleted" /\ Go(s, [Idle EXCEPT !.op = "route", !.user = u])
    /\ UNCHANGED <<habit, user, route, contact, codes, logged, failures, pref, told, late, broken>>

CommitRoute(s) ==
    /\ req[s].op = "route"
    /\ \E active \in {"active", "inactive"} :
         route' = [route EXCEPT ![req[s].user] = IF @ = "deleted" THEN @ ELSE active]
    /\ Ends(s)
    /\ UNCHANGED <<habit, user, contact, codes, logged, failures, pref, told, late, broken>>

PrefsOf(u) == {p \in Preference : pref[p].is # "free" /\ pref[p].user = u}
DeleteRoute(s) ==
    /\ req[s] = Idle /\ "delete route" \in habit.does
    /\ \E u \in Live :
         /\ route[u] \in {"active", "inactive"}
         /\ route' = [route EXCEPT ![u] = "deleted"]
         /\ pref' = [p \in Preference |-> IF p \in PrefsOf(u) THEN NoPref ELSE pref[p]]
    /\ UNCHANGED <<habit, user, contact, codes, logged, failures, req, told, late, broken>>

ActivePrefs(u) == {p \in PrefsOf(u) : pref[p].is = "row"}

\* Mutant: duplicates are not looked for.
MFree(u, c, exclude) == TRUE

\* Verified contact of the user, and no preference for it yet.
Free(u, c, exclude) == \A p \in ActivePrefs(u) \ exclude : pref[p].contact # c
MayPrefer(u, c, exclude) ==
    /\ route[u] \in {"active", "inactive"}
    /\ IsContact(c, u) /\ contact[c].verified
    /\ Free(u, c, exclude)

CreatePreference(s, c) ==
    /\ \E u \in Live :
         /\ Room("prefer", Cardinality(Unused(pref)))
         /\ MayPrefer(u, c, {})
         /\ Cardinality(ActivePrefs(u)) < MAX_NOTIFICATION_PREFERENCES_PER_ROUTE
         /\ Go(s, [Idle EXCEPT !.op = "prefer", !.user = u, !.contact = c])
    /\ UNCHANGED <<habit, user, route, contact, codes, logged, failures, pref, told, late, broken>>

\* The foreign key refuses a contact that is gone; on a deleted route nobody sees the row.
CommitCreated(s) ==
    /\ req[s].op = "prefer"
    /\ IF contact[req[s].contact].is = "row" /\ route[req[s].user] # "deleted"
       THEN /\ Unused(pref) # {}
            /\ pref' = [pref EXCEPT ![New(pref)] =
                           [is |-> "row", user |-> req[s].user, contact |-> req[s].contact]]
       ELSE UNCHANGED pref
    /\ Ends(s)
    /\ UNCHANGED <<habit, user, route, contact, codes, logged, failures, told, late, broken>>

UpdatePreference(s, p, c) ==
    /\ \E u \in Live :
         /\ p \in ActivePrefs(u) /\ pref[p].contact # c /\ MayPrefer(u, c, {p})
         /\ Go(s, [Idle EXCEPT !.op = "move", !.user = u, !.contact = c, !.pref = p])
    /\ UNCHANGED <<habit, user, route, contact, codes, logged, failures, pref, told, late, broken>>

CommitUpdated(s) ==
    /\ req[s].op = "move"
    /\ pref' = IF contact[req[s].contact].is = "row" /\ pref[req[s].pref].is # "free"
               THEN [pref EXCEPT ![req[s].pref].contact = req[s].contact] ELSE pref
    /\ Ends(s)
    /\ UNCHANGED <<habit, user, route, contact, codes, logged, failures, told, late, broken>>

\* Soft deletion: the row stays, and the poll loads it.
DeletePreference(s, p) ==
    /\ req[s] = Idle /\ "delete preference" \in habit.does /\ \E u \in Live : p \in ActivePrefs(u)
    /\ pref' = [pref EXCEPT ![p].is = "deleted"]
    /\ UNCHANGED <<habit, user, route, contact, codes, logged, failures, req, told, late, broken>>

------------------------------------------------------------------------------
(* The admin, the poll and time *)

\* Mutant: the routes stay active.
MStopped(u) == route

Stopped(u) == [route EXCEPT ![u] = IF @ = "active" THEN "inactive" ELSE @]

\* anonymise_user: one transaction.  A code that is deleted is here one that is used.
Anonymise(u) ==
    /\ user[u] = "live" /\ "anonymise" \in habit.does
    /\ user' = [user EXCEPT ![u] = "deleted"]
    /\ contact' = Without({c \in Contact : IsContact(c, u)})
    /\ codes' = [i \in DOMAIN codes |-> IF codes[i].user = u
                    THEN [codes[i] EXCEPT !.used = TRUE, !.recent = FALSE] ELSE codes[i]]
    /\ pref' = [p \in Preference |-> IF p \in PrefsOf(u) THEN NoPref ELSE pref[p]]
    /\ route' = Stopped(u)
    /\ late' = IF \E s \in Session : req[s].user = u THEN late \cup {u} ELSE late
    /\ UNCHANGED <<habit, logged, failures, req, told, broken>>

\* _get_verified_contact, for each preference of an active route.
Alert(p) ==
    /\ "alert" \in habit.does
    /\ pref[p].is # "free" /\ route[pref[p].user] = "active"
    /\ contact[pref[p].contact].is = "row" /\ contact[pref[p].contact].verified
    /\ told' = told \cup {contact[pref[p].contact].address}
    /\ UNCHANGED <<habit, user, route, contact, codes, logged, failures, pref, req, late, broken>>

InFlight(i) == \E s \in Session : req[s].op \in {"log", "send"} /\ req[s].code = i

Expire(i) ==
    /\ ~codes[i].expired /\ "wait" \in habit.does
    /\ codes' = [codes EXCEPT ![i].expired = TRUE]
    /\ UNCHANGED <<habit, user, route, contact, logged, failures, pref, req, told, late, broken>>

\* An hour after the code and its log; a request takes less.
HourPasses(i) ==
    /\ codes[i].recent \/ i \in logged
    /\ "wait" \in habit.does
    /\ ~InFlight(i)
    /\ codes' = [codes EXCEPT ![i].recent = FALSE, ![i].expired = TRUE]
    /\ logged' = logged \ {i}
    /\ UNCHANGED <<habit, user, route, contact, failures, pref, req, told, late, broken>>

DayPasses(u) ==
    /\ failures[u] > 0
    /\ failures' = [failures EXCEPT ![u] = 0]
    /\ UNCHANGED <<habit, user, route, contact, codes, logged, pref, req, told, late, broken>>

\* The process dies, or the database refuses a commit: what was committed stays.
Crash(s) ==
    /\ req[s] # Idle /\ "crash" \in habit.does /\ Ends(s)
    /\ UNCHANGED <<habit, user, route, contact, codes, logged, failures, pref, told, late, broken>>

Next ==
    \/ \E s \in Session :
         \/ FindNoUser(s) \/ InsertUser(s) \/ FindUser(s)
         \/ \E a \in habit.addresses : AddContact(s, a)
         \/ InsertContact(s) \/ RecordFailure(s)
         \/ \E c \in Contact :
              \/ SetPrimary(s, c) \/ DeleteContact(s, c) \/ AskCode(s, c) \/ CreatePreference(s, c)
              \/ \E i \in DOMAIN codes : EnterCode(s, i, c)
              \/ \E p \in Preference : UpdatePreference(s, p, c)
         \/ CommitPrimary(s) \/ CommitCode(s) \/ LogCode(s) \/ SendCode(s)
         \/ CommitVerified(s) \/ ResetLimit(s)
         \/ EditRoute(s) \/ CommitRoute(s) \/ DeleteRoute(s)
         \/ CommitCreated(s) \/ CommitUpdated(s)
         \/ \E p \in Preference : DeletePreference(s, p)
         \/ Crash(s)
    \/ \E u \in User : Anonymise(u) \/ DayPasses(u)
    \/ \E p \in Preference : Alert(p)
    \/ \E i \in DOMAIN codes : Expire(i) \/ HourPasses(i)

Spec == Init /\ [][Next]_accountVars

------------------------------------------------------------------------------
Request == [op : {"idle", "signup", "reselect", "add", "conflict", "primary", "code", "log", "send",
                  "verify", "reset", "route", "prefer", "move"},
            user : User \cup {0}, contact : Contact \cup {0}, address : Address \cup {None},
            code : 0 .. habit.maxCodes, pref : Preference \cup {0}, seen : SUBSET Contact]

\* Every variable has its type, one user is live, the rows name rows that are there, whatever
\* requests overlap; and the loser of two first requests finds the other's user ("This should
\* never happen", create_user) unless he was anonymised in between.
TypeOK ==
    /\ habit \in Habits
    /\ user \in [User -> {"none", "live", "deleted"}] /\ \A u, v \in Live : u = v
    /\ route \in [User -> {"none", "active", "inactive", "deleted"}]
    /\ contact \in [Contact -> [is : {"free", "row", "gone"}, user : User \cup {0},
                     address : Address \cup {None}, verified : BOOLEAN, primary : BOOLEAN]]
    /\ pref \in [Preference -> [is : {"free", "row", "deleted"}, user : User \cup {0},
                               contact : Contact \cup {0}]]
    /\ codes \in Seq([user : User, contact : Contact, used : BOOLEAN, expired : BOOLEAN,
                      recent : BOOLEAN, known : BOOLEAN]) /\ Len(codes) <= habit.maxCodes
    /\ logged \subseteq DOMAIN codes /\ failures \in [User -> Nat]
    /\ req \in [Session -> Request]
    /\ told \subseteq Address /\ late \subseteq User /\ broken \in BOOLEAN
    /\ \A p \in Preference : pref[p].is # "free" =>
          contact[pref[p].contact].is = "row" /\ contact[pref[p].contact].user = pref[p].user
    /\ broken => \E u \in User : user[u] = "deleted"

\* Whatever codes are asked for, entered twice, for another contact or after it was deleted and
\* added again: only an address whose messages the person reads is ever verified, and only to
\* such an address does an alert go (verify_code, create_preference, _get_verified_contact).
OnlyMineIsTold ==
    /\ \A c \in Contact : contact[c].verified => contact[c].address \in Mine
    /\ told \subseteq Mine

\* The limits are counted before they are used (check_verification_rate_limit and
\* check_add_contact_rate_limit): requests at once exceed them by one each, and only a request
\* that ended between its two commits leaves a code that is not counted.
RatesAreLimited ==
    /\ \A c \in Contact :
          Cardinality({i \in DOMAIN codes : /\ codes[i].contact = c /\ codes[i].recent
                                            /\ i \in logged \/ InFlight(i)})
             < VERIFICATION_CODE_RATE_LIMIT + Cardinality(Session)
    /\ \A u \in User : failures[u] < ADD_CONTACT_FAILURE_RATE_LIMIT + Cardinality(Session)

\* "Ensure only one primary email per user" (models/user.py:87), one preference per contact
\* (_check_duplicate_preference) and the maximum of preferences are looked up before they are
\* written, and no index is behind them: each is exceeded by as many rows as requests
\* overlapped, never by more, however many requests follow.
RacesAreBounded ==
    \A u \in User :
        /\ \A kind \in {"email", "sms"} : Cardinality(Primaries(u, kind)) <= Cardinality(Session)
        /\ Cardinality(ActivePrefs(u)) < MAX_NOTIFICATION_PREFERENCES_PER_ROUTE + Cardinality(Session)
        /\ \A c \in Contact :
              Cardinality({p \in ActivePrefs(u) : pref[p].contact = c}) <= Cardinality(Session)

\* "Deletes email addresses, phone numbers, verification codes (PII)", "Deactivates all user
\* routes (stops alerts)" (anonymise_user): of a user who had no request under way nothing is
\* left, and nothing comes back.
NothingSurvives ==
    \A u \in User : user[u] = "deleted" /\ u \notin late =>
        /\ \A c \in Contact : ~IsContact(c, u)
        /\ \A i \in DOMAIN codes : codes[i].user = u => codes[i].used
        /\ PrefsOf(u) = {} /\ route[u] # "active"
===============================================================================
