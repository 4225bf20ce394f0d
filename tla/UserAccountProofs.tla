--------------------------- MODULE UserAccountProofs ---------------------------
(* UserAccount, for any number of requests, users, contacts and codes, and any   *)
(* habits: only addresses the person reads are verified and alerted, nothing of  *)
(* an anonymised user survives, and what requests at once may exceed is bounded. *)
EXTENDS UserAccount, FiniteSetTheorems, TLAPS

Rows == [is : {"free", "row", "gone"}, user : User \cup {0}, address : Address \cup {None},
         verified : BOOLEAN, primary : BOOLEAN]
CodeRows == [user : User \cup {0}, contact : Contact, used : BOOLEAN, expired : BOOLEAN,
             recent : BOOLEAN, known : BOOLEAN]
Operations == {"idle", "signup", "reselect", "add", "conflict", "primary", "code", "log", "send",
               "verify", "reset", "route", "prefer", "move"}
Requests == [op : Operations, user : User \cup {0}, contact : Contact \cup {0},
             address : Address \cup {None}, code : Nat, pref : Preference \cup {0},
             seen : SUBSET Contact]

Types ==
    /\ contact \in [Contact -> Rows]
    /\ codes \in Seq(CodeRows)
    /\ req \in [Session -> Requests]

\* A code the person has read was sent to an address of his, and its contact's id was never free.
CodesAreTrue ==
    \A i \in DOMAIN codes :
        /\ contact[codes[i].contact].is # "free"
        /\ codes[i].known /\ contact[codes[i].contact].is = "row" =>
              contact[codes[i].contact].address \in Mine

\* What a request remembers of its contact holds as long as the contact is there.
Sound(r) ==
    LET row == contact[r.contact].is = "row" IN
    /\ r.op \in {"code", "log", "send", "verify"} =>
          r.contact \in Contact /\ contact[r.contact].is # "free"
    /\ r.op \in {"code", "log", "send"} /\ row => contact[r.contact].address = r.address
    /\ r.op \in {"log", "send"} => r.code \in DOMAIN codes /\ codes[r.code].contact = r.contact
    /\ r.op = "verify" /\ row => contact[r.contact].address \in Mine

RequestsAreTrue == \A s \in Session : Sound(req[s])

\* OnlyMineIsTold is not inductive: it says nothing of the code that is entered next, nor of
\* the row that a request under way is to verify.
IInv == Types /\ OnlyMineIsTold /\ CodesAreTrue /\ RequestsAreTrue

\* A preference and a request for one name a contact.
Prefs == [is : {"free", "row", "deleted"}, user : User \cup {0}, contact : Contact \cup {0}]
ContactsNamed ==
    /\ pref \in [Preference -> Prefs]
    /\ \A p \in Preference : pref[p].is # "free" => pref[p].contact \in Contact
    /\ \A s \in Session : req[s].op \in {"prefer", "move"} => req[s].contact \in Contact

LEMMA CodeTypes ==
    ASSUME IInv
    PROVE  \A i \in DOMAIN codes : codes[i] \in CodeRows
<1>1. codes \in Seq(CodeRows) /\ DOMAIN codes = 1 .. Len(codes)
  BY DEF IInv, Types
<1> QED  BY <1>1

LEMMA InitIsTrue == Init => IInv
<1> SUFFICES ASSUME Init PROVE IInv
  OBVIOUS
<1>1. NoContact \in Rows /\ Idle \in Requests /\ <<>> \in Seq(CodeRows)
  BY DEF NoContact, Idle, Rows, Requests, Operations
<1>2. Types
  BY <1>1 DEF Init, Types
<1>3. OnlyMineIsTold /\ CodesAreTrue
  BY DEF Init, OnlyMineIsTold, CodesAreTrue, NoContact
<1>4. RequestsAreTrue
  BY DEF Init, RequestsAreTrue, Sound, Idle
<1> QED  BY <1>2, <1>3, <1>4 DEF IInv

------------------------------------------------------------------------------
(* Steps that change a request and neither contacts nor codes nor alerts *)

LEMMA RequestKeeps ==
    ASSUME IInv, NEW s \in Session, NEW r \in Requests, Sound(r),
           req' = [req EXCEPT ![s] = r], UNCHANGED <<contact, codes, told>>
    PROVE  IInv'
<1>1. Types'
  BY DEF IInv, Types
<1>2. OnlyMineIsTold' /\ CodesAreTrue'
  BY DEF IInv, OnlyMineIsTold, CodesAreTrue
<1>3. RequestsAreTrue'
  <2> SUFFICES ASSUME NEW t \in Session PROVE Sound(req[t])'
    BY DEF RequestsAreTrue
  <2>1. CASE t = s
    <3>1. req'[t] = r
      BY <2>1 DEF IInv, Types
    <3> QED  BY <3>1 DEF Sound
  <2>2. CASE t # s
    <3>1. req'[t] = req[t] /\ Sound(req[t])
      BY <2>2 DEF IInv, Types, RequestsAreTrue
    <3> QED  BY <3>1 DEF Sound
  <2> QED  BY <2>1, <2>2
<1> QED  BY <1>1, <1>2, <1>3 DEF IInv

\* Nothing of the three changes.
LEMMA StutterKeeps ==
    ASSUME IInv, UNCHANGED <<contact, codes, told, req>>
    PROVE  IInv'
BY DEF IInv, Types, OnlyMineIsTold, CodesAreTrue, RequestsAreTrue, Sound

LEMMA IdleIsSound == Idle \in Requests /\ Sound(Idle)
<1>1. Idle \in Requests
  BY DEF Idle, Requests, Operations
<1>2. Sound(Idle)
  BY DEF Idle, Sound
<1> QED  BY <1>1, <1>2

\* A request ends (or dies with its process).
LEMMA EndKeeps ==
    ASSUME IInv, NEW s \in Session, Ends(s), UNCHANGED <<contact, codes, told>>
    PROVE  IInv'
BY IdleIsSound, RequestKeeps DEF Ends

\* A request that carries no claim about a contact begins or goes on.
Claims == {"code", "log", "send", "verify"}

LEMMA PlainKeeps ==
    ASSUME IInv, NEW s \in Session, NEW r \in Requests, r.op \notin Claims,
           req' = [req EXCEPT ![s] = r], UNCHANGED <<contact, codes, told>>
    PROVE  IInv'
<1>1. Sound(r)
  BY DEF Sound, Claims
<1> QED  BY <1>1, RequestKeeps

LEMMA GoesPlain ==
    ASSUME IInv, NEW s \in Session, NEW op \in Operations \ Claims, Goes(s, op),
           UNCHANGED <<contact, codes, told>>
    PROVE  IInv'
<1>1. [req[s] EXCEPT !.op = op] \in Requests /\ [req[s] EXCEPT !.op = op].op = op
  BY DEF IInv, Types, Requests
<1>2. req' = [req EXCEPT ![s] = [req[s] EXCEPT !.op = op]]
  BY DEF Goes
<1> QED  BY <1>1, <1>2, PlainKeeps

LEMMA GoPlain ==
    ASSUME IInv, NEW s \in Session, NEW r \in Requests, r.op \notin Claims, Go(s, r),
           UNCHANGED <<contact, codes, told>>
    PROVE  IInv'
BY PlainKeeps DEF Go

LEMMA UserKeeps ==
    ASSUME IInv, NEW s \in Session, FindNoUser(s) \/ InsertUser(s) \/ FindUser(s)
    PROVE  IInv'
<1>1. UNCHANGED <<contact, codes, told>>
  BY DEF FindNoUser, InsertUser, FindUser
<1>2. CASE FindNoUser(s)
  <2>1. [Idle EXCEPT !.op = "signup"] \in Requests /\ [Idle EXCEPT !.op = "signup"].op \notin Claims
    BY DEF Idle, Requests, Operations, Claims
  <2> QED  BY <1>1, <1>2, <2>1, GoPlain DEF FindNoUser
<1>3. CASE InsertUser(s)
  <2>1. "reselect" \in Operations \ Claims
    BY DEF Operations, Claims
  <2> QED  BY <1>1, <1>3, <2>1, GoesPlain, EndKeeps DEF InsertUser
<1>4. CASE FindUser(s)
  BY <1>1, <1>4, EndKeeps DEF FindUser
<1> QED  BY <1>2, <1>3, <1>4

\* The lookups before an addition, a primary, a route and a preference, and what commits none
\* of the three.
LEMMA LookupKeeps ==
    ASSUME IInv, NEW s \in Session,
           \/ \E a \in Address : AddContact(s, a)
           \/ \E c \in Contact : SetPrimary(s, c) \/ CreatePreference(s, c)
           \/ \E c \in Contact, p \in Preference : UpdatePreference(s, p, c)
           \/ EditRoute(s)
    PROVE  IInv'
<1> USE DEF Idle, Requests, Operations, Claims
<1>1. CASE \E a \in Address : AddContact(s, a)
  <2>1. PICK a \in Address : AddContact(s, a)
    BY <1>1
  <2>2. PICK u \in Live :
          Go(s, [Idle EXCEPT !.op = "add", !.user = u, !.address = a, !.seen = ContactsOf(u, Kind[a])])
    BY <2>1 DEF AddContact
  <2> DEFINE r == [Idle EXCEPT !.op = "add", !.user = u, !.address = a, !.seen = ContactsOf(u, Kind[a])]
  <2>3. r \in Requests /\ r.op \notin Claims
    BY DEF Live, ContactsOf
  <2>4. UNCHANGED <<contact, codes, told>>
    BY <2>1 DEF AddContact
  <2>5. Go(s, r)
    BY <2>2
  <2> HIDE DEF r
  <2> QED  BY <2>3, <2>4, <2>5, GoPlain
<1>2. CASE \E c \in Contact : SetPrimary(s, c)
  <2>1. PICK c \in Contact : SetPrimary(s, c)
    BY <1>2
  <2>2. PICK u \in Live : Go(s, [Idle EXCEPT !.op = "primary", !.user = u, !.contact = c,
                                             !.seen = Primaries(u, Kind[contact[c].address])])
    BY <2>1 DEF SetPrimary
  <2> DEFINE r == [Idle EXCEPT !.op = "primary", !.user = u, !.contact = c,
                               !.seen = Primaries(u, Kind[contact[c].address])]
  <2>3. r \in Requests /\ r.op \notin Claims
    BY DEF Live, Primaries, ContactsOf
  <2>4. UNCHANGED <<contact, codes, told>>
    BY <2>1 DEF SetPrimary
  <2>5. Go(s, r)
    BY <2>2
  <2> HIDE DEF r
  <2> QED  BY <2>3, <2>4, <2>5, GoPlain
<1>3. CASE \E c \in Contact : CreatePreference(s, c)
  <2>1. PICK c \in Contact : CreatePreference(s, c)
    BY <1>3
  <2>2. PICK u \in Live : Go(s, [Idle EXCEPT !.op = "prefer", !.user = u, !.contact = c])
    BY <2>1 DEF CreatePreference
  <2> DEFINE r == [Idle EXCEPT !.op = "prefer", !.user = u, !.contact = c]
  <2>3. r \in Requests /\ r.op \notin Claims
    BY DEF Live
  <2>4. UNCHANGED <<contact, codes, told>>
    BY <2>1 DEF CreatePreference
  <2>5. Go(s, r)
    BY <2>2
  <2> HIDE DEF r
  <2> QED  BY <2>3, <2>4, <2>5, GoPlain
<1>4. CASE \E c \in Contact, p \in Preference : UpdatePreference(s, p, c)
  <2>1. PICK c \in Contact, p \in Preference : UpdatePreference(s, p, c)
    BY <1>4
  <2>2. PICK u \in Live : Go(s, [Idle EXCEPT !.op = "move", !.user = u, !.contact = c, !.pref = p])
    BY <2>1 DEF UpdatePreference
  <2> DEFINE r == [Idle EXCEPT !.op = "move", !.user = u, !.contact = c, !.pref = p]
  <2>3. r \in Requests /\ r.op \notin Claims
    BY DEF Live
  <2>4. UNCHANGED <<contact, codes, told>>
    BY <2>1 DEF UpdatePreference
  <2>5. Go(s, r)
    BY <2>2
  <2> HIDE DEF r
  <2> QED  BY <2>3, <2>4, <2>5, GoPlain
<1>5. CASE EditRoute(s)
  <2>1. PICK u \in Live : Go(s, [Idle EXCEPT !.op = "route", !.user = u])
    BY <1>5 DEF EditRoute
  <2> DEFINE r == [Idle EXCEPT !.op = "route", !.user = u]
  <2>2. r \in Requests /\ r.op \notin Claims
    BY DEF Live
  <2>3. UNCHANGED <<contact, codes, told>>
    BY <1>5 DEF EditRoute
  <2>4. Go(s, r)
    BY <2>1
  <2> HIDE DEF r
  <2> QED  BY <2>2, <2>3, <2>4, GoPlain
<1> QED  BY <1>1, <1>2, <1>3, <1>4, <1>5

\* Commits and deletions of other rows, and a crash.
LEMMA OtherRowsKeep ==
    ASSUME IInv, NEW s \in Session,
           \/ RecordFailure(s) \/ CommitRoute(s) \/ CommitCreated(s) \/ CommitUpdated(s) \/ Crash(s)
           \/ DeleteRoute(s) \/ \E p \in Preference : DeletePreference(s, p)
    PROVE  IInv'
<1>1. CASE RecordFailure(s) \/ CommitRoute(s) \/ CommitCreated(s) \/ CommitUpdated(s) \/ Crash(s)
  <2>1. Ends(s) /\ UNCHANGED <<contact, codes, told>>
    BY <1>1 DEF RecordFailure, CommitRoute, CommitCreated, CommitUpdated, Crash
  <2> QED  BY <2>1, EndKeeps
<1>2. CASE DeleteRoute(s) \/ \E p \in Preference : DeletePreference(s, p)
  <2>1. UNCHANGED <<contact, codes, told, req>>
    BY <1>2 DEF DeleteRoute, DeletePreference
  <2> QED  BY <2>1, StutterKeeps
<1> QED  BY <1>1, <1>2

------------------------------------------------------------------------------
(* Steps that change contacts, or codes without making one known *)

\* A row that is there was there and keeps its address, one that was made is not free again,
\* and no code becomes known: what codes and requests claim stays true.
LEMMA RowsKeep ==
    ASSUME IInv, Types', UNCHANGED told,
           \A c \in Contact :
               /\ contact[c].is # "free" =>
                     /\ contact'[c].is # "free"
                     /\ contact'[c].is = "row" =>
                           contact[c].is = "row" /\ contact'[c].address = contact[c].address
               /\ contact'[c].verified => contact'[c].address \in Mine,
           DOMAIN codes' = DOMAIN codes,
           \A i \in DOMAIN codes : /\ codes'[i].contact = codes[i].contact
                                   /\ codes'[i].known => codes[i].known,
           \A t \in Session : req'[t] = req[t] \/ req'[t].op \notin Claims
    PROVE  IInv'
<1>1. OnlyMineIsTold'
  BY DEF IInv, OnlyMineIsTold
<1>2. CodesAreTrue'
  <2> SUFFICES ASSUME NEW i \in DOMAIN codes
               PROVE  /\ contact'[codes'[i].contact].is # "free"
                      /\ codes'[i].known /\ contact'[codes'[i].contact].is = "row" =>
                            contact'[codes'[i].contact].address \in Mine
    BY DEF CodesAreTrue
  <2>1. codes[i].contact \in Contact
    BY CodeTypes DEF CodeRows
  <2>2. /\ contact[codes[i].contact].is # "free"
        /\ codes[i].known /\ contact[codes[i].contact].is = "row" =>
              contact[codes[i].contact].address \in Mine
    BY DEF IInv, CodesAreTrue
  <2> QED  BY <2>1, <2>2
<1>3. RequestsAreTrue'
  <2> SUFFICES ASSUME NEW t \in Session PROVE Sound(req[t])'
    BY DEF RequestsAreTrue
  <2>1. CASE req'[t].op \notin Claims
    BY <2>1 DEF Sound, Claims
  <2>2. CASE req'[t] = req[t] /\ req[t].op \in Claims
    <3>1. Sound(req[t])
      BY DEF IInv, RequestsAreTrue
    <3>2. req[t].contact \in Contact /\ contact[req[t].contact].is # "free"
      BY <2>2, <3>1 DEF Sound, Claims
    <3> QED  BY <2>2, <3>1, <3>2 DEF Sound
  <2> QED  BY <2>1, <2>2
<1> QED  BY <1>1, <1>2, <1>3 DEF IInv

LEMMA InsertKeeps ==
    ASSUME IInv, NEW s \in Session, InsertContact(s)
    PROVE  IInv'
<1> USE DEF InsertContact
<1>1. CASE \E c \in Contact : contact[c].is = "row" /\ contact[c].address = req[s].address
  <2>1. "conflict" \in Operations \ Claims
    BY DEF Operations, Claims
  <2> QED  BY <1>1, <2>1, GoesPlain
<1>2. CASE ~\E c \in Contact : contact[c].is = "row" /\ contact[c].address = req[s].address
  <2> DEFINE first == req[s].seen = {}
             row == [is |-> "row", user |-> req[s].user, address |-> req[s].address,
                     verified |-> FALSE, primary |-> first]
  <2>1. /\ contact' = [contact EXCEPT ![New(contact)] = row]
        /\ Ends(s) /\ UNCHANGED <<codes, told>>
        /\ Unused(contact) # {}
    BY <1>2
  <2>2. New(contact) \in Contact /\ contact[New(contact)].is = "free"
    BY <2>1 DEF New, Unused, IInv, Types
  <2>3. first \in BOOLEAN
    OBVIOUS
  <2>4. req[s].user \in User \cup {0} /\ req[s].address \in Address \cup {None}
    BY DEF IInv, Types, Requests
  <2> HIDE DEF first
  <2>5. row \in Rows /\ row.is = "row" /\ ~row.verified
    BY <2>3, <2>4 DEF Rows
  <2> HIDE DEF row
  <2>6. contact' \in [Contact -> Rows]
    BY <2>1, <2>5 DEF IInv, Types
  <2>7. req' = [req EXCEPT ![s] = Idle] /\ req' \in [Session -> Requests]
    BY <2>1, IdleIsSound DEF Ends, IInv, Types
  <2>8. Types'
    BY <2>1, <2>6, <2>7 DEF IInv, Types
  <2>9. ASSUME NEW c \in Contact
        PROVE  /\ contact[c].is # "free" => contact'[c] = contact[c]
               /\ contact'[c].verified => contact'[c].address \in Mine
    <3>1. CASE c = New(contact)
      <4>1. contact'[c] = row
        BY <2>1, <3>1 DEF IInv, Types
      <4> QED  BY <2>2, <2>5, <3>1, <4>1
    <3>2. CASE c # New(contact)
      <4>1. contact'[c] = contact[c]
        BY <2>1, <3>2 DEF IInv, Types
      <4> QED  BY <4>1 DEF IInv, OnlyMineIsTold
    <3> QED  BY <3>1, <3>2
  <2>10. \A t \in Session : req'[t] = req[t] \/ req'[t].op \notin Claims
    BY <2>7 DEF IInv, Types, Idle, Claims
  <2> QED  BY <2>1, <2>8, <2>9, <2>10, RowsKeep
<1> QED  BY <1>1, <1>2

LEMMA CommitPrimaryKeeps ==
    ASSUME IInv, NEW s \in Session, CommitPrimary(s)
    PROVE  IInv'
<1>1. CASE UNCHANGED contact
  BY <1>1, EndKeeps DEF CommitPrimary
<1>2. CASE contact' = Moved(req[s])
  <2>1. Ends(s) /\ UNCHANGED <<codes, told>>
    BY DEF CommitPrimary
  <2>2. contact' = [c \in Contact |->
                      IF contact[c].is # "row" THEN contact[c]
                      ELSE IF c = req[s].contact THEN [contact[c] EXCEPT !.primary = TRUE]
                      ELSE IF c \in req[s].seen THEN [contact[c] EXCEPT !.primary = FALSE]
                      ELSE contact[c]]
    BY <1>2 DEF Moved
  <2>3. ASSUME NEW c \in Contact
        PROVE  /\ contact'[c] \in Rows /\ contact'[c].is = contact[c].is
               /\ contact'[c].address = contact[c].address
               /\ contact'[c].verified = contact[c].verified
    BY <2>2 DEF IInv, Types, Rows
  <2>4. contact' \in [Contact -> Rows]
    BY <2>2, <2>3
  <2>5. req' = [req EXCEPT ![s] = Idle] /\ req' \in [Session -> Requests]
    BY <2>1, IdleIsSound DEF Ends, IInv, Types
  <2>6. Types'
    BY <2>1, <2>4, <2>5 DEF IInv, Types
  <2>7. \A t \in Session : req'[t] = req[t] \/ req'[t].op \notin Claims
    BY <2>5 DEF IInv, Types, Idle, Claims
  <2>8. \A c \in Contact : contact[c].verified => contact[c].address \in Mine
    BY DEF IInv, OnlyMineIsTold
  <2> QED  BY <2>1, <2>3, <2>6, <2>7, <2>8, RowsKeep
<1> QED  BY <1>1, <1>2 DEF CommitPrimary

\* Rows that are gone.
LEMMA WithoutRows ==
    ASSUME IInv, NEW gone \in SUBSET Contact, contact' = Without(gone)
    PROVE  /\ contact' \in [Contact -> Rows]
           /\ \A c \in Contact :
                 /\ contact[c].is # "free" =>
                       /\ contact'[c].is # "free"
                       /\ contact'[c].is = "row" =>
                             contact[c].is = "row" /\ contact'[c].address = contact[c].address
                 /\ contact'[c].verified => contact'[c].address \in Mine
<1>1. contact' = [c \in Contact |-> IF c \in gone THEN [NoContact EXCEPT !.is = "gone"] ELSE contact[c]]
  BY DEF Without
<1> DEFINE none == [NoContact EXCEPT !.is = "gone"]
<1>2. none \in Rows /\ none.is = "gone" /\ ~none.verified
  BY DEF NoContact, Rows
<1> HIDE DEF none
<1>3. contact' \in [Contact -> Rows]
  BY <1>1, <1>2 DEF IInv, Types, none
<1>4. ASSUME NEW c \in Contact
      PROVE  /\ contact[c].is # "free" =>
                   /\ contact'[c].is # "free"
                   /\ contact'[c].is = "row" =>
                         contact[c].is = "row" /\ contact'[c].address = contact[c].address
             /\ contact'[c].verified => contact'[c].address \in Mine
  <2>1. CASE c \in gone
    <3>1. contact'[c] = none
      BY <1>1, <2>1 DEF none
    <3> QED  BY <1>2, <3>1
  <2>2. CASE c \notin gone
    <3>1. contact'[c] = contact[c]
      BY <1>1, <2>2
    <3> QED  BY <3>1 DEF IInv, OnlyMineIsTold
  <2> QED  BY <2>1, <2>2
<1> QED  BY <1>3, <1>4

LEMMA DeleteContactKeeps ==
    ASSUME IInv, NEW s \in Session, NEW c \in Contact, DeleteContact(s, c)
    PROVE  IInv'
<1>1. {c} \in SUBSET Contact /\ contact' = Without({c}) /\ UNCHANGED <<codes, told, req>>
  BY DEF DeleteContact
<1>2. Types'
  BY <1>1, WithoutRows DEF IInv, Types
<1> QED  BY <1>1, <1>2, WithoutRows, RowsKeep

------------------------------------------------------------------------------
(* Codes *)

LEMMA AskKeeps ==
    ASSUME IInv, NEW s \in Session, NEW c \in Contact, AskCode(s, c)
    PROVE  IInv'
<1>1. PICK u \in Live :
        /\ IsContact(c, u)
        /\ Go(s, [Idle EXCEPT !.op = "code", !.user = u, !.contact = c, !.address = contact[c].address])
  BY DEF AskCode
<1> DEFINE r == [Idle EXCEPT !.op = "code", !.user = u, !.contact = c, !.address = contact[c].address]
<1>2. UNCHANGED <<contact, codes, told>>
  BY DEF AskCode
<1>3. contact[c].address \in Address \cup {None} /\ contact[c].is = "row"
  BY <1>1 DEF IsContact, IInv, Types, Rows
<1>4. r \in Requests
  BY <1>3 DEF Idle, Requests, Operations, Live
<1>5. Sound(r)
  BY <1>3 DEF Sound, Idle
<1>6. req' = [req EXCEPT ![s] = r]
  BY <1>1 DEF Go
<1> HIDE DEF r
<1> QED  BY <1>2, <1>4, <1>5, <1>6, RequestKeeps

LEMMA CommitCodeKeeps ==
    ASSUME IInv, NEW s \in Session, CommitCode(s)
    PROVE  IInv'
<1> DEFINE new == [user |-> req[s].user, contact |-> req[s].contact, used |-> FALSE,
                   expired |-> FALSE, recent |-> TRUE, known |-> FALSE]
           r == [req[s] EXCEPT !.op = "log", !.code = Len(codes) + 1]
<1>1. codes' = Append(codes, new) /\ UNCHANGED <<contact, told>> /\ req[s].op = "code"
  BY DEF CommitCode
<1>2. req[s] \in Requests /\ Sound(req[s]) /\ codes \in Seq(CodeRows) /\ Len(codes) \in Nat
  BY DEF IInv, Types, RequestsAreTrue
<1>3. /\ req[s].contact \in Contact /\ contact[req[s].contact].is # "free"
      /\ contact[req[s].contact].is = "row" => contact[req[s].contact].address = req[s].address
  BY <1>1, <1>2 DEF Sound
<1>4. new \in CodeRows /\ ~new.known /\ new.contact = req[s].contact
  BY <1>2, <1>3 DEF CodeRows, Requests
<1>5. /\ r \in Requests /\ r.op = "log" /\ r.contact = req[s].contact
      /\ r.address = req[s].address /\ r.code = Len(codes) + 1
  <2> DEFINE next == Len(codes) + 1
  <2>1. next \in Nat
    BY <1>2
  <2>2. r = [req[s] EXCEPT !.op = "log", !.code = next]
    OBVIOUS
  <2> HIDE DEF next, r
  <2> QED  BY <1>2, <2>1, <2>2 DEF Requests, Operations, next
<1>6. req' = [req EXCEPT ![s] = r]
  BY DEF CommitCode, IInv, Types
<1> HIDE DEF new, r
<1>7. /\ codes' \in Seq(CodeRows) /\ DOMAIN codes' = 1 .. Len(codes) + 1
      /\ \A i \in DOMAIN codes : i \in DOMAIN codes' /\ codes'[i] = codes[i]
      /\ codes'[Len(codes) + 1] = new
      /\ DOMAIN codes = 1 .. Len(codes)
  BY <1>1, <1>2, <1>4
<1>8. Types'
  BY <1>1, <1>5, <1>6, <1>7 DEF IInv, Types
<1>9. OnlyMineIsTold'
  BY <1>1 DEF IInv, OnlyMineIsTold
<1>10. CodesAreTrue'
  <2> SUFFICES ASSUME NEW i \in DOMAIN codes'
               PROVE  /\ contact[codes'[i].contact].is # "free"
                      /\ codes'[i].known /\ contact[codes'[i].contact].is = "row" =>
                            contact[codes'[i].contact].address \in Mine
    BY <1>1 DEF CodesAreTrue
  <2>1. CASE i \in DOMAIN codes
    BY <1>7, <2>1 DEF IInv, CodesAreTrue
  <2>2. CASE i \notin DOMAIN codes
    <3>1. i = Len(codes) + 1
      BY <1>2, <1>7, <2>2
    <3> QED  BY <1>3, <1>4, <1>7, <3>1
  <2> QED  BY <2>1, <2>2
<1>11. RequestsAreTrue'
  <2> SUFFICES ASSUME NEW t \in Session PROVE Sound(req[t])'
    BY DEF RequestsAreTrue
  <2>1. CASE t = s
    <3>1. req'[t] = r
      BY <1>6, <2>1 DEF IInv, Types
    <3>2. Len(codes) + 1 \in DOMAIN codes'
      BY <1>2, <1>7
    <3> QED  BY <1>1, <1>3, <1>4, <1>5, <1>7, <3>1, <3>2 DEF Sound
  <2>2. CASE t # s
    <3>1. req'[t] = req[t] /\ Sound(req[t])
      BY <1>6, <2>2 DEF IInv, Types, RequestsAreTrue
    <3> QED  BY <1>1, <1>7, <3>1 DEF Sound
  <2> QED  BY <2>1, <2>2
<1> QED  BY <1>8, <1>9, <1>10, <1>11 DEF IInv

LEMMA LogKeeps ==
    ASSUME IInv, NEW s \in Session, LogCode(s)
    PROVE  IInv'
<1> DEFINE r == [req[s] EXCEPT !.op = "send"]
<1>1. req[s] \in Requests /\ Sound(req[s]) /\ req[s].op = "log"
  BY DEF LogCode, IInv, Types, RequestsAreTrue
<1>2. /\ r \in Requests /\ r.op = "send" /\ r.contact = req[s].contact
      /\ r.address = req[s].address /\ r.code = req[s].code
  BY <1>1 DEF Requests, Operations
<1>3. req' = [req EXCEPT ![s] = r] /\ UNCHANGED <<contact, codes, told>>
  BY DEF LogCode, Goes
<1> HIDE DEF r
<1>4. Sound(r)
  BY <1>1, <1>2 DEF Sound
<1> QED  BY <1>2, <1>3, <1>4, RequestKeeps

\* A code becomes known only to the person whose address it was sent to.
LEMMA SendKeeps ==
    ASSUME IInv, NEW s \in Session, SendCode(s)
    PROVE  IInv'
<1>1. /\ req[s].op = "send" /\ Ends(s) /\ UNCHANGED <<contact, told>>
  BY DEF SendCode
<1>2. req[s].code \in DOMAIN codes /\ codes[req[s].code].contact = req[s].contact
  BY <1>1 DEF IInv, RequestsAreTrue, Sound
<1>3. contact[req[s].contact].is = "row" => contact[req[s].contact].address = req[s].address
  BY <1>1 DEF IInv, RequestsAreTrue, Sound
<1>4. PICK delivered \in BOOLEAN :
        codes' = [codes EXCEPT ![req[s].code].known = delivered /\ req[s].address \in Mine]
  BY DEF SendCode
<1> DEFINE known == delivered /\ req[s].address \in Mine
<1>5. known \in BOOLEAN /\ (known => req[s].address \in Mine)
  OBVIOUS
<1>6. codes' = [codes EXCEPT ![req[s].code].known = known]
  BY <1>4
<1> HIDE DEF known
<1>7. /\ codes' \in Seq(CodeRows) /\ DOMAIN codes' = DOMAIN codes
      /\ \A i \in DOMAIN codes : /\ codes'[i].contact = codes[i].contact
                                 /\ codes'[i].known = IF i = req[s].code THEN known ELSE codes[i].known
  <2> DEFINE n == [codes[req[s].code] EXCEPT !.known = known]
  <2>1. codes[req[s].code] \in CodeRows
    BY <1>2, CodeTypes
  <2>2. n \in CodeRows /\ n.contact = codes[req[s].code].contact /\ n.known = known
    BY <1>5, <2>1 DEF CodeRows
  <2>3. codes' = [codes EXCEPT ![req[s].code] = n]
    BY <1>6
  <2> HIDE DEF n
  <2>4. codes \in Seq(CodeRows)
    BY DEF IInv, Types
  <2> QED  BY <1>2, <2>2, <2>3, <2>4
<1>8. req' = [req EXCEPT ![s] = Idle] /\ req' \in [Session -> Requests]
  BY <1>1, IdleIsSound DEF Ends, IInv, Types
<1>9. Types'
  BY <1>1, <1>7, <1>8 DEF IInv, Types
<1>10. OnlyMineIsTold'
  BY <1>1 DEF IInv, OnlyMineIsTold
<1>11. CodesAreTrue'
  <2> SUFFICES ASSUME NEW i \in DOMAIN codes
               PROVE  /\ contact[codes'[i].contact].is # "free"
                      /\ codes'[i].known /\ contact[codes'[i].contact].is = "row" =>
                            contact[codes'[i].contact].address \in Mine
    BY <1>1, <1>7 DEF CodesAreTrue
  <2>1. CASE i = req[s].code
    BY <1>2, <1>3, <1>5, <1>7, <2>1 DEF IInv, CodesAreTrue
  <2>2. CASE i # req[s].code
    BY <1>7, <2>2 DEF IInv, CodesAreTrue
  <2> QED  BY <2>1, <2>2
<1>12. RequestsAreTrue'
  <2> SUFFICES ASSUME NEW t \in Session PROVE Sound(req[t])'
    BY DEF RequestsAreTrue
  <2>1. CASE t = s
    <3>1. req'[t].op = "idle"
      BY <1>8, <2>1 DEF Idle, IInv, Types
    <3> QED  BY <3>1 DEF Sound
  <2>2. CASE t # s
    <3>1. req'[t] = req[t] /\ Sound(req[t])
      BY <1>8, <2>2 DEF IInv, Types, RequestsAreTrue
    <3> QED  BY <1>1, <1>7, <3>1 DEF Sound
  <2> QED  BY <2>1, <2>2
<1> QED  BY <1>9, <1>10, <1>11, <1>12 DEF IInv

LEMMA EnterKeeps ==
    ASSUME IInv, NEW s \in Session, NEW c \in Contact, NEW i \in DOMAIN codes, EnterCode(s, i, c)
    PROVE  IInv'
<1>1. PICK u \in Live :
        /\ Fits(i, c, u) /\ IsContact(c, u)
        /\ Go(s, [Idle EXCEPT !.op = "verify", !.user = u, !.contact = c, !.code = i])
  BY DEF EnterCode
<1> DEFINE r == [Idle EXCEPT !.op = "verify", !.user = u, !.contact = c, !.code = i]
<1>2. codes[i].known /\ UNCHANGED <<contact, codes, told>>
  BY DEF EnterCode
<1>3. contact[c].is = "row" /\ contact[c].address \in Mine
  BY <1>1, <1>2 DEF Fits, IsContact, IInv, CodesAreTrue
<1>4. i \in Nat
  BY DEF IInv, Types
<1>5. r \in Requests
  BY <1>4 DEF Idle, Requests, Operations, Live
<1>6. Sound(r)
  BY <1>3 DEF Sound, Idle
<1>7. req' = [req EXCEPT ![s] = r]
  BY <1>1 DEF Go
<1> HIDE DEF r
<1> QED  BY <1>2, <1>5, <1>6, <1>7, RequestKeeps

\* What changes only the flags of codes, and no code to known.
LEMMA FlagsKeep ==
    ASSUME IInv, codes' \in Seq(CodeRows), DOMAIN codes' = DOMAIN codes,
           \A i \in DOMAIN codes : /\ codes'[i].contact = codes[i].contact
                                   /\ codes'[i].known => codes[i].known,
           UNCHANGED <<contact, told>>, UNCHANGED req \/ \E s \in Session : Ends(s)
    PROVE  IInv'
<1>1. /\ req' \in [Session -> Requests]
      /\ \A t \in Session : req'[t] = req[t] \/ req'[t].op \notin Claims
  <2>1. CASE UNCHANGED req
    BY <2>1 DEF IInv, Types
  <2>2. CASE \E s \in Session : Ends(s)
    <3>1. Idle.op \notin Claims
      BY DEF Idle, Claims
    <3> QED  BY <2>2, <3>1, IdleIsSound DEF Ends, IInv, Types
  <2> QED  BY <2>1, <2>2
<1>2. Types'
  BY <1>1 DEF IInv, Types
<1>3. \A c \in Contact : contact[c].verified => contact[c].address \in Mine
  BY DEF IInv, OnlyMineIsTold
<1> QED  BY <1>1, <1>2, <1>3, RowsKeep

LEMMA VerifyKeeps ==
    ASSUME IInv, NEW s \in Session, CommitVerified(s)
    PROVE  IInv'
<1>1. req[s].op = "verify" /\ UNCHANGED told
  BY DEF CommitVerified
<1>2. CASE contact[req[s].contact].is # "row"
  BY <1>2, EndKeeps DEF CommitVerified
<1>3. CASE contact[req[s].contact].is = "row"
  <2>1. /\ contact' = [contact EXCEPT ![req[s].contact].verified = TRUE]
        /\ codes' = [codes EXCEPT ![req[s].code].used = TRUE]
        /\ req' = [req EXCEPT ![s].op = "reset"]
    BY <1>3 DEF CommitVerified, Goes
  <2>2. req[s].contact \in Contact /\ contact[req[s].contact].address \in Mine
    BY <1>1, <1>3 DEF IInv, RequestsAreTrue, Sound
  <2>3. /\ contact' \in [Contact -> Rows]
        /\ \A c \in Contact : /\ contact'[c].is = contact[c].is
                              /\ contact'[c].address = contact[c].address
                              /\ contact'[c].verified => contact[c].verified \/ c = req[s].contact
    BY <2>1, <2>2 DEF IInv, Types, Rows
  <2>4. /\ codes' \in Seq(CodeRows) /\ DOMAIN codes' = DOMAIN codes
        /\ \A i \in DOMAIN codes : codes'[i].contact = codes[i].contact /\ codes'[i].known = codes[i].known
    <3>1. codes \in Seq(CodeRows)
      BY DEF IInv, Types
    <3>2. CASE req[s].code \in DOMAIN codes
      <4> DEFINE n == [codes[req[s].code] EXCEPT !.used = TRUE]
      <4>1. codes[req[s].code] \in CodeRows
        BY <3>2, CodeTypes
      <4>2. /\ n \in CodeRows /\ n.contact = codes[req[s].code].contact
            /\ n.known = codes[req[s].code].known
        BY <4>1 DEF CodeRows
      <4>3. codes' = [codes EXCEPT ![req[s].code] = n]
        BY <2>1
      <4> HIDE DEF n
      <4> QED  BY <3>1, <3>2, <4>2, <4>3
    <3>3. CASE req[s].code \notin DOMAIN codes
      <4>1. codes' = codes
        BY <2>1, <3>1, <3>3
      <4> QED  BY <3>1, <4>1
    <3> QED  BY <3>2, <3>3
  <2>5. /\ req' \in [Session -> Requests]
        /\ \A t \in Session : req'[t] = req[t] \/ req'[t].op \notin Claims
    <3> DEFINE r == [req[s] EXCEPT !.op = "reset"]
    <3>1. r \in Requests /\ r.op = "reset"
      BY DEF IInv, Types, Requests, Operations
    <3>2. req' = [req EXCEPT ![s] = r]
      BY <2>1
    <3> HIDE DEF r
    <3> QED  BY <3>1, <3>2 DEF IInv, Types, Claims
  <2>6. Types'
    BY <2>3, <2>4, <2>5 DEF Types
  <2>7. \A c \in Contact : contact'[c].verified => contact'[c].address \in Mine
    BY <2>2, <2>3 DEF IInv, OnlyMineIsTold
  <2> QED  BY <1>1, <2>3, <2>4, <2>5, <2>6, <2>7, RowsKeep
<1> QED  BY <1>2, <1>3

LEMMA ResetKeeps ==
    ASSUME IInv, NEW s \in Session, ResetLimit(s)
    PROVE  IInv'
<1>1. /\ codes' = [i \in DOMAIN codes |-> IF codes[i].contact = req[s].contact
                                           THEN [codes[i] EXCEPT !.recent = FALSE] ELSE codes[i]]
      /\ Ends(s) /\ UNCHANGED <<contact, told>>
  BY DEF ResetLimit
<1>2. ASSUME NEW i \in DOMAIN codes
      PROVE  /\ codes'[i] \in CodeRows /\ codes'[i].contact = codes[i].contact
             /\ codes'[i].known = codes[i].known
  BY <1>1, CodeTypes DEF CodeRows
<1>3. DOMAIN codes' = DOMAIN codes /\ codes' = [i \in 1 .. Len(codes) |-> codes'[i]] /\ Len(codes) \in Nat
  BY <1>1 DEF IInv, Types
<1>4. codes' \in Seq(CodeRows)
  BY <1>2, <1>3 DEF IInv, Types
<1> QED  BY <1>1, <1>2, <1>3, <1>4, FlagsKeep

LEMMA TimeKeeps ==
    ASSUME IInv, NEW i \in DOMAIN codes, Expire(i) \/ HourPasses(i)
    PROVE  IInv'
<1>1. UNCHANGED <<contact, told, req>>
  BY DEF Expire, HourPasses
<1>2. PICK n \in CodeRows : /\ codes' = [codes EXCEPT ![i] = n]
                            /\ n.contact = codes[i].contact /\ n.known = codes[i].known
  <2>1. codes[i] \in CodeRows
    BY CodeTypes
  <2>2. CASE Expire(i)
    <3>1. /\ [codes[i] EXCEPT !.expired = TRUE] \in CodeRows
          /\ [codes[i] EXCEPT !.expired = TRUE].contact = codes[i].contact
          /\ [codes[i] EXCEPT !.expired = TRUE].known = codes[i].known
      BY <2>1 DEF CodeRows
    <3>2. codes' = [codes EXCEPT ![i] = [codes[i] EXCEPT !.expired = TRUE]]
      BY <2>2 DEF Expire
    <3> QED  BY <3>1, <3>2
  <2>3. CASE HourPasses(i)
    <3> DEFINE n == [codes[i] EXCEPT !.recent = FALSE, !.expired = TRUE]
    <3>1. n \in CodeRows /\ n.contact = codes[i].contact /\ n.known = codes[i].known
      BY <2>1 DEF CodeRows
    <3>2. codes' = [codes EXCEPT ![i].recent = FALSE, ![i].expired = TRUE]
      BY <2>3 DEF HourPasses
    <3>3. codes' = [codes EXCEPT ![i] = n]
      BY <3>2 DEF IInv, Types
    <3> HIDE DEF n
    <3> QED  BY <3>1, <3>3
  <2> QED  BY <2>2, <2>3
<1>3. codes \in Seq(CodeRows)
  BY DEF IInv, Types
<1>4. /\ codes' \in Seq(CodeRows) /\ DOMAIN codes' = DOMAIN codes
      /\ \A j \in DOMAIN codes : codes'[j].contact = codes[j].contact /\ codes'[j].known = codes[j].known
  BY <1>2, <1>3
<1> QED  BY <1>1, <1>4, FlagsKeep

------------------------------------------------------------------------------
(* The admin and the poll *)

LEMMA AnonymiseKeeps ==
    ASSUME IInv, NEW u \in User, Anonymise(u)
    PROVE  IInv'
<1> DEFINE gone == {c \in Contact : IsContact(c, u)}
<1>1. /\ contact' = Without(gone) /\ UNCHANGED <<req, told>>
      /\ codes' = [i \in DOMAIN codes |-> IF codes[i].user = u
                      THEN [codes[i] EXCEPT !.used = TRUE, !.recent = FALSE] ELSE codes[i]]
  BY DEF Anonymise
<1>2. gone \in SUBSET Contact
  OBVIOUS
<1> HIDE DEF gone
<1>3. ASSUME NEW i \in DOMAIN codes
      PROVE  /\ codes'[i] \in CodeRows /\ codes'[i].contact = codes[i].contact
             /\ codes'[i].known = codes[i].known
  BY <1>1, CodeTypes DEF CodeRows
<1>4. DOMAIN codes' = DOMAIN codes /\ codes' = [i \in 1 .. Len(codes) |-> codes'[i]] /\ Len(codes) \in Nat
  <2>1. DOMAIN codes = 1 .. Len(codes) /\ Len(codes) \in Nat
    BY DEF IInv, Types
  <2>2. DOMAIN codes' = DOMAIN codes /\ codes' = [i \in DOMAIN codes |-> codes'[i]]
    BY <1>1, Zenon
  <2> QED  BY <2>1, <2>2
<1>5. codes' \in Seq(CodeRows)
  BY <1>3, <1>4 DEF IInv, Types
<1>6. Types'
  BY <1>1, <1>2, <1>5, WithoutRows DEF IInv, Types
<1> QED  BY <1>1, <1>2, <1>3, <1>4, <1>6, WithoutRows, RowsKeep

LEMMA AlertKeeps ==
    ASSUME IInv, ContactsNamed, NEW p \in Preference, Alert(p)
    PROVE  IInv'
<1>1. contact[pref[p].contact].verified /\ UNCHANGED <<contact, codes, req>>
  BY DEF Alert
<1>2. told' = told \cup {contact[pref[p].contact].address}
  BY DEF Alert
<1>3. contact[pref[p].contact].address \in Mine
  BY <1>1 DEF Alert, ContactsNamed, IInv, OnlyMineIsTold
<1>4. Types' /\ CodesAreTrue' /\ RequestsAreTrue'
  BY <1>1 DEF IInv, Types, CodesAreTrue, RequestsAreTrue, Sound
<1>5. OnlyMineIsTold'
  BY <1>1, <1>2, <1>3 DEF IInv, OnlyMineIsTold
<1> QED  BY <1>4, <1>5 DEF IInv

------------------------------------------------------------------------------
(* Preferences *)

LEMMA InitIsNamed == Init => ContactsNamed
<1>1. NoPref \in Prefs
  BY DEF NoPref, Prefs
<1>2. Init => pref \in [Preference -> Prefs]
  BY <1>1 DEF Init
<1> QED  BY <1>2 DEF Init, ContactsNamed, NoPref, Idle

\* The request of no session names what is no contact after the step.
Named == \A t \in Session :
             req'[t] = req[t] \/ req'[t].op \notin {"prefer", "move"} \/ req'[t].contact \in Contact

LEMMA EndsNamed ==
    ASSUME IInv, NEW s \in Session, Ends(s)
    PROVE  Named
BY DEF Ends, Named, Idle, IInv, Types

LEMMA GoesNamed ==
    ASSUME IInv, NEW s \in Session, NEW op, op \notin {"prefer", "move"}, Goes(s, op)
    PROVE  Named
<1> SUFFICES ASSUME NEW t \in Session
             PROVE  req'[t] = req[t] \/ req'[t].op \notin {"prefer", "move"}
  BY DEF Named
<1>1. req[s] \in Requests /\ req' = [req EXCEPT ![s] = [req[s] EXCEPT !.op = op]]
  BY DEF Goes, IInv, Types
<1>2. [req[s] EXCEPT !.op = op].op = op
  BY <1>1 DEF Requests
<1> QED  BY <1>1, <1>2 DEF IInv, Types

LEMMA GoNamed ==
    ASSUME IInv, NEW s \in Session, NEW r, Go(s, r),
           r.op \notin {"prefer", "move"} \/ r.contact \in Contact
    PROVE  Named
BY DEF Go, Named, IInv, Types

\* Steps that leave the preferences alone.
LEMMA OthersNamed ==
    ASSUME IInv, ContactsNamed, Named, UNCHANGED pref
    PROVE  ContactsNamed'
BY DEF ContactsNamed, Named

LEMMA ReadersNamed ==
    ASSUME IInv, ContactsNamed, NEW s \in Session,
           \/ FindNoUser(s) \/ EditRoute(s) \/ \E a \in Address : AddContact(s, a)
           \/ \E c \in Contact : \/ SetPrimary(s, c) \/ AskCode(s, c) \/ CreatePreference(s, c)
                                 \/ \E i \in DOMAIN codes : EnterCode(s, i, c)
                                 \/ \E p \in Preference : UpdatePreference(s, p, c)
    PROVE  ContactsNamed'
<1>1. UNCHANGED pref
  BY DEF FindNoUser, EditRoute, AddContact, SetPrimary, AskCode, CreatePreference, EnterCode,
         UpdatePreference
<1>2. Named
  <2>1. CASE FindNoUser(s)
    BY <2>1, GoNamed DEF FindNoUser, Idle
  <2>2. CASE EditRoute(s)
    BY <2>2, GoNamed DEF EditRoute, Idle
  <2>3. ASSUME NEW a \in Address, AddContact(s, a) PROVE Named
    BY <2>3, GoNamed DEF AddContact, Idle
  <2>4. ASSUME NEW c \in Contact, SetPrimary(s, c) PROVE Named
    BY <2>4, GoNamed DEF SetPrimary, Idle
  <2>5. ASSUME NEW c \in Contact, AskCode(s, c) PROVE Named
    BY <2>5, GoNamed DEF AskCode, Idle
  <2>6. ASSUME NEW c \in Contact, CreatePreference(s, c) PROVE Named
    BY <2>6, GoNamed DEF CreatePreference, Idle
  <2>7. ASSUME NEW c \in Contact, NEW i \in DOMAIN codes, EnterCode(s, i, c) PROVE Named
    BY <2>7, GoNamed DEF EnterCode, Idle
  <2>8. ASSUME NEW c \in Contact, NEW p \in Preference, UpdatePreference(s, p, c) PROVE Named
    BY <2>8, GoNamed DEF UpdatePreference, Idle
  <2> QED  BY <2>1, <2>2, <2>3, <2>4, <2>5, <2>6, <2>7, <2>8
<1> QED  BY <1>1, <1>2, OthersNamed

LEMMA WritersNamed ==
    ASSUME IInv, ContactsNamed, NEW s \in Session,
           \/ InsertUser(s) \/ FindUser(s) \/ InsertContact(s) \/ RecordFailure(s)
           \/ CommitPrimary(s) \/ CommitCode(s) \/ LogCode(s) \/ SendCode(s)
           \/ CommitVerified(s) \/ ResetLimit(s) \/ CommitRoute(s) \/ Crash(s)
    PROVE  ContactsNamed'
<1>1. UNCHANGED pref
  BY DEF InsertUser, FindUser, InsertContact, RecordFailure, CommitPrimary, CommitCode, LogCode,
         SendCode, CommitVerified, ResetLimit, CommitRoute, Crash
<1>2. Named
  <2>1. CASE InsertUser(s) \/ InsertContact(s) \/ CommitVerified(s) \/ LogCode(s)
    <3>1. \/ Ends(s) \/ Goes(s, "reselect") \/ Goes(s, "conflict") \/ Goes(s, "reset")
          \/ Goes(s, "send")
      BY <2>1 DEF InsertUser, InsertContact, CommitVerified, LogCode
    <3>2. /\ "reselect" \notin {"prefer", "move"} /\ "conflict" \notin {"prefer", "move"}
          /\ "reset" \notin {"prefer", "move"} /\ "send" \notin {"prefer", "move"}
      OBVIOUS
    <3> QED  BY <3>1, <3>2, EndsNamed, GoesNamed
  <2>2. CASE \/ FindUser(s) \/ RecordFailure(s) \/ CommitPrimary(s) \/ SendCode(s)
             \/ ResetLimit(s) \/ CommitRoute(s) \/ Crash(s)
    <3>1. Ends(s)
      BY <2>2 DEF FindUser, RecordFailure, CommitPrimary, SendCode, ResetLimit, CommitRoute, Crash
    <3> QED  BY <3>1, EndsNamed
  <2>3. CASE CommitCode(s)
    <3> SUFFICES ASSUME NEW t \in Session
                 PROVE  req'[t] = req[t] \/ req'[t].op \notin {"prefer", "move"}
      BY DEF Named
    <3> DEFINE r == [req[s] EXCEPT !.op = "log", !.code = Len(codes) + 1]
    <3>1. req[s] \in Requests
      BY DEF IInv, Types
    <3>2. r.op = "log"
      BY <3>1 DEF Requests
    <3>3. req' = [req EXCEPT ![s] = r]
      BY <2>3 DEF CommitCode, IInv, Types
    <3> HIDE DEF r
    <3> QED  BY <3>2, <3>3 DEF IInv, Types
  <2> QED  BY <2>1, <2>2, <2>3
<1> QED  BY <1>1, <1>2, OthersNamed

\* Steps that write preferences.
LEMMA PrefsNamed ==
    ASSUME IInv, ContactsNamed, Named, pref' \in [Preference -> Prefs],
           \A p \in Preference : pref'[p].is # "free" => pref'[p].contact \in Contact
    PROVE  ContactsNamed'
BY DEF ContactsNamed, Named

LEMMA DeletionsNamed ==
    ASSUME IInv, ContactsNamed,
           \/ \E s \in Session : \/ DeleteRoute(s) \/ \E c \in Contact : DeleteContact(s, c)
                                 \/ \E p \in Preference : DeletePreference(s, p)
           \/ \E u \in User : Anonymise(u)
    PROVE  ContactsNamed'
<1> USE DEF ContactsNamed
<1>1. UNCHANGED req
  BY DEF DeleteRoute, DeleteContact, DeletePreference, Anonymise
<1>2. Named
  BY <1>1 DEF Named
<1>3. NoPref \in Prefs /\ NoPref.is = "free"
  BY DEF NoPref, Prefs
<1>4. CASE pref' \in [Preference -> Prefs]
           /\ \A p \in Preference : pref'[p] = pref[p] \/ pref'[p] = NoPref
  BY <1>2, <1>3, <1>4, PrefsNamed
<1>5. ASSUME NEW s \in Session, DeleteRoute(s) PROVE ContactsNamed'
  <2>1. PICK u \in Live :
          pref' = [p \in Preference |-> IF p \in PrefsOf(u) THEN NoPref ELSE pref[p]]
    BY <1>5 DEF DeleteRoute
  <2> QED  BY <1>3, <1>4, <2>1
<1>6. ASSUME NEW s \in Session, NEW c \in Contact, DeleteContact(s, c) PROVE ContactsNamed'
  <2>1. pref' = [p \in Preference |-> IF pref[p].contact \in {c} THEN NoPref ELSE pref[p]]
    BY <1>6 DEF DeleteContact, Cascaded
  <2> QED  BY <1>3, <1>4, <2>1
<1>7. ASSUME NEW s \in Session, NEW q \in Preference, DeletePreference(s, q) PROVE ContactsNamed'
  <2>1. pref' = [pref EXCEPT ![q].is = "deleted"] /\ \E u \in Live : q \in ActivePrefs(u)
    BY <1>7 DEF DeletePreference
  <2>2. pref[q].is = "row"
    BY <2>1 DEF ActivePrefs
  <2>3. /\ pref' \in [Preference -> Prefs]
        /\ \A p \in Preference : /\ pref'[p].contact = pref[p].contact
                                 /\ pref'[p].is # "free" => pref[p].is # "free"
    BY <2>1, <2>2 DEF Prefs
  <2> QED  BY <1>2, <2>3, PrefsNamed
<1>8. ASSUME NEW u \in User, Anonymise(u) PROVE ContactsNamed'
  <2>1. pref' = [p \in Preference |-> IF p \in PrefsOf(u) THEN NoPref ELSE pref[p]]
    BY <1>8 DEF Anonymise
  <2> QED  BY <1>3, <1>4, <2>1
<1> QED  BY <1>5, <1>6, <1>7, <1>8

LEMMA PreferencesNamed ==
    ASSUME IInv, ContactsNamed, NEW s \in Session, CommitCreated(s) \/ CommitUpdated(s)
    PROVE  ContactsNamed'
<1> USE DEF ContactsNamed
<1>1. Ends(s) /\ req[s].op \in {"prefer", "move"}
  BY DEF CommitCreated, CommitUpdated
<1>2. Named /\ req[s].contact \in Contact
  BY <1>1, EndsNamed
<1>3. CASE UNCHANGED pref
  BY <1>2, <1>3, OthersNamed
<1>4. CASE CommitCreated(s) /\ ~UNCHANGED pref
  <2> DEFINE row == [is |-> "row", user |-> req[s].user, contact |-> req[s].contact]
  <2>1. Unused(pref) # {} /\ pref' = [pref EXCEPT ![New(pref)] = row]
    BY <1>4 DEF CommitCreated
  <2>2. New(pref) \in Preference
    BY <2>1 DEF New, Unused
  <2>3. row \in Prefs /\ row.contact \in Contact
    BY <1>2 DEF Prefs, IInv, Types, Requests
  <2> HIDE DEF row
  <2>4. /\ pref' \in [Preference -> Prefs]
        /\ \A p \in Preference : pref'[p] = pref[p] \/ pref'[p] = row
    BY <2>1, <2>2, <2>3
  <2> QED  BY <1>2, <2>3, <2>4, PrefsNamed
<1>5. CASE CommitUpdated(s) /\ ~UNCHANGED pref
  <2>1. pref' = [pref EXCEPT ![req[s].pref].contact = req[s].contact]
    BY <1>5 DEF CommitUpdated
  <2>2. /\ pref' \in [Preference -> Prefs]
        /\ \A p \in Preference : /\ pref'[p].is = pref[p].is
                                 /\ pref'[p].contact \in {pref[p].contact, req[s].contact}
    BY <1>2, <2>1 DEF Prefs
  <2> QED  BY <1>2, <2>2, PrefsNamed
<1> QED  BY <1>3, <1>4, <1>5

------------------------------------------------------------------------------
\* The habit of a behaviour stays.
LEMMA HabitStays == Next => UNCHANGED habit
<1> SUFFICES ASSUME Next PROVE UNCHANGED habit
  OBVIOUS
<1>1. ASSUME NEW s \in Session,
             \/ FindNoUser(s) \/ InsertUser(s) \/ FindUser(s) \/ EditRoute(s)
             \/ \E a \in habit.addresses : AddContact(s, a)
             \/ InsertContact(s) \/ RecordFailure(s) \/ CommitPrimary(s) \/ CommitCode(s)
             \/ LogCode(s) \/ SendCode(s) \/ CommitVerified(s) \/ ResetLimit(s) \/ CommitRoute(s)
             \/ DeleteRoute(s) \/ CommitCreated(s) \/ CommitUpdated(s) \/ Crash(s)
      PROVE  UNCHANGED habit
  BY <1>1 DEF FindNoUser, InsertUser, FindUser, EditRoute, AddContact, InsertContact, RecordFailure,
     CommitPrimary, CommitCode, LogCode, SendCode, CommitVerified, ResetLimit, CommitRoute,
     DeleteRoute, CommitCreated, CommitUpdated, Crash
<1>2. ASSUME NEW s \in Session,
             \/ \E c \in Contact : \/ SetPrimary(s, c) \/ DeleteContact(s, c) \/ AskCode(s, c)
                                   \/ CreatePreference(s, c)
                                   \/ \E i \in DOMAIN codes : EnterCode(s, i, c)
                                   \/ \E p \in Preference : UpdatePreference(s, p, c)
             \/ \E p \in Preference : DeletePreference(s, p)
      PROVE  UNCHANGED habit
  BY <1>2 DEF SetPrimary, DeleteContact, AskCode, CreatePreference, EnterCode, UpdatePreference,
     DeletePreference
<1>3. ASSUME \/ \E u \in User : Anonymise(u) \/ DayPasses(u)
             \/ \E p \in Preference : Alert(p)
             \/ \E i \in DOMAIN codes : Expire(i) \/ HourPasses(i)
      PROVE  UNCHANGED habit
  BY <1>3 DEF Anonymise, DayPasses, Alert, Expire, HourPasses
<1>4. CASE \/ \E u \in User : Anonymise(u) \/ DayPasses(u)
           \/ \E p \in Preference : Alert(p)
           \/ \E i \in DOMAIN codes : Expire(i) \/ HourPasses(i)
  BY <1>3, <1>4
<1> QED  BY <1>1, <1>2, <1>4, Zenon DEF Next

Inductive == IInv /\ ContactsNamed /\ habit \in Habits

LEMMA StepKeeps == Inductive /\ [Next]_accountVars => Inductive'
<1> SUFFICES ASSUME IInv, ContactsNamed, habit \in Habits, [Next]_accountVars
             PROVE  Inductive'
  BY DEF Inductive
<1>1. CASE UNCHANGED accountVars
  <2>1. UNCHANGED <<contact, codes, told, req, pref, habit>>
    BY <1>1 DEF accountVars
  <2> QED  BY <2>1, StutterKeeps DEF ContactsNamed, Inductive
<1>2. CASE Next
  <2>1. ASSUME NEW s \in Session,
               \/ FindNoUser(s) \/ InsertUser(s) \/ FindUser(s) \/ EditRoute(s)
               \/ \E a \in habit.addresses : AddContact(s, a)
               \/ InsertContact(s) \/ RecordFailure(s) \/ CommitPrimary(s) \/ CommitCode(s)
               \/ LogCode(s) \/ SendCode(s) \/ CommitVerified(s) \/ ResetLimit(s)
               \/ CommitRoute(s) \/ DeleteRoute(s) \/ CommitCreated(s) \/ CommitUpdated(s) \/ Crash(s)
        PROVE  IInv' /\ ContactsNamed'
    <3>1. habit.addresses \subseteq Address
      BY UserAccountAssumption
    <3>2. IInv'
      BY <2>1, <3>1, UserKeeps, LookupKeeps, OtherRowsKeep, InsertKeeps, CommitPrimaryKeeps,
         CommitCodeKeeps, LogKeeps, SendKeeps, VerifyKeeps, ResetKeeps
    <3>3. ContactsNamed'
      BY <2>1, <3>1, ReadersNamed, WritersNamed, DeletionsNamed, PreferencesNamed
    <3> QED  BY <3>2, <3>3
  <2>2. ASSUME NEW s \in Session, NEW c \in Contact,
               \/ SetPrimary(s, c) \/ DeleteContact(s, c) \/ AskCode(s, c) \/ CreatePreference(s, c)
               \/ \E i \in DOMAIN codes : EnterCode(s, i, c)
               \/ \E p \in Preference : UpdatePreference(s, p, c)
        PROVE  IInv' /\ ContactsNamed'
    <3>1. IInv'
      BY <2>2, LookupKeeps, DeleteContactKeeps, AskKeeps, EnterKeeps
    <3>2. CASE DeleteContact(s, c)
      BY <3>1, <3>2, DeletionsNamed
    <3>3. CASE \/ SetPrimary(s, c) \/ AskCode(s, c) \/ CreatePreference(s, c)
               \/ \E i \in DOMAIN codes : EnterCode(s, i, c)
               \/ \E p \in Preference : UpdatePreference(s, p, c)
      BY <3>1, <3>3, ReadersNamed
    <3> QED  BY <2>2, <3>1, <3>2, <3>3
  <2>3. ASSUME NEW s \in Session, NEW p \in Preference, DeletePreference(s, p)
        PROVE  IInv' /\ ContactsNamed'
    BY <2>3, OtherRowsKeep, DeletionsNamed
  <2>4. ASSUME NEW u \in User, Anonymise(u)
        PROVE  IInv' /\ ContactsNamed'
    BY <2>4, AnonymiseKeeps, DeletionsNamed
  <2>5. ASSUME \/ \E u \in User : DayPasses(u)
               \/ \E p \in Preference : Alert(p)
               \/ \E i \in DOMAIN codes : Expire(i) \/ HourPasses(i)
        PROVE  IInv' /\ ContactsNamed'
    <3>1. UNCHANGED <<req, pref>>
      BY <2>5 DEF DayPasses, Alert, Expire, HourPasses
    <3>2. ContactsNamed'
      BY <3>1 DEF ContactsNamed
    <3>3. ASSUME NEW u \in User, DayPasses(u) PROVE IInv'
      BY <3>3, StutterKeeps DEF DayPasses
    <3>4. IInv'
      BY <2>5, <3>3, AlertKeeps, TimeKeeps
    <3> QED  BY <3>2, <3>4
  <2>6. habit' \in Habits
    BY <1>2, HabitStays
  <2>7. IInv' /\ ContactsNamed'
    BY <1>2, <2>1, <2>2, <2>3, <2>4, <2>5 DEF Next
  <2> QED  BY <2>6, <2>7 DEF Inductive
<1> QED  BY <1>1, <1>2

\* For any number of people, requests, contacts and codes: an alert goes only to an address whose
\* messages the person reads, and no other is ever verified (verify_code, _get_verified_contact).
THEOREM OnlyHisOwnAreTold == Spec => []OnlyMineIsTold
<1>1. Init => Inductive
  BY InitIsTrue, InitIsNamed DEF Inductive, Init
<1>2. Inductive => OnlyMineIsTold
  BY DEF Inductive, IInv
<1> QED  BY <1>1, <1>2, StepKeeps, PTL DEF Spec

------------------------------------------------------------------------------
(* Users, what they own and what is left of them *)

\* One user is live; the first request that finds none was his who was anonymised.
Users ==
    /\ user \in [User -> {"none", "live", "deleted"}] /\ \A u, v \in Live : u = v
    /\ route \in [User -> {"none", "active", "inactive", "deleted"}]
    /\ failures \in [User -> Nat] /\ late \subseteq User /\ broken \in BOOLEAN
    /\ broken => \E u \in User : user[u] = "deleted"

\* The loser of two first requests has somebody to find, and every other request has a user.
Requesters ==
    \A s \in Session :
        /\ req[s].op = "reselect" => \E u \in User : user[u] # "none"
        /\ req[s].op \notin {"idle", "signup", "reselect"} => req[s].user \in User

\* A preference names a contact of its live user, and so does a request for one unless the
\* contact is gone.
PrefsOwned ==
    \A p \in Preference : pref[p].is # "free" =>
        IsContact(pref[p].contact, pref[p].user) /\ pref[p].user \in Live
ChoicesOwned ==
    \A s \in Session : req[s].op \in {"prefer", "move"} =>
        /\ contact[req[s].contact].is # "free"
        /\ contact[req[s].contact].is = "row" =>
              contact[req[s].contact].user = req[s].user /\ req[s].user \in Live

\* The codes of the log are there, and there is room for those being made.
Asking == {s \in Session : req[s].op = "code"}
CodesFit ==
    /\ logged \subseteq DOMAIN codes
    /\ \A i \in DOMAIN codes : codes[i].user \in User
    /\ \A s \in Session : req[s].code <= Len(codes)
    /\ Len(codes) + Cardinality(Asking) <= habit.maxCodes

\* Of a user who was anonymised with no request under way nothing is left, and no request is.
Forgotten(u) ==
    /\ \A c \in Contact : ~IsContact(c, u)
    /\ \A i \in DOMAIN codes : codes[i].user = u => codes[i].used
    /\ \A p \in Preference : pref[p].is # "free" => pref[p].user # u
    /\ route[u] # "active"
    /\ \A s \in Session : req[s].user # u
GoneIsForgotten == \A u \in User : user[u] = "deleted" /\ u \notin late => Forgotten(u)

------------------------------------------------------------------------------
(* Limits.  A request that was let through is counted with what it will write. *)

Adding(u) == {s \in Session : req[s].op \in {"add", "conflict"} /\ req[s].user = u}
Coding(c) == {s \in Session : req[s].op \in {"code", "log"} /\ req[s].contact = c}
LoggedOf(c) == {i \in logged : codes[i].contact = c}
FailuresLimited ==
    \A u \in User : failures[u] + Cardinality(Adding(u))
                       < ADD_CONTACT_FAILURE_RATE_LIMIT + Cardinality(Session)
CodesLimited ==
    \A c \in Contact : Cardinality(LoggedOf(c)) + Cardinality(Coding(c))
                          < VERIFICATION_CODE_RATE_LIMIT + Cardinality(Session)
SentAreLogged ==
    \A s \in Session : req[s].op = "send" /\ codes[req[s].code].recent => req[s].code \in logged

\* The primaries of a kind: a request that makes one either takes it from the one it has read or
\* adds one, if that is primary no more.
Promoting(u, k) ==
    {s \in Session :
        /\ req[s].user = u
        /\ \/ /\ req[s].op = "primary"
              /\ \E c \in req[s].seen \cup {req[s].contact} : c \in ContactsOf(u, k)
           \/ req[s].op = "add" /\ req[s].seen = {} /\ Kind[req[s].address] = k}
Taken(u, k) == {c \in Contact : \E s \in Promoting(u, k) : c \in req[s].seen}
Preferring(u) == {s \in Session : req[s].op = "prefer" /\ req[s].user = u}
Choosing(u, c) == {s \in Session : /\ req[s].op \in {"prefer", "move"}
                                   /\ req[s].user = u /\ req[s].contact = c}
Naming(u, c) == {p \in ActivePrefs(u) : pref[p].contact = c}
PrimariesBounded ==
    \A u \in User, k \in {"email", "sms"} :
        Cardinality(Primaries(u, k) \ Taken(u, k)) + Cardinality(Promoting(u, k)) <= Cardinality(Session)
PromotionsSound ==
    \A s \in Session : req[s].op = "primary" =>
        /\ Cardinality(req[s].seen) <= 1
        /\ \A c \in req[s].seen \cup {req[s].contact} : c \in Contact /\ contact[c].is # "free"
        /\ contact[req[s].contact].is = "row" => contact[req[s].contact].user = req[s].user
PrefsBounded ==
    \A u \in User : Cardinality(ActivePrefs(u)) + Cardinality(Preferring(u))
                       < MAX_NOTIFICATION_PREFERENCES_PER_ROUTE + Cardinality(Session)
NamesBounded ==
    \A u \in User, c \in Contact :
        Cardinality(Naming(u, c)) + Cardinality(Choosing(u, c)) <= Cardinality(Session)
------------------------------------------------------------------------------
(* Requests as they begin, go on and end *)

\* What a request that begins has checked.
Allowed(r) ==
    /\ r.op \in {"signup", "add", "primary", "code", "verify", "route", "prefer", "move"}
    /\ r.op = "signup" => r.user = 0
    /\ r.op # "signup" => r.user \in Live
    /\ r.op = "add" => /\ r.address \in Address /\ r.seen = ContactsOf(r.user, Kind[r.address])
                       /\ failures[r.user] < ADD_CONTACT_FAILURE_RATE_LIMIT
    /\ r.op \in {"primary", "code", "prefer", "move"} =>
          r.contact \in Contact /\ IsContact(r.contact, r.user)
    /\ r.op = "primary" => /\ r.seen = Primaries(r.user, Kind[contact[r.contact].address])
                           /\ Cardinality(r.seen) <= 1
    /\ r.op = "code" => Room("code", habit.maxCodes - Len(codes)) /\ MayAsk(r.contact)
    /\ r.code # 0 => r.op = "verify" /\ r.code \in DOMAIN codes
    /\ r.op \in {"prefer", "move"} => Naming(r.user, r.contact) = {}
    /\ r.op = "prefer" => Cardinality(ActivePrefs(r.user)) < MAX_NOTIFICATION_PREFERENCES_PER_ROUTE

Begins(s, r) ==
    /\ req[s] = Idle /\ r \in Requests /\ Allowed(r) /\ req' = [req EXCEPT ![s] = r]
    /\ UNCHANGED <<user, route, contact, codes, logged, failures, pref, told, late, broken>>

\* A request that goes on is that of the same user for the same rows.
Follows(q, r) ==
    /\ r.user = q.user /\ r.contact = q.contact /\ r.address = q.address
    /\ r.seen = q.seen /\ r.pref = q.pref
    /\ <<q.op, r.op>> \in {<<"signup", "reselect">>, <<"add", "conflict">>, <<"code", "log">>,
                           <<"log", "send">>, <<"verify", "reset">>}
    /\ r.op # "log" => r.code = q.code

Continues(s, r) == /\ r \in Requests /\ req' = [req EXCEPT ![s] = r]
                   /\ r = Idle \/ Follows(req[s], r)

\* Every lookup is the beginning of a request that was allowed.
LEMMA Beginnings ==
    ASSUME NEW s \in Session,
           \/ FindNoUser(s) \/ EditRoute(s) \/ \E a \in Address : AddContact(s, a)
           \/ \E c \in Contact : \/ SetPrimary(s, c) \/ AskCode(s, c) \/ CreatePreference(s, c)
                                 \/ \E i \in DOMAIN codes : EnterCode(s, i, c)
                                 \/ \E p \in Preference : UpdatePreference(s, p, c),
           IInv
    PROVE  \E r : Begins(s, r)
<1> USE DEF Idle
<1>1. CASE FindNoUser(s)
  <2> DEFINE r == [Idle EXCEPT !.op = "signup"]
  <2>1. r \in Requests /\ Allowed(r)
    BY DEF Requests, Operations, Allowed
  <2>2. Go(s, r)
    BY <1>1 DEF FindNoUser
  <2> HIDE DEF r
  <2>3. Begins(s, r)
    BY <1>1, <2>1, <2>2 DEF FindNoUser, Begins, Go
  <2> QED  BY <2>3
<1>2. CASE EditRoute(s)
  <2>1. PICK u \in Live : Go(s, [Idle EXCEPT !.op = "route", !.user = u])
    BY <1>2 DEF EditRoute
  <2> DEFINE r == [Idle EXCEPT !.op = "route", !.user = u]
  <2>2. r \in Requests /\ Allowed(r)
    BY DEF Live, Requests, Operations, Allowed
  <2>3. Go(s, r)
    BY <2>1
  <2> HIDE DEF r
  <2>4. Begins(s, r)
    BY <1>2, <2>2, <2>3 DEF EditRoute, Begins, Go
  <2> QED  BY <2>4
<1>3. CASE \E a \in Address : AddContact(s, a)
  <2>1. PICK a \in Address : AddContact(s, a)
    BY <1>3
  <2>2. PICK u \in Live :
          /\ failures[u] < ADD_CONTACT_FAILURE_RATE_LIMIT
          /\ Go(s, [Idle EXCEPT !.op = "add", !.user = u, !.address = a, !.seen = ContactsOf(u, Kind[a])])
    BY <2>1 DEF AddContact
  <2> DEFINE r == [Idle EXCEPT !.op = "add", !.user = u, !.address = a, !.seen = ContactsOf(u, Kind[a])]
  <2>3. r \in Requests
    BY DEF Requests, Operations, Live, ContactsOf
  <2>4. /\ r.op = "add" /\ r.user = u /\ r.address = a /\ r.code = 0
        /\ r.seen = ContactsOf(u, Kind[a])
    OBVIOUS
  <2>5. Go(s, r)
    BY <2>2
  <2> HIDE DEF r
  <2>6. Allowed(r)
    BY <2>2, <2>4 DEF Allowed
  <2>7. Begins(s, r)
    BY <2>1, <2>3, <2>5, <2>6 DEF AddContact, Begins, Go
  <2> QED  BY <2>7
<1>4. CASE \E c \in Contact : SetPrimary(s, c)
  <2>1. PICK c \in Contact : SetPrimary(s, c)
    BY <1>4
  <2>2. PICK u \in Live :
          /\ IsContact(c, u) /\ Cardinality(Primaries(u, Kind[contact[c].address])) <= 1
          /\ Go(s, [Idle EXCEPT !.op = "primary", !.user = u, !.contact = c,
                                !.seen = Primaries(u, Kind[contact[c].address])])
    BY <2>1 DEF SetPrimary
  <2> DEFINE r == [Idle EXCEPT !.op = "primary", !.user = u, !.contact = c,
                               !.seen = Primaries(u, Kind[contact[c].address])]
  <2>3. r \in Requests
    BY DEF Requests, Operations, Live, ContactsOf, Primaries
  <2>4. /\ r.op = "primary" /\ r.user = u /\ r.contact = c /\ r.code = 0
        /\ r.seen = Primaries(u, Kind[contact[c].address])
    OBVIOUS
  <2>5. Go(s, r)
    BY <2>2
  <2> HIDE DEF r
  <2>6. Allowed(r)
    BY <2>2, <2>4 DEF Allowed
  <2>7. Begins(s, r)
    BY <2>1, <2>3, <2>5, <2>6 DEF SetPrimary, Begins, Go
  <2> QED  BY <2>7
<1>5. CASE \E c \in Contact : AskCode(s, c)
  <2>1. PICK c \in Contact : AskCode(s, c)
    BY <1>5
  <2>2. PICK u \in Live :
          /\ Room("code", habit.maxCodes - Len(codes)) /\ IsContact(c, u) /\ MayAsk(c)
          /\ Go(s, [Idle EXCEPT !.op = "code", !.user = u, !.contact = c, !.address = contact[c].address])
    BY <2>1 DEF AskCode
  <2> DEFINE r == [Idle EXCEPT !.op = "code", !.user = u, !.contact = c, !.address = contact[c].address]
  <2>3. contact[c].address \in Address \cup {None}
    BY DEF IInv, Types, Rows
  <2>4. r \in Requests
    BY <2>3 DEF Requests, Operations, Live
  <2>5. r.op = "code" /\ r.user = u /\ r.contact = c /\ r.code = 0
    OBVIOUS
  <2>6. Go(s, r)
    BY <2>2
  <2> HIDE DEF r
  <2>7. Allowed(r)
    BY <2>2, <2>5 DEF Allowed
  <2>8. Begins(s, r)
    BY <2>1, <2>4, <2>6, <2>7 DEF AskCode, Begins, Go
  <2> QED  BY <2>8
<1>6. CASE \E c \in Contact : CreatePreference(s, c)
  <2>1. PICK c \in Contact : CreatePreference(s, c)
    BY <1>6
  <2>2. PICK u \in Live :
          /\ MayPrefer(u, c, {})
          /\ Cardinality(ActivePrefs(u)) < MAX_NOTIFICATION_PREFERENCES_PER_ROUTE
          /\ Go(s, [Idle EXCEPT !.op = "prefer", !.user = u, !.contact = c])
    BY <2>1 DEF CreatePreference
  <2>3. IsContact(c, u) /\ Naming(u, c) = {}
    BY <2>2 DEF MayPrefer, Free, Naming
  <2> DEFINE r == [Idle EXCEPT !.op = "prefer", !.user = u, !.contact = c]
  <2>4. r \in Requests
    BY DEF Requests, Operations, Live
  <2>5. r.op = "prefer" /\ r.user = u /\ r.contact = c /\ r.code = 0
    OBVIOUS
  <2>6. Go(s, r)
    BY <2>2
  <2> HIDE DEF r
  <2>7. Allowed(r)
    BY <2>2, <2>3, <2>5 DEF Allowed
  <2>8. Begins(s, r)
    BY <2>1, <2>4, <2>6, <2>7 DEF CreatePreference, Begins, Go
  <2> QED  BY <2>8
<1>7. CASE \E c \in Contact : \E i \in DOMAIN codes : EnterCode(s, i, c)
  <2>1. PICK c \in Contact, i \in DOMAIN codes : EnterCode(s, i, c)
    BY <1>7
  <2>2. PICK u \in Live : Go(s, [Idle EXCEPT !.op = "verify", !.user = u, !.contact = c, !.code = i])
    BY <2>1 DEF EnterCode
  <2> DEFINE r == [Idle EXCEPT !.op = "verify", !.user = u, !.contact = c, !.code = i]
  <2>3. i \in Nat
    BY DEF IInv, Types
  <2>4. r \in Requests
    BY <2>3 DEF Requests, Operations, Live
  <2>5. r.op = "verify" /\ r.user = u /\ r.code = i
    OBVIOUS
  <2>6. Go(s, r)
    BY <2>2
  <2> HIDE DEF r
  <2>7. Allowed(r)
    BY <2>5 DEF Allowed
  <2>8. Begins(s, r)
    BY <2>1, <2>4, <2>6, <2>7 DEF EnterCode, Begins, Go
  <2> QED  BY <2>8
<1>8. CASE \E c \in Contact : \E p \in Preference : UpdatePreference(s, p, c)
  <2>1. PICK c \in Contact, p \in Preference : UpdatePreference(s, p, c)
    BY <1>8
  <2>2. PICK u \in Live :
          /\ pref[p].contact # c /\ MayPrefer(u, c, {p})
          /\ Go(s, [Idle EXCEPT !.op = "move", !.user = u, !.contact = c, !.pref = p])
    BY <2>1 DEF UpdatePreference
  <2>3. IsContact(c, u) /\ Naming(u, c) = {}
    BY <2>2 DEF MayPrefer, Free, Naming
  <2> DEFINE r == [Idle EXCEPT !.op = "move", !.user = u, !.contact = c, !.pref = p]
  <2>4. r \in Requests
    BY DEF Requests, Operations, Live
  <2>5. r.op = "move" /\ r.user = u /\ r.contact = c /\ r.code = 0
    OBVIOUS
  <2>6. Go(s, r)
    BY <2>2
  <2> HIDE DEF r
  <2>7. Allowed(r)
    BY <2>2, <2>3, <2>5 DEF Allowed
  <2>8. Begins(s, r)
    BY <2>1, <2>4, <2>6, <2>7 DEF UpdatePreference, Begins, Go
  <2> QED  BY <2>8
<1> QED  BY <1>1, <1>2, <1>3, <1>4, <1>5, <1>6, <1>7, <1>8

LEMMA EndsContinues ==
    ASSUME NEW s \in Session, Ends(s)
    PROVE  Continues(s, Idle)
BY IdleIsSound DEF Ends, Continues

LEMMA GoesContinues ==
    ASSUME IInv, NEW s \in Session, NEW op, Goes(s, op),
           <<req[s].op, op>> \in {<<"signup", "reselect">>, <<"add", "conflict">>,
                                  <<"log", "send">>, <<"verify", "reset">>}
    PROVE  \E r : Continues(s, r) /\ r # Idle /\ r.op = op
<1> DEFINE r == [req[s] EXCEPT !.op = op]
<1>1. req[s] \in Requests /\ op \in Operations /\ op \notin {"idle", "log"}
  BY DEF IInv, Types, Operations
<1>2. /\ r \in Requests /\ r.op = op /\ r.user = req[s].user /\ r.contact = req[s].contact
      /\ r.address = req[s].address /\ r.code = req[s].code /\ r.pref = req[s].pref
      /\ r.seen = req[s].seen
  BY <1>1 DEF Requests
<1>3. req' = [req EXCEPT ![s] = r]
  BY DEF Goes
<1> HIDE DEF r
<1>4. <<req[s].op, r.op>> \in {<<"signup", "reselect">>, <<"add", "conflict">>, <<"code", "log">>,
                              <<"log", "send">>, <<"verify", "reset">>}
  BY <1>2
<1>5. Follows(req[s], r)
  BY <1>1, <1>2, <1>4 DEF Follows
<1>6. r # Idle
  BY <1>1, <1>2 DEF Idle
<1> QED  BY <1>2, <1>3, <1>5, <1>6 DEF Continues

LEMMA CommitCodeContinues ==
    ASSUME IInv, NEW s \in Session, CommitCode(s)
    PROVE  \E r : Continues(s, r) /\ r.op = "log" /\ r.code = Len(codes) + 1 /\ Follows(req[s], r)
<1> DEFINE next == Len(codes) + 1
           r == [req[s] EXCEPT !.op = "log", !.code = next]
<1>1. req[s] \in Requests /\ next \in Nat /\ req[s].op = "code"
  BY DEF IInv, Types, CommitCode
<1>2. req' = [req EXCEPT ![s] = r]
  BY DEF CommitCode, IInv, Types
<1> HIDE DEF next
<1>3. /\ r \in Requests /\ r.op = "log" /\ r.user = req[s].user /\ r.contact = req[s].contact
      /\ r.address = req[s].address /\ r.code = next /\ r.pref = req[s].pref
      /\ r.seen = req[s].seen
  BY <1>1 DEF Requests, Operations
<1> HIDE DEF r
<1>4. Follows(req[s], r)
  BY <1>1, <1>3 DEF Follows
<1> QED  BY <1>2, <1>3, <1>4 DEF Continues, next

\* Every other step of a session is that of its request, or leaves the requests alone.
LEMMA Continuations ==
    ASSUME IInv, NEW s \in Session,
           \/ InsertUser(s) \/ FindUser(s) \/ InsertContact(s) \/ RecordFailure(s)
           \/ CommitPrimary(s) \/ CommitCode(s) \/ LogCode(s) \/ SendCode(s)
           \/ CommitVerified(s) \/ ResetLimit(s) \/ CommitRoute(s) \/ CommitCreated(s)
           \/ CommitUpdated(s) \/ Crash(s)
    PROVE  \E r : Continues(s, r)
<1>1. CASE \/ FindUser(s) \/ RecordFailure(s) \/ CommitPrimary(s) \/ SendCode(s) \/ ResetLimit(s)
           \/ CommitRoute(s) \/ CommitCreated(s) \/ CommitUpdated(s) \/ Crash(s)
  <2>1. Ends(s)
    BY <1>1 DEF FindUser, RecordFailure, CommitPrimary, SendCode, ResetLimit, CommitRoute,
       CommitCreated, CommitUpdated, Crash
  <2> QED  BY <2>1, EndsContinues
<1>2. CASE InsertUser(s) \/ InsertContact(s) \/ LogCode(s) \/ CommitVerified(s)
  <2>1. \/ Ends(s)
        \/ req[s].op = "signup" /\ Goes(s, "reselect")
        \/ req[s].op = "add" /\ Goes(s, "conflict")
        \/ req[s].op = "log" /\ Goes(s, "send")
        \/ req[s].op = "verify" /\ Goes(s, "reset")
    BY <1>2 DEF InsertUser, InsertContact, LogCode, CommitVerified
  <2> QED  BY <2>1, EndsContinues, GoesContinues
<1>3. CASE CommitCode(s)
  BY <1>3, CommitCodeContinues
<1> QED  BY <1>1, <1>2, <1>3
------------------------------------------------------------------------------
(* The steps, with every lookup as the beginning of a request *)

Sessions(s) ==
    \/ InsertUser(s) \/ FindUser(s) \/ InsertContact(s) \/ RecordFailure(s)
    \/ CommitPrimary(s) \/ CommitCode(s) \/ LogCode(s) \/ SendCode(s)
    \/ CommitVerified(s) \/ ResetLimit(s) \/ CommitRoute(s) \/ CommitCreated(s)
    \/ CommitUpdated(s) \/ Crash(s)
Deletions ==
    \/ \E s \in Session : \/ DeleteRoute(s) \/ \E c \in Contact : DeleteContact(s, c)
                          \/ \E p \in Preference : DeletePreference(s, p)
    \/ \E u \in User : Anonymise(u)
Passes == \/ \E u \in User : DayPasses(u)
          \/ \E p \in Preference : Alert(p)
          \/ \E i \in DOMAIN codes : Expire(i) \/ HourPasses(i)
Step == \/ \E s \in Session, r \in Requests : Begins(s, r)
        \/ \E s \in Session : Sessions(s)
        \/ Deletions \/ Passes

LEMMA StepsAre == ASSUME IInv, habit \in Habits, Next PROVE Step
<1>1. habit.addresses \subseteq Address
  BY UserAccountAssumption
<1>2. ASSUME NEW s \in Session,
             \/ FindNoUser(s) \/ EditRoute(s) \/ \E a \in habit.addresses : AddContact(s, a)
             \/ \E c \in Contact : \/ SetPrimary(s, c) \/ AskCode(s, c) \/ CreatePreference(s, c)
                                   \/ \E i \in DOMAIN codes : EnterCode(s, i, c)
                                   \/ \E p \in Preference : UpdatePreference(s, p, c)
      PROVE  Step
  <2>1. \/ FindNoUser(s) \/ EditRoute(s) \/ \E a \in Address : AddContact(s, a)
        \/ \E c \in Contact : \/ SetPrimary(s, c) \/ AskCode(s, c) \/ CreatePreference(s, c)
                              \/ \E i \in DOMAIN codes : EnterCode(s, i, c)
                              \/ \E p \in Preference : UpdatePreference(s, p, c)
    BY <1>1, <1>2
  <2>2. PICK r : Begins(s, r)
    BY <2>1, Beginnings
  <2>3. r \in Requests
    BY <2>2 DEF Begins
  <2> QED  BY <2>2, <2>3 DEF Step
<1>3. ASSUME NEW s \in Session,
             \/ Sessions(s) \/ DeleteRoute(s) \/ \E c \in Contact : DeleteContact(s, c)
             \/ \E p \in Preference : DeletePreference(s, p)
      PROVE  Step
  BY <1>3 DEF Step, Deletions
<1>4. ASSUME Passes \/ \E u \in User : Anonymise(u)
      PROVE  Step
  BY <1>4 DEF Step, Deletions
<1>5. \/ \E s \in Session :
            \/ \/ FindNoUser(s) \/ EditRoute(s) \/ \E a \in habit.addresses : AddContact(s, a)
               \/ \E c \in Contact : \/ SetPrimary(s, c) \/ AskCode(s, c) \/ CreatePreference(s, c)
                                     \/ \E i \in DOMAIN codes : EnterCode(s, i, c)
                                     \/ \E p \in Preference : UpdatePreference(s, p, c)
            \/ \/ Sessions(s) \/ DeleteRoute(s) \/ \E c \in Contact : DeleteContact(s, c)
               \/ \E p \in Preference : DeletePreference(s, p)
      \/ Passes \/ \E u \in User : Anonymise(u)
  BY Zenon DEF Next, Sessions, Passes
<1> QED  BY <1>2, <1>3, <1>4, <1>5, Zenon

\* The request of every session after a step is the one before, or began, or went on.
LEMMA OneRequestMoves ==
    ASSUME IInv, Step
    PROVE  \/ UNCHANGED req
           \/ \E s \in Session, r \in Requests : Begins(s, r) \/ Continues(s, r)
<1>1. CASE \E s \in Session, r \in Requests : Begins(s, r)
  BY <1>1
<1>2. ASSUME NEW s \in Session, Sessions(s)
      PROVE  \E r \in Requests : Continues(s, r)
  <2>1. PICK r : Continues(s, r)
    BY <1>2, Continuations DEF Sessions
  <2> QED  BY <2>1 DEF Continues
<1>3. CASE Deletions \/ Passes
  BY <1>3 DEF Deletions, Passes, DeleteRoute, DeleteContact, DeletePreference, Anonymise, DayPasses,
     Alert, Expire, HourPasses
<1> QED  BY <1>1, <1>2, <1>3 DEF Step

\* The request of a session that is not the one that moves, and the one that does.
LEMMA Moves ==
    ASSUME IInv, NEW s \in Session, NEW r, req' = [req EXCEPT ![s] = r]
    PROVE  req'[s] = r /\ \A t \in Session : t # s => req'[t] = req[t]
BY DEF IInv, Types

LEMMA WhoMoves ==
    ASSUME IInv, Step, NEW s \in Session, req'[s] # req[s]
    PROVE  \/ Begins(s, req'[s])
           \/ Sessions(s) /\ Continues(s, req'[s])
<1>1. ASSUME NEW t \in Session, NEW r \in Requests, Begins(t, r)
      PROVE  Begins(s, req'[s])
  <2>1. t = s /\ req'[s] = r
    BY <1>1, Moves DEF Begins
  <2> QED  BY <1>1, <2>1
<1>2. ASSUME NEW t \in Session, Sessions(t)
      PROVE  Sessions(s) /\ Continues(s, req'[s])
  <2>1. PICK r : Continues(t, r)
    BY <1>2, Continuations DEF Sessions
  <2>2. t = s /\ req'[s] = r
    BY <2>1, Moves DEF Continues
  <2> QED  BY <1>2, <2>1, <2>2
<1>3. ~(Deletions \/ Passes)
  BY DEF Deletions, Passes, DeleteRoute, DeleteContact, DeletePreference, Anonymise, DayPasses, Alert,
     Expire, HourPasses
<1> QED  BY <1>1, <1>2, <1>3 DEF Step

\* A row that was made keeps its user and its address until it goes.
RowsStay ==
    \A c \in Contact : contact[c].is # "free" =>
        /\ contact'[c].is # "free"
        /\ contact'[c].is = "row" => /\ contact[c].is = "row" /\ contact'[c].user = contact[c].user
                                     /\ contact'[c].address = contact[c].address

LEMMA WithoutStay ==
    ASSUME IInv, NEW gone \in SUBSET Contact, contact' = Without(gone)
    PROVE  /\ RowsStay
           /\ \A c \in Contact : /\ contact'[c].is = "row" => c \notin gone /\ contact'[c] = contact[c]
                                 /\ c \notin gone => contact'[c] = contact[c]
<1> DEFINE none == [NoContact EXCEPT !.is = "gone"]
<1>1. none.is = "gone"
  BY DEF NoContact
<1>2. contact' = [c \in Contact |-> IF c \in gone THEN none ELSE contact[c]]
  BY DEF Without
<1> HIDE DEF none
<1>3. ASSUME NEW c \in Contact
      PROVE  /\ c \in gone => contact'[c].is = "gone"
             /\ c \notin gone => contact'[c] = contact[c]
  BY <1>1, <1>2
<1> QED  BY <1>3 DEF RowsStay

LEMMA InsertedRow ==
    ASSUME IInv, NEW s \in Session, InsertContact(s), contact' # contact
    PROVE  /\ New(contact) \in Contact /\ contact[New(contact)].is = "free"
           /\ Unused(contact) # {} /\ Ends(s)
           /\ contact'[New(contact)].is = "row" /\ contact'[New(contact)].user = req[s].user
           /\ contact'[New(contact)].address = req[s].address
           /\ contact'[New(contact)].primary = (req[s].seen = {})
           /\ \A c \in Contact : c # New(contact) => contact'[c] = contact[c]
<1> DEFINE first == req[s].seen = {}
           row == [is |-> "row", user |-> req[s].user, address |-> req[s].address,
                   verified |-> FALSE, primary |-> first]
<1>1. contact' = [contact EXCEPT ![New(contact)] = row] /\ Unused(contact) # {} /\ Ends(s)
  BY DEF InsertContact
<1>4. row.is = "row" /\ row.user = req[s].user /\ row.address = req[s].address /\ row.primary = first
  OBVIOUS
<1> HIDE DEF row, first
<1>2. New(contact) \in Contact /\ contact[New(contact)].is = "free"
  BY <1>1 DEF New, Unused, IInv, Types
<1>3. /\ contact'[New(contact)] = row
      /\ \A c \in Contact : c # New(contact) => contact'[c] = contact[c]
  BY <1>1, <1>2 DEF IInv, Types
<1> QED  BY <1>1, <1>2, <1>3, <1>4 DEF first

LEMMA MovedRows ==
    ASSUME IInv, NEW s \in Session, CommitPrimary(s)
    PROVE  \A c \in Contact : /\ contact'[c].is = contact[c].is /\ contact'[c].user = contact[c].user
                              /\ contact'[c].address = contact[c].address
<1>1. CASE contact' = contact
  BY <1>1
<1>2. CASE contact' = Moved(req[s])
  <2> SUFFICES ASSUME NEW c \in Contact
               PROVE  /\ contact'[c].is = contact[c].is /\ contact'[c].user = contact[c].user
                      /\ contact'[c].address = contact[c].address
    OBVIOUS
  <2>1. contact[c] \in Rows
    BY DEF IInv, Types
  <2>2. contact'[c] \in {[contact[c] EXCEPT !.primary = TRUE], [contact[c] EXCEPT !.primary = FALSE],
                         contact[c]}
    BY <1>2 DEF Moved
  <2> QED  BY <2>1, <2>2 DEF Rows
<1> QED  BY <1>1, <1>2 DEF CommitPrimary

LEMMA VerifiedRows ==
    ASSUME IInv, NEW s \in Session, CommitVerified(s)
    PROVE  \A c \in Contact : /\ contact'[c].is = contact[c].is /\ contact'[c].user = contact[c].user
                              /\ contact'[c].address = contact[c].address
                              /\ contact'[c].primary = contact[c].primary
<1> SUFFICES ASSUME NEW c \in Contact
             PROVE  /\ contact'[c].is = contact[c].is /\ contact'[c].user = contact[c].user
                    /\ contact'[c].address = contact[c].address
                    /\ contact'[c].primary = contact[c].primary
  OBVIOUS
<1>1. contact[c] \in Rows /\ contact \in [Contact -> Rows]
  BY DEF IInv, Types
<1>2. contact' = contact \/ contact' = [contact EXCEPT ![req[s].contact].verified = TRUE]
  BY DEF CommitVerified
<1> QED  BY <1>1, <1>2 DEF Rows

LEMMA RowsAreKept == ASSUME IInv, Step PROVE RowsStay
<1>1. CASE UNCHANGED contact
  BY <1>1 DEF RowsStay
<1>2. CASE \E s \in Session : CommitPrimary(s) \/ CommitVerified(s)
  BY <1>2, MovedRows, VerifiedRows DEF RowsStay
<1>3. ASSUME NEW s \in Session, InsertContact(s) PROVE RowsStay
  BY <1>1, <1>3, InsertedRow DEF RowsStay
<1>4. ASSUME NEW s \in Session, NEW c \in Contact, DeleteContact(s, c) PROVE RowsStay
  <2>1. contact' = Without({c}) /\ {c} \in SUBSET Contact
    BY <1>4 DEF DeleteContact
  <2> QED  BY <2>1, WithoutStay
<1>5. ASSUME NEW u \in User, Anonymise(u) PROVE RowsStay
  <2>1. /\ contact' = Without({c \in Contact : IsContact(c, u)})
        /\ {c \in Contact : IsContact(c, u)} \in SUBSET Contact
    BY <1>5 DEF Anonymise
  <2> QED  BY <2>1, WithoutStay
<1>6. \/ UNCHANGED contact
      \/ \E s \in Session : \/ CommitPrimary(s) \/ CommitVerified(s) \/ InsertContact(s)
                            \/ \E c \in Contact : DeleteContact(s, c)
      \/ \E u \in User : Anonymise(u)
  <2>1. CASE \E s \in Session, r \in Requests : Begins(s, r)
    BY <2>1 DEF Begins
  <2>2. CASE \E s \in Session : Sessions(s)
    BY <2>2 DEF Sessions, InsertUser, FindUser, RecordFailure, CommitCode, LogCode, SendCode,
       ResetLimit, CommitRoute, CommitCreated, CommitUpdated, Crash
  <2>3. CASE Deletions \/ Passes
    BY <2>3 DEF Deletions, Passes, DeleteRoute, DeletePreference, DayPasses, Alert, Expire, HourPasses
  <2> QED  BY <2>1, <2>2, <2>3 DEF Step
<1> QED  BY <1>1, <1>2, <1>3, <1>4, <1>5, <1>6
------------------------------------------------------------------------------
(* Users *)

\* A user who was once made is never unmade, and one who was anonymised stays so.
LEMMA UsersStay ==
    ASSUME IInv, Users, Step
    PROVE  /\ \A u \in User : /\ user[u] # "none" => user'[u] # "none"
                              /\ user[u] = "deleted" => user'[u] = "deleted"
           /\ \A u \in User : \/ user'[u] = user[u] \/ Anonymise(u)
                              \/ Live = {} /\ user[u] = "none" /\ user'[u] = "live"
<1>1. CASE UNCHANGED user
  BY <1>1
<1>2. ASSUME NEW s \in Session, InsertUser(s), user' # user
      PROVE  \A u \in User : \/ user'[u] = user[u]
                             \/ Live = {} /\ user[u] = "none" /\ user'[u] = "live"
  BY <1>2 DEF InsertUser, Users
<1>3. ASSUME NEW u \in User, Anonymise(u)
      PROVE  \A v \in User : user'[v] = IF v = u THEN "deleted" ELSE user[v]
  BY <1>3 DEF Anonymise, Users
<1>4. UNCHANGED user \/ (\E s \in Session : InsertUser(s)) \/ \E u \in User : Anonymise(u)
  <2>1. CASE \E s \in Session, r \in Requests : Begins(s, r)
    BY <2>1 DEF Begins
  <2>2. CASE \E s \in Session : Sessions(s)
    BY <2>2 DEF Sessions, InsertContact, FindUser, RecordFailure, CommitCode, LogCode, SendCode,
       ResetLimit, CommitRoute, CommitCreated, CommitUpdated, Crash, CommitPrimary, CommitVerified
  <2>3. CASE Deletions \/ Passes
    BY <2>3 DEF Deletions, Passes, DeleteRoute, DeletePreference, DayPasses, Alert, Expire, HourPasses,
       DeleteContact
  <2> QED  BY <2>1, <2>2, <2>3 DEF Step
<1> QED  BY <1>1, <1>2, <1>3, <1>4

LEMMA UsersKept ==
    ASSUME IInv, Users, Requesters, Step
    PROVE  Users'
<1> USE DEF Users
<1>1. CASE UNCHANGED <<user, route, failures, late, broken>>
  BY <1>1 DEF Live
<1>2. ASSUME NEW s \in Session, InsertUser(s) PROVE Users'
  BY <1>2 DEF InsertUser, Live
<1>3. ASSUME NEW s \in Session, FindUser(s) PROVE Users'
  <2>1. PICK u \in User : user[u] # "none"
    BY <1>3 DEF FindUser, Requesters
  <2>2. user[u] \in {"live", "deleted"}
    BY <2>1
  <2>3. Live = {} => user[u] = "deleted"
    BY <2>2 DEF Live
  <2>4. broken' = (broken \/ Live = {}) /\ UNCHANGED <<user, route, failures, late>>
    BY <1>3 DEF FindUser
  <2>5. broken' \in BOOLEAN
    BY <2>4
  <2>6. Live' = Live
    BY <2>4 DEF Live
  <2> QED  BY <2>3, <2>4, <2>5, <2>6
<1>4. ASSUME NEW s \in Session, RecordFailure(s) PROVE Users'
  <2>1. req[s].user \in User
    BY <1>4 DEF RecordFailure, Requesters
  <2>2. failures' = [failures EXCEPT ![req[s].user] = @ + 1] /\ UNCHANGED <<user, route, late, broken>>
    BY <1>4 DEF RecordFailure
  <2>3. failures' \in [User -> Nat]
    BY <2>1, <2>2
  <2>4. Live' = Live
    BY <2>2 DEF Live
  <2> QED  BY <2>2, <2>3, <2>4
<1>5. ASSUME NEW s \in Session, CommitRoute(s) \/ DeleteRoute(s) PROVE Users'
  <2>1. UNCHANGED <<user, failures, late, broken>>
    BY <1>5 DEF CommitRoute, DeleteRoute
  <2>2. route' \in [User -> {"none", "active", "inactive", "deleted"}]
    BY <1>5 DEF CommitRoute, DeleteRoute
  <2>3. Live' = Live
    BY <2>1 DEF Live
  <2> QED  BY <2>1, <2>2, <2>3
<1>6. ASSUME NEW u \in User, Anonymise(u) PROVE Users'
  <2>1. /\ user' = [user EXCEPT ![u] = "deleted"] /\ UNCHANGED <<failures, broken>>
        /\ late' = IF \E s \in Session : req[s].user = u THEN late \cup {u} ELSE late
        /\ route' = Stopped(u)
    BY <1>6 DEF Anonymise
  <2>2. route' \in [User -> {"none", "active", "inactive", "deleted"}]
    BY <2>1 DEF Stopped
  <2>3. late' \subseteq User
    BY <2>1
  <2> QED  BY <2>1, <2>2, <2>3 DEF Live
<1>7. ASSUME NEW u \in User, DayPasses(u) PROVE Users'
  <2>1. failures' = [failures EXCEPT ![u] = 0] /\ UNCHANGED <<user, route, late, broken>>
    BY <1>7 DEF DayPasses
  <2> QED  BY <2>1 DEF Live
<1>8. \/ UNCHANGED <<user, route, failures, late, broken>>
      \/ \E s \in Session : \/ InsertUser(s) \/ FindUser(s) \/ RecordFailure(s) \/ CommitRoute(s)
                            \/ DeleteRoute(s)
      \/ \E u \in User : Anonymise(u) \/ DayPasses(u)
  <2>1. CASE \E s \in Session, r \in Requests : Begins(s, r)
    BY <2>1 DEF Begins
  <2>2. CASE \E s \in Session : Sessions(s)
    BY <2>2 DEF Sessions, InsertContact, CommitCode, LogCode, SendCode,
       ResetLimit, CommitCreated, CommitUpdated, Crash, CommitPrimary, CommitVerified
  <2>3. CASE Deletions \/ Passes
    BY <2>3 DEF Deletions, Passes, DeletePreference, Alert, Expire, HourPasses, DeleteContact
  <2> QED  BY <2>1, <2>2, <2>3 DEF Step
<1> QED  BY <1>1, <1>2, <1>3, <1>4, <1>5, <1>6, <1>7, <1>8

LEMMA RequestersKept ==
    ASSUME IInv, Users, Requesters, Step
    PROVE  Requesters'
<1> SUFFICES ASSUME NEW t \in Session
             PROVE  /\ req'[t].op = "reselect" => \E u \in User : user'[u] # "none"
                    /\ req'[t].op \notin {"idle", "signup", "reselect"} => req'[t].user \in User
  BY DEF Requesters
<1>1. CASE req'[t] = req[t]
  BY <1>1, UsersStay DEF Requesters
<1>2. CASE Begins(t, req'[t])
  BY <1>2 DEF Begins, Allowed, Live
<1>3. CASE req'[t] # req[t] /\ Sessions(t) /\ Continues(t, req'[t])
  <2>1. CASE req'[t].op = "reselect"
    <3>1. req[t].op = "signup" /\ req'[t] # Idle
      BY <1>3, <2>1 DEF Continues, Follows, Idle
    <3>2. InsertUser(t) \/ Crash(t)
      BY <1>3, <3>1 DEF Sessions, FindUser, InsertContact, RecordFailure, CommitPrimary, CommitCode,
         LogCode, SendCode, CommitVerified, ResetLimit, CommitRoute, CommitCreated, CommitUpdated
    <3>3. ~Ends(t)
      BY <3>1, Moves DEF Ends
    <3>4. Live # {} /\ UNCHANGED user
      BY <3>2, <3>3 DEF InsertUser, Crash
    <3> QED  BY <2>1, <3>4 DEF Live
  <2>2. CASE req'[t].op # "reselect"
    BY <1>3, <2>2 DEF Continues, Follows, Idle, Requesters
  <2> QED  BY <2>1, <2>2
<1> QED  BY <1>1, <1>2, <1>3, WhoMoves
------------------------------------------------------------------------------
(* What they own *)

\* A row goes with its deletion or its user's anonymisation.
LEMMA RowsGo ==
    ASSUME IInv, Step, NEW c \in Contact, contact[c].is = "row", contact'[c].is # "row"
    PROVE  (\E s \in Session : DeleteContact(s, c)) \/ \E u \in User : Anonymise(u) /\ IsContact(c, u)
<1>1. CASE UNCHANGED contact
  BY <1>1
<1>2. ASSUME NEW s \in Session, CommitPrimary(s) \/ CommitVerified(s) PROVE FALSE
  BY <1>2, MovedRows, VerifiedRows
<1>3. ASSUME NEW s \in Session, InsertContact(s), ~UNCHANGED contact PROVE FALSE
  BY <1>3, InsertedRow
<1>4. ASSUME NEW s \in Session, NEW d \in Contact, DeleteContact(s, d), d # c PROVE FALSE
  <2>1. contact' = Without({d}) /\ {d} \in SUBSET Contact
    BY <1>4 DEF DeleteContact
  <2> QED  BY <1>4, <2>1, WithoutStay
<1>5. ASSUME NEW u \in User, Anonymise(u), ~IsContact(c, u) PROVE FALSE
  <2>1. /\ contact' = Without({d \in Contact : IsContact(d, u)})
        /\ {d \in Contact : IsContact(d, u)} \in SUBSET Contact
    BY <1>5 DEF Anonymise
  <2> QED  BY <1>5, <2>1, WithoutStay
<1>6. \/ UNCHANGED contact
      \/ \E s \in Session : \/ CommitPrimary(s) \/ CommitVerified(s) \/ InsertContact(s)
                            \/ \E d \in Contact : DeleteContact(s, d)
      \/ \E u \in User : Anonymise(u)
  <2>1. CASE \E s \in Session, r \in Requests : Begins(s, r)
    BY <2>1 DEF Begins
  <2>2. CASE \E s \in Session : Sessions(s)
    BY <2>2 DEF Sessions, InsertUser, FindUser, RecordFailure, CommitCode, LogCode, SendCode,
       ResetLimit, CommitRoute, CommitCreated, CommitUpdated, Crash
  <2>3. CASE Deletions \/ Passes
    BY <2>3 DEF Deletions, Passes, DeleteRoute, DeletePreference, DayPasses, Alert, Expire, HourPasses
  <2> QED  BY <2>1, <2>2, <2>3 DEF Step
<1> QED  BY <1>1, <1>2, <1>3, <1>4, <1>5, <1>6

\* A row is made by the request of its user.
LEMMA RowsCome ==
    ASSUME IInv, Step, NEW c \in Contact, contact[c].is = "free", contact'[c].is # "free"
    PROVE  \E s \in Session : InsertContact(s) /\ contact'[c].user = req[s].user
<1>1. ASSUME NEW s \in Session, CommitPrimary(s) \/ CommitVerified(s) PROVE FALSE
  BY <1>1, MovedRows, VerifiedRows
<1>2. ASSUME NEW s \in Session, InsertContact(s)
      PROVE  InsertContact(s) /\ contact'[c].user = req[s].user
  <2>1. contact' # contact
    OBVIOUS
  <2>2. c = New(contact)
    BY <1>2, <2>1, InsertedRow
  <2>3. contact'[New(contact)].user = req[s].user
    BY <1>2, <2>1, InsertedRow
  <2> QED  BY <1>2, <2>2, <2>3
<1>3. ASSUME NEW s \in Session, NEW d \in Contact, DeleteContact(s, d) PROVE FALSE
  <2>1. contact' = Without({d}) /\ {d} \in SUBSET Contact /\ contact[d].is = "row"
    BY <1>3 DEF DeleteContact, IsContact
  <2> QED  BY <2>1, WithoutStay
<1>4. ASSUME NEW u \in User, Anonymise(u) PROVE FALSE
  <2>1. /\ contact' = Without({d \in Contact : IsContact(d, u)})
        /\ {d \in Contact : IsContact(d, u)} \in SUBSET Contact
        /\ c \notin {d \in Contact : IsContact(d, u)}
    BY <1>4 DEF Anonymise, IsContact
  <2> QED  BY <2>1, WithoutStay
<1>5. \/ UNCHANGED contact
      \/ \E s \in Session : \/ CommitPrimary(s) \/ CommitVerified(s) \/ InsertContact(s)
                            \/ \E d \in Contact : DeleteContact(s, d)
      \/ \E u \in User : Anonymise(u)
  <2>1. CASE \E s \in Session, r \in Requests : Begins(s, r)
    BY <2>1 DEF Begins
  <2>2. CASE \E s \in Session : Sessions(s)
    BY <2>2 DEF Sessions, InsertUser, FindUser, RecordFailure, CommitCode, LogCode, SendCode,
       ResetLimit, CommitRoute, CommitCreated, CommitUpdated, Crash
  <2>3. CASE Deletions \/ Passes
    BY <2>3 DEF Deletions, Passes, DeleteRoute, DeletePreference, DayPasses, Alert, Expire, HourPasses
  <2> QED  BY <2>1, <2>2, <2>3 DEF Step
<1> QED  BY <1>1, <1>2, <1>3, <1>4, <1>5

\* The user of a row that stays is live as long as he was.
LEMMA OwnersLive ==
    ASSUME IInv, Users, Step, NEW c \in Contact, contact[c].is = "row", contact'[c].is = "row",
           contact[c].user \in Live
    PROVE  contact[c].user \in Live'
<1> DEFINE u == contact[c].user
<1>1. u \in User /\ user[u] = "live"
  BY DEF Live
<1>2. ASSUME Anonymise(u) PROVE FALSE
  <2>1. /\ contact' = Without({d \in Contact : IsContact(d, u)})
        /\ {d \in Contact : IsContact(d, u)} \in SUBSET Contact
        /\ c \in {d \in Contact : IsContact(d, u)}
    BY <1>2 DEF Anonymise, IsContact
  <2> HIDE DEF u
  <2> QED  BY <2>1, WithoutStay
<1> HIDE DEF u
<1>3. user'[u] = user[u]
  BY <1>1, <1>2, UsersStay
<1> QED  BY <1>1, <1>3 DEF Live, u

\* The row that a commit of a preference makes, and the one that it changes.
LEMMA CreatedPref ==
    ASSUME IInv, ContactsNamed, NEW s \in Session, CommitCreated(s), pref' # pref
    PROVE  /\ New(pref) \in Preference /\ pref[New(pref)].is = "free"
           /\ pref'[New(pref)].is = "row" /\ pref'[New(pref)].user = req[s].user
           /\ pref'[New(pref)].contact = req[s].contact
           /\ \A p \in Preference : p # New(pref) => pref'[p] = pref[p]
           /\ contact[req[s].contact].is = "row" /\ req[s].op = "prefer" /\ Ends(s)
           /\ UNCHANGED <<user, contact>>
<1> DEFINE row == [is |-> "row", user |-> req[s].user, contact |-> req[s].contact]
<1>1. /\ pref' = [pref EXCEPT ![New(pref)] = row] /\ Unused(pref) # {}
      /\ contact[req[s].contact].is = "row" /\ req[s].op = "prefer" /\ Ends(s)
      /\ UNCHANGED <<user, contact>>
  BY DEF CommitCreated
<1>4. row.is = "row" /\ row.user = req[s].user /\ row.contact = req[s].contact
  OBVIOUS
<1> HIDE DEF row
<1>2. New(pref) \in Preference /\ pref[New(pref)].is = "free"
  BY <1>1 DEF New, Unused, ContactsNamed
<1>3. /\ pref'[New(pref)] = row
      /\ \A p \in Preference : p # New(pref) => pref'[p] = pref[p]
  BY <1>1, <1>2 DEF ContactsNamed
<1> QED  BY <1>1, <1>2, <1>3, <1>4

LEMMA UpdatedPref ==
    ASSUME IInv, ContactsNamed, NEW s \in Session, CommitUpdated(s), pref' # pref
    PROVE  /\ req[s].pref \in Preference /\ pref[req[s].pref].is # "free"
           /\ pref'[req[s].pref].is = pref[req[s].pref].is
           /\ pref'[req[s].pref].user = pref[req[s].pref].user
           /\ pref'[req[s].pref].contact = req[s].contact
           /\ \A p \in Preference : p # req[s].pref => pref'[p] = pref[p]
           /\ contact[req[s].contact].is = "row" /\ req[s].op = "move" /\ Ends(s)
           /\ UNCHANGED <<user, contact>>
<1> DEFINE q == req[s].pref
<1>1. /\ pref' = [pref EXCEPT ![q].contact = req[s].contact] /\ pref[q].is # "free"
      /\ contact[req[s].contact].is = "row" /\ req[s].op = "move" /\ Ends(s)
      /\ UNCHANGED <<user, contact>>
  BY DEF CommitUpdated
<1>2. q \in Preference
  BY <1>1 DEF ContactsNamed
<1>3. pref[q] \in Prefs /\ pref \in [Preference -> Prefs]
  BY <1>2 DEF ContactsNamed
<1> HIDE DEF q
<1>4. /\ pref'[q].is = pref[q].is /\ pref'[q].user = pref[q].user /\ pref'[q].contact = req[s].contact
      /\ \A p \in Preference : p # q => pref'[p] = pref[p]
  BY <1>1, <1>2, <1>3 DEF Prefs
<1> QED  BY <1>1, <1>2, <1>4 DEF q

\* Every other step keeps, deletes or removes preferences.
Fewer(p) == \/ pref'[p] = NoPref
            \/ /\ pref'[p].user = pref[p].user /\ pref'[p].contact = pref[p].contact
               /\ \/ pref'[p].is = pref[p].is
                  \/ pref[p].is = "row" /\ pref'[p].is = "deleted"

LEMMA PrefsChange ==
    ASSUME IInv, ContactsNamed, Step
    PROVE  \/ \A p \in Preference : Fewer(p)
           \/ \E s \in Session : (CommitCreated(s) \/ CommitUpdated(s)) /\ pref' # pref
<1>1. CASE UNCHANGED pref
  BY <1>1 DEF Fewer
<1>2. CASE \E s \in Session : CommitCreated(s) \/ CommitUpdated(s)
  BY <1>1, <1>2
<1>3. ASSUME NEW s \in Session, NEW c \in Contact, DeleteContact(s, c)
      PROVE  \A p \in Preference : Fewer(p)
  BY <1>3 DEF DeleteContact, Cascaded, Fewer
<1>4. ASSUME NEW u \in User, pref' = [p \in Preference |-> IF p \in PrefsOf(u) THEN NoPref ELSE pref[p]]
      PROVE  \A p \in Preference : Fewer(p)
  BY <1>4 DEF Fewer
<1>5. ASSUME NEW s \in Session, NEW q \in Preference, DeletePreference(s, q)
      PROVE  \A p \in Preference : Fewer(p)
  <2>1. pref[q].is = "row" /\ pref' = [pref EXCEPT ![q].is = "deleted"]
    BY <1>5 DEF DeletePreference, ActivePrefs
  <2>2. pref[q] \in Prefs /\ pref \in [Preference -> Prefs]
    BY DEF ContactsNamed
  <2> QED  BY <2>1, <2>2 DEF Fewer, Prefs
<1>6. \/ UNCHANGED pref
      \/ \E s \in Session : \/ CommitCreated(s) \/ CommitUpdated(s)
                            \/ \E c \in Contact : DeleteContact(s, c)
                            \/ \E p \in Preference : DeletePreference(s, p)
      \/ \E u \in User : pref' = [p \in Preference |-> IF p \in PrefsOf(u) THEN NoPref ELSE pref[p]]
  <2>1. CASE \E s \in Session, r \in Requests : Begins(s, r)
    BY <2>1 DEF Begins
  <2>2. CASE \E s \in Session : Sessions(s)
    BY <2>2 DEF Sessions, InsertUser, FindUser, InsertContact, RecordFailure, CommitPrimary,
       CommitCode, LogCode, SendCode, CommitVerified, ResetLimit, CommitRoute, Crash
  <2>3. CASE Deletions \/ Passes
    BY <2>3 DEF Deletions, Passes, DeleteRoute, Anonymise, DayPasses, Alert, Expire, HourPasses, Live
  <2> QED  BY <2>1, <2>2, <2>3 DEF Step
<1> QED  BY <1>1, <1>2, <1>3, <1>4, <1>5, <1>6

LEMMA PrefsOwnedKept ==
    ASSUME IInv, ContactsNamed, Users, PrefsOwned, ChoicesOwned, Step
    PROVE  PrefsOwned'
<1> SUFFICES ASSUME NEW p \in Preference, pref'[p].is # "free"
             PROVE  /\ contact'[pref'[p].contact].is = "row"
                    /\ contact'[pref'[p].contact].user = pref'[p].user
                    /\ pref'[p].user \in Live'
  BY DEF PrefsOwned, IsContact
<1> DEFINE c == pref[p].contact
<1>1. pref[p].is # "free" => /\ c \in Contact /\ contact[c].is = "row"
                             /\ contact[c].user = pref[p].user /\ pref[p].user \in Live
  BY DEF PrefsOwned, IsContact, ContactsNamed
<1>2. CASE \A q \in Preference : Fewer(q)
  <2>1. /\ pref'[p].user = pref[p].user /\ pref'[p].contact = c /\ pref[p].is # "free"
    BY <1>2 DEF Fewer, NoPref
  <2>2. ASSUME contact'[c].is # "row" PROVE FALSE
    <3>1. CASE \E s \in Session : DeleteContact(s, c)
      <4>1. pref'[p] = NoPref
        BY <3>1 DEF DeleteContact, Cascaded
      <4> QED  BY <4>1 DEF NoPref
    <3>2. CASE \E u \in User : Anonymise(u) /\ IsContact(c, u)
      <4>1. PICK u \in User : Anonymise(u) /\ contact[c].user = u
        BY <3>2 DEF IsContact
      <4>2. p \in PrefsOf(u)
        BY <1>1, <2>1, <4>1 DEF PrefsOf
      <4>3. pref'[p] = NoPref
        BY <4>1, <4>2 DEF Anonymise
      <4> QED  BY <4>3 DEF NoPref
    <3> QED  BY <1>1, <2>1, <2>2, <3>1, <3>2, RowsGo
  <2>3. contact'[c].user = contact[c].user
    BY <1>1, <2>1, <2>2, RowsAreKept DEF RowsStay
  <2> QED  BY <1>1, <2>1, <2>2, <2>3, OwnersLive
<1>3. ASSUME NEW s \in Session, CommitCreated(s), pref' # pref
      PROVE  /\ contact'[pref'[p].contact].is = "row"
             /\ contact'[pref'[p].contact].user = pref'[p].user /\ pref'[p].user \in Live'
  <2>1. /\ contact[req[s].contact].is = "row" /\ req[s].op = "prefer" /\ UNCHANGED <<user, contact>>
        /\ \/ pref'[p] = pref[p]
           \/ pref'[p].user = req[s].user /\ pref'[p].contact = req[s].contact
    BY <1>3, CreatedPref
  <2>2. contact[req[s].contact].user = req[s].user /\ req[s].user \in Live
    BY <2>1 DEF ChoicesOwned
  <2> QED  BY <1>1, <2>1, <2>2 DEF Live
<1>4. ASSUME NEW s \in Session, CommitUpdated(s), pref' # pref
      PROVE  /\ contact'[pref'[p].contact].is = "row"
             /\ contact'[pref'[p].contact].user = pref'[p].user /\ pref'[p].user \in Live'
  <2>1. /\ contact[req[s].contact].is = "row" /\ req[s].op = "move" /\ UNCHANGED <<user, contact>>
        /\ \/ pref'[p] = pref[p]
           \/ /\ pref'[p].user = pref[p].user /\ pref'[p].contact = req[s].contact
              /\ pref[p].is # "free"
    BY <1>4, UpdatedPref
  <2>2. contact[req[s].contact].user = req[s].user /\ req[s].user \in Live
    BY <2>1 DEF ChoicesOwned
  <2>3. pref[p].is # "free" => pref[p].user = req[s].user
    BY <1>1, <2>2 DEF Users
  <2> QED  BY <1>1, <2>1, <2>2, <2>3 DEF Live
<1> QED  BY <1>2, <1>3, <1>4, PrefsChange

LEMMA ChoicesOwnedKept ==
    ASSUME IInv, ContactsNamed, Users, ChoicesOwned, Step
    PROVE  ChoicesOwned'
<1> SUFFICES ASSUME NEW t \in Session, req'[t].op \in {"prefer", "move"}
             PROVE  /\ contact'[req'[t].contact].is # "free"
                    /\ contact'[req'[t].contact].is = "row" =>
                          contact'[req'[t].contact].user = req'[t].user /\ req'[t].user \in Live'
  BY DEF ChoicesOwned
<1>1. CASE req'[t] = req[t]
  <2> DEFINE c == req[t].contact
  <2>1. /\ c \in Contact /\ contact[c].is # "free"
        /\ contact[c].is = "row" => contact[c].user = req[t].user /\ req[t].user \in Live
    BY <1>1 DEF ChoicesOwned, ContactsNamed
  <2>2. /\ contact'[c].is # "free"
        /\ contact'[c].is = "row" => contact[c].is = "row" /\ contact'[c].user = contact[c].user
    BY <2>1, RowsAreKept DEF RowsStay
  <2> QED  BY <1>1, <2>1, <2>2, OwnersLive
<1>2. ASSUME NEW s \in Session, NEW r \in Requests, Begins(s, r), req'[t] # req[t]
      PROVE  /\ contact'[req'[t].contact].is = "row"
             /\ contact'[req'[t].contact].user = req'[t].user /\ req'[t].user \in Live'
  <2>1. req'[t] = r
    BY <1>2 DEF Begins, IInv, Types
  <2> QED  BY <1>2, <2>1 DEF Begins, Allowed, IsContact, Live
<1>3. ASSUME NEW s \in Session, NEW r \in Requests, Continues(s, r), req'[t] # req[t]
      PROVE  FALSE
  BY <1>3 DEF Continues, Follows, Idle, IInv, Types
<1> QED  BY <1>1, <1>2, <1>3, OneRequestMoves
------------------------------------------------------------------------------
(* Counting *)

LEMMA Counts ==
    ASSUME NEW S, IsFiniteSet(S), NEW A \in SUBSET S, NEW B \in SUBSET S
    PROVE  /\ IsFiniteSet(A) /\ Cardinality(A) \in Nat /\ Cardinality(S) \in Nat
           /\ Cardinality(A) <= Cardinality(S)
           /\ B \subseteq A => Cardinality(B) <= Cardinality(A)
           /\ \A x \in S : B \subseteq A \cup {x} => Cardinality(B) <= Cardinality(A) + 1
           /\ \A x \in A : B \subseteq A \ {x} => Cardinality(B) + 1 <= Cardinality(A)
<1>1. /\ IsFiniteSet(A) /\ Cardinality(A) \in Nat /\ Cardinality(S) \in Nat /\ Cardinality(B) \in Nat
      /\ Cardinality(A) <= Cardinality(S)
  BY FS_Subset, FS_CardinalityType
<1>2. B \subseteq A => Cardinality(B) <= Cardinality(A)
  BY <1>1, FS_Subset
<1>3. ASSUME NEW x \in S, B \subseteq A \cup {x}
      PROVE  Cardinality(B) <= Cardinality(A) + 1
  <2>1. IsFiniteSet(A \cup {x}) /\ Cardinality(A \cup {x}) \in {Cardinality(A), Cardinality(A) + 1}
    BY <1>1, FS_AddElement
  <2>2. Cardinality(B) <= Cardinality(A \cup {x})
    BY <1>3, <2>1, FS_Subset
  <2> QED  BY <1>1, <2>1, <2>2
<1>4. ASSUME NEW x \in A, B \subseteq A \ {x}
      PROVE  Cardinality(B) + 1 <= Cardinality(A)
  <2>1. IsFiniteSet(A \ {x}) /\ Cardinality(A \ {x}) = Cardinality(A) - 1
    BY <1>1, FS_RemoveElement
  <2>2. Cardinality(B) <= Cardinality(A \ {x}) /\ Cardinality(A \ {x}) \in Nat
    BY <1>4, <2>1, FS_Subset, FS_CardinalityType
  <2> QED  BY <1>1, <2>1, <2>2
<1> QED  BY <1>1, <1>2, <1>3, <1>4

------------------------------------------------------------------------------
(* Codes *)

LEMMA CommittedCode ==
    ASSUME IInv, NEW s \in Session, CommitCode(s)
    PROVE  /\ Len(codes) \in Nat /\ Len(codes') = Len(codes) + 1 /\ DOMAIN codes' = 1 .. Len(codes) + 1
           /\ DOMAIN codes = 1 .. Len(codes)
           /\ \A i \in DOMAIN codes : codes'[i] = codes[i]
           /\ codes'[Len(codes) + 1].user = req[s].user
           /\ codes'[Len(codes) + 1].contact = req[s].contact
<1> DEFINE new == [user |-> req[s].user, contact |-> req[s].contact, used |-> FALSE,
                   expired |-> FALSE, recent |-> TRUE, known |-> FALSE]
<1>1. codes' = Append(codes, new) /\ req[s].op = "code"
  BY DEF CommitCode
<1>2. req[s] \in Requests /\ codes \in Seq(CodeRows) /\ Len(codes) \in Nat /\ req[s].contact \in Contact
  BY <1>1 DEF IInv, Types, RequestsAreTrue, Sound
<1>3. new \in CodeRows /\ new.user = req[s].user /\ new.contact = req[s].contact
  BY <1>2 DEF CodeRows, Requests
<1> HIDE DEF new
<1> QED  BY <1>1, <1>2, <1>3

\* A code keeps its user and its contact; it is not unused, nor recent, again.
CodeStays(i) == /\ codes'[i].user = codes[i].user /\ codes'[i].contact = codes[i].contact
                /\ codes[i].used => codes'[i].used
                /\ codes'[i].recent => codes[i].recent

LEMMA FlagSet ==
    ASSUME IInv, NEW i, NEW n, codes' = [codes EXCEPT ![i] = n],
           i \in DOMAIN codes => /\ n.user = codes[i].user /\ n.contact = codes[i].contact
                                 /\ codes[i].used => n.used
                                 /\ n.recent => codes[i].recent
    PROVE  /\ DOMAIN codes' = DOMAIN codes /\ \A j \in DOMAIN codes : CodeStays(j)
           /\ Len(codes') = Len(codes)
<1>1. codes \in Seq(CodeRows) /\ DOMAIN codes = 1 .. Len(codes) /\ Len(codes) \in Nat
  BY DEF IInv, Types
<1>2. DOMAIN codes' = DOMAIN codes
  OBVIOUS
<1>3. Len(codes') = Len(codes)
  BY <1>1, <1>2
<1>4. ASSUME NEW j \in DOMAIN codes PROVE CodeStays(j)
  <2>1. CASE j = i
    BY <2>1 DEF CodeStays
  <2>2. CASE j # i
    BY <2>2 DEF CodeStays
  <2> QED  BY <2>1, <2>2
<1> QED  BY <1>2, <1>3, <1>4

LEMMA CodesStay ==
    ASSUME IInv, Step
    PROVE  /\ \A i \in DOMAIN codes : i \in DOMAIN codes' /\ CodeStays(i)
           /\ \/ DOMAIN codes' = DOMAIN codes /\ Len(codes') = Len(codes)
              \/ \E s \in Session : CommitCode(s)
<1> DEFINE Stay == /\ \A i \in DOMAIN codes : CodeStays(i)
                   /\ DOMAIN codes' = DOMAIN codes /\ Len(codes') = Len(codes)
<1>1. CASE UNCHANGED codes
  BY <1>1 DEF CodeStays
<1>2. ASSUME NEW s \in Session, CommitCode(s)
      PROVE  \A i \in DOMAIN codes : i \in DOMAIN codes' /\ CodeStays(i)
  BY <1>2, CommittedCode DEF CodeStays
<1>3. codes \in Seq(CodeRows) /\ DOMAIN codes = 1 .. Len(codes) /\ Len(codes) \in Nat
  BY DEF IInv, Types
<1>4. ASSUME NEW s \in Session, SendCode(s) PROVE Stay
  <2>1. PICK delivered \in BOOLEAN :
          codes' = [codes EXCEPT ![req[s].code].known = delivered /\ req[s].address \in Mine]
    BY <1>4 DEF SendCode
  <2> DEFINE known == delivered /\ req[s].address \in Mine
             n == [codes[req[s].code] EXCEPT !.known = known]
  <2>2. codes' = [codes EXCEPT ![req[s].code] = n]
    BY <2>1
  <2> HIDE DEF known
  <2>3. req[s].code \in DOMAIN codes =>
          /\ n.user = codes[req[s].code].user /\ n.contact = codes[req[s].code].contact
          /\ n.used = codes[req[s].code].used /\ n.recent = codes[req[s].code].recent
    BY CodeTypes DEF CodeRows
  <2> HIDE DEF n
  <2> QED  BY <2>2, <2>3, FlagSet
<1>5. ASSUME NEW s \in Session, CommitVerified(s) PROVE Stay
  <2>1. CASE UNCHANGED codes
    BY <2>1 DEF CodeStays
  <2>2. CASE codes' = [codes EXCEPT ![req[s].code].used = TRUE]
    <3> DEFINE n == [codes[req[s].code] EXCEPT !.used = TRUE]
    <3>1. codes' = [codes EXCEPT ![req[s].code] = n]
      BY <2>2
    <3>2. req[s].code \in DOMAIN codes =>
            /\ n.user = codes[req[s].code].user /\ n.contact = codes[req[s].code].contact
            /\ n.used /\ n.recent = codes[req[s].code].recent
      BY CodeTypes DEF CodeRows
    <3> HIDE DEF n
    <3> QED  BY <3>1, <3>2, FlagSet
  <2> QED  BY <1>5, <2>1, <2>2 DEF CommitVerified
<1>6. ASSUME NEW i \in DOMAIN codes, Expire(i) PROVE Stay
  <2> DEFINE n == [codes[i] EXCEPT !.expired = TRUE]
  <2>1. codes' = [codes EXCEPT ![i] = n]
    BY <1>6 DEF Expire
  <2>2. /\ n.user = codes[i].user /\ n.contact = codes[i].contact
        /\ n.used = codes[i].used /\ n.recent = codes[i].recent
    BY CodeTypes DEF CodeRows
  <2> HIDE DEF n
  <2> QED  BY <2>1, <2>2, FlagSet
<1>7. ASSUME NEW i \in DOMAIN codes, HourPasses(i) PROVE Stay
  <2> DEFINE n == [codes[i] EXCEPT !.recent = FALSE, !.expired = TRUE]
  <2>1. codes' = [codes EXCEPT ![i].recent = FALSE, ![i].expired = TRUE]
    BY <1>7 DEF HourPasses
  <2>2. codes' = [codes EXCEPT ![i] = n]
    BY <1>3, <2>1
  <2>3. /\ n.user = codes[i].user /\ n.contact = codes[i].contact
        /\ n.used = codes[i].used /\ ~n.recent
    BY CodeTypes DEF CodeRows
  <2> HIDE DEF n
  <2> QED  BY <2>2, <2>3, FlagSet
<1>8. ASSUME NEW s \in Session, ResetLimit(s) PROVE Stay
  <2>1. codes' = [i \in DOMAIN codes |-> IF codes[i].contact = req[s].contact
                                        THEN [codes[i] EXCEPT !.recent = FALSE] ELSE codes[i]]
    BY <1>8 DEF ResetLimit
  <2>2. DOMAIN codes' = DOMAIN codes
    BY <2>1
  <2>3. ASSUME NEW i \in DOMAIN codes PROVE CodeStays(i)
    <3>1. codes[i] \in CodeRows
      BY CodeTypes
    <3>2. codes'[i] = IF codes[i].contact = req[s].contact
                      THEN [codes[i] EXCEPT !.recent = FALSE] ELSE codes[i]
      BY <2>1
    <3> QED  BY <3>1, <3>2 DEF CodeStays, CodeRows
  <2>4. Len(codes') = Len(codes)
    BY <1>3, <2>2
  <2> QED  BY <2>2, <2>3, <2>4
<1>9. ASSUME NEW u \in User, Anonymise(u) PROVE Stay
  <2>1. codes' = [i \in DOMAIN codes |-> IF codes[i].user = u
                    THEN [codes[i] EXCEPT !.used = TRUE, !.recent = FALSE] ELSE codes[i]]
    BY <1>9 DEF Anonymise
  <2>2. DOMAIN codes' = DOMAIN codes
    BY <2>1, Zenon
  <2>3. ASSUME NEW i \in DOMAIN codes PROVE CodeStays(i)
    <3>1. codes[i] \in CodeRows
      BY CodeTypes
    <3>2. codes'[i] = IF codes[i].user = u
                      THEN [codes[i] EXCEPT !.used = TRUE, !.recent = FALSE] ELSE codes[i]
      BY <2>1, Zenon
    <3> QED  BY <3>1, <3>2 DEF CodeStays, CodeRows
  <2>4. Len(codes') = Len(codes)
    BY <1>3, <2>2
  <2> QED  BY <2>2, <2>3, <2>4
<1>10. \/ UNCHANGED codes
       \/ \E s \in Session : CommitCode(s) \/ SendCode(s) \/ CommitVerified(s) \/ ResetLimit(s)
       \/ \E i \in DOMAIN codes : Expire(i) \/ HourPasses(i)
       \/ \E u \in User : Anonymise(u)
  <2>1. CASE \E s \in Session, r \in Requests : Begins(s, r)
    BY <2>1 DEF Begins
  <2>2. CASE \E s \in Session : Sessions(s)
    BY <2>2 DEF Sessions, InsertUser, FindUser, InsertContact, RecordFailure, CommitPrimary,
       LogCode, CommitRoute, CommitCreated, CommitUpdated, Crash
  <2>3. CASE Deletions \/ Passes
    BY <2>3 DEF Deletions, Passes, DeleteRoute, DeleteContact, DeletePreference, DayPasses, Alert
  <2> QED  BY <2>1, <2>2, <2>3 DEF Step
<1>11. Stay => (\A i \in DOMAIN codes : i \in DOMAIN codes')
  OBVIOUS
<1> QED  BY <1>1, <1>2, <1>4, <1>5, <1>6, <1>7, <1>8, <1>9, <1>10, <1>11

LEMMA CodesFitKept ==
    ASSUME IInv, Requesters, CodesFit, habit \in Habits, UNCHANGED habit, Step
    PROVE  CodesFit'
<1>1. Len(codes) \in Nat /\ DOMAIN codes = 1 .. Len(codes) /\ Len(codes') \in Nat /\ habit.maxCodes \in Nat
  <2>1. habit.maxCodes \in Nat
    BY UserAccountAssumption
  <2>2. Len(codes') \in Nat
    BY CodesStay, CommittedCode DEF IInv, Types
  <2> QED  BY <2>1, <2>2 DEF IInv, Types
<1>2. Len(codes) <= Len(codes')
  BY <1>1, CodesStay, CommittedCode
<1>3. logged' \subseteq DOMAIN codes'
  <2>1. CASE UNCHANGED logged
    BY <2>1, CodesStay DEF CodesFit
  <2>2. ASSUME NEW s \in Session, LogCode(s) PROVE logged' \subseteq DOMAIN codes
    <3>1. req[s].code \in DOMAIN codes
      BY <2>2 DEF LogCode, IInv, RequestsAreTrue, Sound
    <3> QED  BY <2>2, <3>1 DEF LogCode, CodesFit
  <2>3. CASE logged' \subseteq logged
    BY <2>3, CodesStay DEF CodesFit
  <2>4. \/ UNCHANGED logged
        \/ \E s \in Session : LogCode(s)
        \/ logged' \subseteq logged
    <3>1. CASE \E s \in Session, r \in Requests : Begins(s, r)
      BY <3>1 DEF Begins
    <3>2. CASE \E s \in Session : Sessions(s)
      BY <3>2 DEF Sessions, InsertUser, FindUser, InsertContact, RecordFailure, CommitPrimary, ResetLimit,
         CommitCode, CommitRoute, CommitCreated, CommitUpdated, Crash, CommitVerified, SendCode
    <3>3. CASE Deletions \/ Passes
      BY <3>3 DEF Deletions, Passes, DeleteRoute, DeleteContact, DeletePreference, DayPasses, Alert,
         Anonymise, Expire, HourPasses
    <3> QED  BY <3>1, <3>2, <3>3 DEF Step
  <2> QED  BY <2>1, <2>2, <2>3, <2>4, CodesStay
<1>4. ASSUME NEW i \in DOMAIN codes' PROVE codes'[i].user \in User
  <2>1. CASE i \in DOMAIN codes
    BY <2>1, CodesStay DEF CodeStays, CodesFit
  <2>2. CASE i \notin DOMAIN codes
    <3>1. PICK s \in Session : CommitCode(s)
      BY <2>2, CodesStay
    <3>2. i = Len(codes) + 1
      BY <1>1, <2>2, <3>1, CommittedCode
    <3>3. req[s].user \in User
      BY <3>1 DEF CommitCode, Requesters
    <3> QED  BY <3>1, <3>2, <3>3, CommittedCode
  <2> QED  BY <2>1, <2>2
<1>5. Asking \in SUBSET Session /\ Asking' \in SUBSET Session /\ IsFiniteSet(Session)
  BY UserAccountAssumption DEF Asking
<1>6. CASE \A s \in Session : ~CommitCode(s)
  <2>1. Len(codes') = Len(codes)
    BY <1>6, CodesStay
  <2>2. ASSUME NEW s \in Session PROVE req'[s].code <= Len(codes)
    <3>1. CASE req'[s] = req[s]
      BY <3>1 DEF CodesFit
    <3>2. CASE Begins(s, req'[s])
      BY <1>1, <3>2 DEF Begins, Allowed
    <3>3. CASE req'[s] # req[s] /\ Sessions(s) /\ Continues(s, req'[s])
      <4>1. CASE req'[s].op = "log"
        <5>1. req[s].op = "code" /\ req'[s] # Idle
          BY <3>3, <4>1 DEF Continues, Follows, Idle
        <5>2. Crash(s)
          BY <1>6, <3>3, <5>1 DEF Sessions, InsertUser, FindUser, InsertContact, RecordFailure,
             CommitPrimary, LogCode, SendCode, CommitVerified, ResetLimit, CommitRoute, CommitCreated,
             CommitUpdated
        <5> QED  BY <5>1, <5>2, Moves DEF Crash, Ends
      <4>2. CASE req'[s].op # "log"
        BY <1>1, <3>3, <4>2 DEF Continues, Follows, Idle, CodesFit
      <4> QED  BY <4>1, <4>2
    <3> QED  BY <3>1, <3>2, <3>3, WhoMoves
  <2>3. Len(codes) + Cardinality(Asking) <= habit.maxCodes
    BY DEF CodesFit
  <2>4. CASE Asking' \subseteq Asking
    <3>1. /\ Cardinality(Asking') <= Cardinality(Asking) /\ Cardinality(Asking) \in Nat
          /\ Cardinality(Asking') \in Nat
      BY <1>5, <2>4, Counts
    <3>2. Len(codes) + Cardinality(Asking') <= habit.maxCodes
      BY <1>1, <2>3, <3>1
    <3> QED  BY <1>3, <1>4, <2>1, <2>2, <3>2 DEF CodesFit
  <2>5. ASSUME NEW s \in Asking' \ Asking
        PROVE  Len(codes) + Cardinality(Asking') <= habit.maxCodes
    <3>1. s \in Session /\ req'[s].op = "code" /\ req'[s] # req[s]
      BY <2>5 DEF Asking
    <3>2. Begins(s, req'[s])
      BY <3>1, WhoMoves DEF Continues, Follows, Idle
    <3>3. Cardinality(Asking) < habit.maxCodes - Len(codes)
      BY <3>1, <3>2 DEF Begins, Allowed, Room, Asking
    <3>4. Asking' \subseteq Asking \cup {s}
      BY <3>1, <3>2, Moves DEF Asking, Begins
    <3>5. /\ Cardinality(Asking') <= Cardinality(Asking) + 1 /\ Cardinality(Asking) \in Nat
          /\ Cardinality(Asking') \in Nat
      BY <1>5, <3>1, <3>4, Counts
    <3> QED  BY <1>1, <3>3, <3>5
  <2>6. CASE ~(Asking' \subseteq Asking)
    <3>1. Len(codes) + Cardinality(Asking') <= habit.maxCodes
      BY <2>5, <2>6
    <3> QED  BY <1>3, <1>4, <2>1, <2>2, <3>1 DEF CodesFit
  <2> QED  BY <2>4, <2>6
<1>7. ASSUME NEW s \in Session, CommitCode(s) PROVE CodesFit'
  <2>1. PICK r : Continues(s, r) /\ r.op = "log" /\ r.code = Len(codes) + 1
    BY <1>7, CommitCodeContinues
  <2>2. req'[s] = r /\ \A t \in Session : t # s => req'[t] = req[t]
    BY <2>1, Moves DEF Continues
  <2>3. Len(codes') = Len(codes) + 1
    BY <1>7, CommittedCode
  <2>4. ASSUME NEW t \in Session PROVE req'[t].code <= Len(codes')
    <3>1. CASE t = s
      BY <1>1, <2>1, <2>2, <2>3, <3>1
    <3>2. CASE t # s
      <4>1. req[t].code <= Len(codes) /\ req[t].code \in Nat
        BY DEF CodesFit, IInv, Types, Requests
      <4> QED  BY <1>1, <2>2, <2>3, <3>2, <4>1
    <3> QED  BY <3>1, <3>2
  <2>5. s \in Asking /\ Asking' \subseteq Asking \ {s}
    BY <1>7, <2>1, <2>2 DEF CommitCode, Asking
  <2>6. /\ Cardinality(Asking') + 1 <= Cardinality(Asking) /\ Cardinality(Asking) \in Nat
        /\ Cardinality(Asking') \in Nat
    BY <1>5, <2>5, Counts
  <2>7. Len(codes) + Cardinality(Asking) <= habit.maxCodes
    BY DEF CodesFit
  <2>8. Len(codes') + Cardinality(Asking') <= habit.maxCodes
    BY <1>1, <2>3, <2>6, <2>7
  <2> QED  BY <1>3, <1>4, <2>4, <2>8 DEF CodesFit
<1> QED  BY <1>6, <1>7
------------------------------------------------------------------------------
(* What is left of an anonymised user *)

\* The route of a user without a live request is only stopped or deleted.
LEMMA RouteStays ==
    ASSUME IInv, Users, Requesters, Step, NEW u \in User, \A s \in Session : req[s].user # u
    PROVE  route'[u] \in {route[u], "inactive", "deleted"}
<1>1. CASE UNCHANGED route
  BY <1>1
<1>2. ASSUME NEW s \in Session, CommitRoute(s) PROVE route'[u] = route[u]
  BY <1>2 DEF CommitRoute, Users
<1>3. ASSUME NEW s \in Session, DeleteRoute(s) PROVE route'[u] \in {route[u], "deleted"}
  BY <1>3 DEF DeleteRoute, Users, Live
<1>4. ASSUME NEW v \in User, Anonymise(v) PROVE route'[u] \in {route[u], "inactive"}
  BY <1>4 DEF Anonymise, Stopped, Users
<1>5. \/ UNCHANGED route
      \/ \E s \in Session : CommitRoute(s) \/ DeleteRoute(s)
      \/ \E v \in User : Anonymise(v)
  <2>1. CASE \E s \in Session, r \in Requests : Begins(s, r)
    BY <2>1 DEF Begins
  <2>2. CASE \E s \in Session : Sessions(s)
    BY <2>2 DEF Sessions, InsertUser, FindUser, InsertContact, RecordFailure, CommitPrimary,
       CommitCode, LogCode, SendCode, CommitVerified, ResetLimit, CommitCreated, CommitUpdated, Crash
  <2>3. CASE Deletions \/ Passes
    BY <2>3 DEF Deletions, Passes, DeleteContact, DeletePreference, DayPasses, Alert, Expire, HourPasses
  <2> QED  BY <2>1, <2>2, <2>3 DEF Step
<1> QED  BY <1>1, <1>2, <1>3, <1>4, <1>5

\* The one transaction leaves nothing behind, if no request of the user is under way.
LEMMA AnonymiseForgets ==
    ASSUME IInv, ContactsNamed, Users, NEW u \in User, Anonymise(u), u \notin late'
    PROVE  Forgotten(u)'
<1>1. \A s \in Session : req'[s].user # u
  BY DEF Anonymise
<1>2. ASSUME NEW c \in Contact PROVE ~IsContact(c, u)'
  <2>1. /\ contact' = Without({d \in Contact : IsContact(d, u)})
        /\ {d \in Contact : IsContact(d, u)} \in SUBSET Contact
    BY DEF Anonymise
  <2>2. contact'[c].is = "row" => c \notin {d \in Contact : IsContact(d, u)} /\ contact'[c] = contact[c]
    BY <2>1, WithoutStay
  <2> QED  BY <2>2 DEF IsContact
<1>3. ASSUME NEW i \in DOMAIN codes', codes'[i].user = u PROVE codes'[i].used
  <2>1. codes' = [j \in DOMAIN codes |-> IF codes[j].user = u
                    THEN [codes[j] EXCEPT !.used = TRUE, !.recent = FALSE] ELSE codes[j]]
    BY DEF Anonymise
  <2>2. i \in DOMAIN codes /\ codes'[i] = IF codes[i].user = u
                    THEN [codes[i] EXCEPT !.used = TRUE, !.recent = FALSE] ELSE codes[i]
    BY <2>1, Zenon
  <2>3. codes[i] \in CodeRows
    BY <2>2, CodeTypes
  <2> QED  BY <1>3, <2>2, <2>3 DEF CodeRows
<1>4. ASSUME NEW p \in Preference, pref'[p].is # "free" PROVE pref'[p].user # u
  <2>1. pref'[p] = IF p \in PrefsOf(u) THEN NoPref ELSE pref[p]
    BY DEF Anonymise
  <2> QED  BY <1>4, <2>1 DEF NoPref, PrefsOf
<1>5. route'[u] # "active"
  BY DEF Anonymise, Stopped, Users
<1> QED  BY <1>1, <1>2, <1>3, <1>4, <1>5 DEF Forgotten

\* Nothing comes back: whatever is made is made by a request of its user.
LEMMA StaysForgotten ==
    ASSUME IInv, ContactsNamed, Users, Requesters, Step,
           NEW u \in User, user[u] = "deleted", Forgotten(u)
    PROVE  Forgotten(u)'
<1>1. /\ \A s \in Session : req[s].user # u
      /\ u \notin Live /\ u # 0
  BY UserAccountAssumption DEF Forgotten, Live
<1>2. ASSUME NEW s \in Session PROVE req'[s].user # u
  <2>1. CASE req'[s] = req[s]
    BY <1>1, <2>1
  <2>2. CASE Begins(s, req'[s])
    BY <1>1, <2>2 DEF Begins, Allowed
  <2>3. CASE Continues(s, req'[s])
    BY <1>1, <2>3 DEF Continues, Follows, Idle
  <2> QED  BY <2>1, <2>2, <2>3, WhoMoves
<1>3. ASSUME NEW c \in Contact PROVE ~IsContact(c, u)'
  <2>1. CASE contact[c].is = "free"
    BY <1>1, <2>1, RowsCome DEF IsContact
  <2>2. CASE contact[c].is # "free"
    BY <2>2, RowsAreKept DEF RowsStay, IsContact, Forgotten
  <2> QED  BY <2>1, <2>2
<1>4. ASSUME NEW i \in DOMAIN codes', codes'[i].user = u PROVE codes'[i].used
  <2>1. CASE i \in DOMAIN codes
    BY <1>4, <2>1, CodesStay DEF CodeStays, Forgotten
  <2>2. CASE i \notin DOMAIN codes
    <3>1. PICK s \in Session : CommitCode(s)
      BY <2>2, CodesStay
    <3>2. i = Len(codes) + 1
      BY <2>2, <3>1, CommittedCode
    <3> QED  BY <1>1, <1>4, <3>1, <3>2, CommittedCode
  <2> QED  BY <2>1, <2>2
<1>5. ASSUME NEW p \in Preference, pref'[p].is # "free" PROVE pref'[p].user # u
  <2>1. CASE \A q \in Preference : Fewer(q)
    <3>1. pref'[p].user = pref[p].user /\ pref[p].is # "free"
      BY <1>5, <2>1 DEF Fewer, NoPref
    <3> QED  BY <3>1 DEF Forgotten
  <2>2. ASSUME NEW s \in Session, CommitCreated(s), pref' # pref
        PROVE  pref'[p] = pref[p] \/ pref'[p].user = req[s].user
    BY <2>2, CreatedPref
  <2>3. ASSUME NEW s \in Session, CommitUpdated(s), pref' # pref
        PROVE  pref'[p] = pref[p] \/ (pref'[p].user = pref[p].user /\ pref[p].is # "free")
    BY <2>3, UpdatedPref
  <2> QED  BY <1>1, <1>5, <2>1, <2>2, <2>3, PrefsChange DEF Forgotten
<1>6. route'[u] # "active"
  BY <1>1, RouteStays DEF Forgotten
<1> QED  BY <1>2, <1>3, <1>4, <1>5, <1>6 DEF Forgotten

LEMMA GoneIsKept ==
    ASSUME IInv, ContactsNamed, Users, Requesters, GoneIsForgotten, Step
    PROVE  GoneIsForgotten'
<1> SUFFICES ASSUME NEW u \in User, user'[u] = "deleted", u \notin late' PROVE Forgotten(u)'
  BY DEF GoneIsForgotten
<1>1. CASE user[u] = "deleted"
  <2>1. late \subseteq late'
    <3>1. CASE UNCHANGED late
      BY <3>1
    <3>2. CASE \E v \in User : Anonymise(v)
      BY <3>2 DEF Anonymise
    <3>3. UNCHANGED late \/ \E v \in User : Anonymise(v)
      <4>1. CASE \E s \in Session, r \in Requests : Begins(s, r)
        BY <4>1 DEF Begins
      <4>2. CASE \E s \in Session : Sessions(s)
        BY <4>2 DEF Sessions, InsertUser, FindUser, InsertContact, RecordFailure, CommitPrimary,
           CommitCode, LogCode, SendCode, CommitVerified, ResetLimit, CommitRoute, CommitCreated,
           CommitUpdated, Crash
      <4>3. CASE Deletions \/ Passes
        BY <4>3 DEF Deletions, Passes, DeleteRoute, DeleteContact, DeletePreference, DayPasses, Alert,
           Expire, HourPasses
      <4> QED  BY <4>1, <4>2, <4>3 DEF Step
    <3> QED  BY <3>1, <3>2, <3>3
  <2>2. Forgotten(u)
    BY <1>1, <2>1 DEF GoneIsForgotten
  <2> QED  BY <1>1, <2>2, StaysForgotten
<1>2. CASE user[u] # "deleted"
  <2>1. Anonymise(u)
    BY <1>2, UsersStay
  <2> QED  BY <2>1, AnonymiseForgets
<1> QED  BY <1>1, <1>2
------------------------------------------------------------------------------
(* The rate limits *)

\* A limit and those who were let through: the step of one session keeps the sum below it when
\* it adds to the one only what it takes from the other, or was let through by the limit.
LEMMA SumBelow ==
    ASSUME NEW n \in Nat, NEW m \in Nat, NEW limit \in Nat, IsFiniteSet(Session),
           NEW A \in SUBSET Session, NEW B \in SUBSET Session,
           n + Cardinality(A) < limit + Cardinality(Session),
           \/ m <= n /\ B \subseteq A
           \/ m <= n + 1 /\ \E s \in A : B \subseteq A \ {s}
           \/ m < limit
    PROVE  m + Cardinality(B) < limit + Cardinality(Session)
<1>1. /\ Cardinality(A) \in Nat /\ Cardinality(B) \in Nat /\ Cardinality(Session) \in Nat
      /\ Cardinality(B) <= Cardinality(Session)
      /\ B \subseteq A => Cardinality(B) <= Cardinality(A)
      /\ \A x \in A : B \subseteq A \ {x} => Cardinality(B) + 1 <= Cardinality(A)
  BY Counts
<1> QED  BY <1>1

LEMMA FailuresLimitedKept ==
    ASSUME IInv, Users, Requesters, FailuresLimited, Step
    PROVE  FailuresLimited'
<1> SUFFICES ASSUME NEW u \in User
             PROVE  failures'[u] + Cardinality(Adding(u)')
                      < ADD_CONTACT_FAILURE_RATE_LIMIT + Cardinality(Session)
  BY DEF FailuresLimited
<1> DEFINE L == ADD_CONTACT_FAILURE_RATE_LIMIT
<1>1. /\ Adding(u) \in SUBSET Session /\ Adding(u)' \in SUBSET Session /\ IsFiniteSet(Session)
      /\ L \in Nat
  BY UserAccountAssumption DEF Adding
<1>2. failures[u] \in Nat /\ failures'[u] \in Nat
  BY UsersKept DEF Users
<1>3. failures[u] + Cardinality(Adding(u)) < L + Cardinality(Session)
  BY DEF FailuresLimited
<1>4. ASSUME NEW s \in Session, s \in Adding(u)', s \notin Adding(u)
      PROVE  failures'[u] < L
  <2>1. /\ req'[s].op \in {"add", "conflict"} /\ req'[s].user = u
        /\ ~(req[s].op \in {"add", "conflict"} /\ req[s].user = u)
    BY <1>4 DEF Adding
  <2>2. req'[s] # req[s] /\ ~Continues(s, req'[s])
    BY <2>1 DEF Continues, Follows, Idle
  <2>3. Begins(s, req'[s])
    BY <2>2, WhoMoves
  <2>4. UNCHANGED failures /\ failures[u] < L
    BY <2>1, <2>3 DEF Begins, Allowed
  <2> QED  BY <2>4
<1>5. ASSUME NEW s \in Session, RecordFailure(s), req[s].user = u
      PROVE  failures'[u] <= failures[u] + 1 /\ s \in Adding(u) /\ s \notin Adding(u)'
  <2>1. failures'[u] = failures[u] + 1
    BY <1>5 DEF RecordFailure, Users
  <2>2. req'[s] = Idle /\ req[s].op = "conflict"
    BY <1>5, Moves DEF RecordFailure, Ends
  <2>3. Idle.op = "idle"
    BY DEF Idle
  <2> QED  BY <1>2, <1>5, <2>1, <2>2, <2>3 DEF Adding
<1>6. failures'[u] <= failures[u] \/ \E s \in Session : RecordFailure(s) /\ req[s].user = u
  <2>1. CASE UNCHANGED failures
    BY <1>2, <2>1
  <2>2. ASSUME NEW s \in Session, RecordFailure(s), req[s].user # u
        PROVE  failures'[u] <= failures[u]
    <3>1. failures'[u] = failures[u]
      BY <2>2 DEF RecordFailure, Users
    <3> QED  BY <1>2, <3>1
  <2>3. CASE \E v \in User : DayPasses(v)
    BY <1>2, <2>3 DEF DayPasses, Users
  <2>4. UNCHANGED failures \/ (\E s \in Session : RecordFailure(s)) \/ \E v \in User : DayPasses(v)
    <3>1. CASE \E s \in Session, r \in Requests : Begins(s, r)
      BY <3>1 DEF Begins
    <3>2. CASE \E s \in Session : Sessions(s)
      BY <3>2 DEF Sessions, InsertUser, FindUser, InsertContact, CommitPrimary,
         CommitCode, LogCode, SendCode, CommitVerified, ResetLimit, CommitRoute, CommitCreated,
         CommitUpdated, Crash
    <3>3. CASE Deletions \/ Passes
      BY <3>3 DEF Deletions, Passes, DeleteRoute, DeleteContact, DeletePreference, Alert, Anonymise,
         Expire, HourPasses
    <3> QED  BY <3>1, <3>2, <3>3 DEF Step
  <2> QED  BY <2>1, <2>2, <2>3, <2>4
<1> HIDE DEF L
<1>7. \/ failures'[u] <= failures[u] /\ Adding(u)' \subseteq Adding(u)
      \/ failures'[u] <= failures[u] + 1 /\ \E s \in Adding(u) : Adding(u)' \subseteq Adding(u) \ {s}
      \/ failures'[u] < L
  BY <1>1, <1>4, <1>5, <1>6
<1> QED  BY <1>1, <1>2, <1>3, <1>7, SumBelow DEF L

LEMMA CodesLimitedKept ==
    ASSUME IInv, CodesFit, CodesLimited, Step
    PROVE  CodesLimited'
<1> SUFFICES ASSUME NEW c \in Contact
             PROVE  Cardinality(LoggedOf(c)') + Cardinality(Coding(c)')
                      < VERIFICATION_CODE_RATE_LIMIT + Cardinality(Session)
  BY DEF CodesLimited
<1> DEFINE L == VERIFICATION_CODE_RATE_LIMIT
<1>1. /\ Coding(c) \in SUBSET Session /\ Coding(c)' \in SUBSET Session /\ IsFiniteSet(Session)
      /\ L \in Nat
  BY UserAccountAssumption DEF Coding
<1>2. /\ logged \subseteq DOMAIN codes /\ DOMAIN codes = 1 .. Len(codes) /\ Len(codes) \in Nat
  BY DEF CodesFit, IInv, Types
<1>3. IsFiniteSet(DOMAIN codes)
  BY <1>2, FS_Interval
<1>4. Cardinality(LoggedOf(c)) + Cardinality(Coding(c)) < L + Cardinality(Session)
  BY DEF CodesLimited
<1>5. logged' \subseteq logged \/ \E s \in Session : LogCode(s)
  <2>1. CASE \E s \in Session, r \in Requests : Begins(s, r)
    BY <2>1 DEF Begins
  <2>2. CASE \E s \in Session : Sessions(s)
    BY <2>2 DEF Sessions, InsertUser, FindUser, InsertContact, RecordFailure, CommitPrimary, ResetLimit,
       CommitCode, CommitRoute, CommitCreated, CommitUpdated, Crash, CommitVerified, SendCode
  <2>3. CASE Deletions \/ Passes
    BY <2>3 DEF Deletions, Passes, DeleteRoute, DeleteContact, DeletePreference, DayPasses, Alert,
       Anonymise, Expire, HourPasses
  <2> QED  BY <2>1, <2>2, <2>3 DEF Step
<1>6. LoggedOf(c) \in SUBSET DOMAIN codes
  BY <1>2 DEF LoggedOf
<1>7. ASSUME logged' \subseteq logged PROVE LoggedOf(c)' \subseteq LoggedOf(c)
  BY <1>2, <1>7, CodesStay DEF LoggedOf, CodeStays
<1>8. ASSUME NEW s \in Session, LogCode(s)
      PROVE  /\ req[s].code \in DOMAIN codes
             /\ LoggedOf(c)' \subseteq LoggedOf(c) \cup {req[s].code}
             /\ \/ LoggedOf(c)' \subseteq LoggedOf(c)
                \/ s \in Coding(c) /\ s \notin Coding(c)'
  <2>1. req[s].op = "log" /\ logged' = logged \cup {req[s].code} /\ UNCHANGED codes
    BY <1>8 DEF LogCode
  <2>2. req[s].code \in DOMAIN codes /\ codes[req[s].code].contact = req[s].contact
    BY <2>1 DEF IInv, RequestsAreTrue, Sound
  <2>3. PICK r : Continues(s, r) /\ r # Idle /\ r.op = "send"
    BY <1>8, <2>1, GoesContinues DEF LogCode
  <2>4. req'[s].op = "send"
    BY <2>3, Moves DEF Continues
  <2>5. CASE req[s].contact = c
    BY <2>1, <2>2, <2>4, <2>5 DEF LoggedOf, Coding
  <2>6. CASE req[s].contact # c
    BY <2>1, <2>2, <2>6 DEF LoggedOf
  <2> QED  BY <2>5, <2>6
<1>9. ASSUME NEW s \in Session, s \in Coding(c)', s \notin Coding(c)
      PROVE  Cardinality(LoggedOf(c)') < L
  <2>1. /\ req'[s].op \in {"code", "log"} /\ req'[s].contact = c
        /\ ~(req[s].op \in {"code", "log"} /\ req[s].contact = c)
    BY <1>9 DEF Coding
  <2>2. req'[s] # req[s] /\ ~Continues(s, req'[s])
    BY <2>1 DEF Continues, Follows, Idle
  <2>3. Begins(s, req'[s])
    BY <2>2, WhoMoves
  <2>4. UNCHANGED <<codes, logged>> /\ MayAsk(c)
    BY <2>1, <2>3 DEF Begins, Allowed
  <2>5. LoggedOf(c)' = LoggedOf(c) /\ Cardinality(LoggedOf(c)) < L
    BY <2>4 DEF MayAsk, LoggedOf
  <2> QED  BY <2>5
<1>10. /\ IsFiniteSet(LoggedOf(c)) /\ Cardinality(LoggedOf(c)) \in Nat
       /\ LoggedOf(c)' \in SUBSET DOMAIN codes /\ Cardinality(LoggedOf(c)') \in Nat
       /\ LoggedOf(c)' \subseteq LoggedOf(c) => Cardinality(LoggedOf(c)') <= Cardinality(LoggedOf(c))
       /\ \A i \in DOMAIN codes : LoggedOf(c)' \subseteq LoggedOf(c) \cup {i} =>
             Cardinality(LoggedOf(c)') <= Cardinality(LoggedOf(c)) + 1
  <2>1. LoggedOf(c)' \in SUBSET DOMAIN codes
    BY <1>5, <1>6, <1>7, <1>8
  <2> QED  BY <1>3, <1>6, <2>1, Counts
<1> HIDE DEF L
<1>11. \/ /\ Cardinality(LoggedOf(c)') <= Cardinality(LoggedOf(c))
          /\ Coding(c)' \subseteq Coding(c)
       \/ /\ Cardinality(LoggedOf(c)') <= Cardinality(LoggedOf(c)) + 1
          /\ \E s \in Coding(c) : Coding(c)' \subseteq Coding(c) \ {s}
       \/ Cardinality(LoggedOf(c)') < L
  <2>1. CASE ~(Coding(c)' \subseteq Coding(c))
    BY <1>1, <1>9, <2>1
  <2>2. CASE Coding(c)' \subseteq Coding(c) /\ LoggedOf(c)' \subseteq LoggedOf(c)
    BY <1>10, <2>2
  <2>3. CASE Coding(c)' \subseteq Coding(c) /\ ~(LoggedOf(c)' \subseteq LoggedOf(c))
    <3>1. PICK s \in Session : LogCode(s)
      BY <1>5, <1>7, <2>3
    <3>2. /\ s \in Coding(c) /\ Coding(c)' \subseteq Coding(c) \ {s}
          /\ Cardinality(LoggedOf(c)') <= Cardinality(LoggedOf(c)) + 1
      BY <1>8, <1>10, <2>3, <3>1
    <3> QED  BY <3>2
  <2> QED  BY <2>1, <2>2, <2>3
<1> QED  BY <1>1, <1>4, <1>10, <1>11, SumBelow DEF L

LEMMA SentAreLoggedKept ==
    ASSUME IInv, CodesFit, SentAreLogged, Step
    PROVE  SentAreLogged'
<1> SUFFICES ASSUME NEW s \in Session, req'[s].op = "send", codes'[req'[s].code].recent
             PROVE  req'[s].code \in logged'
  BY DEF SentAreLogged
<1>1. CASE req'[s] # req[s]
  <2>1. Sessions(s) /\ Continues(s, req'[s])
    BY <1>1, WhoMoves DEF Begins, Allowed
  <2>2. req[s].op = "log" /\ req'[s].code = req[s].code /\ req'[s] # Idle
    BY <2>1 DEF Continues, Follows, Idle
  <2>3. LogCode(s) \/ Crash(s)
    BY <2>1, <2>2 DEF Sessions, InsertUser, FindUser, InsertContact, RecordFailure, CommitPrimary,
       CommitCode, SendCode, CommitVerified, ResetLimit, CommitRoute, CommitCreated, CommitUpdated
  <2>4. LogCode(s)
    BY <2>2, <2>3, Moves DEF Crash, Ends
  <2> QED  BY <2>2, <2>4 DEF LogCode
<1>2. CASE req'[s] = req[s]
  <2> DEFINE i == req[s].code
  <2>1. i \in DOMAIN codes
    BY <1>2 DEF IInv, RequestsAreTrue, Sound
  <2>2. codes[i].recent
    BY <1>2, <2>1, CodesStay DEF CodeStays
  <2>3. i \in logged
    BY <1>2, <2>2 DEF SentAreLogged
  <2> HIDE DEF i
  <2>4. CASE logged \subseteq logged'
    BY <1>2, <2>3, <2>4 DEF i
  <2>5. ASSUME NEW t \in Session, ResetLimit(t), i \notin logged' PROVE FALSE
    <3>1. codes[i].contact = req[t].contact
      BY <2>3, <2>5 DEF ResetLimit
    <3>2. codes'[i] = [codes[i] EXCEPT !.recent = FALSE]
      BY <2>1, <2>5, <3>1 DEF ResetLimit
    <3>3. codes[i] \in CodeRows
      BY <2>1, CodeTypes
    <3>4. ~codes'[i].recent
      BY <3>2, <3>3 DEF CodeRows
    <3> QED  BY <1>2, <3>4 DEF i
  <2>6. ASSUME NEW j \in DOMAIN codes, HourPasses(j) PROVE i \in logged'
    <3>1. j # i
      BY <1>2, <2>6 DEF HourPasses, InFlight, i
    <3> QED  BY <2>3, <2>6, <3>1 DEF HourPasses
  <2>7. \/ logged \subseteq logged'
        \/ \E t \in Session : ResetLimit(t)
        \/ \E j \in DOMAIN codes : HourPasses(j)
    <3>1. CASE \E t \in Session, r \in Requests : Begins(t, r)
      BY <3>1 DEF Begins
    <3>2. CASE \E t \in Session : Sessions(t)
      BY <3>2 DEF Sessions, InsertUser, FindUser, InsertContact, RecordFailure, CommitPrimary, LogCode,
         CommitCode, CommitRoute, CommitCreated, CommitUpdated, Crash, CommitVerified, SendCode
    <3>3. CASE Deletions \/ Passes
      BY <3>3 DEF Deletions, Passes, DeleteRoute, DeleteContact, DeletePreference, DayPasses, Alert,
         Anonymise, Expire
    <3> QED  BY <3>1, <3>2, <3>3 DEF Step
  <2>8. i \in logged'
    BY <2>3, <2>4, <2>5, <2>6, <2>7
  <2> QED  BY <1>2, <2>8 DEF i
<1> QED  BY <1>1, <1>2
------------------------------------------------------------------------------
(* The races *)

LEMMA PromotionsSoundKept ==
    ASSUME IInv, PromotionsSound, Step
    PROVE  PromotionsSound'
<1> SUFFICES ASSUME NEW t \in Session, req'[t].op = "primary"
             PROVE  /\ Cardinality(req'[t].seen) <= 1
                    /\ \A c \in req'[t].seen \cup {req'[t].contact} :
                          c \in Contact /\ contact'[c].is # "free"
                    /\ contact'[req'[t].contact].is = "row" =>
                          contact'[req'[t].contact].user = req'[t].user
  BY DEF PromotionsSound
<1>1. CASE req'[t] = req[t]
  BY <1>1, RowsAreKept DEF RowsStay, PromotionsSound
<1>2. CASE Begins(t, req'[t])
  BY <1>2 DEF Begins, Allowed, Primaries, ContactsOf, IsContact
<1>3. CASE req'[t] # req[t] /\ Continues(t, req'[t])
  BY <1>3 DEF Continues, Follows, Idle
<1> QED  BY <1>1, <1>2, <1>3, WhoMoves

\* A request that makes a primary does so on its behalf.
LEMMA NewPrimary ==
    ASSUME IInv, PromotionsSound, Step, NEW u \in User, NEW k,
           NEW x \in Primaries(u, k)', x \notin Primaries(u, k)
    PROVE  \E s \in Promoting(u, k) :
               /\ InsertContact(s) \/ (CommitPrimary(s) /\ contact' # contact)
               /\ x = IF InsertContact(s) THEN New(contact) ELSE req[s].contact
<1>1. /\ x \in Contact /\ contact'[x].is = "row" /\ contact'[x].user = u
      /\ Kind[contact'[x].address] = k /\ contact'[x].primary
  BY DEF Primaries, ContactsOf, IsContact
<1>2. contact[x].is # "free" => x \in ContactsOf(u, k) /\ ~contact[x].primary
  BY <1>1, RowsAreKept DEF RowsStay, Primaries, ContactsOf, IsContact
<1>3. contact' # contact
  BY DEF Primaries, ContactsOf, IsContact
<1>4. ASSUME NEW s \in Session, CommitPrimary(s)
      PROVE  s \in Promoting(u, k) /\ ~InsertContact(s) /\ x = req[s].contact
  <2>1. contact[x].is = "row"
    BY <1>1, <1>4, MovedRows
  <2>2. contact' = Moved(req[s]) /\ req[s].op = "primary"
    BY <1>3, <1>4 DEF CommitPrimary
  <2>3. x = req[s].contact
    <3>1. SUFFICES ASSUME x # req[s].contact PROVE FALSE
      OBVIOUS
    <3>2. contact'[x] = [contact[x] EXCEPT !.primary = FALSE] \/ contact'[x] = contact[x]
      BY <1>1, <2>2, <3>1 DEF Moved
    <3>3. contact[x] \in Rows
      BY <1>1 DEF IInv, Types
    <3> QED  BY <1>1, <1>2, <2>1, <3>2, <3>3 DEF Rows
  <2>4. req[s].user = u
    <3>1. contact[x].user = req[s].user
      BY <2>1, <2>2, <2>3 DEF PromotionsSound
    <3> QED  BY <1>2, <2>1, <3>1 DEF ContactsOf, IsContact
  <2>5. s \in Promoting(u, k)
    BY <1>2, <2>1, <2>2, <2>3, <2>4 DEF Promoting
  <2> QED  BY <2>2, <2>3, <2>5 DEF InsertContact
<1>5. ASSUME NEW s \in Session, InsertContact(s)
      PROVE  s \in Promoting(u, k) /\ x = New(contact)
  <2>1. x = New(contact)
    <3>1. x # New(contact) => contact'[x] = contact[x]
      BY <1>1, <1>3, <1>5, InsertedRow
    <3> QED  BY <1>1, <1>2, <3>1
  <2>2. req[s].user = u /\ req[s].seen = {} /\ Kind[req[s].address] = k
    BY <1>1, <1>3, <1>5, <2>1, InsertedRow
  <2>3. req[s].op = "add"
    BY <1>5 DEF InsertContact
  <2> QED  BY <2>1, <2>2, <2>3 DEF Promoting
<1>6. ASSUME NEW s \in Session, CommitVerified(s) PROVE FALSE
  BY <1>1, <1>2, <1>6, VerifiedRows
<1>7. ASSUME NEW gone \in SUBSET Contact, contact' = Without(gone) PROVE FALSE
  <2>1. contact'[x] = contact[x]
    BY <1>1, <1>7, WithoutStay
  <2> QED  BY <1>1, <1>2, <2>1
<1>8. \/ \E s \in Session : CommitPrimary(s) \/ CommitVerified(s) \/ InsertContact(s)
      \/ \E gone \in SUBSET Contact : contact' = Without(gone)
  <2>1. CASE \E s \in Session, r \in Requests : Begins(s, r)
    BY <1>3, <2>1 DEF Begins
  <2>2. CASE \E s \in Session : Sessions(s)
    BY <1>3, <2>2 DEF Sessions, InsertUser, FindUser, RecordFailure, CommitCode, LogCode, SendCode,
       ResetLimit, CommitRoute, CommitCreated, CommitUpdated, Crash
  <2>3. CASE \E s \in Session, c \in Contact : DeleteContact(s, c)
    <3>1. PICK c \in Contact : contact' = Without({c})
      BY <2>3 DEF DeleteContact
    <3>2. {c} \in SUBSET Contact
      OBVIOUS
    <3> QED  BY <3>1, <3>2
  <2>4. CASE \E v \in User : Anonymise(v)
    <3>1. PICK v \in User : contact' = Without({c \in Contact : IsContact(c, v)})
      BY <2>4 DEF Anonymise
    <3>2. {c \in Contact : IsContact(c, v)} \in SUBSET Contact
      OBVIOUS
    <3> QED  BY <3>1, <3>2
  <2>5. CASE Deletions \/ Passes
    BY <1>3, <2>3, <2>4, <2>5 DEF Deletions, Passes, DeleteRoute, DeletePreference, DayPasses, Alert,
       Expire, HourPasses
  <2> QED  BY <2>1, <2>2, <2>5 DEF Step
<1>9. \A s \in Promoting(u, k) : s \in Session
  BY DEF Promoting
<1> QED  BY <1>3, <1>4, <1>5, <1>6, <1>7, <1>8

LEMMA PrimariesBoundedKept ==
    ASSUME IInv, PromotionsSound, PrimariesBounded, Step
    PROVE  PrimariesBounded'
<1> SUFFICES ASSUME NEW u \in User, NEW k \in {"email", "sms"}
             PROVE  Cardinality((Primaries(u, k) \ Taken(u, k))') + Cardinality(Promoting(u, k)')
                      <= Cardinality(Session)
  BY DEF PrimariesBounded
<1> DEFINE left == Primaries(u, k) \ Taken(u, k)
           D == Promoting(u, k)
<1>1. /\ D \in SUBSET Session /\ D' \in SUBSET Session /\ IsFiniteSet(Session)
      /\ left \in SUBSET Contact /\ left' \in SUBSET Contact /\ IsFiniteSet(Contact)
  BY UserAccountAssumption DEF Promoting, Primaries, ContactsOf
<1>2. ASSUME NEW s \in Session, Begins(s, req'[s]), s \in D' PROVE left' = {}
  <2>1. UNCHANGED contact /\ req'[s].user = u
    BY <1>2 DEF Begins, Promoting
  <2>2. Primaries(u, k)' \subseteq ContactsOf(u, k) /\ Primaries(u, k)' = Primaries(u, k)
    BY <2>1 DEF Primaries, ContactsOf, IsContact
  <2>3. CASE req'[s].op = "add"
    <3>1. ContactsOf(u, k) = {}
      BY <1>2, <2>1, <2>3 DEF Begins, Allowed, Promoting
    <3> QED  BY <2>2, <3>1
  <2>4. CASE req'[s].op = "primary"
    <3> DEFINE kind == Kind[contact[req'[s].contact].address]
    <3>1. /\ req'[s].seen = Primaries(u, kind) /\ req'[s].contact \in ContactsOf(u, kind)
      BY <1>2, <2>1, <2>4 DEF Begins, Allowed, ContactsOf
    <3>2. PICK c \in req'[s].seen \cup {req'[s].contact} : c \in ContactsOf(u, k)'
      BY <1>2, <2>4 DEF Promoting
    <3>3. c \in ContactsOf(u, k) /\ c \in ContactsOf(u, kind)
      BY <2>1, <3>1, <3>2 DEF Primaries, ContactsOf, IsContact
    <3>4. kind = k
      BY <3>3 DEF ContactsOf
    <3>5. Primaries(u, k) \subseteq req'[s].seen
      BY <3>1, <3>4
    <3>6. Primaries(u, k) \subseteq Taken(u, k)'
      BY <1>2, <3>5 DEF Taken, Primaries, ContactsOf
    <3> QED  BY <2>2, <3>6
  <2> QED  BY <1>2, <2>3, <2>4 DEF Promoting
<1>3. ASSUME NEW s \in Session, Begins(s, req'[s]), s \notin D' PROVE D' \subseteq D /\ left' \subseteq left
  <2>1. /\ UNCHANGED contact /\ req[s] = Idle
        /\ \A t \in Session : t # s => req'[t] = req[t]
    BY <1>3, Moves DEF Begins
  <2>2. s \notin D
    BY <2>1 DEF Promoting, Idle
  <2>3. D' = D
    BY <1>3, <2>1, <2>2 DEF Promoting, ContactsOf, IsContact
  <2>4. \A t \in D : t \in D' /\ req'[t] = req[t]
    BY <1>1, <2>1, <2>2, <2>3
  <2>5. Taken(u, k) \subseteq Taken(u, k)'
    BY <2>4 DEF Taken
  <2>6. Primaries(u, k)' = Primaries(u, k)
    BY <2>1 DEF Primaries, ContactsOf, IsContact
  <2> QED  BY <2>3, <2>5, <2>6
\* Whoever was promoting and is no more has moved, or nothing it took is primary.
<1>4. ASSUME \A s \in Session : ~Begins(s, req'[s])
      PROVE  /\ D' \subseteq D
             /\ \A t \in D : \/ t \in D'
                             \/ req'[t] # req[t] /\ Sessions(t) /\ Continues(t, req'[t])
                             \/ req[t].seen \cap Primaries(u, k)' = {}
             /\ \A t \in D' : req'[t] = req[t]
  <2>1. ASSUME NEW t \in D' PROVE req'[t] = req[t] /\ t \in D
    <3>1. t \in Session /\ req'[t].op \in {"add", "primary"}
      BY <2>1 DEF Promoting
    <3>2. ~Continues(t, req'[t]) \/ req'[t] = req[t]
      BY <3>1 DEF Continues, Follows, Idle
    <3>3. req'[t] = req[t]
      BY <1>4, <3>1, <3>2, WhoMoves
    <3>4. ASSUME NEW c \in Contact, c \in ContactsOf(u, k)', contact[c].is # "free"
          PROVE  c \in ContactsOf(u, k)
      BY <3>4, RowsAreKept DEF RowsStay, ContactsOf, IsContact
    <3>5. req[t].op = "primary" =>
            \A c \in req[t].seen \cup {req[t].contact} : c \in Contact /\ contact[c].is # "free"
      BY <3>1 DEF PromotionsSound
    <3>6. t \in D
      BY <2>1, <3>1, <3>3, <3>4, <3>5 DEF Promoting
    <3> QED  BY <3>3, <3>6
  <2>2. ASSUME NEW t \in D, t \notin D', req'[t] = req[t]
        PROVE  req[t].seen \cap Primaries(u, k)' = {}
    BY <2>2 DEF Promoting, Primaries
  <2>3. ASSUME NEW t \in D, req'[t] # req[t]
        PROVE  Sessions(t) /\ Continues(t, req'[t])
    BY <1>1, <1>4, <2>3, WhoMoves
  <2> QED  BY <2>1, <2>2, <2>3
<1>5. ASSUME \A s \in Session : ~Begins(s, req'[s]), \A t \in D : req'[t] = req[t]
      PROVE  left' \subseteq left
  <2>1. ASSUME NEW x \in left' PROVE x \in Primaries(u, k)
    <3>1. SUFFICES ASSUME x \notin Primaries(u, k) PROVE FALSE
      OBVIOUS
    <3>2. PICK s \in D : InsertContact(s) \/ (CommitPrimary(s) /\ contact' # contact)
      BY <3>1, NewPrimary
    <3>3. s \in Session /\ req[s].op \in {"add", "primary"}
      BY <3>2 DEF Promoting
    <3>4. PICK r : Continues(s, r)
      BY <3>2, <3>3, Continuations
    <3>5. r.op \notin {"add", "primary"}
      BY <3>3, <3>4 DEF Continues, Follows, Idle
    <3>6. req'[s] = r
      BY <3>3, <3>4, Moves DEF Continues
    <3> QED  BY <1>5, <3>2, <3>3, <3>5, <3>6
  <2>2. ASSUME NEW x \in left', NEW t \in D, x \in req[t].seen PROVE FALSE
    <3>1. t \in D'
      BY <1>4, <1>5, <2>2
    <3> QED  BY <1>1, <1>5, <2>2, <3>1 DEF Taken
  <2> QED  BY <2>1, <2>2 DEF Taken
\* The one that moves makes one primary or gives up one, not both.
<1>6. ASSUME \A s \in Session : ~Begins(s, req'[s]), NEW s \in D, req'[s] # req[s]
      PROVE  s \notin D' /\ \A x, y \in left' \ left : x = y
  <2>1. Sessions(s) /\ Continues(s, req'[s]) /\ s \in Session /\ s \notin D'
    BY <1>1, <1>4, <1>6, WhoMoves
  <2>2. \A t \in Session : t # s => req'[t] = req[t]
    BY <2>1, Moves DEF Continues
  <2>3. ASSUME NEW x \in left' \ left, x \notin Primaries(u, k)
        PROVE  /\ InsertContact(s) \/ (CommitPrimary(s) /\ contact' # contact)
               /\ x = IF InsertContact(s) THEN New(contact) ELSE req[s].contact
    <3>1. PICK q \in D : /\ InsertContact(q) \/ (CommitPrimary(q) /\ contact' # contact)
                         /\ x = IF InsertContact(q) THEN New(contact) ELSE req[q].contact
      BY <2>3, NewPrimary
    <3>2. q \in Session /\ req[q].op \in {"add", "primary"}
      BY <3>1 DEF Promoting
    <3>3. PICK r : Continues(q, r)
      BY <3>1, <3>2, Continuations
    <3>4. r.op \notin {"add", "primary"} /\ req'[q] = r
      <4>1. r.op \notin {"add", "primary"}
        BY <3>2, <3>3 DEF Continues, Follows, Idle
      <4>2. req'[q] = r
        BY <3>2, <3>3, Moves DEF Continues
      <4> QED  BY <4>1, <4>2
    <3>5. q = s
      BY <2>2, <3>2, <3>4
    <3> QED  BY <3>1, <3>5
  <2>4. ASSUME NEW x \in left' \ left, x \in Primaries(u, k)
        PROVE  x \in req[s].seen
    <3>1. PICK t \in D : x \in req[t].seen
      BY <2>4 DEF Taken, Promoting
    <3>2. t \notin D'
      <4>1. SUFFICES ASSUME t \in D' PROVE FALSE
        OBVIOUS
      <4>2. x \in req'[t].seen /\ x \in Contact
        BY <1>1, <1>4, <1>6, <3>1, <4>1
      <4>3. x \in Taken(u, k)'
        BY <4>1, <4>2 DEF Taken
      <4> QED  BY <4>3
    <3>3. req'[t] # req[t]
      BY <1>4, <1>6, <3>1, <3>2
    <3> QED  BY <1>1, <2>2, <3>1, <3>3
  <2>5. /\ req[s].op \in {"add", "primary"}
        /\ req[s].op = "add" => req[s].seen = {}
    BY DEF Promoting
  <2>6. ASSUME NEW x \in req[s].seen, NEW y \in req[s].seen PROVE x = y
    <3>1. Cardinality(req[s].seen) <= 1 /\ req[s].seen \in SUBSET Contact
      BY <2>1, <2>5 DEF PromotionsSound
    <3>2. IsFiniteSet(req[s].seen) /\ Cardinality(req[s].seen) \in Nat
      BY <1>1, <3>1, FS_Subset, FS_CardinalityType
    <3>3. Cardinality(req[s].seen) # 0
      BY <3>2, FS_EmptySet
    <3>4. Cardinality(req[s].seen) = 1
      BY <3>1, <3>2, <3>3
    <3> QED  BY <3>2, <3>4, FS_Singleton
  <2>7. ASSUME NEW x \in left' \ left, NEW y \in left' \ left,
               x \notin Primaries(u, k), y \in Primaries(u, k)
        PROVE  x = y
    <3>1. y \in req[s].seen /\ req[s].op = "primary"
      BY <2>4, <2>5, <2>7
    <3>2. ~InsertContact(s)
      BY <3>1 DEF InsertContact
    <3>3. CommitPrimary(s) /\ contact' # contact /\ x = req[s].contact
      BY <2>3, <2>7, <3>2
    <3>4. contact' = Moved(req[s])
      BY <3>3 DEF CommitPrimary
    <3>5. y \in Contact /\ contact'[y].primary /\ contact[y].is = "row"
      BY <1>1, <2>7 DEF Primaries, ContactsOf, IsContact
    <3>6. y # req[s].contact => contact'[y] = [contact[y] EXCEPT !.primary = FALSE]
      BY <3>1, <3>4, <3>5 DEF Moved
    <3>7. contact[y] \in Rows
      BY <3>5 DEF IInv, Types
    <3> QED  BY <3>3, <3>5, <3>6, <3>7 DEF Rows
  <2> QED  BY <2>1, <2>3, <2>4, <2>6, <2>7
<1>7. /\ Cardinality(left) \in Nat /\ Cardinality(left') \in Nat
      /\ left' \subseteq left => Cardinality(left') <= Cardinality(left)
      /\ \A e \in Contact : left' \subseteq left \cup {e} => Cardinality(left') <= Cardinality(left) + 1
  <2> HIDE DEF left
  <2> QED  BY <1>1, Counts
<1>8. Cardinality(left) + Cardinality(D) < 1 + Cardinality(Session)
  <2>1. Cardinality(left) + Cardinality(D) <= Cardinality(Session)
    BY DEF PrimariesBounded
  <2>2. Cardinality(D) \in Nat /\ Cardinality(Session) \in Nat
    BY <1>1, Counts
  <2> HIDE DEF left, D
  <2> QED  BY <1>7, <2>1, <2>2
<1>9. left' = {} => Cardinality(left') < 1
  BY FS_EmptySet
<1> HIDE DEF left, D
<1>10. \/ Cardinality(left') <= Cardinality(left) /\ D' \subseteq D
       \/ Cardinality(left') <= Cardinality(left) + 1 /\ \E s \in D : D' \subseteq D \ {s}
       \/ Cardinality(left') < 1
  <2>1. CASE \E s \in Session : Begins(s, req'[s])
    BY <1>2, <1>3, <1>7, <1>9, <2>1
  <2>2. CASE (\A s \in Session : ~Begins(s, req'[s])) /\ \A t \in D : req'[t] = req[t]
    BY <1>4, <1>5, <1>7, <2>2
  <2>3. ASSUME \A s \in Session : ~Begins(s, req'[s]), NEW s \in D, req'[s] # req[s]
        PROVE  Cardinality(left') <= Cardinality(left) + 1 /\ D' \subseteq D \ {s}
    <3>1. D' \subseteq D \ {s} /\ \A x, y \in left' \ left : x = y
      BY <1>4, <1>6, <2>3
    <3>2. CASE left' \subseteq left
      BY <1>7, <3>1, <3>2
    <3>3. CASE ~(left' \subseteq left)
      <4>1. PICK e \in left' : e \notin left
        BY <3>3
      <4>2. left' \subseteq left \cup {e} /\ e \in Contact
        BY <1>1, <3>1, <4>1
      <4> QED  BY <1>7, <3>1, <4>2
    <3> QED  BY <3>2, <3>3
  <2> QED  BY <2>1, <2>2, <2>3
<1>11. Cardinality(left') + Cardinality(D') < 1 + Cardinality(Session)
  BY <1>1, <1>7, <1>8, <1>10, SumBelow
<1>12. Cardinality(D') \in Nat /\ Cardinality(Session) \in Nat
  BY <1>1, Counts
<1> QED  BY <1>7, <1>11, <1>12 DEF left, D

LEMMA PrefsBoundedKept ==
    ASSUME IInv, ContactsNamed, PrefsBounded, Step
    PROVE  PrefsBounded'
<1> SUFFICES ASSUME NEW u \in User
             PROVE  Cardinality(ActivePrefs(u)') + Cardinality(Preferring(u)')
                      < MAX_NOTIFICATION_PREFERENCES_PER_ROUTE + Cardinality(Session)
  BY DEF PrefsBounded
<1> DEFINE L == MAX_NOTIFICATION_PREFERENCES_PER_ROUTE
           A == ActivePrefs(u)
           D == Preferring(u)
<1>1. /\ D \in SUBSET Session /\ D' \in SUBSET Session /\ IsFiniteSet(Session) /\ L \in Nat
      /\ A \in SUBSET Preference /\ A' \in SUBSET Preference /\ IsFiniteSet(Preference)
  BY UserAccountAssumption DEF Preferring, ActivePrefs, PrefsOf
<1>2. ASSUME NEW s \in Session, s \in D', s \notin D
      PROVE  Cardinality(A') < L
  <2>1. req'[s].op = "prefer" /\ req'[s].user = u /\ req'[s] # req[s]
    BY <1>2 DEF Preferring
  <2>2. Begins(s, req'[s])
    BY <2>1, WhoMoves DEF Continues, Follows, Idle
  <2>3. UNCHANGED pref /\ Cardinality(A) < L
    BY <2>1, <2>2 DEF Begins, Allowed
  <2>4. A' = A
    BY <2>3 DEF ActivePrefs, PrefsOf
  <2> QED  BY <2>3, <2>4
<1>3. CASE \A p \in Preference : Fewer(p)
  <2>1. A' \subseteq A
    BY <1>3 DEF ActivePrefs, PrefsOf, Fewer, NoPref
  <2> QED  BY <1>1, <1>2, <2>1, Counts, SumBelow DEF PrefsBounded
<1>4. ASSUME NEW s \in Session, CommitCreated(s), pref' # pref
      PROVE  /\ \/ A' \subseteq A
                \/ s \in D /\ s \notin D'
             /\ A' \subseteq A \cup {New(pref)} /\ New(pref) \in Preference
  <2>1. /\ New(pref) \in Preference /\ pref'[New(pref)].user = req[s].user
        /\ \A p \in Preference : p # New(pref) => pref'[p] = pref[p]
        /\ req[s].op = "prefer" /\ Ends(s)
    BY <1>4, CreatedPref
  <2>2. A' \subseteq A \cup {New(pref)}
    BY <2>1 DEF ActivePrefs, PrefsOf
  <2>3. req'[s] = Idle /\ Idle.op # "prefer"
    BY <2>1, Moves DEF Ends, Idle
  <2>4. s \notin D'
    BY <2>3 DEF Preferring
  <2>5. req[s].user # u => A' \subseteq A
    BY <2>1 DEF ActivePrefs, PrefsOf
  <2> QED  BY <2>1, <2>2, <2>4, <2>5 DEF Preferring
<1>5. ASSUME NEW s \in Session, CommitUpdated(s), pref' # pref PROVE A' \subseteq A
  BY <1>5, UpdatedPref DEF ActivePrefs, PrefsOf
<1>6. /\ Cardinality(A) \in Nat /\ Cardinality(A') \in Nat
      /\ A' \subseteq A => Cardinality(A') <= Cardinality(A)
      /\ \A p \in Preference : A' \subseteq A \cup {p} => Cardinality(A') <= Cardinality(A) + 1
  <2> HIDE DEF A
  <2> QED  BY <1>1, Counts
<1>7. Cardinality(A) + Cardinality(D) < L + Cardinality(Session)
  BY DEF PrefsBounded
<1>8. A' \subseteq A \/ \E s \in Session : CommitCreated(s) /\ pref' # pref
  <2>1. (\A p \in Preference : Fewer(p)) => A' \subseteq A
    BY DEF ActivePrefs, PrefsOf, Fewer, NoPref
  <2> QED  BY <1>5, <2>1, PrefsChange
<1> HIDE DEF L, A, D
<1>9. \/ Cardinality(A') <= Cardinality(A) /\ D' \subseteq D
      \/ Cardinality(A') <= Cardinality(A) + 1 /\ \E s \in D : D' \subseteq D \ {s}
      \/ Cardinality(A') < L
  <2>1. CASE ~(D' \subseteq D)
    BY <1>1, <1>2, <2>1
  <2>2. CASE D' \subseteq D /\ A' \subseteq A
    BY <1>6, <2>2
  <2>3. CASE D' \subseteq D /\ ~(A' \subseteq A)
    <3>1. PICK s \in Session : CommitCreated(s) /\ pref' # pref
      BY <1>8, <2>3
    <3>2. /\ s \in D /\ D' \subseteq D \ {s} /\ Cardinality(A') <= Cardinality(A) + 1
      BY <1>4, <1>6, <2>3, <3>1
    <3> QED  BY <3>2
  <2> QED  BY <2>1, <2>2, <2>3
<1> QED  BY <1>1, <1>6, <1>7, <1>9, SumBelow DEF L, A, D

LEMMA NamesBoundedKept ==
    ASSUME IInv, ContactsNamed, Users, PrefsOwned, ChoicesOwned, NamesBounded, Step
    PROVE  NamesBounded'
<1> SUFFICES ASSUME NEW u \in User, NEW c \in Contact
             PROVE  Cardinality(Naming(u, c)') + Cardinality(Choosing(u, c)') <= Cardinality(Session)
  BY DEF NamesBounded
<1> DEFINE A == Naming(u, c)
           D == Choosing(u, c)
<1>1. /\ D \in SUBSET Session /\ D' \in SUBSET Session /\ IsFiniteSet(Session)
      /\ A \in SUBSET Preference /\ A' \in SUBSET Preference /\ IsFiniteSet(Preference)
  BY UserAccountAssumption DEF Choosing, Naming, ActivePrefs, PrefsOf
<1>2. ASSUME NEW s \in Session, s \in D', s \notin D
      PROVE  A' = {}
  <2>1. /\ req'[s].op \in {"prefer", "move"} /\ req'[s].user = u /\ req'[s].contact = c
        /\ req'[s] # req[s]
    BY <1>2 DEF Choosing
  <2>2. Begins(s, req'[s])
    BY <2>1, WhoMoves DEF Continues, Follows, Idle
  <2>3. UNCHANGED pref /\ A = {}
    BY <2>1, <2>2 DEF Begins, Allowed
  <2> QED  BY <2>3 DEF Naming, ActivePrefs, PrefsOf
\* Only a commit names the contact anew, for the user and the contact of its request.
<1>3. ASSUME NEW s \in Session, NEW q \in Preference, req[s].op \in {"prefer", "move"}, Ends(s),
             \A p \in Preference : p # q => pref'[p] = pref[p],
             pref'[q].user = req[s].user, pref'[q].contact = req[s].contact
      PROVE  /\ \/ A' \subseteq A
                \/ s \in D /\ s \notin D'
             /\ A' \subseteq A \cup {q}
  <2>1. A' \subseteq A \cup {q}
    BY <1>3 DEF Naming, ActivePrefs, PrefsOf
  <2>2. req'[s] = Idle /\ Idle.op \notin {"prefer", "move"}
    BY <1>3, Moves DEF Ends, Idle
  <2>3. s \notin D'
    BY <2>2 DEF Choosing
  <2>4. ~(req[s].user = u /\ req[s].contact = c) => A' \subseteq A
    BY <1>3 DEF Naming, ActivePrefs, PrefsOf
  <2> QED  BY <1>3, <2>1, <2>3, <2>4 DEF Choosing
<1>4. ASSUME NEW s \in Session, CommitCreated(s) \/ CommitUpdated(s), pref' # pref
      PROVE  \E q \in Preference : /\ A' \subseteq A \/ (s \in D /\ s \notin D')
                                   /\ A' \subseteq A \cup {q}
  <2>1. CASE CommitCreated(s)
    BY <1>3, <1>4, <2>1, CreatedPref
  <2>2. CASE CommitUpdated(s)
    <3>1. /\ req[s].pref \in Preference /\ pref[req[s].pref].is # "free"
          /\ pref'[req[s].pref].user = pref[req[s].pref].user
          /\ contact[req[s].contact].is = "row" /\ req[s].op = "move"
      BY <1>4, <2>2, UpdatedPref
    <3>2. pref[req[s].pref].user \in Live /\ req[s].user \in Live
      BY <3>1 DEF PrefsOwned, ChoicesOwned
    <3>3. pref'[req[s].pref].user = req[s].user
      BY <3>1, <3>2 DEF Users
    <3> QED  BY <1>3, <1>4, <2>2, <3>1, <3>3, UpdatedPref
  <2> QED  BY <1>4, <2>1, <2>2
<1>5. (\A p \in Preference : Fewer(p)) => A' \subseteq A
  BY DEF Naming, ActivePrefs, PrefsOf, Fewer, NoPref
<1>6. /\ Cardinality(A) \in Nat /\ Cardinality(A') \in Nat
      /\ A' \subseteq A => Cardinality(A') <= Cardinality(A)
      /\ \A p \in Preference : A' \subseteq A \cup {p} => Cardinality(A') <= Cardinality(A) + 1
  <2> HIDE DEF A
  <2> QED  BY <1>1, Counts
<1>7. Cardinality(D) \in Nat /\ Cardinality(D') \in Nat /\ Cardinality(Session) \in Nat
  <2> HIDE DEF D
  <2> QED  BY <1>1, Counts
<1>8. Cardinality(A) + Cardinality(D) <= Cardinality(Session)
  BY DEF NamesBounded
<1> HIDE DEF A, D
<1>9. Cardinality(A) + Cardinality(D) < 1 + Cardinality(Session)
  BY <1>6, <1>7, <1>8
<1>10. \/ Cardinality(A') <= Cardinality(A) /\ D' \subseteq D
       \/ Cardinality(A') <= Cardinality(A) + 1 /\ \E s \in D : D' \subseteq D \ {s}
       \/ Cardinality(A') < 1
  <2>1. CASE ~(D' \subseteq D)
    BY <1>1, <1>2, <2>1, FS_EmptySet
  <2>2. CASE D' \subseteq D /\ A' \subseteq A
    BY <1>6, <2>2
  <2>3. CASE D' \subseteq D /\ ~(A' \subseteq A)
    <3>1. PICK s \in Session : (CommitCreated(s) \/ CommitUpdated(s)) /\ pref' # pref
      BY <1>5, <2>3, PrefsChange
    <3>2. /\ s \in D /\ D' \subseteq D \ {s} /\ Cardinality(A') <= Cardinality(A) + 1
      BY <1>4, <1>6, <2>3, <3>1
    <3> QED  BY <3>2
  <2> QED  BY <2>1, <2>2, <2>3
<1>11. Cardinality(A') + Cardinality(D') < 1 + Cardinality(Session)
  BY <1>1, <1>6, <1>9, <1>10, SumBelow
<1> QED  BY <1>6, <1>7, <1>11 DEF A, D

\* Those that were taken are at most as many as the requests that took them.
LEMMA PrimariesAtMost ==
    ASSUME IInv, PromotionsSound, PrimariesBounded, NEW u \in User, NEW k \in {"email", "sms"}
    PROVE  Cardinality(Primaries(u, k)) <= Cardinality(Session)
<1> DEFINE P == Primaries(u, k)
           T == Taken(u, k)
           D == Promoting(u, k)
           E == {t \in D : req[t].seen # {}}
           f == [t \in E |-> CHOOSE c : c \in req[t].seen]
<1>1. /\ D \in SUBSET Session /\ E \in SUBSET D /\ IsFiniteSet(Session)
      /\ P \in SUBSET Contact /\ T \in SUBSET Contact /\ IsFiniteSet(Contact)
  BY UserAccountAssumption DEF Promoting, Primaries, ContactsOf, Taken
<1>2. ASSUME NEW t \in E, NEW c \in req[t].seen
      PROVE  f[t] = c
  <2>1. t \in Session /\ req[t].op = "primary"
    BY <1>2 DEF Promoting
  <2>2. Cardinality(req[t].seen) <= 1 /\ req[t].seen \in SUBSET Contact
    BY <2>1 DEF PromotionsSound
  <2>3. IsFiniteSet(req[t].seen) /\ Cardinality(req[t].seen) \in Nat
    BY <1>1, <2>2, FS_Subset, FS_CardinalityType
  <2>4. Cardinality(req[t].seen) # 0
    BY <1>2, <2>3, FS_EmptySet
  <2>5. Cardinality(req[t].seen) = 1
    BY <2>2, <2>3, <2>4
  <2>6. PICK x : req[t].seen = {x}
    BY <2>3, <2>5, FS_Singleton
  <2> QED  BY <1>2, <2>6
<1>3. f \in Surjection(E, T)
  <2>1. ASSUME NEW t \in E PROVE f[t] \in T
    <3>1. PICK c \in Contact : c \in req[t].seen
      BY <1>1, <2>1 DEF IInv, Types, Requests
    <3> QED  BY <1>2, <2>1, <3>1 DEF Taken
  <2>2. ASSUME NEW c \in T PROVE \E t \in E : f[t] = c
    BY <1>2, <2>2 DEF Taken
  <2>3. f \in [E -> T]
    BY <2>1
  <2> HIDE DEF f, E
  <2> QED  BY <2>2, <2>3 DEF Surjection
<1> HIDE DEF P, T, D, E, f
<1>4. IsFiniteSet(E) /\ Cardinality(E) <= Cardinality(D) /\ Cardinality(D) \in Nat /\ Cardinality(E) \in Nat
  BY <1>1, FS_Subset, FS_CardinalityType
<1>5. IsFiniteSet(T) /\ Cardinality(T) <= Cardinality(E) /\ Cardinality(T) \in Nat
  BY <1>3, <1>4, FS_Surjection, FS_CardinalityType
<1>6. /\ IsFiniteSet(P) /\ IsFiniteSet(P \ T) /\ Cardinality(P) \in Nat /\ Cardinality(P \ T) \in Nat
      /\ Cardinality(P \ T) = Cardinality(P) - Cardinality(P \cap T)
  BY <1>1, FS_Subset, FS_CardinalityType, FS_Difference
<1>7. Cardinality(P \cap T) <= Cardinality(T) /\ Cardinality(P \cap T) \in Nat
  BY <1>5, FS_Intersection, FS_CardinalityType
<1>8. Cardinality(P \ T) + Cardinality(D) <= Cardinality(Session)
  BY DEF PrimariesBounded, P, T, D
<1>9. Cardinality(Session) \in Nat
  BY <1>1, FS_CardinalityType
<1>10. Cardinality(P) <= Cardinality(Session)
  BY <1>4, <1>5, <1>6, <1>7, <1>8, <1>9
<1> QED  BY <1>10 DEF P

\* The codes that count are those of the log and those whose log is to be written.
LEMMA CodesAtMost ==
    ASSUME IInv, CodesFit, CodesLimited, SentAreLogged, NEW c \in Contact
    PROVE  Cardinality({i \in DOMAIN codes : /\ codes[i].contact = c /\ codes[i].recent
                                             /\ i \in logged \/ InFlight(i)})
             < VERIFICATION_CODE_RATE_LIMIT + Cardinality(Session)
<1> DEFINE N == {i \in DOMAIN codes : /\ codes[i].contact = c /\ codes[i].recent
                                      /\ i \in logged \/ InFlight(i)}
           G == LoggedOf(c)
           D == Coding(c)
           E == {s \in D : req[s].op = "log"}
           W == {i \in DOMAIN codes : \E s \in E : req[s].code = i}
           f == [s \in E |-> req[s].code]
<1>1. /\ D \in SUBSET Session /\ E \in SUBSET D /\ IsFiniteSet(Session)
      /\ G \in SUBSET DOMAIN codes /\ DOMAIN codes = 1 .. Len(codes) /\ Len(codes) \in Nat
  BY UserAccountAssumption DEF Coding, LoggedOf, CodesFit, IInv, Types
<1>2. IsFiniteSet(DOMAIN codes)
  BY <1>1, FS_Interval
<1>3. N \subseteq G \cup W
  <2> SUFFICES ASSUME NEW i \in N, i \notin G PROVE i \in W
    OBVIOUS
  <2>1. i \notin logged
    BY DEF LoggedOf
  <2>2. PICK s \in Session : req[s].op \in {"log", "send"} /\ req[s].code = i
    BY <2>1 DEF InFlight
  <2>3. req[s].op = "log"
    BY <2>1, <2>2 DEF SentAreLogged
  <2>4. codes[req[s].code].contact = req[s].contact
    BY <2>3 DEF IInv, RequestsAreTrue, Sound
  <2>5. s \in E
    BY <2>2, <2>3, <2>4 DEF Coding
  <2> QED  BY <2>2, <2>5
<1>4. f \in Surjection(E, W)
  <2>1. ASSUME NEW s \in E PROVE req[s].code \in W
    <3>1. s \in Session /\ req[s].op = "log"
      BY <1>1
    <3>2. req[s].code \in DOMAIN codes
      BY <3>1 DEF IInv, RequestsAreTrue, Sound
    <3> QED  BY <3>2
  <2>2. f \in [E -> W]
    BY <2>1
  <2>3. ASSUME NEW i \in W PROVE \E s \in E : f[s] = i
    OBVIOUS
  <2> HIDE DEF f, E, W
  <2> QED  BY <2>2, <2>3 DEF Surjection
<1>5. W \in SUBSET DOMAIN codes
  OBVIOUS
<1> HIDE DEF N, G, D, E, W, f
<1>6. IsFiniteSet(E) /\ Cardinality(E) <= Cardinality(D) /\ Cardinality(D) \in Nat /\ Cardinality(E) \in Nat
  BY <1>1, FS_Subset, FS_CardinalityType
<1>7. IsFiniteSet(W) /\ Cardinality(W) <= Cardinality(E) /\ Cardinality(W) \in Nat
  BY <1>4, <1>6, FS_Surjection, FS_CardinalityType
<1>8. IsFiniteSet(G) /\ Cardinality(G) \in Nat
  BY <1>1, <1>2, FS_Subset, FS_CardinalityType
<1>9. /\ IsFiniteSet(G \cup W)
      /\ Cardinality(G \cup W) = Cardinality(G) + Cardinality(W) - Cardinality(G \cap W)
  BY <1>7, <1>8, FS_Union
<1>10. Cardinality(G \cap W) \in Nat
  BY <1>8, FS_Intersection, FS_CardinalityType
<1>11. Cardinality(N) <= Cardinality(G \cup W) /\ Cardinality(N) \in Nat
  BY <1>3, <1>9, FS_Subset, FS_CardinalityType
<1>12. Cardinality(G) + Cardinality(D) < VERIFICATION_CODE_RATE_LIMIT + Cardinality(Session)
  BY DEF CodesLimited, G, D
<1>13. Cardinality(Session) \in Nat /\ VERIFICATION_CODE_RATE_LIMIT \in Nat
  BY <1>1, UserAccountAssumption, FS_CardinalityType
<1>14. Cardinality(N) < VERIFICATION_CODE_RATE_LIMIT + Cardinality(Session)
  BY <1>6, <1>7, <1>8, <1>9, <1>10, <1>11, <1>12, <1>13
<1> QED  BY <1>14 DEF N

------------------------------------------------------------------------------
(* The whole account *)

Account ==
    /\ Users /\ Requesters /\ PrefsOwned /\ ChoicesOwned /\ CodesFit /\ GoneIsForgotten
    /\ FailuresLimited /\ CodesLimited /\ SentAreLogged
    /\ PromotionsSound /\ PrimariesBounded /\ PrefsBounded /\ NamesBounded

LEMMA InitIsAnAccount == Init => Account
<1> SUFFICES ASSUME Init PROVE Account
  OBVIOUS
<1> USE DEF Init
<1>1. Users /\ PrefsOwned
  BY DEF Users, Live, PrefsOwned, NoPref
<1>2. Requesters /\ ChoicesOwned /\ SentAreLogged /\ PromotionsSound
  BY DEF Requesters, ChoicesOwned, SentAreLogged, PromotionsSound, Idle
<1>3. GoneIsForgotten
  BY DEF GoneIsForgotten
<1>4. \A s \in Session : req[s] = Idle
  OBVIOUS
<1>5. /\ Idle.op = "idle" /\ Idle.code = 0 /\ codes = <<>> /\ logged = {} /\ habit \in Habits
      /\ \A u \in User : failures[u] = 0
      /\ \A c \in Contact : contact[c].is = "free"
      /\ \A p \in Preference : pref[p].is = "free"
  BY DEF Idle, NoContact, NoPref
<1> HIDE DEF Init
<1>6. Cardinality({}) = 0 /\ {} \ {} = {} /\ habit.maxCodes \in Nat
  BY <1>5, FS_EmptySet, UserAccountAssumption
<1>7. Cardinality(Session) \in Nat /\ Cardinality(Session) > 0
  BY UserAccountAssumption, FS_CardinalityType, FS_EmptySet
<1>8. CodesFit
  <2>1. Asking = {}
    BY <1>4, <1>5 DEF Asking
  <2>2. Len(codes) = 0 /\ DOMAIN codes = {}
    BY <1>5
  <2>3. Len(codes) + Cardinality(Asking) <= habit.maxCodes
    BY <1>6, <2>1, <2>2
  <2>4. \A s \in Session : req[s].code <= Len(codes)
    BY <1>4, <1>5, <2>2
  <2> QED  BY <1>5, <2>2, <2>3, <2>4 DEF CodesFit
<1>9. FailuresLimited
  <2>1. ASSUME NEW u \in User
        PROVE  failures[u] + Cardinality(Adding(u)) < ADD_CONTACT_FAILURE_RATE_LIMIT + Cardinality(Session)
    <3>1. Adding(u) = {}
      BY <1>4, <1>5 DEF Adding
    <3> QED  BY <1>5, <1>6, <1>7, <3>1, UserAccountAssumption
  <2> QED  BY <2>1 DEF FailuresLimited
<1>10. CodesLimited
  <2>1. ASSUME NEW c \in Contact
        PROVE  Cardinality(LoggedOf(c)) + Cardinality(Coding(c))
                 < VERIFICATION_CODE_RATE_LIMIT + Cardinality(Session)
    <3>1. Coding(c) = {} /\ LoggedOf(c) = {}
      BY <1>4, <1>5 DEF Coding, LoggedOf
    <3> QED  BY <1>6, <1>7, <3>1, UserAccountAssumption
  <2> QED  BY <2>1 DEF CodesLimited
<1>11. PrimariesBounded
  <2>1. ASSUME NEW u \in User, NEW k \in {"email", "sms"}
        PROVE  Cardinality(Primaries(u, k) \ Taken(u, k)) + Cardinality(Promoting(u, k))
                 <= Cardinality(Session)
    <3>1. Primaries(u, k) \ Taken(u, k) = {}
      BY <1>5 DEF Primaries, ContactsOf, IsContact
    <3>2. Promoting(u, k) = {}
      BY <1>4, <1>5 DEF Promoting
    <3> QED  BY <1>6, <1>7, <3>1, <3>2
  <2> QED  BY <2>1 DEF PrimariesBounded
<1>12. \A u \in User : ActivePrefs(u) = {} /\ Preferring(u) = {}
  BY <1>4, <1>5 DEF ActivePrefs, PrefsOf, Preferring
<1>13. PrefsBounded
  <2>1. ASSUME NEW u \in User
        PROVE  Cardinality(ActivePrefs(u)) + Cardinality(Preferring(u))
                 < MAX_NOTIFICATION_PREFERENCES_PER_ROUTE + Cardinality(Session)
    <3>1. ActivePrefs(u) = {} /\ Preferring(u) = {}
      BY <1>12
    <3> QED  BY <1>6, <1>7, <3>1, UserAccountAssumption
  <2> QED  BY <2>1 DEF PrefsBounded
<1>14. NamesBounded
  <2>1. ASSUME NEW u \in User, NEW c \in Contact
        PROVE  Cardinality(Naming(u, c)) + Cardinality(Choosing(u, c)) <= Cardinality(Session)
    <3>1. Naming(u, c) = {} /\ Choosing(u, c) = {}
      BY <1>4, <1>5, <1>12 DEF Naming, Choosing
    <3> QED  BY <1>6, <1>7, <3>1
  <2> QED  BY <2>1 DEF NamesBounded
<1> QED  BY <1>1, <1>2, <1>3, <1>8, <1>9, <1>10, <1>11, <1>13, <1>14 DEF Account

LEMMA AccountKeeps == Inductive /\ Account /\ [Next]_accountVars => Account'
<1> SUFFICES ASSUME Inductive, Account, [Next]_accountVars PROVE Account'
  OBVIOUS
<1>1. IInv /\ ContactsNamed /\ habit \in Habits
  BY DEF Inductive
<1>2. CASE UNCHANGED accountVars
  <2> USE <1>2 DEF accountVars, Account
  <2>1. Users' /\ Requesters'
    BY DEF Users, Live, Requesters
  <2>7. PrefsOwned' /\ ChoicesOwned'
    BY DEF PrefsOwned, ChoicesOwned, Live, IsContact
  <2>2. CodesFit' /\ SentAreLogged' /\ PromotionsSound'
    BY DEF CodesFit, Asking, SentAreLogged, PromotionsSound
  <2>3. GoneIsForgotten'
    BY DEF GoneIsForgotten, Forgotten, IsContact
  <2>4. FailuresLimited' /\ CodesLimited'
    BY DEF FailuresLimited, CodesLimited, Adding, Coding, LoggedOf
  <2>5. PrimariesBounded'
    <3>1. ASSUME NEW u \in User, NEW k \in {"email", "sms"}
          PROVE  /\ Primaries(u, k)' = Primaries(u, k) /\ Taken(u, k)' = Taken(u, k)
                 /\ Promoting(u, k)' = Promoting(u, k)
      BY DEF Primaries, Taken, Promoting, ContactsOf, IsContact
    <3> QED  BY <3>1 DEF PrimariesBounded
  <2>6. PrefsBounded' /\ NamesBounded'
    BY DEF PrefsBounded, NamesBounded, Naming, Choosing, Preferring, ActivePrefs, PrefsOf
  <2> QED  BY <2>1, <2>2, <2>3, <2>4, <2>5, <2>6, <2>7
<1>3. CASE Next
  <2>1. Step /\ UNCHANGED habit
    BY <1>1, <1>3, StepsAre, HabitStays
  <2> USE <1>1, <2>1 DEF Account
  <2>2. Users' /\ Requesters' /\ CodesFit'
    BY UsersKept, RequestersKept, CodesFitKept
  <2>3. PrefsOwned' /\ ChoicesOwned' /\ GoneIsForgotten'
    BY PrefsOwnedKept, ChoicesOwnedKept, GoneIsKept
  <2>4. FailuresLimited' /\ CodesLimited' /\ SentAreLogged'
    BY FailuresLimitedKept, CodesLimitedKept, SentAreLoggedKept
  <2>5. PromotionsSound' /\ PrimariesBounded' /\ PrefsBounded' /\ NamesBounded'
    BY PromotionsSoundKept, PrimariesBoundedKept, PrefsBoundedKept, NamesBoundedKept
  <2> QED  BY <2>2, <2>3, <2>4, <2>5
<1> QED  BY <1>2, <1>3

LEMMA AccountIsTyped == Inductive /\ Account => TypeOK
<1> SUFFICES ASSUME Inductive, Account PROVE TypeOK
  OBVIOUS
<1>1. IInv /\ ContactsNamed /\ habit \in Habits
  BY DEF Inductive
<1>2. Users /\ CodesFit /\ PrefsOwned
  BY DEF Account
<1> DEFINE Codes == [user : User, contact : Contact, used : BOOLEAN, expired : BOOLEAN,
                     recent : BOOLEAN, known : BOOLEAN]
<1>3. codes \in Seq(Codes) /\ Len(codes) <= habit.maxCodes
  <2>1. codes \in Seq(CodeRows) /\ DOMAIN codes = 1 .. Len(codes) /\ Len(codes) \in Nat
    BY <1>1 DEF IInv, Types
  <2>2. ASSUME NEW i \in DOMAIN codes PROVE codes[i] \in Codes
    <3>1. codes[i] \in CodeRows /\ codes[i].user \in User
      BY <1>1, <1>2, CodeTypes DEF CodesFit
    <3> QED  BY <3>1 DEF CodeRows
  <2>3. Asking \in SUBSET Session /\ IsFiniteSet(Session)
    BY UserAccountAssumption DEF Asking
  <2>4. Cardinality(Asking) \in Nat /\ habit.maxCodes \in Nat
    BY <1>1, <2>3, Counts, UserAccountAssumption
  <2>5. Len(codes) <= habit.maxCodes
    BY <1>2, <2>1, <2>4 DEF CodesFit
  <2> HIDE DEF Codes
  <2>6. codes \in Seq(Codes)
    BY <2>1, <2>2
  <2> QED  BY <2>5, <2>6
<1>4. req \in [Session -> Request]
  <2>1. ASSUME NEW s \in Session PROVE req[s] \in Request
    <3>1. /\ req[s] \in Requests /\ req[s].code <= Len(codes) /\ Len(codes) \in Nat
          /\ Len(codes) <= habit.maxCodes /\ habit.maxCodes \in Nat
      BY <1>1, <1>2, <1>3, UserAccountAssumption DEF IInv, Types, CodesFit
    <3>2. req[s].code \in 0 .. habit.maxCodes
      BY <3>1 DEF Requests
    <3> QED  BY <3>1, <3>2 DEF Requests, Request, Operations
  <2>2. req \in [Session -> Requests]
    BY <1>1 DEF IInv, Types
  <2> QED  BY <2>1, <2>2
<1>5. /\ contact \in [Contact -> [is : {"free", "row", "gone"}, user : User \cup {0},
                        address : Address \cup {None}, verified : BOOLEAN, primary : BOOLEAN]]
      /\ pref \in [Preference -> [is : {"free", "row", "deleted"}, user : User \cup {0},
                                  contact : Contact \cup {0}]]
  BY <1>1 DEF IInv, Types, Rows, ContactsNamed, Prefs
<1>6. told \subseteq Address
  BY <1>1, UserAccountAssumption DEF IInv, OnlyMineIsTold
<1>7. \A p \in Preference : pref[p].is # "free" =>
          contact[pref[p].contact].is = "row" /\ contact[pref[p].contact].user = pref[p].user
  BY <1>2 DEF PrefsOwned, IsContact
<1> QED  BY <1>1, <1>2, <1>3, <1>4, <1>5, <1>6, <1>7 DEF TypeOK, Users, CodesFit

LEMMA AccountHolds == Spec => [](Inductive /\ Account)
<1>1. Init => Inductive /\ Account
  BY InitIsTrue, InitIsNamed, InitIsAnAccount DEF Inductive, Init
<1>2. Inductive /\ Account /\ [Next]_accountVars => (Inductive /\ Account)'
  BY StepKeeps, AccountKeeps
<1> QED  BY <1>1, <1>2, PTL DEF Spec

\* For any number of users, requests, rows and codes: every variable keeps its type, one user is
\* live, a preference names a row of its user, and the loser of two first requests finds a user,
\* unless he was anonymised (get_or_create_user, "This should never happen").
THEOREM AccountTypes == Spec => []TypeOK
BY AccountHolds, AccountIsTyped, PTL

\* However requests overlap: of a user who was anonymised with no request under way no contact,
\* no usable code, no preference and no active route is left, and none comes back
\* (anonymise_user).
THEOREM NothingIsLeft == Spec => []NothingSurvives
<1>1. Inductive /\ Account => NothingSurvives
  BY DEF Account, GoneIsForgotten, Forgotten, NothingSurvives, PrefsOf
<1> QED  BY <1>1, AccountHolds, PTL

\* However many requests are counted, checked and written: a rate limit is exceeded by at most one
\* for each request but one that runs at the same time (check_verification_rate_limit,
\* check_add_contact_rate_limit).
THEOREM LimitsHold == Spec => []RatesAreLimited
<1>1. ASSUME Inductive, Account PROVE RatesAreLimited
  <2>1. IInv /\ Users /\ CodesFit /\ CodesLimited /\ SentAreLogged /\ FailuresLimited
    BY <1>1 DEF Inductive, Account
  <2>2. ASSUME NEW u \in User
        PROVE  failures[u] < ADD_CONTACT_FAILURE_RATE_LIMIT + Cardinality(Session)
    <3>1. Adding(u) \in SUBSET Session /\ IsFiniteSet(Session)
      BY UserAccountAssumption DEF Adding
    <3>2. Cardinality(Adding(u)) \in Nat /\ Cardinality(Session) \in Nat
      BY <3>1, Counts
    <3>3. failures[u] \in Nat /\ ADD_CONTACT_FAILURE_RATE_LIMIT \in Nat
      BY <2>1, UserAccountAssumption DEF Users
    <3>4. failures[u] + Cardinality(Adding(u)) < ADD_CONTACT_FAILURE_RATE_LIMIT + Cardinality(Session)
      BY <2>1 DEF FailuresLimited
    <3> QED  BY <3>2, <3>3, <3>4
  <2> QED  BY <2>1, <2>2, CodesAtMost DEF RatesAreLimited
<1> QED  BY <1>1, AccountHolds, PTL

\* However many requests look up before they write, with no index behind them: a user never has
\* more primaries of a kind, preferences for a contact, or preferences above the maximum, than
\* requests run at the same time (set_primary_contact, create_preference, update_preference).
THEOREM RacesStayBounded == Spec => []RacesAreBounded
<1>1. ASSUME Inductive, Account PROVE RacesAreBounded
  <2>1. /\ IInv /\ PromotionsSound /\ PrimariesBounded /\ PrefsBounded /\ NamesBounded
        /\ IsFiniteSet(Session)
    BY <1>1, UserAccountAssumption DEF Inductive, Account
  <2>2. \A u \in User, k \in {"email", "sms"} : Cardinality(Primaries(u, k)) <= Cardinality(Session)
    BY <2>1, PrimariesAtMost
  <2>3. ASSUME NEW u \in User
        PROVE  Cardinality(ActivePrefs(u)) < MAX_NOTIFICATION_PREFERENCES_PER_ROUTE + Cardinality(Session)
    <3>1. Preferring(u) \in SUBSET Session /\ ActivePrefs(u) \in SUBSET Preference
      BY DEF Preferring, ActivePrefs, PrefsOf
    <3>2. /\ Cardinality(Preferring(u)) \in Nat /\ Cardinality(ActivePrefs(u)) \in Nat
          /\ Cardinality(Session) \in Nat /\ MAX_NOTIFICATION_PREFERENCES_PER_ROUTE \in Nat
      BY <3>1, UserAccountAssumption, Counts
    <3>3. Cardinality(ActivePrefs(u)) + Cardinality(Preferring(u))
            < MAX_NOTIFICATION_PREFERENCES_PER_ROUTE + Cardinality(Session)
      BY <2>1 DEF PrefsBounded
    <3> QED  BY <3>2, <3>3
  <2>4. ASSUME NEW u \in User, NEW c \in Contact
        PROVE  Cardinality(Naming(u, c)) <= Cardinality(Session)
    <3>1. Choosing(u, c) \in SUBSET Session /\ Naming(u, c) \in SUBSET Preference
      BY DEF Choosing, Naming, ActivePrefs, PrefsOf
    <3>2. /\ Cardinality(Choosing(u, c)) \in Nat /\ Cardinality(Naming(u, c)) \in Nat
          /\ Cardinality(Session) \in Nat
      BY <3>1, UserAccountAssumption, Counts
    <3>3. Cardinality(Naming(u, c)) + Cardinality(Choosing(u, c)) <= Cardinality(Session)
      BY <2>1 DEF NamesBounded
    <3> QED  BY <3>2, <3>3
  <2>5. \A u \in User, c \in Contact :
          Cardinality({p \in ActivePrefs(u) : pref[p].contact = c}) <= Cardinality(Session)
    BY <2>4 DEF Naming
  <2> QED  BY <2>2, <2>3, <2>5 DEF RacesAreBounded
<1> QED  BY <1>1, AccountHolds, PTL
================================================================================
