------------------------------- MODULE SignOn -------------------------------
(***************************************************************************)
(* Signing in with a provider (auth.controller.ts cognito/callback,        *)
(* cognito-sso.service.ts, oauth.service.ts) and what becomes of a lead:   *)
(* its onboarding, its restaurant and its trial (leads.service.ts).        *)
(*                                                                         *)
(* A sign-in looks for its address among the customers, the administrators *)
(* and the leads, one after the other, then updates what it found or makes *)
(* a lead; every look and every write is a step of its own.                *)
(***************************************************************************)
EXTENDS Integers, FiniteSets

CONSTANTS
  Emails, Restaurants,
  Requests,     \* the requests served, which also name Cognito's codes
  MaxInFlight,  \* bound: requests served at the same time
  MaxDay,       \* bound on the days that pass
  None

Super == "super-admin"
Portals == Restaurants \cup {None, Super}
Kinds == {"user", "admin", "lead"}

VARIABLES
  records,   \* [Kinds -> [Emails -> the document with the address]]
  used,      \* the authorization codes Cognito took
  day,       \* the calendar
  place,     \* where each request is
  job        \* what each request holds

vars == <<records, used, day, place, job>>

Running == {r \in Requests : place[r] \notin {"idle", "done"}}
Lead(e) == records["lead"][e]

\* Seven days from the start of the day.
Trial == [start |-> day, end |-> day + 7]

-----------------------------------------------------------------------------
(* The documents.  Customers and administrators come and go elsewhere.       *)

Person(x, super) == [restaurant |-> x, super |-> super, provider |-> "email",
                     verified |-> FALSE]

\* A lead signs up elsewhere; it may have a restaurant without abilities.
SignedUp(x) ==
  [restaurant |-> x, role |-> "lead", abilities |-> "none", verified |-> FALSE,
   provider |-> "email", trial |-> None]

Init ==
  /\ records \in
       [user : [Emails -> {None} \cup {Person(x, FALSE) : x \in Restaurants}],
        admin : [Emails -> {None} \cup {Person(x, FALSE) : x \in Restaurants}
                                  \cup {Person(None, TRUE)}],
        lead : [Emails -> {None} \cup {SignedUp(x) : x \in Restaurants \cup {None}}]]
  /\ used = {}
  /\ day = 0
  /\ place = [r \in Requests |-> "idle"]
  /\ job = [r \in Requests |-> None]

Start(r, op, e, given, at) ==
  /\ place[r] = "idle"
  /\ Cardinality(Running) < MaxInFlight
  /\ place' = [place EXCEPT ![r] = at]
  /\ job' = [job EXCEPT ![r] = [op |-> op, email |-> e, given |-> given,
                               kind |-> "lead", read |-> Lead(e)]]

Is(r, op, from) == place[r] = from /\ job[r].op = op
Goto(r, to) == place' = [place EXCEPT ![r] = to]
End(r) == Goto(r, "done") /\ job' = [job EXCEPT ![r] = None]

Updated(doc, fields) ==
  [f \in DOMAIN fields \cup DOMAIN doc |->
     IF f \in DOMAIN fields THEN fields[f] ELSE doc[f]]
Write(kind, e, fields) ==
  records' = [records EXCEPT ![kind][e] = Updated(@, fields)]

-----------------------------------------------------------------------------
(* A sign-in.                                                                *)

\* The browser comes back from Cognito with a code, its own or, when the page is
\* loaded again, the one of an earlier request.
Callback(r, e, portal, provider, code) ==
  /\ code = r \/ place[code] # "idle"
  /\ Start(r, "callback", e,
           [portal |-> portal, provider |-> provider, code |-> code], "exchange")
  /\ UNCHANGED <<records, used, day>>

\* exchangeCodeForTokens: a code is good once.
Exchange(r) ==
  /\ Is(r, "callback", "exchange")
  /\ job[r].given.code \notin used
  /\ used' = used \cup {job[r].given.code}
  /\ Goto(r, "token")
  /\ UNCHANGED <<records, day, job>>

\* fetchUserInfo: the token is verified with Cognito's keys.
TokenVerified(r) ==
  /\ Is(r, "callback", "token")
  /\ Goto(r, "user")
  /\ UNCHANGED <<records, used, day, job>>

\* Which records a portal lets in.
LetsIn(kind, record, portal) ==
  CASE kind = "user" -> portal \in {None, Super, record.restaurant}
                          \/ record.restaurant = None
    [] kind = "admin" -> IF portal = Super THEN record.super
                         ELSE portal = None \/ record.super
                                \/ record.restaurant \in {None, portal}
    [] kind = "lead" -> portal \in {None, Super, record.restaurant}

NextKind(kind) == IF kind = "user" THEN "admin" ELSE "lead"

\* upsertUserFromOAuth looks for one kind of record after the other.  Without
\* any, a lead is to be made, but not for the portal of a restaurant.
Look(r, kind) ==
  LET found == records[kind][job[r].email]
      portal == job[r].given.portal
  IN /\ Is(r, "callback", kind)
     /\ job' = [job EXCEPT ![r].kind = kind, ![r].read = found]
     /\ IF found # None
        THEN /\ LetsIn(kind, found, portal)
             /\ Goto(r, "update")
        ELSE IF kind # "lead" THEN Goto(r, NextKind(kind))
        ELSE portal \in {None, Super} /\ Goto(r, "create")
     /\ UNCHANGED <<records, used, day>>

\* The names, the provider and the verification are written; a lead keeps its
\* provider.
UpdateSignedIn(r) ==
  LET provider == job[r].given.provider
      keeps == job[r].kind = "lead" /\ job[r].read.provider # None
  IN /\ Is(r, "callback", "update")
     /\ Write(job[r].kind, job[r].email,
              IF keeps THEN [verified |-> TRUE]
              ELSE [verified |-> TRUE, provider |-> provider])
     /\ End(r)
     /\ UNCHANGED <<used, day>>

\* The address of a lead is unique: the second of two that are made at once is
\* refused.
CreateSignedIn(r) ==
  LET e == job[r].email
  IN /\ Is(r, "callback", "create")
     /\ Lead(e) = None
     /\ records' = [records EXCEPT !["lead"][e] =
          [SignedUp(None) EXCEPT !.abilities = "all", !.verified = TRUE,
                                 !.provider = job[r].given.provider]]
     /\ End(r)
     /\ UNCHANGED <<used, day>>

-----------------------------------------------------------------------------
(* Leads.                                                                    *)

\* getAbilitiesByRole.
ByRole(role) == IF role \in {"lead", "admin"} THEN "all" ELSE "none"

\* createLeadOnboarding: a lead that is there gets the abilities its restaurant
\* and its role call for, if any, one that is not is made, without a restaurant
\* even when the form names one.
Onboard(r, e, named) ==
  LET lead == Lead(e)
  IN /\ IF lead = None THEN TRUE
        ELSE /\ lead.restaurant # None /\ lead.abilities = "none"
             /\ ByRole(lead.role) # "none"
     /\ Start(r, "onboard", e, [named |-> named], "write")
     /\ UNCHANGED <<records, used, day>>
OnboardWrite(r) ==
  LET e == job[r].email
  IN /\ Is(r, "onboard", "write")
     /\ IF job[r].read # None
        THEN Write("lead", e, [abilities |-> ByRole(job[r].read.role)])
        ELSE /\ Lead(e) = None
             /\ records' = [records EXCEPT !["lead"][e] =
                  [SignedUp(None) EXCEPT !.abilities =
                     IF job[r].given.named THEN "all" ELSE "none"]]
     /\ End(r)
     /\ UNCHANGED <<used, day>>

\* activateTrial: refused when the lead, as it was read, has a trial; the days
\* are chosen then, and written later.
ActivateAlways(r, e) ==
  /\ Lead(e) # None
  /\ Start(r, "trial", e, [trial |-> Trial], "write")
  /\ UNCHANGED <<records, used, day>>
Activate(r, e) ==
  /\ Lead(e) # None
  /\ Lead(e).trial = None
  /\ Start(r, "trial", e, [trial |-> Trial], "write")
  /\ UNCHANGED <<records, used, day>>
ActivateWrite(r) ==
  /\ Is(r, "trial", "write")
  /\ Write("lead", job[r].email, job[r].given)
  /\ End(r)
  /\ UNCHANGED <<used, day>>

\* updateLead: what is given is written.  With a restaurant the lead is read
\* first: one whose role was 'lead' is its administrator, unless a role is
\* given, and without abilities given it has those of its role.
Update(r, e, given) ==
  /\ Lead(e) # None
  /\ Start(r, "update", e, given, "write")
  /\ UNCHANGED <<records, used, day>>
UpdateFields(given, read) ==
  LET promotes == "role" \notin DOMAIN given /\ read.role = "lead"
      role == IF "role" \in DOMAIN given THEN given.role
              ELSE IF promotes THEN "admin" ELSE read.role
      chosen == "abilities" \in DOMAIN given /\ given.abilities # "none"
      filled == IF chosen THEN given
                ELSE Updated(given, [abilities |-> ByRole(role)])
  IN IF "restaurant" \notin DOMAIN given THEN given
     ELSE IF promotes THEN Updated(filled, [role |-> role]) ELSE filled
UpdateWrite(r) ==
  /\ Is(r, "update", "write")
  /\ Write("lead", job[r].email, UpdateFields(job[r].given, job[r].read))
  /\ End(r)
  /\ UNCHANGED <<used, day>>

\* A refusal, an error or a stop ends a request where it is.
Fail(r) ==
  /\ r \in Running
  /\ End(r)
  /\ UNCHANGED <<records, used, day>>

Midnight ==
  /\ day < MaxDay
  /\ day' = day + 1
  /\ UNCHANGED <<records, used, place, job>>

\* What an update may be given, a field or two at a time; names, password,
\* address and token are no part of these documents.
Updates ==
  {[restaurant |-> x] : x \in Restaurants}
    \cup {[restaurant |-> x, role |-> "staff"] : x \in Restaurants}
    \cup {[role |-> "staff"], [abilities |-> "some"], [abilities |-> "none"],
          [provider |-> "google"]}

Next ==
  \/ \E r \in Requests :
       \/ \E e \in Emails :
            \/ \E portal \in Portals, provider \in {"google", "apple"},
                  code \in Requests : Callback(r, e, portal, provider, code)
            \/ \E named \in BOOLEAN : Onboard(r, e, named)
            \/ Activate(r, e)
            \/ \E given \in Updates : Update(r, e, given)
       \/ Exchange(r) \/ TokenVerified(r) \/ UpdateSignedIn(r)
       \/ CreateSignedIn(r) \/ OnboardWrite(r) \/ ActivateWrite(r)
       \/ UpdateWrite(r) \/ Fail(r)
       \/ \E kind \in Kinds : Look(r, kind)
  \/ Midnight

Spec == Init /\ [][Next]_vars

-----------------------------------------------------------------------------
(* The properties.                                                           *)

People == [restaurant : Restaurants \cup {None}, super : BOOLEAN,
           provider : {"email", "google", "apple"}, verified : BOOLEAN]
Leads == [restaurant : Restaurants \cup {None}, role : {"lead", "admin", "staff"},
          abilities : {"none", "some", "all"}, verified : BOOLEAN,
          provider : {"email", "google", "apple"},
          trial : [start : 0..MaxDay, end : 7..(MaxDay + 7)] \cup {None}]

\* The type of the documents (user.entity.ts, admin-user.entity.ts,
\* lead.entity.ts) and of the requests.
TypeOK ==
  /\ records \in [user : [Emails -> People \cup {None}],
                  admin : [Emails -> People \cup {None}],
                  lead : [Emails -> Leads \cup {None}]]
  /\ used \subseteq Requests
  /\ day \in 0..MaxDay
  /\ place \in [Requests -> {"idle", "exchange", "token", "user", "admin", "lead",
                             "update", "create", "write", "done"}]

\* The requests about a lead that end in this step, whether one of them was told
\* to set a field, and whether one had read the lead before the field was given
\* what it has.
Ending(e) == {r \in Running : job[r].email = e /\ place'[r] = "done"}
Named(e, f) ==
  \E r \in Ending(e) : job[r].op = "update" /\ f \in DOMAIN job[r].given
Stale(e, f) ==
  \E r \in Ending(e) : /\ job[r].kind = "lead" /\ job[r].read # None
                        /\ job[r].read[f] # Lead(e)[f]

\* A field that was given something has something else.
Blank == [restaurant |-> None, role |-> "lead", abilities |-> "none",
          verified |-> FALSE, provider |-> None, trial |-> None]
Replaced(e, f) == Lead(e)[f] # Blank[f] /\ Lead(e)'[f] # Lead(e)[f]

\* However sign-ins, onboardings, trials and updates of one lead overlap, what
\* one gave another takes back only if told so.  The restaurant, the provider and
\* the verification stay unless an update names them; the role, the abilities
\* and the trial are replaced besides by a request that had read the lead before
\* they were given, so that a late activation may move a trial, to earlier days
\* as well; and the abilities go with a restaurant that is named
\* (oauth.service.ts, leads.service.ts).
GivenStays ==
  \A e \in Emails :
    Lead(e) # None =>
      /\ Lead(e)' # None
      /\ ~Replaced(e, "verified")
      /\ \A f \in {"restaurant", "provider"} : Replaced(e, f) => Named(e, f)
      /\ \A f \in {"role", "trial"} :
           Replaced(e, f) => Named(e, f) \/ Stale(e, f)
      /\ Replaced(e, "abilities") =>
           \/ \E f \in {"abilities", "restaurant"} : Named(e, f)
           \/ Stale(e, "abilities")

-----------------------------------------------------------------------------
(* What makes it inductive.                                                  *)

\* A document that was found is there, and who is going to write to one has found
\* it; a trial is going to be written for a lead that had none, abilities by an
\* onboarding for one that had none.
SignInsInv ==
  \A r \in Running :
    /\ job[r].read # None => records[job[r].kind][job[r].email] # None
    /\ (job[r].op \in {"trial", "update"} \/ place[r] = "update")
         => job[r].read # None
    /\ job[r].op = "trial" => job[r].read.trial = None
    /\ (job[r].op = "onboard" /\ job[r].read # None)
         => job[r].read.abilities = "none" /\ ByRole(job[r].read.role) = "all"
=============================================================================
