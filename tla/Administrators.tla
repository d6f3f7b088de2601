---------------------------- MODULE Administrators ----------------------------
(***************************************************************************)
(* Administrators (admin-user.service.ts) and their sessions               *)
(* (admin-auth.service.ts); leads log in the same way.  A handler reads a  *)
(* document, then writes to it in later steps.                             *)
(*                                                                         *)
(* A session is the hash of the last refresh token, named here by the      *)
(* request that made it.  The hash takes the first 72 bytes of a token,    *)
(* which the tokens of one person share: each of them matches while there  *)
(* is a hash.                                                              *)
(***************************************************************************)
EXTENDS Integers, Sequences, FiniteSets

CONSTANTS
  Emails, Passwords,
  LeadEmails,   \* the addresses of verified leads, who all use LeadPassword
  LeadPassword,
  Requests,     \* the requests served, logouts and refused ones aside
  Copied,       \* bound: those whose token's hash somebody sends back, with the
                \* document that had it
  MaxInFlight,  \* bound: requests served at the same time
  None

VARIABLES
  people,   \* the documents of administrators and leads, oldest first
  place,    \* where each request is
  job,      \* what each request holds
  quiet     \* history: logged out since with no login or refresh under way,
            \* and given no session by hand

vars == <<people, place, job, quiet>>

Abilities == {"none", "some", "all"}
Roles == {"admin", "staff"}
Running == {r \in Requests : place[r] \notin {"idle", "done"}}

-----------------------------------------------------------------------------

Lead(e) ==
  [kind |-> "lead", email |-> e, role |-> "admin", restaurant |-> TRUE,
   abilities |-> "none", password |-> LeadPassword, deleted |-> FALSE, session |-> None]

Init ==
  /\ people \in {<<Lead(e)>> : e \in LeadEmails}
  /\ place = [r \in Requests |-> "idle"]
  /\ job = [r \in Requests |-> None]
  /\ quiet = {}

\* A document with fields set to other values.
Updated(doc, fields) ==
  [f \in DOMAIN fields \cup DOMAIN doc |->
     IF f \in DOMAIN fields THEN fields[f] ELSE doc[f]]

\* The first administrator with the address, 0 when there is none.
Admins(e) ==
  {i \in DOMAIN people : people[i].kind = "admin" /\ people[i].email = e}
Oldest(S) == IF S = {} THEN 0 ELSE CHOOSE i \in S : \A j \in S : i <= j
Present(S) == {i \in S : ~people[i].deleted}
IsAdmin(i) == people[i].kind = "admin"

\* A request begins by reading document i.
Start(r, op, i, given, at) ==
  /\ place[r] = "idle"
  /\ Cardinality(Running) < MaxInFlight
  /\ job' = [job EXCEPT ![r] =
       [op |-> op, doc |-> i, given |-> given,
        read |-> IF i = 0 THEN None ELSE people[i]]]
  /\ place' = [place EXCEPT ![r] = at]

Goto(r, from, to) ==
  /\ place[r] = from
  /\ place' = [place EXCEPT ![r] = to]
  /\ UNCHANGED job

\* Abilities that are not given are all of them for an administrator of a
\* restaurant, and stay empty otherwise.
Default(doc) ==
  IF doc.abilities = "none" /\ doc.role = "admin" /\ doc.restaurant
  THEN [doc EXCEPT !.abilities = "all"] ELSE doc

-----------------------------------------------------------------------------
(* admin-user.service.ts                                                     *)

NewAdmin(given) ==
  Updated(given, [kind |-> "admin", deleted |-> FALSE])

\* createAdminUser: refused when there is one who is not deleted.
Create(r, e, given) ==
  LET i == Oldest(Admins(e))
  IN /\ i # 0 => people[i].deleted
     /\ Start(r, "create", i, Updated(given, [email |-> e]), "save")
     /\ UNCHANGED <<people, quiet>>

\* A session that is written by hand.
Given(i) == quiet' = quiet \ {i}

\* The deleted administrator comes back with what is given now, and the session
\* there was when none is given; otherwise there is a new one, even when another
\* request created one since.
CreateSave(r) ==
  LET given == job[r].given
      new == Default(NewAdmin(given))
      i == Oldest(Admins(given.email))
      stays == given.session = None
  IN /\ job[r] # None /\ Goto(r, "save", "done")
     /\ people' = IF job[r].doc = 0 THEN Append(people, new)
                  ELSE [people EXCEPT ![i] =
                    IF stays THEN [new EXCEPT !.session = people[i].session] ELSE new]
     /\ IF stays \/ job[r].doc = 0 THEN UNCHANGED quiet ELSE Given(i)

\* update, updatePassword and deleteAdminUser: the administrator is there, and
\* the current password is right.
Change(r, i, op, given) ==
  /\ IsAdmin(i) /\ ~people[i].deleted
  /\ Start(r, op, i, given, "write")
  /\ UNCHANGED <<people, quiet>>

\* Abilities nobody gave are chosen by the document as it was read.
Fields(r) ==
  LET given == job[r].given
      after == Default(Updated(job[r].read, given))
  IN CASE job[r].op = "delete" -> [deleted |-> TRUE]
       [] job[r].op = "password" -> given
       [] OTHER -> IF after.abilities # job[r].read.abilities
                   THEN Updated(given, [abilities |-> after.abilities]) ELSE given
ChangeWrite(r) ==
  /\ Goto(r, "write", "done")
  /\ people' = [people EXCEPT ![job[r].doc] = Updated(@, Fields(r))]
  /\ IF "session" \in DOMAIN Fields(r) THEN Given(job[r].doc) ELSE UNCHANGED quiet

-----------------------------------------------------------------------------
(* admin-auth.service.ts                                                     *)

\* validateUser: the first administrator with the address who is not deleted, at
\* the portal of a restaurant the first of that restaurant; or else, there, one
\* who has a branch of it; or else the lead.
MayBe(e, portal) ==
  LET known == Present(Admins(e))
      here == {i \in known : portal => people[i].restaurant}
  IN IF here # {} THEN {Oldest(here)}
     ELSE known \cup {i \in DOMAIN people : ~IsAdmin(i) /\ people[i].email = e}
Login(r, e, portal, password) ==
  \E i \in MayBe(e, portal) :
    /\ people[i].password = password
    /\ Start(r, "login", i, <<>>, "hash")
    /\ quiet' = quiet \ {i}
    /\ UNCHANGED people

\* refreshAccessToken: only administrators are looked for.
RefreshAlways(r, i) ==
  /\ IsAdmin(i) /\ ~people[i].deleted
  /\ Start(r, "refresh", i, <<>>, "hash")
  /\ UNCHANGED <<people, quiet>>
Refresh(r, i) ==
  /\ IsAdmin(i) /\ ~people[i].deleted
  /\ people[i].session # None
  /\ Start(r, "refresh", i, <<>>, "hash")
  /\ UNCHANGED <<people, quiet>>

\* generateTokens: the token is hashed, the hash stored, the document read again,
\* an administrator's only when not deleted, and its abilities filled in.
Hash(r) == Goto(r, "hash", "store") /\ UNCHANGED <<people, quiet>>
Store(r) ==
  /\ Goto(r, "store", "reread")
  /\ people' = [people EXCEPT ![job[r].doc].session = r]
  /\ UNCHANGED quiet
Reread(r) ==
  LET doc == people[job[r].doc]
      refused == doc.kind = "admin" /\ doc.deleted
  IN /\ place[r] = "reread"
     /\ place' = [place EXCEPT ![r] = IF refused \/ Default(doc) = doc THEN "done"
                                     ELSE "fill"]
     /\ UNCHANGED <<people, job, quiet>>
Fill(r) ==
  /\ Goto(r, "fill", "done")
  /\ people' = [people EXCEPT ![job[r].doc].abilities = "all"]
  /\ UNCHANGED quiet

\* logout: the session of an administrator with a token is removed.
Logout(i) ==
  /\ IsAdmin(i)
  /\ people[i].session # None
  /\ people' = [people EXCEPT ![i].session = None]
  /\ quiet' = IF \E r \in Running :
                   job[r].doc = i /\ job[r].op \in {"login", "refresh"}
              THEN quiet ELSE quiet \cup {i}
  /\ UNCHANGED <<place, job>>

Fail(r) ==
  /\ r \in Running
  /\ place' = [place EXCEPT ![r] = "done"]
  /\ UNCHANGED <<people, job, quiet>>

-----------------------------------------------------------------------------

\* What is given to create and to change an administrator; the token of a
\* session is a field as any other.
Dtos ==
  {[role |-> role, restaurant |-> x, abilities |-> a, password |-> p, session |-> s] :
     role \in Roles, x \in BOOLEAN, a \in {"none", "some"}, p \in Passwords,
     s \in Copied \cup {None}}
Updates ==
  {[abilities |-> "some"], [restaurant |-> TRUE], [role |-> "admin"]}
    \cup {[session |-> s] : s \in Copied}

Next ==
  \/ \E r \in Requests :
       \/ \E e \in Emails :
            \/ \E given \in Dtos : Create(r, e, given)
            \/ \E portal \in BOOLEAN, p \in Passwords \cup {LeadPassword} :
                 Login(r, e, portal, p)
       \/ \E i \in DOMAIN people :
            \/ \E given \in Updates : Change(r, i, "update", given)
            \/ \E p \in Passwords : Change(r, i, "password", [password |-> p])
            \/ Change(r, i, "delete", <<>>)
            \/ Refresh(r, i)
       \/ CreateSave(r) \/ ChangeWrite(r) \/ Hash(r) \/ Store(r) \/ Reread(r)
       \/ Fill(r) \/ Fail(r)
  \/ \E i \in DOMAIN people : Logout(i)

Spec == Init /\ [][Next]_vars

-----------------------------------------------------------------------------
(* The properties.                                                           *)

\* The type of the documents and requests (admin-user.entity.ts).
TypeOK ==
  /\ people \in Seq([kind : {"admin", "lead"}, email : Emails, role : Roles,
                     restaurant : BOOLEAN, abilities : Abilities,
                     password : Passwords \cup {LeadPassword}, deleted : BOOLEAN,
                     session : Requests \cup {None}])
  /\ place \in [Requests -> {"idle", "save", "write", "hash", "store", "reread",
                             "fill", "done"}]
  /\ quiet \subseteq DOMAIN people

\* A logout holds until the next login, unless it overlapped a login or refresh
\* of the same administrator, which stores its hash later, or somebody sends the
\* refreshToken field back: no deletion, return, other change or refresh that
\* begins after it brings the session back (refreshAccessToken, generateTokens,
\* logout).
LogoutHolds == \A i \in quiet : people[i].session = None

\* As long as requests come one at a time, abilities that were given to an
\* administrator or a lead are not replaced by the defaults (update,
\* generateTokens).
GivenStays ==
  \A i \in DOMAIN people :
    (people[i].abilities = "some" /\ ~people[i].deleted)
      => people'[i].abilities = "some"

-----------------------------------------------------------------------------
(* What makes them inductive.                                                *)

\* Whoever is going to store a session does so for one who is not quiet.
SessionsInv ==
  /\ LogoutHolds
  /\ \A r \in Requests :
       place[r] \in {"hash", "store"} =>
         job[r].doc \notin quiet /\ job[r].op \in {"login", "refresh"}

\* One request at a time, what was read of abilities and deletion still holds.
Serial == \A q, r \in Running : q = r
AbilitiesCalm ==
  \A r \in Requests :
    /\ place[r] = "save" =>
         \/ job[r].doc = 0
         \/ \A i \in DOMAIN people :
              i = Oldest(Admins(job[r].given.email)) => people[i].deleted
    /\ place[r] = "write" =>
         people[job[r].doc].abilities = job[r].read.abilities
    /\ place[r] = "fill" => people[job[r].doc].abilities = "none"
=============================================================================
