----------------------------- MODULE MCAccounts -----------------------------
(***************************************************************************)
(* The accounts of leads (LeadAccounts), customers (CustomerCodes) and     *)
(* administrators (Administrators) and the sign-in with a provider         *)
(* (SignOn), for TLC.  A behaviour is about one of them, its part, and is  *)
(* calm, its requests one at a time and, those of leads, about one address *)
(* and without errors, or anything goes, with fewer requests.              *)
(***************************************************************************)
EXTENDS LeadAccounts, TLC

CONSTANTS
  Parts,
  MaxRequests,    \* bound: requests of a calm behaviour
  MaxConcurrent,  \* bound: requests of any other, one less unless all
                  \* are of CoreOps and about the same address
  Phones, Mailboxes, Few,       \* what customers have, and their requests,
                                \* which are as many as sign-ins
  Offices, Secrets, LeadSecret, Turns, Copied,  \* what administrators have,
                                                \* and their requests
  Restaurants, LastDay,                   \* of sign-ins
  MaxEarly,    \* bound: customers' requests when a user is deleted
  MaxTurns,    \* bound: administrators' requests, when they overlap
  MaxBack,     \* bound: those requests when a creation is given a session
  MaxSignIns   \* bound: sign-ins, when they overlap

VARIABLES
  part, calm,
  users, pool, sent, aged, codesPlace, asked,          \* CustomerCodes
  people, adminPlace, adminJob, quiet,                 \* Administrators
  records, used, day, signPlace, signJob               \* SignOn

-----------------------------------------------------------------------------
(* Leads.                                                                    *)

\* Without the operations that only repeat what another one does to a lead or
\* to a session.
CoreOps == {"signup", "google", "verify", "forgot", "confirm"}

\* Requests are numbered as they begin.  The passwords of leads are edited
\* once, in calm behaviours.
Numbered(begun) == begun = 1..Cardinality(begun)

Begun == {r \in Requests : pc[r] # "idle"}
Explored ==
  LET jobs == {job[r] : r \in Begun}
      n == Cardinality(Begun)
      OneAddress == Cardinality({j.email : j \in jobs}) <= 1
      Core == {j.op : j \in jobs} \subseteq CoreOps
      Chosen == {j.password : j \in jobs} \ {Generated}
  IN /\ Numbered(Begun)
     /\ IF calm
        THEN /\ n <= MaxRequests /\ Cardinality(Running) <= 1 /\ OneAddress
             /\ Cardinality({r \in Begun : job[r].op = "edit"}) <= 1
        ELSE /\ Cardinality(Chosen) <= 1
             /\ "edit" \notin {j.op : j \in jobs}
             /\ n <= IF OneAddress /\ Core THEN MaxConcurrent
                     ELSE MaxConcurrent - 1

\* No handler dies, and none finds that Cognito did not take a password.
NoError ==
  /\ failed' = failed
  /\ \A r \in Begun :
       (pc[r] \in {"ensure", "cognito"} /\ pc'[r] # pc[r])
         => LET e == job[r].email
            IN \/ cognito'[e] # cognito[e]
               \/ cognito[e] \in {None, job[r].password}

-----------------------------------------------------------------------------
(* The other parts.                                                          *)

Customers == INSTANCE CustomerCodes WITH
  Emails <- Mailboxes, Requests <- Few, cognito <- pool, place <- codesPlace

\* Deletions come early.
CustomersExplored ==
  LET begun == {r \in Few : codesPlace[r] # "idle"}
  IN /\ Numbered(begun)
     /\ (\E i \in DOMAIN users : users[i].deleted) => Cardinality(begun) <= MaxEarly
     /\ calm => Cardinality(Customers!Running) <= 1
OneByOne == Customers!Running = {} \/ (\A i \in DOMAIN users :
                                        users[i].phone = users'[i].phone)

Admins == INSTANCE Administrators WITH
  Emails <- Offices, LeadEmails <- Offices, Passwords <- Secrets,
  LeadPassword <- LeadSecret, Requests <- Turns, place <- adminPlace,
  job <- adminJob

\* A session is sent back at most once, and to a new administrator only early.
AdminsExplored ==
  LET begun == {r \in Turns : adminPlace[r] # "idle"}
      Sent(r) == "session" \in DOMAIN adminJob[r].given
                   /\ adminJob[r].given["session"] # None
      back == {r \in begun : Sent(r)}
  IN /\ Numbered(begun)
     /\ Cardinality(back) <= 1
     /\ (\E r \in back : adminJob[r].op = "create")
          => Cardinality(begun) <= MaxBack
     /\ IF calm THEN Cardinality(Admins!Running) <= 1
        ELSE Cardinality(begun) <= MaxTurns

SignIns == INSTANCE SignOn WITH
  Emails <- Mailboxes, Requests <- Few, MaxDay <- LastDay,
  place <- signPlace, job <- signJob

SignInsExplored ==
  LET begun == {r \in Few : signPlace[r] # "idle"}
  IN /\ Numbered(begun)
     /\ IF calm THEN Cardinality(SignIns!Running) <= 1
        ELSE Cardinality(begun) <= MaxSignIns

customers == <<users, pool, sent, aged, codesPlace, asked>>
admins == <<people, adminPlace, adminJob, quiet>>
signIns == <<records, used, day, signPlace, signJob>>

\* None is no request, restaurant, provider or document.
ASSUME PartsAssumption ==
  /\ IsFiniteSet(Few) /\ IsFiniteSet(Turns)
  /\ None \notin Few \cup Turns /\ Copied \subseteq Turns
  /\ None \notin Restaurants
  /\ None \notin {"email", "google", "apple"}
  /\ None \notin SignIns!People
  /\ None \notin SignIns!Leads
  /\ LastDay \in Nat

-----------------------------------------------------------------------------

\* The other parts stand still at their beginning.
MCInit ==
  /\ part \in Parts
  /\ calm \in BOOLEAN
  /\ Init /\ Customers!Init /\ Admins!Init /\ SignIns!Init
  /\ part # "signIns" =>
       \A kind \in DOMAIN records, e \in Mailboxes : records[kind][e] = None

MCNext ==
  /\ UNCHANGED <<part, calm>>
  /\ \/ /\ part = "leads"
        /\ Next /\ Explored' /\ (calm => NoError)
        /\ UNCHANGED <<customers, admins, signIns>>
     \/ /\ part = "customers"
        /\ Customers!Next /\ CustomersExplored' /\ (calm => OneByOne)
        /\ UNCHANGED <<vars, admins, signIns>>
     \/ /\ part = "admins"
        /\ Admins!Next /\ AdminsExplored'
        /\ UNCHANGED <<vars, customers, signIns>>
     \/ /\ part = "signIns"
        /\ SignIns!Next /\ SignInsExplored'
        /\ UNCHANGED <<vars, customers, admins>>

MCSpec == MCInit /\ [][MCNext]_<<vars, part, calm, customers, admins, signIns>>

PartsTypeOK ==
  TypeOK /\ Customers!TypeOK /\ Admins!TypeOK /\ SignIns!TypeOK

\* One request at a time and without errors: the last code mailed is good, the
\* database and Cognito agree about a chosen password, and a sign-up leaves a
\* verified lead alone.
LastCodeWorks == calm => LastCodeInSession
MirrorsAgree == calm => PasswordsAgree
SignUpSparesVerified == [][calm => SignUpSpares]_vars

\* Why they hold.
CalmInv == calm => Serial /\ CodesCalm /\ MirrorsCalm
PartsInv ==
  /\ Customers!CodesInv /\ Admins!SessionsInv /\ SignIns!SignInsInv
  /\ calm => /\ Customers!Serial /\ Customers!CodesCalm
             /\ Admins!Serial /\ Admins!AbilitiesCalm

\* One request at a time, the last code sent to a customer verifies for its
\* minute; at any time, whoever was told of a new account has a user in Cognito.
CustomersSignIn ==
  part = "customers" =>
    (calm => Customers!LastCodeVerifies) /\ Customers!ToldMeansAccount

\* No logout is undone by what came after it, unless a session is sent back.
LogoutHolds == part = "admins" => Admins!LogoutHolds

\* Nothing that was given to a lead or, one request at a time, to an
\* administrator is taken back.
NothingTakenBack ==
  [][SignIns!GivenStays /\ (calm => Admins!GivenStays)]_<<admins, signIns>>

Symmetry == Permutations(Emails) \cup Permutations(Passwords) \cup Permutations(Phones)
=============================================================================
