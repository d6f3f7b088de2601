------------------------- MODULE LeadAccountsProofs -------------------------
(* Proofs about LeadAccounts, for any addresses, requests and passwords:    *)
(* types, who verifies an address, and that a code is used once; and, over  *)
(* MCAccounts' MCSpec, what holds when requests come one at a time.         *)
EXTENDS MCAccounts, FiniteSetTheorems, TLAPS

\* What a handler holds fits what it serves, and it stands on its path.
Shape(r) ==
  pc[r] # "idle" =>
    LET op == job[r].op
    IN /\ job[r] \in Job
       /\ op \in {"confirm", "update", "edit"} => Known(job[r].email)
       /\ op = "confirm" => job[r].lead \in Lead
       /\ op \in {"verify", "confirm"} => job[r].code \in Requests
       /\ op = "signup" => pc[r] \in {"save", "issue", "mail", "done"}
       /\ op = "onboard" => pc[r] \in {"save", "done"}
       /\ op = "google" => pc[r] \in {"save", "mark", "done"}
       /\ op = "regenerate" => pc[r] \in {"issue", "mail", "done"}
       /\ op = "verify" => pc[r] \in {"forget", "mark", "done"}
       /\ op = "forgot" => pc[r] \in {"ensure", "issue", "mail", "done"}
       /\ op = "confirm" =>
            pc[r] \in {"check", "local", "cognito", "forget", "done"}
       /\ op = "update" => pc[r] \in {"cognito", "local", "done"}
       /\ op = "edit" => pc[r] \in {"edit", "done"}

ShapeInv == TypeOK /\ \A r \in Requests : Shape(r)

\* How control moves: a request starts, moves on, or nothing moves.
Starts(r) ==
  \E op \in Operations, e \in Emails, c \in mailed \cup {None},
     p \in Passwords \cup {Generated}, place \in Places \ {"idle", "done"} :
    /\ pc[r] = "idle"
    /\ job' = [job EXCEPT ![r] =
         [op |-> op, email |-> e, code |-> c, password |-> p,
          lead |-> lead[e], after |-> {q \in Requests : pc[q] = "done"}]]
    /\ pc' = [pc EXCEPT ![r] = place]
Moves(r) ==
  /\ pc[r] \notin {"idle", "done"}
  /\ job' = job
  /\ \E place \in Places \ {"idle"} : pc' = [pc EXCEPT ![r] = place]

LEMMA StepMoves == ASSUME NEW r \in Requests, Step(r) PROVE Moves(r)
BY DEF Step, SaveLead, EnsurePassword, IssueSession, SendMail, ForgetSession,
       MarkVerified, ConfirmCheck, SetLocal, SyncCognito, UpdateCognito,
       EditLead, Goto, Moves, Places

LEMMA AbortMoves == ASSUME NEW r \in Requests, Abort(r) PROVE Moves(r)
BY DEF Abort, Running, Moves, Places

LEMMA ArriveStarts ==
  ASSUME NEW r \in Requests, NEW e \in Emails, Arrive(r, e)
  PROVE  Starts(r)
<1>1. CASE GoogleRead(r, e) \/ RegenerateRead(r, e) \/ ForgotRead(r, e)
  <2>1. CASE GoogleRead(r, e)
    <3>1. PICK place \in {"mark", "save"} :
            Start(r, "google", e, None, Generated, place)
      BY <2>1 DEF GoogleRead
    <3>2. QED BY <3>1 DEF Start, Starts, Places
  <2>2. CASE RegenerateRead(r, e)
    BY <2>2 DEF RegenerateRead, Start, Starts, Places
  <2>3. CASE ForgotRead(r, e)
    BY <2>3 DEF ForgotRead, Start, Starts, Places
  <2>4. QED BY <1>1, <2>1, <2>2, <2>3
<1>2. CASE \E p \in Passwords :
             \/ SignUpRead(r, e, p) \/ OnboardRead(r, e, p)
             \/ UpdateRead(r, e, p) \/ EditRead(r, e, p)
  <2> SUFFICES ASSUME NEW p \in Passwords,
                      SignUpRead(r, e, p) \/ OnboardRead(r, e, p)
                        \/ UpdateRead(r, e, p) \/ EditRead(r, e, p)
               PROVE  Starts(r)
    BY <1>2
  <2>1. CASE SignUpRead(r, e, p)
    BY <2>1 DEF SignUpRead, Start, Starts, Places
  <2>2. CASE OnboardRead(r, e, p)
    BY <2>2 DEF OnboardRead, Start, Starts, Places
  <2>3. CASE UpdateRead(r, e, p)
    BY <2>3 DEF UpdateRead, Start, Starts, Places
  <2>4. CASE EditRead(r, e, p)
    BY <2>4 DEF EditRead, Start, Starts, Places
  <2>5. QED BY <2>1, <2>2, <2>3, <2>4
<1>3. CASE \E c \in mailed :
             VerifyCheck(r, e, c)
               \/ \E p \in Passwords : ConfirmRead(r, e, c, p)
  BY <1>3 DEF VerifyCheck, ConfirmRead, Start, Starts, Places
<1>4. QED BY <1>1, <1>2, <1>3 DEF Arrive

\* A request that has begun stays begun and keeps what it holds; one that has
\* ended stays ended.
LEMMA Frame ==
  ASSUME TypeOK, [Next]_vars, NEW r \in Requests, pc[r] # "idle"
  PROVE  /\ job'[r] = job[r] /\ pc'[r] # "idle"
         /\ pc[r] = "done" => pc'[r] = "done"
<1>1. CASE UNCHANGED vars BY <1>1 DEF vars
<1>2. CASE Expire BY <1>2 DEF Expire
<1>3. ASSUME NEW q \in Requests, Starts(q) \/ Moves(q)
      PROVE  /\ job'[r] = job[r] /\ pc'[r] # "idle"
             /\ pc[r] = "done" => pc'[r] = "done"
  BY <1>3 DEF Starts, Moves, TypeOK
<1>4. QED BY <1>1, <1>2, <1>3, StepMoves, AbortMoves, ArriveStarts DEF Next

\* A step changes at most the lead of its own address, into a lead.
LEMMA LeadChange ==
  ASSUME ShapeInv, NoneAssumption, NEW r \in Requests, Step(r)
  PROVE  /\ job[r] \in Job
         /\ \/ lead' = lead
            \/ \E doc \in Lead : lead' = [lead EXCEPT ![job[r].email] = doc]
<1> DEFINE e == job[r].email
<1>1. pc[r] # "idle" /\ job[r] \in Job /\ e \in Emails
  BY StepMoves DEF Moves, ShapeInv, Shape, Job
<1>2. ASSUME SaveLead(r)
      PROVE  lead' = lead \/ \E doc \in Lead : lead' = [lead EXCEPT ![e] = doc]
  <2> DEFINE v == IF Known(e) THEN lead[e].verified ELSE job[r].op = "google"
             doc == [password |-> job[r].password, verified |-> v,
                     sso |-> job[r].op = "google"]
  <2>1. lead' = lead \/ lead' = [lead EXCEPT ![e] = doc]
    BY <1>2 DEF SaveLead
  <2>2. job[r].password \in Passwords \cup {Generated} BY <1>1 DEF Job
  <2>3. v \in BOOLEAN
    <3>1. CASE Known(e)
      <4>1. lead[e] \in Lead BY <1>1, <3>1 DEF Known, ShapeInv, TypeOK
      <4>2. lead[e].verified \in BOOLEAN BY <4>1 DEF Lead
      <4>3. QED BY <3>1, <4>2
    <3>2. CASE ~Known(e)
      <4>1. v = (job[r].op = "google") BY <3>2
      <4>2. (job[r].op = "google") \in BOOLEAN OBVIOUS
      <4>3. QED BY <4>1, <4>2
    <3>3. QED BY <3>1, <3>2
  <2> HIDE DEF v
  <2>4. doc \in Lead BY <2>2, <2>3 DEF Lead
  <2>5. QED BY <2>1, <2>4
<1>3. ASSUME MarkVerified(r)
      PROVE  lead' = lead \/ \E doc \in Lead : lead' = [lead EXCEPT ![e] = doc]
  <2> DEFINE doc == [lead[e] EXCEPT !.verified = TRUE]
  <2>1. lead' = lead \/ (Known(e) /\ lead' = [lead EXCEPT ![e] = doc])
    BY <1>1, <1>3 DEF MarkVerified, ShapeInv, TypeOK
  <2>2. ASSUME Known(e) PROVE doc \in Lead
    <3>1. lead[e] \in Lead BY <1>1, <2>2 DEF Known, ShapeInv, TypeOK
    <3>2. QED BY <3>1 DEF Lead
  <2>3. QED BY <2>1, <2>2
<1>4. ASSUME SetLocal(r)
      PROVE  lead' = lead \/ \E doc \in Lead : lead' = [lead EXCEPT ![e] = doc]
  <2> DEFINE p == job[r].password
             doc == [lead[e] EXCEPT !.password = p, !.sso = FALSE]
  <2>1. pc[r] = "local" BY <1>4 DEF SetLocal, Goto
  <2>2. Known(e)
    BY <1>1, <2>1 DEF ShapeInv, Shape, Job, Ops
  <2>3. lead[e] \in Lead BY <1>1, <2>2 DEF Known, ShapeInv, TypeOK
  <2>4. p \in Passwords \cup {Generated} BY <1>1 DEF Job
  <2>5. doc \in Lead BY <2>3, <2>4 DEF Lead
  <2>6. lead' = [lead EXCEPT ![e] = doc]
    BY <1>1, <1>4, <2>3 DEF SetLocal, ShapeInv, TypeOK, Lead
  <2>7. QED BY <2>5, <2>6
<1>5. CASE UNCHANGED lead BY <1>1, <1>5
<1>6. ASSUME EditLead(r)
      PROVE  lead' = lead \/ \E doc \in Lead : lead' = [lead EXCEPT ![e] = doc]
  <2> DEFINE p == job[r].password
             Doc(sso) == [lead[e] EXCEPT !.password = p, !.sso = sso]
  <2>1. pc[r] = "edit" BY <1>6 DEF EditLead, Goto
  <2>2. Known(e) BY <1>1, <2>1 DEF ShapeInv, Shape, Job, Ops
  <2>3. lead[e] \in Lead BY <1>1, <2>2 DEF Known, ShapeInv, TypeOK
  <2>4. p \in Passwords \cup {Generated} BY <1>1 DEF Job
  <2>5. ASSUME NEW sso \in BOOLEAN PROVE Doc(sso) \in Lead
    BY <2>3, <2>4 DEF Lead
  <2>6. \E sso \in BOOLEAN : lead' = [lead EXCEPT ![e] = Doc(sso)]
    BY <1>1, <1>6, <2>3 DEF EditLead, ShapeInv, TypeOK, Lead
  <2>7. QED BY <2>5, <2>6
<1>7. Step(r) => \/ SaveLead(r) \/ MarkVerified(r) \/ SetLocal(r)
                 \/ EditLead(r) \/ UNCHANGED lead
  BY DEF Step, EnsurePassword, IssueSession, SendMail, ForgetSession,
         ConfirmCheck, SyncCognito, UpdateCognito
<1>8. QED BY <1>1, <1>2, <1>3, <1>4, <1>5, <1>6, <1>7

LEMMA InitShape == Init => ShapeInv
<1> SUFFICES ASSUME Init PROVE ShapeInv OBVIOUS
<1>1. issued \in Seq(Requests) /\ lapsed \in 0..Len(issued)
  BY DEF Init
<1>2. TypeOK BY <1>1 DEF Init, TypeOK, Places
<1>3. QED BY <1>2 DEF Init, ShapeInv, Shape

\* Types other than those of pc and job are kept by every step of a handler.
LEMMA StepTypes ==
  ASSUME ShapeInv, NoneAssumption, NEW r \in Requests, Step(r)
  PROVE  TypeOK'
<1>1. /\ pc[r] # "idle" /\ job[r] \in Job /\ Moves(r)
      /\ job[r].email \in Emails /\ job[r].password \in Passwords \cup {Generated}
  BY StepMoves DEF Moves, ShapeInv, Shape, Job
<1>2. lead' \in [Emails -> Lead \cup {None}]
  BY LeadChange DEF ShapeInv, TypeOK
<1>3. cognito' \in [Emails -> Passwords \cup {Generated, None}]
  BY <1>1 DEF Step, SaveLead, EnsurePassword, IssueSession, SendMail,
       ForgetSession, MarkVerified, ConfirmCheck, SetLocal, SyncCognito,
       UpdateCognito, EditLead, codes, ShapeInv, TypeOK
<1>4. otpSession' \in [Emails -> Requests \cup {None}]
  BY <1>1 DEF Step, SaveLead, EnsurePassword, IssueSession, SendMail,
       ForgetSession, MarkVerified, ConfirmCheck, SetLocal, SyncCognito,
       UpdateCognito, EditLead, codes, ShapeInv, TypeOK
<1>5. issued' \in Seq(Requests) /\ lapsed' \in 0..Len(issued')
  <2>1. lapsed' = lapsed /\ (issued' = issued \/ issued' = Append(issued, r))
    BY DEF Step, SaveLead, EnsurePassword, IssueSession, SendMail,
       ForgetSession, MarkVerified, ConfirmCheck, SetLocal, SyncCognito,
       UpdateCognito, EditLead, codes
  <2>2. issued \in Seq(Requests) /\ lapsed \in 0..Len(issued)
    BY DEF ShapeInv, TypeOK
  <2>3. QED BY <2>1, <2>2
<1>6. /\ mailed' \subseteq Requests
      /\ lastMail' \in [Emails -> Requests \cup {None}]
  BY <1>1 DEF Step, SaveLead, EnsurePassword, IssueSession, SendMail,
       ForgetSession, MarkVerified, ConfirmCheck, SetLocal, SyncCognito,
       UpdateCognito, EditLead, codes, ShapeInv, TypeOK
<1>7. accepted' \subseteq [by : Requests, code : Requests]
  <2>1. accepted \subseteq [by : Requests, code : Requests]
    BY DEF ShapeInv, TypeOK
  <2>2. ASSUME ConfirmCheck(r)
        PROVE  accepted' \subseteq [by : Requests, code : Requests]
    <3>1. CASE Accepts(job[r].email, job[r].code)
      <4>1. job[r].code \in Requests
        <5>1. pc[r] = "check" BY <2>2 DEF ConfirmCheck, Goto
        <5>2. job[r].op = "confirm"
          BY <1>1, <5>1 DEF ShapeInv, Shape, Job, Ops
        <5>3. QED BY <1>1, <5>2 DEF ShapeInv, Shape
      <4>2. QED BY <2>1, <2>2, <4>1 DEF ConfirmCheck
    <3>2. CASE ~Accepts(job[r].email, job[r].code)
      BY <2>1, <2>2, <3>2 DEF ConfirmCheck
    <3>3. QED BY <3>1, <3>2
  <2>3. ASSUME UNCHANGED accepted
        PROVE  accepted' \subseteq [by : Requests, code : Requests]
    BY <2>1, <2>3
  <2>4. ConfirmCheck(r) \/ UNCHANGED accepted
    BY DEF Step, SaveLead, EnsurePassword, IssueSession, SendMail,
       ForgetSession, MarkVerified, SetLocal, SyncCognito, UpdateCognito,
       EditLead
  <2>5. QED BY <2>2, <2>3, <2>4
<1>8. failed' \subseteq Requests
  BY <1>1 DEF Step, SaveLead, EnsurePassword, IssueSession, SendMail,
       ForgetSession, MarkVerified, ConfirmCheck, SetLocal, SyncCognito,
       UpdateCognito, EditLead, ShapeInv, TypeOK
<1>9. pc' \in [Requests -> Places] /\ job' \in [Requests -> Job \cup {None}]
  BY <1>1 DEF Moves, ShapeInv, TypeOK
<1>10. QED
  BY <1>2, <1>3, <1>4, <1>5, <1>6, <1>7, <1>8, <1>9 DEF TypeOK

\* The edges of the paths of the operations.
PathStep(r) ==
  LET op == job[r].op
  IN /\ pc[r] = "save" => pc'[r] \in {"done"} \/ (op = "signup" /\ pc'[r] = "issue")
     /\ pc[r] = "ensure" => pc'[r] = "issue"
     /\ pc[r] = "issue" => pc'[r] = "mail"
     /\ pc[r] = "mail" => pc'[r] = "done"
     /\ pc[r] = "check" => pc'[r] \in {"local", "done"}
     /\ pc[r] = "local" =>
          pc'[r] \in IF op = "update" THEN {"done"} ELSE {"forget", "cognito"}
     /\ pc[r] = "cognito" =>
          pc'[r] \in IF op = "update" THEN {"done", "local"} ELSE {"forget"}
     /\ pc[r] = "forget" =>
          pc'[r] \in IF op = "verify" THEN {"mark"} ELSE {"done"}
     /\ pc[r] \in {"mark", "edit"} => pc'[r] = "done"

LEMMA StepShape ==
  ASSUME ShapeInv, NoneAssumption, NEW r \in Requests, Step(r)
  PROVE  ShapeInv'
<1>1. TypeOK' BY StepTypes
<1>2. /\ pc[r] \notin {"idle", "done"} /\ job' = job /\ Moves(r)
      /\ pc \in [Requests -> Places]
  BY StepMoves DEF Moves, ShapeInv, TypeOK
<1>3. ASSUME NEW e \in Emails, Known(e) PROVE Known(e)'
  BY <1>3, LeadChange, NoneAssumption DEF Known, ShapeInv, TypeOK
<1>4. Shape(r)'
  <2>1. /\ job[r] \in Job /\ job[r].email \in Emails
        /\ job[r].op \in Ops
    BY <1>2 DEF ShapeInv, Shape, Job
  <2>2. job[r].op \in {"confirm", "update", "edit"} => Known(job[r].email)'
    BY <1>2, <1>3, <2>1 DEF ShapeInv, Shape
  <2>3. Shape(r) BY DEF ShapeInv
  <2>4. pc'[r] \in
          {"issue", "mail", "check", "local", "cognito", "forget", "mark",
           "edit", "done"} /\ PathStep(r)
    BY <1>2, <2>1, <2>3 DEF Step, SaveLead, EnsurePassword, IssueSession,
       SendMail, ForgetSession, MarkVerified, ConfirmCheck, SetLocal,
       SyncCognito, UpdateCognito, EditLead, Goto, Is, PathStep, Shape, Ops
  <2>5. QED
    BY <1>2, <2>1, <2>2, <2>3, <2>4 DEF Shape, Ops, PathStep
<1>5. ASSUME NEW q \in Requests, q # r PROVE Shape(q)'
  <2>1. pc'[q] = pc[q] /\ job'[q] = job[q]
    BY <1>2, <1>5 DEF Moves
  <2>2. pc[q] # "idle" => job[q].email \in Emails
    BY DEF ShapeInv, Shape, Job
  <2>3. QED BY <1>3, <2>1, <2>2 DEF ShapeInv, Shape
<1>6. QED BY <1>1, <1>4, <1>5 DEF ShapeInv

LEMMA AbortShape ==
  ASSUME ShapeInv, NEW r \in Requests, Abort(r) PROVE ShapeInv'
<1>1. /\ pc[r] \notin {"idle", "done"} /\ pc' = [pc EXCEPT ![r] = "done"]
      /\ failed' = failed \cup {r}
      /\ UNCHANGED <<lead, cognito, otpSession, issued, lapsed, mailed,
                     lastMail, accepted, job>>
  BY DEF Abort, Running, codes
<1>2. TypeOK' BY <1>1 DEF ShapeInv, TypeOK, Places
<1>3. ASSUME NEW q \in Requests PROVE Shape(q)'
  BY <1>1 DEF ShapeInv, TypeOK, Shape, Known
<1>4. QED BY <1>2, <1>3 DEF ShapeInv

LEMMA ExpireShape == ASSUME ShapeInv, Expire PROVE ShapeInv'
<1>1. TypeOK'
  <2>1. lapsed' \in 0..Len(issued)
    <3>1. Len(issued) \in Nat BY DEF ShapeInv, TypeOK
    <3>2. QED BY <3>1 DEF Expire, ShapeInv, TypeOK
  <2>2. QED BY <2>1 DEF Expire, ShapeInv, TypeOK
<1>2. ASSUME NEW q \in Requests PROVE Shape(q)'
  BY DEF Expire, ShapeInv, Shape, Known
<1>3. QED BY <1>1, <1>2 DEF ShapeInv

\* What an arriving request does, whichever it is.
Arrival(r, e, op, c, p, place) ==
  LET j == [op |-> op, email |-> e, code |-> c, password |-> p,
            lead |-> lead[e], after |-> {q \in Requests : pc[q] = "done"}]
  IN /\ pc[r] = "idle"
     /\ job' = [job EXCEPT ![r] = j]
     /\ pc' = [pc EXCEPT ![r] = place]
     /\ op \in {"confirm", "update", "edit"} => Known(e)
     /\ op \in {"verify", "confirm"} => c \in Requests
     /\ op = "verify" => Accepts(e, c)
     /\ place = "save" => ~Verified(e)
     /\ op = "forgot" => Verified(e)
     /\ <<op, place>> \in
          {<<"signup", "save">>, <<"onboard", "save">>,
           <<"google", "save">>, <<"google", "mark">>,
           <<"regenerate", "issue">>, <<"forgot", "ensure">>,
           <<"verify", "forget">>, <<"confirm", "check">>,
           <<"update", "cognito">>, <<"edit", "edit">>}
     /\ accepted' = IF op = "verify"
                    THEN accepted \cup {[by |-> r, code |-> c]} ELSE accepted
     /\ UNCHANGED <<lead, cognito, otpSession, issued, lapsed, mailed,
                    lastMail, failed>>

LEMMA ArriveArrival ==
  ASSUME ShapeInv, NEW r \in Requests, NEW e \in Emails, Arrive(r, e)
  PROVE  \E op \in Operations, c \in Requests \cup {None},
            p \in Passwords \cup {Generated},
            place \in Places \ {"idle", "done"} :
              Arrival(r, e, op, c, p, place)
<1>0. mailed \subseteq Requests BY DEF ShapeInv, TypeOK
<1> DEFINE Goal == \E op \in Operations, c \in Requests \cup {None},
                      p \in Passwords \cup {Generated},
                      place \in Places \ {"idle", "done"} :
                        Arrival(r, e, op, c, p, place)
<1>1. ASSUME GoogleRead(r, e) PROVE Goal
  <2>1. PICK place \in {"save", "mark"} :
          Arrival(r, e, "google", None, Generated, place)
    BY <1>1 DEF GoogleRead, Start, codes, Arrival
  <2>2. "google" \in Operations BY <1>1 DEF GoogleRead, Start
  <2>3. QED BY <2>1, <2>2 DEF Places
<1>2. ASSUME RegenerateRead(r, e) PROVE Goal
  <2>1. Arrival(r, e, "regenerate", None, Generated, "issue")
    BY <1>2 DEF RegenerateRead, Start, codes, Arrival
  <2>2. "regenerate" \in Operations BY <1>2 DEF RegenerateRead, Start
  <2>3. QED BY <2>1, <2>2 DEF Places
<1>3. ASSUME ForgotRead(r, e) PROVE Goal
  <2>1. Arrival(r, e, "forgot", None, Generated, "ensure")
    BY <1>3 DEF ForgotRead, Start, codes, Arrival
  <2>2. "forgot" \in Operations BY <1>3 DEF ForgotRead, Start
  <2>3. QED BY <2>1, <2>2 DEF Places
<1>4. ASSUME NEW p \in Passwords, SignUpRead(r, e, p) PROVE Goal
  <2>1. Arrival(r, e, "signup", None, p, "save")
    BY <1>4 DEF SignUpRead, MaySignUp, Start, codes, Arrival
  <2>2. "signup" \in Operations BY <1>4 DEF SignUpRead, Start
  <2>3. QED BY <2>1, <2>2 DEF Places
<1>5. ASSUME NEW p \in Passwords, OnboardRead(r, e, p) PROVE Goal
  <2>1. Arrival(r, e, "onboard", None, p, "save")
    BY <1>5 DEF OnboardRead, Verified, Start, codes, Arrival
  <2>2. "onboard" \in Operations BY <1>5 DEF OnboardRead, Start
  <2>3. QED BY <2>1, <2>2 DEF Places
<1>6. ASSUME NEW p \in Passwords, UpdateRead(r, e, p) PROVE Goal
  <2>1. Arrival(r, e, "update", None, p, "cognito")
    BY <1>6 DEF UpdateRead, Start, codes, Arrival, Verified
  <2>2. "update" \in Operations BY <1>6 DEF UpdateRead, Start
  <2>3. QED BY <2>1, <2>2 DEF Places
<1>7. ASSUME NEW c \in mailed, VerifyCheck(r, e, c) PROVE Goal
  <2>1. Arrival(r, e, "verify", c, Generated, "forget")
    BY <1>0, <1>7 DEF VerifyCheck, Accepts, Start, codes, Arrival
  <2>2. "verify" \in Operations BY <1>7 DEF VerifyCheck, Start
  <2>3. QED BY <1>0, <2>1, <2>2 DEF Places
<1>8. ASSUME NEW c \in mailed, NEW p \in Passwords, ConfirmRead(r, e, c, p)
      PROVE  Goal
  <2>1. Arrival(r, e, "confirm", c, p, "check")
    BY <1>0, <1>8 DEF ConfirmRead, Start, codes, Arrival, Verified
  <2>2. "confirm" \in Operations BY <1>8 DEF ConfirmRead, Start
  <2>3. QED BY <1>0, <2>1, <2>2 DEF Places
<1>9. ASSUME NEW p \in Passwords, EditRead(r, e, p) PROVE Goal
  <2>1. Arrival(r, e, "edit", None, p, "edit")
    BY <1>9 DEF EditRead, Start, codes, Arrival
  <2>2. "edit" \in Operations BY <1>9 DEF EditRead, Start
  <2>3. QED BY <2>1, <2>2 DEF Places
<1>10. QED BY <1>1, <1>2, <1>3, <1>4, <1>5, <1>6, <1>7, <1>8, <1>9 DEF Arrive

\* A request that starts holds a job that fits its first place.
LEMMA ArriveShape ==
  ASSUME ShapeInv, InstanceAssumption,
         NEW r \in Requests, NEW e \in Emails, Arrive(r, e)
  PROVE  ShapeInv'
<1>1. PICK op \in Operations, c \in Requests \cup {None},
           p \in Passwords \cup {Generated},
           place \in Places \ {"idle", "done"} : Arrival(r, e, op, c, p, place)
  BY ArriveArrival
<1> DEFINE j == [op |-> op, email |-> e, code |-> c, password |-> p,
                 lead |-> lead[e], after |-> {q \in Requests : pc[q] = "done"}]
<1>2. j \in Job
  <2>1. op \in Ops BY InstanceAssumption
  <2>2. lead[e] \in Lead \cup {None} BY DEF ShapeInv, TypeOK
  <2>3. QED BY <2>1, <2>2 DEF Job
<1>3. /\ j.op = op /\ j.email = e /\ j.code = c /\ j.lead = lead[e]
  OBVIOUS
<1> HIDE DEF j
<1>4. /\ job' = [job EXCEPT ![r] = j] /\ pc' = [pc EXCEPT ![r] = place]
      /\ pc[r] = "idle"
  BY <1>1 DEF j, Arrival
<1>5. TypeOK'
  <2>1. accepted' \subseteq [by : Requests, code : Requests]
    BY <1>1 DEF ShapeInv, TypeOK, Arrival
  <2>2. job' \in [Requests -> Job \cup {None}] /\ pc' \in [Requests -> Places]
    BY <1>2, <1>4 DEF ShapeInv, TypeOK
  <2>3. QED BY <1>1, <2>1, <2>2 DEF ShapeInv, TypeOK, Arrival
<1>6. job'[r] = j /\ pc'[r] = place BY <1>4 DEF ShapeInv, TypeOK
<1>7. Shape(r)'
  <2>1. op = "confirm" => lead[e] \in Lead
    BY <1>1 DEF Known, ShapeInv, TypeOK, Arrival
  <2>2. Known(e)' = Known(e) BY <1>1 DEF Known, Arrival
  <2>3. QED BY <1>1, <1>2, <1>3, <1>6, <2>1, <2>2 DEF Shape, Arrival
<1>8. ASSUME NEW q \in Requests, q # r PROVE Shape(q)'
  <2>1. pc'[q] = pc[q] /\ job'[q] = job[q] BY <1>4, <1>8 DEF ShapeInv, TypeOK
  <2>2. lead' = lead BY <1>1 DEF Arrival
  <2>3. QED BY <2>1, <2>2 DEF ShapeInv, Shape, Known
<1>9. QED BY <1>5, <1>7, <1>8 DEF ShapeInv

LEMMA NextShape ==
  ASSUME ShapeInv, InstanceAssumption, NoneAssumption, [Next]_vars
  PROVE  ShapeInv'
<1>1. CASE UNCHANGED vars
  BY <1>1 DEF vars, ShapeInv, TypeOK, Shape, Known
<1>2. QED
  BY <1>1, StepShape, AbortShape, ExpireShape, ArriveShape DEF Next

\* Every reachable state is well typed: whatever overlaps or fails, no record
\* is left half written and no handler off its path.
THEOREM TypeCorrect == Spec => []TypeOK
<1>1. Init => ShapeInv BY InitShape
<1>2. ShapeInv /\ [Next]_vars => ShapeInv'
  BY NextShape, InstanceAssumption, NoneAssumption
<1>3. ShapeInv => TypeOK BY DEF ShapeInv
<1>4. QED BY <1>1, <1>2, <1>3, PTL DEF Spec

-----------------------------------------------------------------------------
(* Codes and their use *)

Written(c) == pc[c] \in {"mail", "done"}
LetIn(r) == pc[r] \in {"local", "cognito", "forget", "mark", "done"}

\* A session holds a code that was written, for that address.
SessionOK(e) ==
  otpSession[e] # None =>
    Written(otpSession[e]) /\ job[otpSession[e]].email = e

\* The code of a verification was generated for the address verified.
TypedOK(r) ==
  (pc[r] # "idle" /\ job[r].op = "verify") =>
    Written(job[r].code) /\ job[job[r].code].email = job[r].email

\* A request let in is past its check; once it is past its deletion without
\* failing, the address' session is not its code any more.
AcceptedOK(a) ==
  /\ LetIn(a.by) /\ job[a.by].code = a.code
  /\ job[a.by].op \in {"verify", "confirm"}
  /\ Written(a.code) /\ job[a.code].email = job[a.by].email
  /\ (pc[a.by] \in {"mark", "done"} /\ a.by \notin failed)
       => otpSession[job[a.by].email] # a.code

AfterOK(r) ==
  pc[r] # "idle" => \A q \in job[r].after : q \in Requests /\ pc[q] = "done"

CodeInv ==
  /\ ShapeInv
  /\ \A e \in Emails : SessionOK(e)
  /\ \A r \in Requests : TypedOK(r) /\ AfterOK(r)
  /\ \A a \in accepted : AcceptedOK(a)
  /\ CodeUsedOnce
  /\ VerifiedByOwner

LEMMA InitCode == Init => CodeInv
BY InitShape DEF Init, CodeInv, SessionOK, TypedOK, AfterOK, CodeUsedOnce,
                 VerifiedByOwner, Verified, Known

\* How a handler's step changes sessions and lets requests in.
LEMMA SessionChange ==
  ASSUME ShapeInv, NEW r \in Requests, Step(r)
  PROVE  \/ otpSession' = otpSession
         \/ /\ pc[r] = "issue" /\ pc'[r] = "mail"
            /\ otpSession' = [otpSession EXCEPT ![job[r].email] = r]
         \/ /\ pc[r] = "forget" /\ pc'[r] \in {"mark", "done"}
            /\ otpSession' = [otpSession EXCEPT ![job[r].email] = None]
BY DEF Step, SaveLead, EnsurePassword, IssueSession, SendMail,
       ForgetSession, MarkVerified, ConfirmCheck, SetLocal, SyncCognito,
       UpdateCognito, EditLead, Goto, ShapeInv, TypeOK

LEMMA AcceptChange ==
  ASSUME ShapeInv, NEW r \in Requests, Step(r)
  PROVE  \/ accepted' = accepted
         \/ /\ pc[r] = "check" /\ pc'[r] = "local"
            /\ otpSession[job[r].email] = job[r].code
            /\ otpSession' = otpSession
            /\ accepted' = accepted \cup {[by |-> r, code |-> job[r].code]}
BY DEF Step, SaveLead, EnsurePassword, IssueSession, SendMail,
       ForgetSession, MarkVerified, ConfirmCheck, SetLocal, SyncCognito,
       UpdateCognito, EditLead, Goto, Accepts, ShapeInv, TypeOK

LEMMA WrittenStays ==
  ASSUME ShapeInv, [Next]_vars, NEW c \in Requests, Written(c)
  PROVE  Written(c)' /\ job'[c] = job[c]
<1>1. TypeOK /\ pc[c] # "idle" BY DEF ShapeInv, Written
<1>2. job'[c] = job[c] /\ (pc[c] = "done" => pc'[c] = "done")
  BY <1>1, Frame
<1>3. ASSUME pc[c] = "mail" PROVE pc'[c] \in {"mail", "done"}
  <2>1. CASE UNCHANGED vars \/ Expire BY <1>3, <2>1 DEF vars, Expire
  <2>2. ASSUME NEW r \in Requests, NEW e \in Emails, Arrive(r, e)
        PROVE  pc'[c] \in {"mail", "done"}
    BY <1>3, <2>2, ArriveStarts, <1>1 DEF Starts, TypeOK
  <2>3. ASSUME NEW r \in Requests, Abort(r) PROVE pc'[c] \in {"mail", "done"}
    BY <1>1, <1>3, <2>3 DEF Abort, TypeOK
  <2>4. ASSUME NEW r \in Requests, Step(r) PROVE pc'[c] \in {"mail", "done"}
    <3>1. CASE r # c BY <1>1, <1>3, <2>4, <3>1, StepMoves DEF Moves, TypeOK
    <3>2. CASE r = c
      BY <1>1, <1>3, <2>4, <3>2 DEF Step, SaveLead, EnsurePassword,
         IssueSession, SendMail, ForgetSession, MarkVerified, ConfirmCheck,
         SetLocal, SyncCognito,
         UpdateCognito, EditLead, Goto, TypeOK
    <3>3. QED BY <3>1, <3>2
  <2>5. QED BY <2>1, <2>2, <2>3, <2>4 DEF Next
<1>4. QED BY <1>2, <1>3 DEF Written

\* Only a Google sign-in or a verification makes a lead verified.
LEMMA WhoVerifies ==
  ASSUME ShapeInv, NoneAssumption, NEW r \in Requests, Step(r),
         NEW e \in Emails, Verified(e)', ~Verified(e)
  PROVE  job[r].email = e /\ job[r].op \in {"google", "verify"}
<1>1. /\ pc[r] # "idle" /\ job[r] \in Job /\ job[r].email \in Emails
      /\ job' = job
  BY StepMoves DEF Moves, ShapeInv, Shape, Job
<1>2. lead' # lead BY DEF Verified, Known
<1>3. job[r].email = e
  <2>1. PICK doc \in Lead : lead' = [lead EXCEPT ![job[r].email] = doc]
    BY <1>2, LeadChange
  <2>2. job[r].email # e => lead'[e] = lead[e]
    BY <2>1 DEF ShapeInv, TypeOK
  <2>3. QED BY <2>2 DEF Verified, Known
<1>4. CASE SaveLead(r)
  <2>1. lead' = [lead EXCEPT ![e] =
                   [password |-> job[r].password,
                    verified |-> IF Known(e) THEN lead[e].verified
                                 ELSE job[r].op = "google",
                    sso |-> job[r].op = "google"]]
    BY <1>2, <1>3, <1>4 DEF SaveLead
  <2>2. lead'[e].verified = IF Known(e) THEN lead[e].verified
                            ELSE job[r].op = "google"
    BY <2>1 DEF ShapeInv, TypeOK
  <2>3. Known(e) => ~lead[e].verified BY DEF Verified
  <2>4. QED BY <1>3, <2>2, <2>3 DEF Verified
<1>5. CASE MarkVerified(r)
  <2>1. pc[r] = "mark" BY <1>5 DEF MarkVerified, Goto
  <2>2. job[r].op \in {"google", "verify"}
    BY <1>1, <2>1 DEF ShapeInv, Shape, Job, Ops
  <2>3. QED BY <1>3, <2>2
<1>6. CASE SetLocal(r)
  <2>1. Known(e)
    <3>1. pc[r] = "local" BY <1>6 DEF SetLocal, Goto
    <3>2. QED BY <1>1, <1>3, <3>1 DEF ShapeInv, Shape, Job, Ops
  <2>2. lead[e] \in Lead BY <2>1 DEF Known, ShapeInv, TypeOK
  <2>3. lead'[e].verified = lead[e].verified
    BY <1>3, <1>6, <2>2 DEF SetLocal, ShapeInv, TypeOK, Lead
  <2>4. QED BY <2>1, <2>3 DEF Verified
<1>7. CASE EditLead(r)
  <2>1. Known(e)
    <3>1. pc[r] = "edit" BY <1>7 DEF EditLead, Goto
    <3>2. QED BY <1>1, <1>3, <3>1 DEF ShapeInv, Shape, Job, Ops
  <2>2. lead[e] \in Lead BY <2>1 DEF Known, ShapeInv, TypeOK
  <2>3. lead'[e].verified = lead[e].verified
    BY <1>3, <1>7, <2>2 DEF EditLead, ShapeInv, TypeOK, Lead
  <2>4. QED BY <2>1, <2>3 DEF Verified
<1>8. QED
  BY <1>2, <1>4, <1>5, <1>6, <1>7 DEF Step, EnsurePassword, IssueSession,
     SendMail, ForgetSession, ConfirmCheck, SyncCognito, UpdateCognito

\* The parts that need only that begun requests keep what they hold.
LEMMA KeptByAll ==
  ASSUME CodeInv, [Next]_vars
  PROVE  /\ \A r \in Requests : pc[r] # "idle" => TypedOK(r)' /\ AfterOK(r)'
         /\ \A a \in accepted :
              /\ job'[a.by] = job[a.by] /\ job'[a.code] = job[a.code]
              /\ Written(a.code)'
<1>1. TypeOK /\ ShapeInv BY DEF CodeInv, ShapeInv
<1>2. ASSUME NEW r \in Requests, pc[r] # "idle"
      PROVE  TypedOK(r)' /\ AfterOK(r)'
  <2>1. job'[r] = job[r] BY <1>1, <1>2, Frame
  <2>2. TypedOK(r)'
    <3>1. CASE job[r].op = "verify"
      <4>1. /\ job[r].code \in Requests /\ Written(job[r].code)
            /\ job[job[r].code].email = job[r].email
        BY <1>1, <1>2, <3>1 DEF CodeInv, TypedOK, ShapeInv, Shape
      <4>2. Written(job[r].code)' /\ job'[job[r].code] = job[job[r].code]
        <5> DEFINE c == job[r].code
        <5>1. c \in Requests /\ Written(c) BY <4>1
        <5> HIDE DEF c
        <5>2. pc'[c] \in {"mail", "done"} /\ job'[c] = job[c]
          BY <1>1, <5>1, WrittenStays DEF Written
        <5>3. QED BY <2>1, <5>2 DEF c, Written
      <4>3. QED BY <2>1, <4>1, <4>2 DEF TypedOK
    <3>2. QED BY <2>1, <3>1 DEF TypedOK
  <2>3. AfterOK(r)'
    BY <1>1, <1>2, <2>1, Frame DEF CodeInv, AfterOK
  <2>4. QED BY <2>2, <2>3
<1>3. ASSUME NEW a \in accepted
      PROVE  /\ job'[a.by] = job[a.by] /\ job'[a.code] = job[a.code]
             /\ Written(a.code)'
  <2>1. a.by \in Requests /\ a.code \in Requests BY <1>1, <1>3 DEF TypeOK
  <2>2. LetIn(a.by) /\ Written(a.code) BY <1>3 DEF CodeInv, AcceptedOK
  <2>3. pc[a.by] # "idle" BY <2>2 DEF LetIn
  <2>4. job'[a.by] = job[a.by] BY <1>1, <2>1, <2>3, Frame
  <2>5. ASSUME NEW c \in Requests, Written(c)
        PROVE  pc'[c] \in {"mail", "done"} /\ job'[c] = job[c]
    BY <1>1, <2>5, WrittenStays DEF Written
  <2>6. QED BY <2>1, <2>2, <2>4, <2>5 DEF Written
<1>4. QED BY <1>2, <1>3

\* Sessions hold written codes of their address.
LEMMA SessionsKept ==
  ASSUME CodeInv, [Next]_vars, NEW e \in Emails
  PROVE  SessionOK(e)'
<1>1. ShapeInv /\ TypeOK BY DEF CodeInv, ShapeInv
<1>2. CASE otpSession'[e] = otpSession[e]
  <2>1. SUFFICES ASSUME otpSession[e] # None PROVE SessionOK(e)'
    BY <1>2 DEF SessionOK
  <2> DEFINE c == otpSession[e]
  <2>2. c \in Requests /\ Written(c) /\ job[c].email = e
    BY <1>1, <2>1 DEF CodeInv, SessionOK, TypeOK
  <2> HIDE DEF c
  <2>3. pc'[c] \in {"mail", "done"} /\ job'[c] = job[c]
    BY <1>1, <2>2, WrittenStays DEF Written
  <2>4. QED BY <1>2, <2>2, <2>3 DEF SessionOK, Written, c
<1>3. ASSUME NEW r \in Requests, Step(r) PROVE SessionOK(e)'
  <2>1. job' = job /\ job[r] \in Job /\ job[r].email \in Emails
    BY <1>1, <1>3, StepMoves DEF Moves, ShapeInv, Shape, Job
  <2>2. \/ otpSession' = otpSession
        \/ /\ pc'[r] = "mail"
           /\ otpSession' = [otpSession EXCEPT ![job[r].email] = r]
        \/ otpSession' = [otpSession EXCEPT ![job[r].email] = None]
    BY <1>1, <1>3, SessionChange
  <2>3. QED BY <1>1, <1>2, <2>1, <2>2 DEF SessionOK, Written, TypeOK
<1>4. ASSUME NEW r \in Requests, NEW d \in Emails, Arrive(r, d)
      PROVE  SessionOK(e)'
  <2>1. otpSession' = otpSession
    BY <1>1, <1>4, ArriveArrival DEF Arrival
  <2>2. QED BY <1>2, <2>1
<1>5. CASE UNCHANGED vars \/ Expire \/ \E r \in Requests : Abort(r)
  BY <1>2, <1>5 DEF vars, Expire, Abort
<1>6. QED BY <1>3, <1>4, <1>5 DEF Next

\* A request let in past its deletion leaves no trace of its code.
LEMMA StepAccepted ==
  ASSUME CodeInv, NEW r \in Requests, Step(r), [Next]_vars
  PROVE  (\A a \in accepted : AcceptedOK(a))' /\ CodeUsedOnce'
<1>1. ShapeInv /\ TypeOK BY DEF CodeInv, ShapeInv
<1>2. /\ job' = job /\ pc[r] \notin {"idle", "done"} /\ job[r] \in Job
      /\ job[r].email \in Emails /\ job[r].op \in Ops
      /\ pc' = [pc EXCEPT ![r] = pc'[r]]
  BY <1>1, StepMoves DEF Moves, ShapeInv, Shape, Job, TypeOK
<1>3. failed \subseteq failed'
  BY DEF Step, SaveLead, EnsurePassword, IssueSession, SendMail,
       ForgetSession, MarkVerified, ConfirmCheck, SetLocal, SyncCognito,
       UpdateCognito, EditLead
<1>4. ASSUME NEW a \in accepted PROVE AcceptedOK(a)'
  <2>1. /\ a.by \in Requests /\ a.code \in Requests /\ AcceptedOK(a)
        /\ job[a.by].email \in Emails
    BY <1>1, <1>4 DEF CodeInv, TypeOK, AcceptedOK, LetIn, ShapeInv, Shape, Job
  <2>2. Written(a.code)' BY <1>4, KeptByAll
  <2>3. LetIn(a.by)'
    <3>1. CASE a.by # r BY <1>1, <1>2, <2>1, <3>1 DEF AcceptedOK, LetIn, TypeOK
    <3>2. CASE a.by = r
      BY <1>1, <1>2, <2>1, <3>2 DEF AcceptedOK, LetIn, Step, SaveLead,
         EnsurePassword, IssueSession, SendMail, ForgetSession, MarkVerified,
         ConfirmCheck, SetLocal, SyncCognito,
         UpdateCognito, EditLead, Goto, TypeOK
    <3>3. QED BY <3>1, <3>2
  <2>4. ASSUME pc'[a.by] \in {"mark", "done"}, a.by \notin failed'
        PROVE  otpSession'[job[a.by].email] # a.code
    <3>1. \/ otpSession' = otpSession
          \/ /\ pc[r] = "issue"
             /\ otpSession' = [otpSession EXCEPT ![job[r].email] = r]
          \/ otpSession' = [otpSession EXCEPT ![job[r].email] = None]
      BY <1>1, SessionChange
    <3>2. r = a.code => pc[r] # "issue"
      BY <2>1 DEF AcceptedOK, Written
    <3>3. CASE pc[a.by] \in {"mark", "done"}
      <4>1. otpSession[job[a.by].email] # a.code
        BY <1>3, <2>1, <2>4, <3>3 DEF AcceptedOK
      <4>2. QED BY <1>1, <1>2, <2>1, <3>1, <3>2, <4>1, NoneAssumption DEF TypeOK
    <3>4. CASE pc[a.by] \notin {"mark", "done"}
      <4>1. a.by = r BY <1>1, <1>2, <2>1, <2>4, <3>4 DEF TypeOK
      <4>2. job[r].op \in {"verify", "confirm"} /\ LetIn(r)
        BY <2>1, <4>1 DEF AcceptedOK
      <4>3. pc[r] = "forget"
        BY <1>1, <1>2, <2>1, <2>4, <3>4, <4>1, <4>2 DEF LetIn, Step, SaveLead,
         EnsurePassword, IssueSession, SendMail, ForgetSession, MarkVerified,
         ConfirmCheck, SetLocal, SyncCognito,
         UpdateCognito, EditLead, Goto, TypeOK, Is
      <4>4. otpSession' = [otpSession EXCEPT ![job[r].email] = None]
        BY <4>3 DEF Step, SaveLead, EnsurePassword, IssueSession, SendMail,
         ForgetSession, MarkVerified, ConfirmCheck, SetLocal, SyncCognito,
         UpdateCognito, EditLead, Goto
      <4>5. QED BY <1>1, <1>2, <2>1, <4>1, <4>4, NoneAssumption DEF TypeOK
    <3>5. QED BY <3>3, <3>4
  <2>5. QED BY <1>2, <2>1, <2>2, <2>3, <2>4 DEF AcceptedOK
<1>5. CASE accepted' = accepted
  BY <1>2, <1>3, <1>4, <1>5 DEF CodeInv, CodeUsedOnce
<1>6. CASE accepted' # accepted
  <2> DEFINE new == [by |-> r, code |-> job[r].code]
  <2>1. /\ pc[r] = "check" /\ pc'[r] = "local"
        /\ otpSession[job[r].email] = job[r].code /\ otpSession' = otpSession
        /\ accepted' = accepted \cup {new}
    BY <1>1, <1>6, AcceptChange
  <2>2. job[r].op = "confirm" /\ job[r].code \in Requests
    BY <1>1, <1>2, <2>1 DEF ShapeInv, Shape, Ops
  <2>3. /\ Written(job[r].code) /\ job[job[r].code].email = job[r].email
    BY <1>2, <2>1, <2>2, NoneAssumption DEF CodeInv, SessionOK
  <2>4. ASSUME NEW a, a = new PROVE AcceptedOK(a)'
    <3>1. Written(job[r].code)'
      <4> DEFINE c == job[r].code
      <4>1. c \in Requests /\ Written(c) BY <2>2, <2>3
      <4> HIDE DEF c
      <4>2. pc'[c] \in {"mail", "done"} BY <1>1, <4>1, WrittenStays DEF Written
      <4>3. QED BY <1>2, <4>2 DEF c, Written
    <3>2. /\ a.by = r /\ a.code = job[r].code BY <2>4
    <3>3. QED BY <1>2, <2>1, <2>2, <2>3, <3>1, <3>2 DEF AcceptedOK, LetIn
  <2>5. ASSUME NEW a \in accepted, a.code = job[r].code, a.by \notin failed
        PROVE  a.by \notin job[r].after
    <3>1. AcceptedOK(a) BY <2>5 DEF CodeInv
    <3>2. pc[a.by] # "done" BY <2>1, <2>3, <2>5, <3>1 DEF AcceptedOK
    <3>3. QED BY <1>2, <3>2 DEF CodeInv, AfterOK
  <2>6. r \notin job[r].after BY <1>2, <2>1 DEF CodeInv, AfterOK
  <2>7. ASSUME NEW b \in accepted PROVE r \notin job[b.by].after
    <3>1. b.by \in Requests /\ pc[b.by] # "idle"
      BY <1>1, <2>7 DEF CodeInv, AcceptedOK, LetIn, TypeOK
    <3>2. QED BY <1>2, <3>1 DEF CodeInv, AfterOK
  <2>8. CodeUsedOnce'
    <3> SUFFICES ASSUME NEW a \in accepted \cup {new},
                        NEW b \in accepted \cup {new},
                        a.code = b.code, a.by \notin failed',
                        a.by \in job[b.by].after
                 PROVE  FALSE
      BY <1>2, <2>1 DEF CodeUsedOnce
    <3>1. a.by \notin failed BY <1>3
    <3>2. CASE a \in accepted /\ b \in accepted
      BY <3>1, <3>2 DEF CodeInv, CodeUsedOnce
    <3>3. CASE a \in accepted /\ b = new BY <2>5, <3>1, <3>3
    <3>4. CASE a = new /\ b \in accepted BY <2>7, <3>4
    <3>5. CASE a = new /\ b = new BY <2>6, <3>5
    <3>6. QED BY <3>2, <3>3, <3>4, <3>5
  <2>9. QED BY <1>4, <2>1, <2>4, <2>8
<1>7. QED BY <1>5, <1>6

LEMMA ArriveAccepted ==
  ASSUME CodeInv, NEW r \in Requests, NEW e \in Emails, Arrive(r, e),
         [Next]_vars
  PROVE  /\ (\A a \in accepted : AcceptedOK(a))' /\ CodeUsedOnce'
         /\ TypedOK(r)' /\ AfterOK(r)'
<1>1. ShapeInv /\ TypeOK BY DEF CodeInv, ShapeInv
<1>2. PICK op \in Operations, c \in Requests \cup {None},
           p \in Passwords \cup {Generated},
           place \in Places \ {"idle", "done"} : Arrival(r, e, op, c, p, place)
  BY <1>1, ArriveArrival
<1> DEFINE j == [op |-> op, email |-> e, code |-> c, password |-> p,
                 lead |-> lead[e], after |-> {q \in Requests : pc[q] = "done"}]
<1>3. /\ pc[r] = "idle" /\ job' = [job EXCEPT ![r] = j]
      /\ pc' = [pc EXCEPT ![r] = place]
      /\ op = "verify" => c \in Requests /\ otpSession[e] = c
      /\ op = "verify" => place = "forget"
      /\ accepted' = IF op = "verify"
                     THEN accepted \cup {[by |-> r, code |-> c]} ELSE accepted
      /\ otpSession' = otpSession /\ failed' = failed
  BY <1>2 DEF Arrival, Accepts
<1>4. /\ j.op = op /\ j.email = e /\ j.code = c
      /\ \A q \in j.after : q \in Requests /\ pc[q] = "done"
  OBVIOUS
<1> HIDE DEF j
<1>5. job'[r] = j /\ pc'[r] = place BY <1>1, <1>3 DEF TypeOK
<1>6. \A q \in Requests : q # r => job'[q] = job[q] /\ pc'[q] = pc[q]
  BY <1>1, <1>3 DEF TypeOK
<1>7. op = "verify" => c # r /\ Written(c) /\ job[c].email = e
  <2>1. op = "verify" => Written(c) /\ job[c].email = e
    BY <1>3, NoneAssumption DEF CodeInv, SessionOK
  <2>2. QED BY <1>3, <2>1 DEF Written
<1>8. TypedOK(r)' BY <1>3, <1>4, <1>5, <1>6, <1>7 DEF TypedOK, Written
<1>9. AfterOK(r)' BY <1>3, <1>4, <1>5, <1>6 DEF AfterOK
<1>10. ASSUME NEW a \in accepted
       PROVE  /\ AcceptedOK(a)' /\ a.by # r /\ a.by \in Requests
              /\ job'[a.by] = job[a.by]
  <2>1. a.by \in Requests /\ a.code \in Requests /\ AcceptedOK(a)
    BY <1>1, <1>10 DEF CodeInv, TypeOK
  <2>2. a.by # r /\ a.code # r
    BY <1>3, <2>1 DEF AcceptedOK, LetIn, Written
  <2>3. QED BY <1>3, <1>6, <2>1, <2>2 DEF AcceptedOK, LetIn, Written
<1>11. CASE op # "verify"
  BY <1>3, <1>8, <1>9, <1>10, <1>11 DEF CodeInv, CodeUsedOnce
<1>12. CASE op = "verify"
  <2> DEFINE new == [by |-> r, code |-> c]
  <2>1. accepted' = accepted \cup {new} BY <1>3, <1>12
  <2>2. ASSUME NEW a, a = new PROVE AcceptedOK(a)'
    <3>1. a.by = r /\ a.code = c BY <2>2
    <3>2. QED
      BY <1>3, <1>4, <1>5, <1>6, <1>7, <1>12, <3>1
      DEF AcceptedOK, LetIn, Written
  <2>3. ASSUME NEW a \in accepted, a.code = c, a.by \notin failed
        PROVE  a.by \notin j.after
    <3>1. AcceptedOK(a) BY <2>3 DEF CodeInv
    <3>2. pc[a.by] # "done"
      BY <1>3, <1>7, <1>12, <2>3, <3>1 DEF AcceptedOK
    <3>3. QED BY <1>4, <3>2
  <2>4. r \notin j.after BY <1>3, <1>4
  <2>5. ASSUME NEW b \in accepted PROVE r \notin job[b.by].after
    <3>1. b.by \in Requests /\ pc[b.by] # "idle"
      BY <1>1, <2>5 DEF CodeInv, AcceptedOK, LetIn, TypeOK
    <3>2. QED BY <1>3, <3>1 DEF CodeInv, AfterOK
  <2>6. CodeUsedOnce'
    <3> SUFFICES ASSUME NEW a \in accepted \cup {new},
                        NEW b \in accepted \cup {new},
                        a.code = b.code, a.by \notin failed,
                        a.by \in job'[b.by].after
                 PROVE  FALSE
      BY <1>3, <2>1 DEF CodeUsedOnce
    <3>1. CASE a \in accepted /\ b \in accepted
      BY <1>10, <3>1 DEF CodeInv, CodeUsedOnce
    <3>2. CASE a \in accepted /\ b = new
      <4>1. b.by = r /\ b.code = c BY <3>2
      <4>2. QED BY <1>5, <2>3, <3>2, <4>1
    <3>3. CASE a = new /\ b \in accepted
      <4>1. a.by = r BY <3>3
      <4>2. QED BY <1>10, <2>5, <3>3, <4>1
    <3>4. CASE a = new /\ b = new
      <4>1. a.by = r /\ b.by = r BY <3>4
      <4>2. QED BY <1>5, <2>4, <4>1
    <3>5. QED BY <3>1, <3>2, <3>3, <3>4
  <2>7. QED BY <1>8, <1>9, <1>10, <2>1, <2>2, <2>6
<1>13. QED BY <1>11, <1>12

LEMMA AbortAccepted ==
  ASSUME CodeInv, NEW r \in Requests, Abort(r)
  PROVE  (\A a \in accepted : AcceptedOK(a))' /\ CodeUsedOnce'
<1>1. ShapeInv /\ TypeOK BY DEF CodeInv, ShapeInv
<1>2. /\ pc[r] \notin {"idle", "done"} /\ pc' = [pc EXCEPT ![r] = "done"]
      /\ failed' = failed \cup {r} /\ job' = job
      /\ otpSession' = otpSession /\ accepted' = accepted
  BY DEF Abort, Running
<1>3. ASSUME NEW a \in accepted PROVE AcceptedOK(a)'
  <2>1. a.by \in Requests /\ a.code \in Requests /\ AcceptedOK(a)
    BY <1>1, <1>3 DEF CodeInv, TypeOK
  <2>2. QED BY <1>1, <1>2, <2>1 DEF AcceptedOK, LetIn, Written, TypeOK
<1>4. QED BY <1>2, <1>3 DEF CodeInv, CodeUsedOnce

\* Whoever vouched for an address goes on vouching for it.
LEMMA OwnersKept ==
  ASSUME CodeInv, NoneAssumption, [Next]_vars
  PROVE  VerifiedByOwner'
<1>1. ShapeInv /\ TypeOK BY DEF CodeInv, ShapeInv
<1> DEFINE Vouches(r, e) ==
      /\ pc[r] # "idle" /\ job[r].email = e
      /\ \/ job[r].op = "google"
         \/ /\ job[r].op = "verify" /\ job[r].code # None
            /\ pc[job[r].code] # "idle" /\ job[job[r].code].email = e
<1>2. ASSUME NEW r \in Requests, NEW e \in Emails, Vouches(r, e)
      PROVE  Vouches(r, e)'
  <2>1. job'[r] = job[r] /\ pc'[r] # "idle" BY <1>1, <1>2, Frame
  <2>2. CASE job[r].op = "google" BY <1>2, <2>1, <2>2
  <2>3. CASE job[r].op = "verify"
    <3> DEFINE c == job[r].code
    <3>1. c \in Requests /\ pc[c] # "idle" /\ job[c].email = e
      BY <1>1, <1>2, <2>3 DEF ShapeInv, Shape
    <3> HIDE DEF c
    <3>2. job'[c] = job[c] /\ pc'[c] # "idle" BY <1>1, <3>1, Frame
    <3>3. c # None BY <3>1, NoneAssumption
    <3>4. QED BY <1>2, <2>1, <2>3, <3>1, <3>2, <3>3 DEF c
  <2>4. QED BY <1>2, <2>2, <2>3
<1>3. ASSUME NEW e \in Emails, Verified(e)
      PROVE  \E r \in Requests : Vouches(r, e)'
  <2>1. PICK r \in Requests : Vouches(r, e)
    BY <1>3 DEF CodeInv, VerifiedByOwner
  <2>2. QED BY <1>2, <2>1
<1>4. ASSUME NEW e \in Emails, Verified(e)', ~Verified(e)
      PROVE  \E r \in Requests : Vouches(r, e)'
  <2>1. lead' # lead BY <1>4 DEF Verified, Known
  <2>2. PICK r \in Requests : Step(r)
    <3>1. ASSUME NEW r \in Requests, NEW d \in Emails, Arrive(r, d)
          PROVE  lead' = lead
      BY <1>1, <3>1, ArriveArrival DEF Arrival
    <3>2. QED BY <2>1, <3>1 DEF Next, vars, Expire, Abort
  <2>3. job[r].email = e /\ job[r].op \in {"google", "verify"}
    BY <1>1, <1>4, <2>2, WhoVerifies
  <2>4. pc[r] # "idle" BY <2>2, StepMoves DEF Moves
  <2>5. CASE job[r].op = "google"
    <3>1. Vouches(r, e) BY <2>3, <2>4, <2>5
    <3>2. QED BY <1>2, <3>1
  <2>6. CASE job[r].op = "verify"
    <3>1. /\ job[r].code \in Requests /\ Written(job[r].code)
          /\ job[job[r].code].email = e
      BY <1>1, <2>3, <2>4, <2>6 DEF CodeInv, TypedOK, ShapeInv, Shape
    <3>2. job[r].code # None BY <3>1, NoneAssumption
    <3>3. Vouches(r, e) BY <2>3, <2>4, <2>6, <3>1, <3>2 DEF Written
    <3>4. QED BY <1>2, <3>3
  <2>7. QED BY <2>3, <2>5, <2>6
<1>5. QED BY <1>3, <1>4 DEF VerifiedByOwner

LEMMA NextCode ==
  ASSUME CodeInv, InstanceAssumption, NoneAssumption, [Next]_vars
  PROVE  CodeInv'
<1>1. ShapeInv /\ TypeOK BY DEF CodeInv, ShapeInv
<1>2. ShapeInv' BY <1>1, NextShape
<1>3. VerifiedByOwner' BY OwnersKept
<1>4. (\A e \in Emails : SessionOK(e))' BY SessionsKept
<1>5. ASSUME NEW q \in Requests PROVE TypedOK(q)' /\ AfterOK(q)'
  <2>1. CASE pc[q] # "idle" BY <2>1, KeptByAll
  <2>2. CASE pc[q] = "idle"
    <3>1. CASE pc'[q] = "idle" BY <3>1 DEF TypedOK, AfterOK
    <3>2. ASSUME pc'[q] # "idle" PROVE TypedOK(q)' /\ AfterOK(q)'
      <4>1. PICK e \in Emails : Arrive(q, e)
        <5>1. ASSUME NEW r \in Requests, Moves(r) PROVE FALSE
          BY <1>1, <2>2, <3>2, <5>1 DEF Moves, TypeOK
        <5>2. ASSUME NEW r \in Requests, NEW e \in Emails, Arrive(r, e)
              PROVE  r = q
          BY <1>1, <2>2, <3>2, <5>2, ArriveStarts DEF Starts, TypeOK
        <5>3. QED
          BY <2>2, <3>2, <5>1, <5>2, StepMoves, AbortMoves
          DEF Next, vars, Expire
      <4>2. QED BY <4>1, ArriveAccepted
    <3>3. QED BY <3>1, <3>2
  <2>3. QED BY <2>1, <2>2
<1>6. (\A a \in accepted : AcceptedOK(a))' /\ CodeUsedOnce'
  <2>1. CASE UNCHANGED vars \/ Expire
    BY <2>1 DEF vars, Expire, CodeInv, AcceptedOK, LetIn, Written, CodeUsedOnce
  <2>2. QED BY <2>1, StepAccepted, AbortAccepted, ArriveAccepted DEF Next
<1>7. QED BY <1>2, <1>3, <1>4, <1>5, <1>6 DEF CodeInv

\* What is known of codes holds in every reachable state.
LEMMA CodesHold == Spec => []CodeInv
<1>1. CodeInv /\ [Next]_vars => CodeInv'
  BY NextCode, InstanceAssumption, NoneAssumption
<1>2. QED BY InitCode, <1>1, PTL DEF Spec

\* However sign-ups, resets and Google sign-ins overlap and fail, an address
\* is verified only by Google or by a code generated for that address.
THEOREM OwnersVerify == Spec => []VerifiedByOwner
<1>1. CodeInv => VerifiedByOwner BY DEF CodeInv
<1>2. QED BY <1>1, CodesHold, PTL

\* A code that served one request that ended well serves no later one, neither
\* verifyLeadOtp nor confirmForgotPassword.
THEOREM CodesServeOnce == Spec => []CodeUsedOnce
<1>1. CodeInv => CodeUsedOnce BY DEF CodeInv
<1>2. QED BY <1>1, CodesHold, PTL

-----------------------------------------------------------------------------
(* One request at a time *)

Early == {"idle", "save", "ensure", "issue"}
Resting == {"idle", "done"}

\* A step of the only running handler.
LEMMA StepAlone ==
  ASSUME ShapeInv, Serial, NEW r \in Requests, Step(r)
  PROVE  /\ r \in Running /\ job' = job /\ job[r].email \in Emails
         /\ \A q \in Requests \ {r} : pc[q] \in Resting /\ pc'[q] = pc[q]
         /\ pc'[r] # "idle"
         /\ \A q \in Requests : pc[q] \notin Early => pc'[q] \notin Early
         /\ Running' \subseteq {r} /\ Serial'
<1>1. /\ pc[r] \notin Resting /\ job' = job /\ pc \in [Requests -> Places]
      /\ \E place \in Places \ {"idle"} : pc' = [pc EXCEPT ![r] = place]
  BY StepMoves DEF Moves, Resting, ShapeInv, TypeOK
<1>2. pc[r] \notin Early => pc'[r] \notin Early
  BY DEF Step, SaveLead, EnsurePassword, IssueSession, SendMail,
         ForgetSession, MarkVerified, ConfirmCheck, SetLocal, SyncCognito,
         UpdateCognito, EditLead, Goto, Early, ShapeInv, TypeOK
<1>3. r \in Running BY <1>1 DEF Running, Resting
<1>4. \A q \in Requests \ {r} : pc[q] \in Resting
  BY <1>3 DEF Serial, Running, Resting
<1>5. job[r].email \in Emails BY <1>1 DEF ShapeInv, Shape, Job, Resting
<1>6. /\ \A q \in Requests \ {r} : pc'[q] = pc[q]
      /\ pc'[r] # "idle"
  BY <1>1
<1>7. Running' \subseteq {r} BY <1>4, <1>6 DEF Running, Resting
<1>8. QED BY <1>1, <1>2, <1>3, <1>4, <1>5, <1>6, <1>7 DEF Serial

LEMMA IssuedFrame ==
  ASSUME TypeOK, IssuedOnce, issued' = issued,
         \A q \in Requests : pc[q] \notin Early => pc'[q] \notin Early,
         \A e \in Emails :
           \/ lastMail'[e] = lastMail[e]
           \/ \E i \in 1..Len(issued) : issued[i] = lastMail'[e]
  PROVE  IssuedOnce'
<1>1. \A i \in 1..Len(issued) : issued[i] \in Requests BY DEF TypeOK
<1>2. QED BY <1>1 DEF IssuedOnce, Early

\* What an address owes to its last mail stays, as long as its session stays
\* and no new code is being mailed or given up.
LEMMA LastFrame ==
  ASSUME NEW e \in Emails, LastOK(e),
         lastMail'[e] = lastMail[e], otpSession'[e] = otpSession[e],
         accepted \subseteq accepted', Expired \subseteq Expired',
         \A q \in Running : pc[q] = "mail" /\ job[q].email = e
           => q \in Running' /\ pc'[q] = "mail" /\ job'[q] = job[q]
  PROVE  LastOK(e)'
<1>1. CASE Spent(lastMail[e]) BY <1>1 DEF LastOK, Spent
<1>2. CASE otpSession[e] = lastMail[e] BY <1>2 DEF LastOK
<1>3. CASE \E q \in Running : pc[q] = "mail" /\ job[q].email = e
  BY <1>3 DEF LastOK
<1>4. QED BY <1>1, <1>2, <1>3 DEF LastOK

\* Steps that write, mail and delete no code.
LEMMA QuietCodes ==
  ASSUME ShapeInv, Serial, CodesCalm, NEW r \in Requests, Step(r),
         failed' = failed,
         \/ SaveLead(r) \/ EnsurePassword(r) \/ MarkVerified(r)
         \/ ConfirmCheck(r) \/ SetLocal(r) \/ SyncCognito(r)
         \/ UpdateCognito(r) \/ EditLead(r)
  PROVE  CodesCalm'
<1>1. /\ r \in Running /\ job' = job /\ job[r].email \in Emails
      /\ \A q \in Requests \ {r} : pc[q] \in Resting /\ pc'[q] = pc[q]
      /\ \A q \in Requests : pc[q] \notin Early => pc'[q] \notin Early
      /\ Running' \subseteq {r}
  BY StepAlone
<1>2. /\ UNCHANGED <<otpSession, issued, lapsed, lastMail>>
      /\ accepted \subseteq accepted'
      /\ pc[r] # "mail" /\ pc'[r] # "mail"
  BY DEF SaveLead, EnsurePassword, MarkVerified, ConfirmCheck, SetLocal,
         SyncCognito, UpdateCognito, EditLead, Goto, codes, ShapeInv, TypeOK
<1>3. IssuedOnce'
  BY <1>1, <1>2, IssuedFrame DEF CodesCalm, ShapeInv
<1>4. Expired' = Expired BY <1>2 DEF Expired
<1>5. ASSUME NEW e \in Emails PROVE LastOK(e)'
  <2>1. \A q \in Running : pc[q] # "mail" BY <1>1, <1>2 DEF Running, Resting
  <2>2. QED BY <1>2, <1>4, <2>1, LastFrame DEF CodesCalm
<1>6. LetInOK(r)'
  <2> DEFINE e == job[r].email
  <2>1. SUFFICES ASSUME pc'[r] \in {"local", "cognito", "forget"},
                        job[r].op # "update"
                 PROVE  Spent(lastMail[e])'
    BY <1>1 DEF LetInOK
  <2>2. CASE ConfirmCheck(r)
    <3>1. /\ pc[r] = "check" /\ otpSession[e] = job[r].code
          /\ [by |-> r, code |-> job[r].code] \in accepted'
      BY <2>1, <2>2 DEF ConfirmCheck, Accepts, Goto, ShapeInv, TypeOK
    <3>2. Spent(lastMail[e]) \/ otpSession[e] = lastMail[e]
      BY <1>1, <1>2 DEF CodesCalm, LastOK, Running, Resting
    <3>3. CASE Spent(lastMail[e]) BY <1>1, <1>2, <1>4, <3>3 DEF Spent
    <3>4. CASE otpSession[e] = lastMail[e]
      BY <1>1, <1>2, <3>1, <3>4 DEF Spent
    <3>5. QED BY <3>2, <3>3, <3>4
  <2>3. CASE ~ConfirmCheck(r)
    <3>1. pc[r] \in {"local", "cognito"} /\ job[r].op # "update"
      BY <2>1, <2>3
         DEF SaveLead, EnsurePassword, MarkVerified, SetLocal, SyncCognito,
             UpdateCognito, EditLead, Is, Goto, ShapeInv, TypeOK
    <3>2. Spent(lastMail[e]) BY <3>1 DEF CodesCalm, LetInOK
    <3>3. QED BY <1>1, <1>2, <1>4, <3>2 DEF Spent
  <2>4. QED BY <2>2, <2>3
<1>7. ASSUME NEW q \in Requests, q # r PROVE MailOK(q)' /\ LetInOK(q)'
  BY <1>1, <1>7 DEF MailOK, LetInOK, Resting
<1>8. MailOK(r)' BY <1>2 DEF MailOK
<1>9. QED BY <1>3, <1>5, <1>6, <1>7, <1>8 DEF CodesCalm

LEMMA IssueCodes ==
  ASSUME ShapeInv, Serial, CodesCalm, NEW r \in Requests, IssueSession(r)
  PROVE  CodesCalm'
<1> DEFINE e == job[r].email
<1>1. /\ r \in Running /\ job' = job /\ e \in Emails
      /\ \A q \in Requests \ {r} : pc[q] \in Resting /\ pc'[q] = pc[q]
      /\ \A q \in Requests : pc[q] \notin Early => pc'[q] \notin Early
  BY StepAlone DEF Step
<1>2. /\ pc[r] = "issue" /\ pc'[r] = "mail"
      /\ otpSession' = [otpSession EXCEPT ![e] = r]
      /\ issued' = Append(issued, r)
      /\ UNCHANGED <<lapsed, lastMail, accepted, failed>>
      /\ otpSession \in [Emails -> Requests \cup {None}]
      /\ issued \in Seq(Requests) /\ lapsed \in 0..Len(issued)
  BY DEF IssueSession, Goto, ShapeInv, TypeOK
<1>3. /\ Len(issued') = Len(issued) + 1 /\ Len(issued) \in Nat
      /\ \A i \in 1..Len(issued) : issued'[i] = issued[i]
      /\ issued'[Len(issued) + 1] = r
  BY <1>2
<1>4. IssuedOnce'
  <2>1. \A i \in 1..Len(issued) : issued[i] # r
    BY <1>2 DEF CodesCalm, IssuedOnce
  <2>2. \A i \in 1..Len(issued') :
          \/ i \in 1..Len(issued) /\ issued'[i] = issued[i]
          \/ i = Len(issued) + 1 /\ issued'[i] = r
    BY <1>3
  <2>3. \A i, k \in 1..Len(issued') : issued'[i] = issued'[k] => i = k
    BY <2>1, <2>2 DEF CodesCalm, IssuedOnce
  <2>4. \A i \in 1..Len(issued') : pc'[issued'[i]] \notin Early
    BY <1>1, <1>2, <1>3, <2>2 DEF CodesCalm, IssuedOnce, Early
  <2>5. \A f \in Emails :
          lastMail[f] # None => \E i \in 1..Len(issued') : issued'[i] = lastMail[f]
    <3>1. ASSUME NEW f \in Emails, lastMail[f] # None
          PROVE  \E i \in 1..Len(issued') : issued'[i] = lastMail[f]
      <4>1. PICK i \in 1..Len(issued) : issued[i] = lastMail[f]
        BY <3>1 DEF CodesCalm, IssuedOnce
      <4>2. i \in 1..Len(issued') /\ issued'[i] = lastMail[f] BY <1>3, <4>1
      <4>3. QED BY <4>2
    <3>2. QED BY <3>1
  <2>6. QED BY <1>2, <2>3, <2>4, <2>5 DEF IssuedOnce, Early
<1>5. Expired \subseteq Expired'
  <2>1. \A i \in 1..lapsed : issued'[i] = issued[i] BY <1>2, <1>3
  <2>2. QED BY <1>2, <2>1 DEF Expired
<1>6. ASSUME NEW f \in Emails PROVE LastOK(f)'
  <2>1. CASE f = e
    <3>1. r \in Running' BY <1>2 DEF Running
    <3>2. QED BY <1>1, <1>2, <2>1, <3>1 DEF LastOK
  <2>2. CASE f # e
    <3>1. \A q \in Running : pc[q] # "mail" BY <1>1, <1>2 DEF Running, Resting
    <3>2. otpSession'[f] = otpSession[f] BY <1>2, <2>2
    <3>3. QED BY <1>2, <1>5, <3>1, <3>2, LastFrame DEF CodesCalm
  <2>3. QED BY <2>1, <2>2
<1>7. MailOK(r)' BY <1>1, <1>2, <1>3 DEF MailOK
<1>8. LetInOK(r)' BY <1>2 DEF LetInOK
<1>9. ASSUME NEW q \in Requests, q # r PROVE MailOK(q)' /\ LetInOK(q)'
  BY <1>1, <1>9 DEF MailOK, LetInOK, Resting
<1>10. QED BY <1>2, <1>4, <1>6, <1>7, <1>8, <1>9 DEF CodesCalm

\* A code that is not mailed because it has expired is the newest: whatever was
\* mailed before has expired, too.
LEMMA MailCodes ==
  ASSUME ShapeInv, Serial, CodesCalm, NEW r \in Requests, SendMail(r)
  PROVE  CodesCalm'
<1> DEFINE e == job[r].email
<1>1. /\ r \in Running /\ job' = job /\ e \in Emails
      /\ \A q \in Requests \ {r} : pc[q] \in Resting /\ pc'[q] = pc[q]
      /\ \A q \in Requests : pc[q] \notin Early => pc'[q] \notin Early
  BY StepAlone DEF Step
<1>2. /\ pc[r] = "mail" /\ pc'[r] = "done"
      /\ UNCHANGED <<otpSession, issued, lapsed, accepted, failed>>
      /\ \/ lastMail' = [lastMail EXCEPT ![e] = r]
         \/ r \in Expired /\ lastMail' = lastMail
      /\ lastMail \in [Emails -> Requests \cup {None}]
      /\ issued \in Seq(Requests) /\ lapsed \in 0..Len(issued)
  BY DEF SendMail, Goto, ShapeInv, TypeOK
<1>3. /\ otpSession[e] = r /\ Len(issued) \in 1..Len(issued)
      /\ issued[Len(issued)] = r
  BY <1>2 DEF CodesCalm, MailOK
<1>4. Expired' = Expired BY <1>2 DEF Expired
<1>5. ASSUME NEW f \in Emails, f # e PROVE LastOK(f)'
  <2>1. \A q \in Running : q = r BY <1>1 DEF Running, Resting
  <2>2. lastMail'[f] = lastMail[f] BY <1>2, <1>5
  <2>3. QED BY <1>2, <1>4, <1>5, <2>1, <2>2, LastFrame DEF CodesCalm
<1>6. LastOK(e)'
  <2>1. CASE lastMail' = [lastMail EXCEPT ![e] = r]
    BY <1>1, <1>2, <1>3, <2>1 DEF LastOK
  <2>2. CASE r \in Expired /\ lastMail' = lastMail
    <3>1. PICK i \in 1..lapsed : issued[i] = r BY <2>2 DEF Expired
    <3>2. i \in 1..Len(issued) BY <1>2, <3>1
    <3>3. i = Len(issued) BY <1>3, <3>1, <3>2 DEF CodesCalm, IssuedOnce
    <3>4. lapsed = Len(issued) BY <1>2, <3>1, <3>3
    <3>5. lastMail[e] = None \/ lastMail[e] \in Expired
      <4>1. lastMail[e] # None
              => \E k \in 1..Len(issued) : issued[k] = lastMail[e]
        BY <1>1 DEF CodesCalm, IssuedOnce
      <4>2. QED BY <3>4, <4>1 DEF Expired
    <3>6. QED BY <1>1, <1>4, <2>2, <3>5 DEF LastOK, Spent
  <2>3. QED BY <1>2, <2>1, <2>2
<1>7. IssuedOnce'
  <2>1. \A f \in Emails : \/ lastMail'[f] = lastMail[f]
                          \/ \E i \in 1..Len(issued) : issued[i] = lastMail'[f]
    <3>1. ASSUME NEW f \in Emails
          PROVE  lastMail'[f] = lastMail[f] \/ lastMail'[f] = r
      BY <1>2
    <3>2. QED BY <1>3, <3>1
  <2>2. QED BY <1>1, <1>2, <2>1, IssuedFrame DEF CodesCalm, ShapeInv
<1>8. MailOK(r)' /\ LetInOK(r)' BY <1>2 DEF MailOK, LetInOK
<1>9. ASSUME NEW q \in Requests, q # r PROVE MailOK(q)' /\ LetInOK(q)'
  BY <1>1, <1>9 DEF MailOK, LetInOK, Resting
<1>10. \A f \in Emails : LastOK(f)'
  <2>1. e' = e BY <1>1
  <2>2. LastOK(e)' BY <1>6
  <2> HIDE DEF e
  <2>3. QED BY <1>5, <2>1, <2>2
<1>11. QED BY <1>2, <1>7, <1>8, <1>9, <1>10 DEF CodesCalm

LEMMA ForgetCodes ==
  ASSUME ShapeInv, Serial, CodesCalm, NEW r \in Requests, ForgetSession(r)
  PROVE  CodesCalm'
<1> DEFINE e == job[r].email
<1>1. /\ r \in Running /\ job' = job /\ e \in Emails
      /\ \A q \in Requests \ {r} : pc[q] \in Resting /\ pc'[q] = pc[q]
      /\ \A q \in Requests : pc[q] \notin Early => pc'[q] \notin Early
  BY StepAlone DEF Step
<1>2. /\ pc[r] = "forget" /\ pc'[r] \in {"mark", "done"}
      /\ otpSession' = [otpSession EXCEPT ![e] = None]
      /\ UNCHANGED <<issued, lapsed, lastMail, accepted, failed>>
      /\ otpSession \in [Emails -> Requests \cup {None}]
  BY DEF ForgetSession, Goto, codes, ShapeInv, TypeOK
<1>3. job[r].op # "update" BY <1>2 DEF ShapeInv, Shape
<1>4. Spent(lastMail[e]) BY <1>2, <1>3 DEF CodesCalm, LetInOK
<1>5. Expired' = Expired BY <1>2 DEF Expired
<1>6. ASSUME NEW f \in Emails PROVE LastOK(f)'
  <2>1. CASE f = e BY <1>2, <1>4, <1>5, <2>1 DEF LastOK, Spent
  <2>2. CASE f # e
    <3>1. \A q \in Running : pc[q] # "mail" BY <1>1, <1>2 DEF Running, Resting
    <3>2. otpSession'[f] = otpSession[f] BY <1>2, <2>2
    <3>3. QED BY <1>2, <1>5, <3>1, <3>2, LastFrame DEF CodesCalm
  <2>3. QED BY <2>1, <2>2
<1>7. IssuedOnce' BY <1>1, <1>2, IssuedFrame DEF CodesCalm, ShapeInv
<1>8. MailOK(r)' /\ LetInOK(r)' BY <1>2 DEF MailOK, LetInOK
<1>9. ASSUME NEW q \in Requests, q # r PROVE MailOK(q)' /\ LetInOK(q)'
  BY <1>1, <1>9 DEF MailOK, LetInOK, Resting
<1>10. QED BY <1>2, <1>6, <1>7, <1>8, <1>9 DEF CodesCalm

LEMMA ExpireCodes ==
  ASSUME ShapeInv, Serial, CodesCalm, Expire
  PROVE  CodesCalm' /\ Serial'
<1>1. /\ UNCHANGED <<otpSession, issued, lastMail, accepted, pc, job, failed>>
      /\ lapsed' = lapsed + 1 /\ lapsed \in Nat
  BY DEF Expire, ShapeInv, TypeOK
<1>2. Expired \subseteq Expired'
  <2>1. 1..lapsed \subseteq 1..lapsed' BY <1>1
  <2>2. QED BY <1>1, <2>1 DEF Expired
<1>3. Running' = Running BY <1>1 DEF Running
<1>4. ASSUME NEW e \in Emails PROVE LastOK(e)'
  BY <1>1, <1>2, <1>3, LastFrame DEF CodesCalm
<1>5. IssuedOnce' BY <1>1 DEF CodesCalm, IssuedOnce
<1>6. ASSUME NEW r \in Requests PROVE MailOK(r)' /\ LetInOK(r)'
  BY <1>1, <1>2 DEF CodesCalm, MailOK, LetInOK, Spent
<1>7. QED BY <1>1, <1>3, <1>4, <1>5, <1>6 DEF CodesCalm, Serial

\* A request that arrives while no other may run finds nothing running.
LEMMA ArriveAlone ==
  ASSUME ShapeInv, InstanceAssumption, Serial', NEW r \in Requests,
         NEW e \in Emails, NEW op, NEW c, NEW p,
         NEW place \in Places \ {"idle", "done"},
         Arrival(r, e, op, c, p, place)
  PROVE  /\ Running = {} /\ Running' = {r}
         /\ \A q \in Requests \ {r} : pc'[q] = pc[q] /\ job'[q] = job[q]
         /\ \A q \in Requests : pc[q] \in Resting
         /\ pc'[r] = place /\ pc[r] = "idle"
         /\ job'[r].op = op /\ job'[r].email = e /\ job'[r].lead = lead[e]
<1> DEFINE j == [op |-> op, email |-> e, code |-> c, password |-> p,
                 lead |-> lead[e], after |-> {q \in Requests : pc[q] = "done"}]
<1>1. /\ \A q \in Requests \ {r} : pc'[q] = pc[q] /\ job'[q] = job[q]
      /\ pc'[r] = place /\ pc[r] = "idle" /\ job'[r] = j
  BY DEF Arrival, ShapeInv, TypeOK
<1>2. j.op = op /\ j.email = e /\ j.lead = lead[e] OBVIOUS
<1> HIDE DEF j
<1>3. r \in Running' BY <1>1 DEF Running
<1>4. ASSUME NEW q \in Requests PROVE pc[q] \in Resting
  BY <1>1, <1>3 DEF Serial, Running, Resting
<1>5. Running = {} /\ Running' = {r} BY <1>1, <1>3, <1>4 DEF Running, Resting
<1>6. QED BY <1>1, <1>2, <1>4, <1>5

LEMMA ArriveCodes ==
  ASSUME ShapeInv, InstanceAssumption, CodesCalm, Serial',
         NEW r \in Requests, NEW e \in Emails, Arrive(r, e)
  PROVE  CodesCalm'
<1>1. PICK op \in Operations, c \in Requests \cup {None},
           p \in Passwords \cup {Generated},
           place \in Places \ {"idle", "done"} : Arrival(r, e, op, c, p, place)
  BY ArriveArrival
<1>2. /\ Running = {} /\ Running' = {r}
      /\ \A q \in Requests \ {r} : pc'[q] = pc[q] /\ job'[q] = job[q]
      /\ \A q \in Requests : pc[q] \in Resting
      /\ pc'[r] = place /\ pc[r] = "idle"
      /\ job'[r].op = op /\ job'[r].email = e
  BY <1>1, ArriveAlone
<1>3. /\ UNCHANGED <<otpSession, issued, lapsed, lastMail, failed>>
      /\ accepted \subseteq accepted'
      /\ op = "verify" =>
           otpSession[e] = c /\ [by |-> r, code |-> c] \in accepted'
      /\ place \in {"forget", "cognito", "local"} => op \in {"verify", "update"}
      /\ place # "mail"
  BY <1>1 DEF Arrival, Accepts
<1>4. Expired' = Expired BY <1>3 DEF Expired
<1>5. IssuedOnce'
  <2>1. \A q \in Requests : pc[q] \notin Early => pc'[q] \notin Early
    BY <1>2 DEF Early
  <2>2. QED BY <1>3, <2>1, IssuedFrame DEF CodesCalm, ShapeInv
<1>6. ASSUME NEW f \in Emails PROVE LastOK(f)'
  BY <1>2, <1>3, <1>4, LastFrame DEF CodesCalm
<1>7. MailOK(r)' BY <1>2, <1>3 DEF MailOK
<1>8. LetInOK(r)'
  <2>1. CASE op = "verify"
    <3>1. Spent(lastMail[e]) \/ otpSession[e] = lastMail[e]
      BY <1>2 DEF CodesCalm, LastOK
    <3>2. Spent(lastMail[e])' BY <1>3, <1>4, <2>1, <3>1 DEF Spent
    <3>3. QED BY <1>2, <3>2 DEF LetInOK
  <2>2. CASE op # "verify" BY <1>2, <1>3, <2>2 DEF LetInOK
  <2>3. QED BY <2>1, <2>2
<1>9. ASSUME NEW q \in Requests, q # r PROVE MailOK(q)' /\ LetInOK(q)'
  BY <1>2, <1>9 DEF MailOK, LetInOK, Resting
<1>10. QED BY <1>3, <1>5, <1>6, <1>7, <1>8, <1>9 DEF CodesCalm

\* With no request at all nothing is left half done.
LEMMA ArriveMirrors ==
  ASSUME ShapeInv, InstanceAssumption, MirrorsCalm, Serial',
         NEW r \in Requests, NEW e \in Emails, Arrive(r, e)
  PROVE  MirrorsCalm'
<1>1. PICK op \in Operations, c \in Requests \cup {None},
           p \in Passwords \cup {Generated},
           place \in Places \ {"idle", "done"} : Arrival(r, e, op, c, p, place)
  BY ArriveArrival
<1>2. /\ Running = {} /\ Running' = {r} /\ pc'[r] = place
      /\ job'[r].op = op /\ job'[r].email = e /\ job'[r].lead = lead[e]
  BY <1>1, ArriveAlone
<1>3. UNCHANGED <<lead, cognito>> BY <1>1 DEF Arrival
<1>4. ASSUME NEW f \in Emails
      PROVE  /\ cognito[f] # None => Verified(f)
             /\ cognito[f] \in Passwords
                  => \/ lead[f].password = cognito[f] /\ ~lead[f].sso
                     \/ Edited(f)'
  <2>1. Edited(f) => Edited(f)'
    BY <1>1, ArriveAlone DEF Edited
  <2>2. QED BY <1>2, <2>1 DEF MirrorsCalm, MirrorOK
<1>5. ASSUME NEW f \in Emails PROVE MirrorOK(f)'
  BY <1>3, <1>4 DEF MirrorOK, Verified, Known
<1>6. ChangeOK(r)'
  <2>1. /\ place = "save" => ~Verified(e)
        /\ place = "ensure" => Verified(e)
        /\ <<op, place>> \notin {<<"confirm", "local">>, <<"confirm", "cognito">>,
                                 <<"update", "local">>}
    BY <1>1 DEF Arrival
  <2>2. (Verified(e) <=> Verified(e)') BY <1>3 DEF Verified, Known
  <2>3. QED BY <1>2, <1>3, <1>4, <2>1, <2>2 DEF ChangeOK
<1>7. QED BY <1>2, <1>5, <1>6 DEF MirrorsCalm

\* What a step does to the two passwords of its address, when nothing else runs
\* and it does not fail.
LEMMA StepMirrors ==
  ASSUME ShapeInv, Serial, MirrorsCalm, NoneAssumption,
         NEW r \in Requests, Step(r),
         (pc[r] = "cognito" /\ pc'[r] # pc[r])
           => \/ cognito'[job[r].email] # cognito[job[r].email]
              \/ cognito[job[r].email] \in {None, job[r].password}
  PROVE  /\ MirrorOK(job[r].email)' /\ ChangeOK(r)'
         /\ \A f \in Emails \ {job[r].email} :
              lead'[f] = lead[f] /\ cognito'[f] = cognito[f]
<1> DEFINE e == job[r].email
           p == job[r].password
<1>1. /\ r \in Running /\ job' = job /\ e \in Emails
      /\ \A q \in Running : q = r
      /\ lead \in [Emails -> Lead \cup {None}]
      /\ cognito \in [Emails -> Passwords \cup {Generated, None}]
      /\ pc \in [Requests -> Places]
      /\ job[r] \in Job /\ Shape(r)
  <2>1. r \in Running /\ job' = job /\ e \in Emails BY StepAlone
  <2>2. QED BY <2>1 DEF ShapeInv, TypeOK, Serial, Shape, Running
<1>2. MirrorOK(e) /\ ChangeOK(r) BY <1>1 DEF MirrorsCalm
<1>3. /\ ~Changing(r) =>
           (cognito[e] \in Passwords
              => Edited(e) \/ (lead[e].password = cognito[e] /\ ~lead[e].sso))
      /\ Edited(e) => Edited(e)'
  <2>1. \A q \in Requests : pc[q] # "idle" => pc'[q] # "idle"
    BY StepAlone, <1>1 DEF Resting
  <2>2. Edited(e) => Edited(e)' BY <1>1, <2>1 DEF Edited
  <2>3. ASSUME ~Changing(r), cognito[e] \in Passwords
        PROVE  Edited(e) \/ (lead[e].password = cognito[e] /\ ~lead[e].sso)
    <3>1. \/ Edited(e) \/ (lead[e].password = cognito[e] /\ ~lead[e].sso)
          \/ \E q \in Running : job[q].email = e /\ Changing(q)
      BY <1>2, <2>3 DEF MirrorOK
    <3>2. ~\E q \in Running : job[q].email = e /\ Changing(q)
      BY <1>1, <2>3
    <3>3. QED BY <3>1, <3>2
  <2>4. QED BY <2>2, <2>3
<1>4. ASSUME lead'[e] = lead[e], cognito'[e] = cognito[e], ~Changing(r)
      PROVE  MirrorOK(e)'
  BY <1>1, <1>2, <1>3, <1>4 DEF MirrorOK, Verified, Known
<1>5. CASE SaveLead(r)
  <2>1. pc[r] = "save" /\ pc'[r] \in {"done", "issue"}
    BY <1>1, <1>5 DEF SaveLead, Goto
  <2>2. cognito' = cognito /\ cognito[e] = None
    BY <1>2, <1>5, <2>1 DEF SaveLead, ChangeOK, MirrorOK
  <2>3. MirrorOK(e)'
    BY <1>1, <2>2, NoneAssumption DEF MirrorOK
  <2>4. \A f \in Emails \ {e} : lead'[f] = lead[f]
    BY <1>1, <1>5 DEF SaveLead
  <2>5. ChangeOK(r)' BY <1>1, <2>1 DEF ChangeOK
  <2>6. QED BY <2>2, <2>3, <2>4, <2>5
<1>6. CASE EnsurePassword(r)
  <2>1. /\ pc[r] = "ensure" /\ pc'[r] = "issue" /\ lead' = lead
        /\ cognito' = cognito \/ cognito' = [cognito EXCEPT ![e] = Generated]
    BY <1>1, <1>6 DEF EnsurePassword, Goto
  <2>2. Verified(e)' BY <1>1, <1>2, <2>1 DEF ChangeOK, Verified, Known
  <2>3. MirrorOK(e)'
    BY <1>1, <1>3, <2>1, <2>2, NoneAssumption DEF MirrorOK, Changing
  <2>4. ChangeOK(r)' BY <1>1, <2>1 DEF ChangeOK
  <2>5. QED BY <1>1, <2>1, <2>3, <2>4
<1>7. CASE IssueSession(r) \/ SendMail(r) \/ ForgetSession(r)
  <2>1. /\ pc[r] \in {"issue", "mail", "forget"}
        /\ pc'[r] \in {"mail", "done", "mark"}
        /\ lead' = lead /\ cognito' = cognito
    BY <1>1, <1>7 DEF IssueSession, SendMail, ForgetSession, Goto
  <2>2. ChangeOK(r)' BY <1>1, <2>1 DEF ChangeOK
  <2>3. QED BY <1>4, <2>1, <2>2 DEF Changing
<1>8. CASE MarkVerified(r)
  <2>1. /\ pc[r] = "mark" /\ pc'[r] = "done" /\ cognito' = cognito
        /\ lead' = IF Known(e) THEN [lead EXCEPT ![e].verified = TRUE] ELSE lead
    BY <1>1, <1>8 DEF MarkVerified, Goto
  <2>2. cognito[e] # None => Known(e) BY <1>2 DEF MirrorOK, Verified
  <2>3. ASSUME Known(e)
        PROVE  /\ lead'[e] \in Lead /\ lead'[e].verified
               /\ lead'[e].password = lead[e].password
               /\ lead'[e].sso = lead[e].sso
    <3>1. lead[e] \in Lead BY <1>1, <2>3 DEF Known
    <3>2. lead'[e] = [lead[e] EXCEPT !.verified = TRUE]
      BY <1>1, <2>1, <2>3
    <3>3. QED BY <3>1, <3>2 DEF Lead
  <2>4. MirrorOK(e)'
    BY <1>1, <1>3, <2>1, <2>2, <2>3, NoneAssumption
       DEF MirrorOK, Changing, Verified, Known
  <2>5. \A f \in Emails \ {e} : lead'[f] = lead[f] BY <1>1, <2>1
  <2>6. ChangeOK(r)' BY <1>1, <2>1 DEF ChangeOK
  <2>7. QED BY <2>1, <2>4, <2>5, <2>6
<1>9. CASE ConfirmCheck(r)
  <2>1. /\ pc[r] = "check" /\ pc'[r] \in {"local", "done"}
        /\ lead' = lead /\ cognito' = cognito
    BY <1>1, <1>9 DEF ConfirmCheck, Goto
  <2>2. job[r].op = "confirm" BY <1>1, <2>1 DEF Shape, Job, Ops
  <2>3. ChangeOK(r)' BY <1>1, <1>2, <1>3, <2>1, <2>2 DEF ChangeOK
  <2>4. QED BY <1>4, <2>1, <2>3 DEF Changing
<1>10. CASE SetLocal(r)
  <2>1. /\ pc[r] = "local" /\ cognito' = cognito
        /\ pc'[r] = IF job[r].op = "update" THEN "done"
                    ELSE IF job[r].lead.sso THEN "forget" ELSE "cognito"
        /\ lead' = [lead EXCEPT ![e].password = p, ![e].sso = FALSE]
    BY <1>1, <1>10 DEF SetLocal, Goto
  <2>2. job[r].op \in {"confirm", "update"} /\ Known(e)
    BY <1>1, <2>1 DEF Shape, Job, Ops
  <2>3. /\ lead'[e] \in Lead /\ lead'[e].password = p /\ ~lead'[e].sso
        /\ lead'[e].verified = lead[e].verified
    <3>1. lead[e] \in Lead /\ p \in Passwords \cup {Generated}
      BY <1>1, <2>2 DEF Known, Job
    <3>2. lead'[e] = [[lead[e] EXCEPT !.password = p] EXCEPT !.sso = FALSE]
      BY <1>1, <2>1
    <3>3. QED BY <3>1, <3>2 DEF Lead
  <2>4. cognito[e] # None => Verified(e)'
    BY <1>1, <1>2, <2>3, NoneAssumption DEF MirrorOK, Verified, Known
  <2>5. MirrorOK(e)'
    <3>1. CASE job[r].op = "update"
      BY <1>1, <1>2, <2>1, <2>3, <2>4, <3>1 DEF MirrorOK, ChangeOK
    <3>2. CASE job[r].op = "confirm" /\ job[r].lead.sso
      BY <1>1, <1>2, <1>3, <2>1, <2>4, <3>2 DEF MirrorOK, ChangeOK
    <3>3. CASE job[r].op = "confirm" /\ ~job[r].lead.sso
      <4>1. r \in Running' /\ Changing(r)'
        BY <1>1, <2>1, <3>3 DEF Running, Changing
      <4>2. QED BY <1>1, <2>1, <2>4, <4>1 DEF MirrorOK
    <3>4. QED BY <2>2, <3>1, <3>2, <3>3
  <2>6. ChangeOK(r)' BY <1>1, <2>1, <2>3 DEF ChangeOK
  <2>7. \A f \in Emails \ {e} : lead'[f] = lead[f] BY <1>1, <2>1
  <2>8. QED BY <2>1, <2>5, <2>6, <2>7
<1>11. CASE SyncCognito(r)
  <2>1. /\ pc[r] = "cognito" /\ pc'[r] = "forget" /\ lead' = lead
        /\ job[r].op = "confirm"
        /\ \/ cognito' = cognito
           \/ cognito[e] # None /\ cognito' = [cognito EXCEPT ![e] = p]
    BY <1>1, <1>11 DEF SyncCognito, Is, Goto
  <2>2. lead[e].password = p /\ ~lead[e].sso BY <1>2, <2>1 DEF ChangeOK
  <2>3. cognito'[e] \in {None, p} /\ (cognito'[e] # None => cognito[e] # None)
    BY <1>1, <2>1
  <2>4. MirrorOK(e)'
    BY <1>1, <1>2, <2>1, <2>2, <2>3, NoneAssumption
       DEF MirrorOK, Verified, Known
  <2>5. ChangeOK(r)' BY <1>1, <2>1 DEF ChangeOK
  <2>6. QED BY <1>1, <2>1, <2>4, <2>5
<1>12. CASE UpdateCognito(r)
  <2>1. /\ pc[r] = "cognito" /\ lead' = lead /\ job[r].op = "update"
        /\ \/ cognito[e] = None /\ cognito' = cognito /\ pc'[r] = "done"
           \/ /\ cognito[e] # None /\ cognito' = [cognito EXCEPT ![e] = p]
              /\ pc'[r] = "local"
    BY <1>1, <1>12 DEF UpdateCognito, Is, Goto
  <2>2. MirrorOK(e)'
    <3>1. CASE cognito[e] = None
      BY <1>1, <2>1, <3>1, NoneAssumption DEF MirrorOK
    <3>2. CASE cognito[e] # None
      <4>1. pc'[r] = "local" BY <2>1, <3>2
      <4>2. r \in Running' /\ Changing(r)'
        BY <1>1, <2>1, <4>1 DEF Running, Changing
      <4>3. Verified(e)' BY <1>1, <1>2, <2>1, <3>2 DEF MirrorOK, Verified, Known
      <4>4. QED BY <1>1, <4>2, <4>3 DEF MirrorOK
    <3>3. QED BY <3>1, <3>2
  <2>3. ChangeOK(r)' BY <1>1, <2>1 DEF ChangeOK
  <2>4. QED BY <1>1, <2>1, <2>2, <2>3
<1>13. CASE EditLead(r)
  <2>1. /\ pc[r] = "edit" /\ pc'[r] = "done" /\ cognito' = cognito
        /\ \E sso \in BOOLEAN :
             lead' = [lead EXCEPT ![e].password = p, ![e].sso = sso]
    BY <1>1, <1>13 DEF EditLead, Goto
  <2>2. job[r].op = "edit" /\ Known(e)
    BY <1>1, <2>1 DEF Shape, Job, Ops
  <2>3. lead'[e] \in Lead /\ lead'[e].verified = lead[e].verified
    <3>1. lead[e] \in Lead /\ p \in Passwords \cup {Generated}
      BY <1>1, <2>2 DEF Known, Job
    <3>2. \E sso \in BOOLEAN :
            lead'[e] = [[lead[e] EXCEPT !.password = p] EXCEPT !.sso = sso]
      BY <1>1, <2>1
    <3>3. QED BY <3>1, <3>2 DEF Lead
  <2>4. cognito[e] # None => Verified(e)'
    BY <1>1, <1>2, <2>3, NoneAssumption DEF MirrorOK, Verified, Known
  <2>5. Edited(e)' BY <1>1, <2>1, <2>2 DEF Edited, Running
  <2>6. MirrorOK(e)' BY <1>1, <2>1, <2>4, <2>5 DEF MirrorOK
  <2>7. ChangeOK(r)' BY <1>1, <2>1 DEF ChangeOK
  <2>8. \A f \in Emails \ {e} : lead'[f] = lead[f] BY <1>1, <2>1
  <2>9. QED BY <2>1, <2>6, <2>7, <2>8
<1>14. QED
  BY <1>5, <1>6, <1>7, <1>8, <1>9, <1>10, <1>11, <1>12, <1>13 DEF Step

LEMMA CodesStep ==
  ASSUME ShapeInv, InstanceAssumption, Serial, CodesCalm, Next,
         Serial', failed' = failed
  PROVE  CodesCalm'
<1>1. ASSUME NEW r \in Requests, Step(r) PROVE CodesCalm'
  BY <1>1, QuietCodes, IssueCodes, MailCodes, ForgetCodes DEF Step
<1>2. ASSUME NEW r \in Requests PROVE ~Abort(r) BY DEF Abort, CodesCalm
<1>3. QED BY <1>1, <1>2, ExpireCodes, ArriveCodes DEF Next

LEMMA MirrorsStep ==
  ASSUME ShapeInv, InstanceAssumption, NoneAssumption, Serial, CodesCalm,
         MirrorsCalm, Next, Serial', NoError
  PROVE  MirrorsCalm'
<1>1. ASSUME NEW r \in Requests, Step(r) PROVE MirrorsCalm'
  <2> DEFINE e == job[r].email
  <2>1. /\ r \in Running /\ job' = job /\ e \in Emails
        /\ Running' \subseteq {r} /\ \A q \in Running : q = r
    BY <1>1, StepAlone DEF Serial
  <2>2. r \in Begun BY <2>1 DEF Begun, Running
  <2>3. /\ MirrorOK(e)' /\ ChangeOK(r)'
        /\ \A f \in Emails \ {e} : lead'[f] = lead[f] /\ cognito'[f] = cognito[f]
    BY <1>1, <2>2, StepMirrors DEF NoError
  <2>4. ASSUME NEW f \in Emails, f # e PROVE MirrorOK(f)'
    <3>1. Edited(f) => Edited(f)'
      BY <1>1, <2>1, StepAlone DEF Edited, Resting
    <3>2. QED
      BY <2>1, <2>3, <2>4, <3>1 DEF MirrorsCalm, MirrorOK, Verified, Known
  <2>5. \A f \in Emails : MirrorOK(f)' BY <2>1, <2>3, <2>4
  <2>6. QED BY <2>1, <2>3, <2>5 DEF MirrorsCalm
<1>2. ASSUME NEW r \in Requests PROVE ~Abort(r)
  BY DEF Abort, CodesCalm, NoError
<1>3. CASE Expire
  BY <1>3
     DEF Expire, MirrorsCalm, MirrorOK, ChangeOK, Verified, Known, Running,
         Changing, Edited
<1>4. QED BY <1>1, <1>2, <1>3, ArriveMirrors DEF Next

\* A set with at most one element.
LEMMA AtMostOne ==
  ASSUME NEW S, IsFiniteSet(S), Cardinality(S) <= 1,
         NEW x \in S, NEW y \in S
  PROVE  x = y
<1>1. SUFFICES ASSUME x # y PROVE FALSE OBVIOUS
<1>2. IsFiniteSet({x}) /\ Cardinality({x}) = 1 BY FS_Singleton
<1>3. y \notin {x} BY <1>1
<1>4. Cardinality({x} \cup {y}) = 1 + 1 BY <1>2, <1>3, FS_AddElement, Zenon
<1>5. {x} \cup {y} \in SUBSET S OBVIOUS
<1>6. Cardinality({x} \cup {y}) <= Cardinality(S) BY <1>5, FS_Subset
<1>7. Cardinality(S) \in Nat BY FS_CardinalityType
<1>8. QED BY <1>4, <1>6, <1>7

\* What a behaviour of MCSpec does to the leads: a step of Next, in a calm one
\* without errors and with at most one handler running after it, or none.
LEMMA PartStep ==
  ASSUME InstanceAssumption,
         [MCNext]_<<vars, part, calm, customers, admins, signIns>>
  PROVE  /\ calm' = calm /\ [Next]_vars
         /\ calm => (NoError /\ Serial') \/ UNCHANGED vars
<1>1. ASSUME Cardinality(Running') <= 1 PROVE Serial'
  <2>1. Running' \subseteq Requests BY DEF Running
  <2>2. IsFiniteSet(Running') BY <2>1, InstanceAssumption, FS_Subset
  <2>3. QED BY <1>1, <2>2, AtMostOne DEF Serial
<1>2. CASE MCNext /\ part = "leads"
  <2>1. /\ calm' = calm /\ Next /\ Explored' /\ (calm => NoError)
    BY <1>2 DEF MCNext
  <2>2. calm => Cardinality(Running') <= 1 BY <2>1 DEF Explored
  <2>3. QED BY <1>1, <2>1, <2>2
<1>3. CASE MCNext /\ part # "leads"
  BY <1>3 DEF MCNext
<1>4. CASE UNCHANGED <<vars, part, calm, customers, admins, signIns>>
  BY <1>4
<1>5. QED BY <1>2, <1>3, <1>4

LEMMA CalmStep ==
  ASSUME ShapeInv, CalmInv, InstanceAssumption, NoneAssumption,
         [MCNext]_<<vars, part, calm, customers, admins, signIns>>
  PROVE  ShapeInv' /\ CalmInv'
<1>1. /\ calm' = calm /\ [Next]_vars
      /\ calm => (NoError /\ Serial') \/ UNCHANGED vars
  BY PartStep
<1>2. CASE UNCHANGED vars
  BY <1>1, <1>2, NextShape
     DEF vars, CalmInv, Serial, CodesCalm, MirrorsCalm, IssuedOnce, MailOK,
         LetInOK, LastOK, Spent, Expired, MirrorOK, ChangeOK, Changing,
         Edited, Verified, Known, Running
<1>3. CASE Next /\ calm /\ NoError /\ Serial'
  BY <1>1, <1>3, NextShape, CodesStep, MirrorsStep DEF CalmInv, NoError
<1>4. CASE ~calm BY <1>1, <1>4, NextShape DEF CalmInv
<1>5. QED BY <1>1, <1>2, <1>3, <1>4

LEMMA CalmHolds == MCSpec => [](ShapeInv /\ CalmInv)
<1>1. MCInit => ShapeInv /\ CalmInv
  <2> SUFFICES ASSUME MCInit PROVE ShapeInv /\ CalmInv OBVIOUS
  <2>1. Init BY DEF MCInit
  <2>2. Running = {} BY <2>1 DEF Init, Running
  <2>3. Len(issued) = 0 BY <2>1 DEF Init
  <2>4. CodesCalm
    BY <2>1, <2>3 DEF Init, CodesCalm, IssuedOnce, MailOK, LetInOK, LastOK
  <2>5. MirrorsCalm BY <2>1, <2>2, NoneAssumption DEF Init, MirrorsCalm, MirrorOK
  <2>6. QED BY <2>1, <2>2, <2>4, <2>5, InitShape DEF CalmInv, Serial
<1>2. /\ ShapeInv /\ CalmInv
      /\ [MCNext]_<<vars, part, calm, customers, admins, signIns>>
      => (ShapeInv /\ CalmInv)'
  BY CalmStep, InstanceAssumption, NoneAssumption
<1>3. QED BY <1>1, <1>2, PTL DEF MCSpec

\* When requests come one at a time and nothing fails, the last code that
\* generateLeadOtp or forgotPassword mailed is the one its address' session
\* holds, until it is used or expires: 'valid for 1 minute' is true.
THEOREM MailedCodeWorks == MCSpec => []LastCodeWorks
<1>1. ShapeInv /\ CalmInv => LastCodeWorks
  BY DEF LastCodeWorks, LastCodeInSession, CalmInv, CodesCalm, LastOK, Spent
<1>2. QED BY <1>1, CalmHolds, PTL

\* Under the same conditions the two stores that a reset and a direct update
\* write agree whenever nothing runs, on every lead whose document was not
\* given a password by PUT /leads/update/:leadId.
THEOREM StoresAgree == MCSpec => []MirrorsAgree
<1>1. ShapeInv /\ CalmInv => MirrorsAgree
  BY DEF MirrorsAgree, PasswordsAgree, CalmInv, MirrorsCalm, MirrorOK
<1>2. QED BY <1>1, CalmHolds, PTL

\* Under the same conditions no sign-up changes the password of a lead that is
\* verified; when two requests overlap one may.
THEOREM SignUpsSpare == MCSpec => SignUpSparesVerified
<1>1. /\ ShapeInv /\ CalmInv
      /\ [MCNext]_<<vars, part, calm, customers, admins, signIns>>
      => [calm => SignUpSpares]_vars
  <2> SUFFICES ASSUME ShapeInv, CalmInv, Next, calm,
                      NEW e \in Emails, Verified(e),
                      lead'[e].password # lead[e].password
               PROVE  \E r \in Requests : /\ pc[r] \in {"local", "edit"}
                                         /\ pc'[r] # pc[r]
    BY PartStep, InstanceAssumption DEF SignUpSpares
  <2>1. PICK r \in Requests : Step(r)
    <3>1. lead' # lead OBVIOUS
    <3>2. ASSUME NEW r \in Requests PROVE ~Abort(r) BY <3>1 DEF Abort
    <3>3. ~Expire BY <3>1 DEF Expire
    <3>4. ASSUME NEW r \in Requests, NEW f \in Emails PROVE ~Arrive(r, f)
      BY <3>1, ArriveArrival DEF Arrival
    <3>5. QED BY <3>2, <3>3, <3>4 DEF Next
  <2>2. r \in Running /\ pc \in [Requests -> Places]
    BY <2>1, StepAlone DEF CalmInv, ShapeInv, TypeOK
  <2>3. ~SaveLead(r)
    <3>1. SUFFICES ASSUME SaveLead(r) PROVE FALSE OBVIOUS
    <3>2. pc[r] = "save" BY <3>1 DEF SaveLead, Goto
    <3>3. ~Verified(job[r].email)
      BY <2>2, <3>2 DEF CalmInv, MirrorsCalm, ChangeOK
    <3>4. job[r].email # e BY <3>3
    <3>5. lead'[e] = lead[e] BY <3>1, <3>4 DEF SaveLead, ShapeInv, TypeOK
    <3>6. QED BY <3>5
  <2>4. ~MarkVerified(r)
    <3>1. SUFFICES ASSUME MarkVerified(r) PROVE FALSE OBVIOUS
    <3>2. lead[e] \in Lead /\ lead \in [Emails -> Lead \cup {None}]
      BY DEF Verified, Known, ShapeInv, TypeOK
    <3>3. \/ lead'[e] = lead[e]
          \/ lead'[e] = [lead[e] EXCEPT !.verified = TRUE]
      BY <3>1, <3>2 DEF MarkVerified
    <3>4. lead'[e].password = lead[e].password BY <3>2, <3>3 DEF Lead
    <3>5. QED BY <3>4
  <2>5. SetLocal(r) \/ EditLead(r)
    BY <2>1, <2>3, <2>4
       DEF Step, EnsurePassword, IssueSession, SendMail, ForgetSession,
           ConfirmCheck, SyncCognito, UpdateCognito
  <2>6. pc[r] \in {"local", "edit"} /\ pc'[r] # pc[r]
    BY <2>2, <2>5 DEF SetLocal, EditLead, Goto
  <2>7. QED BY <2>6
<1>2. QED BY <1>1, CalmHolds, PTL DEF MCSpec, SignUpSparesVerified

=============================================================================
