---------------------------- MODULE LeadAccounts ----------------------------
(***************************************************************************)
(* Sign-up, e-mail verification and password reset of a lead               *)
(* (auth.service.ts, the creation of leads in leads.service.ts).           *)
(*                                                                         *)
(* Four records must be kept in step without a transaction: the lead, the  *)
(* one-time-code session of its e-mail address, the password Cognito keeps *)
(* for that address, and the mail the person reads.  Sign-up verification  *)
(* and password reset share the one session an address has.                *)
(*                                                                         *)
(* Each request is served once by a handler; an action is what the handler *)
(* does up to its next await.  A code is named by the request that         *)
(* generates it.  A request that is refused at its first check changes     *)
(* nothing and is left out.                                                *)
(***************************************************************************)
EXTENDS Integers, Sequences, FiniteSets

CONSTANTS
  Emails,       \* the addresses of the leads
  Passwords,    \* the passwords people choose
  Requests,     \* the requests served, which also name the codes
  Operations,   \* the operations they may ask for, of Ops
  MaxInFlight,  \* bound: handlers running at the same time
  Failures,     \* whether a handler may die or get an error at an await
  Generated,    \* a random password nobody is told
  None          \* no document, no code, no mail

Ops == {"signup", "onboard", "google", "regenerate", "verify", "forgot",
        "confirm", "update", "edit"}
Lead == [password : Passwords \cup {Generated}, verified : BOOLEAN,
         sso : BOOLEAN]
Places == {"idle", "save", "ensure", "issue", "mail", "check", "local",
           "cognito", "forget", "mark", "edit", "done"}

ASSUME InstanceAssumption ==
  /\ IsFiniteSet(Requests)
  /\ Operations \subseteq Ops
  /\ MaxInFlight \in Nat
  /\ Failures \in BOOLEAN
ASSUME NoneAssumption ==
  /\ Generated \notin Passwords
  /\ None \notin Lead /\ None \notin Requests
  /\ None \notin Passwords \cup {Generated}

VARIABLES
  lead,        \* the lead collection, by address
  cognito,     \* the password of the address at Cognito, None: no user
  otpSession,  \* the otpSessions collection: the code of each address
  issued,      \* history: the codes in the order they were written
  lapsed,      \* how many of them, the oldest first, have expired
  mailed,      \* the codes sent by mail
  lastMail,    \* the last code mailed to each address
  accepted,    \* history: [by |-> request, code |-> code it was let in with]
  pc,          \* where each handler is
  job,         \* what each handler holds
  failed       \* handlers that died at an await

vars == <<lead, cognito, otpSession, issued, lapsed, mailed, lastMail,
          accepted, pc, job, failed>>
codes == <<issued, lapsed, mailed, lastMail>>

\* code: the code typed by the person; password: the one chosen; lead: the
\* lead as the handler read it; after: history, the handlers that had ended
\* when this one began.
Job == [op : Ops, email : Emails, code : Requests \cup {None},
        password : Passwords \cup {Generated}, lead : Lead \cup {None},
        after : SUBSET Requests]

TypeOK ==
  /\ lead \in [Emails -> Lead \cup {None}]
  /\ cognito \in [Emails -> Passwords \cup {Generated, None}]
  /\ otpSession \in [Emails -> Requests \cup {None}]
  /\ issued \in Seq(Requests)
  /\ lapsed \in 0..Len(issued)
  /\ mailed \subseteq Requests
  /\ lastMail \in [Emails -> Requests \cup {None}]
  /\ accepted \subseteq [by : Requests, code : Requests]
  /\ pc \in [Requests -> Places]
  /\ job \in [Requests -> Job \cup {None}]
  /\ failed \subseteq Requests

Init ==
  /\ lead = [e \in Emails |-> None]
  /\ cognito = [e \in Emails |-> None]
  /\ otpSession = [e \in Emails |-> None]
  /\ issued = <<>> /\ lapsed = 0
  /\ mailed = {} /\ lastMail = [e \in Emails |-> None]
  /\ accepted = {}
  /\ pc = [r \in Requests |-> "idle"]
  /\ job = [r \in Requests |-> None]
  /\ failed = {}

-----------------------------------------------------------------------------
(* Helpers *)

Running == {r \in Requests : pc[r] \notin {"idle", "done"}}
Expired == {issued[i] : i \in 1..lapsed}

Start(r, op, e, c, p, place) ==
  /\ op \in Operations
  /\ pc[r] = "idle"
  /\ Cardinality(Running) < MaxInFlight
  /\ job' = [job EXCEPT ![r] =
       [op |-> op, email |-> e, code |-> c, password |-> p,
        lead |-> lead[e], after |-> {q \in Requests : pc[q] = "done"}]]
  /\ pc' = [pc EXCEPT ![r] = place]

Goto(r, from, to) ==
  /\ pc[r] = from
  /\ pc' = [pc EXCEPT ![r] = to]

Is(r, op) == job[r] # None /\ job[r].op = op
Known(e) == lead[e] # None
Verified(e) == Known(e) /\ lead[e].verified
Unverified(e) == Known(e) /\ ~lead[e].verified

\* Seeded fault: whoever has a session is let in.
AcceptsAny(e, c) == otpSession[e] # None /\ otpSession[e] \notin Expired
\* The session's code is compared, and its expiry.
Accepts(e, c) == otpSession[e] = c /\ c \notin Expired

-----------------------------------------------------------------------------
(* Becoming a lead: by the sign-up form, by the onboarding endpoint, by      *)
(* signing in with Google.                                                 *)

\* Seeded fault: a verified lead may sign up again.
MaySignUpAlways(e) == e \in Emails
MaySignUp(e) == ~Verified(e)

SignUpRead(r, e, p) ==
  /\ MaySignUp(e)
  /\ Start(r, "signup", e, None, p, "save")
  /\ UNCHANGED <<lead, cognito, otpSession, codes, accepted, failed>>

OnboardRead(r, e, p) ==
  /\ ~Known(e)
  /\ Start(r, "onboard", e, None, p, "save")
  /\ UNCHANGED <<lead, cognito, otpSession, codes, accepted, failed>>

\* An unknown address becomes a verified lead, an unverified one is verified.
GoogleRead(r, e) ==
  /\ ~Verified(e)
  /\ Start(r, "google", e, None, Generated,
           IF Known(e) THEN "mark" ELSE "save")
  /\ UNCHANGED <<lead, cognito, otpSession, codes, accepted, failed>>

\* A lead that was read is updated, an unknown one created: that fails if
\* the address has got a lead meanwhile (it is a unique key).
SaveLead(r) ==
  LET j == job[r]
      e == j.email
      taken == j.lead = None /\ Known(e)
  IN /\ Goto(r, "save",
             IF taken \/ j.op # "signup" THEN "done" ELSE "issue")
     /\ lead' = IF taken THEN lead
                ELSE [lead EXCEPT ![e] =
                  [password |-> j.password,
                   verified |-> IF Known(e) THEN lead[e].verified
                                ELSE j.op = "google",
                   sso |-> j.op = "google"]]
     /\ failed' = IF taken THEN failed \cup {r} ELSE failed
     /\ UNCHANGED <<cognito, otpSession, codes, accepted, job>>

-----------------------------------------------------------------------------
(* Codes: generated for a sign-up, again on demand, and for a reset          *)

RegenerateRead(r, e) ==
  /\ Unverified(e)
  /\ Start(r, "regenerate", e, None, Generated, "issue")
  /\ UNCHANGED <<lead, cognito, otpSession, codes, accepted, failed>>

ForgotRead(r, e) ==
  /\ Verified(e)
  /\ Start(r, "forgot", e, None, Generated, "ensure")
  /\ UNCHANGED <<lead, cognito, otpSession, codes, accepted, failed>>

\* Before a reset code is sent Cognito is given a password nobody knows; what
\* goes wrong there is swallowed.
EnsurePassword(r) ==
  LET e == job[r].email
  IN /\ Goto(r, "ensure", "issue")
     /\ \/ cognito' = [cognito EXCEPT ![e] = Generated]
        \/ Failures /\ UNCHANGED cognito
     /\ UNCHANGED <<lead, otpSession, codes, accepted, job, failed>>

\* Seeded fault: an existing session keeps its code.
IssueSessionOnce(r) ==
  LET e == job[r].email
  IN /\ Goto(r, "issue", "mail")
     /\ otpSession' = IF otpSession[e] = None
                      THEN [otpSession EXCEPT ![e] = r] ELSE otpSession
     /\ issued' = Append(issued, r)
     /\ UNCHANGED <<lead, cognito, lapsed, mailed, lastMail, accepted, job,
                    failed>>

\* The address' session gets the new code in place of any other.
IssueSession(r) ==
  /\ Goto(r, "issue", "mail")
  /\ otpSession' = [otpSession EXCEPT ![job[r].email] = r]
  /\ issued' = Append(issued, r)
  /\ UNCHANGED <<lead, cognito, lapsed, mailed, lastMail, accepted, job,
                 failed>>

\* The code is mailed, unless it is not a reset code and has already expired.
SendMail(r) ==
  LET sends == job[r].op = "forgot" \/ r \notin Expired
  IN /\ Goto(r, "mail", "done")
     /\ mailed' = IF sends THEN mailed \cup {r} ELSE mailed
     /\ lastMail' = IF sends THEN [lastMail EXCEPT ![job[r].email] = r]
                    ELSE lastMail
     /\ UNCHANGED <<lead, cognito, otpSession, issued, lapsed, accepted, job,
                    failed>>

\* Time passes: the oldest code that is still good has had its minute.
Expire ==
  /\ lapsed < Len(issued)
  /\ lapsed' = lapsed + 1
  /\ UNCHANGED <<lead, cognito, otpSession, issued, mailed, lastMail,
                 accepted, pc, job, failed>>

-----------------------------------------------------------------------------
(* Verifying the address *)

VerifyCheck(r, e, c) ==
  /\ Accepts(e, c)
  /\ Start(r, "verify", e, c, Generated, "forget")
  /\ accepted' = accepted \cup {[by |-> r, code |-> c]}
  /\ UNCHANGED <<lead, cognito, otpSession, codes, failed>>

\* Seeded fault: the session stays.
ForgetSessionNot(r) ==
  /\ Goto(r, "forget", IF job[r].op = "verify" THEN "mark" ELSE "done")
  /\ UNCHANGED <<lead, cognito, otpSession, codes, accepted, job, failed>>

\* The session of the address is deleted, whatever code it holds by now.
ForgetSession(r) ==
  /\ Goto(r, "forget", IF job[r].op = "verify" THEN "mark" ELSE "done")
  /\ otpSession' = [otpSession EXCEPT ![job[r].email] = None]
  /\ UNCHANGED <<lead, cognito, codes, accepted, job, failed>>

MarkVerified(r) ==
  LET e == job[r].email
  IN /\ Goto(r, "mark", "done")
     /\ lead' = IF Known(e) THEN [lead EXCEPT ![e].verified = TRUE] ELSE lead
     /\ UNCHANGED <<cognito, otpSession, codes, accepted, job, failed>>

-----------------------------------------------------------------------------
(* Setting a new password: with a reset code, or directly after one was      *)
(* verified                                                                *)

ConfirmRead(r, e, c, p) ==
  /\ Verified(e)
  /\ Start(r, "confirm", e, c, p, "check")
  /\ UNCHANGED <<lead, cognito, otpSession, codes, accepted, failed>>

ConfirmCheck(r) ==
  LET j == job[r]
      good == Accepts(j.email, j.code)
  IN /\ Goto(r, "check", IF good THEN "local" ELSE "done")
     /\ accepted' = IF good THEN accepted \cup {[by |-> r, code |-> j.code]}
                    ELSE accepted
     /\ UNCHANGED <<lead, cognito, otpSession, codes, job, failed>>

UpdateRead(r, e, p) ==
  /\ Verified(e)
  /\ Start(r, "update", e, None, p, "cognito")
  /\ UNCHANGED <<lead, cognito, otpSession, codes, accepted, failed>>

\* Seeded fault: the arguments are swapped, the code becomes the password.
SetLocalSwapped(r) ==
  LET j == job[r]
  IN /\ Goto(r, "local", IF j.op = "update" THEN "done"
                         ELSE IF j.lead.sso THEN "forget" ELSE "cognito")
     /\ lead' = [lead EXCEPT ![j.email].password = j.code,
                             ![j.email].sso = FALSE]
     /\ UNCHANGED <<cognito, otpSession, codes, accepted, job, failed>>

\* The lead's own password.  A reset goes on to Cognito's unless the lead,
\* as it was read, signs in with another provider.
SetLocal(r) ==
  LET j == job[r]
  IN /\ Goto(r, "local", IF j.op = "update" THEN "done"
                         ELSE IF j.lead.sso THEN "forget" ELSE "cognito")
     /\ lead' = [lead EXCEPT ![j.email].password = j.password,
                             ![j.email].sso = FALSE]
     /\ UNCHANGED <<cognito, otpSession, codes, accepted, job, failed>>

\* Seeded fault: Cognito is told the password the lead had when it was read.
SyncCognitoOld(r) ==
  LET j == job[r]
      e == j.email
  IN /\ Is(r, "confirm")
     /\ Goto(r, "cognito", "forget")
     /\ \/ cognito' = IF cognito[e] = None THEN cognito
                      ELSE [cognito EXCEPT ![e] = j.lead.password]
        \/ Failures /\ UNCHANGED cognito
     /\ UNCHANGED <<lead, otpSession, codes, accepted, job, failed>>

\* A reset tries to tell Cognito and goes on whatever happens.
SyncCognito(r) ==
  LET j == job[r]
      e == j.email
  IN /\ Is(r, "confirm")
     /\ Goto(r, "cognito", "forget")
     /\ \/ cognito' = IF cognito[e] = None THEN cognito
                      ELSE [cognito EXCEPT ![e] = j.password]
        \/ Failures /\ UNCHANGED cognito
     /\ UNCHANGED <<lead, otpSession, codes, accepted, job, failed>>

\* A direct update needs a Cognito user, and tells Cognito first.
UpdateCognito(r) ==
  LET j == job[r]
      e == j.email
  IN /\ Is(r, "update")
     /\ Goto(r, "cognito", IF cognito[e] = None THEN "done" ELSE "local")
     /\ cognito' = IF cognito[e] = None THEN cognito
                   ELSE [cognito EXCEPT ![e] = j.password]
     /\ UNCHANGED <<lead, otpSession, codes, accepted, job, failed>>

-----------------------------------------------------------------------------
(* PUT /leads/update/:leadId with a password: nothing is checked, and Cognito *)
(* is not told.  The provider the lead signs in with may be written as well.  *)

EditRead(r, e, p) ==
  /\ Known(e)
  /\ Start(r, "edit", e, None, p, "edit")
  /\ UNCHANGED <<lead, cognito, otpSession, codes, accepted, failed>>

EditLead(r) ==
  LET j == job[r]
  IN /\ Goto(r, "edit", "done")
     /\ \E sso \in BOOLEAN :
          lead' = [lead EXCEPT ![j.email].password = j.password,
                               ![j.email].sso = sso]
     /\ UNCHANGED <<cognito, otpSession, codes, accepted, job, failed>>

-----------------------------------------------------------------------------
\* A failed call or a crash ends the handler where it stands.
Abort(r) ==
  /\ Failures
  /\ r \in Running
  /\ pc' = [pc EXCEPT ![r] = "done"]
  /\ failed' = failed \cup {r}
  /\ UNCHANGED <<lead, cognito, otpSession, codes, accepted, job>>

Arrive(r, e) ==
  \/ GoogleRead(r, e) \/ RegenerateRead(r, e) \/ ForgotRead(r, e)
  \/ \E p \in Passwords :
       \/ SignUpRead(r, e, p) \/ OnboardRead(r, e, p)
       \/ UpdateRead(r, e, p) \/ EditRead(r, e, p)
  \/ \E c \in mailed :
       VerifyCheck(r, e, c) \/ \E p \in Passwords : ConfirmRead(r, e, c, p)

Step(r) ==
  \/ SaveLead(r) \/ EnsurePassword(r) \/ IssueSession(r) \/ SendMail(r)
  \/ ForgetSession(r) \/ MarkVerified(r)
  \/ ConfirmCheck(r) \/ SetLocal(r) \/ SyncCognito(r) \/ UpdateCognito(r)
  \/ EditLead(r)

Next ==
  \/ \E r \in Requests : Step(r) \/ Abort(r) \/ \E e \in Emails : Arrive(r, e)
  \/ Expire

Spec == Init /\ [][Next]_vars

-----------------------------------------------------------------------------
(* Properties *)

\* A lead is verified only because someone signed in with Google under that
\* address or typed a code generated for that very address.
VerifiedByOwner ==
  \A e \in Emails :
    Verified(e) =>
      \E r \in Requests :
        /\ pc[r] # "idle" /\ job[r].email = e
        /\ \/ job[r].op = "google"
           \/ /\ job[r].op = "verify" /\ job[r].code # None
              /\ pc[job[r].code] # "idle" /\ job[job[r].code].email = e

\* A code that let a request in, and that request ended well, lets in no
\* request that begins later, to verify or to reset.
CodeUsedOnce ==
  \A a, b \in accepted :
    ~(/\ a.code = b.code /\ a.by \notin failed
      /\ a.by \in job[b.by].after)

\* The sign-up form refuses a verified lead: 'User already exists and is
\* verified'.  So only a reset, an update or an edit of the lead's document
\* changes a verified lead's password.
SignUpSpares ==
  \A e \in Emails :
    (Verified(e) /\ lead'[e].password # lead[e].password)
      => \E r \in Requests : pc[r] \in {"local", "edit"} /\ pc'[r] # pc[r]

\* The mail says that its code is good for a minute: when nothing runs, the
\* last code mailed to an address is in its session until it is used or
\* expires.
LastCodeInSession ==
  \A e \in Emails :
    LET c == lastMail[e]
    IN (/\ Running = {} /\ c # None /\ c \notin Expired
        /\ \A a \in accepted : a.code # c)
         => otpSession[e] = c

\* A lead whose document was given a password by PUT /leads/update/:leadId.
Edited(e) ==
  \E r \in Requests : pc[r] # "idle" /\ job[r].op = "edit" /\ job[r].email = e

\* When nothing runs, a password chosen by the lead that Cognito knows is the
\* one the lead has in the database, as long as only sign-ups, resets and
\* updates set it: only the edit of a lead's document sets them apart.
PasswordsAgree ==
  \A e \in Emails :
    (/\ Running = {} /\ Known(e) /\ ~Edited(e) /\ cognito[e] \in Passwords)
      => lead[e].password = cognito[e]

-----------------------------------------------------------------------------
(* What makes the last three inductive as long as requests come one at a    *)
(* time and without errors.                                                *)

Serial == \A r, s \in Running : r = s
Spent(c) == c = None \/ c \in Expired \/ \E a \in accepted : a.code = c

\* Codes are written once, in their order; the code being mailed is the newest
\* and in its session; a session is deleted only when the last code mailed is
\* of no more use.
IssuedOnce ==
  /\ \A i, k \in 1..Len(issued) : issued[i] = issued[k] => i = k
  /\ \A i \in 1..Len(issued) :
       pc[issued[i]] \notin {"idle", "save", "ensure", "issue"}
  /\ \A e \in Emails :
       lastMail[e] # None => \E i \in 1..Len(issued) : issued[i] = lastMail[e]
MailOK(r) ==
  pc[r] = "mail" =>
    /\ otpSession[job[r].email] = r
    /\ issued # <<>> /\ issued[Len(issued)] = r
LetInOK(r) ==
  (pc[r] \in {"local", "cognito", "forget"} /\ job[r].op # "update")
    => Spent(lastMail[job[r].email])
LastOK(e) ==
  \/ Spent(lastMail[e]) \/ otpSession[e] = lastMail[e]
  \/ \E r \in Running : pc[r] = "mail" /\ job[r].email = e
CodesCalm ==
  /\ failed = {} /\ IssuedOnce
  /\ \A r \in Requests : MailOK(r) /\ LetInOK(r)
  /\ \A e \in Emails : LastOK(e)

\* Cognito knows a verified lead only, and a chosen password of it is the
\* lead's own, except between the two writes of a change and after an edit.
Changing(r) ==
  <<job[r].op, pc[r]>> \in {<<"update", "local">>, <<"confirm", "cognito">>}
MirrorOK(e) ==
  /\ cognito[e] # None => Verified(e)
  /\ cognito[e] \in Passwords =>
       \/ Edited(e)
       \/ lead[e].password = cognito[e] /\ ~lead[e].sso
       \/ \E r \in Running : job[r].email = e /\ Changing(r)
ChangeOK(r) ==
  LET j == job[r]
      e == j.email
  IN /\ pc[r] = "save" => ~Verified(e)
     /\ pc[r] = "ensure" => Verified(e)
     /\ (j.op = "confirm" /\ pc[r] \in {"check", "local"} /\ j.lead.sso)
          => Edited(e) \/ cognito[e] \notin Passwords
     /\ (j.op = "confirm" /\ pc[r] = "cognito")
          => lead[e].password = j.password /\ ~lead[e].sso
     /\ (j.op = "update" /\ pc[r] = "local") => cognito[e] = j.password
MirrorsCalm ==
  /\ \A e \in Emails : MirrorOK(e)
  /\ \A r \in Running : ChangeOK(r)

=============================================================================
