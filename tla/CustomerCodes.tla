---------------------------- MODULE CustomerCodes ----------------------------
(***************************************************************************)
(* The accounts of a restaurant's customers (user.service.ts) and the      *)
(* one-time codes they sign in with (auth.service.ts).  A code is kept in  *)
(* the user's document, one for mail and text message alike, and is        *)
(* neither removed when it is used nor ever too old, though the mail says  *)
(* that it is good for a minute.                                           *)
(*                                                                         *)
(* A document is named by the request that created it, a code by the       *)
(* request that generated it: that two codes of four digits are equal is   *)
(* left out.  A request refused at its first check changes nothing and is  *)
(* left out too.                                                           *)
(***************************************************************************)
EXTENDS Integers, Sequences, FiniteSets

CONSTANTS
  Emails, Phones,
  Requests,     \* the requests served
  MaxInFlight,  \* bound: requests served at the same time
  None

VARIABLES
  users,      \* the documents of the restaurant's customers, oldest first
  cognito,    \* the users of the customers' pool, by document
  sent,       \* the codes sent, in order: code, contact, and the document it
              \* was stored in
  aged,       \* history: how many of them, the oldest first, are older than
              \* a minute
  place,      \* where each request is
  asked       \* what each request asks for

vars == <<users, cognito, sent, aged, place, asked>>

Contacts == Emails \cup Phones
Places == {"idle", "insert", "cognito", "store", "send", "done", "failed"}

Running == {r \in Requests : place[r] \notin {"idle", "done", "failed"}}

-----------------------------------------------------------------------------
(* A document of a user: created without a code, not deleted.                *)

NewUser(r, e, p) ==
  [id |-> r, email |-> e, phone |-> p, otp |-> None, deleted |-> FALSE]

-----------------------------------------------------------------------------
(* What is looked for is the oldest document with the contact, deleted or    *)
(* not; none when there is no such document.                                 *)

Has(u, a) == u.email = a \/ u.phone = a
With(a) == {i \in DOMAIN users : Has(users[i], a)}
First(a) == CHOOSE i \in With(a) : \A j \in With(a) : i <= j
Known(a) == With(a) # {}

\* Where the code for a request is stored and sent: an account just created is
\* written to by mail.
Contact(r) == IF asked[r].op = "create" THEN asked[r].email ELSE asked[r].contact

Init ==
  /\ users = <<>>
  /\ cognito = {}
  /\ sent = <<>> /\ aged = 0
  /\ place = [r \in Requests |-> "idle"]
  /\ asked = [r \in Requests |-> None]

Start(r, what, at) ==
  /\ place[r] = "idle"
  /\ Cardinality(Running) < MaxInFlight
  /\ asked' = [asked EXCEPT ![r] = what]
  /\ place' = [place EXCEPT ![r] = at]

Goto(r, from, to) ==
  /\ place[r] = from
  /\ place' = [place EXCEPT ![r] = to]

\* create: only a document with the same address and the same number, the
\* oldest with this address, stands in the way.
Create(r, e, p) ==
  /\ ~(Known(e) /\ users[First(e)].phone = p)
  /\ Start(r, [op |-> "create", email |-> e, phone |-> p, doc |-> None],
           "insert")
  /\ UNCHANGED <<users, cognito, sent, aged>>

Insert(r) ==
  /\ Goto(r, "insert", "cognito")
  /\ users' = Append(users, NewUser(r, asked[r].email, asked[r].phone))
  /\ UNCHANGED <<cognito, sent, aged, asked>>

\* signUpUserInCognito: the id of the document is the name of the user.
SignUpUser(r) ==
  /\ Goto(r, "cognito", "store")
  /\ cognito' = cognito \cup {r}
  /\ UNCHANGED <<users, sent, aged, asked>>

\* generateOtp and resendOtp by address, generateSmsOtp and resendSmsOtp by
\* number: the document must be there.
AskCode(r, a) ==
  /\ Known(a)
  /\ Start(r, [op |-> IF a \in Emails THEN "mail" ELSE "text", contact |-> a,
                doc |-> None], "store")
  /\ UNCHANGED <<users, cognito, sent, aged>>

\* The code is stored in the oldest document with the contact, if there still
\* is one.
StoreOnce(r) ==
  LET a == Contact(r)
  IN /\ Goto(r, "store", "send")
     /\ IF Known(a)
        THEN /\ users' = [users EXCEPT ![First(a)].otp = IF @ = None THEN r ELSE @]
             /\ asked' = [asked EXCEPT ![r].doc = users[First(a)].id]
        ELSE UNCHANGED <<users, asked>>
     /\ UNCHANGED <<cognito, sent, aged>>
Store(r) ==
  LET a == Contact(r)
  IN /\ Goto(r, "store", "send")
     /\ IF Known(a)
        THEN /\ users' = [users EXCEPT ![First(a)].otp = r]
             /\ asked' = [asked EXCEPT ![r].doc = users[First(a)].id]
        ELSE UNCHANGED <<users, asked>>
     /\ UNCHANGED <<cognito, sent, aged>>

Send(r) ==
  /\ Goto(r, "send", "done")
  /\ sent' = Append(sent, [code |-> r, to |-> Contact(r), doc |-> asked[r].doc])
  /\ UNCHANGED <<users, cognito, aged, asked>>

\* Time passes: another code has been sent a minute ago.  Nothing looks at it.
Minute ==
  /\ aged < Len(sent)
  /\ aged' = aged + 1
  /\ UNCHANGED <<users, cognito, sent, place, asked>>

\* verifyOtpAndSignIn and verifySmsOtp: the code of the oldest document with
\* the contact is compared, and nothing is changed.
Verifies(a, c) == Known(a) /\ users[First(a)].otp = c

\* The database, Cognito or the sender refuses, or the server stops: what was
\* done stays.
Fail(r) ==
  /\ r \in Running
  /\ place' = [place EXCEPT ![r] = "failed"]
  /\ UNCHANGED <<users, cognito, sent, aged, asked>>

\* update and deleteUser: the document is there, and changed in one step.
Update(i, p) ==
  /\ Cardinality(Running) < MaxInFlight
  /\ users[i].phone # p
  /\ users' = [users EXCEPT ![i].phone = p]
  /\ UNCHANGED <<cognito, sent, aged, place, asked>>
DeleteUser(i) ==
  /\ Cardinality(Running) < MaxInFlight
  /\ ~users[i].deleted
  /\ users' = [users EXCEPT ![i].deleted = TRUE]
  /\ UNCHANGED <<cognito, sent, aged, place, asked>>

Next ==
  \/ \E r \in Requests :
       \/ \E e \in Emails, p \in Phones : Create(r, e, p)
       \/ Insert(r) \/ SignUpUser(r) \/ Store(r) \/ Send(r) \/ Fail(r)
       \/ \E a \in Contacts : AskCode(r, a)
  \/ \E i \in DOMAIN users :
       DeleteUser(i) \/ \E p \in Phones : Update(i, p)
  \/ Minute

Spec == Init /\ [][Next]_vars

-----------------------------------------------------------------------------
(* The properties.                                                           *)

\* The type of the accounts, the codes and the requests.
TypeOK ==
  /\ users \in Seq([id : Requests, email : Emails, phone : Phones,
                    otp : Requests \cup {None}, deleted : BOOLEAN])
  /\ cognito \subseteq Requests
  /\ sent \in Seq([code : Requests, to : Contacts, doc : Requests \cup {None}])
  /\ aged \in 0..Len(sent)
  /\ place \in [Requests -> Places]

\* The last code sent to a contact.
Sendings(a) == {i \in DOMAIN sent : sent[i].to = a}
LastSent(a) == sent[CHOOSE i \in Sendings(a) : \A j \in Sendings(a) : j <= i]
SentTo(a) == {sent[i].code : i \in Sendings(a)}
Young(i) == i > aged

\* The mail says that 'This OTP is valid for the next 1 minute': as long as
\* requests come one at a time, the last code sent to a contact verifies it for
\* that minute at least, unless the contact went to another account since, or
\* the account was given another code: one sent to its other contact, of this
\* moment or an earlier one, or one that could not be sent
\* (generateAndSendOtp, generateSmsOtp, one otp field for both).
LastCodeVerifies ==
  \A a \in Contacts :
    (/\ \E i \in Sendings(a) : Young(i)
     /\ Known(a) /\ Running = {}) =>
      LET u == users[First(a)]
          Failed == {r \in Requests : place[r] = "failed"}
      IN \/ Verifies(a, LastSent(a).code)
         \/ u.id # LastSent(a).doc
         \/ u.otp \in Failed \cup UNION {SentTo(b) : b \in Contacts \ {a}}

\* Whoever got a code for an account just created has a user in Cognito
\* (create, the order of its calls).
ToldMeansAccount ==
  \A r \in Requests :
    (asked[r] # None /\ asked[r].op = "create" /\ place[r] = "done")
      => r \in cognito

-----------------------------------------------------------------------------
(* What makes them inductive.                                                *)

\* A document is there once its creation got past the insertion, and a code was
\* sent for a document that is there; whoever is past it has a user in Cognito.
Ids == {users[i].id : i \in DOMAIN users}
CodesInv ==
  /\ ToldMeansAccount
  /\ \A r \in Requests :
       (place[r] \in {"store", "send"} /\ asked[r].op = "create") => r \in cognito
  /\ \A i, j \in DOMAIN users : users[i].id = users[j].id => i = j
  /\ \A i \in DOMAIN users : place[users[i].id] \notin {"idle", "insert"}
  /\ \A k \in DOMAIN sent : sent[k].doc \in Ids \cup {None}
  /\ \A r \in Requests :
       place[r] # "idle" =>
         /\ asked[r].doc \in Ids \cup {None}
         /\ place[r] \in {"insert", "cognito", "store"} => asked[r].doc = None

\* One request at a time, the code about to be sent is in its document, and a
\* document has the code sent last for it to a contact unless it has one that
\* was sent elsewhere, was not sent or is about to be.
Serial == \A q, r \in Running : q = r
CodesCalm ==
  LET Unsent == {r \in Requests : place[r] \in {"send", "failed"}}
  IN \A i \in DOMAIN users :
       /\ \A r \in Requests :
            (place[r] = "send" /\ asked[r].doc = users[i].id) => users[i].otp = r
       /\ \A a \in Contacts : \A k \in Sendings(a) :
            (sent[k].doc = users[i].id /\ \A j \in Sendings(a) : j <= k)
              => users[i].otp \in {sent[k].code} \cup Unsent
                   \cup UNION {SentTo(b) : b \in Contacts \ {a}}
=============================================================================
