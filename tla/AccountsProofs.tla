--------------------------- MODULE AccountsProofs ---------------------------
(***************************************************************************)
(* Proofs about the customers, administrators and sign-ins of MCAccounts,  *)
(* for all sets of people, passwords, restaurants and requests.            *)
(***************************************************************************)
EXTENDS LeadAccountsProofs, WellFoundedInduction

LEMMA Least ==
  ASSUME NEW S \in SUBSET Nat, S # {}
  PROVE  \E x \in S : \A y \in S : x <= y
<1> DEFINE R == OpToRel(<, Nat)
<1>1. IsWellFoundedOn(R, Nat) BY NatLessThanWellFounded
<1>2. PICK x \in S : \A y \in S : <<y, x>> \notin R BY <1>1, WFMin, Zenon
<1>3. \A y \in S : ~(y < x) BY <1>2 DEF OpToRel
<1>4. QED BY <1>3

LEMMA Greatest ==
  ASSUME NEW n \in Nat, NEW S \in SUBSET (1..n), S # {}
  PROVE  \E x \in S : \A y \in S : y <= x
<1> DEFINE T == {n - x : x \in S}
<1>1. T \in SUBSET Nat /\ T # {}
  <2>1. \A x \in S : x \in 1..n OBVIOUS
  <2>2. \A x \in S : n - x \in Nat BY <2>1
  <2>3. QED BY <2>2
<1>2. PICK t \in T : \A u \in T : t <= u BY <1>1, Least
<1>3. PICK x \in S : t = n - x OBVIOUS
<1>4. \A y \in S : n - x <= n - y BY <1>2, <1>3
<1>5. QED BY <1>4

-----------------------------------------------------------------------------
(* Customers: types                                                          *)

CustomerAsks ==
  [op : {"create"}, email : Mailboxes, phone : Phones, doc : Few \cup {None}]
    \cup [op : {"mail", "text"}, contact : Customers!Contacts,
          doc : Few \cup {None}]

CustomersTyped ==
  /\ Customers!TypeOK
  /\ asked \in [Few -> CustomerAsks \cup {None}]
  /\ \A r \in Few :
       codesPlace[r] # "idle" =>
         /\ asked[r] \in CustomerAsks
         /\ codesPlace[r] \in {"insert", "cognito"} => asked[r].op = "create"

Account ==
  [id : Few, email : Mailboxes, phone : Phones, otp : Few \cup {None},
   deleted : BOOLEAN]
Sending ==
  [code : Few, to : Customers!Contacts, doc : Few \cup {None}]

LEMMA FirstIsThere ==
  ASSUME Customers!TypeOK, NEW a, Customers!Known(a)
  PROVE  Customers!First(a) \in DOMAIN users
<1> DEFINE S == Customers!With(a)
<1>1. S \in SUBSET Nat /\ S # {} /\ S \subseteq DOMAIN users
  BY DEF Customers!TypeOK, Customers!With, Customers!Known
<1>2. \E i \in S : \A j \in S : i <= j BY <1>1, Least
<1>3. Customers!First(a) \in S BY <1>2 DEF Customers!First
<1>4. QED BY <1>1, <1>3

LEMMA ContactTyped ==
  ASSUME CustomersTyped, NEW r \in Few, codesPlace[r] # "idle"
  PROVE  Customers!Contact(r) \in Customers!Contacts
BY DEF CustomersTyped, CustomerAsks, Customers!Contact, Customers!Contacts

LEMMA CustomersStart ==
  ASSUME CustomersTyped, NEW r \in Few, NEW what \in CustomerAsks,
         NEW at \in {"insert", "store"}, at = "insert" => what.op = "create",
         Customers!Start(r, what, at), UNCHANGED <<users, pool, sent, aged>>
  PROVE  CustomersTyped'
BY DEF CustomersTyped, Customers!TypeOK, Customers!Start, Customers!Places

LEMMA StoreTyped ==
  ASSUME CustomersTyped, NEW r \in Few, Customers!Store(r)
  PROVE  CustomersTyped'
<1> DEFINE a == Customers!Contact(r)
           i == Customers!First(a)
<1>1. /\ codesPlace[r] = "store"
      /\ codesPlace' = [codesPlace EXCEPT ![r] = "send"]
      /\ UNCHANGED <<pool, sent, aged>>
  BY DEF Customers!Store, Customers!Goto
<1>2. asked[r] \in CustomerAsks BY <1>1 DEF CustomersTyped
<1>3. users \in Seq(Account) BY DEF CustomersTyped, Customers!TypeOK, Account
<1>4. CASE Customers!Known(a)
  <2>1. i \in DOMAIN users
    BY <1>4, FirstIsThere DEF CustomersTyped
  <2>2. users[i] \in Account BY <1>3, <2>1
  <2>3. /\ users' = [users EXCEPT ![i].otp = r]
        /\ asked' = [asked EXCEPT ![r].doc = users[i].id]
    BY <1>4 DEF Customers!Store
  <2>4. users' \in Seq(Account)
    <3>1. [users[i] EXCEPT !.otp = r] \in Account BY <2>2 DEF Account
    <3>2. users' = [users EXCEPT ![i] = [users[i] EXCEPT !.otp = r]] BY <2>3
    <3>3. QED BY <1>3, <2>1, <3>1, <3>2
  <2>5. [asked[r] EXCEPT !.doc = users[i].id] \in CustomerAsks
    BY <1>2, <2>2 DEF CustomerAsks, Account
  <2>6. asked' = [asked EXCEPT ![r] = [asked[r] EXCEPT !.doc = users[i].id]]
    BY <2>3
  <2>7. QED
    BY <1>1, <2>4, <2>5, <2>6
       DEF CustomersTyped, Customers!TypeOK, Account, Customers!Places
<1>5. CASE ~Customers!Known(a)
  <2>1. UNCHANGED <<users, asked>> BY <1>5 DEF Customers!Store
  <2>2. QED
    BY <1>1, <1>2, <2>1 DEF CustomersTyped, Customers!TypeOK, Customers!Places
<1>6. QED BY <1>4, <1>5

LEMMA UsersTyped ==
  ASSUME CustomersTyped, Customers!Next
  PROVE  CustomersTyped'
<1> USE DEF Customers!Goto, Customers!Places
<1>1. users \in Seq(Account) /\ sent \in Seq(Sending)
  BY DEF CustomersTyped, Customers!TypeOK, Account, Sending
<1>2. ASSUME NEW r \in Few, NEW e \in Mailboxes, NEW p \in Phones,
             Customers!Create(r, e, p)
      PROVE  CustomersTyped'
  <2> DEFINE what == [op |-> "create", email |-> e, phone |-> p, doc |-> None]
  <2>1. what \in CustomerAsks BY DEF CustomerAsks
  <2>2. Customers!Start(r, what, "insert") /\ UNCHANGED <<users, pool, sent, aged>>
    BY <1>2 DEF Customers!Create
  <2>3. QED BY <2>1, <2>2, CustomersStart
<1>3. ASSUME NEW r \in Few, Customers!Insert(r) PROVE CustomersTyped'
  <2>1. asked[r] \in CustomerAsks /\ asked[r].op = "create"
    BY <1>3 DEF CustomersTyped, Customers!Insert
  <2> DEFINE new == Customers!NewUser(r, asked[r].email, asked[r].phone)
  <2>2. new \in Account BY <2>1 DEF Customers!NewUser, Account, CustomerAsks
  <2>3. Append(users, new) \in Seq(Account) BY <1>1, <2>2
  <2>4. QED
    BY <1>3, <2>3 DEF CustomersTyped, Customers!TypeOK, Customers!Insert, Account
<1>4. ASSUME NEW r \in Few, Customers!SignUpUser(r) PROVE CustomersTyped'
  BY <1>4 DEF CustomersTyped, Customers!TypeOK, Customers!SignUpUser
<1>5. ASSUME NEW r \in Few, Customers!Store(r) PROVE CustomersTyped'
  BY <1>5, StoreTyped
<1>6. ASSUME NEW r \in Few, Customers!Send(r) PROVE CustomersTyped'
  <2> DEFINE mail == [code |-> r, to |-> Customers!Contact(r), doc |-> asked[r].doc]
  <2>1. asked[r] \in CustomerAsks /\ Customers!Contact(r) \in Customers!Contacts
    BY <1>6, ContactTyped DEF CustomersTyped, Customers!Send
  <2>2. mail \in Sending BY <2>1 DEF Sending, CustomerAsks
  <2>3. /\ Append(sent, mail) \in Seq(Sending)
        /\ Len(Append(sent, mail)) = Len(sent) + 1 /\ Len(sent) \in Nat
    BY <1>1, <2>2
  <2>4. sent' = Append(sent, mail) /\ aged' = aged
    BY <1>6 DEF Customers!Send
  <2> HIDE DEF mail
  <2>5. sent' \in Seq(Sending) /\ aged' \in 0..Len(sent')
    BY <2>3, <2>4 DEF CustomersTyped, Customers!TypeOK
  <2>6. QED
    BY <1>6, <2>5 DEF CustomersTyped, Customers!TypeOK, Customers!Send, Sending
<1>7. ASSUME NEW r \in Few, Customers!Fail(r) PROVE CustomersTyped'
  BY <1>7 DEF CustomersTyped, Customers!TypeOK, Customers!Fail, Customers!Running
<1>8. ASSUME NEW r \in Few, NEW a \in Customers!Contacts, Customers!AskCode(r, a)
      PROVE  CustomersTyped'
  <2> DEFINE what == [op |-> IF a \in Mailboxes THEN "mail" ELSE "text",
                      contact |-> a, doc |-> None]
  <2>1. what \in CustomerAsks BY DEF CustomerAsks
  <2>2. Customers!Start(r, what, "store") /\ UNCHANGED <<users, pool, sent, aged>>
    BY <1>8 DEF Customers!AskCode
  <2>3. QED BY <2>1, <2>2, CustomersStart
<1>9. ASSUME NEW i \in DOMAIN users,
             Customers!DeleteUser(i) \/ \E p \in Phones : Customers!Update(i, p)
      PROVE  CustomersTyped'
  <2>1. users[i] \in Account BY <1>1
  <2>2. PICK u \in Account : users' = [users EXCEPT ![i] = u]
    <3>1. CASE Customers!DeleteUser(i)
      <4>1. [users[i] EXCEPT !.deleted = TRUE] \in Account BY <2>1 DEF Account
      <4>2. QED BY <3>1, <4>1 DEF Customers!DeleteUser
    <3>2. ASSUME NEW p \in Phones, Customers!Update(i, p)
          PROVE  \E u \in Account : users' = [users EXCEPT ![i] = u]
      <4>1. [users[i] EXCEPT !.phone = p] \in Account BY <2>1 DEF Account
      <4>2. QED BY <3>2, <4>1 DEF Customers!Update
    <3>3. QED BY <1>9, <3>1, <3>2
  <2>3. users' \in Seq(Account) BY <1>1, <2>2
  <2>4. UNCHANGED <<pool, sent, aged, codesPlace, asked>>
    BY <1>9 DEF Customers!DeleteUser, Customers!Update
  <2>5. QED BY <2>3, <2>4 DEF CustomersTyped, Customers!TypeOK, Account
<1>10. CASE Customers!Minute
  <2>1. /\ aged < Len(sent) /\ aged' = aged + 1
        /\ UNCHANGED <<users, pool, sent, codesPlace, asked>>
    BY <1>10 DEF Customers!Minute
  <2>2. aged' \in 0..Len(sent')
    BY <1>1, <2>1 DEF CustomersTyped, Customers!TypeOK
  <2>3. QED BY <2>1, <2>2 DEF CustomersTyped, Customers!TypeOK
<1>11. QED
  BY <1>2, <1>3, <1>4, <1>5, <1>6, <1>7, <1>8, <1>9, <1>10 DEF Customers!Next

-----------------------------------------------------------------------------
(* Customers: documents, codes and accounts                                  *)

\* What a step does to the documents and their codes.
LEMMA SameDocuments ==
  ASSUME CustomersTyped, Customers!Next,
         ~ \E r \in Few : Customers!Insert(r)
  PROVE  /\ DOMAIN users' = DOMAIN users
         /\ \A i \in DOMAIN users : users'[i].id = users[i].id
         /\ Customers!Ids' = Customers!Ids
         /\ \A i \in DOMAIN users :
              users'[i].otp # users[i].otp =>
                \E r \in Few : /\ Customers!Store(r) /\ users'[i].otp = r
                               /\ asked'[r].doc = users[i].id
<1>1. users \in Seq(Account)
  BY DEF CustomersTyped, Customers!TypeOK, Account
<1>2. CASE users' = users
  BY <1>2 DEF Customers!Ids
<1>3. ASSUME NEW i \in DOMAIN users, NEW u \in Account,
             users' = [users EXCEPT ![i] = u], u.id = users[i].id,
             u.otp # users[i].otp =>
                \E r \in Few : /\ Customers!Store(r) /\ u.otp = r
                               /\ asked'[r].doc = users[i].id
      PROVE  /\ DOMAIN users' = DOMAIN users
             /\ \A j \in DOMAIN users : users'[j].id = users[j].id
             /\ Customers!Ids' = Customers!Ids
             /\ \A j \in DOMAIN users :
                  users'[j].otp # users[j].otp =>
                    \E r \in Few : /\ Customers!Store(r) /\ users'[j].otp = r
                                   /\ asked'[r].doc = users[j].id
  <2>1. DOMAIN users' = DOMAIN users BY <1>3
  <2>2. \A j \in DOMAIN users : users'[j] = IF j = i THEN u ELSE users[j]
    BY <1>1, <1>3
  <2>3. \A j \in DOMAIN users : users'[j].id = users[j].id BY <1>3, <2>2
  <2>4. Customers!Ids' = Customers!Ids BY <2>1, <2>3 DEF Customers!Ids
  <2>5. QED BY <1>3, <2>1, <2>2, <2>3, <2>4
<1>4. ASSUME NEW r \in Few, Customers!Store(r), users' # users
      PROVE  \E i \in DOMAIN users, u \in Account :
               /\ users' = [users EXCEPT ![i] = u] /\ u.id = users[i].id
               /\ u.otp # users[i].otp =>
                  \E q \in Few : /\ Customers!Store(q) /\ u.otp = q
                                 /\ asked'[q].doc = users[i].id
  <2> DEFINE i == Customers!First(Customers!Contact(r))
  <2>1. Customers!Known(Customers!Contact(r))
    BY <1>4 DEF Customers!Store
  <2>2. i \in DOMAIN users BY <2>1, FirstIsThere DEF CustomersTyped
  <2>3. /\ users' = [users EXCEPT ![i].otp = r]
        /\ asked' = [asked EXCEPT ![r].doc = users[i].id]
    BY <1>4, <2>1 DEF Customers!Store
  <2>4. asked[r] \in CustomerAsks
    BY <1>4 DEF CustomersTyped, Customers!Store, Customers!Goto
  <2>5. asked'[r].doc = users[i].id
    BY <2>3, <2>4 DEF CustomersTyped, CustomerAsks
  <2> DEFINE u == [users[i] EXCEPT !.otp = r]
  <2>6. u \in Account /\ u.id = users[i].id /\ u.otp = r
    <3> HIDE DEF i
    <3>1. users[i] \in Account BY <1>1, <2>2
    <3>2. QED BY <3>1 DEF Account
  <2>7. users' = [users EXCEPT ![i] = u] BY <2>3
  <2>8. \E q \in Few : /\ Customers!Store(q) /\ u.otp = q
                       /\ asked'[q].doc = users[i].id
    BY <1>4, <2>5, <2>6
  <2> HIDE DEF u, i
  <2>9. QED BY <2>2, <2>6, <2>7, <2>8, Zenon
<1>5. ASSUME NEW i \in DOMAIN users,
             Customers!DeleteUser(i) \/ \E p \in Phones : Customers!Update(i, p)
      PROVE  \E u \in Account :
               /\ users' = [users EXCEPT ![i] = u] /\ u.id = users[i].id
               /\ u.otp = users[i].otp
  <2>1. users[i] \in Account BY <1>1
  <2>2. CASE Customers!DeleteUser(i)
    <3> DEFINE u == [users[i] EXCEPT !.deleted = TRUE]
    <3>1. u \in Account /\ u.id = users[i].id /\ u.otp = users[i].otp
      BY <2>1 DEF Account
    <3>2. users' = [users EXCEPT ![i] = u] BY <2>2 DEF Customers!DeleteUser
    <3>3. QED BY <3>1, <3>2
  <2>3. ASSUME NEW p \in Phones, Customers!Update(i, p)
        PROVE  \E u \in Account :
                 /\ users' = [users EXCEPT ![i] = u] /\ u.id = users[i].id
                 /\ u.otp = users[i].otp
    <3> DEFINE u == [users[i] EXCEPT !.phone = p]
    <3>1. u \in Account /\ u.id = users[i].id /\ u.otp = users[i].otp
      BY <2>1 DEF Account
    <3>2. users' = [users EXCEPT ![i] = u] BY <2>3 DEF Customers!Update
    <3>3. QED BY <3>1, <3>2
  <2>4. QED BY <1>5, <2>2, <2>3
<1>6. CASE \E r \in Few : Customers!Store(r)
  BY <1>2, <1>3, <1>4, <1>6
<1>7. CASE \E i \in DOMAIN users :
             Customers!DeleteUser(i) \/ \E p \in Phones : Customers!Update(i, p)
  BY <1>3, <1>5, <1>7
<1>8. ASSUME ~ \E r \in Few : Customers!Store(r),
             ~ \E i \in DOMAIN users :
                 Customers!DeleteUser(i) \/ \E p \in Phones : Customers!Update(i, p)
      PROVE  users' = users
  BY <1>8 DEF Customers!Next, Customers!Create, Customers!SignUpUser,
              Customers!Send, Customers!Fail, Customers!AskCode,
              Customers!Minute
<1>9. QED BY <1>2, <1>6, <1>7, <1>8

LEMMA InsertDocument ==
  ASSUME CustomersTyped, Customers!CodesInv, NEW r \in Few, Customers!Insert(r)
  PROVE  /\ DOMAIN users' = DOMAIN users \cup {Len(users) + 1}
         /\ Len(users) + 1 \notin DOMAIN users
         /\ \A i \in DOMAIN users : users'[i] = users[i] /\ users[i].id # r
         /\ users'[Len(users) + 1].id = r /\ users'[Len(users) + 1].otp = None
         /\ Customers!Ids' = Customers!Ids \cup {r}
         /\ codesPlace[r] = "insert"
         /\ codesPlace' = [codesPlace EXCEPT ![r] = "cognito"]
         /\ UNCHANGED <<pool, sent, asked>>
<1>1. /\ codesPlace[r] = "insert"
      /\ codesPlace' = [codesPlace EXCEPT ![r] = "cognito"]
      /\ UNCHANGED <<pool, sent, asked>>
      /\ users' = Append(users, Customers!NewUser(r, asked[r].email, asked[r].phone))
  BY DEF Customers!Insert, Customers!Goto
<1>2. users \in Seq(Account)
  BY DEF CustomersTyped, Customers!TypeOK, Account
<1> DEFINE n == Len(users) + 1
           new == Customers!NewUser(r, asked[r].email, asked[r].phone)
<1>3. /\ DOMAIN users' = DOMAIN users \cup {n} /\ n \notin DOMAIN users
      /\ \A i \in DOMAIN users : users'[i] = users[i]
      /\ users'[n] = new
  BY <1>1, <1>2
<1>4. new.id = r /\ new.otp = None BY DEF Customers!NewUser
<1>5. \A i \in DOMAIN users : users[i].id # r
  BY <1>1 DEF Customers!CodesInv
<1>6. Customers!Ids' = Customers!Ids \cup {r}
  BY <1>3, <1>4 DEF Customers!Ids
<1>7. QED BY <1>1, <1>3, <1>4, <1>5, <1>6

LEMMA CodesInvStep ==
  ASSUME CustomersTyped, CustomersTyped', Customers!CodesInv, PartsAssumption,
         [Customers!Next]_customers
  PROVE  Customers!CodesInv'
<1> USE DEF Customers!Goto, Customers!CodesInv, Customers!ToldMeansAccount
<1>1. /\ codesPlace \in [Few -> Customers!Places]
      /\ asked \in [Few -> CustomerAsks \cup {None}]
      /\ \A r \in Few : codesPlace[r] # "idle" => asked[r] \in CustomerAsks
      /\ users \in Seq(Account) /\ sent \in Seq(Sending)
  BY DEF CustomersTyped, Customers!TypeOK, Account, Sending
<1>2. ASSUME NEW r \in Few, Customers!Insert(r) PROVE Customers!CodesInv'
  <2>1. /\ DOMAIN users' = DOMAIN users \cup {Len(users) + 1}
        /\ Len(users) + 1 \notin DOMAIN users
        /\ \A i \in DOMAIN users : users'[i] = users[i] /\ users[i].id # r
        /\ users'[Len(users) + 1].id = r
        /\ Customers!Ids' = Customers!Ids \cup {r}
        /\ codesPlace[r] = "insert"
        /\ codesPlace' = [codesPlace EXCEPT ![r] = "cognito"]
        /\ UNCHANGED <<pool, sent, asked>>
    BY <1>2, InsertDocument
  <2>2. \A i, j \in DOMAIN users' : users'[i].id = users'[j].id => i = j
    BY <2>1
  <2>3. \A i \in DOMAIN users' : codesPlace'[users'[i].id] \notin {"idle", "insert"}
    BY <1>1, <2>1
  <2>4. QED BY <1>1, <2>1, <2>2, <2>3
<1>3. ASSUME Customers!Next, ~ \E r \in Few : Customers!Insert(r)
      PROVE  /\ \A i, j \in DOMAIN users' : users'[i].id = users'[j].id => i = j
             /\ Customers!Ids' = Customers!Ids
             /\ (\A r \in Few : codesPlace[r] \notin {"idle", "insert"} =>
                                  codesPlace'[r] \notin {"idle", "insert"})
                => \A i \in DOMAIN users' :
                     codesPlace'[users'[i].id] \notin {"idle", "insert"}
  <2>1. /\ DOMAIN users' = DOMAIN users
        /\ \A i \in DOMAIN users : users'[i].id = users[i].id
        /\ Customers!Ids' = Customers!Ids
    BY <1>3, SameDocuments
  <2>2. \A i \in DOMAIN users : users[i] \in Account BY <1>1
  <2>3. \A i \in DOMAIN users : users[i].id \in Few BY <2>2 DEF Account
  <2>4. QED BY <2>1, <2>3
<1>4. ASSUME NEW r \in Few, NEW what \in CustomerAsks,
             NEW at \in {"insert", "store"}, at = "insert" <=> what.op = "create",
             what.doc = None, Customers!Next, ~ \E q \in Few : Customers!Insert(q),
             Customers!Start(r, what, at), UNCHANGED <<pool, sent>>
      PROVE  Customers!CodesInv'
  <2>1. /\ codesPlace[r] = "idle"
        /\ codesPlace' = [codesPlace EXCEPT ![r] = at]
        /\ asked' = [asked EXCEPT ![r] = what]
    BY <1>4 DEF Customers!Start
  <2>2. /\ \A i, j \in DOMAIN users' : users'[i].id = users'[j].id => i = j
        /\ Customers!Ids' = Customers!Ids
    BY <1>3, <1>4
  <2>3. \A i \in DOMAIN users' : codesPlace'[users'[i].id] \notin {"idle", "insert"}
    BY <1>1, <1>3, <1>4, <2>1
  <2>4. \A q \in Few : codesPlace'[q] # "idle" =>
                         asked'[q].doc \in Customers!Ids \cup {None}
    BY <1>1, <1>4, <2>1
  <2>5. QED BY <1>1, <1>4, <2>1, <2>2, <2>3, <2>4
<1>5. ASSUME NEW r \in Few, NEW to \in Customers!Places \ {"idle", "insert"},
             codesPlace[r] \notin {"idle"},
             codesPlace' = [codesPlace EXCEPT ![r] = to],
             Customers!Next, ~ \E q \in Few : Customers!Insert(q)
      PROVE  /\ Customers!Ids' = Customers!Ids
             /\ \A i, j \in DOMAIN users' : users'[i].id = users'[j].id => i = j
             /\ \A i \in DOMAIN users' :
                  codesPlace'[users'[i].id] \notin {"idle", "insert"}
             /\ asked[r] \in CustomerAsks
  BY <1>1, <1>3, <1>5
<1>6. ASSUME Customers!Next, ~ \E q \in Few : Customers!Insert(q)
      PROVE  Customers!CodesInv'
  <2>1. ASSUME NEW r \in Few, NEW e \in Mailboxes, NEW p \in Phones,
               Customers!Create(r, e, p)
        PROVE  Customers!CodesInv'
    <3> DEFINE what == [op |-> "create", email |-> e, phone |-> p, doc |-> None]
    <3>1. what \in CustomerAsks /\ what.op = "create" /\ what.doc = None
      BY DEF CustomerAsks
    <3>2. Customers!Start(r, what, "insert") /\ UNCHANGED <<pool, sent>>
      BY <2>1 DEF Customers!Create
    <3> HIDE DEF what
    <3>3. QED BY <1>4, <1>6, <3>1, <3>2
  <2>2. ASSUME NEW r \in Few, NEW a \in Customers!Contacts, Customers!AskCode(r, a)
        PROVE  Customers!CodesInv'
    <3> DEFINE what == [op |-> IF a \in Mailboxes THEN "mail" ELSE "text",
                        contact |-> a, doc |-> None]
    <3>1. what \in CustomerAsks /\ what.op # "create" /\ what.doc = None
      BY DEF CustomerAsks
    <3>2. Customers!Start(r, what, "store") /\ UNCHANGED <<pool, sent>>
      BY <2>2 DEF Customers!AskCode
    <3> HIDE DEF what
    <3>3. QED BY <1>4, <1>6, <3>1, <3>2
  <2>3. ASSUME NEW r \in Few, Customers!SignUpUser(r) PROVE Customers!CodesInv'
    BY <1>1, <1>5, <1>6, <2>3 DEF Customers!SignUpUser, Customers!Places
  <2>4. ASSUME NEW r \in Few, Customers!Store(r) PROVE Customers!CodesInv'
    <3>1. /\ codesPlace[r] = "store"
          /\ codesPlace' = [codesPlace EXCEPT ![r] = "send"]
          /\ UNCHANGED <<pool, sent>>
      BY <2>4 DEF Customers!Store
    <3>2. /\ Customers!Ids' = Customers!Ids
          /\ \A i, j \in DOMAIN users' : users'[i].id = users'[j].id => i = j
          /\ \A i \in DOMAIN users' :
               codesPlace'[users'[i].id] \notin {"idle", "insert"}
          /\ asked[r] \in CustomerAsks
      BY <1>5, <1>6, <3>1 DEF Customers!Places
    <3>3. /\ asked'[r].doc \in Customers!Ids \cup {None}
          /\ asked'[r].op = asked[r].op
          /\ \A q \in Few \ {r} : asked'[q] = asked[q]
      <4>1. CASE Customers!Known(Customers!Contact(r))
        <5> DEFINE i == Customers!First(Customers!Contact(r))
        <5>1. i \in DOMAIN users BY <4>1, FirstIsThere DEF CustomersTyped
        <5>2. asked' = [asked EXCEPT ![r].doc = users[i].id]
          BY <2>4, <4>1 DEF Customers!Store
        <5>3. users[i].id \in Customers!Ids BY <5>1 DEF Customers!Ids
        <5> HIDE DEF i
        <5>4. QED BY <1>1, <3>2, <5>2, <5>3 DEF CustomerAsks
      <4>2. CASE ~Customers!Known(Customers!Contact(r))
        <5>1. asked' = asked BY <2>4, <4>2 DEF Customers!Store
        <5>2. asked[r].doc \in Customers!Ids \cup {None} BY <3>1
        <5>3. QED BY <3>2, <5>1, <5>2
      <4>3. QED BY <4>1, <4>2
    <3>4. QED BY <1>1, <3>1, <3>2, <3>3
  <2>5. ASSUME NEW r \in Few, Customers!Send(r) PROVE Customers!CodesInv'
    <3> DEFINE mail == [code |-> r, to |-> Customers!Contact(r), doc |-> asked[r].doc]
    <3>1. /\ codesPlace[r] = "send"
          /\ codesPlace' = [codesPlace EXCEPT ![r] = "done"]
          /\ UNCHANGED <<users, pool, asked>> /\ sent' = Append(sent, mail)
      BY <2>5 DEF Customers!Send
    <3>2. /\ Customers!Ids' = Customers!Ids
          /\ \A i, j \in DOMAIN users' : users'[i].id = users'[j].id => i = j
          /\ \A i \in DOMAIN users' :
               codesPlace'[users'[i].id] \notin {"idle", "insert"}
      BY <1>5, <1>6, <3>1 DEF Customers!Places
    <3>3. mail.doc \in Customers!Ids \cup {None} BY <3>1
    <3> HIDE DEF mail
    <3>4. \A k \in DOMAIN sent' : sent'[k].doc \in Customers!Ids \cup {None}
      <4>1. \A k \in DOMAIN sent' :
              sent'[k] = mail \/ (k \in DOMAIN sent /\ sent'[k] = sent[k])
        BY <1>1, <3>1
      <4>2. QED BY <3>3, <4>1
    <3>5. QED BY <1>1, <3>1, <3>2, <3>4
  <2>6. ASSUME NEW r \in Few, Customers!Fail(r) PROVE Customers!CodesInv'
    BY <1>1, <1>5, <1>6, <2>6
       DEF Customers!Fail, Customers!Places, Customers!Running
  <2>7. CASE UNCHANGED <<pool, sent, codesPlace, asked>>
    BY <1>3, <1>6, <2>7
  <2>8. ASSUME NEW i \in DOMAIN users,
               Customers!DeleteUser(i) \/ \E p \in Phones : Customers!Update(i, p)
        PROVE  UNCHANGED <<pool, sent, codesPlace, asked>>
    BY <2>8 DEF Customers!DeleteUser, Customers!Update
  <2>9. Customers!Minute => UNCHANGED <<pool, sent, codesPlace, asked>>
    BY DEF Customers!Minute
  <2>10. QED
    BY <1>6, <2>1, <2>2, <2>3, <2>4, <2>5, <2>6, <2>7, <2>8, <2>9
       DEF Customers!Next
<1>7. CASE UNCHANGED customers
  BY <1>7 DEF customers, Customers!Ids
<1>8. QED BY <1>2, <1>6, <1>7

LEMMA CodesCalmStep ==
  ASSUME CustomersTyped, CustomersTyped', PartsAssumption,
         Customers!CodesInv, Customers!CodesCalm,
         Customers!Serial, [Customers!Next]_customers
  PROVE  Customers!CodesCalm'
<1> DEFINE Unsent == {r \in Few : codesPlace[r] \in {"send", "failed"}}
           Elsewhere(a) ==
             UNION {Customers!SentTo(b) : b \in Customers!Contacts \ {a}}
           Newest(a, k) == \A j \in Customers!Sendings(a) : j <= k
<1>1. /\ codesPlace \in [Few -> Customers!Places]
      /\ asked \in [Few -> CustomerAsks \cup {None}]
      /\ \A r \in Few : codesPlace[r] # "idle" => asked[r] \in CustomerAsks
      /\ users \in Seq(Account) /\ sent \in Seq(Sending)
      /\ \A i \in DOMAIN users : users[i] \in Account
  <2>1. users \in Seq(Account) /\ sent \in Seq(Sending)
    BY DEF CustomersTyped, Customers!TypeOK, Account, Sending
  <2>2. \A i \in DOMAIN users : users[i] \in Account BY <2>1
  <2>3. QED BY <2>1, <2>2 DEF CustomersTyped, Customers!TypeOK
<1>2. \A i \in DOMAIN users :
        /\ \A r \in Few :
             (codesPlace[r] = "send" /\ asked[r].doc = users[i].id)
               => users[i].otp = r
        /\ \A a \in Customers!Contacts : \A k \in Customers!Sendings(a) :
             (sent[k].doc = users[i].id /\ Newest(a, k))
               => users[i].otp \in {sent[k].code} \cup Unsent \cup Elsewhere(a)
  BY DEF Customers!CodesCalm
<1>3. ASSUME \A i \in DOMAIN users' :
               /\ \A r \in Few :
                    (codesPlace'[r] = "send" /\ asked'[r].doc = users'[i].id)
                      => users'[i].otp = r
               /\ \A a \in Customers!Contacts : \A k \in Customers!Sendings(a)' :
                    (sent'[k].doc = users'[i].id /\ Newest(a, k)')
                      => users'[i].otp
                           \in {sent'[k].code} \cup Unsent' \cup Elsewhere(a)'
      PROVE  Customers!CodesCalm'
  BY <1>3 DEF Customers!CodesCalm
\* Steps that send nothing.
<1>4. ASSUME sent' = sent, Unsent \subseteq Unsent',
             NEW i \in DOMAIN users, i \in DOMAIN users',
             users'[i].id = users[i].id,
             users'[i].otp = users[i].otp \/ users'[i].otp \in Unsent'
      PROVE  \A a \in Customers!Contacts : \A k \in Customers!Sendings(a)' :
               (sent'[k].doc = users'[i].id /\ Newest(a, k)')
                 => users'[i].otp
                      \in {sent'[k].code} \cup Unsent' \cup Elsewhere(a)'
  <2>1. \A a : /\ Customers!Sendings(a)' = Customers!Sendings(a)
               /\ Customers!SentTo(a)' = Customers!SentTo(a)
    BY <1>4 DEF Customers!Sendings, Customers!SentTo
  <2>2. \A a : Elsewhere(a)' = Elsewhere(a) BY <2>1 DEF Customers!Contacts
  <2>3. \A a, k : Newest(a, k)' <=> Newest(a, k) BY <2>1
  <2> HIDE DEF Unsent, Elsewhere, Newest
  <2>4. QED BY <1>2, <1>4, <2>1, <2>2, <2>3
<1>5. ASSUME NEW r \in Few, Customers!Insert(r) PROVE Customers!CodesCalm'
  <2>1. /\ DOMAIN users' = DOMAIN users \cup {Len(users) + 1}
        /\ \A i \in DOMAIN users : users'[i] = users[i] /\ users[i].id # r
        /\ users'[Len(users) + 1].id = r
        /\ codesPlace[r] = "insert"
        /\ codesPlace' = [codesPlace EXCEPT ![r] = "cognito"]
        /\ UNCHANGED <<pool, sent, asked>>
    BY <1>5, InsertDocument
  <2>2. Unsent \subseteq Unsent' BY <1>1, <2>1
  <2>3. r \notin Customers!Ids \cup {None}
    BY <2>1, PartsAssumption DEF Customers!Ids, PartsAssumption
  <2>4. \A k \in DOMAIN sent : sent[k].doc # r
    BY <2>3 DEF Customers!CodesInv
  <2>5. \A q \in Few : codesPlace'[q] = "send" => codesPlace[q] = "send" /\ asked[q].doc # r
    BY <1>1, <2>1, <2>3 DEF Customers!CodesInv
  <2>6. ASSUME NEW i \in DOMAIN users PROVE
         \A a \in Customers!Contacts : \A k \in Customers!Sendings(a)' :
               (sent'[k].doc = users'[i].id /\ Newest(a, k)')
                 => users'[i].otp
                      \in {sent'[k].code} \cup Unsent' \cup Elsewhere(a)'
    BY <1>4, <2>1, <2>2
  <2>7. \A a : Customers!Sendings(a)' \subseteq DOMAIN sent
    BY <2>1 DEF Customers!Sendings
  <2> HIDE DEF Unsent, Elsewhere, Newest
  <2>8. QED BY <1>2, <1>3, <2>1, <2>4, <2>5, <2>6, <2>7
<1>6. ASSUME Customers!Next, ~ \E r \in Few : Customers!Insert(r),
             sent' = sent, Unsent \subseteq Unsent',
             \A r \in Few : Customers!Store(r) => r \in Unsent',
             \A r \in Few, i \in DOMAIN users :
               (codesPlace'[r] = "send" /\ asked'[r].doc = users[i].id)
                 => users'[i].otp = r
      PROVE  Customers!CodesCalm'
  <2>1. /\ DOMAIN users' = DOMAIN users
        /\ \A i \in DOMAIN users : users'[i].id = users[i].id
        /\ \A i \in DOMAIN users :
             users'[i].otp # users[i].otp =>
               \E r \in Few : Customers!Store(r) /\ users'[i].otp = r
    BY <1>6, SameDocuments
  <2>2. ASSUME NEW i \in DOMAIN users
        PROVE  \A a \in Customers!Contacts : \A k \in Customers!Sendings(a)' :
                 (sent'[k].doc = users'[i].id /\ Newest(a, k)')
                   => users'[i].otp
                        \in {sent'[k].code} \cup Unsent' \cup Elsewhere(a)'
    <3>1. users'[i].otp = users[i].otp \/ users'[i].otp \in Unsent'
      BY <1>6, <2>1
    <3>2. i \in DOMAIN users' /\ users'[i].id = users[i].id BY <2>1
    <3> HIDE DEF Unsent, Elsewhere, Newest
    <3>3. QED BY <1>4, <1>6, <3>1, <3>2
  <2> HIDE DEF Unsent, Elsewhere, Newest
  <2>3. QED BY <1>3, <1>6, <2>1, <2>2
\* Steps that neither insert, store nor send.
<1>7. ASSUME Customers!Next, sent' = sent,
             ~ \E r \in Few : Customers!Insert(r) \/ Customers!Store(r),
             Unsent \subseteq Unsent',
             \A r \in Few : codesPlace'[r] = "send" =>
                               codesPlace[r] = "send" /\ asked'[r].doc = asked[r].doc
      PROVE  Customers!CodesCalm'
  <2>1. \A i \in DOMAIN users : users'[i].otp = users[i].otp
    BY <1>7, SameDocuments
  <2> HIDE DEF Unsent, Elsewhere, Newest
  <2>2. QED BY <1>2, <1>6, <1>7, <2>1
<1>8. ASSUME NEW r \in Few, Customers!Store(r) PROVE Customers!CodesCalm'
  <2>1. /\ codesPlace[r] = "store"
        /\ codesPlace' = [codesPlace EXCEPT ![r] = "send"]
        /\ sent' = sent
    BY <1>8 DEF Customers!Store, Customers!Goto
  <2>2. Customers!Next BY <1>8 DEF Customers!Next
  <2>3. ~ \E q \in Few : Customers!Insert(q)
    BY <1>1, <2>1 DEF Customers!Insert, Customers!Goto
  <2>4. \A q \in Few : codesPlace'[q] = "send" => q = r
    BY <1>1, <2>1 DEF Customers!Serial, Customers!Running
  <2>5. \A i \in DOMAIN users : asked'[r].doc = users[i].id => users'[i].otp = r
    <3>1. CASE Customers!Known(Customers!Contact(r))
      <4> DEFINE n == Customers!First(Customers!Contact(r))
      <4>1. n \in DOMAIN users BY <3>1, FirstIsThere DEF CustomersTyped
      <4>2. /\ users' = [users EXCEPT ![n].otp = r]
            /\ asked' = [asked EXCEPT ![r].doc = users[n].id]
        BY <1>8, <3>1 DEF Customers!Store
      <4>3. asked[r] \in CustomerAsks BY <1>1, <2>1
      <4> HIDE DEF n
      <4>4. asked'[r].doc = users[n].id
        BY <1>1, <4>2, <4>3 DEF CustomerAsks
      <4>5. users[n] \in Account BY <1>1, <4>1
      <4>6. users'[n].otp = r BY <1>1, <4>1, <4>2, <4>5 DEF Account
      <4>7. \A i \in DOMAIN users : users[i].id = users[n].id => i = n
        BY <4>1 DEF Customers!CodesInv
      <4>8. QED BY <4>4, <4>6, <4>7
    <3>2. CASE ~Customers!Known(Customers!Contact(r))
      <4>1. asked' = asked BY <1>8, <3>2 DEF Customers!Store
      <4>2. asked'[r].doc = None BY <2>1, <4>1 DEF Customers!CodesInv
      <4>3. \A i \in DOMAIN users : users[i].id \in Few BY <1>1 DEF Account
      <4>4. QED BY <4>2, <4>3 DEF PartsAssumption
    <3>3. QED BY <3>1, <3>2
  <2>6. Unsent \subseteq Unsent' /\ r \in Unsent' BY <1>1, <2>1
  <2>7. \A q \in Few : Customers!Store(q) => q = r
    BY <1>1, <2>1 DEF Customers!Store, Customers!Goto, Customers!Serial,
                      Customers!Running
  <2> HIDE DEF Unsent, Elsewhere, Newest
  <2>8. QED BY <1>6, <2>1, <2>2, <2>3, <2>4, <2>5, <2>6, <2>7
<1>9. ASSUME NEW r \in Few, Customers!Send(r) PROVE Customers!CodesCalm'
  <2>a. codesPlace[r] = "send" BY <1>9 DEF Customers!Send, Customers!Goto
  <2>b. Customers!Contact(r) \in Customers!Contacts BY <2>a, ContactTyped
  <2>2. PICK c \in Customers!Contacts : c = Customers!Contact(r) BY <2>b
  <2> DEFINE mail == [code |-> r, to |-> c, doc |-> asked[r].doc]
             n == Len(sent) + 1
  <2>1. /\ codesPlace[r] = "send"
        /\ codesPlace' = [codesPlace EXCEPT ![r] = "done"]
        /\ UNCHANGED <<users, pool, asked>> /\ sent' = Append(sent, mail)
    BY <1>9, <2>2 DEF Customers!Send, Customers!Goto
  <2>3. mail.code = r /\ mail.to = c /\ mail.doc = asked[r].doc OBVIOUS
  <2> HIDE DEF mail
  <2>4. /\ DOMAIN sent' = DOMAIN sent \cup {n} /\ n \notin DOMAIN sent
        /\ \A k \in DOMAIN sent : sent'[k] = sent[k] /\ k < n
        /\ sent'[n] = mail
    BY <1>1, <2>1
  <2>5. \A a : a # c => Customers!Sendings(a)' = Customers!Sendings(a)
    BY <2>3, <2>4 DEF Customers!Sendings
  <2>6. Customers!Sendings(c)' = Customers!Sendings(c) \cup {n}
    BY <2>3, <2>4 DEF Customers!Sendings
  <2>7. \A a : Customers!Sendings(a) \subseteq DOMAIN sent
    BY DEF Customers!Sendings
  <2>8. \A b : Customers!SentTo(b) \subseteq Customers!SentTo(b)'
    BY <2>4, <2>5, <2>6, <2>7 DEF Customers!SentTo
  <2>9. r \in Customers!SentTo(c)'
    BY <2>3, <2>4, <2>6 DEF Customers!SentTo
  <2>10. \A a : Elsewhere(a) \subseteq Elsewhere(a)'
    BY <2>8 DEF Customers!Contacts
  <2>11. \A a : a # c => r \in Elsewhere(a)'
    BY <2>2, <2>9 DEF Customers!Contacts
  <2>12. Unsent \subseteq Unsent' \cup {r} BY <1>1, <2>1
  <2>13. ASSUME NEW i \in DOMAIN users, NEW a \in Customers!Contacts,
                NEW k \in Customers!Sendings(a)',
                sent'[k].doc = users[i].id, Newest(a, k)'
         PROVE  users[i].otp \in {sent'[k].code} \cup Unsent' \cup Elsewhere(a)'
    <3>1. CASE a = c
      <4>1. n \in Customers!Sendings(a)' BY <2>6, <3>1
      <4>2. n <= k BY <2>13, <4>1
      <4>3. k = n
        <5>1. k \in Customers!Sendings(c)' BY <2>13, <3>1
        <5>2. k \in DOMAIN sent \/ k = n BY <2>6, <2>7, <5>1
        <5>3. n \in Nat /\ DOMAIN sent \subseteq Nat BY <1>1
        <5>4. QED BY <2>4, <4>2, <5>2, <5>3
      <4>4. sent'[k].code = r /\ asked[r].doc = users[i].id
        BY <2>3, <2>4, <2>13, <4>3
      <4>5. QED BY <1>2, <2>1, <4>4
    <3>2. CASE a # c
      <4>1. k \in Customers!Sendings(a) /\ sent'[k] = sent[k]
        BY <2>4, <2>5, <2>7, <2>13, <3>2
      <4>2. Newest(a, k) BY <2>5, <2>13, <3>2
      <4> HIDE DEF Unsent, Elsewhere, Newest
      <4>3. users[i].otp \in {sent[k].code} \cup Unsent \cup Elsewhere(a)
        BY <1>2, <2>13, <4>1, <4>2
      <4>4. QED BY <2>10, <2>11, <2>12, <3>2, <4>1, <4>3
    <3>3. QED BY <3>1, <3>2
  <2>14. \A q \in Few, i \in DOMAIN users :
           (codesPlace'[q] = "send" /\ asked[q].doc = users[i].id) => users[i].otp = q
    BY <1>1, <1>2, <2>1
  <2> HIDE DEF Unsent, Elsewhere, Newest
  <2>15. QED BY <1>3, <2>1, <2>13, <2>14
<1>10. ASSUME NEW r \in Few, NEW what, NEW at \in {"insert", "store"},
              Customers!Start(r, what, at), UNCHANGED <<users, pool, sent>>
       PROVE  Customers!CodesCalm'
  <2>1. /\ codesPlace[r] = "idle"
        /\ codesPlace' = [codesPlace EXCEPT ![r] = at]
        /\ asked' = [asked EXCEPT ![r] = what]
    BY <1>10 DEF Customers!Start
  <2>2. Unsent \subseteq Unsent' BY <1>1, <2>1
  <2>3. \A q \in Few : codesPlace'[q] = "send" =>
                           codesPlace[q] = "send" /\ asked'[q] = asked[q]
    BY <1>1, <2>1
  <2>4. ASSUME NEW i \in DOMAIN users
        PROVE  \A a \in Customers!Contacts : \A k \in Customers!Sendings(a)' :
                 (sent'[k].doc = users'[i].id /\ Newest(a, k)')
                   => users'[i].otp
                        \in {sent'[k].code} \cup Unsent' \cup Elsewhere(a)'
    BY <1>4, <1>10, <2>2
  <2> HIDE DEF Unsent, Elsewhere, Newest
  <2>5. QED BY <1>2, <1>3, <1>10, <2>3, <2>4
<1>11. ASSUME NEW r \in Few, Customers!SignUpUser(r) \/ Customers!Fail(r)
       PROVE  Customers!CodesCalm'
  <2>1. /\ codesPlace[r] # "idle"
        /\ \E to \in {"store", "failed"} : codesPlace' = [codesPlace EXCEPT ![r] = to]
        /\ codesPlace[r] = "send" => codesPlace'[r] = "failed"
        /\ codesPlace[r] # "failed"
        /\ UNCHANGED <<users, sent, asked>>
    BY <1>1, <1>11 DEF Customers!SignUpUser, Customers!Fail, Customers!Goto,
                       Customers!Running
  <2>2. Unsent \subseteq Unsent' BY <1>1, <2>1
  <2>3. \A q \in Few : codesPlace'[q] = "send" => codesPlace[q] = "send"
    BY <1>1, <2>1
  <2>4. ASSUME NEW i \in DOMAIN users
        PROVE  \A a \in Customers!Contacts : \A k \in Customers!Sendings(a)' :
                 (sent'[k].doc = users'[i].id /\ Newest(a, k)')
                   => users'[i].otp
                        \in {sent'[k].code} \cup Unsent' \cup Elsewhere(a)'
    BY <1>4, <2>1, <2>2
  <2> HIDE DEF Unsent, Elsewhere, Newest
  <2>5. QED BY <1>2, <1>3, <2>1, <2>3, <2>4
<1>12. ASSUME NEW i \in DOMAIN users,
              Customers!DeleteUser(i) \/ \E p \in Phones : Customers!Update(i, p)
       PROVE  Customers!CodesCalm'
  <2>1. UNCHANGED <<pool, sent, codesPlace, asked>>
    BY <1>12 DEF Customers!DeleteUser, Customers!Update
  <2>2. Customers!Next BY <1>12 DEF Customers!Next
  <2>3. CASE \E r \in Few : Customers!Insert(r) \/ Customers!Store(r)
    BY <1>5, <1>8, <2>3
  <2>4. Unsent' = Unsent BY <2>1
  <2> HIDE DEF Unsent, Elsewhere, Newest
  <2>5. QED BY <1>7, <2>1, <2>2, <2>3, <2>4
<1>13. CASE UNCHANGED <<users, sent, codesPlace, asked>>
  BY <1>13 DEF Customers!CodesCalm, Customers!Sendings, Customers!SentTo,
               Customers!Contacts
<1>14. QED
  BY <1>5, <1>8, <1>9, <1>10, <1>11, <1>12, <1>13
     DEF Customers!Next, Customers!Create, Customers!AskCode, Customers!Minute,
         customers

LEMMA CodesVerify ==
  ASSUME CustomersTyped, Customers!CodesCalm
  PROVE  Customers!LastCodeVerifies
<1> SUFFICES ASSUME NEW a \in Customers!Contacts, Customers!Sendings(a) # {},
                    Customers!Known(a), Customers!Running = {}
             PROVE  LET u == users[Customers!First(a)]
                        Failed == {r \in Few : codesPlace[r] = "failed"}
                    IN \/ Customers!Verifies(a, Customers!LastSent(a).code)
                       \/ u.id # Customers!LastSent(a).doc
                       \/ u.otp \in Failed \cup UNION {Customers!SentTo(b) :
                                         b \in Customers!Contacts \ {a}}
  BY DEF Customers!LastCodeVerifies
<1>1. Customers!First(a) \in DOMAIN users
  BY FirstIsThere DEF CustomersTyped
<1>2. Customers!Sendings(a) \in SUBSET (1..Len(sent)) /\ Len(sent) \in Nat
  BY DEF CustomersTyped, Customers!TypeOK, Customers!Sendings
<1>3. \E k \in Customers!Sendings(a) : \A j \in Customers!Sendings(a) : j <= k
  BY <1>2, Greatest
<1>4. PICK k \in Customers!Sendings(a) :
        /\ \A j \in Customers!Sendings(a) : j <= k
        /\ Customers!LastSent(a) = sent[k]
  BY <1>3 DEF Customers!LastSent
<1>5. {r \in Few : codesPlace[r] \in {"send", "failed"}}
        = {r \in Few : codesPlace[r] = "failed"}
  BY DEF Customers!Running
<1>6. QED
  BY <1>1, <1>4, <1>5 DEF Customers!CodesCalm, Customers!Verifies

\* What a behaviour of MCSpec does to the parts: a step of each or none, and in
\* a calm one with at most one handler of it running.
LEMMA StepOfParts ==
  ASSUME PartsAssumption,
         [MCNext]_<<vars, part, calm, customers, admins, signIns>>
  PROVE  /\ UNCHANGED <<part, calm>>
         /\ [Customers!Next]_customers /\ [Admins!Next]_admins
         /\ [SignIns!Next]_signIns
         /\ calm => /\ Customers!Serial' \/ UNCHANGED customers
                    /\ Admins!Serial' \/ UNCHANGED admins
<1>1. ASSUME NEW S \in SUBSET Few, Cardinality(S) <= 1
      PROVE  \A q, r \in S : q = r
  <2>1. IsFiniteSet(S) BY PartsAssumption, FS_Subset DEF PartsAssumption
  <2>2. QED BY <1>1, <2>1, AtMostOne
<1>2. ASSUME NEW S \in SUBSET Turns, Cardinality(S) <= 1
      PROVE  \A q, r \in S : q = r
  <2>1. IsFiniteSet(S) BY PartsAssumption, FS_Subset DEF PartsAssumption
  <2>2. QED BY <1>2, <2>1, AtMostOne
<1>3. CASE MCNext /\ part = "customers"
  <2>1. /\ Customers!Next /\ CustomersExplored'
        /\ UNCHANGED <<part, calm, vars, admins, signIns>>
    BY <1>3 DEF MCNext
  <2>2. Customers!Running' \in SUBSET Few BY DEF Customers!Running
  <2>3. calm => Cardinality(Customers!Running') <= 1
    BY <2>1 DEF CustomersExplored
  <2>4. calm => Customers!Serial' BY <1>1, <2>2, <2>3 DEF Customers!Serial
  <2>5. QED BY <2>1, <2>4
<1>4. CASE MCNext /\ part = "admins"
  <2>1. /\ Admins!Next /\ AdminsExplored'
        /\ UNCHANGED <<part, calm, vars, customers, signIns>>
    BY <1>4 DEF MCNext
  <2>2. Admins!Running' \in SUBSET Turns BY DEF Admins!Running
  <2>3. calm => Cardinality(Admins!Running') <= 1
    BY <2>1 DEF AdminsExplored
  <2>4. calm => Admins!Serial' BY <1>2, <2>2, <2>3 DEF Admins!Serial
  <2>5. QED BY <2>1, <2>4
<1>5. CASE MCNext /\ part \notin {"customers", "admins"}
  BY <1>5 DEF MCNext
<1>6. CASE UNCHANGED <<vars, part, calm, customers, admins, signIns>>
  BY <1>6
<1>7. QED BY <1>3, <1>4, <1>5, <1>6

CustomersHold ==
  /\ CustomersTyped /\ Customers!CodesInv
  /\ calm => Customers!Serial /\ Customers!CodesCalm

LEMMA CustomersBegin == Customers!Init => CustomersHold
<1> SUFFICES ASSUME Customers!Init PROVE CustomersHold OBVIOUS
<1>1. /\ users = <<>> /\ pool = {} /\ sent = <<>> /\ aged = 0
      /\ codesPlace = [r \in Few |-> "idle"]
      /\ asked = [r \in Few |-> None]
  BY DEF Customers!Init
<1>2. CustomersTyped
  BY <1>1 DEF CustomersTyped, Customers!TypeOK, Customers!Places
<1>3. Customers!CodesInv
  BY <1>1 DEF Customers!CodesInv, Customers!ToldMeansAccount
<1>4. Customers!Serial BY <1>1 DEF Customers!Serial, Customers!Running
<1>5. Customers!CodesCalm
  BY <1>1 DEF Customers!CodesCalm, Customers!Sendings
<1>6. QED BY <1>2, <1>3, <1>4, <1>5 DEF CustomersHold

LEMMA CustomersTypedKept ==
  ASSUME PartsAssumption, CustomersTyped, Customers!CodesInv,
         [Customers!Next]_customers
  PROVE  CustomersTyped' /\ Customers!CodesInv'
<1>1. CustomersTyped'
  <2>1. CASE UNCHANGED customers
    BY <2>1 DEF customers, CustomersTyped, Customers!TypeOK, Customers!Contacts
  <2>2. QED BY <2>1, UsersTyped
<1>2. QED BY <1>1, CodesInvStep

LEMMA CustomersAlways == MCSpec => []CustomersHold
<1> USE DEF CustomersHold
<1>1. MCInit => CustomersHold BY CustomersBegin DEF MCInit
<1>2. CustomersHold /\ [MCNext]_<<vars, part, calm, customers, admins, signIns>>
        => CustomersHold'
  <2> SUFFICES ASSUME CustomersHold,
                      [MCNext]_<<vars, part, calm, customers, admins, signIns>>
               PROVE  CustomersHold'
    OBVIOUS
  <2>1. /\ UNCHANGED calm /\ [Customers!Next]_customers
        /\ calm => Customers!Serial' \/ UNCHANGED customers
    BY StepOfParts, PartsAssumption
  <2>2. CustomersTyped' /\ Customers!CodesInv'
    BY <2>1, CustomersTypedKept, PartsAssumption
  <2>3. Customers!CodesInv' BY <2>2
  <2>4. calm => Customers!Serial'
    BY <2>1 DEF customers, Customers!Serial, Customers!Running
  <2>5. calm => Customers!CodesCalm'
    BY <2>1, <2>2, CodesCalmStep, PartsAssumption
  <2>6. QED BY <2>1, <2>2, <2>3, <2>4, <2>5
<1> HIDE DEF CustomersHold
<1>3. QED BY <1>1, <1>2, PTL DEF MCSpec

\* Whatever contacts the documents share and whichever requests fail, the last
\* code sent to a contact verifies it for its minute, but for the exceptions
\* named, as long as requests come one at a time; and, however they overlap, who was told of a new
\* account has a user in Cognito.
THEOREM CodesVerifyAndAccountsExist == MCSpec => []CustomersSignIn
<1>1. CustomersHold => CustomersSignIn
  BY CodesVerify DEF CustomersHold, CustomersSignIn, Customers!CodesInv
<1>2. QED BY <1>1, CustomersAlways, PTL

\* Whoever was told of a new account has a user in Cognito, in any behaviour of
\* CustomerCodes, whatever its requests are and in whatever order they come.
THEOREM ToldHaveAccounts == Customers!Spec => []Customers!ToldMeansAccount
<1> DEFINE I == CustomersTyped /\ Customers!CodesInv
<1>1. Customers!Init => I BY CustomersBegin DEF CustomersHold
<1>2. I /\ [Customers!Next]_customers => I'
  BY CustomersTypedKept, PartsAssumption
<1>3. I => Customers!ToldMeansAccount BY DEF Customers!CodesInv
<1> HIDE DEF I
<1>4. QED BY <1>1, <1>2, <1>3, PTL DEF Customers!Spec, Customers!vars, customers

-----------------------------------------------------------------------------
(* Administrators: types                                                     *)

AdminDoc ==
  [kind : {"admin", "lead"}, email : Offices, role : Admins!Roles,
   restaurant : BOOLEAN, abilities : Admins!Abilities,
   password : Secrets \cup {LeadSecret}, deleted : BOOLEAN,
   session : Turns \cup {None}]

\* What is given to a new administrator, and fields of an administrator.
NewGiven ==
  [email : Offices, role : Admins!Roles, restaurant : BOOLEAN,
   abilities : {"none", "some"}, password : Secrets, session : Turns \cup {None}]
AreFields(f) ==
  /\ f = [d \in DOMAIN f |-> f[d]]
  /\ DOMAIN f \subseteq {"role", "restaurant", "abilities", "password", "deleted",
                         "session"}
  /\ "role" \in DOMAIN f => f["role"] \in Admins!Roles
  /\ "restaurant" \in DOMAIN f => f["restaurant"] \in BOOLEAN
  /\ "abilities" \in DOMAIN f => f["abilities"] \in Admins!Abilities
  /\ "password" \in DOMAIN f => f["password"] \in Secrets \cup {LeadSecret}
  /\ "deleted" \in DOMAIN f => f["deleted"] \in BOOLEAN
  /\ "session" \in DOMAIN f => f["session"] \in Turns \cup {None}

AdminsTyped ==
  /\ Admins!TypeOK
  /\ DOMAIN adminJob = Turns /\ adminJob = [r \in Turns |-> adminJob[r]]
  /\ \A r \in Turns :
       LET j == adminJob[r]
       IN /\ adminPlace[r] = "save" => j.op = "create" /\ j.given \in NewGiven
          /\ adminPlace[r] = "write" =>
               /\ j.op \in {"update", "password", "delete"}
               /\ j.doc \in DOMAIN people /\ j.read \in AdminDoc
               /\ j.op = "update" => j.given \in Admins!Updates
               /\ j.op = "password" => j.given \in [password : Secrets]
          /\ adminPlace[r] \in {"hash", "store", "reread", "fill"} =>
               j.doc \in DOMAIN people /\ j.op \in {"login", "refresh"}

LEMMA AdminDocs ==
  ASSUME AdminsTyped
  PROVE  /\ people \in Seq(AdminDoc)
         /\ \A i \in DOMAIN people : people[i] \in AdminDoc
<1>1. people \in Seq(AdminDoc) BY DEF AdminsTyped, Admins!TypeOK, AdminDoc
<1>2. QED BY <1>1

\* A document with some fields set anew keeps the others.
LEMMA FieldsSet ==
  ASSUME NEW d \in AdminDoc, NEW f, AreFields(f)
  PROVE  /\ Admins!Updated(d, f) \in AdminDoc
         /\ "session" \notin DOMAIN f => Admins!Updated(d, f).session = d.session
         /\ Admins!Updated(d, f).email = d.email
         /\ Admins!Updated(d, f).kind = d.kind
         /\ Admins!Updated(d, f).abilities =
              IF "abilities" \in DOMAIN f THEN f["abilities"] ELSE d.abilities
<1> DEFINE u == Admins!Updated(d, f)
           Names == {"kind", "email", "role", "restaurant", "abilities",
                     "password", "deleted", "session"}
<1>1. DOMAIN d = Names BY DEF AdminDoc
<1>2. DOMAIN f \cup DOMAIN d = Names BY <1>1 DEF AreFields
<1>3. u = [x \in Names |-> IF x \in DOMAIN f THEN f[x] ELSE d[x]]
  BY <1>2 DEF Admins!Updated
<1>4. /\ u.kind = d.kind /\ u.email = d.email
      /\ "session" \notin DOMAIN f => u.session = d.session
      /\ u.session \in Turns \cup {None}
      /\ u.role \in Admins!Roles /\ u.restaurant \in BOOLEAN
      /\ u.abilities \in Admins!Abilities
      /\ u.password \in Secrets \cup {LeadSecret} /\ u.deleted \in BOOLEAN
      /\ u.abilities = IF "abilities" \in DOMAIN f THEN f["abilities"] ELSE d.abilities
  BY <1>3 DEF AreFields, AdminDoc
<1>5. u \in AdminDoc
  BY <1>3, <1>4 DEF AdminDoc
<1>6. QED BY <1>4, <1>5

LEMMA NewIsTyped ==
  ASSUME NEW given \in NewGiven
  PROVE  /\ Admins!Default(Admins!NewAdmin(given)) \in AdminDoc
         /\ Admins!Default(Admins!NewAdmin(given)).email = given.email
<1> DEFINE n == Admins!NewAdmin(given)
<1>1. n \in AdminDoc /\ n.email = given.email
  BY DEF Admins!NewAdmin, Admins!Updated, NewGiven, AdminDoc, Admins!Abilities
<1> HIDE DEF n
<1>2. [n EXCEPT !.abilities = "all"] \in AdminDoc
      /\ [n EXCEPT !.abilities = "all"].email = n.email
  BY <1>1 DEF AdminDoc, Admins!Abilities
<1>3. Admins!Default(n) \in {n, [n EXCEPT !.abilities = "all"]}
  BY DEF Admins!Default
<1>4. QED BY <1>1, <1>2, <1>3 DEF n

LEMMA DefaultTyped ==
  ASSUME NEW d \in AdminDoc
  PROVE  /\ Admins!Default(d) \in AdminDoc
         /\ Admins!Default(d).abilities \in Admins!Abilities
         /\ d.abilities = "some" => Admins!Default(d).abilities = "some"
<1> DEFINE e == [d EXCEPT !.abilities = "all"]
<1>1. e \in AdminDoc BY DEF AdminDoc, Admins!Abilities
<1>2. Admins!Default(d) = IF d.abilities = "none" /\ d.role = "admin" /\ d.restaurant
                          THEN e ELSE d
  BY DEF Admins!Default
<1> HIDE DEF e
<1>3. QED BY <1>1, <1>2 DEF AdminDoc

LEMMA UpdatesAreFields ==
  ASSUME NEW given \in Admins!Updates
  PROVE  /\ AreFields(given)
         /\ "abilities" \in DOMAIN given => given["abilities"] = "some"
<1>1. CASE given = [abilities |-> "some"]
  BY <1>1 DEF AreFields, Admins!Abilities
<1>2. CASE given = [restaurant |-> TRUE]
  BY <1>2 DEF AreFields
<1>3. CASE given = [role |-> "admin"]
  BY <1>3 DEF AreFields, Admins!Roles
<1>4. CASE \E s \in Copied : given = [session |-> s]
  <2>1. PICK s \in Copied : given = [session |-> s] BY <1>4
  <2>2. s \in Turns BY PartsAssumption DEF PartsAssumption
  <2>3. QED BY <2>1, <2>2 DEF AreFields
<1>5. QED BY <1>1, <1>2, <1>3, <1>4 DEF Admins!Updates

\* The fields a change writes are fields; when there were some abilities it
\* writes no others.
LEMMA ChangedFields ==
  ASSUME AdminsTyped, NEW r \in Turns, adminPlace[r] = "write"
  PROVE  /\ AreFields(Admins!Fields(r))
         /\ adminJob[r].read.abilities = "some" =>
              ("abilities" \in DOMAIN Admins!Fields(r) =>
                 Admins!Fields(r)["abilities"] = "some")
<1> DEFINE j == adminJob[r]
           F == Admins!Fields(r)
<1>1. /\ j.op \in {"update", "password", "delete"} /\ j.read \in AdminDoc
      /\ j.op = "update" => j.given \in Admins!Updates
      /\ j.op = "password" => j.given \in [password : Secrets]
  BY DEF AdminsTyped
<1>2. CASE j.op = "delete"
  <2>1. F = [deleted |-> TRUE] BY <1>2 DEF Admins!Fields
  <2>2. QED BY <2>1 DEF AreFields
<1>3. CASE j.op = "password"
  <2>1. F = j.given BY <1>3 DEF Admins!Fields
  <2>2. QED BY <1>1, <1>3, <2>1 DEF AreFields
<1>4. CASE j.op = "update"
  <2> DEFINE after == Admins!Default(Admins!Updated(j.read, j.given))
             G == Admins!Updated(j.given, [abilities |-> after.abilities])
  <2>1. /\ AreFields(j.given)
        /\ "abilities" \in DOMAIN j.given => j.given["abilities"] = "some"
    BY <1>1, <1>4, UpdatesAreFields
  <2>2. /\ Admins!Updated(j.read, j.given) \in AdminDoc
        /\ j.read.abilities = "some" =>
             Admins!Updated(j.read, j.given).abilities = "some"
    BY <1>1, <2>1, FieldsSet
  <2>3. /\ after.abilities \in Admins!Abilities
        /\ j.read.abilities = "some" => after.abilities = "some"
    BY <2>2, DefaultTyped
  <2>4. F = IF after.abilities # j.read.abilities THEN G ELSE j.given
    BY <1>4 DEF Admins!Fields
  <2> HIDE DEF after
  <2>5. AreFields(G)
    BY <2>1, <2>3 DEF AreFields, Admins!Updated
  <2> HIDE DEF G, j, F
  <2>6. QED BY <2>1, <2>3, <2>4, <2>5 DEF j, F
<1>5. QED BY <1>1, <1>2, <1>3, <1>4

LEMMA AdminsStart ==
  ASSUME AdminsTyped, NEW r \in Turns, NEW op, NEW i, NEW given,
         NEW at \in {"save", "write", "hash"}, Admins!Start(r, op, i, given, at),
         at = "save" => op = "create" /\ given \in NewGiven,
         at = "write" =>
           /\ op \in {"update", "password", "delete"} /\ i \in DOMAIN people
           /\ op = "update" => given \in Admins!Updates
           /\ op = "password" => given \in [password : Secrets],
         at = "hash" => i \in DOMAIN people /\ op \in {"login", "refresh"},
         people' = people, quiet' \subseteq DOMAIN people
  PROVE  AdminsTyped'
<1> DEFINE j == [op |-> op, doc |-> i, given |-> given,
                 read |-> IF i = 0 THEN None ELSE people[i]]
<1>1. /\ adminPlace[r] = "idle" /\ adminPlace' = [adminPlace EXCEPT ![r] = at]
      /\ adminJob' = [adminJob EXCEPT ![r] = j]
  BY DEF Admins!Start
<1>2. i \in DOMAIN people => j.read \in AdminDoc
  <2>1. i \in DOMAIN people => i # 0 /\ people[i] \in AdminDoc BY AdminDocs
  <2>2. QED BY <2>1
<1>3. j.op = op /\ j.doc = i /\ j.given = given OBVIOUS
<1> HIDE DEF j
<1>4. QED BY <1>1, <1>2, <1>3 DEF AdminsTyped, Admins!TypeOK

\* A document is replaced by another one, or added.
LEMMA AdminsWrite ==
  ASSUME AdminsTyped, NEW r \in Turns, NEW to \in {"reread", "done"},
         adminPlace[r] \in {"save", "write", "store", "fill"},
         to = "reread" => adminPlace[r] = "store",
         adminPlace' = [adminPlace EXCEPT ![r] = to],
         people' \in Seq(AdminDoc), DOMAIN people \subseteq DOMAIN people',
         UNCHANGED adminJob, quiet' \subseteq quiet
  PROVE  AdminsTyped'
<1>1. Admins!TypeOK' BY DEF AdminsTyped, Admins!TypeOK, AdminDoc
<1>2. QED BY <1>1 DEF AdminsTyped, Admins!TypeOK

\* What the writes of a creation, of a change and of a log-in leave alone: the
\* session of whoever stays quiet.
LEMMA SessionsUntouched ==
  ASSUME AdminsTyped, NEW r \in Turns,
         Admins!CreateSave(r) \/ Admins!ChangeWrite(r) \/ Admins!Fill(r)
  PROVE  /\ adminPlace[r] \in {"save", "write", "fill"}
         /\ adminPlace' = [adminPlace EXCEPT ![r] = "done"]
         /\ UNCHANGED adminJob /\ quiet' \subseteq quiet
         /\ people' \in Seq(AdminDoc) /\ DOMAIN people \subseteq DOMAIN people'
         /\ \A i \in quiet' : people'[i].session = people[i].session
<1> DEFINE j == adminJob[r]
<1>1. /\ adminPlace[r] \in {"save", "write", "fill"}
      /\ adminPlace' = [adminPlace EXCEPT ![r] = "done"]
      /\ UNCHANGED adminJob /\ quiet' \subseteq quiet
  BY DEF Admins!CreateSave, Admins!ChangeWrite, Admins!Fill, Admins!Goto,
         Admins!Given
<1>2. /\ people \in Seq(AdminDoc) /\ \A i \in DOMAIN people : people[i] \in AdminDoc
      /\ quiet' \subseteq DOMAIN people
  BY <1>1, AdminDocs DEF AdminsTyped, Admins!TypeOK
<1>3. ASSUME NEW i \in DOMAIN people, NEW d \in AdminDoc,
             i \in quiet' => d.session = people[i].session,
             people' = [people EXCEPT ![i] = d]
      PROVE  /\ people' \in Seq(AdminDoc) /\ DOMAIN people \subseteq DOMAIN people'
             /\ \A k \in quiet' : people'[k].session = people[k].session
  BY <1>2, <1>3
<1>4. CASE Admins!CreateSave(r)
  <2> DEFINE new == Admins!Default(Admins!NewAdmin(j.given))
             i == Admins!Oldest(Admins!Admins(j.given.email))
             kept == [new EXCEPT !.session = people[i].session]
             back == IF j.given.session = None THEN kept ELSE new
  <2>1. adminPlace[r] = "save" BY <1>4 DEF Admins!CreateSave, Admins!Goto
  <2>2. new \in AdminDoc BY <2>1, NewIsTyped DEF AdminsTyped
  <2>3. people' = IF j.doc = 0 THEN Append(people, new)
                  ELSE [people EXCEPT ![i] = back]
    BY <1>4 DEF Admins!CreateSave
  <2>8. j.doc = 0 \/ j.given.session = None \/ i \notin quiet'
    BY <1>4 DEF Admins!CreateSave, Admins!Given
  <2> HIDE DEF new, i
  <2>4. CASE j.doc = 0
    BY <1>1, <1>2, <2>2, <2>3, <2>4
  <2>5. CASE j.doc # 0 /\ i \in DOMAIN people
    <3>1. kept \in AdminDoc /\ kept.session = people[i].session
      <4>1. people[i].session \in Turns \cup {None} BY <1>2, <2>5 DEF AdminDoc
      <4>2. QED BY <2>2, <4>1 DEF AdminDoc
    <3> HIDE DEF kept
    <3>2. back \in AdminDoc /\ (i \in quiet' => back.session = people[i].session)
      BY <2>2, <2>5, <2>8, <3>1
    <3> HIDE DEF back
    <3>3. QED BY <1>1, <1>3, <2>3, <2>5, <3>2
  <2>6. CASE j.doc # 0 /\ i \notin DOMAIN people
    <3> HIDE DEF back
    <3>1. people' = people BY <1>2, <2>3, <2>6
    <3>2. QED BY <1>1, <1>2, <3>1
  <2>7. QED BY <2>4, <2>5, <2>6
<1>5. CASE Admins!ChangeWrite(r)
  <2> DEFINE F == Admins!Fields(r)
             d == Admins!Updated(people[j.doc], F)
  <2>1. adminPlace[r] = "write" BY <1>5 DEF Admins!ChangeWrite, Admins!Goto
  <2>2. AreFields(F) BY <2>1, ChangedFields
  <2>3. j.doc \in DOMAIN people BY <2>1 DEF AdminsTyped
  <2>4. /\ d \in AdminDoc
        /\ "session" \notin DOMAIN F => d.session = people[j.doc].session
    BY <1>2, <2>2, <2>3, FieldsSet
  <2>5. /\ people' = [people EXCEPT ![j.doc] = d]
        /\ "session" \in DOMAIN F => j.doc \notin quiet'
    BY <1>5 DEF Admins!ChangeWrite, Admins!Given
  <2> HIDE DEF d, F
  <2>6. QED BY <1>1, <1>3, <2>3, <2>4, <2>5
<1>6. CASE Admins!Fill(r)
  <2> DEFINE d == [people[j.doc] EXCEPT !.abilities = "all"]
  <2>1. adminPlace[r] = "fill" BY <1>6 DEF Admins!Fill, Admins!Goto
  <2>2. j.doc \in DOMAIN people BY <2>1 DEF AdminsTyped
  <2>3. people[j.doc] \in AdminDoc BY <1>2, <2>2
  <2>4. d \in AdminDoc /\ d.session = people[j.doc].session
    BY <2>3 DEF AdminDoc, Admins!Abilities
  <2>5. people' = [people EXCEPT ![j.doc] = d] BY <1>6 DEF Admins!Fill
  <2> HIDE DEF d
  <2>6. QED BY <1>1, <1>3, <2>2, <2>4, <2>5
<1>7. QED BY <1>4, <1>5, <1>6

\* What storing or removing a session does.
LEMMA SessionSet ==
  ASSUME AdminsTyped, NEW i \in DOMAIN people, NEW s \in Turns \cup {None},
         people' = [people EXCEPT ![i].session = s]
  PROVE  /\ people' \in Seq(AdminDoc) /\ DOMAIN people' = DOMAIN people
         /\ \A k \in DOMAIN people :
              /\ people'[k].session = IF k = i THEN s ELSE people[k].session
              /\ people'[k].abilities = people[k].abilities
              /\ people'[k].deleted = people[k].deleted
              /\ people'[k].kind = people[k].kind
              /\ people'[k].email = people[k].email
<1> DEFINE d == [people[i] EXCEPT !.session = s]
<1>1. people \in Seq(AdminDoc) /\ people[i] \in AdminDoc BY AdminDocs
<1>2. /\ d \in AdminDoc /\ d.session = s /\ d.abilities = people[i].abilities
      /\ d.deleted = people[i].deleted /\ d.kind = people[i].kind
      /\ d.email = people[i].email
  BY <1>1 DEF AdminDoc
<1>3. people' = [people EXCEPT ![i] = d] OBVIOUS
<1> HIDE DEF d
<1>4. QED BY <1>1, <1>2, <1>3

LEMMA MayBePresent ==
  ASSUME AdminsTyped, NEW e, NEW portal, NEW i \in Admins!MayBe(e, portal)
  PROVE  i \in DOMAIN people
<1> DEFINE known == Admins!Present(Admins!Admins(e))
           here == {k \in known : portal => people[k].restaurant}
<1>1. known \subseteq DOMAIN people BY DEF Admins!Present, Admins!Admins
<1>2. ASSUME here # {} PROVE Admins!Oldest(here) \in here
  <2>1. here \in SUBSET Nat BY <1>1, AdminDocs
  <2> HIDE DEF here
  <2>2. \E k \in here : \A l \in here : k <= l BY <1>2, <2>1, Least
  <2>3. QED BY <1>2, <2>2 DEF Admins!Oldest
<1>3. here \subseteq known OBVIOUS
<1>4. Admins!MayBe(e, portal) =
        IF here # {} THEN {Admins!Oldest(here)}
        ELSE known \cup {k \in DOMAIN people : ~Admins!IsAdmin(k) /\ people[k].email = e}
  BY DEF Admins!MayBe
<1> HIDE DEF known, here
<1>5. QED BY <1>1, <1>2, <1>3, <1>4

LEMMA CreateGiven ==
  ASSUME NEW e \in Offices, NEW given \in Admins!Dtos
  PROVE  Admins!Updated(given, [email |-> e]) \in NewGiven
<1>1. PICK role \in Admins!Roles, x \in BOOLEAN, a \in {"none", "some"}, p \in Secrets,
           s \in Copied \cup {None} :
        given = [role |-> role, restaurant |-> x, abilities |-> a, password |-> p,
                 session |-> s]
  BY DEF Admins!Dtos
<1>2. s \in Turns \cup {None} BY PartsAssumption DEF PartsAssumption
<1>3. QED BY <1>1, <1>2 DEF Admins!Updated, NewGiven

LEMMA AdminsTypedStep ==
  ASSUME AdminsTyped, Admins!Next
  PROVE  AdminsTyped'
<1>1. people \in Seq(AdminDoc) /\ quiet \subseteq DOMAIN people
  BY AdminDocs DEF AdminsTyped, Admins!TypeOK
<1>2. ASSUME NEW r \in Turns, NEW e \in Offices, NEW given \in Admins!Dtos,
             Admins!Create(r, e, given)
      PROVE  AdminsTyped'
  <2>1. /\ Admins!Start(r, "create", Admins!Oldest(Admins!Admins(e)),
                        Admins!Updated(given, [email |-> e]), "save")
        /\ UNCHANGED <<people, quiet>>
    BY <1>2 DEF Admins!Create
  <2>2. QED BY <1>1, <2>1, CreateGiven, AdminsStart
<1>3. ASSUME NEW r \in Turns, NEW i \in DOMAIN people, NEW op, NEW given,
             Admins!Change(r, i, op, given),
             op \in {"update", "password", "delete"},
             op = "update" => given \in Admins!Updates,
             op = "password" => given \in [password : Secrets]
      PROVE  AdminsTyped'
  <2>1. Admins!Start(r, op, i, given, "write") /\ UNCHANGED <<people, quiet>>
    BY <1>3 DEF Admins!Change
  <2>2. QED BY <1>1, <1>3, <2>1, AdminsStart
<1>4. ASSUME NEW r \in Turns, NEW e, NEW portal, NEW p, Admins!Login(r, e, portal, p)
      PROVE  AdminsTyped'
  <2>1. PICK i \in Admins!MayBe(e, portal) :
          /\ Admins!Start(r, "login", i, <<>>, "hash")
          /\ quiet' = quiet \ {i} /\ people' = people
    BY <1>4 DEF Admins!Login
  <2>2. i \in DOMAIN people BY MayBePresent
  <2>3. QED BY <1>1, <2>1, <2>2, AdminsStart
<1>5. ASSUME NEW r \in Turns, NEW i \in DOMAIN people, Admins!Refresh(r, i)
      PROVE  AdminsTyped'
  <2>1. Admins!Start(r, "refresh", i, <<>>, "hash") /\ UNCHANGED <<people, quiet>>
    BY <1>5 DEF Admins!Refresh
  <2>2. QED BY <1>1, <2>1, AdminsStart
<1>6. ASSUME NEW r \in Turns,
             Admins!CreateSave(r) \/ Admins!ChangeWrite(r) \/ Admins!Fill(r)
      PROVE  AdminsTyped'
  BY <1>6, SessionsUntouched, AdminsWrite
<1>7. ASSUME NEW r \in Turns, Admins!Store(r) PROVE AdminsTyped'
  <2>1. /\ adminPlace[r] = "store"
        /\ adminPlace' = [adminPlace EXCEPT ![r] = "reread"]
        /\ UNCHANGED <<adminJob, quiet>>
        /\ people' = [people EXCEPT ![adminJob[r].doc].session = r]
    BY <1>7 DEF Admins!Store, Admins!Goto
  <2>2. adminJob[r].doc \in DOMAIN people BY <2>1 DEF AdminsTyped
  <2>3. people' \in Seq(AdminDoc) /\ DOMAIN people' = DOMAIN people
    BY <2>1, <2>2, SessionSet
  <2>4. QED BY <2>1, <2>3, AdminsWrite
<1>8. ASSUME NEW r \in Turns, Admins!Hash(r) \/ Admins!Reread(r) \/ Admins!Fail(r)
      PROVE  AdminsTyped'
  <2>1. /\ \/ adminPlace[r] = "hash" /\ adminPlace' = [adminPlace EXCEPT ![r] = "store"]
           \/ adminPlace[r] = "reread" /\ adminPlace' = [adminPlace EXCEPT ![r] = "fill"]
           \/ adminPlace' = [adminPlace EXCEPT ![r] = "done"]
        /\ UNCHANGED <<people, adminJob, quiet>>
    BY <1>8 DEF Admins!Hash, Admins!Reread, Admins!Fail, Admins!Goto
  <2>2. QED BY <2>1 DEF AdminsTyped, Admins!TypeOK
<1>9. ASSUME NEW i \in DOMAIN people, Admins!Logout(i) PROVE AdminsTyped'
  <2>1. /\ people' = [people EXCEPT ![i].session = None]
        /\ quiet' \subseteq quiet \cup {i}
        /\ UNCHANGED <<adminPlace, adminJob>>
    BY <1>9 DEF Admins!Logout
  <2>2. people' \in Seq(AdminDoc) /\ DOMAIN people' = DOMAIN people
    BY <2>1, SessionSet
  <2>3. Admins!TypeOK'
    BY <1>1, <2>1, <2>2 DEF AdminsTyped, Admins!TypeOK, AdminDoc
  <2>4. QED BY <2>1, <2>2, <2>3 DEF AdminsTyped
<1>10. ASSUME NEW r \in Turns, NEW i \in DOMAIN people,
              \/ \E given \in Admins!Updates : Admins!Change(r, i, "update", given)
              \/ \E p \in Secrets : Admins!Change(r, i, "password", [password |-> p])
              \/ Admins!Change(r, i, "delete", <<>>)
       PROVE  AdminsTyped'
  <2>1. \A p \in Secrets : [password |-> p] \in [password : Secrets] OBVIOUS
  <2>2. QED BY <1>3, <1>10, <2>1
<1>11. QED
  BY <1>2, <1>4, <1>5, <1>6, <1>7, <1>8, <1>9, <1>10 DEF Admins!Next

\* However log-ins, refreshes and changes overlap with a log-out, nobody stores
\* a session for an administrator who has been quiet since.
LEMMA SessionsStep ==
  ASSUME AdminsTyped, AdminsTyped', Admins!SessionsInv, Admins!Next
  PROVE  Admins!SessionsInv'
<1> USE DEF Admins!SessionsInv, Admins!LogoutHolds
<1>1. /\ adminPlace = [r \in Turns |-> adminPlace[r]]
      /\ adminJob = [r \in Turns |-> adminJob[r]]
      /\ quiet \subseteq DOMAIN people
  BY DEF AdminsTyped, Admins!TypeOK
<1>2. ASSUME NEW r \in Turns, NEW op, NEW i, NEW given, NEW at,
             Admins!Start(r, op, i, given, at), people' = people,
             quiet' \subseteq quiet,
             at \in {"hash", "store"} => op \in {"login", "refresh"} /\ i \notin quiet'
      PROVE  Admins!SessionsInv'
  <2> DEFINE j == [op |-> op, doc |-> i, given |-> given,
                   read |-> IF i = 0 THEN None ELSE people[i]]
  <2>1. /\ adminPlace' = [adminPlace EXCEPT ![r] = at]
        /\ adminJob' = [adminJob EXCEPT ![r] = j]
    BY <1>2 DEF Admins!Start
  <2>2. j.op = op /\ j.doc = i OBVIOUS
  <2> HIDE DEF j
  <2>3. QED BY <1>1, <1>2, <2>1, <2>2
<1>3. ASSUME NEW r \in Turns, NEW e, NEW given, Admins!Create(r, e, given)
      PROVE  Admins!SessionsInv'
  BY <1>2, <1>3 DEF Admins!Create
<1>4. ASSUME NEW r \in Turns, NEW i, NEW op, NEW given, Admins!Change(r, i, op, given)
      PROVE  Admins!SessionsInv'
  BY <1>2, <1>4 DEF Admins!Change
<1>5. ASSUME NEW r \in Turns, NEW e, NEW portal, NEW p, Admins!Login(r, e, portal, p)
      PROVE  Admins!SessionsInv'
  <2>1. PICK i \in Admins!MayBe(e, portal) :
          /\ Admins!Start(r, "login", i, <<>>, "hash")
          /\ quiet' = quiet \ {i} /\ people' = people
    BY <1>5 DEF Admins!Login
  <2>2. QED BY <1>2, <2>1
<1>6. ASSUME NEW r \in Turns, NEW i, i \in DOMAIN people, Admins!Refresh(r, i)
      PROVE  Admins!SessionsInv'
  <2>1. i \notin quiet BY <1>6 DEF Admins!Refresh
  <2>2. QED BY <1>2, <1>6, <2>1 DEF Admins!Refresh
<1>7. ASSUME NEW r \in Turns,
             Admins!CreateSave(r) \/ Admins!ChangeWrite(r) \/ Admins!Fill(r)
      PROVE  Admins!SessionsInv'
  <2>1. /\ adminPlace' = [adminPlace EXCEPT ![r] = "done"]
        /\ UNCHANGED adminJob /\ quiet' \subseteq quiet
        /\ \A i \in quiet' : people'[i].session = people[i].session
    BY <1>7, SessionsUntouched
  <2>2. QED BY <1>1, <2>1
<1>8. ASSUME NEW r \in Turns, Admins!Store(r) PROVE Admins!SessionsInv'
  <2>1. /\ adminPlace[r] = "store"
        /\ adminPlace' = [adminPlace EXCEPT ![r] = "reread"]
        /\ UNCHANGED <<adminJob, quiet>>
        /\ people' = [people EXCEPT ![adminJob[r].doc].session = r]
    BY <1>8 DEF Admins!Store, Admins!Goto
  <2>2. adminJob[r].doc \in DOMAIN people \ quiet BY <2>1 DEF AdminsTyped
  <2>3. \A i \in quiet : people'[i].session = people[i].session
    BY <1>1, <2>1, <2>2, SessionSet
  <2>4. QED BY <1>1, <2>1, <2>3
<1>9. ASSUME NEW r \in Turns, Admins!Hash(r) \/ Admins!Reread(r) \/ Admins!Fail(r)
      PROVE  Admins!SessionsInv'
  <2>1. /\ \/ adminPlace[r] = "hash" /\ adminPlace' = [adminPlace EXCEPT ![r] = "store"]
           \/ adminPlace' = [adminPlace EXCEPT ![r] = "fill"]
           \/ adminPlace' = [adminPlace EXCEPT ![r] = "done"]
        /\ UNCHANGED <<people, adminJob, quiet>>
    BY <1>9 DEF Admins!Hash, Admins!Reread, Admins!Fail, Admins!Goto
  <2>2. QED BY <1>1, <2>1
<1>10. ASSUME NEW i \in DOMAIN people, Admins!Logout(i)
       PROVE  Admins!SessionsInv'
  <2>1. /\ people' = [people EXCEPT ![i].session = None]
        /\ UNCHANGED <<adminPlace, adminJob>>
        /\ quiet' = IF \E r \in Admins!Running :
                         adminJob[r].doc = i /\ adminJob[r].op \in {"login", "refresh"}
                    THEN quiet ELSE quiet \cup {i}
    BY <1>10 DEF Admins!Logout
  <2>2. \A k \in DOMAIN people :
          people'[k].session = IF k = i THEN None ELSE people[k].session
    BY <2>1, SessionSet
  <2>3. ASSUME NEW r \in Turns, adminPlace[r] \in {"hash", "store"}
        PROVE  adminJob[r].doc \notin quiet' /\ adminJob[r].op \in {"login", "refresh"}
    <3>1. r \in Admins!Running BY <2>3 DEF Admins!Running
    <3>2. QED BY <2>1, <2>3, <3>1
  <2>4. \A k \in quiet' : people'[k].session = None BY <1>1, <2>1, <2>2
  <2>5. QED BY <2>1, <2>3, <2>4
<1>11. QED
  BY <1>3, <1>4, <1>5, <1>6, <1>7, <1>8, <1>9, <1>10 DEF Admins!Next

\* One request at a time, what a handler has read of abilities and of a deletion
\* is still true when it writes, so that no write replaces given abilities.
LEMMA AbilitiesStep ==
  ASSUME AdminsTyped, Admins!AbilitiesCalm, Admins!Serial, Admins!Serial',
         Admins!Next
  PROVE  Admins!AbilitiesCalm' /\ Admins!GivenStays
<1> USE DEF Admins!AbilitiesCalm, Admins!GivenStays
<1>1. /\ adminPlace = [r \in Turns |-> adminPlace[r]]
      /\ adminJob = [r \in Turns |-> adminJob[r]]
      /\ people \in Seq(AdminDoc)
      /\ \A i \in DOMAIN people : people[i] \in AdminDoc
  BY AdminDocs DEF AdminsTyped, Admins!TypeOK
<1>2. ASSUME NEW r \in Turns, NEW to,
             adminPlace' = [adminPlace EXCEPT ![r] = to], to # "idle",
             to = "done" => adminPlace[r] \notin {"idle", "done"},
             NEW q \in Turns, q # r
      PROVE  adminPlace'[q] \notin {"save", "write", "fill"}
  <2>1. CASE to # "done"
    BY <1>1, <1>2, <2>1 DEF Admins!Serial, Admins!Running
  <2>2. CASE to = "done"
    BY <1>1, <1>2, <2>2 DEF Admins!Serial, Admins!Running
  <2>3. QED BY <2>1, <2>2
\* A request that begins.
<1>3. ASSUME NEW r \in Turns, NEW op, NEW i, NEW given,
             NEW at \in {"save", "write", "hash"},
             Admins!Start(r, op, i, given, at), people' = people,
             at = "save" => \/ i = 0
                            \/ \A k \in DOMAIN people :
                                 k = Admins!Oldest(Admins!Admins(given.email))
                                   => people[k].deleted,
             at = "write" => i \in DOMAIN people
      PROVE  Admins!AbilitiesCalm' /\ Admins!GivenStays
  <2> DEFINE j == [op |-> op, doc |-> i, given |-> given,
                   read |-> IF i = 0 THEN None ELSE people[i]]
  <2>1. /\ adminPlace' = [adminPlace EXCEPT ![r] = at]
        /\ adminJob' = [adminJob EXCEPT ![r] = j]
    BY <1>3 DEF Admins!Start
  <2>2. j.doc = i /\ j.given = given /\ (i \in DOMAIN people => j.read = people[i])
    BY <1>1
  <2> HIDE DEF j
  <2>3. \A q \in Turns \ {r} : adminPlace'[q] \notin {"save", "write", "fill"}
    BY <1>2, <2>1
  <2>4. adminPlace'[r] = at /\ adminJob'[r] = j BY <1>1, <2>1
  <2>5. \A e : Admins!Oldest(Admins!Admins(e))' = Admins!Oldest(Admins!Admins(e))
    BY <1>3 DEF Admins!Oldest, Admins!Admins
  <2>6. QED BY <1>3, <2>2, <2>3, <2>4, <2>5
\* A step of one that is served.
<1>4. ASSUME NEW r \in Turns, NEW to \in {"store", "reread", "done"},
             adminPlace' = [adminPlace EXCEPT ![r] = to],
             adminPlace[r] \notin {"idle", "done"}
      PROVE  Admins!AbilitiesCalm'
  <2>1. \A q \in Turns : adminPlace'[q] \notin {"save", "write", "fill"}
    BY <1>1, <1>2, <1>4
  <2>2. QED BY <2>1
<1>5. ASSUME NEW r \in Turns, NEW e \in Offices, NEW given \in Admins!Dtos,
             Admins!Create(r, e, given)
      PROVE  Admins!AbilitiesCalm' /\ Admins!GivenStays
  <2> DEFINE i == Admins!Oldest(Admins!Admins(e))
             all == Admins!Updated(given, [email |-> e])
  <2>1. /\ Admins!Start(r, "create", i, all, "save") /\ people' = people
        /\ i # 0 => people[i].deleted
    BY <1>5 DEF Admins!Create
  <2>2. all.email = e BY DEF Admins!Updated
  <2> HIDE DEF all
  <2>3. QED BY <1>3, <2>1, <2>2
<1>6. ASSUME NEW r \in Turns, NEW i \in DOMAIN people, NEW op, NEW given,
             Admins!Change(r, i, op, given)
      PROVE  Admins!AbilitiesCalm' /\ Admins!GivenStays
  BY <1>3, <1>6 DEF Admins!Change
<1>7. ASSUME NEW r \in Turns, NEW e, NEW portal, NEW p, Admins!Login(r, e, portal, p)
      PROVE  Admins!AbilitiesCalm' /\ Admins!GivenStays
  BY <1>3, <1>7 DEF Admins!Login
<1>8. ASSUME NEW r \in Turns, NEW i \in DOMAIN people, Admins!Refresh(r, i)
      PROVE  Admins!AbilitiesCalm' /\ Admins!GivenStays
  BY <1>3, <1>8 DEF Admins!Refresh
<1>9. ASSUME NEW r \in Turns, Admins!CreateSave(r)
      PROVE  Admins!AbilitiesCalm' /\ Admins!GivenStays
  <2> DEFINE j == adminJob[r]
             new == Admins!Default(Admins!NewAdmin(j.given))
             i == Admins!Oldest(Admins!Admins(j.given.email))
             kept == [new EXCEPT !.session = people[i].session]
  <2>1. /\ adminPlace[r] = "save"
        /\ adminPlace' = [adminPlace EXCEPT ![r] = "done"]
        /\ people' = IF j.doc = 0 THEN Append(people, new)
                     ELSE [people EXCEPT ![i] =
                             IF j.given.session = None THEN kept ELSE new]
    BY <1>9 DEF Admins!CreateSave, Admins!Goto
  <2>2. j.doc = 0 \/ (i \in DOMAIN people => people[i].deleted) BY <2>1
  <2> HIDE DEF new, kept, i
  <2>3. \A k \in DOMAIN people : ~people[k].deleted => people'[k] = people[k]
    BY <1>1, <2>1, <2>2
  <2>4. QED BY <1>4, <2>1, <2>3
<1>10. ASSUME NEW r \in Turns, Admins!ChangeWrite(r)
       PROVE  Admins!AbilitiesCalm' /\ Admins!GivenStays
  <2> DEFINE n == adminJob[r].doc
             F == Admins!Fields(r)
             d == Admins!Updated(people[n], F)
  <2>1. /\ adminPlace[r] = "write"
        /\ adminPlace' = [adminPlace EXCEPT ![r] = "done"]
        /\ people' = [people EXCEPT ![n] = d]
    BY <1>10 DEF Admins!ChangeWrite, Admins!Goto
  <2>2. n \in DOMAIN people BY <2>1 DEF AdminsTyped
  <2>3. people[n].abilities = adminJob[r].read.abilities BY <2>1
  <2>4. /\ AreFields(F)
        /\ people[n].abilities = "some" =>
             ("abilities" \in DOMAIN F => F["abilities"] = "some")
    BY <2>1, <2>3, ChangedFields
  <2>5. people[n].abilities = "some" => d.abilities = "some"
    BY <1>1, <2>2, <2>4, FieldsSet
  <2> HIDE DEF d
  <2>6. \A k \in DOMAIN people : people'[k] = IF k = n THEN d ELSE people[k]
    BY <1>1, <2>1
  <2>7. QED BY <1>4, <2>1, <2>5, <2>6
<1>11. ASSUME NEW r \in Turns, Admins!Fill(r)
       PROVE  Admins!AbilitiesCalm' /\ Admins!GivenStays
  <2> DEFINE n == adminJob[r].doc
  <2>1. /\ adminPlace[r] = "fill"
        /\ adminPlace' = [adminPlace EXCEPT ![r] = "done"]
        /\ people' = [people EXCEPT ![n].abilities = "all"]
    BY <1>11 DEF Admins!Fill, Admins!Goto
  <2>2. people[n].abilities = "none" BY <2>1
  <2>3. \A k \in DOMAIN people : k # n => people'[k] = people[k] BY <1>1, <2>1
  <2>4. QED BY <1>4, <2>1, <2>2, <2>3
<1>12. ASSUME NEW r \in Turns, Admins!Store(r)
       PROVE  Admins!AbilitiesCalm' /\ Admins!GivenStays
  <2>1. /\ adminPlace[r] = "store"
        /\ adminPlace' = [adminPlace EXCEPT ![r] = "reread"]
        /\ people' = [people EXCEPT ![adminJob[r].doc].session = r]
    BY <1>12 DEF Admins!Store, Admins!Goto
  <2>2. adminJob[r].doc \in DOMAIN people BY <2>1 DEF AdminsTyped
  <2>3. \A k \in DOMAIN people : people'[k].abilities = people[k].abilities
    BY <2>1, <2>2, SessionSet
  <2>4. QED BY <1>4, <2>1, <2>3
<1>13. ASSUME NEW r \in Turns, Admins!Hash(r) \/ Admins!Fail(r)
       PROVE  Admins!AbilitiesCalm' /\ Admins!GivenStays
  <2>1. /\ adminPlace[r] \notin {"idle", "done"} /\ people' = people
        /\ \E to \in {"store", "done"} : adminPlace' = [adminPlace EXCEPT ![r] = to]
    BY <1>13 DEF Admins!Hash, Admins!Fail, Admins!Goto, Admins!Running
  <2>2. QED BY <1>4, <2>1
<1>14. ASSUME NEW r \in Turns, Admins!Reread(r)
       PROVE  Admins!AbilitiesCalm' /\ Admins!GivenStays
  <2> DEFINE n == adminJob[r].doc
             refused == people[n].kind = "admin" /\ people[n].deleted
             to == IF refused \/ Admins!Default(people[n]) = people[n] THEN "done"
                   ELSE "fill"
  <2>1. /\ adminPlace[r] = "reread"
        /\ adminPlace' = [adminPlace EXCEPT ![r] = to]
        /\ UNCHANGED <<people, adminJob>>
    BY <1>14 DEF Admins!Reread
  <2>2. to \in {"done", "fill"} OBVIOUS
  <2>3. to = "fill" => people[n].abilities = "none" BY DEF Admins!Default
  <2> HIDE DEF to
  <2>4. \A q \in Turns \ {r} : adminPlace'[q] \notin {"save", "write", "fill"}
    BY <1>2, <2>1, <2>2
  <2>5. adminPlace'[r] = to BY <1>1, <2>1
  <2>6. QED BY <2>1, <2>2, <2>3, <2>4, <2>5
<1>15. ASSUME NEW i \in DOMAIN people, Admins!Logout(i)
       PROVE  Admins!AbilitiesCalm' /\ Admins!GivenStays
  <2>1. /\ people' = [people EXCEPT ![i].session = None]
        /\ UNCHANGED <<adminPlace, adminJob>>
    BY <1>15 DEF Admins!Logout
  <2>2. /\ DOMAIN people' = DOMAIN people
        /\ \A k \in DOMAIN people :
             /\ people'[k].abilities = people[k].abilities
             /\ people'[k].deleted = people[k].deleted
             /\ people'[k].kind = people[k].kind
             /\ people'[k].email = people[k].email
    BY <2>1, SessionSet
  <2>3. \A e : Admins!Admins(e)' = Admins!Admins(e) BY <2>2 DEF Admins!Admins
  <2>4. ASSUME NEW e
        PROVE  Admins!Oldest(Admins!Admins(e))' = Admins!Oldest(Admins!Admins(e))
    <3>1. Admins!Admins(e)' = Admins!Admins(e) BY <2>3
    <3>2. QED BY <3>1
  <2>5. \A r \in Turns : adminPlace[r] \in {"write", "fill"} =>
                            adminJob[r].doc \in DOMAIN people
    BY DEF AdminsTyped
  <2>6. QED BY <2>1, <2>2, <2>4, <2>5
<1>16. QED
  BY <1>5, <1>6, <1>7, <1>8, <1>9, <1>10, <1>11, <1>12, <1>13, <1>14, <1>15
     DEF Admins!Next

\* What holds of administrators at every time, and, one request at a time, that
\* what was read of their abilities still holds.
AdminsHold ==
  /\ AdminsTyped /\ Admins!SessionsInv
  /\ calm => Admins!Serial /\ Admins!AbilitiesCalm

LEMMA AdminsBegin == Admins!Init => AdminsHold
<1> SUFFICES ASSUME Admins!Init PROVE AdminsHold OBVIOUS
<1>1. /\ people \in {<<Admins!Lead(e)>> : e \in Offices}
      /\ adminPlace = [r \in Turns |-> "idle"]
      /\ adminJob = [r \in Turns |-> None]
      /\ quiet = {}
  BY DEF Admins!Init
<1>2. PICK e \in Offices : people = <<Admins!Lead(e)>> BY <1>1
<1>3. Admins!Lead(e) \in AdminDoc
  BY DEF Admins!Lead, AdminDoc, Admins!Roles, Admins!Abilities
<1> HIDE DEF AdminDoc
<1>4. people \in Seq(AdminDoc) BY <1>2, <1>3
<1>5. Admins!TypeOK BY <1>1, <1>4 DEF Admins!TypeOK, AdminDoc
<1>6. AdminsTyped BY <1>1, <1>5 DEF AdminsTyped
<1>7. Admins!SessionsInv BY <1>1 DEF Admins!SessionsInv, Admins!LogoutHolds
<1>8. Admins!Serial /\ Admins!AbilitiesCalm
  BY <1>1 DEF Admins!Serial, Admins!Running, Admins!AbilitiesCalm
<1>9. QED BY <1>6, <1>7, <1>8 DEF AdminsHold

LEMMA AdminsKeep ==
  ASSUME PartsAssumption, AdminsHold,
         [MCNext]_<<vars, part, calm, customers, admins, signIns>>
  PROVE  AdminsHold' /\ (calm => Admins!GivenStays \/ UNCHANGED admins)
<1>1. /\ UNCHANGED calm /\ [Admins!Next]_admins
      /\ calm => Admins!Serial' \/ UNCHANGED admins
  BY StepOfParts
<1>2. CASE UNCHANGED admins
  <2>1. /\ people' = people /\ adminPlace' = adminPlace
        /\ adminJob' = adminJob /\ quiet' = quiet
    BY <1>2 DEF admins
  <2>2. AdminsTyped' BY <2>1 DEF AdminsHold, AdminsTyped, Admins!TypeOK
  <2>3. Admins!SessionsInv'
    BY <2>1 DEF AdminsHold, Admins!SessionsInv, Admins!LogoutHolds
  <2>4. Admins!Running' = Admins!Running BY <2>1 DEF Admins!Running
  <2>5. \A e : Admins!Admins(e)' = Admins!Admins(e) BY <2>1 DEF Admins!Admins
  <2>6. ASSUME NEW e
        PROVE  Admins!Oldest(Admins!Admins(e))' = Admins!Oldest(Admins!Admins(e))
    <3>1. Admins!Admins(e)' = Admins!Admins(e) BY <2>5
    <3>2. QED BY <3>1
  <2>7. calm => Admins!Serial' /\ Admins!AbilitiesCalm'
    BY <2>1, <2>4, <2>6 DEF AdminsHold, Admins!Serial, Admins!AbilitiesCalm
  <2>8. QED BY <1>1, <1>2, <2>2, <2>3, <2>7 DEF AdminsHold
<1>3. CASE ~UNCHANGED admins
  <2>1. Admins!Next BY <1>1, <1>3
  <2>2. AdminsTyped' BY <2>1, AdminsTypedStep DEF AdminsHold
  <2>3. Admins!SessionsInv' BY <2>1, <2>2, SessionsStep DEF AdminsHold
  <2>4. calm => /\ Admins!Serial' /\ Admins!AbilitiesCalm' /\ Admins!GivenStays
    BY <1>1, <1>3, <2>1, AbilitiesStep DEF AdminsHold
  <2>5. QED BY <1>1, <2>2, <2>3, <2>4 DEF AdminsHold
<1>4. QED BY <1>2, <1>3

\* Whatever administrators there are and however their log-ins, refreshes and
\* changes overlap, a log-out holds until the next log-in.
THEOREM LogoutsHold == MCSpec => []LogoutHolds
<1>1. AdminsHold => LogoutHolds
  BY DEF AdminsHold, Admins!SessionsInv, LogoutHolds
<1>2. AdminsHold /\ [MCNext]_<<vars, part, calm, customers, admins, signIns>>
        => AdminsHold'
  BY AdminsKeep, PartsAssumption
<1>3. MCInit => AdminsHold BY AdminsBegin DEF MCInit
<1>4. QED BY <1>1, <1>2, <1>3, PTL DEF MCSpec

\* So it does in any behaviour of Administrators, whatever its requests are.
THEOREM LogoutsAlwaysHold == Admins!Spec => []Admins!LogoutHolds
<1> DEFINE I == AdminsTyped /\ Admins!SessionsInv
<1>1. Admins!Init => I BY AdminsBegin DEF AdminsHold
<1>2. I /\ [Admins!Next]_admins => I'
  <2> SUFFICES ASSUME I, [Admins!Next]_admins PROVE I' OBVIOUS
  <2>1. CASE UNCHANGED admins
    BY <2>1 DEF admins, AdminsTyped, Admins!TypeOK, Admins!SessionsInv,
                Admins!LogoutHolds
  <2>2. CASE Admins!Next BY <2>2, AdminsTypedStep, SessionsStep
  <2>3. QED BY <2>1, <2>2
<1>3. I => Admins!LogoutHolds BY DEF Admins!SessionsInv
<1> HIDE DEF I
<1>4. QED BY <1>1, <1>2, <1>3, PTL DEF Admins!Spec, Admins!vars, admins

-----------------------------------------------------------------------------
(* Sign-ins: types                                                           *)

Docs(kind) == IF kind = "lead" THEN SignIns!Leads ELSE SignIns!People
RecordsType ==
  [user : [Mailboxes -> SignIns!People \cup {None}],
   admin : [Mailboxes -> SignIns!People \cup {None}],
   lead : [Mailboxes -> SignIns!Leads \cup {None}]]

Trials == [start : 0..LastDay, end : 7..(LastDay + 7)] \cup {None}

\* What a running request holds.
JobTyped(j) ==
  /\ j = [op |-> j.op, email |-> j.email, given |-> j.given, kind |-> j.kind,
          read |-> j.read]
  /\ j.email \in Mailboxes /\ j.kind \in SignIns!Kinds
  /\ j.read \in Docs(j.kind) \cup {None}
  /\ j.op \in {"callback", "onboard", "trial", "update"}
  /\ j.op = "callback" => /\ j.given.provider \in {"google", "apple"}
                          /\ j.given.code \in Few
  /\ j.op = "trial" => j.given \in [trial : Trials]
  /\ j.op = "update" => j.given \in SignIns!Updates
  /\ j.op # "callback" => j.kind = "lead"

SignInsTyped ==
  /\ SignIns!TypeOK
  /\ DOMAIN signJob = Few /\ signJob = [r \in Few |-> signJob[r]]
  /\ \A r \in SignIns!Running : JobTyped(signJob[r])

\* The document of one kind with one address is set to another.
Puts(kind, e, d) == records' = [records EXCEPT ![kind][e] = d]

LEMMA RecordSet ==
  ASSUME records \in RecordsType, NEW kind \in SignIns!Kinds,
         NEW e \in Mailboxes, NEW d \in Docs(kind), Puts(kind, e, d)
  PROVE  /\ records' \in RecordsType
         /\ \A k \in SignIns!Kinds, x \in Mailboxes :
              records'[k][x] = IF k = kind /\ x = e THEN d ELSE records[k][x]
<1> USE DEF RecordsType, SignIns!Kinds, Puts
<1>1. CASE kind = "user" BY <1>1 DEF Docs
<1>2. CASE kind = "admin" BY <1>2 DEF Docs
<1>3. CASE kind = "lead" BY <1>3 DEF Docs
<1>4. QED BY <1>1, <1>2, <1>3 DEF SignIns!Kinds

LEMMA RecordTyped ==
  ASSUME records \in RecordsType, NEW kind \in SignIns!Kinds, NEW e \in Mailboxes
  PROVE  records[kind][e] \in Docs(kind) \cup {None}
<1> USE DEF RecordsType, SignIns!Kinds, Docs
<1>1. CASE kind = "user" BY <1>1
<1>2. CASE kind = "admin" BY <1>2
<1>3. CASE kind = "lead" BY <1>3
<1>4. QED BY <1>1, <1>2, <1>3

LeadFields(f) ==
  /\ f = [d \in DOMAIN f |-> f[d]]
  /\ DOMAIN f \subseteq {"restaurant", "role", "abilities", "verified",
                         "provider", "trial"}
  /\ "restaurant" \in DOMAIN f => f["restaurant"] \in Restaurants
  /\ "role" \in DOMAIN f => f["role"] \in {"lead", "admin", "staff"}
  /\ "abilities" \in DOMAIN f => f["abilities"] \in {"none", "some", "all"}
  /\ "verified" \in DOMAIN f => f["verified"] \in BOOLEAN
  /\ "provider" \in DOMAIN f => f["provider"] \in {"email", "google", "apple"}
  /\ "trial" \in DOMAIN f => f["trial"] \in Trials

\* A lead with some fields set anew keeps the others.
LEMMA LeadSet ==
  ASSUME NEW d \in SignIns!Leads, NEW f, LeadFields(f)
  PROVE  /\ SignIns!Updated(d, f) \in SignIns!Leads
         /\ \A x \in {"restaurant", "role", "abilities", "verified", "provider",
                      "trial"} :
              SignIns!Updated(d, f)[x] = IF x \in DOMAIN f THEN f[x] ELSE d[x]
<1> DEFINE u == SignIns!Updated(d, f)
           Names == {"restaurant", "role", "abilities", "verified", "provider",
                     "trial"}
<1>1. DOMAIN d = Names BY DEF SignIns!Leads
<1>2. DOMAIN f \cup DOMAIN d = Names BY <1>1 DEF LeadFields
<1>3. u = [x \in Names |-> IF x \in DOMAIN f THEN f[x] ELSE d[x]]
  BY <1>2 DEF SignIns!Updated
<1>4. /\ u["restaurant"] \in Restaurants \cup {None}
      /\ u["role"] \in {"lead", "admin", "staff"}
      /\ u["abilities"] \in {"none", "some", "all"}
      /\ u["verified"] \in BOOLEAN
      /\ u["provider"] \in {"email", "google", "apple"}
      /\ u["trial"] \in Trials
  BY <1>3 DEF LeadFields, SignIns!Leads, Trials
<1> HIDE DEF u
<1>5. u = [restaurant |-> u["restaurant"], role |-> u["role"],
           abilities |-> u["abilities"], verified |-> u["verified"],
           provider |-> u["provider"], trial |-> u["trial"]]
  BY <1>3
<1>6. u \in SignIns!Leads BY <1>4, <1>5 DEF SignIns!Leads, Trials
<1>7. QED BY <1>3, <1>6 DEF u

LEMMA LeadFieldsAdded ==
  ASSUME NEW f, LeadFields(f), NEW g, LeadFields(g)
  PROVE  /\ LeadFields(SignIns!Updated(f, g))
         /\ DOMAIN SignIns!Updated(f, g) = DOMAIN f \cup DOMAIN g
<1> DEFINE u == SignIns!Updated(f, g)
           Names == DOMAIN f \cup DOMAIN g
<1>1. u = [x \in Names |-> IF x \in DOMAIN g THEN g[x] ELSE f[x]]
  BY DEF SignIns!Updated
<1> HIDE DEF u
<1>2. DOMAIN u = Names /\ u = [x \in DOMAIN u |-> u[x]] BY <1>1
<1>3. \A x \in Names : u[x] = IF x \in DOMAIN g THEN g[x] ELSE f[x] BY <1>1
<1>4. LeadFields(u) BY <1>2, <1>3 DEF LeadFields
<1>5. QED BY <1>2, <1>4 DEF u

LEMMA LeadUpdates ==
  ASSUME NEW given \in SignIns!Updates
  PROVE  /\ LeadFields(given)
         /\ "verified" \notin DOMAIN given /\ "trial" \notin DOMAIN given
<1> USE DEF LeadFields
<1>1. CASE \E x \in Restaurants : given = [restaurant |-> x] BY <1>1
<1>2. CASE \E x \in Restaurants : given = [restaurant |-> x, role |-> "staff"]
  BY <1>2
<1>3. CASE given = [role |-> "staff"] BY <1>3
<1>4. CASE given \in {[abilities |-> "some"], [abilities |-> "none"]} BY <1>4
<1>5. CASE given = [provider |-> "google"] BY <1>5
<1>6. QED BY <1>1, <1>2, <1>3, <1>4, <1>5 DEF SignIns!Updates

\* What an update writes besides what it was given comes with a restaurant: the
\* role of one who was a lead, and abilities.
LEMMA LeadUpdated ==
  ASSUME NEW given \in SignIns!Updates, NEW read \in SignIns!Leads
  PROVE  LET f == SignIns!UpdateFields(given, read)
         IN /\ LeadFields(f)
            /\ "verified" \notin DOMAIN f /\ "trial" \notin DOMAIN f
            /\ \A x \in {"restaurant", "provider"} :
                 x \in DOMAIN f => x \in DOMAIN given
            /\ "role" \in DOMAIN f =>
                 "role" \in DOMAIN given \/ read.role = "lead"
            /\ "abilities" \in DOMAIN f =>
                 "abilities" \in DOMAIN given \/ "restaurant" \in DOMAIN given
<1> DEFINE f == SignIns!UpdateFields(given, read)
           promotes == "role" \notin DOMAIN given /\ read.role = "lead"
           role == IF "role" \in DOMAIN given THEN given.role
                   ELSE IF promotes THEN "admin" ELSE read.role
           chosen == "abilities" \in DOMAIN given /\ given.abilities # "none"
           filling == [abilities |-> SignIns!ByRole(role)]
           named == [role |-> role]
           filled == IF chosen THEN given ELSE SignIns!Updated(given, filling)
<1>1. /\ LeadFields(given)
      /\ "verified" \notin DOMAIN given /\ "trial" \notin DOMAIN given
  BY LeadUpdates
<1>2. f = IF "restaurant" \notin DOMAIN given THEN given
          ELSE IF promotes THEN SignIns!Updated(filled, named) ELSE filled
  BY DEF SignIns!UpdateFields
<1>3. LeadFields(filling) /\ DOMAIN filling = {"abilities"}
  BY DEF SignIns!ByRole, LeadFields
<1>4. promotes => LeadFields(named) /\ DOMAIN named = {"role"}
  BY DEF LeadFields
<1> HIDE DEF filling
<1>5. /\ LeadFields(filled)
      /\ DOMAIN filled \subseteq DOMAIN given \cup {"abilities"}
  BY <1>1, <1>3, LeadFieldsAdded
<1> HIDE DEF filled, named, f
<1>6. CASE "restaurant" \notin DOMAIN given BY <1>1, <1>2, <1>6 DEF f
<1>7. CASE "restaurant" \in DOMAIN given /\ ~promotes
  BY <1>1, <1>2, <1>5, <1>7 DEF f
<1>8. CASE "restaurant" \in DOMAIN given /\ promotes
  <2> DEFINE both == SignIns!Updated(filled, named)
  <2>0. f = both BY <1>2, <1>8
  <2>3. LeadFields(both) /\ DOMAIN both = DOMAIN filled \cup DOMAIN named
    BY <1>4, <1>5, <1>8, LeadFieldsAdded
  <2> HIDE DEF both
  <2>1. /\ LeadFields(f)
        /\ DOMAIN f \subseteq DOMAIN given \cup {"abilities", "role"}
    BY <1>4, <1>5, <1>8, <2>0, <2>3
  <2>2. QED BY <1>1, <1>8, <2>1 DEF f
<1>9. QED BY <1>6, <1>7, <1>8

\* A customer or an administrator who signs in.
LEMMA PersonSet ==
  ASSUME NEW d \in SignIns!People, NEW f,
         f = [x \in DOMAIN f |-> f[x]],
         DOMAIN f \subseteq {"verified", "provider"},
         "verified" \in DOMAIN f => f["verified"] \in BOOLEAN,
         "provider" \in DOMAIN f => f["provider"] \in {"email", "google", "apple"}
  PROVE  SignIns!Updated(d, f) \in SignIns!People
<1> DEFINE u == SignIns!Updated(d, f)
           Names == {"restaurant", "super", "provider", "verified"}
<1>1. DOMAIN d = Names BY DEF SignIns!People
<1>2. DOMAIN f \cup DOMAIN d = Names BY <1>1
<1>3. u = [x \in Names |-> IF x \in DOMAIN f THEN f[x] ELSE d[x]]
  BY <1>2 DEF SignIns!Updated
<1>4. /\ u["restaurant"] \in Restaurants \cup {None}
      /\ u["super"] \in BOOLEAN
      /\ u["provider"] \in {"email", "google", "apple"}
      /\ u["verified"] \in BOOLEAN
  BY <1>3 DEF SignIns!People
<1> HIDE DEF u
<1>5. u = [restaurant |-> u["restaurant"], super |-> u["super"],
           provider |-> u["provider"], verified |-> u["verified"]]
  BY <1>3
<1>6. QED BY <1>4, <1>5 DEF SignIns!People, u

-----------------------------------------------------------------------------
(* Sign-ins: the steps                                                       *)

SignInsHold == SignInsTyped /\ SignIns!SignInsInv

LEMMA SignInsShape ==
  ASSUME SignInsTyped, PartsAssumption
  PROVE  /\ records \in RecordsType
         /\ used \subseteq Few /\ day \in 0..LastDay /\ LastDay \in Nat
         /\ signPlace = [r \in Few |-> signPlace[r]]
         /\ signJob = [r \in Few |-> signJob[r]]
         /\ \A e \in Mailboxes : SignIns!Lead(e) \in SignIns!Leads \cup {None}
<1>1. records \in RecordsType BY DEF SignInsTyped, SignIns!TypeOK, RecordsType
<1>2. \A e \in Mailboxes : SignIns!Lead(e) \in SignIns!Leads \cup {None}
  BY <1>1 DEF RecordsType, SignIns!Lead
<1>3. QED
  BY <1>1, <1>2 DEF SignInsTyped, SignIns!TypeOK, PartsAssumption

\* A request goes on without a change of the documents: it begins, holds what it
\* found, or moves to its next place.
LEMMA SignInGoesOn ==
  ASSUME PartsAssumption, SignInsHold, NEW r \in Few, NEW j, NEW to,
         UNCHANGED <<records, day>>, used' \subseteq Few,
         to \in {"exchange", "token", "user", "admin", "lead", "update", "create",
                 "write"},
         signPlace' = [signPlace EXCEPT ![r] = to],
         signJob' = [signJob EXCEPT ![r] = j],
         JobTyped(j),
         j.read # None => records[j.kind][j.email] # None,
         j.op \in {"trial", "update"} \/ to = "update" => j.read # None,
         j.op = "trial" => j.read.trial = None,
         (j.op = "onboard" /\ j.read # None) =>
           j.read.abilities = "none" /\ SignIns!ByRole(j.read.role) = "all"
  PROVE  SignInsHold'
<1>1. /\ signPlace = [q \in Few |-> signPlace[q]]
      /\ signJob = [q \in Few |-> signJob[q]]
  BY SignInsShape DEF SignInsHold
<1>2. /\ signPlace'[r] = to /\ signJob'[r] = j
      /\ \A q \in Few \ {r} :
           signPlace'[q] = signPlace[q] /\ signJob'[q] = signJob[q]
      /\ DOMAIN signJob' = Few /\ signJob' = [q \in Few |-> signJob'[q]]
  BY <1>1
<1>3. SignIns!TypeOK' BY DEF SignInsHold, SignInsTyped, SignIns!TypeOK
<1>4. SignIns!Running' = SignIns!Running \cup {r}
  BY <1>2 DEF SignIns!Running
<1>5. SignInsTyped'
  BY <1>2, <1>3, <1>4 DEF SignInsHold, SignInsTyped, SignIns!Running
<1>6. \A e \in Mailboxes : SignIns!Lead(e)' = SignIns!Lead(e)
  BY DEF SignIns!Lead
<1>7. SignIns!SignInsInv'
  BY <1>2, <1>4, <1>6 DEF SignInsHold, SignIns!SignInsInv, SignIns!Running
<1>8. QED BY <1>5, <1>7 DEF SignInsHold

\* A request ends, perhaps with a document made or written to.
LEMMA SignInEnds ==
  ASSUME PartsAssumption, SignInsHold, NEW r \in Few,
         SignIns!End(r), UNCHANGED <<used, day>>,
         \/ records' = records
         \/ \E kind \in SignIns!Kinds, e \in Mailboxes : \E d \in Docs(kind) :
              Puts(kind, e, d)
  PROVE  SignInsHold'
<1>1. /\ signPlace = [q \in Few |-> signPlace[q]]
      /\ signJob = [q \in Few |-> signJob[q]]
      /\ records \in RecordsType
  BY SignInsShape DEF SignInsHold
<1>2. /\ signPlace' = [signPlace EXCEPT ![r] = "done"]
      /\ signJob' = [signJob EXCEPT ![r] = None]
  BY DEF SignIns!End, SignIns!Goto
<1>3. /\ \A q \in Few \ {r} :
           signPlace'[q] = signPlace[q] /\ signJob'[q] = signJob[q]
      /\ DOMAIN signJob' = Few /\ signJob' = [q \in Few |-> signJob'[q]]
      /\ signPlace'[r] = "done"
  BY <1>1, <1>2
<1>4. \A kind \in SignIns!Kinds : None \notin Docs(kind)
  BY DEF PartsAssumption, Docs
<1>5. /\ records' \in RecordsType
      /\ \A k \in SignIns!Kinds, x \in Mailboxes :
           records[k][x] # None => records'[k][x] # None
  <2>1. CASE records' = records BY <1>1, <2>1
  <2>2. CASE records' # records
    <3>0. PICK kind \in SignIns!Kinds, e \in Mailboxes :
            \E d \in Docs(kind) : Puts(kind, e, d)
      BY <2>2
    <3>1. PICK d \in Docs(kind) : Puts(kind, e, d) BY <3>0
    <3>2. d # None BY <1>4
    <3>3. /\ records' \in RecordsType
          /\ \A k \in SignIns!Kinds, x \in Mailboxes :
               records'[k][x] = IF k = kind /\ x = e THEN d ELSE records[k][x]
      BY <1>1, <3>1, RecordSet
    <3>4. QED BY <3>2, <3>3
  <2>3. QED BY <2>1, <2>2
<1>6. SignIns!TypeOK'
  BY <1>1, <1>2, <1>5
     DEF SignInsHold, SignInsTyped, SignIns!TypeOK, RecordsType
<1>7. SignIns!Running' \subseteq SignIns!Running \ {r}
  BY <1>3 DEF SignIns!Running
<1>8. SignIns!Running \subseteq Few BY DEF SignIns!Running
<1>9. SignInsTyped'
  BY <1>3, <1>6, <1>7, <1>8 DEF SignInsHold, SignInsTyped
<1>11. ASSUME NEW q \in SignIns!Running'
       PROVE  /\ signJob'[q].read # None =>
                   records'[signJob'[q].kind][signJob'[q].email] # None
              /\ (signJob'[q].op \in {"trial", "update"} \/ signPlace'[q] = "update")
                   => signJob'[q].read # None
              /\ signJob'[q].op = "trial" => signJob'[q].read.trial = None
              /\ (signJob'[q].op = "onboard" /\ signJob'[q].read # None) =>
                   /\ signJob'[q].read.abilities = "none"
                   /\ SignIns!ByRole(signJob'[q].read.role) = "all"
  <2>1. /\ q \in SignIns!Running /\ q \in Few \ {r}
        /\ signJob'[q] = signJob[q] /\ signPlace'[q] = signPlace[q]
    BY <1>3, <1>7, <1>8
  <2>2. signJob[q].kind \in SignIns!Kinds /\ signJob[q].email \in Mailboxes
    BY <2>1 DEF SignInsHold, SignInsTyped, JobTyped
  <2>3. QED BY <1>5, <2>1, <2>2 DEF SignInsHold, SignIns!SignInsInv
<1>12. SignIns!SignInsInv'
  BY <1>11 DEF SignIns!SignInsInv
<1>13. QED BY <1>9, <1>12 DEF SignInsHold

LEMMA SignInBegins ==
  ASSUME PartsAssumption, SignInsHold,
         NEW r \in Few, NEW op \in {"callback", "onboard", "trial", "update"},
         NEW e \in Mailboxes, NEW given, NEW to \in {"exchange", "write"},
         SignIns!Start(r, op, e, given, to), UNCHANGED <<records, used, day>>,
         op = "callback" => /\ given.provider \in {"google", "apple"}
                            /\ given.code \in Few,
         op = "trial" => given \in [trial : Trials],
         op = "update" => given \in SignIns!Updates,
         op \in {"trial", "update"} => SignIns!Lead(e) # None,
         op = "trial" => SignIns!Lead(e).trial = None,
         (op = "onboard" /\ SignIns!Lead(e) # None) =>
           /\ SignIns!Lead(e).abilities = "none"
           /\ SignIns!ByRole(SignIns!Lead(e).role) = "all"
  PROVE  SignInsHold'
<1> DEFINE j == [op |-> op, email |-> e, given |-> given, kind |-> "lead",
                 read |-> SignIns!Lead(e)]
<1>1. /\ signPlace' = [signPlace EXCEPT ![r] = to]
      /\ signJob' = [signJob EXCEPT ![r] = j]
  BY DEF SignIns!Start
<1>2. /\ j.op = op /\ j.email = e /\ j.given = given /\ j.kind = "lead"
      /\ j.read = SignIns!Lead(e)
  OBVIOUS
<1>3. j = [op |-> j.op, email |-> j.email, given |-> j.given, kind |-> j.kind,
           read |-> j.read]
  OBVIOUS
<1> HIDE DEF j
<1>4. SignIns!Lead(e) \in Docs("lead") \cup {None} /\ used \subseteq Few
  BY SignInsShape DEF SignInsHold, Docs
<1>5. JobTyped(j) BY <1>2, <1>3, <1>4 DEF JobTyped, SignIns!Kinds
<1>6. j.read # None => records[j.kind][j.email] # None
  BY <1>2 DEF SignIns!Lead
<1>7. QED BY <1>1, <1>2, <1>4, <1>5, <1>6, SignInGoesOn

\* The documents of leads change by at most one, which keeps what it has but for
\* what a request that ends may replace.
LEMMA LeadKeeps ==
  ASSUME SignInsHold, NEW e \in Mailboxes, NEW d \in Docs("lead"),
         Puts("lead", e, d), None \notin SignIns!Leads,
         SignIns!Lead(e) # None =>
           LET old == SignIns!Lead(e)
           IN /\ old.verified => d.verified
              /\ \A x \in {"restaurant", "provider"} :
                   d[x] # old[x] => SignIns!Named(e, x)
              /\ \A x \in {"role", "trial"} :
                   (old[x] # SignIns!Blank[x] /\ d[x] # old[x])
                     => SignIns!Named(e, x) \/ SignIns!Stale(e, x)
              /\ (old.abilities # "none" /\ d.abilities # old.abilities)
                   => \/ \E x \in {"abilities", "restaurant"} : SignIns!Named(e, x)
                      \/ SignIns!Stale(e, "abilities")
  PROVE  SignIns!GivenStays
<1>1. records \in RecordsType
  BY DEF SignInsHold, SignInsTyped, SignIns!TypeOK, RecordsType
<1>2. \A x \in Mailboxes :
        SignIns!Lead(x)' = IF x = e THEN d ELSE SignIns!Lead(x)
  BY <1>1, RecordSet DEF SignIns!Lead, SignIns!Kinds
<1>3. d # None /\ d.verified \in BOOLEAN BY DEF Docs, SignIns!Leads
<1>4. SignIns!Lead(e) # None => SignIns!Lead(e).verified \in BOOLEAN
  <2>1. SignIns!Lead(e) \in Docs("lead") \cup {None}
    BY <1>1, RecordTyped DEF SignIns!Lead, SignIns!Kinds
  <2>2. QED BY <2>1 DEF Docs, SignIns!Leads
<1>5. SignIns!Blank["verified"] = FALSE /\ SignIns!Blank["abilities"] = "none"
  BY DEF SignIns!Blank
<1>6. ASSUME NEW x \in Mailboxes, SignIns!Lead(x) # None
      PROVE  /\ SignIns!Lead(x)' # None
             /\ ~SignIns!Replaced(x, "verified")
             /\ \A f \in {"restaurant", "provider"} :
                  SignIns!Replaced(x, f) => SignIns!Named(x, f)
             /\ \A f \in {"role", "trial"} :
                  SignIns!Replaced(x, f) => SignIns!Named(x, f) \/ SignIns!Stale(x, f)
             /\ SignIns!Replaced(x, "abilities") =>
                  \/ \E f \in {"abilities", "restaurant"} : SignIns!Named(x, f)
                  \/ SignIns!Stale(x, "abilities")
  <2>1. CASE x # e
    <3>1. SignIns!Lead(x)' = SignIns!Lead(x) BY <1>2, <2>1
    <3>2. \A f : ~SignIns!Replaced(x, f) BY <3>1 DEF SignIns!Replaced
    <3>3. QED BY <1>6, <3>1, <3>2
  <2>2. CASE x = e
    <3>1. SignIns!Lead(e)' = d BY <1>2
    <3>2. \A f : SignIns!Replaced(e, f) =>
                  SignIns!Lead(e)[f] # SignIns!Blank[f] /\ d[f] # SignIns!Lead(e)[f]
      BY <3>1 DEF SignIns!Replaced
    <3>3. ~SignIns!Replaced(e, "verified") BY <1>3, <1>4, <1>5, <1>6, <2>2, <3>2
    <3>4. QED BY <1>3, <1>5, <1>6, <2>2, <3>1, <3>2, <3>3
  <2>3. QED BY <2>1, <2>2
<1>7. QED BY <1>6 DEF SignIns!GivenStays

LEMMA LeadsAlone ==
  ASSUME \A e \in Mailboxes : SignIns!Lead(e)' = SignIns!Lead(e)
  PROVE  SignIns!GivenStays
<1>1. \A e \in Mailboxes : \A f : ~SignIns!Replaced(e, f) BY DEF SignIns!Replaced
<1>2. QED BY <1>1 DEF SignIns!GivenStays

\* A request of a lead writes some fields to it and ends.
LEMMA LeadWritten ==
  ASSUME PartsAssumption, SignInsHold, NEW r \in SignIns!Running,
         NEW e, e = signJob[r].email, NEW f, LeadFields(f),
         signJob[r].kind = "lead", signJob[r].read # None,
         SignIns!Write("lead", e, f), SignIns!End(r), UNCHANGED <<used, day>>,
         NEW named,
         named = IF signJob[r].op = "update" THEN DOMAIN signJob[r].given ELSE {},
         "verified" \in DOMAIN f => f["verified"],
         \A x \in {"restaurant", "provider"} : x \in DOMAIN f => x \in named,
         "role" \in DOMAIN f => "role" \in named \/ signJob[r].read.role = "lead",
         "trial" \in DOMAIN f => signJob[r].read.trial = None,
         "abilities" \in DOMAIN f => \/ "abilities" \in named \/ "restaurant" \in named
                                    \/ signJob[r].read.abilities = "none"
  PROVE  SignInsHold' /\ SignIns!GivenStays
<1> DEFINE old == SignIns!Lead(e)
           d == SignIns!Updated(old, f)
           read == signJob[r].read
<1>1. r \in Few /\ JobTyped(signJob[r])
  BY DEF SignIns!Running, SignInsHold, SignInsTyped
<1>2. e \in Mailboxes BY <1>1 DEF JobTyped
<1>3. old # None
  BY <1>1 DEF SignInsHold, SignIns!SignInsInv, SignIns!Lead
<1>4. old \in SignIns!Leads BY <1>2, <1>3, SignInsShape DEF SignInsHold
<1> DEFINE Names == {"restaurant", "role", "abilities", "verified", "provider",
                     "trial"}
<1>5. /\ d \in SignIns!Leads
      /\ \A x \in Names : d[x] = IF x \in DOMAIN f THEN f[x] ELSE old[x]
  BY <1>4, LeadSet
<1>6. Puts("lead", e, d) BY DEF SignIns!Write, Puts, SignIns!Lead
<1>7. r \in SignIns!Ending(e)
  <2>1. signPlace' = [signPlace EXCEPT ![r] = "done"]
    BY DEF SignIns!End, SignIns!Goto
  <2>2. signPlace = [q \in Few |-> signPlace[q]] BY SignInsShape DEF SignInsHold
  <2>3. signPlace'[r] = "done" BY <1>1, <2>1, <2>2
  <2>4. QED BY <2>3 DEF SignIns!Ending
<1>8. \A x : x \in named => SignIns!Named(e, x)
  BY <1>7 DEF SignIns!Named
<1>9. \A x : read[x] # old[x] => SignIns!Stale(e, x)
  BY <1>7 DEF SignIns!Stale
<1>10. SignInsHold'
  BY <1>1, <1>2, <1>5, <1>6, SignInEnds DEF Docs, SignIns!Kinds, SignIns!Running
<1>11. /\ old["role"] = old.role /\ old["trial"] = old.trial
       /\ SignIns!Blank["role"] = "lead" /\ SignIns!Blank["trial"] = None
  BY DEF SignIns!Blank
<1> HIDE DEF d, old, read
<1>12. \A x \in Names : d[x] # old[x] => x \in DOMAIN f BY <1>5
<1>13. old.verified => d.verified
  BY <1>5
<1>14. \A x \in {"restaurant", "provider"} : d[x] # old[x] => SignIns!Named(e, x)
  BY <1>8, <1>12
<1>15. ASSUME NEW x \in {"role", "trial"},
              old[x] # SignIns!Blank[x], d[x] # old[x]
       PROVE  SignIns!Named(e, x) \/ SignIns!Stale(e, x)
  <2>1. x \in DOMAIN f BY <1>12, <1>15
  <2>2. x \in named \/ read[x] = SignIns!Blank[x]
    BY <1>11, <1>15, <2>1 DEF read
  <2>3. QED BY <1>8, <1>9, <1>15, <2>2
<1>16. ASSUME old.abilities # "none", d.abilities # old.abilities
       PROVE  \/ \E x \in {"abilities", "restaurant"} : SignIns!Named(e, x)
              \/ SignIns!Stale(e, "abilities")
  <2>1. "abilities" \in DOMAIN f BY <1>12, <1>16
  <2>2. \/ "abilities" \in named \/ "restaurant" \in named
        \/ read["abilities"] = "none"
    BY <2>1 DEF read
  <2>3. QED BY <1>8, <1>9, <1>16, <2>2
<1>17. SignIns!GivenStays
  <2>1. None \notin SignIns!Leads BY DEF PartsAssumption
  <2>2. d \in Docs("lead") BY <1>5 DEF Docs
  <2> DEFINE Kept(o, n) ==
        /\ o.verified => n.verified
        /\ \A x \in {"restaurant", "provider"} : n[x] # o[x] => SignIns!Named(e, x)
        /\ \A x \in {"role", "trial"} :
             (o[x] # SignIns!Blank[x] /\ n[x] # o[x])
               => SignIns!Named(e, x) \/ SignIns!Stale(e, x)
        /\ (o.abilities # "none" /\ n.abilities # o.abilities)
             => \/ \E x \in {"abilities", "restaurant"} : SignIns!Named(e, x)
                \/ SignIns!Stale(e, "abilities")
  <2>3. Kept(old, d) BY <1>13, <1>14, <1>15, <1>16
  <2>4. Kept(SignIns!Lead(e), d) BY <2>3 DEF old
  <2>5. QED BY <1>2, <1>6, <2>1, <2>2, <2>4, LeadKeeps
<1>18. QED BY <1>10, <1>17

LEMMA SignInsStep ==
  ASSUME PartsAssumption, SignInsHold, SignIns!Next
  PROVE  SignInsHold' /\ SignIns!GivenStays
<1>1. /\ signPlace = [q \in Few |-> signPlace[q]]
      /\ signJob = [q \in Few |-> signJob[q]]
      /\ used \subseteq Few /\ day \in 0..LastDay /\ LastDay \in Nat
      /\ records \in RecordsType
      /\ \A e \in Mailboxes : SignIns!Lead(e) \in SignIns!Leads \cup {None}
  BY SignInsShape DEF SignInsHold
<1>2. \A r \in Few : signPlace[r] \notin {"idle", "done"} =>
        r \in SignIns!Running /\ JobTyped(signJob[r])
  BY DEF SignInsHold, SignInsTyped, SignIns!Running
<1>3. records' = records => SignIns!GivenStays BY LeadsAlone DEF SignIns!Lead
<1>4. ASSUME NEW r \in Few, NEW e \in Mailboxes, NEW portal,
             NEW provider \in {"google", "apple"}, NEW code \in Few,
             SignIns!Callback(r, e, portal, provider, code)
      PROVE  SignInsHold' /\ SignIns!GivenStays
  <2> DEFINE given == [portal |-> portal, provider |-> provider, code |-> code]
  <2>1. given.provider = provider /\ given.code = code OBVIOUS
  <2> HIDE DEF given
  <2>2. /\ SignIns!Start(r, "callback", e, given, "exchange")
        /\ UNCHANGED <<records, used, day>>
    BY <1>4 DEF SignIns!Callback, given
  <2>3. QED BY <1>3, <2>1, <2>2, SignInBegins
<1>5. ASSUME NEW r \in Few, NEW e \in Mailboxes, NEW named,
             SignIns!Onboard(r, e, named)
      PROVE  SignInsHold' /\ SignIns!GivenStays
  <2>1. /\ SignIns!Start(r, "onboard", e, [named |-> named], "write")
        /\ UNCHANGED <<records, used, day>>
    BY <1>5 DEF SignIns!Onboard
  <2>2. SignIns!Lead(e) # None => /\ SignIns!Lead(e).abilities = "none"
                                  /\ SignIns!ByRole(SignIns!Lead(e).role) = "all"
    BY <1>5 DEF SignIns!Onboard, SignIns!ByRole
  <2>3. QED BY <1>3, <2>1, <2>2, SignInBegins
<1>6. ASSUME NEW r \in Few, NEW e \in Mailboxes, SignIns!Activate(r, e)
      PROVE  SignInsHold' /\ SignIns!GivenStays
  <2>1. [trial |-> SignIns!Trial] \in [trial : Trials]
    BY <1>1 DEF SignIns!Trial, Trials
  <2>2. QED BY <1>3, <1>6, <2>1, SignInBegins DEF SignIns!Activate
<1>7. ASSUME NEW r \in Few, NEW e \in Mailboxes, NEW given \in SignIns!Updates,
             SignIns!Update(r, e, given)
      PROVE  SignInsHold' /\ SignIns!GivenStays
  BY <1>3, <1>7, SignInBegins DEF SignIns!Update
<1>8. ASSUME NEW r \in Few, SignIns!Exchange(r) \/ SignIns!TokenVerified(r)
      PROVE  SignInsHold' /\ SignIns!GivenStays
  <2>1. PICK to \in {"token", "user"} : signPlace' = [signPlace EXCEPT ![r] = to]
    BY <1>8 DEF SignIns!Exchange, SignIns!TokenVerified, SignIns!Goto
  <2>2. /\ UNCHANGED <<records, day, signJob>>
        /\ signJob[r].op = "callback"
        /\ signPlace[r] \in {"exchange", "token"}
    BY <1>8 DEF SignIns!Exchange, SignIns!TokenVerified, SignIns!Is
  <2>3. JobTyped(signJob[r]) /\ r \in SignIns!Running BY <1>2, <2>2
  <2>4. used' \subseteq Few
    BY <1>1, <1>8, <2>2, <2>3
       DEF SignIns!Exchange, SignIns!TokenVerified, JobTyped
  <2>5. signJob' = [signJob EXCEPT ![r] = signJob[r]] BY <1>1, <2>2
  <2>6. signJob[r].read # None =>
          records[signJob[r].kind][signJob[r].email] # None
    BY <2>3 DEF SignInsHold, SignIns!SignInsInv
  <2>7. SignInsHold'
    BY <2>1, <2>2, <2>3, <2>4, <2>5, <2>6, SignInGoesOn
  <2>8. QED BY <1>3, <2>2, <2>7
<1>9. ASSUME NEW r \in Few, NEW kind \in SignIns!Kinds, SignIns!Look(r, kind)
      PROVE  SignInsHold' /\ SignIns!GivenStays
  <2> DEFINE found == records[kind][signJob[r].email]
             old == signJob[r]
             j == [op |-> old.op, email |-> old.email, given |-> old.given,
                   kind |-> kind, read |-> found]
  <2>1. /\ SignIns!Is(r, "callback", kind)
        /\ signJob' = [signJob EXCEPT ![r].kind = kind, ![r].read = found]
        /\ UNCHANGED <<records, used, day>>
    BY <1>9 DEF SignIns!Look
  <2>2. PICK to \in {"user", "admin", "lead", "update", "create"} :
          /\ signPlace' = [signPlace EXCEPT ![r] = to]
          /\ to = "update" => found # None
    BY <1>9 DEF SignIns!Look, SignIns!Goto, SignIns!NextKind
  <2>3. signPlace[r] = kind /\ old.op = "callback" BY <2>1 DEF SignIns!Is
  <2>4. JobTyped(old) BY <1>2, <2>3 DEF SignIns!Kinds
  <2>5. signJob' = [signJob EXCEPT ![r] = j]
    <3> HIDE DEF found
    <3>1. signJob' = [signJob EXCEPT ![r] = [old EXCEPT !.kind = kind,
                                                        !.read = found]]
      BY <1>1, <2>1
    <3>2. old = [op |-> old.op, email |-> old.email, given |-> old.given,
                 kind |-> old.kind, read |-> old.read]
      BY <2>4 DEF JobTyped
    <3> HIDE DEF old
    <3>3. [old EXCEPT !.kind = kind, !.read = found] = j
      <4> DEFINE m == [old EXCEPT !.kind = kind, !.read = found]
                 Names == {"op", "email", "given", "kind", "read"}
      <4>1. DOMAIN old = Names BY <3>2
      <4>2. m = [x \in Names |-> IF x = "read" THEN found
                                 ELSE IF x = "kind" THEN kind ELSE old[x]]
        BY <4>1
      <4> HIDE DEF m
      <4>3. m = [op |-> m.op, email |-> m.email, given |-> m.given,
                 kind |-> m.kind, read |-> m.read]
        BY <4>2
      <4>4. /\ m.op = old.op /\ m.email = old.email /\ m.given = old.given
            /\ m.kind = kind /\ m.read = found
        BY <4>2
      <4>5. m = j BY <4>3, <4>4
      <4>6. QED BY <4>5 DEF m
    <3>4. QED BY <3>1, <3>3
  <2>6. found \in Docs(kind) \cup {None}
    BY <1>1, <2>4, RecordTyped DEF JobTyped
  <2>7. /\ j.op = "callback" /\ j.email = old.email /\ j.given = old.given
        /\ j.kind = kind /\ j.read = found
        /\ j = [op |-> j.op, email |-> j.email, given |-> j.given,
                kind |-> j.kind, read |-> j.read]
    BY <2>3
  <2> HIDE DEF j
  <2>8. JobTyped(j) BY <2>4, <2>3, <2>6, <2>7 DEF JobTyped
  <2>9. SignInsHold'
    BY <1>1, <2>1, <2>2, <2>5, <2>7, <2>8, SignInGoesOn
  <2>10. QED BY <1>3, <2>1, <2>9
<1>10. ASSUME NEW r \in Few, SignIns!UpdateSignedIn(r)
       PROVE  SignInsHold' /\ SignIns!GivenStays
  <2> DEFINE j == signJob[r]
             keeps == j.kind = "lead" /\ j.read.provider # None
             provider == j.given.provider
             f == IF keeps THEN [verified |-> TRUE]
                  ELSE [verified |-> TRUE, provider |-> provider]
  <2>1. /\ signPlace[r] = "update" /\ j.op = "callback"
        /\ SignIns!Write(j.kind, j.email, f)
        /\ SignIns!End(r) /\ UNCHANGED <<used, day>>
    BY <1>10 DEF SignIns!UpdateSignedIn, SignIns!Is
  <2>2. r \in SignIns!Running /\ JobTyped(j) BY <1>2, <2>1
  <2>3. j.read # None /\ records[j.kind][j.email] # None
    BY <2>1, <2>2 DEF SignInsHold, SignIns!SignInsInv
  <2>4. CASE j.kind = "lead"
    <3>1. j.read.provider \in {"email", "google", "apple"}
      BY <2>2, <2>3, <2>4 DEF JobTyped, Docs, SignIns!Leads
    <3>2. keeps BY <2>4, <3>1 DEF PartsAssumption
    <3> DEFINE g == [verified |-> TRUE]
    <3>3. f = g BY <3>2
    <3>4. DOMAIN g = {"verified"} /\ g["verified"] = TRUE /\ g = [x \in DOMAIN g |-> g[x]]
      OBVIOUS
    <3> HIDE DEF g
    <3>5. SignIns!Write("lead", j.email, g) BY <2>1, <2>4, <3>3
    <3>6. LeadFields(g) BY <3>4 DEF LeadFields
    <3>7. QED BY <2>1, <2>2, <2>3, <2>4, <3>4, <3>5, <3>6, LeadWritten
  <2>5. CASE j.kind # "lead"
    <3>1. f = [verified |-> TRUE, provider |-> provider] BY <2>5
    <3>2. /\ f = [x \in DOMAIN f |-> f[x]]
          /\ DOMAIN f = {"verified", "provider"}
          /\ f["verified"] = TRUE /\ f["provider"] = provider
      BY <3>1
    <3>3. provider \in {"google", "apple"} BY <2>1, <2>2 DEF JobTyped
    <3> DEFINE d == SignIns!Updated(records[j.kind][j.email], f)
    <3>4. j.kind \in SignIns!Kinds /\ j.email \in Mailboxes BY <2>2 DEF JobTyped
    <3>5. records[j.kind][j.email] \in SignIns!People
      BY <1>1, <2>3, <2>5, <3>4, RecordTyped DEF Docs
    <3>6. Puts(j.kind, j.email, d) BY <2>1 DEF SignIns!Write, Puts
    <3> HIDE DEF f
    <3>7. d \in Docs(j.kind) BY <2>5, <3>2, <3>3, <3>5, PersonSet DEF Docs
    <3> HIDE DEF d
    <3>8. SignInsHold'
      BY <2>1, <2>2, <2>5, <3>4, <3>6, <3>7, SignInEnds DEF SignIns!Running
    <3>9. \A e \in Mailboxes : SignIns!Lead(e)' = SignIns!Lead(e)
      <4>1. \A k \in SignIns!Kinds, x \in Mailboxes :
              records'[k][x] = IF k = j.kind /\ x = j.email THEN d
                               ELSE records[k][x]
        BY <1>1, <3>4, <3>6, <3>7, RecordSet
      <4>2. QED BY <2>5, <4>1 DEF SignIns!Lead, SignIns!Kinds
    <3>10. QED BY <3>8, <3>9, LeadsAlone
  <2>6. QED BY <2>4, <2>5

<1>11. ASSUME NEW r \in Few, NEW d \in SignIns!Leads, NEW e,
              e = signJob[r].email, JobTyped(signJob[r]),
              SignIns!Lead(e) = None,
              records' = [records EXCEPT !["lead"][e] = d],
              SignIns!End(r), UNCHANGED <<used, day>>
       PROVE  SignInsHold' /\ SignIns!GivenStays
  <2>1. e \in Mailboxes BY <1>11 DEF JobTyped
  <2>2. Puts("lead", e, d) /\ d \in Docs("lead") /\ "lead" \in SignIns!Kinds
    BY <1>11 DEF Puts, Docs, SignIns!Kinds
  <2>4. SignInsHold' BY <1>11, <2>1, <2>2, SignInEnds
  <2>5. SignIns!GivenStays
    BY <1>11, <2>1, <2>2, LeadKeeps DEF PartsAssumption
  <2>6. QED BY <2>4, <2>5
<1>12. ASSUME NEW r \in Few, SignIns!CreateSignedIn(r)
       PROVE  SignInsHold' /\ SignIns!GivenStays
  <2> DEFINE e == signJob[r].email
             d == [SignIns!SignedUp(None) EXCEPT
                     !.abilities = "all", !.verified = TRUE,
                     !.provider = signJob[r].given.provider]
  <2>1. /\ signPlace[r] = "create" /\ signJob[r].op = "callback"
        /\ SignIns!Lead(e) = None
        /\ records' = [records EXCEPT !["lead"][e] = d]
        /\ SignIns!End(r) /\ UNCHANGED <<used, day>>
    BY <1>12 DEF SignIns!CreateSignedIn, SignIns!Is
  <2>2. JobTyped(signJob[r]) BY <1>2, <2>1
  <2>3. signJob[r].given.provider \in {"google", "apple"}
    BY <2>1, <2>2 DEF JobTyped
  <2>4. d \in SignIns!Leads
    BY <2>3 DEF SignIns!SignedUp, SignIns!Leads
  <2> HIDE DEF d
  <2>5. QED BY <1>11, <2>1, <2>2, <2>4
<1>13. ASSUME NEW r \in Few, SignIns!OnboardWrite(r)
       PROVE  SignInsHold' /\ SignIns!GivenStays
  <2> DEFINE e == signJob[r].email
             d == [SignIns!SignedUp(None) EXCEPT !.abilities =
                     IF signJob[r].given.named THEN "all" ELSE "none"]
             f == [abilities |-> "all"]
  <2>1. /\ signPlace[r] = "write" /\ signJob[r].op = "onboard"
        /\ SignIns!End(r) /\ UNCHANGED <<used, day>>
    BY <1>13 DEF SignIns!OnboardWrite, SignIns!Is
  <2>2. JobTyped(signJob[r]) /\ r \in SignIns!Running BY <1>2, <2>1
  <2>3. signJob[r].kind = "lead" BY <2>1, <2>2 DEF JobTyped
  <2>4. DOMAIN f = {"abilities"} /\ f["abilities"] = "all" /\ f = [x \in DOMAIN f |-> f[x]]
    OBVIOUS
  <2>5. d \in SignIns!Leads
    BY DEF SignIns!SignedUp, SignIns!Leads
  <2>11. signJob[r].read # None => /\ signJob[r].read.abilities = "none"
                                  /\ SignIns!ByRole(signJob[r].read.role) = "all"
    BY <2>1, <2>2 DEF SignInsHold, SignIns!SignInsInv
  <2>6. IF signJob[r].read # None THEN SignIns!Write("lead", e, f)
        ELSE /\ SignIns!Lead(e) = None
             /\ records' = [records EXCEPT !["lead"][e] = d]
    BY <1>13, <2>11 DEF SignIns!OnboardWrite
  <2> HIDE DEF d, f
  <2>7. LeadFields(f) BY <2>4 DEF LeadFields
  <2>8. CASE signJob[r].read # None
    BY <2>1, <2>2, <2>3, <2>4, <2>6, <2>7, <2>8, <2>11, LeadWritten
  <2>9. CASE signJob[r].read = None
    BY <1>11, <2>1, <2>2, <2>5, <2>6, <2>9
  <2>10. QED BY <2>8, <2>9
<1>14. ASSUME NEW r \in Few, SignIns!ActivateWrite(r)
       PROVE  SignInsHold' /\ SignIns!GivenStays
  <2> DEFINE f == signJob[r].given
             e == signJob[r].email
  <2>1. /\ signPlace[r] = "write" /\ signJob[r].op = "trial"
        /\ SignIns!Write("lead", e, f)
        /\ SignIns!End(r) /\ UNCHANGED <<used, day>>
    BY <1>14 DEF SignIns!ActivateWrite, SignIns!Is
  <2>2. JobTyped(signJob[r]) /\ r \in SignIns!Running BY <1>2, <2>1
  <2>3. signJob[r].kind = "lead" /\ f \in [trial : Trials]
    BY <2>1, <2>2 DEF JobTyped
  <2>4. signJob[r].read # None /\ signJob[r].read.trial = None
    BY <2>1, <2>2 DEF SignInsHold, SignIns!SignInsInv
  <2>5. DOMAIN f = {"trial"} /\ f["trial"] \in Trials /\ f = [x \in DOMAIN f |-> f[x]]
    BY <2>3
  <2> HIDE DEF f
  <2>6. LeadFields(f) BY <2>5 DEF LeadFields
  <2>7. QED BY <2>1, <2>2, <2>3, <2>4, <2>5, <2>6, LeadWritten
<1>15. ASSUME NEW r \in Few, SignIns!UpdateWrite(r)
       PROVE  SignInsHold' /\ SignIns!GivenStays
  <2> DEFINE given == signJob[r].given
             read == signJob[r].read
             f == SignIns!UpdateFields(given, read)
             e == signJob[r].email
  <2>1. /\ signPlace[r] = "write" /\ signJob[r].op = "update"
        /\ SignIns!Write("lead", e, f)
        /\ SignIns!End(r) /\ UNCHANGED <<used, day>>
    BY <1>15 DEF SignIns!UpdateWrite, SignIns!Is
  <2>2. JobTyped(signJob[r]) /\ r \in SignIns!Running BY <1>2, <2>1
  <2>3. signJob[r].kind = "lead" /\ given \in SignIns!Updates
    BY <2>1, <2>2 DEF JobTyped
  <2>4. read # None BY <2>1, <2>2 DEF SignInsHold, SignIns!SignInsInv
  <2>5. read \in SignIns!Leads BY <2>2, <2>3, <2>4 DEF JobTyped, Docs
  <2>6. /\ LeadFields(f)
        /\ "verified" \notin DOMAIN f /\ "trial" \notin DOMAIN f
        /\ \A x \in {"restaurant", "provider"} : x \in DOMAIN f => x \in DOMAIN given
        /\ "role" \in DOMAIN f => "role" \in DOMAIN given \/ read.role = "lead"
        /\ "abilities" \in DOMAIN f =>
             "abilities" \in DOMAIN given \/ "restaurant" \in DOMAIN given
    BY <2>3, <2>5, LeadUpdated
  <2> HIDE DEF f
  <2>7. QED BY <2>1, <2>2, <2>3, <2>4, <2>6, LeadWritten
<1>16. ASSUME NEW r \in Few, SignIns!Fail(r)
       PROVE  SignInsHold' /\ SignIns!GivenStays
  <2>1. SignIns!End(r) /\ UNCHANGED <<records, used, day>>
    BY <1>16 DEF SignIns!Fail
  <2>2. QED BY <1>3, <2>1, SignInEnds
<1>17. CASE SignIns!Midnight
  <2>1. /\ day < LastDay /\ day' = day + 1
        /\ UNCHANGED <<records, used, signPlace, signJob>>
    BY <1>17 DEF SignIns!Midnight
  <2>2. day' \in 0..LastDay /\ \A n \in Int : n <= day => n <= day'
    BY <1>1, <2>1
  <2>3. /\ SignIns!Running' = SignIns!Running
        /\ \A e \in Mailboxes : SignIns!Lead(e)' = SignIns!Lead(e)
    BY <2>1 DEF SignIns!Running, SignIns!Lead
  <2>4. SignInsTyped'
    BY <2>1, <2>2, <2>3 DEF SignInsHold, SignInsTyped, SignIns!TypeOK
  <2>5. SignIns!SignInsInv'
    BY <2>1, <2>2, <2>3 DEF SignInsHold, SignIns!SignInsInv
  <2>6. QED BY <1>3, <2>1, <2>4, <2>5 DEF SignInsHold
<1>18. QED
  BY <1>4, <1>5, <1>6, <1>7, <1>8, <1>9, <1>10, <1>12, <1>13, <1>14, <1>15,
     <1>16, <1>17
     DEF SignIns!Next

LEMMA SignInsBegin == ASSUME PartsAssumption PROVE SignIns!Init => SignInsHold
<1> SUFFICES ASSUME SignIns!Init PROVE SignInsHold OBVIOUS
<1>1. SignIns!Init OBVIOUS
<1>2. /\ \A x \in Restaurants : /\ SignIns!Person(x, FALSE) \in SignIns!People
                                /\ SignIns!SignedUp(x) \in SignIns!Leads
      /\ SignIns!Person(None, TRUE) \in SignIns!People
      /\ SignIns!SignedUp(None) \in SignIns!Leads
  BY DEF SignIns!Person, SignIns!SignedUp, SignIns!People, SignIns!Leads
<1>4. /\ used = {} /\ day = 0
      /\ signPlace = [r \in Few |-> "idle"]
      /\ signJob = [r \in Few |-> None]
  BY <1>1 DEF SignIns!Init
<1>5. records \in
        [user : [Mailboxes -> {None} \cup SignIns!People],
         admin : [Mailboxes -> {None} \cup SignIns!People],
         lead : [Mailboxes ->
                   {None} \cup {SignIns!SignedUp(x) : x \in Restaurants \cup {None}}]]
  <2> DEFINE U == {None} \cup {SignIns!Person(x, FALSE) : x \in Restaurants}
             A == {None} \cup {SignIns!Person(x, FALSE) : x \in Restaurants}
                         \cup {SignIns!Person(None, TRUE)}
             P == {None} \cup SignIns!People
             L == {None} \cup {SignIns!SignedUp(x) : x \in Restaurants \cup {None}}
  <2>1. records \in [user : [Mailboxes -> U], admin : [Mailboxes -> A],
                     lead : [Mailboxes -> L]]
    BY <1>1 DEF SignIns!Init
  <2>2. U \subseteq P /\ A \subseteq P BY <1>2
  <2> HIDE DEF U, A, P, L
  <2>3. records \in [user : [Mailboxes -> P], admin : [Mailboxes -> P],
                     lead : [Mailboxes -> L]]
    BY <2>1, <2>2
  <2>4. QED BY <2>3 DEF P, L
<1>7. records \in RecordsType
  <2> DEFINE P == {None} \cup SignIns!People
             L == {None} \cup {SignIns!SignedUp(x) : x \in Restaurants \cup {None}}
             M == {None} \cup SignIns!Leads
  <2>1. L \subseteq M BY <1>2
  <2>2. records \in [user : [Mailboxes -> P], admin : [Mailboxes -> P],
                     lead : [Mailboxes -> L]]
    BY <1>5
  <2> HIDE DEF P, L, M
  <2>3. records \in [user : [Mailboxes -> P], admin : [Mailboxes -> P],
                     lead : [Mailboxes -> M]]
    BY <2>1, <2>2
  <2>4. QED BY <2>3 DEF P, M, RecordsType
<1>8. SignIns!TypeOK
  BY <1>4, <1>7 DEF SignIns!TypeOK, RecordsType, PartsAssumption
<1>9. SignIns!Running = {} BY <1>4 DEF SignIns!Running
<1>10. SignInsTyped BY <1>4, <1>8, <1>9 DEF SignInsTyped
<1>11. SignIns!SignInsInv BY <1>9 DEF SignIns!SignInsInv
<1>12. QED BY <1>10, <1>11 DEF SignInsHold

LEMMA SignInsKeep ==
  ASSUME PartsAssumption, SignInsHold, [SignIns!Next]_signIns
  PROVE  SignInsHold' /\ SignIns!GivenStays
<1>1. CASE UNCHANGED signIns
  <2>1. /\ records' = records /\ used' = used /\ day' = day
        /\ signPlace' = signPlace /\ signJob' = signJob
    BY <1>1 DEF signIns
  <2>2. /\ SignIns!Running' = SignIns!Running
        /\ \A e \in Mailboxes : SignIns!Lead(e)' = SignIns!Lead(e)
    BY <2>1 DEF SignIns!Running, SignIns!Lead
  <2>3. SignInsTyped'
    BY <2>1, <2>2 DEF SignInsHold, SignInsTyped, SignIns!TypeOK
  <2>4. SignIns!SignInsInv' BY <2>1, <2>2 DEF SignInsHold, SignIns!SignInsInv
  <2>5. QED BY <2>2, <2>3, <2>4, LeadsAlone DEF SignInsHold
<1>2. CASE SignIns!Next BY <1>2, SignInsStep
<1>3. QED BY <1>1, <1>2

\* However sign-ins, onboardings, trials and updates of a lead overlap, what one
\* gave another takes back only if told so or when it had read the lead before, in
\* any behaviour of SignOn.
THEOREM LeadsKeepGifts == SignIns!Spec => [][SignIns!GivenStays]_signIns
<1>1. SignIns!Init => SignInsHold BY SignInsBegin, PartsAssumption
<1>2. SignInsHold /\ [SignIns!Next]_signIns => SignInsHold' /\ SignIns!GivenStays
  BY SignInsKeep, PartsAssumption
<1>3. SignInsHold /\ [SignIns!Next]_signIns => [SignIns!GivenStays]_signIns
  BY <1>2
<1>4. QED BY <1>1, <1>2, <1>3, PTL DEF SignIns!Spec, SignIns!vars, signIns

\* Whatever documents there are at first and however sign-ins, onboardings,
\* trials and updates of a lead overlap, what one gave another takes back only if
\* told so or when it had read the lead before; nor, one request at a time, does any
\* log-in or change of an administrator replace the abilities that were given.
THEOREM GiftsStay == MCSpec => NothingTakenBack
<1> DEFINE I == AdminsHold /\ SignInsHold
           Given == SignIns!GivenStays /\ (calm => Admins!GivenStays)
<1>1. MCInit => I BY AdminsBegin, SignInsBegin, PartsAssumption DEF MCInit
<1>2. I /\ [MCNext]_<<vars, part, calm, customers, admins, signIns>>
        => I' /\ Given
  <2> SUFFICES ASSUME I, [MCNext]_<<vars, part, calm, customers, admins, signIns>>
               PROVE  I' /\ Given
    OBVIOUS
  <2>1. SignInsHold' /\ SignIns!GivenStays
    BY StepOfParts, SignInsKeep, PartsAssumption
  <2>2. AdminsHold' /\ (calm => Admins!GivenStays \/ UNCHANGED admins)
    BY AdminsKeep, PartsAssumption
  <2>3. UNCHANGED admins => Admins!GivenStays
    BY DEF admins, Admins!GivenStays
  <2>4. QED BY <2>1, <2>2, <2>3
<1>3. I /\ [MCNext]_<<vars, part, calm, customers, admins, signIns>>
        => [Given]_<<admins, signIns>>
  BY <1>2
<1> HIDE DEF I
<1>4. QED BY <1>1, <1>2, <1>3, PTL DEF MCSpec, NothingTakenBack

\* What the documents, the codes, the sessions and the requests of all parts are,
\* for any sets of them.
THEOREM PartsAreTyped == MCSpec => []PartsTypeOK
<1>1. CustomersHold /\ AdminsHold /\ SignInsHold /\ ShapeInv => PartsTypeOK
  BY DEF CustomersHold, CustomersTyped, AdminsHold, AdminsTyped, SignInsHold,
         SignInsTyped, ShapeInv, PartsTypeOK
<1>2. AdminsHold /\ [MCNext]_<<vars, part, calm, customers, admins, signIns>>
        => AdminsHold'
  BY AdminsKeep, PartsAssumption
<1>3. SignInsHold /\ [MCNext]_<<vars, part, calm, customers, admins, signIns>>
        => SignInsHold'
  BY StepOfParts, SignInsKeep, PartsAssumption
<1>4. MCInit => SignInsHold /\ AdminsHold
  BY SignInsBegin, AdminsBegin, PartsAssumption DEF MCInit
<1>5. QED
  BY <1>1, <1>2, <1>3, <1>4, CustomersAlways, CalmHolds, PTL
     DEF MCSpec

=============================================================================
