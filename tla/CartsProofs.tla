----------------------------- MODULE CartsProofs -----------------------------
(***************************************************************************)
(* Proofs about Carts and CartPricing, for every set of branches,          *)
(* addresses, requests and coupons, and about MCCarts, where requests may  *)
(* be known to come one at a time and where other parts have their turn;   *)
(* and about Trending, for every set of orders and all periods, about      *)
(* SalesStats, for every period and set of orders, and about Rewards, for  *)
(* any movements, restaurants and branches.                                *)
(***************************************************************************)
EXTENDS MCCarts, Sums

-----------------------------------------------------------------------------
(* Types *)

LEMMA ContentType == ASSUME NEW j \in Job PROVE Content(j) \in Doc
BY DEF Content, Job, Doc, Dto

LEMMA EndTypes ==
  ASSUME TypeOK, NEW r \in Requests, NEW from, NEW content \in Doc \cup {None},
         End(r, from, content)
  PROVE  /\ pc' \in [Requests -> {"idle", "clear", "price", "save", "done"}]
         /\ job' \in [Requests -> Job \cup {None}]
         /\ \A q \in Running' : job'[q] # None
         /\ latest' \in Doc \cup {None}
         /\ Running' = Running \ {r}
BY DEF TypeOK, End, Goto, Running

LEMMA ReadTypes ==
  ASSUME TypeOK, NEW r \in Requests, NEW dto \in Dto, AppendRead(r, dto)
  PROVE  /\ TypeOK'
         /\ Running' = Running \cup {r} /\ r \notin Running
         /\ \E found \in IF Docs = {} THEN {None} ELSE {cart[d] : d \in Docs} :
              job'[r] = [dto |-> dto, existing |-> found, fee |-> None]
<1>1. PICK found \in IF Docs = {} THEN {None} ELSE {cart[d] : d \in Docs} :
        LET j == [dto |-> dto, existing |-> found, fee |-> None]
        IN /\ job' = [job EXCEPT ![r] = j]
           /\ pc' = [pc EXCEPT ![r] =
                IF found # None /\ ~Fits(j) THEN "clear" ELSE "price"]
  BY DEF AppendRead
<1> DEFINE j == [dto |-> dto, existing |-> found, fee |-> None]
<1>2. found \in Doc \cup {None} BY DEF TypeOK, Docs
<1>3. j \in Job /\ j # None BY <1>2, NoneAssumption DEF Job
<1>4. pc[r] = "idle" /\ UNCHANGED <<cart, latest>> BY DEF AppendRead
<1>5. job' = [job EXCEPT ![r] = j] /\ job'[r] = j BY <1>1 DEF TypeOK
<1>6. pc' = [pc EXCEPT ![r] = "clear"] \/ pc' = [pc EXCEPT ![r] = "price"]
  BY <1>1
<1> HIDE DEF j
<1>7. Running' = Running \cup {r} /\ r \notin Running
  BY <1>4, <1>6 DEF TypeOK, Running
<1>8. TypeOK' BY <1>3, <1>4, <1>5, <1>6, <1>7 DEF TypeOK
<1>9. QED BY <1>5, <1>7, <1>8 DEF j

LEMMA ClearTypes ==
  ASSUME TypeOK, NEW r \in Requests, ClearCart(r)
  PROVE  TypeOK' /\ Running' = Running /\ r \in Running
<1>1. Running' = Running /\ r \in Running
  BY DEF TypeOK, ClearCart, Goto, Running
<1>2. cart' \in [Requests -> Doc \cup {None}] BY DEF TypeOK, ClearCart
<1>3. pc' \in [Requests -> {"idle", "clear", "price", "save", "done"}]
      /\ job' = job /\ latest' = latest
  BY DEF TypeOK, ClearCart, Goto
<1>4. QED BY <1>1, <1>2, <1>3 DEF TypeOK

\* The fee a handler draws up, and what it leaves alone.
LEMMA PriceTypes ==
  ASSUME TypeOK, NEW r \in Requests, Price(r)
  PROVE  /\ TypeOK' /\ Running' = Running /\ r \in Running
         /\ \E fee \in Quotes(job[r]) :
              job' = [job EXCEPT ![r].fee =
                        IF job[r].dto.delivery THEN WithGst(fee) ELSE None]
<1>1. PICK fee \in Quotes(job[r]) :
        job' = [job EXCEPT ![r].fee =
                  IF job[r].dto.delivery THEN WithGst(fee) ELSE None]
  BY DEF Price
<1>2. Running' = Running /\ r \in Running
  BY DEF TypeOK, Price, Goto, Running
<1>3. job[r] \in Job BY <1>2 DEF TypeOK
<1>4. job[r].dto.delivery
        => fee \in Fee \cup {None} /\ WithGst(fee) \in Fee \cup {None}
  <2> SUFFICES ASSUME job[r].dto.delivery
               PROVE  fee \in Fee \cup {None} /\ WithGst(fee) \in Fee \cup {None}
    OBVIOUS
  <2>1. ~Refused(job[r]) BY DEF Price
  <2>2. CASE Free(job[r]) BY <2>2 DEF Quotes, WithGst
  <2>3. CASE ~Free(job[r]) /\ SamePlace(job[r])
    <3>1. fee = job[r].existing.fee /\ job[r].existing \in Doc
      BY <1>3, <2>3 DEF Quotes, SamePlace, Job
    <3>2. fee \in Fee \cup {None} BY <3>1 DEF Doc
    <3>3. QED BY <3>2 DEF WithGst, Fee
  <2>4. CASE ~Free(job[r]) /\ ~SamePlace(job[r])
    <3>1. job[r].dto.place \in Places /\ job[r].dto.branch \in Branches
      BY <1>3, <2>1, <2>4 DEF Refused, Job, Dto
    <3>2. fee \in Fee \cup {None} BY <2>4, <3>1 DEF Quotes, Fee
    <3>3. QED BY <3>2 DEF WithGst, Fee
  <2>5. QED BY <2>2, <2>3, <2>4
<1>5. [job[r] EXCEPT !.fee =
         IF job[r].dto.delivery THEN WithGst(fee) ELSE None] \in Job
  BY <1>3, <1>4 DEF Job
<1>6. job' \in [Requests -> Job \cup {None}]
      /\ \A q \in Running : job'[q] # None
  <2>1. job' = [job EXCEPT ![r] =
                  [job[r] EXCEPT !.fee =
                     IF job[r].dto.delivery THEN WithGst(fee) ELSE None]]
    BY <1>1 DEF TypeOK
  <2>2. QED BY <2>1, <1>5, NoneAssumption DEF TypeOK
<1>7. /\ pc' \in [Requests -> {"idle", "clear", "price", "save", "done"}]
      /\ cart' = cart /\ latest' = latest
  BY DEF TypeOK, Price, Goto
<1>8. QED BY <1>1, <1>2, <1>6, <1>7 DEF TypeOK

LEMMA SaveTypes ==
  ASSUME TypeOK, NEW r \in Requests, SaveCart(r)
  PROVE  /\ TypeOK' /\ Running' = Running \ {r} /\ r \in Running
         /\ pc[r] = "save" /\ pc'[r] = "done"
         /\ \A q \in Requests \ {r} : pc'[q] = pc[q] /\ job'[q] = job[q]
<1>1. pc[r] = "save" /\ \E content : End(r, "save", content)
  BY DEF SaveCart, Create, Update, End, Goto
<1>2. r \in Running /\ job[r] \in Job BY <1>1 DEF Running, TypeOK
<1>3. Content(job[r]) \in Doc BY <1>2, ContentType
<1>4. \A d \in Docs : Merged(cart[d], Content(job[r])) \in Doc
  BY <1>3 DEF Merged, Doc, Docs, TypeOK
<1>5. PICK content \in Doc \cup {None} :
        /\ End(r, "save", content)
        /\ cart' \in [Requests -> Doc \cup {None}]
  <2>1. CASE Create(r) BY <2>1, <1>3 DEF Create, TypeOK
  <2>2. CASE Update(r)
    <3>1. CASE Docs = {} /\ End(r, "save", Content(job[r])) /\ UNCHANGED cart
      BY <1>3, <3>1 DEF TypeOK
    <3>2. CASE \E d \in Docs :
                 /\ cart' = [cart EXCEPT ![d] = Merged(cart[d], Content(job[r]))]
                 /\ End(r, "save", Merged(cart[d], Content(job[r])))
      <4>1. PICK d \in Docs :
              /\ cart' = [cart EXCEPT ![d] = Merged(cart[d], Content(job[r]))]
              /\ End(r, "save", Merged(cart[d], Content(job[r])))
        BY <3>2
      <4>2. Merged(cart[d], Content(job[r])) \in Doc BY <1>4
      <4>3. QED BY <4>1, <4>2 DEF TypeOK
    <3>3. QED BY <2>2, <3>1, <3>2 DEF Update
  <2>3. QED BY <2>1, <2>2 DEF SaveCart
<1>6. /\ pc' \in [Requests -> {"idle", "clear", "price", "save", "done"}]
      /\ job' \in [Requests -> Job \cup {None}]
      /\ \A q \in Running' : job'[q] # None
      /\ latest' \in Doc \cup {None}
      /\ Running' = Running \ {r}
  BY <1>5, EndTypes
<1>7. pc'[r] = "done" /\ \A q \in Requests \ {r} : pc'[q] = pc[q] /\ job'[q] = job[q]
  BY <1>5 DEF End, Goto, TypeOK
<1>8. QED BY <1>1, <1>2, <1>5, <1>6, <1>7 DEF TypeOK

LEMMA DropTypes ==
  ASSUME TypeOK, NEW r \in Requests,
         Refuse(r) \/ DeleteCart(r) \/ Abort(r)
  PROVE  /\ TypeOK' /\ Running' = Running \ {r}
         /\ \A q \in Running' : pc'[q] = pc[q] /\ job'[q] = job[q]
         /\ \A d \in Requests : cart'[d] = cart[d] \/ cart'[d] = None
<1>1. \E from : End(r, from, None)
  BY DEF Refuse, DeleteCart, Abort
<1>2. cart' \in [Requests -> Doc \cup {None}]
      /\ \A d \in Requests : cart'[d] = cart[d] \/ cart'[d] = None
  BY DEF TypeOK, Refuse, DeleteCart, Abort
<1>3. \A q \in Requests \ {r} : pc'[q] = pc[q] /\ job'[q] = job[q]
  BY <1>1 DEF End, Goto, TypeOK
<1>4. /\ pc' \in [Requests -> {"idle", "clear", "price", "save", "done"}]
      /\ job' \in [Requests -> Job \cup {None}]
      /\ \A q \in Running' : job'[q] # None
      /\ latest' \in Doc \cup {None}
      /\ Running' = Running \ {r}
  BY <1>1, EndTypes
<1>5. QED BY <1>2, <1>3, <1>4 DEF TypeOK, Running

LEMMA InitTypes == Init => TypeOK
BY DEF Init, TypeOK, Running

LEMMA StepTypes == TypeOK /\ [Next]_vars => TypeOK'
<1> SUFFICES ASSUME TypeOK, Next PROVE TypeOK'
  BY DEF vars, TypeOK, Running
<1>1. PICK r \in Requests :
        \/ \E dto \in Dto : AppendRead(r, dto)
        \/ ClearCart(r) \/ Price(r) \/ Refuse(r) \/ SaveCart(r)
        \/ DeleteCart(r) \/ Abort(r)
  BY DEF Next
<1>2. QED BY <1>1, ReadTypes, ClearTypes, PriceTypes, SaveTypes, DropTypes

\* The cart documents, the fees in them and what each handler carries from
\* one await of appendCart to the next are well typed.
THEOREM TypeCorrect == Spec => []TypeOK
<1>1. QED BY InitTypes, StepTypes, PTL DEF Spec

-----------------------------------------------------------------------------
(* How many carts there are *)

LEMMA Smaller ==
  ASSUME NEW S \in SUBSET Requests, NEW T \in SUBSET S,
         Cardinality(S) <= MaxInFlight
  PROVE  Cardinality(T) <= MaxInFlight
<1>1. IsFiniteSet(S) BY InstanceAssumption, FS_Subset
<1>2. IsFiniteSet(T) /\ Cardinality(T) <= Cardinality(S) BY <1>1, FS_Subset
<1>3. Cardinality(S) \in Nat /\ Cardinality(T) \in Nat
  BY <1>1, <1>2, FS_CardinalityType
<1>4. QED BY <1>2, <1>3, InstanceAssumption

\* Taking one element out makes room for another.
LEMMA Exchange ==
  ASSUME NEW S \in SUBSET Requests, NEW d \in S, NEW r \in Requests,
         Cardinality(S) <= MaxInFlight
  PROVE  Cardinality((S \ {d}) \cup {r}) <= MaxInFlight
<1>1. IsFiniteSet(S) BY InstanceAssumption, FS_Subset
<1>2. IsFiniteSet(S \ {d}) /\ Cardinality(S \ {d}) = Cardinality(S) - 1
  BY <1>1, FS_RemoveElement
<1>3. Cardinality(S) \in Nat BY <1>1, FS_CardinalityType
<1>4. Cardinality((S \ {d}) \cup {r}) =
        IF r \in S \ {d} THEN Cardinality(S \ {d}) ELSE Cardinality(S \ {d}) + 1
  BY <1>2, FS_AddElement, Zenon
<1>5. QED BY <1>2, <1>3, <1>4, InstanceAssumption

LEMMA OneMore ==
  ASSUME NEW S \in SUBSET Requests, NEW r \in Requests,
         Cardinality(S) < MaxInFlight
  PROVE  Cardinality(S \cup {r}) <= MaxInFlight
<1>1. IsFiniteSet(S) BY InstanceAssumption, FS_Subset
<1>2. Cardinality(S) \in Nat BY <1>1, FS_CardinalityType
<1>3. Cardinality(S \cup {r}) =
        IF r \in S THEN Cardinality(S) ELSE Cardinality(S) + 1
  BY <1>1, FS_AddElement, Zenon
<1>4. QED BY <1>2, <1>3, InstanceAssumption

LEMMA Claims ==
  Docs \cup Creating \in SUBSET Requests /\ Running \in SUBSET Requests
BY DEF Docs, Creating, Running

LEMMA InitInv == Init => IInv
<1> SUFFICES ASSUME Init PROVE IInv OBVIOUS
<1>1. Running = {} /\ Docs = {} /\ Creating = {}
  BY DEF Init, Running, Docs, Creating
<1>2. Cardinality({}) = 0 BY FS_EmptySet
<1>3. QED BY <1>1, <1>2, InstanceAssumption DEF IInv

LEMMA ReadInv ==
  ASSUME TypeOK, IInv, NEW r \in Requests, NEW dto \in Dto, AppendRead(r, dto)
  PROVE  IInv'
<1>1. PICK found \in IF Docs = {} THEN {None} ELSE {cart[d] : d \in Docs} :
        job'[r] = [dto |-> dto, existing |-> found, fee |-> None]
  BY ReadTypes
<1>2. Running' = Running \cup {r} /\ r \notin Running BY ReadTypes
<1>3. /\ \A q \in Requests \ {r} : pc'[q] = pc[q] /\ job'[q] = job[q]
      /\ cart' = cart /\ pc[r] = "idle"
      /\ Cardinality(Running) < MaxInFlight
  BY DEF AppendRead, TypeOK
<1>4. Docs' = Docs BY <1>3 DEF Docs
<1>5. Cardinality(Running') <= MaxInFlight
  BY <1>2, <1>3, OneMore DEF Running
<1>6. Cardinality(Docs' \cup Creating') <= MaxInFlight
  <2>1. CASE Docs = {}
    <3>1. Docs' \cup Creating' \subseteq Running' BY <2>1, <1>4 DEF Creating
    <3>2. Running' \in SUBSET Requests BY DEF Running
    <3>3. QED BY <3>1, <3>2, <1>5, Smaller
  <2>2. CASE Docs # {}
    <3>1. r \notin Creating'
      <4>1. PICK g \in IF Docs = {} THEN {None} ELSE {cart[d] : d \in Docs} :
              LET j == [dto |-> dto, existing |-> g, fee |-> None]
              IN /\ job' = [job EXCEPT ![r] = j]
                 /\ pc' = [pc EXCEPT ![r] =
                      IF g # None /\ ~Fits(j) THEN "clear" ELSE "price"]
        BY DEF AppendRead
      <4>2. g # None BY <2>2 DEF Docs
      <4>3. job'[r] = [dto |-> dto, existing |-> g, fee |-> None]
        BY <4>1 DEF TypeOK
      <4>4. pc'[r] = IF ~Fits(job'[r]) THEN "clear" ELSE "price"
        BY <4>1, <4>2, <4>3 DEF TypeOK
      <4>5. QED BY <4>4 DEF Creating
    <3>2. Creating' \subseteq Creating
      BY <3>1, <1>2, <1>3 DEF Creating, Running, Fits
    <3>3. Docs' \cup Creating' \subseteq Docs \cup Creating BY <3>2, <1>4
    <3>4. QED BY <3>3, Claims, Smaller DEF IInv
  <2>3. QED BY <2>1, <2>2
<1>7. \A d \in Docs' : pc'[d] = "done" BY <1>3, <1>4 DEF IInv, Docs
<1>8. QED BY <1>5, <1>6, <1>7 DEF IInv

LEMMA ClearInv ==
  ASSUME TypeOK, IInv, NEW r \in Requests, ClearCart(r)
  PROVE  IInv'
<1>1. Running' = Running /\ r \in Running /\ job' = job BY ClearTypes DEF ClearCart
<1>2. \A q \in Requests \ {r} : pc'[q] = pc[q]
  BY DEF ClearCart, Goto, TypeOK
<1>3. Creating' \subseteq Creating \cup {r} BY <1>1, <1>2 DEF Creating, Running, Fits
<1>4. Cardinality(Docs' \cup Creating') <= MaxInFlight
  <2>1. CASE Docs = {}
    <3>1. Docs' = {} BY <2>1 DEF ClearCart, Docs
    <3>2. Docs' \cup Creating' \subseteq Running' BY <3>1 DEF Creating
    <3>3. QED BY <3>2, <1>1, Claims, Smaller DEF IInv
  <2>2. CASE Docs # {}
    <3>1. PICK d \in Docs : cart' = [cart EXCEPT ![d] = None]
      BY <2>2 DEF ClearCart
    <3>2. Docs' = Docs \ {d} BY <3>1 DEF Docs, TypeOK
    <3>3. d \notin Creating BY DEF IInv, Creating
    <3>4. Docs' \cup Creating' \subseteq ((Docs \cup Creating) \ {d}) \cup {r}
      BY <3>2, <3>3, <1>3
    <3>5. /\ Docs \cup Creating \in SUBSET Requests
          /\ d \in Docs \cup Creating
          /\ Cardinality(Docs \cup Creating) <= MaxInFlight
      BY DEF Docs, Creating, Running, IInv
    <3>6. Cardinality(((Docs \cup Creating) \ {d}) \cup {r}) <= MaxInFlight
      BY <3>5, Exchange
    <3>7. ((Docs \cup Creating) \ {d}) \cup {r} \in SUBSET Requests BY <3>5
    <3>8. QED BY <3>4, <3>6, <3>7, Smaller
  <2>3. QED BY <2>1, <2>2
<1>5. \A d \in Docs' : pc'[d] = "done"
  BY <1>1, <1>2 DEF IInv, Docs, ClearCart, TypeOK, Running
<1>6. QED BY <1>1, <1>4, <1>5 DEF IInv

LEMMA PriceInv ==
  ASSUME TypeOK, IInv, NEW r \in Requests, Price(r)
  PROVE  IInv'
<1>1. Running' = Running /\ r \in Running BY PriceTypes
<1>2. PICK fee : job' = [job EXCEPT ![r].fee = fee]
  BY PriceTypes
<1>3. /\ \A q \in Requests \ {r} : pc'[q] = pc[q] /\ job'[q] = job[q]
      /\ cart' = cart /\ pc[r] = "price"
  BY <1>2 DEF Price, Goto, TypeOK
<1>4. job[r] \in Job BY <1>1 DEF TypeOK
<1>5. job'[r].existing = job[r].existing /\ job'[r].dto = job[r].dto
  BY <1>2, <1>4 DEF TypeOK, Job
<1>6. Fits(job'[r]) <=> Fits(job[r]) BY <1>5 DEF Fits
<1>7. Creating' \subseteq Creating BY <1>1, <1>3, <1>6 DEF Creating, Running, Fits
<1>8. Docs' = Docs BY <1>3 DEF Docs
<1>9. Docs' \cup Creating' \subseteq Docs \cup Creating BY <1>7, <1>8
<1>10. Cardinality(Docs' \cup Creating') <= MaxInFlight
  BY <1>9, Claims, Smaller DEF IInv
<1>11. \A d \in Docs' : pc'[d] = "done" BY <1>3, <1>8 DEF IInv, Docs
<1>12. QED BY <1>1, <1>10, <1>11 DEF IInv

LEMMA SaveInv ==
  ASSUME TypeOK, IInv, NEW r \in Requests, SaveCart(r)
  PROVE  IInv'
<1>1. Running' = Running \ {r} /\ r \in Running BY SaveTypes
<1>2. /\ \A q \in Requests \ {r} : pc'[q] = pc[q] /\ job'[q] = job[q]
      /\ pc[r] = "save" /\ pc'[r] = "done"
  BY SaveTypes
<1>3. Creating' \subseteq Creating BY <1>1, <1>2 DEF Creating, Running, Fits
<1>4. Docs' \subseteq Docs \cup (IF Fits(job[r]) THEN {} ELSE {r})
  BY DEF SaveCart, Create, Update, Docs, TypeOK
<1>5. ~Fits(job[r]) => r \in Creating BY <1>1, <1>2 DEF Creating
<1>6. Docs' \cup Creating' \subseteq Docs \cup Creating BY <1>3, <1>4, <1>5
<1>7. Cardinality(Docs' \cup Creating') <= MaxInFlight
  BY <1>6, Claims, Smaller DEF IInv
<1>8. Cardinality(Running') <= MaxInFlight
  BY <1>1, Claims, Smaller DEF IInv
<1>9. \A d \in Docs' : pc'[d] = "done"
  BY <1>2, <1>4 DEF IInv, Docs
<1>10. QED BY <1>7, <1>8, <1>9 DEF IInv

LEMMA DropInv ==
  ASSUME TypeOK, IInv, NEW r \in Requests,
         Refuse(r) \/ DeleteCart(r) \/ Abort(r)
  PROVE  IInv'
<1>1. /\ Running' = Running \ {r}
      /\ \A q \in Running' : pc'[q] = pc[q] /\ job'[q] = job[q]
      /\ \A d \in Requests : cart'[d] = cart[d] \/ cart'[d] = None
  BY DropTypes
<1>2. Creating' \subseteq Creating /\ Docs' \subseteq Docs
  BY <1>1 DEF Creating, Running, Fits, Docs
<1>3. Docs' \cup Creating' \subseteq Docs \cup Creating BY <1>2
<1>4. Cardinality(Docs' \cup Creating') <= MaxInFlight
  BY <1>3, Claims, Smaller DEF IInv
<1>5. Cardinality(Running') <= MaxInFlight
  BY <1>1, Claims, Smaller DEF IInv
<1>6. pc'[r] = "done" /\ \A q \in Requests \ {r} : pc'[q] = pc[q]
  BY DEF Refuse, DeleteCart, Abort, End, Goto, TypeOK
<1>7. \A d \in Docs' : pc'[d] = "done" BY <1>2, <1>6 DEF IInv, Docs
<1>8. QED BY <1>4, <1>5, <1>7 DEF IInv

\* The carts of a customer and the handlers about to create one are, together,
\* never more than the requests that may overlap.
THEOREM InductiveInvariant == Spec => []IInv
<1>1. TypeOK /\ IInv /\ [Next]_vars => IInv'
  <2> SUFFICES ASSUME TypeOK, IInv, [Next]_vars PROVE IInv' OBVIOUS
  <2>1. CASE Next
    <3>1. PICK r \in Requests :
            \/ \E dto \in Dto : AppendRead(r, dto)
            \/ ClearCart(r) \/ Price(r) \/ Refuse(r) \/ SaveCart(r)
            \/ DeleteCart(r) \/ Abort(r)
      BY <2>1 DEF Next
    <3>2. QED BY <3>1, ReadInv, ClearInv, PriceInv, SaveInv, DropInv
  <2>2. CASE UNCHANGED vars
    <3>1. Running' = Running /\ Docs' = Docs /\ Creating' = Creating
      BY <2>2 DEF vars, Running, Docs, Creating
    <3>2. QED BY <3>1, <2>2 DEF IInv, vars
  <2>3. QED BY <2>1, <2>2
<1>2. QED BY <1>1, InitInv, TypeCorrect, PTL DEF Spec

\* Without a unique key on userId, the carts of a customer are bounded by the
\* number of requests of theirs that overlap: one at a time, there is one.
THEOREM CartsAreBounded == Spec => []CartsWithinOverlap
<1>1. IInv => CartsWithinOverlap
  <2> SUFFICES ASSUME IInv PROVE CartsWithinOverlap OBVIOUS
  <2>1. Docs \cup Creating \in SUBSET Requests BY DEF Docs, Creating, Running
  <2>2. Cardinality(Docs) <= MaxInFlight BY <2>1, Smaller DEF IInv
  <2>3. QED BY <2>2 DEF CartsWithinOverlap
<1>2. QED BY <1>1, InductiveInvariant, PTL

-----------------------------------------------------------------------------
(* Fees *)

LEMMA ReadFee ==
  ASSUME TypeOK, FeeInv, NEW r \in Requests, NEW dto \in Dto,
         AppendRead(r, dto)
  PROVE  FeeInv'
<1>1. PICK found \in IF Docs = {} THEN {None} ELSE {cart[d] : d \in Docs} :
        job'[r] = [dto |-> dto, existing |-> found, fee |-> None]
  BY ReadTypes
<1>2. Running' = Running \cup {r} BY ReadTypes
<1>3. cart' = cart /\ \A q \in Requests \ {r} : job'[q] = job[q]
  BY DEF AppendRead, TypeOK
<1>4. found # None => FeeOf(found.fee, found.place)
  BY <1>1 DEF FeeInv, FeeForAddress
<1>5. FeeForAddress' BY <1>3 DEF FeeInv, FeeForAddress, Docs
<1>6. /\ FeeOf(job'[r].fee, job'[r].dto.place)
      /\ job'[r].existing # None
           => FeeOf(job'[r].existing.fee, job'[r].existing.place)
  BY <1>1, <1>4 DEF FeeOf
<1>7. QED BY <1>2, <1>3, <1>5, <1>6 DEF FeeInv, Running

\* The fee drawn up is that of the cart read, if the address is the same, or a
\* quote for the address of the request.
LEMMA PriceFee ==
  ASSUME TypeOK, FeeInv, NEW r \in Requests, Price(r)
  PROVE  FeeInv'
<1>1. Running' = Running /\ r \in Running BY PriceTypes
<1>2. PICK fee \in Quotes(job[r]) :
        job' = [job EXCEPT ![r].fee =
                  IF job[r].dto.delivery THEN WithGst(fee) ELSE None]
  BY PriceTypes
<1>3. job[r] \in Job BY <1>1 DEF TypeOK
<1>4. /\ job'[r].fee = IF job[r].dto.delivery THEN WithGst(fee) ELSE None
      /\ job'[r].dto = job[r].dto /\ job'[r].existing = job[r].existing
  BY <1>2, <1>3 DEF TypeOK, Job
<1>5. job[r].dto.delivery =>
        fee \in Fee \cup {None} /\ FeeOf(fee, job[r].dto.place)
  <2> SUFFICES ASSUME job[r].dto.delivery
               PROVE  fee \in Fee \cup {None} /\ FeeOf(fee, job[r].dto.place)
    OBVIOUS
  <2>1. CASE Free(job[r]) BY <2>1 DEF Quotes, FeeOf
  <2>2. CASE ~Free(job[r]) /\ SamePlace(job[r])
    <3>1. /\ fee = job[r].existing.fee /\ job[r].existing \in Doc
          /\ job[r].existing # None
          /\ job[r].existing.place = job[r].dto.place
      BY <1>3, <2>2 DEF Quotes, SamePlace, Job
    <3>2. FeeOf(fee, job[r].existing.place)
      BY <1>1, <3>1 DEF FeeInv
    <3>3. QED BY <3>1, <3>2 DEF Doc
  <2>3. CASE ~Free(job[r]) /\ ~SamePlace(job[r])
    <3>1. ~Refused(job[r]) BY DEF Price
    <3>2. job[r].dto.place \in Places /\ job[r].dto.branch \in Branches
      BY <1>3, <2>3, <3>1 DEF Refused, Job, Dto
    <3>3. fee = None \/ fee = [branch |-> job[r].dto.branch,
                               place |-> job[r].dto.place, gst |-> 0]
      BY <2>3 DEF Quotes
    <3>4. QED BY <3>2, <3>3 DEF Fee, FeeOf
  <2>4. QED BY <2>1, <2>2, <2>3
<1>6. FeeOf(job'[r].fee, job'[r].dto.place)
  BY <1>4, <1>5 DEF FeeOf, WithGst, Fee
<1>7. cart' = cart /\ \A q \in Requests \ {r} : job'[q] = job[q]
  BY <1>2 DEF Price, TypeOK
<1>8. FeeForAddress' BY <1>7 DEF FeeInv, FeeForAddress, Docs
<1>9. ASSUME NEW q \in Running'
      PROVE  /\ FeeOf(job'[q].fee, job'[q].dto.place)
             /\ job'[q].existing # None
                  => FeeOf(job'[q].existing.fee, job'[q].existing.place)
  <2>1. q \in Running /\ q \in Requests BY <1>1 DEF Running
  <2>2. CASE q = r BY <2>1, <2>2, <1>4, <1>6 DEF FeeInv
  <2>3. CASE q # r BY <2>1, <2>3, <1>7 DEF FeeInv
  <2>4. QED BY <2>2, <2>3
<1>10. QED BY <1>8, <1>9 DEF FeeInv

LEMMA SaveFee ==
  ASSUME TypeOK, FeeInv, NEW r \in Requests, SaveCart(r)
  PROVE  FeeInv'
<1>1. /\ Running' = Running \ {r} /\ r \in Running
      /\ \A q \in Requests \ {r} : job'[q] = job[q]
  BY SaveTypes
<1>2. job[r] \in Job /\ FeeOf(job[r].fee, job[r].dto.place)
  BY <1>1 DEF TypeOK, FeeInv
<1> DEFINE new == Content(job[r])
<1>3. new \in Doc /\ FeeOf(new.fee, new.place)
  BY <1>2, ContentType DEF Content
<1>4. new.fee # None => new.place # None
  BY <1>3, NoneAssumption DEF Doc, Fee, FeeOf
<1> HIDE DEF new
<1>5. \A d \in Docs : FeeOf(Merged(cart[d], new).fee,
                            Merged(cart[d], new).place)
  BY <1>3, <1>4 DEF Merged, FeeOf, Doc
<1>6. ASSUME NEW d \in Docs' PROVE FeeOf(cart'[d].fee, cart'[d].place)
  <2>1. CASE cart'[d] = cart[d]
    BY <2>1 DEF FeeInv, FeeForAddress, Docs
  <2>2. CASE cart'[d] = new BY <2>2, <1>3
  <2>3. CASE d \in Docs /\ cart'[d] = Merged(cart[d], new)
    BY <2>3, <1>5
  <2>4. \/ cart'[d] = cart[d] \/ cart'[d] = new
        \/ d \in Docs /\ cart'[d] = Merged(cart[d], new)
    BY DEF SaveCart, Create, Update, TypeOK, Docs, new
  <2>5. QED BY <2>1, <2>2, <2>3, <2>4
<1>7. FeeForAddress' BY <1>6 DEF FeeForAddress
<1>8. QED BY <1>1, <1>7 DEF FeeInv, Running

\* A delivery fee always belongs to the address of the cart it is in, although
\* appendCart takes it over from whichever cart it read, the cart may be another
\* by the time it is written, and an update may come without an address.
THEOREM FeesFitAddresses == Spec => []FeeForAddress
<1>1. Init => FeeInv BY DEF Init, FeeInv, FeeForAddress, Docs, Running
<1>2. TypeOK /\ FeeInv /\ [Next]_vars => FeeInv'
  <2> SUFFICES ASSUME TypeOK, FeeInv, [Next]_vars PROVE FeeInv' OBVIOUS
  <2>1. ASSUME NEW r \in Requests, ClearCart(r) PROVE FeeInv'
    <3>1. Running' = Running /\ job' = job
      BY <2>1, ClearTypes DEF ClearCart
    <3>2. \A d \in Requests : cart'[d] \in {cart[d], None}
      BY <2>1 DEF ClearCart, TypeOK
    <3>3. QED BY <3>1, <3>2 DEF FeeInv, FeeForAddress, Docs
  <2>2. ASSUME NEW r \in Requests, Refuse(r) \/ DeleteCart(r) \/ Abort(r)
        PROVE  FeeInv'
    <3>1. /\ Running' = Running \ {r}
          /\ \A q \in Running' : job'[q] = job[q]
          /\ \A d \in Requests : cart'[d] = cart[d] \/ cart'[d] = None
      BY <2>2, DropTypes
    <3>2. QED BY <3>1 DEF FeeInv, FeeForAddress, Docs
  <2>3. CASE UNCHANGED vars
    BY <2>3 DEF vars, FeeInv, FeeForAddress, Docs, Running
  <2>4. QED
    BY <2>1, <2>2, <2>3, ReadFee, PriceFee, SaveFee DEF Next
<1>3. FeeInv => FeeForAddress BY DEF FeeInv
<1>4. QED BY <1>1, <1>2, <1>3, TypeCorrect, PTL DEF Spec

-----------------------------------------------------------------------------
(* One request at a time *)

\* What a step does when the request it is about is the only one.
LEMMA AloneStep ==
  ASSUME TypeOK, Alone, NEW r \in Requests,
         Running = {} \/ Begun' = Begun,
         \/ \E dto \in Dto : AppendRead(r, dto)
         \/ ClearCart(r) \/ Price(r) \/ Refuse(r) \/ SaveCart(r)
         \/ DeleteCart(r) \/ Abort(r)
  PROVE  Alone'
<1>1. ASSUME NEW dto \in Dto, AppendRead(r, dto) PROVE Alone'
  <2>1. PICK found \in IF Docs = {} THEN {None} ELSE {cart[d] : d \in Docs} :
          LET j == [dto |-> dto, existing |-> found, fee |-> None]
          IN /\ job' = [job EXCEPT ![r] = j]
             /\ pc' = [pc EXCEPT ![r] =
                  IF found # None /\ ~Fits(j) THEN "clear" ELSE "price"]
    BY <1>1 DEF AppendRead
  <2> DEFINE j == [dto |-> dto, existing |-> found, fee |-> None]
  <2>2. /\ job'[r] = j /\ cart' = cart /\ pc[r] = "idle"
        /\ pc'[r] = IF found # None /\ ~Fits(j) THEN "clear" ELSE "price"
    BY <1>1, <2>1 DEF AppendRead, TypeOK
  <2>3. Running' = Running \cup {r} BY <1>1, ReadTypes
  <2>4. Running = {} BY <2>2, <2>3 DEF Begun, Running
  <2>5. Docs' = Docs /\ (Fits(j) => Docs # {})
    BY <2>1, <2>2 DEF Docs, Fits
  <2> HIDE DEF j
  <2>6. Fits(job[r])' <=> Fits(j) BY <2>2 DEF Fits
  <2>7. QED BY <2>2, <2>3, <2>4, <2>5, <2>6 DEF Alone, LastIsThere
<1>2. CASE ClearCart(r)
  <2>1. Running' = Running /\ r \in Running /\ job' = job
    BY <1>2, ClearTypes DEF ClearCart
  <2>2. pc[r] = "clear" /\ pc'[r] = "price"
    BY <1>2 DEF ClearCart, Goto, TypeOK
  <2>3. \A q \in Running : q = r BY <2>1 DEF Alone
  <2>4. ~Fits(job[r]) /\ ~Fits(job[r])' BY <2>1, <2>2 DEF Alone, Fits
  <2>5. QED BY <2>1, <2>2, <2>3, <2>4 DEF Alone, LastIsThere
<1>3. CASE Price(r)
  <2>1. Running' = Running /\ r \in Running /\ job[r] \in Job
    BY <1>3, PriceTypes DEF TypeOK
  <2>2. PICK fee : job' = [job EXCEPT ![r].fee = fee] BY <1>3, PriceTypes
  <2>3. job'[r].existing = job[r].existing /\ job'[r].dto = job[r].dto
    BY <2>1, <2>2 DEF TypeOK, Job
  <2>4. /\ pc[r] = "price" /\ pc'[r] = "save" /\ Docs' = Docs
    BY <1>3 DEF Price, Goto, TypeOK, Docs
  <2>5. \A q \in Running : q = r BY <2>1 DEF Alone
  <2>6. Fits(job[r])' <=> Fits(job[r]) BY <2>3 DEF Fits
  <2>7. QED BY <2>1, <2>4, <2>5, <2>6 DEF Alone, LastIsThere
<1>4. CASE SaveCart(r)
  <2>1. Running' = Running \ {r} /\ r \in Running /\ pc[r] = "save"
    BY <1>4, SaveTypes
  <2>2. Running' = {} BY <2>1 DEF Alone
  <2>3. job[r] \in Job /\ Content(job[r]) \in Doc
    BY <2>1, ContentType DEF TypeOK
  <2>4. \E d \in Requests : cart'[d] = latest' /\ latest' \in Doc
    <3>1. CASE Fits(job[r])
      <4>1. Docs # {} BY <2>1, <3>1 DEF Alone
      <4>2. PICK d \in Docs :
              /\ cart' = [cart EXCEPT ![d] = Merged(cart[d], Content(job[r]))]
              /\ latest' = Merged(cart[d], Content(job[r]))
        BY <1>4, <3>1, <4>1 DEF SaveCart, Update, End
      <4>3. Merged(cart[d], Content(job[r])) \in Doc
        BY <2>3 DEF Merged, Doc, Docs, TypeOK
      <4>4. QED BY <4>2, <4>3 DEF Docs, TypeOK
    <3>2. CASE ~Fits(job[r])
      BY <1>4, <2>3, <3>2 DEF SaveCart, Create, End, TypeOK
    <3>3. QED BY <3>1, <3>2
  <2>5. LastIsThere' BY <2>4, NoneAssumption DEF LastIsThere, Docs
  <2>6. QED BY <2>2, <2>5 DEF Alone
<1>5. CASE Refuse(r) \/ DeleteCart(r) \/ Abort(r)
  <2>1. latest' = None BY <1>5 DEF Refuse, DeleteCart, Abort, End
  <2>2. Running' = Running \ {r} BY <1>5, DropTypes
  <2>3. pc'[r] = "done" /\ r \in Requests
    BY <1>5 DEF Refuse, DeleteCart, Abort, End, Goto, TypeOK
  <2>4. Running' = {}
    <3>1. CASE Running = {} BY <2>2, <3>1
    <3>2. CASE Running # {} /\ Begun' = Begun
      <4>1. r \in Begun BY <2>3, <3>2 DEF Begun
      <4>2. pc[r] # "idle" BY <4>1 DEF Begun
      <4>3. r \in Running
        BY <1>5, <4>2 DEF Refuse, DeleteCart, Abort, End, Goto, Running
      <4>4. QED BY <2>2, <4>3 DEF Alone
    <3>3. QED BY <3>1, <3>2
  <2>5. QED BY <2>1, <2>4 DEF Alone, LastIsThere
<1>6. QED BY <1>1, <1>2, <1>3, <1>4, <1>5

\* As long as no request begins before the last one ended, what appendCart put
\* into the cart is there: what it clears is never what it goes on to save.
THEOREM WhatIsPutIsThere == MCSpec => []AppendSticks
<1> DEFINE all == <<vars, part, overlapped, billVars, points, boards, stats, trends>>
<1>1. MCInit => TypeOK /\ AloneInv
  <2> SUFFICES ASSUME MCInit PROVE TypeOK /\ AloneInv OBVIOUS
  <2>1. Init BY DEF MCInit
  <2>2. Running = {} /\ latest = None BY <2>1 DEF Init, Running
  <2>3. QED BY <2>1, <2>2, InitTypes DEF AloneInv, Alone, LastIsThere
<1>2. TypeOK /\ AloneInv /\ [MCNext]_all => TypeOK' /\ AloneInv'
  <2> SUFFICES ASSUME TypeOK, AloneInv, [MCNext]_all PROVE TypeOK' /\ AloneInv'
    OBVIOUS
  <2>1. CASE MCNext /\ part = "carts"
    <3>1. /\ Next
          /\ overlapped' = (overlapped \/ (Running # {} /\ Begun' # Begun))
      BY <2>1 DEF MCNext
    <3>2. TypeOK' BY <3>1, StepTypes
    <3>3. CASE overlapped' BY <3>2, <3>3 DEF AloneInv
    <3>4. CASE ~overlapped'
      <4>1. Alone /\ (Running = {} \/ Begun' = Begun)
        BY <3>1, <3>4 DEF AloneInv
      <4>2. Alone' BY <3>1, <4>1, AloneStep DEF Next
      <4>3. QED BY <3>2, <4>2 DEF AloneInv
    <3>5. QED BY <3>3, <3>4
  <2>2. CASE UNCHANGED <<vars, overlapped>>
    <3>1. TypeOK' BY <2>2, StepTypes
    <3>2. AloneInv'
      BY <2>2 DEF vars, AloneInv, Alone, LastIsThere, Docs, Running, Fits
    <3>3. QED BY <3>1, <3>2
  <2>3. CASE MCNext /\ part # "carts"
    <3>1. UNCHANGED <<vars, overlapped>> BY <2>3 DEF MCNext
    <3>2. QED BY <2>2, <3>1
  <2>4. QED BY <2>1, <2>2, <2>3
<1>3. AloneInv => AppendSticks BY DEF AloneInv, Alone, AppendSticks
<1>4. QED BY <1>1, <1>2, <1>3, PTL DEF MCSpec

-----------------------------------------------------------------------------
(* What a cart costs (CartPricing), for every menu, cart, coupon and tax     *)
(* rate                                                                      *)

\* The assumptions of CartPricing, in one name.
Assumptions ==
  /\ Menu \in [Products ->
                 [price : Nat, pointsToRedeem : Nat, pointsToAdd : Nat]]
  /\ Lines \subseteq [product : Products, quantity : Nat \ {0},
                      fromRewards : BOOLEAN, options : Nat]
  /\ Coupons \subseteq [kind : Kinds, usable : BOOLEAN, value : Nat,
                        capped : BOOLEAN, cap : Nat, minimum : Nat,
                        target : Products]
  /\ MaxLines \in Nat
  /\ Balances \subseteq Int /\ TaxRates \subseteq Nat /\ Tips \subseteq Nat

LEMMA Assumed == Assumptions
BY MenuAssumption, LinesAssumption, CouponsAssumption, NumbersAssumption
   DEF Assumptions

LEMMA LineNumbers ==
  ASSUME NEW line \in Lines
  PROVE  /\ PriceOf(line) \in Nat /\ Points(line) \in Nat
         /\ line.quantity \in Nat \ {0} /\ line.options \in Nat
         /\ line.product \in Products
         /\ Menu[line.product].pointsToAdd \in Nat
BY Assumed DEF Assumptions, PriceOf, Points

\* Rounding to cents stays within half a cent.
LEMMA RoundedWithin ==
  ASSUME NEW x \in Int, NEW n \in Rounded(x)
  PROVE  n \in Int /\ 2 * (n * Fine - x) <= Fine /\ 2 * (x - n * Fine) <= Fine
BY DEF Rounded, Fine

\* What a line redeems with the points that are left: a whole number of
\* units, within the line, and within the points if these are not negative; of
\* a debt of points, nothing or so much that no debt is left.
LEMMA Redemption ==
  ASSUME NEW line \in Lines, NEW left \in Int
  PROVE  LET u == UnitsRedeemed(line, left)
         IN /\ u \in Int /\ u <= line.quantity
            /\ left >= 0 =>
                 /\ u \in 0..line.quantity
                 /\ u * Points(line) >= 0
                 /\ left - u * Points(line) >= 0
            /\ left < 0 => IF Redeemable(line) THEN left - u * Points(line) >= 0
                           ELSE u = 0
            /\ (Redeemable(line) /\ u < line.quantity)
                 => left - u * Points(line) < Points(line)
<1> DEFINE u == UnitsRedeemed(line, left)
           p == Points(line)
           q == line.quantity
<1>1. p \in Nat /\ q \in Nat \ {0} BY LineNumbers
<1> USE DEF Redeemable
<1>2. CASE ~line.fromRewards \/ p = 0
  <2>1. u = 0 BY <1>2 DEF UnitsRedeemed
  <2>2. QED BY <2>1, <1>1, <1>2
<1>3. CASE line.fromRewards /\ p # 0 /\ left >= p * q
  <2>1. u = q BY <1>3 DEF UnitsRedeemed
  <2>2. q * p >= 0 /\ q * p = p * q BY <1>1
  <2>3. QED BY <2>1, <2>2, <1>1, <1>3
<1>4. CASE line.fromRewards /\ p # 0 /\ ~(left >= p * q)
  <2>1. u = left \div p BY <1>4 DEF UnitsRedeemed
  <2>2. u \in Int BY <2>1, <1>1, <1>4
  <2>3. u * p <= left /\ left < u * p + p BY <2>1, <1>1, <1>4
  <2>4. u < q
    <3>1. u * p < p * q BY <2>3, <2>2, <1>1, <1>4
    <3>2. SUFFICES ASSUME u >= q PROVE FALSE BY <2>2, <1>1
    <3>3. (u - q) * p >= 0 BY <3>2, <2>2, <1>1
    <3>4. (u - q) * p = u * p - p * q BY <2>2, <1>1
    <3>5. QED BY <3>1, <3>3, <3>4, <2>2, <1>1
  <2>5. ASSUME left >= 0 PROVE u >= 0 BY <2>1, <2>5, <1>1, <1>4
  <2>6. ASSUME left >= 0 PROVE u * p >= 0 BY <2>5, <2>6, <2>2, <1>1
  <2>7. u * p \in Int BY <2>2, <1>1
  <2>8. left - u * p >= 0 /\ left - u * p < p BY <2>3, <2>7, <1>1
  <2>9. ASSUME left >= 0 PROVE u \in 0..q BY <2>2, <2>4, <2>5, <2>9, <1>1
  <2>10. u <= q BY <2>2, <2>4, <1>1
  <2>11. Redeemable(line) BY <1>1, <1>4
  <2>12. QED BY <2>2, <2>6, <2>8, <2>9, <2>10, <2>11
<1>5. QED BY <1>2, <1>3, <1>4

-----------------------------------------------------------------------------
(* Types *)

LEMMA BillInitTypes == BillInit => BillTypeOK
<1> SUFFICES ASSUME BillInit PROVE BillTypeOK OBVIOUS
<1>1. bill.balance \in Int /\ bill.lines \in LineLists
  BY Assumed DEF BillInit, Assumptions
<1>2. bill.lines \in Seq(Lines) /\ Len(bill.lines) \in Nat
  BY <1>1, Assumed DEF LineLists, Assumptions
<1>3. bill \in [lines : Seq(Lines), balance : Balances, coupon : Coupons,
                taxRate : TaxRates, tip : Tips]
  BY <1>2 DEF BillInit
<1>4. QED BY <1>1, <1>2, <1>3 DEF BillInit, BillTypeOK, Blank

LEMMA PriceLineTypes == BillTypeOK /\ PriceLine => BillTypeOK'
<1> SUFFICES ASSUME BillTypeOK, PriceLine PROVE BillTypeOK' OBVIOUS
<1> DEFINE line == bill.lines[next]
           u == UnitsRedeemed(line, remaining)
<1>1. next \in 1..Len(bill.lines) /\ line \in Lines
  <2>1. bill.lines \in Seq(Lines) /\ Len(bill.lines) \in Nat
    BY DEF BillTypeOK
  <2>2. next \in 1..Len(bill.lines) BY <2>1 DEF BillTypeOK, PriceLine
  <2>3. QED BY <2>1, <2>2
<1>2. u \in Int BY <1>1, Redemption DEF BillTypeOK
<1>3. /\ PriceOf(line) \in Nat /\ Points(line) \in Nat
      /\ line.quantity \in Nat /\ line.options \in Nat
      /\ Menu[line.product].pointsToAdd \in Nat
  BY <1>1, LineNumbers
<1>4. /\ line.quantity * line.options \in Int
      /\ (line.quantity - u) * PriceOf(line) \in Int
      /\ u * Points(line) \in Int
      /\ Menu[line.product].pointsToAdd * line.quantity \in Nat
  BY <1>2, <1>3
<1>5. subtotal' \in Int /\ remaining' \in Int /\ redeemed' \in Int
      /\ earned' \in Nat /\ eligible' \in Nat
  <2>1. /\ subtotal' = subtotal + (line.quantity - u) * PriceOf(line)
                                + line.quantity * line.options
        /\ redeemed' = redeemed + u * Points(line)
        /\ remaining' = remaining - u * Points(line)
        /\ earned' = earned + Menu[line.product].pointsToAdd * line.quantity
        /\ \/ eligible' = eligible + line.quantity
           \/ eligible' = eligible + 0
    BY DEF PriceLine
  <2>2. /\ subtotal \in Int /\ remaining \in Int /\ redeemed \in Int
        /\ earned \in Nat /\ eligible \in Nat
    BY DEF BillTypeOK
  <2> HIDE DEF line, u
  <2>3. QED BY <2>1, <2>2, <1>3, <1>4
<1>6. next' \in 1..(Len(bill.lines) + 1) /\ next' = next + 1
  BY <1>1 DEF PriceLine
<1>7. units' \in Seq(Int) /\ Len(units') = next' - 1
  <2>1. units' = Append(units, u) BY DEF PriceLine
  <2>2. units \in Seq(Int) /\ Len(units) = next - 1 BY DEF BillTypeOK
  <2> HIDE DEF line, u
  <2>3. QED BY <2>1, <2>2, <1>1, <1>2, <1>6
<1>8. QED BY <1>5, <1>6, <1>7 DEF BillTypeOK, PriceLine

LEMMA CouponTypes == BillTypeOK /\ ApplyCoupon => BillTypeOK'
<1> SUFFICES ASSUME BillTypeOK, ApplyCoupon PROVE BillTypeOK' OBVIOUS
<1>1. /\ bill.coupon.value \in Nat /\ bill.coupon.cap \in Nat
      /\ Menu[bill.coupon.target].price \in Nat
  BY Assumed DEF Assumptions, BillTypeOK
<1>2. discount' \in Int
  <2>1. CASE NoCoupon BY <2>1 DEF NoCoupon
  <2>2. CASE Percentage
    <3> DEFINE value == bill.coupon.value
               cap == bill.coupon.cap
    <3>1. subtotal \in Int BY DEF BillTypeOK
    <3>2. value \in Int /\ cap \in Int BY <1>1
    <3>3. discount' \in {cap * Fine, subtotal * value * 100}
      BY <2>2 DEF Percentage
    <3> HIDE DEF value, cap
    <3>4. subtotal * value \in Int BY <3>1, <3>2
    <3>5. subtotal * value * 100 \in Int BY <3>4
    <3>6. cap * Fine \in Int BY <3>2 DEF Fine
    <3>7. QED BY <3>3, <3>5, <3>6
  <2>3. CASE Fixed BY <2>3, <1>1 DEF Fixed, BillTypeOK, Fine
  <2>4. CASE Bogo
    <3>1. eligible \div 2 \in Int BY DEF BillTypeOK
    <3>2. (eligible \div 2) * Menu[bill.coupon.target].price * Fine \in Int
      BY <3>1, <1>1 DEF Fine
    <3>3. QED BY <2>4, <3>2 DEF Bogo
  <2>5. QED BY <2>1, <2>2, <2>3, <2>4 DEF ApplyCoupon
<1>3. QED BY <1>2 DEF BillTypeOK, ApplyCoupon

LEMMA ExactInt ==
  ASSUME BillTypeOK
  PROVE  Taxes \in Int /\ ExactTotal \in Int /\ bill.tip \in Int
<1>1. bill.taxRate \in Nat /\ bill.tip \in Nat
  BY Assumed DEF BillTypeOK, Assumptions
<1>2. (subtotal * Fine - discount) * bill.taxRate \in Int
  BY <1>1 DEF BillTypeOK, Fine
<1>3. Taxes \in Int BY <1>2 DEF Taxes
<1>4. subtotal * Fine \in Int /\ bill.tip * Fine \in Int /\ discount \in Int
  BY <1>1 DEF BillTypeOK, Fine
<1>5. ExactTotal \in Int BY <1>3, <1>4 DEF ExactTotal
<1>6. QED BY <1>1, <1>3, <1>5

LEMMA TotalTypes == BillTypeOK /\ ComputeTotal => BillTypeOK'
<1> SUFFICES ASSUME BillTypeOK, ComputeTotal PROVE BillTypeOK' OBVIOUS
<1>1. Taxes \in Int /\ ExactTotal \in Int /\ discount \in Int
  BY ExactInt DEF BillTypeOK
<1>2. PICK taxes \in Rounded(Taxes), total \in Rounded(ExactTotal),
           off \in Rounded(discount) :
        \E r \in Rounded(total * Fine - ExactTotal) :
          receipt' = [taxes |-> taxes, total |-> total, discount |-> off,
                      roundOff |-> r]
  BY DEF ComputeTotal
<1>3. PICK r \in Rounded(total * Fine - ExactTotal) :
        receipt' = [taxes |-> taxes, total |-> total, discount |-> off,
                    roundOff |-> r]
  BY <1>2
<1>4. taxes \in Int /\ total \in Int /\ off \in Int
  BY <1>1, RoundedWithin
<1>5. r \in Int BY <1>1, <1>4, RoundedWithin DEF Fine
<1>6. QED BY <1>3, <1>4, <1>5 DEF BillTypeOK, ComputeTotal

\* Types are preserved by every step of the calculation.
LEMMA BillStepTypes == BillTypeOK /\ [BillNext]_billVars => BillTypeOK'
<1> SUFFICES ASSUME BillTypeOK, [BillNext]_billVars PROVE BillTypeOK' OBVIOUS
<1>1. CASE PriceLine BY <1>1, PriceLineTypes
<1>2. CASE LinesDone BY <1>2 DEF LinesDone, BillTypeOK
<1>3. CASE ApplyCoupon BY <1>3, CouponTypes
<1>4. CASE ComputeTotal BY <1>4, TotalTypes
<1>5. CASE UNCHANGED billVars BY <1>5 DEF billVars, BillTypeOK
<1>6. QED BY <1>1, <1>2, <1>3, <1>4, <1>5 DEF BillNext

\* Every number of the calculation of appendCart stays in its type, for every
\* menu, cart and coupon, and a line is priced once.
THEOREM BillTypeCorrect == BillSpec => []BillTypeOK
<1>1. QED BY BillInitTypes, BillStepTypes, PTL DEF BillSpec

-----------------------------------------------------------------------------
(* Points *)

LEMMA PointsStep ==
  ASSUME BillTypeOK, PointsAccounted, PriceLine PROVE PointsAccounted'
<1> DEFINE line == bill.lines[next]
           u == UnitsRedeemed(line, remaining)
<1>1. /\ next \in 1..Len(bill.lines) /\ line \in Lines
      /\ remaining \in Int
      /\ next' = next + 1 /\ bill' = bill
      /\ units' = Append(units, u) /\ Len(units) = next - 1
      /\ remaining' = remaining - u * Points(line)
      /\ redeemed' = redeemed + u * Points(line)
  <2>1. bill.lines \in Seq(Lines) /\ next \in 1..(Len(bill.lines) + 1)
    BY DEF BillTypeOK
  <2>2. next <= Len(bill.lines) BY DEF PriceLine
  <2>3. next \in 1..Len(bill.lines) /\ line \in Lines BY <2>1, <2>2
  <2>4. /\ next' = next + 1 /\ bill' = bill /\ units' = Append(units, u)
        /\ remaining' = remaining - u * Points(line)
        /\ redeemed' = redeemed + u * Points(line)
    BY DEF PriceLine
  <2>5. remaining \in Int /\ Len(units) = next - 1 BY DEF BillTypeOK
  <2>6. QED BY <2>3, <2>4, <2>5
<1>2. /\ Points(line) \in Nat /\ line.quantity \in Nat
  BY <1>1, LineNumbers
<1>3. /\ u \in Int /\ u <= line.quantity
      /\ remaining >= 0 => /\ u >= 0 /\ u * Points(line) >= 0
                           /\ remaining - u * Points(line) >= 0
      /\ remaining < 0 => IF Redeemable(line)
                          THEN remaining - u * Points(line) >= 0 ELSE u = 0
      /\ (Redeemable(line) /\ u < line.quantity)
           => remaining - u * Points(line) < Points(line)
  <2>1. u \in 0..line.quantity => u >= 0 OBVIOUS
  <2>2. QED BY <1>1, <2>1, Redemption
<1>4. u * Points(line) \in Int BY <1>2, <1>3
<1>5. ASSUME NEW j \in 1..(next' - 1)
      PROVE  /\ j = next => units'[j] = u
             /\ j # next => j \in 1..(next - 1) /\ units'[j] = units[j]
  <2>1. units \in Seq(Int) /\ next \in Nat \ {0}
    <3>1. units \in Seq(Int) /\ bill.lines \in Seq(Lines) BY DEF BillTypeOK
    <3>2. next \in Nat \ {0} BY <1>1, <3>1
    <3>3. QED BY <3>1, <3>2
  <2>2. Len(units) = next - 1 /\ units' = Append(units, u) /\ next' = next + 1
    BY <1>1
  <2>3. j \in 1..next BY <2>1, <2>2
  <2>4. u \in Int BY <1>3
  <2> HIDE DEF u
  <2>5. QED BY <2>1, <2>2, <2>3, <2>4
<1> HIDE DEF u, line
<1>6. redeemed \in Int /\ bill.balance \in Int /\ next \in Nat \ {0}
  <2>1. bill.balance \in Balances /\ redeemed \in Int BY DEF BillTypeOK
  <2>2. bill.lines \in Seq(Lines) BY DEF BillTypeOK
  <2>3. bill.balance \in Int BY <2>1, Assumed DEF Assumptions
  <2>4. QED BY <2>1, <2>2, <2>3, <1>1
<1>7. /\ redeemed + remaining = bill.balance
      /\ remaining < 0 => /\ remaining = bill.balance
                          /\ \A k \in 1..(next - 1) :
                               units[k] = 0 /\ ~Redeemable(bill.lines[k])
  BY DEF PointsAccounted, PointsCovered
<1>8. UnitsPaidOnce'
  <2> SUFFICES ASSUME NEW j \in 1..(next' - 1)
               PROVE  /\ units'[j] <= bill.lines[j].quantity
                      /\ units'[j] < 0 =>
                           /\ bill.balance < 0
                           /\ \A k \in 1..(j - 1) : units'[k] = 0
    BY <1>1 DEF UnitsPaidOnce
  <2>1. CASE j = next
    <3>1. units'[j] = u /\ u <= bill.lines[j].quantity
      BY <1>3, <1>5, <2>1 DEF line
    <3>2. ASSUME u < 0 PROVE remaining < 0 /\ bill.balance < 0
      BY <1>1, <1>3, <1>7, <3>2
    <3>3. ASSUME u < 0, NEW k \in 1..(j - 1) PROVE units'[k] = 0
      <4>1. /\ k \in 1..(next - 1) /\ k \in 1..(next' - 1) /\ k # next
        BY <1>1, <1>6, <2>1
      <4>2. units[k] = 0 BY <1>7, <3>2, <3>3, <4>1
      <4>3. QED BY <1>5, <4>1, <4>2
    <3>4. QED BY <3>1, <3>2, <3>3
  <2>2. CASE j # next
    <3>1. j \in 1..(next - 1) /\ units'[j] = units[j] BY <1>5, <2>2
    <3>2. /\ units[j] <= bill.lines[j].quantity
          /\ units[j] < 0 => /\ bill.balance < 0
                             /\ \A k \in 1..(j - 1) : units[k] = 0
      BY <3>1 DEF PointsAccounted, UnitsPaidOnce
    <3>3. \A k \in 1..(j - 1) : units'[k] = units[k]
      <4>1. \A k \in 1..(j - 1) : k \in 1..(next' - 1) /\ k # next
        BY <1>1, <1>6, <3>1
      <4>2. QED BY <1>5, <4>1
    <3>4. QED BY <3>1, <3>2, <3>3
  <2>3. QED BY <2>1, <2>2
<1>9. PointsCovered'
  <2>1. redeemed' + remaining' = bill.balance BY <1>1, <1>4, <1>6, <1>7
  <2>2. ASSUME remaining' < 0
        PROVE  /\ remaining' = bill.balance
               /\ \A k \in 1..(next' - 1) :
                    units'[k] = 0 /\ ~Redeemable(bill.lines[k])
    <3>1. remaining < 0 /\ u = 0 /\ ~Redeemable(line) BY <1>1, <1>3, <1>4, <2>2
    <3>2. remaining' = remaining
      <4>1. u * Points(line) = 0 BY <1>2, <3>1
      <4>2. QED BY <1>1, <4>1
    <3>3. ASSUME NEW k \in 1..(next' - 1)
          PROVE  units'[k] = 0 /\ ~Redeemable(bill.lines[k])
      <4>1. CASE k = next BY <1>5, <3>1, <4>1 DEF line
      <4>2. CASE k # next BY <1>5, <1>7, <3>1, <4>2
      <4>3. QED BY <4>1, <4>2
    <3>4. QED BY <1>7, <3>1, <3>2, <3>3
  <2>3. QED BY <1>1, <2>1, <2>2 DEF PointsCovered, Redeemable, Points
<1>10. RedeemsAllItCan'
  <2> SUFFICES ASSUME NEW j \in 1..(next' - 1),
                      Redeemable(bill.lines[j]),
                      units'[j] < bill.lines[j].quantity
               PROVE  remaining' < Points(bill.lines[j])
    BY <1>1 DEF RedeemsAllItCan, Redeemable, Points
  <2>1. CASE j = next
    <3>1. bill.lines[j] = line /\ units'[j] = u BY <1>5, <2>1 DEF line
    <3>2. QED BY <1>1, <1>3, <3>1
  <2>2. CASE j # next
    <3>1. j \in 1..(next - 1) /\ units[j] = units'[j] BY <2>2, <1>5
    <3>2. remaining < Points(bill.lines[j])
      BY <3>1 DEF PointsAccounted, RedeemsAllItCan
    <3>3. remaining >= 0 BY <1>1, <1>7, <3>1
    <3>4. bill.lines[j] \in Lines BY <3>1, <1>1 DEF BillTypeOK
    <3>5. Points(bill.lines[j]) \in Nat BY <3>4, LineNumbers
    <3>6. remaining' <= remaining BY <1>1, <1>3, <1>4, <3>3
    <3>7. remaining' \in Int BY <1>1, <1>4
    <3>8. QED BY <1>1, <3>2, <3>5, <3>6, <3>7
  <2>3. QED BY <2>1, <2>2
<1>11. QED BY <1>8, <1>9, <1>10 DEF PointsAccounted

\* Whatever the lines and the balance, which a refund may leave below zero: no
\* more points are redeemed than the customer has and none is left that would
\* have redeemed a unit charged for; units that were not ordered are charged for
\* in one line at most, and only if the balance was below zero.
THEOREM PointsAreAccounted == BillSpec => []PointsAccounted
<1>1. BillInit => PointsAccounted
  <2> SUFFICES ASSUME BillInit PROVE PointsAccounted OBVIOUS
  <2>1. bill.balance \in Balances /\ next = 1 BY DEF BillInit
  <2>2. 1..(next - 1) = {} BY <2>1
  <2>3. bill.balance \in Int BY <2>1, Assumed DEF Assumptions
  <2>4. redeemed = 0 /\ remaining = bill.balance BY DEF BillInit
  <2>5. QED BY <2>2, <2>3, <2>4
       DEF PointsAccounted, UnitsPaidOnce, PointsCovered, RedeemsAllItCan
<1>2. BillTypeOK /\ PointsAccounted /\ [BillNext]_billVars => PointsAccounted'
  <2> SUFFICES ASSUME BillTypeOK, PointsAccounted, [BillNext]_billVars PROVE PointsAccounted' OBVIOUS
  <2> USE DEF PointsAccounted, UnitsPaidOnce, PointsCovered, RedeemsAllItCan
  <2>1. CASE PriceLine BY <2>1, PointsStep
  <2>2. CASE LinesDone BY <2>2 DEF LinesDone, Points, Redeemable
  <2>3. CASE ApplyCoupon BY <2>3 DEF ApplyCoupon, Points, Redeemable
  <2>4. CASE ComputeTotal BY <2>4 DEF ComputeTotal, Points, Redeemable
  <2>5. CASE UNCHANGED billVars BY <2>5 DEF billVars, Points, Redeemable
  <2>6. QED BY <2>1, <2>2, <2>3, <2>4, <2>5 DEF BillNext
<1>3. QED BY <1>1, <1>2, BillTypeCorrect, PTL DEF BillSpec

-----------------------------------------------------------------------------
(* Rounding *)

\* Rounding every amount of the bill on its own puts the total off by a cent
\* at most, for every menu, cart, coupon, tax rate and tip.
THEOREM BillAddsUp == BillSpec => []BillWithinACent
<1>1. BillInit => BillWithinACent BY DEF BillInit, BillWithinACent
<1>2. BillTypeOK /\ BillWithinACent /\ [BillNext]_billVars => BillWithinACent'
  <2> SUFFICES ASSUME BillTypeOK, BillWithinACent, [BillNext]_billVars
               PROVE  BillWithinACent'
    OBVIOUS
  <2>1. CASE PriceLine BY <2>1 DEF PriceLine, BillWithinACent
  <2>2. CASE LinesDone BY <2>2 DEF LinesDone, BillWithinACent
  <2>3. CASE ApplyCoupon BY <2>3 DEF ApplyCoupon, BillWithinACent
  <2>4. CASE ComputeTotal
    <3>1. /\ Taxes \in Int /\ ExactTotal \in Int /\ bill.tip \in Int
          /\ discount \in Int /\ subtotal \in Int
      BY ExactInt DEF BillTypeOK
    <3>2. PICK taxes \in Rounded(Taxes), total \in Rounded(ExactTotal),
               off \in Rounded(discount) :
            \E r \in Rounded(total * Fine - ExactTotal) :
              receipt' = [taxes |-> taxes, total |-> total, discount |-> off,
                          roundOff |-> r]
      BY <2>4 DEF ComputeTotal
    <3>3. /\ taxes \in Int /\ total \in Int /\ off \in Int
          /\ 2 * (taxes * Fine - Taxes) <= Fine
          /\ 2 * (Taxes - taxes * Fine) <= Fine
          /\ 2 * (total * Fine - ExactTotal) <= Fine
          /\ 2 * (ExactTotal - total * Fine) <= Fine
          /\ 2 * (off * Fine - discount) <= Fine
          /\ 2 * (discount - off * Fine) <= Fine
      BY <3>1, RoundedWithin
    <3>4. total - (subtotal + taxes + bill.tip - off) \in -1..1
      BY <3>1, <3>3 DEF ExactTotal, Fine
    <3>5. /\ receipt'.total = total /\ receipt'.taxes = taxes
          /\ receipt'.discount = off
          /\ subtotal' = subtotal /\ bill' = bill
      BY <2>4, <3>2 DEF ComputeTotal
    <3>6. QED BY <3>4, <3>5 DEF BillWithinACent
  <2>5. CASE UNCHANGED billVars BY <2>5 DEF billVars, BillWithinACent
  <2>6. QED BY <2>1, <2>2, <2>3, <2>4, <2>5 DEF BillNext
<1>3. QED BY <1>1, <1>2, BillTypeCorrect, PTL DEF BillSpec

-----------------------------------------------------------------------------
(* The total is not negative *)

\* A coupon that is none of the customer's gain but at most the lines' price.
LEMMA DiscountWithinLines ==
  ASSUME BillTypeOK, ApplyCoupon, Modest(bill.coupon), subtotal >= 0
  PROVE  discount' <= subtotal * Fine
<1> DEFINE value == bill.coupon.value
           cap == bill.coupon.cap
           minimum == bill.coupon.minimum
<1>1. subtotal \in Int /\ value \in Nat /\ cap \in Nat /\ minimum \in Nat
  BY Assumed DEF Assumptions, BillTypeOK
<1>2. subtotal * Fine >= 0 BY <1>1 DEF Fine
<1>3. CASE NoCoupon BY <1>2, <1>3 DEF NoCoupon
<1>4. CASE Percentage
  <2>1. /\ value <= 100
        /\ \/ discount' = subtotal * value * 100
           \/ discount' = cap * Fine /\ cap * Fine < subtotal * value * 100
    <3>1. value <= 100 BY <1>4 DEF Percentage, Modest
    <3>2. discount' = IF bill.coupon.capped /\ subtotal * value * 100 > cap * Fine
                      THEN cap * Fine ELSE subtotal * value * 100
      BY <1>4 DEF Percentage
    <3>3. QED BY <3>1, <3>2
  <2> HIDE DEF value, cap, minimum
  <2>2. subtotal * (100 - value) >= 0 BY <1>1, <2>1
  <2>3. /\ subtotal * value \in Int
        /\ subtotal * value = subtotal * 100 - subtotal * (100 - value)
    BY <1>1
  <2>4. subtotal * value * 100 <= subtotal * Fine
    BY <1>1, <2>2, <2>3 DEF Fine
  <2>5. QED BY <1>1, <2>1, <2>4 DEF Fine
<1>5. CASE Fixed
  <2>1. value <= minimum /\ minimum <= subtotal
    BY <1>5 DEF Fixed, Modest, Accepted
  <2>2. discount' \in {0, value * Fine} BY <1>5 DEF Fixed
  <2> HIDE DEF value, cap, minimum
  <2>3. QED BY <1>1, <1>2, <2>1, <2>2 DEF Fine
<1>6. CASE Bogo BY <1>6 DEF Bogo, Modest
<1>7. QED BY <1>3, <1>4, <1>5, <1>6 DEF ApplyCoupon

\* A line adds to the subtotal, and takes no more points than there are.
LEMMA LineAdds ==
  ASSUME BillTypeOK, PriceLine, remaining >= 0, subtotal >= 0
  PROVE  subtotal' >= 0 /\ remaining' >= 0
<1> DEFINE line == bill.lines[next]
           u == UnitsRedeemed(line, remaining)
           rest == line.quantity - u
<1>1. bill.lines \in Seq(Lines) /\ next \in 1..(Len(bill.lines) + 1)
      /\ next <= Len(bill.lines)
  BY DEF BillTypeOK, PriceLine
<1>2. line \in Lines BY <1>1
<1>3. /\ subtotal \in Int /\ remaining \in Int
      /\ PriceOf(line) \in Nat /\ line.options \in Nat
      /\ line.quantity \in Nat
  BY <1>2, LineNumbers DEF BillTypeOK
<1>4. u \in 0..line.quantity /\ remaining - u * Points(line) >= 0
  BY <1>2, <1>3, Redemption
<1>5. /\ subtotal' = subtotal + rest * PriceOf(line)
                              + line.quantity * line.options
      /\ remaining' = remaining - u * Points(line)
  BY DEF PriceLine
<1>6. rest \in Nat BY <1>3, <1>4
<1> HIDE DEF rest, u, line
<1>7. rest * PriceOf(line) \in Nat /\ line.quantity * line.options \in Nat
  BY <1>3, <1>6
<1>8. QED BY <1>3, <1>4, <1>5, <1>7

LEMMA CoveredStep ==
  BillTypeOK /\ BillCovered /\ [BillNext]_billVars => BillCovered'
<1> SUFFICES ASSUME BillTypeOK, BillCovered, [BillNext]_billVars
             PROVE  BillCovered'
  OBVIOUS
<1> USE DEF BillCovered
<1>1. CASE PriceLine
  <2>1. bill' = bill /\ phase' = "lines" BY <1>1 DEF PriceLine
  <2>2. QED BY <1>1, <2>1, LineAdds
<1>2. CASE LinesDone BY <1>2 DEF LinesDone
<1>3. CASE ApplyCoupon
  <2>1. UNCHANGED <<bill, subtotal, remaining>> BY <1>3 DEF ApplyCoupon
  <2>2. QED BY <1>3, <2>1, DiscountWithinLines
<1>4. CASE ComputeTotal BY <1>4 DEF ComputeTotal
<1>5. CASE UNCHANGED billVars BY <1>5 DEF billVars
<1>6. QED BY <1>1, <1>2, <1>3, <1>4, <1>5 DEF BillNext

\* Taxes are due on what the discount leaves: on nothing negative.
LEMMA TotalCovered ==
  ASSUME BillTypeOK, subtotal >= 0, discount <= subtotal * Fine,
         NEW total \in Rounded(ExactTotal)
  PROVE  total >= 0
<1> DEFINE net == subtotal * Fine - discount
<1>1. /\ subtotal \in Int /\ discount \in Int
      /\ bill.tip \in Nat /\ bill.taxRate \in Nat
  BY Assumed DEF BillTypeOK, Assumptions
<1>2. net \in Nat BY <1>1 DEF Fine
<1>3. Taxes = (net * bill.taxRate) \div 100 BY DEF Taxes
<1>4. ExactTotal = net + Taxes + bill.tip * Fine
  BY <1>1, ExactInt DEF ExactTotal, Fine
<1> HIDE DEF net
<1>5. net * bill.taxRate \in Nat BY <1>1, <1>2
<1>6. Taxes \in Nat BY <1>3, <1>5
<1>7. ExactTotal \in Nat BY <1>1, <1>2, <1>4, <1>6 DEF Fine
<1>8. total \in Int /\ 2 * (ExactTotal - total * Fine) <= Fine
  BY <1>7, RoundedWithin
<1>9. QED BY <1>7, <1>8 DEF Fine

\* Whatever the menu, the lines, the tax rate and the tip: a customer who owes
\* no points and a coupon of at most 100 per cent, or of a value that its
\* minimum covers, never make appendCart draw up a negative total.
THEOREM TotalsAreNotNegative == BillSpec => []TotalNotNegative
<1>1. BillInit => BillCovered /\ TotalNotNegative
  BY DEF BillInit, BillCovered, TotalNotNegative
<1>2. BillTypeOK /\ BillCovered /\ TotalNotNegative /\ [BillNext]_billVars
        => TotalNotNegative'
  <2> SUFFICES ASSUME BillTypeOK, BillCovered, TotalNotNegative,
                      [BillNext]_billVars
               PROVE  TotalNotNegative'
    OBVIOUS
  <2>1. CASE ComputeTotal
    <3>1. PICK total \in Rounded(ExactTotal) : receipt'.total = total
      BY <2>1 DEF ComputeTotal
    <3>2. phase = "total" /\ bill' = bill BY <2>1 DEF ComputeTotal
    <3>3. (bill.balance >= 0 /\ Modest(bill.coupon)) => total >= 0
      BY <3>2, TotalCovered DEF BillCovered
    <3>4. QED BY <3>1, <3>2, <3>3 DEF TotalNotNegative
  <2>2. CASE PriceLine \/ LinesDone \/ ApplyCoupon
    <3>1. phase' # "done" BY <2>2 DEF PriceLine, LinesDone, ApplyCoupon
    <3>2. QED BY <3>1 DEF TotalNotNegative
  <2>3. CASE UNCHANGED billVars BY <2>3 DEF billVars, TotalNotNegative
  <2>4. QED BY <2>1, <2>2, <2>3 DEF BillNext
<1>3. QED BY <1>1, <1>2, CoveredStep, BillTypeCorrect, PTL DEF BillSpec

-----------------------------------------------------------------------------
(* The pages of a branch's orders, as the theorem about any branch has it    *)
(* (OrderBoardsProofs), for the branch of MCCarts                            *)

Pages == INSTANCE OrderBoardsProofs WITH
  Requests <- {"r1"},
  Days <- 0..2, Times <- {10, 600, 1430}, PrepTime <- 30,
  Opening <- 540, Passing <- {10, 480}, Closing <- 3000

LEMMA BranchCalendar == Pages!Calendar
BY DEF Pages!Calendar, Pages!Day

LEMMA SamePages ==
  /\ Boards!Init = Pages!Init
  /\ Boards!Next = Pages!Next
  /\ Boards!OnOnePage = Pages!OnOnePage
<1>1. Boards!Init = Pages!Init BY DEF Boards!Init, Pages!Init
<1>2. Boards!Next = Pages!Next
  <2>1. ASSUME NEW r \in {"r1"}, NEW d \in 0..2, NEW t \in {10, 600, 1430},
               NEW ct \in {10, 600, 1430}, NEW asap \in BOOLEAN,
               NEW ca \in BOOLEAN, NEW type \in Boards!OrderTypes
        PROVE  Boards!Submit(r, d, t, asap, type, ct, ca)
                 = Pages!Submit(r, d, t, asap, type, ct, ca)
    BY DEF Boards!Submit, Pages!Submit, Boards!ValidTime, Pages!ValidTime,
           Boards!Now, Pages!Now, Boards!Day, Pages!Day
  <2>2. ASSUME NEW r \in {"r1"} PROVE Boards!Store(r) = Pages!Store(r)
    BY DEF Boards!Store, Pages!Store
  <2>3. ASSUME NEW r \in {"r1"}, NEW s \in Boards!Statuses
        PROVE  Boards!SetStatus(r, s) = Pages!SetStatus(r, s)
    BY DEF Boards!SetStatus, Pages!SetStatus
  <2>4. ASSUME NEW n \in {10, 480}
        PROVE  Boards!TimePasses(n) = Pages!TimePasses(n)
    BY DEF Boards!TimePasses, Pages!TimePasses, Boards!Now, Pages!Now,
           Boards!Day, Pages!Day
  <2>5. Boards!OrderTypes = Pages!OrderTypes /\ Boards!Statuses = Pages!Statuses
    BY DEF Boards!OrderTypes, Pages!OrderTypes, Boards!Statuses, Pages!Statuses
  <2>6. QED BY <2>1, <2>2, <2>3, <2>4, <2>5 DEF Boards!Next, Pages!Next
<1>3. Boards!OnOnePage = Pages!OnOnePage
  BY DEF Boards!OnOnePage, Pages!OnOnePage, Boards!OnScheduled,
         Pages!OnScheduled, Boards!OnPlaced, Pages!OnPlaced, Boards!OnCooking,
         Pages!OnCooking, Boards!Due, Pages!Due, Boards!Cutoff, Pages!Cutoff,
         Boards!Now, Pages!Now, Boards!Day, Pages!Day, Boards!CourierTime,
         Pages!CourierTime
<1>4. QED BY <1>1, <1>2, <1>3

\* At every minute an order is on exactly one of the three pages.
THEOREM OrdersAreOnOnePage == MCSpec => []OnOnePage
<1> DEFINE all == <<vars, part, overlapped, billVars, points, boards, stats, trends>>
<1>1. MCInit => Pages!TypeOK
  <2>1. MCInit => Pages!Init BY SamePages DEF MCInit
  <2>2. QED BY <2>1, BranchCalendar, Pages!InitTyped
<1>2. Pages!TypeOK /\ [MCNext]_all => Pages!TypeOK'
  <2> SUFFICES ASSUME Pages!TypeOK, [MCNext]_all PROVE Pages!TypeOK' OBVIOUS
  <2>1. [Pages!Next]_boards
    <3>1. CASE MCNext /\ part = "boards"
      <4>1. Boards!Next BY <3>1 DEF MCNext
      <4>2. QED BY <4>1, SamePages
    <3>2. CASE MCNext /\ part # "boards" BY <3>2 DEF MCNext
    <3>3. CASE UNCHANGED all BY <3>3
    <3>4. QED BY <3>1, <3>2, <3>3
  <2>2. QED BY <2>1, BranchCalendar, Pages!NextTyped DEF Pages!boards, boards
<1>3. Pages!TypeOK => OnOnePage
  <2>1. Pages!TypeOK => Pages!OnOnePage BY BranchCalendar, Pages!PagesPartition
  <2>2. QED BY <2>1, SamePages DEF OnOnePage
<1>4. QED BY <1>1, <1>2, <1>3, PTL DEF MCSpec

-----------------------------------------------------------------------------
(* The trending orders: days and lists                                       *)

LEMMA Quotients ==
  ASSUME NEW n \in Nat \ {0}, NEW a \in Int
  PROVE  a \div n \in Int /\ n * (a \div n) <= a /\ a < n * (a \div n) + n
OBVIOUS

LEMMA Multiples ==
  ASSUME NEW n \in Nat \ {0}, NEW p \in Int, NEW q \in Int, p < q
  PROVE  n * p + n <= n * q
<1>1. n * (p + 1) <= n * q OBVIOUS
<1>2. QED BY <1>1

LEMMA DaysPass ==
  ASSUME TrendsAssumption, NEW a \in Int, NEW b \in Int
  PROVE  /\ Trends!DayOf(a) \in Int
         /\ a \in Nat => Trends!DayOf(a) \in Nat
         /\ a <= b => Trends!DayOf(a) <= Trends!DayOf(b)
         /\ Trends!DayOf(a) < Trends!DayOf(b) => a < Trends!DayOf(b) * DayLength
<1> DEFINE x == a \div DayLength
           y == b \div DayLength
<1>1. /\ DayLength \in Nat \ {0}
      /\ x \in Int /\ DayLength * x <= a /\ a < DayLength * x + DayLength
      /\ y \in Int /\ DayLength * y <= b /\ b < DayLength * y + DayLength
  BY Quotients DEF TrendsAssumption
<1>2. Trends!DayOf(a) = x /\ Trends!DayOf(b) = y BY DEF Trends!DayOf
<1> HIDE DEF x, y
<1>3. x < y => DayLength * x + DayLength <= DayLength * y BY <1>1, Multiples
<1>4. y < x => DayLength * y + DayLength <= DayLength * x BY <1>1, Multiples
<1>5. x < 0 => DayLength * x + DayLength <= DayLength * 0 BY <1>1, Multiples
<1>6. DayLength * y = y * DayLength /\ DayLength * 0 = 0 BY <1>1
<1>7. DayLength * x \in Int /\ DayLength * y \in Int BY <1>1
<1>8. QED BY <1>1, <1>2, <1>3, <1>4, <1>5, <1>6, <1>7

\* The last timed refresh before some minute.
LEMMA LastTimed ==
  ASSUME TrendsAssumption, NEW n \in Nat
  PROVE  \E s \in 0..n : s % CronEvery = 0 /\ n < s + CronEvery
<1> DEFINE q == n \div CronEvery
<1>1. /\ CronEvery \in Nat \ {0} /\ q \in Int /\ CronEvery * q <= n
      /\ n < CronEvery * q + CronEvery
  BY Quotients DEF TrendsAssumption
<1>2. (CronEvery * q) % CronEvery = 0 BY <1>1
<1> DEFINE s == CronEvery * q
<1>3. s \in Int /\ s >= 0
  <2> HIDE DEF q
  <2>1. q < 0 => CronEvery * q + CronEvery <= CronEvery * 0
    BY <1>1, Multiples
  <2>2. QED BY <1>1, <2>1
<1>4. s <= n /\ n < s + CronEvery /\ s % CronEvery = 0 BY <1>1, <1>2
<1> HIDE DEF s
<1>5. s \in 0..n BY <1>3, <1>4
<1>6. QED BY <1>4, <1>5

LEMMA TrendsCount == ASSUME NEW T PROVE Trends!Cardinality(T) = Cardinality(T)
BY Zenon DEF Trends!Cardinality, Cardinality

LEMMA MoreAbove ==
  ASSUME TrendsAssumption, NEW S \in SUBSET Totals, NEW T \in SUBSET S
  PROVE  /\ Trends!Cardinality(T) \in Nat /\ Trends!Cardinality(S) \in Nat
         /\ Trends!Cardinality(T) <= Trends!Cardinality(S)
<1>1. IsFiniteSet(S) /\ IsFiniteSet(T) BY FS_Subset DEF TrendsAssumption
<1>2. QED BY <1>1, FS_Subset, FS_CardinalityType, TrendsCount

TrendsHold == Trends!TypeOK /\ Trends!RecentInv

\* Time passes or an order is inserted.
Onward ==
  /\ minute <= minute'
  /\ \A o \in Totals :
       \/ insertedAt'[o] = insertedAt[o]
       \/ insertedAt[o] = Trends!Never /\ insertedAt'[o] = minute /\ minute' = minute

\* A list gets no worse by that, since what is inserted now is not asked of it.
LEMMA FreshStays ==
  ASSUME TrendsAssumption, TrendsHold, Trends!TypeOK', Onward,
         NEW kind, NEW list, NEW t \in 0..minute, NEW d \in Int,
         Trends!Fresh(kind, list, t, d)
  PROVE  Trends!Fresh(kind, list, t, d)'
<1> USE DEF Trends!Never
<1>1. /\ minute \in 0..LastMinute /\ minute' \in 0..LastMinute
      /\ insertedAt \in [Totals -> 0..(LastMinute + 1)]
      /\ insertedAt' \in [Totals -> 0..(LastMinute + 1)]
      /\ LastMinute \in Nat
  BY DEF TrendsHold, Trends!TypeOK, Trends!Times, TrendsAssumption
<1>2. \A o \in Totals : insertedAt[o] <= minute => insertedAt'[o] = insertedAt[o]
  BY <1>1 DEF Onward
<1>3. /\ Trends!Since(d) \subseteq Trends!Since(d)'
      /\ Trends!Since(d)' \in SUBSET Totals
  <2>1. ASSUME NEW o \in Trends!Since(d) PROVE o \in Trends!Since(d)'
    <3>1. o \in Totals /\ insertedAt[o] <= minute
      BY DEF Trends!Since, Trends!Inserted
    <3>2. insertedAt'[o] = insertedAt[o] /\ insertedAt'[o] <= minute'
      BY <1>1, <1>2, <3>1 DEF Onward
    <3>3. QED
      BY <3>1, <3>2 DEF Trends!Since, Trends!Inserted, Trends!DayOf
  <2>2. QED BY <2>1 DEF Trends!Since, Trends!Inserted
<1>4. Trends!DayOf(minute) <= Trends!DayOf(minute')
      /\ Trends!DayOf(minute) \in Int /\ Trends!DayOf(minute') \in Int
  BY <1>1, DaysPass DEF Onward
<1>5. ASSUME NEW o \in Trends!Since(d)' \ list, insertedAt'[o] < t
      PROVE  /\ kind = "orders"
             /\ Trends!Cardinality({p \in Trends!Since(d)' : p > o}) >= Top
  <2>1. o \in Totals BY <1>3
  <2>2. insertedAt'[o] = insertedAt[o] /\ insertedAt[o] < t
    BY <1>1, <1>5, <2>1 DEF Onward
  <2>3. o \in Trends!Since(d)
    BY <1>1, <1>5, <2>1, <2>2 DEF Trends!Since, Trends!Inserted, Trends!DayOf
  <2>4. kind = "orders" /\ Trends!Cardinality({p \in Trends!Since(d) : p > o}) >= Top
    BY <1>5, <2>2, <2>3 DEF Trends!Fresh
  <2> DEFINE S == {p \in Trends!Since(d)' : p > o}
             T == {p \in Trends!Since(d) : p > o}
  <2>5. S \in SUBSET Totals /\ T \in SUBSET S BY <1>3
  <2> HIDE DEF S, T
  <2>6. /\ Trends!Cardinality(T) \in Nat /\ Trends!Cardinality(S) \in Nat
        /\ Trends!Cardinality(T) <= Trends!Cardinality(S)
    BY <2>5, MoreAbove
  <2>7. Trends!Cardinality(S) >= Top BY <2>4, <2>6 DEF T, TrendsAssumption
  <2>8. QED BY <2>4, <2>7 DEF S
<1>6. (Trends!DayOf(t) <= d /\ d <= Trends!DayOf(minute))'
  <2>1. Trends!DayOf(t) <= d /\ d <= Trends!DayOf(minute) BY DEF Trends!Fresh
  <2>2. Trends!DayOf(t)' = Trends!DayOf(t) BY DEF Trends!DayOf
  <2>3. d <= Trends!DayOf(minute') BY <1>4, <2>1
  <2>4. QED BY <2>1, <2>2, <2>3 DEF Trends!DayOf
<1>7. list \subseteq Trends!Since(d)' BY <1>3 DEF Trends!Fresh
<1>8. QED BY <1>5, <1>6, <1>7 DEF Trends!Fresh

LEMMA MinuteTypes ==
  ASSUME TrendsAssumption, TrendsHold
  PROVE  /\ minute \in 0..LastMinute /\ MaxRun \in Nat /\ LastMinute \in Nat
         /\ Trends!DayOf(minute) \in Nat
         /\ Trends!DayOf(minute) <= Trends!DayOf(LastMinute)
         /\ Trends!DayOf(LastMinute) \in Nat
         /\ \A f \in refreshes : /\ f.since \in 0..minute /\ f.day \in Nat
                                 /\ f.kind \in {"orders", "products"}
                                 /\ Trends!RefreshOK(f)
<1>1. minute \in 0..LastMinute /\ MaxRun \in Nat /\ LastMinute \in Nat
  BY DEF TrendsHold, Trends!TypeOK, TrendsAssumption
<1>2. /\ Trends!DayOf(minute) \in Nat
      /\ Trends!DayOf(minute) <= Trends!DayOf(LastMinute)
      /\ Trends!DayOf(LastMinute) \in Nat
  BY <1>1, DaysPass
<1>3. ASSUME NEW f \in refreshes
      PROVE  /\ f.since \in 0..minute /\ f.day \in Nat
             /\ f.kind \in {"orders", "products"} /\ Trends!RefreshOK(f)
  <2>1. Trends!RefreshOK(f) BY DEF TrendsHold, Trends!RecentInv
  <2>2. /\ f.since \in 0..Trends!Never /\ f.day \in 0..Trends!DayOf(LastMinute)
        /\ f.kind \in {"orders", "products"}
    BY DEF TrendsHold, Trends!TypeOK, Trends!Times, Trends!Kinds
  <2>3. f.since <= minute BY <2>1 DEF Trends!RefreshOK
  <2>4. QED BY <1>1, <1>2, <2>1, <2>2, <2>3 DEF Trends!Never
<1>4. QED BY <1>1, <1>2, <1>3

LEMMA KeptStays ==
  ASSUME TrendsAssumption, TrendsHold, Trends!TypeOK', Onward,
         NEW kind, cached'[kind] = cached[kind], NEW t \in 0..minute,
         Trends!KeptSince(kind, t)
  PROVE  Trends!KeptSince(kind, t)'
<1>1. PICK list : list = cached[kind] OBVIOUS
<1>2. PICK d \in 0..Trends!DayOf(minute) : Trends!Fresh(kind, list, t, d)
  BY <1>1 DEF Trends!KeptSince
<1>3. d \in Int BY <1>2, MinuteTypes
<1>4. Trends!Fresh(kind, list, t, d)' BY <1>2, <1>3, FreshStays
<1>5. d \in 0..Trends!DayOf(minute)'
  <2>1. minute \in Int /\ minute' \in Int BY DEF TrendsHold, Trends!TypeOK
  <2>2. Trends!DayOf(minute) <= Trends!DayOf(minute')
        /\ Trends!DayOf(minute) \in Int /\ Trends!DayOf(minute') \in Int
    BY <2>1, DaysPass DEF Onward
  <2>3. Trends!DayOf(minute') = Trends!DayOf(minute)' BY DEF Trends!DayOf
  <2>4. QED BY <1>2, <2>2, <2>3
<1>6. (\E e \in 0..Trends!DayOf(minute) : Trends!Fresh(kind, list, t, e))'
  BY <1>4, <1>5
<1>7. list = cached'[kind] BY <1>1
<1>8. QED BY <1>6, <1>7 DEF Trends!KeptSince, Trends!Fresh

LEMMA RefreshStays ==
  ASSUME TrendsAssumption, TrendsHold, Trends!TypeOK', Onward,
         NEW f \in refreshes, minute' <= f.since + MaxRun
  PROVE  Trends!RefreshOK(f)'
<1>1. /\ minute \in 0..LastMinute /\ f.since \in 0..minute /\ f.day \in Nat
      /\ Trends!RefreshOK(f)
  BY MinuteTypes
<1>2. minute' \in Int /\ minute <= minute' BY DEF Trends!TypeOK, Onward
<1>3. Trends!DayOf(minute) <= Trends!DayOf(minute')
      /\ Trends!DayOf(minute) \in Int /\ Trends!DayOf(minute') \in Int
  BY <1>1, <1>2, DaysPass
<1>4. f.day <= Trends!DayOf(minute') BY <1>1, <1>3 DEF Trends!RefreshOK
<1>5. ASSUME f.step = "write" PROVE Trends!Fresh(f.kind, f.list, f.since, f.day)'
  <2>1. Trends!Fresh(f.kind, f.list, f.since, f.day)
    BY <1>1, <1>5 DEF Trends!RefreshOK
  <2>2. f.day \in Int BY <1>1
  <2>3. QED BY <1>1, <2>1, <2>2, FreshStays
<1>6. f.since <= minute' BY <1>1, <1>2
<1>7. Trends!DayOf(f.since) <= f.day BY <1>1 DEF Trends!RefreshOK
<1>8. Trends!DayOf(minute)' = Trends!DayOf(minute') BY DEF Trends!DayOf
<1>9. QED BY <1>4, <1>5, <1>6, <1>7, <1>8 DEF Trends!RefreshOK, Trends!DayOf

\* What each kind of list is owed, for a timed refresh started at s.
Owed(kind, s) ==
  \/ Trends!ToCome(kind, s) \/ Trends!FailedSince(s)
  \/ \E t \in 0..minute : s - MaxRun <= t /\ Trends!KeptSince(kind, t)

LEMMA KeptGoesOn ==
  ASSUME TrendsAssumption, TrendsHold, Trends!TypeOK', Onward,
         NEW kind \in Trends!Kinds, cached'[kind] = cached[kind]
  PROVE  /\ (\E t \in 0..minute : Trends!KeptSince(kind, t))'
         /\ \A s \in Int :
              (\E t \in 0..minute : s - MaxRun <= t /\ Trends!KeptSince(kind, t)) =>
              (\E t \in 0..minute : s - MaxRun <= t /\ Trends!KeptSince(kind, t))'
<1>1. minute \in Int /\ minute' \in Int /\ minute <= minute'
  BY DEF TrendsHold, Trends!TypeOK, Onward
<1>2. \A t \in 0..minute : t \in 0..minute' BY <1>1
<1>3. \A t \in 0..minute : Trends!KeptSince(kind, t) => Trends!KeptSince(kind, t)'
  BY KeptStays
<1>4. \E t \in 0..minute : Trends!KeptSince(kind, t)
  BY DEF TrendsHold, Trends!RecentInv
<1>5. QED BY <1>2, <1>3, <1>4

\* Steps that leave the lists alone and may start a refresh.
LEMMA OnwardHolds ==
  ASSUME TrendsAssumption, TrendsHold, Trends!TypeOK', Onward,
         UNCHANGED <<cached, failedAt>>, refreshes \subseteq refreshes',
         \A f \in refreshes : minute' <= f.since + MaxRun,
         \A f \in refreshes' \ refreshes : Trends!RefreshOK(f)',
         \A s \in 0..minute' : Trends!Started(s)' =>
            \/ s \in 0..minute /\ Trends!Started(s)
            \/ \A kind \in Trends!Kinds : Trends!ToCome(kind, s)'
  PROVE  TrendsHold'
<1>1. /\ minute \in 0..LastMinute /\ minute' \in 0..LastMinute
      /\ LastMinute \in Nat /\ minute <= minute'
  BY MinuteTypes DEF Trends!TypeOK, Onward
<1>2. \A o \in Totals : insertedAt'[o] <= minute' \/ insertedAt'[o] = Trends!Never
  <2>1. \A o \in Totals : insertedAt[o] <= minute \/ insertedAt[o] = Trends!Never
    BY DEF TrendsHold, Trends!RecentInv
  <2>2. \A o \in Totals : insertedAt[o] \in Int
    BY <1>1 DEF TrendsHold, Trends!TypeOK, Trends!Times, Trends!Never
  <2>3. QED BY <1>1, <2>1, <2>2 DEF Onward
<1>3. \A f \in refreshes' : Trends!RefreshOK(f)' BY RefreshStays
<1>4. ASSUME NEW kind \in Trends!Kinds, NEW s \in 0..minute', Trends!Started(s)'
      PROVE  Owed(kind, s)'
  <2>1. CASE Trends!ToCome(kind, s)' BY <2>1 DEF Owed
  <2>2. CASE s \in 0..minute /\ Trends!Started(s)
    <3>1. Owed(kind, s) BY <2>2 DEF Owed, TrendsHold, Trends!RecentInv
    <3>2. Trends!ToCome(kind, s) => Trends!ToCome(kind, s)'
      BY DEF Trends!ToCome
    <3>3. Trends!FailedSince(s) => Trends!FailedSince(s)'
      BY DEF Trends!FailedSince, Trends!Never
    <3>4. s \in Int BY <2>2
    <3>5. QED BY <3>1, <3>2, <3>3, <3>4, KeptGoesOn DEF Owed
  <2>3. QED BY <1>4, <2>1, <2>2
<1>5. \A kind \in Trends!Kinds : (\E t \in 0..minute : Trends!KeptSince(kind, t))'
  BY KeptGoesOn
<1>6. Trends!RecentInv'
  BY <1>2, <1>3, <1>4, <1>5 DEF Trends!RecentInv, Owed, Trends!Never
<1>7. QED BY <1>6 DEF TrendsHold

\* The refresh that begins now.
LEMMA RefreshBegins ==
  ASSUME TrendsAssumption, TrendsHold
  PROVE  LET f == Trends!Refresh(minute)
         IN /\ f \in [kind : Trends!Kinds, step : {"read", "write"},
                      since : Trends!Times, day : 0..Trends!DayOf(LastMinute),
                      list : SUBSET Totals]
            /\ Trends!RefreshOK(f) /\ f.since = minute /\ f.kind = "orders"
            /\ f.step = "read" /\ f.day = Trends!DayOf(minute)
<1> DEFINE f == Trends!Refresh(minute)
<1>1. /\ minute \in 0..LastMinute /\ MaxRun \in Nat /\ LastMinute \in Nat
      /\ Trends!DayOf(minute) \in 0..Trends!DayOf(LastMinute)
      /\ Trends!DayOf(minute) \in Int
  BY MinuteTypes
<1>2. /\ f.since = minute /\ f.kind = "orders" /\ f.step = "read"
      /\ f.day = Trends!DayOf(minute)
  BY DEF Trends!Refresh
<1>3. f \in [kind : Trends!Kinds, step : {"read", "write"},
             since : Trends!Times, day : 0..Trends!DayOf(LastMinute),
             list : SUBSET Totals]
  BY <1>1 DEF Trends!Refresh, Trends!Kinds, Trends!Times, Trends!Never
<1>4. Trends!RefreshOK(f) BY <1>1, <1>2 DEF Trends!RefreshOK
<1> HIDE DEF f
<1>5. QED BY <1>2, <1>3, <1>4 DEF f

\* What goes on around the refreshes, and their beginnings.
LEMMA AroundRefreshes ==
  ASSUME TrendsAssumption, TrendsHold,
         \/ \E o \in Totals : Trends!Insert(o)
         \/ Trends!BreakStream \/ Trends!RestartStream
         \/ Trends!StartDelayed \/ Trends!StartTimed \/ Trends!Tick
  PROVE  TrendsHold'
<1> DEFINE Never == Trends!Never
<1>1. /\ minute \in 0..LastMinute /\ MaxRun \in Nat /\ LastMinute \in Nat
      /\ \A g \in refreshes : g.since \in 0..minute
                              /\ minute <= g.since + MaxRun
  BY MinuteTypes DEF Trends!RefreshOK
<1>2. ASSUME UNCHANGED <<minute, ticked, refreshes, cached, failedAt>>,
             Trends!TypeOK', Onward
      PROVE  TrendsHold'
  <2>1. \A s : Trends!Started(s)' = Trends!Started(s)
    BY <1>2 DEF Trends!Started
  <2>2. QED BY <1>1, <1>2, <2>1, OnwardHolds
<1>3. ASSUME NEW o \in Totals, Trends!Insert(o) PROVE TrendsHold'
  <2>1. /\ insertedAt[o] = Never
        /\ insertedAt' = [insertedAt EXCEPT ![o] = minute]
        /\ due' \in {minute + 1, due}
        /\ UNCHANGED <<minute, ticked, stream, refreshes, cached, failedAt>>
    BY <1>3 DEF Trends!Insert
  <2>2. Trends!TypeOK'
    BY <1>1, <2>1 DEF TrendsHold, Trends!TypeOK, Trends!Times, Trends!Never
  <2>3. Onward BY <1>1, <2>1 DEF Onward, TrendsHold, Trends!TypeOK
  <2>4. QED BY <1>2, <2>1, <2>2, <2>3
<1>4. CASE Trends!BreakStream \/ Trends!RestartStream
  <2>1. /\ stream' \in {"watching", "restarting", "closed"}
        /\ UNCHANGED <<minute, ticked, insertedAt, due, refreshes, cached, failedAt>>
    BY <1>4 DEF Trends!BreakStream, Trends!RestartStream
  <2>2. Trends!TypeOK' BY <2>1 DEF TrendsHold, Trends!TypeOK, Trends!Times
  <2>3. Onward BY <1>1, <2>1 DEF Onward
  <2>4. QED BY <1>2, <2>1, <2>2, <2>3
<1>5. CASE Trends!StartDelayed \/ Trends!StartTimed
  <2> PICK f : f = Trends!Refresh(minute) OBVIOUS
  <2>1. /\ refreshes' = refreshes \cup {f}
        /\ UNCHANGED <<minute, insertedAt, stream, cached, failedAt>>
        /\ due' \in {due, Never} /\ ticked' \in BOOLEAN
        /\ ticked' # ticked => Trends!StartTimed
    BY <1>5 DEF Trends!StartDelayed, Trends!StartTimed, TrendsHold, Trends!TypeOK
  <2>2. f \in [kind : Trends!Kinds, step : {"read", "write"},
               since : Trends!Times, day : 0..Trends!DayOf(LastMinute),
               list : SUBSET Totals]
        /\ Trends!RefreshOK(f) /\ f.since = minute /\ f.kind = "orders"
        /\ f.step = "read"
    BY RefreshBegins
  <2>3. Trends!TypeOK'
    BY <1>1, <2>1, <2>2 DEF TrendsHold, Trends!TypeOK, Trends!Times, Trends!Never
  <2>4. Onward BY <1>1, <2>1 DEF Onward
  <2>5. Trends!RefreshOK(f)'
    BY <2>1, <2>2 DEF Trends!RefreshOK, Trends!DayOf
  <2>6. ASSUME NEW s \in 0..minute', Trends!Started(s)'
        PROVE  \/ s \in 0..minute /\ Trends!Started(s)
               \/ \A kind \in Trends!Kinds : Trends!ToCome(kind, s)'
    <3>1. CASE s = minute BY <2>1, <2>2, <3>1 DEF Trends!ToCome
    <3>2. CASE s # minute BY <2>1, <2>6, <3>2 DEF Trends!Started
    <3>3. QED BY <3>1, <3>2
  <2>7. QED BY <1>1, <2>1, <2>3, <2>4, <2>5, <2>6, OnwardHolds
<1>6. CASE Trends!Tick
  <2>1. /\ minute < LastMinute /\ minute' = minute + 1 /\ ticked' = FALSE
        /\ minute % CronEvery = 0 => ticked
        /\ \A g \in refreshes : minute < g.since + MaxRun
        /\ UNCHANGED <<insertedAt, stream, due, refreshes, cached, failedAt>>
    BY <1>6 DEF Trends!Tick
  <2>2. Trends!TypeOK'
    <3>1. minute' \in 0..LastMinute BY <1>1, <2>1
    <3>2. QED BY <2>1, <3>1 DEF TrendsHold, Trends!TypeOK, Trends!Times,
                                Trends!Never
  <2>3. Onward BY <1>1, <2>1 DEF Onward
  <2>4. ASSUME NEW s \in 0..minute', Trends!Started(s)'
        PROVE  s \in 0..minute /\ Trends!Started(s)
    BY <1>1, <2>1, <2>4 DEF Trends!Started
  <2>5. \A g \in refreshes : minute' <= g.since + MaxRun BY <1>1, <2>1
  <2>6. QED BY <2>1, <2>2, <2>3, <2>4, <2>5, OnwardHolds
<1>7. QED BY <1>3, <1>4, <1>5, <1>6

\* Steps of a refresh.
LEMMA ListsHold ==
  ASSUME TrendsAssumption, TrendsHold, Trends!TypeOK',
         UNCHANGED <<minute, ticked, insertedAt>>,
         \A f \in refreshes' \ refreshes : Trends!RefreshOK(f)',
         \A kind \in Trends!Kinds :
           /\ (\E t \in 0..minute : Trends!KeptSince(kind, t))'
           /\ \A s \in 0..minute : Owed(kind, s) => Owed(kind, s)'
  PROVE  TrendsHold'
<1>1. Onward BY MinuteTypes DEF Onward
<1>2. \A f \in refreshes : minute' <= f.since + MaxRun
  BY MinuteTypes DEF Trends!RefreshOK
<1>3. \A f \in refreshes' : Trends!RefreshOK(f)' BY <1>1, <1>2, RefreshStays
<1>4. \A s : Trends!Started(s)' = Trends!Started(s) BY DEF Trends!Started
<1>5. \A kind \in Trends!Kinds, s \in 0..minute' :
        Trends!Started(s)' => Owed(kind, s)'
  BY <1>4 DEF TrendsHold, Trends!RecentInv, Owed
<1>6. Trends!RecentInv'
  BY <1>3, <1>5 DEF TrendsHold, Trends!RecentInv, Owed, Trends!Never
<1>7. QED BY <1>6 DEF TrendsHold

Refreshes ==
  [kind : Trends!Kinds, step : {"read", "write"}, since : Trends!Times,
   day : 0..Trends!DayOf(LastMinute), list : SUBSET Totals]

\* What a refresh of the orders is followed by.
LEMMA ProductsFollow ==
  ASSUME TrendsAssumption, TrendsHold, NEW f \in refreshes
  PROVE  /\ Trends!AfterKind(f) \in SUBSET Refreshes
         /\ \A g \in Trends!AfterKind(f) :
              Trends!RefreshOK(g) /\ g.since = f.since /\ g.kind = "products"
         /\ f.kind = "orders" => Trends!AfterKind(f) # {}
<1> PICK b : b = Trends!Refresh(minute) OBVIOUS
<1> DEFINE g == [b EXCEPT !.kind = "products", !.since = f.since]
<1>1. /\ minute \in 0..LastMinute /\ LastMinute \in Nat
      /\ f.since \in 0..minute /\ minute <= f.since + MaxRun
  BY MinuteTypes DEF Trends!RefreshOK
<1>2. b \in Refreshes /\ b.day = Trends!DayOf(minute) /\ b.step = "read"
      /\ b.day \in Int
  BY RefreshBegins, MinuteTypes DEF Refreshes
<1>3. f.since \in Trends!Times BY <1>1 DEF Trends!Times, Trends!Never
<1>4. /\ g \in Refreshes /\ g.kind = "products" /\ g.since = f.since
      /\ g.day = b.day /\ g.step = "read"
  BY <1>2, <1>3 DEF Refreshes, Trends!Kinds
<1>5. Trends!DayOf(f.since) <= Trends!DayOf(minute) BY <1>1, DaysPass
<1>6. Trends!AfterKind(f) = IF f.kind = "orders" THEN {g} ELSE {}
  BY DEF Trends!AfterKind
<1> HIDE DEF g
<1>7. Trends!RefreshOK(g) BY <1>1, <1>2, <1>4, <1>5 DEF Trends!RefreshOK
<1>8. QED BY <1>4, <1>6, <1>7

LEMMA KeptOwed ==
  ASSUME TrendsAssumption, TrendsHold, Trends!TypeOK', Onward,
         NEW kind \in Trends!Kinds, cached'[kind] = cached[kind],
         NEW s \in Int, UNCHANGED failedAt, Owed(kind, s),
         Trends!ToCome(kind, s) => Trends!ToCome(kind, s)'
  PROVE  Owed(kind, s)'
<1>1. Trends!FailedSince(s) => Trends!FailedSince(s)'
  BY DEF Trends!FailedSince, Trends!Never
<1>2. QED BY <1>1, KeptGoesOn DEF Owed

LEMMA RefreshReads ==
  ASSUME TrendsAssumption, TrendsHold, NEW f \in refreshes, Trends!Read(f)
  PROVE  TrendsHold'
<1> PICK list : list = Trends!Trends(f.kind, f.day) OBVIOUS
<1> DEFINE g == [f EXCEPT !.step = "write", !.list = list]
<1>1. /\ f.step = "read"
      /\ refreshes' = (refreshes \ {f}) \cup {g}
      /\ UNCHANGED <<minute, ticked, insertedAt, stream, due, cached, failedAt>>
  BY DEF Trends!Read
<1>2. /\ f \in Refreshes /\ f.day \in Nat /\ f.since \in 0..minute
      /\ f.kind \in {"orders", "products"} /\ Trends!RefreshOK(f)
  BY MinuteTypes DEF TrendsHold, Trends!TypeOK, Refreshes
<1>3. list \in SUBSET Trends!Since(f.day) /\ Trends!Since(f.day) \in SUBSET Totals
  BY <1>2 DEF Trends!Trends, Trends!Best, Trends!Since, Trends!Inserted
<1>4. /\ g \in Refreshes /\ g.kind = f.kind /\ g.since = f.since
      /\ g.day = f.day /\ g.step = "write" /\ g.list = list
  BY <1>2, <1>3 DEF Refreshes
<1>5. Trends!Fresh(f.kind, list, f.since, f.day)
  <2>1. Trends!DayOf(f.since) <= f.day /\ f.day <= Trends!DayOf(minute)
    BY <1>2 DEF Trends!RefreshOK
  <2>2. ASSUME NEW o \in Trends!Since(f.day) \ list
        PROVE  /\ f.kind = "orders"
               /\ Trends!Cardinality({p \in Trends!Since(f.day) : p > o}) >= Top
    <3>1. f.kind = "orders" BY <1>2, <2>2 DEF Trends!Trends
    <3>2. ~(Trends!Cardinality({p \in Trends!Since(f.day) : p > o}) < Top)
      BY <2>2, <3>1 DEF Trends!Trends, Trends!Best
    <3> DEFINE T == {p \in Trends!Since(f.day) : p > o}
    <3>3. T \in SUBSET Totals /\ {} \in SUBSET T BY <1>3
    <3>4. Trends!Cardinality(T) \in Nat BY <3>3, MoreAbove
    <3> HIDE DEF T
    <3>5. Trends!Cardinality(T) >= Top
      BY <3>2, <3>4 DEF T, TrendsAssumption
    <3>6. QED BY <3>1, <3>5 DEF T
  <2>3. QED BY <1>3, <2>1, <2>2 DEF Trends!Fresh
<1>6. Trends!RefreshOK(g) BY <1>2, <1>4, <1>5 DEF Trends!RefreshOK
<1> HIDE DEF g
<1>7. Trends!TypeOK'
  BY <1>1, <1>4 DEF TrendsHold, Trends!TypeOK, Refreshes, Trends!Times,
                    Trends!Never
<1>8. Onward BY <1>1, MinuteTypes DEF Onward
<1>9. Trends!RefreshOK(g)'
  BY <1>1, <1>6 DEF Trends!RefreshOK, Trends!Fresh, Trends!Since,
                    Trends!Inserted, Trends!DayOf
<1>10. \A kind, s : Trends!ToCome(kind, s) => Trends!ToCome(kind, s)'
  BY <1>1, <1>4 DEF Trends!ToCome
<1>11. ASSUME NEW kind \in Trends!Kinds
       PROVE  /\ (\E t \in 0..minute : Trends!KeptSince(kind, t))'
              /\ \A s \in 0..minute : Owed(kind, s) => Owed(kind, s)'
  BY <1>1, <1>7, <1>8, <1>10, KeptGoesOn, KeptOwed
<1>12. QED BY <1>1, <1>7, <1>9, <1>11, ListsHold

LEMMA RefreshWrites ==
  ASSUME TrendsAssumption, TrendsHold, NEW f \in refreshes, Trends!Write(f)
  PROVE  TrendsHold'
<1> PICK after : after = Trends!AfterKind(f) OBVIOUS
<1>1. /\ f.step = "write"
      /\ cached' = [cached EXCEPT ![f.kind] = f.list]
      /\ refreshes' = (refreshes \ {f}) \cup after
      /\ UNCHANGED <<minute, ticked, insertedAt, stream, due, failedAt>>
  BY DEF Trends!Write
<1>2. /\ f \in Refreshes /\ f.day \in Nat /\ f.since \in 0..minute
      /\ f.kind \in {"orders", "products"} /\ Trends!RefreshOK(f)
      /\ minute \in 0..LastMinute /\ MaxRun \in Nat
      /\ cached \in [Trends!Kinds -> SUBSET Totals]
  BY MinuteTypes DEF TrendsHold, Trends!TypeOK, Refreshes
<1>3. /\ after \in SUBSET Refreshes
      /\ \A g \in after :
           Trends!RefreshOK(g) /\ g.since = f.since /\ g.kind = "products"
      /\ f.kind = "orders" => after # {}
  BY ProductsFollow
<1>4. f.list \in SUBSET Totals /\ f.kind \in Trends!Kinds BY <1>2 DEF Refreshes
<1>5. Trends!TypeOK'
  <2>1. cached' \in [Trends!Kinds -> SUBSET Totals] BY <1>1, <1>2, <1>4
  <2>2. refreshes' \subseteq Refreshes
    BY <1>1, <1>3 DEF TrendsHold, Trends!TypeOK, Refreshes
  <2>3. QED BY <1>1, <2>1, <2>2 DEF TrendsHold, Trends!TypeOK, Refreshes,
                                    Trends!Times, Trends!Never
<1>6. Onward BY <1>1, MinuteTypes DEF Onward
<1>7. \A g \in after : Trends!RefreshOK(g)'
  BY <1>1, <1>3 DEF Trends!RefreshOK, Trends!Fresh, Trends!Since,
                    Trends!Inserted, Trends!DayOf
<1>8. Trends!KeptSince(f.kind, f.since)'
  <2>1. Trends!Fresh(f.kind, f.list, f.since, f.day) /\ f.day \in 0..Trends!DayOf(minute)
    BY <1>1, <1>2, MinuteTypes DEF Trends!RefreshOK
  <2>2. cached'[f.kind] = f.list BY <1>1, <1>2, <1>4
  <2>3. (\E d \in 0..Trends!DayOf(minute) :
           Trends!Fresh(f.kind, f.list, f.since, d))'
    BY <1>1, <2>1 DEF Trends!Fresh, Trends!Since, Trends!Inserted, Trends!DayOf
  <2>4. QED BY <2>2, <2>3 DEF Trends!KeptSince, Trends!Fresh
<1>9. ASSUME NEW kind \in Trends!Kinds
      PROVE  /\ (\E t \in 0..minute : Trends!KeptSince(kind, t))'
             /\ \A s \in 0..minute : Owed(kind, s) => Owed(kind, s)'
  <2>1. CASE kind = f.kind
    <3>1. f.since \in 0..minute' /\ \A s \in 0..minute : s - MaxRun <= f.since
      BY <1>1, <1>2 DEF Trends!RefreshOK
    <3>2. QED BY <1>8, <2>1, <3>1 DEF Owed
  <2>2. CASE kind # f.kind
    <3>1. cached'[kind] = cached[kind] BY <1>1, <1>2, <2>2
    <3>2. \A s : Trends!ToCome(kind, s) => Trends!ToCome(kind, s)'
      <4>1. f.kind = "orders" => kind = "products"
        BY <2>2 DEF Trends!Kinds
      <4>2. QED BY <1>1, <1>3, <2>2, <4>1 DEF Trends!ToCome
    <3>3. QED BY <1>1, <1>5, <1>6, <3>1, <3>2, KeptGoesOn, KeptOwed
  <2>3. QED BY <2>1, <2>2
<1>10. QED BY <1>1, <1>5, <1>7, <1>9, ListsHold

LEMMA RefreshFails ==
  ASSUME TrendsAssumption, TrendsHold, NEW f \in refreshes, Trends!Fail(f)
  PROVE  TrendsHold'
<1> PICK after : after = Trends!AfterKind(f) OBVIOUS
<1>1. /\ failedAt' = minute
      /\ refreshes' = (refreshes \ {f}) \cup after
      /\ UNCHANGED <<minute, ticked, insertedAt, stream, due, cached>>
  BY DEF Trends!Fail
<1>2. /\ after \in SUBSET Refreshes
      /\ \A g \in after : Trends!RefreshOK(g)
      /\ minute \in 0..LastMinute /\ LastMinute \in Nat
  BY ProductsFollow, MinuteTypes
<1>3. Trends!TypeOK'
  <2>1. refreshes' \subseteq Refreshes
    BY <1>1, <1>2 DEF TrendsHold, Trends!TypeOK, Refreshes
  <2>2. failedAt' \in 0..(LastMinute + 1) BY <1>1, <1>2
  <2>3. QED BY <1>1, <2>1, <2>2 DEF TrendsHold, Trends!TypeOK, Refreshes,
                                    Trends!Times, Trends!Never
<1>4. Onward BY <1>1, MinuteTypes DEF Onward
<1>5. \A g \in after : Trends!RefreshOK(g)'
  BY <1>1, <1>2 DEF Trends!RefreshOK, Trends!Fresh, Trends!Since,
                    Trends!Inserted, Trends!DayOf
<1>6. \A kind, s : s \in 0..minute => Owed(kind, s)'
  BY <1>1, <1>2 DEF Owed, Trends!FailedSince, Trends!Never
<1>7. \A kind \in Trends!Kinds : (\E t \in 0..minute : Trends!KeptSince(kind, t))'
  BY <1>1, <1>3, <1>4, KeptGoesOn
<1>8. QED BY <1>1, <1>3, <1>5, <1>6, <1>7, ListsHold

LEMMA TrendsBegin == ASSUME TrendsAssumption, Trends!Init PROVE TrendsHold
<1> USE DEF Trends!Init
<1>1. /\ minute = 0 /\ LastMinute \in Nat /\ MaxRun \in Nat
      /\ Trends!DayOf(0) \in Nat /\ 0 <= Trends!DayOf(LastMinute)
      /\ Trends!DayOf(LastMinute) \in Nat
  BY DaysPass DEF TrendsAssumption
<1>2. Trends!DayOf(0) = 0
  <2>1. DayLength * Trends!DayOf(0) <= 0
    BY Quotients DEF Trends!DayOf, TrendsAssumption
  <2>2. 0 < Trends!DayOf(0) => DayLength * 0 + DayLength <= DayLength * Trends!DayOf(0)
    BY <1>1, Multiples DEF TrendsAssumption
  <2>3. DayLength * 0 = 0 /\ DayLength > 0 BY DEF TrendsAssumption
  <2>4. QED BY <1>1, <2>1, <2>2, <2>3
<1>3. ASSUME NEW kind \in Trends!Kinds
      PROVE  /\ cached[kind] \in SUBSET Trends!Since(0)
             /\ Trends!Since(0) \in SUBSET Totals
             /\ Trends!KeptSince(kind, 0)
  <2>1. cached[kind] = Trends!Trends(kind, 0) OBVIOUS
  <2>2. /\ cached[kind] \in SUBSET Trends!Since(0)
        /\ Trends!Since(0) \in SUBSET Totals
    BY <2>1 DEF Trends!Trends, Trends!Best, Trends!Since, Trends!Inserted
  <2>3. ASSUME NEW o \in Trends!Since(0) PROVE ~(insertedAt[o] < 0)
    <3>1. o \in Totals BY <2>2
    <3>2. insertedAt[o] \in {0, LastMinute + 1} BY <3>1 DEF Trends!Never
    <3>3. QED BY <1>1, <3>2
  <2>4. Trends!Fresh(kind, cached[kind], 0, 0)
    BY <1>1, <1>2, <2>2, <2>3 DEF Trends!Fresh
  <2>5. 0 \in 0..Trends!DayOf(minute) BY <1>1, <1>2
  <2>6. QED BY <2>2, <2>4, <2>5 DEF Trends!KeptSince
<1>4. Trends!TypeOK
  <2>1. cached \in [Trends!Kinds -> SUBSET Totals] BY <1>3
  <2>2. QED BY <1>1, <2>1 DEF Trends!TypeOK, Trends!Times, Trends!Never
<1>5. Trends!RecentInv
  <2>1. \A s \in 0..minute : 0 \in 0..minute /\ s - MaxRun <= 0 BY <1>1
  <2>2. \A o \in Totals : insertedAt[o] <= minute \/ insertedAt[o] = Trends!Never
    BY <1>1
  <2>3. 0 \in 0..minute BY <1>1
  <2>4. QED BY <1>3, <2>1, <2>2, <2>3 DEF Trends!RecentInv
<1>6. QED BY <1>4, <1>5 DEF TrendsHold

LEMMA TrendsStep ==
  ASSUME TrendsAssumption, TrendsHold, [Trends!Next]_trends PROVE TrendsHold'
<1>1. CASE Trends!Next
  BY <1>1, AroundRefreshes, RefreshReads, RefreshWrites, RefreshFails
  DEF Trends!Next
<1>2. CASE UNCHANGED trends
  <2>1. UNCHANGED <<minute, ticked, insertedAt, stream, due, refreshes, cached,
                    failedAt>>
    BY <1>2 DEF trends
  <2>2. Trends!TypeOK' BY <2>1 DEF TrendsHold, Trends!TypeOK, Trends!Times, Trends!Never
  <2>3. Onward BY <2>1, MinuteTypes DEF Onward
  <2>4. ASSUME NEW kind \in Trends!Kinds
        PROVE  /\ (\E t \in 0..minute : Trends!KeptSince(kind, t))'
               /\ \A s \in 0..minute : Owed(kind, s) => Owed(kind, s)'
    <3>1. \A s : Trends!ToCome(kind, s) => Trends!ToCome(kind, s)'
      BY <2>1 DEF Trends!ToCome
    <3>2. QED BY <2>1, <2>2, <2>3, <3>1, KeptGoesOn, KeptOwed
  <2>5. QED BY <2>1, <2>2, <2>4, ListsHold
<1>3. QED BY <1>1, <1>2

\* The list kept is of a refresh that is at most a round old.
LEMMA KeptLately ==
  ASSUME TrendsAssumption, TrendsHold, NEW kind \in Trends!Kinds
  PROVE  LET from == minute - Trends!Round
         IN \/ failedAt # Trends!Never /\ failedAt >= from
            \/ \E t \in 0..minute : from <= t /\ Trends!KeptSince(kind, t)
<1> DEFINE from == minute - (CronEvery + 2 * MaxRun)
<1>1. /\ minute \in 0..LastMinute /\ MaxRun \in Nat /\ CronEvery \in Nat \ {0}
      /\ LastMinute \in Nat
  BY MinuteTypes DEF TrendsAssumption
<1>2. failedAt \in Int
  BY <1>1 DEF TrendsHold, Trends!TypeOK, Trends!Times, Trends!Never
<1>3. CASE minute <= MaxRun
  <2>1. PICK t \in 0..minute : Trends!KeptSince(kind, t)
    BY DEF TrendsHold, Trends!RecentInv
  <2>2. from <= t BY <1>1, <1>3
  <2>3. QED BY <2>1, <2>2 DEF Trends!Round
<1>4. CASE minute > MaxRun
  <2> DEFINE n == minute - MaxRun - 1
  <2>1. n \in Nat BY <1>1, <1>4
  <2>2. PICK s \in 0..n : s % CronEvery = 0 /\ n < s + CronEvery
    BY <2>1, LastTimed
  <2>3. s \in 0..minute /\ s < minute BY <1>1, <2>1
  <2>4. Trends!Started(s) BY <2>2, <2>3 DEF Trends!Started
  <2>5. Owed(kind, s) BY <2>3, <2>4 DEF TrendsHold, Trends!RecentInv, Owed
  <2>6. ~Trends!ToCome(kind, s)
    <3>1. ASSUME NEW f \in refreshes, f.since = s PROVE FALSE
      <4>1. minute <= s + MaxRun BY <3>1, MinuteTypes DEF Trends!RefreshOK
      <4>2. QED BY <1>1, <2>1, <4>1
    <3>2. QED BY <3>1 DEF Trends!ToCome
  <2>7. from <= s - MaxRun /\ from <= s BY <1>1, <2>1, <2>2
  <2>8. CASE Trends!FailedSince(s)
    <3>1. failedAt >= from BY <1>1, <1>2, <2>7, <2>8 DEF Trends!FailedSince
    <3>2. QED BY <2>8, <3>1 DEF Trends!FailedSince, Trends!Round
  <2>9. CASE \E t \in 0..minute : s - MaxRun <= t /\ Trends!KeptSince(kind, t)
    <3>1. PICK t \in 0..minute : s - MaxRun <= t /\ Trends!KeptSince(kind, t)
      BY <2>9
    <3>2. from <= t BY <1>1, <2>3, <2>7, <3>1
    <3>3. QED BY <3>1, <3>2 DEF Trends!Round
  <2>10. QED BY <2>5, <2>6, <2>8, <2>9 DEF Owed
<1>5. QED BY <1>1, <1>3, <1>4

LEMMA ListsAreRecent ==
  ASSUME TrendsAssumption, TrendsHold PROVE Trends!ServedIsRecent
<1> DEFINE from == minute - Trends!Round
           now == Trends!DayOf(minute)
<1>1. /\ minute \in 0..LastMinute /\ LastMinute \in Nat /\ from \in Int
      /\ now \in Int
  BY MinuteTypes DEF TrendsAssumption, Trends!Round
<1>2. insertedAt \in [Totals -> Int]
  BY <1>1 DEF TrendsHold, Trends!TypeOK, Trends!Times, Trends!Never
<1>3. \A day : Trends!Since(day) \in SUBSET Totals
  BY DEF Trends!Since, Trends!Inserted
<1>4. ASSUME NEW day, NEW o \in Trends!Since(day)
      PROVE  /\ insertedAt[o] \in Int /\ insertedAt[o] <= minute
             /\ Trends!DayOf(insertedAt[o]) \in Int
             /\ Trends!DayOf(insertedAt[o]) >= day
             /\ Trends!DayOf(insertedAt[o]) <= now
  <2>1. /\ insertedAt[o] \in Int /\ insertedAt[o] <= minute
        /\ Trends!DayOf(insertedAt[o]) >= day
    BY <1>2, <1>4 DEF Trends!Since, Trends!Inserted
  <2>2. QED BY <1>1, <2>1, DaysPass
<1>5. ASSUME NEW kind \in Trends!Kinds PROVE Trends!Live(kind) \in SUBSET Trends!Since(now)
  BY DEF Trends!Live, Trends!Trends, Trends!Best
<1>6. ASSUME NEW kind \in Trends!Kinds, NEW t \in 0..minute, from <= t,
             Trends!KeptSince(kind, t)
      PROVE  /\ \A o \in Trends!Live(kind) \ cached[kind] : insertedAt[o] >= from
             /\ \A o \in cached[kind] :
                  Trends!DayOf(insertedAt[o]) = now \/ now * DayLength >= from
  <2>1. PICK d \in 0..now : Trends!Fresh(kind, cached[kind], t, d)
    BY <1>6 DEF Trends!KeptSince
  <2>2. /\ Trends!DayOf(t) \in Int /\ Trends!DayOf(t) <= d /\ d <= now
        /\ d \in Int /\ cached[kind] \subseteq Trends!Since(d)
    BY <1>1, <2>1, DaysPass DEF Trends!Fresh
  <2>3. ASSUME NEW o \in Trends!Live(kind) \ cached[kind], insertedAt[o] < from
        PROVE  FALSE
    <3>1. o \in Trends!Since(now) BY <1>5
    <3>2. insertedAt[o] \in Int /\ Trends!DayOf(insertedAt[o]) = now
      BY <1>1, <1>4, <3>1
    <3>3. insertedAt[o] < t BY <1>1, <1>6, <2>3, <3>2
    <3>4. now <= Trends!DayOf(t) BY <3>2, <3>3, DaysPass
    <3>5. d = now BY <1>1, <2>2, <3>4
    <3>6. /\ kind = "orders"
          /\ Trends!Cardinality({p \in Trends!Since(now) : p > o}) >= Top
      BY <2>1, <2>3, <3>1, <3>3, <3>5 DEF Trends!Fresh
    <3>7. Trends!Cardinality({p \in Trends!Since(now) : p > o}) < Top
      BY <2>3, <3>6 DEF Trends!Live, Trends!Trends, Trends!Best
    <3> DEFINE T == {p \in Trends!Since(now) : p > o}
    <3>8. T \in SUBSET Totals /\ {} \in SUBSET T BY <1>3
    <3>9. Trends!Cardinality(T) \in Nat BY <3>8, MoreAbove
    <3>10. Trends!Cardinality(T) >= Top /\ Trends!Cardinality(T) < Top
      BY <3>6, <3>7
    <3> HIDE DEF T
    <3>11. QED BY <3>9, <3>10 DEF TrendsAssumption
  <2>4. ASSUME NEW o \in cached[kind],
               Trends!DayOf(insertedAt[o]) # now
        PROVE  now * DayLength >= from
    <3>1. d < now BY <1>1, <1>4, <2>2, <2>4
    <3>2. t < now * DayLength BY <1>1, <2>2, <3>1, DaysPass
    <3>3. now * DayLength \in Int BY <1>1 DEF TrendsAssumption
    <3>4. QED BY <1>1, <1>6, <3>2, <3>3
  <2>5. \A o \in Trends!Live(kind) \ cached[kind] : insertedAt[o] >= from
    <3>1. \A o \in Trends!Live(kind) : insertedAt[o] \in Int BY <1>4, <1>5
    <3>2. QED BY <1>1, <2>3, <3>1
  <2>6. QED BY <2>4, <2>5
<1>7. ASSUME NEW kind \in Trends!Kinds, NEW readable \in BOOLEAN,
             ~(failedAt # Trends!Never /\ failedAt >= from)
      PROVE  LET served == Trends!Served(kind, readable)
             IN /\ \A o \in Trends!Live(kind) \ served : insertedAt[o] >= from
                /\ \A o \in served :
                     Trends!DayOf(insertedAt[o]) = now \/ now * DayLength >= from
  <2>1. CASE Trends!Served(kind, readable) = Trends!Live(kind)
    <3>1. \A o \in Trends!Live(kind) : Trends!DayOf(insertedAt[o]) = now
      BY <1>1, <1>4, <1>5
    <3>2. QED BY <2>1, <3>1
  <2>2. CASE Trends!Served(kind, readable) = cached[kind]
    <3>1. PICK t \in 0..minute : from <= t /\ Trends!KeptSince(kind, t)
      BY <1>7, KeptLately
    <3>2. QED BY <1>6, <2>2, <3>1
  <2>3. QED BY <2>1, <2>2 DEF Trends!Served
<1>8. QED BY <1>7 DEF Trends!ServedIsRecent

\* For any orders, whatever the length of a day, the time between two refreshes
\* and that a refresh takes, and in any number of days: unless a refresh failed
\* within a round, a list that is served lacks no trend of today that is older
\* than a round and shows nothing of yesterday once the day is older than one.
THEOREM ListsStayRecent == Trends!Spec => []Trends!ServedIsRecent
<1>1. Trends!Init => TrendsHold BY TrendsBegin, TrendsAssumption
<1>2. TrendsHold /\ [Trends!Next]_(Trends!vars) => TrendsHold'
  BY TrendsStep, TrendsAssumption DEF Trends!vars, trends
<1>3. TrendsHold => Trends!ServedIsRecent BY ListsAreRecent, TrendsAssumption
<1>4. QED BY <1>1, <1>2, <1>3, PTL DEF Trends!Spec

\* The same of the trending orders of the shop.
THEOREM TrendsStayRecent == MCSpec => []ServedIsRecent
<1> DEFINE all == <<vars, part, overlapped, billVars, points, boards, stats, trends>>
<1>1. MCInit => TrendsHold BY TrendsBegin, TrendsAssumption DEF MCInit
<1>2. [MCNext]_all => [Trends!Next]_trends BY DEF MCNext
<1>3. TrendsHold /\ [MCNext]_all => TrendsHold'
  BY <1>2, TrendsStep, TrendsAssumption
<1>4. TrendsHold => ServedIsRecent
  BY ListsAreRecent, TrendsAssumption DEF ServedIsRecent
<1>5. QED BY <1>1, <1>3, <1>4, PTL DEF MCSpec

-----------------------------------------------------------------------------
(* The sales figures: the periods compared, and the figures of days          *)

Asked ==
  /\ query \in [from : Int, to : Int, offset : Int] /\ query.from <= query.to
  /\ IsFiniteSet(orders)
  /\ \A o \in orders : o.day \in Int /\ o.total \in Int
SalesHold == Asked /\ Stats!Chosen /\ Stats!CountedRight

LEMMA SalesBegin == ASSUME SalesAssumption, Stats!Init PROVE SalesHold
<1>1. PICK range \in Ranges, z \in Offsets :
        query = [from |-> range[1], to |-> range[2], offset |-> z]
  BY DEF Stats!Init
<1>2. range[1] \in Int /\ range[2] \in Int /\ range[1] <= range[2] /\ z \in Int
  BY DEF SalesAssumption
<1>3. Asked BY <1>1, <1>2 DEF Asked, Stats!Init, SalesAssumption
<1>4. Stats!Chosen /\ Stats!CountedRight
  BY DEF Stats!Init, Stats!Chosen, Stats!CountedRight
<1>5. QED BY <1>3, <1>4 DEF SalesHold

\* The periods and the orders stay what they are while they are counted.
LEMMA SameSales ==
  ASSUME UNCHANGED <<query, orders>>
  PROVE  /\ Asked' <=> Asked
         /\ Stats!TooLong' <=> Stats!TooLong
         /\ Stats!PeriodDays' = Stats!PeriodDays
         /\ Stats!PreviousStart' = Stats!PreviousStart
         /\ Stats!PreviousEnd' = Stats!PreviousEnd
         /\ Stats!ListedDays' = Stats!ListedDays
         /\ Stats!FromDate' = Stats!FromDate /\ Stats!ToDate' = Stats!ToDate
         /\ \A a, b : Stats!Within(a, b)' = Stats!Within(a, b)
BY DEF Asked, Stats!TooLong, Stats!PeriodDays, Stats!PreviousStart,
       Stats!PreviousEnd, Stats!ListedDays, Stats!FromDate, Stats!ToDate,
       Stats!Within, Stats!ComparisonDays, Stats!ServerEnd, Stats!ServerStart

LEMMA SalesStep ==
  ASSUME SalesHold, Stats!Next \/ UNCHANGED stats
  PROVE  SalesHold'
<1>1. UNCHANGED <<query, orders>> /\ Asked'
  BY SameSales DEF Stats!Next, Stats!Refuse, Stats!ChoosePeriods,
                   Stats!CountPeriods, Stats!CountDays, stats, SalesHold
<1>2. PICK days : days = Stats!ListedDays OBVIOUS
<1>3. PICK all : all = Stats!Within(Stats!FromDate, Stats!ToDate) OBVIOUS
<1>4. /\ Stats!ListedDays' = days
      /\ Stats!Within(Stats!FromDate, Stats!ToDate)' = all
  BY <1>1, <1>2, <1>3 DEF Stats!ListedDays, Stats!Within, Stats!FromDate,
                          Stats!ToDate
<1>5. /\ step = "counted" => current = Stats!Figures(all)
      /\ daily # <<>> =>
           daily = [d \in days |-> Stats!Figures({o \in all : o.day = d})]
  BY <1>2, <1>3 DEF SalesHold, Stats!CountedRight
<1>6. /\ step' = "counted" => current' = Stats!Figures(all)
      /\ daily' # <<>> =>
           daily' = [d \in days |-> Stats!Figures({o \in all : o.day = d})]
  <2>1. CASE Stats!Refuse BY <1>5, <2>1 DEF Stats!Refuse
  <2>2. CASE Stats!ChoosePeriods BY <1>5, <2>2 DEF Stats!ChoosePeriods
  <2>3. CASE Stats!CountPeriods BY <1>3, <1>5, <2>3 DEF Stats!CountPeriods
  <2>4. CASE Stats!CountDays BY <1>2, <1>3, <1>5, <2>4 DEF Stats!CountDays
  <2>5. CASE UNCHANGED stats BY <1>5, <2>5 DEF stats
  <2>6. QED BY <2>1, <2>2, <2>3, <2>4, <2>5 DEF Stats!Next
<1>7. Stats!Chosen'
  <2>1. CASE Stats!Refuse BY <2>1 DEF Stats!Refuse, Stats!Chosen
  <2>2. CASE Stats!ChoosePeriods
    BY <1>1, <2>2, SameSales DEF Stats!ChoosePeriods, Stats!Chosen
  <2>3. CASE Stats!CountPeriods \/ Stats!CountDays \/ UNCHANGED stats
    <3>1. (step' \in {"dated", "counted"} => step \in {"dated", "counted"})
          /\ compared' = compared
      BY <2>3 DEF Stats!CountPeriods, Stats!CountDays, stats
    <3>2. QED BY <1>1, <3>1, SameSales DEF SalesHold, Stats!Chosen
  <2>4. QED BY <2>1, <2>2, <2>3 DEF Stats!Next
<1>8. Stats!CountedRight' BY <1>4, <1>6 DEF Stats!CountedRight
<1>9. QED BY <1>1, <1>7, <1>8 DEF SalesHold

LEMMA StatsCount == ASSUME NEW T PROVE Stats!Cardinality(T) = Cardinality(T)
BY Zenon DEF Stats!Cardinality, Cardinality

LEMMA StatsSum ==
  ASSUME NEW f PROVE Stats!SumFunction(f) = SumOn(f, DOMAIN f)
BY DEF Stats!SumFunction, Stats!SumFunctionOnSet, Stats!FoldFunctionOnSet,
       Stats!MapThenFoldSet, SumOn, SumFunctionOnSet, FoldFunctionOnSet,
       MapThenFoldSet

\* Days of the branch and days of a server whose clock is ahead.
LEMMA Midnights ==
  ASSUME NEW z \in Int
  PROVE  \E q \in Int, rest \in 0..23 :
           /\ z = q * 24 + rest
           /\ \A n \in Int, k \in 0..23 :
                (n * 24 + k + z) \div 24 = n + q + IF k + rest < 24 THEN 0 ELSE 1
<1>1. PICK q \in Int, rest \in 0..23 : z = q * 24 + rest
  <2>1. z = (z \div 24) * 24 + (z % 24) /\ z \div 24 \in Int /\ z % 24 \in 0..23
    OBVIOUS
  <2>2. QED BY <2>1
<1>2. ASSUME NEW n \in Int, NEW k \in 0..23
      PROVE  (n * 24 + k + z) \div 24 = n + q + IF k + rest < 24 THEN 0 ELSE 1
  BY <1>1
<1>3. QED BY <1>1, <1>2

\* The days compared with a period: n of them, up to the day before.
LEMMA Compares ==
  ASSUME SalesHold, step \in {"dated", "counted"}
  PROVE  \E n \in Int :
           /\ Stats!ComparedDays = (query.from - n)..(query.from - 1)
           /\ n <= 90 - Stats!Length /\ Stats!Length <= 90
           /\ -1 <= n
           /\ query.offset = 0 =>
                n = IF 2 * Stats!Length <= 90 THEN Stats!Length
                    ELSE 90 - Stats!Length
<1>1. PICK from, to, z : from = query.from /\ to = query.to /\ z = query.offset
  OBVIOUS
<1>2. from \in Int /\ to \in Int /\ z \in Int /\ from <= to
  BY <1>1 DEF SalesHold, Asked
<1>3. PICK q \in Int, rest \in 0..23 :
        /\ z = q * 24 + rest
        /\ \A n \in Int, k \in 0..23 :
             (n * 24 + k + z) \div 24 = n + q + IF k + rest < 24 THEN 0 ELSE 1
  BY <1>2, Midnights
<1>4. PICK over \in {0, 1} : over = IF rest = 0 THEN 0 ELSE 1 OBVIOUS
<1>5. ASSUME NEW n \in Int, NEW k \in 0..23
      PROVE  /\ Stats!ServerStart(n * 24 + k)
                  = (n + q + IF k + rest < 24 THEN 0 ELSE 1) * 24 - z
             /\ Stats!ServerEnd(n * 24 + k)
                  = (n + q + IF k + rest < 24 THEN 0 ELSE 1) * 24 - z + 23
  <2>1. (n * 24 + k + z) \div 24 = n + q + IF k + rest < 24 THEN 0 ELSE 1
    BY <1>3
  <2>2. Stats!ServerStart(n * 24 + k) = ((n * 24 + k + z) \div 24) * 24 - z
    BY <1>1 DEF Stats!ServerStart, Stats!Day
  <2>3. QED BY <1>2, <2>1, <2>2 DEF Stats!ServerEnd, Stats!Day
<1>6. Stats!FromDate = from * 24 + 0 /\ Stats!ToDate = to * 24 + 23
  BY <1>1, <1>2 DEF Stats!FromDate, Stats!ToDate, Stats!Day
<1>7. PICK length \in Int : length = to - from + 1 BY <1>2
<1>8. Stats!Length = length /\ length <= 90
  <2>1. ~(from * 24 < to * 24 + 23 - 90 * 24)
    BY <1>2, <1>6 DEF SalesHold, Stats!Chosen, Stats!TooLong, Stats!MaxDays,
                      Stats!Day
  <2>2. QED BY <1>1, <1>2, <1>7, <2>1 DEF Stats!Length
<1>9. PICK period \in Int : period = length + over BY <1>4, <1>7
<1>10. Stats!PeriodDays = period
  <2>1. Stats!ServerStart(Stats!FromDate) = (from + q) * 24 - z
    BY <1>2, <1>3, <1>5, <1>6
  <2>2. Stats!ServerEnd(Stats!ToDate) = (to + q + over) * 24 - z + 23
    BY <1>2, <1>3, <1>4, <1>5, <1>6
  <2>3. ((to + q + over) * 24 - z + 23 - ((from + q) * 24 - z)) \div 24 + 1
          = to - from + over + 1
    BY <1>2
  <2>4. QED BY <1>2, <1>4, <1>7, <1>9, <2>1, <2>2, <2>3
               DEF Stats!PeriodDays, Stats!Day
<1>11. PICK many \in Int : many = IF 2 * period <= 90 THEN period ELSE 90 - period
  OBVIOUS
<1>12. Stats!PreviousEnd = from * 24 - rest - 1
  <2>1. Stats!FromDate - Stats!Day = (from - 1) * 24 + 0
    BY <1>2, <1>6 DEF Stats!Day
  <2>2. Stats!ServerEnd((from - 1) * 24 + 0) = (from - 1 + q) * 24 - z + 23
    <3>1. from - 1 \in Int /\ 0 \in 0..23 /\ 0 + rest < 24 BY <1>2
    <3>2. Stats!ServerEnd((from - 1) * 24 + 0) = (from - 1 + q + 0) * 24 - z + 23
      BY <1>5, <3>1
    <3>3. QED BY <1>2, <3>2
  <2>3. QED BY <1>2, <1>3, <2>1, <2>2 DEF Stats!PreviousEnd
<1>13. Stats!PreviousStart = (from - many) * 24 - rest
  <2>1. Stats!ComparisonDays = many
    BY <1>10, <1>11 DEF Stats!ComparisonDays, Stats!MaxDays
  <2>2. Stats!PreviousEnd - (many - 1) * Stats!Day
          = (from - many) * 24 + (23 - rest)
    BY <1>2, <1>12 DEF Stats!Day
  <2>3. Stats!ServerStart((from - many) * 24 + (23 - rest))
          = (from - many + q) * 24 - z
    <3>1. from - many \in Int /\ 23 - rest \in 0..23 /\ 23 - rest + rest < 24
      BY <1>2
    <3>2. Stats!ServerStart((from - many) * 24 + (23 - rest))
            = (from - many + q + 0) * 24 - z
      BY <1>5, <3>1
    <3>3. QED BY <1>2, <3>2
  <2>4. QED BY <1>2, <1>3, <2>1, <2>2, <2>3 DEF Stats!PreviousStart
<1>14. compared = IF period = 90 THEN <<>>
                  ELSE <<(from - many) * 24 - rest, from * 24 - rest - 1>>
  BY <1>10, <1>12, <1>13 DEF SalesHold, Stats!Chosen, Stats!MaxDays
<1>15. z = 0 => rest = 0 BY <1>3
<1>16. CASE period = 90
  <2>1. Stats!ComparedDays = {} BY <1>14, <1>16 DEF Stats!ComparedDays
  <2>2. (from - 0)..(from - 1) = {} BY <1>2
  <2>3. 0 <= 90 - length /\ (z = 0 => length = 90)
    BY <1>4, <1>8, <1>9, <1>15, <1>16
  <2>4. QED BY <1>1, <1>8, <2>1, <2>2, <2>3
<1>17. CASE period # 90
  <2>1. compared = <<(from - many) * 24 - rest, from * 24 - rest - 1>>
    BY <1>14, <1>17
  <2>2. compared # <<>> /\ compared[1] = (from - many) * 24 - rest
        /\ compared[2] = from * 24 - rest - 1
    BY <2>1
  <2>3. Stats!ComparedDays =
          {d \in (from - 92)..(to + 2) : /\ (from - many) * 24 - rest <= d * 24
                                         /\ d * 24 <= from * 24 - rest - 1}
    BY <1>1, <1>2, <2>2, SMTT(20)
       DEF Stats!ComparedDays, Stats!MaxDays, Stats!Day
  <2>4. many <= 90
    BY <1>2, <1>4, <1>7, <1>9, <1>11
  <2>5. \A d \in Int :
          (d \in (from - 92)..(to + 2) /\ (from - many) * 24 - rest <= d * 24
            /\ d * 24 <= from * 24 - rest - 1)
          <=> (from - many <= d /\ d <= from - 1)
    BY <1>2, <2>4
  <2>6. Stats!ComparedDays = (from - many)..(from - 1)
    BY <1>2, <2>3, <2>5
  <2>7. /\ many <= 90 - length /\ -1 <= many
        /\ z = 0 => many = IF 2 * length <= 90 THEN length ELSE 90 - length
    <3>1. 1 <= length BY <1>2, <1>7
    <3>2. z = 0 => over = 0 BY <1>4, <1>15
    <3>3. over \in {0, 1} /\ length <= 90 BY <1>8
    <3>4. QED BY <1>9, <1>11, <3>1, <3>2, <3>3
  <2>8. QED BY <1>1, <1>8, <2>6, <2>7
<1>18. QED BY <1>16, <1>17

LEMMA ComparesRight == ASSUME SalesHold PROVE ComparisonFits
<1>1. SUFFICES ASSUME step \in {"dated", "counted"}
               PROVE  /\ Stats!ComparedDays # {} =>
                           Stats!Max(Stats!ComparedDays) = query.from - 1
                      /\ Stats!Cardinality(Stats!ComparedDays) + Stats!Length
                           <= 90
                      /\ query.offset = 0 =>
                           Stats!Cardinality(Stats!ComparedDays)
                             = Stats!Min({Stats!Length, 90 - Stats!Length})
  BY DEF ComparisonFits, Stats!ComparisonFits, Stats!MaxDays
<1>2. PICK from, length, z :
        from = query.from /\ length = Stats!Length /\ z = query.offset
  OBVIOUS
<1>3. from \in Int /\ length \in Int /\ 1 <= length
  BY <1>2 DEF SalesHold, Asked, Stats!Length
<1>4. PICK n \in Int :
        /\ Stats!ComparedDays = (from - n)..(from - 1)
        /\ n <= 90 - length /\ length <= 90 /\ -1 <= n
        /\ z = 0 => n = IF 2 * length <= 90 THEN length ELSE 90 - length
  BY <1>1, <1>2, Compares
<1>5. PICK size \in Int : size = IF n = -1 THEN 0 ELSE n OBVIOUS
<1>6. Stats!Cardinality(Stats!ComparedDays) = size
  <2>1. Cardinality((from - n)..(from - 1))
          = IF from - n > from - 1 THEN 0 ELSE (from - 1) - (from - n) + 1
    <3>1. from - n \in Int /\ from - 1 \in Int BY <1>3
    <3>2. QED BY <3>1, FS_Interval
  <2>2. QED BY <1>3, <1>4, <1>5, <2>1, StatsCount
<1>7. ASSUME Stats!ComparedDays # {}
      PROVE  Stats!Max(Stats!ComparedDays) = from - 1
  <2>1. from - 1 \in Stats!ComparedDays BY <1>3, <1>4, <1>7
  <2>2. \A x \in Stats!ComparedDays : x \in Int /\ x <= from - 1 BY <1>3, <1>4
  <2>3. \A x \in Stats!ComparedDays :
          (\A y \in Stats!ComparedDays : x >= y) => x = from - 1
    BY <1>3, <2>1, <2>2
  <2>4. QED BY <1>3, <2>1, <2>2, <2>3 DEF Stats!Max
<1>8. ASSUME z = 0 PROVE size = Stats!Min({length, 90 - length})
  <2> DEFINE m == IF 2 * length <= 90 THEN length ELSE 90 - length
             S == {length, 90 - length}
  <2>1. m \in S /\ m \in Int /\ \A y \in S : m <= y BY <1>3
  <2>2. \A x \in S : (\A y \in S : x <= y) => x = m BY <1>3
  <2>3. Stats!Min(S) = m
    <3> HIDE DEF m, S
    <3>1. QED BY <2>1, <2>2 DEF Stats!Min
  <2>4. size = m BY <1>3, <1>4, <1>5, <1>8
  <2>5. QED BY <2>3, <2>4
<1>9. QED BY <1>2, <1>3, <1>4, <1>5, <1>6, <1>7, <1>8

LEMMA OfDaysAddUp == ASSUME SalesHold PROVE Stats!DaysAddUp
<1>1. SUFFICES ASSUME step = "counted", daily # <<>>
               PROVE  /\ current.orders = Stats!SumFunction(
                           [d \in DOMAIN daily |-> daily[d].orders])
                      /\ current.sales = Stats!SumFunction(
                           [d \in DOMAIN daily |-> daily[d].sales])
  BY DEF Stats!DaysAddUp
<1>2. PICK days : days = Stats!ListedDays OBVIOUS
<1>3. PICK all : all = Stats!Within(Stats!FromDate, Stats!ToDate) OBVIOUS
<1> DEFINE On(d) == {o \in all : o.day = d}
           P == [d \in days |-> On(d)]
           totals == [o \in all |-> o.total]
           g == [d \in days |-> daily[d].orders]
           h == [d \in days |-> daily[d].sales]
<1>4. /\ current = Stats!Figures(all)
      /\ daily = [d \in days |-> Stats!Figures(On(d))]
  BY <1>1, <1>2, <1>3 DEF SalesHold, Stats!CountedRight
<1>5. IsFiniteSet(all) /\ \A o \in all : o.total \in Int /\ o.day \in days
  <2>1. all \subseteq orders BY <1>3 DEF Stats!Within
  <2>2. PICK from, to : from = query.from /\ to = query.to OBVIOUS
  <2>3. from \in Int /\ to \in Int BY <2>2 DEF SalesHold, Asked
  <2>4. days = from..to BY <1>2, <2>2 DEF Stats!ListedDays
  <2>5. ASSUME NEW o \in all PROVE o.total \in Int /\ o.day \in days
    <3>1. o.total \in Int /\ o.day \in Int BY <2>1, <2>5 DEF SalesHold, Asked
    <3>2. from * 24 <= o.day * 24 /\ o.day * 24 <= to * 24 + 24 - 1
      BY <1>3, <2>2, <2>5
         DEF Stats!Within, Stats!FromDate, Stats!ToDate, Stats!Day
    <3>3. QED BY <2>3, <2>4, <3>1, <3>2
  <2>6. QED BY <2>1, <2>5, FS_Subset DEF SalesHold, Asked
<1>6. IsFiniteSet(days)
  <2>1. query.from \in Int /\ query.to \in Int BY DEF SalesHold, Asked
  <2>2. QED BY <1>2, <2>1, FS_Interval DEF Stats!ListedDays
<1>7. \A d \in days : P[d] = On(d) /\ P[d] \subseteq all OBVIOUS
<1>8. \A d \in days : IsFiniteSet(P[d]) BY <1>5, <1>7, FS_Subset
<1>9. PartsOf(days, P, all)
  <2>1. \A d \in days, e \in days : d # e => P[d] \cap P[e] = {} OBVIOUS
  <2>2. all = UNION {P[d] : d \in days} BY <1>5
  <2> HIDE DEF P
  <2>3. QED BY <1>6, <1>8, <2>1, <2>2 DEF PartsOf
<1>10. \A d \in days : g[d] = Cardinality(P[d])
  <2> SUFFICES ASSUME NEW d \in days PROVE g[d] = Cardinality(P[d]) OBVIOUS
  <2>1. g[d] = Stats!Cardinality(On(d)) BY <1>4 DEF Stats!Figures
  <2>2. P[d] = On(d) OBVIOUS
  <2> HIDE DEF g, P, On
  <2>3. QED BY <2>1, <2>2, StatsCount
<1>11. \A d \in days : h[d] = SumOn(totals, P[d])
  <2> SUFFICES ASSUME NEW d \in days PROVE h[d] = SumOn(totals, P[d]) OBVIOUS
  <2> DEFINE f == [o \in On(d) |-> o.total]
  <2>1. h[d] = Stats!SumFunction(f) BY <1>4 DEF Stats!Figures
  <2>2. DOMAIN f = On(d) /\ P[d] = On(d) OBVIOUS
  <2>3. \A o \in On(d) : f[o] = totals[o] OBVIOUS
  <2>4. IsFiniteSet(On(d)) BY <1>8, <2>2
  <2> HIDE DEF f, totals, On, h, P
  <2>5. QED BY <2>1, <2>2, <2>3, <2>4, StatsSum, SumSame
<1>12. DOMAIN daily = days BY <1>4
<1>13. current.orders = Cardinality(all) /\ current.sales = SumOn(totals, all)
  <2>1. current.orders = Cardinality(all) BY <1>4, StatsCount DEF Stats!Figures
  <2>2. current.sales = Stats!SumFunction(totals) BY <1>4 DEF Stats!Figures
  <2>3. DOMAIN totals = all OBVIOUS
  <2> HIDE DEF totals
  <2>4. QED BY <2>1, <2>2, <2>3, StatsSum
<1>14. DOMAIN g = days /\ DOMAIN h = days OBVIOUS
<1>15. /\ Stats!SumFunction([d \in DOMAIN daily |-> daily[d].orders])
            = Stats!SumFunction(g)
       /\ Stats!SumFunction([d \in DOMAIN daily |-> daily[d].sales])
            = Stats!SumFunction(h)
  BY <1>12
<1> HIDE DEF P, totals, g, h, On
<1>16. SumOn(g, days) = Cardinality(all) BY <1>5, <1>9, <1>10, SumSizes
<1>17. SumOn(h, days) = SumOn(totals, all)
  <2>1. \A o \in all : totals[o] \in Int BY <1>5 DEF totals
  <2>2. QED BY <1>9, <1>11, <2>1, SumParts
<1>18. QED BY <1>13, <1>14, <1>15, <1>16, <1>17, StatsSum

\* For any period, any orders and wherever the server runs: what a period is
\* compared with ends the day before it, and the two fit the longest range
\* (getOrderStats) ...
THEOREM PeriodsFit == Stats!Spec => []Stats!ComparisonFits
<1>1. Stats!Init => SalesHold BY SalesBegin, SalesAssumption
<1>2. SalesHold /\ [Stats!Next]_Stats!stats => SalesHold'
  BY SalesStep DEF Stats!stats, stats
<1>3. SalesHold => Stats!ComparisonFits BY ComparesRight DEF ComparisonFits
<1>4. QED BY <1>1, <1>2, <1>3, PTL DEF Stats!Spec

\* ... and its days have together the orders and sales that it has
\* (getDailySalesStats).
THEOREM DaysMakeThePeriod == Stats!Spec => []Stats!DaysAddUp
<1>1. Stats!Init => SalesHold BY SalesBegin, SalesAssumption
<1>2. SalesHold /\ [Stats!Next]_Stats!stats => SalesHold'
  BY SalesStep DEF Stats!stats, stats
<1>3. SalesHold => Stats!DaysAddUp BY OfDaysAddUp
<1>4. QED BY <1>1, <1>2, <1>3, PTL DEF Stats!Spec

\* The same of the sales of the shop.
THEOREM SalesAlwaysAddUp == MCSpec => []SalesAddUp
<1> DEFINE all == <<vars, part, overlapped, billVars, points, boards, stats, trends>>
<1>1. MCInit => SalesHold BY SalesBegin, SalesAssumption DEF MCInit
<1>2. [MCNext]_all => Stats!Next \/ UNCHANGED stats BY DEF MCNext
<1>3. SalesHold /\ [MCNext]_all => SalesHold' BY <1>2, SalesStep
<1>4. SalesHold => SalesAddUp
  BY ComparesRight, OfDaysAddUp DEF SalesAddUp, DaysAddUp
<1>5. QED BY <1>1, <1>3, <1>4, PTL DEF MCSpec

-----------------------------------------------------------------------------
(* The points of a customer: sums                                            *)

LEMMA LedgerSum ==
  ASSUME NEW f PROVE Ledger!SumFunction(f) = SumOn(f, DOMAIN f)
BY DEF Ledger!SumFunction, Ledger!SumFunctionOnSet, Ledger!FoldFunctionOnSet,
       Ledger!MapThenFoldSet, SumOn, SumFunctionOnSet, FoldFunctionOnSet,
       MapThenFoldSet

PointsDoc == [place : Diners, points : Int, deleted : BOOLEAN]
PointsIn(D) == [i \in DOMAIN D |-> D[i].points]
Total(D) == SumOn(PointsIn(D), DOMAIN D)

LEMMA PointsListed ==
  ASSUME NEW D \in Seq(PointsDoc)
  PROVE  /\ DOMAIN D = 1..Len(D) /\ Len(D) \in Nat /\ IsFiniteSet(DOMAIN D)
         /\ DOMAIN PointsIn(D) = DOMAIN D
         /\ \A i \in DOMAIN D : /\ D[i] \in PointsDoc /\ PointsIn(D)[i] \in Int
                                /\ PointsIn(D)[i] = D[i].points
<1>1. DOMAIN D = 1..Len(D) /\ Len(D) \in Nat OBVIOUS
<1>2. IsFiniteSet(1..Len(D))
  <2>1. 1 \in Int /\ Len(D) \in Int BY <1>1
  <2>2. QED BY <2>1, FS_Interval
<1>3. \A i \in DOMAIN D : D[i] \in PointsDoc OBVIOUS
<1>4. QED BY <1>1, <1>2, <1>3 DEF PointsIn, PointsDoc

LEMMA TotalChanges ==
  ASSUME NEW D \in Seq(PointsDoc), NEW i \in DOMAIN D, NEW d \in PointsDoc,
         NEW E, E = [D EXCEPT ![i] = d]
  PROVE  E \in Seq(PointsDoc) /\ Total(E) = Total(D) - D[i].points + d.points
<1>1. E \in Seq(PointsDoc) /\ DOMAIN E = DOMAIN D OBVIOUS
<1>2. \A j \in DOMAIN D \ {i} : E[j] = D[j] OBVIOUS
<1>3. E[i] = d OBVIOUS
<1>4. /\ \A j \in DOMAIN D \ {i} : PointsIn(E)[j] = PointsIn(D)[j]
      /\ PointsIn(E)[i] = d.points /\ d.points \in Int
  BY <1>1, <1>2, <1>3 DEF PointsIn, PointsDoc
<1>5. /\ IsFiniteSet(DOMAIN D) /\ \A j \in DOMAIN D : PointsIn(D)[j] \in Int
      /\ PointsIn(D)[i] = D[i].points
  BY PointsListed
<1>6. SumOn(PointsIn(E), DOMAIN D)
        = SumOn(PointsIn(D), DOMAIN D) - PointsIn(D)[i] + PointsIn(E)[i]
  <2>1. PICK f, h, S : f = PointsIn(D) /\ h = PointsIn(E) /\ S = DOMAIN D
    OBVIOUS
  <2>2. /\ IsFiniteSet(S) /\ \A y \in S : f[y] \in Int
        /\ i \in S /\ h[i] \in Int /\ \A y \in S \ {i} : h[y] = f[y]
    BY <1>4, <1>5, <2>1
  <2>3. SumOn(h, S) = SumOn(f, S) - f[i] + h[i] BY <2>2, SumChange
  <2>4. QED BY <2>1, <2>3
<1>7. QED BY <1>1, <1>4, <1>5, <1>6 DEF Total

LEMMA TotalGrows ==
  ASSUME NEW D \in Seq(PointsDoc), NEW d \in PointsDoc, NEW E, E = Append(D, d)
  PROVE  E \in Seq(PointsDoc) /\ Total(E) = Total(D) + d.points
<1> DEFINE n == Len(D) + 1
<1>1. /\ E \in Seq(PointsDoc) /\ DOMAIN E = DOMAIN D \cup {n}
      /\ n \notin DOMAIN D /\ E[n] = d /\ \A j \in DOMAIN D : E[j] = D[j]
  OBVIOUS
<1>2. /\ IsFiniteSet(DOMAIN D) /\ \A j \in DOMAIN D : PointsIn(D)[j] \in Int
  BY PointsListed
<1>3. /\ \A j \in DOMAIN D : PointsIn(E)[j] = PointsIn(D)[j]
      /\ PointsIn(E)[n] = d.points /\ d.points \in Int
  BY <1>1 DEF PointsIn, PointsDoc
<1> HIDE DEF n
<1>4. \A j \in DOMAIN D \cup {n} : PointsIn(E)[j] \in Int BY <1>2, <1>3
<1>5. SumOn(PointsIn(E), DOMAIN D \cup {n})
        = PointsIn(E)[n] + SumOn(PointsIn(E), DOMAIN D)
  BY <1>1, <1>2, <1>4, SumAdd
<1>6. SumOn(PointsIn(E), DOMAIN D) = SumOn(PointsIn(D), DOMAIN D)
  BY <1>2, <1>3, SumSame
<1>7. SumOn(PointsIn(D), DOMAIN D) \in Int BY <1>2, SumType
<1>8. QED BY <1>1, <1>3, <1>5, <1>6, <1>7 DEF Total

LEMMA TotalOfNone == Total(<<>>) = 0
BY SumEmpty DEF Total

\* Documents that were only marked have the points that they had.
LEMMA LostIs ==
  ASSUME NEW D \in Seq(PointsDoc)
  PROVE  Ledger!SumFunction([i \in DOMAIN D |-> D[i].points]) = Total(D)
<1>1. PICK f : f = [i \in DOMAIN D |-> D[i].points] OBVIOUS
<1>2. f = PointsIn(D) /\ DOMAIN f = DOMAIN D BY <1>1 DEF PointsIn
<1>3. Ledger!SumFunction(f) = SumOn(f, DOMAIN D) BY <1>2, LedgerSum
<1>4. QED BY <1>1, <1>2, <1>3 DEF Total

-----------------------------------------------------------------------------
(* The points of a customer: what a movement finds                           *)

LEMMA First1 ==
  ASSUME NEW n \in Nat, NEW I \in SUBSET (1..n), I # {}
  PROVE  Ledger!Min(I) \in I
<1>1. PICK k \in I : \A j \in I : k <= j
  <2> DEFINE R == OpToRel(<, Nat)
  <2>1. IsWellFoundedOn(R, Nat) BY NatLessThanWellFounded
  <2>2. I \subseteq Nat OBVIOUS
  <2> HIDE DEF R
  <2>3. PICK k \in I : \A j \in I : <<j, k>> \notin R
    BY <2>1, <2>2, WFMin, Zenon
  <2>4. \A j \in I : ~(j < k) BY <2>2, <2>3 DEF R, OpToRel
  <2>5. QED BY <2>2, <2>3, <2>4
<1>2. QED BY <1>1 DEF Ledger!Min

LEMMA Finds ==
  ASSUME docs \in Seq(PointsDoc), NEW what
  PROVE  \/ /\ Ledger!Found(what) = 0
            /\ \A i \in DOMAIN docs : ~Ledger!Matches(what, docs[i])
         \/ /\ Ledger!Found(what) \in DOMAIN docs
            /\ Ledger!Found(what) # 0
            /\ Ledger!Matches(what, docs[Ledger!Found(what)])
<1> DEFINE I == {i \in 1..Len(docs) : Ledger!Matches(what, docs[i])}
<1>1. Ledger!Found(what) = IF I # {} THEN Ledger!Min(I) ELSE 0
  BY DEF Ledger!Found, Ledger!SelectInSeq
<1>2. Len(docs) \in Nat /\ DOMAIN docs = 1..Len(docs) OBVIOUS
<1>3. CASE I = {} BY <1>1, <1>2, <1>3
<1>4. CASE I # {}
  <2>1. I \in SUBSET (1..Len(docs)) OBVIOUS
  <2> HIDE DEF I
  <2>2. Ledger!Min(I) \in I BY <1>2, <1>4, <2>1, First1
  <2>3. Ledger!Found(what) \in I BY <1>1, <1>4, <2>2
  <2>4. QED BY <1>2, <2>3 DEF I
<1>5. QED BY <1>3, <1>4

-----------------------------------------------------------------------------
(* The points of a customer: what each step leaves                           *)

LEMMA Movement ==
  ASSUME PointsAssumption, NEW what \in Ledger!Move
  PROVE  /\ Ledger!Amount(what.kind) \in Int /\ Ledger!At(what) \in Diners
         /\ what.order \in Purchases
         /\ Ledger!At(what) = Ledger!Where(what.order)
BY DEF Ledger!Move, Ledger!Kinds, Ledger!Amount, Ledger!Earned, Ledger!Redeemed,
       Ledger!At, Ledger!Where, PointsAssumption

\* The documents have the points there are, and the movements are what they are.
DocsRight ==
  docs \in Seq(PointsDoc) /\ Total(docs) = balance /\ balance \in Int
MovesRight ==
  /\ placed \in [Purchases -> {"new", "there", "gone"}]
  /\ moved \in [Movers -> {"idle", "insert", "log", "done"}]
  /\ move \in [Movers -> Ledger!Move \cup {None}]
  /\ \A m \in Movers : moved[m] # "idle" => move[m] \in Ledger!Move
LogsRight ==
  /\ IsFiniteSet(logs)
  /\ \A l \in logs : /\ l.quantity \in Nat /\ l.order \in Purchases
                     /\ l.of \in Movers /\ moved[l.of] = "done"
PointsHold == DocsRight /\ MovesRight /\ LogsRight /\ Ledger!OneDocument

LEMMA SameFiniteness == ASSUME NEW T PROVE Ledger!IsFiniteSet(T) <=> IsFiniteSet(T)
BY Zenon DEF Ledger!IsFiniteSet, IsFiniteSet

LEMMA PointsAreKept == PointsHold <=> Ledger!PointsInv
<1>1. ASSUME docs \in Seq(PointsDoc)
      PROVE  Ledger!NothingLost <=> Total(docs) = balance
  BY <1>1, LostIs DEF Ledger!NothingLost
<1>2. PointsDoc = [place : Diners, points : Int, deleted : BOOLEAN]
  BY DEF PointsDoc
<1>3. Ledger!IsFiniteSet(logs) <=> IsFiniteSet(logs) BY SameFiniteness
<1>4. QED
  BY <1>1, <1>2, <1>3
     DEF PointsHold, Ledger!PointsInv, DocsRight, MovesRight, LogsRight,
         Ledger!TypeOK, Ledger!LogsDone

LEMMA MoveStarts ==
  ASSUME PointsAssumption, PointsHold, NEW m \in Movers, NEW what \in Ledger!Move,
         Ledger!Begin(m, what)
  PROVE  PointsHold'
<1>1. /\ docs \in Seq(PointsDoc) /\ Total(docs) = balance /\ balance \in Int
      /\ moved[m] = "idle" /\ logs' = logs /\ placed' = placed
      /\ moved' = [moved EXCEPT ![m] = IF Ledger!Found(what) # 0 THEN "log"
                                       ELSE "insert"]
      /\ move' = [move EXCEPT ![m] = what]
  BY DEF PointsHold, DocsRight, Ledger!Begin
<1>2. PICK n : n = Ledger!Amount(what.kind) OBVIOUS
<1>3. n \in Int /\ Ledger!At(what) \in Diners BY <1>2, Movement
<1>4. MovesRight' BY <1>1 DEF PointsHold, MovesRight
<1>5. LogsRight'
  <2>1. \A l \in logs : l.of # m BY <1>1 DEF PointsHold, LogsRight
  <2>2. QED BY <1>1, <2>1 DEF PointsHold, LogsRight, MovesRight
<1>6. CASE Ledger!Found(what) # 0
  <2>1. PICK i : i = Ledger!Found(what) OBVIOUS
  <2>2. i \in DOMAIN docs /\ Ledger!Matches(what, docs[i])
    BY <1>1, <1>6, <2>1, Finds
  <2>3. PICK d : d = docs[i] OBVIOUS
  <2>4. PICK e : e = Ledger!Moved(d, what) OBVIOUS
  <2>5. d \in PointsDoc BY <1>1, <2>2, <2>3
  <2>6. /\ e \in PointsDoc /\ e.points = d.points + n /\ e.deleted = d.deleted
        /\ Ledger!At(what) = d.place => e.place = d.place
    <3>1. PICK y : y = IF Ledger!AnyPlace(what) THEN Ledger!At(what) ELSE d.place
      OBVIOUS
    <3>2. e = [d EXCEPT !.points = d.points + n, !.place = y]
      BY <1>2, <2>4, <3>1 DEF Ledger!Moved
    <3>3. d.place \in Diners /\ y \in Diners BY <1>3, <2>5, <3>1 DEF PointsDoc
    <3>4. Ledger!At(what) = d.place => y = d.place BY <3>1
    <3>5. /\ e \in PointsDoc /\ e.points = d.points + n
          /\ e.deleted = d.deleted /\ e.place = y
      <4>1. PICK p : p = d.points + n OBVIOUS
      <4>2. p \in Int BY <1>3, <2>5, <4>1 DEF PointsDoc
      <4>3. e = [d EXCEPT !.points = p, !.place = y] BY <3>2, <4>1
      <4>4. PICK z \in BOOLEAN : z = d.deleted BY <2>5 DEF PointsDoc
      <4>5. DOMAIN d = {"place", "points", "deleted"} BY <2>5 DEF PointsDoc
      <4>6. e = [place |-> y, points |-> p, deleted |-> z]
        BY <2>5, <4>3, <4>4, <4>5 DEF PointsDoc
      <4>7. QED BY <3>3, <4>1, <4>2, <4>4, <4>6 DEF PointsDoc
    <3>6. QED BY <3>4, <3>5
  <2>7. docs' = [docs EXCEPT ![i] = e] /\ balance' = balance + n
    BY <1>2, <1>6, <2>1, <2>2, <2>3, <2>4 DEF Ledger!Begin
  <2>8. docs' \in Seq(PointsDoc) /\ Total(docs') = Total(docs) - d.points + e.points
    BY <1>1, <2>2, <2>3, <2>6, <2>7, TotalChanges
  <2>9. DocsRight'
    <3>1. d.points \in Int BY <2>5 DEF PointsDoc
    <3>2. QED BY <1>1, <1>3, <2>6, <2>7, <2>8, <3>1 DEF DocsRight
  <2>10. ASSUME undisturbed' PROVE Ledger!OneDocument'
    <3>1. /\ undisturbed /\ Ledger!Running = {}
          /\ \A j \in DOMAIN docs : docs[j].place = Ledger!At(what)
      BY <2>10 DEF Ledger!Begin
    <3>2. /\ Len(docs) <= 1 /\ ~d.deleted /\ d.points = Ledger!Net(d.place)
          /\ \A l \in logs : Ledger!Where(l.order) = d.place
      BY <2>2, <2>3, <3>1 DEF PointsHold, Ledger!OneDocument
    <3>3. DOMAIN docs = {1} /\ i = 1 /\ Len(docs) = 1
      <4>1. PICK k : k = Len(docs) OBVIOUS
      <4>2. k \in Nat /\ DOMAIN docs = 1..k BY <1>1, <4>1
      <4>3. k = 1 BY <2>2, <3>2, <4>1, <4>2
      <4>4. QED BY <2>2, <4>1, <4>2, <4>3
    <3>4. Len(docs') = 1 /\ DOMAIN docs' = {1} /\ docs'[1] = e /\ docs' # <<>>
      <4>1. DOMAIN docs' = {1} /\ docs'[1] = e BY <2>7, <3>3
      <4>2. Len(docs') \in Nat /\ DOMAIN docs' = 1..Len(docs')
        <5>1. PICK E : E = docs' OBVIOUS
        <5>2. E \in Seq(PointsDoc) BY <2>8, <5>1
        <5>3. Len(E) \in Nat /\ DOMAIN E = 1..Len(E) BY <5>2
        <5>4. QED BY <5>1, <5>3
      <4>3. Len(docs') = 1
        <5>1. PICK k : k = Len(docs') OBVIOUS
        <5>2. k \in Nat /\ 1..k = {1} BY <4>1, <4>2, <5>1
        <5>3. k = 1 BY <5>2
        <5>4. QED BY <5>1, <5>3
      <4>4. docs' # <<>> BY <4>1
      <4>5. QED BY <4>1, <4>3, <4>4
    <3>5. e.place = d.place /\ Ledger!At(what) = d.place
      BY <2>2, <2>3, <2>6, <3>1
    <3>6. Ledger!Running' = {m} /\ moved'[m] = "log" /\ move'[m] = what
      BY <1>1, <1>6, <3>1 DEF Ledger!Running, PointsHold, MovesRight
    <3>7. Ledger!Net(d.place)' = Ledger!Net(d.place)
      BY <1>1 DEF Ledger!Net, Ledger!LogsOf, Ledger!PointsUsed
    <3>8. e.points = Ledger!Net(d.place)' + n BY <2>6, <3>2, <3>7
    <3>9. QED
      BY <1>1, <1>2, <2>6, <3>2, <3>4, <3>5, <3>6, <3>8
         DEF Ledger!OneDocument, Ledger!At
  <2>11. Ledger!OneDocument' BY <2>10 DEF Ledger!OneDocument
  <2>12. QED BY <1>4, <1>5, <2>9, <2>11 DEF PointsHold
<1>7. CASE Ledger!Found(what) = 0
  <2>1. UNCHANGED <<docs, balance>> BY <1>7 DEF Ledger!Begin
  <2>2. DocsRight' BY <1>1, <2>1 DEF DocsRight
  <2>3. ASSUME undisturbed' PROVE Ledger!OneDocument'
    <3>1. /\ undisturbed /\ Ledger!Running = {}
          /\ \A j \in DOMAIN docs : docs[j].place = Ledger!At(what)
      BY <2>3 DEF Ledger!Begin
    <3>2. DOMAIN docs = {}
      <4>1. \A j \in DOMAIN docs : ~Ledger!Matches(what, docs[j])
        BY <1>1, <1>7, Finds
      <4>2. \A j \in DOMAIN docs : FALSE BY <3>1, <4>1 DEF Ledger!Matches
      <4>3. QED BY <4>2
    <3>3. docs' = <<>> /\ Len(docs') = 0 /\ DOMAIN docs' = {}
      BY <1>1, <2>1, <3>2
    <3>4. logs' = {}
      BY <1>1, <2>1, <3>1, <3>3 DEF PointsHold, Ledger!OneDocument
    <3>5. Ledger!Running' = {m} /\ moved'[m] = "insert"
      BY <1>1, <1>7, <3>1 DEF Ledger!Running, PointsHold, MovesRight
    <3>6. QED BY <3>3, <3>4, <3>5 DEF Ledger!OneDocument
  <2>4. Ledger!OneDocument' BY <2>3 DEF Ledger!OneDocument
  <2>5. QED BY <1>4, <1>5, <2>2, <2>4 DEF PointsHold
<1>8. QED BY <1>6, <1>7

LEMMA DocInserted ==
  ASSUME PointsAssumption, PointsHold, NEW m \in Movers, Ledger!Insert(m)
  PROVE  PointsHold'
<1>1. /\ docs \in Seq(PointsDoc) /\ Total(docs) = balance /\ balance \in Int
      /\ moved[m] = "insert" /\ logs' = logs /\ move' = move /\ placed' = placed
      /\ moved' = [moved EXCEPT ![m] = "log"] /\ undisturbed' = undisturbed
  BY DEF PointsHold, DocsRight, Ledger!Insert
<1>2. PICK what : what = move[m] OBVIOUS
<1>3. PICK n : n = Ledger!Amount(what.kind) OBVIOUS
<1>4. PICK x : x = Ledger!At(what) OBVIOUS
<1>5. PICK d : d = Ledger!Doc(x, n) OBVIOUS
<1>6. n \in Int /\ x \in Diners
  BY <1>1, <1>2, <1>3, <1>4, Movement DEF PointsHold, MovesRight
<1>7. d \in PointsDoc /\ d.place = x /\ d.points = n /\ ~d.deleted
  BY <1>5, <1>6 DEF PointsDoc, Ledger!Doc
<1>8. docs' = Append(docs, d) /\ balance' = balance + n
  BY <1>2, <1>3, <1>4, <1>5 DEF Ledger!Insert
<1>9. DocsRight'
  <2>1. PICK D, E : D = docs /\ E = docs' OBVIOUS
  <2>2. D \in Seq(PointsDoc) /\ E = Append(D, d) BY <1>1, <1>8, <2>1
  <2>3. E \in Seq(PointsDoc) /\ Total(E) = Total(D) + d.points
    BY <1>7, <2>2, TotalGrows
  <2>4. QED BY <1>1, <1>6, <1>7, <1>8, <2>1, <2>3 DEF DocsRight
<1>10. MovesRight' BY <1>1 DEF PointsHold, MovesRight
<1>11. LogsRight'
  <2>1. \A l \in logs : l.of # m BY <1>1 DEF PointsHold, LogsRight
  <2>2. QED BY <1>1, <2>1 DEF PointsHold, LogsRight, MovesRight
<1>12. ASSUME undisturbed' PROVE Ledger!OneDocument'
  <2>1. m \in Ledger!Running BY <1>1 DEF Ledger!Running
  <2>2. /\ \A k \in Ledger!Running : k = m
        /\ docs = <<>> /\ logs = {}
    BY <1>1, <1>12, <2>1 DEF PointsHold, Ledger!OneDocument
  <2>3. docs' = <<d>> /\ Len(docs') = 1 /\ DOMAIN docs' = {1} /\ docs'[1] = d
    BY <1>8, <2>2
  <2>4. /\ \A k \in Ledger!Running' : k = m
        /\ moved'[m] = "log" /\ move'[m] = what /\ m \in Ledger!Running'
    BY <1>1, <1>2, <2>1, <2>2 DEF Ledger!Running, PointsHold, MovesRight
  <2>5. Ledger!Net(x)' = 0
    <3>1. Ledger!LogsOf("add", x)' = {} /\ Ledger!LogsOf("subtract", x)' = {}
      BY <1>1, <2>2 DEF Ledger!LogsOf
    <3>2. PICK f : f = [l \in {} |-> l.quantity] OBVIOUS
    <3>3. Ledger!SumFunction(f) = 0 BY <3>2, LedgerSum, SumEmpty
    <3>4. Ledger!Quantities({}) = 0 BY <3>2, <3>3 DEF Ledger!Quantities
    <3>5. Ledger!Net(x)' = Ledger!Quantities(Ledger!LogsOf("add", x)')
                             - Ledger!Quantities(Ledger!LogsOf("subtract", x)')
      BY DEF Ledger!Net, Ledger!PointsUsed, Ledger!Quantities
    <3>6. QED BY <3>1, <3>4, <3>5
  <2>6. QED
    BY <1>1, <1>3, <1>4, <1>6, <1>7, <2>2, <2>3, <2>4, <2>5
       DEF Ledger!OneDocument
<1>13. Ledger!OneDocument' BY <1>12 DEF Ledger!OneDocument
<1>14. QED BY <1>9, <1>10, <1>11, <1>13 DEF PointsHold

LEMMA QuantityOf ==
  ASSUME NEW A, IsFiniteSet(A), \A l \in A : l.quantity \in Int
  PROVE  /\ Ledger!Quantities(A) = SumOn([l \in A |-> l.quantity], A)
         /\ Ledger!Quantities(A) \in Int
<1>1. PICK f : f = [l \in A |-> l.quantity] OBVIOUS
<1>2. DOMAIN f = A /\ \A l \in A : f[l] \in Int BY <1>1
<1>3. Ledger!SumFunction(f) = SumOn(f, A) BY <1>2, LedgerSum
<1>4. SumOn(f, A) \in Int BY <1>2, SumType
<1>5. QED BY <1>1, <1>3, <1>4 DEF Ledger!Quantities

LEMMA QuantityAdds ==
  ASSUME NEW A, IsFiniteSet(A), \A l \in A : l.quantity \in Int,
         NEW e, e \notin A, e.quantity \in Int
  PROVE  Ledger!Quantities(A \cup {e}) = e.quantity + Ledger!Quantities(A)
<1>1. PICK B : B = A \cup {e} OBVIOUS
<1>2. IsFiniteSet(B) /\ \A l \in B : l.quantity \in Int
  BY <1>1, FS_AddElement
<1>3. PICK f, g : f = [l \in A |-> l.quantity] /\ g = [l \in B |-> l.quantity]
  OBVIOUS
<1>4. /\ \A l \in A \cup {e} : g[l] \in Int
      /\ \A l \in A : g[l] = f[l]
      /\ g[e] = e.quantity
  BY <1>1, <1>2, <1>3
<1>5. SumOn(g, A \cup {e}) = g[e] + SumOn(g, A) BY <1>4, SumAdd
<1>6. SumOn(g, A) = SumOn(f, A) BY <1>4, SumSame
<1>7. Ledger!Quantities(A) = SumOn(f, A) BY <1>3, QuantityOf
<1>8. Ledger!Quantities(B) = SumOn(g, B) BY <1>2, <1>3, QuantityOf
<1>9. QED BY <1>1, <1>4, <1>5, <1>6, <1>7, <1>8

\* What is logged at a restaurant goes up by what a movement there logs.
LEMMA NetMoves ==
  ASSUME LogsRight, NEW x, NEW n \in Int, NEW e, e \notin logs,
         e.quantity = (IF n > 0 THEN n ELSE -n),
         e.adjustType = (IF n > 0 THEN "add" ELSE "subtract"),
         Ledger!Where(e.order) = x, logs' = logs \cup {e}
  PROVE  Ledger!Net(x)' = Ledger!Net(x) + n
<1>1. PICK A, S, B, T : /\ A = Ledger!LogsOf("add", x)
                        /\ S = Ledger!LogsOf("subtract", x)
                        /\ B = Ledger!LogsOf("add", x)'
                        /\ T = Ledger!LogsOf("subtract", x)'
  OBVIOUS
<1>2. /\ IF n > 0 THEN B = A \cup {e} /\ T = S ELSE B = A /\ T = S \cup {e}
      /\ e \notin A /\ e \notin S
  BY <1>1 DEF Ledger!LogsOf
<1>3. /\ IsFiniteSet(A) /\ IsFiniteSet(S)
      /\ \A l \in A \cup S : l.quantity \in Int
  <2>1. A \subseteq logs /\ S \subseteq logs BY <1>1 DEF Ledger!LogsOf
  <2>2. QED BY <2>1, FS_Subset DEF LogsRight
<1>4. Ledger!Quantities(A) \in Int /\ Ledger!Quantities(S) \in Int
  BY <1>3, QuantityOf
<1>5. e.quantity \in Int OBVIOUS
<1>6. Ledger!Net(x) = Ledger!Quantities(A) - Ledger!Quantities(S)
  BY <1>1 DEF Ledger!Net, Ledger!PointsUsed
<1>7. Ledger!Net(x)' = Ledger!Quantities(B) - Ledger!Quantities(T)
  BY <1>1 DEF Ledger!Net, Ledger!PointsUsed, Ledger!Quantities
<1>8. CASE n > 0
  <2>1. B = A \cup {e} /\ T = S BY <1>2, <1>8
  <2>2. Ledger!Quantities(A \cup {e}) = e.quantity + Ledger!Quantities(A)
    BY <1>2, <1>3, <1>5, QuantityAdds
  <2>3. QED BY <1>4, <1>6, <1>7, <1>8, <2>1, <2>2
<1>9. CASE ~(n > 0)
  <2>1. B = A /\ T = S \cup {e} BY <1>2, <1>9
  <2>2. Ledger!Quantities(S \cup {e}) = e.quantity + Ledger!Quantities(S)
    BY <1>2, <1>3, <1>5, QuantityAdds
  <2>3. QED BY <1>4, <1>6, <1>7, <1>9, <2>1, <2>2
<1>10. QED BY <1>8, <1>9

LEMMA MoveLogged ==
  ASSUME PointsAssumption, PointsHold, NEW m \in Movers, Ledger!Log(m)
  PROVE  PointsHold'
<1>1. PICK what : what = move[m] OBVIOUS
<1>2. PICK n : n = Ledger!Amount(what.kind) OBVIOUS
<1>3. PICK e : e = [of |-> m, order |-> what.order,
                    adjustType |-> IF n > 0 THEN "add" ELSE "subtract",
                    quantity |-> IF n > 0 THEN n ELSE -n]
  OBVIOUS
<1>4. /\ moved[m] = "log" /\ docs' = docs /\ move' = move /\ placed' = placed
      /\ balance' = balance /\ undisturbed' = undisturbed
      /\ moved' = [moved EXCEPT ![m] = "done"] /\ logs' = logs \cup {e}
  BY <1>1, <1>2, <1>3 DEF Ledger!Log
<1>5. what \in Ledger!Move BY <1>1, <1>4 DEF PointsHold, MovesRight
<1>6. n \in Int /\ what.order \in Purchases /\ Ledger!At(what) = Ledger!Where(what.order)
  BY <1>2, <1>5, Movement
<1>7. /\ e.of = m /\ e.order = what.order
      /\ e.quantity = (IF n > 0 THEN n ELSE -n)
      /\ e.adjustType = (IF n > 0 THEN "add" ELSE "subtract")
  BY <1>3
<1>8. e.quantity \in Nat BY <1>6, <1>7
<1>9. e \notin logs
  <2>1. \A l \in logs : moved[l.of] = "done" BY DEF PointsHold, LogsRight
  <2>2. QED BY <1>4, <1>7, <2>1
<1>10. DocsRight' BY <1>4 DEF PointsHold, DocsRight
<1>11. MovesRight' BY <1>4 DEF PointsHold, MovesRight
<1>12. LogsRight'
  <2>1. IsFiniteSet(logs') BY <1>4, FS_AddElement DEF PointsHold, LogsRight
  <2>2. ASSUME NEW l \in logs' PROVE /\ l.quantity \in Nat /\ l.order \in Purchases
                                     /\ l.of \in Movers /\ moved'[l.of] = "done"
    <3>1. moved'[m] = "done" BY <1>4 DEF PointsHold, MovesRight
    <3>2. CASE l = e BY <1>6, <1>7, <1>8, <3>1, <3>2
    <3>3. CASE l \in logs
      BY <1>4, <3>3 DEF PointsHold, LogsRight, MovesRight
    <3>4. QED BY <1>4, <2>2, <3>2, <3>3
  <2>3. QED BY <2>1, <2>2 DEF LogsRight
<1>13. ASSUME undisturbed' PROVE Ledger!OneDocument'
  <2>1. m \in Ledger!Running BY <1>4 DEF Ledger!Running
  <2>2. \A k \in Ledger!Running : k = m
    BY <1>4, <1>13, <2>1 DEF PointsHold, Ledger!OneDocument
  <2>3. Ledger!Running' = {}
    <3>1. moved'[m] = "done" BY <1>4 DEF PointsHold, MovesRight
    <3>2. \A k \in Movers : k # m => moved'[k] = moved[k]
      BY <1>4 DEF PointsHold, MovesRight
    <3>3. QED BY <2>2, <3>1, <3>2 DEF Ledger!Running
  <2>4. docs # <<>> /\ Len(docs) <= 1
    BY <1>4, <1>13, <2>1 DEF PointsHold, Ledger!OneDocument
  <2>5. ASSUME NEW i \in DOMAIN docs
        PROVE  /\ ~docs[i].deleted
               /\ \A l \in logs' : Ledger!Where(l.order) = docs[i].place
               /\ docs[i].points = Ledger!Net(docs[i].place)'
    <3>1. PICK x : x = docs[i].place OBVIOUS
    <3>2. /\ ~docs[i].deleted /\ \A l \in logs : Ledger!Where(l.order) = x
          /\ Ledger!At(move[m]) = x
          /\ docs[i].points = Ledger!Net(x) + Ledger!Amount(move[m].kind)
      BY <1>4, <1>13, <2>1, <2>5, <3>1 DEF PointsHold, Ledger!OneDocument
    <3>3. Ledger!Where(e.order) = x BY <1>1, <1>6, <1>7, <3>2
    <3>4. LogsRight BY DEF PointsHold
    <3>5. Ledger!Net(x)' = Ledger!Net(x) + n
      BY <1>4, <1>6, <1>7, <1>9, <3>3, <3>4, NetMoves
    <3>6. docs[i].points = Ledger!Net(x)' BY <1>1, <1>2, <3>2, <3>5
    <3>7. Ledger!Net(x)' = Ledger!Net(docs[i].place)'
      BY <1>4, <3>1 DEF Ledger!Net, Ledger!PointsUsed, Ledger!LogsOf
    <3>8. QED BY <1>4, <3>1, <3>2, <3>3, <3>6, <3>7
  <2>6. QED BY <1>4, <2>3, <2>4, <2>5 DEF Ledger!OneDocument
<1>14. Ledger!OneDocument' BY <1>13 DEF Ledger!OneDocument
<1>15. QED BY <1>10, <1>11, <1>12, <1>14 DEF PointsHold

\* Orders come and go without the points, or their log, being touched.
LEMMA OrdersChange ==
  ASSUME PointsHold, NEW o \in Purchases,
         Ledger!InsertOrder(o) \/ Ledger!DeleteOrder(o)
  PROVE  PointsHold'
<1>1. PICK now \in {"there", "gone"} :
        /\ placed' = [placed EXCEPT ![o] = now]
        /\ UNCHANGED <<docs, logs, moved, move, balance, undisturbed>>
  BY DEF Ledger!InsertOrder, Ledger!DeleteOrder
<1>2. DocsRight' /\ LogsRight' BY <1>1 DEF PointsHold, DocsRight, LogsRight
<1>3. MovesRight' BY <1>1 DEF PointsHold, MovesRight
<1>4. Ledger!OneDocument' <=> Ledger!OneDocument
  BY <1>1 DEF Ledger!OneDocument, Ledger!Running, Ledger!Net,
              Ledger!PointsUsed, Ledger!LogsOf
<1>5. QED BY <1>2, <1>3, <1>4 DEF PointsHold

\* What the administration asks for, and what fails, is not undisturbed.
LEMMA PointsDisturbed ==
  ASSUME PointsAssumption, PointsHold,
         \/ \E m \in Movers : Ledger!Fail(m)
         \/ \E place \in Diners : Ledger!Create(place, 3)
         \/ Ledger!Update(3) \/ Ledger!DeleteReward
  PROVE  PointsHold'
<1>1. docs \in Seq(PointsDoc) /\ Total(docs) = balance /\ balance \in Int
  BY DEF PointsHold, DocsRight
<1>2. PICK D, E : D = docs /\ E = docs' OBVIOUS
<1>3. Ledger!OneDocument'
  <2>1. undisturbed' = FALSE
    BY DEF Ledger!Fail, Ledger!Create, Ledger!Update, Ledger!DeleteReward,
           Ledger!Edit
  <2>2. QED BY <2>1 DEF Ledger!OneDocument
<1>4. ASSUME NEW m \in Movers, Ledger!Fail(m) PROVE PointsHold'
  <2>1. /\ moved' = [moved EXCEPT ![m] = "done"] /\ moved[m] # "idle"
        /\ UNCHANGED <<docs, placed, logs, move, balance>>
    BY <1>4 DEF Ledger!Fail, Ledger!Running
  <2>2. DocsRight' BY <1>1, <2>1 DEF DocsRight
  <2>3. MovesRight' BY <2>1 DEF PointsHold, MovesRight
  <2>4. LogsRight'
    <3>1. \A k \in Movers : moved[k] = "done" => moved'[k] = "done"
      BY <2>1 DEF PointsHold, MovesRight
    <3>2. QED BY <2>1, <3>1 DEF PointsHold, LogsRight
  <2>5. QED BY <1>3, <2>2, <2>3, <2>4 DEF PointsHold
<1>5. ASSUME UNCHANGED <<placed, logs, moved, move>>, DocsRight' PROVE PointsHold'
  <2>1. MovesRight' BY <1>5 DEF PointsHold, MovesRight
  <2>2. LogsRight' BY <1>5 DEF PointsHold, LogsRight
  <2>3. QED BY <1>3, <1>5, <2>1, <2>2 DEF PointsHold
<1>6. ASSUME NEW place \in Diners, Ledger!Create(place, 3) PROVE PointsHold'
  <2>1. PICK d : d = Ledger!Doc(place, 3) OBVIOUS
  <2>2. d \in PointsDoc /\ d.points = 3 BY <2>1 DEF Ledger!Doc, PointsDoc
  <2>3. E = Append(D, d) /\ balance' = balance + 3
    BY <1>2, <1>6, <2>1 DEF Ledger!Create
  <2>4. E \in Seq(PointsDoc) /\ Total(E) = Total(D) + d.points
    BY <1>1, <1>2, <2>2, <2>3, TotalGrows
  <2>5. DocsRight' BY <1>1, <1>2, <2>2, <2>3, <2>4 DEF DocsRight
  <2>6. UNCHANGED <<placed, logs, moved, move>> BY <1>6 DEF Ledger!Create, Ledger!Edit
  <2>7. QED BY <1>5, <2>5, <2>6
<1>7. ASSUME docs # <<>>
      PROVE  1 \in DOMAIN D /\ D[1] \in PointsDoc /\ D[1].points \in Int
  <2>1. 1 \in DOMAIN D BY <1>1, <1>2, <1>7
  <2>2. D[1] \in PointsDoc BY <1>1, <1>2, <2>1
  <2>3. QED BY <2>1, <2>2 DEF PointsDoc
<1>8. ASSUME NEW e \in PointsDoc, docs # <<>>, E = [D EXCEPT ![1] = e],
             balance' = balance - D[1].points + e.points
      PROVE  DocsRight'
  <2>1. E \in Seq(PointsDoc) /\ Total(E) = Total(D) - D[1].points + e.points
    <3>1. PICK i : i = 1 OBVIOUS
    <3>2. /\ D \in Seq(PointsDoc) /\ i \in DOMAIN D
          /\ E = [D EXCEPT ![i] = e]
      BY <1>1, <1>2, <1>7, <1>8, <3>1
    <3>3. E \in Seq(PointsDoc) /\ Total(E) = Total(D) - D[i].points + e.points
      BY <3>2, TotalChanges
    <3>4. QED BY <3>1, <3>3
  <2>2. e.points \in Int BY DEF PointsDoc
  <2>3. QED BY <1>1, <1>2, <1>7, <1>8, <2>1, <2>2 DEF DocsRight
<1>9. ASSUME Ledger!Update(3) PROVE PointsHold'
  <2>1. docs # <<>> BY <1>9 DEF Ledger!Update
  <2>2. PICK e : e = [D[1] EXCEPT !.points = 3] OBVIOUS
  <2>3. e \in PointsDoc /\ e.points = 3 BY <1>7, <2>1, <2>2 DEF PointsDoc
  <2>4. E = [D EXCEPT ![1] = e] /\ balance' = balance - D[1].points + e.points
    BY <1>2, <1>7, <1>9, <2>1, <2>2, <2>3 DEF Ledger!Update
  <2>5. UNCHANGED <<placed, logs, moved, move>> BY <1>9 DEF Ledger!Update, Ledger!Edit
  <2>6. QED BY <1>5, <1>8, <2>1, <2>3, <2>4, <2>5
<1>10. ASSUME Ledger!DeleteReward PROVE PointsHold'
  <2>1. docs # <<>> BY <1>10 DEF Ledger!DeleteReward
  <2>2. PICK e : e = [D[1] EXCEPT !.deleted = TRUE] OBVIOUS
  <2>3. e \in PointsDoc /\ e.points = D[1].points
    BY <1>7, <2>1, <2>2 DEF PointsDoc
  <2>4. E = [D EXCEPT ![1] = e] /\ balance' = balance - D[1].points + e.points
    BY <1>1, <1>2, <1>7, <1>10, <2>1, <2>2, <2>3 DEF Ledger!DeleteReward
  <2>5. UNCHANGED <<placed, logs, moved, move>>
    BY <1>10 DEF Ledger!DeleteReward, Ledger!Edit
  <2>6. QED BY <1>5, <1>8, <2>1, <2>3, <2>4, <2>5
<1>11. QED BY <1>4, <1>6, <1>9, <1>10

LEMMA PointsBegin == PointsAssumption /\ Ledger!Init => PointsHold
<1> SUFFICES ASSUME PointsAssumption, Ledger!Init PROVE PointsHold OBVIOUS
<1>1. /\ docs = <<>> /\ logs = {} /\ balance = 0
      /\ moved = [m \in Movers |-> "idle"] /\ move = [m \in Movers |-> None]
      /\ placed = [o \in Purchases |-> "new"]
  BY DEF Ledger!Init
<1>2. DocsRight BY <1>1, TotalOfNone DEF DocsRight
<1>3. MovesRight BY <1>1 DEF MovesRight
<1>4. LogsRight BY <1>1, FS_EmptySet DEF LogsRight
<1>5. Ledger!Running = {} BY <1>1 DEF Ledger!Running
<1>6. Ledger!OneDocument BY <1>1, <1>5 DEF Ledger!OneDocument
<1>7. QED BY <1>2, <1>3, <1>4, <1>6 DEF PointsHold

LEMMA PointsStay == PointsHold /\ UNCHANGED points => PointsHold'
<1> SUFFICES ASSUME PointsHold, UNCHANGED points PROVE PointsHold' OBVIOUS
<1>1. UNCHANGED <<docs, placed, logs, moved, move, balance, undisturbed>> BY DEF points
<1>2. DocsRight' /\ MovesRight' /\ LogsRight'
  BY <1>1 DEF PointsHold, DocsRight, MovesRight, LogsRight
<1>3. Ledger!OneDocument' <=> Ledger!OneDocument
  BY <1>1 DEF Ledger!OneDocument, Ledger!Running, Ledger!Net,
              Ledger!PointsUsed, Ledger!LogsOf
<1>4. QED BY <1>2, <1>3 DEF PointsHold

LEMMA MovementsStep ==
  PointsAssumption /\ PointsHold /\ (Ledger!Next \/ UNCHANGED points)
    => PointsHold'
<1> SUFFICES ASSUME PointsAssumption, PointsHold, Ledger!Next \/ UNCHANGED points
             PROVE  PointsHold'
  OBVIOUS
<1>1. ASSUME NEW m \in Movers,
             \/ \E what \in Ledger!Move : Ledger!Begin(m, what)
             \/ Ledger!Insert(m) \/ Ledger!Log(m)
      PROVE  PointsHold'
  BY <1>1, MoveStarts, DocInserted, MoveLogged
<1>2. QED BY <1>1, OrdersChange, PointsDisturbed, PointsStay DEF Ledger!Next

-----------------------------------------------------------------------------
(* The points of a customer: what is shown of them                           *)

LEMMA FirstOfOne ==
  /\ Ledger!Min({1}) = 1 /\ Ledger!Max({1}) = 1
<1>1. \A i \in {1} : i = 1 /\ i <= 1 /\ i >= 1 OBVIOUS
<1>2. QED BY <1>1 DEF Ledger!Min, Ledger!Max

\* The uses at the branches, and those of orders that are not there, add up to
\* those of the restaurant.
LEMMA UsesOfBranches ==
  ASSUME PointsAssumption, LogsRight, NEW place
  PROVE  LET Here == {b \in Shops : DinerOf[b] = place} IN
         Ledger!PointsUsed(place)
           = Ledger!SumFunction([branch \in Here |-> Ledger!PointsUsedAt(branch)])
               + Ledger!Quantities(Ledger!Unseen(place))
<1> DEFINE Here == {b \in Shops : DinerOf[b] = place}
<1>1. PICK U, V, W : /\ U = Ledger!LogsOf("subtract", place)
                     /\ V = {l \in U : placed[l.order] = "there"}
                     /\ W = Ledger!Unseen(place)
  OBVIOUS
<1>2. PICK H : H = Here OBVIOUS
<1>3. PICK P : P = [b \in H |-> {l \in V : ShopOf[l.order] = b}] OBVIOUS
<1>4. PICK g : g = [branch \in H |-> Ledger!PointsUsedAt(branch)] OBVIOUS
<1>5. PICK f : f = [l \in U |-> l.quantity] OBVIOUS
<1>6. /\ IsFiniteSet(U)
      /\ \A l \in U : l.quantity \in Int /\ ShopOf[l.order] \in H
  <2>1. U \subseteq logs BY <1>1 DEF Ledger!LogsOf
  <2>2. \A l \in U : l.quantity \in Int /\ ShopOf[l.order] \in Shops
    BY <2>1 DEF LogsRight, PointsAssumption
  <2>3. \A l \in U : DinerOf[ShopOf[l.order]] = place
    BY <1>1 DEF Ledger!LogsOf, Ledger!Where
  <2>4. QED BY <1>2, <2>1, <2>2, <2>3, FS_Subset DEF LogsRight
<1>7. /\ U = V \cup W /\ V \cap W = {} /\ IsFiniteSet(V) /\ IsFiniteSet(W)
      /\ \A l \in U : f[l] \in Int
  <2>1. U = V \cup W /\ V \cap W = {} BY <1>1 DEF Ledger!Unseen
  <2>2. V \subseteq U /\ W \subseteq U BY <2>1
  <2>3. QED BY <1>5, <1>6, <2>1, <2>2, FS_Subset
<1>8. IsFiniteSet(H)
  <2>1. H \subseteq Shops BY <1>2
  <2>2. QED BY <2>1, FS_Subset DEF PointsAssumption
<1>9. \A b \in H : P[b] = {l \in V : ShopOf[l.order] = b} BY <1>3
<1>10. PartsOf(H, P, V)
  <2>1. \A b \in H : IsFiniteSet(P[b])
    <3>1. \A b \in H : P[b] \subseteq V BY <1>9
    <3>2. QED BY <1>7, <3>1, FS_Subset
  <2>2. \A b \in H, c \in H : b # c => P[b] \cap P[c] = {} BY <1>9
  <2>3. V = UNION {P[b] : b \in H} BY <1>6, <1>7, <1>9
  <2>4. QED BY <1>8, <2>1, <2>2, <2>3 DEF PartsOf
<1>11. ASSUME NEW A, A \subseteq U
       PROVE  Ledger!Quantities(A) = SumOn(f, A)
  <2>1. IsFiniteSet(A) /\ \A l \in A : l.quantity \in Int
    BY <1>6, <1>11, FS_Subset
  <2>2. PICK h : h = [l \in A |-> l.quantity] OBVIOUS
  <2>3. Ledger!Quantities(A) = SumOn(h, A) BY <2>1, <2>2, QuantityOf
  <2>4. \A l \in A : h[l] = f[l] BY <1>5, <1>11, <2>2
  <2>5. SumOn(h, A) = SumOn(f, A) BY <2>1, <2>4, SumSame
  <2>6. QED BY <2>3, <2>5
<1>12. ASSUME NEW b \in H PROVE g[b] = SumOn(f, P[b])
  <2>1. DinerOf[b] = place BY <1>2
  <2>2. P[b] = Ledger!UsesAt(b) BY <1>1, <1>9, <2>1 DEF Ledger!UsesAt
  <2>3. g[b] = Ledger!Quantities(P[b]) BY <1>4, <2>2 DEF Ledger!PointsUsedAt
  <2>4. P[b] \subseteq U BY <1>7, <1>9
  <2>5. PICK S : S = P[b] OBVIOUS
  <2>6. Ledger!Quantities(S) = SumOn(f, S) BY <1>11, <2>4, <2>5
  <2>7. QED BY <2>3, <2>5, <2>6
<1>13. SumOn(g, H) = SumOn(f, V)
  <2>1. \A l \in V : f[l] \in Int BY <1>7
  <2>2. QED BY <1>10, <1>12, <2>1, SumParts
<1>14. SumOn(f, U) = SumOn(f, V) + SumOn(f, W)
  <2>1. \A l \in V \cup W : f[l] \in Int BY <1>7
  <2>2. SumOn(f, V \cup W) = SumOn(f, V) + SumOn(f, W) BY <1>7, <2>1, SumBoth
  <2>3. QED BY <1>7, <2>2
<1>15. Ledger!SumFunction(g) = SumOn(g, H)
  <2>1. DOMAIN g = H BY <1>4
  <2>2. QED BY <2>1, LedgerSum
<1>16. Ledger!Quantities(U) = SumOn(f, U) /\ Ledger!Quantities(W) = SumOn(f, W)
  <2>1. U \subseteq U /\ W \subseteq U BY <1>7
  <2>2. QED BY <1>11, <2>1
<1>17. Ledger!PointsUsed(place) = Ledger!SumFunction(g) + Ledger!Quantities(W)
  BY <1>1, <1>13, <1>14, <1>15, <1>16 DEF Ledger!PointsUsed
<1>18. QED BY <1>1, <1>2, <1>4, <1>17

LEMMA NoQuantities == Ledger!Quantities({}) = 0
<1>1. PICK f : f = [l \in {} |-> l.quantity] OBVIOUS
<1>2. Ledger!SumFunction(f) = 0 BY <1>1, LedgerSum, SumEmpty
<1>3. QED BY <1>1, <1>2 DEF Ledger!Quantities

\* Undisturbed, what a cart, the list and the summary show is what is logged.
LEMMA PointsSettle ==
  ASSUME PointsHold, undisturbed, Ledger!Running = {}, NEW place
  PROVE  Ledger!Settled(place)
<1>1. PICK D : D = docs OBVIOUS
<1>2. D \in Seq(PointsDoc) /\ Len(D) \in Nat /\ DOMAIN D = 1..Len(D)
  BY <1>1 DEF PointsHold, DocsRight
<1>3. /\ Len(D) <= 1 /\ (D = <<>> => logs = {})
      /\ \A i \in DOMAIN D : /\ ~D[i].deleted /\ D[i].points = Ledger!Net(D[i].place)
                             /\ \A l \in logs : Ledger!Where(l.order) = D[i].place
  BY <1>1 DEF PointsHold, Ledger!OneDocument
<1> DEFINE I == {i \in 1..Len(D) : D[i].place = place /\ ~D[i].deleted}
           J == {i \in 1..Len(D) : D[i].place = place}
<1>4. I = J BY <1>2, <1>3
<1>5. J = {} \/ (J = {1} /\ 1 \in DOMAIN D /\ D[1].place = place)
  BY <1>2, <1>3
<1>6. /\ Ledger!CartPoints(place)
           = LET i == IF I # {} THEN Ledger!Min(I) ELSE 0
             IN IF i = 0 THEN 0 ELSE D[i].points
      /\ Ledger!PointsRemaining(place)
           = LET i == IF J # {} THEN Ledger!Max(J) ELSE 0
             IN IF i = 0 THEN 0 ELSE D[i].points
  BY <1>1 DEF Ledger!CartPoints, Ledger!PointsRemaining,
              Ledger!SelectInSeq, Ledger!SelectLastInSeq
<1>7. PICK f : f = [i \in I |-> D[i].points] OBVIOUS
<1>8. Ledger!TotalRewardPoints(place) = SumOn(f, I)
  <2>1. {i \in DOMAIN docs : docs[i].place = place /\ ~docs[i].deleted} = I
    BY <1>1, <1>2
  <2>2. [i \in I |-> docs[i].points] = f BY <1>1, <1>7
  <2>3. DOMAIN f = I BY <1>7
  <2> HIDE DEF I
  <2>4. Ledger!SumFunction(f) = SumOn(f, I) BY <2>3, LedgerSum
  <2>5. Ledger!TotalRewardPoints(place) = Ledger!SumFunction(f)
    BY <2>1, <2>2 DEF Ledger!TotalRewardPoints
  <2>6. QED BY <2>4, <2>5
<1>9. f = [i \in J |-> D[i].points] BY <1>4, <1>7
<1> HIDE DEF I, J
<1>10. CASE J = {}
  <2>1. Ledger!CartPoints(place) = 0 /\ Ledger!PointsRemaining(place) = 0
    BY <1>4, <1>6, <1>10
  <2>2. Ledger!TotalRewardPoints(place) = 0 BY <1>4, <1>8, <1>10, SumEmpty
  <2>3. \A l \in logs : Ledger!Where(l.order) # place
    <3>1. CASE D = <<>> BY <1>3, <3>1
    <3>2. CASE D # <<>>
      <4>1. 1 \in DOMAIN D BY <1>2, <3>2
      <4>2. D[1].place # place BY <1>2, <1>10, <4>1 DEF J
      <4>3. QED BY <1>3, <4>1, <4>2
    <3>3. QED BY <3>1, <3>2
  <2>4. Ledger!LogsOf("add", place) = {} /\ Ledger!LogsOf("subtract", place) = {}
    BY <2>3 DEF Ledger!LogsOf
  <2>5. Ledger!Quantities(Ledger!LogsOf("add", place)) - Ledger!PointsUsed(place)
          = 0
    BY <2>4, NoQuantities DEF Ledger!PointsUsed
  <2>6. QED BY <2>1, <2>2, <2>5 DEF Ledger!Settled
<1>11. CASE J = {1} /\ 1 \in DOMAIN D /\ D[1].place = place
  <2>1. PICK n : n = D[1].points OBVIOUS
  <2>2. n \in Int
    <3>1. D[1] \in PointsDoc BY <1>2, <1>11
    <3>2. QED BY <2>1, <3>1 DEF PointsDoc
  <2>3. Ledger!CartPoints(place) = n /\ Ledger!PointsRemaining(place) = n
    <3>1. I # {} /\ Ledger!Min(I) = 1 /\ Ledger!Max(J) = 1
      BY <1>4, <1>11, FirstOfOne
    <3>2. J # {} BY <1>11
    <3>3. QED BY <1>6, <2>1, <3>1, <3>2
  <2>4. Ledger!TotalRewardPoints(place) = n
    <3>1. f[1] = n BY <1>9, <1>11, <2>1
    <3>2. SumOn(f, {1}) = f[1] BY <2>2, <3>1, SumOne
    <3>3. QED BY <1>4, <1>8, <1>11, <3>1, <3>2
  <2>5. Ledger!Net(place) = n BY <1>3, <1>11, <2>1
  <2>6. QED BY <2>3, <2>4, <2>5 DEF Ledger!Settled, Ledger!Net
<1>12. QED BY <1>5, <1>10, <1>11 DEF J

LEMMA PointsTell ==
  PointsAssumption /\ PointsHold => Ledger!RewardsAgree
<1> SUFFICES ASSUME PointsAssumption, PointsHold PROVE Ledger!RewardsAgree
  OBVIOUS
<1>1. Ledger!NothingLost
  BY LostIs DEF PointsHold, DocsRight, Ledger!NothingLost
<1>2. LogsRight BY DEF PointsHold
<1>3. QED BY <1>1, <1>2, UsesOfBranches, PointsSettle DEF Ledger!RewardsAgree

\* However many movements of a user's points overlap, fail and are split over
\* documents, nothing is lost; the uses shown at branches fall short of those of
\* the restaurant by those of orders that are not there; undisturbed, what a
\* cart, the list, the summary and the log tell is the same (reward.service.ts,
\* the movements in orders.service.ts, customers.service.ts).
THEOREM RewardsAlwaysAgree == Ledger!Spec => []Ledger!RewardsAgree
<1>1. Ledger!Init => PointsHold BY PointsBegin, PointsAssumption
<1>2. PointsHold /\ [Ledger!Next]_Ledger!vars => PointsHold'
  BY MovementsStep, PointsAssumption DEF Ledger!vars, points
<1>3. PointsHold => Ledger!RewardsAgree BY PointsTell, PointsAssumption
<1>4. QED BY <1>1, <1>2, <1>3, PTL DEF Ledger!Spec

\* The same beside all that the shop does.
THEOREM RewardsAgreeBeside == MCSpec => []RewardsAgree
<1> DEFINE all == <<vars, part, overlapped, billVars, points, boards, stats, trends>>
<1>1. MCInit => PointsHold BY PointsBegin, PointsAssumption DEF MCInit
<1>2. [MCNext]_all => Ledger!Next \/ UNCHANGED points BY DEF MCNext
<1>3. PointsHold /\ [MCNext]_all => PointsHold'
  BY <1>2, MovementsStep, PointsAssumption
<1>4. PointsHold => RewardsAgree
  BY PointsTell, PointsAssumption DEF RewardsAgree
<1>5. QED BY <1>1, <1>3, <1>4, PTL DEF MCSpec

=============================================================================
