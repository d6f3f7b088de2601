-------------------------------- MODULE Carts --------------------------------
(***************************************************************************)
(* The cart documents of one customer: appendCart and deleteCart of        *)
(* cart.service.ts, and the deletion after a payment event in              *)
(* orders.service.ts.                                                      *)
(*                                                                         *)
(* Nothing makes userId unique in the cart collection: appendCart looks    *)
(* for a cart, and several awaits later updates it or creates one.  Every  *)
(* query by user may then meet any of the user's documents.  A document is *)
(* named by the request that created it.                                   *)
(*                                                                         *)
(* What the lines of a cart cost is in CartPricing.  The delivery fee is   *)
(* here, because it is carried from the cart that was read to the one that *)
(* is written: a fee is the quote it comes from (branch and address) and   *)
(* the number of times GST was added to it.  A branch stands for branch    *)
(* and restaurant.                                                         *)
(***************************************************************************)
EXTENDS Integers, FiniteSets

CONSTANTS
  Branches,      \* the branches
  FreeBranches,  \* those that deliver free of charge
  Places,        \* the coordinates deliveries may go to
  Requests,      \* the requests served, which also name the documents
  MaxInFlight,   \* bound: handlers running at the same time
  Failures,      \* whether a handler may die or get an error at an await
  None           \* no document, no coordinates, no fee

ASSUME InstanceAssumption ==
  /\ FreeBranches \subseteq Branches
  /\ IsFiniteSet(Requests)
  /\ MaxInFlight \in Nat
  /\ Failures \in BOOLEAN

Dto == [branch : Branches, delivery : BOOLEAN, place : Places \cup {None}]
Fee == [branch : Branches, place : Places, gst : Nat]
Doc == [branch : Branches, delivery : BOOLEAN, place : Places \cup {None},
        fee : Fee \cup {None}]
Job == [dto : Dto, existing : Doc \cup {None}, fee : Fee \cup {None}]

ASSUME NoneAssumption ==
  None \notin Places /\ None \notin Fee /\ None \notin Doc /\ None \notin Job

VARIABLES
  cart,    \* the customer's cart documents, by the request that created them
  pc,      \* where each handler is
  job,     \* what each appendCart holds
  latest   \* history: what the request that ended last was to put there

vars == <<cart, pc, job, latest>>

Running == {r \in Requests : pc[r] \notin {"idle", "done"}}
Docs == {r \in Requests : cart[r] # None}

TypeOK ==
  /\ cart \in [Requests -> Doc \cup {None}]
  /\ pc \in [Requests -> {"idle", "clear", "price", "save", "done"}]
  /\ job \in [Requests -> Job \cup {None}]
  /\ \A r \in Running : job[r] # None
  /\ latest \in Doc \cup {None}

Init ==
  /\ cart = [r \in Requests |-> None]
  /\ pc = [r \in Requests |-> "idle"]
  /\ job = [r \in Requests |-> None]
  /\ latest = None

-----------------------------------------------------------------------------
(* Helpers *)

Goto(r, from, to) ==
  /\ pc[r] = from
  /\ pc' = [pc EXCEPT ![r] = to]

End(r, from, content) ==
  /\ Goto(r, from, "done")
  /\ job' = [job EXCEPT ![r] = None]
  /\ latest' = content

\* The cart that was read is of the same branch and order type.
Fits(j) ==
  /\ j.existing # None
  /\ j.existing.branch = j.dto.branch
  /\ j.existing.delivery = j.dto.delivery

\* Seeded fault: any address known before counts as the same.
SamePlaceKnown(j) ==
  /\ j.existing # None
  /\ j.existing.place # None /\ j.dto.place # None
SamePlace(j) ==
  /\ j.existing # None
  /\ j.existing.place # None /\ j.existing.place = j.dto.place

Free(j) == j.dto.branch \in FreeBranches

\* What the fee is computed from: the fee of the cart that was read if the
\* address is the same, otherwise what the provider quotes, which is 0 (no
\* fee) if asking it fails.
Quotes(j) ==
  IF Free(j) THEN {None}
  ELSE IF SamePlace(j) THEN {j.existing.fee}
  ELSE {None, [branch |-> j.dto.branch, place |-> j.dto.place, gst |-> 0]}

WithGst(fee) == IF fee = None THEN None ELSE [fee EXCEPT !.gst = @ + 1]

\* No address to ask a quote for.
Refused(j) ==
  /\ j.dto.delivery /\ ~Free(j) /\ ~SamePlace(j)
  /\ j.dto.place = None

-----------------------------------------------------------------------------
(* appendCart *)

\* The first look for a cart; one that does not fit is to be cleared.
AppendRead(r, dto) ==
  /\ pc[r] = "idle"
  /\ Cardinality(Running) < MaxInFlight
  /\ \E found \in IF Docs = {} THEN {None} ELSE {cart[d] : d \in Docs} :
       LET j == [dto |-> dto, existing |-> found, fee |-> None]
       IN /\ job' = [job EXCEPT ![r] = j]
          /\ pc' = [pc EXCEPT ![r] =
               IF found # None /\ ~Fits(j) THEN "clear" ELSE "price"]
  /\ UNCHANGED <<cart, latest>>

\* Seeded fault: the clearing is forgotten.
ClearCartNot(r) ==
  /\ Goto(r, "clear", "price")
  /\ UNCHANGED <<cart, job, latest>>

\* Deletes one of the customer's carts, if there is any left.
ClearCart(r) ==
  /\ Goto(r, "clear", "price")
  /\ IF Docs = {} THEN UNCHANGED cart
     ELSE \E d \in Docs : cart' = [cart EXCEPT ![d] = None]
  /\ UNCHANGED <<job, latest>>

\* Menu, user, rewards and coupon are fetched and the delivery fee drawn up.
Price(r) ==
  LET j == job[r]
  IN /\ Goto(r, "price", "save")
     /\ ~Refused(j)
     /\ \E fee \in Quotes(j) :
          job' = [job EXCEPT ![r].fee =
                    IF j.dto.delivery THEN WithGst(fee) ELSE None]
     /\ UNCHANGED <<cart, latest>>

\* 'Address is required for a delivery order'; what was cleared is gone.
Refuse(r) ==
  /\ End(r, "price", None)
  /\ Refused(job[r])
  /\ UNCHANGED cart

Content(j) ==
  [branch |-> j.dto.branch, delivery |-> j.dto.delivery,
   place |-> j.dto.place, fee |-> j.fee]

\* An update without an address leaves the address that is stored.
Merged(doc, new) ==
  IF new.place = None THEN [new EXCEPT !.place = doc.place] ELSE new

Create(r) ==
  /\ cart' = [cart EXCEPT ![r] = Content(job[r])]
  /\ End(r, "save", Content(job[r]))

Update(r) ==
  \/ Docs = {} /\ End(r, "save", Content(job[r])) /\ UNCHANGED cart
  \/ \E d \in Docs :
       /\ cart' = [cart EXCEPT ![d] = Merged(cart[d], Content(job[r]))]
       /\ End(r, "save", Merged(cart[d], Content(job[r])))

\* Seeded fault: a cart that was found is updated, fitting or not.
SaveCartUpdating(r) ==
  /\ pc[r] = "save"
  /\ IF job[r].existing # None THEN Update(r) ELSE Create(r)

\* A cart that fitted is updated, if there is still one; otherwise one is
\* created.
SaveCart(r) ==
  /\ pc[r] = "save"
  /\ IF Fits(job[r]) THEN Update(r) ELSE Create(r)

-----------------------------------------------------------------------------
\* DELETE /cart/:userId, and the end of every payment event: one of the
\* customer's carts goes.
DeleteCart(r) ==
  /\ Cardinality(Running) < MaxInFlight
  /\ End(r, "idle", None)
  /\ IF Docs = {} THEN UNCHANGED cart
     ELSE \E d \in Docs : cart' = [cart EXCEPT ![d] = None]

\* A failed call or a crash ends the handler where it stands.
Abort(r) ==
  /\ Failures
  /\ r \in Running
  /\ End(r, pc[r], None)
  /\ UNCHANGED cart

Next ==
  \E r \in Requests :
    \/ \E dto \in Dto : AppendRead(r, dto)
    \/ ClearCart(r) \/ Price(r) \/ Refuse(r) \/ SaveCart(r)
    \/ DeleteCart(r) \/ Abort(r)

Spec == Init /\ [][Next]_vars

-----------------------------------------------------------------------------
(* Properties *)

\* Nothing but the number of overlapping requests bounds the carts of a
\* customer: one at a time, the look for a cart in appendCart keeps it to one.
CartsWithinOverlap == Cardinality(Docs) <= MaxInFlight

\* The handlers that are going to create a cart; with the carts there are,
\* never more than may overlap.  This is what makes CartsWithinOverlap
\* inductive.  (A document appears when its creator ends.)
Creating == {r \in Running : pc[r] \in {"price", "save"} /\ ~Fits(job[r])}
IInv ==
  /\ Cardinality(Running) <= MaxInFlight
  /\ Cardinality(Docs \cup Creating) <= MaxInFlight
  /\ \A d \in Docs : pc[d] = "done"

\* A fee that was quoted for this address, or none.
FeeOf(fee, place) == fee # None => fee.place = place

\* The delivery fee of a cart was quoted for the address of that cart,
\* although it is taken over from the cart that was read.
FeeForAddress == \A d \in Docs : FeeOf(cart[d].fee, cart[d].place)

\* What makes it inductive: it holds of the carts and fees handlers carry too.
FeeInv ==
  /\ FeeForAddress
  /\ \A r \in Running :
       LET j == job[r]
       IN /\ FeeOf(j.fee, j.dto.place)
          /\ j.existing # None => FeeOf(j.existing.fee, j.existing.place)

\* What the last request was to put into the cart is there: clearing a cart of another
\* branch or order type does not lose the new one.
LastIsThere ==
  (Running = {} /\ latest # None) => \E d \in Docs : cart[d] = latest

\* What makes it inductive as long as no request begins before the last ended:
\* the cart that is going to be updated is not the one that is cleared.
Alone ==
  /\ LastIsThere
  /\ \A q, r \in Running : q = r
  /\ \A r \in Running : IF pc[r] = "clear" THEN ~Fits(job[r])
                        ELSE Fits(job[r]) => Docs # {}

\* 'Calculate delivery fee with 18% GST': it is added once.
GstAddedOnce == \A d \in Docs : cart[d].fee # None => cart[d].fee.gst = 1

=============================================================================
