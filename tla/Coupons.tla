------------------------------- MODULE Coupons -------------------------------
(***************************************************************************)
(* The coupons of a restaurant's branches and their use by one customer:    *)
(* the coupon administration (coupons.service.ts), the coupon check of      *)
(* appendCart (cart.service.ts), the usage log written when an order is     *)
(* created and marked when it is paid, and the orders' deletion              *)
(* (orders.service.ts).                                                     *)
(*                                                                         *)
(* A coupon is used up when its usage log, one per customer, branch and    *)
(* code, counts maxRedemptions uses.  The log is looked for and written in  *)
(* two steps, and nothing makes a log or a code unique.  Documents are      *)
(* named by the request that created them.                                 *)
(*                                                                         *)
(* Left to other modules: the discount (CartPricing), how cart documents    *)
(* come and go (Carts: here a save may meet no document any more, and a     *)
(* new cart may clear the old one), the order's other fields (Orders).      *)
(***************************************************************************)
EXTENDS Integers, FiniteSets

CONSTANTS
  Branches,    \* the branches
  Codes,       \* the coupon codes
  Limits,      \* values of maxRedemptions; 0 stands for no limit
  Operations,  \* the operations requested
  MaxRequests, \* bound: requests served, numbered as they begin
  MaxInFlight, \* bound: handlers running at the same time
  Failures,    \* whether a handler may die or get an error at an await
  None         \* no document, no code, no branch, no limit

\* The requests, which also name the documents.
Requests == 1..MaxRequests

Ops == {"create", "update", "delete", "cart", "order", "pay", "remove"}

ASSUME InstanceAssumption ==
  /\ Limits \subseteq Nat
  /\ Operations \subseteq Ops
  /\ MaxRequests \in Nat
  /\ MaxInFlight \in Nat
  /\ Failures \in BOOLEAN

Coupon == [branch : Branches, code : Codes, limit : Limits, active : BOOLEAN]

\* The customer's usage log of a branch and a code; count is its
\* maxRedemptions.
CouponLog == [branch : Branches, code : Codes, count : Nat,
              redeemed : BOOLEAN]

\* code: kept whenever the coupon exists; discounted: whether it was granted;
\* free: nothing is left to pay.
Cart == [branch : Branches, code : Codes \cup {None},
         discounted : BOOLEAN, free : BOOLEAN]
Order == [branch : Branches, code : Codes \cup {None},
          discounted : BOOLEAN, free : BOOLEAN, paid : BOOLEAN]

CreateJob == [content : Coupon]
UpdateJob == [doc : Requests, branch : Branches \cup {None},
              code : Codes \cup {None}, limit : Limits \cup {None},
              active : BOOLEAN]
CartJob == [branch : Branches, code : Codes \cup {None}, enough : BOOLEAN,
            uses : Nat, coupon : Coupon \cup {None}]
OrderJob == [cart : Cart, log : Requests \cup {None}, uses : Nat]
PayJob == [order : Requests]

Jobs == CreateJob \cup UpdateJob \cup CartJob \cup OrderJob \cup PayJob
          \cup {None}

\* Where each operation may stand, and what it then holds.
JobAt(place) ==
  CASE place = "create" -> CreateJob
    [] place = "update" -> UpdateJob
    [] place \in {"coupon", "save"} -> CartJob
    [] place \in {"payment", "log", "count", "insert"} -> OrderJob
    [] place \in {"paid", "clear"} -> PayJob
    [] OTHER -> {None}
Places == {"idle", "create", "update", "coupon", "save", "payment", "log",
           "count", "insert", "paid", "clear", "done"}

ASSUME NoneAssumption ==
  /\ None \notin Requests /\ None \notin Branches /\ None \notin Codes
  /\ None \notin Limits /\ None \notin Coupon /\ None \notin CouponLog
  /\ None \notin Cart /\ None \notin Order

VARIABLES
  coupon,     \* the coupon documents, by the request that created them
  couponlog,  \* the customer's usage logs, by the request that created them
  cart,       \* the customer's cart
  order,      \* the customer's orders, by the request that created them
  pc,         \* where each handler is
  job,        \* what each handler holds
  used,       \* history: the cart each request logged a coupon's use for
  charged     \* history: the orders whose completed payment was reported

vars == <<coupon, couponlog, cart, order, pc, job, used, charged>>

Running == {r \in Requests : pc[r] \notin {"idle", "done"}}

TypeOK ==
  /\ coupon \in [Requests -> Coupon \cup {None}]
  /\ couponlog \in [Requests -> CouponLog \cup {None}]
  /\ cart \in Cart \cup {None}
  /\ order \in [Requests -> Order \cup {None}]
  /\ pc \in [Requests -> Places]
  /\ job \in [Requests -> Jobs]
  /\ \A r \in Requests : job[r] \in JobAt(pc[r])
  /\ used \in [Requests -> Cart \cup {None}]
  /\ charged \subseteq Requests

Init ==
  /\ coupon = [r \in Requests |-> None]
  /\ couponlog = [r \in Requests |-> None]
  /\ cart = None
  /\ order = [r \in Requests |-> None]
  /\ pc = [r \in Requests |-> "idle"]
  /\ job = [r \in Requests |-> None]
  /\ used = [r \in Requests |-> None]
  /\ charged = {}

-----------------------------------------------------------------------------
(* Helpers *)

\* The next request may be taken on.
MayBegin(r) ==
  /\ pc[r] = "idle" /\ \A q \in 1..(r - 1) : pc[q] # "idle"
  /\ Cardinality(Running) < MaxInFlight

Start(r, op, place, j) ==
  /\ MayBegin(r)
  /\ op \in Operations
  /\ pc' = [pc EXCEPT ![r] = place]
  /\ job' = [job EXCEPT ![r] = j]

Step(r, from, to, j) ==
  /\ pc[r] = from
  /\ pc' = [pc EXCEPT ![r] = to]
  /\ job' = [job EXCEPT ![r] = j]

End(r, from) == Step(r, from, "done", None)

CouponsOf(b, c) ==
  {d \in Requests :
     coupon[d] # None /\ coupon[d].branch = b /\ coupon[d].code = c}
LogsOf(b, c) ==
  {l \in Requests :
     couponlog[l] # None /\ couponlog[l].branch = b /\ couponlog[l].code = c}
LogsOfCode(c) ==
  {l \in Requests : couponlog[l] # None /\ couponlog[l].code = c}

-----------------------------------------------------------------------------
(* The administration of coupons *)

CreateFind(r, content) ==
  /\ CouponsOf(content.branch, content.code) = {}
  /\ Start(r, "create", "create", [content |-> content])
  /\ UNCHANGED <<coupon, couponlog, cart, order, used, charged>>

CreateWrite(r) ==
  /\ pc[r] = "create"
  /\ coupon' = [coupon EXCEPT ![r] = job[r].content]
  /\ End(r, "create")
  /\ UNCHANGED <<couponlog, cart, order, used, charged>>

\* A changed code must be free at the branch the update names, if it names
\* one; a changed branch alone is not looked at.
UpdateFind(r, u) ==
  LET old == coupon[u.doc]
  IN /\ old # None
     /\ (u.code # None /\ u.code # old.code)
          => CouponsOf(u.branch, u.code) \ {u.doc} = {}
     /\ Start(r, "update", "update", u)
     /\ UNCHANGED <<coupon, couponlog, cart, order, used, charged>>

Or(new, old) == IF new = None THEN old ELSE new

\* Only what the update names is changed (active stands for any outcome of
\* the optional flag); a coupon deleted in between stays deleted.
UpdateWrite(r) ==
  LET u == job[r]
      old == coupon[u.doc]
  IN /\ pc[r] = "update"
     /\ IF old = None THEN UNCHANGED coupon
        ELSE coupon' = [coupon EXCEPT ![u.doc] =
               [branch |-> Or(u.branch, old.branch),
                code |-> Or(u.code, old.code),
                limit |-> Or(u.limit, old.limit), active |-> u.active]]
     /\ End(r, "update")
     /\ UNCHANGED <<couponlog, cart, order, used, charged>>

DeleteCoupon(r, d) ==
  /\ coupon[d] # None
  /\ Start(r, "delete", "done", None)
  /\ coupon' = [coupon EXCEPT ![d] = None]
  /\ UNCHANGED <<couponlog, cart, order, used, charged>>

-----------------------------------------------------------------------------
(* appendCart *)

\* The usage logs are read; with several of them, the last one read counts.
CartRead(r, b, c, enough) ==
  LET logs == LogsOf(b, c)
  IN /\ \E uses \in IF logs = {} THEN {0} ELSE {couponlog[l].count : l \in logs} :
          Start(r, "cart", IF c = None THEN "save" ELSE "coupon",
                [branch |-> b, code |-> c, enough |-> enough,
                 uses |-> uses, coupon |-> None])
     /\ cart' \in {cart, None}
     /\ UNCHANGED <<coupon, couponlog, order, used, charged>>

CartCoupon(r) ==
  /\ pc[r] = "coupon"
  /\ LET docs == CouponsOf(job[r].branch, job[r].code)
     IN \E found \in IF docs = {} THEN {None} ELSE {coupon[d] : d \in docs} :
          Step(r, "coupon", "save", [job[r] EXCEPT !.coupon = found])
  /\ UNCHANGED <<coupon, couponlog, cart, order, used, charged>>

\* An error in one of the two queries is caught: no coupon.
CouponFails(r) ==
  /\ Failures
  /\ Step(r, "coupon", "save", job[r])
  /\ UNCHANGED <<coupon, couponlog, cart, order, used, charged>>

\* Seeded fault: a coupon is granted once more than its limit.
GrantedOnceMore(j) ==
  /\ j.coupon # None
  /\ j.coupon.active
  /\ j.coupon.limit = 0 \/ j.uses <= j.coupon.limit
  /\ j.enough
\* The coupon is active, not used up, and the cart is enough for it.
Granted(j) ==
  /\ j.coupon # None
  /\ j.coupon.active
  /\ j.coupon.limit = 0 \/ j.uses < j.coupon.limit
  /\ j.enough

\* The code stays in the cart of a coupon that exists, granted or not.
CartSave(r, free) ==
  LET j == job[r]
  IN /\ pc[r] = "save"
     /\ \/ cart' = [branch |-> j.branch,
                    code |-> IF j.coupon = None THEN None ELSE j.code,
                    discounted |-> Granted(j), free |-> free]
        \/ UNCHANGED cart
     /\ End(r, "save")
     /\ UNCHANGED <<coupon, couponlog, order, used, charged>>

-----------------------------------------------------------------------------
(* create (POST /orders) *)

OrderRead(r) ==
  /\ cart # None
  /\ Start(r, "order", "payment", [cart |-> cart, log |-> None, uses |-> 0])
  /\ UNCHANGED <<coupon, couponlog, cart, order, used, charged>>

\* The payment is set up; an order free of charge takes the cart away if it
\* redeems points.
OrderPayment(r) ==
  /\ pc[r] = "payment"
  /\ Step(r, "payment", IF job[r].cart.code = None THEN "insert" ELSE "log",
          job[r])
  /\ cart' \in IF job[r].cart.free THEN {cart, None} ELSE {cart}
  /\ UNCHANGED <<coupon, couponlog, order, used, charged>>

LogFind(r) ==
  /\ pc[r] = "log"
  /\ LET j == job[r]
         logs == LogsOf(j.cart.branch, j.cart.code)
     IN \/ logs = {} /\ Step(r, "log", "count", j)
        \/ \E l \in logs :
             Step(r, "log", "count",
                  [j EXCEPT !.log = l, !.uses = couponlog[l].count])
  /\ UNCHANGED <<coupon, couponlog, cart, order, used, charged>>

FirstLog(j) ==
  [branch |-> j.cart.branch, code |-> j.cart.code, count |-> 1,
   redeemed |-> FALSE]

\* Seeded fault: a log that was found is written anew.
LoggedAnew(r, j) ==
  IF j.log = None THEN [couponlog EXCEPT ![r] = FirstLog(j)]
  ELSE [couponlog EXCEPT ![j.log] = [FirstLog(j) EXCEPT !.count = j.uses + 1]]
\* Seeded fault: a second use is not counted.
LoggedFirst(r, j) ==
  IF j.log = None THEN [couponlog EXCEPT ![r] = FirstLog(j)] ELSE couponlog
\* A first log is created; one that was found gets the count that was read,
\* plus one.
Logged(r, j) ==
  IF j.log = None THEN [couponlog EXCEPT ![r] = FirstLog(j)]
  ELSE [couponlog EXCEPT ![j.log].count = j.uses + 1]

LogWrite(r) ==
  /\ pc[r] = "count"
  /\ couponlog' = Logged(r, job[r])
  /\ used' = [used EXCEPT ![r] = job[r].cart]
  /\ Step(r, "count", "insert", job[r])
  /\ UNCHANGED <<coupon, cart, order, charged>>

OrderOf(c) ==
  [branch |-> c.branch, code |-> c.code, discounted |-> c.discounted,
   free |-> c.free, paid |-> c.free]

OrderInsert(r) ==
  /\ pc[r] = "insert"
  /\ order' = [order EXCEPT ![r] = OrderOf(job[r].cart)]
  /\ End(r, "insert")
  /\ UNCHANGED <<coupon, couponlog, cart, used, charged>>

-----------------------------------------------------------------------------
(* The event of a completed payment *)

\* One of the customer's logs of the order's code is marked, of whatever
\* branch.
PayRedeem(r, o) ==
  /\ order[o] # None /\ ~order[o].free
  /\ Start(r, "pay", "paid", [order |-> o])
  /\ charged' = charged \cup {o}
  /\ LET logs == LogsOfCode(order[o].code)
     IN IF order[o].code = None \/ logs = {} THEN UNCHANGED couponlog
        ELSE \E l \in logs :
               couponlog' = [couponlog EXCEPT ![l].redeemed = TRUE]
  /\ UNCHANGED <<coupon, cart, order, used>>

\* Only an order that is still there is written to.
Paid(o) ==
  IF order[o] = None THEN UNCHANGED order
  ELSE order' = [order EXCEPT ![o].paid = TRUE]

PaySave(r) ==
  /\ pc[r] = "paid"
  /\ Paid(job[r].order)
  /\ Step(r, "paid", "clear", job[r])
  /\ UNCHANGED <<coupon, couponlog, cart, used, charged>>

PayClear(r) ==
  /\ End(r, "clear")
  /\ cart' = None
  /\ UNCHANGED <<coupon, couponlog, order, used, charged>>

\* delete (DELETE /orders/:id): the document goes, the logs stay.
DeleteOrder(r, o) ==
  /\ order[o] # None
  /\ Start(r, "remove", "done", None)
  /\ order' = [order EXCEPT ![o] = None]
  /\ UNCHANGED <<coupon, couponlog, cart, used, charged>>

-----------------------------------------------------------------------------
\* A failed call or a crash ends the handler where it stands.
Abort(r) ==
  /\ Failures
  /\ r \in Running
  /\ End(r, pc[r])
  /\ UNCHANGED <<coupon, couponlog, cart, order, used, charged>>

Begin(r) ==
  \/ \E content \in Coupon : CreateFind(r, content)
  \/ \E u \in UpdateJob : UpdateFind(r, u)
  \/ \E d \in Requests : DeleteCoupon(r, d)
  \/ \E b \in Branches, c \in Codes \cup {None}, enough \in BOOLEAN :
       CartRead(r, b, c, enough)
  \/ OrderRead(r)
  \/ \E o \in Requests : PayRedeem(r, o) \/ DeleteOrder(r, o)

Continue(r) ==
  \/ CreateWrite(r) \/ UpdateWrite(r)
  \/ CartCoupon(r) \/ CouponFails(r)
  \/ \E free \in BOOLEAN : CartSave(r, free)
  \/ OrderPayment(r) \/ LogFind(r) \/ LogWrite(r) \/ OrderInsert(r)
  \/ PaySave(r) \/ PayClear(r)
  \/ Abort(r)

Next == \E r \in Requests : (MayBegin(r) /\ Begin(r)) \/ Continue(r)

Spec == Init /\ [][Next]_vars

-----------------------------------------------------------------------------
(* Properties *)

Orders(b, c) ==
  {o \in Requests :
     order[o] # None /\ order[o].branch = b /\ order[o].code = c}
\* The uses of a code that were logged, at any branch.
Uses(c) == {r \in Requests : used[r] # None /\ used[r].code = c}

\* A paid order has a log of its code that is marked, of whatever branch.
PaidIsRedeemed ==
  \A o \in Requests :
    (order[o] # None /\ order[o].paid /\ ~order[o].free
       /\ order[o].code # None)
      => \E l \in LogsOfCode(order[o].code) : couponlog[l].redeemed

\* A log is marked only after the payment of an order with its code was
\* reported; that order may be gone by now.
RedeemedMeansPaid ==
  \A l \in Requests :
    (couponlog[l] # None /\ couponlog[l].redeemed)
      => charged \cap Uses(couponlog[l].code) # {}

UsedAtOneBranch(c) == \A q, r \in Uses(c) : used[q].branch = used[r].branch

\* A customer who uses a code at one branch only has its log there marked as
\* redeemed once an order made with it was paid, and only then, however
\* creations, payment events and deletions of orders overlap and fail:
\* updatePaymentStatus finds a log that an earlier create made, though no log
\* names its order.
RedeemedIffPaid ==
  \A c \in Codes : UsedAtOneBranch(c) =>
    /\ \A o \in Requests :
         (order[o] # None /\ order[o].code = c /\ order[o].paid
            /\ ~order[o].free)
           => \E l \in LogsOf(order[o].branch, c) : couponlog[l].redeemed
    /\ \A l \in LogsOfCode(c) :
         couponlog[l].redeemed =>
           \E o \in charged \cap Uses(c) : used[o].branch = couponlog[l].branch

\* 'Create a map of coupon codes to their usage count': there is a log that
\* counts every order made with the coupon.
EveryOrderCounted ==
  \A b \in Branches, c \in Codes :
    Orders(b, c) # {} =>
      \E l \in LogsOf(b, c) : couponlog[l].count >= Cardinality(Orders(b, c))

\* A discount is put into a cart only while fewer orders than the limit were
\* made with the coupon, whatever the administration does to coupons in
\* between.
DiscountIsGranted ==
  \A r \in Requests :
    (pc[r] = "save" /\ cart' # cart /\ cart' # None /\ cart'.discounted)
      => \/ job[r].coupon.limit = 0
         \/ Cardinality(Orders(cart'.branch, cart'.code)) < job[r].coupon.limit

\* 'Coupon Max Redemptions Reached.': no more orders get a coupon's discount
\* than it may be redeemed.
LimitHolds ==
  \A d \in Requests :
    (coupon[d] # None /\ coupon[d].limit > 0) =>
      Cardinality({o \in Orders(coupon[d].branch, coupon[d].code) :
                     order[o].discounted}) <= coupon[d].limit

-----------------------------------------------------------------------------
(* The inductive invariant, for the concurrent properties *)

\* Only a coupon's code is looked for in the logs, and once.
CodesKnown ==
  \A r \in Requests :
    /\ pc[r] \in {"log", "count"} => job[r].cart.code # None
    /\ pc[r] \in {"payment", "log"} => job[r].log = None

\* What a handler of an order leaves behind, it leaves in order.
MadeInOrder ==
  \A r \in Requests :
    /\ used[r] # None \/ couponlog[r] # None => pc[r] \in {"insert", "done"}
    /\ order[r] # None => pc[r] = "done"

\* Only an order that was made is paid.
PaidWereMade == \A r \in Requests : pc[r] = "paid" => pc[job[r].order] = "done"

\* A log is of the cart that its request logged, and so is an order.
LogsAreUses ==
  \A r \in Requests :
    /\ couponlog[r] # None =>
         /\ used[r] # None
         /\ used[r].branch = couponlog[r].branch
         /\ used[r].code = couponlog[r].code
    /\ (order[r] # None /\ order[r].code # None) =>
         /\ used[r] # None
         /\ used[r].branch = order[r].branch /\ used[r].code = order[r].code
    /\ (pc[r] = "insert" /\ job[r].cart.code # None) => used[r] = job[r].cart

\* A log that was found is still there.
FoundLogs ==
  \A r \in Requests :
    (pc[r] = "count" /\ job[r].log # None) =>
      LET l == couponlog[job[r].log]
      IN /\ l # None
         /\ l.branch = job[r].cart.branch /\ l.code = job[r].cart.code

OrdersAreLogged ==
  /\ \A r \in Requests :
       (pc[r] = "insert" /\ job[r].cart.code # None)
         => LogsOfCode(job[r].cart.code) # {}
  /\ \A o \in Requests :
       (order[o] # None /\ order[o].code # None)
         => LogsOfCode(order[o].code) # {}

PaymentsAreMarked ==
  \A r \in Requests :
    pc[r] = "paid" =>
      LET o == order[job[r].order]
      IN (o # None /\ o.code # None)
           => \E l \in LogsOfCode(o.code) : couponlog[l].redeemed

IInv ==
  /\ CodesKnown /\ MadeInOrder /\ PaidWereMade /\ LogsAreUses /\ FoundLogs
  /\ OrdersAreLogged /\ PaymentsAreMarked
  /\ PaidIsRedeemed /\ RedeemedMeansPaid

-----------------------------------------------------------------------------
(* What makes EveryOrderCounted and DiscountIsGranted inductive as long as  *)
(* requests come one at a time.                                             *)

Serial == \A q, r \in Running : q = r

OneLog ==
  \A b \in Branches, c \in Codes : \A l, m \in LogsOf(b, c) : l = m

\* What appendCart read is no less than the orders made.
ReadOK(r) ==
  LET j == job[r]
  IN /\ pc[r] = "coupon" => j.code # None
     /\ pc[r] \in {"coupon", "save"} =>
          IF j.code = None THEN j.coupon = None
          ELSE Cardinality(Orders(j.branch, j.code)) <= j.uses
\* What order creation read of the log is what the log says,
FoundOK(r) ==
  LET j == job[r]
      logs == LogsOf(j.cart.branch, j.cart.code)
  IN pc[r] = "count" =>
       IF j.log = None THEN logs = {}
       ELSE j.log \in logs /\ couponlog[j.log].count = j.uses
\* and once the log is written it counts the order to come.
WrittenOK(r) ==
  LET c == job[r].cart
  IN (pc[r] = "insert" /\ c.code # None)
       => \E l \in LogsOf(c.branch, c.code) :
            couponlog[l].count > Cardinality(Orders(c.branch, c.code))

CountsCalm ==
  /\ OneLog /\ EveryOrderCounted
  /\ \A r \in Requests : ReadOK(r) /\ FoundOK(r) /\ WrittenOK(r)

=============================================================================
