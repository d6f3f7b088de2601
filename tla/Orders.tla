------------------------------- MODULE Orders -------------------------------
(***************************************************************************)
(* The life of an order and of its reward points (orders.service.ts).      *)
(*                                                                         *)
(* Every HTTP request is a handler that runs between its awaits: each      *)
(* action below is what one handler does up to its next await, so that the *)
(* awaits are exactly where handlers interleave.  MongoDB gives atomicity  *)
(* per document and nothing else; there is no lock and no transaction.     *)
(*                                                                         *)
(* A checkout request (POST /orders) creates at most one order, and orders *)
(* are named by the request that creates them.  The reward documents of a  *)
(* user are summed into one balance per user.  Coupon logs and guest users *)
(* are the business of other modules.                                      *)
(***************************************************************************)
EXTENDS Integers, FiniteSets

CONSTANTS
  Users,         \* user ids
  Customers,     \* the users whose userType is CUSTOMER (the others: guests)
  Checkouts,     \* POST /orders requests, which also name the orders
  Calls,         \* the other requests: PUT, PATCH, DELETE, delivery webhooks
  Quotes,        \* the contents a cart can have
  Notes,         \* values of the fields a PUT may edit besides the status
  Updates,       \* bodies of PUT /orders/:id
  PaymentInfos,  \* bodies of PATCH /orders/:id/payment-status
  DeliveryEvents,\* statuses the delivery webhooks hand to the orders service
  AutoAccept,    \* what branch.autoAcceptOrder may be each time it is fetched
  InitialPoints, \* each user's reward balance at the start
  MaxInFlight,   \* bound: handlers running at the same time
  Failures,      \* whether a handler may die or get an error at an await
  None           \* no document

Handlers == Checkouts \cup Calls

Status == {"pending", "placed", "accepted", "preparing", "readyForPickup",
           "riderAssigned", "orderCompleted", "orderRefunded", "cancelled"}
PaymentStatus == {"created", "refundInitiated", "refundFailed",
                  "refundProcessed", "partiallyRefunded", "failed",
                  "completed", "pending", "cancelled"}
DeliveryStatus == {"created", "pickup_ready", "picked_up", "readyToDeliver",
                   "delivered", "cancelled", "failed", "return"}
Same == "same"  \* a field the body of a PUT does not carry

\* What an order copies from the cart.  due: the cart's total is positive, so
\* a gateway payment is asked for; charged: the order's total (with tip and
\* delivery fee) is positive; earn and redeem: totalPointsToBeAdded and
\* pointsToBeRedeemed.
Quote == [delivery : BOOLEAN, asap : BOOLEAN, due : BOOLEAN,
          charged : BOOLEAN, earn : Nat, redeem : Nat]
OrderDoc == [orderStatus : Status, note : Notes, user : Users, quote : Quotes]
UpdateDto == [orderStatus : Status \cup {Same}, note : Notes \cup {Same}]
PaymentInfo == [paymentStatus : PaymentStatus, fullyRefund : BOOLEAN,
                pointsToDeduct : Nat]

Reasons == {"earned", "deducted", "redeemed", "refunded", "partial"}
Entry == [call : Handlers, order : Checkouts, user : Users,
          reason : Reasons, points : Int]

Ops == {"create", "update", "payment", "delivery", "accept", "delete"}
Events == Status \cup PaymentStatus \cup DeliveryStatus \cup {Same}
\* A running handler: what it serves, the document it holds in memory, the
\* reward movement it is making, the points of a partial refund.
Job == [op : Ops, order : Checkouts, doc : OrderDoc,
        event : Events, note : Notes \cup {Same},
        reason : Reasons, refund : Nat]
Places == {"idle", "pay", "branch", "reward", "log", "cart", "write", "done"}

ASSUME SetsAssumption ==
  /\ Checkouts \cap Calls = {}
  /\ IsFiniteSet(Handlers)
  /\ Customers \subseteq Users
  /\ Quotes \subseteq Quote
  /\ \A q \in Quotes : q.due => q.charged
ASSUME InputsAssumption ==
  /\ Updates \subseteq UpdateDto
  /\ PaymentInfos \subseteq PaymentInfo
  /\ DeliveryEvents \subseteq DeliveryStatus
  /\ AutoAccept \subseteq BOOLEAN
  /\ InitialPoints \in [Users -> Nat]
  /\ MaxInFlight \in Nat
  /\ Failures \in BOOLEAN
ASSUME NoneAssumption ==
  None \notin OrderDoc /\ None \notin Quotes /\ None \notin Job

VARIABLES
  orders,               \* the order collection: a document or None
  cart,                 \* the cart collection: one cart per user, or None
  reward,               \* rewardPoints of each user
  applied,              \* history: every $inc made on a reward document
  rewardTransactionLog, \* the log collection
  dispatched,           \* handlers that called handleDeliveryOrderCreation
  pc,                   \* where each handler is
  job,                  \* what each handler holds
  failed                \* handlers in which some write failed

vars == <<orders, cart, reward, applied, rewardTransactionLog, dispatched,
          pc, job, failed>>
ledger == <<reward, applied, rewardTransactionLog>>

TypeOK ==
  /\ orders \in [Checkouts -> OrderDoc \cup {None}]
  /\ cart \in [Users -> Quotes \cup {None}]
  /\ reward \in [Users -> Int]
  /\ applied \subseteq Entry
  /\ rewardTransactionLog \subseteq Entry
  /\ dispatched \subseteq Calls
  /\ pc \in [Handlers -> Places]
  /\ job \in [Handlers -> Job \cup {None}]
  /\ failed \subseteq Handlers

Init ==
  /\ orders = [o \in Checkouts |-> None]
  /\ cart = [u \in Users |-> None]
  /\ reward = InitialPoints
  /\ applied = {}
  /\ rewardTransactionLog = {}
  /\ dispatched = {}
  /\ pc = [h \in Handlers |-> "idle"]
  /\ job = [h \in Handlers |-> None]
  /\ failed = {}

-----------------------------------------------------------------------------
(* Helpers *)

Running == {h \in Handlers : pc[h] \notin {"idle", "done"}}
Stored(o) == orders[o] # None

\* A request arrives: its handler reaches its first await holding j.
Start(h, j, place) ==
  /\ pc[h] = "idle"
  /\ Cardinality(Running) < MaxInFlight
  /\ job' = [job EXCEPT ![h] = j]
  /\ pc' = [pc EXCEPT ![h] = place]

Goto(h, from, to) ==
  /\ pc[h] = from
  /\ pc' = [pc EXCEPT ![h] = to]

\* What the findOneAndUpdate of a handler's reward movement adds to the
\* balance, and the log entry it then creates.
Points(j) ==
  [earned   |-> j.doc.quote.earn,    deducted |-> -j.doc.quote.redeem,
   redeemed |-> -j.doc.quote.redeem, refunded |-> -j.doc.quote.earn,
   partial  |-> -j.refund][j.reason]
\* Seeded fault: the log keeps the quantity and forgets the sign.
EntryOfUnsigned(h) ==
  [call |-> h, order |-> job[h].order, user |-> job[h].doc.user,
   reason |-> job[h].reason,
   points |-> IF Points(job[h]) < 0 THEN -Points(job[h])
              ELSE Points(job[h])]
EntryOf(h) == [call |-> h, order |-> job[h].order, user |-> job[h].doc.user,
               reason |-> job[h].reason, points |-> Points(job[h])]

\* findOneAndUpdate by orderId, which does not upsert: a deleted order stays so.
Store(o, doc) ==
  orders' = IF Stored(o) THEN [orders EXCEPT ![o] = doc] ELSE orders

\* Seeded fault: the delivery is asked for one status too early.
WantsDeliveryAtAccept(s, q) == s = "accepted" /\ q.delivery
\* Whether setting this status must start the creation of a delivery.
WantsDelivery(s, q) == s = "preparing" /\ q.delivery

\* Seeded fault: only the expected predecessor of a completion is credited.
CompletesFromPreparing(s, doc) ==
  /\ s = "orderCompleted"
  /\ doc.orderStatus = "preparing"
  /\ doc.quote.charged
  /\ doc.quote.earn > 0 \/ doc.quote.redeem > 0
\* Whether a PUT of status s on doc is a completion that moves points.
Completes(s, doc) ==
  /\ s = "orderCompleted"
  /\ doc.orderStatus # "orderCompleted"
  /\ doc.quote.charged
  /\ doc.quote.earn > 0 \/ doc.quote.redeem > 0

\* Seeded fault: the PUT saves the whole document it read.
EditedWhole(doc, j) ==
  [j.doc EXCEPT !.orderStatus = IF j.event = Same THEN @ ELSE j.event,
                !.note = IF j.note = Same THEN @ ELSE j.note]
\* A document after the fields a PUT's body carries are set.
Edited(doc, j) ==
  [doc EXCEPT !.orderStatus = IF j.event = Same THEN @ ELSE j.event,
              !.note = IF j.note = Same THEN @ ELSE j.note]

\* Seeded fault: pending orders are accepted too.
AcceptablePending(doc) == doc.orderStatus \in {"placed", "pending"}
\* What acceptBranchOrders' filter selects.
Acceptable(doc) == doc.orderStatus = "placed"

\* Seeded fault: without auto-accept the order stays as it is.
ConfirmedStatusLeft(auto, asap) ==
  IF ~auto THEN "pending" ELSE IF asap THEN "preparing" ELSE "accepted"
\* The status a confirmed order starts its kitchen life with.
ConfirmedStatus(auto, asap) ==
  IF ~auto THEN "placed" ELSE IF asap THEN "preparing" ELSE "accepted"

-----------------------------------------------------------------------------
(* Carts, as far as orders see them: a cart is filled with an offer that   *)
(* redeems no more points than the balance read at that time.              *)

FillCart(u, q) ==
  /\ q.redeem <= reward[u] \/ q.redeem = 0
  /\ cart' = [cart EXCEPT ![u] = q]
  /\ UNCHANGED <<orders, ledger, dispatched, pc, job, failed>>

-----------------------------------------------------------------------------
(* POST /orders *)

\* The cart is read; its content is what the order will be made of.
CreateRead(c, u, n) ==
  /\ cart[u] # None
  /\ Start(c, [op |-> "create", order |-> c, event |-> Same, note |-> n,
               doc |-> [orderStatus |-> "pending", note |-> n, user |-> u,
                        quote |-> cart[u]],
               reason |-> "redeemed", refund |-> 0], "pay")
  /\ UNCHANGED <<orders, cart, ledger, dispatched, failed>>

\* The payment service answers.  An order with nothing to pay is confirmed at
\* once, with the order time of the request's body (asap), and its points are
\* redeemed before it is stored.
CreatePay(c, auto, asap) ==
  LET q == job[c].doc.quote
      redeems == ~q.due /\ q.redeem > 0 /\ job[c].doc.user \in Customers
  IN /\ job[c] # None /\ job[c].op = "create"
     /\ Goto(c, "pay", IF redeems THEN "reward" ELSE "write")
     /\ job' = IF q.due THEN job
               ELSE [job EXCEPT ![c].doc.orderStatus =
                                              ConfirmedStatus(auto, asap)]
     /\ UNCHANGED <<orders, cart, ledger, dispatched, failed>>

CreateWrite(c) ==
  /\ job[c] # None /\ job[c].op = "create"
  /\ Goto(c, "write", "done")
  /\ orders' = [orders EXCEPT ![c] = job[c].doc]
  /\ UNCHANGED <<cart, ledger, dispatched, job, failed>>

-----------------------------------------------------------------------------
(* PUT /orders/:id *)

UpdateRead(k, o, dto) ==
  LET doc == orders[o]
      s == dto.orderStatus
  IN /\ Stored(o)
     /\ Start(k, [op |-> "update", order |-> o, doc |-> doc,
                  event |-> s, note |-> dto.note,
                  reason |-> IF doc.quote.earn > 0 THEN "earned"
                             ELSE "deducted",
                  refund |-> 0],
              IF WantsDelivery(s, doc.quote) THEN "branch"
              ELSE IF Completes(s, doc) THEN "reward" ELSE "write")
     /\ UNCHANGED <<orders, cart, ledger, dispatched, failed>>

\* The branch is fetched and the creation of the delivery is started in the
\* background.
UpdateBranch(k) ==
  /\ job[k] # None /\ job[k].op = "update"
  /\ Goto(k, "branch", "write")
  /\ dispatched' = dispatched \cup {k}
  /\ UNCHANGED <<orders, cart, ledger, job, failed>>

\* Only the fields of the body are set, and only if the order still exists.
UpdateWrite(k) ==
  LET j == job[k]
  IN /\ j # None /\ j.op = "update"
     /\ Goto(k, "write", "done")
     /\ Store(j.order, Edited(orders[j.order], j))
     /\ UNCHANGED <<cart, ledger, dispatched, job, failed>>

-----------------------------------------------------------------------------
(* PATCH /orders/:id/payment-status *)

\* The whole document is read; the handler changes its copy of it.
PaymentRead(k, o, info) ==
  LET s == info.paymentStatus
      copy == [orders[o] EXCEPT !.orderStatus =
                 IF s = "failed" THEN "pending"
                 ELSE IF s = "refundProcessed" THEN "cancelled" ELSE @]
  IN /\ Stored(o)
     /\ Start(k, [op |-> "payment", order |-> o, doc |-> copy,
                  event |-> s, note |-> Same,
                  reason |-> IF s = "completed" THEN "redeemed"
                             ELSE IF s = "refundProcessed" THEN "refunded"
                             ELSE "partial",
                  refund |-> info.pointsToDeduct],
              IF s = "completed" THEN "branch"
              ELSE IF \/ s = "refundProcessed" /\ info.fullyRefund
                      \/ s = "partiallyRefunded"
                   THEN "reward" ELSE "write")
     /\ UNCHANGED <<orders, cart, ledger, dispatched, failed>>

\* A completed payment: the branch is fetched and decides the status.
PaymentBranch(k, auto) ==
  LET doc == job[k].doc
      s == ConfirmedStatus(auto, doc.quote.asap)
  IN /\ job[k] # None /\ job[k].op = "payment"
     /\ Goto(k, "branch",
             IF doc.quote.redeem > 0 /\ doc.user \in Customers
             THEN "reward" ELSE "write")
     /\ job' = [job EXCEPT ![k].doc.orderStatus = s]
     /\ dispatched' = IF WantsDelivery(s, doc.quote)
                      THEN dispatched \cup {k} ELSE dispatched
     /\ UNCHANGED <<orders, cart, ledger, failed>>

\* Seeded fault: the write upserts.
PaymentWriteUpsert(k) ==
  LET j == job[k]
  IN /\ j # None /\ j.op = "payment"
     /\ Goto(k, "write", "cart")
     /\ orders' = [orders EXCEPT ![j.order] = j.doc]
     /\ UNCHANGED <<cart, ledger, dispatched, job, failed>>

\* The copy is written back whole.
PaymentWrite(k) ==
  LET j == job[k]
  IN /\ j # None /\ j.op = "payment"
     /\ Goto(k, "write", "cart")
     /\ Store(j.order, j.doc)
     /\ UNCHANGED <<cart, ledger, dispatched, job, failed>>

-----------------------------------------------------------------------------
(* The orders service's part of a delivery webhook *)

\* The order status a delivery status stands for; Same: none.
OrderStatusOf(s) ==
  CASE s = "pickup_ready"   -> "riderAssigned"
    [] s = "readyToDeliver" -> "readyForPickup"
    [] s = "delivered"      -> "orderCompleted"
    [] s = "cancelled"      -> "cancelled"
    [] OTHER                -> Same

DeliveryRead(k, o, s) ==
  /\ Stored(o)
  /\ Start(k, [op |-> "delivery", order |-> o, doc |-> orders[o],
               event |-> s, note |-> Same, reason |-> "earned", refund |-> 0],
           IF s = "delivered" /\ orders[o].quote.earn > 0 THEN "reward"
           ELSE IF OrderStatusOf(s) = Same THEN "done" ELSE "write")
  /\ UNCHANGED <<orders, cart, ledger, dispatched, failed>>

DeliveryWrite(k) ==
  LET j == job[k]
  IN /\ j # None /\ j.op = "delivery"
     /\ Goto(k, "write", "done")
     /\ Store(j.order, [orders[j.order] EXCEPT !.orderStatus =
                                              OrderStatusOf(j.event)])
     /\ UNCHANGED <<cart, ledger, dispatched, job, failed>>

-----------------------------------------------------------------------------
(* PATCH /orders/:branchId/accept and DELETE /orders/:id.  All the orders   *)
(* are of one branch.                                                      *)

AcceptAll(k) ==
  /\ Goto(k, "idle", "done")
  /\ orders' = [o \in Checkouts |->
                  IF Stored(o) /\ Acceptable(orders[o])
                  THEN [orders[o] EXCEPT !.orderStatus = "accepted"]
                  ELSE orders[o]]
  /\ UNCHANGED <<cart, ledger, dispatched, job, failed>>

Delete(k, o) ==
  /\ Stored(o)
  /\ Goto(k, "idle", "done")
  /\ orders' = [orders EXCEPT ![o] = None]
  /\ UNCHANGED <<cart, ledger, dispatched, job, failed>>

-----------------------------------------------------------------------------
(* The two writes of a reward movement, the same in every handler: the      *)
(* balance, then the log.                                                  *)

\* Seeded fault: the delivery handler's movement is not logged.
ApplyRewardUnlogged(h) ==
  /\ Goto(h, "reward", IF job[h].op = "delivery" THEN "write" ELSE "log")
  /\ reward' = [reward EXCEPT ![job[h].doc.user] = @ + Points(job[h])]
  /\ applied' = applied \cup {EntryOf(h)}
  /\ UNCHANGED <<orders, cart, rewardTransactionLog, dispatched, job, failed>>

ApplyReward(h) ==
  /\ Goto(h, "reward", "log")
  /\ reward' = [reward EXCEPT ![job[h].doc.user] = @ + Points(job[h])]
  /\ applied' = applied \cup {EntryOf(h)}
  /\ UNCHANGED <<orders, cart, rewardTransactionLog, dispatched, job, failed>>

\* An update that has given an order's points goes on to deduct those the
\* order redeemed; a checkout goes on to delete the cart.
DeductsNext(j) ==
  j.op = "update" /\ j.reason = "earned" /\ j.doc.quote.redeem > 0

LogReward(h) ==
  LET j == job[h]
  IN /\ Goto(h, "log", IF j.op = "create" THEN "cart"
                       ELSE IF DeductsNext(j) THEN "reward" ELSE "write")
     /\ rewardTransactionLog' = rewardTransactionLog \cup {EntryOf(h)}
     /\ job' = IF DeductsNext(j) THEN [job EXCEPT ![h].reason = "deducted"]
               ELSE job
     /\ UNCHANGED <<orders, cart, reward, applied, dispatched, failed>>

\* The user's cart is deleted: before a checkout stores its order, or at the
\* end of every payment event.
DeleteCart(h) ==
  /\ Goto(h, "cart", IF job[h].op = "create" THEN "write" ELSE "done")
  /\ cart' = [cart EXCEPT ![job[h].doc.user] = None]
  /\ UNCHANGED <<orders, ledger, dispatched, job, failed>>

-----------------------------------------------------------------------------
(* Failures *)

\* A failed call or a crash ends the handler where it stands.
Abort(h) ==
  /\ Failures
  /\ h \in Running
  /\ pc' = [pc EXCEPT ![h] = "done"]
  /\ failed' = failed \cup {h}
  /\ UNCHANGED <<orders, cart, ledger, dispatched, job>>

\* An error while redeeming points is caught, and the order goes on.
RedeemFails(h) ==
  /\ Failures
  /\ job[h] # None /\ job[h].reason = "redeemed"
  /\ pc[h] \in {"reward", "log"} \/ (pc[h] = "cart" /\ job[h].op = "create")
  /\ pc' = [pc EXCEPT ![h] = "write"]
  /\ failed' = failed \cup {h}
  /\ UNCHANGED <<orders, cart, ledger, dispatched, job>>

-----------------------------------------------------------------------------
(* The specification *)

Arrive ==
  \/ \E c \in Checkouts, u \in Users, n \in Notes : CreateRead(c, u, n)
  \/ \E k \in Calls, o \in Checkouts :
       \/ \E dto \in Updates : UpdateRead(k, o, dto)
       \/ \E info \in PaymentInfos : PaymentRead(k, o, info)
       \/ \E s \in DeliveryEvents : DeliveryRead(k, o, s)
       \/ Delete(k, o)
  \/ \E k \in Calls : AcceptAll(k)

CheckoutStep(c) ==
  \/ \E auto \in AutoAccept, asap \in BOOLEAN : CreatePay(c, auto, asap)
  \/ CreateWrite(c)

CallStep(k) ==
  \/ UpdateBranch(k)
  \/ UpdateWrite(k)
  \/ \E auto \in AutoAccept : PaymentBranch(k, auto)
  \/ PaymentWrite(k)
  \/ DeliveryWrite(k)

RewardStep(h) == ApplyReward(h) \/ LogReward(h) \/ DeleteCart(h)

Next ==
  \/ \E u \in Users, q \in Quotes : FillCart(u, q)
  \/ Arrive
  \/ \E c \in Checkouts : CheckoutStep(c)
  \/ \E k \in Calls : CallStep(k)
  \/ \E h \in Handlers : RewardStep(h) \/ Abort(h) \/ RedeemFails(h)

Spec == Init /\ [][Next]_vars

\* Once a handler has started, the event loop resumes it at every await.
Fairness ==
  /\ \A c \in Checkouts : WF_vars(CheckoutStep(c) \/ RewardStep(c))
  /\ \A k \in Calls : WF_vars(CallStep(k) \/ RewardStep(k))
FairSpec == Spec /\ Fairness

-----------------------------------------------------------------------------
(* Properties *)

\* Every log entry has its balance change, and a balance change without an
\* entry belongs to a handler that stands between the two writes, or to one
\* that failed there: no path through create, update, updateOrderFromDelivery
\* or updatePaymentStatus moves points behind the log's back.
LedgerComplete ==
  /\ rewardTransactionLog \subseteq applied
  /\ \A e \in applied \ rewardTransactionLog :
       \/ pc[e.call] = "log" /\ e = EntryOf(e.call)
       \/ e.call \in failed

\* The reward documents and the log implement an account: however handlers
\* overlap, fail and repeat, no movement is made twice by one handler, each
\* changes the balance of its user by exactly the points its entry has (no $inc
\* is lost to another), and only a movement that was made is logged.
Account == INSTANCE PointsAccount WITH
  balance <- reward, made <- applied, logged <- rewardTransactionLog
ImplementsAccount == Account!Spec

\* A charged order that earns points is never seen completed before its points
\* were given, whichever of the manager, the courier and a late payment event
\* made it so, and whatever failed on the way.
CompletedIsCredited ==
  \A o \in Checkouts :
    (/\ Stored(o) /\ orders[o].orderStatus = "orderCompleted"
     /\ orders[o].quote.charged /\ orders[o].quote.earn > 0)
      => \E e \in applied : e.order = o /\ e.reason = "earned"

\* The creation of a delivery was started for this order.
Dispatched(o) == \E k \in dispatched : job[k].order = o

\* The payment service, the manager or the courier spoke about this order.
SpokenFor(o) ==
  \E k \in Calls : /\ job[k] # None /\ job[k].order = o
                   /\ \/ /\ job[k].op = "payment"
                         /\ job[k].event \in {"completed", "refundProcessed"}
                      \/ job[k].op = "update" /\ job[k].event # Same
                      \/ job[k].op = "delivery"

\* A delivery order that had to be paid for is never seen in preparation
\* unless the creation of its delivery was started.
PreparingIsDispatched ==
  \A o \in Checkouts :
    (/\ Stored(o) /\ orders[o].orderStatus = "preparing"
     /\ orders[o].quote.delivery /\ orders[o].quote.due) => Dispatched(o)

\* An order that had to be paid for leaves "pending" only if the payment
\* service, the manager or the courier spoke about that very order: neither
\* accepting the branch's orders nor the handling of another order moves it.
UnpaidStaysPending ==
  \A o \in Checkouts :
    (Stored(o) /\ orders[o].quote.due /\ orders[o].orderStatus # "pending")
      => SpokenFor(o)

\* No handler still running brings a deleted order back.
DeletedStaysDeleted ==
  [][\A o \in Checkouts :
       (pc[o] = "done" /\ ~Stored(o)) => ~Stored(o)']_orders

\* PUTs that overlap do not undo each other's edits: the fields edited by a
\* PUT change only when a PUT carrying the new value is written (or when a
\* payment event writes back its copy).
EditsMerge ==
  [][\A o \in Checkouts :
       (Stored(o) /\ Stored(o)' /\ orders[o].note # orders[o]'.note)
         => \E k \in Calls :
              /\ pc[k] = "write" /\ pc'[k] # "write" /\ job[k].order = o
              /\ job[k].op = "payment"
                   \/ (job[k].op = "update" /\ job[k].note = orders[o]'.note)
    ]_orders

\* Completing an order adds its points (the code's comment); the points it
\* redeems, already taken when it was paid, are not taken a second time.
RedeemedAtPaymentOnly ==
  \A e, f \in applied :
    ~(e.order = f.order /\ e.reason = "redeemed" /\ f.reason = "deducted")

\* An order whose payment is reported completed ends up out of "pending"
\* (when no other payment event and no PUT to "pending" concerns it).
PaidLeavesPending ==
  \A o \in Checkouts :
    (\E k \in Calls : /\ job[k] # None /\ job[k].order = o
                      /\ job[k].op = "payment" /\ job[k].event = "completed")
      ~> [](~Stored(o) \/ orders[o].orderStatus # "pending")

-----------------------------------------------------------------------------
(* The inductive invariant behind TypeOK, LedgerComplete and               *)
(* CompletedIsCredited                                                     *)

Held(h) == pc[h] \notin {"idle", "done"}

\* What a running handler holds fits what it serves and where it stands.
HandlerOK(h) ==
  Held(h) =>
    LET j == job[h]
    IN /\ j \in Job
       /\ h \in Checkouts <=> j.op = "create"
       /\ j.op \notin {"accept", "delete"}
       /\ j.op = "create" =>
            /\ j.order = h /\ j.reason = "redeemed"
            /\ j.doc.orderStatus # "orderCompleted"
       /\ j.op = "update" =>
            /\ j.event \in Status \cup {Same}
            /\ j.reason \in {"earned", "deducted"}
            /\ pc[h] \in {"branch", "reward", "log", "write"}
            /\ pc[h] = "branch" => j.event = "preparing"
       /\ j.op = "payment" =>
            /\ j.reason \in {"redeemed", "refunded", "partial"}
            /\ pc[h] \in {"branch", "reward", "log", "write", "cart"}
       /\ j.op = "delivery" =>
            /\ j.event \in DeliveryStatus /\ OrderStatusOf(j.event) # Same
            /\ j.reason = "earned"
            /\ pc[h] \in {"reward", "log", "write"}

\* An order is stored only by its checkout, at its end, and no request speaks
\* of it before; its quote is the one every handler that read it holds.
FreshOK(c) ==
  pc[c] # "done" =>
    /\ orders[c] = None
    /\ \A k \in Calls : Held(k) => job[k].order # c
QuoteOK(h) ==
  (Held(h) /\ h \in Calls /\ orders[job[h].order] # None)
    => orders[job[h].order].quote = job[h].doc.quote

\* A handler between the two writes of a movement has made the first.
LogOK(h) == pc[h] = "log" => EntryOf(h) \in applied

Credited(o) == \E e \in applied : e.order = o /\ e.reason = "earned"
Credits(q) == q.charged /\ q.earn > 0

\* A handler that holds a completed copy, or is past the credit of the
\* completion it serves, serves an order that has been credited.
CreditOK(h) ==
  LET j == job[h]
  IN (Held(h) /\ Credits(j.doc.quote)) =>
       /\ j.doc.orderStatus = "orderCompleted" => Credited(j.order)
       /\ (j.op = "update" /\ j.event = "orderCompleted" /\ pc[h] = "write")
            => Credited(j.order)
       /\ (j.op = "update" /\ j.reason = "deducted"
           /\ pc[h] \in {"reward", "log"}) => Credited(j.order)
       /\ (j.op = "delivery" /\ j.event = "delivered" /\ pc[h] = "write")
            => Credited(j.order)

\* Of the movements a handler makes, an update may make two: the points the
\* order earned, then those it redeemed.  None is made again.
OnceOK(h) ==
  \A e \in applied : e.call = h =>
    /\ pc[h] \notin {"idle", "pay", "branch"}
    /\ pc[h] = "reward" => e.reason = "earned" /\ job[h].reason = "deducted"
    /\ pc[h] = "log" /\ job[h].reason = "earned" => e.reason = "earned"

IInv ==
  /\ TypeOK
  /\ LedgerComplete
  /\ CompletedIsCredited
  /\ \A h \in Handlers : HandlerOK(h) /\ QuoteOK(h) /\ LogOK(h) /\ CreditOK(h)
  /\ \A c \in Checkouts : FreshOK(c)

-----------------------------------------------------------------------------
(* The inductive invariant behind PreparingIsDispatched and                *)
(* UnpaidStaysPending                                                      *)

\* A document of order o may be stored: its status has been accounted for.
StatusExplained(o, doc) ==
  doc.quote.due =>
    /\ doc.orderStatus # "pending" => SpokenFor(o)
    /\ (doc.orderStatus = "preparing" /\ doc.quote.delivery) => Dispatched(o)

\* What a handler is going to write has been accounted for: a checkout stores
\* an order to be paid for as pending, a payment event holds a copy that may be
\* stored, and a PUT that starts the preparation of a delivery has asked for it
\* before it writes.
StatusOK(h) ==
  LET j == job[h]
  IN Held(h) =>
       /\ (j.op = "create" /\ j.doc.quote.due)
            => j.doc.orderStatus = "pending"
       /\ j.op = "payment" =>
            /\ StatusExplained(j.order, j.doc)
            /\ pc[h] = "branch" => j.event = "completed"
       /\ (/\ j.op = "update" /\ j.event = "preparing"
           /\ j.doc.quote.delivery /\ pc[h] # "branch") => h \in dispatched

\* Requests are remembered by what they are about once they have begun.
MemoryOK ==
  /\ \A h \in Handlers : pc[h] = "idle" => job[h] = None
  /\ \A k \in dispatched : job[k] # None

StatusInv ==
  /\ MemoryOK
  /\ \A o \in Checkouts : Stored(o) => StatusExplained(o, orders[o])
  /\ \A h \in Handlers : StatusOK(h)

=============================================================================
