---------------------------- MODULE OrdersProofs ----------------------------
(* Proofs about Orders, for every set of users, carts, requests and bodies: *)
(* the points of a customer add up to what is logged; no order is seen       *)
(* completed before its points were given, in preparation before its         *)
(* delivery was asked for, or out of "pending" without cause; a deleted order *)
(* stays deleted, and edits merge.                                           *)
EXTENDS Orders, TLAPS

ShapeInv == TypeOK /\ \A h \in Handlers : HandlerOK(h)

\* The points of a handler's movement are an integer.
LEMMA PointsInt ==
  ASSUME NEW j \in Job, SetsAssumption
  PROVE  Points(j) \in Int
<1>1. j.doc.quote.earn \in Nat /\ j.doc.quote.redeem \in Nat
  BY DEF Job, OrderDoc, Quote, SetsAssumption
<1>2. j.refund \in Nat /\ j.reason \in Reasons
  BY DEF Job
<1>3. QED BY <1>1, <1>2 DEF Points, Reasons

LEMMA EntryType ==
  ASSUME NEW h \in Handlers, ShapeInv, Held(h), SetsAssumption
  PROVE  EntryOf(h) \in Entry
<1>1. job[h] \in Job BY DEF ShapeInv, HandlerOK
<1>2. Points(job[h]) \in Int BY <1>1, PointsInt
<1>3. QED BY <1>1, <1>2 DEF EntryOf, Entry, Job, OrderDoc

LEMMA ConfirmedStatusType ==
  ASSUME NEW auto, NEW asap
  PROVE  ConfirmedStatus(auto, asap) \in Status \ {"orderCompleted"}
BY DEF ConfirmedStatus, Status

LEMMA InitShape == SetsAssumption /\ InputsAssumption /\ Init => ShapeInv
BY DEF Init, ShapeInv, TypeOK, HandlerOK, Held, Places, InputsAssumption

\* A request that starts with a well-formed job leaves the shape intact.
LEMMA StartShape ==
  ASSUME NEW h \in Handlers, NEW j, NEW place \in Places, ShapeInv,
         Start(h, j, place), j \in Job, place # "idle",
         place # "done" =>
           /\ h \in Checkouts <=> j.op = "create"
           /\ j.op \notin {"accept", "delete"}
           /\ j.op = "create" =>
                /\ j.order = h /\ j.reason = "redeemed"
                /\ j.doc.orderStatus # "orderCompleted"
           /\ j.op = "update" =>
                /\ j.event \in Status \cup {Same}
                /\ j.reason \in {"earned", "deducted"}
                /\ place \in {"branch", "reward", "log", "write"}
                /\ place = "branch" => j.event = "preparing"
           /\ j.op = "payment" =>
                /\ j.reason \in {"redeemed", "refunded", "partial"}
                /\ place \in {"branch", "reward", "log", "write", "cart"}
           /\ j.op = "delivery" =>
                /\ j.event \in DeliveryStatus /\ OrderStatusOf(j.event) # Same
                /\ j.reason = "earned"
                /\ place \in {"reward", "log", "write"}
  PROVE  /\ pc' \in [Handlers -> Places]
         /\ job' \in [Handlers -> Job \cup {None}]
         /\ \A g \in Handlers : HandlerOK(g)'
<1>1. pc \in [Handlers -> Places] /\ job \in [Handlers -> Job \cup {None}]
  BY DEF ShapeInv, TypeOK
<1>2. pc' = [pc EXCEPT ![h] = place] /\ job' = [job EXCEPT ![h] = j]
  BY DEF Start
<1>3. pc' \in [Handlers -> Places] /\ job' \in [Handlers -> Job \cup {None}]
  BY <1>1, <1>2
<1>4. ASSUME NEW g \in Handlers PROVE HandlerOK(g)'
  <2>1. CASE g = h
    BY <1>1, <1>2, <2>1 DEF HandlerOK, Held
  <2>2. CASE g # h
    <3>1. pc'[g] = pc[g] /\ job'[g] = job[g] BY <1>1, <1>2, <2>2
    <3>2. HandlerOK(g) BY DEF ShapeInv
    <3>3. QED BY <3>1, <3>2 DEF HandlerOK, Held
  <2>3. QED BY <2>1, <2>2
<1>5. QED BY <1>3, <1>4

\* A step that moves one handler and keeps what the others hold preserves
\* the shape if the moved handler's shape is preserved.
LEMMA MoveShape ==
  ASSUME NEW h \in Handlers, ShapeInv,
         NEW place \in Places, pc' = [pc EXCEPT ![h] = place],
         NEW j, job' = [job EXCEPT ![h] = j], j \in Job \cup {None},
         HandlerOK(h)'
  PROVE  /\ pc' \in [Handlers -> Places]
         /\ job' \in [Handlers -> Job \cup {None}]
         /\ \A g \in Handlers : HandlerOK(g)'
<1>1. pc \in [Handlers -> Places] /\ job \in [Handlers -> Job \cup {None}]
  BY DEF ShapeInv, TypeOK
<1>2. ASSUME NEW g \in Handlers, g # h PROVE HandlerOK(g)'
  <2>1. pc'[g] = pc[g] /\ job'[g] = job[g] BY <1>1, <1>2
  <2>2. HandlerOK(g) BY DEF ShapeInv
  <2>3. QED BY <2>1, <2>2 DEF HandlerOK, Held
<1>3. QED BY <1>1, <1>2

-----------------------------------------------------------------------------
(* Each kind of step preserves the shape *)

LEMMA ArriveShape ==
  ASSUME ShapeInv, SetsAssumption, InputsAssumption, NoneAssumption, Arrive
  PROVE  ShapeInv'
<1> USE DEF Handlers
<1>1. ASSUME NEW c \in Checkouts, NEW u \in Users, NEW n \in Notes,
             CreateRead(c, u, n)
      PROVE  ShapeInv'
  <2> DEFINE j == [op |-> "create", order |-> c, event |-> Same, note |-> n,
                   doc |-> [orderStatus |-> "pending", note |-> n, user |-> u,
                            quote |-> cart[u]],
                   reason |-> "redeemed", refund |-> 0]
  <2>1. cart[u] \in Quotes
    BY <1>1 DEF CreateRead, ShapeInv, TypeOK
  <2>2. j \in Job
    BY <2>1 DEF Job, OrderDoc, Ops, Events, Reasons, Status
  <2>3. Start(c, j, "pay") BY <1>1 DEF CreateRead
  <2>4. /\ pc' \in [Handlers -> Places]
        /\ job' \in [Handlers -> Job \cup {None}]
        /\ \A g \in Handlers : HandlerOK(g)'
    <3>1. "pay" \in Places BY DEF Places
    <3> HIDE DEF j
    <3>2. /\ j.op = "create" /\ j.order = c /\ j.reason = "redeemed"
          /\ j.doc.orderStatus = "pending"
      BY DEF j
    <3>3. QED BY <2>2, <2>3, <3>1, <3>2, StartShape
  <2>5. QED BY <1>1, <2>4 DEF CreateRead, ShapeInv, TypeOK, ledger
<1>2. ASSUME NEW k \in Calls, NEW o \in Checkouts, NEW dto \in Updates,
             UpdateRead(k, o, dto)
      PROVE  ShapeInv'
  <2> DEFINE doc == orders[o]
             j == [op |-> "update", order |-> o, doc |-> doc,
                   event |-> dto.orderStatus, note |-> dto.note,
                   reason |-> IF doc.quote.earn > 0 THEN "earned"
                              ELSE "deducted",
                   refund |-> 0]
             place == IF WantsDelivery(dto.orderStatus, doc.quote)
                      THEN "branch"
                      ELSE IF Completes(dto.orderStatus, doc) THEN "reward"
                      ELSE "write"
  <2>1. doc \in OrderDoc
    BY <1>2 DEF UpdateRead, Stored, ShapeInv, TypeOK
  <2>2. /\ dto.orderStatus \in Status \cup {Same}
        /\ dto.note \in Notes \cup {Same}
    BY DEF InputsAssumption, UpdateDto
  <2> HIDE DEF doc
  <2>3. j \in Job
    BY <2>1, <2>2 DEF Job, Ops, Events, Reasons
  <2>4. Start(k, j, place) BY <1>2 DEF UpdateRead, doc
  <2>5. /\ pc' \in [Handlers -> Places]
        /\ job' \in [Handlers -> Job \cup {None}]
        /\ \A g \in Handlers : HandlerOK(g)'
    <3>1. /\ place \in {"branch", "reward", "write"}
          /\ place = "branch" => dto.orderStatus = "preparing"
      BY DEF WantsDelivery
    <3>2. /\ j.op = "update" /\ j.event = dto.orderStatus
          /\ j.reason \in {"earned", "deducted"}
      OBVIOUS
    <3>3. k \notin Checkouts BY DEF SetsAssumption
    <3> HIDE DEF j, place
    <3>4. /\ k \in Handlers /\ place \in Places
          /\ place \notin {"idle", "done"}
      BY <3>1 DEF Places, Handlers
    <3>5. /\ k \in Checkouts <=> j.op = "create"
          /\ j.op \notin {"create", "accept", "delete", "payment", "delivery"}
          /\ place \in {"branch", "reward", "log", "write"}
          /\ place = "branch" => j.event = "preparing"
          /\ j.event \in Status \cup {Same}
      BY <2>2, <3>1, <3>2, <3>3
    <3>6. QED BY <2>3, <2>4, <3>2, <3>4, <3>5, StartShape
  <2>6. QED BY <1>2, <2>5 DEF UpdateRead, ShapeInv, TypeOK, ledger
<1>3. ASSUME NEW k \in Calls, NEW o \in Checkouts, NEW info \in PaymentInfos,
             PaymentRead(k, o, info)
      PROVE  ShapeInv'
  <2> DEFINE s == info.paymentStatus
             copy == [orders[o] EXCEPT !.orderStatus =
                        IF s = "failed" THEN "pending"
                        ELSE IF s = "refundProcessed" THEN "cancelled" ELSE @]
             j == [op |-> "payment", order |-> o, doc |-> copy,
                   event |-> s, note |-> Same,
                   reason |-> IF s = "completed" THEN "redeemed"
                              ELSE IF s = "refundProcessed" THEN "refunded"
                              ELSE "partial",
                   refund |-> info.pointsToDeduct]
             place == IF s = "completed" THEN "branch"
                      ELSE IF \/ s = "refundProcessed" /\ info.fullyRefund
                              \/ s = "partiallyRefunded"
                           THEN "reward" ELSE "write"
  <2>1. orders[o] \in OrderDoc
    BY <1>3 DEF PaymentRead, Stored, ShapeInv, TypeOK
  <2>2. s \in PaymentStatus /\ info.pointsToDeduct \in Nat
    BY DEF InputsAssumption, PaymentInfo
  <2>3. copy \in OrderDoc
    BY <2>1 DEF OrderDoc, Status
  <2>4. Start(k, j, place) BY <1>3 DEF PaymentRead
  <2> HIDE DEF s, copy
  <2>5. j \in Job
    BY <2>2, <2>3 DEF Job, Ops, Events, Reasons
  <2>6. /\ pc' \in [Handlers -> Places]
        /\ job' \in [Handlers -> Job \cup {None}]
        /\ \A g \in Handlers : HandlerOK(g)'
    <3>1. place \in {"branch", "reward", "write"} OBVIOUS
    <3>2. /\ j.op = "payment"
          /\ j.reason \in {"redeemed", "refunded", "partial"}
      OBVIOUS
    <3>3. k \notin Checkouts BY DEF SetsAssumption
    <3> HIDE DEF j, place
    <3>4. QED BY <2>4, <2>5, <3>1, <3>2, <3>3, StartShape DEF Places
  <2>7. QED BY <1>3, <2>6 DEF PaymentRead, ShapeInv, TypeOK, ledger
<1>4. ASSUME NEW k \in Calls, NEW o \in Checkouts, NEW s \in DeliveryEvents,
             DeliveryRead(k, o, s)
      PROVE  ShapeInv'
  <2> DEFINE j == [op |-> "delivery", order |-> o, doc |-> orders[o],
                   event |-> s, note |-> Same, reason |-> "earned",
                   refund |-> 0]
             place == IF s = "delivered" /\ orders[o].quote.earn > 0
                      THEN "reward"
                      ELSE IF OrderStatusOf(s) = Same THEN "done" ELSE "write"
  <2>1. orders[o] \in OrderDoc
    BY <1>4 DEF DeliveryRead, Stored, ShapeInv, TypeOK
  <2>2. s \in DeliveryStatus BY DEF InputsAssumption
  <2>3. j \in Job
    BY <2>1, <2>2 DEF Job, Ops, Events, Reasons
  <2>4. Start(k, j, place) BY <1>4 DEF DeliveryRead
  <2>5. /\ pc' \in [Handlers -> Places]
        /\ job' \in [Handlers -> Job \cup {None}]
        /\ \A g \in Handlers : HandlerOK(g)'
    <3>1. /\ place \in {"reward", "write", "done"}
          /\ place # "done" => OrderStatusOf(s) # Same
      BY DEF OrderStatusOf, Same
    <3>2. j.op = "delivery" /\ j.reason = "earned" /\ j.event = s
      OBVIOUS
    <3>3. k \notin Checkouts BY DEF SetsAssumption
    <3> HIDE DEF j, place
    <3>4. QED BY <2>2, <2>3, <2>4, <3>1, <3>2, <3>3, StartShape DEF Places
  <2>6. QED BY <1>4, <2>5 DEF DeliveryRead, ShapeInv, TypeOK, ledger
<1>5. ASSUME NEW k \in Calls,
             AcceptAll(k) \/ (\E o \in Checkouts : Delete(k, o))
      PROVE  ShapeInv'
  <2>1. orders' \in [Checkouts -> OrderDoc \cup {None}]
    BY <1>5 DEF AcceptAll, Delete, Stored, ShapeInv, TypeOK, OrderDoc, Status
  <2>2. /\ pc' = [pc EXCEPT ![k] = "done"] /\ job' = job
        /\ UNCHANGED <<cart, ledger, dispatched, failed>>
    BY <1>5 DEF AcceptAll, Delete, Goto
  <2>3. ASSUME NEW g \in Handlers PROVE HandlerOK(g)'
    BY <2>2 DEF ShapeInv, TypeOK, HandlerOK, Held
  <2>4. QED BY <2>1, <2>2, <2>3 DEF ShapeInv, TypeOK, Places, ledger
<1>6. QED BY <1>1, <1>2, <1>3, <1>4, <1>5 DEF Arrive

LEMMA CheckoutShape ==
  ASSUME ShapeInv, SetsAssumption, NEW c \in Checkouts, CheckoutStep(c)
  PROVE  ShapeInv'
<1> USE DEF Handlers
<1>0. HandlerOK(c) /\ TypeOK BY DEF ShapeInv
<1>1. ASSUME NEW auto \in AutoAccept, NEW asap \in BOOLEAN,
             CreatePay(c, auto, asap)
      PROVE  ShapeInv'
  <2> DEFINE s == ConfirmedStatus(auto, asap)
             q == job[c].doc.quote
             j == IF q.due THEN job[c]
                  ELSE [job[c] EXCEPT !.doc.orderStatus = s]
             place == IF ~q.due /\ q.redeem > 0 /\ job[c].doc.user \in Customers
                      THEN "reward" ELSE "write"
  <2>1. pc[c] = "pay" /\ job[c] \in Job
    BY <1>0, <1>1 DEF CreatePay, Goto, HandlerOK, Held
  <2>2. s \in Status \ {"orderCompleted"} BY ConfirmedStatusType
  <2>3. j \in Job
    <3> HIDE DEF s
    <3>1. QED BY <2>1, <2>2 DEF Job, OrderDoc
  <2>4. /\ pc' = [pc EXCEPT ![c] = place]
        /\ job' = [job EXCEPT ![c] = j]
    BY <1>0, <1>1 DEF CreatePay, Goto, TypeOK
  <2>5. HandlerOK(c)'
    <3>1. job'[c] = j /\ pc'[c] = place
      BY <1>0, <2>4 DEF TypeOK
    <3>2. /\ j.op = "create" /\ j.order = c /\ j.reason = "redeemed"
          /\ j.doc.orderStatus # "orderCompleted"
      <4> HIDE DEF s
      <4>1. QED BY <1>0, <1>1, <2>1, <2>2
            DEF CreatePay, HandlerOK, Held, Job, OrderDoc
    <3> HIDE DEF j
    <3>3. QED BY <2>3, <3>1, <3>2 DEF HandlerOK, Held
  <2>6. place \in Places BY DEF Places
  <2> HIDE DEF j, place
  <2>7. /\ pc' \in [Handlers -> Places]
        /\ job' \in [Handlers -> Job \cup {None}]
        /\ \A g \in Handlers : HandlerOK(g)'
    BY <2>3, <2>4, <2>5, <2>6, MoveShape
  <2>8. QED BY <1>1, <2>7 DEF CreatePay, ShapeInv, TypeOK, ledger
<1>2. CASE CreateWrite(c)
  <2>1. job[c].doc \in OrderDoc
    BY <1>0, <1>2 DEF CreateWrite, Goto, HandlerOK, Held, Job
  <2>2. orders' \in [Checkouts -> OrderDoc \cup {None}]
    BY <1>0, <1>2, <2>1 DEF CreateWrite, TypeOK
  <2>3. pc' = [pc EXCEPT ![c] = "done"] /\ job' = job
    BY <1>2 DEF CreateWrite, Goto
  <2>4. ASSUME NEW g \in Handlers PROVE HandlerOK(g)'
    BY <2>3 DEF ShapeInv, TypeOK, HandlerOK, Held
  <2>5. QED
    BY <1>2, <2>2, <2>3, <2>4 DEF CreateWrite, ShapeInv, TypeOK, Places, ledger
<1>3. QED BY <1>1, <1>2 DEF CheckoutStep

\* A call's write: the collection stays well-typed and the handler goes on.
LEMMA StoreType ==
  ASSUME ShapeInv, NEW o \in Checkouts, NEW doc,
         orders[o] # None => doc \in OrderDoc, Store(o, doc)
  PROVE  orders' \in [Checkouts -> OrderDoc \cup {None}]
BY DEF ShapeInv, TypeOK, Store, Stored

LEMMA CallShape ==
  ASSUME ShapeInv, SetsAssumption, NEW k \in Calls, CallStep(k)
  PROVE  ShapeInv'
<1> USE DEF Handlers
<1>0. HandlerOK(k) /\ TypeOK BY DEF ShapeInv
<1>1. CASE UpdateBranch(k)
  <2>1. pc' = [pc EXCEPT ![k] = "write"] /\ job' = job /\ pc[k] = "branch"
    BY <1>1 DEF UpdateBranch, Goto
  <2>2. ASSUME NEW g \in Handlers PROVE HandlerOK(g)'
    BY <1>1, <2>1 DEF UpdateBranch, ShapeInv, TypeOK, HandlerOK, Held
  <2>3. QED
    BY <1>1, <2>1, <2>2 DEF UpdateBranch, ShapeInv, TypeOK, Places, ledger
<1>2. CASE UpdateWrite(k)
  <2> DEFINE j == job[k]
  <2>1. /\ pc[k] = "write" /\ j \in Job /\ j.op = "update"
        /\ j.event \in Status \cup {Same} /\ j.order \in Checkouts
    BY <1>0, <1>2 DEF UpdateWrite, Goto, HandlerOK, Held, Job
  <2>2. orders[j.order] # None => orders[j.order] \in OrderDoc
    BY <1>0, <2>1 DEF TypeOK
  <2>3. orders[j.order] # None => Edited(orders[j.order], j) \in OrderDoc
    <3>1. j.note \in Notes \cup {Same} BY <2>1 DEF Job
    <3> HIDE DEF j
    <3>2. QED BY <2>1, <2>2, <3>1 DEF Edited, OrderDoc
  <2>4. Store(j.order, Edited(orders[j.order], j))
    BY <1>2 DEF UpdateWrite
  <2>5. orders' \in [Checkouts -> OrderDoc \cup {None}]
    BY <2>1, <2>3, <2>4, StoreType
  <2>6. pc' = [pc EXCEPT ![k] = "done"] /\ job' = job
    BY <1>2 DEF UpdateWrite, Goto
  <2>7. ASSUME NEW g \in Handlers PROVE HandlerOK(g)'
    BY <2>6 DEF ShapeInv, TypeOK, HandlerOK, Held
  <2>8. QED
    BY <1>2, <2>5, <2>6, <2>7 DEF UpdateWrite, ShapeInv, TypeOK, Places, ledger
<1>3. ASSUME NEW auto \in AutoAccept, PaymentBranch(k, auto)
      PROVE  ShapeInv'
  <2> DEFINE s == ConfirmedStatus(auto, job[k].doc.quote.asap)
             j == [job[k] EXCEPT !.doc.orderStatus = s]
             place == IF /\ job[k].doc.quote.redeem > 0
                         /\ job[k].doc.user \in Customers
                      THEN "reward" ELSE "write"
  <2>1. /\ pc[k] = "branch" /\ job[k] \in Job /\ job[k].op = "payment"
        /\ job[k].reason \in {"redeemed", "refunded", "partial"}
    BY <1>0, <1>3 DEF PaymentBranch, Goto, HandlerOK, Held
  <2>2. s \in Status BY ConfirmedStatusType
  <2>3. /\ j \in Job /\ j.op = "payment"
        /\ j.reason \in {"redeemed", "refunded", "partial"}
    <3> HIDE DEF s
    <3>1. QED BY <2>1, <2>2 DEF Job, OrderDoc
  <2>4. /\ pc' = [pc EXCEPT ![k] = place]
        /\ job' = [job EXCEPT ![k] = j]
    BY <1>0, <1>3 DEF PaymentBranch, Goto, TypeOK
  <2>5. HandlerOK(k)'
    <3>1. job'[k] = j /\ pc'[k] = place
      BY <1>0, <2>4 DEF TypeOK
    <3>2. k \notin Checkouts BY DEF SetsAssumption
    <3> HIDE DEF j
    <3>3. QED BY <2>3, <3>1, <3>2 DEF HandlerOK, Held
  <2>6. place \in Places BY DEF Places
  <2> HIDE DEF j, place
  <2>7. /\ pc' \in [Handlers -> Places]
        /\ job' \in [Handlers -> Job \cup {None}]
        /\ \A g \in Handlers : HandlerOK(g)'
    BY <2>3, <2>4, <2>5, <2>6, MoveShape
  <2>8. QED BY <1>3, <2>7 DEF PaymentBranch, ShapeInv, TypeOK, ledger
<1>4. CASE PaymentWrite(k)
  <2> DEFINE j == job[k]
  <2>1. /\ pc[k] = "write" /\ j \in Job /\ j.op = "payment"
        /\ j.doc \in OrderDoc /\ j.order \in Checkouts
    BY <1>0, <1>4 DEF PaymentWrite, Goto, HandlerOK, Held, Job
  <2>2. orders' \in [Checkouts -> OrderDoc \cup {None}]
    BY <1>4, <2>1, StoreType DEF PaymentWrite
  <2>3. pc' = [pc EXCEPT ![k] = "cart"] /\ job' = job
    BY <1>4 DEF PaymentWrite, Goto
  <2>4. ASSUME NEW g \in Handlers PROVE HandlerOK(g)'
    BY <2>1, <2>3 DEF ShapeInv, TypeOK, HandlerOK, Held
  <2>5. QED
    BY <1>4, <2>2, <2>3, <2>4 DEF PaymentWrite, ShapeInv, TypeOK, Places, ledger
<1>5. CASE DeliveryWrite(k)
  <2> DEFINE j == job[k]
  <2>1. /\ pc[k] = "write" /\ j \in Job /\ j.op = "delivery"
        /\ OrderStatusOf(j.event) # Same /\ j.order \in Checkouts
    BY <1>0, <1>5 DEF DeliveryWrite, Goto, HandlerOK, Held, Job
  <2>2. OrderStatusOf(j.event) \in Status
    BY <2>1 DEF OrderStatusOf, Status, Same
  <2>3. orders[j.order] # None => orders[j.order] \in OrderDoc
    BY <1>0, <2>1 DEF TypeOK
  <2>4. orders[j.order] # None =>
          [orders[j.order] EXCEPT !.orderStatus = OrderStatusOf(j.event)]
             \in OrderDoc
    BY <2>2, <2>3 DEF OrderDoc
  <2>5. orders' \in [Checkouts -> OrderDoc \cup {None}]
    BY <1>5, <2>1, <2>4, StoreType DEF DeliveryWrite
  <2>6. pc' = [pc EXCEPT ![k] = "done"] /\ job' = job
    BY <1>5 DEF DeliveryWrite, Goto
  <2>7. ASSUME NEW g \in Handlers PROVE HandlerOK(g)'
    BY <2>6 DEF ShapeInv, TypeOK, HandlerOK, Held
  <2>8. QED
    BY <1>5, <2>5, <2>6, <2>7
       DEF DeliveryWrite, ShapeInv, TypeOK, Places, ledger
<1>6. QED BY <1>1, <1>2, <1>3, <1>4, <1>5 DEF CallStep

LEMMA RewardShape ==
  ASSUME ShapeInv, SetsAssumption, NoneAssumption,
         NEW h \in Handlers, RewardStep(h)
  PROVE  ShapeInv'
<1>0. HandlerOK(h) /\ TypeOK BY DEF ShapeInv
<1>1. CASE ApplyReward(h)
  <2>1. pc[h] = "reward" /\ pc' = [pc EXCEPT ![h] = "log"] /\ job' = job
    BY <1>1 DEF ApplyReward, Goto
  <2>2. job[h] \in Job BY <1>0, <2>1 DEF HandlerOK, Held
  <2>3. EntryOf(h) \in Entry
    BY <2>1, EntryType DEF Held
  <2>4. reward' \in [Users -> Int]
    <3> DEFINE u == job[h].doc.user
               p == Points(job[h])
    <3>1. u \in Users BY <2>2 DEF Job, OrderDoc
    <3>2. p \in Int BY <2>2, PointsInt
    <3>3. reward' = [reward EXCEPT ![u] = reward[u] + p]
      BY <1>1 DEF ApplyReward
    <3>4. reward \in [Users -> Int] BY <1>0 DEF TypeOK
    <3> HIDE DEF u, p
    <3>5. QED BY <3>1, <3>2, <3>3, <3>4
  <2>5. ASSUME NEW g \in Handlers PROVE HandlerOK(g)'
    BY <2>1 DEF ShapeInv, TypeOK, HandlerOK, Held
  <2>6. QED
    BY <1>1, <2>1, <2>3, <2>4, <2>5 DEF ApplyReward, ShapeInv, TypeOK, Places
<1>2. CASE LogReward(h)
  <2> DEFINE j == IF DeductsNext(job[h])
                  THEN [job[h] EXCEPT !.reason = "deducted"] ELSE job[h]
             place == IF job[h].op = "create" THEN "cart"
                      ELSE IF DeductsNext(job[h]) THEN "reward" ELSE "write"
  <2>1. pc[h] = "log" /\ job[h] \in Job
    BY <1>0, <1>2 DEF LogReward, Goto, HandlerOK, Held
  <2>2. /\ pc' = [pc EXCEPT ![h] = place]
        /\ job' = [job EXCEPT ![h] = j]
    BY <1>0, <1>2 DEF LogReward, Goto, TypeOK
  <2>3. j \in Job BY <2>1 DEF Job, Reasons
  <2>4. HandlerOK(h)'
    <3>1. job'[h] = j /\ pc'[h] = place
      BY <1>0, <2>2 DEF TypeOK
    <3>2. CASE DeductsNext(job[h])
      <4>1. /\ j.op = "update" /\ j.reason = "deducted"
            /\ j.event = job[h].event
            /\ job[h].op = "update"
        BY <2>1, <3>2 DEF DeductsNext, Job
      <4>2. job[h].event \in Status \cup {Same} /\ h \notin Checkouts
        BY <1>0, <2>1, <4>1 DEF HandlerOK, Held
      <4>3. place = "reward" BY <3>2, <4>1
      <4> HIDE DEF j, place
      <4>4. QED BY <2>3, <3>1, <4>1, <4>2, <4>3 DEF HandlerOK, Held
    <3>3. CASE ~DeductsNext(job[h])
      <4>1. job'[h] = job[h] BY <3>1, <3>3
      <4>2. \/ place = "cart" /\ job[h].op = "create"
            \/ place = "write" /\ job[h].op # "create"
        BY <3>3
      <4> HIDE DEF place
      <4>3. QED BY <1>0, <2>1, <3>1, <4>1, <4>2 DEF HandlerOK, Held
    <3>4. QED BY <3>2, <3>3
  <2>5. place \in Places BY DEF Places
  <2>6. EntryOf(h) \in Entry BY <2>1, EntryType DEF Held
  <2> HIDE DEF j, place
  <2>7. /\ pc' \in [Handlers -> Places]
        /\ job' \in [Handlers -> Job \cup {None}]
        /\ \A g \in Handlers : HandlerOK(g)'
    BY <2>2, <2>3, <2>4, <2>5, MoveShape
  <2>8. QED BY <1>2, <2>6, <2>7 DEF LogReward, ShapeInv, TypeOK
<1>3. CASE DeleteCart(h)
  <2>1. /\ pc[h] = "cart" /\ job' = job
        /\ \/ pc' = [pc EXCEPT ![h] = "write"] /\ job[h].op = "create"
           \/ pc' = [pc EXCEPT ![h] = "done"]
    BY <1>3 DEF DeleteCart, Goto
  <2>2. ASSUME NEW g \in Handlers PROVE HandlerOK(g)'
    BY <1>0, <2>1 DEF ShapeInv, TypeOK, HandlerOK, Held
  <2>3. job[h].doc.user \in Users
    BY <1>0, <2>1 DEF HandlerOK, Held, Job, OrderDoc
  <2>4. cart' \in [Users -> Quotes \cup {None}]
    BY <1>0, <1>3, <2>3 DEF DeleteCart, TypeOK
  <2>5. QED
    BY <1>3, <2>1, <2>2, <2>4 DEF DeleteCart, ShapeInv, TypeOK, Places, ledger
<1>4. QED BY <1>1, <1>2, <1>3 DEF RewardStep

LEMMA FailureShape ==
  ASSUME ShapeInv, SetsAssumption, NEW h \in Handlers,
         Abort(h) \/ RedeemFails(h)
  PROVE  ShapeInv'
<1>0. HandlerOK(h) /\ TypeOK BY DEF ShapeInv
<1>1. CASE Abort(h)
  <2>1. ASSUME NEW g \in Handlers PROVE HandlerOK(g)'
    BY <1>1 DEF Abort, ShapeInv, TypeOK, HandlerOK, Held
  <2>2. QED BY <1>1, <2>1 DEF Abort, ShapeInv, TypeOK, Places, ledger
<1>2. CASE RedeemFails(h)
  <2>1. ASSUME NEW g \in Handlers PROVE HandlerOK(g)'
    BY <1>0, <1>2 DEF RedeemFails, ShapeInv, TypeOK, HandlerOK, Held
  <2>2. QED BY <1>2, <2>1 DEF RedeemFails, ShapeInv, TypeOK, Places, ledger
<1>3. QED BY <1>1, <1>2

LEMMA NextShape ==
  ASSUME ShapeInv, SetsAssumption, InputsAssumption, NoneAssumption,
         [Next]_vars
  PROVE  ShapeInv'
<1>1. CASE UNCHANGED vars
  BY <1>1 DEF vars, ShapeInv, TypeOK, HandlerOK, Held
<1>2. ASSUME NEW u \in Users, NEW q \in Quotes, FillCart(u, q)
      PROVE  ShapeInv'
  BY <1>2 DEF FillCart, ShapeInv, TypeOK, HandlerOK, Held, ledger
<1>3. QED
  BY <1>1, <1>2, ArriveShape, CheckoutShape, CallShape, RewardShape,
     FailureShape DEF Next

\* TypeOK holds of every run, with any number of requests in flight and any
\* failures: in particular no write of a stale copy or of a mapped webhook
\* status stores a document outside the schema.
THEOREM TypeCorrect == Spec => []TypeOK
<1>1. Init => ShapeInv
  BY InitShape, SetsAssumption, InputsAssumption
<1>2. ShapeInv /\ [Next]_vars => ShapeInv'
  BY NextShape, SetsAssumption, InputsAssumption, NoneAssumption
<1>3. ShapeInv => TypeOK BY DEF ShapeInv
<1>4. QED BY <1>1, <1>2, <1>3, PTL DEF Spec

-----------------------------------------------------------------------------
(* The ledger of reward points *)

LedgerInv == LedgerComplete /\ \A h \in Handlers : LogOK(h)

\* A step that makes no movement keeps the ledger, provided the handler it
\* moves does not leave a movement half made without being recorded as failed.
LEMMA LedgerFrame ==
  ASSUME ShapeInv, LedgerInv, NEW h \in Handlers,
         NEW place \in Places \ {"log"}, pc' = [pc EXCEPT ![h] = place],
         pc[h] # "log" \/ h \in failed',
         \A g \in Handlers \ {h} : job'[g] = job[g],
         UNCHANGED ledger, failed \subseteq failed'
  PROVE  LedgerInv'
<1>1. pc \in [Handlers -> Places] /\ applied \subseteq Entry
  BY DEF ShapeInv, TypeOK
<1>2. \A g \in Handlers : pc'[g] = "log" => /\ g # h /\ pc[g] = "log"
                                            /\ job'[g] = job[g]
  BY <1>1
<1>3. \A g \in Handlers : LogOK(g)'
  BY <1>2 DEF LedgerInv, LogOK, EntryOf, Points, ledger
<1>4. rewardTransactionLog' \subseteq applied'
  BY DEF LedgerInv, LedgerComplete, ledger
<1>5. ASSUME NEW e \in applied' \ rewardTransactionLog'
      PROVE  \/ pc'[e.call] = "log" /\ e = EntryOf(e.call)'
             \/ e.call \in failed'
  <2>1. e \in applied \ rewardTransactionLog /\ e.call \in Handlers
    BY <1>1 DEF ledger, Entry
  <2>2. CASE e.call \in failed BY <2>2
  <2>3. CASE pc[e.call] = "log" /\ e = EntryOf(e.call)
    <3>1. CASE e.call = h BY <2>3, <3>1
    <3>2. CASE e.call # h
      <4>1. pc'[e.call] = "log" /\ job'[e.call] = job[e.call]
        BY <1>1, <2>1, <2>3, <3>2
      <4>2. QED BY <2>3, <4>1 DEF EntryOf, Points
    <3>3. QED BY <3>1, <3>2
  <2>4. QED BY <2>1, <2>2, <2>3 DEF LedgerInv, LedgerComplete
<1>6. QED BY <1>3, <1>4, <1>5 DEF LedgerInv, LedgerComplete

\* A request that arrives moves one handler from where it had not begun, and
\* no points.
LEMMA ArriveMoves ==
  ASSUME ShapeInv, Arrive
  PROVE  \E h \in Handlers, place \in Places \ {"log"} :
           /\ pc[h] = "idle" /\ pc' = [pc EXCEPT ![h] = place]
           /\ \A g \in Handlers \ {h} : job'[g] = job[g]
           /\ UNCHANGED <<ledger, failed>>
<1> DEFINE Moved(h) == \E place \in Places \ {"log"} :
                        /\ pc[h] = "idle" /\ pc' = [pc EXCEPT ![h] = place]
                        /\ job' = job \/ \E j : job' = [job EXCEPT ![h] = j]
                        /\ UNCHANGED <<ledger, failed>>
<1>1. \E h \in Handlers : Moved(h)
  <2>1. ASSUME NEW c \in Checkouts, NEW u \in Users, NEW n \in Notes,
               CreateRead(c, u, n)
        PROVE  Moved(c)
    BY <2>1 DEF CreateRead, Start, Places
  <2>2. ASSUME NEW k \in Calls, NEW o \in Checkouts, NEW dto \in Updates,
               UpdateRead(k, o, dto)
        PROVE  Moved(k)
    <3>1. \E place \in {"branch", "reward", "write"} : \E j : Start(k, j, place)
      BY <2>2 DEF UpdateRead
    <3>2. QED BY <2>2, <3>1 DEF UpdateRead, Start, Places
  <2>3. ASSUME NEW k \in Calls, NEW o \in Checkouts, NEW i \in PaymentInfos,
               PaymentRead(k, o, i)
        PROVE  Moved(k)
    <3>1. \E place \in {"branch", "reward", "write"} : \E j : Start(k, j, place)
      BY <2>3 DEF PaymentRead
    <3>2. QED BY <2>3, <3>1 DEF PaymentRead, Start, Places
  <2>4. ASSUME NEW k \in Calls, NEW o \in Checkouts, NEW s \in DeliveryEvents,
               DeliveryRead(k, o, s)
        PROVE  Moved(k)
    <3>1. \E place \in {"done", "reward", "write"} : \E j : Start(k, j, place)
      BY <2>4 DEF DeliveryRead
    <3>2. QED BY <2>4, <3>1 DEF DeliveryRead, Start, Places
  <2>5. ASSUME NEW k \in Calls, NEW o \in Checkouts,
               Delete(k, o)
        PROVE  Moved(k)
    BY <2>5 DEF Delete, Goto, Places
  <2>6. ASSUME NEW k \in Calls, AcceptAll(k) PROVE Moved(k)
    BY <2>6 DEF AcceptAll, Goto, Places
  <2> HIDE DEF Moved
  <2>7. QED BY <2>1, <2>2, <2>3, <2>4, <2>5, <2>6 DEF Arrive, Handlers
<1>2. PICK h \in Handlers, place \in Places \ {"log"} :
        /\ pc[h] = "idle" /\ pc' = [pc EXCEPT ![h] = place]
        /\ job' = job \/ \E j : job' = [job EXCEPT ![h] = j]
        /\ UNCHANGED <<ledger, failed>>
  BY <1>1
<1>3. \A g \in Handlers \ {h} : job'[g] = job[g]
  BY <1>2 DEF ShapeInv, TypeOK
<1>4. QED BY <1>2, <1>3

LEMMA ArriveLedger ==
  ASSUME ShapeInv, LedgerInv, Arrive
  PROVE  LedgerInv'
BY ArriveMoves, LedgerFrame

LEMMA HandlerLedger ==
  ASSUME ShapeInv, LedgerInv,
         \/ \E c \in Checkouts : CheckoutStep(c)
         \/ \E k \in Calls : CallStep(k)
         \/ \E h \in Handlers : DeleteCart(h) \/ Abort(h) \/ RedeemFails(h)
  PROVE  LedgerInv'
<1>1. PICK h \in Handlers, place \in Places \ {"log"} :
        /\ pc' = [pc EXCEPT ![h] = place]
        /\ pc[h] # "log" \/ h \in failed'
        /\ job' = job \/ \E j : job' = [job EXCEPT ![h] = j]
        /\ UNCHANGED ledger /\ failed \subseteq failed'
  <2>1. CASE \E c \in Checkouts : CheckoutStep(c)
    BY <2>1 DEF CheckoutStep, CreatePay, CreateWrite, Goto, Handlers, Places
  <2>2. CASE \E k \in Calls : CallStep(k)
    BY <2>2 DEF CallStep, UpdateBranch, UpdateWrite, PaymentBranch,
                PaymentWrite, DeliveryWrite, Goto, Handlers, Places
  <2>3. CASE \E h \in Handlers : DeleteCart(h) \/ Abort(h) \/ RedeemFails(h)
    BY <2>3 DEF DeleteCart, Abort, RedeemFails, Goto, Places
  <2>4. QED BY <2>1, <2>2, <2>3
<1>2. \A g \in Handlers \ {h} : job'[g] = job[g]
  BY <1>1 DEF ShapeInv, TypeOK
<1>3. QED BY <1>1, <1>2, LedgerFrame

\* The first write of a movement makes a change the log lacks, and leaves the
\* handler between the two writes.
LEMMA ApplyLedger ==
  ASSUME ShapeInv, LedgerInv, NEW h \in Handlers, ApplyReward(h)
  PROVE  LedgerInv'
<1>1. /\ pc \in [Handlers -> Places] /\ applied \subseteq Entry
      /\ pc[h] = "reward" /\ pc' = [pc EXCEPT ![h] = "log"] /\ job' = job
      /\ applied' = applied \cup {EntryOf(h)}
      /\ rewardTransactionLog' = rewardTransactionLog /\ failed' = failed
  BY DEF ShapeInv, TypeOK, ApplyReward, Goto
<1>2. \A g \in Handlers : EntryOf(g)' = EntryOf(g)
  BY <1>1 DEF EntryOf, Points
<1>3. \A g \in Handlers : LogOK(g)'
  BY <1>1, <1>2 DEF LedgerInv, LogOK
<1>4. rewardTransactionLog' \subseteq applied'
  BY <1>1 DEF LedgerInv, LedgerComplete
<1>5. ASSUME NEW e \in applied' \ rewardTransactionLog'
      PROVE  \/ pc'[e.call] = "log" /\ e = EntryOf(e.call)'
             \/ e.call \in failed'
  <2>1. CASE e \in applied
    <3>1. e.call \in Handlers BY <1>1, <2>1 DEF Entry
    <3>2. CASE e.call \in failed BY <1>1, <3>2
    <3>3. CASE pc[e.call] = "log" /\ e = EntryOf(e.call)
      BY <1>1, <1>2, <3>1, <3>3
    <3>4. QED BY <1>1, <2>1, <3>2, <3>3 DEF LedgerInv, LedgerComplete
  <2>2. CASE e = EntryOf(h)
    <3>1. e.call = h BY <2>2 DEF EntryOf
    <3>2. QED BY <1>1, <1>2, <2>2, <3>1
  <2>3. QED BY <1>1, <2>1, <2>2
<1>6. QED BY <1>3, <1>4, <1>5 DEF LedgerInv, LedgerComplete

\* The second write completes the movement of its handler.
LEMMA LogLedger ==
  ASSUME ShapeInv, LedgerInv, NEW h \in Handlers, LogReward(h)
  PROVE  LedgerInv'
<1>1. PICK place \in Places \ {"log"} :
        /\ pc \in [Handlers -> Places] /\ applied \subseteq Entry
        /\ pc[h] = "log" /\ pc' = [pc EXCEPT ![h] = place]
        /\ job' = job \/ \E j : job' = [job EXCEPT ![h] = j]
        /\ rewardTransactionLog' = rewardTransactionLog \cup {EntryOf(h)}
        /\ applied' = applied /\ failed' = failed
  BY DEF ShapeInv, TypeOK, LogReward, Goto, Places
<1>2. \A g \in Handlers \ {h} : job'[g] = job[g] /\ pc'[g] = pc[g]
  BY <1>1 DEF ShapeInv, TypeOK
<1>3. \A g \in Handlers \ {h} : EntryOf(g)' = EntryOf(g)
  BY <1>2 DEF EntryOf, Points
<1>4. pc'[h] # "log" BY <1>1
<1>5. \A g \in Handlers : LogOK(g)'
  BY <1>1, <1>2, <1>3, <1>4 DEF LedgerInv, LogOK
<1>6. rewardTransactionLog' \subseteq applied'
  BY <1>1 DEF LedgerInv, LedgerComplete, LogOK
<1>7. ASSUME NEW e \in applied' \ rewardTransactionLog'
      PROVE  \/ pc'[e.call] = "log" /\ e = EntryOf(e.call)'
             \/ e.call \in failed'
  <2>1. e \in applied \ rewardTransactionLog /\ e # EntryOf(h)
        /\ e.call \in Handlers
    BY <1>1 DEF Entry
  <2>2. CASE e.call \in failed BY <1>1, <2>2
  <2>3. CASE pc[e.call] = "log" /\ e = EntryOf(e.call)
    BY <1>2, <1>3, <2>1, <2>3
  <2>4. QED BY <2>1, <2>2, <2>3 DEF LedgerInv, LedgerComplete
<1>8. QED BY <1>5, <1>6, <1>7 DEF LedgerInv, LedgerComplete

LEMMA NextLedger ==
  ASSUME ShapeInv, LedgerInv, [Next]_vars
  PROVE  LedgerInv'
<1>1. CASE UNCHANGED vars
  BY <1>1 DEF vars, LedgerInv, LedgerComplete, LogOK, EntryOf, Points
<1>2. ASSUME NEW u \in Users, NEW q \in Quotes, FillCart(u, q)
      PROVE  LedgerInv'
  BY <1>2 DEF FillCart, LedgerInv, LedgerComplete, LogOK, EntryOf, Points,
              ledger
<1>3. QED
  BY <1>1, <1>2, ArriveLedger, HandlerLedger, ApplyLedger, LogLedger
     DEF Next, RewardStep

\* However many requests overlap and wherever they fail, every balance change
\* is in the reward log, or is being logged, or belongs to a handler in which
\* a write failed.
THEOREM LedgerIsComplete == Spec => []LedgerComplete
<1> DEFINE I == ShapeInv /\ LedgerInv
<1>1. Init => I
  <2>1. Init => ShapeInv BY InitShape, SetsAssumption, InputsAssumption
  <2>2. Init => LedgerInv BY DEF Init, LedgerInv, LedgerComplete, LogOK
  <2>3. QED BY <2>1, <2>2
<1>2. I /\ [Next]_vars => I'
  BY NextShape, NextLedger, SetsAssumption, InputsAssumption, NoneAssumption
<1>3. I => LedgerComplete BY DEF LedgerInv
<1> HIDE DEF I
<1>4. QED BY <1>1, <1>2, <1>3, PTL DEF Spec

-----------------------------------------------------------------------------
(* The refinement of PointsAccount *)

OnceInv == \A h \in Handlers : OnceOK(h)

\* A step that makes no movement keeps OnceOK, provided the handler it moves
\* does not come to another movement after it has made one.
LEMMA OnceFrame ==
  ASSUME ShapeInv, OnceInv, NEW h \in Handlers,
         NEW place \in Places \ {"log", "idle", "pay", "branch"},
         pc' = [pc EXCEPT ![h] = place],
         \A g \in Handlers \ {h} : job'[g] = job[g],
         place = "reward" =>
           \/ pc[h] \in {"idle", "pay", "branch"}
           \/ /\ \A e \in applied : e.call = h => e.reason = "earned"
              /\ job'[h].reason = "deducted",
         applied' = applied
  PROVE  OnceInv'
<1>1. pc \in [Handlers -> Places] /\ pc'[h] = place
  BY DEF ShapeInv, TypeOK
<1>2. ASSUME NEW g \in Handlers, g # h PROVE OnceOK(g)'
  <2>1. pc'[g] = pc[g] /\ job'[g] = job[g] BY <1>1, <1>2
  <2>2. OnceOK(g) BY DEF OnceInv
  <2>3. QED BY <2>1, <2>2 DEF OnceOK
<1>3. OnceOK(h)' BY <1>1 DEF OnceInv, OnceOK
<1>4. QED BY <1>2, <1>3 DEF OnceInv

\* Nothing a handler has not begun or only asked about has moved points yet.
LEMMA OnceBefore ==
  ASSUME ShapeInv, OnceInv, NEW h \in Handlers, applied' = applied,
         pc[h] \in {"idle", "pay", "branch"},
         NEW place, pc' = [pc EXCEPT ![h] = place],
         \A g \in Handlers \ {h} : job'[g] = job[g]
  PROVE  OnceInv'
<1>1. pc \in [Handlers -> Places] BY DEF ShapeInv, TypeOK
<1>2. ASSUME NEW g \in Handlers, g # h PROVE OnceOK(g)'
  <2>1. pc'[g] = pc[g] /\ job'[g] = job[g] BY <1>1, <1>2
  <2>2. OnceOK(g) BY DEF OnceInv
  <2>3. QED BY <2>1, <2>2 DEF OnceOK
<1>3. OnceOK(h)' BY DEF OnceInv, OnceOK
<1>4. QED BY <1>2, <1>3 DEF OnceInv

LEMMA ArriveOnce ==
  ASSUME ShapeInv, OnceInv, Arrive
  PROVE  OnceInv'
<1>1. PICK h \in Handlers, place \in Places :
        /\ pc[h] = "idle" /\ pc' = [pc EXCEPT ![h] = place]
        /\ \A g \in Handlers \ {h} : job'[g] = job[g]
        /\ applied' = applied
  BY ArriveMoves DEF ledger
<1>2. QED BY <1>1, OnceBefore

LEMMA HandlerOnce ==
  ASSUME ShapeInv, OnceInv,
         \/ \E c \in Checkouts : CheckoutStep(c)
         \/ \E k \in Calls : CallStep(k)
         \/ \E h \in Handlers : DeleteCart(h) \/ Abort(h) \/ RedeemFails(h)
  PROVE  OnceInv'
<1>1. ASSUME NEW h \in Handlers, NEW place \in {"write", "done"},
             pc' = [pc EXCEPT ![h] = place], applied' = applied,
             UNCHANGED job
      PROVE  OnceInv'
  BY <1>1, OnceFrame DEF Places
<1>2. ASSUME NEW c \in Checkouts, NEW auto, NEW asap, CreatePay(c, auto, asap)
      PROVE  OnceInv'
  <2>1. \E place : /\ pc[c] = "pay" /\ pc' = [pc EXCEPT ![c] = place]
                   /\ job' = job \/ \E j : job' = [job EXCEPT ![c] = j]
                   /\ applied' = applied
    <3>1. job' = job \/ \E j : job' = [job EXCEPT ![c] = j]
      <4>1. CASE job[c].doc.quote.due BY <1>2, <4>1 DEF CreatePay
      <4>2. CASE ~job[c].doc.quote.due
        <5> DEFINE j == [job[c] EXCEPT !.doc.orderStatus =
                                              ConfirmedStatus(auto, asap)]
        <5>1. job' = [job EXCEPT ![c] = j] BY <1>2, <4>2 DEF CreatePay
        <5>2. QED BY <5>1
      <4>3. QED BY <4>1, <4>2
    <3>2. QED BY <1>2, <3>1 DEF CreatePay, Goto, ledger
  <2>2. \A g \in Handlers \ {c} : job'[g] = job[g]
    BY <2>1 DEF ShapeInv, TypeOK
  <2>3. QED BY <2>1, <2>2, OnceBefore DEF Handlers
<1>3. ASSUME NEW c \in Checkouts, CreateWrite(c) PROVE OnceInv'
  BY <1>1, <1>3 DEF CreateWrite, Goto, Handlers, ledger
<1>4. ASSUME NEW k \in Calls, NEW auto, PaymentBranch(k, auto)
      PROVE  OnceInv'
  <2>1. \E place : /\ pc[k] = "branch" /\ pc' = [pc EXCEPT ![k] = place]
                   /\ \E j : job' = [job EXCEPT ![k] = j]
                   /\ applied' = applied
    BY <1>4 DEF PaymentBranch, Goto, ledger
  <2>2. \A g \in Handlers \ {k} : job'[g] = job[g]
    BY <2>1 DEF ShapeInv, TypeOK
  <2>3. QED BY <2>1, <2>2, OnceBefore DEF Handlers
<1>5. ASSUME NEW k \in Calls,
             UpdateBranch(k) \/ UpdateWrite(k) \/ DeliveryWrite(k)
      PROVE  OnceInv'
  BY <1>1, <1>5 DEF UpdateBranch, UpdateWrite, DeliveryWrite, Goto, Handlers,
                    ledger
<1>6. ASSUME NEW k \in Calls, PaymentWrite(k) PROVE OnceInv'
  <2>1. PICK place \in {"cart", "done"} :
          pc' = [pc EXCEPT ![k] = place] /\ applied' = applied /\ job' = job
    BY <1>6 DEF PaymentWrite, Goto, ledger
  <2>2. QED BY <2>1, OnceFrame DEF Handlers, Places
<1>7. ASSUME NEW h \in Handlers, DeleteCart(h) \/ Abort(h) \/ RedeemFails(h)
      PROVE  OnceInv'
  BY <1>1, <1>7 DEF DeleteCart, Abort, RedeemFails, Goto, ledger
<1>8. QED
  BY <1>2, <1>3, <1>4, <1>5, <1>6, <1>7 DEF CheckoutStep, CallStep

\* A movement about to be made is none of those its handler has made.
LEMMA Fresh ==
  ASSUME OnceInv, NEW h \in Handlers, pc[h] = "reward"
  PROVE  EntryOf(h) \notin applied
BY DEF OnceInv, OnceOK, EntryOf

LEMMA RewardOnce ==
  ASSUME ShapeInv, OnceInv, NEW h \in Handlers,
         ApplyReward(h) \/ LogReward(h)
  PROVE  OnceInv'
<1>1. pc \in [Handlers -> Places] /\ job \in [Handlers -> Job \cup {None}]
  BY DEF ShapeInv, TypeOK
<1>2. CASE ApplyReward(h)
  <2>1. /\ pc[h] = "reward" /\ pc' = [pc EXCEPT ![h] = "log"] /\ job' = job
        /\ applied' = applied \cup {EntryOf(h)}
    BY <1>2 DEF ApplyReward, Goto
  <2>2. ASSUME NEW g \in Handlers PROVE OnceOK(g)'
    <3>1. OnceOK(g) BY DEF OnceInv
    <3>2. CASE g = h
      <4>1. \A e \in applied : e.call = h => job[h].reason = "deducted"
        BY <2>1, <3>1, <3>2 DEF OnceOK
      <4>2. EntryOf(h).reason = job[h].reason BY DEF EntryOf
      <4>3. pc'[h] = "log" BY <1>1, <2>1
      <4>4. QED BY <2>1, <3>1, <3>2, <4>1, <4>2, <4>3 DEF OnceOK
    <3>3. CASE g # h
      <4>1. EntryOf(h).call = h BY DEF EntryOf
      <4>2. QED BY <1>1, <2>1, <3>1, <3>3, <4>1 DEF OnceOK
    <3>4. QED BY <3>2, <3>3
  <2>3. QED BY <2>2 DEF OnceInv
<1>3. CASE LogReward(h)
  <2> DEFINE place == IF job[h].op = "create" THEN "cart"
                      ELSE IF DeductsNext(job[h]) THEN "reward" ELSE "write"
  <2>1. /\ pc[h] = "log" /\ pc' = [pc EXCEPT ![h] = place]
        /\ applied' = applied
        /\ job' = IF DeductsNext(job[h])
                  THEN [job EXCEPT ![h].reason = "deducted"] ELSE job
    BY <1>3 DEF LogReward, Goto
  <2>2. \A g \in Handlers \ {h} : job'[g] = job[g] BY <1>1, <2>1
  <2>3. place = "reward" =>
          /\ \A e \in applied : e.call = h => e.reason = "earned"
          /\ job'[h].reason = "deducted"
    <3>1. SUFFICES ASSUME DeductsNext(job[h])
                   PROVE  /\ \A e \in applied : e.call = h =>
                                                  e.reason = "earned"
                          /\ job'[h].reason = "deducted"
      OBVIOUS
    <3>2. job[h].reason = "earned" BY <3>1 DEF DeductsNext
    <3>3. job[h] \in Job
      BY <2>1 DEF ShapeInv, HandlerOK, Held
    <3>4. QED BY <1>1, <2>1, <3>1, <3>2, <3>3 DEF OnceInv, OnceOK, Job
  <2>4. place \in Places \ {"log", "idle", "pay", "branch"}
    BY DEF Places
  <2> HIDE DEF place
  <2>5. QED BY <2>1, <2>2, <2>3, <2>4, OnceFrame
<1>4. QED BY <1>2, <1>3

LEMMA NextOnce ==
  ASSUME ShapeInv, OnceInv, [Next]_vars
  PROVE  OnceInv'
<1>1. CASE UNCHANGED vars
  BY <1>1 DEF vars, OnceInv, OnceOK
<1>2. ASSUME NEW u \in Users, NEW q \in Quotes, FillCart(u, q)
      PROVE  OnceInv'
  BY <1>2 DEF FillCart, OnceInv, OnceOK, ledger
<1>3. QED
  BY <1>1, <1>2, ArriveOnce, HandlerOnce, RewardOnce DEF Next, RewardStep

\* Each step of the handlers is a movement of the account, its logging, or
\* neither.
LEMMA NextAccount ==
  ASSUME ShapeInv, LedgerInv, OnceInv, [Next]_vars
  PROVE  [Account!Next]_(Account!account)
<1> USE DEF Account!account
<1>1. ASSUME NEW h \in Handlers, ApplyReward(h) PROVE Account!Next
  <2> DEFINE e == EntryOf(h)
  <2>1. pc[h] = "reward" /\ applied' = applied \cup {e}
    BY <1>1 DEF ApplyReward, Goto
  <2>2. e \notin applied BY <2>1, Fresh
  <2>3. e.user = job[h].doc.user /\ e.points = Points(job[h])
    BY DEF EntryOf
  <2>4. e.user \in Users
    BY <2>1, <2>3 DEF ShapeInv, HandlerOK, Held, Job, OrderDoc
  <2>5. /\ reward' = [reward EXCEPT ![e.user] = @ + e.points]
        /\ rewardTransactionLog' = rewardTransactionLog
    BY <1>1, <2>3 DEF ApplyReward
  <2> HIDE DEF e
  <2>6. Account!Make(e) BY <2>1, <2>2, <2>4, <2>5 DEF Account!Make
  <2>7. QED BY <2>1, <2>6 DEF Account!Next
<1>2. ASSUME NEW h \in Handlers, LogReward(h) PROVE Account!Next
  <2> DEFINE e == EntryOf(h)
  <2>1. /\ pc[h] = "log" /\ UNCHANGED <<reward, applied>>
        /\ rewardTransactionLog' = rewardTransactionLog \cup {e}
    BY <1>2 DEF LogReward, Goto
  <2>2. e \in applied BY <2>1 DEF LedgerInv, LogOK
  <2> HIDE DEF e
  <2>3. Account!Log(e) BY <2>1, <2>2 DEF Account!Log
  <2>4. QED BY <2>1, <2>2, <2>3 DEF Account!Next
<1>3. CASE UNCHANGED ledger BY <1>3 DEF ledger
<1>4. QED
  <2>1. ASSUME ~UNCHANGED ledger
        PROVE  \E h \in Handlers : ApplyReward(h) \/ LogReward(h)
    <3>1. Next BY <2>1 DEF vars, ledger
    <3>2. ASSUME NEW u \in Users, NEW q \in Quotes, FillCart(u, q)
          PROVE  UNCHANGED ledger
      BY <3>2 DEF FillCart
    <3>3. Arrive => UNCHANGED ledger
      BY DEF Arrive, CreateRead, UpdateRead, PaymentRead, DeliveryRead, Delete,
             AcceptAll
    <3>4. ASSUME NEW c \in Checkouts, CheckoutStep(c) PROVE UNCHANGED ledger
      BY <3>4 DEF CheckoutStep, CreatePay, CreateWrite
    <3>5. ASSUME NEW k \in Calls, CallStep(k) PROVE UNCHANGED ledger
      BY <3>5 DEF CallStep, UpdateBranch, UpdateWrite, PaymentBranch,
                  PaymentWrite, DeliveryWrite
    <3>6. ASSUME NEW h \in Handlers, DeleteCart(h) \/ Abort(h) \/ RedeemFails(h)
          PROVE  UNCHANGED ledger
      BY <3>6 DEF DeleteCart, Abort, RedeemFails
    <3>7. QED BY <2>1, <3>1, <3>2, <3>3, <3>4, <3>5, <3>6 DEF Next, RewardStep
  <2>2. QED BY <1>1, <1>2, <1>3, <2>1

\* The handlers of an order implement the account of reward points: for any
\* number of overlapping and failing requests, each change of a balance is one
\* new movement of exactly its points, and only what was moved is logged.
THEOREM AccountIsImplemented == Spec => ImplementsAccount
<1> DEFINE I == ShapeInv /\ LedgerInv /\ OnceInv
<1>1. Init => I
  <2>1. Init => ShapeInv BY InitShape, SetsAssumption, InputsAssumption
  <2>2. Init => LedgerInv BY DEF Init, LedgerInv, LedgerComplete, LogOK
  <2>3. Init => OnceInv BY DEF Init, OnceInv, OnceOK
  <2>4. QED BY <2>1, <2>2, <2>3
<1>2. I /\ [Next]_vars => I'
  BY NextShape, NextLedger, NextOnce, SetsAssumption, InputsAssumption,
     NoneAssumption
<1>3. Init => Account!Init BY DEF Init, Account!Init
<1>4. I /\ [Next]_vars => [Account!Next]_(Account!account)
  BY NextAccount
<1> HIDE DEF I
<1>5. QED
  BY <1>1, <1>2, <1>3, <1>4, PTL DEF Spec, ImplementsAccount, Account!Spec

-----------------------------------------------------------------------------
(* Orders are stored once, and a handler's copy has the quote of the stored *)
(* order: what a completion is worth does not change under the handlers.    *)

CopyInv ==
  /\ \A c \in Checkouts : FreshOK(c)
  /\ \A h \in Handlers : QuoteOK(h)

\* A step in which each order keeps its quote or goes, no order appears, no
\* checkout that was done is undone and no handler changes what it serves.
LEMMA CopyFrame ==
  ASSUME CopyInv, TypeOK, SetsAssumption,
         \A c \in Checkouts :
           \/ orders'[c] = None
           \/ orders[c] # None /\ orders'[c].quote = orders[c].quote,
         \A c \in Checkouts : pc'[c] # "done" => pc[c] # "done",
         \A k \in Calls : Held(k)' =>
           /\ Held(k) /\ job'[k].order = job[k].order
           /\ job'[k].doc.quote = job[k].doc.quote
           /\ job[k].order \in Checkouts
  PROVE  CopyInv'
<1>1. ASSUME NEW c \in Checkouts PROVE FreshOK(c)'
  BY DEF CopyInv, FreshOK
<1>2. ASSUME NEW h \in Handlers PROVE QuoteOK(h)'
  <2>1. SUFFICES ASSUME Held(h)', h \in Calls,
                        orders'[job'[h].order] # None
                 PROVE  orders'[job'[h].order].quote = job'[h].doc.quote
    BY DEF QuoteOK
  <2>2. /\ orders[job[h].order] # None
        /\ orders'[job[h].order].quote = orders[job[h].order].quote
    BY <2>1
  <2>3. orders[job[h].order].quote = job[h].doc.quote
    BY <2>1, <2>2 DEF CopyInv, QuoteOK
  <2>4. QED BY <2>1, <2>2, <2>3
<1>3. QED BY <1>1, <1>2 DEF CopyInv

LEMMA StoredDone ==
  ASSUME CopyInv, NEW c \in Checkouts, orders[c] # None
  PROVE  pc[c] = "done"
BY DEF CopyInv, FreshOK

\* A request starts: on a stored order, with that order's quote, or as a
\* checkout that has stored nothing yet.
LEMMA StartCopy ==
  ASSUME CopyInv, TypeOK, SetsAssumption, NEW k \in Calls, NEW j,
         NEW place, Start(k, j, place), j.order \in Checkouts,
         orders[j.order] # None, j.doc.quote = orders[j.order].quote,
         orders' = orders
  PROVE  CopyInv'
<1>1. /\ pc' = [pc EXCEPT ![k] = place] /\ job' = [job EXCEPT ![k] = j]
      /\ pc \in [Handlers -> Places] /\ job \in [Handlers -> Job \cup {None}]
      /\ k \in Handlers /\ Checkouts \subseteq Handlers /\ k \notin Checkouts
      /\ Calls \subseteq Handlers
  BY DEF Start, TypeOK, Handlers, SetsAssumption
<1>2. /\ pc'[k] = place /\ job'[k] = j
      /\ \A g \in Handlers \ {k} : pc'[g] = pc[g] /\ job'[g] = job[g]
  BY <1>1
<1>3. ASSUME NEW c \in Checkouts PROVE FreshOK(c)'
  <2>1. SUFFICES ASSUME pc'[c] # "done"
                 PROVE  /\ orders'[c] = None
                        /\ \A g \in Calls : Held(g)' => job'[g].order # c
    BY DEF FreshOK
  <2>2. pc[c] # "done" BY <1>1, <1>2, <2>1
  <2>3. /\ orders[c] = None
        /\ \A g \in Calls : Held(g) => job[g].order # c
    BY <2>2 DEF CopyInv, FreshOK
  <2>4. j.order # c BY <2>3
  <2>5. QED BY <1>1, <1>2, <2>3, <2>4 DEF Held
<1>4. ASSUME NEW h \in Handlers PROVE QuoteOK(h)'
  <2>1. CASE h = k BY <1>2, <2>1 DEF QuoteOK
  <2>2. CASE h # k
    BY <1>2, <2>2 DEF QuoteOK, CopyInv, Held
  <2>3. QED BY <2>1, <2>2
<1>5. QED BY <1>3, <1>4 DEF CopyInv

LEMMA ArriveCopy ==
  ASSUME CopyInv, ShapeInv, TypeOK, SetsAssumption, NoneAssumption, Arrive
  PROVE  CopyInv'
<1> USE DEF Handlers
<1>1. ASSUME NEW c \in Checkouts, NEW u \in Users, NEW n \in Notes,
             CreateRead(c, u, n)
      PROVE  CopyInv'
  <2>1. /\ pc' = [pc EXCEPT ![c] = "pay"] /\ orders' = orders
        /\ pc[c] = "idle" /\ pc \in [Handlers -> Places]
    BY <1>1 DEF CreateRead, Start, TypeOK
  <2>2. \A k \in Calls : job'[k] = job[k] /\ pc'[k] = pc[k]
    BY <1>1 DEF CreateRead, Start, TypeOK, SetsAssumption
  <2>3. \A g \in Checkouts : FreshOK(g)'
    BY <2>1, <2>2 DEF CopyInv, FreshOK, Held
  <2>4. \A h \in Handlers : QuoteOK(h)'
    BY <2>1, <2>2 DEF CopyInv, QuoteOK, Held
  <2>5. QED BY <2>3, <2>4 DEF CopyInv
<1>2. ASSUME NEW k \in Calls, NEW o \in Checkouts, NEW dto \in Updates,
             UpdateRead(k, o, dto)
      PROVE  CopyInv'
  <2>1. PICK j, place : /\ Start(k, j, place)
                        /\ j.order = o /\ j.doc = orders[o]
    BY <1>2 DEF UpdateRead
  <2>2. orders[o] # None /\ orders' = orders
    BY <1>2 DEF UpdateRead, Stored
  <2>3. QED BY <2>1, <2>2, StartCopy
<1>3. ASSUME NEW k \in Calls, NEW o \in Checkouts, NEW info \in PaymentInfos,
             PaymentRead(k, o, info)
      PROVE  CopyInv'
  <2>1. orders[o] # None /\ orders' = orders /\ orders[o] \in OrderDoc
    BY <1>3 DEF PaymentRead, Stored, TypeOK
  <2> DEFINE p == info.paymentStatus
             copy == [orders[o] EXCEPT !.orderStatus =
                        IF p = "failed" THEN "pending"
                        ELSE IF p = "refundProcessed" THEN "cancelled" ELSE @]
  <2>2. copy.quote = orders[o].quote BY <2>1 DEF OrderDoc
  <2>3. PICK j, place : Start(k, j, place) /\ j.order = o /\ j.doc = copy
    BY <1>3 DEF PaymentRead
  <2> HIDE DEF copy
  <2>4. QED BY <2>1, <2>2, <2>3, StartCopy
<1>4. ASSUME NEW k \in Calls, NEW o \in Checkouts, NEW s \in DeliveryEvents,
             DeliveryRead(k, o, s)
      PROVE  CopyInv'
  <2>1. PICK j, place : /\ Start(k, j, place)
                        /\ j.order = o /\ j.doc = orders[o]
    BY <1>4 DEF DeliveryRead
  <2>2. orders[o] # None /\ orders' = orders
    BY <1>4 DEF DeliveryRead, Stored
  <2>3. QED BY <2>1, <2>2, StartCopy
<1>5. ASSUME NEW k \in Calls, NEW o \in Checkouts, Delete(k, o)
      PROVE  CopyInv'
  <2>1. /\ pc' = [pc EXCEPT ![k] = "done"] /\ job' = job
        /\ orders' = [orders EXCEPT ![o] = None] /\ k \notin Checkouts
        /\ pc \in [Handlers -> Places]
        /\ orders \in [Checkouts -> OrderDoc \cup {None}]
    BY <1>5 DEF Delete, Goto, TypeOK, SetsAssumption
  <2>2. \A c \in Checkouts : pc'[c] = pc[c] /\ orders'[c] \in {orders[c], None}
    BY <2>1
  <2>3. \A g \in Calls : Held(g)' => Held(g) BY <2>1 DEF Held
  <2>4. \A c \in Checkouts : FreshOK(c)'
    BY <2>1, <2>2, <2>3 DEF CopyInv, FreshOK
  <2>5. \A h \in Handlers : QuoteOK(h)'
    <3>1. SUFFICES ASSUME NEW h \in Calls, Held(h)',
                          orders'[job[h].order] # None
                   PROVE  orders'[job[h].order].quote = job[h].doc.quote
      BY <2>1 DEF QuoteOK
    <3>2. orders'[job[h].order] = orders[job[h].order]
      BY <2>1, <3>1
    <3>3. QED BY <2>3, <3>1, <3>2 DEF CopyInv, QuoteOK
  <2>6. QED BY <2>4, <2>5 DEF CopyInv
<1>6. ASSUME NEW k \in Calls, AcceptAll(k)
      PROVE  CopyInv'
  <2>1. /\ pc' = [pc EXCEPT ![k] = "done"] /\ job' = job /\ k \notin Checkouts
        /\ pc \in [Handlers -> Places]
    BY <1>6 DEF AcceptAll, Goto, TypeOK, SetsAssumption
  <2>2. ASSUME NEW c \in Checkouts
        PROVE  \/ orders'[c] = None /\ orders[c] = None
               \/ /\ orders[c] # None /\ orders'[c] # None
                  /\ orders'[c].quote = orders[c].quote
    <3>1. orders[c] \in OrderDoc \cup {None} BY DEF TypeOK
    <3>2. orders'[c] = IF Stored(c) /\ Acceptable(orders[c])
                       THEN [orders[c] EXCEPT !.orderStatus = "accepted"]
                       ELSE orders[c]
      BY <1>6 DEF AcceptAll
    <3>3. CASE Stored(c) /\ Acceptable(orders[c])
      <4>1. /\ orders'[c] = [orders[c] EXCEPT !.orderStatus = "accepted"]
            /\ orders[c] \in OrderDoc /\ orders[c] # None
        BY <3>1, <3>2, <3>3 DEF Stored
      <4>2. orders'[c] \in OrderDoc BY <4>1 DEF OrderDoc, Status
      <4>3. orders'[c].quote = orders[c].quote BY <4>1 DEF OrderDoc
      <4>4. QED BY <4>1, <4>2, <4>3, NoneAssumption
    <3>4. CASE ~(Stored(c) /\ Acceptable(orders[c]))
      BY <3>1, <3>2, <3>4
    <3>5. QED BY <3>3, <3>4
  <2>3. \A c \in Checkouts : pc'[c] = pc[c] BY <2>1
  <2>4. \A g \in Calls : Held(g)' => Held(g) BY <2>1 DEF Held
  <2>5. \A c \in Checkouts : FreshOK(c)'
    BY <2>1, <2>2, <2>3, <2>4 DEF CopyInv, FreshOK
  <2>6. \A h \in Handlers : QuoteOK(h)'
    <3>1. SUFFICES ASSUME NEW h \in Calls, Held(h)',
                          orders'[job[h].order] # None
                   PROVE  orders'[job[h].order].quote = job[h].doc.quote
      BY <2>1 DEF QuoteOK
    <3>2. job[h].order \in Checkouts
      BY <2>4, <3>1 DEF ShapeInv, HandlerOK, Job
    <3>3. QED BY <2>2, <2>4, <3>1, <3>2 DEF CopyInv, QuoteOK
  <2>7. QED BY <2>5, <2>6 DEF CopyInv
<1>7. QED BY <1>1, <1>2, <1>3, <1>4, <1>5, <1>6 DEF Arrive

LEMMA StoreCopy ==
  ASSUME TypeOK, NEW o \in Checkouts, NEW doc, Store(o, doc),
         orders[o] # None => doc.quote = orders[o].quote,
         NEW c \in Checkouts
  PROVE  \/ orders'[c] = None
         \/ orders[c] # None /\ orders'[c].quote = orders[c].quote
BY DEF TypeOK, Store, Stored

LEMMA EditedQuote ==
  ASSUME NEW doc \in OrderDoc, NEW j
  PROVE  Edited(doc, j).quote = doc.quote
BY DEF Edited, OrderDoc

LEMMA CheckoutWriteCopy ==
  ASSUME CopyInv, ShapeInv, TypeOK, SetsAssumption, NEW c \in Checkouts,
         CreateWrite(c)
  PROVE  CopyInv'
<1>1. /\ pc[c] = "write" /\ pc' = [pc EXCEPT ![c] = "done"] /\ job' = job
      /\ orders' = [orders EXCEPT ![c] = job[c].doc]
      /\ c \in Handlers /\ c \notin Calls /\ Checkouts \subseteq Handlers
      /\ pc \in [Handlers -> Places]
      /\ orders \in [Checkouts -> OrderDoc \cup {None}]
  BY DEF CreateWrite, Goto, TypeOK, SetsAssumption, Handlers
<1>2. \A k \in Calls : Held(k) => job[k].order # c
  BY <1>1 DEF CopyInv, FreshOK
<1>3. /\ \A g \in Handlers : g # c => pc'[g] = pc[g]
      /\ \A d \in Checkouts : d # c => orders'[d] = orders[d]
      /\ pc'[c] = "done"
  BY <1>1
<1>4. \A d \in Checkouts : FreshOK(d)'
  BY <1>1, <1>3 DEF CopyInv, FreshOK, Held, Handlers
<1>5. \A h \in Handlers : QuoteOK(h)'
  <2>1. SUFFICES ASSUME NEW h \in Calls, Held(h)', h \in Handlers,
                        orders'[job[h].order] # None
                 PROVE  orders'[job[h].order].quote = job[h].doc.quote
    BY <1>1 DEF QuoteOK
  <2>2. Held(h) BY <1>1, <1>3, <2>1 DEF Held
  <2>3. job[h].order \in Checkouts /\ job[h].order # c
    BY <1>2, <2>1, <2>2 DEF ShapeInv, HandlerOK, Job
  <2>4. QED BY <1>3, <2>1, <2>2, <2>3 DEF CopyInv, QuoteOK
<1>6. QED BY <1>4, <1>5 DEF CopyInv

\* A handler past its start changes at most the status of its copy, and what
\* it stores has the quote of the order it replaces.
LEMMA HandlerCopy ==
  ASSUME CopyInv, ShapeInv, TypeOK, SetsAssumption, NoneAssumption,
         NEW h \in Handlers,
         \/ h \in Checkouts /\ CheckoutStep(h)
         \/ h \in Calls /\ CallStep(h)
         \/ RewardStep(h) \/ Abort(h) \/ RedeemFails(h)
  PROVE  CopyInv'
<1>1. CASE h \in Checkouts /\ CreateWrite(h)
  BY <1>1, CheckoutWriteCopy
<1> DEFINE Steady(place) ==
             /\ pc' = [pc EXCEPT ![h] = place]
             /\ Held(h)
             /\ \A g \in Handlers \ {h} : job'[g] = job[g]
             /\ h \in Calls => job'[h].order = job[h].order
             /\ h \in Calls => job'[h].doc.quote = job[h].doc.quote
           Kept == \A c \in Checkouts :
                     \/ orders'[c] = None
                     \/ orders[c] # None /\ orders'[c].quote = orders[c].quote
<1>2. ASSUME NEW place, Steady(place), Kept PROVE CopyInv'
  <2>1. pc \in [Handlers -> Places] BY DEF TypeOK
  <2>2. \A c \in Checkouts : pc'[c] # "done" => pc[c] # "done"
    BY <1>2, <2>1 DEF Held, Handlers
  <2>3. \A k \in Calls : Held(k)' =>
          /\ Held(k) /\ job'[k].order = job[k].order
          /\ job'[k].doc.quote = job[k].doc.quote
          /\ job[k].order \in Checkouts
    BY <1>2, <2>1 DEF Held, Handlers, ShapeInv, HandlerOK, Job
  <2>4. QED BY <1>2, <2>2, <2>3, CopyFrame
<1>3. orders' = orders => Kept OBVIOUS
<1>4. pc[h] \notin {"idle", "done"} => HandlerOK(h) /\ job[h] \in Job
  BY DEF ShapeInv, HandlerOK, Held
<1>5. job[h] \in Job =>
        \A s : /\ [job EXCEPT ![h].doc.orderStatus = s][h].order = job[h].order
               /\ [job EXCEPT ![h].doc.orderStatus = s][h].doc.quote
                    = job[h].doc.quote
  BY DEF TypeOK, Job, OrderDoc
<1>6. CASE \E auto \in AutoAccept, asap \in BOOLEAN : CreatePay(h, auto, asap)
           /\ h \in Checkouts
  <2>1. /\ orders' = orders /\ h \notin Calls
        /\ \E place : pc' = [pc EXCEPT ![h] = place]
        /\ pc[h] = "pay"
        /\ \A g \in Handlers \ {h} : job'[g] = job[g]
    BY <1>6 DEF CreatePay, Goto, TypeOK, SetsAssumption
  <2>2. QED BY <1>2, <1>3, <2>1 DEF Held
<1>7. CASE UpdateBranch(h)
  <2>1. Steady("write") /\ orders' = orders
    BY <1>7 DEF UpdateBranch, Goto, Held
  <2>2. QED BY <1>2, <1>3, <2>1
<1>8. CASE \E auto \in AutoAccept : PaymentBranch(h, auto)
  <2>1. PICK s : job' = [job EXCEPT ![h].doc.orderStatus = s]
    BY <1>8 DEF PaymentBranch
  <2>2. /\ orders' = orders /\ pc[h] = "branch"
        /\ \E place : pc' = [pc EXCEPT ![h] = place]
    BY <1>8 DEF PaymentBranch, Goto
  <2>3. \A g \in Handlers \ {h} : job'[g] = job[g] BY <2>1 DEF TypeOK
  <2>4. job'[h].order = job[h].order /\ job'[h].doc.quote = job[h].doc.quote
    BY <1>4, <1>5, <2>1, <2>2
  <2>5. QED BY <1>2, <1>3, <2>2, <2>3, <2>4 DEF Held
<1>9. CASE UpdateWrite(h)
  <2>1. /\ Steady("done") /\ job[h].order \in Checkouts
        /\ Store(job[h].order, Edited(orders[job[h].order], job[h]))
    BY <1>4, <1>9 DEF UpdateWrite, Goto, Held, Job
  <2>2. orders[job[h].order] # None =>
          Edited(orders[job[h].order], job[h]).quote
            = orders[job[h].order].quote
    BY <2>1, EditedQuote DEF TypeOK
  <2>3. Kept BY <2>1, <2>2, StoreCopy
  <2>4. QED BY <1>2, <2>1, <2>3
<1>10. CASE PaymentWrite(h) /\ h \in Calls
  <2>1. /\ Steady("cart") /\ job[h].order \in Checkouts
        /\ Store(job[h].order, job[h].doc)
    BY <1>4, <1>10 DEF PaymentWrite, Goto, Held, Job
  <2>2. orders[job[h].order] # None =>
          job[h].doc.quote = orders[job[h].order].quote
    BY <1>10, <2>1 DEF CopyInv, QuoteOK
  <2>3. Kept BY <2>1, <2>2, StoreCopy
  <2>4. QED BY <1>2, <2>1, <2>3
<1>11. CASE DeliveryWrite(h)
  <2>1. /\ Steady("done") /\ job[h].order \in Checkouts
        /\ Store(job[h].order, [orders[job[h].order] EXCEPT !.orderStatus =
                                               OrderStatusOf(job[h].event)])
    BY <1>4, <1>11 DEF DeliveryWrite, Goto, Held, Job
  <2>2. orders[job[h].order] # None =>
          [orders[job[h].order] EXCEPT
             !.orderStatus = OrderStatusOf(job[h].event)].quote
            = orders[job[h].order].quote
    BY <2>1 DEF TypeOK, OrderDoc
  <2>3. Kept BY <2>1, <2>2, StoreCopy
  <2>4. QED BY <1>2, <2>1, <2>3
<1>12. CASE ApplyReward(h)
  <2>1. Steady("log") /\ orders' = orders
    BY <1>12 DEF ApplyReward, Goto, Held
  <2>2. QED BY <1>2, <1>3, <2>1
<1>13. CASE LogReward(h)
  <2>1. /\ orders' = orders /\ pc[h] = "log"
        /\ \E place : pc' = [pc EXCEPT ![h] = place]
        /\ job' = job \/ job' = [job EXCEPT ![h].reason = "deducted"]
    BY <1>13 DEF LogReward, Goto
  <2>2. /\ job'[h].order = job[h].order /\ job'[h].doc = job[h].doc
        /\ \A g \in Handlers \ {h} : job'[g] = job[g]
    BY <1>4, <2>1 DEF TypeOK, Job
  <2>3. QED BY <1>2, <1>3, <2>1, <2>2 DEF Held
<1>14. CASE DeleteCart(h) \/ Abort(h) \/ RedeemFails(h)
  <2>1. \E place : Steady(place) /\ orders' = orders
    BY <1>14 DEF DeleteCart, Abort, RedeemFails, Goto, Held, Running
  <2>2. QED BY <1>2, <1>3, <2>1
<1>15. QED
  BY <1>1, <1>6, <1>7, <1>8, <1>9, <1>10, <1>11, <1>12, <1>13, <1>14
     DEF CheckoutStep, CallStep, RewardStep

LEMMA NextCopy ==
  ASSUME CopyInv, ShapeInv, SetsAssumption, NoneAssumption, [Next]_vars
  PROVE  CopyInv'
<1>0. TypeOK BY DEF ShapeInv
<1>1. CASE UNCHANGED vars
  BY <1>1 DEF vars, CopyInv, FreshOK, QuoteOK, Held
<1>2. ASSUME NEW u \in Users, NEW q \in Quotes, FillCart(u, q)
      PROVE  CopyInv'
  BY <1>2 DEF FillCart, CopyInv, FreshOK, QuoteOK, Held
<1>3. QED
  BY <1>0, <1>1, <1>2, ArriveCopy, HandlerCopy DEF Next, Handlers

-----------------------------------------------------------------------------
(* Completion and credit *)

CreditInv == CompletedIsCredited /\ \A h \in Handlers : CreditOK(h)

\* A step of one handler keeps the credit of the others: movements are never
\* undone.  What is left to show is the handler's own part and the orders that
\* the step leaves completed.
LEMMA CreditFrame ==
  ASSUME CreditInv, NEW h \in Handlers,
         \A g \in Handlers \ {h} : pc'[g] = pc[g] /\ job'[g] = job[g],
         applied \subseteq applied',
         CreditOK(h)',
         \A o \in Checkouts :
           (/\ orders'[o] # None /\ orders'[o].orderStatus = "orderCompleted"
            /\ Credits(orders'[o].quote))
             => orders'[o] = orders[o] \/ Credited(o)
  PROVE  CreditInv'
<1>1. \A o : Credited(o) => Credited(o)'
  BY DEF Credited
<1>2. ASSUME NEW g \in Handlers PROVE CreditOK(g)'
  <2>1. CASE g = h BY <2>1
  <2>2. CASE g # h
    <3>1. CreditOK(g) /\ pc'[g] = pc[g] /\ job'[g] = job[g]
      BY <2>2 DEF CreditInv
    <3>2. QED BY <1>1, <3>1 DEF CreditOK, Held
  <2>3. QED BY <2>1, <2>2
<1>3. CompletedIsCredited'
  <2>1. SUFFICES ASSUME NEW o \in Checkouts, orders'[o] # None,
                        orders'[o].orderStatus = "orderCompleted",
                        Credits(orders'[o].quote)
                 PROVE  Credited(o)'
    BY DEF CompletedIsCredited, Stored, Credits, Credited
  <2>2. CASE orders'[o] = orders[o]
    <3>1. Credited(o)
      BY <2>1, <2>2
         DEF CreditInv, CompletedIsCredited, Stored, Credits, Credited
    <3>2. QED BY <1>1, <3>1
  <2>3. CASE Credited(o) BY <1>1, <2>3
  <2>4. QED BY <2>1, <2>2, <2>3
<1>4. QED BY <1>2, <1>3 DEF CreditInv

\* A stored order that is completed and earns points is credited.
LEMMA StoredCredit ==
  ASSUME CreditInv, NEW o \in Checkouts, orders[o] # None,
         orders[o].orderStatus = "orderCompleted", Credits(orders[o].quote)
  PROVE  Credited(o)
BY DEF CreditInv, CompletedIsCredited, Stored, Credits, Credited

LEMMA ArriveCredit ==
  ASSUME CreditInv, ShapeInv, TypeOK, SetsAssumption, Arrive
  PROVE  CreditInv'
<1> USE DEF Handlers
<1>1. ASSUME NEW c \in Checkouts, NEW u \in Users, NEW n \in Notes,
             CreateRead(c, u, n)
      PROVE  CreditInv'
  <2>1. /\ \A g \in Handlers \ {c} : pc'[g] = pc[g] /\ job'[g] = job[g]
        /\ applied' = applied /\ orders' = orders
        /\ job'[c].op = "create" /\ job'[c].doc.orderStatus = "pending"
    BY <1>1 DEF CreateRead, Start, TypeOK, ledger
  <2>2. CreditOK(c)' BY <2>1 DEF CreditOK
  <2>3. QED BY <2>1, <2>2, CreditFrame
<1>2. ASSUME NEW k \in Calls, NEW o \in Checkouts, NEW dto \in Updates,
             UpdateRead(k, o, dto)
      PROVE  CreditInv'
  <2> DEFINE s == dto.orderStatus
             place == IF WantsDelivery(s, orders[o].quote) THEN "branch"
                      ELSE IF Completes(s, orders[o]) THEN "reward"
                      ELSE "write"
  <2>1. /\ \A g \in Handlers \ {k} : pc'[g] = pc[g] /\ job'[g] = job[g]
        /\ applied' = applied /\ orders' = orders /\ orders[o] # None
        /\ pc'[k] = place
        /\ job'[k].op = "update" /\ job'[k].event = s
        /\ job'[k].order = o /\ job'[k].doc = orders[o]
        /\ job'[k].reason = IF orders[o].quote.earn > 0 THEN "earned"
                            ELSE "deducted"
    BY <1>2 DEF UpdateRead, Start, Stored, TypeOK, ledger
  <2>2. CreditOK(k)'
    <3>1. SUFFICES ASSUME Credits(orders[o].quote)
                   PROVE  CreditOK(k)'
      BY <2>1 DEF CreditOK
    <3>2. orders[o].orderStatus = "orderCompleted" => Credited(o)
      BY <2>1, <3>1, StoredCredit
    <3>3. job'[k].reason # "deducted" BY <2>1, <3>1 DEF Credits
    <3>4. (s = "orderCompleted" /\ pc'[k] = "write")
             => orders[o].orderStatus = "orderCompleted"
      BY <2>1, <3>1 DEF Completes, Credits
    <3> HIDE DEF s, place
    <3>5. QED BY <2>1, <3>2, <3>3, <3>4 DEF CreditOK, Credited
  <2> HIDE DEF s, place
  <2>3. QED BY <2>1, <2>2, CreditFrame
<1>3. ASSUME NEW k \in Calls, NEW o \in Checkouts, NEW info \in PaymentInfos,
             PaymentRead(k, o, info)
      PROVE  CreditInv'
  <2> DEFINE p == info.paymentStatus
             copy == [orders[o] EXCEPT !.orderStatus =
                        IF p = "failed" THEN "pending"
                        ELSE IF p = "refundProcessed" THEN "cancelled" ELSE @]
  <2>1. /\ \A g \in Handlers \ {k} : pc'[g] = pc[g] /\ job'[g] = job[g]
        /\ applied' = applied /\ orders' = orders /\ orders[o] # None
        /\ job'[k].op = "payment" /\ job'[k].order = o /\ job'[k].doc = copy
    BY <1>3 DEF PaymentRead, Start, Stored, TypeOK, ledger
  <2>2. orders[o] \in OrderDoc BY <2>1 DEF TypeOK
  <2>3. copy.orderStatus = "orderCompleted" =>
          orders[o].orderStatus = "orderCompleted"
    BY <2>2 DEF OrderDoc
  <2>4. copy.quote = orders[o].quote BY <2>2 DEF OrderDoc
  <2> HIDE DEF copy
  <2>5. CreditOK(k)'
    BY <2>1, <2>3, <2>4, StoredCredit DEF CreditOK, Credited
  <2>6. QED BY <2>1, <2>5, CreditFrame
<1>4. ASSUME NEW k \in Calls, NEW o \in Checkouts, NEW s \in DeliveryEvents,
             DeliveryRead(k, o, s)
      PROVE  CreditInv'
  <2>1. /\ \A g \in Handlers \ {k} : pc'[g] = pc[g] /\ job'[g] = job[g]
        /\ applied' = applied /\ orders' = orders /\ orders[o] # None
        /\ job'[k].op = "delivery" /\ job'[k].event = s
        /\ job'[k].order = o /\ job'[k].doc = orders[o]
        /\ pc'[k] = "write" => ~(s = "delivered" /\ orders[o].quote.earn > 0)
    BY <1>4 DEF DeliveryRead, Start, Stored, TypeOK, ledger
  <2>2. CreditOK(k)'
    BY <2>1, StoredCredit DEF CreditOK, Credited, Credits
  <2>3. QED BY <2>1, <2>2, CreditFrame
<1>5. ASSUME NEW k \in Calls, NEW o \in Checkouts, Delete(k, o)
      PROVE  CreditInv'
  <2>1. /\ \A g \in Handlers \ {k} : pc'[g] = pc[g] /\ job'[g] = job[g]
        /\ applied' = applied /\ pc'[k] = "done"
        /\ \A d \in Checkouts : orders'[d] = None \/ orders'[d] = orders[d]
    BY <1>5 DEF Delete, Goto, TypeOK, ledger
  <2>2. CreditOK(k)' BY <2>1 DEF CreditOK, Held
  <2>3. QED BY <2>1, <2>2, CreditFrame
<1>6. ASSUME NEW k \in Calls, AcceptAll(k)
      PROVE  CreditInv'
  <2>1. /\ \A g \in Handlers \ {k} : pc'[g] = pc[g] /\ job'[g] = job[g]
        /\ applied' = applied /\ pc'[k] = "done"
    BY <1>6 DEF AcceptAll, Goto, TypeOK, ledger
  <2>2. CreditOK(k)' BY <2>1 DEF CreditOK, Held
  <2>3. ASSUME NEW o \in Checkouts, orders'[o] # orders[o]
        PROVE  orders'[o].orderStatus # "orderCompleted"
    <3>1. orders[o] \in OrderDoc
          /\ orders'[o] = [orders[o] EXCEPT !.orderStatus = "accepted"]
      BY <1>6, <2>3 DEF AcceptAll, Stored, TypeOK
    <3>2. QED BY <3>1 DEF OrderDoc
  <2>4. QED BY <2>1, <2>2, <2>3, CreditFrame
<1>7. QED BY <1>1, <1>2, <1>3, <1>4, <1>5, <1>6 DEF Arrive

\* What one handler's write stores is credited if it is completed.
LEMMA StoreCredit ==
  ASSUME TypeOK, NEW o \in Checkouts, NEW doc, Store(o, doc),
         (orders[o] # None /\ doc.orderStatus = "orderCompleted"
          /\ Credits(doc.quote)) => Credited(o),
         NEW c \in Checkouts, orders'[c] # None,
         orders'[c].orderStatus = "orderCompleted", Credits(orders'[c].quote)
  PROVE  orders'[c] = orders[c] \/ Credited(c)
BY DEF TypeOK, Store, Stored

LEMMA CheckoutCredit ==
  ASSUME CreditInv, ShapeInv, TypeOK, SetsAssumption,
         NEW c \in Checkouts, CheckoutStep(c)
  PROVE  CreditInv'
<1>0. c \in Handlers /\ HandlerOK(c) BY DEF Handlers, ShapeInv
<1>1. ASSUME NEW auto \in AutoAccept, NEW asap \in BOOLEAN,
             CreatePay(c, auto, asap)
      PROVE  CreditInv'
  <2>1. /\ \A g \in Handlers \ {c} : pc'[g] = pc[g] /\ job'[g] = job[g]
        /\ applied' = applied /\ orders' = orders
        /\ pc[c] = "pay" /\ job[c].op = "create"
        /\ \/ job' = job
           \/ job' = [job EXCEPT ![c].doc.orderStatus =
                                          ConfirmedStatus(auto, asap)]
    BY <1>1 DEF CreatePay, Goto, TypeOK, ledger
  <2>2. job[c] \in Job /\ job[c].doc.orderStatus # "orderCompleted"
    BY <1>0, <2>1 DEF HandlerOK, Held
  <2>3. job'[c].op = "create" /\ job'[c].doc.orderStatus # "orderCompleted"
    <3>1. CASE job' = job BY <2>1, <2>2, <3>1
    <3>2. CASE job' = [job EXCEPT ![c].doc.orderStatus =
                                          ConfirmedStatus(auto, asap)]
      <4>1. job'[c] = [job[c] EXCEPT !.doc.orderStatus =
                                          ConfirmedStatus(auto, asap)]
        BY <1>0, <3>2 DEF TypeOK
      <4>2. job'[c].op = "create" /\ job'[c].doc.orderStatus
                                       = ConfirmedStatus(auto, asap)
        BY <2>1, <2>2, <4>1 DEF Job, OrderDoc
      <4>3. QED BY <4>2, ConfirmedStatusType
    <3>3. QED BY <2>1, <3>1, <3>2
  <2>4. CreditOK(c)' BY <2>3 DEF CreditOK
  <2>5. QED BY <1>0, <2>1, <2>4, CreditFrame
<1>2. CASE CreateWrite(c)
  <2>1. /\ \A g \in Handlers \ {c} : pc'[g] = pc[g] /\ job'[g] = job[g]
        /\ applied' = applied /\ pc'[c] = "done"
        /\ pc[c] = "write" /\ job[c].op = "create"
        /\ orders' = [orders EXCEPT ![c] = job[c].doc]
    BY <1>0, <1>2 DEF CreateWrite, Goto, TypeOK, ledger
  <2>2. job[c].doc.orderStatus # "orderCompleted"
    BY <1>0, <2>1 DEF HandlerOK, Held
  <2>3. \A o \in Checkouts :
           \/ orders'[o] = orders[o]
           \/ orders'[o].orderStatus # "orderCompleted"
    BY <2>1, <2>2 DEF TypeOK
  <2>4. CreditOK(c)' BY <2>1 DEF CreditOK, Held
  <2>5. QED BY <1>0, <2>1, <2>3, <2>4, CreditFrame
<1>3. QED BY <1>1, <1>2 DEF CheckoutStep

LEMMA CallCredit ==
  ASSUME CreditInv, CopyInv, ShapeInv, TypeOK, SetsAssumption,
         NEW k \in Calls, CallStep(k)
  PROVE  CreditInv'
<1>0. k \in Handlers /\ HandlerOK(k) /\ CreditOK(k) /\ QuoteOK(k)
  BY DEF Handlers, ShapeInv, CreditInv, CopyInv
<1>1. CASE UpdateBranch(k)
  <2>1. /\ \A g \in Handlers \ {k} : pc'[g] = pc[g] /\ job'[g] = job[g]
        /\ applied' = applied /\ orders' = orders /\ job'[k] = job[k]
        /\ pc[k] = "branch" /\ job[k].op = "update" /\ pc'[k] = "write"
    BY <1>0, <1>1 DEF UpdateBranch, Goto, TypeOK, ledger
  <2>2. job[k].event = "preparing" BY <1>0, <2>1 DEF HandlerOK, Held
  <2>3. CreditOK(k)'
    BY <1>0, <2>1, <2>2 DEF CreditOK, Credited, Held
  <2>4. QED BY <1>0, <2>1, <2>3, CreditFrame
<1>2. CASE UpdateWrite(k)
  <2> DEFINE o == job[k].order
             doc == Edited(orders[o], job[k])
  <2>1. /\ \A g \in Handlers \ {k} : pc'[g] = pc[g] /\ job'[g] = job[g]
        /\ applied' = applied /\ pc'[k] = "done"
        /\ pc[k] = "write" /\ job[k].op = "update" /\ Store(o, doc)
    BY <1>0, <1>2 DEF UpdateWrite, Goto, TypeOK, ledger
  <2>2. o \in Checkouts /\ Held(k)
    BY <1>0, <2>1 DEF HandlerOK, Held, Job
  <2>3. (orders[o] # None /\ doc.orderStatus = "orderCompleted"
         /\ Credits(doc.quote)) => Credited(o)
    <3>1. SUFFICES ASSUME orders[o] # None, Credits(doc.quote),
                          doc.orderStatus = "orderCompleted"
                   PROVE  Credited(o)
      OBVIOUS
    <3>2. orders[o] \in OrderDoc BY <2>2, <3>1 DEF TypeOK
    <3>3. doc.quote = orders[o].quote BY <3>2, EditedQuote
    <3>4. doc.quote = job[k].doc.quote
      BY <1>0, <2>2, <3>1, <3>3 DEF QuoteOK
    <3>5. doc.orderStatus = IF job[k].event = Same THEN orders[o].orderStatus
                            ELSE job[k].event
      BY <3>2 DEF Edited, OrderDoc
    <3>6. CASE job[k].event = Same
      BY <2>2, <3>1, <3>3, <3>5, <3>6, StoredCredit
    <3>7. CASE job[k].event # Same
      <4>1. job[k].event = "orderCompleted" BY <3>1, <3>5, <3>7
      <4>2. Credits(job[k].doc.quote) BY <3>1, <3>4
      <4>3. QED BY <1>0, <2>1, <2>2, <4>1, <4>2 DEF CreditOK
    <3>8. QED BY <3>6, <3>7
  <2>4. CreditOK(k)' BY <2>1 DEF CreditOK, Held
  <2> HIDE DEF o, doc
  <2>5. \A c \in Checkouts :
          (/\ orders'[c] # None /\ orders'[c].orderStatus = "orderCompleted"
           /\ Credits(orders'[c].quote))
            => orders'[c] = orders[c] \/ Credited(c)
    BY <2>1, <2>2, <2>3, StoreCredit
  <2>6. QED BY <1>0, <2>1, <2>4, <2>5, CreditFrame
<1>3. ASSUME NEW auto \in AutoAccept, PaymentBranch(k, auto)
      PROVE  CreditInv'
  <2> DEFINE s == ConfirmedStatus(auto, job[k].doc.quote.asap)
  <2>1. /\ \A g \in Handlers \ {k} : pc'[g] = pc[g] /\ job'[g] = job[g]
        /\ applied' = applied /\ orders' = orders
        /\ pc[k] = "branch" /\ job[k].op = "payment"
        /\ job'[k] = [job[k] EXCEPT !.doc.orderStatus = s]
    BY <1>0, <1>3 DEF PaymentBranch, Goto, TypeOK, ledger
  <2>2. job[k] \in Job BY <1>0, <2>1 DEF HandlerOK, Held
  <2>3. job'[k].op = "payment" /\ job'[k].doc.orderStatus = s
    BY <2>1, <2>2 DEF Job, OrderDoc
  <2>4. s # "orderCompleted" BY ConfirmedStatusType
  <2>5. CreditOK(k)' BY <2>3, <2>4 DEF CreditOK
  <2>6. QED BY <1>0, <2>1, <2>5, CreditFrame
<1>4. CASE PaymentWrite(k)
  <2>1. /\ \A g \in Handlers \ {k} : pc'[g] = pc[g] /\ job'[g] = job[g]
        /\ applied' = applied /\ job'[k] = job[k] /\ pc'[k] = "cart"
        /\ pc[k] = "write" /\ job[k].op = "payment"
        /\ Store(job[k].order, job[k].doc)
    BY <1>0, <1>4 DEF PaymentWrite, Goto, TypeOK, ledger
  <2>2. job[k].order \in Checkouts /\ Held(k)
    BY <1>0, <2>1 DEF HandlerOK, Held, Job
  <2>3. (job[k].doc.orderStatus = "orderCompleted"
         /\ Credits(job[k].doc.quote)) => Credited(job[k].order)
    BY <1>0, <2>2 DEF CreditOK
  <2>4. CreditOK(k)' BY <2>1, <2>3 DEF CreditOK, Credited
  <2>5. \A c \in Checkouts :
          (/\ orders'[c] # None /\ orders'[c].orderStatus = "orderCompleted"
           /\ Credits(orders'[c].quote))
            => orders'[c] = orders[c] \/ Credited(c)
    BY <2>1, <2>2, <2>3, StoreCredit
  <2>6. QED BY <1>0, <2>1, <2>4, <2>5, CreditFrame
<1>5. CASE DeliveryWrite(k)
  <2> DEFINE o == job[k].order
             doc == [orders[o] EXCEPT !.orderStatus =
                                             OrderStatusOf(job[k].event)]
  <2>1. /\ \A g \in Handlers \ {k} : pc'[g] = pc[g] /\ job'[g] = job[g]
        /\ applied' = applied /\ pc'[k] = "done"
        /\ pc[k] = "write" /\ job[k].op = "delivery" /\ Store(o, doc)
    BY <1>0, <1>5 DEF DeliveryWrite, Goto, TypeOK, ledger
  <2>2. o \in Checkouts /\ Held(k) /\ job[k].event \in DeliveryStatus
    BY <1>0, <2>1 DEF HandlerOK, Held, Job
  <2>3. (orders[o] # None /\ doc.orderStatus = "orderCompleted"
         /\ Credits(doc.quote)) => Credited(o)
    <3>1. SUFFICES ASSUME orders[o] # None, Credits(doc.quote),
                          doc.orderStatus = "orderCompleted"
                   PROVE  Credited(o)
      OBVIOUS
    <3>2. orders[o] \in OrderDoc BY <2>2, <3>1 DEF TypeOK
    <3>3. /\ doc.quote = job[k].doc.quote
          /\ OrderStatusOf(job[k].event) = "orderCompleted"
      BY <1>0, <2>2, <3>1, <3>2 DEF QuoteOK, OrderDoc
    <3>4. job[k].event = "delivered"
      BY <2>2, <3>3 DEF OrderStatusOf, DeliveryStatus, Same
    <3>5. QED BY <1>0, <2>1, <2>2, <3>1, <3>3, <3>4 DEF CreditOK
  <2>4. CreditOK(k)' BY <2>1 DEF CreditOK, Held
  <2> HIDE DEF o, doc
  <2>5. \A c \in Checkouts :
          (/\ orders'[c] # None /\ orders'[c].orderStatus = "orderCompleted"
           /\ Credits(orders'[c].quote))
            => orders'[c] = orders[c] \/ Credited(c)
    BY <2>1, <2>2, <2>3, StoreCredit
  <2>6. QED BY <1>0, <2>1, <2>4, <2>5, CreditFrame
<1>6. QED BY <1>1, <1>2, <1>3, <1>4, <1>5 DEF CallStep

\* After the two writes of an "earned" movement the order is credited: the
\* handler then goes on to the redeemed points or to the completion itself.
LEMMA RewardCredit ==
  ASSUME CreditInv, LedgerInv, ShapeInv, TypeOK, SetsAssumption,
         NEW h \in Handlers,
         RewardStep(h) \/ Abort(h) \/ RedeemFails(h)
  PROVE  CreditInv'
<1>0. HandlerOK(h) /\ CreditOK(h) /\ LogOK(h)
  BY DEF ShapeInv, CreditInv, LedgerInv
<1>1. CASE ApplyReward(h)
  <2>1. /\ \A g \in Handlers \ {h} : pc'[g] = pc[g] /\ job'[g] = job[g]
        /\ applied \subseteq applied' /\ orders' = orders
        /\ job'[h] = job[h] /\ pc[h] = "reward" /\ pc'[h] = "log"
    BY <1>1 DEF ApplyReward, Goto, TypeOK
  <2>2. CreditOK(h)'
    BY <1>0, <2>1 DEF CreditOK, Credited, Held
  <2>3. QED BY <2>1, <2>2, CreditFrame
<1>2. CASE LogReward(h)
  <2> DEFINE place == IF job[h].op = "create" THEN "cart"
                      ELSE IF DeductsNext(job[h]) THEN "reward" ELSE "write"
  <2>1. /\ \A g \in Handlers \ {h} : pc'[g] = pc[g] /\ job'[g] = job[g]
        /\ applied' = applied /\ orders' = orders
        /\ pc[h] = "log" /\ pc'[h] = place
        /\ job' = IF DeductsNext(job[h])
                  THEN [job EXCEPT ![h].reason = "deducted"] ELSE job
    BY <1>2 DEF LogReward, Goto, TypeOK
  <2>2. job[h] \in Job /\ Held(h) BY <1>0, <2>1 DEF HandlerOK, Held
  <2>3. /\ job'[h].op = job[h].op /\ job'[h].order = job[h].order
        /\ job'[h].doc = job[h].doc /\ job'[h].event = job[h].event
        /\ ~DeductsNext(job[h]) => job'[h] = job[h]
    BY <2>1, <2>2 DEF TypeOK, Job
  <2>4. job[h].reason = "earned" => Credited(job[h].order)
    BY <1>0, <2>1 DEF LogOK, EntryOf, Credited
  <2>5. job[h].op = "update" => job[h].reason \in {"earned", "deducted"}
    BY <1>0, <2>2 DEF HandlerOK
  <2>6. job[h].op = "delivery" => job[h].reason = "earned"
    BY <1>0, <2>2 DEF HandlerOK
  <2>7. DeductsNext(job[h]) => job[h].reason = "earned"
    BY DEF DeductsNext
  <2>8. Credits(job[h].doc.quote) =>
          /\ job[h].doc.orderStatus = "orderCompleted"
               => Credited(job[h].order)
          /\ (job[h].op = "update" /\ job[h].reason = "deducted")
               => Credited(job[h].order)
    BY <1>0, <2>1, <2>2 DEF CreditOK
  <2> HIDE DEF place
  <2>9. CreditOK(h)'
    <3>1. SUFFICES ASSUME Credits(job[h].doc.quote)
                   PROVE  CreditOK(h)'
      BY <2>3 DEF CreditOK
    <3>2. job[h].op \in {"update", "delivery"} => Credited(job[h].order)
      BY <2>4, <2>5, <2>6, <2>8, <3>1
    <3>3. QED BY <2>1, <2>3, <2>8, <3>1, <3>2 DEF CreditOK, Credited
  <2>10. QED BY <2>1, <2>9, CreditFrame
<1>3. CASE DeleteCart(h)
  <2>1. /\ \A g \in Handlers \ {h} : pc'[g] = pc[g] /\ job'[g] = job[g]
        /\ applied' = applied /\ orders' = orders /\ job'[h] = job[h]
        /\ pc[h] = "cart"
        /\ pc'[h] = IF job[h].op = "create" THEN "write" ELSE "done"
    BY <1>3 DEF DeleteCart, Goto, TypeOK, ledger
  <2>2. CreditOK(h)' BY <1>0, <2>1 DEF CreditOK, Credited, Held
  <2>3. QED BY <2>1, <2>2, CreditFrame
<1>4. CASE Abort(h)
  <2>1. /\ \A g \in Handlers \ {h} : pc'[g] = pc[g] /\ job'[g] = job[g]
        /\ applied' = applied /\ orders' = orders /\ pc'[h] = "done"
    BY <1>4 DEF Abort, TypeOK, ledger
  <2>2. CreditOK(h)' BY <2>1 DEF CreditOK, Held
  <2>3. QED BY <2>1, <2>2, CreditFrame
<1>5. CASE RedeemFails(h)
  <2>1. /\ \A g \in Handlers \ {h} : pc'[g] = pc[g] /\ job'[g] = job[g]
        /\ applied' = applied /\ orders' = orders /\ job'[h] = job[h]
        /\ pc'[h] = "write" /\ job[h].reason = "redeemed" /\ Held(h)
    BY <1>5 DEF RedeemFails, TypeOK, ledger, Held
  <2>2. job[h].op \notin {"update", "delivery"}
    BY <1>0, <2>1 DEF HandlerOK
  <2>3. CreditOK(h)' BY <1>0, <2>1, <2>2 DEF CreditOK, Credited
  <2>4. QED BY <2>1, <2>3, CreditFrame
<1>6. QED BY <1>1, <1>2, <1>3, <1>4, <1>5 DEF RewardStep

LEMMA NextCredit ==
  ASSUME CreditInv, CopyInv, LedgerInv, ShapeInv, SetsAssumption, [Next]_vars
  PROVE  CreditInv'
<1>0. TypeOK BY DEF ShapeInv
<1>1. CASE UNCHANGED vars
  BY <1>1 DEF vars, CreditInv, CompletedIsCredited, CreditOK, Credited,
              Stored, Held
<1>2. ASSUME NEW u \in Users, NEW q \in Quotes, FillCart(u, q)
      PROVE  CreditInv'
  BY <1>2 DEF FillCart, CreditInv, CompletedIsCredited, CreditOK, Credited,
              Stored, Held, ledger
<1>3. QED
  BY <1>0, <1>1, <1>2, ArriveCredit, CheckoutCredit, CallCredit, RewardCredit
     DEF Next

LEMMA InitCredit == Init => CopyInv /\ CreditInv
BY DEF Init, CopyInv, FreshOK, QuoteOK, CreditInv, CompletedIsCredited,
       CreditOK, Held, Stored, Handlers

\* The inductive invariant holds of every run.
THEOREM InductiveInvariant == Spec => []IInv
<1> DEFINE I == ShapeInv /\ LedgerInv /\ CopyInv /\ CreditInv
<1>1. Init => I
  <2>1. Init => ShapeInv BY InitShape, SetsAssumption, InputsAssumption
  <2>2. Init => LedgerInv BY DEF Init, LedgerInv, LedgerComplete, LogOK
  <2>3. QED BY <2>1, <2>2, InitCredit
<1>2. I /\ [Next]_vars => I'
  BY NextShape, NextLedger, NextCopy, NextCredit,
     SetsAssumption, InputsAssumption, NoneAssumption
<1>3. I => IInv
  BY DEF IInv, ShapeInv, LedgerInv, CopyInv, CreditInv
<1> HIDE DEF I
<1>4. QED BY <1>1, <1>2, <1>3, PTL DEF Spec

\* Whoever completes an order (a manager's PUT, the courier's webhook, a late
\* payment event writing back its copy), however many of them overlap and
\* wherever they fail, the points of a charged order were given before.
THEOREM CompletionIsCredited == Spec => []CompletedIsCredited
<1>1. IInv => CompletedIsCredited BY DEF IInv
<1>2. QED BY <1>1, InductiveInvariant, PTL

-----------------------------------------------------------------------------
(* Deletion *)

LEMMA StoreDeleted ==
  ASSUME TypeOK, NEW o, NEW doc, Store(o, doc),
         NEW c \in Checkouts, orders[c] = None
  PROVE  orders'[c] = None
BY DEF TypeOK, Store, Stored

\* The writes of overlapping requests, PUT, payment event and webhook, all
\* look the order up again: none of them brings a deleted order back.
THEOREM DeletionIsFinal == Spec => DeletedStaysDeleted
<1>1. ASSUME TypeOK, [Next]_vars, NEW o \in Checkouts,
             pc[o] = "done", orders[o] = None
      PROVE  orders'[o] = None
  <2>1. CASE orders' = orders BY <1>1, <2>1
  <2>2. CASE \E c \in Checkouts : CreateWrite(c)
    BY <1>1, <2>2 DEF CreateWrite, Goto, TypeOK
  <2>3. CASE \E k \in Calls : \/ UpdateWrite(k) \/ PaymentWrite(k)
                              \/ DeliveryWrite(k)
    BY <1>1, <2>3, StoreDeleted DEF UpdateWrite, PaymentWrite, DeliveryWrite
  <2>4. CASE \E k \in Calls : AcceptAll(k)
    BY <1>1, <2>4 DEF AcceptAll, Stored
  <2>5. CASE \E k \in Calls, c \in Checkouts : Delete(k, c)
    BY <1>1, <2>5 DEF Delete, TypeOK
  <2>6. CASE Arrive
    BY <2>1, <2>4, <2>5, <2>6
       DEF Arrive, CreateRead, UpdateRead, PaymentRead, DeliveryRead
  <2>7. CASE \E h \in Handlers : RewardStep(h) \/ Abort(h) \/ RedeemFails(h)
    BY <2>1, <2>7 DEF RewardStep, ApplyReward, LogReward, DeleteCart, Abort,
                      RedeemFails
  <2>8. CASE \/ \E c \in Checkouts : CheckoutStep(c)
             \/ \E k \in Calls : CallStep(k)
    BY <2>1, <2>2, <2>3, <2>8
       DEF CheckoutStep, CreatePay, CallStep, UpdateBranch, PaymentBranch
  <2>9. QED
    BY <1>1, <2>1, <2>6, <2>7, <2>8 DEF Next, FillCart, vars
<1>2. TypeOK /\ [Next]_vars =>
        [\A o \in Checkouts :
           (pc[o] = "done" /\ ~Stored(o)) => ~Stored(o)']_orders
  BY <1>1 DEF Stored
<1>3. QED BY <1>2, TypeCorrect, PTL DEF Spec, DeletedStaysDeleted

-----------------------------------------------------------------------------
(* Preparation and pending orders *)

\* What has been said of an order stays said: a step of handler h leaves the
\* others alone, and h keeps what it serves once it has begun.
LEMMA StatusFrame ==
  ASSUME StatusInv, NEW h \in Handlers,
         \A g \in Handlers \ {h} : pc'[g] = pc[g] /\ job'[g] = job[g],
         pc'[h] # "idle",
         \/ pc[h] = "idle"
         \/ /\ job'[h] # None /\ job'[h].order = job[h].order
            /\ job'[h].op = job[h].op /\ job'[h].event = job[h].event,
         dispatched \subseteq dispatched',
         dispatched' \subseteq dispatched \cup {h},
         h \in dispatched' => h \in Calls /\ job'[h] # None,
         dispatched \subseteq Calls
  PROVE  /\ MemoryOK'
         /\ \A o : SpokenFor(o) => SpokenFor(o)'
         /\ \A o : Dispatched(o) => Dispatched(o)'
         /\ \A g \in Handlers \ {h} : StatusOK(g)'
<1> USE DEF Handlers
<1>1. \A g \in Handlers : job[g] # None =>
        /\ job'[g] # None /\ job'[g].order = job[g].order
        /\ job'[g].op = job[g].op /\ job'[g].event = job[g].event
  BY DEF StatusInv, MemoryOK
<1>2. \A k \in dispatched : job[k] # None /\ k \in Handlers
  BY DEF StatusInv, MemoryOK
<1>3. MemoryOK'
  BY <1>1, <1>2 DEF StatusInv, MemoryOK
<1>4. \A o : SpokenFor(o) => SpokenFor(o)'
  BY <1>1 DEF SpokenFor
<1>5. \A o : Dispatched(o) => Dispatched(o)'
  BY <1>1, <1>2 DEF Dispatched
<1>6. ASSUME NEW g \in Handlers \ {h} PROVE StatusOK(g)'
  <2>1. /\ pc'[g] = pc[g] /\ job'[g] = job[g] /\ StatusOK(g)
        /\ g \in dispatched => g \in dispatched'
    BY DEF StatusInv
  <2>2. StatusExplained(job[g].order, job[g].doc)
          => StatusExplained(job[g].order, job[g].doc)'
    BY <1>4, <1>5, <2>1 DEF StatusExplained
  <2>3. QED BY <2>1, <2>2 DEF StatusOK, Held
<1>7. QED BY <1>3, <1>4, <1>5, <1>6

\* The same for the whole invariant: what h comes to hold, and every document
\* that is new, must be accounted for after the step.
LEMMA StatusStep ==
  ASSUME StatusInv, NEW h \in Handlers,
         MemoryOK',
         \A o : SpokenFor(o) => SpokenFor(o)',
         \A o : Dispatched(o) => Dispatched(o)',
         \A g \in Handlers \ {h} : StatusOK(g)',
         StatusOK(h)',
         \A o \in Checkouts :
           orders'[o] # None =>
             orders'[o] = orders[o] \/ StatusExplained(o, orders[o])'
  PROVE  StatusInv'
<1>1. ASSUME NEW o \in Checkouts, orders'[o] # None
      PROVE  StatusExplained(o, orders[o])'
  <2>1. CASE orders'[o] = orders[o]
    <3>1. StatusExplained(o, orders[o])
      BY <1>1, <2>1 DEF StatusInv, Stored
    <3>2. QED BY <2>1, <3>1 DEF StatusExplained
  <2>2. QED BY <1>1, <2>1
<1>2. QED BY <1>1 DEF StatusInv, Stored

LEMMA ArriveStatus ==
  ASSUME StatusInv, TypeOK, ShapeInv, ShapeInv', SetsAssumption,
         NoneAssumption, Arrive
  PROVE  StatusInv'
<1> USE DEF Handlers
<1>0. dispatched \subseteq Calls /\ \A k \in dispatched : pc[k] # "idle"
  BY DEF TypeOK, StatusInv, MemoryOK
<1>1. ASSUME NEW c \in Checkouts, NEW u \in Users, NEW n \in Notes,
             CreateRead(c, u, n)
      PROVE  StatusInv'
  <2>1. /\ \A g \in Handlers \ {c} : pc'[g] = pc[g] /\ job'[g] = job[g]
        /\ pc[c] = "idle" /\ pc'[c] = "pay" /\ dispatched' = dispatched
        /\ job'[c].op = "create" /\ job'[c].doc.orderStatus = "pending"
        /\ orders' = orders
    BY <1>1 DEF CreateRead, Start, TypeOK
  <2>2. StatusOK(c)' BY <2>1 DEF StatusOK
  <2>3. c \notin dispatched BY <1>0, <2>1
  <2>4. QED BY <1>0, <2>1, <2>2, <2>3, StatusFrame, StatusStep
<1>2. ASSUME NEW k \in Calls, NEW o \in Checkouts, NEW dto \in Updates,
             UpdateRead(k, o, dto)
      PROVE  StatusInv'
  <2> DEFINE s == dto.orderStatus
             q == orders[o].quote
  <2>1. /\ \A g \in Handlers \ {k} : pc'[g] = pc[g] /\ job'[g] = job[g]
        /\ pc[k] = "idle" /\ dispatched' = dispatched /\ orders' = orders
        /\ job'[k].op = "update" /\ job'[k].event = s
        /\ job'[k].doc.quote = q
        /\ pc'[k] = IF WantsDelivery(s, q) THEN "branch"
                    ELSE IF Completes(s, orders[o]) THEN "reward" ELSE "write"
    BY <1>2 DEF UpdateRead, Start, TypeOK
  <2>2. StatusOK(k)' BY <2>1 DEF StatusOK, WantsDelivery
  <2>3. k \notin dispatched /\ pc'[k] # "idle" BY <1>0, <2>1
  <2>4. QED BY <1>0, <2>1, <2>2, <2>3, StatusFrame, StatusStep
<1>3. ASSUME NEW k \in Calls, NEW o \in Checkouts, NEW info \in PaymentInfos,
             PaymentRead(k, o, info)
      PROVE  StatusInv'
  <2> DEFINE s == info.paymentStatus
             copy == [orders[o] EXCEPT !.orderStatus =
                        IF s = "failed" THEN "pending"
                        ELSE IF s = "refundProcessed" THEN "cancelled" ELSE @]
  <2>1. /\ \A g \in Handlers \ {k} : pc'[g] = pc[g] /\ job'[g] = job[g]
        /\ pc[k] = "idle" /\ dispatched' = dispatched /\ orders' = orders
        /\ job'[k].op = "payment" /\ job'[k].event = s
        /\ job'[k].order = o /\ job'[k].doc = copy
        /\ pc'[k] # "idle" /\ pc'[k] # "done"
        /\ pc'[k] = "branch" => s = "completed"
    BY <1>3 DEF PaymentRead, Start, TypeOK
  <2>2. k \notin dispatched BY <1>0, <2>1
  <2>3. /\ MemoryOK'
        /\ \A c : SpokenFor(c) => SpokenFor(c)'
        /\ \A c : Dispatched(c) => Dispatched(c)'
        /\ \A g \in Handlers \ {k} : StatusOK(g)'
    BY <1>0, <2>1, <2>2, StatusFrame
  <2>4. job'[k] # None
    BY <2>1, NoneAssumption DEF ShapeInv, HandlerOK, Held
  <2>5. StatusExplained(job[k].order, job[k].doc)'
    <3>1. orders[o] \in OrderDoc /\ StatusExplained(o, orders[o])
      BY <1>3 DEF PaymentRead, Stored, TypeOK, StatusInv
    <3>2. /\ copy.quote = orders[o].quote
          /\ copy.orderStatus = IF s = "failed" THEN "pending"
                                ELSE IF s = "refundProcessed" THEN "cancelled"
                                ELSE orders[o].orderStatus
      BY <3>1 DEF OrderDoc
    <3>3. s = "refundProcessed" => SpokenFor(o)' BY <2>1, <2>4 DEF SpokenFor
    <3> HIDE DEF copy, s
    <3>4. QED BY <2>1, <2>3, <3>1, <3>2, <3>3 DEF StatusExplained
  <2>6. StatusOK(k)' BY <2>1, <2>5 DEF StatusOK
  <2>7. QED BY <2>1, <2>3, <2>6, StatusStep
<1>4. ASSUME NEW k \in Calls, NEW o \in Checkouts, NEW s \in DeliveryEvents,
             DeliveryRead(k, o, s)
      PROVE  StatusInv'
  <2>1. /\ \A g \in Handlers \ {k} : pc'[g] = pc[g] /\ job'[g] = job[g]
        /\ pc[k] = "idle" /\ dispatched' = dispatched /\ orders' = orders
        /\ job'[k].op = "delivery" /\ pc'[k] # "idle"
    BY <1>4 DEF DeliveryRead, Start, TypeOK
  <2>2. StatusOK(k)' BY <2>1 DEF StatusOK
  <2>3. k \notin dispatched BY <1>0, <2>1
  <2>4. QED BY <1>0, <2>1, <2>2, <2>3, StatusFrame, StatusStep
<1>5. ASSUME NEW k \in Calls, NEW o \in Checkouts, Delete(k, o)
      PROVE  StatusInv'
  <2>1. /\ \A g \in Handlers \ {k} : pc'[g] = pc[g] /\ job'[g] = job[g]
        /\ pc[k] = "idle" /\ pc'[k] = "done" /\ dispatched' = dispatched
        /\ \A c \in Checkouts : orders'[c] \in {orders[c], None}
    BY <1>5 DEF Delete, Goto, TypeOK
  <2>2. StatusOK(k)' BY <2>1 DEF StatusOK, Held
  <2>3. k \notin dispatched BY <1>0, <2>1
  <2>4. QED BY <1>0, <2>1, <2>2, <2>3, StatusFrame, StatusStep
<1>6. ASSUME NEW k \in Calls, AcceptAll(k)
      PROVE  StatusInv'
  <2>1. /\ \A g \in Handlers \ {k} : pc'[g] = pc[g] /\ job'[g] = job[g]
        /\ pc[k] = "idle" /\ pc'[k] = "done" /\ dispatched' = dispatched
    BY <1>6 DEF AcceptAll, Goto, TypeOK
  <2>2. StatusOK(k)' BY <2>1 DEF StatusOK, Held
  <2>3. k \notin dispatched BY <1>0, <2>1
  <2>4. /\ MemoryOK'
        /\ \A c : SpokenFor(c) => SpokenFor(c)'
        /\ \A c : Dispatched(c) => Dispatched(c)'
        /\ \A g \in Handlers \ {k} : StatusOK(g)'
    BY <1>0, <2>1, <2>3, StatusFrame
  <2>5. ASSUME NEW c \in Checkouts
        PROVE  orders'[c] = orders[c] \/ StatusExplained(c, orders[c])'
    <3>1. SUFFICES ASSUME Stored(c), Acceptable(orders[c])
                   PROVE  StatusExplained(c, orders[c])'
      BY <1>6 DEF AcceptAll
    <3>2. /\ orders[c] \in OrderDoc /\ StatusExplained(c, orders[c])
          /\ orders'[c] = [orders[c] EXCEPT !.orderStatus = "accepted"]
      BY <1>6, <3>1 DEF AcceptAll, Stored, TypeOK, StatusInv
    <3>3. /\ orders'[c].quote = orders[c].quote
          /\ orders'[c].orderStatus = "accepted"
          /\ orders[c].orderStatus = "placed"
      BY <3>1, <3>2 DEF OrderDoc, Acceptable
    <3>4. QED BY <2>4, <3>2, <3>3 DEF StatusExplained
  <2>6. QED BY <2>2, <2>4, <2>5, StatusStep
<1>7. QED BY <1>1, <1>2, <1>3, <1>4, <1>5, <1>6 DEF Arrive

LEMMA CheckoutStatus ==
  ASSUME StatusInv, TypeOK, ShapeInv, NoneAssumption, SetsAssumption,
         NEW c \in Checkouts, CheckoutStep(c)
  PROVE  StatusInv'
<1> USE DEF Handlers
<1>0. /\ HandlerOK(c) /\ StatusOK(c) /\ c \notin Calls
      /\ dispatched \subseteq Calls
  BY DEF ShapeInv, StatusInv, SetsAssumption, TypeOK
<1>1. ASSUME NEW auto \in AutoAccept, NEW asap \in BOOLEAN,
             CreatePay(c, auto, asap)
      PROVE  StatusInv'
  <2>1. /\ \A g \in Handlers \ {c} : pc'[g] = pc[g] /\ job'[g] = job[g]
        /\ dispatched' = dispatched /\ orders' = orders
        /\ pc[c] = "pay" /\ pc'[c] # "idle" /\ job[c].op = "create"
    BY <1>1 DEF CreatePay, Goto, TypeOK
  <2>2. job[c] \in Job BY <1>0, <2>1 DEF HandlerOK, Held
  <2>3. job'[c] = IF job[c].doc.quote.due THEN job[c]
                  ELSE [job[c] EXCEPT !.doc.orderStatus =
                                             ConfirmedStatus(auto, asap)]
    BY <1>1 DEF CreatePay, TypeOK
  <2>4. /\ job'[c] \in Job \/ job'[c] = job[c]
        /\ job'[c].op = "create" /\ job'[c].order = job[c].order
        /\ job'[c].event = job[c].event
        /\ job'[c].doc.quote = job[c].doc.quote
        /\ job[c].doc.quote.due => job'[c] = job[c]
    <3>1. ConfirmedStatus(auto, asap) \in Status BY ConfirmedStatusType
    <3>2. QED BY <2>1, <2>2, <2>3, <3>1 DEF Job, OrderDoc
  <2>5. job'[c] # None BY <2>2, <2>4, NoneAssumption
  <2>6. StatusOK(c)' BY <1>0, <2>1, <2>4 DEF StatusOK, Held
  <2>7. QED BY <1>0, <2>1, <2>4, <2>5, <2>6, StatusFrame, StatusStep
<1>2. CASE CreateWrite(c)
  <2>1. /\ \A g \in Handlers \ {c} : pc'[g] = pc[g] /\ job'[g] = job[g]
        /\ dispatched' = dispatched /\ job'[c] = job[c]
        /\ pc[c] = "write" /\ pc'[c] = "done"
        /\ job[c] # None /\ job[c].op = "create"
        /\ orders' = [orders EXCEPT ![c] = job[c].doc]
    BY <1>2 DEF CreateWrite, Goto, TypeOK
  <2>2. \A o \in Checkouts :
          orders'[o] = orders[o] \/ StatusExplained(o, orders[o])'
    BY <1>0, <2>1 DEF StatusOK, Held, StatusExplained, TypeOK
  <2>3. StatusOK(c)' BY <2>1 DEF StatusOK, Held
  <2>4. QED BY <1>0, <2>1, <2>2, <2>3, StatusFrame, StatusStep
<1>3. QED BY <1>1, <1>2 DEF CheckoutStep

\* A call writes a document that is accounted for.
LEMMA StoreStatus ==
  ASSUME TypeOK, NEW o \in Checkouts, NEW doc, Store(o, doc),
         orders[o] # None => StatusExplained(o, doc),
         \A c : SpokenFor(c) => SpokenFor(c)',
         \A c : Dispatched(c) => Dispatched(c)',
         NEW c \in Checkouts
  PROVE  orders'[c] = orders[c] \/ StatusExplained(c, orders[c])'
BY DEF TypeOK, Store, Stored, StatusExplained

LEMMA CallStatus ==
  ASSUME StatusInv, CopyInv, TypeOK, ShapeInv, NoneAssumption, SetsAssumption,
         NEW k \in Calls, CallStep(k)
  PROVE  StatusInv'
<1> USE DEF Handlers
<1>0. /\ HandlerOK(k) /\ StatusOK(k) /\ QuoteOK(k)
      /\ dispatched \subseteq Calls
      /\ \A d \in dispatched : job[d] # None
  BY DEF ShapeInv, StatusInv, CopyInv, TypeOK, MemoryOK
<1>1. CASE UpdateBranch(k)
  <2>1. /\ \A g \in Handlers \ {k} : pc'[g] = pc[g] /\ job'[g] = job[g]
        /\ dispatched' = dispatched \cup {k} /\ orders' = orders
        /\ pc[k] = "branch" /\ pc'[k] = "write" /\ job'[k] = job[k]
        /\ job[k] # None /\ job[k].op = "update"
    BY <1>1 DEF UpdateBranch, Goto, TypeOK
  <2>2. StatusOK(k)' BY <2>1 DEF StatusOK
  <2>3. QED BY <1>0, <2>1, <2>2, StatusFrame, StatusStep
<1>2. CASE UpdateWrite(k)
  <2> DEFINE o == job[k].order
             doc == Edited(orders[o], job[k])
  <2>1. /\ \A g \in Handlers \ {k} : pc'[g] = pc[g] /\ job'[g] = job[g]
        /\ dispatched' = dispatched /\ job'[k] = job[k]
        /\ pc[k] = "write" /\ pc'[k] = "done"
        /\ job[k] # None /\ job[k].op = "update" /\ Store(o, doc)
    BY <1>2 DEF UpdateWrite, Goto, TypeOK
  <2>2. o \in Checkouts /\ Held(k)
    BY <1>0, <2>1 DEF HandlerOK, Held, Job
  <2>3. orders[o] # None => StatusExplained(o, doc)
    <3>1. SUFFICES ASSUME orders[o] # None PROVE StatusExplained(o, doc)
      OBVIOUS
    <3>2. orders[o] \in OrderDoc /\ StatusExplained(o, orders[o])
      BY <2>2, <3>1 DEF TypeOK, StatusInv, Stored
    <3>3. doc.quote = orders[o].quote BY <3>2, EditedQuote
    <3>4. orders[o].quote = job[k].doc.quote
      BY <1>0, <2>2, <3>1 DEF QuoteOK
    <3>5. doc.orderStatus = IF job[k].event = Same THEN orders[o].orderStatus
                            ELSE job[k].event
      BY <3>2 DEF Edited, OrderDoc
    <3>6. CASE job[k].event = Same
      BY <3>2, <3>3, <3>5, <3>6 DEF StatusExplained
    <3>7. CASE job[k].event # Same
      <4>1. SpokenFor(o) BY <2>1, <3>7 DEF SpokenFor
      <4>2. (job[k].event = "preparing" /\ doc.quote.delivery)
              => Dispatched(o)
        BY <1>0, <2>1, <2>2, <3>3, <3>4 DEF StatusOK, Dispatched
      <4> HIDE DEF o, doc
      <4>3. QED BY <3>5, <3>7, <4>1, <4>2 DEF StatusExplained
    <3>8. QED BY <3>6, <3>7
  <2>4. StatusOK(k)' BY <2>1 DEF StatusOK, Held
  <2> HIDE DEF o, doc
  <2>5. /\ MemoryOK'
        /\ \A c : SpokenFor(c) => SpokenFor(c)'
        /\ \A c : Dispatched(c) => Dispatched(c)'
        /\ \A g \in Handlers \ {k} : StatusOK(g)'
    BY <1>0, <2>1, StatusFrame
  <2>6. \A c \in Checkouts :
          orders'[c] = orders[c] \/ StatusExplained(c, orders[c])'
    BY <2>1, <2>2, <2>3, <2>5, StoreStatus
  <2>7. QED BY <2>4, <2>5, <2>6, StatusStep
<1>3. ASSUME NEW auto \in AutoAccept, PaymentBranch(k, auto)
      PROVE  StatusInv'
  <2> DEFINE s == ConfirmedStatus(auto, job[k].doc.quote.asap)
  <2>1. /\ \A g \in Handlers \ {k} : pc'[g] = pc[g] /\ job'[g] = job[g]
        /\ orders' = orders
        /\ pc[k] = "branch" /\ pc'[k] \in {"reward", "write"}
        /\ job[k].op = "payment"
        /\ job'[k] = [job[k] EXCEPT !.doc.orderStatus = s]
        /\ dispatched' = IF WantsDelivery(s, job[k].doc.quote)
                         THEN dispatched \cup {k} ELSE dispatched
    BY <1>3 DEF PaymentBranch, Goto, TypeOK
  <2>2. job[k] \in Job /\ s \in Status
    BY <1>0, <2>1, ConfirmedStatusType DEF HandlerOK, Held
  <2> HIDE DEF s
  <2>3. /\ job'[k] \in Job /\ job'[k].op = "payment"
        /\ job'[k].order = job[k].order /\ job'[k].event = job[k].event
        /\ job'[k].doc.quote = job[k].doc.quote
        /\ job'[k].doc.orderStatus = s
    BY <2>1, <2>2 DEF Job, OrderDoc
  <2>4. job[k].event = "completed" BY <1>0, <2>1 DEF StatusOK, Held
  <2>5. SpokenFor(job[k].order)'
    BY <2>3, <2>4, NoneAssumption DEF SpokenFor
  <2>6. (s = "preparing" /\ job[k].doc.quote.delivery)
          => Dispatched(job[k].order)'
    BY <2>1, <2>3 DEF WantsDelivery, Dispatched
  <2>7. StatusExplained(job[k].order, job[k].doc)'
    BY <2>3, <2>5, <2>6 DEF StatusExplained
  <2>8. StatusOK(k)' BY <2>1, <2>3, <2>7 DEF StatusOK
  <2>9. job'[k] # None BY <2>3, NoneAssumption
  <2>10. /\ dispatched \subseteq dispatched'
         /\ dispatched' \subseteq dispatched \cup {k}
    BY <2>1
  <2>11. QED
    BY <1>0, <2>1, <2>3, <2>8, <2>9, <2>10, StatusFrame, StatusStep
<1>4. CASE PaymentWrite(k)
  <2>1. /\ \A g \in Handlers \ {k} : pc'[g] = pc[g] /\ job'[g] = job[g]
        /\ dispatched' = dispatched /\ job'[k] = job[k]
        /\ pc[k] = "write" /\ pc'[k] = "cart"
        /\ job[k] # None /\ job[k].op = "payment"
        /\ Store(job[k].order, job[k].doc)
    BY <1>4 DEF PaymentWrite, Goto, TypeOK
  <2>2. job[k].order \in Checkouts /\ Held(k)
    BY <1>0, <2>1 DEF HandlerOK, Held, Job
  <2>3. StatusExplained(job[k].order, job[k].doc)
    BY <1>0, <2>1, <2>2 DEF StatusOK
  <2>4. /\ MemoryOK'
        /\ \A c : SpokenFor(c) => SpokenFor(c)'
        /\ \A c : Dispatched(c) => Dispatched(c)'
        /\ \A g \in Handlers \ {k} : StatusOK(g)'
    BY <1>0, <2>1, StatusFrame
  <2>5. StatusOK(k)'
    BY <2>1, <2>3, <2>4 DEF StatusOK, StatusExplained
  <2>6. \A c \in Checkouts :
          orders'[c] = orders[c] \/ StatusExplained(c, orders[c])'
    BY <2>1, <2>2, <2>3, <2>4, StoreStatus
  <2>7. QED BY <2>4, <2>5, <2>6, StatusStep
<1>5. CASE DeliveryWrite(k)
  <2> DEFINE o == job[k].order
             doc == [orders[o] EXCEPT !.orderStatus =
                                             OrderStatusOf(job[k].event)]
  <2>1. /\ \A g \in Handlers \ {k} : pc'[g] = pc[g] /\ job'[g] = job[g]
        /\ dispatched' = dispatched /\ job'[k] = job[k]
        /\ pc[k] = "write" /\ pc'[k] = "done"
        /\ job[k] # None /\ job[k].op = "delivery" /\ Store(o, doc)
    BY <1>5 DEF DeliveryWrite, Goto, TypeOK
  <2>2. o \in Checkouts /\ Held(k)
    BY <1>0, <2>1 DEF HandlerOK, Held, Job
  <2>3. orders[o] # None => StatusExplained(o, doc)
    <3>1. SUFFICES ASSUME orders[o] # None PROVE StatusExplained(o, doc)
      OBVIOUS
    <3>2. orders[o] \in OrderDoc BY <2>2, <3>1 DEF TypeOK
    <3>3. doc.orderStatus = OrderStatusOf(job[k].event)
      BY <3>2 DEF OrderDoc
    <3>4. OrderStatusOf(job[k].event) # "preparing"
      BY DEF OrderStatusOf, Same
    <3>5. SpokenFor(o) BY <2>1 DEF SpokenFor
    <3> HIDE DEF o, doc
    <3>6. QED BY <3>3, <3>4, <3>5 DEF StatusExplained
  <2>4. StatusOK(k)' BY <2>1 DEF StatusOK, Held
  <2> HIDE DEF o, doc
  <2>5. /\ MemoryOK'
        /\ \A c : SpokenFor(c) => SpokenFor(c)'
        /\ \A c : Dispatched(c) => Dispatched(c)'
        /\ \A g \in Handlers \ {k} : StatusOK(g)'
    BY <1>0, <2>1, StatusFrame
  <2>6. \A c \in Checkouts :
          orders'[c] = orders[c] \/ StatusExplained(c, orders[c])'
    BY <2>1, <2>2, <2>3, <2>5, StoreStatus
  <2>7. QED BY <2>4, <2>5, <2>6, StatusStep
<1>6. QED BY <1>1, <1>2, <1>3, <1>4, <1>5 DEF CallStep

\* Moving points changes nothing of what a handler serves, and no handler gets
\* past the dispatch of its delivery by it.
LEMMA RewardStatus ==
  ASSUME StatusInv, TypeOK, ShapeInv, NoneAssumption, NEW h \in Handlers,
         RewardStep(h) \/ Abort(h) \/ RedeemFails(h)
  PROVE  StatusInv'
<1>0. /\ HandlerOK(h) /\ StatusOK(h)
      /\ dispatched \subseteq Calls
      /\ \A d \in dispatched : job[d] # None
  BY DEF ShapeInv, StatusInv, TypeOK, MemoryOK
<1>1. /\ \A g \in Handlers \ {h} : pc'[g] = pc[g] /\ job'[g] = job[g]
      /\ dispatched' = dispatched /\ orders' = orders
      /\ pc'[h] \notin {"idle", "branch"}
      /\ job'[h] = job[h] \/ job'[h] = [job[h] EXCEPT !.reason = "deducted"]
  BY DEF RewardStep, ApplyReward, LogReward, DeleteCart, Abort, RedeemFails,
         Goto, TypeOK
<1>2. Held(h) /\ (pc'[h] # "done" => pc[h] # "branch")
  BY DEF RewardStep, ApplyReward, LogReward, DeleteCart, Abort, RedeemFails,
         Goto, TypeOK, Held, Running
<1>3. job[h] \in Job BY <1>0, <1>2 DEF HandlerOK
<1>4. /\ job'[h] \in Job /\ job'[h].op = job[h].op
      /\ job'[h].order = job[h].order /\ job'[h].event = job[h].event
      /\ job'[h].doc = job[h].doc
  BY <1>1, <1>3 DEF Job, Reasons
<1>5. job'[h] # None BY <1>4, NoneAssumption
<1>6. /\ MemoryOK'
      /\ \A c : SpokenFor(c) => SpokenFor(c)'
      /\ \A c : Dispatched(c) => Dispatched(c)'
      /\ \A g \in Handlers \ {h} : StatusOK(g)'
  BY <1>0, <1>1, <1>4, <1>5, StatusFrame
<1>7. StatusOK(h)'
  BY <1>0, <1>1, <1>2, <1>4, <1>6 DEF StatusOK, StatusExplained, Held
<1>8. QED BY <1>1, <1>6, <1>7, StatusStep

LEMMA NextStatus ==
  ASSUME StatusInv, CopyInv, ShapeInv, ShapeInv', NoneAssumption,
         SetsAssumption, [Next]_vars
  PROVE  StatusInv'
<1>0. TypeOK BY DEF ShapeInv
<1>1. CASE UNCHANGED vars
  BY <1>1 DEF vars, StatusInv, MemoryOK, Stored, StatusExplained, SpokenFor,
              Dispatched, StatusOK, Held
<1>2. ASSUME NEW u \in Users, NEW q \in Quotes, FillCart(u, q)
      PROVE  StatusInv'
  BY <1>2 DEF FillCart, StatusInv, MemoryOK, Stored, StatusExplained,
              SpokenFor, Dispatched, StatusOK, Held
<1>3. QED
  BY <1>0, <1>1, <1>2, ArriveStatus, CheckoutStatus, CallStatus, RewardStatus
     DEF Next

\* Every status on its way into the database, or there, is accounted for.
THEOREM StatusInvariant == Spec => []StatusInv
<1> DEFINE I == ShapeInv /\ CopyInv /\ StatusInv
<1>1. Init => I
  <2>1. Init => StatusInv
    BY DEF Init, StatusInv, MemoryOK, Stored, StatusOK, Held
  <2>2. QED
    BY <2>1, InitShape, InitCredit, SetsAssumption, InputsAssumption
<1>2. I /\ [Next]_vars => I'
  BY NextShape, NextCopy, NextStatus,
     SetsAssumption, InputsAssumption, NoneAssumption
<1>3. I => StatusInv OBVIOUS
<1> HIDE DEF I
<1>4. QED BY <1>1, <1>2, <1>3, PTL DEF Spec

\* Whoever sets an order that had to be paid for to "preparing", a manager's
\* PUT or a payment, and whatever overlaps with it, its delivery was asked for.
THEOREM PreparationIsDispatched == Spec => []PreparingIsDispatched
<1>1. StatusInv => PreparingIsDispatched
  BY DEF StatusInv, PreparingIsDispatched, StatusExplained
<1>2. QED BY <1>1, StatusInvariant, PTL

\* An order that had to be paid for does not leave "pending" because of what
\* happens to other orders, to the branch or to a cart.
THEOREM PendingNeedsCause == Spec => []UnpaidStaysPending
<1>1. StatusInv => UnpaidStaysPending
  BY DEF StatusInv, UnpaidStaysPending, StatusExplained
<1>2. QED BY <1>1, StatusInvariant, PTL

-----------------------------------------------------------------------------
(* Edits *)

\* Only the writes of a PUT and of a payment event change what a PUT edits, and
\* the former to the value of its body: no overlapping PUT undoes another.
THEOREM EditsOfPutsMerge == Spec => EditsMerge
<1> DEFINE Edits(o) ==
             \E k \in Calls :
               /\ pc[k] = "write" /\ pc'[k] # "write" /\ job[k].order = o
               /\ job[k].op = "payment"
                    \/ (job[k].op = "update" /\ job[k].note = orders[o]'.note)
           Unedited(o) == orders'[o].note = orders[o].note
           I == ShapeInv /\ CopyInv
<1>1. ASSUME I, [Next]_vars, NEW o \in Checkouts,
             orders[o] # None, orders'[o] # None
      PROVE  Unedited(o) \/ Edits(o)
  <2>0. /\ pc \in [Handlers -> Places]
        /\ orders[o] \in OrderDoc
        /\ orders \in [Checkouts -> OrderDoc \cup {None}]
    BY <1>1 DEF ShapeInv, TypeOK
  <2>1. CASE orders' = orders BY <2>1
  <2>2. ASSUME NEW c \in Checkouts, CreateWrite(c)
        PROVE  Unedited(o)
    <3>1. pc[c] = "write" /\ orders' = [orders EXCEPT ![c] = job[c].doc]
      BY <2>2 DEF CreateWrite, Goto
    <3>2. orders[c] = None BY <1>1, <3>1 DEF CopyInv, FreshOK
    <3>3. orders'[o] = orders[o] BY <1>1, <2>0, <3>1, <3>2
    <3>4. QED BY <3>3
  <2>3. ASSUME NEW k \in Calls, UpdateWrite(k)
        PROVE  Unedited(o) \/ Edits(o)
    <3>1. /\ pc[k] = "write" /\ pc'[k] = "done" /\ job[k].op = "update"
          /\ Store(job[k].order, Edited(orders[job[k].order], job[k]))
      BY <2>0, <2>3 DEF UpdateWrite, Goto, Handlers
    <3>2. CASE job[k].order # o
      BY <2>0, <3>1, <3>2 DEF Store, Stored
    <3>3. CASE job[k].order = o
      <4>1. orders'[o] = Edited(orders[o], job[k])
        BY <1>1, <2>0, <3>1, <3>3 DEF Store, Stored
      <4>2. Edited(orders[o], job[k]).note
              = IF job[k].note = Same THEN orders[o].note ELSE job[k].note
        BY <2>0 DEF Edited, OrderDoc
      <4>3. QED BY <3>1, <3>3, <4>1, <4>2
    <3>4. QED BY <3>2, <3>3
  <2>4. ASSUME NEW k \in Calls, PaymentWrite(k)
        PROVE  Unedited(o) \/ Edits(o)
    <3>1. /\ pc[k] = "write" /\ pc'[k] = "cart" /\ job[k].op = "payment"
          /\ Store(job[k].order, job[k].doc)
      BY <2>0, <2>4 DEF PaymentWrite, Goto, Handlers
    <3>2. CASE job[k].order # o
      BY <2>0, <3>1, <3>2 DEF Store, Stored
    <3>3. CASE job[k].order = o BY <3>1, <3>3
    <3>4. QED BY <3>2, <3>3
  <2>5. ASSUME NEW k \in Calls, DeliveryWrite(k)
        PROVE  Unedited(o)
    <3>1. Store(job[k].order, [orders[job[k].order] EXCEPT !.orderStatus =
                                              OrderStatusOf(job[k].event)])
      BY <2>5 DEF DeliveryWrite
    <3>2. CASE job[k].order # o
      BY <2>0, <3>1, <3>2 DEF Store, Stored
    <3>3. CASE job[k].order = o
      <4>1. orders'[o] = [orders[o] EXCEPT !.orderStatus =
                                              OrderStatusOf(job[k].event)]
        BY <1>1, <2>0, <3>1, <3>3 DEF Store, Stored
      <4>2. QED BY <2>0, <4>1 DEF OrderDoc
    <3>4. QED BY <3>2, <3>3
  <2>6. ASSUME NEW k \in Calls, AcceptAll(k)
        PROVE  Unedited(o)
    <3>1. orders'[o] \in {orders[o],
                          [orders[o] EXCEPT !.orderStatus = "accepted"]}
      BY <2>6 DEF AcceptAll
    <3>2. QED BY <2>0, <3>1 DEF OrderDoc
  <2>7. ASSUME NEW k \in Calls, NEW c \in Checkouts, Delete(k, c)
        PROVE  Unedited(o)
    BY <1>1, <2>0, <2>7 DEF Delete
  <2>8. CASE Arrive
    BY <2>1, <2>6, <2>7, <2>8
       DEF Arrive, CreateRead, UpdateRead, PaymentRead, DeliveryRead
  <2>9. CASE \E h \in Handlers : RewardStep(h) \/ Abort(h) \/ RedeemFails(h)
    BY <2>1, <2>9 DEF RewardStep, ApplyReward, LogReward, DeleteCart, Abort,
                      RedeemFails
  <2>10. CASE \/ \E c \in Checkouts : CheckoutStep(c)
              \/ \E k \in Calls : CallStep(k)
    BY <2>1, <2>2, <2>3, <2>4, <2>5, <2>10
       DEF CheckoutStep, CreatePay, CallStep, UpdateBranch, PaymentBranch
  <2>11. QED
    BY <1>1, <2>1, <2>8, <2>9, <2>10 DEF Next, FillCart, vars
<1>2. Spec => []I
  <2>1. Init => I
    BY InitShape, InitCredit, SetsAssumption, InputsAssumption
  <2>2. I /\ [Next]_vars => I'
    BY NextShape, NextCopy, SetsAssumption, InputsAssumption, NoneAssumption
  <2> HIDE DEF I
  <2>3. QED BY <2>1, <2>2, PTL DEF Spec
<1>3. I /\ [Next]_vars =>
        [\A o \in Checkouts :
           (Stored(o) /\ Stored(o)' /\ orders[o].note # orders[o]'.note)
             => Edits(o)]_orders
  BY <1>1 DEF Stored
<1> HIDE DEF I
<1>4. QED BY <1>2, <1>3, PTL DEF Spec, EditsMerge

=============================================================================
