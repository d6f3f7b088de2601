---------------------------- MODULE CouponsProofs ----------------------------
(* Proofs about Coupons, for every set of branches, codes and limits and any *)
(* number of overlapping and failing requests; and, over MCCoupons'          *)
(* MCSpec, what holds when requests come one at a time; and about Analytics, *)
(* for any restaurants, orders and requests, and Reviews, for any guests,    *)
(* targets and ratings.                                                      *)
EXTENDS MCCoupons, Sums

-----------------------------------------------------------------------------
(* Types *)

LEMMA JobPlaces ==
  /\ JobAt("create") = CreateJob /\ JobAt("update") = UpdateJob
  /\ JobAt("coupon") = CartJob /\ JobAt("save") = CartJob
  /\ JobAt("payment") = OrderJob /\ JobAt("log") = OrderJob
  /\ JobAt("count") = OrderJob /\ JobAt("insert") = OrderJob
  /\ JobAt("paid") = PayJob /\ JobAt("clear") = PayJob
  /\ JobAt("idle") = {None} /\ JobAt("done") = {None}
<1>1. JobAt("create") = CreateJob BY DEF JobAt
<1>2. JobAt("update") = UpdateJob BY DEF JobAt
<1>3. JobAt("coupon") = CartJob /\ JobAt("save") = CartJob BY DEF JobAt
<1>4. /\ JobAt("payment") = OrderJob /\ JobAt("log") = OrderJob
      /\ JobAt("count") = OrderJob /\ JobAt("insert") = OrderJob
  BY DEF JobAt
<1>5. JobAt("paid") = PayJob /\ JobAt("clear") = PayJob BY DEF JobAt
<1>6. JobAt("idle") = {None} /\ JobAt("done") = {None} BY DEF JobAt
<1>7. QED BY <1>1, <1>2, <1>3, <1>4, <1>5, <1>6

\* A handler goes to a place with what belongs there.
LEMMA Moves ==
  ASSUME TypeOK, NEW r \in Requests, NEW to \in Places, NEW j \in JobAt(to),
         j \in Jobs,
         pc' = [pc EXCEPT ![r] = to], job' = [job EXCEPT ![r] = j]
  PROVE  /\ pc' \in [Requests -> Places] /\ job' \in [Requests -> Jobs]
         /\ \A q \in Requests : job'[q] \in JobAt(pc'[q])
         /\ pc'[r] = to /\ job'[r] = j
         /\ \A q \in Requests \ {r} : pc'[q] = pc[q] /\ job'[q] = job[q]
<1>1. pc' \in [Requests -> Places] /\ job' \in [Requests -> Jobs]
  BY DEF TypeOK
<1>2. pc'[r] = to /\ job'[r] = j BY DEF TypeOK
<1>3. \A q \in Requests \ {r} : pc'[q] = pc[q] /\ job'[q] = job[q]
  BY DEF TypeOK
<1>4. ASSUME NEW q \in Requests PROVE job'[q] \in JobAt(pc'[q])
  <2>1. CASE q = r BY <2>1, <1>2
  <2>2. CASE q # r
    <3>1. pc'[q] = pc[q] /\ job'[q] = job[q] BY <2>2, <1>3
    <3>2. job[q] \in JobAt(pc[q]) BY DEF TypeOK
    <3>3. QED BY <3>1, <3>2
  <2>3. QED BY <2>1, <2>2
<1>5. QED BY <1>1, <1>2, <1>3, <1>4

LEMMA Held ==
  ASSUME TypeOK, NEW r \in Requests
  PROVE  /\ pc[r] = "create" => job[r] \in CreateJob
         /\ pc[r] = "update" => job[r] \in UpdateJob
         /\ pc[r] \in {"coupon", "save"} => job[r] \in CartJob
         /\ pc[r] \in {"payment", "log", "count", "insert"}
              => job[r] \in OrderJob
         /\ pc[r] \in {"paid", "clear"} => job[r] \in PayJob
<1>1. job[r] \in JobAt(pc[r]) BY DEF TypeOK
<1>2. QED BY <1>1, JobPlaces

\* What a step of each kind does to the handlers, with the variables whose
\* type it can disturb.
LEMMA AdminTypes ==
  ASSUME TypeOK, NEW r \in Requests,
         \/ \E content \in Coupon : CreateFind(r, content)
         \/ \E u \in UpdateJob : UpdateFind(r, u)
         \/ \E d \in Requests : DeleteCoupon(r, d)
         \/ CreateWrite(r) \/ UpdateWrite(r)
  PROVE  /\ TypeOK'
         /\ \A q \in Requests \ {r} : pc'[q] = pc[q] /\ job'[q] = job[q]
         /\ pc[r] \in {"idle", "create", "update"}
         /\ pc'[r] \in {"create", "update", "done"}
         /\ UNCHANGED <<couponlog, cart, order, used, charged>>
<1>1. CASE \E content \in Coupon : CreateFind(r, content)
  <2>1. PICK content \in Coupon : CreateFind(r, content) BY <1>1
  <2>2. [content |-> content] \in CreateJob BY DEF CreateJob
  <2>3. [content |-> content] \in JobAt("create") \cap Jobs
    BY <2>2, JobPlaces DEF Jobs
  <2>4. QED BY <2>1, <2>3, Moves
         DEF CreateFind, Start, MayBegin, TypeOK, Places
<1>2. CASE \E u \in UpdateJob : UpdateFind(r, u)
  <2>1. PICK u \in UpdateJob : UpdateFind(r, u) BY <1>2
  <2>2. u \in JobAt("update") \cap Jobs BY JobPlaces DEF Jobs
  <2>3. QED BY <2>1, <2>2, Moves
         DEF UpdateFind, Start, MayBegin, TypeOK, Places
<1>3. CASE \E d \in Requests : DeleteCoupon(r, d)
  <2>1. PICK d \in Requests : DeleteCoupon(r, d) BY <1>3
  <2>2. None \in JobAt("done") \cap Jobs BY JobPlaces DEF Jobs
  <2>3. coupon' \in [Requests -> Coupon \cup {None}]
    BY <2>1 DEF DeleteCoupon, TypeOK
  <2>4. QED BY <2>1, <2>2, <2>3, Moves
         DEF DeleteCoupon, Start, MayBegin, TypeOK, Places
<1>4. CASE CreateWrite(r)
  <2>1. job[r].content \in Coupon
    BY <1>4, Held DEF CreateWrite, CreateJob
  <2>2. None \in JobAt("done") \cap Jobs BY JobPlaces DEF Jobs
  <2>3. coupon' \in [Requests -> Coupon \cup {None}]
    BY <1>4, <2>1 DEF CreateWrite, TypeOK
  <2>4. QED BY <1>4, <2>2, <2>3, Moves
         DEF CreateWrite, End, Step, TypeOK, Places
<1>5. CASE UpdateWrite(r)
  <2>1. job[r] \in UpdateJob BY <1>5, Held DEF UpdateWrite
  <2>2. None \in JobAt("done") \cap Jobs BY JobPlaces DEF Jobs
  <2>3. coupon' \in [Requests -> Coupon \cup {None}]
    <3>1. CASE coupon[job[r].doc] = None
      BY <1>5, <3>1 DEF UpdateWrite, TypeOK
    <3>2. CASE coupon[job[r].doc] # None
      <4>1. coupon[job[r].doc] \in Coupon
        BY <2>1, <3>2 DEF UpdateJob, TypeOK
      <4>2. /\ Or(job[r].branch, coupon[job[r].doc].branch) \in Branches
            /\ Or(job[r].code, coupon[job[r].doc].code) \in Codes
            /\ Or(job[r].limit, coupon[job[r].doc].limit) \in Limits
            /\ job[r].active \in BOOLEAN
        BY <2>1, <4>1 DEF UpdateJob, Coupon, Or
      <4>3. QED BY <1>5, <3>2, <4>2 DEF UpdateWrite, TypeOK, Coupon
    <3>3. QED BY <3>1, <3>2
  <2>4. QED BY <1>5, <2>2, <2>3, Moves
         DEF UpdateWrite, End, Step, TypeOK, Places
<1>6. QED BY <1>1, <1>2, <1>3, <1>4, <1>5

LEMMA CartTypes ==
  ASSUME TypeOK, NEW r \in Requests,
         \/ \E b \in Branches, c \in Codes \cup {None}, enough \in BOOLEAN :
              CartRead(r, b, c, enough)
         \/ CartCoupon(r) \/ CouponFails(r)
         \/ \E free \in BOOLEAN : CartSave(r, free)
  PROVE  /\ TypeOK'
         /\ \A q \in Requests \ {r} : pc'[q] = pc[q] /\ job'[q] = job[q]
         /\ pc[r] \in {"idle", "coupon", "save"}
         /\ pc'[r] \in {"coupon", "save", "done"}
         /\ UNCHANGED <<couponlog, order, used, charged>>
<1>1. CASE \E b \in Branches, c \in Codes \cup {None}, enough \in BOOLEAN :
             CartRead(r, b, c, enough)
  <2>1. PICK b \in Branches, c \in Codes \cup {None}, enough \in BOOLEAN :
          CartRead(r, b, c, enough)
    BY <1>1
  <2>2. PICK uses \in IF LogsOf(b, c) = {} THEN {0}
                      ELSE {couponlog[l].count : l \in LogsOf(b, c)} :
          Start(r, "cart", IF c = None THEN "save" ELSE "coupon",
                [branch |-> b, code |-> c, enough |-> enough,
                 uses |-> uses, coupon |-> None])
    BY <2>1 DEF CartRead
  <2> DEFINE j == [branch |-> b, code |-> c, enough |-> enough,
                   uses |-> uses, coupon |-> None]
             to == IF c = None THEN "save" ELSE "coupon"
  <2>3. uses \in Nat
    <3>1. \A l \in LogsOf(b, c) : couponlog[l] \in CouponLog
      BY DEF LogsOf, TypeOK
    <3>2. \A l \in LogsOf(b, c) : couponlog[l].count \in Nat
      BY <3>1 DEF CouponLog
    <3>3. QED BY <3>2
  <2>4. j \in CartJob BY <2>3 DEF CartJob
  <2>5. to \in Places /\ to \in {"save", "coupon"} BY DEF Places
  <2>6. j \in JobAt(to) /\ j \in Jobs BY <2>4, JobPlaces DEF Jobs
  <2>7. pc[r] = "idle" /\ pc' = [pc EXCEPT ![r] = to]
        /\ job' = [job EXCEPT ![r] = j]
    BY <2>2 DEF Start, MayBegin
  <2>8. /\ cart' \in Cart \cup {None}
        /\ UNCHANGED <<coupon, couponlog, order, used, charged>>
    BY <2>1 DEF CartRead, TypeOK
  <2> HIDE DEF j, to
  <2>9. /\ pc' \in [Requests -> Places] /\ job' \in [Requests -> Jobs]
        /\ \A q \in Requests : job'[q] \in JobAt(pc'[q])
        /\ pc'[r] = to
        /\ \A q \in Requests \ {r} : pc'[q] = pc[q] /\ job'[q] = job[q]
    BY <2>5, <2>6, <2>7, Moves
  <2>10. QED BY <2>5, <2>7, <2>8, <2>9 DEF TypeOK
<1>2. CASE CartCoupon(r)
  <2>1. pc[r] = "coupon" /\ job[r] \in CartJob
    BY <1>2, Held DEF CartCoupon
  <2>2. PICK found \in Coupon \cup {None} :
          Step(r, "coupon", "save", [job[r] EXCEPT !.coupon = found])
    BY <1>2 DEF CartCoupon, CouponsOf, TypeOK
  <2>3. [job[r] EXCEPT !.coupon = found] \in CartJob
    BY <2>1 DEF CartJob
  <2>4. [job[r] EXCEPT !.coupon = found] \in JobAt("save") \cap Jobs
    BY <2>3, JobPlaces DEF Jobs
  <2>5. QED BY <1>2, <2>1, <2>2, <2>4, Moves
         DEF CartCoupon, Step, TypeOK, Places
<1>3. CASE CouponFails(r)
  <2>1. pc[r] = "coupon" /\ job[r] \in CartJob
    BY <1>3, Held DEF CouponFails, Step
  <2>2. job[r] \in JobAt("save") \cap Jobs BY <2>1, JobPlaces DEF Jobs
  <2>3. QED BY <1>3, <2>1, <2>2, Moves
         DEF CouponFails, Step, TypeOK, Places
<1>4. CASE \E free \in BOOLEAN : CartSave(r, free)
  <2>1. PICK free \in BOOLEAN : CartSave(r, free) BY <1>4
  <2>2. job[r] \in CartJob BY <2>1, Held DEF CartSave
  <2>3. Granted(job[r]) \in BOOLEAN BY DEF Granted
  <2>4. cart' \in Cart \cup {None}
    BY <2>1, <2>2, <2>3 DEF CartSave, CartJob, Cart, TypeOK
  <2>5. None \in JobAt("done") \cap Jobs BY JobPlaces DEF Jobs
  <2>6. QED BY <2>1, <2>4, <2>5, Moves
         DEF CartSave, End, Step, TypeOK, Places
<1>5. QED BY <1>1, <1>2, <1>3, <1>4

LEMMA OrderReadTypes ==
  ASSUME TypeOK, NEW r \in Requests, OrderRead(r) \/ OrderPayment(r)
  PROVE  /\ TypeOK'
         /\ \A q \in Requests \ {r} : pc'[q] = pc[q] /\ job'[q] = job[q]
         /\ pc[r] \in {"idle", "payment"}
         /\ pc'[r] \in {"payment", "log", "insert"}
         /\ pc'[r] = "log" => job'[r].cart.code # None
         /\ pc'[r] = "insert" => job'[r].cart.code = None
         /\ pc'[r] = "payment" => job'[r].log = None
         /\ pc'[r] = "log" => pc[r] = "payment" /\ job'[r].log = job[r].log
         /\ UNCHANGED <<couponlog, order, used, charged>>
<1>1. CASE OrderRead(r)
  <2> DEFINE j == [cart |-> cart, log |-> None, uses |-> 0]
  <2>1. j \in OrderJob BY <1>1 DEF OrderRead, TypeOK, OrderJob
  <2>2. j \in JobAt("payment") /\ j \in Jobs BY <2>1, JobPlaces DEF Jobs
  <2>3. pc[r] = "idle" /\ pc' = [pc EXCEPT ![r] = "payment"]
        /\ job' = [job EXCEPT ![r] = j]
        /\ UNCHANGED <<coupon, couponlog, cart, order, used, charged>>
    BY <1>1 DEF OrderRead, Start, MayBegin
  <2> HIDE DEF j
  <2>4. j.log = None BY DEF j
  <2>5. QED BY <2>2, <2>3, <2>4, Moves DEF TypeOK, Places
<1>2. CASE OrderPayment(r)
  <2> DEFINE to == IF job[r].cart.code = None THEN "insert" ELSE "log"
  <2>1. pc[r] = "payment" /\ job[r] \in OrderJob
    BY <1>2, Held DEF OrderPayment
  <2>2. to \in Places /\ to \in {"insert", "log"} BY DEF Places
  <2>3. job[r] \in JobAt(to) /\ job[r] \in Jobs BY <2>1, JobPlaces DEF Jobs
  <2>4. pc' = [pc EXCEPT ![r] = to] /\ job' = [job EXCEPT ![r] = job[r]]
        /\ cart' \in Cart \cup {None}
        /\ UNCHANGED <<coupon, couponlog, order, used, charged>>
    BY <1>2 DEF OrderPayment, Step, TypeOK
  <2>5. to = "log" <=> job[r].cart.code # None OBVIOUS
  <2> HIDE DEF to
  <2>6. /\ pc' \in [Requests -> Places] /\ job' \in [Requests -> Jobs]
        /\ \A q \in Requests : job'[q] \in JobAt(pc'[q])
        /\ pc'[r] = to /\ job'[r] = job[r]
        /\ \A q \in Requests \ {r} : pc'[q] = pc[q] /\ job'[q] = job[q]
    BY <2>2, <2>3, <2>4, Moves
  <2>7. QED BY <2>1, <2>2, <2>4, <2>5, <2>6 DEF TypeOK
<1>3. QED BY <1>1, <1>2

\* What a handler of an order finds.
LEMMA LogFindTypes ==
  ASSUME TypeOK, NEW r \in Requests, LogFind(r)
  PROVE  /\ TypeOK'
         /\ \A q \in Requests \ {r} : pc'[q] = pc[q] /\ job'[q] = job[q]
         /\ pc[r] = "log" /\ pc'[r] = "count" /\ job[r] \in OrderJob
         /\ job'[r].cart = job[r].cart
         /\ \/ job'[r] = job[r]
            \/ \E l \in LogsOf(job[r].cart.branch, job[r].cart.code) :
                 job'[r].log = l /\ job'[r].uses = couponlog[l].count
         /\ UNCHANGED <<coupon, couponlog, cart, order, used, charged>>
<1>1. pc[r] = "log" /\ job[r] \in OrderJob BY Held DEF LogFind
<1>2. UNCHANGED <<coupon, couponlog, cart, order, used, charged>>
  BY DEF LogFind
<1>3. CASE Step(r, "log", "count", job[r])
  <2>1. job[r] \in JobAt("count") /\ job[r] \in Jobs
    BY <1>1, JobPlaces DEF Jobs
  <2>2. QED BY <1>1, <1>2, <1>3, <2>1, Moves, ZenonT(40)
        DEF Step, TypeOK, Places
<1>4. CASE \E l \in LogsOf(job[r].cart.branch, job[r].cart.code) :
             Step(r, "log", "count",
                  [job[r] EXCEPT !.log = l, !.uses = couponlog[l].count])
  <2>1. PICK l \in LogsOf(job[r].cart.branch, job[r].cart.code) :
          Step(r, "log", "count",
               [job[r] EXCEPT !.log = l, !.uses = couponlog[l].count])
    BY <1>4
  <2> DEFINE j == [job[r] EXCEPT !.log = l, !.uses = couponlog[l].count]
  <2>2. l \in Requests /\ couponlog[l] \in CouponLog
    BY DEF LogsOf, TypeOK
  <2>3. couponlog[l].count \in Nat BY <2>2 DEF CouponLog
  <2>4. j \in OrderJob /\ j.cart = job[r].cart /\ j.log = l
        /\ j.uses = couponlog[l].count
    BY <1>1, <2>2, <2>3 DEF OrderJob
  <2>5. j \in JobAt("count") /\ j \in Jobs BY <2>4, JobPlaces DEF Jobs
  <2>6. pc' = [pc EXCEPT ![r] = "count"] /\ job' = [job EXCEPT ![r] = j]
    BY <2>1 DEF Step
  <2> HIDE DEF j
  <2>7. /\ pc' \in [Requests -> Places] /\ job' \in [Requests -> Jobs]
        /\ \A q \in Requests : job'[q] \in JobAt(pc'[q])
        /\ pc'[r] = "count" /\ job'[r] = j
        /\ \A q \in Requests \ {r} : pc'[q] = pc[q] /\ job'[q] = job[q]
    BY <2>5, <2>6, Moves DEF Places
  <2>8. QED BY <1>1, <1>2, <2>4, <2>7 DEF TypeOK
<1>5. QED BY <1>3, <1>4 DEF LogFind

LEMMA LogWriteTypes ==
  ASSUME TypeOK, IInv, NEW r \in Requests, LogWrite(r)
  PROVE  /\ TypeOK'
         /\ \A q \in Requests \ {r} : pc'[q] = pc[q] /\ job'[q] = job[q]
         /\ pc[r] = "count" /\ pc'[r] = "insert"
         /\ job[r] \in OrderJob /\ job'[r] = job[r]
         /\ used' = [used EXCEPT ![r] = job[r].cart]
         /\ UNCHANGED <<coupon, cart, order, charged>>
<1>1. pc[r] = "count" /\ job[r] \in OrderJob BY Held DEF LogWrite
<1>2. job[r].cart \in Cart /\ job[r].cart.code \in Codes
      /\ job[r].uses \in Nat /\ job[r].log \in Requests \cup {None}
  BY <1>1 DEF OrderJob, Cart, IInv, CodesKnown
<1>3. FirstLog(job[r]) \in CouponLog
  BY <1>2 DEF FirstLog, CouponLog, Cart
<1>4. couponlog' \in [Requests -> CouponLog \cup {None}]
  <2>1. CASE job[r].log = None
    BY <1>3, <2>1 DEF LogWrite, Logged, TypeOK
  <2>2. CASE job[r].log # None
    <3>1. couponlog[job[r].log] \in CouponLog /\ job[r].log \in Requests
      BY <1>1, <1>2, <2>2 DEF IInv, FoundLogs, TypeOK
    <3>2. [couponlog[job[r].log] EXCEPT !.count = job[r].uses + 1]
            \in CouponLog
      BY <1>2, <3>1 DEF CouponLog
    <3>3. couponlog' = [couponlog EXCEPT ![job[r].log] =
                          [couponlog[job[r].log] EXCEPT !.count = job[r].uses + 1]]
      BY <2>2, <3>1 DEF LogWrite, Logged, TypeOK
    <3>4. QED BY <3>1, <3>2, <3>3 DEF TypeOK
  <2>3. QED BY <2>1, <2>2
<1>5. job[r] \in JobAt("insert") \cap Jobs BY <1>1, JobPlaces DEF Jobs
<1>6. /\ used' = [used EXCEPT ![r] = job[r].cart]
      /\ UNCHANGED <<coupon, cart, order, charged>>
  BY DEF LogWrite
<1>7. used' \in [Requests -> Cart \cup {None}] BY <1>2, <1>6 DEF TypeOK
<1>8. pc' = [pc EXCEPT ![r] = "insert"] /\ job' = [job EXCEPT ![r] = job[r]]
  BY DEF LogWrite, Step
<1>9. /\ pc' \in [Requests -> Places] /\ job' \in [Requests -> Jobs]
      /\ \A q \in Requests : job'[q] \in JobAt(pc'[q])
      /\ pc'[r] = "insert" /\ job'[r] = job[r]
      /\ \A q \in Requests \ {r} : pc'[q] = pc[q] /\ job'[q] = job[q]
  BY <1>5, <1>8, Moves DEF Places
<1>10. QED BY <1>1, <1>4, <1>6, <1>7, <1>9 DEF TypeOK

LEMMA InsertTypes ==
  ASSUME TypeOK, NEW r \in Requests, OrderInsert(r)
  PROVE  /\ TypeOK'
         /\ \A q \in Requests \ {r} : pc'[q] = pc[q] /\ job'[q] = job[q]
         /\ pc[r] = "insert" /\ pc'[r] = "done" /\ job[r] \in OrderJob
         /\ order' = [order EXCEPT ![r] = OrderOf(job[r].cart)]
         /\ OrderOf(job[r].cart) \in Order
         /\ UNCHANGED <<coupon, couponlog, cart, used, charged>>
<1>1. pc[r] = "insert" /\ job[r] \in OrderJob BY Held DEF OrderInsert
<1>2. OrderOf(job[r].cart) \in Order BY <1>1 DEF OrderOf, OrderJob, Cart, Order
<1>3. /\ order' = [order EXCEPT ![r] = OrderOf(job[r].cart)]
      /\ UNCHANGED <<coupon, couponlog, cart, used, charged>>
      /\ pc' = [pc EXCEPT ![r] = "done"] /\ job' = [job EXCEPT ![r] = None]
  BY DEF OrderInsert, End, Step
<1>4. order' \in [Requests -> Order \cup {None}] BY <1>2, <1>3 DEF TypeOK
<1>5. None \in JobAt("done") /\ None \in Jobs BY JobPlaces DEF Jobs
<1>6. QED BY <1>1, <1>2, <1>3, <1>4, <1>5, Moves DEF TypeOK, Places

LEMMA RedeemTypes ==
  ASSUME TypeOK, NEW r \in Requests, NEW o \in Requests, PayRedeem(r, o)
  PROVE  /\ TypeOK'
         /\ \A q \in Requests \ {r} : pc'[q] = pc[q] /\ job'[q] = job[q]
         /\ pc[r] = "idle" /\ pc'[r] = "paid" /\ job'[r].order = o
         /\ order[o] # None /\ ~order[o].free
         /\ charged' = charged \cup {o}
         /\ \/ /\ order[o].code = None \/ LogsOfCode(order[o].code) = {}
               /\ couponlog' = couponlog
            \/ /\ order[o].code # None
               /\ \E l \in LogsOfCode(order[o].code) :
                    couponlog' = [couponlog EXCEPT ![l].redeemed = TRUE]
         /\ UNCHANGED <<coupon, cart, order, used>>
<1>1. /\ pc[r] = "idle" /\ order[o] # None /\ ~order[o].free
      /\ pc' = [pc EXCEPT ![r] = "paid"]
      /\ job' = [job EXCEPT ![r] = [order |-> o]]
      /\ charged' = charged \cup {o}
      /\ UNCHANGED <<coupon, cart, order, used>>
  BY DEF PayRedeem, Start, MayBegin
<1>2. \/ /\ order[o].code = None \/ LogsOfCode(order[o].code) = {}
         /\ couponlog' = couponlog
      \/ /\ order[o].code # None
         /\ \E l \in LogsOfCode(order[o].code) :
              couponlog' = [couponlog EXCEPT ![l].redeemed = TRUE]
  BY DEF PayRedeem
<1>3. couponlog' \in [Requests -> CouponLog \cup {None}]
  <2>1. CASE couponlog' = couponlog BY <2>1 DEF TypeOK
  <2>2. CASE \E l \in LogsOfCode(order[o].code) :
               couponlog' = [couponlog EXCEPT ![l].redeemed = TRUE]
    <3>1. PICK l \in LogsOfCode(order[o].code) :
            couponlog' = [couponlog EXCEPT ![l].redeemed = TRUE]
      BY <2>2
    <3>2. l \in Requests /\ couponlog[l] \in CouponLog
      BY DEF LogsOfCode, TypeOK
    <3>3. [couponlog[l] EXCEPT !.redeemed = TRUE] \in CouponLog
      BY <3>2 DEF CouponLog
    <3>4. couponlog' = [couponlog EXCEPT ![l] =
                          [couponlog[l] EXCEPT !.redeemed = TRUE]]
      BY <3>1, <3>2 DEF TypeOK
    <3>5. QED BY <3>2, <3>3, <3>4 DEF TypeOK
  <2>3. QED BY <1>2, <2>1, <2>2
<1>4. [order |-> o] \in PayJob BY DEF PayJob
<1>5. [order |-> o] \in JobAt("paid") /\ [order |-> o] \in Jobs
  BY <1>4, JobPlaces DEF Jobs
<1>6. /\ pc' \in [Requests -> Places] /\ job' \in [Requests -> Jobs]
      /\ \A q \in Requests : job'[q] \in JobAt(pc'[q])
      /\ pc'[r] = "paid" /\ job'[r] = [order |-> o]
      /\ \A q \in Requests \ {r} : pc'[q] = pc[q] /\ job'[q] = job[q]
  BY <1>1, <1>5, Moves DEF Places
<1>7. QED BY <1>1, <1>2, <1>3, <1>6 DEF TypeOK

\* The order is paid if it is still there.
LEMMA PaySaveTypes ==
  ASSUME TypeOK, NEW r \in Requests, PaySave(r)
  PROVE  /\ TypeOK'
         /\ \A q \in Requests \ {r} : pc'[q] = pc[q] /\ job'[q] = job[q]
         /\ pc[r] = "paid" /\ pc'[r] = "clear"
         /\ job[r].order \in Requests
         /\ \/ order[job[r].order] = None /\ order' = order
            \/ /\ order[job[r].order] \in Order
               /\ order' = [order EXCEPT ![job[r].order] =
                              [order[job[r].order] EXCEPT !.paid = TRUE]]
         /\ UNCHANGED <<coupon, couponlog, cart, used, charged>>
<1>1. pc[r] = "paid" /\ job[r] \in PayJob /\ job[r].order \in Requests
  BY Held DEF PaySave, PayJob
<1>2. \/ order[job[r].order] = None /\ order' = order
      \/ /\ order[job[r].order] \in Order
         /\ order' = [order EXCEPT ![job[r].order] =
                        [order[job[r].order] EXCEPT !.paid = TRUE]]
  BY <1>1 DEF PaySave, Paid, TypeOK
<1>3. /\ UNCHANGED <<coupon, couponlog, cart, used, charged>>
      /\ pc' = [pc EXCEPT ![r] = "clear"] /\ job' = [job EXCEPT ![r] = job[r]]
  BY <1>1 DEF PaySave, Step, TypeOK
<1>4. order' \in [Requests -> Order \cup {None}]
  <2>1. CASE order' = order BY <2>1 DEF TypeOK
  <2>2. CASE /\ order[job[r].order] \in Order
             /\ order' = [order EXCEPT ![job[r].order] =
                            [order[job[r].order] EXCEPT !.paid = TRUE]]
    <3>1. [order[job[r].order] EXCEPT !.paid = TRUE] \in Order BY <2>2 DEF Order
    <3>2. QED BY <1>1, <2>2, <3>1 DEF TypeOK
  <2>3. QED BY <1>2, <2>1, <2>2
<1>5. job[r] \in JobAt("clear") /\ job[r] \in Jobs BY <1>1, JobPlaces DEF Jobs
<1>6. QED BY <1>1, <1>2, <1>3, <1>4, <1>5, Moves DEF TypeOK, Places

LEMMA DeleteTypes ==
  ASSUME TypeOK, NEW r \in Requests, NEW o \in Requests, DeleteOrder(r, o)
  PROVE  /\ TypeOK'
         /\ \A q \in Requests \ {r} : pc'[q] = pc[q] /\ job'[q] = job[q]
         /\ pc[r] = "idle" /\ pc'[r] = "done"
         /\ order' = [order EXCEPT ![o] = None]
         /\ UNCHANGED <<coupon, couponlog, cart, used, charged>>
<1>1. /\ pc[r] = "idle" /\ order' = [order EXCEPT ![o] = None]
      /\ pc' = [pc EXCEPT ![r] = "done"] /\ job' = [job EXCEPT ![r] = None]
      /\ UNCHANGED <<coupon, couponlog, cart, used, charged>>
  BY DEF DeleteOrder, Start, MayBegin
<1>2. order' \in [Requests -> Order \cup {None}] BY <1>1 DEF TypeOK
<1>3. None \in JobAt("done") /\ None \in Jobs BY JobPlaces DEF Jobs
<1>4. QED BY <1>1, <1>2, <1>3, Moves DEF TypeOK, Places

LEMMA EndTypes ==
  ASSUME TypeOK, NEW r \in Requests, PayClear(r) \/ Abort(r)
  PROVE  /\ TypeOK'
         /\ \A q \in Requests \ {r} : pc'[q] = pc[q] /\ job'[q] = job[q]
         /\ pc[r] # "idle" /\ pc'[r] = "done"
         /\ UNCHANGED <<couponlog, order, used, charged>>
<1>1. /\ pc[r] # "idle"
      /\ pc' = [pc EXCEPT ![r] = "done"] /\ job' = [job EXCEPT ![r] = None]
      /\ cart' \in Cart \cup {None}
      /\ UNCHANGED <<coupon, couponlog, order, used, charged>>
  BY DEF PayClear, Abort, End, Step, Running, TypeOK
<1>2. None \in JobAt("done") /\ None \in Jobs BY JobPlaces DEF Jobs
<1>3. QED BY <1>1, <1>2, Moves DEF TypeOK, Places

-----------------------------------------------------------------------------
(* The invariant *)

\* An order that is being paid was made before, and stays so.
LEMMA MadeStay ==
  ASSUME TypeOK, IInv, NEW r \in Requests,
         \A q \in Requests \ {r} : pc'[q] = pc[q] /\ job'[q] = job[q],
         pc[r] # "done",
         pc'[r] = "paid" =>
           job'[r].order \in Requests /\ order[job'[r].order] # None
  PROVE  PaidWereMade'
<1> SUFFICES ASSUME NEW q \in Requests, pc'[q] = "paid"
             PROVE  pc'[job'[q].order] = "done"
  BY DEF PaidWereMade
<1>1. CASE q = r
  <2>1. job'[q].order \in Requests /\ pc[job'[q].order] = "done"
    BY <1>1 DEF IInv, MadeInOrder
  <2>2. QED BY <2>1
<1>2. CASE q # r
  <2>1. pc[q] = "paid" /\ job'[q] = job[q] BY <1>2
  <2>2. job[q].order \in Requests BY <2>1, Held DEF PayJob
  <2>3. pc[job[q].order] = "done" BY <2>1 DEF IInv, PaidWereMade
  <2>4. QED BY <2>1, <2>2, <2>3
<1>3. QED BY <1>1, <1>2

\* Steps that leave logs, orders and the histories alone.
LEMMA QuietInv ==
  ASSUME TypeOK, IInv, NEW r \in Requests,
         \A q \in Requests \ {r} : pc'[q] = pc[q] /\ job'[q] = job[q],
         pc[r] # "done", pc[r] = "insert" => pc'[r] = "done",
         pc'[r] \notin {"count", "paid"},
         pc'[r] = "log" => job'[r].cart.code # None,
         pc'[r] \in {"payment", "log"} => job'[r].log = None,
         pc'[r] = "insert" => job'[r].cart.code = None,
         UNCHANGED <<couponlog, order, used, charged>>
  PROVE  IInv'
<1>1. \A c : Uses(c)' = Uses(c) BY DEF Uses
<1>2. \A c : LogsOfCode(c)' = LogsOfCode(c) BY DEF LogsOfCode
<1>3. CodesKnown' BY DEF IInv, CodesKnown
<1>4. MadeInOrder' BY DEF IInv, MadeInOrder
<1>5. LogsAreUses'
  <2>1. \A q \in Requests :
          (pc'[q] = "insert" /\ job'[q].cart.code # None)
            => pc[q] = "insert" /\ job'[q] = job[q]
    OBVIOUS
  <2>2. QED BY <2>1 DEF IInv, LogsAreUses
<1>6. FoundLogs' BY DEF IInv, FoundLogs
<1>7. OrdersAreLogged' BY <1>2 DEF IInv, OrdersAreLogged
<1>8. PaymentsAreMarked' BY <1>2 DEF IInv, PaymentsAreMarked
<1>9. PaidIsRedeemed' BY <1>2 DEF IInv, PaidIsRedeemed
<1>10. RedeemedMeansPaid' BY <1>1 DEF IInv, RedeemedMeansPaid
<1>11. PaidWereMade' BY MadeStay
<1>12. QED
  BY <1>11, <1>3, <1>4, <1>5, <1>6, <1>7, <1>8, <1>9, <1>10 DEF IInv

LEMMA LogFindInv ==
  ASSUME TypeOK, IInv, NEW r \in Requests, LogFind(r)
  PROVE  IInv'
<1>1. /\ \A q \in Requests \ {r} : pc'[q] = pc[q] /\ job'[q] = job[q]
      /\ pc[r] = "log" /\ pc'[r] = "count" /\ job[r] \in OrderJob
      /\ job'[r].cart = job[r].cart
      /\ UNCHANGED <<coupon, couponlog, cart, order, used, charged>>
  BY LogFindTypes
<1>2. \A c : Uses(c)' = Uses(c) BY <1>1 DEF Uses
<1>3. \A c : LogsOfCode(c)' = LogsOfCode(c) BY <1>1 DEF LogsOfCode
<1>4. CodesKnown' BY <1>1 DEF IInv, CodesKnown
<1>5. MadeInOrder' BY <1>1 DEF IInv, MadeInOrder
<1>6. LogsAreUses' BY <1>1 DEF IInv, LogsAreUses
<1>7. FoundLogs'
  <2> SUFFICES ASSUME NEW q \in Requests, pc'[q] = "count", job'[q].log # None
               PROVE  LET l == couponlog[job'[q].log]
                      IN /\ l # None
                         /\ l.branch = job'[q].cart.branch
                         /\ l.code = job'[q].cart.code
    BY <1>1 DEF FoundLogs
  <2>1. CASE q # r BY <2>1, <1>1 DEF IInv, FoundLogs
  <2>2. CASE q = r
    <3>1. CASE job'[r] = job[r]
      <4>1. job[r].log = None
        BY <1>1 DEF IInv, CodesKnown
      <4>2. QED BY <4>1, <3>1, <2>2
    <3>2. CASE \E l \in LogsOf(job[r].cart.branch, job[r].cart.code) :
                 job'[r].log = l /\ job'[r].uses = couponlog[l].count
      BY <3>2, <2>2, <1>1 DEF LogsOf
    <3>3. QED BY <3>1, <3>2, LogFindTypes
  <2>3. QED BY <2>1, <2>2
<1>8. OrdersAreLogged' BY <1>1, <1>3 DEF IInv, OrdersAreLogged
<1>9. PaymentsAreMarked' BY <1>1, <1>3 DEF IInv, PaymentsAreMarked
<1>10. PaidIsRedeemed' BY <1>1, <1>3 DEF IInv, PaidIsRedeemed
<1>11. RedeemedMeansPaid' BY <1>1, <1>2 DEF IInv, RedeemedMeansPaid
<1>12. PaidWereMade' BY <1>1, MadeStay
<1>13. QED
  BY <1>12, <1>4, <1>5, <1>6, <1>7, <1>8, <1>9, <1>10, <1>11 DEF IInv

\* Marking or counting, a step keeps every log, with its branch and code, and
\* no step takes a mark away.
LEMMA LogsKept ==
  ASSUME TypeOK, IInv, NEW r \in Requests,
         LogWrite(r) \/ \E o \in Requests : PayRedeem(r, o)
  PROVE  \A l \in Requests :
           couponlog[l] # None =>
             /\ couponlog'[l] # None
             /\ couponlog'[l].branch = couponlog[l].branch
             /\ couponlog'[l].code = couponlog[l].code
             /\ couponlog[l].redeemed => couponlog'[l].redeemed
<1>1. CASE LogWrite(r)
  <2>1. pc[r] = "count" /\ couponlog' = Logged(r, job[r]) /\ job[r] \in OrderJob
    BY <1>1, LogWriteTypes DEF LogWrite
  <2>2. couponlog[r] = None BY <2>1 DEF IInv, MadeInOrder
  <2>3. CASE job[r].log = None
    BY <2>1, <2>2, <2>3 DEF Logged, TypeOK
  <2>4. CASE job[r].log # None
    <3>1. job[r].log \in Requests /\ couponlog[job[r].log] \in CouponLog
      BY <2>1, <2>4 DEF OrderJob, IInv, FoundLogs, TypeOK
    <3>2. couponlog' = [couponlog EXCEPT ![job[r].log] =
                          [couponlog[job[r].log] EXCEPT !.count = job[r].uses + 1]]
      BY <2>1, <2>4, <3>1 DEF Logged, TypeOK
    <3>3. TypeOK' BY <1>1, LogWriteTypes
    <3>4. couponlog'[job[r].log] =
            [couponlog[job[r].log] EXCEPT !.count = job[r].uses + 1]
      BY <3>1, <3>2 DEF TypeOK
    <3>5. [couponlog[job[r].log] EXCEPT !.count = job[r].uses + 1] \in CouponLog
      BY <2>1, <3>1 DEF CouponLog, OrderJob
    <3>6. /\ couponlog'[job[r].log] # None
          /\ couponlog'[job[r].log].branch = couponlog[job[r].log].branch
          /\ couponlog'[job[r].log].code = couponlog[job[r].log].code
          /\ couponlog'[job[r].log].redeemed = couponlog[job[r].log].redeemed
      BY <3>1, <3>4, <3>5, NoneAssumption DEF CouponLog
    <3>7. \A l \in Requests \ {job[r].log} : couponlog'[l] = couponlog[l]
      BY <3>2 DEF TypeOK
    <3>8. QED BY <3>6, <3>7
  <2>5. QED BY <2>3, <2>4
<1>2. CASE \E o \in Requests : PayRedeem(r, o)
  <2>1. PICK o \in Requests : PayRedeem(r, o) BY <1>2
  <2>2. CASE couponlog' = couponlog BY <2>2
  <2>3. CASE \E l \in LogsOfCode(order[o].code) :
               couponlog' = [couponlog EXCEPT ![l].redeemed = TRUE]
    <3>1. PICK k \in LogsOfCode(order[o].code) :
            couponlog' = [couponlog EXCEPT ![k].redeemed = TRUE]
      BY <2>3
    <3>2. k \in Requests /\ couponlog[k] \in CouponLog
      BY DEF LogsOfCode, TypeOK
    <3>3. couponlog'[k] = [couponlog[k] EXCEPT !.redeemed = TRUE]
      BY <3>1, <3>2 DEF TypeOK
    <3>4. [couponlog[k] EXCEPT !.redeemed = TRUE] \in CouponLog
      BY <3>2 DEF CouponLog
    <3>5. /\ couponlog'[k] # None
          /\ couponlog'[k].branch = couponlog[k].branch
          /\ couponlog'[k].code = couponlog[k].code
          /\ couponlog'[k].redeemed
      BY <3>2, <3>3, <3>4, NoneAssumption DEF CouponLog
    <3>6. \A l \in Requests \ {k} : couponlog'[l] = couponlog[l]
      BY <3>1 DEF TypeOK
    <3>7. QED BY <3>5, <3>6
  <2>4. QED BY <2>1, <2>2, <2>3, RedeemTypes
<1>3. QED BY <1>1, <1>2

\* The logs of a code, before or after a step.
LogsIn(f, c) == {l \in Requests : f[l] # None /\ f[l].code = c}

LEMMA LogsNow == \A c : LogsOfCode(c) = LogsIn(couponlog, c)
BY DEF LogsOfCode, LogsIn

LEMMA LogWriteInv ==
  ASSUME TypeOK, IInv, NEW r \in Requests, LogWrite(r)
  PROVE  IInv'
<1> DEFINE j == job[r]
<1>1. /\ TypeOK'
      /\ \A q \in Requests \ {r} : pc'[q] = pc[q] /\ job'[q] = job[q]
      /\ pc[r] = "count" /\ pc'[r] = "insert" /\ j \in OrderJob /\ job'[r] = j
      /\ used' = [used EXCEPT ![r] = j.cart]
      /\ UNCHANGED <<coupon, cart, order, charged>>
  BY LogWriteTypes
<1>2. j.cart \in Cart /\ j.cart.code \in Codes /\ j.uses \in Nat
  BY <1>1 DEF OrderJob, Cart, IInv, CodesKnown
<1>3. couponlog' = Logged(r, j) BY DEF LogWrite
<1>4. couponlog[r] = None /\ used[r] = None BY <1>1 DEF IInv, MadeInOrder
<1>5. \A l \in Requests :
        couponlog[l] # None =>
          /\ couponlog'[l] # None
          /\ couponlog'[l].branch = couponlog[l].branch
          /\ couponlog'[l].code = couponlog[l].code
          /\ couponlog[l].redeemed => couponlog'[l].redeemed
  BY LogsKept
<1>6. \A c : LogsOfCode(c) \subseteq LogsOfCode(c)' BY <1>5 DEF LogsOfCode
\* The document written, and that the others stay as they are.
<1>7. \E d \in Requests :
        /\ \A l \in Requests \ {d} : couponlog'[l] = couponlog[l]
        /\ d = r \/ couponlog[d] # None
        /\ couponlog'[d] # None
        /\ couponlog'[d].branch = j.cart.branch
        /\ couponlog'[d].code = j.cart.code
        /\ couponlog'[d].redeemed => couponlog[d] # None /\ couponlog[d].redeemed
  <2>1. CASE j.log = None
    <3>1. couponlog' = [couponlog EXCEPT ![r] = FirstLog(j)]
      BY <1>3, <2>1 DEF Logged
    <3>2. couponlog'[r] = FirstLog(j)
          /\ \A l \in Requests \ {r} : couponlog'[l] = couponlog[l]
      BY <3>1 DEF TypeOK
    <3>3. FirstLog(j) \in CouponLog BY <1>2 DEF FirstLog, CouponLog, Cart
    <3>4. /\ FirstLog(j) # None
          /\ FirstLog(j).branch = j.cart.branch
          /\ FirstLog(j).code = j.cart.code
          /\ FirstLog(j).redeemed = FALSE
      BY <3>3, NoneAssumption DEF FirstLog
    <3>5. QED BY <3>2, <3>4
  <2>2. CASE j.log # None
    <3>1. /\ j.log \in Requests /\ couponlog[j.log] \in CouponLog
          /\ couponlog[j.log].branch = j.cart.branch
          /\ couponlog[j.log].code = j.cart.code
      BY <1>1, <2>2 DEF OrderJob, IInv, FoundLogs, TypeOK
    <3>2. couponlog' = [couponlog EXCEPT ![j.log] =
                          [couponlog[j.log] EXCEPT !.count = j.uses + 1]]
      BY <1>3, <2>2, <3>1 DEF Logged, TypeOK
    <3>3. couponlog'[j.log] = [couponlog[j.log] EXCEPT !.count = j.uses + 1]
          /\ \A l \in Requests \ {j.log} : couponlog'[l] = couponlog[l]
      BY <3>1, <3>2 DEF TypeOK
    <3>4. couponlog'[j.log].redeemed = couponlog[j.log].redeemed
      BY <3>1, <3>3 DEF CouponLog
    <3>5. couponlog[j.log] # None BY <3>1, NoneAssumption
    <3>6. /\ couponlog'[j.log] # None
          /\ couponlog'[j.log].branch = j.cart.branch
          /\ couponlog'[j.log].code = j.cart.code
      BY <1>5, <3>1, <3>5
    <3>7. QED BY <3>1, <3>3, <3>4, <3>5, <3>6
  <2>3. QED BY <2>1, <2>2
<1>8. PICK d \in Requests :
        /\ \A l \in Requests \ {d} : couponlog'[l] = couponlog[l]
        /\ d = r \/ couponlog[d] # None
        /\ couponlog'[d] # None
        /\ couponlog'[d].branch = j.cart.branch
        /\ couponlog'[d].code = j.cart.code
        /\ couponlog'[d].redeemed => couponlog[d] # None /\ couponlog[d].redeemed
  BY <1>7
<1>9. \E l \in Requests :
        couponlog'[l] # None /\ couponlog'[l].code = j.cart.code
  BY <1>8
<1>10. j.cart # None BY <1>2, NoneAssumption
<1> HIDE DEF j
<1>11. used'[r] = j.cart /\ \A q \in Requests \ {r} : used'[q] = used[q]
  BY <1>1 DEF TypeOK
<1>12. CodesKnown' BY <1>1 DEF IInv, CodesKnown
<1>13. MadeInOrder'
  <2>1. \A q \in Requests \ {r} :
          used'[q] # None \/ couponlog'[q] # None
            => used[q] # None \/ couponlog[q] # None
    BY <1>1, <1>8 DEF TypeOK
  <2>2. QED BY <1>1, <2>1 DEF IInv, MadeInOrder
<1>14. LogsAreUses'
  <2> SUFFICES ASSUME NEW q \in Requests
               PROVE  /\ couponlog'[q] # None =>
                           /\ used'[q] # None
                           /\ used'[q].branch = couponlog'[q].branch
                           /\ used'[q].code = couponlog'[q].code
                      /\ (order[q] # None /\ order[q].code # None) =>
                           /\ used'[q] # None
                           /\ used'[q].branch = order[q].branch
                           /\ used'[q].code = order[q].code
                      /\ (pc'[q] = "insert" /\ job'[q].cart.code # None)
                           => used'[q] = job'[q].cart
    BY <1>1 DEF LogsAreUses
  <2>1. CASE q = r
    <3>1. order[r] = None BY <1>1 DEF IInv, MadeInOrder
    <3>2. d # r => couponlog'[r] = None BY <1>4, <1>8
    <3>3. QED BY <2>1, <3>1, <3>2, <1>1, <1>8, <1>10, <1>11 DEF j
  <2>2. CASE q # r
    <3>1. couponlog'[q] # None =>
            /\ couponlog[q] # None
            /\ couponlog'[q].branch = couponlog[q].branch
            /\ couponlog'[q].code = couponlog[q].code
      BY <2>2, <1>5, <1>8
    <3>2. pc'[q] = pc[q] /\ job'[q] = job[q] /\ used'[q] = used[q]
      BY <2>2, <1>1, <1>11
    <3>3. QED BY <3>1, <3>2 DEF IInv, LogsAreUses
  <2>3. QED BY <2>1, <2>2
<1>15. FoundLogs'
  <2> SUFFICES ASSUME NEW q \in Requests, pc'[q] = "count", job'[q].log # None
               PROVE  LET l == couponlog'[job'[q].log]
                      IN /\ l # None
                         /\ l.branch = job'[q].cart.branch
                         /\ l.code = job'[q].cart.code
    BY DEF FoundLogs
  <2>1. q # r /\ pc[q] = "count" /\ job'[q] = job[q] BY <1>1
  <2>2. job[q].log \in Requests BY <2>1, Held DEF OrderJob
  <2>3. QED BY <2>1, <2>2, <1>5 DEF IInv, FoundLogs
<1>16. OrdersAreLogged'
  <2>1. ASSUME NEW c, LogsIn(couponlog, c) # {}
        PROVE  LogsIn(couponlog', c) # {}
    BY <2>1, <1>5 DEF LogsIn
  <2>2. LogsIn(couponlog', job[r].cart.code) # {} BY <1>9 DEF LogsIn, j
  <2>3. ASSUME NEW q \in Requests,
               pc'[q] = "insert", job'[q].cart.code # None
        PROVE  LogsIn(couponlog', job'[q].cart.code) # {}
    <3>1. CASE q = r BY <3>1, <1>1, <2>2 DEF j
    <3>2. CASE q # r
      <4>1. pc[q] = "insert" /\ job'[q] = job[q] BY <2>3, <3>2, <1>1
      <4>2. LogsIn(couponlog, job[q].cart.code) # {}
        BY <2>3, <4>1, LogsNow DEF IInv, OrdersAreLogged
      <4>3. QED BY <4>1, <4>2, <2>1
    <3>3. QED BY <3>1, <3>2
  <2>4. ASSUME NEW o \in Requests, order[o] # None, order[o].code # None
        PROVE  LogsIn(couponlog', order[o].code) # {}
    <3>1. LogsIn(couponlog, order[o].code) # {}
      BY <2>4, LogsNow DEF IInv, OrdersAreLogged
    <3>2. QED BY <3>1, <2>1
  <2>5. QED BY <1>1, <2>3, <2>4 DEF OrdersAreLogged, LogsOfCode, LogsIn
<1>17. PaymentsAreMarked'
  BY <1>1, <1>5, <1>6 DEF IInv, PaymentsAreMarked, LogsOfCode
<1>18. PaidIsRedeemed'
  BY <1>1, <1>5, <1>6 DEF IInv, PaidIsRedeemed, LogsOfCode
<1>19. RedeemedMeansPaid'
  <2> SUFFICES ASSUME NEW l \in Requests, couponlog'[l] # None,
                      couponlog'[l].redeemed
               PROVE  \E o \in charged : /\ used'[o] # None /\ o \in Requests
                                        /\ used'[o].code = couponlog'[l].code
    BY <1>1 DEF RedeemedMeansPaid, Uses
  <2>1. couponlog[l] # None /\ couponlog[l].redeemed BY <1>8
  <2>2. couponlog'[l].code = couponlog[l].code BY <1>5, <2>1
  <2>3. PICK o \in charged : /\ o \in Requests /\ used[o] # None
                             /\ used[o].code = couponlog[l].code
    BY <2>1 DEF IInv, RedeemedMeansPaid, Uses
  <2>4. used'[o] = used[o] BY <2>3, <1>4, <1>11
  <2>5. QED BY <2>2, <2>3, <2>4
<1>20. PaidWereMade' BY <1>1, MadeStay
<1>21. QED
  BY <1>20, <1>12, <1>13, <1>14, <1>15, <1>16, <1>17, <1>18, <1>19 DEF IInv

LEMMA InsertInv ==
  ASSUME TypeOK, IInv, NEW r \in Requests, OrderInsert(r)
  PROVE  IInv'
<1> DEFINE o == OrderOf(job[r].cart)
<1>1. /\ \A q \in Requests \ {r} : pc'[q] = pc[q] /\ job'[q] = job[q]
      /\ pc[r] = "insert" /\ pc'[r] = "done" /\ job[r] \in OrderJob
      /\ order' = [order EXCEPT ![r] = o] /\ o \in Order
      /\ UNCHANGED <<coupon, couponlog, cart, used, charged>>
  BY InsertTypes
<1>2. /\ order'[r] = o /\ o # None
      /\ \A q \in Requests \ {r} : order'[q] = order[q]
  BY <1>1, NoneAssumption DEF TypeOK
<1>3. order[r] = None BY <1>1 DEF IInv, MadeInOrder
<1>4. /\ o.code = job[r].cart.code /\ o.branch = job[r].cart.branch
      /\ o.paid = o.free
  BY DEF OrderOf
<1>5. \A c : Uses(c)' = Uses(c) BY <1>1 DEF Uses
<1>6. \A c : LogsOfCode(c)' = LogsOfCode(c) BY <1>1 DEF LogsOfCode
<1> HIDE DEF o
<1>7. o.code # None => LogsOfCode(o.code) # {}
  BY <1>1, <1>4 DEF IInv, OrdersAreLogged
<1>8. o.code # None => used[r] = job[r].cart
  BY <1>1, <1>4 DEF IInv, LogsAreUses
<1>9. job[r].cart # None BY <1>1, NoneAssumption DEF OrderJob
<1>10. CodesKnown' BY <1>1 DEF IInv, CodesKnown
<1>11. MadeInOrder' BY <1>1, <1>2 DEF IInv, MadeInOrder
<1>12. LogsAreUses'
  BY <1>1, <1>2, <1>4, <1>8, <1>9 DEF IInv, LogsAreUses
<1>13. FoundLogs' BY <1>1 DEF IInv, FoundLogs
<1>14. OrdersAreLogged'
  BY <1>1, <1>2, <1>6, <1>7 DEF IInv, OrdersAreLogged
\* A payment event may meet the order under creation only once it is there.
<1>15. PaymentsAreMarked'
  <2> SUFFICES ASSUME NEW q \in Requests, pc'[q] = "paid",
                      order'[job'[q].order] # None,
                      order'[job'[q].order].code # None
               PROVE  \E l \in LogsOfCode(order'[job'[q].order].code) :
                        couponlog[l].redeemed
    BY <1>1, <1>6 DEF PaymentsAreMarked
  <2>1. q # r /\ pc[q] = "paid" /\ job'[q] = job[q] BY <1>1
  <2>2. job[q] \in PayJob /\ job[q].order \in Requests
    BY <2>1, Held DEF PayJob
  <2>3. job[q].order # r BY <1>1, <2>1, <2>2 DEF IInv, PaidWereMade
  <2>4. order'[job[q].order] = order[job[q].order] BY <2>2, <2>3, <1>2
  <2>5. QED BY <2>1, <2>4 DEF IInv, PaymentsAreMarked
<1>16. PaidIsRedeemed'
  BY <1>1, <1>2, <1>4, <1>6 DEF IInv, PaidIsRedeemed
<1>17. RedeemedMeansPaid' BY <1>1, <1>5 DEF IInv, RedeemedMeansPaid
<1>18. PaidWereMade' BY <1>1, MadeStay
<1>19. QED
  BY <1>18, <1>10, <1>11, <1>12, <1>13, <1>14, <1>15, <1>16, <1>17 DEF IInv

LEMMA RedeemInv ==
  ASSUME TypeOK, IInv, NEW r \in Requests, NEW o \in Requests, PayRedeem(r, o)
  PROVE  IInv'
<1>1. /\ \A q \in Requests \ {r} : pc'[q] = pc[q] /\ job'[q] = job[q]
      /\ pc[r] = "idle" /\ pc'[r] = "paid" /\ job'[r].order = o
      /\ order[o] # None /\ ~order[o].free
      /\ charged' = charged \cup {o}
      /\ UNCHANGED <<coupon, cart, order, used>>
  BY RedeemTypes
<1>2. \/ /\ order[o].code = None \/ LogsOfCode(order[o].code) = {}
         /\ couponlog' = couponlog
      \/ /\ order[o].code # None
         /\ \E l \in LogsOfCode(order[o].code) :
              couponlog' = [couponlog EXCEPT ![l].redeemed = TRUE]
  BY RedeemTypes
<1>3. \A l \in Requests :
        couponlog[l] # None =>
          /\ couponlog'[l] # None
          /\ couponlog'[l].branch = couponlog[l].branch
          /\ couponlog'[l].code = couponlog[l].code
          /\ couponlog[l].redeemed => couponlog'[l].redeemed
  BY LogsKept
<1>4. \A l \in Requests :
        \/ couponlog'[l] = couponlog[l]
        \/ /\ couponlog[l] # None
           /\ couponlog'[l].count = couponlog[l].count
           /\ couponlog[l].code = order[o].code /\ order[o].code # None
  <2>1. CASE couponlog' = couponlog BY <2>1
  <2>2. CASE \E l \in LogsOfCode(order[o].code) :
               couponlog' = [couponlog EXCEPT ![l].redeemed = TRUE]
    <3>1. PICK k \in LogsOfCode(order[o].code) :
            couponlog' = [couponlog EXCEPT ![k].redeemed = TRUE]
      BY <2>2
    <3>2. k \in Requests /\ couponlog[k] \in CouponLog /\ couponlog[k] # None
          /\ couponlog[k].code = order[o].code /\ order[o].code # None
      BY NoneAssumption DEF LogsOfCode, TypeOK, CouponLog
    <3>3. couponlog'[k] = [couponlog[k] EXCEPT !.redeemed = TRUE]
      BY <3>1, <3>2 DEF TypeOK
    <3>4. couponlog'[k].count = couponlog[k].count
      BY <3>2, <3>3 DEF CouponLog
    <3>5. \A l \in Requests \ {k} : couponlog'[l] = couponlog[l]
      BY <3>1 DEF TypeOK
    <3>6. QED BY <3>2, <3>4, <3>5
  <2>3. QED BY <1>2, <2>1, <2>2
<1>5. \A l \in Requests : couponlog'[l] # None => couponlog[l] # None
  BY <1>4
<1>6. \A c : Uses(c)' = Uses(c) BY <1>1 DEF Uses
<1>7. order[o].code # None =>
        \E l \in LogsIn(couponlog', order[o].code) : couponlog'[l].redeemed
  <2> SUFFICES ASSUME order[o].code # None
               PROVE  \E l \in LogsIn(couponlog', order[o].code) :
                        couponlog'[l].redeemed
    OBVIOUS
  <2>1. LogsOfCode(order[o].code) # {} BY <1>1 DEF IInv, OrdersAreLogged
  <2>2. PICK k \in LogsOfCode(order[o].code) :
          couponlog' = [couponlog EXCEPT ![k].redeemed = TRUE]
    BY <1>2, <2>1
  <2>3. k \in Requests /\ couponlog[k] \in CouponLog /\ couponlog[k] # None
        /\ couponlog[k].code = order[o].code
    BY DEF LogsOfCode, TypeOK
  <2>4. couponlog'[k] = [couponlog[k] EXCEPT !.redeemed = TRUE]
    BY <2>2, <2>3 DEF TypeOK
  <2>5. couponlog'[k].redeemed BY <2>3, <2>4 DEF CouponLog
  <2>6. couponlog'[k] # None /\ couponlog'[k].code = order[o].code
    BY <1>3, <2>3
  <2>7. QED BY <2>3, <2>5, <2>6 DEF LogsIn
<1>8. CodesKnown' BY <1>1 DEF IInv, CodesKnown
<1>9. MadeInOrder' BY <1>1, <1>5 DEF IInv, MadeInOrder
<1>10. FoundLogs'
  <2> SUFFICES ASSUME NEW q \in Requests, pc'[q] = "count", job'[q].log # None
               PROVE  LET l == couponlog'[job'[q].log]
                      IN /\ l # None
                         /\ l.branch = job'[q].cart.branch
                         /\ l.code = job'[q].cart.code
    BY DEF FoundLogs
  <2>1. q # r /\ pc[q] = "count" /\ job'[q] = job[q] BY <1>1
  <2>2. job[q].log \in Requests BY <2>1, Held DEF OrderJob
  <2>3. QED BY <2>1, <2>2, <1>3 DEF IInv, FoundLogs
<1>11. \A c : LogsOfCode(c) # {} => LogsOfCode(c)' # {}
  BY <1>3 DEF LogsOfCode
<1>12. \A c : (\E l \in LogsOfCode(c) : couponlog[l].redeemed)
               => \E l \in LogsOfCode(c)' : couponlog'[l].redeemed
  BY <1>3 DEF LogsOfCode
<1>13. OrdersAreLogged' BY <1>1, <1>11 DEF IInv, OrdersAreLogged
<1>14. PaymentsAreMarked'
  <2> SUFFICES ASSUME NEW q \in Requests, pc'[q] = "paid",
                      order[job'[q].order] # None,
                      order[job'[q].order].code # None
               PROVE  \E l \in LogsIn(couponlog', order[job'[q].order].code) :
                        couponlog'[l].redeemed
    BY <1>1 DEF PaymentsAreMarked, LogsOfCode, LogsIn
  <2>1. CASE q = r BY <2>1, <1>1, <1>7
  <2>2. CASE q # r
    <3>1. pc[q] = "paid" /\ job'[q] = job[q] BY <2>2, <1>1
    <3>2. \E l \in LogsOfCode(order[job[q].order].code) : couponlog[l].redeemed
      BY <3>1 DEF IInv, PaymentsAreMarked
    <3>3. QED BY <3>1, <3>2, <1>3 DEF LogsOfCode, LogsIn
  <2>3. QED BY <2>1, <2>2
<1>15. LogsAreUses'
  <2>1. \A l \in Requests :
          couponlog'[l] # None =>
            /\ couponlog[l] # None
            /\ couponlog'[l].branch = couponlog[l].branch
            /\ couponlog'[l].code = couponlog[l].code
    BY <1>3, <1>5
  <2>2. \A q \in Requests :
          (pc'[q] = "insert" /\ job'[q].cart.code # None)
            => pc[q] = "insert" /\ job'[q] = job[q]
    BY <1>1
  <2>3. QED BY <1>1, <2>1, <2>2 DEF IInv, LogsAreUses
<1>16. PaidWereMade' BY <1>1, MadeStay
<1>17. PaidIsRedeemed' BY <1>1, <1>12 DEF IInv, PaidIsRedeemed
<1>18. RedeemedMeansPaid'
  <2> SUFFICES ASSUME NEW l \in Requests, couponlog'[l] # None,
                      couponlog'[l].redeemed
               PROVE  charged' \cap Uses(couponlog'[l].code) # {}
    BY <1>6 DEF RedeemedMeansPaid
  <2>1. couponlog[l] # None /\ couponlog'[l].code = couponlog[l].code
    BY <1>3, <1>5
  <2>2. CASE couponlog'[l] = couponlog[l]
    BY <2>2, <1>1 DEF IInv, RedeemedMeansPaid
  <2>3. CASE couponlog[l].code = order[o].code /\ order[o].code # None
    <3>1. used[o] # None /\ used[o].code = order[o].code
      BY <2>3, <1>1 DEF IInv, LogsAreUses
    <3>2. o \in charged' \cap Uses(couponlog'[l].code)
      BY <2>1, <2>3, <3>1, <1>1 DEF Uses
    <3>3. QED BY <3>2
  <2>4. QED BY <1>4, <2>2, <2>3
<1>19. QED
  BY <1>8, <1>9, <1>10, <1>13, <1>14, <1>15, <1>16, <1>17, <1>18 DEF IInv

\* An order may be marked as paid, or go: what is said of the orders that
\* are there holds of fewer.
LEMMA FewerOrders ==
  ASSUME TypeOK, IInv, NEW r \in Requests,
         \A q \in Requests \ {r} : pc'[q] = pc[q] /\ job'[q] = job[q],
         pc[r] \in {"idle", "paid"}, pc'[r] \in {"clear", "done"},
         \A q \in Requests :
           order'[q] # None =>
             /\ order[q] # None
             /\ order'[q].branch = order[q].branch
             /\ order'[q].code = order[q].code
             /\ order'[q].free = order[q].free
             /\ \/ order'[q].paid = order[q].paid
                \/ pc[r] = "paid" /\ q = job[r].order,
         UNCHANGED <<couponlog, used, charged>>
  PROVE  IInv'
<1>1. \A c : Uses(c)' = Uses(c) BY DEF Uses
<1>2. \A c : LogsOfCode(c)' = LogsOfCode(c) BY DEF LogsOfCode
<1>3. CodesKnown' BY DEF IInv, CodesKnown
<1>4. MadeInOrder' BY DEF IInv, MadeInOrder
<1>5. PaidWereMade' BY MadeStay
<1>6. LogsAreUses'
  <2>1. \A q \in Requests :
          (pc'[q] = "insert" /\ job'[q].cart.code # None)
            => pc[q] = "insert" /\ job'[q] = job[q]
    OBVIOUS
  <2>2. QED BY <2>1 DEF IInv, LogsAreUses
<1>7. FoundLogs' BY DEF IInv, FoundLogs
<1>8. OrdersAreLogged' BY <1>2 DEF IInv, OrdersAreLogged
<1>9. PaymentsAreMarked'
  <2> SUFFICES ASSUME NEW q \in Requests, pc'[q] = "paid",
                      order'[job'[q].order] # None,
                      order'[job'[q].order].code # None
               PROVE  \E l \in LogsOfCode(order'[job'[q].order].code) :
                        couponlog[l].redeemed
    BY <1>2 DEF PaymentsAreMarked
  <2>1. q # r /\ pc[q] = "paid" /\ job'[q] = job[q] OBVIOUS
  <2>2. job[q].order \in Requests BY <2>1, Held DEF PayJob
  <2>3. QED BY <2>1, <2>2 DEF IInv, PaymentsAreMarked
<1>10. PaidIsRedeemed'
  <2> SUFFICES ASSUME NEW p \in Requests, order'[p] # None, order'[p].paid,
                      ~order'[p].free, order'[p].code # None
               PROVE  \E l \in LogsOfCode(order'[p].code) :
                        couponlog[l].redeemed
    BY <1>2 DEF PaidIsRedeemed
  <2>1. /\ order[p] # None /\ order'[p].code = order[p].code
        /\ order'[p].free = order[p].free
    OBVIOUS
  <2>2. CASE order'[p].paid = order[p].paid
    BY <2>1, <2>2 DEF IInv, PaidIsRedeemed
  <2>3. CASE pc[r] = "paid" /\ p = job[r].order
    BY <2>1, <2>3 DEF IInv, PaymentsAreMarked
  <2>4. QED BY <2>2, <2>3
<1>11. RedeemedMeansPaid' BY <1>1 DEF IInv, RedeemedMeansPaid
<1>12. QED
  BY <1>3, <1>4, <1>5, <1>6, <1>7, <1>8, <1>9, <1>10, <1>11 DEF IInv

LEMMA PaySaveInv ==
  ASSUME TypeOK, IInv, NEW r \in Requests, PaySave(r)
  PROVE  IInv'
<1> DEFINE o == job[r].order
<1>1. /\ \A q \in Requests \ {r} : pc'[q] = pc[q] /\ job'[q] = job[q]
      /\ pc[r] = "paid" /\ pc'[r] = "clear" /\ o \in Requests
      /\ \/ order[o] = None /\ order' = order
         \/ /\ order[o] \in Order
            /\ order' = [order EXCEPT ![o] = [order[o] EXCEPT !.paid = TRUE]]
      /\ UNCHANGED <<coupon, couponlog, cart, used, charged>>
  BY PaySaveTypes
<1>2. ASSUME NEW q \in Requests, order'[q] # None
      PROVE  /\ order[q] # None
             /\ order'[q].branch = order[q].branch
             /\ order'[q].code = order[q].code
             /\ order'[q].free = order[q].free
             /\ order'[q].paid = order[q].paid \/ q = job[r].order
  <2>1. CASE order' = order BY <1>2, <2>1
  <2>2. CASE /\ order[o] \in Order
             /\ order' = [order EXCEPT ![o] = [order[o] EXCEPT !.paid = TRUE]]
    <3>1. CASE q # o BY <1>2, <2>2, <3>1 DEF TypeOK
    <3>2. CASE q = o
      <4>1. order'[q] = [order[o] EXCEPT !.paid = TRUE]
        BY <2>2, <3>2, <1>1 DEF TypeOK
      <4>2. order[o] # None BY <2>2, NoneAssumption
      <4>3. QED BY <2>2, <3>2, <4>1, <4>2 DEF Order
    <3>3. QED BY <3>1, <3>2
  <2>3. QED BY <1>1, <2>1, <2>2
<1>3. QED BY <1>1, <1>2, FewerOrders

LEMMA DeleteInv ==
  ASSUME TypeOK, IInv, NEW r \in Requests, NEW o \in Requests, DeleteOrder(r, o)
  PROVE  IInv'
<1>1. /\ \A q \in Requests \ {r} : pc'[q] = pc[q] /\ job'[q] = job[q]
      /\ pc[r] = "idle" /\ pc'[r] = "done"
      /\ order' = [order EXCEPT ![o] = None]
      /\ UNCHANGED <<coupon, couponlog, cart, used, charged>>
  BY DeleteTypes
<1>2. \A q \in Requests : order'[q] # None => order'[q] = order[q]
  BY <1>1 DEF TypeOK
<1>3. QED BY <1>1, <1>2, FewerOrders

-----------------------------------------------------------------------------
(* The invariant holds first and after every step *)

LEMMA InitInv == Init => TypeOK /\ IInv
<1> SUFFICES ASSUME Init PROVE TypeOK /\ IInv OBVIOUS
<1>1. TypeOK BY JobPlaces DEF Init, TypeOK, Jobs, Places
<1>2. CodesKnown /\ MadeInOrder /\ FoundLogs /\ PaidWereMade /\ LogsAreUses
  BY DEF Init, CodesKnown, MadeInOrder, FoundLogs, PaidWereMade, LogsAreUses
<1>3. OrdersAreLogged /\ PaymentsAreMarked
  BY DEF Init, OrdersAreLogged, PaymentsAreMarked
<1>4. PaidIsRedeemed /\ RedeemedMeansPaid
  BY DEF Init, PaidIsRedeemed, RedeemedMeansPaid
<1>5. QED BY <1>1, <1>2, <1>3, <1>4 DEF IInv

LEMMA StepInv == TypeOK /\ IInv /\ [Next]_vars => TypeOK' /\ IInv'
<1> SUFFICES ASSUME TypeOK, IInv, [Next]_vars PROVE TypeOK' /\ IInv' OBVIOUS
<1>1. CASE UNCHANGED vars
  <2>1. TypeOK' BY <1>1 DEF vars, TypeOK
  <2>2. \A c : Uses(c)' = Uses(c) BY <1>1 DEF vars, Uses
  <2>3. \A c : LogsOfCode(c)' = LogsOfCode(c) BY <1>1 DEF vars, LogsOfCode
  <2>4. CodesKnown' /\ MadeInOrder' /\ FoundLogs'
    BY <1>1 DEF vars, IInv, CodesKnown, MadeInOrder, FoundLogs
  <2>5. PaidWereMade' /\ LogsAreUses'
    BY <1>1 DEF vars, IInv, PaidWereMade, LogsAreUses
  <2>6. OrdersAreLogged' /\ PaymentsAreMarked'
    BY <1>1, <2>3 DEF vars, IInv, OrdersAreLogged, PaymentsAreMarked
  <2>7. PaidIsRedeemed' /\ RedeemedMeansPaid'
    BY <1>1, <2>2, <2>3 DEF vars, IInv, PaidIsRedeemed, RedeemedMeansPaid
  <2>8. QED BY <2>1, <2>4, <2>5, <2>6, <2>7 DEF IInv
<1>2. CASE Next
  <2>1. PICK r \in Requests : (MayBegin(r) /\ Begin(r)) \/ Continue(r)
    BY <1>2 DEF Next
  <2>2. CASE \/ \E content \in Coupon : CreateFind(r, content)
             \/ \E u \in UpdateJob : UpdateFind(r, u)
             \/ \E d \in Requests : DeleteCoupon(r, d)
             \/ CreateWrite(r) \/ UpdateWrite(r)
    <3>1. /\ TypeOK'
          /\ \A q \in Requests \ {r} : pc'[q] = pc[q] /\ job'[q] = job[q]
          /\ pc[r] \in {"idle", "create", "update"}
          /\ pc'[r] \in {"create", "update", "done"}
          /\ UNCHANGED <<couponlog, cart, order, used, charged>>
      BY <2>2, AdminTypes
    <3>2. QED BY <3>1, QuietInv
  <2>3. CASE \/ \E b \in Branches, c \in Codes \cup {None}, enough \in BOOLEAN :
                  CartRead(r, b, c, enough)
             \/ CartCoupon(r) \/ CouponFails(r)
             \/ \E free \in BOOLEAN : CartSave(r, free)
    <3>1. /\ TypeOK'
          /\ \A q \in Requests \ {r} : pc'[q] = pc[q] /\ job'[q] = job[q]
          /\ pc[r] \in {"idle", "coupon", "save"}
          /\ pc'[r] \in {"coupon", "save", "done"}
          /\ UNCHANGED <<couponlog, order, used, charged>>
      BY <2>3, CartTypes
    <3>2. QED BY <3>1, QuietInv
  <2>4. CASE OrderRead(r) \/ OrderPayment(r)
    <3>1. /\ TypeOK'
          /\ \A q \in Requests \ {r} : pc'[q] = pc[q] /\ job'[q] = job[q]
          /\ pc[r] \in {"idle", "payment"}
          /\ pc'[r] \in {"payment", "log", "insert"}
          /\ pc'[r] = "log" => job'[r].cart.code # None
          /\ pc'[r] = "insert" => job'[r].cart.code = None
          /\ pc'[r] = "payment" => job'[r].log = None
          /\ pc'[r] = "log" => pc[r] = "payment" /\ job'[r].log = job[r].log
          /\ UNCHANGED <<couponlog, order, used, charged>>
      BY <2>4, OrderReadTypes
    <3>2. pc'[r] = "log" => job'[r].log = None
      BY <3>1 DEF IInv, CodesKnown
    <3>3. QED BY <3>1, <3>2, QuietInv
  <2>5. CASE LogFind(r) BY <2>5, LogFindTypes, LogFindInv
  <2>6. CASE LogWrite(r) BY <2>6, LogWriteTypes, LogWriteInv
  <2>7. CASE OrderInsert(r) BY <2>7, InsertTypes, InsertInv
  <2>8. CASE \E o \in Requests : PayRedeem(r, o)
    BY <2>8, RedeemTypes, RedeemInv
  <2>9. CASE PaySave(r) BY <2>9, PaySaveTypes, PaySaveInv
  <2>10. CASE PayClear(r) \/ Abort(r)
    <3>1. /\ TypeOK'
          /\ \A q \in Requests \ {r} : pc'[q] = pc[q] /\ job'[q] = job[q]
          /\ pc[r] # "idle" /\ pc'[r] = "done"
          /\ UNCHANGED <<couponlog, order, used, charged>>
      BY <2>10, EndTypes
    <3>2. pc[r] # "done"
      BY <2>10 DEF PayClear, Abort, End, Step, Running
    <3>3. QED BY <3>1, <3>2, QuietInv
  <2>11. CASE \E o \in Requests : DeleteOrder(r, o)
    BY <2>11, DeleteTypes, DeleteInv
  <2>12. QED
    BY <2>1, <2>2, <2>3, <2>4, <2>5, <2>6, <2>7, <2>8, <2>9, <2>10, <2>11
    DEF Begin, Continue
<1>3. QED BY <1>1, <1>2

-----------------------------------------------------------------------------
(* The results *)

\* Coupons, logs, carts and orders keep their form, and every handler holds
\* what belongs to the place where it stands, whatever requests overlap.
THEOREM TypeCorrect == Spec => []TypeOK
<1>1. Spec => [](TypeOK /\ IInv) BY InitInv, StepInv, PTL DEF Spec
<1>2. QED BY <1>1, PTL

\* The strengthening of the property below.
THEOREM InductiveInvariant == Spec => []IInv
<1>1. Spec => [](TypeOK /\ IInv) BY InitInv, StepInv, PTL DEF Spec
<1>2. QED BY <1>1, PTL

\* Where a customer uses a code at one branch only, a paid order's own log is
\* marked, and a log is marked only for an order of its branch and code whose
\* payment was reported, whatever overlaps, fails or is deleted.
THEOREM PaymentsRedeem == Spec => []RedeemedIffPaid
<1>1. ASSUME TypeOK, IInv PROVE RedeemedIffPaid
  <2> SUFFICES ASSUME NEW c \in Codes, UsedAtOneBranch(c)
               PROVE  /\ \A o \in Requests :
                           (order[o] # None /\ order[o].code = c
                              /\ order[o].paid /\ ~order[o].free)
                             => \E l \in LogsOf(order[o].branch, c) :
                                  couponlog[l].redeemed
                      /\ \A l \in LogsOfCode(c) :
                           couponlog[l].redeemed =>
                             \E o \in charged \cap Uses(c) :
                               used[o].branch = couponlog[l].branch
    BY DEF RedeemedIffPaid
  <2>1. c # None BY NoneAssumption
  <2>2. ASSUME NEW l \in LogsOfCode(c)
        PROVE  /\ l \in Uses(c) /\ couponlog[l] # None
               /\ used[l].branch = couponlog[l].branch
               /\ couponlog[l].code = c /\ l \in Requests
    BY <1>1, <2>2 DEF LogsOfCode, Uses, IInv, LogsAreUses
  <2>3. ASSUME NEW o \in Requests, order[o] # None, order[o].code = c,
               order[o].paid, ~order[o].free
        PROVE  \E l \in LogsOf(order[o].branch, c) : couponlog[l].redeemed
    <3>1. PICK l \in LogsOfCode(c) : couponlog[l].redeemed
      BY <1>1, <2>1, <2>3 DEF IInv, PaidIsRedeemed
    <3>2. o \in Uses(c) /\ used[o].branch = order[o].branch
      BY <1>1, <2>1, <2>3 DEF Uses, IInv, LogsAreUses
    <3>3. used[l].branch = used[o].branch BY <2>2, <3>2 DEF UsedAtOneBranch
    <3>4. l \in LogsOf(order[o].branch, c) BY <2>2, <3>2, <3>3 DEF LogsOf
    <3>5. QED BY <3>1, <3>4
  <2>4. ASSUME NEW l \in LogsOfCode(c), couponlog[l].redeemed
        PROVE  \E o \in charged \cap Uses(c) :
                 used[o].branch = couponlog[l].branch
    <3>1. PICK o \in charged \cap Uses(c) : TRUE
      BY <1>1, <2>2, <2>4 DEF IInv, RedeemedMeansPaid
    <3>2. used[o].branch = used[l].branch BY <2>2, <3>1 DEF UsedAtOneBranch
    <3>3. QED BY <2>2, <3>1, <3>2
  <2>5. QED BY <2>3, <2>4
<1>2. QED BY <1>1, TypeCorrect, InductiveInvariant, PTL

-----------------------------------------------------------------------------
(* One request at a time *)

\* A step that leaves of every log and every order what is counted of it, and
\* every handler but one.
LEMMA CountsFrame ==
  ASSUME CountsCalm, NEW r \in Requests,
         \A q \in Requests \ {r} : pc'[q] = pc[q] /\ job'[q] = job[q],
         \A l \in Requests :
           /\ couponlog'[l] = None <=> couponlog[l] = None
           /\ couponlog[l] # None =>
                /\ couponlog'[l].branch = couponlog[l].branch
                /\ couponlog'[l].code = couponlog[l].code
                /\ couponlog'[l].count = couponlog[l].count,
         \A o \in Requests :
           /\ order'[o] = None <=> order[o] = None
           /\ order[o] # None =>
                /\ order'[o].branch = order[o].branch
                /\ order'[o].code = order[o].code,
         ReadOK(r)', FoundOK(r)', WrittenOK(r)'
  PROVE  CountsCalm'
<1>1. \A b, c : LogsOf(b, c)' = LogsOf(b, c) BY DEF LogsOf
<1>2. \A b, c : Orders(b, c)' = Orders(b, c) BY DEF Orders
<1>3. \A b, c : \A l \in LogsOf(b, c) :
        l \in Requests /\ couponlog'[l].count = couponlog[l].count
  BY DEF LogsOf
<1>4. OneLog' BY <1>1 DEF CountsCalm, OneLog
<1>5. EveryOrderCounted' BY <1>1, <1>2, <1>3 DEF CountsCalm, EveryOrderCounted
<1>6. ASSUME NEW q \in Requests, q # r
      PROVE  ReadOK(q)' /\ FoundOK(q)' /\ WrittenOK(q)'
  <2>1. pc'[q] = pc[q] /\ job'[q] = job[q] BY <1>6
  <2>2. ReadOK(q) /\ FoundOK(q) /\ WrittenOK(q) BY DEF CountsCalm
  <2>3. ReadOK(q)' BY <1>2, <2>1, <2>2 DEF ReadOK
  <2>4. FoundOK(q)' BY <1>1, <1>3, <2>1, <2>2 DEF FoundOK
  <2>5. WrittenOK(q)' BY <1>1, <1>2, <1>3, <2>1, <2>2 DEF WrittenOK
  <2>6. QED BY <2>3, <2>4, <2>5
<1>7. QED BY <1>4, <1>5, <1>6 DEF CountsCalm

\* How many orders were made with a coupon, before or after a step.
OrdersIn(f, b, c) ==
  {o \in Requests : f[o] # None /\ f[o].branch = b /\ f[o].code = c}

LEMMA OrdersNow == \A b, c : Orders(b, c) = OrdersIn(order, b, c)
BY DEF Orders, OrdersIn

LEMMA OrdersFinite ==
  ASSUME NEW b, NEW c
  PROVE  IsFiniteSet(Orders(b, c)) /\ Cardinality(Orders(b, c)) \in Nat
<1>1. IsFiniteSet(Requests) BY InstanceAssumption, FS_Interval DEF Requests
<1>2. Orders(b, c) \subseteq Requests BY DEF Orders
<1>3. QED BY <1>1, <1>2, FS_Subset, FS_CardinalityType

\* Steps that touch neither logs nor orders and end up nowhere near them.
LEMMA QuietCounts ==
  ASSUME CountsCalm, NEW r \in Requests,
         \A q \in Requests \ {r} : pc'[q] = pc[q] /\ job'[q] = job[q],
         pc'[r] \notin {"coupon", "save", "count"},
         pc'[r] = "insert" => job'[r].cart.code = None,
         UNCHANGED <<couponlog, order>>
  PROVE  CountsCalm'
<1>1. ReadOK(r)' /\ FoundOK(r)' /\ WrittenOK(r)'
  BY DEF ReadOK, FoundOK, WrittenOK
<1>2. QED BY <1>1, CountsFrame

LEMMA ReadCounts ==
  ASSUME TypeOK, CountsCalm, NEW r \in Requests,
         NEW b \in Branches, NEW c \in Codes \cup {None}, NEW enough \in BOOLEAN,
         CartRead(r, b, c, enough)
  PROVE  CountsCalm'
<1>1. PICK uses \in IF LogsOf(b, c) = {} THEN {0}
                    ELSE {couponlog[l].count : l \in LogsOf(b, c)} :
        Start(r, "cart", IF c = None THEN "save" ELSE "coupon",
              [branch |-> b, code |-> c, enough |-> enough,
               uses |-> uses, coupon |-> None])
  BY DEF CartRead
<1> DEFINE j == [branch |-> b, code |-> c, enough |-> enough,
                 uses |-> uses, coupon |-> None]
<1>2. j.branch = b /\ j.code = c /\ j.uses = uses /\ j.coupon = None OBVIOUS
<1>3. /\ pc'[r] = (IF c = None THEN "save" ELSE "coupon") /\ job'[r] = j
      /\ \A q \in Requests \ {r} : pc'[q] = pc[q] /\ job'[q] = job[q]
      /\ couponlog' = couponlog /\ order' = order
  BY <1>1 DEF Start, TypeOK, CartRead
<1> HIDE DEF j
<1>4. c # None => Cardinality(Orders(b, c)) <= uses
  <2> SUFFICES ASSUME c # None PROVE Cardinality(Orders(b, c)) <= uses OBVIOUS
  <2>1. c \in Codes OBVIOUS
  <2>2. CASE Orders(b, c) = {}
    <3>1. Cardinality(Orders(b, c)) = 0 BY <2>2, FS_EmptySet
    <3>2. uses \in Nat BY <1>1 DEF LogsOf, TypeOK, CouponLog
    <3>3. QED BY <3>1, <3>2
  <2>3. CASE Orders(b, c) # {}
    <3>1. PICK l \in LogsOf(b, c) :
            couponlog[l].count >= Cardinality(Orders(b, c))
      BY <2>1, <2>3 DEF CountsCalm, EveryOrderCounted
    <3>2. PICK m \in LogsOf(b, c) : uses = couponlog[m].count BY <1>1, <3>1
    <3>3. l = m BY <2>1, <3>1, <3>2 DEF CountsCalm, OneLog
    <3>4. couponlog[l].count \in Nat BY <3>1 DEF LogsOf, TypeOK, CouponLog
    <3>5. QED BY <3>1, <3>2, <3>3, <3>4, OrdersFinite
  <2>4. QED BY <2>2, <2>3
<1>5. \A x, y : Orders(x, y)' = Orders(x, y) BY <1>3 DEF Orders
<1>6. ReadOK(r)' BY <1>2, <1>3, <1>4, <1>5 DEF ReadOK
<1>7. FoundOK(r)' /\ WrittenOK(r)' BY <1>3 DEF FoundOK, WrittenOK
<1>8. QED BY <1>3, <1>6, <1>7, CountsFrame

LEMMA CouponCounts ==
  ASSUME TypeOK, CountsCalm, NEW r \in Requests,
         CartCoupon(r) \/ CouponFails(r)
  PROVE  CountsCalm'
<1>1. /\ pc[r] = "coupon" /\ pc'[r] = "save"
      /\ \A q \in Requests \ {r} : pc'[q] = pc[q] /\ job'[q] = job[q]
      /\ couponlog' = couponlog /\ order' = order
  BY DEF CartCoupon, CouponFails, Step, TypeOK
<1>2. job[r] \in CartJob BY <1>1, Held
<1>3. \/ job'[r] = job[r]
      \/ \E found \in Coupon \cup {None} : job'[r] = [job[r] EXCEPT !.coupon = found]
  <2>1. CASE CouponFails(r) BY <2>1 DEF CouponFails, Step, TypeOK
  <2>2. CASE CartCoupon(r)
    <3> DEFINE docs == CouponsOf(job[r].branch, job[r].code)
    <3>1. PICK found \in IF docs = {} THEN {None} ELSE {coupon[d] : d \in docs} :
            Step(r, "coupon", "save", [job[r] EXCEPT !.coupon = found])
      BY <2>2 DEF CartCoupon
    <3>2. found \in Coupon \cup {None} BY <3>1 DEF CouponsOf, TypeOK
    <3>3. job'[r] = [job[r] EXCEPT !.coupon = found] BY <3>1 DEF Step, TypeOK
    <3>4. QED BY <3>2, <3>3
  <2>3. QED BY <2>1, <2>2
<1>4. /\ job'[r].branch = job[r].branch /\ job'[r].code = job[r].code
      /\ job'[r].uses = job[r].uses
  BY <1>2, <1>3 DEF CartJob
<1>5. \A x, y : Orders(x, y)' = Orders(x, y) BY <1>1 DEF Orders
<1>6. ReadOK(r)' BY <1>1, <1>4, <1>5 DEF CountsCalm, ReadOK
<1>7. FoundOK(r)' /\ WrittenOK(r)' BY <1>1 DEF FoundOK, WrittenOK
<1>8. QED BY <1>1, <1>6, <1>7, CountsFrame

LEMMA FindCounts ==
  ASSUME TypeOK, IInv, CountsCalm, NEW r \in Requests, LogFind(r)
  PROVE  CountsCalm'
<1> DEFINE j == job[r]
           logs == LogsOf(j.cart.branch, j.cart.code)
<1>1. /\ pc[r] = "log" /\ pc'[r] = "count" /\ j \in OrderJob
      /\ job'[r].cart = j.cart
      /\ \A q \in Requests \ {r} : pc'[q] = pc[q] /\ job'[q] = job[q]
      /\ couponlog' = couponlog /\ order' = order
  BY LogFindTypes
<1>2. j.log = None BY <1>1 DEF IInv, CodesKnown
<1>3. \/ logs = {} /\ job'[r] = j
      \/ \E l \in logs : job'[r].log = l /\ job'[r].uses = couponlog[l].count
  <2>1. CASE logs = {} /\ Step(r, "log", "count", j)
    BY <2>1 DEF Step, TypeOK
  <2>2. CASE \E l \in logs :
               Step(r, "log", "count", [j EXCEPT !.log = l,
                                                 !.uses = couponlog[l].count])
    <3>1. PICK l \in logs :
            Step(r, "log", "count", [j EXCEPT !.log = l,
                                              !.uses = couponlog[l].count])
      BY <2>2
    <3>2. job'[r] = [j EXCEPT !.log = l, !.uses = couponlog[l].count]
      BY <3>1 DEF Step, TypeOK
    <3>3. job'[r].log = l /\ job'[r].uses = couponlog[l].count
      BY <1>1, <3>2 DEF OrderJob
    <3>4. QED BY <3>3
  <2>3. QED BY <2>1, <2>2 DEF LogFind
<1>4. \A b, c : LogsOf(b, c)' = LogsOf(b, c) BY <1>1 DEF LogsOf
<1>5. FoundOK(r)'
  <2>1. \A l \in logs : l # None BY NoneAssumption DEF LogsOf
  <2>2. QED BY <1>1, <1>2, <1>3, <1>4, <2>1 DEF FoundOK
<1>6. ReadOK(r)' /\ WrittenOK(r)' BY <1>1 DEF ReadOK, WrittenOK
<1>7. QED BY <1>1, <1>5, <1>6, CountsFrame

\* A second use raises the one log there is, a first one writes it; either
\* counts one more than the orders made by now.
LEMMA WriteCounts ==
  ASSUME TypeOK, IInv, Serial, CountsCalm, NEW r \in Requests, LogWrite(r)
  PROVE  CountsCalm'
<1> DEFINE j == job[r]
<1>1. /\ \A q \in Requests \ {r} : pc'[q] = pc[q] /\ job'[q] = job[q]
      /\ pc[r] = "count" /\ pc'[r] = "insert" /\ j \in OrderJob /\ job'[r] = j
      /\ order' = order
  BY LogWriteTypes
<1>2. /\ j.cart.branch \in Branches /\ j.cart.code \in Codes
      /\ j.uses \in Nat
  BY <1>1 DEF OrderJob, Cart, IInv, CodesKnown
<1>3. PICK b \in Branches, c \in Codes : b = j.cart.branch /\ c = j.cart.code
  BY <1>2
<1> DEFINE n == Cardinality(Orders(b, c))
<1>4. couponlog' = Logged(r, j) /\ couponlog[r] = None
  BY <1>1 DEF LogWrite, IInv, MadeInOrder
<1>5. n \in Nat BY OrdersFinite
<1>6. \A x, y : Orders(x, y)' = Orders(x, y) BY <1>1 DEF Orders
\* The document written: the only log of the coupon afterwards.
<1>7. \E d \in Requests :
        /\ \A l \in Requests \ {d} : couponlog'[l] = couponlog[l]
        /\ couponlog'[d] # None
        /\ couponlog'[d].branch = b /\ couponlog'[d].code = c
        /\ couponlog'[d].count > n
        /\ \A l \in LogsOf(b, c) : l = d
        /\ couponlog[d] # None => d \in LogsOf(b, c)
  <2>1. CASE j.log = None
    <3>1. LogsOf(b, c) = {} BY <1>1, <1>3, <2>1 DEF CountsCalm, FoundOK
    <3>2. Orders(b, c) = {} BY <1>2, <3>1 DEF CountsCalm, EveryOrderCounted
    <3>3. n = 0 BY <3>2, FS_EmptySet
    <3>4. FirstLog(j) \in CouponLog BY <1>1, <1>2 DEF FirstLog, CouponLog
    <3>5. /\ FirstLog(j) # None /\ FirstLog(j).branch = b
          /\ FirstLog(j).code = c /\ FirstLog(j).count = 1
      BY <1>3, <3>4, NoneAssumption DEF FirstLog
    <3>6. /\ couponlog'[r] = FirstLog(j)
          /\ \A l \in Requests \ {r} : couponlog'[l] = couponlog[l]
      BY <1>4, <2>1 DEF Logged, TypeOK
    <3>7. QED BY <1>4, <3>1, <3>3, <3>5, <3>6
  <2>2. CASE j.log # None
    <3> DEFINE d == j.log
    <3>1. d \in LogsOf(b, c) /\ couponlog[d].count = j.uses
      BY <1>1, <1>3, <2>2 DEF CountsCalm, FoundOK
    <3>2. /\ d \in Requests /\ couponlog[d] # None /\ couponlog[d] \in CouponLog
          /\ couponlog[d].branch = b /\ couponlog[d].code = c
      BY <3>1 DEF LogsOf, TypeOK
    <3>3. couponlog' = [couponlog EXCEPT ![d] =
                          [couponlog[d] EXCEPT !.count = j.uses + 1]]
      BY <1>4, <2>2, <3>2 DEF Logged, TypeOK
    <3>4. /\ couponlog'[d] = [couponlog[d] EXCEPT !.count = j.uses + 1]
          /\ \A l \in Requests \ {d} : couponlog'[l] = couponlog[l]
      BY <3>2, <3>3 DEF TypeOK
    <3>5. /\ couponlog'[d] \in CouponLog /\ couponlog'[d].count = j.uses + 1
          /\ couponlog'[d].branch = b /\ couponlog'[d].code = c
      BY <1>2, <3>2, <3>4 DEF CouponLog
    <3>6. \A l \in LogsOf(b, c) : l = d
      BY <1>2, <3>1 DEF CountsCalm, OneLog
    <3>7. j.uses >= n
      <4>1. CASE Orders(b, c) = {}
        <5>1. n = 0 BY <4>1, FS_EmptySet
        <5>2. QED BY <1>2, <5>1
      <4>2. CASE Orders(b, c) # {}
        BY <1>2, <3>1, <3>6, <4>2 DEF CountsCalm, EveryOrderCounted
      <4>3. QED BY <4>1, <4>2
    <3>8. couponlog'[d].count > n BY <1>2, <1>5, <3>5, <3>7
    <3>9. couponlog'[d] # None BY <3>5, NoneAssumption
    <3>10. QED BY <3>1, <3>2, <3>4, <3>5, <3>6, <3>8, <3>9
  <2>3. QED BY <2>1, <2>2
<1>8. PICK d \in Requests :
        /\ \A l \in Requests \ {d} : couponlog'[l] = couponlog[l]
        /\ couponlog'[d] # None
        /\ couponlog'[d].branch = b /\ couponlog'[d].code = c
        /\ couponlog'[d].count > n
        /\ \A l \in LogsOf(b, c) : l = d
        /\ couponlog[d] # None => d \in LogsOf(b, c)
  BY <1>7
<1>9. LogsOf(b, c)' = {d} BY <1>8 DEF LogsOf
<1>10. ASSUME NEW x \in Branches, NEW y \in Codes, ~(x = b /\ y = c)
      PROVE  /\ LogsOf(x, y)' = LogsOf(x, y)
             /\ \A l \in LogsOf(x, y) : couponlog'[l] = couponlog[l]
  <2>1. d \notin LogsOf(x, y) BY <1>8, <1>10 DEF LogsOf
  <2>2. d \notin LogsOf(x, y)' BY <1>8, <1>10 DEF LogsOf
  <2>3. QED BY <1>8, <2>1, <2>2 DEF LogsOf
<1>11. OneLog'
  <2> SUFFICES ASSUME NEW x \in Branches, NEW y \in Codes,
                      NEW l \in LogsOf(x, y)', NEW m \in LogsOf(x, y)'
               PROVE  l = m
    BY DEF OneLog
  <2>1. CASE x = b /\ y = c BY <1>9, <2>1
  <2>2. CASE ~(x = b /\ y = c) BY <1>10, <2>2 DEF CountsCalm, OneLog
  <2>3. QED BY <2>1, <2>2
<1>12. EveryOrderCounted'
  <2> SUFFICES ASSUME NEW x \in Branches, NEW y \in Codes, Orders(x, y) # {}
               PROVE  \E l \in LogsOf(x, y)' :
                        couponlog'[l].count >= Cardinality(Orders(x, y))
    BY <1>6 DEF EveryOrderCounted
  <2>1. CASE x = b /\ y = c
    <3>1. couponlog'[d].count \in Nat
      <4>1. TypeOK' BY LogWriteTypes
      <4>2. QED BY <1>8, <4>1 DEF TypeOK, CouponLog
    <3>2. couponlog'[d].count >= n BY <1>5, <1>8, <3>1
    <3>3. QED BY <1>9, <2>1, <3>2
  <2>2. CASE ~(x = b /\ y = c)
    BY <1>10, <2>2 DEF CountsCalm, EveryOrderCounted
  <2>3. QED BY <2>1, <2>2
<1>13. WrittenOK(r)'
  <2>1. d \in LogsOf(b, c)' /\ couponlog'[d].count > Cardinality(Orders(b, c)')
    BY <1>6, <1>8, <1>9
  <2>2. QED BY <1>1, <1>3, <2>1 DEF WrittenOK
<1>14. ReadOK(r)' /\ FoundOK(r)' BY <1>1 DEF ReadOK, FoundOK
<1>15. ASSUME NEW q \in Requests, q # r
       PROVE  ReadOK(q)' /\ FoundOK(q)' /\ WrittenOK(q)'
  <2>1. pc'[q] \in {"idle", "done"} BY <1>1, <1>15 DEF Serial, Running
  <2>2. QED BY <2>1 DEF ReadOK, FoundOK, WrittenOK
<1>16. QED BY <1>11, <1>12, <1>13, <1>14, <1>15 DEF CountsCalm

LEMMA InsertCounts ==
  ASSUME TypeOK, IInv, Serial, CountsCalm, NEW r \in Requests, OrderInsert(r)
  PROVE  CountsCalm'
<1>1. PICK b, c : b = job[r].cart.branch /\ c = job[r].cart.code OBVIOUS
<1>2. /\ \A q \in Requests \ {r} : pc'[q] = pc[q] /\ job'[q] = job[q]
      /\ pc[r] = "insert" /\ pc'[r] = "done" /\ job[r] \in OrderJob
      /\ order' = [order EXCEPT ![r] = OrderOf(job[r].cart)]
      /\ OrderOf(job[r].cart) \in Order
      /\ couponlog' = couponlog
  BY InsertTypes
<1>3. order[r] = None BY <1>2 DEF IInv, MadeInOrder
<1>4. /\ order'[r] # None /\ order'[r].branch = b /\ order'[r].code = c
      /\ \A o \in Requests \ {r} : order'[o] = order[o]
  <2>1. /\ order'[r] = OrderOf(job[r].cart)
        /\ \A o \in Requests \ {r} : order'[o] = order[o]
    BY <1>2 DEF TypeOK
  <2>2. OrderOf(job[r].cart).branch = b /\ OrderOf(job[r].cart).code = c
    BY <1>1 DEF OrderOf
  <2>3. QED BY <1>2, <2>1, <2>2, NoneAssumption
<1>5. \A x, y : LogsOf(x, y)' = LogsOf(x, y) BY <1>2 DEF LogsOf
<1>6. OneLog' BY <1>5 DEF CountsCalm, OneLog
<1>7. EveryOrderCounted'
  <2> SUFFICES ASSUME NEW x \in Branches, NEW y \in Codes, Orders(x, y)' # {}
               PROVE  \E l \in LogsOf(x, y) :
                        couponlog[l].count >= Cardinality(Orders(x, y)')
    BY <1>2, <1>5 DEF EveryOrderCounted
  <2>1. CASE x = b /\ y = c
    <3>1. c # None BY <2>1, NoneAssumption
    <3>2. PICK l \in LogsOf(b, c) :
            couponlog[l].count > Cardinality(Orders(b, c))
      BY <1>1, <1>2, <3>1 DEF CountsCalm, WrittenOK
    <3>3. Orders(b, c)' = Orders(b, c) \cup {r}
      BY <1>3, <1>4 DEF Orders
    <3>4. r \notin Orders(b, c) BY <1>3 DEF Orders
    <3>5. IsFiniteSet(Orders(b, c)) /\ Cardinality(Orders(b, c)) \in Nat
      BY OrdersFinite
    <3>6. Cardinality(Orders(b, c) \cup {r}) = Cardinality(Orders(b, c)) + 1
      BY <3>4, <3>5, FS_AddElement
    <3>7. couponlog[l].count \in Nat BY <3>2 DEF LogsOf, TypeOK, CouponLog
    <3>8. couponlog[l].count >= Cardinality(Orders(b, c)')
      BY <3>2, <3>3, <3>5, <3>6, <3>7
    <3>9. QED BY <2>1, <3>8
  <2>2. CASE ~(x = b /\ y = c)
    <3>1. Orders(x, y)' = Orders(x, y) BY <1>3, <1>4, <2>2 DEF Orders
    <3>2. QED BY <3>1 DEF CountsCalm, EveryOrderCounted
  <2>3. QED BY <2>1, <2>2
<1>8. ASSUME NEW q \in Requests
      PROVE  ReadOK(q)' /\ FoundOK(q)' /\ WrittenOK(q)'
  <2>1. pc'[q] \in {"idle", "done"} BY <1>2 DEF Serial, Running
  <2>2. QED BY <2>1 DEF ReadOK, FoundOK, WrittenOK
<1>9. QED BY <1>6, <1>7, <1>8 DEF CountsCalm

LEMMA PayCounts ==
  ASSUME TypeOK, IInv, CountsCalm, NEW r \in Requests,
         PaySave(r) \/ \E o \in Requests : PayRedeem(r, o)
  PROVE  CountsCalm'
<1>1. CASE PaySave(r)
  <2> DEFINE o == job[r].order
             old == order[o]
             new == [old EXCEPT !.paid = TRUE]
  <2>1. /\ \A q \in Requests \ {r} : pc'[q] = pc[q] /\ job'[q] = job[q]
        /\ pc'[r] = "clear" /\ o \in Requests
        /\ \/ order[o] = None /\ order' = order
           \/ order[o] \in Order /\ order' = [order EXCEPT ![o] = new]
        /\ couponlog' = couponlog
    BY <1>1, PaySaveTypes
  <2>2. ReadOK(r)' /\ FoundOK(r)' /\ WrittenOK(r)'
    BY <2>1 DEF ReadOK, FoundOK, WrittenOK
  <2>3. ASSUME NEW p \in Requests
        PROVE  /\ order'[p] = None <=> order[p] = None
               /\ order[p] # None =>
                    /\ order'[p].branch = order[p].branch
                    /\ order'[p].code = order[p].code
    <3>1. CASE order' = order BY <3>1
    <3>2. CASE old \in Order /\ order' = [order EXCEPT ![o] = new]
      <4>1. new \in Order /\ new.branch = old.branch /\ new.code = old.code
        BY <3>2 DEF Order
      <4>2. old # None /\ new # None BY <3>2, <4>1, NoneAssumption
      <4>3. order'[o] = new /\ \A q \in Requests \ {o} : order'[q] = order[q]
        BY <3>2, <2>1 DEF TypeOK
      <4> HIDE DEF new
      <4>4. QED BY <4>1, <4>2, <4>3
    <3>3. QED BY <2>1, <3>1, <3>2
  <2> HIDE DEF o, old, new
  <2>4. QED BY <2>1, <2>2, <2>3, CountsFrame
<1>2. ASSUME NEW o \in Requests, PayRedeem(r, o) PROVE CountsCalm'
  <2>1. /\ \A q \in Requests \ {r} : pc'[q] = pc[q] /\ job'[q] = job[q]
        /\ pc'[r] = "paid" /\ order' = order
        /\ \/ couponlog' = couponlog
           \/ \E l \in LogsOfCode(order[o].code) :
                couponlog' = [couponlog EXCEPT ![l].redeemed = TRUE]
    BY <1>2, RedeemTypes
  <2>2. ReadOK(r)' /\ FoundOK(r)' /\ WrittenOK(r)'
    BY <2>1 DEF ReadOK, FoundOK, WrittenOK
  <2>3. ASSUME NEW m \in Requests
        PROVE  /\ couponlog'[m] = None <=> couponlog[m] = None
               /\ couponlog[m] # None =>
                    /\ couponlog'[m].branch = couponlog[m].branch
                    /\ couponlog'[m].code = couponlog[m].code
                    /\ couponlog'[m].count = couponlog[m].count
    <3>1. CASE couponlog' = couponlog BY <3>1
    <3>2. ASSUME NEW l \in LogsOfCode(order[o].code),
                 couponlog' = [couponlog EXCEPT ![l].redeemed = TRUE]
          PROVE  /\ couponlog'[m] = None <=> couponlog[m] = None
                 /\ couponlog[m] # None =>
                      /\ couponlog'[m].branch = couponlog[m].branch
                      /\ couponlog'[m].code = couponlog[m].code
                      /\ couponlog'[m].count = couponlog[m].count
      <4>1. l \in Requests /\ couponlog[l] \in CouponLog
        BY DEF LogsOfCode, TypeOK
      <4>2. \/ m # l /\ couponlog'[m] = couponlog[m]
            \/ m = l /\ couponlog'[m] = [couponlog[m] EXCEPT !.redeemed = TRUE]
        BY <3>2, <4>1 DEF TypeOK
      <4>3. CASE m = l
        <5>1. /\ couponlog'[m] \in CouponLog
              /\ couponlog'[m].branch = couponlog[m].branch
              /\ couponlog'[m].code = couponlog[m].code
              /\ couponlog'[m].count = couponlog[m].count
          BY <4>1, <4>2, <4>3 DEF CouponLog
        <5>2. QED BY <4>1, <4>3, <5>1, NoneAssumption
      <4>4. QED BY <4>2, <4>3
    <3>3. QED BY <2>1, <3>1, <3>2
  <2>4. QED BY <2>1, <2>2, <2>3, CountsFrame
<1>3. QED BY <1>1, <1>2

\* With fewer orders, a log counts them all the more.
LEMMA DeleteCounts ==
  ASSUME TypeOK, CountsCalm, NEW r \in Requests, NEW o \in Requests,
         DeleteOrder(r, o)
  PROVE  CountsCalm'
<1>1. /\ \A q \in Requests \ {r} : pc'[q] = pc[q] /\ job'[q] = job[q]
      /\ pc'[r] = "done"
      /\ order' = [order EXCEPT ![o] = None] /\ couponlog' = couponlog
  BY DeleteTypes
<1>2. \A b, c : OrdersIn(order', b, c) \subseteq OrdersIn(order, b, c)
  BY <1>1 DEF OrdersIn, TypeOK
<1>3. ASSUME NEW b, NEW c
      PROVE  /\ Cardinality(OrdersIn(order', b, c)) \in Nat
             /\ Cardinality(OrdersIn(order, b, c)) \in Nat
             /\ Cardinality(OrdersIn(order', b, c))
                  <= Cardinality(OrdersIn(order, b, c))
  <2>1. IsFiniteSet(Requests) BY InstanceAssumption, FS_Interval DEF Requests
  <2>2. IsFiniteSet(OrdersIn(order, b, c)) BY <2>1, FS_Subset DEF OrdersIn
  <2>3. IsFiniteSet(OrdersIn(order', b, c)) BY <2>2, <1>2, FS_Subset
  <2>4. QED BY <1>2, <2>2, <2>3, FS_Subset, FS_CardinalityType
<1>4. \A b, c : LogsOf(b, c)' = LogsOf(b, c) BY <1>1 DEF LogsOf
<1>5. \A b, c : Orders(b, c)' = OrdersIn(order', b, c) BY DEF Orders, OrdersIn
<1>6. OneLog' BY <1>4 DEF CountsCalm, OneLog
<1>7. EveryOrderCounted'
  <2> SUFFICES ASSUME NEW b \in Branches, NEW c \in Codes,
                      OrdersIn(order', b, c) # {}
               PROVE  \E l \in LogsOf(b, c) :
                        couponlog[l].count >= Cardinality(OrdersIn(order', b, c))
    BY <1>1, <1>4, <1>5 DEF EveryOrderCounted
  <2>1. OrdersIn(order, b, c) # {} BY <1>2
  <2>2. PICK l \in LogsOf(b, c) :
          couponlog[l].count >= Cardinality(OrdersIn(order, b, c))
    BY <2>1, OrdersNow DEF CountsCalm, EveryOrderCounted
  <2>3. couponlog[l].count \in Nat
    BY NoneAssumption DEF LogsOf, TypeOK, CouponLog
  <2>4. QED BY <2>2, <2>3, <1>3
<1>8. ASSUME NEW q \in Requests PROVE ReadOK(q)' /\ FoundOK(q)' /\ WrittenOK(q)'
  <2>1. CASE q = r BY <2>1, <1>1 DEF ReadOK, FoundOK, WrittenOK
  <2>2. CASE q # r
    <3>1. pc'[q] = pc[q] /\ job'[q] = job[q] BY <2>2, <1>1
    <3>2. ReadOK(q) /\ FoundOK(q) /\ WrittenOK(q) BY DEF CountsCalm
    <3>3. ReadOK(q)'
      <4> DEFINE b == job[q].branch
                 c == job[q].code
      <4>1. CASE pc[q] \in {"coupon", "save"}
        <5>1. job[q] \in CartJob BY <4>1, Held
        <5>2. job[q].uses \in Nat BY <5>1 DEF CartJob
        <5>3. c # None => Cardinality(OrdersIn(order, b, c)) <= job[q].uses
          BY <3>2, <4>1, OrdersNow DEF ReadOK
        <5>4. /\ Cardinality(OrdersIn(order', b, c)) \in Nat
              /\ Cardinality(OrdersIn(order, b, c)) \in Nat
              /\ Cardinality(OrdersIn(order', b, c))
                   <= Cardinality(OrdersIn(order, b, c))
          BY <1>3
        <5>5. c # None => Cardinality(OrdersIn(order', b, c)) <= job[q].uses
          BY <5>2, <5>3, <5>4
        <5>6. QED BY <3>1, <3>2, <4>1, <5>5, <1>5 DEF ReadOK
      <4>2. CASE pc[q] \notin {"coupon", "save"} BY <3>1, <4>2 DEF ReadOK
      <4>3. QED BY <4>1, <4>2
    <3>4. FoundOK(q)' BY <3>1, <3>2, <1>1, <1>4 DEF FoundOK
    <3>5. WrittenOK(q)'
      <4> DEFINE b == job[q].cart.branch
                 c == job[q].cart.code
      <4>1. CASE pc[q] = "insert" /\ c # None
        <5>1. PICK l \in LogsOf(b, c) :
                couponlog[l].count > Cardinality(OrdersIn(order, b, c))
          BY <3>2, <4>1, OrdersNow DEF WrittenOK
        <5>2. couponlog[l].count \in Nat
          BY NoneAssumption DEF LogsOf, TypeOK, CouponLog
        <5>3. couponlog[l].count > Cardinality(OrdersIn(order', b, c))
          BY <5>1, <5>2, <1>3
        <5>4. QED BY <3>1, <5>3, <1>1, <1>4, <1>5 DEF WrittenOK
      <4>2. CASE ~(pc[q] = "insert" /\ c # None) BY <3>1, <4>2 DEF WrittenOK
      <4>3. QED BY <4>1, <4>2
    <3>6. QED BY <3>3, <3>4, <3>5
  <2>3. QED BY <2>1, <2>2
<1>9. QED BY <1>6, <1>7, <1>8 DEF CountsCalm

\* A request that begins while none runs, or one that goes on.
Alone(r) ==
  (Running = {} /\ MayBegin(r) /\ Begin(r)) \/ Continue(r)

LEMMA AloneMoves ==
  ASSUME TypeOK, IInv, Serial, NEW r \in Requests, Alone(r)
  PROVE  /\ \A q \in Requests \ {r} :
              pc'[q] = pc[q] /\ pc[q] \in {"idle", "done"}
         /\ Serial'
<1>1. Continue(r) => r \in Running
  BY DEF Continue, CreateWrite, UpdateWrite, CartCoupon, CouponFails, CartSave,
         OrderPayment, LogFind, LogWrite, OrderInsert, PaySave, PayClear, Abort,
         End, Step, Running
<1>2. \A q \in Requests \ {r} : pc[q] \in {"idle", "done"}
  BY <1>1 DEF Alone, Serial, Running
<1>3. \A q \in Requests \ {r} : pc'[q] = pc[q]
  <2>1. CASE Begin(r)
    BY <2>1
    DEF Begin, CreateFind, UpdateFind, DeleteCoupon, CartRead, OrderRead,
        PayRedeem, DeleteOrder, Start, TypeOK
  <2>2. CASE Continue(r)
    BY <2>2
    DEF Continue, CreateWrite, UpdateWrite, CartCoupon, CouponFails, CartSave,
        OrderPayment, LogFind, LogWrite, OrderInsert, PaySave, PayClear, Abort,
        End, Step, TypeOK
  <2>3. QED BY <2>1, <2>2 DEF Alone
<1>4. Serial' BY <1>2, <1>3 DEF Serial, Running
<1>5. QED BY <1>2, <1>3, <1>4

LEMMA AloneCounts ==
  ASSUME TypeOK, IInv, Serial, CountsCalm, NEW r \in Requests, Alone(r)
  PROVE  CountsCalm'
<1>1. CASE \/ \E content \in Coupon : CreateFind(r, content)
           \/ \E u \in UpdateJob : UpdateFind(r, u)
           \/ \E d \in Requests : DeleteCoupon(r, d)
           \/ CreateWrite(r) \/ UpdateWrite(r)
  BY <1>1, AdminTypes, QuietCounts
<1>2. CASE \E b \in Branches, c \in Codes \cup {None}, enough \in BOOLEAN :
             CartRead(r, b, c, enough)
  BY <1>2, ReadCounts
<1>3. CASE CartCoupon(r) \/ CouponFails(r) BY <1>3, CouponCounts
<1>4. CASE \E free \in BOOLEAN : CartSave(r, free)
  <2>1. /\ \A q \in Requests \ {r} : pc'[q] = pc[q] /\ job'[q] = job[q]
        /\ UNCHANGED <<couponlog, order>>
    BY <1>4, CartTypes
  <2>2. pc'[r] = "done" BY <1>4 DEF CartSave, End, Step, TypeOK
  <2>3. QED BY <2>1, <2>2, QuietCounts
<1>5. CASE OrderRead(r) \/ OrderPayment(r)
  BY <1>5, OrderReadTypes, QuietCounts
<1>6. CASE PayClear(r) \/ Abort(r) BY <1>6, EndTypes, QuietCounts
<1>7. CASE LogFind(r) BY <1>7, FindCounts
<1>8. CASE LogWrite(r) BY <1>8, WriteCounts
<1>9. CASE OrderInsert(r) BY <1>9, InsertCounts
<1>10. CASE PaySave(r) \/ \E o \in Requests : PayRedeem(r, o)
  BY <1>10, PayCounts
<1>11. CASE \E o \in Requests : DeleteOrder(r, o) BY <1>11, DeleteCounts
<1>12. QED
  BY <1>1, <1>2, <1>3, <1>4, <1>5, <1>6, <1>7, <1>8, <1>9, <1>10, <1>11
  DEF Alone, Begin, Continue

\* A calm behaviour of MCSpec: requests one at a time, or nothing happens to
\* the coupons.
CalmOK == calm => TypeOK /\ IInv /\ Serial /\ CountsCalm

LEMMA CalmSteps ==
  ASSUME calm, [MCNext]_<<vars, part, calm, reports, rated>>
  PROVE  /\ calm' = calm
         /\ (\E r \in Requests : Alone(r)) \/ UNCHANGED vars
<1>1. CASE MCNext
  <2>1. CouponsNext => \E r \in Requests : Alone(r)
    BY DEF CouponsNext, Alone
  <2>2. QED BY <1>1, <2>1 DEF MCNext
<1>2. CASE UNCHANGED <<vars, part, calm, reports, rated>> BY <1>2
<1>3. QED BY <1>1, <1>2

LEMMA CalmHolds == MCSpec => []CalmOK
<1>1. MCInit => CalmOK
  <2> SUFFICES ASSUME MCInit PROVE CalmOK OBVIOUS
  <2>1. Init BY DEF MCInit
  <2>2. TypeOK /\ IInv BY <2>1, InitInv
  <2>3. /\ \A r \in Requests : pc[r] = "idle"
        /\ \A b, c : LogsOf(b, c) = {} /\ Orders(b, c) = {}
    BY <2>1 DEF Init, LogsOf, Orders
  <2>4. Serial /\ CountsCalm
    BY <2>3
    DEF Serial, Running, CountsCalm, OneLog, EveryOrderCounted, ReadOK,
        FoundOK, WrittenOK
  <2>5. QED BY <2>2, <2>4 DEF CalmOK
<1>2. ASSUME CalmOK, [MCNext]_<<vars, part, calm, reports, rated>>
      PROVE  CalmOK'
  <2>1. CASE ~calm
    BY <1>2, <2>1 DEF MCNext, CalmOK
  <2>2. CASE calm
    <3>1. /\ calm' = calm
          /\ (\E r \in Requests : Alone(r)) \/ UNCHANGED vars
      BY <1>2, <2>2, CalmSteps
    <3>2. ASSUME NEW r \in Requests, Alone(r)
          PROVE  TypeOK' /\ IInv' /\ Serial' /\ CountsCalm'
      <4>1. Next BY <3>2 DEF Alone, Next
      <4>2. TypeOK /\ IInv /\ Serial /\ CountsCalm BY <1>2, <2>2 DEF CalmOK
      <4>3. QED BY <3>2, <4>1, <4>2, StepInv, AloneMoves, AloneCounts
    <3>3. ASSUME UNCHANGED vars
          PROVE  TypeOK' /\ IInv' /\ Serial' /\ CountsCalm'
      <4>1. TypeOK /\ IInv /\ Serial /\ CountsCalm BY <1>2, <2>2 DEF CalmOK
      <4>2. Serial' BY <3>3, <4>1 DEF vars, Serial, Running
      <4>3. /\ \A b, c : LogsOf(b, c)' = LogsOf(b, c)
            /\ \A b, c : Orders(b, c)' = Orders(b, c)
        BY <3>3 DEF vars, LogsOf, Orders
      <4>4. OneLog' /\ EveryOrderCounted'
        BY <3>3, <4>1, <4>3 DEF vars, CountsCalm, OneLog, EveryOrderCounted
      <4>5. ASSUME NEW r \in Requests
            PROVE  ReadOK(r)' /\ FoundOK(r)' /\ WrittenOK(r)'
        BY <3>3, <4>1, <4>3 DEF vars, CountsCalm, ReadOK, FoundOK, WrittenOK
      <4>6. QED BY <3>3, <4>1, <4>2, <4>4, <4>5, StepInv DEF CountsCalm
    <3>4. QED BY <3>1, <3>2, <3>3 DEF CalmOK
  <2>3. QED BY <2>1, <2>2
<1>3. QED BY <1>1, <1>2, PTL DEF MCSpec

\* While requests are served one at a time, whatever fails between them, the
\* usage log that create finds or makes counts every order of the coupon.
THEOREM CountsAreComplete == MCSpec => []OrdersAreCounted
<1>1. CalmOK => OrdersAreCounted
  BY DEF CalmOK, OrdersAreCounted, CountsCalm
<1>2. QED BY <1>1, CalmHolds, PTL

\* So appendCart grants a discount only below the limit of the coupon it read.
THEOREM GrantsWithinLimit == MCSpec => DiscountWithinLimit
<1>1. ASSUME CalmOK, [MCNext]_<<vars, part, calm, reports, rated>>
      PROVE  [calm => DiscountIsGranted]_vars
  <2> SUFFICES ASSUME calm, ~UNCHANGED vars, NEW r \in Requests,
                      pc[r] = "save", cart' # cart, cart' # None,
                      cart'.discounted
               PROVE  \/ job[r].coupon.limit = 0
                      \/ Cardinality(Orders(cart'.branch, cart'.code))
                           < job[r].coupon.limit
    BY DEF DiscountIsGranted
  <2>1. TypeOK /\ IInv /\ Serial /\ CountsCalm BY <1>1 DEF CalmOK
  <2>2. PICK q \in Requests : Alone(q) BY <1>1, CalmSteps
  <2>3. r \in Running BY DEF Running
  <2>4. q = r BY <2>1, <2>2, <2>3, AloneMoves DEF Running
  <2>5. PICK free \in BOOLEAN : CartSave(r, free)
    <3>1. Continue(r) BY <2>2, <2>3, <2>4 DEF Alone
    <3>2. CASE Abort(r) BY <3>2 DEF Abort
    <3>3. QED
      BY <3>1, <3>2
      DEF Continue, CreateWrite, UpdateWrite, CartCoupon, CouponFails,
          OrderPayment, LogFind, LogWrite, OrderInsert, PaySave, PayClear,
          End, Step
  <2> DEFINE j == job[r]
  <2>6. j \in CartJob BY <2>1, Held
  <2>7. /\ cart'.branch = j.branch /\ Granted(j)
        /\ cart'.code = IF j.coupon = None THEN None ELSE j.code
    <3>1. cart' = [branch |-> j.branch,
                   code |-> IF j.coupon = None THEN None ELSE j.code,
                   discounted |-> Granted(j), free |-> free]
      BY <2>5 DEF CartSave
    <3>2. cart'.discounted = Granted(j) BY <3>1, Zenon
    <3>3. /\ cart'.branch = j.branch
          /\ cart'.code = IF j.coupon = None THEN None ELSE j.code
      BY <3>1, Zenon
    <3>4. Granted(j) BY <3>2
    <3>5. QED BY <3>3, <3>4
  <2>8. /\ j.coupon # None
        /\ j.coupon.limit = 0 \/ j.uses < j.coupon.limit
    BY <2>7 DEF Granted
  <2>9. j.code # None /\ Cardinality(Orders(j.branch, j.code)) <= j.uses
    BY <2>1, <2>8 DEF CountsCalm, ReadOK
  <2>10. j.uses \in Nat /\ j.coupon.limit \in Nat
    BY <2>6, <2>8, InstanceAssumption DEF CartJob, Coupon
  <2>11. cart'.branch = j.branch /\ cart'.code = j.code BY <2>7, <2>8
  <2>12. Cardinality(Orders(cart'.branch, cart'.code))
           = Cardinality(Orders(j.branch, j.code))
    BY <2>11
  <2>13. QED BY <2>8, <2>9, <2>10, <2>12, OrdersFinite
<1>2. QED BY <1>1, CalmHolds, PTL DEF MCSpec, DiscountWithinLimit

-----------------------------------------------------------------------------
(* The figures of the restaurants: what an answer shows, and until when      *)

LEMMA SalesCount == ASSUME NEW T PROVE Reports!Cardinality(T) = Cardinality(T)
BY Zenon DEF Reports!Cardinality, Cardinality

LEMMA MoreSales ==
  ASSUME ReportsAssumption, NEW S \in SUBSET Sales, NEW T \in SUBSET S
  PROVE  /\ Reports!Cardinality(T) \in Nat /\ Reports!Cardinality(S) \in Nat
         /\ Reports!Cardinality(T) <= Reports!Cardinality(S)
<1>1. IsFiniteSet(S) /\ IsFiniteSet(T) BY FS_Subset DEF ReportsAssumption
<1>2. QED BY <1>1, FS_Subset, FS_CardinalityType, SalesCount

Hours == 0..LastHour
AnswerShaped(data) ==
  /\ data \in [restaurants : SUBSET Diners, figures : {data.figures},
               from : Hours, to : Hours]
  /\ DOMAIN data.figures = Reports!Aggregations
RequestShaped(q) ==
  /\ q \in [step : {"idle", "lookup", "menu", "counting", "onboarded", "saving",
                    "answered"},
            at : Hours, answeredAt : Hours, data : {q.data}]
  /\ AnswerShaped(q.data)
ReportsTyped ==
  /\ now \in Hours
  /\ listedAt \in [Diners -> 0..(LastHour + 1)]
  /\ orderStatus \in [Sales -> {"open", "completed", "gone"}]
  /\ DOMAIN been = Sales
  /\ kept \subseteq Locations
  /\ view.until \in Nat /\ AnswerShaped(view.payload)
  /\ DOMAIN request = Readers /\ \A r \in Readers : RequestShaped(request[r])
ReportsHold == ReportsTyped /\ Reports!AnswersInv

\* More orders are no fewer at a branch.
LEMMA MoreThere ==
  ASSUME ReportsAssumption, NEW b, NEW S \in SUBSET Sales, NEW T \in SUBSET S
  PROVE  /\ Reports!OfBranch(T, b) \in Nat /\ Reports!OfBranch(S, b) \in Nat
         /\ Reports!OfBranch(T, b) <= Reports!OfBranch(S, b)
<1> DEFINE U == {o \in S : SoldAt[o] = b}
           V == {o \in T : SoldAt[o] = b}
<1>1. U \in SUBSET Sales /\ V \in SUBSET U OBVIOUS
<1>2. /\ Reports!OfBranch(T, b) = Reports!Cardinality(V)
      /\ Reports!OfBranch(S, b) = Reports!Cardinality(U)
  BY DEF Reports!OfBranch
<1> HIDE DEF U, V
<1>3. QED BY <1>1, <1>2, MoreSales

\* In a longer time fewer orders were completed throughout, and more sometime.
LEMMA LongerTime ==
  ASSUME NEW lo \in Int, NEW hi \in Int, NEW low \in Int, NEW high \in Int,
         low <= lo, hi <= high
  PROVE  /\ Reports!Throughout(low, high) \in SUBSET Reports!Throughout(lo, hi)
         /\ Reports!Sometime(lo, hi) \in SUBSET Reports!Sometime(low, high)
<1>1. lo..hi \subseteq low..high OBVIOUS
<1>2. QED BY <1>1 DEF Reports!Throughout, Reports!Sometime

LEMMA WithinWeakens ==
  ASSUME ReportsAssumption, ReportsTyped, NEW data,
         NEW lo \in Int, NEW hi \in Int, NEW low \in Int, NEW high \in Int,
         Reports!Within(data, lo, hi), low <= lo, hi <= high
  PROVE  Reports!Within(data, low, high)
<1> DEFINE Possible(b) == Reports!OfBranch(Reports!Throughout(lo, hi), b)
                            ..Reports!OfBranch(Reports!Sometime(lo, hi), b)
           Likely(b) == Reports!OfBranch(Reports!Throughout(low, high), b)
                          ..Reports!OfBranch(Reports!Sometime(low, high), b)
<1>1. ASSUME NEW b PROVE Possible(b) \subseteq Likely(b)
  <2>1. PICK S, T, U, V : /\ S = Reports!Throughout(lo, hi)
                          /\ T = Reports!Throughout(low, high)
                          /\ U = Reports!Sometime(low, high)
                          /\ V = Reports!Sometime(lo, hi)
    OBVIOUS
  <2>2. /\ S \in SUBSET Sales /\ T \in SUBSET S
        /\ U \in SUBSET Sales /\ V \in SUBSET U
    <3>1. T \in SUBSET S /\ V \in SUBSET U BY <2>1, LongerTime
    <3>2. S \in SUBSET Sales /\ U \in SUBSET Sales
      BY <2>1 DEF Reports!Throughout, Reports!Sometime
    <3>3. QED BY <3>1, <3>2
  <2>3. /\ Reports!OfBranch(T, b) \in Nat /\ Reports!OfBranch(S, b) \in Nat
        /\ Reports!OfBranch(T, b) <= Reports!OfBranch(S, b)
    BY <2>2, MoreThere
  <2>4. /\ Reports!OfBranch(V, b) \in Nat /\ Reports!OfBranch(U, b) \in Nat
        /\ Reports!OfBranch(V, b) <= Reports!OfBranch(U, b)
    BY <2>2, MoreThere
  <2>5. QED BY <2>1, <2>3, <2>4
<1>2. \A x \in Diners : listedAt[x] \in Int
  BY DEF ReportsTyped, ReportsAssumption
<1>3. \A x \in Diners : listedAt[x] < low => x \in data.restaurants
  BY <1>2 DEF Reports!Within
<1>4. QED BY <1>1, <1>3 DEF Reports!Within

\* Time passes, a restaurant is listed or an order changes.
Meanwhile ==
  /\ now <= now'
  /\ \A x \in Diners : listedAt'[x] = listedAt[x] \/ listedAt'[x] = now
  /\ \A o \in Sales : been[o] \subseteq been'[o]

\* What an order has been, it has been.
LEMMA TimeGoesOn ==
  ASSUME Meanwhile, NEW lo \in Int, NEW hi \in Int, NEW high \in Int, hi <= high
  PROVE  /\ Reports!Throughout(lo, high)' \in SUBSET Reports!Throughout(lo, hi)
         /\ Reports!Sometime(lo, hi) \in SUBSET Reports!Sometime(lo, high)'
<1>1. lo..hi \subseteq lo..high OBVIOUS
<1>2. QED BY <1>1 DEF Reports!Throughout, Reports!Sometime, Meanwhile

\* What has been shown stays as true as it was.
LEMMA WithinStays ==
  ASSUME ReportsAssumption, ReportsTyped, ReportsTyped', Meanwhile, NEW data,
         NEW lo \in Int, NEW hi \in Int, NEW high \in Int,
         lo <= now, hi <= high, Reports!Within(data, lo, hi)
  PROVE  Reports!Within(data, lo, high)'
<1>1. /\ now \in 0..LastHour /\ LastHour \in Nat
      /\ listedAt \in [Diners -> 0..(LastHour + 1)]
  BY DEF ReportsTyped, Hours, ReportsAssumption
<1> DEFINE Possible(b) == Reports!OfBranch(Reports!Throughout(lo, hi), b)
                            ..Reports!OfBranch(Reports!Sometime(lo, hi), b)
           Likely(b) == Reports!OfBranch(Reports!Throughout(lo, high)', b)
                          ..Reports!OfBranch(Reports!Sometime(lo, high)', b)
<1>2. ASSUME NEW b PROVE Possible(b) \subseteq Likely(b)
  <2>1. PICK S, T, U, V : /\ S = Reports!Throughout(lo, hi)
                          /\ T = Reports!Throughout(lo, high)'
                          /\ U = Reports!Sometime(lo, high)'
                          /\ V = Reports!Sometime(lo, hi)
    OBVIOUS
  <2>2. /\ S \in SUBSET Sales /\ T \in SUBSET S
        /\ U \in SUBSET Sales /\ V \in SUBSET U
    <3>1. T \in SUBSET S /\ V \in SUBSET U BY <2>1, TimeGoesOn
    <3>2. S \in SUBSET Sales /\ U \in SUBSET Sales
      BY <2>1 DEF Reports!Throughout, Reports!Sometime
    <3>3. QED BY <3>1, <3>2
  <2>3. /\ Reports!OfBranch(T, b) \in Nat /\ Reports!OfBranch(S, b) \in Nat
        /\ Reports!OfBranch(T, b) <= Reports!OfBranch(S, b)
    BY <2>2, MoreThere
  <2>4. /\ Reports!OfBranch(V, b) \in Nat /\ Reports!OfBranch(U, b) \in Nat
        /\ Reports!OfBranch(V, b) <= Reports!OfBranch(U, b)
    BY <2>2, MoreThere
  <2>5. QED BY <2>1, <2>3, <2>4
<1>3. \A x \in Diners : listedAt'[x] < lo => x \in data.restaurants
  BY <1>1 DEF Meanwhile, Reports!Within
<1>4. \A b : /\ Reports!OfBranch(Reports!Throughout(lo, high), b)'
                  = Reports!OfBranch(Reports!Throughout(lo, high)', b)
             /\ Reports!OfBranch(Reports!Sometime(lo, high), b)'
                  = Reports!OfBranch(Reports!Sometime(lo, high)', b)
  BY DEF Reports!OfBranch
<1>5. QED BY <1>2, <1>3, <1>4 DEF Reports!Within

Steady == UNCHANGED <<now, listedAt, orderStatus, been>>

LEMMA WithinSame ==
  ASSUME Steady, NEW data, NEW lo, NEW hi
  PROVE  Reports!Within(data, lo, hi)' <=> Reports!Within(data, lo, hi)
BY DEF Steady, Reports!Within, Reports!OfBranch, Reports!Throughout,
       Reports!Sometime

LEMMA RequestSame ==
  ASSUME Steady, NEW q
  PROVE  Reports!RequestOK(q)' <=> Reports!RequestOK(q)
BY WithinSame DEF Steady, Reports!RequestOK, Reports!Whole

\* What was kept is as good as it was while nothing changes it.
LEMMA ViewStays ==
  ASSUME ReportsHold, Steady, UNCHANGED view
  PROVE  (view.until \in Nat /\ AnswerShaped(view.payload) /\ Reports!ViewOK)'
<1>1. PICK v : v = view OBVIOUS
<1>2. v' = v /\ view' = v BY <1>1
<1>3. v.until \in Nat /\ AnswerShaped(v.payload) /\ Reports!ViewOK
  BY <1>1 DEF ReportsHold, ReportsTyped, Reports!AnswersInv
<1>4. AnswerShaped(view.payload)' BY <1>2, <1>3 DEF AnswerShaped
<1>5. Reports!ViewOK'
  <2>1. ASSUME v.until > 0
        PROVE  /\ v.until - ViewTTL <= now' /\ Reports!Whole(v.payload)
               /\ Reports!Within(v.payload, v.until - ViewTTL - MaxCompute,
                                 v.until - ViewTTL)'
    BY <1>1, <1>3, <2>1, WithinSame DEF Reports!ViewOK, Steady
  <2>2. QED BY <1>2, <2>1 DEF Reports!ViewOK, Reports!Whole
<1>6. QED BY <1>2, <1>3, <1>4, <1>5

\* A request becomes q.
LEMMA RequestMoves ==
  ASSUME ReportsHold, Steady, UNCHANGED kept, NEW r \in Readers, NEW q,
         RequestShaped(q), Reports!RequestOK(q),
         request' = [request EXCEPT ![r] = q],
         (view.until \in Nat /\ AnswerShaped(view.payload) /\ Reports!ViewOK)'
  PROVE  ReportsHold'
<1>1. /\ DOMAIN request' = Readers /\ request'[r] = q
      /\ \A s \in Readers \ {r} : request'[s] = request[s]
  BY DEF ReportsHold, ReportsTyped
<1>2. ASSUME NEW s \in Readers
      PROVE  RequestShaped(request'[s]) /\ Reports!RequestOK(request[s])'
  <2>1. PICK p : p = request'[s] OBVIOUS
  <2>2. RequestShaped(p) /\ Reports!RequestOK(p)
    BY <1>1, <2>1 DEF ReportsHold, ReportsTyped, Reports!AnswersInv
  <2>3. Reports!RequestOK(p)' BY <2>2, RequestSame
  <2>4. QED BY <2>1, <2>2, <2>3
<1>3. ReportsTyped'
  BY <1>1, <1>2 DEF ReportsHold, ReportsTyped, Steady, RequestShaped, AnswerShaped
<1>4. Reports!Recorded'
  BY DEF ReportsHold, Reports!AnswersInv, Steady, Reports!Recorded
<1>5. Reports!AnswersInv' BY <1>2, <1>4 DEF Reports!AnswersInv
<1>6. QED BY <1>3, <1>5 DEF ReportsHold

Counted == {"onboarded", "saving"}

\* A request moves on with the figures it has.
LEMMA MovesOn ==
  ASSUME ReportsHold, Steady, UNCHANGED <<kept, view>>, NEW r \in Readers,
         request[r].step \notin {"idle", "answered"},
         NEW to \in {"menu", "counting"} \cup Counted,
         NEW data, AnswerShaped(data),
         to # "menu" => /\ request[r].at <= data.from /\ data.from <= now
                        /\ Reports!Within(data, data.from, now),
         to \in Counted => Reports!Whole(data),
         Reports!MoveOn(r, to, data)
  PROVE  ReportsHold'
<1>1. PICK p : p = request[r] OBVIOUS
<1>2. RequestShaped(p) /\ Reports!RequestOK(p)
  BY <1>1 DEF ReportsHold, ReportsTyped, Reports!AnswersInv
<1>3. PICK q : q = [p EXCEPT !.step = to, !.data = data] OBVIOUS
<1>4. request' = [request EXCEPT ![r] = q]
  BY <1>1, <1>3 DEF Reports!MoveOn, ReportsHold, ReportsTyped
<1>5. /\ q.step = to /\ q.data = data /\ q.at = p.at
      /\ q.answeredAt = p.answeredAt
  BY <1>2, <1>3 DEF RequestShaped
<1>6. RequestShaped(q) BY <1>2, <1>3, <1>5 DEF RequestShaped, Counted
<1>7. Reports!RequestOK(q)
  BY <1>1, <1>2, <1>5 DEF Reports!RequestOK, Counted
<1>8. QED BY <1>4, <1>6, <1>7, ViewStays, RequestMoves

\* A request is answered with figures that are recent enough.
LEMMA IsAnswered ==
  ASSUME ReportsHold, Steady, UNCHANGED kept, NEW r \in Readers,
         NEW data, AnswerShaped(data), Reports!Whole(data),
         Reports!Within(data, now - (ViewTTL - 1 + 2 * MaxCompute), now),
         (view.until \in Nat /\ AnswerShaped(view.payload) /\ Reports!ViewOK)',
         Reports!Answer(r, data)
  PROVE  ReportsHold'
<1>1. PICK p : p = request[r] OBVIOUS
<1>2. RequestShaped(p) /\ Reports!RequestOK(p)
  BY <1>1 DEF ReportsHold, ReportsTyped, Reports!AnswersInv
<1>3. PICK t : t = now OBVIOUS
<1>4. PICK q : q = [p EXCEPT !.step = "answered", !.answeredAt = t, !.data = data]
  OBVIOUS
<1>5. request' = [request EXCEPT ![r] = q]
  BY <1>1, <1>3, <1>4 DEF Reports!Answer, ReportsHold, ReportsTyped
<1>6. q.step = "answered" /\ q.data = data /\ q.at = p.at /\ q.answeredAt = t
  BY <1>2, <1>4 DEF RequestShaped
<1>7. t \in Hours BY <1>3 DEF ReportsHold, ReportsTyped
<1>8. RequestShaped(q) BY <1>2, <1>4, <1>6, <1>7 DEF RequestShaped
<1>9. t <= now BY <1>3, <1>7 DEF Hours
<1>10. Reports!RequestOK(q)
  BY <1>2, <1>3, <1>6, <1>9 DEF Reports!RequestOK
<1>11. QED BY <1>5, <1>8, <1>10, RequestMoves

-----------------------------------------------------------------------------
(* Each step of a request                                                    *)

LEMMA NothingShown ==
  ASSUME ReportsAssumption, NEW from \in Hours, NEW data,
         data = [Reports!NoAnswer EXCEPT !.from = from]
  PROVE  AnswerShaped(data) /\ data.from = from /\ data.restaurants = {}
<1>1. 0 \in Hours BY DEF Hours, ReportsAssumption
<1>2. QED
  BY <1>1 DEF AnswerShaped, Reports!NoAnswer, Reports!NoFigures

LEMMA NothingBegan ==
  ASSUME ReportsAssumption
  PROVE  /\ RequestShaped(Reports!Idle) /\ Reports!Idle.step = "idle"
         /\ Reports!Idle.at = 0 /\ Reports!Idle.data = Reports!NoAnswer
         /\ AnswerShaped(Reports!NoAnswer)
<1>1. 0 \in Hours BY DEF Hours, ReportsAssumption
<1>2. AnswerShaped(Reports!NoAnswer)
  BY <1>1 DEF AnswerShaped, Reports!NoAnswer, Reports!NoFigures
<1>3. QED BY <1>1, <1>2 DEF RequestShaped, Reports!Idle

LEMMA ReportsBegin == ReportsAssumption /\ Reports!Init => ReportsHold
<1> SUFFICES ASSUME ReportsAssumption, Reports!Init PROVE ReportsHold OBVIOUS
<1>1. now = 0 /\ view.until = 0 /\ view.payload = Reports!NoAnswer
  BY DEF Reports!Init
<1>2. DOMAIN request = Readers /\ \A r \in Readers : request[r] = Reports!Idle
  BY DEF Reports!Init
<1>3. 0 \in Hours /\ LastHour + 1 \in 0..(LastHour + 1) /\ 0 \in 0..(LastHour + 1)
  BY DEF Hours, ReportsAssumption
<1>4. /\ ReportsTyped
      /\ \A o \in Sales : been[o] = {<<0, orderStatus[o]>>}
  BY <1>1, <1>2, <1>3, NothingBegan
     DEF Reports!Init, ReportsTyped, Reports!Never, Reports!Statuses
<1>5. Reports!Recorded
  BY <1>1, <1>4 DEF ReportsTyped, Reports!Recorded
<1>6. Reports!ViewOK BY <1>1 DEF Reports!ViewOK
<1>7. ASSUME NEW r \in Readers PROVE Reports!RequestOK(request[r])
  BY <1>1, <1>2, NothingBegan DEF Reports!RequestOK
<1>8. QED BY <1>4, <1>5, <1>6, <1>7 DEF ReportsHold, Reports!AnswersInv

LEMMA BeginHolds ==
  ASSUME ReportsAssumption, ReportsHold, NEW r \in Readers, Reports!Begin(r)
  PROVE  ReportsHold'
<1>1. PICK t : t = now OBVIOUS
<1>2. t \in Hours BY <1>1 DEF ReportsHold, ReportsTyped
<1>3. PICK q : q = [Reports!Idle EXCEPT !.step = "lookup", !.at = t] OBVIOUS
<1>4. request' = [request EXCEPT ![r] = q] BY <1>1, <1>3 DEF Reports!Begin
<1>5. /\ q.step = "lookup" /\ q.at = t /\ q.data = Reports!NoAnswer
      /\ q.answeredAt \in Hours
  BY <1>3, NothingBegan DEF RequestShaped
<1>6. RequestShaped(q)
  BY <1>2, <1>3, <1>5, NothingBegan DEF RequestShaped
<1>7. Reports!RequestOK(q)
  BY <1>1, <1>2, <1>5 DEF Reports!RequestOK, Hours, ReportsAssumption
<1>8. Steady /\ UNCHANGED <<kept, view>> BY DEF Steady, Reports!Begin
<1>9. QED BY <1>4, <1>6, <1>7, <1>8, ViewStays, RequestMoves

LEMMA FailHolds ==
  ASSUME ReportsAssumption, ReportsHold, NEW r \in Readers, Reports!Fail(r)
  PROVE  ReportsHold'
<1>1. PICK q : q = Reports!Idle OBVIOUS
<1>2. request' = [request EXCEPT ![r] = q] BY <1>1 DEF Reports!Fail
<1>3. RequestShaped(q) BY <1>1, NothingBegan
<1>4. now \in Nat BY DEF ReportsHold, ReportsTyped, Hours
<1>5. Reports!RequestOK(q) BY <1>1, <1>4, NothingBegan DEF Reports!RequestOK
<1>6. Steady /\ UNCHANGED <<kept, view>> BY DEF Steady, Reports!Fail
<1>7. QED BY <1>2, <1>3, <1>5, <1>6, ViewStays, RequestMoves

\* An answer kept hides what happened while it was kept, while it was computed,
\* and while the request it is given to takes its time.
LEMMA LookupHolds ==
  ASSUME ReportsAssumption, ReportsHold, NEW r \in Readers, Reports!Lookup(r)
  PROVE  ReportsHold'
<1>1. Steady /\ UNCHANGED <<kept, view>> BY DEF Steady, Reports!Lookup
<1>2. request[r].step = "lookup" BY DEF Reports!Lookup, Reports!Step
<1>3. now \in Hours BY DEF ReportsHold, ReportsTyped
<1>4. CASE view.until > request[r].at
  <2>1. PICK d : d = view.payload OBVIOUS
  <2>2. PICK t : t = now OBVIOUS
  <2>3. PICK u : u = view.until OBVIOUS
  <2>4. u \in Nat /\ t \in Nat /\ AnswerShaped(d)
    BY <2>1, <2>2, <2>3 DEF ReportsHold, ReportsTyped, Hours
  <2>5. request[r].at \in Nat /\ t <= request[r].at + MaxCompute
    BY <1>2, <2>2 DEF ReportsHold, ReportsTyped, RequestShaped, Hours,
                      Reports!AnswersInv, Reports!RequestOK
  <2>6. u > 0 /\ t - (ViewTTL - 1 + 2 * MaxCompute) <= u - ViewTTL - MaxCompute
    BY <1>4, <2>3, <2>4, <2>5 DEF ReportsAssumption
  <2>7. /\ u - ViewTTL <= t /\ Reports!Whole(d)
        /\ Reports!Within(d, u - ViewTTL - MaxCompute, u - ViewTTL)
    BY <2>1, <2>2, <2>3, <2>6 DEF ReportsHold, Reports!AnswersInv, Reports!ViewOK
  <2>8. Reports!Within(d, t - (ViewTTL - 1 + 2 * MaxCompute), t)
    BY <2>4, <2>6, <2>7, WithinWeakens DEF ReportsHold, ReportsAssumption
  <2>9. Reports!Answer(r, d) BY <1>4, <2>1 DEF Reports!Lookup
  <2>10. QED BY <1>1, <2>2, <2>4, <2>7, <2>8, <2>9, ViewStays, IsAnswered
<1>5. CASE ~(view.until > request[r].at)
  <2>1. PICK t : t = now OBVIOUS
  <2>2. PICK d : d = [Reports!NoAnswer EXCEPT !.from = t] OBVIOUS
  <2>3. AnswerShaped(d) BY <1>3, <2>1, <2>2, NothingShown
  <2>4. Reports!MoveOn(r, "menu", d) BY <1>5, <2>1, <2>2 DEF Reports!Lookup
  <2>5. QED BY <1>1, <1>2, <2>3, <2>4, MovesOn DEF Counted
<1>6. QED BY <1>4, <1>5

\* The menu service lists what it has, so that nothing counted yet is old.
LEMMA MenuHolds ==
  ASSUME ReportsAssumption, ReportsHold, NEW r \in Readers, Reports!Menu(r)
  PROVE  ReportsHold'
<1>1. Steady /\ UNCHANGED <<kept, view>> BY DEF Steady, Reports!Menu
<1>2. request[r].step = "menu" BY DEF Reports!Menu, Reports!Step
<1>3. now \in Hours /\ \A x \in Diners : listedAt[x] \in Int
  BY DEF ReportsHold, ReportsTyped, ReportsAssumption
<1>4. PICK t : t = now OBVIOUS
<1>5. PICK list : list = Reports!Listed OBVIOUS
<1>6. list \in SUBSET Diners /\ \A x \in Diners : listedAt[x] <= t => x \in list
  BY <1>4, <1>5 DEF Reports!Listed
<1>7. CASE list = {}
  <2>1. PICK d : d = Reports!NoAnswer OBVIOUS
  <2>2. AnswerShaped(d) /\ d.restaurants = {} /\ d.figures = Reports!NoFigures
    BY <2>1, NothingBegan DEF Reports!NoAnswer
  <2>3. t - (ViewTTL - 1 + 2 * MaxCompute) \in Int
        /\ t - (ViewTTL - 1 + 2 * MaxCompute) <= t
    BY <1>3, <1>4 DEF ReportsAssumption, Hours
  <2>4. Reports!Within(d, t - (ViewTTL - 1 + 2 * MaxCompute), t)
    <3>1. \A x \in Diners :
            listedAt[x] < t - (ViewTTL - 1 + 2 * MaxCompute) => x \in d.restaurants
      BY <1>3, <1>4, <1>6, <1>7, <2>3 DEF Hours
    <3>2. d.figures["branches"] = None
      BY <2>2 DEF Reports!NoFigures, Reports!Aggregations
    <3>3. QED BY <2>2, <3>1, <3>2 DEF Reports!Within
  <2>5. Reports!Whole(d) BY <2>2 DEF Reports!Whole
  <2>6. Reports!Answer(r, d)
    BY <1>5, <1>7, <2>1 DEF Reports!Menu, Reports!WithList
  <2>7. QED BY <1>1, <1>4, <2>2, <2>4, <2>5, <2>6, ViewStays, IsAnswered
<1>8. CASE list # {}
  <2>1. PICK d : d = [Reports!NoAnswer EXCEPT !.restaurants = list, !.from = t]
    OBVIOUS
  <2>2. /\ AnswerShaped(d) /\ d.restaurants = list /\ d.from = t
        /\ d.figures = Reports!NoFigures
    <3>1. 0 \in Hours BY DEF Hours, ReportsAssumption
    <3>2. QED
      BY <1>3, <1>4, <1>6, <2>1, <3>1
         DEF AnswerShaped, Reports!NoAnswer, Reports!NoFigures
  <2>3. Reports!Within(d, t, t)
    <3>1. /\ d.figures["branches"] = None /\ d.figures["byBranch"] = None
          /\ d.figures["byStatus"] = None
      BY <2>2 DEF Reports!NoFigures, Reports!Aggregations
    <3>2. \A x \in Diners : listedAt[x] < t => x \in d.restaurants
      BY <1>3, <1>4, <1>6, <2>2 DEF Hours
    <3>3. QED BY <3>1, <3>2 DEF Reports!Within
  <2>4. request[r].at <= t
    BY <1>4 DEF ReportsHold, Reports!AnswersInv, Reports!RequestOK
  <2>5. Reports!MoveOn(r, "counting", d)
    BY <1>4, <1>5, <1>8, <2>1 DEF Reports!Menu, Reports!WithList
  <2>6. d.from <= now BY <1>3, <1>4, <2>2 DEF Hours
  <2>7. QED
    BY <1>1, <1>2, <1>4, <2>2, <2>3, <2>4, <2>5, <2>6, MovesOn DEF Counted
<1>9. QED BY <1>7, <1>8

LEMMA CountedNow ==
  ASSUME ReportsHold, NEW list, NEW b \in Locations, DinerOf[b] \in list
  PROVE  /\ Reports!ByBranch(list)[b] = Reports!OfBranch(Reports!Completed, b)
         /\ Reports!ByStatus(list)[b]["completed"]
              = Reports!OfBranch(Reports!Completed, b)
<1>1. Reports!OrdersAt(b, list, "completed")
        = {o \in Reports!Completed : SoldAt[o] = b}
  BY DEF Reports!OrdersAt, Reports!Completed
<1>2. Reports!Cardinality(Reports!OrdersAt(b, list, "completed"))
        = Reports!OfBranch(Reports!Completed, b)
  BY <1>1 DEF Reports!OfBranch
<1>3. Reports!ByBranch(list)[b]
        = Reports!Cardinality(Reports!OrdersAt(b, list, "completed"))
  BY DEF Reports!ByBranch
<1>4. Reports!ByStatus(list)[b]["completed"]
        = Reports!Cardinality(Reports!OrdersAt(b, list, "completed"))
  BY DEF Reports!ByStatus, Reports!Statuses
<1>5. QED BY <1>2, <1>3, <1>4

\* What is completed now was so sometime since lo, and what was all the time is.
LEMMA CompletedNow ==
  ASSUME ReportsHold, NEW lo \in Int, lo <= now
  PROVE  /\ Reports!Completed \in SUBSET Reports!Sometime(lo, now)
         /\ Reports!Throughout(lo, now) \in SUBSET Reports!Completed
<1>1. now \in lo..now BY DEF ReportsHold, ReportsTyped, Hours
<1>2. \A o \in Sales : <<now, orderStatus[o]>> \in been[o]
  BY DEF ReportsHold, Reports!AnswersInv, Reports!Recorded
<1>3. Reports!Completed \in SUBSET Reports!Sometime(lo, now)
  BY <1>1, <1>2 DEF Reports!Completed, Reports!Sometime
<1>4. ASSUME NEW o \in Reports!Throughout(lo, now) PROVE o \in Reports!Completed
  <2>1. o \in Sales /\ orderStatus[o] \in {"open", "completed", "gone"}
    BY DEF Reports!Throughout, ReportsHold, ReportsTyped
  <2>2. orderStatus[o] \notin {"open", "gone"}
    BY <1>1, <1>2, <2>1 DEF Reports!Throughout
  <2>3. QED BY <2>1, <2>2 DEF Reports!Completed
<1>5. QED BY <1>3, <1>4

\* An aggregation adds figures that are right when it returns.
LEMMA CountHolds ==
  ASSUME ReportsAssumption, ReportsHold, NEW r \in Readers,
         NEW a \in Reports!Aggregations, Reports!Count(r, a)
  PROVE  ReportsHold'
<1>1. Steady /\ UNCHANGED <<kept, view>> BY DEF Steady, Reports!Count
<1>2. request[r].step = "counting" BY DEF Reports!Count, Reports!Step
<1>3. now \in Hours BY DEF ReportsHold, ReportsTyped
<1>4. PICK d : d = request[r].data OBVIOUS
<1>5. AnswerShaped(d)
  BY <1>4 DEF ReportsHold, ReportsTyped, RequestShaped
<1>6. PICK t : t = now OBVIOUS
<1>7. /\ request[r].at <= d.from /\ d.from <= t
      /\ Reports!Within(d, d.from, t)
  BY <1>2, <1>4, <1>6 DEF ReportsHold, Reports!AnswersInv, Reports!RequestOK
<1>8. PICK v : v = Reports!Aggregate(a, d.restaurants) OBVIOUS
<1>9. PICK f : f = [d.figures EXCEPT ![a] = v] OBVIOUS
<1>10. PICK e : e = [d EXCEPT !.figures = f, !.to = t] OBVIOUS
<1>11. /\ DOMAIN f = Reports!Aggregations /\ f[a] = v
       /\ \A other \in Reports!Aggregations \ {a} : f[other] = d.figures[other]
  BY <1>5, <1>9 DEF AnswerShaped
<1>12. /\ e.restaurants = d.restaurants /\ e.from = d.from /\ e.figures = f
       /\ e.to = t
  BY <1>5, <1>10 DEF AnswerShaped
<1>13. AnswerShaped(e)
  BY <1>3, <1>5, <1>6, <1>10, <1>11, <1>12 DEF AnswerShaped
<1>14. Reports!Within(e, e.from, t)
  <2> DEFINE Possible(b) == Reports!OfBranch(Reports!Throughout(d.from, t), b)
                              ..Reports!OfBranch(Reports!Sometime(d.from, t), b)
  <2>1. ASSUME NEW b \in Locations
        PROVE  Reports!OfBranch(Reports!Completed, b) \in Possible(b)
    <3>1. PICK S, T, U : /\ S = Reports!Sometime(d.from, t)
                         /\ T = Reports!Completed
                         /\ U = Reports!Throughout(d.from, t)
      OBVIOUS
    <3>2. S \in SUBSET Sales /\ T \in SUBSET S /\ U \in SUBSET T
      <4>1. d.from \in Int /\ d.from <= now
        BY <1>3, <1>5, <1>6, <1>7 DEF AnswerShaped, Hours
      <4>2. S \in SUBSET Sales BY <3>1 DEF Reports!Sometime
      <4>3. QED BY <1>6, <3>1, <4>1, <4>2, CompletedNow
    <3>3. /\ Reports!OfBranch(U, b) \in Nat /\ Reports!OfBranch(T, b) \in Nat
          /\ Reports!OfBranch(U, b) <= Reports!OfBranch(T, b)
      BY <3>2, MoreThere
    <3>4. /\ Reports!OfBranch(S, b) \in Nat
          /\ Reports!OfBranch(T, b) <= Reports!OfBranch(S, b)
      BY <3>2, MoreThere
    <3>5. QED BY <3>1, <3>3, <3>4
  <2>2. ASSUME f["byBranch"] # None, NEW b \in Locations,
               DinerOf[b] \in d.restaurants
        PROVE  f["byBranch"][b] \in Possible(b)
    <3>1. CASE a = "byBranch"
      BY <1>6, <1>8, <1>11, <2>1, <2>2, <3>1, CountedNow DEF Reports!Aggregate
    <3>2. CASE a # "byBranch"
      <4>1. f["byBranch"] = d.figures["byBranch"]
        BY <1>11, <3>2 DEF Reports!Aggregations
      <4>2. QED BY <1>7, <2>2, <4>1 DEF Reports!Within
    <3>3. QED BY <3>1, <3>2
  <2>3. ASSUME f["byStatus"] # None, NEW b \in Locations,
               DinerOf[b] \in d.restaurants
        PROVE  f["byStatus"][b]["completed"] \in Possible(b)
    <3>1. CASE a = "byStatus"
      BY <1>6, <1>8, <1>11, <2>1, <2>3, <3>1, CountedNow DEF Reports!Aggregate
    <3>2. CASE a # "byStatus"
      <4>1. f["byStatus"] = d.figures["byStatus"]
        BY <1>11, <3>2 DEF Reports!Aggregations
      <4>2. QED BY <1>7, <2>3, <4>1 DEF Reports!Within
    <3>3. QED BY <3>1, <3>2
  <2>4. ASSUME f["branches"] # None PROVE f["branches"] \subseteq Locations
    <3>1. CASE a = "branches"
      BY <1>8, <1>11, <3>1
         DEF Reports!Aggregate, Reports!KeptBranches, ReportsHold, ReportsTyped
    <3>2. CASE a # "branches"
      <4>1. f["branches"] = d.figures["branches"]
        BY <1>11, <3>2 DEF Reports!Aggregations
      <4>2. QED BY <1>7, <2>4, <4>1 DEF Reports!Within
    <3>3. QED BY <3>1, <3>2
  <2>5. \A x \in Diners : listedAt[x] < d.from => x \in d.restaurants
    BY <1>7 DEF Reports!Within
  <2>6. QED BY <1>12, <2>2, <2>3, <2>4, <2>5 DEF Reports!Within
<1>15. PICK to : to = IF \A other \in Reports!Aggregations : f[other] # None
                      THEN "onboarded" ELSE "counting"
  OBVIOUS
<1>16. Reports!MoveOn(r, to, e)
  BY <1>4, <1>6, <1>8, <1>9, <1>10, <1>15 DEF Reports!Count
<1>17. to \in {"counting", "onboarded"} /\ (to = "onboarded" => Reports!Whole(e))
  BY <1>12, <1>15 DEF Reports!Whole
<1>18. QED
  BY <1>1, <1>2, <1>6, <1>7, <1>12, <1>13, <1>14, <1>16, <1>17, MovesOn
     DEF Counted

LEMMA OnboardedHolds ==
  ASSUME ReportsAssumption, ReportsHold, NEW r \in Readers, Reports!Onboarded(r)
  PROVE  ReportsHold'
<1>1. Steady /\ UNCHANGED <<kept, view>> BY DEF Steady, Reports!Onboarded
<1>2. request[r].step = "onboarded" BY DEF Reports!Onboarded, Reports!Step
<1>3. PICK d : d = request[r].data OBVIOUS
<1>4. /\ AnswerShaped(d) /\ Reports!Whole(d)
      /\ request[r].at <= d.from /\ d.from <= now
      /\ Reports!Within(d, d.from, now)
  BY <1>2, <1>3 DEF ReportsHold, ReportsTyped, RequestShaped,
                    Reports!AnswersInv, Reports!RequestOK
<1>5. Reports!MoveOn(r, "saving", d) BY <1>3 DEF Reports!Onboarded
<1>6. QED BY <1>1, <1>2, <1>4, <1>5, MovesOn DEF Counted

\* What is saved was counted within the computing time, whatever it overwrites.
LEMMA SaveHolds ==
  ASSUME ReportsAssumption, ReportsHold, NEW r \in Readers, Reports!Save(r)
  PROVE  ReportsHold'
<1>1. Steady /\ UNCHANGED kept BY DEF Steady, Reports!Save
<1>2. request[r].step = "saving" BY DEF Reports!Save, Reports!Step
<1>3. PICK d : d = request[r].data OBVIOUS
<1>4. PICK t : t = now OBVIOUS
<1>5. /\ AnswerShaped(d) /\ Reports!Whole(d)
      /\ request[r].at \in Int /\ request[r].at <= d.from /\ d.from <= t
      /\ t <= request[r].at + MaxCompute
      /\ Reports!Within(d, d.from, t)
  BY <1>2, <1>3, <1>4 DEF ReportsHold, ReportsTyped, RequestShaped, Hours,
                          Reports!AnswersInv, Reports!RequestOK
<1>6. t \in Nat /\ d.from \in Int
  BY <1>4, <1>5 DEF ReportsHold, ReportsTyped, AnswerShaped, Hours
<1>7. Reports!Within(d, t - MaxCompute, t)
  BY <1>5, <1>6, WithinWeakens DEF ReportsHold, ReportsAssumption
<1>8. Reports!Within(d, t - (ViewTTL - 1 + 2 * MaxCompute), t)
  BY <1>5, <1>6, WithinWeakens DEF ReportsHold, ReportsAssumption
<1>9. view' = [until |-> t + ViewTTL, payload |-> d] /\ Reports!Answer(r, d)
  BY <1>3, <1>4 DEF Reports!Save
<1>10. (view.until \in Nat /\ AnswerShaped(view.payload))'
  BY <1>5, <1>6, <1>9 DEF AnswerShaped, ReportsAssumption
<1>11. Reports!ViewOK'
  <2>1. view'.until - ViewTTL = t /\ view'.payload = d
    BY <1>6, <1>9 DEF ReportsAssumption
  <2>2. t <= now' BY <1>1, <1>4, <1>6 DEF Steady
  <2>3. Reports!Within(d, t - MaxCompute, t)' BY <1>1, <1>7, WithinSame
  <2>4. QED BY <1>5, <2>1, <2>2, <2>3 DEF Reports!ViewOK, Reports!Whole
<1>12. QED
  BY <1>1, <1>4, <1>5, <1>8, <1>9, <1>10, <1>11, IsAnswered

-----------------------------------------------------------------------------
(* What goes on meanwhile                                                    *)

LEMMA WorldMoves ==
  ASSUME ReportsAssumption, ReportsHold, ReportsTyped', Meanwhile,
         Reports!Recorded', UNCHANGED <<view, request>>,
         \A r \in Readers : request[r].step \notin {"idle", "answered"} =>
           now' <= request[r].at + MaxCompute
  PROVE  ReportsHold'
<1>1. PICK t : t = now OBVIOUS
<1>2. PICK u : u = now' OBVIOUS
<1>3. t \in Nat /\ u \in Nat /\ t <= u
  BY <1>1, <1>2 DEF ReportsHold, ReportsTyped, Hours, Meanwhile
<1>4. Reports!ViewOK'
  <2>1. PICK v : v = view OBVIOUS
  <2>2. v' = v /\ view' = v BY <2>1
  <2>3. v.until \in Nat /\ Reports!ViewOK
    BY <2>1 DEF ReportsHold, ReportsTyped, Reports!AnswersInv
  <2>4. ASSUME v.until > 0
        PROVE  /\ v.until - ViewTTL <= u /\ Reports!Whole(v.payload)
               /\ Reports!Within(v.payload, v.until - ViewTTL - MaxCompute,
                                 v.until - ViewTTL)'
    <3>1. /\ v.until - ViewTTL <= t /\ Reports!Whole(v.payload)
          /\ Reports!Within(v.payload, v.until - ViewTTL - MaxCompute,
                            v.until - ViewTTL)
      BY <1>1, <2>1, <2>3, <2>4 DEF Reports!ViewOK
    <3>2. /\ v.until - ViewTTL \in Int /\ v.until - ViewTTL - MaxCompute \in Int
          /\ v.until - ViewTTL - MaxCompute <= t /\ v.until - ViewTTL <= u
      BY <1>3, <2>3, <3>1 DEF ReportsAssumption
    <3>3. QED BY <1>1, <3>1, <3>2, WithinStays DEF ReportsHold
  <2>5. QED BY <1>2, <2>2, <2>4 DEF Reports!ViewOK, Reports!Whole
<1>5. ASSUME NEW r \in Readers PROVE Reports!RequestOK(request[r])'
  <2>1. PICK q : q = request[r] OBVIOUS
  <2>2. q' = q /\ request'[r] = q BY <2>1
  <2>3. RequestShaped(q) /\ Reports!RequestOK(q)
    BY <2>1 DEF ReportsHold, ReportsTyped, Reports!AnswersInv
  <2>4. /\ q.at <= u
        /\ q.step \notin {"idle", "answered"} => u <= q.at + MaxCompute
    BY <1>1, <1>2, <1>3, <2>1, <2>3
       DEF Reports!RequestOK, RequestShaped, Hours
  <2>5. ASSUME q.step \in {"counting", "onboarded", "saving"}
        PROVE  /\ q.at <= q.data.from /\ q.data.from <= u
               /\ Reports!Within(q.data, q.data.from, u)'
    <3>1. /\ q.at <= q.data.from /\ q.data.from <= t
          /\ Reports!Within(q.data, q.data.from, t) /\ q.data.from \in Int
      BY <1>1, <2>3, <2>5
         DEF Reports!RequestOK, RequestShaped, AnswerShaped, Hours
    <3>2. Reports!Within(q.data, q.data.from, u)'
      BY <1>1, <1>3, <3>1, WithinStays DEF ReportsHold
    <3>3. QED BY <1>3, <3>1, <3>2
  <2>6. ASSUME q.step = "answered"
        PROVE  LET recent == q.answeredAt - (ViewTTL - 1 + 2 * MaxCompute)
               IN  /\ q.answeredAt <= u
                   /\ Reports!Whole(q.data)
                   /\ Reports!Within(q.data, recent, q.answeredAt)'
    <3> DEFINE recent == q.answeredAt - (ViewTTL - 1 + 2 * MaxCompute)
    <3>1. /\ q.answeredAt <= t /\ q.answeredAt \in Int
          /\ Reports!Whole(q.data) /\ Reports!Within(q.data, recent, q.answeredAt)
      BY <1>1, <2>3, <2>6 DEF Reports!RequestOK, RequestShaped, Hours
    <3>2. recent \in Int /\ recent <= t
      BY <1>3, <3>1 DEF ReportsAssumption
    <3> HIDE DEF recent
    <3>3. Reports!Within(q.data, recent, q.answeredAt)'
      BY <1>1, <3>1, <3>2, WithinStays DEF ReportsHold
    <3>4. QED BY <1>3, <3>1, <3>3 DEF recent
  <2>7. Reports!RequestOK(q)'
    BY <1>2, <2>3, <2>4, <2>5, <2>6 DEF Reports!RequestOK, Reports!Whole
  <2>8. QED BY <2>2, <2>7
<1>6. QED BY <1>4, <1>5 DEF ReportsHold, Reports!AnswersInv

LEMMA KeptAsShaped ==
  ASSUME ReportsTyped, UNCHANGED <<view, request>>, now' \in Hours,
         listedAt' \in [Diners -> 0..(LastHour + 1)],
         orderStatus' \in [Sales -> {"open", "completed", "gone"}],
         DOMAIN been' = Sales, kept' \subseteq Locations
  PROVE  ReportsTyped'
<1>1. PICK v : v = view OBVIOUS
<1>2. v' = v /\ view' = v /\ AnswerShaped(v.payload)
  BY <1>1 DEF ReportsTyped
<1>3. AnswerShaped(view.payload)' BY <1>2 DEF AnswerShaped
<1>4. PICK q : q = request OBVIOUS
<1>5. request' = q /\ \A r \in Readers : RequestShaped(q[r])
  BY <1>4 DEF ReportsTyped
<1>6. \A r \in Readers : RequestShaped(request[r])'
  BY <1>5 DEF RequestShaped, AnswerShaped
<1>7. QED BY <1>3, <1>6 DEF ReportsTyped

LEMMA NotOverdue ==
  ASSUME ReportsHold, UNCHANGED now, NEW r \in Readers,
         request[r].step \notin {"idle", "answered"}
  PROVE  now' <= request[r].at + MaxCompute
BY DEF ReportsHold, Reports!AnswersInv, Reports!RequestOK

LEMMA ListHolds ==
  ASSUME ReportsAssumption, ReportsHold, NEW x \in Diners, Reports!List(x)
  PROVE  ReportsHold'
<1>1. now \in 0..LastHour /\ LastHour \in Nat
  BY DEF ReportsHold, ReportsTyped, Hours, ReportsAssumption
<1>2. now \in 0..(LastHour + 1) BY <1>1
<1>3. ReportsTyped'
  BY <1>2, KeptAsShaped DEF Reports!List, ReportsHold, ReportsTyped
<1>4. Meanwhile
  BY <1>1 DEF Meanwhile, Reports!List, ReportsHold, ReportsTyped
<1>5. Reports!Recorded'
  BY DEF Reports!List, ReportsHold, Reports!AnswersInv, Reports!Recorded
<1>6. QED BY <1>3, <1>4, <1>5, NotOverdue, WorldMoves DEF Reports!List

LEMMA StatusHolds ==
  ASSUME ReportsAssumption, ReportsHold, NEW o \in Sales,
         NEW to \in {"open", "completed", "gone"}, Reports!SetStatus(o, to)
  PROVE  ReportsHold' /\ Meanwhile
<1>1. now \in Int BY DEF ReportsHold, ReportsTyped, Hours
<1>2. ReportsTyped'
  BY KeptAsShaped DEF Reports!SetStatus, ReportsHold, ReportsTyped
<1>3. /\ orderStatus'[o] = to /\ been'[o] = been[o] \cup {<<now, to>>}
      /\ \A p \in Sales \ {o} :
           orderStatus'[p] = orderStatus[p] /\ been'[p] = been[p]
  BY DEF Reports!SetStatus, ReportsHold, ReportsTyped
<1>4. Meanwhile BY <1>1, <1>3 DEF Meanwhile, Reports!SetStatus
<1>5. Reports!Recorded'
  <2>1. Reports!Recorded /\ now' = now
    BY DEF ReportsHold, Reports!AnswersInv, Reports!SetStatus
  <2>2. QED BY <1>3, <2>1 DEF Reports!Recorded
<1>6. ReportsHold'
  BY <1>2, <1>4, <1>5, NotOverdue, WorldMoves DEF Reports!SetStatus
<1>7. QED BY <1>4, <1>6

LEMMA DeleteHolds ==
  ASSUME ReportsAssumption, ReportsHold, NEW b \in Locations,
         Reports!DeleteBranch(b)
  PROVE  ReportsHold'
<1>1. now \in 0..LastHour /\ LastHour \in Nat
  BY DEF ReportsHold, ReportsTyped, Hours, ReportsAssumption
<1>2. ReportsTyped'
  BY KeptAsShaped DEF Reports!DeleteBranch, ReportsHold, ReportsTyped
<1>3. Meanwhile BY <1>1 DEF Meanwhile, Reports!DeleteBranch
<1>4. Reports!Recorded'
  BY DEF Reports!DeleteBranch, ReportsHold, Reports!AnswersInv, Reports!Recorded
<1>5. QED BY <1>2, <1>3, <1>4, NotOverdue, WorldMoves DEF Reports!DeleteBranch

LEMMA TickHolds ==
  ASSUME ReportsAssumption, ReportsHold, Reports!Tick
  PROVE  ReportsHold'
<1>1. now \in 0..LastHour /\ LastHour \in Nat /\ now' = now + 1 /\ now < LastHour
  BY DEF ReportsHold, ReportsTyped, Hours, ReportsAssumption, Reports!Tick
<1>2. ReportsTyped'
  BY <1>1, KeptAsShaped DEF Hours, Reports!Tick, ReportsHold, ReportsTyped
<1>3. \A o \in Sales : been'[o] = been[o] \cup {<<now + 1, orderStatus[o]>>}
  BY DEF Reports!Tick
<1>4. Meanwhile BY <1>1, <1>3 DEF Meanwhile, Reports!Tick
<1>5. Reports!Recorded'
  <2>1. Reports!Recorded /\ orderStatus' = orderStatus
    BY DEF ReportsHold, Reports!AnswersInv, Reports!Tick
  <2>2. \A o \in Sales : orderStatus[o] \in {"open", "completed", "gone"}
    BY DEF ReportsHold, ReportsTyped
  <2>3. ASSUME NEW o \in Sales, NEW t \in 0..(now + 1)
        PROVE  \E s \in {"open", "completed", "gone"} : <<t, s>> \in been'[o]
    <3>1. CASE t = now + 1 BY <1>3, <2>2, <3>1
    <3>2. CASE t \in 0..now BY <1>3, <2>1, <3>2 DEF Reports!Recorded
    <3>3. QED BY <1>1, <3>1, <3>2
  <2>4. QED BY <1>1, <1>3, <2>1, <2>3 DEF Reports!Recorded
<1>6. ASSUME NEW r \in Readers, request[r].step \notin {"idle", "answered"}
      PROVE  now' <= request[r].at + MaxCompute
  <2>1. request[r].at \in Int /\ request[r].step # "idle"
    BY <1>6 DEF ReportsHold, ReportsTyped, RequestShaped, Hours
  <2>2. now < request[r].at + MaxCompute
    BY <1>6 DEF Reports!Tick, Reports!Running, Reports!Step
  <2>3. QED BY <1>1, <2>1, <2>2 DEF ReportsAssumption
<1>7. QED BY <1>2, <1>4, <1>5, <1>6, WorldMoves DEF Reports!Tick

LEMMA ReportsStep ==
  ReportsAssumption /\ ReportsHold /\ Reports!Next => ReportsHold'
<1> SUFFICES ASSUME ReportsAssumption, ReportsHold, Reports!Next
             PROVE  ReportsHold'
  OBVIOUS
<1>1. ASSUME NEW r \in Readers, Reports!Begin(r) PROVE ReportsHold'
  BY <1>1, BeginHolds
<1>2. ASSUME NEW r \in Readers, Reports!Lookup(r) PROVE ReportsHold'
  BY <1>2, LookupHolds
<1>3. ASSUME NEW r \in Readers, Reports!Menu(r) PROVE ReportsHold'
  BY <1>3, MenuHolds
<1>4. ASSUME NEW r \in Readers, Reports!Onboarded(r) PROVE ReportsHold'
  BY <1>4, OnboardedHolds
<1>5. ASSUME NEW r \in Readers, Reports!Save(r) PROVE ReportsHold'
  BY <1>5, SaveHolds
<1>6. ASSUME NEW r \in Readers, Reports!Fail(r) PROVE ReportsHold'
  BY <1>6, FailHolds
<1>7. ASSUME NEW r \in Readers, NEW a \in Reports!Aggregations,
             Reports!Count(r, a)
      PROVE  ReportsHold'
  BY <1>7, CountHolds
<1>8. ASSUME NEW x \in Diners, Reports!List(x) PROVE ReportsHold'
  BY <1>8, ListHolds
<1>9. ASSUME NEW o \in Sales, Reports!Update(o) \/ Reports!DeleteOrder(o)
      PROVE  ReportsHold'
  BY <1>9, StatusHolds
     DEF Reports!Update, Reports!DeleteOrder, Reports!Statuses
<1>10. ASSUME NEW b \in Locations, Reports!DeleteBranch(b) PROVE ReportsHold'
  BY <1>10, DeleteHolds
<1>11. ASSUME Reports!Tick PROVE ReportsHold' BY <1>11, TickHolds
<1>12. QED
  BY <1>1, <1>2, <1>3, <1>4, <1>5, <1>6, <1>7, <1>8, <1>9, <1>10, <1>11
     DEF Reports!Next

LEMMA ReportsIdle ==
  ASSUME ReportsHold, UNCHANGED reports PROVE ReportsHold'
<1>1. Steady /\ UNCHANGED <<kept, view, request>> BY DEF Steady, reports
<1>2. ReportsTyped'
  BY <1>1, KeptAsShaped DEF Steady, ReportsHold, ReportsTyped
<1>3. ASSUME NEW r \in Readers PROVE Reports!RequestOK(request[r])'
  <2>1. PICK q : q = request[r] OBVIOUS
  <2>2. Reports!RequestOK(q) BY <2>1 DEF ReportsHold, Reports!AnswersInv
  <2>3. request'[r] = q BY <1>1, <2>1
  <2>4. QED BY <1>1, <2>2, <2>3, RequestSame
<1>4. Reports!Recorded'
  BY <1>1 DEF ReportsHold, Reports!AnswersInv, Steady, Reports!Recorded
<1>5. QED BY <1>1, <1>2, <1>3, <1>4, ViewStays DEF ReportsHold, Reports!AnswersInv

\* What the requests keep is what the answers promise.
LEMMA KeepsRecent == ReportsAssumption /\ ReportsHold => AnswersRecent
<1> SUFFICES ASSUME ReportsAssumption, ReportsHold PROVE AnswersRecent OBVIOUS
<1> SUFFICES ASSUME NEW r \in Reports!Answered
             PROVE  LET data == request[r].data
                        until == request[r].answeredAt
                        from == until - (ViewTTL - 1 + 2 * MaxCompute)
                    IN /\ \A x \in Diners :
                            (listedAt[x] < from) => x \in data.restaurants
                       /\ \A x \in data.restaurants :
                            LET branches ==
                                  Reports!RestaurantDetails(data, x).branches
                            IN \A b \in DOMAIN branches :
                               \A n \in {branches[b].totalOrders,
                                         branches[b].byStatus["completed"]} :
                                 /\ n >= Reports!OfBranch(
                                           Reports!Throughout(from, until), b)
                                 /\ n <= Reports!OfBranch(
                                           Reports!Sometime(from, until), b)
  BY DEF AnswersRecent, Reports!AnswersRecent
<1>1. r \in Readers /\ request[r].step = "answered"
  BY DEF Reports!Answered, Reports!Step
<1>2. PICK d : d = request[r].data OBVIOUS
<1>3. PICK u : u = request[r].answeredAt OBVIOUS
<1>4. PICK from : from = u - (ViewTTL - 1 + 2 * MaxCompute) OBVIOUS
<1>5. Reports!Whole(d) /\ Reports!Within(d, from, u)
  BY <1>1, <1>2, <1>3, <1>4 DEF ReportsHold, Reports!AnswersInv, Reports!RequestOK
<1>6. ASSUME NEW b
      PROVE  /\ Reports!OfBranch(Reports!Throughout(from, u), b) \in Nat
             /\ Reports!OfBranch(Reports!Sometime(from, u), b) \in Nat
  <2>1. PICK S, T : S = Reports!Throughout(from, u) /\ T = Reports!Sometime(from, u)
    OBVIOUS
  <2>2. S \in SUBSET Sales /\ T \in SUBSET Sales
    BY <2>1 DEF Reports!Throughout, Reports!Sometime
  <2>3. S \in SUBSET S /\ T \in SUBSET T OBVIOUS
  <2>4. Reports!OfBranch(S, b) \in Nat BY <2>2, <2>3, MoreThere
  <2>5. Reports!OfBranch(T, b) \in Nat BY <2>2, <2>3, MoreThere
  <2>6. QED BY <2>1, <2>4, <2>5
<1>7. \A x \in Diners : listedAt[x] < from => x \in d.restaurants
  BY <1>5 DEF Reports!Within
<1>8. ASSUME NEW x \in d.restaurants
      PROVE  LET branches == Reports!RestaurantDetails(d, x).branches
             IN \A b \in DOMAIN branches :
                \A n \in {branches[b].totalOrders,
                          branches[b].byStatus["completed"]} :
                  /\ n >= Reports!OfBranch(Reports!Throughout(from, u), b)
                  /\ n <= Reports!OfBranch(Reports!Sometime(from, u), b)
  <2> DEFINE Here == {b \in d.figures["branches"] : DinerOf[b] = x}
             branches == Reports!RestaurantDetails(d, x).branches
  <2>1. branches = [b \in Here |-> [totalOrders |-> d.figures["byBranch"][b],
                                    byStatus |-> d.figures["byStatus"][b]]]
    BY DEF Reports!RestaurantDetails
  <2>2. /\ d.figures["branches"] # None /\ d.figures["byBranch"] # None
        /\ d.figures["byStatus"] # None
    BY <1>5, <1>8 DEF Reports!Whole, Reports!Aggregations
  <2>3. Here \subseteq Locations BY <1>5, <2>2 DEF Reports!Within
  <2>4. ASSUME NEW b \in Here
        PROVE  \A n \in {d.figures["byBranch"][b],
                         d.figures["byStatus"][b]["completed"]} :
                 /\ n >= Reports!OfBranch(Reports!Throughout(from, u), b)
                 /\ n <= Reports!OfBranch(Reports!Sometime(from, u), b)
    <3>1. b \in Locations /\ DinerOf[b] \in d.restaurants BY <2>3, <1>8
    <3>2. {d.figures["byBranch"][b], d.figures["byStatus"][b]["completed"]}
            \subseteq Reports!OfBranch(Reports!Throughout(from, u), b)
                        ..Reports!OfBranch(Reports!Sometime(from, u), b)
      BY <1>5, <2>2, <3>1 DEF Reports!Within
    <3>3. QED BY <1>6, <3>2
  <2> HIDE DEF Here, branches
  <2>5. QED BY <2>1, <2>4 DEF branches
<1>9. QED BY <1>2, <1>3, <1>4, <1>7, <1>8

\* By itself or beside the coupons and the reviews: an answer about the
\* restaurants is never older than what was kept, what computed it and what
\* asked for it allow, however many requests compute it at once and overwrite
\* one another's document (user.service.ts, getAnalytics).
THEOREM AnswersStayRecent == Reports!Spec => []Reports!AnswersRecent
<1>1. ReportsAssumption BY ReportsAssumption
<1>2. Reports!Init => ReportsHold BY <1>1, ReportsBegin
<1>3. ReportsHold /\ [Reports!Next]_Reports!vars => ReportsHold'
  BY <1>1, ReportsStep, ReportsIdle DEF Reports!vars, reports
<1>4. ReportsHold => Reports!AnswersRecent BY <1>1, KeepsRecent DEF AnswersRecent
<1>5. QED BY <1>2, <1>3, <1>4, PTL DEF Reports!Spec

\* The same of the answers beside coupons and reviews (user.service.ts).
THEOREM ReportsStayRecent == MCSpec => []AnswersRecent
<1>1. ReportsAssumption BY ReportsAssumption
<1>2. MCInit => ReportsHold BY <1>1, ReportsBegin DEF MCInit
<1>3. ReportsHold /\ [MCNext]_<<vars, part, calm, reports, rated>> => ReportsHold'
  BY <1>1, ReportsStep, ReportsIdle DEF MCNext, reports
<1>4. ReportsHold => AnswersRecent BY <1>1, KeepsRecent
<1>5. QED BY <1>2, <1>3, <1>4, PTL DEF MCSpec

-----------------------------------------------------------------------------
(* Reviews: what stays of them, and the ratings that are shown               *)

LEMMA SameCount == ASSUME NEW T PROVE Rated!Cardinality(T) = Cardinality(T)
BY Zenon DEF Rated!Cardinality, Cardinality

LEMMA SameSum ==
  ASSUME NEW f PROVE Rated!SumFunction(f) = SumOn(f, DOMAIN f)
BY DEF Rated!SumFunction, Rated!SumFunctionOnSet, Rated!FoldFunctionOnSet,
       Rated!MapThenFoldSet, SumOn, SumFunctionOnSet, FoldFunctionOnSet,
       MapThenFoldSet

GivenReview == [order : Meals, target : Dishes, rating : Stars]
StoredReview == [id : Guests, order : Meals, target : Dishes, rating : Stars]
AskedShape(j) ==
  j \in [target : Dishes, own : {j.own}, all : {j.all}, first : Nat,
         any : BOOLEAN, shown : {j.shown}]
GuestShape(at, j) ==
  /\ at = "insert" => j \in GivenReview
  /\ at = "asked" => AskedShape(j)
  /\ at = "done" => j \in GivenReview \/ AskedShape(j)
RatingsTyped ==
  /\ reviews \in SUBSET StoredReview /\ IsFiniteSet(reviews)
  /\ done \subseteq Meals /\ DOMAIN status = Meals
  /\ place = [r \in Guests |-> place[r]] /\ review = [r \in Guests |-> review[r]]
  /\ \A r \in Guests : GuestShape(place[r], review[r])
RatingsHold == RatingsTyped /\ Rated!ReviewsInv

\* Reviews are only added, and what was completed has been.
Adding ==
  /\ reviews \subseteq reviews' /\ reviews' \in SUBSET StoredReview
  /\ IsFiniteSet(reviews') /\ done \subseteq done'

LEMMA OwnGrows ==
  ASSUME RatingsHold, Adding, NEW t
  PROVE  /\ Rated!Own(t) \subseteq Rated!Own(t)'
         /\ Rated!Cardinality(Rated!Own(t)) \in Nat
         /\ Rated!Cardinality(Rated!Own(t))' \in Nat
         /\ Rated!Cardinality(Rated!Own(t)) <= Rated!Cardinality(Rated!Own(t))'
<1> DEFINE O == {v \in reviews : v.target = t}
           P == {v \in reviews' : v.target = t}
<1>1. O \subseteq P /\ O \in SUBSET reviews /\ P \in SUBSET reviews'
  BY DEF Adding
<1>2. IsFiniteSet(reviews) /\ IsFiniteSet(reviews')
  BY DEF Adding, RatingsHold, RatingsTyped
<1>3. Rated!Own(t) = O /\ Rated!Own(t)' = P BY DEF Rated!Own
<1>4. /\ Rated!Cardinality(Rated!Own(t)) = Rated!Cardinality(O)
      /\ Rated!Cardinality(Rated!Own(t))' = Rated!Cardinality(P)
  BY <1>3
<1> HIDE DEF O, P
<1>5. IsFiniteSet(O) /\ IsFiniteSet(P) BY <1>1, <1>2, FS_Subset
<1>6. /\ Rated!Cardinality(O) \in Nat /\ Rated!Cardinality(P) \in Nat
      /\ Rated!Cardinality(O) <= Rated!Cardinality(P)
  BY <1>1, <1>5, FS_Subset, FS_CardinalityType, SameCount
<1>7. QED BY <1>1, <1>3, <1>4, <1>6

\* What a request holds stays right while reviews are added.
LEMMA StaysRight ==
  ASSUME RatingsHold, Adding, NEW at, NEW j, GuestShape(at, j),
         Rated!RequestOK(at, j)
  PROVE  Rated!RequestOK(at, j)'
<1>1. ASSUME Rated!AveragesOK(j), AskedShape(j) PROVE Rated!AveragesOK(j)'
  <2>1. j.first \in Nat BY <1>1 DEF AskedShape
  <2>2. /\ j.first <= Rated!Cardinality(Rated!Own(j.target))
        /\ j.any => reviews # {}
        /\ j.own # None => \E S \in SUBSET Rated!Own(j.target) :
             j.own = Rated!Figures(S) /\ j.first <= Rated!Cardinality(S)
        /\ j.all # None => \E S \in SUBSET reviews :
             j.all = Rated!Figures(S) /\ (j.any => S # {})
    BY <1>1 DEF Rated!AveragesOK
  <2>3. PICK O : O = Rated!Own(j.target)' OBVIOUS
  <2>4. j.first <= Rated!Cardinality(Rated!Own(j.target))'
    BY <2>1, <2>2, OwnGrows
  <2>5. j.any => reviews' # {} BY <2>2 DEF Adding
  <2>6. j.own # None => \E S \in SUBSET Rated!Own(j.target)' :
          j.own = Rated!Figures(S) /\ j.first <= Rated!Cardinality(S)
    BY <2>2, OwnGrows
  <2>7. j.all # None => \E S \in SUBSET reviews' :
          j.all = Rated!Figures(S) /\ (j.any => S # {})
    BY <2>2 DEF Adding
  <2>8. QED BY <2>4, <2>5, <2>6, <2>7 DEF Rated!AveragesOK
<1>2. CASE at = "insert" BY <1>2 DEF Rated!RequestOK, Adding
<1>3. CASE at = "asked" BY <1>1, <1>3 DEF Rated!RequestOK, GuestShape
<1>4. CASE at = "done" /\ "shown" \in DOMAIN j
  <2>1. AskedShape(j) BY <1>4 DEF GuestShape, GivenReview
  <2>2. QED BY <1>1, <1>4, <2>1 DEF Rated!RequestOK
<1>5. QED BY <1>2, <1>3, <1>4 DEF Rated!RequestOK

\* A request comes to a place with what it holds there.
LEMMA GuestMoves ==
  ASSUME RatingsHold, Adding, UNCHANGED <<status, done>>,
         NEW r \in Guests, NEW at, NEW j,
         place' = [place EXCEPT ![r] = at], review' = [review EXCEPT ![r] = j],
         GuestShape(at, j), Rated!RequestOK(at, j)', Rated!ReviewedCompleted'
  PROVE  RatingsHold'
<1>1. /\ place' = [s \in Guests |-> place'[s]]
      /\ review' = [s \in Guests |-> review'[s]]
      /\ place'[r] = at /\ review'[r] = j
      /\ \A s \in Guests \ {r} : place'[s] = place[s] /\ review'[s] = review[s]
  BY DEF RatingsHold, RatingsTyped
<1>2. ASSUME NEW s \in Guests
      PROVE  /\ GuestShape(place'[s], review'[s])
             /\ Rated!RequestOK(place[s], review[s])'
  <2>1. PICK p : p = place'[s] OBVIOUS
  <2>2. PICK k : k = review'[s] OBVIOUS
  <2>3. CASE s = r BY <1>1, <2>3
  <2>4. CASE s # r
    <3>1. place[s] = p /\ review[s] = k BY <1>1, <2>1, <2>2, <2>4
    <3>2. GuestShape(p, k) /\ Rated!RequestOK(p, k)
      BY <3>1 DEF RatingsHold, RatingsTyped, Rated!ReviewsInv
    <3>3. Rated!RequestOK(p, k)' BY <3>2, StaysRight
    <3>4. QED BY <2>1, <2>2, <3>2, <3>3
  <2>5. QED BY <2>3, <2>4
<1>3. RatingsTyped'
  BY <1>1, <1>2 DEF RatingsHold, RatingsTyped, Adding
<1>4. Rated!ReviewsInv'
  BY <1>2 DEF RatingsHold, Rated!ReviewsInv
<1>5. QED BY <1>3, <1>4 DEF RatingsHold

LEMMA SameReviews ==
  ASSUME RatingsHold, UNCHANGED <<reviews, done>>
  PROVE  Adding /\ Rated!ReviewedCompleted'
BY DEF RatingsHold, RatingsTyped, Rated!ReviewsInv, Rated!ReviewedCompleted, Adding

LEMMA RatedBegin == Rated!Init => RatingsHold
<1> SUFFICES ASSUME Rated!Init PROVE RatingsHold OBVIOUS
<1>1. RatingsTyped
  BY FS_EmptySet DEF Rated!Init, RatingsTyped, GuestShape
<1>2. Rated!ReviewsInv
  BY DEF Rated!Init, Rated!ReviewsInv, Rated!ReviewedCompleted, Rated!RequestOK
<1>3. QED BY <1>1, <1>2 DEF RatingsHold

LEMMA ReviewCreated ==
  ASSUME RatingsHold, NEW r \in Guests, NEW o \in Meals, NEW t \in Dishes,
         NEW stars \in Stars, Rated!CreateReview(r, o, t, stars)
  PROVE  RatingsHold'
<1>1. PICK j : j = [order |-> o, target |-> t, rating |-> stars] OBVIOUS
<1>2. /\ place' = [place EXCEPT ![r] = "insert"]
      /\ review' = [review EXCEPT ![r] = j]
      /\ UNCHANGED <<status, reviews, done>> /\ status[o] = "completed"
  BY <1>1 DEF Rated!CreateReview, Rated!Start
<1>3. GuestShape("insert", j) BY <1>1 DEF GuestShape, GivenReview
<1>4. o \in done BY <1>2 DEF RatingsHold, Rated!ReviewsInv
<1>5. Rated!RequestOK("insert", j)'
  BY <1>1, <1>2, <1>4 DEF Rated!RequestOK
<1>6. QED BY <1>2, <1>3, <1>5, SameReviews, GuestMoves

LEMMA ReviewInserted ==
  ASSUME RatingsHold, NEW r \in Guests, Rated!Insert(r)
  PROVE  RatingsHold'
<1>1. PICK j : j = review[r] OBVIOUS
<1>2. /\ place[r] = "insert" /\ place' = [place EXCEPT ![r] = "done"]
      /\ UNCHANGED <<status, done, review>>
  BY DEF Rated!Insert
<1>3. j \in GivenReview /\ j.order \in done
  BY <1>1, <1>2
     DEF RatingsHold, RatingsTyped, GuestShape, Rated!ReviewsInv, Rated!RequestOK
<1>4. review' = [review EXCEPT ![r] = j]
  BY <1>1, <1>2 DEF RatingsHold, RatingsTyped
<1>5. PICK v : v = [id |-> r, order |-> j.order, target |-> j.target,
                    rating |-> j.rating]
  OBVIOUS
<1>6. v \in StoredReview /\ v.order = j.order /\ v.target = j.target
  BY <1>3, <1>5 DEF GivenReview, StoredReview
<1>7. \/ reviews' = reviews
      \/ reviews' = reviews \cup {v}
  BY <1>1, <1>5 DEF Rated!Insert
<1>8. Adding
  BY <1>2, <1>6, <1>7, FS_AddElement DEF Adding, RatingsHold, RatingsTyped
<1>9. Rated!ReviewedCompleted'
  BY <1>2, <1>3, <1>6, <1>7
     DEF RatingsHold, Rated!ReviewsInv, Rated!ReviewedCompleted
<1>10. GuestShape("done", j) BY <1>3 DEF GuestShape
<1>11. Rated!RequestOK("done", j)' BY <1>3 DEF Rated!RequestOK, GivenReview
<1>12. QED BY <1>2, <1>4, <1>8, <1>9, <1>10, <1>11, GuestMoves

LEMMA AveragesAsked ==
  ASSUME RatingsHold, NEW r \in Guests, NEW t \in Dishes, Rated!Averages(r, t)
  PROVE  RatingsHold'
<1>1. PICK n : n = Rated!Cardinality(Rated!Own(t)) OBVIOUS
<1>2. PICK any : any = (reviews # {}) OBVIOUS
<1>3. PICK j : j = [target |-> t, own |-> None, all |-> None, first |-> n,
                    any |-> any, shown |-> None]
  OBVIOUS
<1>4. /\ place' = [place EXCEPT ![r] = "asked"]
      /\ review' = [review EXCEPT ![r] = j]
      /\ UNCHANGED <<status, reviews, done>>
  BY <1>1, <1>2, <1>3 DEF Rated!Averages, Rated!Start
<1>5. Adding BY <1>4, SameReviews
<1>6. n \in Nat /\ n <= Rated!Cardinality(Rated!Own(t))'
  BY <1>1, <1>5, OwnGrows
<1>7. any \in BOOLEAN /\ (any => reviews' # {}) BY <1>2, <1>4
<1>8. GuestShape("asked", j)
  BY <1>3, <1>6, <1>7 DEF GuestShape, AskedShape
<1>9. Rated!AveragesOK(j)'
  BY <1>3, <1>6, <1>7 DEF Rated!AveragesOK
<1>10. Rated!RequestOK("asked", j)' BY <1>9 DEF Rated!RequestOK
<1>11. QED BY <1>4, <1>5, <1>8, <1>10, SameReviews, GuestMoves

LEMMA OwnAnswered ==
  ASSUME RatingsHold, NEW r \in Guests, Rated!OwnAnswer(r)
  PROVE  RatingsHold'
<1>1. PICK j : j = review[r] OBVIOUS
<1>2. /\ place[r] = "asked" /\ UNCHANGED <<status, reviews, done, place>>
      /\ j.own = None
  BY <1>1 DEF Rated!OwnAnswer
<1>3. AskedShape(j) /\ Rated!AveragesOK(j)
  BY <1>1, <1>2
     DEF RatingsHold, RatingsTyped, GuestShape, Rated!ReviewsInv, Rated!RequestOK
<1>4. PICK O : O = Rated!Own(j.target) OBVIOUS
<1>5. PICK k : k = [j EXCEPT !.own = Rated!Figures(O)] OBVIOUS
<1>6. /\ k.target = j.target /\ k.own = Rated!Figures(O) /\ k.all = j.all
      /\ k.first = j.first /\ k.any = j.any /\ AskedShape(k)
  BY <1>3, <1>5 DEF AskedShape
<1>7. /\ place' = [place EXCEPT ![r] = "asked"]
      /\ review' = [review EXCEPT ![r] = k]
  BY <1>1, <1>2, <1>4, <1>5 DEF Rated!OwnAnswer, RatingsHold, RatingsTyped
<1>8. Adding /\ Rated!ReviewedCompleted' BY <1>2, SameReviews
<1>9. Rated!AveragesOK(k)
  BY <1>3, <1>4, <1>6 DEF Rated!AveragesOK
<1>10. GuestShape("asked", k) /\ Rated!RequestOK("asked", k)
  BY <1>6, <1>9 DEF GuestShape, Rated!RequestOK
<1>11. QED BY <1>2, <1>7, <1>8, <1>10, StaysRight, GuestMoves

LEMMA AllAnswered ==
  ASSUME RatingsHold, NEW r \in Guests, Rated!AllAnswer(r)
  PROVE  RatingsHold'
<1>1. PICK j : j = review[r] OBVIOUS
<1>2. /\ place[r] = "asked" /\ UNCHANGED <<status, reviews, done, place>>
  BY <1>1 DEF Rated!AllAnswer
<1>3. AskedShape(j) /\ Rated!AveragesOK(j)
  BY <1>1, <1>2
     DEF RatingsHold, RatingsTyped, GuestShape, Rated!ReviewsInv, Rated!RequestOK
<1>4. PICK O : O = reviews OBVIOUS
<1>5. PICK k : k = [j EXCEPT !.all = Rated!Figures(O)] OBVIOUS
<1>6. /\ k.target = j.target /\ k.own = j.own /\ k.all = Rated!Figures(O)
      /\ k.first = j.first /\ k.any = j.any /\ AskedShape(k)
  BY <1>3, <1>5 DEF AskedShape
<1>7. /\ place' = [place EXCEPT ![r] = "asked"]
      /\ review' = [review EXCEPT ![r] = k]
  BY <1>1, <1>2, <1>4, <1>5 DEF Rated!AllAnswer, RatingsHold, RatingsTyped
<1>8. Adding /\ Rated!ReviewedCompleted' BY <1>2, SameReviews
<1>9. Rated!AveragesOK(k)
  BY <1>3, <1>4, <1>6 DEF Rated!AveragesOK
<1>10. GuestShape("asked", k) /\ Rated!RequestOK("asked", k)
  BY <1>6, <1>9 DEF GuestShape, Rated!RequestOK
<1>11. QED BY <1>2, <1>7, <1>8, <1>10, StaysRight, GuestMoves

LEMMA RatingShown ==
  ASSUME RatingsHold, NEW r \in Guests, Rated!Show(r)
  PROVE  RatingsHold'
<1>1. PICK j : j = review[r] OBVIOUS
<1>2. /\ place[r] = "asked" /\ UNCHANGED <<status, reviews, done>>
      /\ j.own # None /\ j.all # None /\ place' = [place EXCEPT ![r] = "done"]
  BY <1>1 DEF Rated!Show
<1>3. AskedShape(j) /\ Rated!AveragesOK(j)
  BY <1>1, <1>2
     DEF RatingsHold, RatingsTyped, GuestShape, Rated!ReviewsInv, Rated!RequestOK
<1>4. PICK k : k = [j EXCEPT !.shown = Rated!Bayesian(j.own, j.all)] OBVIOUS
<1>5. /\ k.target = j.target /\ k.own = j.own /\ k.all = j.all
      /\ k.first = j.first /\ k.any = j.any
      /\ k.shown = Rated!Bayesian(j.own, j.all) /\ AskedShape(k)
  BY <1>3, <1>4 DEF AskedShape
<1>6. review' = [review EXCEPT ![r] = k]
  BY <1>1, <1>4 DEF Rated!Show, RatingsHold, RatingsTyped
<1>7. Adding /\ Rated!ReviewedCompleted' BY <1>2, SameReviews
<1>8. Rated!AveragesOK(k) BY <1>3, <1>5 DEF Rated!AveragesOK
<1>9. GuestShape("done", k) /\ Rated!RequestOK("done", k)
  BY <1>2, <1>5, <1>8 DEF GuestShape, Rated!RequestOK
<1>10. QED BY <1>2, <1>6, <1>7, <1>9, StaysRight, GuestMoves

LEMMA GuestFails ==
  ASSUME RatingsHold, NEW r \in Guests, Rated!Fail(r)
  PROVE  RatingsHold'
<1>1. PICK j : j = review[r] OBVIOUS
<1>2. /\ UNCHANGED <<status, reviews, done>>
      /\ place' = [place EXCEPT ![r] = "failed"]
      /\ review' = [review EXCEPT ![r] = j]
  BY <1>1 DEF Rated!Fail, RatingsHold, RatingsTyped
<1>3. GuestShape("failed", j) /\ Rated!RequestOK("failed", j)'
  BY DEF GuestShape, Rated!RequestOK
<1>4. QED BY <1>2, <1>3, SameReviews, GuestMoves

LEMMA MealChanges ==
  ASSUME RatingsHold, NEW o \in Meals, NEW s, Rated!SetStatus(o, s)
  PROVE  RatingsHold'
<1>1. /\ status' = [status EXCEPT ![o] = s]
      /\ done' = IF s = "completed" THEN done \cup {o} ELSE done
      /\ UNCHANGED <<reviews, place, review>>
  BY DEF Rated!SetStatus
<1>2. Adding BY <1>1 DEF Adding, RatingsHold, RatingsTyped
<1>3. RatingsTyped'
  BY <1>1 DEF RatingsHold, RatingsTyped, GuestShape, AskedShape
<1>4. Rated!ReviewedCompleted'
  BY <1>1 DEF RatingsHold, Rated!ReviewsInv, Rated!ReviewedCompleted
<1>5. {p \in Meals : status'[p] = "completed"} \subseteq done'
  BY <1>1 DEF RatingsHold, RatingsTyped, Rated!ReviewsInv
<1>6. ASSUME NEW r \in Guests PROVE Rated!RequestOK(place[r], review[r])'
  <2>1. PICK at : at = place[r] OBVIOUS
  <2>2. PICK j : j = review[r] OBVIOUS
  <2>3. GuestShape(at, j) /\ Rated!RequestOK(at, j)
    BY <2>1, <2>2 DEF RatingsHold, RatingsTyped, Rated!ReviewsInv
  <2>4. Rated!RequestOK(at, j)' BY <1>2, <2>3, StaysRight
  <2>5. place'[r] = at /\ review'[r] = j BY <1>1, <2>1, <2>2
  <2>6. QED BY <2>4, <2>5
<1>7. QED BY <1>3, <1>4, <1>5, <1>6 DEF RatingsHold, Rated!ReviewsInv

LEMMA RatedStep == RatingsHold /\ Rated!Next => RatingsHold'
<1> SUFFICES ASSUME RatingsHold, Rated!Next PROVE RatingsHold' OBVIOUS
<1>1. ASSUME NEW r \in Guests, NEW o \in Meals, NEW t \in Dishes,
             NEW stars \in Stars, Rated!CreateReview(r, o, t, stars)
      PROVE  RatingsHold'
  BY <1>1, ReviewCreated
<1>2. ASSUME NEW r \in Guests, NEW t \in Dishes, Rated!Averages(r, t)
      PROVE  RatingsHold'
  BY <1>2, AveragesAsked
<1>3. ASSUME NEW r \in Guests, Rated!Insert(r) PROVE RatingsHold'
  BY <1>3, ReviewInserted
<1>4. ASSUME NEW r \in Guests, Rated!OwnAnswer(r) PROVE RatingsHold'
  BY <1>4, OwnAnswered
<1>5. ASSUME NEW r \in Guests, Rated!AllAnswer(r) PROVE RatingsHold'
  BY <1>5, AllAnswered
<1>6. ASSUME NEW r \in Guests, Rated!Show(r) PROVE RatingsHold'
  BY <1>6, RatingShown
<1>7. ASSUME NEW r \in Guests, Rated!Fail(r) PROVE RatingsHold'
  BY <1>7, GuestFails
<1>8. ASSUME NEW o \in Meals, NEW s \in {"open", "completed", "deleted"},
             Rated!SetStatus(o, s)
      PROVE  RatingsHold'
  BY <1>8, MealChanges
<1>9. QED
  BY <1>1, <1>2, <1>3, <1>4, <1>5, <1>6, <1>7, <1>8 DEF Rated!Next

LEMMA RatedIdle == ASSUME RatingsHold, UNCHANGED rated PROVE RatingsHold'
<1>1. UNCHANGED <<status, reviews, done, place, review>> BY DEF rated
<1>2. Adding /\ Rated!ReviewedCompleted' BY <1>1, SameReviews
<1>3. RatingsTyped'
  BY <1>1 DEF RatingsHold, RatingsTyped, GuestShape, AskedShape
<1>4. ASSUME NEW r \in Guests PROVE Rated!RequestOK(place[r], review[r])'
  <2>1. PICK at : at = place[r] OBVIOUS
  <2>2. PICK j : j = review[r] OBVIOUS
  <2>3. GuestShape(at, j) /\ Rated!RequestOK(at, j)
    BY <2>1, <2>2 DEF RatingsHold, RatingsTyped, Rated!ReviewsInv
  <2>4. Rated!RequestOK(at, j)' BY <1>2, <2>3, StaysRight
  <2>5. place'[r] = at /\ review'[r] = j BY <1>1, <2>1, <2>2
  <2>6. QED BY <2>4, <2>5
<1>5. QED BY <1>1, <1>2, <1>3, <1>4 DEF RatingsHold, Rated!ReviewsInv

-----------------------------------------------------------------------------
(* The rating shown                                                          *)

LEMMA Quotients ==
  ASSUME NEW x \in Int, NEW y \in Nat \ {0}, NEW q \in Int
  PROVE  /\ q * y <= x => q <= x \div y
         /\ x < (q + 1) * y => x \div y <= q
OBVIOUS

\* Rounded to tenths, a quotient lies where it lies.
LEMMA TenthsBetween ==
  ASSUME RatingsAssumption, NEW over \in Int, NEW under \in Nat \ {0}, NEW q \in Int
  PROVE  /\ Rated!Tenths(over, under) \in Int /\ Rated!Tenths(q, 1) \in Int
         /\ q * under <= over => Rated!Tenths(q, 1) <= Rated!Tenths(over, under)
         /\ over <= q * under => Rated!Tenths(over, under) <= Rated!Tenths(q, 1)
<1> DEFINE U == StarParts
           w == under * U
           p == Rated!Tenths(q, 1)
<1>1. U \in Nat \ {0} /\ w \in Nat \ {0} /\ q * under \in Int
  BY DEF RatingsAssumption
<1>2. /\ Rated!Tenths(over, under) = (20 * over + w) \div (2 * w)
      /\ p = (20 * q + 1 * U) \div (2 * (1 * U))
  BY DEF Rated!Tenths
<1> HIDE DEF U, p
<1>3. p \in Int /\ p * (2 * U) <= 20 * q + U /\ 20 * q + U < (p + 1) * (2 * U)
  <2>1. 1 * U = U /\ 20 * q + U \in Int /\ 2 * U \in Nat \ {0} BY <1>1
  <2>2. p = (20 * q + U) \div (2 * U) BY <1>2, <2>1
  <2>3. PICK x \in Int, y \in Nat \ {0} : x = 20 * q + U /\ y = 2 * U BY <2>1
  <2>4. p = x \div y BY <2>2, <2>3
  <2>5. p \in Int /\ p * y <= x /\ x < (p + 1) * y BY <2>4
  <2>6. QED BY <2>3, <2>5
<1>4. /\ (p * (2 * U)) * under = p * (2 * w)
      /\ ((p + 1) * (2 * U)) * under = (p + 1) * (2 * w)
      /\ (20 * q + U) * under = 20 * (q * under) + w
  BY <1>1, <1>3
<1>5. p * (2 * w) <= 20 * (q * under) + w
  <2>1. (p * (2 * U)) * under <= (20 * q + U) * under BY <1>1, <1>3
  <2>2. QED BY <1>4, <2>1
<1>6. 20 * (q * under) + w < (p + 1) * (2 * w)
  <2>1. (20 * q + U) * under < ((p + 1) * (2 * U)) * under BY <1>1, <1>3
  <2>2. QED BY <1>4, <2>1
<1> HIDE DEF w
<1>7. 20 * over + w \in Int /\ 2 * w \in Nat \ {0} BY <1>1
<1>8. ASSUME q * under <= over PROVE p <= Rated!Tenths(over, under)
  <2>1. p * (2 * w) <= 20 * over + w
    <3>1. p * (2 * w) \in Int BY <1>1, <1>3
    <3>2. QED BY <1>1, <1>5, <1>8, <3>1
  <2>2. QED BY <1>2, <1>3, <1>7, <2>1, Quotients
<1>9. ASSUME over <= q * under PROVE Rated!Tenths(over, under) <= p
  <2>1. 20 * over + w < (p + 1) * (2 * w)
    <3>1. (p + 1) * (2 * w) \in Int BY <1>1, <1>3
    <3>2. QED BY <1>1, <1>6, <1>9, <3>1
  <2>2. QED BY <1>2, <1>3, <1>7, <2>1, Quotients
<1>10. Rated!Tenths(over, under) \in Int BY <1>2, <1>7
<1>11. QED BY <1>3, <1>8, <1>9, <1>10 DEF p

\* A weighted mean of means lies where they lie.
LEMMA MeanBetween ==
  ASSUME RatingsAssumption, NEW n \in Nat, NEW k \in Nat \ {0}, NEW s \in Int,
         NEW a \in Int, NEW q \in Int
  PROVE  LET shown == Rated!Tenths(s * k + 20 * a, (n + 20) * k)
         IN /\ shown \in Int /\ Rated!Tenths(q, 1) \in Int
            /\ q * n <= s /\ q * k <= a => Rated!Tenths(q, 1) <= shown
            /\ s <= q * n /\ a <= q * k => shown <= Rated!Tenths(q, 1)
<1> DEFINE over == s * k + 20 * a
           under == (n + 20) * k
<1>1. over \in Int /\ under \in Nat \ {0} OBVIOUS
<1>2. q * under = (q * n) * k + 20 * (q * k) OBVIOUS
<1>3. ASSUME q * n <= s, q * k <= a PROVE q * under <= over
  <2>1. (q * n) * k <= s * k BY <1>3
  <2>2. QED BY <1>2, <1>3, <2>1
<1>4. ASSUME s <= q * n, a <= q * k PROVE over <= q * under
  <2>1. s * k <= (q * n) * k BY <1>4
  <2>2. QED BY <1>2, <1>4, <2>1
<1> HIDE DEF over, under
<1>5. QED BY <1>1, <1>3, <1>4, TenthsBetween DEF over, under

\* What some of the reviews come to: nothing if there are none, and a mean that
\* no bound of the ratings there are excludes.
LEMMA FiguresOfSome ==
  ASSUME RatingsAssumption, RatingsTyped, NEW S \in SUBSET reviews
  PROVE  LET fig == Rated!Figures(S)
         IN /\ fig.number \in Nat /\ fig.sum \in Int
            /\ fig.number = Rated!Cardinality(S)
            /\ S # {} => fig.number \in Nat \ {0}
            /\ \A q \in Int : /\ (\A v \in reviews : q <= v.rating) =>
                                    q * fig.number <= fig.sum
                              /\ (\A v \in reviews : v.rating <= q) =>
                                    fig.sum <= q * fig.number
<1> DEFINE f == [v \in S |-> v.rating]
           n == Cardinality(S)
<1>1. IsFiniteSet(S) BY FS_Subset DEF RatingsTyped
<1>2. n \in Nat /\ (n = 0 <=> S = {})
  BY <1>1, FS_CardinalityType, FS_EmptySet
<1>3. \A v \in reviews :
        v.rating \in Int /\ 1 <= v.rating /\ v.rating <= 5 * StarParts
  BY DEF RatingsTyped, StoredReview, RatingsAssumption
<1>4. \A v \in S : f[v] \in Int /\ f[v] = v.rating BY <1>3
<1>5. Rated!Sum(S) = SumOn(f, S) BY SameSum DEF Rated!Sum
<1>6. Rated!Figures(S) = [number |-> n, sum |-> SumOn(f, S)]
  BY <1>5, SameCount DEF Rated!Figures
<1> HIDE DEF f, n
<1>7. SumOn(f, S) \in Int BY <1>1, <1>4, SumType
<1>8. ASSUME NEW q \in Int, \A v \in reviews : q <= v.rating
      PROVE  q * n <= SumOn(f, S)
  <2>1. \A v \in S : f[v] \in Int /\ q <= f[v] /\ f[v] <= 5 * StarParts
    BY <1>3, <1>4, <1>8
  <2>2. PICK high \in Int : high = 5 * StarParts BY DEF RatingsAssumption
  <2>3. \A v \in S : f[v] \in Int /\ q <= f[v] /\ f[v] <= high
    BY <2>1, <2>2
  <2>4. QED BY <1>1, <2>3, SumBounds DEF n
<1>9. ASSUME NEW q \in Int, \A v \in reviews : v.rating <= q
      PROVE  SumOn(f, S) <= q * n
  <2>1. \A v \in S : f[v] \in Int /\ 1 <= f[v] /\ f[v] <= q
    BY <1>3, <1>4, <1>9
  <2>2. QED BY <1>1, <2>1, SumBounds DEF n
<1>10. n = Rated!Cardinality(S) BY SameCount DEF n
<1>11. QED BY <1>2, <1>6, <1>7, <1>8, <1>9, <1>10

\* What was counted lies where the reviews of now allow it.
LEMMA ShownBetween ==
  ASSUME RatingsAssumption, RatingsHold, NEW j, AskedShape(j),
         Rated!AveragesOK(j), j.own # None, j.all # None,
         j.shown = Rated!Bayesian(j.own, j.all)
  PROVE  /\ j.own.number \in j.first..Rated!Cardinality(Rated!Own(j.target))
         /\ j.any => /\ \E v \in reviews : Rated!Tenths(v.rating, 1) <= j.shown
                     /\ \E v \in reviews : Rated!Tenths(v.rating, 1) >= j.shown
         /\ ~j.any /\ j.own.number = 0 /\ j.all.number = 0 => j.shown = 35
<1>1. PICK S \in SUBSET Rated!Own(j.target) :
         j.own = Rated!Figures(S) /\ j.first <= Rated!Cardinality(S)
  BY DEF Rated!AveragesOK
<1>2. PICK A \in SUBSET reviews : j.all = Rated!Figures(A) /\ (j.any => A # {})
  BY DEF Rated!AveragesOK
<1>3. S \in SUBSET reviews BY <1>1 DEF Rated!Own
<1>4. RatingsTyped BY DEF RatingsHold
<1>5. PICK n \in Nat, s \in Int :
        /\ j.own.number = n /\ j.own.sum = s /\ n = Rated!Cardinality(S)
        /\ \A q \in Int :
             /\ (\A v \in reviews : q <= v.rating) => q * n <= s
             /\ (\A v \in reviews : v.rating <= q) => s <= q * n
  BY <1>1, <1>3, <1>4, FiguresOfSome
<1>6. PICK k \in Nat, a \in Int :
        /\ j.all.number = k /\ j.all.sum = a /\ (A # {} => k # 0)
        /\ \A q \in Int :
             /\ (\A v \in reviews : q <= v.rating) => q * k <= a
             /\ (\A v \in reviews : v.rating <= q) => a <= q * k
  BY <1>2, <1>4, FiguresOfSome
<1>7. \A v \in reviews :
        v.rating \in Int /\ 1 <= v.rating /\ v.rating <= 5 * StarParts
  BY <1>4 DEF RatingsTyped, StoredReview, RatingsAssumption
<1>8. j.own.number \in j.first..Rated!Cardinality(Rated!Own(j.target))
  <2>1. IsFiniteSet(Rated!Own(j.target))
    BY <1>4, FS_Subset DEF RatingsTyped, Rated!Own
  <2>2. /\ Cardinality(S) <= Cardinality(Rated!Own(j.target))
        /\ Cardinality(Rated!Own(j.target)) \in Nat
    BY <1>1, <2>1, FS_Subset, FS_CardinalityType
  <2>3. j.first \in Nat BY DEF AskedShape
  <2>4. QED BY <1>1, <1>5, <2>2, <2>3, SameCount
<1>9. ASSUME k # 0
      PROVE  /\ \E v \in reviews : Rated!Tenths(v.rating, 1) <= j.shown
             /\ \E v \in reviews : Rated!Tenths(v.rating, 1) >= j.shown
  <2>1. j.shown = Rated!Tenths(s * k + 20 * a, (n + 20) * k)
    BY <1>5, <1>6, <1>9 DEF Rated!Bayesian, Rated!Weighted, Rated!m
  <2>2. PICK t : t = j.shown OBVIOUS
  <2>3. PICK U \in Nat \ {0} : U = StarParts BY DEF RatingsAssumption
  <2>4. ASSUME NEW q \in Int
        PROVE  /\ t \in Int /\ Rated!Tenths(q, 1) \in Int
               /\ (\A v \in reviews : q <= v.rating) => Rated!Tenths(q, 1) <= t
               /\ (\A v \in reviews : v.rating <= q) => t <= Rated!Tenths(q, 1)
    <3>1. k \in Nat \ {0} BY <1>9
    <3>2. /\ t \in Int /\ Rated!Tenths(q, 1) \in Int
          /\ q * n <= s /\ q * k <= a => Rated!Tenths(q, 1) <= t
          /\ s <= q * n /\ a <= q * k => t <= Rated!Tenths(q, 1)
      BY <2>1, <2>2, <3>1, MeanBetween
    <3>3. QED BY <1>5, <1>6, <3>2
  <2>5. t \in Int BY <2>4
  <2>6. ASSUME NEW q \in Int
        PROVE  /\ Rated!Tenths(q, 1) = (20 * q + U) \div (2 * U)
               /\ t < Rated!Tenths(q, 1) <=> (2 * t + 1) * U <= 20 * q
               /\ Rated!Tenths(q, 1) < t <=> 20 * q < (2 * t - 1) * U
    <3>1. Rated!Tenths(q, 1) = (20 * q + U) \div (2 * U)
      BY <2>3 DEF Rated!Tenths
    <3>2. PICK x \in Int, y \in Nat \ {0} : x = 20 * q + U /\ y = 2 * U OBVIOUS
    <3>3. PICK p : p = x \div y OBVIOUS
    <3>4. p \in Int /\ p * y <= x /\ x < (p + 1) * y BY <3>3
    <3>5. (t + 1) * y <= x => t + 1 <= p BY <2>5, <3>3, Quotients
    <3>6. x < t * y => p <= t - 1
      <4>1. t - 1 \in Int /\ (t - 1) + 1 = t BY <2>5
      <4>2. QED BY <3>3, <4>1, Quotients
    <3>7. t + 1 <= p => (t + 1) * y <= p * y BY <2>5, <3>4
    <3>8. p + 1 <= t => (p + 1) * y <= t * y BY <2>5, <3>4
    <3>9. /\ (t + 1) * y = (2 * t + 1) * U + U
          /\ t * y = (2 * t - 1) * U + U
          /\ (2 * t + 1) * U \in Int /\ (2 * t - 1) * U \in Int
          /\ (t + 1) * y \in Int /\ t * y \in Int
      BY <2>5, <3>2
    <3>10. p * y \in Int /\ (p + 1) * y \in Int BY <3>4
    <3>11. t < p <=> (t + 1) * y <= x BY <2>5, <3>4, <3>5, <3>7, <3>9, <3>10
    <3>12. p < t <=> x < t * y BY <2>5, <3>4, <3>6, <3>8, <3>9, <3>10
    <3>13. QED BY <3>1, <3>2, <3>3, <3>9, <3>11, <3>12
  <2>7. \E v \in reviews : Rated!Tenths(v.rating, 1) <= t
    <3>1. SUFFICES ASSUME \A v \in reviews : t < Rated!Tenths(v.rating, 1)
                   PROVE  FALSE
      BY <1>7, <2>4
    <3>2. PICK x \in Int : x = (2 * t + 1) * U BY <2>5
    <3>3. PICK q \in Int : q = (x - 1) \div 20 + 1 OBVIOUS
    <3>4. 20 * (q - 1) < x /\ x <= 20 * q BY <3>3
    <3>5. \A v \in reviews : x <= 20 * v.rating BY <1>7, <2>6, <3>1, <3>2
    <3>6. \A v \in reviews : q <= v.rating BY <1>7, <3>4, <3>5
    <3>7. Rated!Tenths(q, 1) <= t BY <2>4, <3>6
    <3>8. t < Rated!Tenths(q, 1) BY <2>6, <3>2, <3>4
    <3>9. QED BY <2>4, <2>5, <3>7, <3>8
  <2>8. \E v \in reviews : Rated!Tenths(v.rating, 1) >= t
    <3>1. SUFFICES ASSUME \A v \in reviews : Rated!Tenths(v.rating, 1) < t
                   PROVE  FALSE
      BY <1>7, <2>4
    <3>2. PICK x \in Int : x = (2 * t - 1) * U BY <2>5
    <3>3. PICK q \in Int : q = (x - 1) \div 20 OBVIOUS
    <3>4. 20 * q < x /\ x <= 20 * (q + 1) BY <3>3
    <3>5. \A v \in reviews : 20 * v.rating < x BY <1>7, <2>6, <3>1, <3>2
    <3>6. \A v \in reviews : v.rating <= q BY <1>7, <3>4, <3>5
    <3>7. t <= Rated!Tenths(q, 1) BY <2>4, <3>6
    <3>8. Rated!Tenths(q, 1) < t BY <2>6, <3>2, <3>4
    <3>9. QED BY <2>4, <2>5, <3>7, <3>8
  <2>9. QED BY <2>2, <2>7, <2>8
<1>10. ASSUME n = 0, k = 0 PROVE j.shown = 35
  <2>1. PICK U \in Nat \ {0} : U = StarParts BY DEF RatingsAssumption
  <2>2. 5 * U \in Int /\ 1 \in Int OBVIOUS
  <2>3. 1 * n <= s /\ s <= (5 * U) * n BY <1>5, <1>7, <2>1, <2>2
  <2>4. s = 0 BY <1>10, <2>3
  <2>5. j.shown = Rated!Tenths(0 * 2 + 20 * (7 * U), (0 + 20) * 2)
    BY <1>5, <1>6, <1>10, <2>1, <2>4
       DEF Rated!Bayesian, Rated!Weighted, Rated!m
  <2>6. j.shown = (20 * (140 * U) + 40 * U) \div (2 * (40 * U))
    BY <2>1, <2>5 DEF Rated!Tenths
  <2>7. PICK x \in Int, y \in Nat \ {0} :
          x = 20 * (140 * U) + 40 * U /\ y = 2 * (40 * U)
    OBVIOUS
  <2>8. 35 * y <= x /\ x < 36 * y BY <2>7
  <2>9. j.shown = x \div y BY <2>6, <2>7
  <2>10. QED BY <2>8, <2>9
<1>11. j.any => k # 0 BY <1>2, <1>6
<1>12. QED BY <1>5, <1>6, <1>8, <1>9, <1>10, <1>11

LEMMA ReviewsAreFine == RatingsAssumption /\ RatingsHold => Rated!ReviewsStand
<1> SUFFICES ASSUME RatingsAssumption, RatingsHold PROVE Rated!ReviewsStand
  OBVIOUS
<1>1. Rated!ReviewedCompleted BY DEF RatingsHold, Rated!ReviewsInv
<1>2. ASSUME NEW r \in Guests, place[r] = "done", "shown" \in DOMAIN review[r]
      PROVE  /\ AskedShape(review[r]) /\ Rated!AveragesOK(review[r])
             /\ review[r].own # None /\ review[r].all # None
             /\ review[r].shown = Rated!Bayesian(review[r].own, review[r].all)
  <2>1. GuestShape("done", review[r]) /\ Rated!RequestOK("done", review[r])
    BY <1>2 DEF RatingsHold, RatingsTyped, Rated!ReviewsInv
  <2>2. review[r] \notin GivenReview BY <1>2 DEF GivenReview
  <2>3. QED BY <1>2, <2>1, <2>2 DEF GuestShape, Rated!RequestOK
<1>3. Rated!RatingsBetween
  BY <1>2, ShownBetween DEF Rated!RatingsBetween
<1>4. QED BY <1>1, <1>3 DEF Rated!ReviewsStand

\* What is reviewed had been completed; and a rating shown lies between the
\* lowest and the highest there is, in tenths, for ratings of any fraction of a
\* star, whatever is reviewed between the two queries it is made from
\* (createReview, getReviewAverages).
THEOREM ReviewsAlwaysStand == Rated!Spec => []Rated!ReviewsStand
<1>1. RatingsAssumption BY RatingsAssumption
<1>2. RatingsHold /\ [Rated!Next]_Rated!vars => RatingsHold'
  BY RatedStep, RatedIdle DEF Rated!vars, rated
<1>3. RatingsHold => Rated!ReviewsStand BY <1>1, ReviewsAreFine
<1>4. QED BY <1>2, <1>3, RatedBegin, PTL DEF Rated!Spec

\* The same of the reviews beside coupons and reports (reviews.service.ts).
THEOREM RatingsStand == MCSpec => []ReviewsStand
<1>1. RatingsAssumption BY RatingsAssumption
<1>2. MCInit => RatingsHold BY RatedBegin DEF MCInit
<1>3. RatingsHold /\ [MCNext]_<<vars, part, calm, reports, rated>> => RatingsHold'
  BY RatedStep, RatedIdle DEF MCNext, rated
<1>4. RatingsHold => ReviewsStand BY <1>1, ReviewsAreFine DEF ReviewsStand
<1>5. QED BY <1>2, <1>3, <1>4, PTL DEF MCSpec

-----------------------------------------------------------------------------
(* The figures of the restaurants: that those of an answer agree             *)

\* An order that was completed all the time was so at some time.
LEMMA TimeTells ==
  ASSUME ReportsHold, NEW lo \in Nat, NEW hi \in Int, lo <= hi, hi <= now
  PROVE  Reports!Throughout(lo, hi) \in SUBSET Reports!Sometime(lo, hi)
<1>1. lo \in 0..now /\ lo \in lo..hi BY DEF ReportsHold, ReportsTyped, Hours
<1>2. ASSUME NEW o \in Reports!Throughout(lo, hi)
      PROVE  o \in Reports!Sometime(lo, hi)
  <2>1. PICK s \in {"open", "completed", "gone"} : <<lo, s>> \in been[o]
    BY <1>1 DEF ReportsHold, Reports!AnswersInv, Reports!Recorded,
                Reports!Throughout
  <2>2. s \notin {"open", "gone"} BY <1>1, <2>1 DEF Reports!Throughout
  <2>3. <<lo, "completed">> \in been[o] BY <2>1, <2>2
  <2>4. o \in Sales BY DEF Reports!Throughout
  <2>5. QED BY <1>1, <2>3, <2>4 DEF Reports!Sometime
<1>3. QED BY <1>2

CountedIn(f) == \E a \in Reports!Aggregations : f[a] # None

\* The figures that are there count the orders of steady.
Agree(d, steady) ==
  /\ \A b \in Locations : DinerOf[b] \in d.restaurants =>
       /\ d.figures["byBranch"] # None =>
            d.figures["byBranch"][b] = Reports!OfBranch(steady, b)
       /\ d.figures["byStatus"] # None =>
            d.figures["byStatus"][b]["completed"] = Reports!OfBranch(steady, b)
  /\ \A x \in d.restaurants : d.figures["totals"] # None =>
       d.figures["totals"][x] = Reports!OfRestaurant(steady, x)

LEMMA ConsistentIs ==
  ASSUME NEW d
  PROVE  Reports!Consistent(d) <=>
           /\ d.from <= now /\ d.to <= now
           /\ CountedIn(d.figures) => d.from <= d.to
           /\ Reports!Sometime(d.from, d.to) \subseteq Reports!Throughout(d.from, d.to)
                => Agree(d, Reports!Throughout(d.from, d.to))
BY DEF Reports!Consistent, CountedIn, Agree

LEMMA NoneAgree ==
  ASSUME NEW d, ~CountedIn(d.figures), NEW steady PROVE Agree(d, steady)
BY DEF CountedIn, Agree, Reports!Aggregations

\* Figures that agree go on agreeing.
LEMMA ConsistentStays ==
  ASSUME ReportsAssumption, ReportsHold, ReportsTyped', Meanwhile, NEW d,
         AnswerShaped(d), Reports!Consistent(d)
  PROVE  Reports!Consistent(d)'
<1>1. /\ now \in Int /\ now' \in Int /\ d.from \in Nat /\ d.to \in Nat
      /\ now <= now'
  BY DEF ReportsHold, ReportsTyped, Hours, ReportsAssumption, AnswerShaped, Meanwhile
<1>2. /\ d.from <= now /\ d.to <= now
      /\ CountedIn(d.figures) => d.from <= d.to
  BY ConsistentIs
<1>3. PICK S, T, U, V : /\ S = Reports!Sometime(d.from, d.to)
                        /\ T = Reports!Throughout(d.from, d.to)
                        /\ U = Reports!Sometime(d.from, d.to)'
                        /\ V = Reports!Throughout(d.from, d.to)'
  OBVIOUS
<1>4. V \subseteq T /\ S \subseteq U
  BY <1>1, <1>3, TimeGoesOn
<1>5. S \subseteq T => Agree(d, T) BY <1>3, ConsistentIs
<1>6. ASSUME U \subseteq V PROVE Agree(d, V)
  <2>1. CASE ~CountedIn(d.figures) BY <2>1, NoneAgree
  <2>2. CASE CountedIn(d.figures)
    <3>1. T \subseteq S BY <1>1, <1>2, <1>3, <2>2, TimeTells
    <3>2. T = V /\ S \subseteq T BY <1>4, <1>6, <3>1
    <3>3. QED BY <1>5, <3>2
  <2>3. QED BY <2>1, <2>2
<1>7. /\ d.from <= now' /\ d.to <= now' BY <1>1, <1>2
<1>8. QED
  BY <1>2, <1>3, <1>6, <1>7
     DEF Reports!Consistent, CountedIn, Agree, Reports!OfBranch,
         Reports!OfRestaurant

\* Nothing is shown but what was shown before, and e.
LEMMA FiguresMove ==
  ASSUME ReportsAssumption, ReportsHold, ReportsTyped', Meanwhile,
         Reports!FiguresInv, NEW e, Reports!Consistent(e)',
         Reports!Known' \subseteq Reports!Known \cup {e}
  PROVE  Reports!FiguresInv'
<1> SUFFICES ASSUME NEW d \in Reports!Known' PROVE Reports!Consistent(d)'
  BY DEF Reports!FiguresInv
<1>1. CASE d = e BY <1>1
<1>2. CASE d \in Reports!Known
  <2>1. AnswerShaped(d)
    BY <1>2 DEF Reports!Known, ReportsHold, ReportsTyped, RequestShaped
  <2>2. Reports!Consistent(d) BY <1>2 DEF Reports!FiguresInv
  <2>3. QED BY <2>1, <2>2, ConsistentStays
<1>3. QED BY <1>1, <1>2

LEMMA KnownMoves ==
  ASSUME ReportsTyped, NEW r \in Readers, NEW q,
         request' = [request EXCEPT ![r] = q],
         view' = view \/ view'.payload = q.data
  PROVE  Reports!Known' \subseteq Reports!Known \cup {q.data}
<1> SUFFICES ASSUME NEW d \in Reports!Known', d # q.data PROVE d \in Reports!Known
  OBVIOUS
<1>1. CASE d = view'.payload BY <1>1 DEF Reports!Known
<1>2. ASSUME NEW s \in Readers, d = request'[s].data PROVE d \in Reports!Known
  <2>1. s # r /\ request'[s] = request[s] BY <1>2 DEF ReportsTyped
  <2>2. QED BY <1>2, <2>1 DEF Reports!Known
<1>3. QED BY <1>1, <1>2 DEF Reports!Known

LEMMA SteadyIs ==
  ASSUME ReportsTyped, Steady PROVE Meanwhile
BY DEF ReportsTyped, Hours, Steady, Meanwhile

LEMMA ConsistentSame ==
  ASSUME Steady, NEW d, Reports!Consistent(d) PROVE Reports!Consistent(d)'
BY SMTT(20)
   DEF Steady, Reports!Consistent, Reports!OfBranch, Reports!OfRestaurant,
       Reports!Throughout, Reports!Sometime

\* A request is answered, or moves on.
LEMMA DataMoves ==
  ASSUME ReportsAssumption, ReportsHold, ReportsHold', Steady,
         Reports!FiguresInv, NEW r \in Readers, NEW d,
         d.from \in Int, d.to \in Int, Reports!Consistent(d),
         view' = view \/ view'.payload = d,
         Reports!Answer(r, d) \/ \E to : Reports!MoveOn(r, to, d)
  PROVE  Reports!FiguresInv'
<1>1. PICK p : p = request[r] OBVIOUS
<1>2. RequestShaped(p) /\ DOMAIN request = Readers
  BY <1>1 DEF ReportsHold, ReportsTyped
<1>3. PICK q : request' = [request EXCEPT ![r] = q] /\ q.data = d
  <2>1. CASE Reports!Answer(r, d)
    <3>1. PICK t : t = now OBVIOUS
    <3>2. PICK q : q = [p EXCEPT !.step = "answered", !.answeredAt = t, !.data = d]
      OBVIOUS
    <3>3. request' = [request EXCEPT ![r] = q] /\ q.data = d
      BY <1>1, <1>2, <2>1, <3>1, <3>2 DEF Reports!Answer, RequestShaped
    <3>4. QED BY <3>3
  <2>2. ASSUME NEW to, Reports!MoveOn(r, to, d)
        PROVE  \E q : request' = [request EXCEPT ![r] = q] /\ q.data = d
    <3>1. PICK q : q = [p EXCEPT !.step = to, !.data = d] OBVIOUS
    <3>2. request' = [request EXCEPT ![r] = q] /\ q.data = d
      BY <1>1, <1>2, <2>2, <3>1 DEF Reports!MoveOn, RequestShaped
    <3>3. QED BY <3>2
  <2>3. QED BY <2>1, <2>2
<1>4. Reports!Known' \subseteq Reports!Known \cup {d}
  BY <1>3, KnownMoves DEF ReportsHold
<1>5. Reports!Consistent(d)' BY ConsistentSame
<1>6. QED BY <1>4, <1>5, SteadyIs, FiguresMove DEF ReportsHold

\* Without a figure, all there are agree.
LEMMA NoneConsistent ==
  ASSUME NEW d, d.from <= now, d.to <= now,
         d.figures = Reports!NoFigures
  PROVE  Reports!Consistent(d)
<1>1. ~CountedIn(d.figures) BY DEF Reports!NoFigures, CountedIn
<1>2. QED BY <1>1, NoneAgree, ConsistentIs

\* What a request counts beside the others is what they count, unless an order
\* changed in between.
LEMMA CountAgrees ==
  ASSUME ReportsAssumption, ReportsHold, ReportsHold', Reports!FiguresInv,
         NEW r \in Readers, NEW a \in Reports!Aggregations, Reports!Count(r, a)
  PROVE  Reports!FiguresInv'
<1>1. Steady /\ UNCHANGED <<kept, view>> BY DEF Steady, Reports!Count
<1>2. request[r].step = "counting" BY DEF Reports!Count, Reports!Step
<1>3. now \in Int BY DEF ReportsHold, ReportsTyped, Hours
<1>4. PICK d : d = request[r].data OBVIOUS
<1>5. AnswerShaped(d) /\ d.from \in Nat /\ d.to \in Nat
  BY <1>4 DEF ReportsHold, ReportsTyped, RequestShaped, AnswerShaped, Hours
<1>6. PICK t : t = now OBVIOUS
<1>7. Reports!Consistent(d) /\ d.from <= t /\ d.to <= t
  <2>1. d \in Reports!Known BY <1>4 DEF Reports!Known
  <2>2. Reports!Consistent(d) BY <2>1 DEF Reports!FiguresInv
  <2>3. QED BY <1>6, <2>2 DEF Reports!Consistent
<1>8. PICK v : v = Reports!Aggregate(a, d.restaurants) OBVIOUS
<1>9. PICK f : f = [d.figures EXCEPT ![a] = v] OBVIOUS
<1>10. PICK e : e = [d EXCEPT !.figures = f, !.to = t] OBVIOUS
<1>11. /\ f[a] = v
       /\ \A other \in Reports!Aggregations \ {a} : f[other] = d.figures[other]
  BY <1>5, <1>9 DEF AnswerShaped
<1>12. /\ e.restaurants = d.restaurants /\ e.from = d.from /\ e.figures = f
       /\ e.to = t
  BY <1>5, <1>10 DEF AnswerShaped
<1>13. PICK S, T : /\ S = Reports!Sometime(d.from, t)
                   /\ T = Reports!Throughout(d.from, t)
  OBVIOUS
<1>14. ASSUME S \subseteq T PROVE Agree(e, T)
  <2>1. Reports!Completed = T
    <3>1. Reports!Completed \in SUBSET S /\ T \in SUBSET Reports!Completed
      BY <1>5, <1>6, <1>7, <1>13, CompletedNow
    <3>2. QED BY <1>14, <3>1
  <2>2. CountedIn(d.figures) => Agree(d, T)
    <3>1. SUFFICES ASSUME CountedIn(d.figures) PROVE Agree(d, T) OBVIOUS
    <3>2. PICK U, V : /\ U = Reports!Sometime(d.from, d.to)
                      /\ V = Reports!Throughout(d.from, d.to)
      OBVIOUS
    <3>3. d.from <= d.to BY <1>7, <3>1, ConsistentIs
    <3>4. U \subseteq S /\ T \subseteq V
      BY <1>3, <1>5, <1>6, <1>7, <1>13, <3>2, LongerTime
    <3>5. V \subseteq U
      BY <1>5, <1>6, <1>7, <3>2, <3>3, TimeTells
    <3>6. V = T /\ U \subseteq V BY <1>14, <3>4, <3>5
    <3>7. QED BY <1>7, <3>2, <3>6, ConsistentIs
  <2>3. Agree(d, T) BY <2>2, NoneAgree
  <2>4. ASSUME NEW b \in Locations, DinerOf[b] \in d.restaurants
        PROVE  /\ f["byBranch"] # None =>
                    f["byBranch"][b] = Reports!OfBranch(T, b)
               /\ f["byStatus"] # None =>
                    f["byStatus"][b]["completed"] = Reports!OfBranch(T, b)
    <3>1. /\ Reports!ByBranch(d.restaurants)[b] = Reports!OfBranch(T, b)
          /\ Reports!ByStatus(d.restaurants)[b]["completed"]
               = Reports!OfBranch(T, b)
      BY <2>1, <2>4, CountedNow
    <3>2. ASSUME f["byBranch"] # None
          PROVE  f["byBranch"][b] = Reports!OfBranch(T, b)
      <4>1. CASE a = "byBranch"
        BY <1>8, <1>11, <3>1, <4>1 DEF Reports!Aggregate
      <4>2. CASE a # "byBranch"
        <5>1. f["byBranch"] = d.figures["byBranch"]
          BY <1>11, <4>2 DEF Reports!Aggregations
        <5>2. QED BY <2>3, <2>4, <3>2, <5>1 DEF Agree
      <4>3. QED BY <4>1, <4>2
    <3>3. ASSUME f["byStatus"] # None
          PROVE  f["byStatus"][b]["completed"] = Reports!OfBranch(T, b)
      <4>1. CASE a = "byStatus"
        BY <1>8, <1>11, <3>1, <4>1 DEF Reports!Aggregate
      <4>2. CASE a # "byStatus"
        <5>1. f["byStatus"] = d.figures["byStatus"]
          BY <1>11, <4>2 DEF Reports!Aggregations
        <5>2. QED BY <2>3, <2>4, <3>3, <5>1 DEF Agree
      <4>3. QED BY <4>1, <4>2
    <3>4. QED BY <3>2, <3>3
  <2>5. ASSUME NEW x \in d.restaurants, f["totals"] # None
        PROVE  f["totals"][x] = Reports!OfRestaurant(T, x)
    <3>1. CASE a = "totals"
      <4>1. f["totals"] = Reports!Totals(d.restaurants)
        BY <1>8, <1>11, <3>1 DEF Reports!Aggregate
      <4>2. QED
        BY <2>1, <2>5, <4>1 DEF Reports!Totals, Reports!OfRestaurant
    <3>2. CASE a # "totals"
      <4>1. f["totals"] = d.figures["totals"]
        BY <1>11, <3>2 DEF Reports!Aggregations
      <4>2. QED BY <2>3, <2>5, <4>1 DEF Agree
    <3>3. QED BY <3>1, <3>2
  <2>6. QED BY <1>12, <2>4, <2>5 DEF Agree
<1>15. e.from <= now /\ e.to <= now /\ e.from <= e.to
  BY <1>3, <1>6, <1>7, <1>12
<1>16. Reports!Consistent(e) BY <1>12, <1>13, <1>14, <1>15, ConsistentIs
<1>17. \E to : Reports!MoveOn(r, to, e)
  BY <1>4, <1>6, <1>8, <1>9, <1>10 DEF Reports!Count
<1>18. QED BY <1>1, <1>3, <1>5, <1>6, <1>12, <1>16, <1>17, DataMoves

LEMMA FiguresStep ==
  ASSUME ReportsAssumption, ReportsHold, ReportsHold', Reports!FiguresInv,
         Reports!Next
  PROVE  Reports!FiguresInv'
<1>1. now \in Int /\ 0 <= now BY DEF ReportsHold, ReportsTyped, Hours
<1>2. PICK t : t = now OBVIOUS
<1>3. PICK none : none = Reports!NoAnswer OBVIOUS
<1>4. /\ none.from = 0 /\ none.to = 0 /\ none.figures = Reports!NoFigures
      /\ Reports!Consistent(none)
  BY <1>1, <1>3, NoneConsistent DEF Reports!NoAnswer
<1>5. ASSUME NEW r \in Readers
      PROVE  LET d == request[r].data
             IN  d.from \in Int /\ d.to \in Int /\ Reports!Consistent(d)
  BY DEF Reports!FiguresInv, Reports!Known, ReportsHold, ReportsTyped,
         RequestShaped, AnswerShaped, Hours
<1>6. ASSUME NEW r \in Readers, Reports!Begin(r) \/ Reports!Fail(r)
      PROVE  Reports!FiguresInv'
  <2>1. Steady /\ view' = view BY <1>6 DEF Steady, Reports!Begin, Reports!Fail
  <2>2. PICK idle : idle = Reports!Idle OBVIOUS
  <2>3. PICK begun : begun = [idle EXCEPT !.step = "lookup", !.at = t] OBVIOUS
  <2>4. idle.data = none /\ begun.data = none
    BY <1>3, <2>2, <2>3 DEF Reports!Idle
  <2>5. PICK q \in {idle, begun} : request' = [request EXCEPT ![r] = q]
    BY <1>2, <1>6, <2>2, <2>3 DEF Reports!Begin, Reports!Fail
  <2>6. Reports!Known' \subseteq Reports!Known \cup {none}
    BY <2>1, <2>4, <2>5, KnownMoves DEF ReportsHold
  <2>7. Reports!Consistent(none)'
    BY <1>4, <2>1, ConsistentSame
  <2>8. QED BY <2>1, <2>6, <2>7, SteadyIs, FiguresMove DEF ReportsHold
<1>7. ASSUME NEW r \in Readers, Reports!Lookup(r) PROVE Reports!FiguresInv'
  <2>1. Steady /\ view' = view BY <1>7 DEF Steady, Reports!Lookup
  <2>2. CASE view.until > request[r].at
    <3>1. PICK d : d = view.payload OBVIOUS
    <3>2. d.from \in Int /\ d.to \in Int /\ Reports!Consistent(d)
      BY <3>1 DEF Reports!FiguresInv, Reports!Known, ReportsHold, ReportsTyped,
                  AnswerShaped, Hours
    <3>3. Reports!Answer(r, d) BY <1>7, <2>2, <3>1 DEF Reports!Lookup
    <3>4. QED BY <2>1, <3>2, <3>3, DataMoves
  <2>3. CASE ~(view.until > request[r].at)
    <3>1. PICK d : d = [none EXCEPT !.from = t] OBVIOUS
    <3>2. d.from = t /\ d.to = 0 /\ d.figures = Reports!NoFigures
      BY <1>3, <3>1 DEF Reports!NoAnswer
    <3>3. Reports!Consistent(d) BY <1>1, <1>2, <3>2, NoneConsistent
    <3>4. Reports!MoveOn(r, "menu", d)
      BY <1>2, <1>3, <1>7, <2>3, <3>1 DEF Reports!Lookup
    <3>5. QED BY <1>1, <1>2, <2>1, <3>2, <3>3, <3>4, DataMoves
  <2>4. QED BY <2>2, <2>3
<1>8. ASSUME NEW r \in Readers, Reports!Menu(r) PROVE Reports!FiguresInv'
  <2>1. Steady /\ view' = view BY <1>8 DEF Steady, Reports!Menu
  <2>2. PICK list : list = Reports!Listed OBVIOUS
  <2>3. PICK d : d = [none EXCEPT !.restaurants = list, !.from = t] OBVIOUS
  <2>4. d.from = t /\ d.to = 0 /\ d.figures = Reports!NoFigures
    BY <1>3, <2>3 DEF Reports!NoAnswer
  <2>5. Reports!Consistent(d) BY <1>1, <1>2, <2>4, NoneConsistent
  <2>6. Reports!Answer(r, none) \/ Reports!MoveOn(r, "counting", d)
    BY <1>2, <1>3, <1>8, <2>2, <2>3 DEF Reports!Menu, Reports!WithList
  <2>7. CASE Reports!Answer(r, none) BY <1>4, <2>1, <2>7, DataMoves
  <2>8. CASE Reports!MoveOn(r, "counting", d)
    BY <1>1, <1>2, <2>1, <2>4, <2>5, <2>8, DataMoves
  <2>9. QED BY <2>6, <2>7, <2>8
<1>9. ASSUME NEW r \in Readers, Reports!Onboarded(r) \/ Reports!Save(r)
      PROVE  Reports!FiguresInv'
  <2>1. PICK d : d = request[r].data OBVIOUS
  <2>2. Steady /\ (view' = view \/ view'.payload = d)
    BY <1>9, <2>1 DEF Steady, Reports!Onboarded, Reports!Save
  <2>3. Reports!MoveOn(r, "saving", d) \/ Reports!Answer(r, d)
    BY <1>9, <2>1 DEF Reports!Onboarded, Reports!Save
  <2>4. QED BY <1>5, <2>1, <2>2, <2>3, DataMoves
<1>10. ASSUME \/ \E x \in Diners : Reports!List(x)
              \/ \E o \in Sales : Reports!Update(o) \/ Reports!DeleteOrder(o)
              \/ \E b \in Locations : Reports!DeleteBranch(b)
              \/ Reports!Tick
       PROVE  Reports!FiguresInv'
  <2>1. Meanwhile
    <3>1. CASE \E o \in Sales : Reports!Update(o) \/ Reports!DeleteOrder(o)
      BY <3>1, StatusHolds
         DEF Reports!Update, Reports!DeleteOrder, Reports!Statuses
    <3>2. CASE \/ \E x \in Diners : Reports!List(x)
               \/ \E b \in Locations : Reports!DeleteBranch(b)
      BY <1>1, <3>2
         DEF Meanwhile, Reports!List, Reports!DeleteBranch, ReportsHold,
             ReportsTyped
    <3>3. CASE Reports!Tick
      <4>1. now' = now + 1 /\ listedAt' = listedAt
            /\ \A o \in Sales : been'[o] = been[o] \cup {<<now + 1, orderStatus[o]>>}
        BY <3>3 DEF Reports!Tick
      <4>2. QED BY <1>1, <4>1 DEF Meanwhile
    <3>4. QED BY <1>10, <3>1, <3>2, <3>3
  <2>2. Reports!Known' = Reports!Known
    BY <1>10 DEF Reports!Known, Reports!List, Reports!Update,
                 Reports!DeleteOrder, Reports!SetStatus,
                 Reports!DeleteBranch, Reports!Tick
  <2>3. PICK d : d = view.payload OBVIOUS
  <2>4. Reports!Consistent(d) /\ AnswerShaped(d)
    BY <2>3 DEF Reports!FiguresInv, Reports!Known, ReportsHold, ReportsTyped
  <2>5. Reports!Consistent(d)'
    BY <2>1, <2>4, ConsistentStays DEF ReportsHold
  <2>6. QED BY <2>1, <2>2, <2>5, FiguresMove DEF ReportsHold
<1>11. QED
  BY <1>6, <1>7, <1>8, <1>9, <1>10, CountAgrees DEF Reports!Next

FiguresHold == ReportsHold /\ Reports!FiguresInv

LEMMA FiguresBegin == ReportsAssumption /\ Reports!Init => FiguresHold
<1> SUFFICES ASSUME ReportsAssumption, Reports!Init PROVE FiguresHold OBVIOUS
<1>1. ReportsHold /\ now = 0 BY ReportsBegin DEF Reports!Init
<1>2. Reports!Consistent(Reports!NoAnswer)
  BY <1>1, NoneConsistent DEF Reports!NoAnswer
<1>3. \A d \in Reports!Known : d = Reports!NoAnswer
  BY DEF Reports!Known, Reports!Init, Reports!Idle
<1>4. QED BY <1>1, <1>2, <1>3 DEF FiguresHold, Reports!FiguresInv

LEMMA FiguresStay ==
  ReportsAssumption /\ FiguresHold /\ (Reports!Next \/ UNCHANGED reports)
    => FiguresHold'
<1> SUFFICES ASSUME ReportsAssumption, FiguresHold,
                    Reports!Next \/ UNCHANGED reports
             PROVE  FiguresHold'
  OBVIOUS
<1>1. ReportsHold' BY ReportsStep, ReportsIdle DEF FiguresHold
<1>2. CASE Reports!Next BY <1>1, <1>2, FiguresStep DEF FiguresHold
<1>3. CASE UNCHANGED reports
  <2>1. Steady /\ Reports!Known' = Reports!Known
    BY <1>3 DEF Steady, reports, Reports!Known
  <2>2. ASSUME NEW d \in Reports!Known PROVE Reports!Consistent(d)'
    BY <2>1, ConsistentSame DEF FiguresHold, Reports!FiguresInv
  <2>3. QED BY <1>1, <2>1, <2>2 DEF FiguresHold, Reports!FiguresInv
<1>4. QED BY <1>2, <1>3

LEMMA ReportsSum ==
  ASSUME NEW f PROVE Reports!SumFunction(f) = SumOn(f, DOMAIN f)
BY DEF Reports!SumFunction, Reports!SumFunctionOnSet, Reports!FoldFunctionOnSet,
       Reports!MapThenFoldSet, SumOn, SumFunctionOnSet, FoldFunctionOnSet,
       MapThenFoldSet

\* g counts those of some orders that are of the branches here, which are those
\* of x that are there; of are all of x.
OrdersOf(x, orders, there, here, of, g) ==
  /\ there \subseteq Locations /\ here \subseteq there
  /\ \A b \in there : b \in here <=> DinerOf[b] = x
  /\ of \subseteq orders /\ orders \subseteq Sales
  /\ \A o \in orders : o \in of <=> DinerOf[SoldAt[o]] = x
  /\ \A b \in here : g[b] = Reports!OfBranch(orders, b)

\* The orders of a restaurant are those of its branches: the branches that are
\* kept have no more of them, and all branches have them all.
LEMMA BranchesAddUp ==
  ASSUME ReportsAssumption, NEW x, NEW orders, NEW there, NEW here, NEW of,
         NEW g, OrdersOf(x, orders, there, here, of, g)
  PROVE  /\ SumOn(g, here) <= Cardinality(of)
         /\ Locations \subseteq there => SumOn(g, here) = Cardinality(of)
<1> USE DEF OrdersOf
<1> DEFINE P == [b \in here |-> {o \in orders : SoldAt[o] = b}]
           U == UNION {P[b] : b \in here}
<1>1. IsFiniteSet(here) /\ \A b \in here : IsFiniteSet(P[b])
  <2>1. here \subseteq Locations /\ \A b \in here : P[b] \subseteq Sales OBVIOUS
  <2>2. QED BY <2>1, FS_Subset DEF ReportsAssumption
<1>2. \A b \in here, c \in here : b # c => P[b] \cap P[c] = {} OBVIOUS
<1>3. \A b \in here : g[b] = Cardinality(P[b])
  <2>1. \A b \in here : g[b] = Reports!Cardinality(P[b])
    BY DEF Reports!OfBranch
  <2>2. QED BY <2>1, SalesCount
<1>4. U \subseteq of BY DEF ReportsAssumption
<1>5. IsFiniteSet(of) /\ IsFiniteSet(U) BY <1>4, FS_Subset DEF ReportsAssumption
<1>6. ASSUME Locations \subseteq there PROVE U = of
  <2>1. ASSUME NEW o \in of PROVE o \in U
    <3>1. SoldAt[o] \in here BY <1>6, <2>1 DEF ReportsAssumption
    <3>2. o \in P[SoldAt[o]] BY <2>1, <3>1
    <3>3. QED BY <3>1, <3>2
  <2>2. QED BY <1>4, <2>1
<1> HIDE DEF P, U, OrdersOf
<1>7. SumOn(g, here) = Cardinality(U)
  <2>1. PartsOf(here, P, U) BY <1>1, <1>2 DEF U, PartsOf
  <2>2. QED BY <1>3, <1>5, <2>1, SumSizes
<1>8. Cardinality(U) \in Nat /\ Cardinality(U) <= Cardinality(of)
  BY <1>4, <1>5, FS_Subset, FS_CardinalityType
<1>9. QED BY <1>6, <1>7, <1>8

LEMMA FiguresAddUp == ReportsAssumption /\ FiguresHold => Reports!FiguresAgree
<1> SUFFICES ASSUME ReportsAssumption, FiguresHold, NEW r \in Reports!Answered
             PROVE  LET data == request[r].data
                        Calm == Reports!Sometime(data.from, data.to)
                                  \subseteq Reports!Throughout(data.from, data.to)
                        Rows(x) == Reports!RestaurantDetails(data, x).branches
                        Branch(x) == Reports!SumFunction(
                          [b \in DOMAIN Rows(x) |-> Rows(x)[b].totalOrders])
                        AllKept == Locations \subseteq data.figures["branches"]
                    IN Calm /\ data.restaurants # {} =>
                         /\ \A x \in data.restaurants :
                              /\ \A b \in DOMAIN Rows(x) :
                                   Rows(x)[b].totalOrders
                                     = Rows(x)[b].byStatus["completed"]
                              /\ Branch(x)
                                   <= Reports!RestaurantDetails(data, x).totalOrders
                         /\ AllKept =>
                              Reports!OverAllData(data).totalOrders
                                = Reports!SumFunction(
                                    [x \in data.restaurants |-> Branch(x)])
  BY DEF Reports!FiguresAgree
<1>1. r \in Readers /\ request[r].step = "answered"
  BY DEF Reports!Answered, Reports!Step
<1>2. PICK d : d = request[r].data OBVIOUS
<1> DEFINE Rows(x) == Reports!RestaurantDetails(d, x).branches
           Branch(x) == Reports!SumFunction(
                          [b \in DOMAIN Rows(x) |-> Rows(x)[b].totalOrders])
           AllKept == Locations \subseteq d.figures["branches"]
           Here(x) == {b \in d.figures["branches"] : DinerOf[b] = x}
           steady == Reports!Throughout(d.from, d.to)
<1>3. SUFFICES ASSUME Reports!Sometime(d.from, d.to) \subseteq steady,
                      d.restaurants # {}
               PROVE  /\ \A x \in d.restaurants :
                           /\ \A b \in DOMAIN Rows(x) :
                                Rows(x)[b].totalOrders
                                  = Rows(x)[b].byStatus["completed"]
                           /\ Branch(x)
                                <= Reports!RestaurantDetails(d, x).totalOrders
                      /\ AllKept =>
                           Reports!OverAllData(d).totalOrders
                             = Reports!SumFunction(
                                 [x \in d.restaurants |-> Branch(x)])
  BY <1>2
<1>4. /\ Reports!Consistent(d)
      /\ AnswerShaped(d) /\ Reports!Whole(d)
      /\ \E lo, hi : Reports!Within(d, lo, hi)
  <2>1. d \in Reports!Known BY <1>1, <1>2 DEF Reports!Known
  <2>2. RequestShaped(request[r]) /\ Reports!RequestOK(request[r])
    BY <1>1 DEF FiguresHold, ReportsHold, ReportsTyped, Reports!AnswersInv
  <2>3. \E lo, hi : Reports!Within(d, lo, hi) BY <1>1, <1>2, <2>2 DEF Reports!RequestOK
  <2>4. QED
    BY <1>1, <1>2, <2>1, <2>2, <2>3
       DEF FiguresHold, Reports!FiguresInv, Reports!RequestOK, RequestShaped
<1>5. /\ d.figures["branches"] # None /\ d.figures["byBranch"] # None
      /\ d.figures["byStatus"] # None /\ d.figures["totals"] # None
  BY <1>3, <1>4 DEF Reports!Whole, Reports!Aggregations
<1>6. d.figures["branches"] \subseteq Locations
  BY <1>4, <1>5 DEF Reports!Within
<1>7. ASSUME NEW x \in d.restaurants
      PROVE  /\ DOMAIN Rows(x) = Here(x)
             /\ \A b \in Here(x) :
                  /\ Rows(x)[b].totalOrders = Reports!OfBranch(steady, b)
                  /\ Rows(x)[b].byStatus["completed"]
                       = Reports!OfBranch(steady, b)
             /\ Reports!RestaurantDetails(d, x).totalOrders
                  = Cardinality({o \in steady : DinerOf[SoldAt[o]] = x})
  <2>1. Rows(x) = [b \in Here(x) |-> [totalOrders |-> d.figures["byBranch"][b],
                                      byStatus |-> d.figures["byStatus"][b]]]
    BY DEF Reports!RestaurantDetails
  <2>2. \A b \in Here(x) :
          /\ d.figures["byBranch"][b] = Reports!OfBranch(steady, b)
          /\ d.figures["byStatus"][b]["completed"]
               = Reports!OfBranch(steady, b)
    <3>1. \A b \in Here(x) : b \in Locations /\ DinerOf[b] \in d.restaurants
      BY <1>6, <1>7
    <3>2. QED BY <1>3, <1>4, <1>5, <3>1 DEF Reports!Consistent
  <2>3. d.figures["totals"][x]
          = Reports!Cardinality({o \in steady : DinerOf[SoldAt[o]] = x})
    BY <1>3, <1>4, <1>5, <1>7 DEF Reports!Consistent, Reports!OfRestaurant
  <2>4. Reports!RestaurantDetails(d, x).totalOrders = d.figures["totals"][x]
    BY DEF Reports!RestaurantDetails
  <2>5. d.figures["totals"][x]
          = Cardinality({o \in steady : DinerOf[SoldAt[o]] = x})
    BY <2>3, SalesCount
  <2> HIDE DEF Rows
  <2>6. QED BY <2>1, <2>2, <2>4, <2>5
<1> HIDE DEF Rows
<1>8. ASSUME NEW x \in d.restaurants
      PROVE  /\ Branch(x) <= Reports!RestaurantDetails(d, x).totalOrders
             /\ AllKept =>
                  Branch(x) = Reports!RestaurantDetails(d, x).totalOrders
  <2> DEFINE g == [b \in Here(x) |-> Rows(x)[b].totalOrders]
             of == {o \in steady : DinerOf[SoldAt[o]] = x}
  <2>1. Branch(x) = SumOn(g, Here(x)) BY <1>7, ReportsSum
  <2>2. \A b \in Here(x) : g[b] = Reports!OfBranch(steady, b) BY <1>7
  <2>3. PICK there \in SUBSET Locations : there = d.figures["branches"] BY <1>6
  <2>4. Here(x) = {b \in there : DinerOf[b] = x} BY <2>3
  <2>5. Reports!RestaurantDetails(d, x).totalOrders = Cardinality(of) BY <1>7
  <2>6. PICK all : all = of OBVIOUS
  <2> HIDE DEF g, Branch
  <2>7. /\ SumOn(g, Here(x)) <= Cardinality(all)
        /\ Locations \subseteq there => SumOn(g, Here(x)) = Cardinality(all)
    <3>1. PICK t : t = steady /\ t \subseteq Sales
      BY DEF Reports!Throughout
    <3>2. PICK here : here = Here(x) OBVIOUS
    <3>3. OrdersOf(x, t, there, here, all, g)
      BY <2>2, <2>3, <2>4, <2>6, <3>1, <3>2 DEF OrdersOf
    <3> HIDE DEF steady, Here, of
    <3>4. QED BY <3>2, <3>3, BranchesAddUp
  <2>8. QED BY <2>1, <2>3, <2>5, <2>6, <2>7
<1>9. ASSUME AllKept
      PROVE  Reports!OverAllData(d).totalOrders
               = Reports!SumFunction([x \in d.restaurants |-> Branch(x)])
  <2> DEFINE f == [x \in d.restaurants |-> d.figures["totals"][x]]
             h == [x \in d.restaurants |-> Branch(x)]
  <2>1. \A x \in d.restaurants : f[x] = h[x]
    <3> SUFFICES ASSUME NEW x \in d.restaurants PROVE f[x] = h[x] OBVIOUS
    <3>1. Reports!RestaurantDetails(d, x).totalOrders = d.figures["totals"][x]
      BY DEF Reports!RestaurantDetails
    <3> HIDE DEF Branch
    <3>2. QED BY <1>8, <1>9, <3>1
  <2>2. Reports!OverAllData(d).totalOrders = Reports!SumFunction(f)
    BY DEF Reports!OverAllData
  <2>3. IsFiniteSet(d.restaurants)
    BY <1>4, FS_Subset DEF AnswerShaped, ReportsAssumption
  <2>4. DOMAIN f = d.restaurants /\ DOMAIN h = d.restaurants OBVIOUS
  <2> HIDE DEF f, h
  <2>5. SumOn(f, d.restaurants) = SumOn(h, d.restaurants) BY <2>1, <2>3, SumSame
  <2>6. Reports!SumFunction(f) = Reports!SumFunction(h)
    BY <2>4, <2>5, ReportsSum
  <2>7. QED BY <2>2, <2>6 DEF h
<1>10. ASSUME NEW x \in d.restaurants, NEW b \in DOMAIN Rows(x)
       PROVE  Rows(x)[b].totalOrders = Rows(x)[b].byStatus["completed"]
  <2>1. b \in Here(x) BY <1>7, <1>10
  <2>2. QED BY <1>7, <2>1
<1> HIDE DEF Branch, AllKept
<1>11. QED BY <1>8, <1>9, <1>10

\* When no order was completed, reopened or deleted from the first to the last
\* count of an answer, the eight aggregations that made it, one beside the other, agree: a restaurant's
\* branches have no more orders than it has, and exactly as many over all when
\* none was deleted (getAnalytics).
THEOREM FiguresAlwaysAgree == Reports!Spec => []Reports!FiguresAgree
<1>1. ReportsAssumption BY ReportsAssumption
<1>2. Reports!Init => FiguresHold BY <1>1, FiguresBegin
<1>3. FiguresHold /\ [Reports!Next]_Reports!vars => FiguresHold'
  BY <1>1, FiguresStay DEF Reports!vars, reports
<1>4. FiguresHold => Reports!FiguresAgree BY <1>1, FiguresAddUp
<1>5. QED BY <1>2, <1>3, <1>4, PTL DEF Reports!Spec

\* The same of the figures beside coupons and reviews (user.service.ts).
THEOREM FiguresAgreeBeside == MCSpec => []FiguresAgree
<1>1. ReportsAssumption BY ReportsAssumption
<1>2. MCInit => FiguresHold BY <1>1, FiguresBegin DEF MCInit
<1>3. FiguresHold /\ [MCNext]_<<vars, part, calm, reports, rated>> => FiguresHold'
  BY <1>1, FiguresStay DEF MCNext, reports
<1>4. FiguresHold => FiguresAgree BY <1>1, FiguresAddUp DEF FiguresAgree
<1>5. QED BY <1>2, <1>3, <1>4, PTL DEF MCSpec

=============================================================================
