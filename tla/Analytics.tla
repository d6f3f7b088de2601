------------------------------ MODULE Analytics ------------------------------
(***************************************************************************)
(* The figures of the restaurants, as shown to their administrators        *)
(* (user.service.ts, getAnalytics).  An answer is kept in the database for *)
(* a while, whoever computed it; what it counts is read by aggregations    *)
(* that run side by side, not in one snapshot.  The list of restaurants is *)
(* kept as well, in a field of the service; but the service is built per   *)
(* request, because of the HttpClientService it has, so that the field is  *)
(* empty when a request begins and the menu service is asked each time.    *)
(* An order that was completed may be reopened, refunded or deleted.       *)
(***************************************************************************)
EXTENDS Integers, FiniteSets, Functions

CONSTANTS
  Requests,        \* bound: requests that run at once, all of the same period,
                   \* restaurant and origin
  Restaurants, Branches, RestaurantOf,   \* RestaurantOf \in [Branches -> Restaurants]
  OrderIds, BranchOf,                      \* BranchOf \in [OrderIds -> Branches]
  ViewTTL,         \* how long an answer is kept in the database
  MaxCompute,      \* bound: how long a request takes
  MaxTime,         \* bound on the clock
  None

VARIABLES
  now,          \* the clock, in units of which ViewTTL is a multiple
  listedAt,     \* when the menu service listed each restaurant, or Never
  orderStatus,  \* of each order: completed or not, or deleted
  been,         \* history: which status it had, at each time so far
  kept,         \* the branches that are not deleted
  view,         \* the document of userAnalyticsMv for these requests
  request       \* the requests, as far as they have come

vars == <<now, listedAt, orderStatus, been, kept, view, request>>

Never == MaxTime + 1

Listed == {x \in Restaurants : listedAt[x] <= now}
Completed == {o \in OrderIds : orderStatus[o] = "completed"}

-----------------------------------------------------------------------------
(* What each aggregation returns.  An order is of a restaurant on the list,  *)
(* and only completed ones are counted, except by status.  The numbers of    *)
(* orders and their sales are summed alike by two aggregations: one of each *)
(* kind stands for both.                                                     *)

Aggregations == {"byBranch", "byStatus", "totals", "branches"}
Statuses == {"open", "completed"}

OrdersAt(b, list, status) ==
  {o \in OrderIds : /\ BranchOf[o] = b /\ RestaurantOf[b] \in list
                  /\ orderStatus[o] = status}

ByBranch(list) == [b \in Branches |-> Cardinality(OrdersAt(b, list, "completed"))]
ByStatus(list) ==
  [b \in Branches |-> [s \in Statuses |-> Cardinality(OrdersAt(b, list, s))]]
TotalsAny(list) ==
  [x \in list |-> Cardinality({o \in OrderIds : RestaurantOf[BranchOf[o]] = x})]
Totals(list) ==
  [x \in list |->
     Cardinality({o \in Completed : RestaurantOf[BranchOf[o]] = x})]
KeptBranches(list) == {b \in kept : RestaurantOf[b] \in list}

Aggregate(a, list) ==
  CASE a = "byBranch" -> ByBranch(list)
    [] a = "byStatus" -> ByStatus(list)
    [] a = "totals" -> Totals(list)
    [] a = "branches" -> KeptBranches(list)

-----------------------------------------------------------------------------

NoFigures == [a \in Aggregations |-> None]
NoAnswer == [restaurants |-> {}, figures |-> NoFigures, from |-> 0, to |-> 0]
Idle ==
  [step |-> "idle", at |-> 0, answeredAt |-> 0, data |-> NoAnswer]

Init ==
  /\ now = 0
  /\ listedAt \in [Restaurants -> {0, Never}]
  /\ orderStatus \in [OrderIds -> Statuses]
  /\ been = [o \in OrderIds |-> {<<0, orderStatus[o]>>}]
  /\ kept = Branches
  /\ view = [until |-> 0, payload |-> NoAnswer]
  /\ request = [r \in Requests |-> Idle]

Step(r) == request[r].step
MoveOn(r, step, data) ==
  request' = [request EXCEPT ![r] = [@ EXCEPT !.step = step, !.data = data]]

Running == {r \in Requests : Step(r) \notin {"idle", "answered"}}

\* The request is answered with data.
Answer(r, data) ==
  request' = [request EXCEPT ![r] =
                [@ EXCEPT !.step = "answered", !.answeredAt = now, !.data = data]]

\* A request begins: the answer kept must be good at this moment.
Begin(r) ==
  /\ r \notin Running
  /\ request' = [request EXCEPT ![r] =
                   [Idle EXCEPT !.step = "lookup", !.at = now]]
  /\ UNCHANGED <<now, listedAt, orderStatus, been, kept, view>>

\* The list of restaurants is known: without any, the answer is empty and is
\* not kept.
WithList(r, list) ==
  IF list = {} THEN Answer(r, NoAnswer)
  ELSE MoveOn(r, "counting",
              [NoAnswer EXCEPT !.restaurants = list, !.from = now])

\* The kept answer is served, or the figures are computed for the list that
\* the menu service gives.
LookupAny(r) ==
  /\ Step(r) = "lookup"
  /\ IF view.until > 0
     THEN Answer(r, view.payload)
     ELSE MoveOn(r, "menu", [NoAnswer EXCEPT !.from = now])
  /\ UNCHANGED <<now, listedAt, orderStatus, been, kept, view>>
Lookup(r) ==
  /\ Step(r) = "lookup"
  /\ IF view.until > request[r].at
     THEN Answer(r, view.payload)
     ELSE MoveOn(r, "menu", [NoAnswer EXCEPT !.from = now])
  /\ UNCHANGED <<now, listedAt, orderStatus, been, kept, view>>

\* The menu service answered.
Menu(r) ==
  /\ Step(r) = "menu"
  /\ WithList(r, Listed)
  /\ UNCHANGED <<now, listedAt, orderStatus, been, kept, view>>

\* One of the aggregations that run side by side returns.
Count(r, a) ==
  LET data == request[r].data
      figures == [data.figures EXCEPT ![a] = Aggregate(a, data.restaurants)]
      last == \A other \in Aggregations : figures[other] # None
  IN /\ Step(r) = "counting"
     /\ data.figures[a] = None
     /\ MoveOn(r, IF last THEN "onboarded" ELSE "counting",
               [data EXCEPT !.figures = figures, !.to = now])
     /\ UNCHANGED <<now, listedAt, orderStatus, been, kept, view>>

\* What an answer shows of a restaurant: the orders of each branch kept, and the
\* total that was counted for it.
RestaurantDetails(data, x) ==
  [totalOrders |-> data.figures["totals"][x],
   branches |->
     [b \in {b \in data.figures["branches"] : RestaurantOf[b] = x} |->
        [totalOrders |-> data.figures["byBranch"][b],
         byStatus |-> data.figures["byStatus"][b]]]]

OverAllData(data) ==
  [totalRestaurants |-> Cardinality(data.restaurants),
   totalBranches |-> Cardinality(data.figures["branches"]),
   totalOrders |->
     SumFunction([x \in data.restaurants |-> data.figures["totals"][x]])]

\* Then what was onboarded in the period is read, the restaurants, their
\* branches, the users and the names of these, one query after the other.
Onboarded(r) ==
  /\ Step(r) = "onboarded"
  /\ MoveOn(r, "saving", request[r].data)
  /\ UNCHANGED <<now, listedAt, orderStatus, been, kept, view>>

\* The answer is kept, over one that another request may have saved since,
\* for ViewTTL from now.
Save(r) ==
  /\ Step(r) = "saving"
  /\ view' = [until |-> now + ViewTTL, payload |-> request[r].data]
  /\ Answer(r, request[r].data)
  /\ UNCHANGED <<now, listedAt, orderStatus, been, kept>>

\* The menu service or the database fails the request.
Fail(r) ==
  /\ r \in Running
  /\ request' = [request EXCEPT ![r] = Idle]
  /\ UNCHANGED <<now, listedAt, orderStatus, been, kept, view>>

-----------------------------------------------------------------------------
(* What goes on meanwhile.                                                   *)

List(x) ==
  /\ listedAt[x] = Never
  /\ listedAt' = [listedAt EXCEPT ![x] = now]
  /\ UNCHANGED <<now, orderStatus, been, kept, view, request>>

\* The status of an order changes: it is completed, or reopened or cancelled,
\* as a refund does. Its deletion is the last change.
SetStatus(o, to) ==
  /\ orderStatus[o] \notin {to, "gone"}
  /\ orderStatus' = [orderStatus EXCEPT ![o] = to]
  /\ been' = [been EXCEPT ![o] = @ \cup {<<now, to>>}]
  /\ UNCHANGED <<now, listedAt, kept, view, request>>
Update(o) == \E to \in Statuses : SetStatus(o, to)
DeleteOrder(o) == SetStatus(o, "gone")

DeleteBranch(b) ==
  /\ b \in kept
  /\ kept' = kept \ {b}
  /\ UNCHANGED <<now, listedAt, orderStatus, been, view, request>>

Tick ==
  /\ now < MaxTime
  /\ \A r \in Running : now < request[r].at + MaxCompute
  /\ now' = now + 1
  /\ been' = [o \in OrderIds |-> been[o] \cup {<<now + 1, orderStatus[o]>>}]
  /\ UNCHANGED <<listedAt, orderStatus, kept, view, request>>

Next ==
  \/ \E r \in Requests :
       \/ Begin(r) \/ Lookup(r) \/ Menu(r) \/ Onboarded(r) \/ Save(r) \/ Fail(r)
       \/ \E a \in Aggregations : Count(r, a)
  \/ \E x \in Restaurants : List(x)
  \/ \E o \in OrderIds : Update(o) \/ DeleteOrder(o)
  \/ \E b \in Branches : DeleteBranch(b)
  \/ Tick

Spec == Init /\ [][Next]_vars

-----------------------------------------------------------------------------
(* The properties.                                                           *)

Times == 0..Never

\* The type of the figures, the kept answer and the requests (user.service.ts).
TypeOK ==
  /\ now \in 0..MaxTime
  /\ listedAt \in [Restaurants -> Times]
  /\ orderStatus \in [OrderIds -> Statuses \cup {"gone"}]
  /\ \A o \in OrderIds : been[o] \subseteq (0..MaxTime) \X (Statuses \cup {"gone"})
  /\ kept \subseteq Branches
  /\ \A r \in Requests :
       Step(r) \in {"idle", "lookup", "menu", "counting", "onboarded", "saving",
                    "answered"}

\* The orders that were completed all the time from lo to hi, and those that
\* were at some time of it.
Throughout(lo, hi) ==
  {o \in OrderIds :
     \A t \in lo..hi, s \in {"open", "gone"} : <<t, s>> \notin been[o]}
Sometime(lo, hi) ==
  {o \in OrderIds : \E t \in lo..hi : <<t, "completed">> \in been[o]}

OfBranch(orders, b) == Cardinality({o \in orders : BranchOf[o] = b})
OfRestaurant(orders, x) ==
  Cardinality({o \in orders : RestaurantOf[BranchOf[o]] = x})

Answered == {r \in Requests : Step(r) = "answered"}

\* However the computations overlap and overwrite each other's result, an
\* answer shows every restaurant listed before the answer kept and the
\* computing time can have hidden it, and counts every order that was
\* completed from then on until the answer was given, and none that was
\* completed at no time of it (getAnalytics).
AnswersRecent ==
  \A r \in Answered :
    LET data == request[r].data
        until == request[r].answeredAt
        figuresFrom == until - (ViewTTL - 1 + 2 * MaxCompute)
    IN /\ \A x \in Restaurants :
            (listedAt[x] < figuresFrom) => x \in data.restaurants
       /\ \A x \in data.restaurants :
            LET branches == RestaurantDetails(data, x).branches
            IN \A b \in DOMAIN branches :
                 \A n \in {branches[b].totalOrders,
                           branches[b].byStatus["completed"]} :
                   /\ n >= OfBranch(Throughout(figuresFrom, until), b)
                   /\ n <= OfBranch(Sometime(figuresFrom, until), b)

\* When no order was completed, reopened or deleted between the first and the
\* last count of an answer, its figures agree: the branches shown, by number
\* and by status, add up to the total of the restaurant, and over all of them
\* to the total at the head, unless a branch was deleted, whose orders only the
\* totals count (getAnalytics, eight aggregations in one Promise.all).
FiguresAgree ==
  \A r \in Answered :
    LET data == request[r].data
        Calm == Sometime(data.from, data.to) \subseteq Throughout(data.from, data.to)
        Rows(x) == RestaurantDetails(data, x).branches
        Branch(x) ==
          SumFunction([b \in DOMAIN Rows(x) |-> Rows(x)[b].totalOrders])
        AllKept == Branches \subseteq data.figures["branches"]
    IN Calm /\ data.restaurants # {} =>
         /\ \A x \in data.restaurants :
              /\ \A b \in DOMAIN Rows(x) :
                   Rows(x)[b].totalOrders = Rows(x)[b].byStatus["completed"]
              /\ Branch(x) <= RestaurantDetails(data, x).totalOrders
         /\ AllKept => OverAllData(data).totalOrders
                         = SumFunction([x \in data.restaurants |-> Branch(x)])

-----------------------------------------------------------------------------
(* What makes it inductive.                                                  *)

\* What data shows was so at some time from lo to hi, as far as it is there.
Within(data, lo, hi) ==
  LET Possible(b) ==
        OfBranch(Throughout(lo, hi), b)..OfBranch(Sometime(lo, hi), b)
      byBranch == data.figures["byBranch"]
      byStatus == data.figures["byStatus"]
      branches == data.figures["branches"]
  IN /\ \A x \in Restaurants : listedAt[x] < lo => x \in data.restaurants
     /\ branches # None => branches \subseteq Branches
     /\ \A b \in Branches : RestaurantOf[b] \in data.restaurants =>
          /\ byBranch # None => byBranch[b] \in Possible(b)
          /\ byStatus # None => byStatus[b]["completed"] \in Possible(b)
Whole(data) ==
  data.restaurants = {} \/ \A a \in Aggregations : data.figures[a] # None

\* A request that has begun is not older than it may be, and what it has counted
\* it counted since; what it answers is not much older, since what was kept had
\* been counted within the computing time when it was saved.
RequestOK(q) ==
  LET recent == q.answeredAt - (ViewTTL - 1 + 2 * MaxCompute)
  IN /\ q.at <= now
     /\ q.step \notin {"idle", "answered"} => now <= q.at + MaxCompute
     /\ q.step \in {"counting", "onboarded", "saving"} =>
          /\ q.at <= q.data.from /\ q.data.from <= now
          /\ Within(q.data, q.data.from, now)
     /\ q.step \in {"onboarded", "saving"} => Whole(q.data)
     /\ q.step = "answered" =>
          /\ q.answeredAt <= now
          /\ Whole(q.data) /\ Within(q.data, recent, q.answeredAt)
ViewOK ==
  LET saved == view.until - ViewTTL
  IN view.until > 0 =>
       /\ saved <= now /\ Whole(view.payload)
       /\ Within(view.payload, saved - MaxCompute, saved)
\* The history has every time so far, and what is so now.
Recorded ==
  \A o \in OrderIds :
    /\ <<now, orderStatus[o]>> \in been[o]
    /\ \A t \in 0..now :
         \E s \in {"open", "completed", "gone"} : <<t, s>> \in been[o]
AnswersInv == Recorded /\ ViewOK /\ \A r \in Requests : RequestOK(request[r])

\* If no order changed from the first of its counts to the last, data counts
\* what was completed all that time.
Consistent(data) ==
  LET Calm == Sometime(data.from, data.to) \subseteq Throughout(data.from, data.to)
      steady == Throughout(data.from, data.to)
      Counted(a) == data.figures[a] # None
  IN /\ data.from <= now /\ data.to <= now
     /\ (\E a \in Aggregations : Counted(a)) => data.from <= data.to
     /\ Calm =>
          /\ \A b \in Branches : RestaurantOf[b] \in data.restaurants =>
               /\ Counted("byBranch") =>
                    data.figures["byBranch"][b] = OfBranch(steady, b)
               /\ Counted("byStatus") =>
                    data.figures["byStatus"][b]["completed"] = OfBranch(steady, b)
          /\ \A x \in data.restaurants : Counted("totals") =>
               data.figures["totals"][x] = OfRestaurant(steady, x)
Known == {view.payload} \cup {request[r].data : r \in Requests}
FiguresInv == \A data \in Known : Consistent(data)
=============================================================================
