------------------------------ MODULE MCCoupons ------------------------------
(***************************************************************************)
(* Instances of Coupons, of the figures of the administration (Analytics)  *)
(* and of the reviews of orders (Reviews) for TLC.  A behaviour is about   *)
(* one of them, its part.  One about coupons is calm, its requests served  *)
(* one at a time, of all kinds (the last one the customer's) and at all    *)
(* branches, or its requests overlap, at one branch and without changes of *)
(* the coupons there are.                                                  *)
(***************************************************************************)
EXTENDS Coupons, TLC

CONSTANTS
  Parts,      \* the parts explored: "coupons", "reports", "reviews"
  OneBranch,  \* the branch of overlapping requests
  MaxCalm,    \* bound: requests of a calm behaviour
  Readers, Diners, Locations, DinerOf, Sales, SoldAt,
  ViewTTL, MaxCompute, LastHour,  \* of Analytics
  Guests, Meals, Dishes, StarParts, Stars  \* of Reviews: its requests, orders,
                                           \* targets, unit and ratings

ASSUME ReportsAssumption ==
  /\ DinerOf \in [Locations -> Diners] /\ SoldAt \in [Sales -> Locations]
  /\ IsFiniteSet(Sales) /\ IsFiniteSet(Locations) /\ IsFiniteSet(Diners)
  /\ ViewTTL \in Nat \ {0} /\ MaxCompute \in Nat /\ LastHour \in Nat

ASSUME RatingsAssumption ==
  StarParts \in Nat \ {0} /\ Stars \subseteq StarParts..(5 * StarParts)

VARIABLES
  part,
  calm,
  now, listedAt, orderStatus, been, kept, view, request,  \* Analytics
  status, reviews, done, place, review                \* Reviews

Customer == {"create", "cart", "order", "pay"}

\* Bounds: taking on a request at that branch, about a coupon in force and a
\* cart that is large enough.
BeginSimple(r) ==
  \/ \E c \in Codes :
       CreateFind(r, [branch |-> OneBranch, code |-> c, limit |-> 1,
                      active |-> TRUE])
  \/ \E c \in Codes \cup {None} : CartRead(r, OneBranch, c, TRUE)
  \/ OrderRead(r)
  \/ \E o \in Requests : PayRedeem(r, o) \/ DeleteOrder(r, o)

-----------------------------------------------------------------------------
(* Two requests for the figures of one restaurant with two branches.         *)

OneDiner == [b \in Locations |-> CHOOSE x \in Diners : TRUE]
OnePlace == [o \in Sales |-> CHOOSE b \in Locations : TRUE]

Reports == INSTANCE Analytics WITH
  Requests <- Readers, Restaurants <- Diners, Branches <- Locations,
  RestaurantOf <- DinerOf, OrderIds <- Sales, BranchOf <- SoldAt,
  MaxTime <- LastHour

AnswersRecent == Reports!AnswersRecent
FiguresAgree == Reports!FiguresAgree

\* Bounds: one request at a time counts, and one thing happens in a behaviour,
\* once a request has begun: an order is completed, reopened or deleted, a
\* branch deleted or a restaurant listed (the last two when all orders are
\* completed, a listing not at once).  Whoever has an answer asks again in a
\* later hour, and nobody asks in the last one.  The branches are read first,
\* which makes no difference with one change, and before their statuses.
Counting == {r \in Readers : request[r].step = "counting"}
Begun == {r \in Readers : request[r].step # "idle"}
Changed ==
  {o \in Sales : \/ orderStatus[o] = "gone"
                 \/ Cardinality({e[2] : e \in been[o]}) > 1}
Happened ==
  Cardinality(Changed) + Cardinality(Locations \ kept)
    + Cardinality({x \in Diners : listedAt[x] \in 1..now})
ReportsBound ==
  /\ Cardinality(Counting)' <= 1 /\ Happened' <= 1
  /\ orderStatus' # orderStatus => Changed = {}
  /\ listedAt' # listedAt => now > 0
  /\ Happened' > Happened =>
       \/ orderStatus' # orderStatus
       \/ \A o \in Sales : orderStatus[o] = "completed" /\ SoldAt[o] \notin kept'
       \/ \A o \in Sales : orderStatus[o] = "completed" /\ listedAt' # listedAt
  /\ \A o \in Sales : orderStatus'[o] = "gone" => orderStatus[o] # "open"
  /\ (now' > now \/ Happened' > Happened) => Begun # {}
  /\ \A r \in Readers : request'[r].step = "menu" => request'[r].at < LastHour
  /\ \A r \in Readers : (request[r].step = "answered" /\ request[r].at = now)
       => request'[r] = request[r]
  /\ \A r \in Counting :
       \/ request'[r] = request[r]
       \/ /\ request'[r].data.figures["branches"] # None
          /\ request'[r].data.figures["byStatus"] # None
               => request'[r].data.figures["byBranch"] # None
       \/ request'[r].step = "idle"

-----------------------------------------------------------------------------
(* Three requests about reviews, numbered as they begin, one of them for the *)
(* rating of a target at most.                                               *)

Rated == INSTANCE Reviews WITH
  Requests <- Guests, OrderIds <- Meals, Targets <- Dishes, Unit <- StarParts,
  Ratings <- Stars, job <- review

ReviewsStand == Rated!ReviewsStand

RatedBound ==
  LET begun == {r \in Guests : place[r] # "idle"}
  IN /\ begun = 1..Cardinality(begun)
     /\ Cardinality({r \in begun : "own" \in DOMAIN review[r]}) <= 1

-----------------------------------------------------------------------------

Symmetry ==
  Permutations(Readers) \cup Permutations(Meals) \cup Permutations(Dishes)

reports == <<now, listedAt, orderStatus, been, kept, view, request>>
rated == <<status, reviews, done, place, review>>

-----------------------------------------------------------------------------

MCInit ==
  /\ part \in Parts
  /\ calm \in IF part = "coupons" THEN BOOLEAN ELSE {TRUE}
  /\ IF part = "reports" THEN TRUE ELSE listedAt = [x \in Diners |-> 0]
  /\ Init
  /\ Reports!Init
  /\ Rated!Init
CouponsNext ==
  \E r \in Requests :
    \/ /\ calm /\ Running = {} /\ r <= MaxCalm /\ MayBegin(r) /\ Begin(r)
       /\ r = MaxCalm => pc'[r] \in {"coupon", "payment", "paid"}
    \/ ~calm /\ MayBegin(r) /\ BeginSimple(r)
    \/ Continue(r)
MCNext ==
  /\ UNCHANGED <<part, calm>>
  /\ \/ part = "coupons" /\ CouponsNext /\ UNCHANGED <<reports, rated>>
     \/ /\ part = "reports" /\ Reports!Next /\ ReportsBound
        /\ UNCHANGED <<vars, rated>>
     \/ /\ part = "reviews" /\ Rated!Next /\ RatedBound'
        /\ UNCHANGED <<vars, reports>>
MCSpec == MCInit /\ [][MCNext]_<<vars, part, calm, reports, rated>>

\* Requests served one at a time: every order is counted, and no discount is
\* granted beyond the limit.
OrdersAreCounted == calm => EveryOrderCounted
DiscountWithinLimit == [][calm => DiscountIsGranted]_vars

\* Why they hold.
CalmInv == calm => Serial /\ CountsCalm

=============================================================================
