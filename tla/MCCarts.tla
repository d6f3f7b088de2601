------------------------------- MODULE MCCarts -------------------------------
(***************************************************************************)
(* A small shop: the carts of a customer (Carts), what they cost           *)
(* (CartPricing), the points of a customer (Rewards), the pages of a       *)
(* branch's orders (OrderBoards), its sales (SalesStats) and the trending  *)
(* orders (Trending).  A behaviour is about one of them, its part.         *)
(***************************************************************************)
EXTENDS Carts, CartPricing, TLC

CONSTANTS
  Parts,          \* the parts explored
  wrap, drink,
  MaxConcurrent,  \* bound: requests, once two have overlapped
  Totals, Top, DayLength, CronEvery, MaxRun, LastMinute,  \* of Trending
  Ranges, Offsets, Books,  \* of SalesStats
  Movers, Diners, Shops, DinerOf,  \* of Rewards: movements, restaurants, branches
  Purchases, ShopOf                \* and orders

ASSUME TrendsAssumption ==
  /\ IsFiniteSet(Totals) /\ Totals \subseteq Int /\ Top \in Int
  /\ DayLength \in Nat \ {0} /\ CronEvery \in Nat \ {0}
  /\ MaxRun \in Nat /\ LastMinute \in Nat

ASSUME SalesAssumption ==
  /\ Ranges \subseteq Int \X Int /\ \A range \in Ranges : range[1] <= range[2]
  /\ Offsets \subseteq Int
  /\ \A book \in Books : /\ IsFiniteSet(book)
                          /\ \A o \in book : o.day \in Int /\ o.total \in Int

ASSUME PointsAssumption ==
  /\ DinerOf \in [Shops -> Diners] /\ IsFiniteSet(Shops)
  /\ ShopOf \in [Purchases -> Shops]

VARIABLES
  part,
  overlapped,     \* history: a request began while another was served
  docs, placed, logs, moved, move, edits, balance, undisturbed,  \* Rewards
  today, clock, held, order,                                 \* OrderBoards
  query, orders, step, compared, current, previous, daily,   \* SalesStats
  minute, ticked, insertedAt, stream, due, refreshes, cached,
  failedAt                                                   \* Trending

-----------------------------------------------------------------------------

Begun == {r \in Requests : pc[r] # "idle"}

\* Requests are numbered as they begin.  Once two overlapped, few others follow,
\* the last of them alone.
Explored ==
  LET n == Cardinality(Begun)
  IN /\ Begun = {r \in Requests : r <= n}
     /\ overlapped => /\ n <= MaxConcurrent
                      /\ MaxConcurrent \in Running => Running = {MaxConcurrent}

\* As long as requests come one at a time, what the last one put into the cart
\* is there (appendCart).
AppendSticks == part = "carts" => overlapped \/ LastIsThere

\* Why it holds.
AloneInv == overlapped \/ Alone

Symmetry == Permutations(Places)

-----------------------------------------------------------------------------
(* A small menu and the carts, balances and coupons that can be made of it. *)

Sold == {wrap, drink}
PriceList ==
  [p \in Sold |->
     IF p = wrap THEN [price |-> 101, pointsToRedeem |-> 3, pointsToAdd |-> 1]
     ELSE [price |-> 250, pointsToRedeem |-> 0, pointsToAdd |-> 2]]

Line(p, q, rewards, options) ==
  [product |-> p, quantity |-> q, fromRewards |-> rewards, options |-> options]
SomeLines ==
  {Line(wrap, 3, TRUE, 0), Line(wrap, 1, TRUE, 7), Line(wrap, 2, FALSE, 0),
   Line(drink, 1, TRUE, 0)}

Coupon(kind, value, cap, min) ==
  [kind |-> kind, usable |-> TRUE, value |-> value, capped |-> cap > 0,
   cap |-> cap, minimum |-> min, target |-> wrap]
SomeCoupons ==
  {Coupon("none", 0, 0, 0), Coupon("percentage", 15, 40, 0),
   Coupon("percentage", 33, 0, 300), Coupon("percentage", 100, 0, 0),
   Coupon("fixed", 250, 0, 250), Coupon("bogo", 0, 0, 0),
   [Coupon("fixed", 50, 0, 0) EXCEPT !.usable = FALSE]}

SomeBalances == {-4, 0, 4, 9, 12}
Rates == {0, 7}
SomeTips == {0, 50}

-----------------------------------------------------------------------------
(* Three movements of points, numbered as they begin, at two branches of one *)
(* restaurant and one of another, of one order at each, of which two at most *)
(* are inserted; two movements at most once something was disturbed, or an   *)
(* order was deleted.                                                        *)

OneOrderEach == [o \in Purchases |-> o]
TwoDiners == [b \in Shops |-> IF b = "north" THEN "bistro" ELSE "diner"]

Ledger == INSTANCE Rewards WITH
  Movements <- Movers, Places <- Diners, Branches <- Shops, PlaceOf <- DinerOf,
  Orders <- Purchases, BranchOf <- ShopOf, Edits <- 1, pc <- moved

FewMovements ==
  LET begun == {m \in Movers : moved[m] # "idle"}
      n == Cardinality(begun)
  IN /\ begun = 1..n
     /\ ~undisturbed \/ (\E o \in Purchases : placed[o] = "gone") => n <= 2
     /\ Cardinality({o \in Purchases : placed[o] # "new"}) <= 2

RewardsAgree == part = "points" => Ledger!RewardsAgree

-----------------------------------------------------------------------------
(* A branch over two days and a half, in steps of ten minutes, that takes    *)
(* deliveries only on the second.                                          *)

OpenAt ==
  [type \in {"pickup", "delivery"} |->
     [weekday \in 0..6 |->
        IF type = "delivery" /\ weekday # 1 THEN {} ELSE 600..1430]]

Boards == INSTANCE OrderBoards WITH
  Requests <- {"r1"},
  Days <- 0..2, Times <- {10, 600, 1430}, PrepTime <- 30,
  Opening <- 540, Passing <- {10, 480}, Closing <- 3000

OnOnePage == part = "boards" => Boards!OnOnePage

-----------------------------------------------------------------------------
(* Periods of every length around the longest, ending on day 200; servers   *)
(* west and east of the branch and in its time zone; up to two orders on    *)
(* the days where a period may begin or end.                               *)

SomeRanges == {<<201 - n, 200>> : n \in (1..4) \cup (43..47) \cup (88..93)}
SomeOffsets == {-10, 0, 5}
Booked == {[day |-> d, id |-> i, total |-> 100 * i] :
             d \in {154, 155, 156, 199, 200, 201}, i \in {0, 3}}
SomeBooks == {b \in SUBSET Booked : Cardinality(b) <= 2}

Stats == INSTANCE SalesStats

ComparisonFits == Stats!ComparisonFits
DaysAddUp == Stats!DaysAddUp
SameNumberOfDays == Stats!SameNumberOfDays

\* Whatever the period and the server's clock, what a period is compared with
\* ends the day before and fits the longest range, and the figures by day add
\* up to those of the period (getOrderStats, getDailySalesStats).
SalesAddUp == part = "stats" => ComparisonFits /\ DaysAddUp

-----------------------------------------------------------------------------
(* Two orders on two days of six minutes, a refresh every other minute; one  *)
(* refresh may fail, and a stream that breaks early is opened again.         *)

Trends == INSTANCE Trending WITH Orders <- Totals, MaxTime <- LastMinute

FewTroubles ==
  /\ failedAt \in {Trends!Never, failedAt'}
  /\ stream' = "restarting" => minute' <= 3

ServedIsRecent == part = "trends" => Trends!ServedIsRecent

-----------------------------------------------------------------------------

points == <<docs, placed, logs, moved, move, edits, balance, undisturbed>>
trends == <<minute, ticked, insertedAt, stream, due, refreshes, cached, failedAt>>
boards == <<today, clock, held, order>>
stats == <<query, orders, step, compared, current, previous, daily>>

\* What a behaviour is not about stands still at its beginning.
OneBill ==
  [lines |-> <<Line(drink, 1, TRUE, 0)>>, balance |-> 0,
   coupon |-> Coupon("none", 0, 0, 0), taxRate |-> 0, tip |-> 0]
OneDay == [from |-> 200, to |-> 200, offset |-> 0]

MCInit ==
  /\ part \in Parts
  /\ IF part = "bill" THEN TRUE ELSE bill = OneBill
  /\ IF part = "stats" THEN TRUE ELSE query = OneDay /\ orders = {}
  /\ overlapped = FALSE
  /\ Init
  /\ BillInit
  /\ Ledger!Init
  /\ Boards!Init
  /\ Stats!Init
  /\ Trends!Init
  /\ part # "trends" => insertedAt = [o \in Totals |-> Trends!Never]

MCNext ==
  /\ UNCHANGED part
  /\ \/ /\ part = "carts"
        /\ Next
        /\ overlapped' = (overlapped \/ (Running # {} /\ Begun' # Begun))
        /\ Explored'
        /\ UNCHANGED <<billVars, points, boards, stats, trends>>
     \/ /\ part = "bill" /\ BillNext
        /\ UNCHANGED <<vars, overlapped, points, boards, stats, trends>>
     \/ /\ part = "points" /\ Ledger!Next /\ FewMovements'
        /\ UNCHANGED <<vars, overlapped, billVars, boards, stats, trends>>
     \/ /\ part = "boards" /\ Boards!Next
        /\ UNCHANGED <<vars, overlapped, billVars, points, stats, trends>>
     \/ /\ part = "stats" /\ Stats!Next
        /\ UNCHANGED <<vars, overlapped, billVars, points, boards, trends>>
     \/ /\ part = "trends" /\ Trends!Next /\ FewTroubles
        /\ UNCHANGED <<vars, overlapped, billVars, points, boards, stats>>

MCSpec ==
  /\ MCInit
  /\ [][MCNext]_<<vars, part, overlapped, billVars, points, boards, stats, trends>>

=============================================================================
