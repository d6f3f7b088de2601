------------------------------ MODULE Rewards ------------------------------
(***************************************************************************)
(* Where the reward points of a customer are kept (reward.service.ts, the  *)
(* movements of points in orders.service.ts) and what is shown of them     *)
(* (cart.service.ts, customers.service.ts).  All documents of the reward   *)
(* collection below are of one user, in the order they were inserted: a    *)
(* query with a filter that several match takes the first.                 *)
(*                                                                         *)
(* An order that is completed moves points of the user, wherever they are, *)
(* and puts its own restaurant's name on them; every other movement looks  *)
(* for the user's points at the order's restaurant.  Both insert what they *)
(* do not find, and nothing keeps two documents of a user apart.  The log  *)
(* names the order of each movement, which need not be in the collection   *)
(* of orders any more, or yet.                                             *)
(***************************************************************************)
EXTENDS Integers, Sequences, SequencesExt, FiniteSets, Functions

CONSTANTS
  Movements,   \* movements of points, by orders
  Places,      \* restaurants
  Branches, PlaceOf,  \* their branches: PlaceOf \in [Branches -> Places]
  Orders, BranchOf,   \* the user's orders: BranchOf \in [Orders -> Branches]
  Edits,       \* bound: how many requests of the administration are made
  None         \* no movement yet

VARIABLES
  docs,         \* the user's documents of the reward collection
  placed,       \* the orders: not yet in their collection, there, or deleted
  logs,         \* rewardTransactionLog
  pc,           \* where each movement is
  move,         \* what it moves
  edits,        \* requests of the administration made
  balance,      \* history: the sum of all that was moved, created and put
  undisturbed   \* history: one movement at a time, none failed, all at one
                \* restaurant, and none of the administration's requests

vars == <<docs, placed, logs, pc, move, edits, balance, undisturbed>>

Earned == 2
Redeemed == 1

\* What an order moves: when it is completed by its status what it earned and,
\* again, what it redeemed, when it is delivered what it earned; when it is paid
\* what it redeemed; when it is refunded, fully or partly, what it earned.
Kinds == {"earn", "redeemAgain", "redeem", "refund", "refundPart"}
Amount(kind) ==
  CASE kind = "earn" -> Earned
    [] kind = "redeemAgain" -> -Redeemed
    [] kind = "redeem" -> -Redeemed
    [] kind = "refund" -> -Earned
    [] kind = "refundPart" -> -1
Move == [kind : Kinds, order : Orders]
Where(o) == PlaceOf[BranchOf[o]]
At(m) == Where(m.order)
AnyPlace(m) == m.kind \in {"earn", "redeemAgain"}

Doc(place, points) == [place |-> place, points |-> points, deleted |-> FALSE]

Init ==
  /\ docs = <<>> /\ logs = {} /\ placed = [o \in Orders |-> "new"]
  /\ pc = [m \in Movements |-> "idle"]
  /\ move = [m \in Movements |-> None]
  /\ edits = 0 /\ balance = 0 /\ undisturbed = TRUE

-----------------------------------------------------------------------------
(* Movements *)

\* The document a movement finds, the first that matches; 0 if there is none.
Matches(m, d) == AnyPlace(m) \/ d.place = At(m)
Found(m) == SelectInSeq(docs, LAMBDA d : Matches(m, d))

\* The points are moved in the document found, which becomes one of the order's
\* restaurant if it was found by its user alone.
Moved(d, m) ==
  [d EXCEPT !.points = @ + Amount(m.kind),
            !.place = IF AnyPlace(m) THEN At(m) ELSE @]

\* The movements that are under way, and those of an order.
Running == {m \in Movements : pc[m] \notin {"idle", "done"}}
OfOrder(o) == {m \in Movements : pc[m] # "idle" /\ move[m].order = o}

\* What is redeemed by an order that is not paid for online is redeemed before
\* the order is inserted; every other movement is of an order that was read.
MayMove(what) ==
  placed[what.order] = "new" => what.kind = "redeem" /\ OfOrder(what.order) = {}

\* findOneAndUpdate with upsert: one step on a document that is there ...
Begin(m, what) ==
  /\ pc[m] = "idle" /\ MayMove(what)
  /\ move' = [move EXCEPT ![m] = what]
  /\ IF Found(what) # 0
     THEN /\ docs' = [docs EXCEPT ![Found(what)] = Moved(@, what)]
          /\ balance' = balance + Amount(what.kind)
          /\ pc' = [pc EXCEPT ![m] = "log"]
     ELSE /\ pc' = [pc EXCEPT ![m] = "insert"]
          /\ UNCHANGED <<docs, balance>>
  /\ undisturbed' = (undisturbed /\ Running = {}
       /\ \A i \in DOMAIN docs : docs[i].place = At(what))
  /\ UNCHANGED <<placed, logs, edits>>

\* ... and two when there was none.
Insert(m) ==
  /\ pc[m] = "insert"
  /\ docs' = Append(docs, Doc(At(move[m]), Amount(move[m].kind)))
  /\ balance' = balance + Amount(move[m].kind)
  /\ pc' = [pc EXCEPT ![m] = "log"]
  /\ UNCHANGED <<placed, logs, move, edits, undisturbed>>

\* The movement is logged, as added or subtracted.
LogAdded(m) ==
  /\ pc[m] = "log"
  /\ logs' = logs \cup {[of |-> m, order |-> move[m].order,
                         adjustType |-> "add",
                         quantity |-> IF Amount(move[m].kind) > 0
                                      THEN Amount(move[m].kind)
                                      ELSE -Amount(move[m].kind)]}
  /\ pc' = [pc EXCEPT ![m] = "done"]
  /\ UNCHANGED <<docs, placed, move, edits, balance, undisturbed>>
Log(m) ==
  /\ pc[m] = "log"
  /\ LET n == Amount(move[m].kind) IN
     logs' = logs \cup {[of |-> m, order |-> move[m].order,
                         adjustType |-> IF n > 0 THEN "add" ELSE "subtract",
                         quantity |-> IF n > 0 THEN n ELSE -n]}
  /\ pc' = [pc EXCEPT ![m] = "done"]
  /\ UNCHANGED <<docs, placed, move, edits, balance, undisturbed>>

\* The database fails, or the server stops, between the steps.
Fail(m) ==
  /\ m \in Running
  /\ pc' = [pc EXCEPT ![m] = "done"]
  /\ undisturbed' = FALSE
  /\ UNCHANGED <<docs, placed, logs, move, edits, balance>>

-----------------------------------------------------------------------------
(* Orders *)

\* create: the order is inserted once it redeemed what it redeems, or failed to.
\* It need not come to that: the database may fail before.
InsertOrder(o) ==
  /\ placed[o] = "new" /\ OfOrder(o) \cap Running = {}
  /\ placed' = [placed EXCEPT ![o] = "there"]
  /\ UNCHANGED <<docs, logs, pc, move, edits, balance, undisturbed>>

\* delete: neither its movements nor its logs are looked at.
DeleteOrder(o) ==
  /\ placed[o] = "there"
  /\ placed' = [placed EXCEPT ![o] = "gone"]
  /\ UNCHANGED <<docs, logs, pc, move, edits, balance, undisturbed>>

-----------------------------------------------------------------------------
(* Requests of the administration *)

Edit ==
  /\ edits < Edits /\ edits' = edits + 1
  /\ undisturbed' = FALSE
  /\ UNCHANGED <<placed, logs, pc, move>>

\* create: of a customer, whether there is a document or not.
Create(place, points) ==
  /\ Edit
  /\ docs' = Append(docs, Doc(place, points))
  /\ balance' = balance + points

\* update: the points of the user's first document are set.
Update(points) ==
  /\ Edit /\ docs # <<>>
  /\ docs' = [docs EXCEPT ![1].points = points]
  /\ balance' = balance - docs[1].points + points

\* deleteReward: the user's first document is marked.
DeleteReward ==
  /\ Edit /\ docs # <<>>
  /\ docs' = [docs EXCEPT ![1].deleted = TRUE]
  /\ UNCHANGED balance

Next ==
  \/ \E m \in Movements :
       \/ \E what \in Move : Begin(m, what)
       \/ Insert(m) \/ Log(m) \/ Fail(m)
  \/ \E o \in Orders : InsertOrder(o) \/ DeleteOrder(o)
  \/ \E place \in Places : Create(place, 3)
  \/ Update(3) \/ DeleteReward

Spec == Init /\ [][Next]_vars

-----------------------------------------------------------------------------
(* What is shown *)

\* The points a cart at a restaurant may redeem: the first document there.
CartPoints(place) ==
  LET i == SelectInSeq(docs, LAMBDA d : d.place = place /\ ~d.deleted)
  IN IF i = 0 THEN 0 ELSE docs[i].points

\* listCustomers: the last document there, deleted or not, is what remains.
PointsRemaining(place) ==
  LET i == SelectLastInSeq(docs, LAMBDA d : d.place = place)
  IN IF i = 0 THEN 0 ELSE docs[i].points

Quantities(S) == SumFunction([l \in S |-> l.quantity])
LogsOf(type, place) ==
  {l \in logs : l.adjustType = type /\ Where(l.order) = place}

\* listCustomers: what was subtracted is what was used, at the restaurant ...
PointsUsed(place) == Quantities(LogsOf("subtract", place))

\* ... or, joined to the orders that are there, at a branch.
UsesAt(branch) ==
  {l \in LogsOf("subtract", PlaceOf[branch]) :
     placed[l.order] = "there" /\ BranchOf[l.order] = branch}
PointsUsedAt(branch) == Quantities(UsesAt(branch))

\* getRewardSummaryByDate, of any time.
TotalRewardPoints(place) ==
  LET Shown == {i \in DOMAIN docs : docs[i].place = place /\ ~docs[i].deleted}
  IN SumFunction([i \in Shown |-> docs[i].points])

-----------------------------------------------------------------------------
(* Properties *)

\* The type of the documents and the movements (reward.entity.ts).
TypeOK ==
  /\ docs \in Seq([place : Places, points : Int, deleted : BOOLEAN])
  /\ \A l \in logs : l.quantity \in Nat /\ l.order \in Orders
  /\ placed \in [Orders -> {"new", "there", "gone"}]
  /\ pc \in [Movements -> {"idle", "insert", "log", "done"}]
  /\ move \in [Movements -> Move \cup {None}]

\* No movement is lost or counted twice, in whatever document it ended up.
NothingLost ==
  SumFunction([i \in DOMAIN docs |-> docs[i].points]) = balance

\* While movements come one at a time at one restaurant, what a cart may redeem,
\* what the list and the summary show and what the log adds up to are the same.
Settled(place) ==
  /\ CartPoints(place) = PointsRemaining(place)
  /\ TotalRewardPoints(place) = CartPoints(place)
  /\ Quantities(LogsOf("add", place)) - PointsUsed(place) = CartPoints(place)

\* What was used by orders that are not there, which no branch shows.
Unseen(place) ==
  {l \in LogsOf("subtract", place) : placed[l.order] # "there"}

\* The points of a user: movements that overlap, fail and are split over
\* documents lose nothing; what is shown as used at the branches of a restaurant
\* falls short of what is shown as used there by the uses of orders that were
\* deleted or never inserted, and by nothing else; and undisturbed, the cart, the
\* list, the summary and the log agree on the points that are left
\* (orders.service.ts 728, 846, 944, 1034, 1065, 1083; cart.service.ts 147;
\* customers.service.ts 112-145).
RewardsAgree ==
  /\ NothingLost
  /\ \A place \in Places :
       LET Here == {b \in Branches : PlaceOf[b] = place} IN
       /\ PointsUsed(place)
            = SumFunction([branch \in Here |-> PointsUsedAt(branch)])
                + Quantities(Unseen(place))
       /\ undisturbed /\ Running = {} => Settled(place)

-----------------------------------------------------------------------------
(* Why they hold.                                                            *)

\* What is logged is of movements that are done.
LogsDone ==
  /\ IsFiniteSet(logs)
  /\ \A l \in logs : l.of \in Movements /\ pc[l.of] = "done"

\* Undisturbed, there is one document at most, of the restaurant of all that is
\* logged; a movement that found none inserts it, and its points are those
\* logged, and those of the movement that is about to log its own.
Net(place) == Quantities(LogsOf("add", place)) - PointsUsed(place)
OneDocument ==
  undisturbed =>
    /\ \A m, n \in Running : m = n
    /\ Len(docs) <= 1 /\ (docs = <<>> => logs = {})
    /\ \A m \in Running : pc[m] = IF docs = <<>> THEN "insert" ELSE "log"
    /\ \A i \in DOMAIN docs :
         LET d == docs[i] IN
         /\ ~d.deleted
         /\ \A l \in logs : Where(l.order) = d.place
         /\ Running = {} => d.points = Net(d.place)
         /\ \A m \in Running : /\ At(move[m]) = d.place
                               /\ d.points = Net(d.place) + Amount(move[m].kind)
PointsInv ==
  /\ TypeOK /\ balance \in Int
  /\ \A m \in Movements : pc[m] # "idle" => move[m] \in Move
  /\ NothingLost /\ LogsDone /\ OneDocument
=============================================================================
