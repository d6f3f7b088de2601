------------------------------- MODULE Reviews -------------------------------
(***************************************************************************)
(* Reviews of orders (reviews.service.ts): of the restaurant, of a product *)
(* or of the rider of an order, once it is completed.  The rating is any   *)
(* number from 1 to 5, 4.97 as well.  An order is read, then the review is *)
(* inserted, which a unique index refuses when the order already has one   *)
(* of the same target.  The rating shown of a target is made from two      *)
(* queries that run side by side: its own reviews and those of the whole   *)
(* platform.                                                               *)
(*                                                                         *)
(* Whether a review is visible is stored and asked for by the pages, but   *)
(* none of these queries looks at it: it is left out.  A request refused   *)
(* at its first checks (the order, the restaurant, the customer) changes   *)
(* nothing and is left out too.  A mean is computed exactly.               *)
(***************************************************************************)
EXTENDS Integers, FiniteSets, Functions

CONSTANTS
  Requests,  \* the requests served
  OrderIds,  \* orders of one restaurant
  Targets,   \* what is reviewed
  Unit,      \* how many parts of a star are told apart
  Ratings,   \* ratings given, in these parts, from 1 star to 5
  MaxInFlight,  \* bound: requests served at the same time
  None       \* no answer yet

VARIABLES
  status,    \* of each order: open, completed, or deleted
  reviews,   \* the reviews there are
  done,      \* history: orders that were completed at some time
  place,     \* where each request is
  job        \* what each request holds

vars == <<status, reviews, done, place, job>>

Own(t) == {v \in reviews : v.target = t}
Sum(S) == SumFunction([v \in S |-> v.rating])

Init ==
  /\ status = [o \in OrderIds |-> "open"]
  /\ reviews = {}
  /\ done = {}
  /\ place = [r \in Requests |-> "idle"]
  /\ job = [r \in Requests |-> None]

Running == {r \in Requests : place[r] \in {"insert", "asked"}}
Start(r, what, at) ==
  /\ place[r] = "idle"
  /\ Cardinality(Running) < MaxInFlight
  /\ job' = [job EXCEPT ![r] = what]
  /\ place' = [place EXCEPT ![r] = at]
  /\ UNCHANGED <<status, reviews, done>>

-----------------------------------------------------------------------------
(* A review.                                                                 *)

\* createReview: the order is there and completed ...
CreateReview(r, o, t, rating) ==
  /\ status[o] = "completed"
  /\ Start(r, [order |-> o, target |-> t, rating |-> rating], "insert")

\* ... and the review is inserted, if the order has none of the target.
Reviewed(o, t) == \E v \in reviews : v.order = o /\ v.target = t
Insert(r) ==
  /\ place[r] = "insert"
  /\ reviews' = IF Reviewed(job[r].order, job[r].target) THEN reviews
                ELSE reviews \cup {[id |-> r, order |-> job[r].order,
                                    target |-> job[r].target,
                                    rating |-> job[r].rating]}
  /\ place' = [place EXCEPT ![r] = "done"]
  /\ UNCHANGED <<status, done, job>>

-----------------------------------------------------------------------------
(* What is shown of a target.                                                *)

\* getReviewAverages asks for both at once; first: history, the target's
\* reviews then, any: whether there were any at all.
Averages(r, t) ==
  Start(r, [target |-> t, own |-> None, all |-> None,
            first |-> Cardinality(Own(t)), any |-> reviews # {}, shown |-> None],
        "asked")

Figures(S) == [number |-> Cardinality(S), sum |-> Sum(S)]
OwnAnswer(r) ==
  /\ place[r] = "asked" /\ job[r].own = None
  /\ job' = [job EXCEPT ![r].own = Figures(Own(job[r].target))]
  /\ UNCHANGED <<status, reviews, done, place>>
AllAnswer(r) ==
  /\ place[r] = "asked" /\ job[r].all = None
  /\ job' = [job EXCEPT ![r].all = Figures(reviews)]
  /\ UNCHANGED <<status, reviews, done, place>>

\* toFixed(1) of so many parts of a star: in tenths of one, the nearest, half
\* a tenth up.
Tenths(over, under) == (20 * over + under * Unit) \div (2 * (under * Unit))

\* The mean rating is that of the platform, or 3.5 as long as there is none,
\* as far as the target's own reviews are fewer than m.
m == 20
Weighted(own, C) == Tenths(own.sum * C[2] + m * C[1], (own.number + m) * C[2])
\* Seeded fault: it is 3.5 always.
BayesianFixed(own, all) == Weighted(own, <<7 * Unit, 2>>)
Bayesian(own, all) ==
  Weighted(own, IF all.number = 0 THEN <<7 * Unit, 2>> ELSE <<all.sum, all.number>>)
Show(r) ==
  /\ place[r] = "asked" /\ job[r].own # None /\ job[r].all # None
  /\ job' = [job EXCEPT ![r].shown = Bayesian(job[r].own, job[r].all)]
  /\ place' = [place EXCEPT ![r] = "done"]
  /\ UNCHANGED <<status, reviews, done>>

-----------------------------------------------------------------------------

\* The database refuses, or the server stops.
Fail(r) ==
  /\ r \in Running
  /\ place' = [place EXCEPT ![r] = "failed"]
  /\ UNCHANGED <<status, reviews, done, job>>

\* The order is completed, given another status by hand, or deleted.
SetStatus(o, s) ==
  /\ status[o] \notin {s, "deleted"}
  /\ status' = [status EXCEPT ![o] = s]
  /\ done' = IF s = "completed" THEN done \cup {o} ELSE done
  /\ UNCHANGED <<reviews, place, job>>

Next ==
  \/ \E r \in Requests :
       \/ \E o \in OrderIds, t \in Targets, rating \in Ratings :
            CreateReview(r, o, t, rating)
       \/ \E t \in Targets : Averages(r, t)
       \/ Insert(r) \/ OwnAnswer(r) \/ AllAnswer(r) \/ Show(r) \/ Fail(r)
  \/ \E o \in OrderIds, s \in {"open", "completed", "deleted"} : SetStatus(o, s)

Spec == Init /\ [][Next]_vars

-----------------------------------------------------------------------------
(* The properties.                                                           *)

\* What is reviewed had been completed, whatever became of the order between
\* the check and the insertion (createReview).
ReviewedCompleted == \A v \in reviews : v.order \in done

\* A rating shown lies between the lowest and the highest there is, in tenths
\* as well, if there was any when it was asked for, whatever is reviewed between
\* the two queries; and it counts no fewer reviews than there were then and no
\* more than there are (getReviewAverages).
RatingsBetween ==
  \A r \in Requests :
    LET j == job[r] IN
    (place[r] = "done" /\ "shown" \in DOMAIN j) =>
      /\ j.own.number \in j.first..Cardinality(Own(j.target))
      /\ j.any => /\ \E v \in reviews : Tenths(v.rating, 1) <= j.shown
                  /\ \E v \in reviews : Tenths(v.rating, 1) >= j.shown
      /\ ~j.any /\ j.own.number = 0 /\ j.all.number = 0 => j.shown = 35

ReviewsStand == ReviewedCompleted /\ RatingsBetween

-----------------------------------------------------------------------------
(* What makes it inductive.                                                  *)

\* As reviews stay, what was asked about the ratings is what some of the
\* reviews there are come to, and no fewer than there were then.
AveragesOK(j) ==
  /\ j.first <= Cardinality(Own(j.target)) /\ (j.any => reviews # {})
  /\ j.own # None => \E S \in SUBSET Own(j.target) :
                       j.own = Figures(S) /\ j.first <= Cardinality(S)
  /\ j.all # None => \E S \in SUBSET reviews :
                       j.all = Figures(S) /\ (j.any => S # {})
RequestOK(at, j) ==
  /\ at = "insert" => j.order \in done
  /\ at = "asked" => AveragesOK(j)
  /\ at = "done" /\ "shown" \in DOMAIN j =>
       /\ AveragesOK(j) /\ j.own # None /\ j.all # None
       /\ j.shown = Bayesian(j.own, j.all)
ReviewsInv ==
  /\ ReviewedCompleted
  /\ {o \in OrderIds : status[o] = "completed"} \subseteq done
  /\ \A r \in Requests : RequestOK(place[r], job[r])
=============================================================================
