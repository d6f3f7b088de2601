---------------------------- MODULE OrderBoards -----------------------------
(***************************************************************************)
(* When an order is for, and on which page a branch finds it               *)
(* (orders.service.ts, validateOrderTime and getTodayOrders).              *)
(*                                                                         *)
(* Time is counted in minutes of the branch's clock since midnight of day  *)
(* 0.  An order carries the day it is for (stored as that day's beginning  *)
(* in the branch's zone) and a time of day.  Daylight saving is left out,  *)
(* and so are the pages' search and pagination.                            *)
(***************************************************************************)
EXTENDS Integers

CONSTANTS
  Requests,     \* POST /orders requests, which also name the orders
  Days,         \* the days customers ask for
  Times,        \* the times of day customers ask for
  OpenAt,       \* for each order type and weekday, the minutes it is served
  PrepTime,     \* the branch's preparationTimeInMins, or 30
  Opening,      \* when the model's clock starts
  Passing,      \* by how much it may go on at once
  Closing,      \* bound: where it stops
  None          \* no document

Day == 1440
CourierTime == 30
OrderTypes == {"pickup", "delivery"}
Statuses == {"pending", "placed", "accepted", "preparing", "orderCompleted"}
Doc == [day : Nat, from : 0..(Day - 1), asap : BOOLEAN,
        type : OrderTypes, status : Statuses]

VARIABLES
  today,  \* the current day
  clock,  \* and the time of day
  held,   \* the order a request has validated and is going to store
  order   \* the order collection

boards == <<today, clock, held, order>>

Now == today * Day + clock

TypeOK ==
  /\ today \in Nat
  /\ clock \in 0..(Day - 1)
  /\ held \in [Requests -> Doc \cup {None}]
  /\ order \in [Requests -> Doc \cup {None}]

Init ==
  /\ today = 0
  /\ clock = Opening
  /\ held = [r \in Requests |-> None]
  /\ order = [r \in Requests |-> None]

-----------------------------------------------------------------------------
(* POST /orders *)

\* An order for a given time must be for the future and for an hour at which
\* the branch serves orders of its type; one for as soon as possible, whose
\* times are equal, is for today in any case.
ValidTime(d, t, type) ==
  /\ d * Day + t >= Now
  /\ t \in OpenAt[type][d % 7]

\* The time that is validated is the request's; the one that is stored is the
\* cart's, if it has one.
Submit(r, d, t, asap, type, cartTime, cartAsap) ==
  /\ held[r] = None /\ order[r] = None
  /\ asap \/ ValidTime(d, t, type)
  /\ held' = [held EXCEPT ![r] =
                [day |-> IF asap THEN today ELSE d, from |-> cartTime,
                 asap |-> cartAsap, type |-> type, status |-> "pending"]]
  /\ UNCHANGED <<today, clock, order>>

Store(r) ==
  /\ held[r] # None /\ order[r] = None
  /\ order' = [order EXCEPT ![r] = held[r]]
  /\ UNCHANGED <<today, clock, held>>

-----------------------------------------------------------------------------
(* What happens to it: any writer of its status (see Orders), and time.     *)

SetStatus(r, s) ==
  /\ order[r] # None
  /\ order' = [order EXCEPT ![r].status = s]
  /\ UNCHANGED <<today, clock, held>>

TimePasses(n) ==
  /\ Now + n <= Closing
  /\ IF clock + n < Day THEN clock' = clock + n /\ today' = today
     ELSE clock' = clock + n - Day /\ today' = today + 1
  /\ UNCHANGED <<held, order>>

-----------------------------------------------------------------------------
(* The pages *)

Due(o) == o.day * Day + o.from
\* From when on an order must be prepared to be there in time.
Cutoff(o) ==
  Now + PrepTime + IF o.type = "delivery" THEN CourierTime ELSE 0

OnScheduled(o) ==
  /\ o.status \in {"placed", "accepted"}
  /\ o.day >= today
  /\ Due(o) > Cutoff(o)
  /\ o.status = "placed" => ~o.asap

\* Seeded fault: the page stops a minute before the scheduled page begins.
OnPlacedShort(o) ==
  o.status = "placed" /\ (o.asap \/ Due(o) < Cutoff(o))
OnPlaced(o) ==
  o.status = "placed" /\ (o.asap \/ Due(o) <= Cutoff(o))

OnCooking(o) ==
  \/ o.status = "preparing"
  \/ o.status = "accepted" /\ Due(o) <= Cutoff(o)

Next ==
  \/ \E r \in Requests :
       \/ \E d \in Days, t, ct \in Times, asap, ca \in BOOLEAN,
             type \in OrderTypes : Submit(r, d, t, asap, type, ct, ca)
       \/ Store(r)
       \/ \E s \in Statuses : SetStatus(r, s)
  \/ \E n \in Passing : TimePasses(n)

Spec == Init /\ [][Next]_boards

-----------------------------------------------------------------------------
(* Properties *)

\* An order the kitchen has to know of is on exactly one of the three pages at
\* every minute, whichever time it carries, validated or not: as time passes,
\* midnight included, none falls between two pages or shows up on two.
OnOnePage ==
  \A r \in Requests :
    (order[r] # None /\ order[r].status \in {"placed", "accepted", "preparing"})
      => LET o == order[r]
         IN /\ OnScheduled(o) \/ OnPlaced(o) \/ OnCooking(o)
            /\ ~(OnScheduled(o) /\ OnPlaced(o))
            /\ ~(OnScheduled(o) /\ OnCooking(o))
            /\ ~(OnPlaced(o) /\ OnCooking(o))

=============================================================================
