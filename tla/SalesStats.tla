----------------------------- MODULE SalesStats -----------------------------
(***************************************************************************)
(* The sales figures of a branch (orders.service.ts, getOrderStats and      *)
(* getDailySalesStats): which days a period is compared with, and what is  *)
(* counted for either.                                                     *)
(*                                                                         *)
(* Time is counted in hours of the branch's clock, day d beginning at      *)
(* d * Day; an order is dated at the beginning of its day, and the last    *)
(* hour of a day stands for its end.  What the code does with momentTz.tz  *)
(* is in the branch's calendar.  momentTz(date, zone) takes the zone for a *)
(* format and works in the server's calendar, offset hours ahead.          *)
(*                                                                         *)
(* The orders stay as they are while they are counted.  Refunded parts,    *)
(* averages and growth rates are left out.                                 *)
(***************************************************************************)
EXTENDS Integers, FiniteSets, FiniteSetsExt

CONSTANTS
  Ranges,   \* the pairs of days, from and to, that are asked for
  Offsets,  \* hours the server's clock may be ahead of the branch's
  Books     \* sets of completed orders: records of a day, an id and a total

Day == 24
MaxDays == 90  \* the longest period, and the longest with what it is compared

VARIABLES
  query,     \* from, to and offset
  orders,    \* the completed orders of the branch
  step,      \* "asked", "refused", "dated", "counted"
  compared,  \* the hours of the first and last day compared with, or <<>>
  current,   \* orders and sales of the period asked for
  previous,  \* those of the period compared with
  daily      \* those of each day, or <<>>

stats == <<query, orders, step, compared, current, previous, daily>>

Figures(set) == [orders |-> Cardinality(set),
                 sales |-> SumFunction([o \in set |-> o.total])]
Nothing == [orders |-> 0, sales |-> 0]

Init ==
  /\ \E r \in Ranges, z \in Offsets :
       query = [from |-> r[1], to |-> r[2], offset |-> z]
  /\ orders \in Books
  /\ step = "asked"
  /\ compared = <<>>
  /\ current = Nothing
  /\ previous = Nothing
  /\ daily = <<>>

-----------------------------------------------------------------------------
(* The periods *)

FromDate == query.from * Day
ToDate == query.to * Day + Day - 1

ServerStart(t) ==
  ((t + query.offset) \div Day) * Day - query.offset
ServerEnd(t) == ServerStart(t) + Day - 1

TooLong == FromDate < ToDate - MaxDays * Day

\* The days between the start of the first and the end of the last, rounded up.
PeriodDays == (ServerEnd(ToDate) - ServerStart(FromDate)) \div Day + 1

\* As many days before, or what is left of the longest range.
ComparisonDays ==
  IF 2 * PeriodDays <= MaxDays THEN PeriodDays ELSE MaxDays - PeriodDays

PreviousEnd == ServerEnd(FromDate - Day)
PreviousStart == ServerStart(PreviousEnd - (ComparisonDays - 1) * Day)

Refuse ==
  /\ step = "asked"
  /\ TooLong
  /\ step' = "refused"
  /\ UNCHANGED <<query, orders, compared, current, previous, daily>>

\* A period of exactly the longest range is compared with nothing.
ChoosePeriods ==
  /\ step = "asked"
  /\ ~TooLong
  /\ compared' = IF PeriodDays = MaxDays THEN <<>>
                 ELSE <<PreviousStart, PreviousEnd>>
  /\ step' = "dated"
  /\ UNCHANGED <<query, orders, current, previous, daily>>

-----------------------------------------------------------------------------
(* The figures *)

\* getStatsForPeriod: the completed orders dated in a period.
Within(start, end) ==
  {o \in orders : start <= o.day * Day /\ o.day * Day <= end}

CountPeriods ==
  /\ step = "dated"
  /\ current' = Figures(Within(FromDate, ToDate))
  /\ previous' = IF compared = <<>> THEN Nothing
                 ELSE Figures(Within(compared[1], compared[2]))
  /\ step' = "counted"
  /\ UNCHANGED <<query, orders, compared, daily>>

\* Seeded fault: the last day is not initialised, so its orders are dropped.
ListedDaysOff == query.from..(query.to - 1)
ListedDays == query.from..query.to

\* getDailySalesStats: a request of its own, without a longest range.
CountDays ==
  /\ daily = <<>>
  /\ daily' = [d \in ListedDays |->
                 Figures({o \in Within(FromDate, ToDate) : o.day = d})]
  /\ UNCHANGED <<query, orders, step, compared, current, previous>>

Next == Refuse \/ ChoosePeriods \/ CountPeriods \/ CountDays

Spec == Init /\ [][Next]_stats

-----------------------------------------------------------------------------
(* Properties *)

Length == query.to - query.from + 1
\* The days whose orders are counted for the period compared with.
ComparedDays ==
  IF compared = <<>> THEN {}
  ELSE {d \in (query.from - MaxDays - 2)..(query.to + 2) :
          compared[1] <= d * Day /\ d * Day <= compared[2]}

\* Wherever the server runs, what a period is compared with ends on the day
\* before it, and the two are no longer together than the longest range; on a
\* server that keeps the branch's time, the comparison is as long as the period
\* or as what the longest range leaves.
ComparisonFits ==
  step \in {"dated", "counted"} =>
    /\ ComparedDays # {} => Max(ComparedDays) = query.from - 1
    /\ Cardinality(ComparedDays) + Length <= MaxDays
    /\ query.offset = 0 =>
         Cardinality(ComparedDays) = Min({Length, MaxDays - Length})

\* 'Compare same number of days before fromDate', for a period of at most half
\* the longest range.
SameNumberOfDays ==
  (step \in {"dated", "counted"} /\ 2 * Length < MaxDays)
    => Cardinality(ComparedDays) = Length

\* The figures of the days add up to the figures of the period: the two
\* requests, with their different ways to select and to date orders, count the
\* same orders.
DaysAddUp ==
  (step = "counted" /\ daily # <<>>) =>
    /\ current.orders = SumFunction([d \in DOMAIN daily |-> daily[d].orders])
    /\ current.sales = SumFunction([d \in DOMAIN daily |-> daily[d].sales])

-----------------------------------------------------------------------------
(* Why they hold: what was computed once stays what it is computed from.     *)

Chosen ==
  step \in {"dated", "counted"} =>
    /\ ~TooLong
    /\ compared = IF PeriodDays = MaxDays THEN <<>>
                  ELSE <<PreviousStart, PreviousEnd>>
CountedRight ==
  /\ step = "counted" => current = Figures(Within(FromDate, ToDate))
  /\ daily # <<>> => daily = [d \in ListedDays |->
       Figures({o \in Within(FromDate, ToDate) : o.day = d})]

=============================================================================
