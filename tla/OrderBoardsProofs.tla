------------------------- MODULE OrderBoardsProofs --------------------------
(* That no order falls between two pages or shows on two, at any minute.    *)
EXTENDS OrderBoards, TLAPS

\* Days and times are those of a calendar, and the clock goes on by at most a
\* day at once.
Calendar ==
  /\ Days \subseteq Nat
  /\ Times \subseteq 0..(Day - 1)
  /\ Opening \in 0..(Day - 1)
  /\ Passing \subseteq 0..Day
  /\ PrepTime \in Nat

LEMMA InitTyped == Calendar /\ Init => TypeOK
  BY DEF Calendar, Init, TypeOK, Day

-----------------------------------------------------------------------------

LEMMA SubmitTyped ==
  ASSUME Calendar, TypeOK, NEW r \in Requests, NEW d \in Days,
         NEW t \in Times, NEW ct \in Times, NEW asap \in BOOLEAN,
         NEW ca \in BOOLEAN, NEW type \in OrderTypes,
         Submit(r, d, t, asap, type, ct, ca)
  PROVE  TypeOK'
<1> DEFINE doc == [day |-> IF asap THEN today ELSE d, from |-> ct,
                   asap |-> ca, type |-> type, status |-> "pending"]
<1>1. (IF asap THEN today ELSE d) \in Nat
  BY DEF Calendar, TypeOK
<1>2. ct \in 0..(Day - 1)
  BY DEF Calendar
<1>3. doc \in Doc
  BY <1>1, <1>2 DEF Doc, Statuses
<1>4. held' = [held EXCEPT ![r] = doc] /\ UNCHANGED <<today, clock, order>>
  BY DEF Submit
<1>5. held' \in [Requests -> Doc \cup {None}]
  BY <1>3, <1>4 DEF TypeOK
<1> QED
  BY <1>4, <1>5 DEF TypeOK

LEMMA StoreTyped ==
  ASSUME TypeOK, NEW r \in Requests, Store(r)
  PROVE  TypeOK'
  BY DEF TypeOK, Store

LEMMA SetStatusTyped ==
  ASSUME TypeOK, NEW r \in Requests, NEW s \in Statuses, SetStatus(r, s)
  PROVE  TypeOK'
<1> DEFINE o == order[r]
<1>1. o \in Doc
  BY DEF TypeOK, SetStatus
<1>2. [o EXCEPT !.status = s] \in Doc
  BY <1>1 DEF Doc
<1>3. order' \in [Requests -> Doc \cup {None}]
  BY <1>2 DEF TypeOK, SetStatus
<1> QED
  BY <1>3 DEF TypeOK, SetStatus

LEMMA TimePassesTyped ==
  ASSUME Calendar, TypeOK, NEW n \in Passing, TimePasses(n)
  PROVE  TypeOK'
<1>1. n \in 0..1440 /\ clock \in 0..1439 /\ today \in Nat
  BY DEF Calendar, TypeOK, Day
<1>2. CASE clock + n < Day
  BY <1>1, <1>2 DEF TypeOK, TimePasses, Day
<1>3. CASE ~(clock + n < Day)
  <2>1. clock' = clock + n - 1440 /\ today' = today + 1
    BY <1>3 DEF TimePasses, Day
  <2>2. clock' \in 0..1439 /\ today' \in Nat
    BY <1>1, <1>3, <2>1 DEF Day
  <2> QED
    BY <2>2 DEF TypeOK, TimePasses, Day
<1> QED
  BY <1>2, <1>3

LEMMA NextTyped == Calendar /\ TypeOK /\ [Next]_boards => TypeOK'
<1> SUFFICES ASSUME Calendar, TypeOK, [Next]_boards PROVE TypeOK'
  OBVIOUS
<1>1. CASE UNCHANGED boards
  BY <1>1 DEF boards, TypeOK
<1>2. ASSUME NEW r \in Requests, NEW d \in Days, NEW t \in Times,
             NEW ct \in Times, NEW asap \in BOOLEAN, NEW ca \in BOOLEAN,
             NEW type \in OrderTypes, Submit(r, d, t, asap, type, ct, ca)
      PROVE  TypeOK'
  BY <1>2, SubmitTyped
<1>3. ASSUME NEW r \in Requests, Store(r) PROVE TypeOK'
  BY <1>3, StoreTyped
<1>4. ASSUME NEW r \in Requests, NEW s \in Statuses, SetStatus(r, s)
      PROVE  TypeOK'
  BY <1>4, SetStatusTyped
<1>5. ASSUME NEW n \in Passing, TimePasses(n) PROVE TypeOK'
  BY <1>5, TimePassesTyped
<1> QED
  BY <1>1, <1>2, <1>3, <1>4, <1>5 DEF Next

\* Every reachable state of the pages' model is well typed: the clock stays
\* within a day and every stored order has a day and a time.
THEOREM TypeCorrect ==
  ASSUME Calendar PROVE Spec => []TypeOK
<1>1. Init => TypeOK
  BY InitTyped
<1>2. TypeOK /\ [Next]_boards => TypeOK'
  BY NextTyped
<1> QED
  BY <1>1, <1>2, PTL DEF Spec

-----------------------------------------------------------------------------

\* The day's beginning comes before the moment from which on an order must be
\* prepared: an order of an earlier day is past its cutoff.
LEMMA CutoffIsAhead ==
  ASSUME Calendar, TypeOK, NEW o \in Doc
  PROVE  /\ Cutoff(o) \in Int /\ Due(o) \in Int
         /\ o.day < today => Due(o) <= Cutoff(o)
<1> DEFINE d == o.day
           f == o.from
           c == IF o.type = "delivery" THEN CourierTime ELSE 0
<1>1. today \in Nat /\ clock \in 0..1439 /\ PrepTime \in Nat
  BY DEF Calendar, TypeOK, Day
<1>2. d \in Nat /\ f \in 0..1439 /\ c \in 0..30
  BY DEF Doc, Day, CourierTime
<1>3. Due(o) = d * 1440 + f
  BY DEF Due, Day
<1>4. Cutoff(o) = today * 1440 + clock + PrepTime + c
  BY <1>1, <1>2 DEF Cutoff, Now, Day
<1> HIDE DEF d, f, c
<1>5. Cutoff(o) \in Int
  BY <1>1, <1>2, <1>4
<1>6. Due(o) \in Int
  BY <1>2, <1>3
<1>7. ASSUME d < today PROVE Due(o) <= Cutoff(o)
  <2>1. d * 1440 + 1440 <= today * 1440
    BY <1>1, <1>2, <1>7
  <2> QED
    BY <1>1, <1>2, <1>3, <1>4, <2>1
<1> QED
  BY <1>5, <1>6, <1>7 DEF d

LEMMA PagesPartition ==
  ASSUME Calendar, TypeOK PROVE OnOnePage
<1> SUFFICES ASSUME NEW r \in Requests, order[r] # None,
                    order[r].status \in {"placed", "accepted", "preparing"}
             PROVE  /\ \/ OnScheduled(order[r])
                       \/ OnPlaced(order[r])
                       \/ OnCooking(order[r])
                    /\ ~(OnScheduled(order[r]) /\ OnPlaced(order[r]))
                    /\ ~(OnScheduled(order[r]) /\ OnCooking(order[r]))
                    /\ ~(OnPlaced(order[r]) /\ OnCooking(order[r]))
  BY DEF OnOnePage
<1> DEFINE o == order[r]
<1>1. o \in Doc
  BY DEF TypeOK
<1>2. /\ Cutoff(o) \in Int /\ Due(o) \in Int
      /\ o.day < today => Due(o) <= Cutoff(o)
  BY <1>1, CutoffIsAhead
<1>3. o.day \in Nat /\ today \in Nat
  BY <1>1 DEF Doc, TypeOK
<1> HIDE DEF o
<1>4. o.status \in {"placed", "accepted", "preparing"}
  BY DEF o
<1>5. OnScheduled(o) \/ OnPlaced(o) \/ OnCooking(o)
  BY <1>2, <1>3, <1>4 DEF OnScheduled, OnPlaced, OnCooking
<1>6. /\ ~(OnScheduled(o) /\ OnPlaced(o))
      /\ ~(OnScheduled(o) /\ OnCooking(o))
      /\ ~(OnPlaced(o) /\ OnCooking(o))
  BY <1>2, <1>3 DEF OnScheduled, OnPlaced, OnCooking
<1> QED
  BY <1>5, <1>6 DEF o

\* Whatever the preparation time, and whichever day and time an order carries,
\* validated or not, an order the kitchen has to know of is at every minute on
\* exactly one of the three pages of getTodayOrders.
THEOREM OrdersAreOnOnePage ==
  ASSUME Calendar PROVE Spec => []OnOnePage
<1>1. TypeOK => OnOnePage
  BY PagesPartition
<1>2. Spec => []TypeOK
  BY TypeCorrect
<1> QED
  BY <1>1, <1>2, PTL

=============================================================================
