------------------------------ MODULE Trending ------------------------------
(***************************************************************************)
(* The trending orders of a restaurant (mongo-view.service.ts): the best of *)
(* today's orders are kept in a collection that is computed anew at the    *)
(* start, a minute after the last order was noticed and every five         *)
(* minutes.  The trending products go the same way, one step later; they   *)
(* are a second list without a limit.                                      *)
(***************************************************************************)
EXTENDS Integers, FiniteSets, FiniteSetsExt

CONSTANTS
  Orders,       \* totals of the orders of a restaurant, all different
  Top,          \* how many of them are trending
  DayLength,    \* minutes of a day, a multiple of CronEvery
  CronEvery,    \* minutes between two timed refreshes
  MaxRun,       \* bound: minutes a refresh may run
  MaxTime       \* bound on the clock

VARIABLES
  minute,      \* the clock
  ticked,      \* whether this minute's timed refresh was started
  insertedAt,  \* when each order was inserted, or Never
  stream,      \* whether inserts are noticed: "watching", "restarting", "closed"
  due,         \* when the delayed refresh is to run, or Never
  refreshes,   \* the refreshes under way
  cached,      \* the lists kept, of orders and of products
  failedAt     \* when a refresh last failed, or Never (for checking only)

vars == <<minute, ticked, insertedAt, stream, due, refreshes, cached,
          failedAt>>

Never == MaxTime + 1
Kinds == {"orders", "products"}

DayOf(m) == m \div DayLength
Inserted == {o \in Orders : insertedAt[o] <= minute}

\* The orders inserted since the start of a day.
SinceEver(day) == Inserted
Since(day) == {o \in Inserted : DayOf(insertedAt[o]) >= day}
Best(S) == {o \in S : Cardinality({p \in S : p > o}) < Top}
Trends(kind, day) == IF kind = "orders" THEN Best(Since(day)) ELSE Since(day)

-----------------------------------------------------------------------------

\* A refresh reads the clock, then computes one list and replaces what is kept.
Refresh(m) ==
  [kind |-> "orders", step |-> "read", day |-> DayOf(m), since |-> m, list |-> {}]

Init ==
  /\ minute = 0
  /\ ticked = TRUE
  /\ insertedAt \in [Orders -> {0, Never}]
  /\ stream = "watching"
  /\ due = Never
  /\ refreshes = {}
  /\ cached = [kind \in Kinds |-> Trends(kind, 0)]
  /\ failedAt = Never

\* Every order inserted while the stream is open puts the delayed refresh off.
Insert(o) ==
  /\ insertedAt[o] = Never
  /\ insertedAt' = [insertedAt EXCEPT ![o] = minute]
  /\ due' = IF stream = "watching" THEN minute + 1 ELSE due
  /\ UNCHANGED <<minute, ticked, stream, refreshes, cached, failedAt>>

\* An error stops the stream, which is opened again five seconds later; one
\* that is closed stays closed.
BreakStream ==
  /\ stream = "watching"
  /\ stream' \in {"restarting", "closed"}
  /\ UNCHANGED <<minute, ticked, insertedAt, due, refreshes, cached, failedAt>>
RestartStream ==
  /\ stream = "restarting"
  /\ stream' = "watching"
  /\ UNCHANGED <<minute, ticked, insertedAt, due, refreshes, cached, failedAt>>

StartDelayed ==
  /\ due <= minute
  /\ due' = Never
  /\ refreshes' = refreshes \cup {Refresh(minute)}
  /\ UNCHANGED <<minute, ticked, insertedAt, stream, cached, failedAt>>

StartTimed ==
  /\ minute % CronEvery = 0
  /\ ~ticked
  /\ ticked' = TRUE
  /\ refreshes' = refreshes \cup {Refresh(minute)}
  /\ UNCHANGED <<minute, insertedAt, stream, due, cached, failedAt>>

\* The list of the refresh's day is read, then replaces the one kept; after the
\* orders come the products.  A failure is logged and the list kept stays.
AfterKind(f) ==
  IF f.kind = "orders" THEN {[Refresh(minute) EXCEPT !.kind = "products",
                                                     !.since = f.since]}
  ELSE {}
Read(f) ==
  /\ f.step = "read"
  /\ refreshes' = (refreshes \ {f})
       \cup {[f EXCEPT !.step = "write", !.list = Trends(f.kind, f.day)]}
  /\ UNCHANGED <<minute, ticked, insertedAt, stream, due, cached, failedAt>>
Write(f) ==
  /\ f.step = "write"
  /\ cached' = [cached EXCEPT ![f.kind] = f.list]
  /\ refreshes' = (refreshes \ {f}) \cup AfterKind(f)
  /\ UNCHANGED <<minute, ticked, insertedAt, stream, due, failedAt>>
Fail(f) ==
  /\ failedAt' = minute
  /\ refreshes' = (refreshes \ {f}) \cup AfterKind(f)
  /\ UNCHANGED <<minute, ticked, insertedAt, stream, due, cached>>

\* What is kept is served; when nothing is, or it cannot be read, today's best
\* are looked for among the orders.
Live(kind) == Trends(kind, DayOf(minute))
Served(kind, readable) ==
  IF readable /\ cached[kind] # {} THEN cached[kind] ELSE Live(kind)

Tick ==
  /\ minute < MaxTime
  /\ minute % CronEvery = 0 => ticked
  /\ due > minute
  /\ \A f \in refreshes : minute < f.since + MaxRun
  /\ minute' = minute + 1
  /\ ticked' = FALSE
  /\ UNCHANGED <<insertedAt, stream, due, refreshes, cached, failedAt>>

Next ==
  \/ \E o \in Orders : Insert(o)
  \/ BreakStream \/ RestartStream \/ StartDelayed \/ StartTimed \/ Tick
  \/ \E f \in refreshes : Read(f) \/ Write(f) \/ Fail(f)

Spec == Init /\ [][Next]_vars

-----------------------------------------------------------------------------
(* The property.                                                             *)

Times == 0..Never

\* A list is older than this only when a refresh failed: two timed refreshes may
\* overlap, and the earlier one write last.
Round == CronEvery + 2 * MaxRun

\* The type of the clock, the lists and the refreshes (mongo-view.service.ts).
TypeOK ==
  /\ minute \in 0..MaxTime
  /\ ticked \in BOOLEAN
  /\ insertedAt \in [Orders -> Times]
  /\ stream \in {"watching", "restarting", "closed"}
  /\ due \in Times \cup {MaxTime + 2}
  /\ refreshes \subseteq [kind : Kinds, step : {"read", "write"}, since : Times,
                           day : 0..DayOf(MaxTime), list : SUBSET Orders]
  /\ cached \in [Kinds -> SUBSET Orders]
  /\ failedAt \in Times

\* Unless a refresh failed lately, a list that is served lacks none of today's
\* trends that is older than a round of refreshes, and shows nothing of
\* yesterday once the day is older than one: even when a refresh that began
\* before midnight, or before the order, ends after a later one and replaces its
\* list, and when the stream of inserts broke or was closed for good
\* (mongo-view.service.ts, $out of concurrent refreshes).
ServedIsRecent ==
  LET from == minute - Round
      today == DayOf(minute)
      FailedLately == failedAt # Never /\ failedAt >= from
  IN \A kind \in Kinds, readable \in BOOLEAN :
       LET served == Served(kind, readable)
       IN FailedLately
          \/ /\ \A o \in Live(kind) \ served : insertedAt[o] >= from
             /\ \A o \in served :
                  DayOf(insertedAt[o]) = today \/ today * DayLength >= from

-----------------------------------------------------------------------------
(* What makes it inductive.                                                  *)

\* The list may be of a refresh that began at t and asked for day d: it shows
\* nothing older than the day and lacks only what was inserted since t or is not
\* among the best.
Fresh(kind, list, t, d) ==
  /\ DayOf(t) <= d /\ d <= DayOf(minute)
  /\ list \subseteq Since(d)
  /\ \A o \in Since(d) \ list :
       insertedAt[o] < t =>
         kind = "orders" /\ Cardinality({p \in Since(d) : p > o}) >= Top
KeptSince(kind, t) ==
  \E d \in 0..DayOf(minute) : Fresh(kind, cached[kind], t, d)

\* Of each timed refresh that was started, a list of every kind is still to
\* come, or a refresh has failed since, or the list kept is of a refresh that
\* was under way then or later.
ToCome(kind, s) == \E f \in refreshes : f.since = s /\ f.kind \in {"orders", kind}
FailedSince(s) == failedAt # Never /\ failedAt >= s
Started(s) == s % CronEvery = 0 /\ (s = minute => ticked)
RefreshOK(f) ==
  /\ f.since <= minute /\ minute <= f.since + MaxRun
  /\ DayOf(f.since) <= f.day /\ f.day <= DayOf(minute)
  /\ f.step = "write" => Fresh(f.kind, f.list, f.since, f.day)
RecentInv ==
  /\ \A o \in Orders : insertedAt[o] <= minute \/ insertedAt[o] = Never
  /\ \A f \in refreshes : RefreshOK(f)
  /\ \A kind \in Kinds :
       /\ \E t \in 0..minute : KeptSince(kind, t)
       /\ \A s \in 0..minute : Started(s) =>
            \/ ToCome(kind, s) \/ FailedSince(s)
            \/ \E t \in 0..minute : s - MaxRun <= t /\ KeptSince(kind, t)
=============================================================================
