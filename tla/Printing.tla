------------------------------ MODULE Printing ------------------------------
(***************************************************************************)
(* Printing the orders of a branch (printing.service.ts).  An app at the   *)
(* branch polls for the orders created since a cursor it keeps and for     *)
(* the reprints asked for, and acknowledges these.  The orders are read by *)
(* way of GET /orders, then the jobs; the answer carries the time at which *)
(* it was put together.                                                    *)
(*                                                                         *)
(* The app is not part of the repository.  It is taken to have one poll    *)
(* open at a time and to move its cursor on every answer it gets, to the   *)
(* newest order in it or to the time it carries; answers get lost.         *)
(***************************************************************************)
EXTENDS Integers, FiniteSets, FiniteSetsExt

CONSTANTS
  Orders,   \* orders of the branch
  Jobs,     \* reprints
  Limit,    \* how many orders the app asks for
  MaxTime   \* bound on the clock

VARIABLES
  now,        \* the clock; two orders may be created at the same time
  state,      \* of each order: "absent", "stamped", "pending", ...
  createdAt,  \* of each order that has it
  printJob,   \* of each job: "absent", "queued", "printed", "failed", "expired"
  cursor,     \* the app's, -1 at first, when it sends none
  poll,       \* the poll under way
  received,   \* jobs the app has and has not acknowledged
  acking,     \* jobs whose acknowledgement found them, with what it says
  printed,    \* history: how often each order was printed
  late,       \* history: orders not settled yet when the cursor moved past
  crowded,    \* history: orders among more than a page when it did
  acked       \* history: jobs whose acknowledgement was answered

vars == <<now, state, createdAt, printJob, cursor, poll, received, acking,
          printed, late, crowded, acked>>

NoPoll == [step |-> "none", orders |-> {}, late |-> {}, crowd |-> {},
           jobs |-> {}, nowIso |-> 0, repeats |-> {}]

Init ==
  /\ now = 0
  /\ state = [o \in Orders |-> "absent"]
  /\ createdAt = [o \in Orders |-> 0]
  /\ printJob = [j \in Jobs |-> "absent"]
  /\ cursor = -1 /\ poll = NoPoll
  /\ received = {} /\ acking = {}
  /\ printed = [o \in Orders |-> 0]
  /\ late = {} /\ crowded = {} /\ acked = {}

ordersKept == <<state, createdAt>>
app == <<cursor, received, printed, late, crowded>>

-----------------------------------------------------------------------------
(* Orders and jobs *)

\* An order gets its time of creation, and is inserted somewhat later: pending,
\* or settled at once when nothing is to be paid.
Stamp(o) ==
  /\ state[o] = "absent"
  /\ state' = [state EXCEPT ![o] = "stamped"]
  /\ createdAt' = [createdAt EXCEPT ![o] = now]
  /\ UNCHANGED <<now, printJob, poll, acking, acked, app>>
Turns(o, from, to) ==
  /\ state[o] = from /\ state' = [state EXCEPT ![o] = to]
  /\ UNCHANGED <<now, createdAt, printJob, poll, acking, acked, app>>
Insert(o) == Turns(o, "stamped", "pending") \/ Turns(o, "stamped", "settled")
Settle(o) == Turns(o, "pending", "settled")
Delete(o) == Turns(o, "pending", "deleted") \/ Turns(o, "settled", "deleted")

\* createReprintJob, and the TTL index, seven days later.
Reprint(j) ==
  /\ printJob[j] = "absent"
  /\ printJob' = [printJob EXCEPT ![j] = "queued"]
  /\ UNCHANGED <<now, ordersKept, poll, acking, acked, app>>
ExpireJob(j) ==
  /\ printJob[j] \in {"queued", "printed", "failed"}
  /\ printJob' = [printJob EXCEPT ![j] = "expired"]
  /\ UNCHANGED <<now, ordersKept, poll, acking, acked, app>>

-----------------------------------------------------------------------------
(* A poll *)

\* findAndPaginate: a limit of 0 is the default, a negative one is 10.
PageSize == IF Limit > 0 THEN Limit ELSE IF Limit = 0 THEN 50 ELSE 10

\* The orders the filter of a poll lets through.
CandidatesFrom(since) ==
  {o \in Orders : state[o] = "settled" /\ createdAt[o] >= since}
Candidates(since) ==
  {o \in Orders : state[o] = "settled" /\ createdAt[o] > since}

\* The newest of them, a page at most.
IsPage(S, all) ==
  /\ S \subseteq all
  /\ Cardinality(S) = Min({PageSize, Cardinality(all)})
  /\ \A o \in S, q \in all \ S : createdAt[o] >= createdAt[q]

\* What the filter ought to let through, for checking only.
SettledSince(since) ==
  {o \in Orders : state[o] = "settled" /\ createdAt[o] > since}

\* findAllOrders reads a page of the orders.
PollOrders ==
  /\ poll.step = "none"
  /\ \E S \in SUBSET Candidates(cursor) :
       /\ IsPage(S, Candidates(cursor))
       /\ poll' = [NoPoll EXCEPT
            !.step = "orders", !.orders = S,
            !.late = {o \in Orders : state[o] # "settled"},
            !.crowd = IF Cardinality(SettledSince(cursor)) > PageSize
                      THEN SettledSince(cursor) ELSE {}]
  /\ UNCHANGED <<now, ordersKept, printJob, acking, acked, app>>

\* Then the jobs queued are read, and the clock.
PollJobs ==
  LET queued == {j \in Jobs : printJob[j] = "queued"} IN
  /\ poll.step = "orders"
  /\ poll' = [poll EXCEPT !.step = "answer", !.jobs = queued, !.nowIso = now,
                          !.repeats = queued \cap acked]
  /\ UNCHANGED <<now, ordersKept, printJob, acking, acked, app>>

\* The app prints what it is handed and moves its cursor.
Newest == IF poll.orders = {} THEN cursor
          ELSE Max({createdAt[o] : o \in poll.orders})
Receive ==
  /\ poll.step = "answer"
  /\ printed' = [o \in Orders |->
                   printed[o] + IF o \in poll.orders THEN 1 ELSE 0]
  /\ received' = received \cup poll.jobs
  /\ cursor' \in {Newest, poll.nowIso}
  /\ late' = late \cup poll.late
  /\ crowded' = crowded \cup poll.crowd
  /\ poll' = NoPoll
  /\ UNCHANGED <<now, ordersKept, printJob, acking, acked>>

\* The poll fails, at the branch, the orders, their payments or the jobs, or
\* its answer gets lost: the app will ask again.
Lose ==
  /\ poll.step # "none"
  /\ poll' = NoPoll
  /\ UNCHANGED <<now, ordersKept, printJob, acking, acked, app>>

\* ackPrintJob: the job is found, then its status set, whatever it is by then.
AckFind(j, status) ==
  /\ j \in received /\ \A a \in acking : a.job # j
  /\ printJob[j] \in {"queued", "printed", "failed"}
  /\ acking' = acking \cup {[job |-> j, status |-> status]}
  /\ UNCHANGED <<now, ordersKept, printJob, poll, acked, app>>
AckPrintedOnly(a) ==
  /\ a \in acking
  /\ acking' = acking \ {a}
  /\ printJob' = [printJob EXCEPT ![a.job] =
                    IF @ = "expired" \/ a.status = "failed" THEN @ ELSE "printed"]
  /\ acked' = acked \cup {a.job}
  /\ received' = received \ {a.job}
  /\ UNCHANGED <<now, ordersKept, poll, cursor, printed, late, crowded>>
AckUpdate(a) ==
  /\ a \in acking
  /\ acking' = acking \ {a}
  /\ printJob' = [printJob EXCEPT ![a.job] =
                    IF @ = "expired" THEN @ ELSE a.status]
  /\ acked' = acked \cup {a.job}
  /\ received' = received \ {a.job}
  /\ UNCHANGED <<now, ordersKept, poll, cursor, printed, late, crowded>>

\* An acknowledgement fails between its two steps, or is not answered: the app
\* still has the job.
AckFails(a) ==
  /\ a \in acking
  /\ acking' = acking \ {a}
  /\ UNCHANGED <<now, ordersKept, printJob, poll, acked, app>>

Tick ==
  /\ now < MaxTime
  /\ now' = now + 1
  /\ UNCHANGED <<ordersKept, printJob, poll, acking, acked, app>>

Next ==
  \/ \E o \in Orders : Stamp(o) \/ Insert(o) \/ Settle(o) \/ Delete(o)
  \/ \E j \in Jobs :
       \/ Reprint(j) \/ ExpireJob(j)
       \/ \E status \in {"printed", "failed"} : AckFind(j, status)
  \/ \E a \in acking : AckUpdate(a) \/ AckFails(a)
  \/ PollOrders \/ PollJobs \/ Receive \/ Lose
  \/ Tick

Spec == Init /\ [][Next]_vars

-----------------------------------------------------------------------------
(* Properties *)

\* The type of the polls, the jobs and the app's cursor (printing.service.ts).
TypeOK ==
  /\ now \in 0..MaxTime
  /\ state \in [Orders -> {"absent", "stamped", "pending", "settled", "deleted"}]
  /\ createdAt \in [Orders -> 0..MaxTime]
  /\ printJob \in [Jobs -> {"absent", "queued", "printed", "failed", "expired"}]
  /\ cursor \in -1..MaxTime
  /\ poll.step \in {"none", "orders", "answer"}
  /\ poll.orders \subseteq Orders /\ poll.jobs \subseteq Jobs
  /\ received \subseteq Jobs /\ acked \subseteq Jobs
  /\ acking \subseteq [job : Jobs, status : {"printed", "failed"}]
  /\ printed \in [Orders -> Nat]

\* Answers may get lost and orders be settled late: no order is printed twice;
\* one that the cursor has passed and that was never printed was not settled
\* when a poll looked, or was one of more than a page; and a job whose
\* acknowledgement was answered is not handed out again (pollForPrinting,
\* ackPrintJob).
PrintsExplained ==
  /\ \A o \in Orders : printed[o] <= 1
  /\ \A o \in Orders :
       (state[o] = "settled" /\ printed[o] = 0 /\ createdAt[o] <= cursor) =>
         o \in late \cup crowded
  /\ poll.repeats = {}

-----------------------------------------------------------------------------
(* What makes it inductive.                                                  *)

\* An order that was printed was created before the cursor; one that has not
\* been is known to be late or crowded once the cursor has passed it, and before
\* it is created as soon as there is a cursor.
OrderOK(o) ==
  /\ printed[o] <= 1
  /\ state[o] = "absent" => printed[o] = 0 /\ (cursor # -1 => o \in late)
  /\ state[o] # "absent" => createdAt[o] <= now
  /\ printed[o] = 1 => state[o] # "absent" /\ createdAt[o] <= cursor
  /\ (state[o] \notin {"absent", "deleted"} /\ printed[o] = 0
      /\ createdAt[o] <= cursor) => o \in late \cup crowded

\* A poll under way has orders the cursor has not passed, and an explanation for
\* every other one.
PollOK(o) ==
  poll.step # "none" =>
    /\ o \in poll.orders => /\ state[o] # "absent" /\ createdAt[o] > cursor
                            /\ poll.step = "answer" => createdAt[o] <= poll.nowIso
    /\ state[o] = "absent" => o \in poll.late
    /\ \/ o \in poll.late \cup poll.orders \cup poll.crowd
       \/ createdAt[o] <= cursor

PrintInv ==
  /\ \A o \in Orders : OrderOK(o) /\ PollOK(o)
  /\ cursor <= now
  /\ poll.step = "answer" => cursor <= poll.nowIso /\ poll.nowIso <= now
  /\ \A j \in acked : printJob[j] \notin {"absent", "queued"}
  /\ poll.repeats = {}
=============================================================================
