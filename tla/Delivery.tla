------------------------------ MODULE Delivery ------------------------------
(***************************************************************************)
(* From an order in preparation to a courier and back (delivery.service.ts,*)
(* delivery.controller.ts, and the orders service's two ends of it).       *)
(*                                                                         *)
(* A dispatch is a handleDeliveryOrderCreation started in the background   *)
(* by the orders service; a post is a POST /delivery.  Both create at most *)
(* one delivery, and that delivery is named by its creator: deliveryId and *)
(* providerOrderId are fresh at each creation.  A webhook is one call of   *)
(* POST /delivery/webhook/:provider: the provider may repeat, delay and    *)
(* reorder what it reports.  Of an order only the status is kept here; the *)
(* points a delivered order earns are in Orders.                           *)
(***************************************************************************)
EXTENDS Integers, FiniteSets

CONSTANTS
  Orders,        \* orderIds
  Dispatches,    \* background calls of handleDeliveryOrderCreation
  Posts,         \* POST /delivery requests
  Webhooks,      \* webhook calls
  Provider,      \* the provider in use: "uber" or "adloggs"
  Reports,       \* the provider's own statuses, in its webhooks and answers
  MaxInFlight,   \* bound: handlers running at the same time
  Failures,      \* whether a handler may die or get an error at an await
  Deletions,     \* whether orders may be deleted meanwhile
  None           \* no document

Creators == Dispatches \cup Posts
Handlers == Creators \cup Webhooks

DeliveryStatus == {"created", "pickup_ready", "picked_up", "readyToDeliver",
                   "delivered", "cancelled", "failed", "return"}
Status == {"preparing", "riderAssigned", "readyForPickup", "orderCompleted",
           "cancelled"}
Same == "same"  \* the order keeps its status

ASSUME HandlersAssumption ==
  /\ Dispatches \cap Posts = {}
  /\ Creators \cap Webhooks = {}
  /\ IsFiniteSet(Handlers)
  /\ MaxInFlight \in Nat
  /\ Failures \in BOOLEAN /\ Deletions \in BOOLEAN
  /\ Provider \in {"uber", "adloggs"}
ASSUME NoneAssumption ==
  /\ None \notin Orders /\ None \notin Creators
  /\ None \notin Status /\ None \notin DeliveryStatus

VARIABLES
  orderStatus,    \* the status of each order, None once deleted
  placed,         \* at the provider: the order each creation was placed for
  deliveryOrder,  \* the deliveryOrder collection: status of each, or None
  pc,             \* where each handler is
  job,            \* what each handler holds
  failed          \* handlers that died at an await

vars == <<orderStatus, placed, deliveryOrder, pc, job, failed>>

\* order: the order served; about: the delivery a webhook reports on, None if
\* it is unknown; status: the mapped status; after: history, the handlers that had ended when this
\* one began.
Job == [order : Orders, about : Creators \cup {None},
        status : DeliveryStatus \cup {None}, after : SUBSET Handlers]
Places == {"idle", "check", "order", "provider", "save", "status", "tell",
           "done"}

TypeOK ==
  /\ orderStatus \in [Orders -> Status \cup {None}]
  /\ placed \in [Creators -> Orders \cup {None}]
  /\ deliveryOrder \in [Creators -> DeliveryStatus \cup {None}]
  /\ pc \in [Handlers -> Places]
  /\ job \in [Handlers -> Job \cup {None}]
  /\ failed \subseteq Handlers

Init ==
  /\ orderStatus = [o \in Orders |-> "preparing"]
  /\ placed = [d \in Creators |-> None]
  /\ deliveryOrder = [d \in Creators |-> None]
  /\ pc = [h \in Handlers |-> "idle"]
  /\ job = [h \in Handlers |-> None]
  /\ failed = {}

-----------------------------------------------------------------------------
(* Helpers *)

Ended == {h \in Handlers : pc[h] = "done"}
Running == {h \in Handlers : pc[h] \notin {"idle", "done"}}

Start(h, j, place) ==
  /\ pc[h] = "idle"
  /\ Cardinality(Running) < MaxInFlight
  /\ job' = [job EXCEPT ![h] = j]
  /\ pc' = [pc EXCEPT ![h] = place]

Goto(h, from, to) ==
  /\ pc[h] = from
  /\ pc' = [pc EXCEPT ![h] = to]

\* Uber's words for the states of a delivery.  Any other word is "created".
UberStatusOf(r) ==
  CASE r = "pickup"          -> "pickup_ready"
    [] r = "pickup_complete" -> "picked_up"
    [] r = "dropoff"         -> "readyToDeliver"
    [] r = "delivered"       -> "delivered"
    [] r = "canceled"        -> "cancelled"
    [] r = "returned"        -> "failed"
    [] OTHER                 -> "created"

\* Adloggs' numbers for them.
AdloggsStatusOf(r) ==
  CASE r \in {3, 11}  -> "pickup_ready"
    [] r = 4          -> "picked_up"
    [] r \in {8, 9}   -> "readyToDeliver"
    [] r = 5          -> "delivered"
    [] r = 6          -> "cancelled"
    [] r \in {13, 14} -> "return"
    [] OTHER          -> "created"

StatusOf(r) ==
  IF Provider = "uber" THEN UberStatusOf(r) ELSE AdloggsStatusOf(r)

\* What a creation may save: Uber's answer has a status of its own, Adloggs' is
\* always saved as created.
Answers == IF Provider = "uber" THEN {UberStatusOf(r) : r \in Reports}
           ELSE {"created"}

\* The order status a delivery status stands for; Same: none.
OrderStatusOf(s) ==
  CASE s = "pickup_ready"   -> "riderAssigned"
    [] s = "readyToDeliver" -> "readyForPickup"
    [] s = "delivered"      -> "orderCompleted"
    [] s = "cancelled"      -> "cancelled"
    [] OTHER                -> Same

\* The deliveries of an order that our database knows.
Known(o) == {d \in Creators : placed[d] = o /\ deliveryOrder[d] # None}

-----------------------------------------------------------------------------
(* Creating a delivery *)

\* The orders service starts handleDeliveryOrderCreation for an order it read.
Dispatch(d, o) ==
  /\ orderStatus[o] # None
  /\ Start(d, [order |-> o, about |-> None, status |-> None,
               after |-> Ended], "check")
  /\ UNCHANGED <<orderStatus, placed, deliveryOrder, failed>>

\* Seeded fault: any delivery at all stops the dispatch.
DispatchCheckAny(d) ==
  /\ Goto(d, "check", IF \E o \in Orders : Known(o) # {}
                      THEN "done" ELSE "order")
  /\ UNCHANGED <<orderStatus, placed, deliveryOrder, job, failed>>

\* Seeded fault: the existing delivery is not looked for.
DispatchCheckNot(d) ==
  /\ Goto(d, "check", "order")
  /\ UNCHANGED <<orderStatus, placed, deliveryOrder, job, failed>>

\* An existing delivery of the order ends the dispatch.
DispatchCheck(d) ==
  /\ Goto(d, "check", IF Known(job[d].order) # {} THEN "done" ELSE "order")
  /\ UNCHANGED <<orderStatus, placed, deliveryOrder, job, failed>>

\* POST /delivery goes to the delivery service without that check.
Post(d, o) ==
  /\ Start(d, [order |-> o, about |-> None, status |-> None,
               after |-> Ended], "order")
  /\ UNCHANGED <<orderStatus, placed, deliveryOrder, failed>>

\* The order is fetched again; if it is gone, nothing is created.
FindOrder(d) ==
  /\ Goto(d, "order",
          IF orderStatus[job[d].order] = None THEN "done" ELSE "provider")
  /\ UNCHANGED <<orderStatus, placed, deliveryOrder, job, failed>>

\* Seeded fault: saved in the background, the creation ends before the save.
PlaceWithProviderUnsaved(d) ==
  /\ Goto(d, "provider", "done")
  /\ placed' = [placed EXCEPT ![d] = job[d].order]
  /\ UNCHANGED <<orderStatus, deliveryOrder, job, failed>>

\* The provider accepts the delivery.
PlaceWithProvider(d) ==
  /\ Goto(d, "provider", "save")
  /\ placed' = [placed EXCEPT ![d] = job[d].order]
  /\ UNCHANGED <<orderStatus, deliveryOrder, job, failed>>

\* What the provider answered is saved; the order is not told.
SaveDelivery(d) ==
  /\ Goto(d, "save", "done")
  /\ \E s \in Answers : deliveryOrder' = [deliveryOrder EXCEPT ![d] = s]
  /\ UNCHANGED <<orderStatus, placed, job, failed>>

-----------------------------------------------------------------------------
(* A webhook *)

\* The delivery is looked up by the provider's id; an unknown one is an error.
WebhookFind(w, d, r) ==
  /\ placed[d] # None
  /\ LET about == IF deliveryOrder[d] = None THEN None ELSE d
     IN Start(w, [order |-> placed[d], about |-> about,
                  status |-> StatusOf(r), after |-> Ended],
              IF about = None THEN "done" ELSE "status")
  /\ UNCHANGED <<orderStatus, placed, deliveryOrder, failed>>

\* Seeded fault: the delivery as it was before the update is handed on.
WebhookStatusStale(w) ==
  LET j == job[w]
  IN /\ Goto(w, "status",
             IF OrderStatusOf(deliveryOrder[j.about]) = Same
             THEN "done" ELSE "tell")
     /\ deliveryOrder' = [deliveryOrder EXCEPT ![j.about] = j.status]
     /\ job' = [job EXCEPT ![w].status = deliveryOrder[j.about]]
     /\ UNCHANGED <<orderStatus, placed, failed>>

\* The delivery takes the reported status, whatever it was before, and is
\* handed to the orders service.
WebhookStatus(w) ==
  LET j == job[w]
  IN /\ Goto(w, "status",
             IF OrderStatusOf(j.status) = Same THEN "done" ELSE "tell")
     /\ deliveryOrder' = [deliveryOrder EXCEPT ![j.about] = j.status]
     /\ UNCHANGED <<orderStatus, placed, job, failed>>

\* The order takes the status the delivery's stands for, if it still exists.
TellOrder(w) ==
  LET o == job[w].order
  IN /\ Goto(w, "tell", "done")
     /\ orderStatus' = IF orderStatus[o] = None THEN orderStatus
                       ELSE [orderStatus EXCEPT ![o] =
                                              OrderStatusOf(job[w].status)]
     /\ UNCHANGED <<placed, deliveryOrder, job, failed>>

-----------------------------------------------------------------------------
(* The rest of the world *)

\* A manager deletes an order; its deliveries are not touched.
DeleteOrder(o) ==
  /\ Deletions
  /\ orderStatus' = [orderStatus EXCEPT ![o] = None]
  /\ UNCHANGED <<placed, deliveryOrder, pc, job, failed>>

\* A failed call or a crash ends the handler where it stands.
Abort(h) ==
  /\ Failures
  /\ h \in Running
  /\ pc' = [pc EXCEPT ![h] = "done"]
  /\ failed' = failed \cup {h}
  /\ UNCHANGED <<orderStatus, placed, deliveryOrder, job>>

CreatorStep(d) ==
  DispatchCheck(d) \/ FindOrder(d) \/ PlaceWithProvider(d) \/ SaveDelivery(d)
WebhookStep(w) == WebhookStatus(w) \/ TellOrder(w)

Next ==
  \/ \E o \in Orders :
       \/ \E d \in Dispatches : Dispatch(d, o)
       \/ \E p \in Posts : Post(p, o)
       \/ DeleteOrder(o)
  \/ \E d \in Creators : CreatorStep(d)
  \/ \E w \in Webhooks :
       WebhookStep(w) \/ \E d \in Creators, r \in Reports : WebhookFind(w, d, r)
  \/ \E h \in Handlers : Abort(h)

Spec == Init /\ [][Next]_vars

\* Once a handler has started, the event loop resumes it at every await.
Fairness ==
  /\ \A d \in Creators : WF_vars(CreatorStep(d))
  /\ \A w \in Webhooks : WF_vars(WebhookStep(w))
FairSpec == Spec /\ Fairness

-----------------------------------------------------------------------------
(* Properties *)

\* What our database knows was placed with the provider for that order, and
\* what was placed but is not known belongs to a creation that stands between
\* the two calls or died there: only then can a courier be on the way of whom
\* every webhook is refused.
PlacedIsKnown ==
  \A d \in Creators :
    /\ deliveryOrder[d] # None => placed[d] # None
    /\ (placed[d] # None /\ deliveryOrder[d] = None)
         => pc[d] = "save" \/ d \in failed

\* A dispatch that begins after another creation for the same order has ended
\* well does not send a second courier.
SecondDispatchSkips ==
  \A d \in Creators, e \in Dispatches :
    ~(/\ placed[d] # None /\ placed[e] = placed[d]
      /\ d \in job[e].after /\ d \notin failed)

\* The comment of handleDeliveryOrderCreation: an order whose delivery already
\* exists gets no other one.
OneDeliveryPerOrder ==
  \A d, e \in Dispatches : (placed[d] # None /\ placed[d] = placed[e]) => d = e

\* The webhooks that found d came one after the other and none of them failed.
About(d) == {w \in Webhooks : pc[w] # "idle" /\ job[w].about = d}
Apart(d) ==
  /\ About(d) \cap failed = {}
  /\ \A w, v \in About(d) : w # v => w \in job[v].after \/ v \in job[w].after
OneByOne(d) == About(d) \cap Running = {} /\ Apart(d)

\* Webhooks handled one at a time keep the two records together, whatever else
\* runs: in whatever order the provider's reports come and however often they
\* are repeated, the order shows what its only delivery says, when it says
\* something (the integration guide: the final status of the delivery updates
\* the order).  Until the first of them the two may differ: the status in
\* Uber's answer is saved with the delivery and not told to the order.
RecordsAgree ==
  \A o \in Orders, d \in Creators :
    (/\ OneByOne(d) /\ About(d) # {}
     /\ orderStatus[o] # None /\ Known(o) = {d}
     /\ OrderStatusOf(deliveryOrder[d]) # Same)
      => orderStatus[o] = OrderStatusOf(deliveryOrder[d])

\* What makes it inductive.  A webhook serves the order of the delivery it has
\* found, and what ended before it began has ended; the one that is about to
\* tell the order brings what the delivery says now; and from the first webhook
\* on, only while one is running may the two differ.
ReportOK(w) ==
  pc[w] # "idle" =>
    /\ \A h \in job[w].after : pc[h] = "done"
    /\ pc[w] # "done" => job[w].about # None
    /\ job[w].about # None =>
         /\ job[w].order = placed[job[w].about]
         /\ deliveryOrder[job[w].about] # None
Told(d) ==
  \A w \in About(d) : pc[w] = "tell" => job[w].status = deliveryOrder[d]
Agreed(d) ==
  LET o == placed[d]
  IN (/\ About(d) # {} /\ Known(o) = {d} /\ orderStatus[o] # None
      /\ OrderStatusOf(deliveryOrder[d]) # Same)
       => \/ orderStatus[o] = OrderStatusOf(deliveryOrder[d])
          \/ \E w \in About(d) : pc[w] # "done"
RecordsInv ==
  /\ \A w \in Webhooks : ReportOK(w)
  /\ \A d \in Creators :
       /\ pc[d] = "save" => deliveryOrder[d] = None
       /\ Apart(d) => Told(d) /\ Agreed(d)

\* A dispatched order ends up with a delivery our database knows, unless it
\* was deleted.
DispatchedIsDelivered ==
  \A o \in Orders :
    (\E d \in Dispatches : pc[d] = "check" /\ job[d].order = o)
      ~> (Known(o) # {} \/ orderStatus[o] = None)

=============================================================================
