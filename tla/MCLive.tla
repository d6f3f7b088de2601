------------------------------- MODULE MCLive -------------------------------
(***************************************************************************)
(* What must happen in the end: the payment of an order (Orders) and the   *)
(* delivery of one (Delivery), each under the fairness of its own module.  *)
(* A behaviour is about one of them, its part; the other stands still,     *)
(* with no handler that fairness could ask a step of.                      *)
(***************************************************************************)
EXTENDS MCOrders

CONSTANTS
  Deliverables, Dispatches, Posts, Webhooks, Deletions,  \* of Delivery
  MaxCalls  \* bound: creations and webhooks taken on

VARIABLES
  part,
  orderStatus, placed, deliveryOrder, at, holds, died  \* of Delivery

D == INSTANCE Delivery WITH
  Orders <- Deliverables, Provider <- "adloggs",
  Reports <- {2, 5, 6},
  pc <- at, job <- holds, failed <- died

deliveryVars == <<orderStatus, placed, deliveryOrder, at, holds, died>>

TakenOn == Cardinality({h \in D!Handlers : at[h] # "idle"}) <= MaxCalls

LiveInit == part \in {"orders", "delivery"} /\ Init /\ D!Init

LiveNext ==
  /\ UNCHANGED part
  /\ \/ part = "orders" /\ MCNext /\ UNCHANGED deliveryVars
     \/ part = "delivery" /\ D!Next /\ TakenOn' /\ UNCHANGED vars

LiveSpec ==
  /\ LiveInit
  /\ [][LiveNext]_<<part, vars, deliveryVars>>
  /\ Fairness
  /\ D!Fairness

DispatchedIsDelivered == D!DispatchedIsDelivered

=============================================================================
