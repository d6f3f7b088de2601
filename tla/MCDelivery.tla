----------------------------- MODULE MCDelivery -----------------------------
(* Instances of Delivery, of the clients of the two providers and of the     *)
(* polls of the printing app, for TLC: the reports of the providers, what is *)
(* delivered, and which of them a behaviour is about.                        *)
EXTENDS Delivery, TLC

CONSTANTS
  Parts,     \* what is explored: "delivery", "uber", "adloggs", "printing"
  MaxCalls,  \* bound: creations and webhooks taken on
  Clients, Kitchens,       \* requests to the couriers' clients, branches
  Parcel, Fees, Environment, \* what they send, at what fee, and from where
  Jobs,                    \* reprints
  PageLimit, LastMinute    \* of the printing app's pages and of its clock

ASSUME PrintingAssumption ==
  IsFiniteSet(Orders) /\ PageLimit \in Int /\ LastMinute \in Nat

VARIABLES
  part,
  enabled, clientPc, clientJob,                             \* ProviderClients
  now, state, createdAt, printJob, cursor, poll, received,  \* Printing
  acking, printed, late, crowded, acked

SomeReports == {"pickup", "delivered"}
UberReports == {"pickup", "pickup_complete", "dropoff", "delivered",
                "canceled", "returned", "shopping"}

Explored == Cardinality({h \in Handlers : pc[h] # "idle"}) <= MaxCalls

-----------------------------------------------------------------------------
(* One request at a time about two branches, on a server whose provider is   *)
(* the one the part is named after; an order of two items with a tip beyond  *)
(* what Uber is told of.                                                     *)

SomeParcel ==
  [id |-> 1, street |-> "street", embedded |-> "flat", apartment |-> None,
   amount |-> 21005, tip |-> 600000, fee |-> 4,
   items |-> {[quantity |-> 2, price |-> 10005]}]

Couriers == INSTANCE ProviderClients WITH
  Requests <- Clients, Branches <- Kitchens, Order <- Parcel,
  service <- part, pc <- clientPc, job <- clientJob

Asked == part \in {"uber", "adloggs"}
AnswersExplained == Asked => Couriers!AnswersExplained
FarIsRefused == part = "adloggs" => Couriers!FarIsRefused

-----------------------------------------------------------------------------
(* The printing app.                                                         *)

Printing == INSTANCE Printing WITH Limit <- PageLimit, MaxTime <- LastMinute

PrintsExplained == Printing!PrintsExplained

-----------------------------------------------------------------------------

clients == <<enabled, clientPc, clientJob>>
prints == <<now, state, createdAt, printJob, cursor, poll, received, acking,
            printed, late, crowded, acked>>

Symmetry == Permutations(Orders) \cup Permutations(Dispatches)
              \cup Permutations(Webhooks) \cup Permutations(Kitchens)

MCInit ==
  /\ part \in Parts
  /\ Init
  /\ Printing!Init
  /\ IF Asked THEN Couriers!Init
     ELSE /\ enabled = {} /\ clientPc = [r \in Clients |-> "idle"]
          /\ clientJob = [r \in Clients |-> None]
MCNext ==
  /\ UNCHANGED part
  /\ \/ part = "delivery" /\ Next /\ Explored' /\ UNCHANGED <<clients, prints>>
     \/ Asked /\ Couriers!Next /\ UNCHANGED <<vars, prints>>
     \/ part = "printing" /\ Printing!Next /\ UNCHANGED <<vars, clients>>
MCSpec == MCInit /\ [][MCNext]_<<vars, part, clients, prints>>
=============================================================================
