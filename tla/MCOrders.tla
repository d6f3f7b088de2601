------------------------------ MODULE MCOrders ------------------------------
(* Instances of Orders for TLC: cart contents, request bodies, symmetry. *)
EXTENDS Orders, TLC

CONSTANT MaxRequests  \* bound: requests taken on, a checkout counting twice

Begun == {h \in Handlers : pc[h] # "idle"}

\* Payment events about an order that is free of charge.
FreeEvents ==
  {k \in Calls : job[k] # None /\ job[k].op = "payment" /\ ~job[k].doc.quote.due}

\* What is explored: at most MaxRequests requests, one of them at most a payment
\* event about a free order; orders created with one note.
Explored ==
  /\ Cardinality(Begun)
       + Cardinality({c \in Checkouts : pc[c] # "idle"}) <= MaxRequests
  /\ \A c \in Checkouts : job[c] # None => job[c].note = "n1"
  /\ Cardinality(FreeEvents) <= 1

MCNext == Next /\ Explored'
MCSpec == Init /\ [][MCNext]_vars

\* A paid delivery order, as soon as possible, that earns 2 and redeems 1.
DeliveryQuote == [delivery |-> TRUE, asap |-> TRUE, due |-> TRUE,
                  charged |-> TRUE, earn |-> 2, redeem |-> 1]
\* A pickup order for later, paid entirely with points.
FreeQuote == [delivery |-> FALSE, asap |-> FALSE, due |-> FALSE,
              charged |-> FALSE, earn |-> 2, redeem |-> 3]
Put(s, n) == [orderStatus |-> s, note |-> n]
Info(s, full, points) ==
  [paymentStatus |-> s, fullyRefund |-> full, pointsToDeduct |-> points]

Starting(n) == [u \in Users |-> n]
Three == Starting(3)
Symmetry == Permutations(Calls) \cup Permutations(Checkouts)

QuotesPaid == {DeliveryQuote}
QuotesMixed == {DeliveryQuote, FreeQuote}

PutsLife == {Put("preparing", Same), Put("orderCompleted", Same),
             Put(Same, "n2")}
InfosAll == {Info("completed", FALSE, 0), Info("failed", FALSE, 0),
             Info("refundProcessed", TRUE, 0),
             Info("partiallyRefunded", FALSE, 1)}
InfosCompleted == {Info("completed", FALSE, 0)}
=============================================================================
