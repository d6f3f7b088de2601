SPECIFICATION MCSpec
CONSTANTS
  Users = {u1}
  Customers = {u1}
  Checkouts = {c1}
  Calls = {k1, k2, k3}
  Quotes <- QuotesPaid
  Notes = {"n1", "n2"}
  Updates <- PutsLife
  PaymentInfos <- InfosAll
  DeliveryEvents = {"readyToDeliver", "delivered"}
  AutoAccept = {TRUE, FALSE}
  InitialPoints <- Three
  MaxInFlight = 1
  MaxRequests = 5
  Failures = FALSE
  None = None
SYMMETRY Symmetry
INVARIANTS RedeemedAtPaymentOnly
CHECK_DEADLOCK FALSE
