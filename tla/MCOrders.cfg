SPECIFICATION MCSpec
CONSTANTS
  Users = {u1}
  Customers = {u1}
  Checkouts = {c1, c2}
  Calls = {k1, k2, k3}
  Quotes <- QuotesMixed
  Notes = {"n1", "n2"}
  Updates <- PutsLife
  PaymentInfos <- InfosAll
  DeliveryEvents = {"delivered"}
  AutoAccept = {TRUE, FALSE}
  InitialPoints <- Three
  MaxInFlight = 2
  MaxRequests = 5
  Failures = TRUE
  None = None
SYMMETRY Symmetry
INVARIANTS LedgerComplete CompletedIsCredited
  PreparingIsDispatched UnpaidStaysPending
PROPERTIES ImplementsAccount DeletedStaysDeleted EditsMerge
CHECK_DEADLOCK FALSE
