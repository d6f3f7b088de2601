SPECIFICATION LiveSpec
CONSTANTS
  Users = {u1}
  Customers = {u1}
  Checkouts = {c1}
  Calls = {k1, k2, k3}
  Quotes <- QuotesPaid
  Notes = {"n1", "n2"}
  Updates <- PutsLife
  PaymentInfos <- InfosCompleted
  DeliveryEvents = {"readyToDeliver", "delivered"}
  AutoAccept = {TRUE, FALSE}
  InitialPoints <- Three
  MaxInFlight = 3
  MaxRequests = 5
  Failures = FALSE
  Deliverables = {o1, o2}
  Dispatches = {d1, d2}
  Posts = {p1}
  Webhooks = {w1}
  Deletions = TRUE
  MaxCalls = 4
  None = None
PROPERTIES PaidLeavesPending DispatchedIsDelivered
CHECK_DEADLOCK FALSE
