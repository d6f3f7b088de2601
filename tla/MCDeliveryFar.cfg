SPECIFICATION MCSpec
CONSTANTS
  Parts = {"adloggs"}
  Orders = {o1}
  Dispatches = {d1, d2}
  Posts = {}
  Webhooks = {}
  Provider = "uber"
  Reports <- UberReports
  MaxInFlight = 2
  Failures = FALSE
  Deletions = FALSE
  MaxCalls = 4
  Clients = {request}
  Kitchens = {b1, b2}
  Parcel <- SomeParcel
  Fees = {0, 7}
  Environment = "prod"
  Jobs = {}
  PageLimit = 1
  LastMinute = 2
  None = None
INVARIANTS FarIsRefused
CHECK_DEADLOCK FALSE
