SPECIFICATION MCSpec
CONSTANTS
  Parts = {"delivery"}
  Orders = {o1}
  Dispatches = {d1, d2}
  Posts = {}
  Webhooks = {}
  Provider = "uber"
  Reports <- UberReports
  MaxInFlight = 2
  Failures = FALSE
  Deletions = FALSE
  MaxCalls = 4
  Clients = {}
  Kitchens = {}
  Parcel <- SomeParcel
  Fees = {0, 7}
  Environment = "prod"
  Jobs = {}
  PageLimit = 1
  LastMinute = 2
  None = None
INVARIANTS OneDeliveryPerOrder
CHECK_DEADLOCK FALSE
