SPECIFICATION MCSpec
CONSTANTS
  Parts = {"delivery", "uber", "adloggs", "printing"}
  Orders = {o1, o2}
  Dispatches = {d1, d2}
  Posts = {p1}
  Webhooks = {w1, w2}
  Provider = "uber"
  Reports <- SomeReports
  MaxInFlight = 3
  Failures = TRUE
  Deletions = TRUE
  MaxCalls = 4
  Clients = {request}
  Kitchens = {b1, b2}
  Parcel <- SomeParcel
  Fees = {0, 7}
  Environment = "prod"
  Jobs = {job1}
  PageLimit = 1
  LastMinute = 2
  None = None
SYMMETRY Symmetry
INVARIANTS
  PlacedIsKnown
  SecondDispatchSkips
  
  AnswersExplained
  PrintsExplained
CHECK_DEADLOCK FALSE
