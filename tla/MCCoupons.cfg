CONSTANTS
  Branches = {b1, b2}
  OneBranch = b1
  Codes = {c1}
  Limits = {0, 1}
  Operations <- Ops
  MaxRequests = 5
  MaxCalm = 5
  MaxInFlight = 2
  Failures = TRUE
  None = None
  Parts = {"coupons", "reports", "reviews"}
  Readers = {reader1, reader2}
  Diners = {diner}
  Locations = {patio, hall}
  DinerOf <- OneDiner
  Sales = {1}
  SoldAt <- OnePlace
  ViewTTL = 2
  MaxCompute = 1
  LastHour = 4
  Meals = {meal1, meal2}
  Guests = {1, 2, 3}
  StarParts = 100
  Stars = {100, 497}
  Dishes = {dish1, dish2}
SYMMETRY Symmetry
SPECIFICATION MCSpec
INVARIANTS
  RedeemedIffPaid
  OrdersAreCounted
  ReviewsStand
  AnswersRecent
  FiguresAgree
PROPERTIES
  DiscountWithinLimit
CHECK_DEADLOCK FALSE
