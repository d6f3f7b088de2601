SPECIFICATION MCSpec
CONSTANTS
  Parts = {"leads", "customers", "admins", "signIns"}
  Emails = {e1, e2}
  Passwords = {p1, p2}
  Phones = {n1, n2}
  Mailboxes = {mailbox}
  Few = {1, 2, 3}
  Offices = {office}
  Secrets = {secret}
  LeadSecret = secret
  Turns = {1, 2, 3, 4}
  Copied = {1}
  Restaurants = {x}
  LastDay = 1
  MaxEarly = 2
  MaxTurns = 3
  MaxBack = 2
  MaxSignIns = 2
  Requests = {1, 2, 3, 4, 5}
  Operations <- Ops
  MaxInFlight = 2
  MaxRequests = 5
  MaxConcurrent = 4
  Failures = TRUE
  Generated = Generated
  None = None
SYMMETRY Symmetry
INVARIANTS PartsTypeOK VerifiedByOwner CodeUsedOnce LastCodeWorks MirrorsAgree
  CustomersSignIn LogoutHolds
PROPERTIES SignUpSparesVerified NothingTakenBack
CHECK_DEADLOCK FALSE
