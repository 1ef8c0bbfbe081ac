CONSTANTS
  Plans = {"developer"}
  MaxGrants = 2
  Payments = {p1}
  BillingRequired = FALSE
  Period = 1
  MaxTime = 3
  MaxEnd = 2
  Keys = {k1, k2}
  KeyLimit = 1
  RateLimit = 1
  KeyThreads = {t1, t2}
  EmbedThreads = {e1, e2}
  Quota = 1
  Months = 2
  MaxRequests = 4
SPECIFICATION Spec
INVARIANTS PaymentsCredited GrantsEnd KeysLimited RateKept QuotaKept
PROPERTY RevokedIsRevoked
SYMMETRY PlatformSymmetry
CHECK_DEADLOCK FALSE
