SPECIFICATION Spec
CONSTANTS
  Ops = {o1, o2, o3}
  MaxRetries = 1
  Tenants = {t1, t2}
  AnyTenant = AnyTenant
  AnyStatus = AnyStatus
  Times = {1, 2, 3}
  Filters = {AnyStatus, "DEAD_LETTERED"}
  Limits = {0, 1, 3}
  MaxLimit = 2
  DefaultLimit = 2
SYMMETRY ListingSymmetry
INVARIANTS NothingMissed ListingInv
CHECK_DEADLOCK FALSE
