SPECIFICATION FairSpec
CONSTANTS
  Events = {v1}
  Endpoints = {w1, w2}
  BadUrls = {}
  Tenants = {t1}
  Sweep = Sweep
  MaxAttempts = 2
  Batch = 2
  Env = {"hangup"}
  MaxCrashes = 1
INVARIANT ServedUnlessHungUp
PROPERTY EveryDeliverySettles
CHECK_DEADLOCK FALSE
