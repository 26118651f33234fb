SPECIFICATION Spec
CONSTANTS
  Events = {v1}
  Endpoints = {w1, w2, w3}
  BadUrls = {w3}
  Tenants = {t1}
  Sweep = Sweep
  MaxAttempts = 2
  Batch = 2
  Env = {"hangup", "error"}
  MaxCrashes = 1
INVARIANTS TypeOK GivenUpAfterMax AttemptsBounded DeliveredIsAcked IndInv
CHECK_DEADLOCK FALSE
