SPECIFICATION PlatformFairSpec
CONSTANTS
  Requests = {r1, r2}
  Execs <- EnoughExecs
  Replicas = 1
  Tenants = {t1}
  Keys = {k1}
  NoKey = NoKey
  MaxRetries = 1
  Env = {"cancel"}
  Quota = 1
  MaxConcurrent = 1
  GateEnv = {"unreachable"}
INVARIANTS PlatformTypeOK QuotaOvershoot OvershootInv IdempotentCreate
PROPERTY AdmittedInTheEnd
CHECK_DEADLOCK FALSE
