SPECIFICATION PlatformFairSpec
CONSTANTS
  Requests = {r1, r2}
  Execs <- EnoughExecs
  Replicas = 1
  Tenants = {t1}
  Keys = {}
  NoKey = NoKey
  MaxRetries = 1
  Env = {"crash"}
  Quota = 2
  MaxConcurrent = 1
  GateEnv = {}
PROPERTY AdmittedInTheEnd
CHECK_DEADLOCK FALSE
