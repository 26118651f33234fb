SPECIFICATION Spec
CONSTANTS
  Requests = {r1, r2}
  Execs <- EnoughExecs
  Replicas = 1
  Tenants = {t1}
  Keys = {k1}
  NoKey = NoKey
  MaxRetries = 1
  Env = {"error"}
INVARIANT ReplayIsSubmitted
CHECK_DEADLOCK FALSE
