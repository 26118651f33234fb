SPECIFICATION Spec
CONSTANTS
  Requests = {r1}
  Execs <- EnoughExecs
  Replicas = 1
  Tenants = {t1}
  Keys = {}
  NoKey = NoKey
  MaxRetries = 1
  Env = {"timeout"}
INVARIANT EventsMatchStatus
CHECK_DEADLOCK FALSE
