SPECIFICATION Spec
CONSTANTS
  Requests = {r1}
  Execs <- EnoughExecs
  Replicas = 1
  Tenants = {t1}
  Keys = {}
  NoKey = NoKey
  MaxRetries = 1
  Env = {"cancel"}
PROPERTY TerminalStatesImmutable
CHECK_DEADLOCK FALSE
