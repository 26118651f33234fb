SPECIFICATION Spec
CONSTANTS
  Requests = {r1}
  Execs <- EnoughExecs
  Replicas = 2
  Tenants = {t1}
  Keys = {}
  NoKey = NoKey
  MaxRetries = 2
  Env = {"cancel", "error", "timeout", "crash", "input"}
INVARIANTS TypeOK SingleTicket WaitingIsNotRunning AttemptHistory IndInv
PROPERTIES FinalStatesImmutable Implements
CHECK_DEADLOCK FALSE
