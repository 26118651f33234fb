SPECIFICATION FairSpec
CONSTANTS
  Requests = {r1, r2}
  Execs <- EnoughExecs
  Replicas = 1
  Tenants = {t1}
  Keys = {k1}
  NoKey = NoKey
  MaxRetries = 2
  Env = {"cancel"}
PROPERTIES EveryOperationEnds SuccessIsMetered SlotsReleased AttemptsGetVerdict
CHECK_DEADLOCK FALSE
