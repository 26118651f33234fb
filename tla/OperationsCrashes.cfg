SPECIFICATION Spec
CONSTANTS
  Requests = {r1, r2}
  Execs <- EnoughExecs
  Replicas = 2
  Tenants = {t1}
  Keys = {}
  NoKey = NoKey
  MaxRetries = 2
  Env = {"crash"}
INVARIANTS BilledIsSucceeded EventsMatchStatus VerdictsAgree NoLeakedSlot OutcomeInv
CHECK_DEADLOCK FALSE
