SPECIFICATION Spec
CONSTANTS
  Requests = {r1, r2, r3}
  Tenants = {t1}
  ApiKeys = {k1}
  NoCredentials = NoCredentials
  Rpms = {0, 1}
  DefaultRpm = 2
  Ttl = 2
  Minute = 2
  Window = 2
  MaxLag = 1
  MaxTime = 3
  GatewayEnv = {"error", "death"}
SYMMETRY RequestSymmetry
INVARIANTS RateLimited WindowsExpire IndInv
PROPERTY RevocationTakesEffect
CHECK_DEADLOCK FALSE
