------------------------------- MODULE Access -------------------------------
(***************************************************************************)
(* The customer access service: the tables tenants and api_keys, and the   *)
(* query behind /internal/auth/validate.  Every handler is one statement.  *)
(*                                                                         *)
(* Of a tenant's three limits only rate_limit_rpm is kept (the other two   *)
(* travel with it and are the constants of Platform.tla), of a key its     *)
(* identity, which stands for the raw key as well as for its hash.  No     *)
(* code changes a limit or deletes a row.                                  *)
(***************************************************************************)
EXTENDS Integers

CONSTANTS Tenants, ApiKeys,
          Rpms,        \* values of rate_limit_rpm in a request, 0: left out
          DefaultRpm   \* the literal 100 of createTenant

\* Nothing in the code refuses a negative limit; nobody is expected to set one.
ASSUME RpmAssumption == Rpms \subseteq Nat /\ DefaultRpm \in Nat \ {0}

VARIABLES rpm,               \* tenants.rate_limit_rpm; 0 while there is no row
          keyStatus, owner,  \* api_keys.status, api_keys.tenant_id
          revokedAt,         \* api_keys.revoked_at
          now                \* the clock

tables == <<rpm, keyStatus, owner, revokedAt>>

AccessInit ==
  /\ rpm = [t \in Tenants |-> 0]
  /\ keyStatus = [k \in ApiKeys |-> "absent"]
  /\ owner \in [ApiKeys -> Tenants]
  /\ revokedAt = [k \in ApiKeys |-> 0]

\* A limit that is left out, or given as 0, becomes the default.
Defaulted(requested) == IF requested = 0 THEN DefaultRpm ELSE requested

CreateTenant(t, requested) ==
  /\ rpm[t] = 0
  /\ rpm' = [rpm EXCEPT ![t] = Defaulted(requested)]
  /\ UNCHANGED <<keyStatus, owner, revokedAt>>

\* The foreign key refuses a key of no tenant.  The key's tenant, chosen by the
\* caller, is fixed in AccessInit.
CreateAPIKey(k) ==
  /\ keyStatus[k] = "absent" /\ rpm[owner[k]] # 0
  /\ keyStatus' = [keyStatus EXCEPT ![k] = "active"]
  /\ UNCHANGED <<rpm, owner, revokedAt>>

\* UPDATE ... WHERE status = 'active'; without a row the answer is 404.
RevokeAPIKey(k) ==
  /\ keyStatus[k] = "active"
  /\ keyStatus' = [keyStatus EXCEPT ![k] = "revoked"]
  /\ revokedAt' = [revokedAt EXCEPT ![k] = now]
  /\ UNCHANGED <<rpm, owner>>

\* The query finds the key: it is active now.
ValidateKeyHash(k) == keyStatus[k] = "active"

AccessNext == \/ \E t \in Tenants, n \in Rpms : CreateTenant(t, n)
              \/ \E k \in ApiKeys : CreateAPIKey(k) \/ RevokeAPIKey(k)
=============================================================================
