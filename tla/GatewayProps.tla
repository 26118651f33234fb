---------------------------- MODULE GatewayProps ----------------------------
(***************************************************************************)
(* What is checked and proved of Gateway.                                  *)
(***************************************************************************)
EXTENDS Gateway, FiniteSets

\* Types of all variables.
TypeOK ==
  /\ rpm \in [Tenants -> Nat]
  /\ keyStatus \in [ApiKeys -> {"absent", "active", "revoked"}]
  /\ owner \in [ApiKeys -> Tenants] /\ revokedAt \in [ApiKeys -> Nat]
  /\ now \in Nat /\ minute \in Nat /\ nextMinute \in Nat
  /\ cache \in [ApiKeys -> Nat]
  /\ counter \in [Tenants -> [Minutes -> Nat]] /\ ttl \in [Tenants -> [Minutes -> Nat]]
  /\ born \in [Tenants -> [Minutes -> Nat]]
  /\ pc \in [Requests -> InProcess \cup {"new", "passed", "lost", "401", "429", "503"}]
  /\ apiKey \in [Requests -> ApiKeys \cup {NoCredentials}]
  /\ bucket \in [Requests -> Minutes] /\ count \in [Requests -> Nat]
  /\ readAt \in [Requests -> Nat] /\ life \in [Requests -> Nat] /\ onTime \subseteq Requests
  /\ cutOff \subseteq Tenants \X Minutes

\* The clock, and who has presented a key.
Sane ==
  /\ minute <= now /\ now <= MaxTime /\ now < nextMinute /\ nextMinute <= now + Minute
  /\ \A r \in Requests : pc[r] \in InProcess \cup {"passed", "429"} => apiKey[r] \in ApiKeys

\* A request is authenticated only with a key that is active, or was revoked less
\* than the time to live of the cache (and the time a validation takes) ago: "the
\* short TTL keeps a revoked key from staying valid for long"
\* (gateway/src/middleware/auth.ts), also when the revocation comes between a
\* validation and its being cached.
RevocationTakesEffect ==
  [][\A r \in Requests : pc[r] # "admitted" /\ pc'[r] = "admitted" =>
       \/ keyStatus[apiKey[r]] = "active"
       \/ /\ keyStatus[apiKey[r]] = "revoked"
          /\ now < revokedAt[apiKey[r]] + Ttl + MaxLag]_vars

SameWindow(r, s) == Tenant(r) = Tenant(s) /\ bucket[r] = bucket[s]

\* The requests of tenant t that named minute m, late or not, were counted in the
\* window of that minute created at time b, and passed the limiter.
PassedIn(t, m, b) == {r \in Requests : /\ pc[r] = "passed" /\ Tenant(r) = t
                                       /\ bucket[r] = m /\ life[r] = b}

\* Two windows for the same minute are created Window apart.
Apart(b, c) == b = c \/ b + Window <= c \/ c + Window <= b

\* What the limiter enforces (gateway/src/middleware/rateLimit.ts).  A window lets
\* no more requests pass than the limit from its creation to its end, although
\* commands are sent twice and the gateway dies.  The requests that are counted
\* while the minute they name runs share one window, so no more of them pass than
\* the limit.  A request counted after its minute may create the window anew, but
\* not within Window of its last creation.  (So in the 60 s of a minute there pass,
\* besides the requests of that minute, late ones of minutes before.)
RateLimited ==
  /\ \A t \in Tenants, m \in Minutes, b \in 0..now : Cardinality(PassedIn(t, m, b)) <= rpm[t]
  /\ \A r, s \in Requests : pc[r] = "passed" /\ pc[s] = "passed" /\ SameWindow(r, s) =>
       Apart(life[r], life[s]) /\ (r \in onTime /\ s \in onTime => life[r] = life[s])

\* Which windows have no time to live (gateway/src/middleware/rateLimit.ts): the
\* ones whose creator, one request, has still to send EXPIRE, and the ones whose
\* creation was cut off between the two commands, because the process ended there,
\* a command failed or INCR was executed twice.  These stay for ever: no later
\* request gives them one.
WindowsExpire ==
  /\ \A t \in Tenants, m \in Minutes :
       counter[t][m] > 0 /\ ttl[t][m] = 0 <=> <<t, m>> \in Pending \cup cutOff
  /\ \A r, s \in Requests : pc[r] = "expire" /\ pc[s] = "expire" /\ SameWindow(r, s) => r = s
  /\ Pending \cap cutOff = {}

-----------------------------------------------------------------------------
(* The inductive invariants behind them                                      *)

\* What is validated or cached was active when it was read.
CacheSound ==
  /\ \A k \in ApiKeys :
       /\ revokedAt[k] <= now
       /\ cache[k] <= now + Ttl
       /\ cache[k] > 0 => keyStatus[k] # "absent"
       /\ keyStatus[k] = "revoked" => cache[k] <= revokedAt[k] + Ttl + MaxLag
  /\ \A r \in Requests : pc[r] = "store" =>
       /\ readAt[r] <= now /\ now <= readAt[r] + MaxLag
       /\ keyStatus[apiKey[r]] # "absent"
       /\ keyStatus[apiKey[r]] = "revoked" => readAt[r] <= revokedAt[apiKey[r]]

\* No window expires before its minute is over, or within Window of its creation.
TtlSound ==
  \A t \in Tenants, m \in Minutes :
    /\ born[t][m] <= now
    /\ ttl[t][m] # 0 => /\ m < minute \/ (m = minute /\ ttl[t][m] >= nextMinute)
                        /\ born[t][m] + Window <= ttl[t][m]

Counted == {r \in Requests : pc[r] \in {"expire", "passed", "429"}}

\* The requests counted during the life of a window hold different values of its
\* counter; the ones counted on time belong to one life.
LivesSound ==
  \A r, s \in Counted : SameWindow(r, s) =>
    /\ Apart(life[r], life[s])
    /\ life[r] = life[s] /\ count[r] = count[s] => r = s
    /\ r \in onTime /\ s \in onTime => life[r] = life[s]

\* A counted request belongs to the window as it is now, or to one before it.
CountSound ==
  \A r \in Counted :
    LET t == Tenant(r)
        m == bucket[r]
    IN  /\ count[r] >= 1
        /\ pc[r] = "passed" => count[r] <= rpm[t]
        /\ \/ life[r] = born[t][m] /\ counter[t][m] >= count[r]
           \/ life[r] + Window <= born[t][m] /\ (r \in onTime => m < minute)

WindowSound ==
  /\ \A r \in Requests : bucket[r] <= minute
  /\ \A r \in onTime : pc[r] \in {"expire", "passed", "429", "lost"}
  /\ TtlSound /\ LivesSound /\ CountSound

\* The inductive invariant: what Redis may still hold, and for how long.
IndInv == TypeOK /\ Sane /\ CacheSound /\ WindowSound /\ WindowsExpire
=============================================================================
