------------------------------ MODULE Gateway ------------------------------
(***************************************************************************)
(* What every public request goes through in the gateway: authentication,  *)
(* with its cache in Redis, and the fixed-window rate limiter, composed    *)
(* with the customer access service that owns the keys.                    *)
(*                                                                         *)
(* One step is one Redis command, one validation, or the synchronous code  *)
(* between two awaits where the clock is read.  Redis drops a key when its *)
(* time to live is over; the model keeps the time at which that happens.   *)
(***************************************************************************)
EXTENDS Access

CONSTANTS Requests,       \* public requests
          NoCredentials,  \* neither an Authorization nor an X-API-Key header
          Ttl,            \* VALIDATION_CACHE_TTL_SECONDS
          Minute,         \* 60000 ms, the divisor of currentMinuteBucket
          Window,         \* the literal 60 of redis.expire
          MaxLag,         \* assumption: from the query of a validation to the end
                          \*   of the SET that caches it
          MaxTime,        \* bound of the clock
          GatewayEnv      \* what may go wrong, any subset of
                          \*   "error": a Redis, HTTP or Postgres error,
                          \*   "death": the process ends for another reason

ASSUME TimeAssumption == /\ Ttl \in Nat \ {0} /\ Minute \in Nat \ {0} /\ MaxLag \in Nat
                         /\ Window \in Nat /\ Window >= Minute /\ MaxTime \in Nat
ASSUME CredentialsAssumption == NoCredentials \notin ApiKeys
ASSUME GatewayEnvAssumption == GatewayEnv \subseteq {"error", "death"}

VARIABLES
  minute, nextMinute,  \* Date.now() / 60000, and when it changes next
  cache,               \* nexora:authcache:<key>: when it expires, 0 if never set
  counter, ttl,        \* nexora:ratelimit:<tenant>:<minute>: its value, and when
                       \*   it expires (0: no time to live)
  pc, apiKey,          \* a request: where it is, the key it presents
  bucket, count,       \*   locals of rateLimitMiddleware
  readAt,              \*   history: when its key was validated (until it is
                       \*   cached)
  born,                \* history: when a window's key was created last
  life,                \* history: when the window that counted a request was
                       \*   created
  onTime,              \* history: requests whose INCR was executed in the minute
                       \*   it is for
  cutOff               \* history: windows <<tenant, minute>> whose creation was cut
                       \*   off before EXPIRE

clock   == <<now, minute, nextMinute>>
windows == <<counter, ttl, born>>
counted == <<count, life, onTime>>
locals  == <<bucket, readAt, counted>>
vars    == <<tables, clock, cache, windows, pc, apiKey, locals, cutOff>>

Minutes == 0..MaxTime

Init ==
  /\ AccessInit
  /\ now = 0 /\ minute = 0 /\ nextMinute \in 1..Minute
  /\ cache = [k \in ApiKeys |-> 0]
  /\ counter = [t \in Tenants |-> [m \in Minutes |-> 0]]
  /\ ttl = [t \in Tenants |-> [m \in Minutes |-> 0]]
  /\ born = [t \in Tenants |-> [m \in Minutes |-> 0]]
  /\ pc = [r \in Requests |-> "new"]
  /\ apiKey \in [Requests -> ApiKeys \cup {NoCredentials}]
  /\ bucket = [r \in Requests |-> 0] /\ count = [r \in Requests |-> 0]
  /\ readAt = [r \in Requests |-> 0] /\ life = [r \in Requests |-> 0]
  /\ onTime = {} /\ cutOff = {}

Move(r, from, to) == pc[r] \in from /\ pc' = [pc EXCEPT ![r] = to]

-----------------------------------------------------------------------------
(* authMiddleware                                                            *)

Cached(k) == now < cache[k]

\* Mutant of MissingCredentials: the 401 is sent, but the handler goes on.
MissingCredentialsGoesOn(r) ==
  /\ apiKey[r] = NoCredentials
  /\ Move(r, {"new"}, "validate")
  /\ UNCHANGED <<tables, clock, cache, windows, apiKey, locals, cutOff>>

MissingCredentials(r) ==
  /\ apiKey[r] = NoCredentials
  /\ Move(r, {"new"}, "401")
  /\ UNCHANGED <<tables, clock, cache, windows, apiKey, locals, cutOff>>

\* Mutant of CacheHit: a hit renews the entry.
CacheHitRenews(r) ==
  /\ apiKey[r] # NoCredentials /\ Cached(apiKey[r])
  /\ Move(r, {"new"}, "admitted")
  /\ cache' = [cache EXCEPT ![apiKey[r]] = now + Ttl]
  /\ UNCHANGED <<tables, clock, windows, apiKey, locals, cutOff>>

CacheHit(r) ==
  /\ apiKey[r] # NoCredentials /\ Cached(apiKey[r])
  /\ Move(r, {"new"}, "admitted")
  /\ UNCHANGED <<tables, clock, cache, windows, apiKey, locals, cutOff>>

CacheMiss(r) ==
  /\ apiKey[r] # NoCredentials /\ ~Cached(apiKey[r])
  /\ Move(r, {"new"}, "validate")
  /\ UNCHANGED <<tables, clock, cache, windows, apiKey, locals, cutOff>>

\* The validate request reaches the customer access service.
ValidateKey(r) ==
  /\ Move(r, {"validate"}, IF ValidateKeyHash(apiKey[r]) THEN "store" ELSE "401")
  /\ readAt' = [readAt EXCEPT ![r] = IF ValidateKeyHash(apiKey[r]) THEN now ELSE @]
  /\ UNCHANGED <<tables, clock, cache, windows, apiKey, bucket, counted, cutOff>>

\* The query fails: the handler answers 401 as for a key it does not find, and
\* so does the gateway for every status other than 200.
ValidateErrs(r) ==
  /\ "error" \in GatewayEnv
  /\ Move(r, {"validate"}, "401")
  /\ UNCHANGED <<tables, clock, cache, windows, apiKey, locals, cutOff>>

\* SET ... EX; only then does the request go on.
StoreCache(r) ==
  /\ Move(r, {"store"}, "admitted")
  /\ cache' = [cache EXCEPT ![apiKey[r]] = now + Ttl]
  /\ readAt' = [readAt EXCEPT ![r] = 0]
  /\ UNCHANGED <<tables, clock, windows, apiKey, bucket, counted, cutOff>>

\* GET, the HTTP call or SET is rejected; the SET may have been executed.
AuthFails(r) ==
  /\ "error" \in GatewayEnv
  /\ \/ Move(r, {"new", "validate", "store"}, "503") /\ UNCHANGED cache
     \/ Move(r, {"store"}, "503") /\ cache' = [cache EXCEPT ![apiKey[r]] = now + Ttl]
  /\ UNCHANGED <<tables, clock, windows, apiKey, locals, cutOff>>

-----------------------------------------------------------------------------
(* rateLimitMiddleware                                                       *)

Tenant(r) == owner[apiKey[r]]

\* The window's name is made from the clock before the command is sent.
PickBucket(r) ==
  /\ Move(r, {"admitted"}, "incr")
  /\ bucket' = [bucket EXCEPT ![r] = minute]
  /\ UNCHANGED <<tables, clock, cache, windows, apiKey, readAt, counted, cutOff>>

Exists(t, m) == counter[t][m] > 0 /\ (ttl[t][m] = 0 \/ now < ttl[t][m])

\* A request above the limit has been counted all the same.
Verdict(r, n) == IF n > rpm[Tenant(r)] THEN "429" ELSE "passed"

\* Mutant of FirstInWindow: the window is given its time to live by the request
\* that reaches the limit.
LastInWindow(r, n) == n = rpm[Tenant(r)] + 1

FirstInWindow(r, n) == n = 1

\* What INCR does to the window.  It is executed twice if the client library lost
\* the answer and sent the command again.
Value(r, times) ==
  times + (IF Exists(Tenant(r), bucket[r]) THEN counter[Tenant(r)][bucket[r]] ELSE 0)

Birth(r) == IF Exists(Tenant(r), bucket[r]) THEN born[Tenant(r)][bucket[r]] ELSE now

Count(r, times) ==
  /\ times = 1 \/ "error" \in GatewayEnv
  /\ counter' = [counter EXCEPT ![Tenant(r)][bucket[r]] = Value(r, times)]
  /\ ttl' = [ttl EXCEPT ![Tenant(r)][bucket[r]] = IF Exists(Tenant(r), bucket[r]) THEN @ ELSE 0]
  /\ born' = [born EXCEPT ![Tenant(r)][bucket[r]] = Birth(r)]

WindowKey(r) == <<Tenant(r), bucket[r]>>

\* The window an INCR of r creates, if any.
Created(r) == IF Exists(Tenant(r), bucket[r]) THEN {} ELSE {WindowKey(r)}

\* INCR.  Executed twice on a new window, it never returns 1.
Incr(r, times) ==
  /\ pc[r] = "incr" /\ Count(r, times)
  /\ LET n == Value(r, times)
     IN /\ Move(r, {"incr"}, IF FirstInWindow(r, n) THEN "expire" ELSE Verdict(r, n))
        /\ count' = [count EXCEPT ![r] = n]
  /\ life' = [life EXCEPT ![r] = Birth(r)]
  /\ onTime' = IF bucket[r] = minute THEN onTime \cup {r} ELSE onTime
  /\ cutOff' = IF times = 1 THEN cutOff ELSE cutOff \cup Created(r)
  /\ UNCHANGED <<tables, clock, cache, apiKey, bucket, readAt>>

\* Mutant of SetTtl: a time to live that ends before the minute does.
SetTtlShort(r) ==
  ttl' = [ttl EXCEPT ![Tenant(r)][bucket[r]] = now + 1] /\ UNCHANGED <<counter, born>>

SetTtl(r) ==
  ttl' = [ttl EXCEPT ![Tenant(r)][bucket[r]] = now + Window] /\ UNCHANGED <<counter, born>>

\* EXPIRE, a second command.
Expire(r) ==
  /\ Move(r, {"expire"}, Verdict(r, count[r]))
  /\ SetTtl(r)
  /\ UNCHANGED <<tables, clock, cache, apiKey, locals, cutOff>>

InProcess == {"validate", "store", "admitted", "incr", "expire"}

\* The windows whose creator has yet to send EXPIRE, or to have it executed.
Pending == {WindowKey(r) : r \in {s \in Requests : pc[s] = "expire"}}

\* The gateway's process ends, and with it every request in it; it is started
\* again.  Nobody else sends the EXPIRE of the windows that are left.
Dies(left) ==
  /\ pc' = [s \in Requests |-> IF pc[s] \in InProcess THEN "lost" ELSE pc[s]]
  /\ cutOff' = cutOff \cup left
  /\ UNCHANGED <<tables, clock, cache, apiKey, locals>>

\* INCR or EXPIRE is rejected, executed or not.  Nothing catches it: the rejection
\* ends the process.
RedisRejects(r) ==
  /\ "error" \in GatewayEnv
  /\ \/ pc[r] \in {"incr", "expire"} /\ UNCHANGED windows /\ Dies(Pending)
     \/ /\ pc[r] = "incr" /\ \E times \in {1, 2} : Count(r, times)
        /\ Dies(Pending \cup Created(r))
     \/ pc[r] = "expire" /\ SetTtl(r) /\ Dies(Pending \ {WindowKey(r)})

\* The process ends at any moment, with no command of the limiter failing: a fetch
\* of an /admin route is rejected, which nothing catches either, or the gateway is
\* restarted.
ProcessDies == "death" \in GatewayEnv /\ UNCHANGED windows /\ Dies(Pending)

-----------------------------------------------------------------------------
\* Time passes, but not while a validation is MaxLag old and still to be cached.
Tick ==
  /\ now < MaxTime
  /\ \A r \in Requests : pc[r] = "store" => now < readAt[r] + MaxLag
  /\ now' = now + 1
  /\ IF now + 1 = nextMinute
     THEN minute' = minute + 1 /\ nextMinute' = nextMinute + Minute
     ELSE UNCHANGED <<minute, nextMinute>>
  /\ UNCHANGED <<tables, cache, windows, pc, apiKey, locals, cutOff>>

AuthNext(r) == \/ MissingCredentials(r) \/ CacheHit(r) \/ CacheMiss(r)
               \/ ValidateKey(r) \/ ValidateErrs(r) \/ StoreCache(r) \/ AuthFails(r)

LimitNext(r) == \/ PickBucket(r) \/ Expire(r) \/ RedisRejects(r)
                \/ \E times \in {1, 2} : Incr(r, times)

Next == \/ \E r \in Requests : AuthNext(r) \/ LimitNext(r)
        \/ AccessNext
           /\ UNCHANGED <<clock, cache, windows, pc, apiKey, locals, cutOff>>
        \/ Tick \/ ProcessDies

Spec == Init /\ [][Next]_vars
=============================================================================
