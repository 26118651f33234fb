--------------------------- MODULE GatewayProofs ---------------------------
(***************************************************************************)
(* Proofs about Gateway, for every number of requests, keys and tenants    *)
(* and every time to live: how long a revoked key is still accepted, how   *)
(* many requests a window lets pass, which windows never expire.           *)
(***************************************************************************)
EXTENDS GatewayProps, FiniteSetTheorems, FunctionTheorems, TLAPS

\* The window a request of this kind counts in.
LEMMA WindowOf ==
  ASSUME TypeOK, Sane, NEW r \in Requests,
         pc[r] \in {"incr", "expire", "passed", "429"}
  PROVE  /\ apiKey[r] \in ApiKeys /\ Tenant(r) \in Tenants /\ bucket[r] \in Minutes
         /\ counter[Tenant(r)][bucket[r]] \in Nat /\ ttl[Tenant(r)][bucket[r]] \in Nat
         /\ born[Tenant(r)][bucket[r]] \in Nat /\ rpm[Tenant(r)] \in Nat
<1>1. apiKey[r] \in ApiKeys BY DEF Sane, InProcess
<1>2. Tenant(r) \in Tenants /\ bucket[r] \in Minutes BY <1>1 DEF TypeOK, Tenant
<1> QED BY <1>1, <1>2 DEF TypeOK

\* What Value returns.
LEMMA ValueFacts ==
  ASSUME TypeOK, Sane, NEW r \in Requests, pc[r] = "incr", NEW times \in {1, 2}
  PROVE  /\ Value(r, times) \in Nat /\ Value(r, times) >= 1
         /\ Exists(Tenant(r), bucket[r]) => Value(r, times) > counter[Tenant(r)][bucket[r]]
         /\ ~Exists(Tenant(r), bucket[r]) => Value(r, times) = times
<1>1. counter[Tenant(r)][bucket[r]] \in Nat BY WindowOf
<1> QED BY <1>1 DEF Value

\* What Verdict returns.
LEMMA VerdictFacts ==
  ASSUME NEW r, NEW n \in Nat, rpm[Tenant(r)] \in Nat
  PROVE  /\ Verdict(r, n) \in {"passed", "429"}
         /\ Verdict(r, n) = "passed" => n <= rpm[Tenant(r)]
BY DEF Verdict

\* INCR and EXPIRE keep the types of the windows.
LEMMA CountTypes ==
  ASSUME TypeOK, Sane, NEW r \in Requests, pc[r] = "incr", NEW times \in {1, 2}, Count(r, times)
  PROVE  /\ counter' \in [Tenants -> [Minutes -> Nat]] /\ ttl' \in [Tenants -> [Minutes -> Nat]]
         /\ born' \in [Tenants -> [Minutes -> Nat]]
<1>1. Value(r, times) \in Nat BY ValueFacts
<1>2. Tenant(r) \in Tenants /\ bucket[r] \in Minutes BY WindowOf
<1>3. Birth(r) \in Nat BY WindowOf DEF Birth, TypeOK
<1> QED BY <1>1, <1>2, <1>3 DEF Count, TypeOK

LEMMA SetTtlTypes ==
  ASSUME TypeOK, Sane, NEW r \in Requests, pc[r] = "expire", SetTtl(r)
  PROVE  /\ counter' \in [Tenants -> [Minutes -> Nat]] /\ ttl' \in [Tenants -> [Minutes -> Nat]]
         /\ born' \in [Tenants -> [Minutes -> Nat]]
<1>1. now + Window \in Nat BY TimeAssumption DEF TypeOK
<1>2. Tenant(r) \in Tenants /\ bucket[r] \in Minutes BY WindowOf
<1> QED BY <1>1, <1>2 DEF SetTtl, TypeOK

\* Pending and created windows are windows.
LEMMA PendingType ==
  ASSUME TypeOK, Sane PROVE Pending \subseteq Tenants \X Minutes
BY WindowOf DEF Pending, WindowKey

LEMMA CreatedType ==
  ASSUME TypeOK, Sane, NEW r \in Requests, pc[r] = "incr"
  PROVE  Created(r) \subseteq Tenants \X Minutes
BY WindowOf DEF Created, WindowKey

\* The end of the process keeps the types.
LEMMA DeathTypes ==
  ASSUME TypeOK, NEW left, Dies(left), left \subseteq Tenants \X Minutes,
         counter' \in [Tenants -> [Minutes -> Nat]], ttl' \in [Tenants -> [Minutes -> Nat]],
         born' \in [Tenants -> [Minutes -> Nat]]
  PROVE  TypeOK'
<1>1. pc' \in [Requests -> InProcess \cup {"new", "passed", "lost", "401", "429", "503"}]
  BY DEF Dies, TypeOK
<1>2. cutOff' \subseteq Tenants \X Minutes BY DEF Dies, TypeOK
<1>3. UNCHANGED <<rpm, keyStatus, owner, revokedAt, now, minute, nextMinute, cache, apiKey, bucket,
                  count, readAt, life, onTime>>
  BY DEF Dies, tables, clock, locals, counted
<1> QED BY <1>1, <1>2, <1>3 DEF TypeOK

\* Every step keeps the types.
LEMMA TypeStep == ASSUME TypeOK, Sane, Next PROVE TypeOK'
<1> USE TimeAssumption, RpmAssumption, CredentialsAssumption
    DEF TypeOK, Sane, tables, clock, windows, locals, counted, Minutes, InProcess
<1>1. ASSUME NEW r \in Requests, AuthNext(r) PROVE TypeOK'
  <2>1. CASE MissingCredentials(r) BY <2>1 DEF MissingCredentials, Move
  <2>2. CASE CacheHit(r) BY <2>2 DEF CacheHit, Move
  <2>3. CASE CacheMiss(r) BY <2>3 DEF CacheMiss, Move
  <2>4. CASE ValidateKey(r) BY <2>4 DEF ValidateKey, Move
  <2>5. CASE ValidateErrs(r) BY <2>5 DEF ValidateErrs, Move
  <2>6. CASE StoreCache(r)
    <3>1. now + Ttl \in Nat OBVIOUS
    <3> QED BY <2>6, <3>1 DEF StoreCache, Move
  <2>7. CASE AuthFails(r)
    <3>1. now + Ttl \in Nat OBVIOUS
    <3>2. CASE UNCHANGED cache BY <2>7, <3>2 DEF AuthFails, Move
    <3>3. CASE pc[r] = "store" /\ cache' = [cache EXCEPT ![apiKey[r]] = now + Ttl]
      BY <2>7, <3>1, <3>3 DEF AuthFails, Move
    <3> QED BY <2>7, <3>2, <3>3 DEF AuthFails, Move
  <2> QED BY <1>1, <2>1, <2>2, <2>3, <2>4, <2>5, <2>6, <2>7 DEF AuthNext
<1>2. ASSUME NEW r \in Requests, LimitNext(r) PROVE TypeOK'
  <2>1. CASE PickBucket(r)
    <3>1. minute \in 0..MaxTime OBVIOUS
    <3> QED BY <2>1, <3>1 DEF PickBucket, Move
  <2>2. CASE Expire(r)
    <3> HIDE DEF Minutes, TypeOK, Sane
    <3>1. pc[r] = "expire" BY <2>2 DEF Expire, Move
    <3>2. /\ counter' \in [Tenants -> [Minutes -> Nat]] /\ ttl' \in [Tenants -> [Minutes -> Nat]]
          /\ born' \in [Tenants -> [Minutes -> Nat]]
      BY <2>2, <3>1, SetTtlTypes DEF Expire
    <3>3. Verdict(r, count[r]) \in {"passed", "429"} BY DEF Verdict
    <3> QED BY <2>2, <3>2, <3>3 DEF Expire, Move, TypeOK
  <2>3. CASE RedisRejects(r)
    <3> HIDE DEF Minutes, TypeOK, Sane
    <3>1. /\ counter' \in [Tenants -> [Minutes -> Nat]] /\ ttl' \in [Tenants -> [Minutes -> Nat]]
          /\ born' \in [Tenants -> [Minutes -> Nat]]
      BY <2>3, CountTypes, SetTtlTypes DEF RedisRejects, TypeOK
    <3>2. PICK left : Dies(left) /\ left \subseteq Tenants \X Minutes
      BY <2>3, PendingType, CreatedType DEF RedisRejects
    <3> QED BY <3>1, <3>2, DeathTypes
  <2>4. ASSUME NEW times \in {1, 2}, Incr(r, times) PROVE TypeOK'
    <3> HIDE DEF Minutes, TypeOK, Sane
    <3>1. pc[r] = "incr" BY <2>4 DEF Incr
    <3>2. Value(r, times) \in Nat /\ rpm[Tenant(r)] \in Nat BY <3>1, WindowOf, ValueFacts
    <3>3. /\ counter' \in [Tenants -> [Minutes -> Nat]] /\ ttl' \in [Tenants -> [Minutes -> Nat]]
          /\ born' \in [Tenants -> [Minutes -> Nat]]
      BY <2>4, <3>1, CountTypes DEF Incr
    <3>4. /\ count' \in [Requests -> Nat] /\ life' \in [Requests -> Nat]
          /\ onTime' \subseteq Requests /\ cutOff' \subseteq Tenants \X Minutes
      <4>1. Birth(r) \in Nat BY <3>1, WindowOf DEF Birth, TypeOK
      <4>2. Created(r) \subseteq Tenants \X Minutes BY <3>1, CreatedType
      <4> QED BY <2>4, <3>2, <4>1, <4>2 DEF Incr, TypeOK
    <3>5. pc' \in [Requests -> InProcess \cup {"new", "passed", "lost", "401", "429", "503"}]
      BY <2>4, <3>2, VerdictFacts DEF Incr, Move, TypeOK
    <3> QED BY <2>4, <3>3, <3>4, <3>5 DEF Incr, TypeOK
  <2> QED BY <1>2, <2>1, <2>2, <2>3, <2>4 DEF LimitNext
<1>3. CASE AccessNext /\ UNCHANGED <<clock, cache, windows, pc, apiKey, locals, cutOff>>
  <2>1. ASSUME NEW t \in Tenants, NEW n \in Rpms, CreateTenant(t, n) PROVE TypeOK'
    BY <1>3, <2>1 DEF CreateTenant, Defaulted
  <2>2. ASSUME NEW k \in ApiKeys, CreateAPIKey(k) PROVE TypeOK'
    BY <1>3, <2>2 DEF CreateAPIKey
  <2>3. ASSUME NEW k \in ApiKeys, RevokeAPIKey(k) PROVE TypeOK'
    BY <1>3, <2>3 DEF RevokeAPIKey
  <2> QED BY <1>3, <2>1, <2>2, <2>3 DEF AccessNext
<1>4. CASE Tick
  <2> HIDE DEF Minutes, Sane
  <2>1. now' \in Nat /\ minute' \in Nat /\ nextMinute' \in Nat BY <1>4 DEF Tick
  <2>2. UNCHANGED <<tables, cache, windows, pc, apiKey, locals, cutOff>> BY <1>4 DEF Tick
  <2> QED BY <2>1, <2>2
<1>5. CASE ProcessDies
  <2> HIDE DEF Minutes, TypeOK, Sane
  <2> QED BY <1>5, PendingType, DeathTypes DEF ProcessDies, TypeOK
<1> QED BY <1>1, <1>2, <1>3, <1>4, <1>5 DEF Next

\* Every step keeps what is known of validated and cached keys.
LEMMA CacheStep == ASSUME TypeOK, Sane, CacheSound, Next PROVE CacheSound'
<1> USE TimeAssumption, CredentialsAssumption
    DEF TypeOK, Sane, CacheSound, tables, clock, windows, locals, counted, InProcess
<1>1. ASSUME NEW r \in Requests, AuthNext(r) PROVE CacheSound'
  <2>1. CASE MissingCredentials(r) BY <2>1 DEF MissingCredentials, Move
  <2>2. CASE CacheHit(r) BY <2>2 DEF CacheHit, Move
  <2>3. CASE CacheMiss(r) BY <2>3 DEF CacheMiss, Move
  <2>4. CASE ValidateKey(r) BY <2>4 DEF ValidateKey, Move, ValidateKeyHash
  <2>5. CASE ValidateErrs(r) BY <2>5 DEF ValidateErrs, Move
  <2>6. CASE StoreCache(r) BY <2>6 DEF StoreCache, Move
  <2>7. CASE AuthFails(r)
    <3>1. CASE UNCHANGED cache BY <2>7, <3>1 DEF AuthFails, Move
    <3>2. CASE pc[r] = "store" /\ cache' = [cache EXCEPT ![apiKey[r]] = now + Ttl]
      BY <2>7, <3>2 DEF AuthFails, Move
    <3> QED BY <2>7, <3>1, <3>2 DEF AuthFails, Move
  <2> QED BY <1>1, <2>1, <2>2, <2>3, <2>4, <2>5, <2>6, <2>7 DEF AuthNext
<1>2. ASSUME NEW r \in Requests, LimitNext(r) PROVE CacheSound'
  <2>1. CASE PickBucket(r) BY <2>1 DEF PickBucket, Move
  <2>2. CASE Expire(r) BY <2>2 DEF Expire, Move, Verdict
  <2>3. CASE RedisRejects(r) BY <2>3 DEF RedisRejects, Dies
  <2>4. ASSUME NEW times \in {1, 2}, Incr(r, times) PROVE CacheSound'
    BY <2>4 DEF Incr, Move, Verdict
  <2> QED BY <1>2, <2>1, <2>2, <2>3, <2>4 DEF LimitNext
<1>3. CASE AccessNext /\ UNCHANGED <<clock, cache, windows, pc, apiKey, locals, cutOff>>
  <2>1. ASSUME NEW t \in Tenants, NEW n \in Rpms, CreateTenant(t, n) PROVE CacheSound'
    BY <1>3, <2>1 DEF CreateTenant
  <2>2. ASSUME NEW k \in ApiKeys, CreateAPIKey(k) PROVE CacheSound'
    BY <1>3, <2>2 DEF CreateAPIKey
  <2>3. ASSUME NEW k \in ApiKeys, RevokeAPIKey(k) PROVE CacheSound'
    BY <1>3, <2>3 DEF RevokeAPIKey
  <2> QED BY <1>3, <2>1, <2>2, <2>3 DEF AccessNext
<1>4. CASE Tick BY <1>4 DEF Tick
<1>5. CASE ProcessDies BY <1>5 DEF ProcessDies, Dies
<1> QED BY <1>1, <1>2, <1>3, <1>4, <1>5 DEF Next

\* Every step keeps the clock in order, and goes on only with a key.
LEMMA SaneStep == ASSUME TypeOK, Sane, Next PROVE Sane'
<1> USE TimeAssumption, CredentialsAssumption
    DEF TypeOK, Sane, tables, clock, windows, locals, counted, InProcess
<1>1. ASSUME NEW r \in Requests, AuthNext(r) PROVE Sane'
  BY <1>1 DEF AuthNext, MissingCredentials, CacheHit, CacheMiss, ValidateKey, ValidateErrs,
              StoreCache, AuthFails, Move
<1>2. ASSUME NEW r \in Requests, LimitNext(r) PROVE Sane'
  <2>1. CASE PickBucket(r) BY <2>1 DEF PickBucket, Move
  <2>2. CASE Expire(r) BY <2>2 DEF Expire, Move, Verdict
  <2>3. CASE RedisRejects(r) BY <2>3 DEF RedisRejects, Dies
  <2>4. ASSUME NEW times \in {1, 2}, Incr(r, times) PROVE Sane'
    BY <2>4 DEF Incr, Move, Verdict
  <2> QED BY <1>2, <2>1, <2>2, <2>3, <2>4 DEF LimitNext
<1>3. CASE AccessNext /\ UNCHANGED <<clock, cache, windows, pc, apiKey, locals, cutOff>>
  BY <1>3
<1>4. CASE Tick BY <1>4 DEF Tick
<1>5. CASE ProcessDies BY <1>5 DEF ProcessDies, Dies
<1> QED BY <1>1, <1>2, <1>3, <1>4, <1>5 DEF Next

\* What a step may do to the windows: it keeps one, raising its counter, or creates
\* it anew, when its minute and the time to live of the one before are over; and
\* it gives it no time to live that ends too early.
Kept ==
  \A t \in Tenants, m \in Minutes :
    /\ \/ born'[t][m] = born[t][m] /\ counter'[t][m] >= counter[t][m]
       \/ /\ born'[t][m] = now
          /\ counter[t][m] > 0 => born[t][m] + Window <= now /\ m < minute
    /\ ttl'[t][m] # 0 =>
         \/ ttl'[t][m] = ttl[t][m] /\ born'[t][m] = born[t][m]
         \/ m <= minute /\ ttl'[t][m] >= nextMinute /\ born'[t][m] + Window <= ttl'[t][m]

\* A window that does not exist was never created, or is over.
LEMMA NoWindow ==
  ASSUME TypeOK, Sane, TtlSound, NEW t \in Tenants, NEW m \in Minutes, ~Exists(t, m),
         counter[t][m] > 0
  PROVE  ttl[t][m] # 0 /\ born[t][m] + Window <= now /\ m < minute
<1>1. /\ counter[t][m] \in Nat /\ ttl[t][m] \in Nat /\ born[t][m] \in Nat /\ m \in Nat
      /\ now \in Nat /\ minute \in Nat /\ nextMinute \in Nat /\ now < nextMinute /\ Window \in Nat
  BY TimeAssumption DEF TypeOK, Sane, Minutes
<1>2. ttl[t][m] # 0 /\ ttl[t][m] <= now BY <1>1 DEF Exists
<1>3. /\ m < minute \/ (m = minute /\ ttl[t][m] >= nextMinute)
      /\ born[t][m] + Window <= ttl[t][m]
  BY <1>2 DEF TtlSound
<1> QED BY <1>1, <1>2, <1>3

\* INCR touches one window.
LEMMA CountFrame ==
  ASSUME TypeOK, Sane, NEW r \in Requests, pc[r] = "incr", NEW times \in {1, 2}, Count(r, times),
         NEW t \in Tenants, NEW m \in Minutes
  PROVE  /\ t # Tenant(r) \/ m # bucket[r] =>
              counter'[t][m] = counter[t][m] /\ ttl'[t][m] = ttl[t][m] /\ born'[t][m] = born[t][m]
         /\ t = Tenant(r) /\ m = bucket[r] =>
              /\ counter'[t][m] = Value(r, times) /\ born'[t][m] = Birth(r)
              /\ ttl'[t][m] = IF Exists(t, m) THEN ttl[t][m] ELSE 0
<1>1. Tenant(r) \in Tenants /\ bucket[r] \in Minutes BY WindowOf
<1>2. /\ counter \in [Tenants -> [Minutes -> Nat]] /\ ttl \in [Tenants -> [Minutes -> Nat]]
      /\ born \in [Tenants -> [Minutes -> Nat]]
  BY DEF TypeOK
<1>3. CASE t # Tenant(r) \/ m # bucket[r] BY <1>1, <1>2, <1>3 DEF Count
<1>4. CASE t = Tenant(r) /\ m = bucket[r] BY <1>1, <1>2, <1>4 DEF Count
<1> QED BY <1>3, <1>4

\* INCR keeps the windows.
LEMMA CountKeeps ==
  ASSUME TypeOK, Sane, TtlSound, NEW r \in Requests, pc[r] = "incr", NEW times \in {1, 2},
         Count(r, times)
  PROVE  Kept
<1> SUFFICES ASSUME NEW t \in Tenants, NEW m \in Minutes
             PROVE  /\ \/ born'[t][m] = born[t][m] /\ counter'[t][m] >= counter[t][m]
                       \/ /\ born'[t][m] = now
                          /\ counter[t][m] > 0 => born[t][m] + Window <= now /\ m < minute
                    /\ ttl'[t][m] # 0 => ttl'[t][m] = ttl[t][m] /\ born'[t][m] = born[t][m]
  BY DEF Kept
<1>1. counter[t][m] \in Nat BY DEF TypeOK
<1>2. CASE t # Tenant(r) \/ m # bucket[r] BY <1>1, <1>2, CountFrame
<1>3. CASE t = Tenant(r) /\ m = bucket[r] /\ Exists(t, m)
  <2>1. Value(r, times) \in Nat /\ Value(r, times) > counter[t][m] BY <1>3, ValueFacts
  <2>2. counter'[t][m] = Value(r, times) /\ born'[t][m] = Birth(r) /\ ttl'[t][m] = ttl[t][m]
    BY <1>3, CountFrame
  <2>3. Birth(r) = born[t][m] BY <1>3 DEF Birth
  <2> QED BY <1>1, <2>1, <2>2, <2>3
<1>4. CASE t = Tenant(r) /\ m = bucket[r] /\ ~Exists(t, m)
  <2>1. born'[t][m] = Birth(r) /\ ttl'[t][m] = 0 BY <1>4, CountFrame
  <2> QED BY <1>4, <2>1, NoWindow DEF Birth
<1> QED BY <1>2, <1>3, <1>4

\* EXPIRE touches one window.
LEMMA SetTtlFrame ==
  ASSUME TypeOK, Sane, NEW r \in Requests, pc[r] = "expire", SetTtl(r),
         NEW t \in Tenants, NEW m \in Minutes
  PROVE  /\ counter'[t][m] = counter[t][m] /\ born'[t][m] = born[t][m]
         /\ t # Tenant(r) \/ m # bucket[r] => ttl'[t][m] = ttl[t][m]
         /\ t = Tenant(r) /\ m = bucket[r] => ttl'[t][m] = now + Window
<1>1. Tenant(r) \in Tenants /\ bucket[r] \in Minutes BY WindowOf
<1>2. ttl \in [Tenants -> [Minutes -> Nat]] BY DEF TypeOK
<1>3. CASE t # Tenant(r) \/ m # bucket[r] BY <1>1, <1>2, <1>3 DEF SetTtl
<1>4. CASE t = Tenant(r) /\ m = bucket[r] BY <1>1, <1>2, <1>4 DEF SetTtl
<1> QED BY <1>3, <1>4

\* EXPIRE keeps the windows: the time to live is no shorter than a minute.
LEMMA SetTtlKeeps ==
  ASSUME TypeOK, Sane, WindowSound, NEW r \in Requests, pc[r] = "expire", SetTtl(r)
  PROVE  Kept
<1> SUFFICES ASSUME NEW t \in Tenants, NEW m \in Minutes
             PROVE  /\ born'[t][m] = born[t][m] /\ counter'[t][m] >= counter[t][m]
                    /\ ttl'[t][m] # 0 =>
                         \/ ttl'[t][m] = ttl[t][m]
                         \/ m <= minute /\ ttl'[t][m] >= nextMinute /\ born'[t][m] + Window <= ttl'[t][m]
  BY DEF Kept
<1>1. counter[t][m] \in Nat /\ born[t][m] \in Nat BY DEF TypeOK
<1>2. bucket[r] <= minute /\ born[t][m] <= now BY DEF WindowSound, TtlSound
<1>3. /\ now + Window >= nextMinute
      /\ born[t][m] + Window <= now + Window
  BY <1>1, <1>2, TimeAssumption DEF TypeOK, Sane
<1> QED BY <1>1, <1>2, <1>3, SetTtlFrame

\* The times to live of kept windows.
LEMMA KeptTtl ==
  ASSUME TypeOK, TtlSound, Kept, UNCHANGED <<now, minute, nextMinute>>
  PROVE  TtlSound'
<1> SUFFICES ASSUME NEW t \in Tenants, NEW m \in Minutes
             PROVE  /\ born'[t][m] <= now
                    /\ ttl'[t][m] # 0 => /\ m < minute \/ (m = minute /\ ttl'[t][m] >= nextMinute)
                                         /\ born'[t][m] + Window <= ttl'[t][m]
  BY DEF TtlSound
<1>1. m \in Nat /\ minute \in Nat /\ now \in Nat BY DEF TypeOK, Minutes
<1>2. born'[t][m] <= now BY <1>1 DEF Kept, TtlSound
<1>3. ASSUME ttl'[t][m] # 0
      PROVE  /\ m < minute \/ (m = minute /\ ttl'[t][m] >= nextMinute)
             /\ born'[t][m] + Window <= ttl'[t][m]
  <2>1. CASE ttl'[t][m] = ttl[t][m] /\ born'[t][m] = born[t][m] BY <1>3, <2>1 DEF TtlSound
  <2>2. CASE m <= minute /\ ttl'[t][m] >= nextMinute /\ born'[t][m] + Window <= ttl'[t][m]
    BY <1>1, <2>2
  <2> QED BY <1>3, <2>1, <2>2 DEF Kept
<1> QED BY <1>2, <1>3

\* A counted request in a kept window: it belongs to it as it is, or to one before.
LEMMA KeptCount ==
  ASSUME TypeOK, TypeOK', Sane, TtlSound, CountSound, Kept, NEW s \in Counted
  PROVE  LET t == Tenant(s)
             m == bucket[s]
         IN  \/ /\ life[s] = born'[t][m] /\ born'[t][m] = born[t][m]
                /\ counter[t][m] >= count[s] /\ counter'[t][m] >= count[s]
             \/ life[s] + Window <= born'[t][m] /\ (s \in onTime => m < minute)
<1> DEFINE t == Tenant(s)
           m == bucket[s]
<1>1. s \in Requests /\ t \in Tenants /\ m \in Minutes BY WindowOf DEF Counted
<1>2. /\ count[s] \in Nat /\ life[s] \in Nat /\ born[t][m] \in Nat /\ counter[t][m] \in Nat
      /\ counter'[t][m] \in Nat /\ born'[t][m] \in Nat /\ now \in Nat /\ Window \in Nat
  BY <1>1, TimeAssumption DEF TypeOK
<1>3. /\ count[s] >= 1
      /\ \/ life[s] = born[t][m] /\ counter[t][m] >= count[s]
         \/ life[s] + Window <= born[t][m] /\ (s \in onTime => m < minute)
  BY DEF CountSound
<1>4. /\ born[t][m] <= now
      /\ \/ born'[t][m] = born[t][m] /\ counter'[t][m] >= counter[t][m]
         \/ /\ born'[t][m] = now
            /\ counter[t][m] > 0 => born[t][m] + Window <= now /\ m < minute
  BY <1>1 DEF Kept, TtlSound
<1> HIDE DEF t, m
<1>5. \/ /\ life[s] = born'[t][m] /\ born'[t][m] = born[t][m]
         /\ counter[t][m] >= count[s] /\ counter'[t][m] >= count[s]
      \/ life[s] + Window <= born'[t][m] /\ (s \in onTime => m < minute)
  BY <1>2, <1>3, <1>4
<1> QED BY <1>5 DEF t, m

\* A step that keeps the windows, counts nobody and lets nobody pass.
LEMMA WindowFrame ==
  ASSUME TypeOK, TypeOK', Sane, WindowSound, Kept,
         UNCHANGED <<rpm, owner, clock, apiKey, bucket, counted>>,
         \A s \in Requests :
           /\ pc'[s] = "passed" => pc[s] = "passed" \/ count[s] <= rpm[Tenant(s)]
           /\ pc'[s] \in {"expire", "passed", "429"} => pc[s] \in {"expire", "passed", "429"}
           /\ pc[s] \in {"expire", "passed", "429", "lost"} =>
                pc'[s] \in {"expire", "passed", "429", "lost"}
  PROVE  WindowSound'
<1>1. /\ UNCHANGED <<rpm, owner, now, minute, nextMinute, apiKey, bucket, count, life, onTime>>
      /\ onTime \subseteq Requests
  BY DEF clock, counted, TypeOK
<1>2. Counted' \subseteq Counted BY DEF Counted
<1>3. \A s : Tenant(s)' = Tenant(s) BY <1>1 DEF Tenant
<1>4. TtlSound' BY <1>1, KeptTtl DEF WindowSound
<1>5. LivesSound' BY <1>1, <1>2, <1>3 DEF WindowSound, LivesSound, SameWindow
<1>6. CountSound'
  <2> SUFFICES ASSUME NEW s \in Counted'
               PROVE  /\ count[s] >= 1
                      /\ pc'[s] = "passed" => count[s] <= rpm[Tenant(s)]
                      /\ \/ /\ life[s] = born'[Tenant(s)][bucket[s]]
                            /\ counter'[Tenant(s)][bucket[s]] >= count[s]
                         \/ /\ life[s] + Window <= born'[Tenant(s)][bucket[s]]
                            /\ s \in onTime => bucket[s] < minute
    BY <1>1, <1>3 DEF CountSound
  <2>1. s \in Counted /\ s \in Requests BY <1>2 DEF Counted
  <2>2. count[s] >= 1 /\ (pc[s] = "passed" => count[s] <= rpm[Tenant(s)])
    BY <2>1 DEF WindowSound, CountSound
  <2> QED BY <2>1, <2>2, KeptCount DEF WindowSound
<1> QED BY <1>1, <1>4, <1>5, <1>6 DEF WindowSound

\* INCR: the request is counted in the window as it is, with a value nobody else
\* holds.
LEMMA IncrStep ==
  ASSUME TypeOK, TypeOK', Sane, WindowSound, NEW r \in Requests, NEW times \in {1, 2},
         Incr(r, times)
  PROVE  WindowSound'
<1> DEFINE n == Value(r, times)
           t == Tenant(r)
           m == bucket[r]
<1>0. pc[r] = "incr" /\ r \notin onTime /\ r \notin Counted
  BY DEF Incr, WindowSound, Counted
<1>1. /\ t \in Tenants /\ m \in Minutes /\ n \in Nat /\ n >= 1 /\ rpm[t] \in Nat
      /\ Exists(t, m) => n > counter[t][m]
  BY <1>0, ValueFacts, WindowOf
<1>2. /\ Verdict(r, n) \in {"passed", "429"}
      /\ Verdict(r, n) = "passed" => n <= rpm[t]
  BY <1>1, VerdictFacts
<1>3. /\ pc' = [pc EXCEPT ![r] = IF n = 1 THEN "expire" ELSE Verdict(r, n)]
      /\ count' = [count EXCEPT ![r] = n] /\ Count(r, times)
      /\ life' = [life EXCEPT ![r] = Birth(r)]
      /\ onTime' = (IF bucket[r] = minute THEN onTime \cup {r} ELSE onTime)
      /\ UNCHANGED <<rpm, owner, now, minute, nextMinute, apiKey, bucket>>
  BY DEF Incr, Move, FirstInWindow, tables, clock
<1>4. Kept BY <1>0, <1>3, CountKeeps DEF WindowSound
<1>5. counter'[t][m] = n /\ born'[t][m] = Birth(r)
  BY <1>0, <1>1, <1>3, CountFrame
<1> HIDE DEF n
<1>6. /\ pc'[r] \in {"expire", "passed", "429"} /\ count'[r] = n /\ life'[r] = Birth(r)
      /\ pc'[r] = "passed" => n <= rpm[t]
      /\ \A s \in Requests : s # r => pc'[s] = pc[s] /\ count'[s] = count[s] /\ life'[s] = life[s]
  BY <1>2, <1>3 DEF TypeOK
<1>7. /\ Counted' = Counted \cup {r} /\ Counted \subseteq Requests
      /\ \A s \in Requests : s # r => (s \in onTime' <=> s \in onTime)
      /\ r \in onTime' => m = minute
  BY <1>0, <1>3, <1>6 DEF Counted
<1>8. \A s : Tenant(s)' = Tenant(s) /\ bucket'[s] = bucket[s] BY <1>3 DEF Tenant
<1>t. /\ \A s \in Requests : life[s] \in Nat /\ count[s] \in Nat
      /\ now \in Nat /\ born[t][m] \in Nat /\ counter[t][m] \in Nat /\ minute \in Nat /\ m \in Nat
      /\ Window \in Nat /\ Window >= 1 /\ Birth(r) \in Nat
  <2>1. /\ \A s \in Requests : life[s] \in Nat /\ count[s] \in Nat
        /\ now \in Nat /\ born[t][m] \in Nat /\ counter[t][m] \in Nat /\ minute \in Nat
    BY <1>1 DEF TypeOK
  <2>2. m \in Nat BY <1>1 DEF Minutes
  <2>3. Window \in Nat /\ Window >= 1 BY TimeAssumption
  <2>4. Birth(r) \in Nat BY <2>1 DEF Birth
  <2> QED BY <2>1, <2>2, <2>3, <2>4
<1>9. ASSUME NEW s \in Counted, SameWindow(r, s)
      PROVE  /\ Apart(life[s], Birth(r)) /\ Apart(Birth(r), life[s])
             /\ life[s] = Birth(r) => count[s] # n
             /\ s \in onTime /\ r \in onTime' => life[s] = Birth(r)
  <2>1. s \in Requests /\ Tenant(s) = t /\ bucket[s] = m BY <1>7, <1>9 DEF SameWindow
  <2>2. \/ /\ life[s] = born'[t][m] /\ born'[t][m] = born[t][m] /\ counter[t][m] >= count[s]
        \/ life[s] + Window <= born'[t][m] /\ (s \in onTime => m < minute)
    BY <1>4, <2>1, KeptCount DEF WindowSound
  <2>3. CASE life[s] + Window <= Birth(r) /\ (s \in onTime => m < minute)
    BY <1>7, <1>t, <2>1, <2>3 DEF Apart
  <2>4. CASE life[s] = Birth(r) /\ Birth(r) = born[t][m] /\ counter[t][m] >= count[s] /\ Exists(t, m)
    <3>1. n > count[s] BY <1>1, <1>t, <2>1, <2>4
    <3> QED BY <1>t, <2>1, <2>4, <3>1 DEF Apart
  <2>5. CASE Birth(r) = born[t][m] /\ counter[t][m] >= count[s] /\ ~Exists(t, m)
    <3>1. count[s] >= 1 BY DEF WindowSound, CountSound
    <3>2. counter[t][m] > 0 BY <1>t, <2>1, <2>5, <3>1
    <3>3. born[t][m] + Window <= now BY <1>1, <2>5, <3>2, NoWindow DEF WindowSound
    <3>4. Birth(r) = now BY <2>5 DEF Birth
    <3> QED BY <1>t, <2>5, <3>3, <3>4
  <2> QED BY <1>5, <2>2, <2>3, <2>4, <2>5
<1>10. LivesSound'
  <2> SUFFICES ASSUME NEW a \in Counted', NEW b \in Counted', SameWindow(a, b)
               PROVE  /\ Apart(life'[a], life'[b])
                      /\ life'[a] = life'[b] /\ count'[a] = count'[b] => a = b
                      /\ a \in onTime' /\ b \in onTime' => life'[a] = life'[b]
    BY <1>8 DEF LivesSound, SameWindow, Apart
  <2>1. CASE a \in Counted /\ b \in Counted
    <3>1. a # r /\ b # r /\ a \in Requests /\ b \in Requests BY <1>0, <1>7, <2>1
    <3>2. /\ Apart(life[a], life[b])
          /\ life[a] = life[b] /\ count[a] = count[b] => a = b
          /\ a \in onTime /\ b \in onTime => life[a] = life[b]
      BY <2>1 DEF WindowSound, LivesSound
    <3> QED BY <1>6, <1>7, <3>1, <3>2
  <2>2. CASE a = r /\ b \in Counted
    <3>1. b # r /\ b \in Requests BY <1>0, <1>7, <2>2
    <3> QED BY <1>6, <1>7, <1>9, <2>2, <3>1
  <2>3. CASE b = r /\ a \in Counted
    <3>1. a # r /\ a \in Requests /\ SameWindow(r, a) BY <1>0, <1>7, <2>3 DEF SameWindow
    <3> QED BY <1>6, <1>7, <1>9, <2>3, <3>1
  <2>4. CASE a = r /\ b = r BY <2>4 DEF Apart
  <2> QED BY <1>7, <2>1, <2>2, <2>3, <2>4
<1>11. CountSound'
  <2> SUFFICES ASSUME NEW s \in Counted'
               PROVE  /\ count'[s] >= 1
                      /\ pc'[s] = "passed" => count'[s] <= rpm[Tenant(s)]
                      /\ \/ /\ life'[s] = born'[Tenant(s)][bucket[s]]
                            /\ counter'[Tenant(s)][bucket[s]] >= count'[s]
                         \/ /\ life'[s] + Window <= born'[Tenant(s)][bucket[s]]
                            /\ s \in onTime' => bucket[s] < minute
    BY <1>3, <1>8 DEF CountSound
  <2>1. CASE s = r
    <3>1. n >= n BY <1>1
    <3> QED BY <1>1, <1>5, <1>6, <2>1, <3>1
  <2>2. CASE s \in Counted
    <3>1. s # r /\ s \in Requests BY <1>0, <1>7, <2>2
    <3>2. count[s] >= 1 /\ (pc[s] = "passed" => count[s] <= rpm[Tenant(s)])
      BY <2>2 DEF WindowSound, CountSound
    <3>3. \/ /\ life[s] = born'[Tenant(s)][bucket[s]]
             /\ counter'[Tenant(s)][bucket[s]] >= count[s]
          \/ life[s] + Window <= born'[Tenant(s)][bucket[s]] /\ (s \in onTime => bucket[s] < minute)
      BY <1>4, <2>2, KeptCount DEF WindowSound
    <3> QED BY <1>6, <1>7, <3>1, <3>2, <3>3
  <2> QED BY <1>7, <2>1, <2>2
<1>12. TtlSound' BY <1>3, <1>4, KeptTtl DEF WindowSound
<1>13. (\A s \in Requests : bucket[s] <= minute)' BY <1>3 DEF WindowSound
<1>14. (\A s \in onTime : pc[s] \in {"expire", "passed", "429", "lost"})'
  <2>1. onTime \subseteq Requests /\ onTime' \subseteq onTime \cup {r} BY <1>3 DEF TypeOK
  <2> QED BY <1>6, <2>1 DEF WindowSound
<1> QED BY <1>10, <1>11, <1>12, <1>13, <1>14 DEF WindowSound

\* Every step keeps what is known of the windows.
LEMMA WindowStep == ASSUME TypeOK, TypeOK', Sane, WindowSound, Next PROVE WindowSound'
<1>0. /\ onTime \subseteq Requests
      /\ pc \in [Requests -> InProcess \cup {"new", "passed", "lost", "401", "429", "503"}]
  BY DEF TypeOK
<1>k. ASSUME UNCHANGED windows PROVE Kept
  <2>1. \A t \in Tenants, m \in Minutes : counter[t][m] \in Nat BY DEF TypeOK
  <2> QED BY <1>k, <2>1 DEF Kept, windows
<1>d. ASSUME NEW left, Dies(left), Kept PROVE WindowSound'
  <2>1. \A s \in Requests : pc'[s] = pc[s] \/ (pc[s] \in InProcess /\ pc'[s] = "lost")
    BY <1>0, <1>d DEF Dies
  <2> QED BY <1>d, <2>1, WindowFrame DEF Dies, tables, locals
<1>1. ASSUME NEW r \in Requests, AuthNext(r) PROVE WindowSound'
  <2>1. /\ UNCHANGED <<rpm, owner, clock, windows, apiKey, bucket, counted>>
        /\ \E to \in {"401", "503", "admitted", "validate", "store"} :
             Move(r, {"new", "validate", "store"}, to)
    BY <1>1 DEF AuthNext, MissingCredentials, CacheHit, CacheMiss, ValidateKey, ValidateErrs,
                StoreCache, AuthFails, Move, tables, locals
  <2> QED BY <1>0, <1>k, <2>1, WindowFrame DEF Move
<1>2. ASSUME NEW r \in Requests, PickBucket(r) PROVE WindowSound'
  <2>1. r \notin onTime /\ r \notin Counted /\ pc[r] = "admitted"
    BY <1>2 DEF PickBucket, Move, WindowSound, Counted
  <2>2. minute <= minute BY DEF TypeOK
  <2>3. \A s \in Requests : s # r => bucket'[s] = bucket[s] /\ pc'[s] = pc[s]
    BY <1>0, <1>2 DEF PickBucket, Move, TypeOK
  <2>4. pc'[r] = "incr" /\ bucket'[r] = minute BY <1>0, <1>2 DEF PickBucket, Move, TypeOK
  <2>5. UNCHANGED <<rpm, owner, now, minute, nextMinute, counter, ttl, born, apiKey, count, life, onTime>>
    BY <1>2 DEF PickBucket, tables, clock, windows, counted
  <2>6. Counted' = Counted /\ Counted \subseteq Requests BY <2>1, <2>3, <2>4 DEF Counted
  <2>7. \A s : Tenant(s)' = Tenant(s) BY <2>5 DEF Tenant
  <2>8. (\A s \in Requests : bucket[s] <= minute)'
    BY <2>2, <2>3, <2>4, <2>5 DEF WindowSound
  <2>9. TtlSound' BY <2>5 DEF WindowSound, TtlSound
  <2>10. LivesSound'
    BY <2>1, <2>3, <2>5, <2>6, <2>7 DEF WindowSound, LivesSound, SameWindow
  <2>11. CountSound'
    BY <2>1, <2>3, <2>5, <2>6, <2>7 DEF WindowSound, CountSound
  <2>12. (\A s \in onTime : pc[s] \in {"expire", "passed", "429", "lost"})'
    BY <1>0, <2>1, <2>3, <2>5 DEF WindowSound
  <2> QED BY <2>8, <2>9, <2>10, <2>11, <2>12 DEF WindowSound
<1>3. ASSUME NEW r \in Requests, Expire(r) PROVE WindowSound'
  <2>1. pc[r] = "expire" /\ SetTtl(r) /\ pc' = [pc EXCEPT ![r] = Verdict(r, count[r])]
    BY <1>3 DEF Expire, Move
  <2>2. count[r] \in Nat /\ rpm[Tenant(r)] \in Nat BY <2>1, WindowOf DEF TypeOK
  <2>3. Kept BY <2>1, SetTtlKeeps
  <2>4. /\ Verdict(r, count[r]) \in {"passed", "429"}
        /\ Verdict(r, count[r]) = "passed" => count[r] <= rpm[Tenant(r)]
    BY <2>2, VerdictFacts
  <2>5. UNCHANGED <<rpm, owner, clock, apiKey, bucket, counted>>
    BY <1>3 DEF Expire, tables, locals
  <2> QED BY <1>0, <2>1, <2>3, <2>4, <2>5, WindowFrame
<1>4. ASSUME NEW r \in Requests, RedisRejects(r) PROVE WindowSound'
  <2>1. Kept BY <1>4, <1>k, CountKeeps, SetTtlKeeps DEF RedisRejects, WindowSound
  <2> QED BY <1>4, <1>d, <2>1 DEF RedisRejects
<1>5. ASSUME NEW r \in Requests, NEW times \in {1, 2}, Incr(r, times) PROVE WindowSound'
  BY <1>5, IncrStep
<1>6. ASSUME NEW t \in Tenants, NEW n \in Rpms, CreateTenant(t, n),
             UNCHANGED <<clock, cache, windows, pc, apiKey, locals, cutOff>>
      PROVE  WindowSound'
  <2>1. /\ UNCHANGED <<owner, now, minute, nextMinute, counter, ttl, born, pc, apiKey, bucket, count,
                       life, onTime>>
        /\ rpm[t] = 0 /\ \A u \in Tenants : u # t => rpm'[u] = rpm[u]
    BY <1>6 DEF CreateTenant, clock, windows, locals, counted, TypeOK
  <2>2. ASSUME NEW s \in Counted, pc[s] = "passed" PROVE rpm'[Tenant(s)] = rpm[Tenant(s)]
    <3>1. s \in Requests /\ Tenant(s) \in Tenants BY <2>2, WindowOf DEF Counted
    <3>2. count[s] \in Nat /\ count[s] >= 1 /\ count[s] <= rpm[Tenant(s)]
      BY <2>2, <3>1 DEF WindowSound, CountSound, TypeOK
    <3>3. Tenant(s) # t BY <2>1, <3>2
    <3> QED BY <2>1, <3>1, <3>3
  <2>3. Counted' = Counted /\ \A s : Tenant(s)' = Tenant(s) BY <2>1 DEF Counted, Tenant
  <2>4. CountSound' BY <2>1, <2>2, <2>3 DEF WindowSound, CountSound
  <2>5. TtlSound' /\ LivesSound'
    BY <2>1, <2>3 DEF WindowSound, TtlSound, LivesSound, SameWindow
  <2> QED BY <2>1, <2>4, <2>5 DEF WindowSound
<1>7. ASSUME NEW k \in ApiKeys, CreateAPIKey(k) \/ RevokeAPIKey(k),
             UNCHANGED <<clock, cache, windows, pc, apiKey, locals, cutOff>>
      PROVE  WindowSound'
  BY <1>0, <1>7, <1>k, WindowFrame DEF CreateAPIKey, RevokeAPIKey, locals
<1>8. CASE Tick
  <2>1. UNCHANGED <<rpm, owner, counter, ttl, born, pc, apiKey, bucket, count, life, onTime>>
    BY <1>8 DEF Tick, tables, windows, locals, counted
  <2>2. /\ now \in Nat /\ minute \in Nat /\ nextMinute \in Nat /\ now' = now + 1
        /\ minute' \in {minute, minute + 1} /\ (minute' = minute => nextMinute' = nextMinute)
    BY <1>8 DEF Tick, TypeOK
  <2>3. \A s \in Requests : bucket[s] \in Nat /\ bucket[s] <= minute
    BY DEF WindowSound, TypeOK, Minutes
  <2>4. (\A s \in Requests : bucket[s] <= minute)' BY <2>1, <2>2, <2>3
  <2>5. Counted' = Counted /\ Counted \subseteq Requests /\ \A s : Tenant(s)' = Tenant(s)
    BY <2>1 DEF Counted, Tenant
  <2>6. LivesSound' BY <2>1, <2>5 DEF WindowSound, LivesSound, SameWindow
  <2>7. \A s \in Requests : bucket[s] < minute => bucket[s] < minute' BY <2>2, <2>3
  <2>8. CountSound' BY <2>1, <2>5, <2>7 DEF WindowSound, CountSound
  <2>9. TtlSound'
    <3> SUFFICES ASSUME NEW t \in Tenants, NEW m \in Minutes
                 PROVE  /\ born[t][m] <= now'
                        /\ ttl[t][m] # 0 =>
                             /\ m < minute' \/ (m = minute' /\ ttl[t][m] >= nextMinute')
                             /\ born[t][m] + Window <= ttl[t][m]
      BY <2>1 DEF TtlSound
    <3>1. m \in Nat /\ born[t][m] \in Nat
      <4>1. born[t][m] \in Nat BY DEF TypeOK
      <4> QED BY <4>1 DEF Minutes
    <3>2. /\ born[t][m] <= now
          /\ ttl[t][m] # 0 => /\ m < minute \/ (m = minute /\ ttl[t][m] >= nextMinute)
                              /\ born[t][m] + Window <= ttl[t][m]
      BY DEF WindowSound, TtlSound
    <3>3. m < minute \/ (m = minute /\ minute' = minute + 1) => m < minute' BY <2>2, <3>1
    <3> QED BY <2>2, <3>1, <3>2, <3>3
  <2> QED BY <2>1, <2>4, <2>6, <2>8, <2>9 DEF WindowSound
<1>9. CASE ProcessDies BY <1>9, <1>d, <1>k DEF ProcessDies
<1> QED BY <1>1, <1>2, <1>3, <1>4, <1>5, <1>6, <1>7, <1>8, <1>9 DEF Next, LimitNext, AccessNext

-----------------------------------------------------------------------------
\* A step that touches no window and leaves every creator of one where it is.
LEMMA ExpiryFrame ==
  ASSUME WindowsExpire, UNCHANGED <<owner, counter, ttl, apiKey, cutOff>>,
         \A s \in Requests :
           /\ pc[s] = "expire" <=> pc'[s] = "expire"
           /\ pc[s] = "expire" => bucket'[s] = bucket[s]
  PROVE  WindowsExpire'
<1>1. \A s : Tenant(s)' = Tenant(s) BY DEF Tenant
<1>2. Pending' = Pending BY <1>1 DEF Pending, WindowKey
<1> QED BY <1>1, <1>2 DEF WindowsExpire, SameWindow

\* The windows without a time to live after INCR: the one it creates is new.
LEMMA CountExpiry ==
  ASSUME TypeOK, Sane, WindowsExpire, NEW r \in Requests, pc[r] = "incr", NEW times \in {1, 2},
         Count(r, times)
  PROVE  /\ \A t \in Tenants, m \in Minutes :
              counter'[t][m] > 0 /\ ttl'[t][m] = 0 <=> <<t, m>> \in Pending \cup cutOff \cup Created(r)
         /\ Created(r) \cap (Pending \cup cutOff) = {}
<1>1. /\ Tenant(r) \in Tenants /\ bucket[r] \in Minutes /\ Value(r, times) \in Nat
      /\ Value(r, times) >= 1
  BY WindowOf, ValueFacts
<1>2. ASSUME NEW t \in Tenants, NEW m \in Minutes
      PROVE  counter'[t][m] > 0 /\ ttl'[t][m] = 0 <=> <<t, m>> \in Pending \cup cutOff \cup Created(r)
  <2>1. counter[t][m] > 0 /\ ttl[t][m] = 0 <=> <<t, m>> \in Pending \cup cutOff
    BY DEF WindowsExpire
  <2>2. CASE t # Tenant(r) \/ m # bucket[r]
    <3>1. <<t, m>> \notin Created(r) BY <2>2 DEF Created, WindowKey
    <3> QED BY <2>1, <2>2, <3>1, CountFrame
  <2>3. CASE t = Tenant(r) /\ m = bucket[r] /\ Exists(t, m)
    <3>1. Created(r) = {} /\ counter[t][m] > 0 BY <2>3 DEF Created, Exists
    <3>2. counter'[t][m] = Value(r, times) /\ ttl'[t][m] = ttl[t][m] BY <2>3, CountFrame
    <3>3. counter'[t][m] > 0 BY <1>1, <3>2
    <3> QED BY <2>1, <3>1, <3>2, <3>3
  <2>4. CASE t = Tenant(r) /\ m = bucket[r] /\ ~Exists(t, m)
    <3>1. <<t, m>> \in Created(r) BY <2>4 DEF Created, WindowKey
    <3>2. counter'[t][m] = Value(r, times) /\ ttl'[t][m] = 0 BY <2>4, CountFrame
    <3>3. counter'[t][m] > 0 BY <1>1, <3>2
    <3> QED BY <3>1, <3>2, <3>3
  <2> QED BY <2>2, <2>3, <2>4
<1>3. Created(r) \cap (Pending \cup cutOff) = {}
  <2>1. CASE Exists(Tenant(r), bucket[r]) BY <2>1 DEF Created
  <2>2. CASE ~Exists(Tenant(r), bucket[r])
    <3>1. <<Tenant(r), bucket[r]>> \notin Pending \cup cutOff
      BY <1>1, <2>2 DEF Exists, WindowsExpire
    <3> QED BY <3>1 DEF Created, WindowKey
  <2> QED BY <2>1, <2>2
<1> QED BY <1>2, <1>3

\* The windows without a time to live after EXPIRE.
LEMMA SetTtlExpiry ==
  ASSUME TypeOK, Sane, WindowsExpire, NEW r \in Requests, pc[r] = "expire", SetTtl(r)
  PROVE  /\ \A t \in Tenants, m \in Minutes :
              counter'[t][m] > 0 /\ ttl'[t][m] = 0 <=>
                <<t, m>> \in (Pending \cup cutOff) \ {WindowKey(r)}
         /\ WindowKey(r) \in Pending /\ WindowKey(r) \notin cutOff
<1>1. now + Window # 0 BY TimeAssumption DEF TypeOK
<1>2. ASSUME NEW t \in Tenants, NEW m \in Minutes
      PROVE  counter'[t][m] > 0 /\ ttl'[t][m] = 0 <=>
               <<t, m>> \in (Pending \cup cutOff) \ {WindowKey(r)}
  <2>1. counter[t][m] > 0 /\ ttl[t][m] = 0 <=> <<t, m>> \in Pending \cup cutOff
    BY DEF WindowsExpire
  <2>2. CASE t # Tenant(r) \/ m # bucket[r]
    <3>1. <<t, m>> # WindowKey(r) BY <2>2 DEF WindowKey
    <3> QED BY <2>1, <2>2, <3>1, SetTtlFrame
  <2>3. CASE t = Tenant(r) /\ m = bucket[r]
    <3>1. <<t, m>> = WindowKey(r) BY <2>3 DEF WindowKey
    <3>2. ttl'[t][m] = now + Window BY <2>3, SetTtlFrame
    <3> QED BY <1>1, <3>1, <3>2
  <2> QED BY <2>2, <2>3
<1>3. WindowKey(r) \in Pending BY DEF Pending
<1> QED BY <1>2, <1>3 DEF WindowsExpire

\* The windows without a time to live when the process ends.
LEMMA DeathExpiry ==
  ASSUME TypeOK, NEW left, Dies(left),
         \A t \in Tenants, m \in Minutes :
           counter'[t][m] > 0 /\ ttl'[t][m] = 0 <=> <<t, m>> \in cutOff \cup left
  PROVE  WindowsExpire'
<1>1. \A s \in Requests : pc'[s] # "expire" BY DEF Dies, InProcess
<1>2. Pending' = {} BY <1>1 DEF Pending
<1>3. cutOff' = cutOff \cup left BY DEF Dies
<1> QED BY <1>1, <1>2, <1>3 DEF WindowsExpire

\* Every step leaves each window with a time to live, with its creator or cut off.
LEMMA ExpiryStep == ASSUME TypeOK, TypeOK', Sane, WindowsExpire, Next PROVE WindowsExpire'
<1>0. pc \in [Requests -> InProcess \cup {"new", "passed", "lost", "401", "429", "503"}]
  BY DEF TypeOK
<1>w. ASSUME NEW t \in Tenants, NEW m \in Minutes
      PROVE  counter[t][m] > 0 /\ ttl[t][m] = 0 <=> <<t, m>> \in cutOff \cup Pending
  BY DEF WindowsExpire
<1>1. ASSUME NEW r \in Requests, AuthNext(r) PROVE WindowsExpire'
  <2>1. /\ UNCHANGED <<owner, counter, ttl, apiKey, bucket, cutOff>>
        /\ \E to \in {"401", "503", "admitted", "validate", "store"} :
             Move(r, {"new", "validate", "store"}, to)
    BY <1>1 DEF AuthNext, MissingCredentials, CacheHit, CacheMiss, ValidateKey, ValidateErrs,
                StoreCache, AuthFails, Move, tables, clock, windows, locals
  <2> QED BY <1>0, <2>1, ExpiryFrame DEF Move
<1>2. ASSUME NEW r \in Requests, PickBucket(r) PROVE WindowsExpire'
  <2>1. \A s \in Requests : /\ pc[s] = "expire" <=> pc'[s] = "expire"
                            /\ pc[s] = "expire" => bucket'[s] = bucket[s]
    BY <1>0, <1>2 DEF PickBucket, Move, TypeOK
  <2>2. UNCHANGED <<owner, counter, ttl, apiKey, cutOff>> BY <1>2 DEF PickBucket, tables, windows
  <2> QED BY <2>1, <2>2, ExpiryFrame
<1>3. ASSUME NEW r \in Requests, Expire(r) PROVE WindowsExpire'
  <2>1. pc[r] = "expire" /\ SetTtl(r) /\ pc' = [pc EXCEPT ![r] = Verdict(r, count[r])]
    BY <1>3 DEF Expire, Move
  <2>2. UNCHANGED <<owner, apiKey, bucket, cutOff>> BY <1>3 DEF Expire, tables, locals
  <2>3. \A s \in Requests : pc'[s] = "expire" <=> pc[s] = "expire" /\ s # r
    BY <1>0, <2>1 DEF Verdict
  <2>4. \A s : Tenant(s)' = Tenant(s) BY <2>2 DEF Tenant
  <2>5. \A s \in Requests : pc[s] = "expire" /\ SameWindow(s, r) => s = r
    BY <2>1 DEF WindowsExpire
  <2>6. Pending' = Pending \ {WindowKey(r)}
    <3>1. \A s : WindowKey(s)' = WindowKey(s) BY <2>2, <2>4 DEF WindowKey
    <3>2. \A s \in Requests : pc[s] = "expire" => (WindowKey(s) = WindowKey(r) <=> s = r)
      BY <2>5 DEF WindowKey, SameWindow
    <3>3. Pending' = {WindowKey(s) : s \in {x \in Requests : pc[x] = "expire" /\ x # r}}
      BY <2>3, <3>1 DEF Pending
    <3> QED BY <2>1, <3>2, <3>3 DEF Pending
  <2>7. /\ \A t \in Tenants, m \in Minutes :
             counter'[t][m] > 0 /\ ttl'[t][m] = 0 <=>
               <<t, m>> \in (Pending \cup cutOff) \ {WindowKey(r)}
        /\ WindowKey(r) \in Pending /\ WindowKey(r) \notin cutOff
    BY <2>1, SetTtlExpiry
  <2>8. (Pending \cup cutOff) \ {WindowKey(r)} = Pending' \cup cutOff' BY <2>2, <2>6, <2>7
  <2>9. Pending' \cap cutOff' = {} BY <2>2, <2>6 DEF WindowsExpire
  <2> QED BY <2>2, <2>3, <2>4, <2>7, <2>8, <2>9 DEF WindowsExpire, SameWindow
<1>4. ASSUME NEW r \in Requests, RedisRejects(r) PROVE WindowsExpire'
  <2>1. CASE UNCHANGED windows /\ Dies(Pending)
    BY <1>w, <2>1, DeathExpiry DEF windows
  <2>2. CASE pc[r] = "incr" /\ (\E times \in {1, 2} : Count(r, times)) /\ Dies(Pending \cup Created(r))
    <3>1. \A t \in Tenants, m \in Minutes :
            counter'[t][m] > 0 /\ ttl'[t][m] = 0 <=> <<t, m>> \in cutOff \cup (Pending \cup Created(r))
      BY <2>2, CountExpiry
    <3> QED BY <2>2, <3>1, DeathExpiry
  <2>3. CASE pc[r] = "expire" /\ SetTtl(r) /\ Dies(Pending \ {WindowKey(r)})
    <3>1. \A t \in Tenants, m \in Minutes :
            counter'[t][m] > 0 /\ ttl'[t][m] = 0 <=> <<t, m>> \in cutOff \cup (Pending \ {WindowKey(r)})
      BY <2>3, SetTtlExpiry
    <3> QED BY <2>3, <3>1, DeathExpiry
  <2> QED BY <1>4, <2>1, <2>2, <2>3 DEF RedisRejects
<1>5. ASSUME NEW r \in Requests, NEW times \in {1, 2}, Incr(r, times) PROVE WindowsExpire'
  <2> DEFINE n == Value(r, times)
  <2>0. pc[r] = "incr" /\ Count(r, times) BY <1>5 DEF Incr
  <2>1. /\ n \in Nat /\ counter[Tenant(r)][bucket[r]] \in Nat
        /\ Exists(Tenant(r), bucket[r]) => n > counter[Tenant(r)][bucket[r]]
        /\ ~Exists(Tenant(r), bucket[r]) => n = times
    BY <2>0, WindowOf, ValueFacts
  <2>2. n = 1 <=> times = 1 /\ ~Exists(Tenant(r), bucket[r])
    <3>1. Exists(Tenant(r), bucket[r]) => counter[Tenant(r)][bucket[r]] > 0 BY DEF Exists
    <3> QED BY <2>1, <3>1
  <2>3. /\ pc' = [pc EXCEPT ![r] = IF n = 1 THEN "expire" ELSE Verdict(r, n)]
        /\ UNCHANGED <<owner, apiKey, bucket>>
        /\ cutOff' = IF times = 1 THEN cutOff ELSE cutOff \cup Created(r)
    BY <1>5 DEF Incr, Move, FirstInWindow, tables
  <2> HIDE DEF n
  <2>4. \A s \in Requests : pc'[s] = "expire" <=> pc[s] = "expire" \/ (s = r /\ n = 1)
    BY <1>0, <2>0, <2>3 DEF Verdict
  <2>5. \A s : Tenant(s)' = Tenant(s) /\ WindowKey(s)' = WindowKey(s)
    BY <2>3 DEF Tenant, WindowKey
  <2>6. Pending' = IF times = 1 THEN Pending \cup Created(r) ELSE Pending
    <3>1. CASE n = 1
      <4>1. Pending' = {WindowKey(s) : s \in {x \in Requests : pc[x] = "expire" \/ x = r}}
        BY <2>4, <2>5, <3>1 DEF Pending
      <4>2. Created(r) = {WindowKey(r)} BY <2>2, <3>1 DEF Created
      <4> QED BY <2>2, <3>1, <4>1, <4>2 DEF Pending
    <3>2. CASE n # 1
      <4>1. Pending' = Pending BY <2>4, <2>5, <3>2 DEF Pending
      <4>2. times = 1 => Created(r) = {} BY <2>2, <3>2 DEF Created
      <4> QED BY <4>1, <4>2
    <3> QED BY <3>1, <3>2
  <2>7. /\ \A t \in Tenants, m \in Minutes :
             counter'[t][m] > 0 /\ ttl'[t][m] = 0 <=> <<t, m>> \in Pending \cup cutOff \cup Created(r)
        /\ Created(r) \cap (Pending \cup cutOff) = {}
    BY <2>0, CountExpiry
  <2>8. Pending' \cup cutOff' = Pending \cup cutOff \cup Created(r) BY <2>3, <2>6
  <2>9. Pending' \cap cutOff' = {} BY <2>3, <2>6, <2>7 DEF WindowsExpire
  <2>10. ASSUME NEW a \in Requests, NEW b \in Requests, pc'[a] = "expire", pc'[b] = "expire",
                SameWindow(a, b)
         PROVE  a = b
    <3>1. CASE pc[a] = "expire" /\ pc[b] = "expire" BY <2>10, <3>1 DEF WindowsExpire
    <3>2. CASE n = 1 /\ a # b /\ (a = r \/ b = r)
      <4>1. WindowKey(r) \notin Pending BY <2>2, <2>7, <3>2 DEF Created
      <4>2. PICK s \in {a, b} : s # r BY <3>2
      <4>3. pc[s] = "expire" /\ s \in Requests /\ WindowKey(s) = WindowKey(r)
        BY <2>4, <2>10, <3>2, <4>2 DEF WindowKey, SameWindow
      <4> QED BY <4>1, <4>3 DEF Pending
    <3> QED BY <2>4, <2>10, <3>1, <3>2
  <2> QED BY <2>3, <2>5, <2>7, <2>8, <2>9, <2>10 DEF WindowsExpire, SameWindow
<1>6. CASE AccessNext /\ UNCHANGED <<clock, cache, windows, pc, apiKey, locals, cutOff>>
  BY <1>6, ExpiryFrame DEF AccessNext, CreateTenant, CreateAPIKey, RevokeAPIKey, locals, windows
<1>7. CASE Tick
  BY <1>7, ExpiryFrame DEF Tick, tables, locals, windows
<1>8. CASE ProcessDies BY <1>8, <1>w, DeathExpiry DEF ProcessDies, windows
<1> QED BY <1>1, <1>2, <1>3, <1>4, <1>5, <1>6, <1>7, <1>8 DEF Next, LimitNext

-----------------------------------------------------------------------------
\* The inductive invariant holds in every reachable state.
THEOREM InvariantHolds == Spec => []IndInv
<1>1. Init => IndInv
  <2> USE TimeAssumption, CredentialsAssumption DEF Init, AccessInit
  <2>1. Init => TypeOK
    <3>1. 0 \in Minutes BY DEF Minutes
    <3>2. Init => nextMinute \in Nat OBVIOUS
    <3>3. Init => /\ counter \in [Tenants -> [Minutes -> Nat]] /\ ttl \in [Tenants -> [Minutes -> Nat]]
                  /\ born \in [Tenants -> [Minutes -> Nat]]
      OBVIOUS
    <3>4. Init => bucket \in [Requests -> Minutes] BY <3>1
    <3>5. Init => apiKey \in [Requests -> ApiKeys \cup {NoCredentials}] OBVIOUS
    <3>6. Init => pc \in [Requests -> InProcess \cup {"new", "passed", "lost", "401", "429", "503"}]
      OBVIOUS
    <3>7. Init => keyStatus \in [ApiKeys -> {"absent", "active", "revoked"}] OBVIOUS
    <3>8. Init => onTime \subseteq Requests /\ cutOff \subseteq Tenants \X Minutes OBVIOUS
    <3>9. Init => /\ rpm \in [Tenants -> Nat]
                  /\ owner \in [ApiKeys -> Tenants] /\ revokedAt \in [ApiKeys -> Nat]
                  /\ now \in Nat /\ minute \in Nat /\ cache \in [ApiKeys -> Nat]
                  /\ count \in [Requests -> Nat] /\ readAt \in [Requests -> Nat]
                  /\ life \in [Requests -> Nat]
      OBVIOUS
    <3> QED BY <3>2, <3>3, <3>4, <3>5, <3>6, <3>7, <3>8, <3>9 DEF TypeOK
  <2>2. Init => Sane BY DEF Sane, InProcess
  <2>3. Init => CacheSound BY DEF CacheSound
  <2>4. Init => WindowSound
    <3>1. Init => Counted = {} BY DEF Counted
    <3>2. Init => TtlSound BY DEF TtlSound
    <3> QED BY <3>1, <3>2 DEF WindowSound, LivesSound, CountSound
  <2>5. Init => WindowsExpire
    <3>1. Init => Pending = {} BY DEF Pending
    <3> QED BY <3>1 DEF WindowsExpire
  <2> QED BY <2>1, <2>2, <2>3, <2>4, <2>5 DEF IndInv
<1>2. IndInv /\ [Next]_vars => IndInv'
  <2> SUFFICES ASSUME IndInv, [Next]_vars PROVE IndInv'
    OBVIOUS
  <2>1. CASE Next
    <3>1. TypeOK' BY <2>1, TypeStep DEF IndInv
    <3> QED BY <2>1, <3>1, SaneStep, CacheStep, WindowStep, ExpiryStep DEF IndInv
  <2>2. CASE UNCHANGED vars
    <3>1. UNCHANGED <<rpm, keyStatus, owner, revokedAt, now, minute, nextMinute, cache, counter,
                      ttl, born, pc, apiKey, bucket, count, readAt, life, onTime, cutOff>>
      BY <2>2 DEF vars, tables, clock, windows, locals, counted
    <3>2. TypeOK' BY <3>1 DEF IndInv, TypeOK
    <3>3. Sane' BY <3>1 DEF IndInv, Sane
    <3>4. CacheSound' BY <3>1 DEF IndInv, CacheSound
    <3>5. WindowSound'
      BY <3>1 DEF IndInv, WindowSound, TtlSound, LivesSound, CountSound, Counted, SameWindow, Tenant
    <3>6. WindowsExpire' BY <3>1, ExpiryFrame DEF IndInv
    <3> QED BY <3>2, <3>3, <3>4, <3>5, <3>6 DEF IndInv
  <2> QED BY <2>1, <2>2
<1> QED BY <1>1, <1>2, PTL DEF Spec

\* The windows without a time to live are the ones about to get it from the request
\* that created them and the ones whose creation was cut off by the end of the
\* process, a failed command or an INCR executed twice; nothing repairs these.
THEOREM WindowsGetTtl == Spec => []WindowsExpire
<1>1. IndInv => WindowsExpire BY DEF IndInv
<1> QED BY <1>1, InvariantHolds, PTL

\* A window lets no more requests pass than the limit: those it counts hold different
\* values of its counter, none above the limit.  The windows of one minute are
\* created Window apart, and one of them counts all the requests that are on time.
THEOREM RateIsLimited == Spec => []RateLimited
<1>1. ASSUME IndInv, NEW t \in Tenants, NEW m \in Minutes, NEW b \in 0..now
      PROVE  Cardinality(PassedIn(t, m, b)) <= rpm[t]
  <2>1. rpm[t] \in Nat BY <1>1 DEF IndInv, TypeOK
  <2> DEFINE S == PassedIn(t, m, b)
             f == [r \in S |-> count[r]]
  <2>2. \A r \in S : r \in Requests /\ r \in Counted /\ pc[r] = "passed" /\ Tenant(r) = t
    BY DEF PassedIn, Counted
  <2>3. \A r \in S : count[r] \in 1..rpm[t]
    <3>1. \A r \in S : count[r] >= 1 /\ count[r] <= rpm[t]
      BY <1>1, <2>2 DEF IndInv, WindowSound, CountSound
    <3>2. \A r \in S : count[r] \in Nat BY <1>1, <2>2 DEF IndInv, TypeOK
    <3> QED BY <2>1, <3>1, <3>2
  <2>4. \A r, s \in S : count[r] = count[s] => r = s
    <3>1. \A r, s \in S : SameWindow(r, s) /\ life[r] = life[s] BY DEF PassedIn, SameWindow
    <3> QED BY <1>1, <2>2, <3>1 DEF IndInv, WindowSound, LivesSound
  <2> HIDE DEF S
  <2>5. f \in Injection(S, 1..rpm[t]) BY <2>3, <2>4, Fun_IsInj
  <2>6. IsFiniteSet(1..rpm[t]) /\ Cardinality(1..rpm[t]) = rpm[t]
    <3>1. 1 \in Int /\ rpm[t] \in Int /\ rpm[t] - 1 + 1 = rpm[t] BY <2>1
    <3>2. IsFiniteSet(1..rpm[t])
          /\ Cardinality(1..rpm[t]) = IF 1 > rpm[t] THEN 0 ELSE rpm[t] - 1 + 1
      BY <3>1, FS_Interval
    <3> QED BY <2>1, <3>1, <3>2
  <2>7. IsFiniteSet(S) /\ Cardinality(S) <= Cardinality(1..rpm[t])
    BY <2>5, <2>6, FS_Injection
  <2> QED BY <2>6, <2>7 DEF S
<1>2. ASSUME IndInv, NEW r \in Requests, NEW s \in Requests, pc[r] = "passed", pc[s] = "passed",
             SameWindow(r, s)
      PROVE  Apart(life[r], life[s]) /\ (r \in onTime /\ s \in onTime => life[r] = life[s])
  BY <1>2 DEF IndInv, WindowSound, LivesSound, Counted
<1>3. IndInv => RateLimited BY <1>1, <1>2 DEF RateLimited
<1> QED BY <1>3, InvariantHolds, PTL

\* A key revoked longer ago than the time to live of the cache (and the time a
\* validation takes to be cached) authenticates nobody.
THEOREM RevocationBound == Spec => RevocationTakesEffect
<1>1. IndInv /\ [Next]_vars =>
        [\A r \in Requests : pc[r] # "admitted" /\ pc'[r] = "admitted" =>
           \/ keyStatus[apiKey[r]] = "active"
           \/ /\ keyStatus[apiKey[r]] = "revoked"
              /\ now < revokedAt[apiKey[r]] + Ttl + MaxLag]_vars
  <2> SUFFICES ASSUME IndInv, Next, NEW r \in Requests, pc[r] # "admitted", pc'[r] = "admitted"
               PROVE  \/ keyStatus[apiKey[r]] = "active"
                      \/ /\ keyStatus[apiKey[r]] = "revoked"
                         /\ now < revokedAt[apiKey[r]] + Ttl + MaxLag
    OBVIOUS
  <2>0. pc \in [Requests -> InProcess \cup {"new", "passed", "lost", "401", "429", "503"}]
    BY DEF IndInv, TypeOK
  <2>1. CacheHit(r) \/ StoreCache(r)
    BY <2>0 DEF Next, AuthNext, MissingCredentials, CacheHit, CacheMiss, ValidateKey, ValidateErrs,
       StoreCache, AuthFails, LimitNext, PickBucket, Incr, Expire, RedisRejects, ProcessDies, Dies,
       Tick, AccessNext, Move, Verdict
  <2> DEFINE k == apiKey[r]
  <2>2. k \in ApiKeys
    BY <2>1 DEF CacheHit, StoreCache, Move, IndInv, TypeOK, Sane, InProcess
  <2>3. /\ keyStatus[k] \in {"absent", "active", "revoked"} /\ revokedAt[k] \in Nat
        /\ cache[k] \in Nat /\ now \in Nat /\ readAt[r] \in Nat
    BY <2>2 DEF IndInv, TypeOK
  <2>4. CASE CacheHit(r)
    <3>1. cache[k] > 0 /\ now < cache[k] BY <2>3, <2>4 DEF CacheHit, Cached
    <3>2. keyStatus[k] # "absent" /\ (keyStatus[k] = "revoked" => cache[k] <= revokedAt[k] + Ttl + MaxLag)
      BY <2>2, <3>1 DEF IndInv, CacheSound
    <3> QED BY <2>3, <3>1, <3>2, TimeAssumption
  <2>5. CASE StoreCache(r)
    <3>1. pc[r] = "store" BY <2>5 DEF StoreCache, Move
    <3>2. /\ keyStatus[k] # "absent" /\ now <= readAt[r] + MaxLag
          /\ keyStatus[k] = "revoked" => readAt[r] <= revokedAt[k]
      BY <3>1 DEF IndInv, CacheSound
    <3> QED BY <2>3, <3>2, TimeAssumption
  <2> QED BY <2>1, <2>4, <2>5
<1> QED BY <1>1, InvariantHolds, PTL DEF Spec, RevocationTakesEffect
=============================================================================
