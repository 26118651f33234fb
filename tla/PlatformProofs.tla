--------------------------- MODULE PlatformProofs ---------------------------
(***************************************************************************)
(* What is proved of Operations holds of the service behind the gateway's  *)
(* guards too: they decide which create calls are made and when, and touch *)
(* nothing the service owns.                                               *)
(***************************************************************************)
EXTENDS PlatformProps, OutcomeProofs

\* A step of a guard, of the customer or of the calendar leaves the service alone.
LEMMA GuardsTouchNothing ==
  ASSUME \/ \E r \in Requests : Arrive(r) \/ GateNext(r) \/ QuotaFailsOpen(r) \/ GatewayDies(r)
         \/ NewMonth
  PROVE  UNCHANGED vars
<1>1. ASSUME NEW r \in Requests, Arrive(r) PROVE UNCHANGED vars
  BY <1>1 DEF Arrive
<1>2. ASSUME NEW r \in Requests, GateNext(r) PROVE UNCHANGED vars
  BY <1>2 DEF GateNext, QuotaGuard, PassQuota, ConcurrencyGuard, RetryLater
<1>3. ASSUME NEW r \in Requests, QuotaFailsOpen(r) PROVE UNCHANGED vars
  BY <1>3 DEF QuotaFailsOpen, PassQuota
<1>4. ASSUME NEW r \in Requests, GatewayDies(r) PROVE UNCHANGED vars
  BY <1>4 DEF GatewayDies
<1>5. ASSUME NewMonth PROVE UNCHANGED vars
  BY <1>5 DEF NewMonth
<1> QED BY <1>1, <1>2, <1>3, <1>4, <1>5

\* The composition of the guards with the service implements the service: the gateway
\* only restricts which create calls reach createOperation.
THEOREM PlatformRunsOperations == PlatformSpec => Spec
<1>1. PlatformInit => Init BY DEF PlatformInit
<1>2. [PlatformNext]_platformVars => [Next]_vars
  <2>1. ASSUME PlatformNext PROVE Next \/ UNCHANGED vars
    BY <2>1, GuardsTouchNothing DEF PlatformNext, Service
  <2>2. ASSUME UNCHANGED platformVars PROVE UNCHANGED vars
    BY <2>2 DEF platformVars
  <2> QED BY <2>1, <2>2
<1> QED BY <1>1, <1>2, PTL DEF PlatformSpec, Spec

\* Behind the guards, create calls with the same tenant and idempotency key still get
\* the same operation, also those a customer sends again after a refusal.
THEOREM RetriedCreateIsIdempotent == PlatformSpec => []IdempotentCreate
BY PlatformRunsOperations, CreateIsIdempotent, PTL

\* Behind the guards, an operation is never held twice.
THEOREM PlatformTicketIsSingle == PlatformSpec => []SingleTicket
BY PlatformRunsOperations, TicketIsSingle, PTL

-----------------------------------------------------------------------------
(* How far the quota can be overrun                                          *)

\* The gateway's types, and the number of requests is finite at any time.
GateTypes == PlatformTypeOK /\ IsFiniteSet(Arrived)

\* What the gateway counts is finite.
LEMMA OutstandingFinite ==
  ASSUME GateTypes, NEW t \in Tenants
  PROVE  IsFiniteSet(Outstanding(t)) /\ Cardinality(Outstanding(t)) \in Nat
<1>1. Outstanding(t) \subseteq Arrived BY DEF Outstanding, Arrived
<1> QED BY <1>1, FS_Subset, FS_CardinalityType DEF GateTypes

\* Every step moves a request at the gateway at most one guard on.
LEMMA GateTypeStep ==
  ASSUME IndInv, GateTypes, [PlatformNext]_platformVars PROVE GateTypes'
<1> USE DEF PlatformTypeOK, Go
<1>1. /\ PlatformTypeOK /\ IsFiniteSet(Arrived) /\ tenant \in [Requests -> Tenants]
      /\ usage \subseteq Requests
  BY DEF GateTypes, IndInv, TypeOK
<1>2. ASSUME NEW r \in Requests, Arrived' \subseteq Arrived \cup {r} PROVE IsFiniteSet(Arrived')
  BY <1>1, <1>2, FS_AddElement, FS_Subset
<1>3. ASSUME NEW r \in Requests, Arrive(r) PROVE GateTypes'
  <2>1. PlatformTypeOK' BY <1>1, <1>3 DEF Arrive, vars, postgres
  <2>2. Arrived' \subseteq Arrived \cup {r} BY <1>1, <1>3 DEF Arrive, Arrived
  <2> QED BY <1>2, <2>1, <2>2 DEF GateTypes
<1>4. ASSUME NEW r \in Requests, PassQuota(r), opened' \subseteq opened \cup {r} PROVE GateTypes'
  <2> DEFINE n == Cardinality(Outstanding(tenant[r])) + 1
  <2>1. n \in Nat BY <1>1, OutstandingFinite
  <2>2. /\ gate' = [gate EXCEPT ![r] = "concurrency"] /\ UNCHANGED <<usage, earlier>>
        /\ peak' = [peak EXCEPT ![tenant[r]] = IF n > @ THEN n ELSE @]
    BY <1>4 DEF PassQuota, vars, postgres
  <2> HIDE DEF n
  <2>3. peak' \in [Tenants -> Nat] BY <1>1, <2>1, <2>2
  <2>4. PlatformTypeOK' BY <1>1, <1>4, <2>2, <2>3
  <2>5. Arrived' \subseteq Arrived \cup {r} BY <1>1, <2>2 DEF Arrived
  <2> QED BY <1>2, <2>4, <2>5 DEF GateTypes
<1>5. ASSUME NEW r \in Requests, GateNext(r) \/ QuotaFailsOpen(r) PROVE GateTypes'
  <2>1. CASE PassQuota(r) /\ opened' \subseteq opened \cup {r} BY <1>4, <2>1
  <2>2. CASE ConcurrencyGuard(r) \/ RetryLater(r) \/
             (Go(r, "quota", "exhausted") /\ UNCHANGED <<vars, earlier, peak, opened>>)
    <3>1. /\ UNCHANGED <<vars, earlier, peak, opened>>
          /\ \E s \in {"busy", "proxied", "quota", "exhausted"} : gate' = [gate EXCEPT ![r] = s]
      BY <2>2 DEF ConcurrencyGuard, RetryLater
    <3>2. PlatformTypeOK' BY <1>1, <3>1 DEF vars, postgres
    <3>3. Arrived' \subseteq Arrived \cup {r} BY <1>1, <3>1 DEF Arrived
    <3> QED BY <1>2, <3>2, <3>3 DEF GateTypes
  <2> QED BY <1>5, <2>1, <2>2 DEF GateNext, QuotaGuard, QuotaFailsOpen
<1>6. ASSUME NEW r \in Requests, GatewayDies(r) PROVE GateTypes'
  <2>1. PlatformTypeOK' BY <1>1, <1>6 DEF GatewayDies, vars, postgres
  <2>2. Arrived' \subseteq Arrived BY <1>1, <1>6 DEF GatewayDies, Arrived
  <2> QED BY <1>1, <2>1, <2>2, FS_Subset DEF GateTypes
<1>7. ASSUME UNCHANGED <<gate, opened, peak>>,
             earlier' \subseteq usage', usage \subseteq usage'
      PROVE  GateTypes'
  BY <1>1, <1>7 DEF GateTypes, Arrived
<1>8. CASE NewMonth BY <1>1, <1>7, <1>8 DEF NewMonth, vars, postgres
<1>9. CASE Next /\ Behind
  <2>1. usage \subseteq usage' BY <1>9, UsageMoves DEF RecordUsage
  <2> QED BY <1>1, <1>7, <1>9, <2>1 DEF Behind
<1>10. CASE UNCHANGED platformVars BY <1>1, <1>7, <1>10 DEF platformVars, vars, postgres
<1> QED BY <1>3, <1>5, <1>6, <1>8, <1>9, <1>10 DEF PlatformNext

\* The gateway's variables keep their types, whatever happens behind it.
THEOREM PlatformTypes == PlatformSpec => []PlatformTypeOK
<1>1. PlatformInit => GateTypes
  <2> SUFFICES ASSUME PlatformInit PROVE GateTypes OBVIOUS
  <2>1. PlatformTypeOK /\ Arrived = {} BY DEF PlatformInit, Init, PlatformTypeOK, Arrived
  <2> QED BY <2>1, FS_EmptySet DEF GateTypes
<1>2. IndInv /\ GateTypes /\ [PlatformNext]_platformVars => GateTypes' BY GateTypeStep
<1>3. GateTypes => PlatformTypeOK BY DEF GateTypes
<1> QED BY <1>1, <1>2, <1>3, PlatformRunsOperations, InvariantHolds, PTL DEF PlatformSpec

\* How a create call gets its row, and how it comes to answer with another's.
LEMMA CreateMoves ==
  ASSUME IndInv, Next, NEW r \in Requests
  PROVE  /\ status[r] = "ABSENT" /\ status'[r] # "ABSENT" => call'[r] # call[r]
         /\ call'[r] \in {"refetch", "replayed"} /\ status[r] = "ABSENT" => status'[r] = "ABSENT"
         /\ call'[r] \in {"refetch", "replayed"} /\ call'[r] # call[r] =>
              call[r] \in {"new", "insert", "refetch"}
         /\ call[r] = "replayed" => call'[r] = "replayed"
<1> USE DEF IndInv, TypeOK, Answer
<1>1. ASSUME NEW s \in Requests, CreateNext(s) \/ CreateFails(s)
      PROVE  /\ status[r] = "ABSENT" /\ status'[r] # "ABSENT" => call'[r] # call[r]
             /\ call'[r] \in {"refetch", "replayed"} /\ status[r] = "ABSENT" => status'[r] = "ABSENT"
             /\ call'[r] \in {"refetch", "replayed"} /\ call'[r] # call[r] =>
                  call[r] \in {"new", "insert", "refetch"}
             /\ call[r] = "replayed" => call'[r] = "replayed"
  <2>1. CASE \E from \in {"new", "refetch"} : ReplayExisting(s, from)
    BY <2>1 DEF ReplayExisting, postgres
  <2>2. CASE LookupMisses(s) BY <2>2 DEF LookupMisses, postgres
  <2>3. CASE InsertOperation(s) BY <2>3 DEF InsertOperation
  <2>4. CASE InsertConflicts(s) BY <2>4 DEF InsertConflicts, postgres
  <2>5. CASE Enqueue(s) BY <2>5 DEF Enqueue, postgres
  <2>6. CASE TransitionToQueued(s) BY <2>6 DEF TransitionToQueued
  <2>7. CASE CreateFails(s) BY <2>7 DEF CreateFails, postgres
  <2> QED BY <1>1, <2>1, <2>2, <2>3, <2>4, <2>5, <2>6, <2>7 DEF CreateNext
<1>2. ASSUME UNCHANGED creates, \A o \in Requests : status'[o] = "ABSENT" <=> status[o] = "ABSENT"
      PROVE  /\ status[r] = "ABSENT" /\ status'[r] # "ABSENT" => call'[r] # call[r]
             /\ call'[r] \in {"refetch", "replayed"} /\ status[r] = "ABSENT" => status'[r] = "ABSENT"
             /\ call'[r] = call[r]
  BY <1>2 DEF creates
<1> QED BY <1>1, <1>2, OthersKeepRows

\* What is metered is the operation of an attempt that was reported a success.
LEMMA MeteredHasRow ==
  ASSUME IndInv, SuccessIsLast, NEW e \in Execs, RecordUsage(e)
  PROVE  op[e] \in Requests /\ status[op[e]] \in {"SUCCEEDED", "CANCELLED"}
<1>1. op[e] \in Requests BY DEF IndInv, TypeOK
<1>2. report["success"][e] = "ok" BY DEF RecordUsage, Notify, SuccessIsLast
<1> QED BY <1>1, <1>2 DEF SuccessIsLast

\* Every way to a row, or to a usage record, leads through the gateway.
LEMMA ForwardedStep ==
  ASSUME IndInv, SuccessIsLast, GateTypes, AllForwarded, [PlatformNext]_platformVars
  PROVE  AllForwarded'
<1> USE DEF AllForwarded
<1>1. /\ PlatformTypeOK /\ usage \subseteq Requests
      /\ \A r \in Requests : call[r] \in {"new", "insert"} => status[r] = "ABSENT"
  BY DEF GateTypes, IndInv, TypeOK, RowsExist
<1>2. ASSUME UNCHANGED vars, \A r \in Requests : gate[r] = "proxied" => gate'[r] = "proxied"
      PROVE  AllForwarded'
  BY <1>1, <1>2 DEF vars, postgres, creates
<1>3. ASSUME NEW r \in Requests, \/ Arrive(r) \/ GateNext(r)
                                 \/ QuotaFailsOpen(r) \/ GatewayDies(r)
      PROVE  \A s \in Requests : gate[s] = "proxied" => gate'[s] = "proxied"
  <2>1. CASE GatewayDies(r) BY <1>1, <2>1 DEF GatewayDies, PlatformTypeOK
  <2>2. CASE Arrive(r) \/ GateNext(r) \/ QuotaFailsOpen(r)
    <3>1. gate[r] # "proxied" /\ \E s : gate' = [gate EXCEPT ![r] = s]
      <4>1. CASE Arrive(r) BY <4>1 DEF Arrive, Go
      <4>2. CASE QuotaGuard(r) \/ QuotaFailsOpen(r)
        BY <4>2 DEF QuotaGuard, QuotaFailsOpen, PassQuota, Go
      <4>3. CASE ConcurrencyGuard(r) BY <4>3 DEF ConcurrencyGuard, Go
      <4>4. CASE RetryLater(r) BY <4>4 DEF RetryLater, Go
      <4> QED BY <2>2, <4>1, <4>2, <4>3, <4>4 DEF GateNext
    <3> QED BY <1>1, <3>1 DEF PlatformTypeOK
  <2> QED BY <1>3, <2>1, <2>2
<1>4. CASE Next /\ Behind
  <2>1. ASSUME NEW r \in Requests
        PROVE  /\ call'[r] # "new" \/ status'[r] # "ABSENT" => gate'[r] = "proxied"
               /\ call'[r] \in {"refetch", "replayed"} => status'[r] = "ABSENT"
    <3>1. /\ status[r] = "ABSENT" /\ status'[r] # "ABSENT" => call'[r] # call[r]
          /\ call'[r] \in {"refetch", "replayed"} /\ status[r] = "ABSENT" => status'[r] = "ABSENT"
          /\ call'[r] \in {"refetch", "replayed"} /\ call'[r] # call[r] =>
               call[r] \in {"new", "insert", "refetch"}
      BY <1>4, CreateMoves
    <3>2. gate' = gate /\ (call'[r] # call[r] => gate[r] = "proxied") BY <1>4 DEF Behind
    <3> QED BY <1>1, <3>1, <3>2
  <2>2. ASSUME NEW e \in Execs, RecordUsage(e) PROVE gate[op[e]] = "proxied"
    BY <2>2, MeteredHasRow
  <2>3. \A o \in usage' : gate'[o] = "proxied"
    BY <1>4, <2>2, UsageMoves DEF RecordUsage, Behind
  <2> QED BY <2>1, <2>3
<1>5. CASE UNCHANGED platformVars BY <1>2, <1>5 DEF platformVars
<1>6. CASE NewMonth BY <1>2, <1>6 DEF NewMonth
<1> QED BY <1>2, <1>3, <1>4, <1>5, <1>6, GuardsTouchNothing DEF PlatformNext

\* A step of the service charges a tenant for nothing new: a usage record moves an
\* operation from outstanding to consumed, and what is refused, or fails for good,
\* is charged no more.
LEMMA ServiceCharges ==
  ASSUME IndInv, SuccessIsLast, AllForwarded, Next, Behind, NEW t \in Tenants
  PROVE  Charged(t)' \subseteq Charged(t)
<1>1. /\ tenant' = tenant /\ gate' = gate /\ earlier' = earlier
      /\ usage \subseteq Requests
  BY TenantsStay DEF Behind, IndInv, TypeOK
<1>2. usage' = usage \/ \E e \in Execs : RecordUsage(e) BY UsageMoves
<1>3. ASSUME NEW r \in Outstanding(t)' PROVE r \in Outstanding(t)
  <2>1. /\ r \in Requests /\ tenant[r] = t /\ gate[r] \in {"concurrency", "proxied"}
        /\ r \notin usage' /\ call'[r] # "replayed" /\ status'[r] \notin {"FAILED", "DEAD_LETTERED"}
    BY <1>1, <1>3 DEF Outstanding
  <2>2. r \notin usage BY <1>2, <2>1 DEF RecordUsage
  <2>3. call[r] # "replayed" BY <2>1, CreateMoves
  <2>4. status[r] \notin {"FAILED", "DEAD_LETTERED"} BY <2>1, FinalStays
  <2> QED BY <2>1, <2>2, <2>3, <2>4 DEF Outstanding
<1>4. ASSUME NEW e \in Execs, RecordUsage(e), tenant[op[e]] = t, op[e] \notin usage
      PROVE  op[e] \in Outstanding(t)
  <2>1. op[e] \in Requests /\ status[op[e]] \in {"SUCCEEDED", "CANCELLED"} BY <1>4, MeteredHasRow
  <2>2. gate[op[e]] = "proxied" /\ call[op[e]] # "replayed" BY <2>1 DEF AllForwarded
  <2> QED BY <1>4, <2>1, <2>2 DEF Outstanding
<1>5. ASSUME NEW r \in Consumed(t)' PROVE r \in Charged(t)
  <2>1. r \in usage' /\ r \notin earlier /\ tenant[r] = t BY <1>1, <1>5 DEF Consumed
  <2>2. CASE r \in usage BY <2>1, <2>2 DEF Consumed, Charged
  <2>3. CASE r \notin usage BY <1>2, <1>4, <2>1, <2>3 DEF RecordUsage, Charged
  <2> QED BY <2>2, <2>3
<1> QED BY <1>3, <1>5 DEF Charged

\* What a tenant is charged for is finite.
LEMMA ChargedFinite ==
  ASSUME IndInv, OvershootInv, NEW t \in Tenants
  PROVE  /\ IsFiniteSet(Charged(t)) /\ IsFiniteSet(Consumed(t)) /\ IsFiniteSet(Outstanding(t))
         /\ Consumed(t) \cap Outstanding(t) = {}
<1>1. usage \subseteq Requests BY DEF IndInv, TypeOK
<1>2. Consumed(t) \subseteq Arrived BY <1>1 DEF Consumed, Arrived, OvershootInv, AllForwarded
<1>3. Outstanding(t) \subseteq Arrived BY DEF Outstanding, Arrived
<1>4. IsFiniteSet(Arrived) BY DEF OvershootInv
<1>5. Consumed(t) \cap Outstanding(t) = {} BY DEF Consumed, Outstanding
<1> QED BY <1>2, <1>3, <1>4, <1>5, FS_Subset DEF Charged

\* A check within the quota leaves at most Quota - 1 consumed and peak outstanding.
LEMMA PassCharges ==
  ASSUME IndInv, OvershootInv, NEW r \in Requests, PassQuota(r), NEW t \in Tenants,
         \/ UNCHANGED opened /\ WithinQuota(r)
         \/ opened' = opened \cup {r}
  PROVE  Cardinality((Charged(t) \ opened)') <= (Quota - 1) + peak'[t]
<1> DEFINE n == Cardinality(Outstanding(tenant[r])) + 1
<1>1. /\ UNCHANGED <<usage, status, call, tenant, earlier>>
      /\ gate' = [gate EXCEPT ![r] = "concurrency"] /\ gate[r] = "quota"
      /\ peak' = [peak EXCEPT ![tenant[r]] = IF n > @ THEN n ELSE @]
  BY DEF PassQuota, Go, vars, postgres, creates
<1>2. /\ PlatformTypeOK /\ tenant[r] \in Tenants /\ usage \subseteq Requests
      /\ Quota \in Nat \ {0}
  BY LimitsAssumption DEF OvershootInv, IndInv, TypeOK
<1>3. n \in Nat BY <1>2, ChargedFinite, FS_CardinalityType
<1> HIDE DEF n
<1>4. /\ peak[t] \in Nat /\ peak'[t] \in Nat /\ peak'[t] >= peak[t]
      /\ t = tenant[r] => peak'[t] >= n
  BY <1>1, <1>2, <1>3 DEF PlatformTypeOK
<1>5. Consumed(t)' = Consumed(t) BY <1>1 DEF Consumed
<1>6. /\ Outstanding(t)' \subseteq Outstanding(t) \cup {r}
      /\ t # tenant[r] => Outstanding(t)' \subseteq Outstanding(t)
  BY <1>1, <1>2 DEF Outstanding, PlatformTypeOK
<1>7. CASE (Charged(t) \ opened)' \subseteq Charged(t) \ opened
  <2>1. IsFiniteSet(Charged(t) \ opened) BY ChargedFinite, FS_Subset
  <2>2. Cardinality(Charged(t) \ opened) <= (Quota - 1) + peak[t] BY DEF OvershootInv
  <2>3. /\ Cardinality((Charged(t) \ opened)') <= Cardinality(Charged(t) \ opened)
        /\ Cardinality((Charged(t) \ opened)') \in Nat /\ Cardinality(Charged(t) \ opened) \in Nat
    BY <1>7, <2>1, FS_Subset, FS_CardinalityType
  <2> QED BY <1>2, <1>4, <2>2, <2>3
<1>8. CASE t # tenant[r] \/ opened' = opened \cup {r}
  BY <1>5, <1>6, <1>7, <1>8 DEF Charged
<1>9. CASE t = tenant[r] /\ WithinQuota(r)
  <2> DEFINE C == Consumed(t)
             O == Outstanding(t) \cup {r}
  <2>1. IsFiniteSet(Consumed(t)) /\ IsFiniteSet(Outstanding(t)) BY ChargedFinite
  <2>2. /\ IsFiniteSet(O) /\ Cardinality(O) <= n /\ Cardinality(O) \in Nat
    <3>1. Cardinality(Outstanding(t)) \in Nat /\ n = Cardinality(Outstanding(t)) + 1
      BY <1>9, <2>1, FS_CardinalityType DEF n
    <3>2. /\ IsFiniteSet(O)
          /\ Cardinality(O) = IF r \in Outstanding(t) THEN Cardinality(Outstanding(t))
                                                      ELSE Cardinality(Outstanding(t)) + 1
      BY <2>1, FS_AddElement
    <3> QED BY <3>1, <3>2
  <2>3. Cardinality(C) <= Quota - 1 /\ Cardinality(C) \in Nat
    BY <1>2, <1>9, <2>1, FS_CardinalityType DEF WithinQuota, GetConsumption
  <2>4. (Charged(t) \ opened)' \subseteq C \cup O BY <1>5, <1>6 DEF Charged
  <2> HIDE DEF C, O
  <2>5. /\ IsFiniteSet(C \cup O)
        /\ Cardinality(C \cup O) = Cardinality(C) + Cardinality(O) - Cardinality(C \cap O)
        /\ Cardinality(C \cap O) \in Nat
    <3>1. IsFiniteSet(C) BY <2>1 DEF C
    <3>2. IsFiniteSet(C \cap O) BY <3>1, FS_Subset
    <3> QED BY <2>2, <3>1, <3>2, FS_Union, FS_CardinalityType
  <2>6. /\ Cardinality((Charged(t) \ opened)') <= Cardinality(C \cup O)
        /\ Cardinality((Charged(t) \ opened)') \in Nat /\ Cardinality(C \cup O) \in Nat
    BY <2>4, <2>5, FS_Subset, FS_CardinalityType
  <2> QED BY <1>2, <1>3, <1>4, <1>9, <2>2, <2>3, <2>5, <2>6
<1> QED BY <1>8, <1>9

\* Only a request that passes the quota guard is charged for.
LEMMA OvershootStep ==
  ASSUME IndInv, SuccessIsLast, OvershootInv, [PlatformNext]_platformVars PROVE OvershootInv'
<1>1. GateTypes /\ AllForwarded BY DEF GateTypes, OvershootInv
<1>2. GateTypes' /\ AllForwarded' BY <1>1, GateTypeStep, ForwardedStep
<1>3. ASSUME NEW t \in Tenants
      PROVE  Cardinality((Charged(t) \ opened)') <= (Quota - 1) + peak'[t]
  <2>1. ASSUME Charged(t)' \subseteq Charged(t), UNCHANGED <<peak, opened>>
        PROVE  Cardinality((Charged(t) \ opened)') <= (Quota - 1) + peak'[t]
    <3>1. IsFiniteSet(Charged(t) \ opened) BY <1>3, ChargedFinite, FS_Subset
    <3>2. Cardinality(Charged(t) \ opened) <= (Quota - 1) + peak[t] BY <1>3 DEF OvershootInv
    <3>3. (Charged(t) \ opened)' \subseteq Charged(t) \ opened BY <2>1
    <3>4. /\ Cardinality((Charged(t) \ opened)') <= Cardinality(Charged(t) \ opened)
          /\ Cardinality((Charged(t) \ opened)') \in Nat /\ Cardinality(Charged(t) \ opened) \in Nat
      BY <3>1, <3>3, FS_Subset, FS_CardinalityType
    <3>5. Quota \in Nat /\ peak[t] \in Nat
      BY <1>1, <1>3, LimitsAssumption DEF GateTypes, PlatformTypeOK
    <3> QED BY <2>1, <3>2, <3>4, <3>5
  <2>2. ASSUME UNCHANGED <<vars, peak, opened>>, earlier \subseteq earlier',
               \A r \in Requests : gate'[r] \in {"concurrency", "proxied"} =>
                                     gate[r] \in {"concurrency", "proxied"}
        PROVE  Cardinality((Charged(t) \ opened)') <= (Quota - 1) + peak'[t]
    <3>1. Charged(t)' \subseteq Charged(t)
      BY <2>2 DEF Charged, Consumed, Outstanding, vars, postgres, creates
    <3> QED BY <2>1, <2>2, <3>1
  <2>3. ASSUME NEW r \in Requests, PassQuota(r), \/ UNCHANGED opened /\ WithinQuota(r)
                                                 \/ opened' = opened \cup {r}
        PROVE  Cardinality((Charged(t) \ opened)') <= (Quota - 1) + peak'[t]
    BY <1>3, <2>3, PassCharges
  <2>4. ASSUME NEW r \in Requests, GateNext(r) \/ QuotaFailsOpen(r) \/ Arrive(r)
        PROVE  Cardinality((Charged(t) \ opened)') <= (Quota - 1) + peak'[t]
    <3>1. CASE \/ Go(r, "quota", "exhausted") /\ UNCHANGED <<vars, earlier, peak, opened>>
               \/ ConcurrencyGuard(r) \/ RetryLater(r) \/ Arrive(r)
      <4>1. /\ UNCHANGED <<vars, earlier, peak, opened>>
            /\ \E s : /\ gate' = [gate EXCEPT ![r] = s]
                      /\ s = "proxied" => gate[r] = "concurrency"
                      /\ s # "concurrency"
        BY <3>1 DEF ConcurrencyGuard, RetryLater, Arrive, Go
      <4>2. gate \in [Requests -> {"idle", "quota", "concurrency", "proxied",
                                   "exhausted", "busy", "lost"}]
        BY <1>1 DEF GateTypes, PlatformTypeOK
      <4>3. \A s \in Requests : gate'[s] \in {"concurrency", "proxied"} =>
                                  gate[s] \in {"concurrency", "proxied"}
        BY <4>1, <4>2
      <4> QED BY <2>2, <4>1, <4>3
    <3> QED BY <2>3, <2>4, <3>1 DEF GateNext, QuotaGuard, QuotaFailsOpen
  <2>5. ASSUME NEW r \in Requests, GatewayDies(r)
        PROVE  Cardinality((Charged(t) \ opened)') <= (Quota - 1) + peak'[t]
    <3>1. \A s \in Requests : gate'[s] \in {"concurrency", "proxied"} =>
                                gate[s] \in {"concurrency", "proxied"}
      BY <2>5 DEF GatewayDies
    <3> QED BY <2>2, <2>5, <3>1 DEF GatewayDies
  <2>6. CASE NewMonth
    <3>1. earlier \subseteq earlier' BY <1>1, <2>6 DEF NewMonth, GateTypes, PlatformTypeOK
    <3> QED BY <2>2, <2>6, <3>1 DEF NewMonth
  <2>7. CASE Next /\ Behind
    <3>1. Charged(t)' \subseteq Charged(t) BY <1>1, <1>3, <2>7, ServiceCharges
    <3> QED BY <2>1, <2>7, <3>1 DEF Behind
  <2>8. CASE UNCHANGED platformVars BY <2>2, <2>8 DEF platformVars
  <2> QED BY <2>4, <2>5, <2>6, <2>7, <2>8 DEF PlatformNext
<1> QED BY <1>2, <1>3 DEF OvershootInv, GateTypes

\* As long as the worker waits for its reports, nothing gets around the gateway, and a
\* step of the service charges a tenant for nothing the quota guard did not let through.
THEOREM ChargesAreBounded ==
  ASSUME "timeout" \notin Env PROVE PlatformSpec => []OvershootInv
<1>1. PlatformInit => OvershootInv
  <2> SUFFICES ASSUME PlatformInit PROVE OvershootInv OBVIOUS
  <2>1. PlatformTypeOK /\ Arrived = {} BY DEF PlatformInit, Init, PlatformTypeOK, Arrived
  <2>2. AllForwarded BY DEF PlatformInit, Init, AllForwarded
  <2>3. \A t \in Tenants : Charged(t) \ opened = {}
    BY DEF PlatformInit, Init, Charged, Consumed, Outstanding
  <2>4. \A t \in Tenants : peak[t] = 0 BY DEF PlatformInit
  <2>5. \A t \in Tenants : Cardinality(Charged(t) \ opened) <= (Quota - 1) + peak[t]
    BY <2>3, <2>4, FS_EmptySet, LimitsAssumption
  <2> QED BY <2>1, <2>2, <2>5, FS_EmptySet DEF OvershootInv
<1>2. IndInv /\ SuccessIsLast /\ OvershootInv /\ [PlatformNext]_platformVars => OvershootInv'
  BY OvershootStep
<1> QED BY <1>1, <1>2, PlatformRunsOperations, InvariantHolds, SuccessIsFinal, PTL
     DEF PlatformSpec

\* The overrun of the quota is bounded as long as the worker waits for its reports:
\* what was consumed or may still be is at most Quota - 1 units, one for every
\* operation of the largest number outstanding at one time, and what was let through
\* unread.  Errors, crashes, cancellations and unreachable guards are all allowed.
THEOREM OverrunIsBounded ==
  ASSUME "timeout" \notin Env PROVE PlatformSpec => []QuotaOvershoot
<1>1. ASSUME IndInv, OvershootInv PROVE QuotaOvershoot
  <2> SUFFICES ASSUME NEW t \in Tenants
               PROVE  Cardinality(Consumed(t)) + Cardinality(Outstanding(t))
                        <= (Quota - 1) + peak[t] + Cardinality(OpenedOf(t))
    BY DEF QuotaOvershoot, GetConsumption
  <2> DEFINE all == Charged(t)
             blind == all \cap opened
  <2>1. /\ IsFiniteSet(all) /\ IsFiniteSet(Consumed(t)) /\ IsFiniteSet(Outstanding(t))
        /\ Consumed(t) \cap Outstanding(t) = {}
    BY <1>1, ChargedFinite
  <2>2. Cardinality(all) = Cardinality(Consumed(t)) + Cardinality(Outstanding(t))
    <3>1. Cardinality(all) = Cardinality(Consumed(t)) + Cardinality(Outstanding(t))
                               - Cardinality(Consumed(t) \cap Outstanding(t))
      BY <2>1, FS_Union DEF Charged
    <3>2. Cardinality(Consumed(t) \cap Outstanding(t)) = 0 BY <2>1, FS_EmptySet
    <3>3. Cardinality(Consumed(t)) \in Nat /\ Cardinality(Outstanding(t)) \in Nat
      BY <2>1, FS_CardinalityType
    <3> HIDE DEF all
    <3> QED BY <3>1, <3>2, <3>3
  <2>3. Cardinality(all \ opened) = Cardinality(all) - Cardinality(blind) BY <2>1, FS_Difference
  <2>4. opened \subseteq Requests BY <1>1 DEF OvershootInv, PlatformTypeOK
  <2>5. blind \subseteq OpenedOf(t) BY DEF Charged, Consumed, OpenedOf
  <2>6. IsFiniteSet(OpenedOf(t))
    <3>1. OpenedOf(t) \subseteq Arrived
      BY <1>1, <2>4 DEF OpenedOf, Outstanding, Arrived, OvershootInv, AllForwarded
    <3> QED BY <1>1, <3>1, FS_Subset DEF OvershootInv
  <2>7. /\ Cardinality(blind) <= Cardinality(OpenedOf(t))
        /\ Cardinality(blind) \in Nat /\ Cardinality(OpenedOf(t)) \in Nat /\ Cardinality(all) \in Nat
        /\ Cardinality(Consumed(t)) \in Nat /\ Cardinality(Outstanding(t)) \in Nat
    <3>1. IsFiniteSet(blind) BY <2>5, <2>6, FS_Subset
    <3> QED BY <2>1, <2>5, <2>6, <3>1, FS_Subset, FS_CardinalityType
  <2>8. /\ Cardinality(all \ opened) <= (Quota - 1) + peak[t]
        /\ peak[t] \in Nat /\ Quota \in Nat
    BY <1>1, LimitsAssumption DEF OvershootInv, PlatformTypeOK
  <2> HIDE DEF all, blind
  <2> QED BY <2>2, <2>3, <2>7, <2>8
<1> QED BY <1>1, ChargesAreBounded, PlatformRunsOperations, InvariantHolds, PTL
=============================================================================
