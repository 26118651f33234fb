-------------------------- MODULE WebhooksProofs --------------------------
(***************************************************************************)
(* Proofs about Webhooks, for every value of its constants: a delivery is  *)
(* given up only after maxAttempts attempts, gets at most two more, and is *)
(* DELIVERED only when the customer has accepted it.                       *)
(***************************************************************************)
EXTENDS WebhooksProps, TLAPS

\* A delivery is a pair of an event and an endpoint.
LEMMA DeliveryPair ==
  \A d \in Deliveries : /\ d[1] \in Events /\ d[2] \in Endpoints
                        /\ d = <<d[1], d[2]>> /\ d[1] # Sweep /\ d[1] \in Actors
BY SweepAssumption DEF Deliveries, Actors

\* Everyone who sends is a handler or the sweep.
LEMMA ActorKinds ==
  /\ Sweep \in Actors /\ Sweep \notin Events
  /\ \A v \in Events : v \in Actors /\ v # Sweep
  /\ \A a \in Actors : a \in Events \/ a = Sweep
BY SweepAssumption DEF Actors

\* Every step keeps the types.
LEMMA TypeStep == ASSUME TypeOK, Next PROVE TypeOK'
<1> USE AttemptsAssumption, ActorKinds DEF TypeOK, tables, calls, sender
<1>1. ASSUME NEW w \in Endpoints, CreateWebhookEndpoint(w) PROVE TypeOK'
  BY <1>1 DEF CreateWebhookEndpoint
<1>2. ASSUME NEW v \in Events, DispatchNext(v) \/ LoadFails(v) \/ HangUp(v) PROVE TypeOK'
  <2>1. CASE LoadEndpoints(v) BY <2>1 DEF LoadEndpoints, ActiveWebhooksForTenant
  <2>2. CASE FinishDispatch(v) BY <2>2 DEF FinishDispatch
  <2>3. ASSUME NEW w \in Endpoints, CreateDelivery(v, w) PROVE TypeOK'
    BY <2>3 DEF CreateDelivery, Attempt, Deliveries
  <2>4. ASSUME NEW w \in Endpoints, CreateFails(v, w) PROVE TypeOK'
    BY <2>4 DEF CreateFails
  <2>5. CASE LoadFails(v) BY <2>5 DEF LoadFails
  <2>6. CASE HangUp(v) BY <2>6 DEF HangUp
  <2> QED BY <1>2, <2>1, <2>2, <2>3, <2>4, <2>5, <2>6 DEF DispatchNext
<1>3. ASSUME NEW a \in Actors, AttemptNext(a) PROVE TypeOK'
  <2>1. CASE UrlRefused(a) BY <2>1 DEF UrlRefused, Outcome
  <2>2. CASE EndpointAccepts(a) BY <2>2 DEF EndpointAccepts, Outcome
  <2>3. CASE EndpointFails(a) BY <2>3 DEF EndpointFails, Outcome
  <2>4. CASE MarkDeliverySuccess(a) BY <2>4 DEF MarkDeliverySuccess, Mark
  <2>5. CASE MarkDeliveryPermanentlyFailed(a) BY <2>5 DEF MarkDeliveryPermanentlyFailed, Mark
  <2>6. CASE MarkDeliveryFailedAndReschedule(a) BY <2>6 DEF MarkDeliveryFailedAndReschedule, Mark
  <2>7. CASE MarkFails(a) BY <2>7 DEF MarkFails
  <2> QED BY <1>3, <2>1, <2>2, <2>3, <2>4, <2>5, <2>6, <2>7 DEF AttemptNext
<1>4. ASSUME NEW S \in SUBSET Deliveries, ReadDue(S) PROVE TypeOK'
  <2>1. \A d \in S : [delivery |-> d, count |-> attemptCount[d]] \in Item BY DEF Item
  <2> QED BY <1>4, <2>1 DEF ReadDue
<1>5. ASSUME NEW i \in due, ResendDue(i) PROVE TypeOK'
  <2>1. i.delivery \in Deliveries /\ i.count \in Nat BY DEF Item
  <2> QED BY <1>5, <2>1 DEF ResendDue, Attempt
<1>6. CASE CrashAndRestart BY <1>6 DEF CrashAndRestart
<1> QED BY <1>1, <1>2, <1>3, <1>4, <1>5, <1>6 DEF Next, SweepNext

\* Every step keeps what is known of the senders.
LEMMA SendersStep == ASSUME TypeOK, Senders, Next PROVE Senders'
<1> USE ActorKinds, DeliveryPair DEF TypeOK, Senders, tables, calls, sender
<1>1. ASSUME NEW w \in Endpoints, CreateWebhookEndpoint(w) PROVE Senders'
  BY <1>1 DEF CreateWebhookEndpoint
<1>2. ASSUME NEW v \in Events, DispatchNext(v) \/ LoadFails(v) \/ HangUp(v) PROVE Senders'
  <2>1. CASE LoadEndpoints(v) BY <2>1 DEF LoadEndpoints, ActiveWebhooksForTenant
  <2>2. CASE FinishDispatch(v) BY <2>2 DEF FinishDispatch
  <2>3. ASSUME NEW w \in Endpoints, CreateDelivery(v, w) PROVE Senders'
    BY <2>3 DEF CreateDelivery, Attempt, Deliveries
  <2>4. ASSUME NEW w \in Endpoints, CreateFails(v, w) PROVE Senders'
    BY <2>4 DEF CreateFails
  <2>5. CASE LoadFails(v) BY <2>5 DEF LoadFails
  <2>6. CASE HangUp(v) BY <2>6 DEF HangUp
  <2> QED BY <1>2, <2>1, <2>2, <2>3, <2>4, <2>5, <2>6 DEF DispatchNext
<1>3. ASSUME NEW a \in Actors, AttemptNext(a) PROVE Senders'
  <2>1. CASE UrlRefused(a) BY <2>1 DEF UrlRefused, Outcome
  <2>2. CASE EndpointAccepts(a) BY <2>2 DEF EndpointAccepts, Outcome
  <2>3. CASE EndpointFails(a) BY <2>3 DEF EndpointFails, Outcome
  <2>4. ASSUME NEW s \in {"DELIVERED", "FAILED", "PENDING"}, step[a] # "idle", Mark(a, s)
        PROVE  Senders'
    <3>1. row[job[a]] # "ABSENT" BY <2>4
    <3>2. \A d \in Deliveries : row'[d] = "ABSENT" <=> row[d] = "ABSENT" BY <2>4, <3>1 DEF Mark
    <3>3. \A v \in Events, w \in Endpoints : <<v, w>> \in Deliveries BY DEF Deliveries
    <3>4. \A i \in due : i.delivery \in Deliveries BY DEF Item
    <3> QED BY <2>4, <3>2, <3>3, <3>4 DEF Mark
  <2>5. CASE MarkFails(a) BY <2>5 DEF MarkFails
  <2> QED BY <1>3, <2>1, <2>2, <2>3, <2>4, <2>5
          DEF AttemptNext, MarkDeliverySuccess, MarkDeliveryPermanentlyFailed,
              MarkDeliveryFailedAndReschedule
<1>4. ASSUME NEW S \in SUBSET Deliveries, ReadDue(S) PROVE Senders'
  BY <1>4 DEF ReadDue
<1>5. ASSUME NEW i \in due, ResendDue(i) PROVE Senders'
  <2>1. i.delivery \in Deliveries /\ i.count \in Nat BY DEF Item
  <2> QED BY <1>5, <2>1 DEF ResendDue, Attempt
<1>6. CASE CrashAndRestart BY <1>6 DEF CrashAndRestart
<1> QED BY <1>1, <1>2, <1>3, <1>4, <1>5, <1>6 DEF Next, SweepNext

\* Every step keeps what is known of the answers: DELIVERED is recorded by an
\* actor that has seen a 2xx, and an answer is never taken back.
LEMMA AnswersStep == ASSUME TypeOK, Answers, Next PROVE Answers'
<1> USE ActorKinds, DeliveryPair DEF TypeOK, Answers, DeliveredIsAcked, tables, calls, sender
<1>1. ASSUME NEW w \in Endpoints, CreateWebhookEndpoint(w) PROVE Answers'
  BY <1>1 DEF CreateWebhookEndpoint
<1>2. ASSUME NEW v \in Events, DispatchNext(v) \/ LoadFails(v) \/ HangUp(v) PROVE Answers'
  <2>1. CASE LoadEndpoints(v) BY <2>1 DEF LoadEndpoints
  <2>2. CASE FinishDispatch(v) BY <2>2 DEF FinishDispatch
  <2>3. ASSUME NEW w \in Endpoints, CreateDelivery(v, w) PROVE Answers'
    BY <2>3 DEF CreateDelivery, Attempt, Deliveries
  <2>4. ASSUME NEW w \in Endpoints, CreateFails(v, w) PROVE Answers'
    BY <2>4 DEF CreateFails
  <2>5. CASE LoadFails(v) BY <2>5 DEF LoadFails
  <2>6. CASE HangUp(v) BY <2>6 DEF HangUp
  <2> QED BY <1>2, <2>1, <2>2, <2>3, <2>4, <2>5, <2>6 DEF DispatchNext
<1>3. ASSUME NEW a \in Actors, AttemptNext(a) PROVE Answers'
  <2>1. CASE UrlRefused(a) BY <2>1 DEF UrlRefused, Outcome
  <2>2. CASE EndpointAccepts(a) BY <2>2 DEF EndpointAccepts, Outcome
  <2>3. CASE EndpointFails(a) BY <2>3 DEF EndpointFails, Outcome
  <2>4. CASE MarkDeliverySuccess(a) BY <2>4 DEF MarkDeliverySuccess, Mark
  <2>5. CASE MarkDeliveryPermanentlyFailed(a) BY <2>5 DEF MarkDeliveryPermanentlyFailed, Mark
  <2>6. CASE MarkDeliveryFailedAndReschedule(a) BY <2>6 DEF MarkDeliveryFailedAndReschedule, Mark
  <2>7. CASE MarkFails(a) BY <2>7 DEF MarkFails
  <2> QED BY <1>3, <2>1, <2>2, <2>3, <2>4, <2>5, <2>6, <2>7 DEF AttemptNext
<1>4. ASSUME NEW S \in SUBSET Deliveries, ReadDue(S) PROVE Answers'
  BY <1>4 DEF ReadDue
<1>5. ASSUME NEW i \in due, ResendDue(i) PROVE Answers'
  BY <1>5 DEF ResendDue, Attempt
<1>6. CASE CrashAndRestart BY <1>6 DEF CrashAndRestart
<1> QED BY <1>1, <1>2, <1>3, <1>4, <1>5, <1>6 DEF Next, SweepNext

\* Recording an outcome keeps the bounds.  When the handler records its own, the
\* count that the sweep may hold falls behind by one; when the sweep does, the
\* count it holds is at most that one behind.
LEMMA BoundsMark ==
  ASSUME TypeOK, Senders, Answers, Counts, GivenUpAfterMax, AttemptsBounded,
         NEW a \in Actors, NEW s \in {"DELIVERED", "FAILED", "PENDING"},
         step[a] # "idle", Mark(a, s),
         s = "FAILED" => step[a] = "rejected" \/ attempt[a] >= MaxAttempts,
         s = "PENDING" => attempt[a] < MaxAttempts
  PROVE  Counts' /\ GivenUpAfterMax' /\ AttemptsBounded'
<1> SUFFICES ASSUME NEW d \in Deliveries, d = job[a]
             PROVE  Counts' /\ GivenUpAfterMax' /\ AttemptsBounded'
  BY DEF TypeOK
<1>1. attemptCount[d] \in Nat /\ row[d] # "ABSENT" /\ attempt[a] \in Nat
  BY ActorKinds DEF TypeOK, Senders
<1>2. /\ row' = [row EXCEPT ![d] = s]
      /\ attemptCount' = [attemptCount EXCEPT ![d] = attemptCount[d] + 1]
      /\ step' = [step EXCEPT ![a] = "idle"]
      /\ due' = due /\ job' = job /\ attempt' = attempt
  BY DEF Mark, calls
<1>3. row'[d] = s /\ attemptCount'[d] = attemptCount[d] + 1
  BY <1>1, <1>2 DEF TypeOK
<1>4. \A e \in Deliveries : e # d => row'[e] = row[e] /\ attemptCount'[e] = attemptCount[e]
  BY <1>2 DEF TypeOK
<1>5. \A e \in Deliveries : e # d => Outstanding(e)' = Outstanding(e)
  BY <1>1, <1>2, <1>4, ActorKinds, DeliveryPair DEF Outstanding, TypeOK, Senders
<1>6. \A i \in due : i.delivery \in Deliveries /\ i.count \in Nat
  BY DEF TypeOK, Item
<1>7. \A e \in Deliveries, c \in Int : e # d /\ Known(e, c) => Known(e, c)'
  BY <1>4, <1>5 DEF Known
<1>8. step[a] = "rejected" => d[2] \in BadUrls
  BY DEF Answers
<1>9. CASE a \in Events
  <2>1. d[1] = a /\ attempt[a] = 1 /\ Outstanding(d)
    BY <1>9, <1>1 DEF Senders, Outstanding
  <2>2. ~Outstanding(d)'
    BY <1>1, <1>2, <1>3, <2>1 DEF Outstanding, TypeOK
  <2>3. \A c \in Int : Known(d, c) => Known(d, c)'
    BY <1>1, <1>3, <2>1, <2>2 DEF Known, Counts
  <2>4. Counts'
    <3>1. \A e \in Deliveries :
            /\ row'[e] = "ABSENT" => attemptCount'[e] = 0
            /\ Outstanding(e)' => /\ attemptCount'[e] <= MaxAttempts
                                  /\ row'[e] = "PENDING" => attemptCount'[e] < MaxAttempts
            /\ row'[e] = "PENDING" => attemptCount'[e] <= MaxAttempts + 1
      BY <1>1, <1>3, <1>4, <1>5, <2>1, <2>2, AttemptsAssumption DEF Counts
    <3>2. \A i \in due' : Known(i.delivery, i.count)'
      BY <1>2, <1>6, <1>7, <2>3 DEF Counts
    <3>3. step'[Sweep] # "idle" => Known(job[Sweep], attempt[Sweep] - 1)'
      <4>1. /\ step'[Sweep] = step[Sweep] /\ job'[Sweep] = job[Sweep]
            /\ attempt'[Sweep] = attempt[Sweep]
        BY <1>2, <1>9, ActorKinds DEF TypeOK
      <4>2. job[Sweep] \in Deliveries /\ attempt[Sweep] - 1 \in Int
        BY ActorKinds DEF TypeOK
      <4> QED BY <4>1, <4>2, <1>2, <1>7, <2>3 DEF Counts
    <3> QED BY <3>1, <3>2, <3>3 DEF Counts
  <2>5. GivenUpAfterMax'
    BY <1>1, <1>3, <1>4, <1>8, <2>1, AttemptsAssumption DEF GivenUpAfterMax
  <2>6. AttemptsBounded'
    BY <1>1, <1>3, <1>4, <2>1, AttemptsAssumption DEF AttemptsBounded, Counts
  <2> QED BY <2>4, <2>5, <2>6
<1>10. CASE a = Sweep
  <2>1. Outstanding(d)' = Outstanding(d)
    BY <1>1, <1>2, <1>3, <1>10, DeliveryPair DEF Outstanding, TypeOK
  <2>2. Known(d, attempt[a] - 1)
    BY <1>10 DEF Counts
  <2>3. step'[Sweep] = "idle"
    BY <1>2, <1>10 DEF TypeOK
  <2>4. Counts'
    <3>1. \A e \in Deliveries :
            /\ row'[e] = "ABSENT" => attemptCount'[e] = 0
            /\ Outstanding(e)' => /\ attemptCount'[e] <= MaxAttempts
                                  /\ row'[e] = "PENDING" => attemptCount'[e] < MaxAttempts
            /\ row'[e] = "PENDING" => attemptCount'[e] <= MaxAttempts + 1
      BY <1>1, <1>3, <1>4, <1>5, <2>1, <2>2, AttemptsAssumption DEF Counts, Known
    <3>2. \A i \in due' : Known(i.delivery, i.count)'
      BY <1>2, <1>6, <1>7, <1>10 DEF Counts, Senders
    <3> QED BY <3>1, <3>2, <2>3 DEF Counts
  <2>5. GivenUpAfterMax'
    BY <1>1, <1>3, <1>4, <1>8, <2>2, AttemptsAssumption DEF GivenUpAfterMax, Known
  <2>6. AttemptsBounded'
    BY <1>1, <1>3, <1>4, <2>2, AttemptsAssumption DEF AttemptsBounded, Counts, Known
  <2> QED BY <2>4, <2>5, <2>6
<1> QED BY <1>9, <1>10, ActorKinds

\* The bounds survive every step that writes no delivery and hands no one a new
\* one, whoever stops sending in it.
LEMMA BoundsFrame ==
  ASSUME TypeOK, Counts, GivenUpAfterMax, AttemptsBounded,
         row' = row, attemptCount' = attemptCount, job' = job, attempt' = attempt,
         due' \subseteq due, \A a \in Actors : step'[a] # "idle" => step[a] # "idle"
  PROVE  Counts' /\ GivenUpAfterMax' /\ AttemptsBounded'
<1>1. \A d \in Deliveries : Outstanding(d)' => Outstanding(d)
  BY DeliveryPair DEF Outstanding
<1>2. \A d \in Deliveries : row[d] = "PENDING" => attemptCount[d] <= MaxAttempts + 1
  BY DEF Counts
<1>3. \A d \in Deliveries, c \in Int : Known(d, c) => Known(d, c)'
  BY <1>1, <1>2 DEF Known
<1>4. \A i \in due : i.delivery \in Deliveries /\ i.count \in Nat
  BY DEF TypeOK, Item
<1>5. job[Sweep] \in Deliveries /\ attempt[Sweep] - 1 \in Int
  BY ActorKinds DEF TypeOK
<1>6. Counts'
  <2>1. \A d \in Deliveries :
          /\ row'[d] = "ABSENT" => attemptCount'[d] = 0
          /\ Outstanding(d)' => /\ attemptCount'[d] <= MaxAttempts
                                /\ row'[d] = "PENDING" => attemptCount'[d] < MaxAttempts
          /\ row'[d] = "PENDING" => attemptCount'[d] <= MaxAttempts + 1
    BY <1>1 DEF Counts
  <2>2. \A i \in due' : Known(i.delivery, i.count)'
    BY <1>3, <1>4 DEF Counts
  <2>3. step'[Sweep] # "idle" => Known(job[Sweep], attempt[Sweep] - 1)'
    BY <1>3, <1>5, ActorKinds DEF Counts
  <2> QED BY <2>1, <2>2, <2>3 DEF Counts
<1> QED BY <1>6 DEF GivenUpAfterMax, AttemptsBounded

\* Every step keeps the bounds.
LEMMA BoundsStep ==
  ASSUME TypeOK, Senders, Answers, Counts, GivenUpAfterMax, AttemptsBounded, Next
  PROVE  Counts' /\ GivenUpAfterMax' /\ AttemptsBounded'
<1> DEFINE Bounds == Counts /\ GivenUpAfterMax /\ AttemptsBounded
<1> DEFINE Frame == /\ row' = row /\ attemptCount' = attemptCount /\ job' = job
                    /\ attempt' = attempt /\ due' \subseteq due
                    /\ \A a \in Actors : step'[a] # "idle" => step[a] # "idle"
<1>1. Frame => Bounds'
  BY BoundsFrame
<1> SUFFICES Frame \/ Bounds'
  BY <1>1
<1> HIDE DEF Bounds
<1>2. ASSUME NEW w \in Endpoints, CreateWebhookEndpoint(w) PROVE Frame
  BY <1>2 DEF CreateWebhookEndpoint, sender
<1>3. ASSUME NEW v \in Events, NEW w \in Endpoints, CreateDelivery(v, w) PROVE Bounds'
  <2> DEFINE n == <<v, w>>
  <2>1. n \in Deliveries /\ v \in Actors /\ v # Sweep /\ n[1] = v
    BY ActorKinds DEF Deliveries
  <2>2. /\ row' = [row EXCEPT ![n] = "PENDING"] /\ attemptCount' = attemptCount
        /\ step[v] = "idle" /\ step' = [step EXCEPT ![v] = "send"]
        /\ job' = [job EXCEPT ![v] = n] /\ attempt' = [attempt EXCEPT ![v] = 1] /\ due' = due
        /\ row[n] = "ABSENT"
    BY <1>3 DEF CreateDelivery, Attempt, Senders
  <2>3. row'[n] = "PENDING" /\ \A d \in Deliveries : d # n => row'[d] = row[d]
    BY <2>1, <2>2 DEF TypeOK
  <2>4. \A d \in Deliveries : Outstanding(d)' = Outstanding(d)
    BY <2>1, <2>2, <2>3, DeliveryPair DEF Outstanding, TypeOK
  <2>5. attemptCount[n] = 0
    BY <2>1, <2>2 DEF Counts
  <2>6. \A d \in Deliveries, c \in Int : d # n /\ Known(d, c) => Known(d, c)'
    BY <2>2, <2>3, <2>4 DEF Known
  <2>7. Counts'
    <3>1. \A d \in Deliveries :
            /\ row'[d] = "ABSENT" => attemptCount'[d] = 0
            /\ Outstanding(d)' => /\ attemptCount'[d] <= MaxAttempts
                                  /\ row'[d] = "PENDING" => attemptCount'[d] < MaxAttempts
            /\ row'[d] = "PENDING" => attemptCount'[d] <= MaxAttempts + 1
      BY <2>2, <2>3, <2>4, <2>5, AttemptsAssumption DEF Counts
    <3>2. \A i \in due' : Known(i.delivery, i.count)'
      <4>1. \A i \in due : i.delivery \in Deliveries /\ i.count \in Nat /\ i.delivery # n
        BY <2>2 DEF TypeOK, Item, Senders
      <4> QED BY <4>1, <2>2, <2>6 DEF Counts
    <3>3. step'[Sweep] # "idle" => Known(job[Sweep], attempt[Sweep] - 1)'
      <4>1. /\ step'[Sweep] = step[Sweep] /\ job'[Sweep] = job[Sweep]
            /\ attempt'[Sweep] = attempt[Sweep]
        BY <2>1, <2>2, ActorKinds DEF TypeOK
      <4>2. job[Sweep] \in Deliveries /\ attempt[Sweep] - 1 \in Int
        BY ActorKinds DEF TypeOK
      <4>3. step[Sweep] # "idle" => job[Sweep] # n
        BY <2>2 DEF Senders
      <4> QED BY <4>1, <4>2, <4>3, <2>6 DEF Counts
    <3> QED BY <3>1, <3>2, <3>3 DEF Counts
  <2>8. GivenUpAfterMax' /\ AttemptsBounded'
    BY <2>2, <2>3 DEF GivenUpAfterMax, AttemptsBounded
  <2> QED BY <2>7, <2>8 DEF Bounds
<1>4. ASSUME NEW v \in Events, LoadEndpoints(v) \/ FinishDispatch(v) \/ LoadFails(v) \/ HangUp(v)
      PROVE  Frame
  BY <1>4 DEF LoadEndpoints, FinishDispatch, LoadFails, HangUp, tables, sender
<1>5. ASSUME NEW v \in Events, NEW w \in Endpoints, CreateFails(v, w) PROVE Frame
  BY <1>5 DEF CreateFails, tables, sender
<1>6. ASSUME NEW a \in Actors, AttemptNext(a) PROVE Frame \/ Bounds'
  <2>1. CASE UrlRefused(a) \/ EndpointAccepts(a) \/ EndpointFails(a)
    BY <2>1 DEF UrlRefused, EndpointAccepts, EndpointFails, Outcome, tables, TypeOK
  <2>2. CASE MarkDeliverySuccess(a)
    BY <2>2, BoundsMark DEF MarkDeliverySuccess, Bounds
  <2>3. CASE MarkDeliveryPermanentlyFailed(a)
    BY <2>3, BoundsMark DEF MarkDeliveryPermanentlyFailed, Exhausted, Bounds
  <2>4. CASE MarkDeliveryFailedAndReschedule(a)
    <3>1. attempt[a] \in Nat /\ attempt[a] < MaxAttempts
      BY <2>4, AttemptsAssumption DEF MarkDeliveryFailedAndReschedule, Exhausted, TypeOK
    <3> QED BY <2>4, <3>1, BoundsMark DEF MarkDeliveryFailedAndReschedule, Bounds
  <2>5. CASE MarkFails(a)
    BY <2>5 DEF MarkFails, tables, TypeOK
  <2> QED BY <1>6, <2>1, <2>2, <2>3, <2>4, <2>5 DEF AttemptNext
<1>7. ASSUME NEW S \in SUBSET Deliveries, ReadDue(S) PROVE Bounds'
  <2>1. /\ row' = row /\ attemptCount' = attemptCount /\ step' = step /\ job' = job
        /\ attempt' = attempt /\ step[Sweep] = "idle"
        /\ \A d \in S : row[d] = "PENDING"
        /\ due' = {[delivery |-> d, count |-> attemptCount[d]] : d \in S}
    BY <1>7 DEF ReadDue, tables, sender
  <2>2. \A d \in Deliveries : Outstanding(d)' = Outstanding(d)
    BY <2>1 DEF Outstanding
  <2>3. \A d \in S : Known(d, attemptCount[d])'
    BY <2>1, <2>2 DEF Known, Counts
  <2>4. \A i \in due' : Known(i.delivery, i.count)'
    BY <2>1, <2>3
  <2>5. Counts'
    BY <2>1, <2>2, <2>4 DEF Counts
  <2> QED BY <2>1, <2>5 DEF Bounds, GivenUpAfterMax, AttemptsBounded
<1>8. ASSUME NEW i \in due, ResendDue(i) PROVE Bounds'
  <2>1. i.delivery \in Deliveries /\ i.count \in Nat
    BY DEF TypeOK, Item
  <2>2. /\ row' = row /\ attemptCount' = attemptCount /\ due' \subseteq due
        /\ step' = [step EXCEPT ![Sweep] = "send"]
        /\ job' = [job EXCEPT ![Sweep] = i.delivery]
        /\ attempt' = [attempt EXCEPT ![Sweep] = i.count + 1]
    BY <1>8 DEF ResendDue, Attempt, tables
  <2>3. \A d \in Deliveries : Outstanding(d)' = Outstanding(d)
    BY <2>2, DeliveryPair, ActorKinds DEF Outstanding, TypeOK
  <2>4. \A d \in Deliveries, c \in Int : Known(d, c) => Known(d, c)'
    BY <2>2, <2>3 DEF Known
  <2>5. \A j \in due' : Known(j.delivery, j.count)'
    <3>1. \A j \in due : j.delivery \in Deliveries /\ j.count \in Nat
      BY DEF TypeOK, Item
    <3> QED BY <3>1, <2>2, <2>4 DEF Counts
  <2>6. Known(job[Sweep], attempt[Sweep] - 1)'
    <3>1. job'[Sweep] = i.delivery /\ attempt'[Sweep] - 1 = i.count
      BY <2>1, <2>2, ActorKinds DEF TypeOK
    <3>2. Known(i.delivery, i.count)
      BY DEF Counts
    <3> QED BY <3>1, <3>2, <2>1, <2>4
  <2>7. Counts'
    BY <2>2, <2>3, <2>5, <2>6 DEF Counts
  <2> QED BY <2>2, <2>7 DEF Bounds, GivenUpAfterMax, AttemptsBounded
<1>9. CASE CrashAndRestart
  BY <1>9 DEF CrashAndRestart, tables
<1> HIDE DEF Frame
<1> QED BY <1>2, <1>3, <1>4, <1>5, <1>6, <1>7, <1>8, <1>9 DEF Next, DispatchNext, SweepNext

-----------------------------------------------------------------------------
\* The inductive invariant holds throughout.
THEOREM InvariantHolds == Spec => []IndInv
<1>1. Init => IndInv
  <2> SUFFICES ASSUME Init PROVE IndInv
    OBVIOUS
  <2>1. (CHOOSE d \in Deliveries : TRUE) \in Deliveries
    <3>1. PICK v \in Events, w \in Endpoints : TRUE
      BY DeliveriesAssumption
    <3>2. <<v, w>> \in Deliveries
      BY <3>1 DEF Deliveries
    <3> QED BY <3>2
  <2>2. TypeOK
    BY <2>1, AttemptsAssumption DEF Init, TypeOK
  <2>3. \A d \in Deliveries : row[d] = "ABSENT" /\ attemptCount[d] = 0
    BY DEF Init
  <2>4. \A a \in Actors : step[a] = "idle"
    BY DEF Init
  <2>5. Senders
    BY <2>3, <2>4, ActorKinds DEF Init, Senders, Deliveries
  <2>6. Answers
    BY <2>3, <2>4 DEF Answers, DeliveredIsAcked
  <2>7. Counts
    BY <2>3, <2>4, ActorKinds, AttemptsAssumption DEF Init, Counts
  <2>8. GivenUpAfterMax /\ AttemptsBounded
    BY <2>3, AttemptsAssumption DEF GivenUpAfterMax, AttemptsBounded
  <2> QED BY <2>2, <2>5, <2>6, <2>7, <2>8 DEF IndInv
<1>2. IndInv /\ [Next]_vars => IndInv'
  <2> SUFFICES ASSUME IndInv, [Next]_vars PROVE IndInv'
    OBVIOUS
  <2>1. CASE Next
    BY <2>1, TypeStep, SendersStep, AnswersStep, BoundsStep DEF IndInv
  <2>2. CASE UNCHANGED vars
    BY <2>2 DEF IndInv, vars, tables, calls, sender, TypeOK, Senders, Answers, DeliveredIsAcked,
                Counts, Known, Outstanding, GivenUpAfterMax, AttemptsBounded
  <2> QED BY <2>1, <2>2
<1> QED BY <1>1, <1>2, PTL DEF Spec

\* Every variable keeps its type, whatever fails and however often the service dies.
THEOREM WebhookTypes == Spec => []TypeOK
<1>1. IndInv => TypeOK BY DEF IndInv
<1> QED BY <1>1, InvariantHolds, PTL

\* attemptDelivery gives an event up only after maxAttempts recorded attempts,
\* although the sweep counts from an attempt_count that may be out of date.
THEOREM GivenUpOnlyAfterMax == Spec => []GivenUpAfterMax
<1>1. IndInv => GivenUpAfterMax BY DEF IndInv
<1> QED BY <1>1, InvariantHolds, PTL

\* However handler and sweep race for a row, and whatever crashes lose, a
\* delivery gets no more than two attempts beyond maxAttempts.
THEOREM AttemptsAreBounded == Spec => []AttemptsBounded
<1>1. IndInv => AttemptsBounded BY DEF IndInv
<1> QED BY <1>1, InvariantHolds, PTL

\* A row reads DELIVERED only if the customer has answered that event with 2xx.
THEOREM DeliveredWasAcked == Spec => []DeliveredIsAcked
<1>1. IndInv => DeliveredIsAcked BY DEF IndInv, Answers
<1> QED BY <1>1, InvariantHolds, PTL

\* No row disappears.
LEMMA RowsStay ==
  ASSUME IndInv, Next, NEW d \in Deliveries, row[d] # "ABSENT" PROVE row'[d] # "ABSENT"
<1>1. TypeOK /\ Senders BY DEF IndInv
<1>2. ASSUME NEW v \in Events, NEW w \in Endpoints, CreateDelivery(v, w) PROVE row'[d] # "ABSENT"
  BY <1>1, <1>2 DEF CreateDelivery, TypeOK
<1>3. ASSUME NEW a \in Actors, NEW s \in {"DELIVERED", "FAILED", "PENDING"}, Mark(a, s)
      PROVE  row'[d] # "ABSENT"
  BY <1>1, <1>3 DEF Mark, TypeOK
<1>4. ASSUME NEW a \in Actors, AttemptNext(a) PROVE row'[d] # "ABSENT"
  BY <1>3, <1>4 DEF AttemptNext, UrlRefused, EndpointAccepts, EndpointFails, Outcome,
     MarkDeliverySuccess, MarkDeliveryPermanentlyFailed, MarkDeliveryFailedAndReschedule, MarkFails,
     tables
<1> QED BY <1>2, <1>4 DEF Next, DispatchNext, SweepNext, CreateWebhookEndpoint, LoadEndpoints,
       FinishDispatch, CreateFails, LoadFails, HangUp, ReadDue, ResendDue, CrashAndRestart, tables

\* Every step of the loop leaves a row behind.
LEMMA LoopStep ==
  ASSUME IndInv, LoopServes, Next, "error" \notin Env PROVE LoopServes'
<1>1. TypeOK BY DEF IndInv
<1>2. \A v \in Events, w \in Endpoints : <<v, w>> \in Deliveries BY DEF Deliveries
<1>3. \A v \in Events, w \in Endpoints : row[<<v, w>>] # "ABSENT" => row'[<<v, w>>] # "ABSENT"
  BY <1>2, RowsStay
<1>4. \A v \in Events : endpoints[v] \subseteq Endpoints BY <1>1 DEF TypeOK
<1>5. ASSUME UNCHANGED calls PROVE LoopServes'
  BY <1>3, <1>4, <1>5 DEF LoopServes, calls
<1>6. ASSUME NEW v \in Events, DispatchNext(v) \/ LoadFails(v) \/ HangUp(v) PROVE LoopServes'
  <2>1. CASE LoadEndpoints(v)
    BY <1>1, <2>1 DEF LoadEndpoints, LoopServes, TypeOK, tables
  <2>2. CASE FinishDispatch(v)
    BY <1>1, <2>2 DEF FinishDispatch, LoopServes, TypeOK, tables
  <2>3. ASSUME NEW w \in Endpoints, CreateDelivery(v, w) PROVE LoopServes'
    <3>1. /\ UNCHANGED <<call, hung, endpoints>> /\ todo' = [todo EXCEPT ![v] = @ \ {w}]
          /\ row'[<<v, w>>] # "ABSENT"
      BY <1>1, <1>2, <2>3 DEF CreateDelivery, TypeOK
    <3>2. ASSUME NEW u \in Events, NEW x \in endpoints[u], call[u] = "loop", x \in todo[u],
                 x \notin todo'[u]
          PROVE  row'[<<u, x>>] # "ABSENT"
      BY <1>1, <3>1, <3>2 DEF TypeOK
    <3> QED BY <1>3, <1>4, <3>1, <3>2 DEF LoopServes
  <2>4. ASSUME NEW w \in Endpoints, CreateFails(v, w) PROVE LoopServes'
    BY <1>1, <2>4 DEF CreateFails, LoopServes, TypeOK, tables
  <2>5. CASE LoadFails(v) BY <1>1, <2>5 DEF LoadFails, LoopServes, TypeOK, tables
  <2>6. CASE HangUp(v) BY <1>1, <2>6 DEF HangUp, LoopServes, TypeOK, tables
  <2> QED BY <1>6, <2>1, <2>2, <2>3, <2>4, <2>5, <2>6 DEF DispatchNext
<1>7. ASSUME NEW a \in Actors, AttemptNext(a) PROVE LoopServes'
  BY <1>5, <1>7 DEF AttemptNext, UrlRefused, EndpointAccepts, EndpointFails, Outcome,
     MarkDeliverySuccess, MarkDeliveryPermanentlyFailed, MarkDeliveryFailedAndReschedule, Mark,
     MarkFails
<1>8. CASE SweepNext \/ \E w \in Endpoints : CreateWebhookEndpoint(w)
  BY <1>5, <1>8 DEF SweepNext, ReadDue, ResendDue, CreateWebhookEndpoint
<1>9. CASE CrashAndRestart
  BY <1>1, <1>9 DEF CrashAndRestart, LoopServes, TypeOK, tables
<1> QED BY <1>6, <1>7, <1>8, <1>9 DEF Next

\* A handler that has answered a caller that waited has made a delivery for every
\* endpoint it loaded, whatever the endpoints answer, whatever the sweep does to its
\* rows and however often the service dies; a statement that fails is the exception.
THEOREM EveryEndpointIsServed ==
  ASSUME "error" \notin Env PROVE Spec => []ServedUnlessHungUp
<1>1. Init => LoopServes BY DEF Init, LoopServes
<1>2. IndInv /\ LoopServes /\ [Next]_vars => LoopServes'
  <2>1. ASSUME LoopServes, UNCHANGED vars PROVE LoopServes'
    BY <2>1 DEF vars, tables, calls, LoopServes
  <2> QED BY <2>1, LoopStep
<1>3. LoopServes => ServedUnlessHungUp BY DEF LoopServes, ServedUnlessHungUp
<1> QED BY <1>1, <1>2, <1>3, InvariantHolds, PTL DEF Spec
=============================================================================
