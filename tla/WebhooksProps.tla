--------------------------- MODULE WebhooksProps ---------------------------
(***************************************************************************)
(* What is checked and proved of Webhooks.                                 *)
(***************************************************************************)
EXTENDS Webhooks

\* Types of all variables.
TypeOK ==
  /\ owner \in [Endpoints -> Tenants] /\ registered \subseteq Endpoints
  /\ row \in [Deliveries -> {"ABSENT", "PENDING", "DELIVERED", "FAILED"}]
  /\ attemptCount \in [Deliveries -> Nat]
  /\ subject \in [Events -> Tenants]
  /\ call \in [Events -> {"new", "loop", "done", "failed"}]
  /\ hung \in [Events -> BOOLEAN]
  /\ endpoints \in [Events -> SUBSET Endpoints] /\ todo \in [Events -> SUBSET Endpoints]
  /\ due \subseteq Item
  /\ step \in [Actors -> {"idle", "send", "ok", "failed", "rejected"}]
  /\ job \in [Actors -> Deliveries]
  /\ attempt \in [Actors -> Nat]
  /\ acked \subseteq Deliveries
  /\ crashes \in 0..MaxCrashes

\* An event is given up only after maxAttempts recorded attempts, although the
\* sweep decides on an attempt_count it read before the handler's, or its own,
\* last outcome was recorded (a url that cannot be requested excepted).
GivenUpAfterMax ==
  \A d \in Deliveries : row[d] = "FAILED" => attemptCount[d] >= MaxAttempts \/ d[2] \in BadUrls

\* A delivery gets at most two attempts more than maxAttempts: the handler's
\* first one, when it ends after the sweep has given up, and the one it leads to.
AttemptsBounded == \A d \in Deliveries : attemptCount[d] <= MaxAttempts + 2

\* DELIVERED is only recorded of an event the customer has accepted, whoever
\* records it and however late.
DeliveredIsAcked == \A d \in Deliveries : row[d] = "DELIVERED" => d \in acked

\* A handler that has answered a caller that waited has made a delivery for every
\* endpoint it loaded: "Dispatch attempts delivery to every active webhook endpoint
\* for the tenant" (dispatcher/webhook.go).  Neither what an endpoint answers nor
\* what the sweep or a restart does makes it skip another endpoint.
ServedUnlessHungUp ==
  \A v \in Events :
    call[v] = "done" /\ ~hung[v] => \A w \in endpoints[v] : row[<<v, w>>] # "ABSENT"

\* Every delivery that is recorded is settled in the end and for good, although
\* handlers are cut off, the service restarts, and a settled row may become
\* pending again.
EveryDeliverySettles ==
  \A d \in Deliveries : row[d] = "PENDING" ~> [](row[d] \in {"DELIVERED", "FAILED"})

-----------------------------------------------------------------------------
(* The inductive invariant behind the bounds                                 *)

\* Who is sending what: a handler its own event's deliveries, each for the first
\* time; the sweep rows that are there, each in one place.
Senders ==
  /\ \A v \in Events :
       /\ step[v] # "idle" => /\ job[v][1] = v /\ attempt[v] = 1
                              /\ row[job[v]] # "ABSENT"
       /\ \A w \in Endpoints : w \in todo[v] \/ call[v] = "new" => row[<<v, w>>] = "ABSENT"
       /\ call[v] = "new" => step[v] = "idle"
  /\ \A i \in due : row[i.delivery] # "ABSENT"
  /\ \A i, j \in due : i.delivery = j.delivery => i = j
  /\ step[Sweep] # "idle" => /\ attempt[Sweep] >= 1 /\ row[job[Sweep]] # "ABSENT"
                             /\ \A i \in due : i.delivery # job[Sweep]

\* What a send came to.
Answers ==
  /\ \A a \in Actors : /\ step[a] = "ok" => job[a] \in acked
                       /\ step[a] = "rejected" => job[a][2] \in BadUrls
  /\ DeliveredIsAcked

\* The handler's outcome of delivery d is still to be recorded.
Outstanding(d) == \/ row[d] = "ABSENT"
                  \/ step[d[1]] # "idle" /\ job[d[1]] = d

\* What the sweep knows of delivery d when it holds it with attempt_count c: c is
\* current, except that the handler may have recorded its outcome since.
Known(d, c) ==
  IF Outstanding(d) THEN c = attemptCount[d] /\ row[d] = "PENDING"
  ELSE \/ c = attemptCount[d] /\ c <= MaxAttempts + 1
       \/ c + 1 = attemptCount[d] /\ c < MaxAttempts

Counts ==
  /\ \A d \in Deliveries :
       /\ row[d] = "ABSENT" => attemptCount[d] = 0
       /\ Outstanding(d) => /\ attemptCount[d] <= MaxAttempts
                            /\ row[d] = "PENDING" => attemptCount[d] < MaxAttempts
       /\ row[d] = "PENDING" => attemptCount[d] <= MaxAttempts + 1
  /\ \A i \in due : Known(i.delivery, i.count)
  /\ step[Sweep] # "idle" => Known(job[Sweep], attempt[Sweep] - 1)

\* The inductive invariant: the bounds hold because at most one recorded outcome,
\* the handler's, can come between the sweep's read and its write.
IndInv == TypeOK /\ Senders /\ Answers /\ Counts /\ GivenUpAfterMax /\ AttemptsBounded

\* Behind ServedUnlessHungUp, as long as no statement fails: a handler whose caller
\* waits has a row for every endpoint its loop has left behind.
LoopServes ==
  \A v \in Events : call[v] \in {"loop", "done"} /\ ~hung[v] =>
    \A w \in endpoints[v] : \/ call[v] = "loop" /\ w \in todo[v]
                            \/ row[<<v, w>>] # "ABSENT"
=============================================================================
