----------------------------- MODULE Webhooks -----------------------------
(***************************************************************************)
(* Delivery of events to customers' endpoints by the usage & webhooks      *)
(* service: the dispatch handler that operations' notifier calls, the      *)
(* table webhook_deliveries, and the sweep that sends pending deliveries   *)
(* again every ten seconds.                                                *)
(*                                                                         *)
(* Two actors send: the handler of an event, one endpoint after the other, *)
(* and the sweep.  Nothing keeps them from working on the same row, and    *)
(* none of the statements that record an outcome is guarded.               *)
(*                                                                         *)
(* A delivery is named by its event and its endpoint: a handler inserts at *)
(* most one row for each endpoint it loaded.                               *)
(***************************************************************************)
EXTENDS Integers, FiniteSets

CONSTANTS Events,       \* calls of POST /internal/webhooks/dispatch
          Endpoints,    \* rows webhook_endpoints may get
          BadUrls,      \* those of them whose url http.NewRequest refuses
          Tenants,
          Sweep,        \* the goroutine of retryLoop
          MaxAttempts,  \* maxAttempts, the literal 5 of attemptDelivery
          Batch,        \* the literal 50 of RetryDue
          Env,          \* what may happen besides normal operation
          MaxCrashes    \* bound: how often the service dies

\* "hangup": the notifier's client gives up after 3 s, which cancels the context
\*           of the handler;
\* "error":  a Postgres statement fails
ASSUME WebhookEnvAssumption == Env \subseteq {"hangup", "error"}
ASSUME AttemptsAssumption == MaxAttempts \in Nat \ {0} /\ Batch \in Nat \ {0} /\ MaxCrashes \in Nat
ASSUME SweepAssumption == Sweep \notin Events
ASSUME DeliveriesAssumption == Events # {} /\ Endpoints # {}

Deliveries == Events \X Endpoints
Actors == Events \cup {Sweep}

VARIABLES
  owner, registered,   \* table webhook_endpoints: tenant_id, the rows there are
  row, attemptCount,   \* table webhook_deliveries: status, attempt_count
  subject,             \* tenant_id of an event
  call, hung,          \* Dispatch: where it is, whether its context is cancelled
  endpoints, todo,     \* its slice of endpoints, those the loop has not reached
  due,                 \* rows RetryDue has read and not yet sent again
  step, job, attempt,  \* attemptDelivery of each actor: where it is, its arguments
  acked,               \* deliveries the customer has answered with 2xx
  crashes

tables == <<owner, registered, row, attemptCount>>
calls  == <<subject, call, hung, endpoints, todo>>
sender == <<step, job, attempt>>
vars   == <<tables, calls, due, sender, acked, crashes>>

Init ==
  /\ owner \in [Endpoints -> Tenants] /\ registered = {}
  /\ row = [d \in Deliveries |-> "ABSENT"]
  /\ attemptCount = [d \in Deliveries |-> 0]
  /\ subject \in [Events -> Tenants]
  /\ call = [v \in Events |-> "new"]
  /\ hung = [v \in Events |-> FALSE]
  /\ endpoints = [v \in Events |-> {}] /\ todo = [v \in Events |-> {}]
  /\ due = {}
  /\ step = [a \in Actors |-> "idle"]
  /\ job = [a \in Actors |-> CHOOSE d \in Deliveries : TRUE]
  /\ attempt = [a \in Actors |-> 0]
  /\ acked = {}
  /\ crashes = 0

-----------------------------------------------------------------------------
(* The endpoints table, and Dispatch                                         *)

CreateWebhookEndpoint(w) ==
  /\ w \notin registered
  /\ registered' = registered \cup {w}
  /\ UNCHANGED <<owner, row, attemptCount, calls, due, sender, acked, crashes>>

\* No code deactivates an endpoint: the active ones are the registered ones.
ActiveWebhooksForTenant(t) == {w \in registered : owner[w] = t}

LoadEndpoints(v) ==
  /\ call[v] = "new"
  /\ call' = [call EXCEPT ![v] = "loop"]
  /\ endpoints' = [endpoints EXCEPT ![v] = ActiveWebhooksForTenant(subject[v])]
  /\ todo' = [todo EXCEPT ![v] = ActiveWebhooksForTenant(subject[v])]
  /\ UNCHANGED <<tables, subject, hung, due, sender, acked, crashes>>

\* The query fails, or the service is down when it is called, or its caller has
\* already hung up; the call is not repeated.
LoadFails(v) ==
  /\ Env # {} \/ MaxCrashes > 0
  /\ call[v] = "new"
  /\ call' = [call EXCEPT ![v] = "failed"]
  /\ UNCHANGED <<tables, subject, hung, endpoints, todo, due, sender, acked, crashes>>

\* attemptDelivery is called for delivery d as attempt number n.
Attempt(a, d, n) ==
  /\ step[a] = "idle"
  /\ step' = [step EXCEPT ![a] = "send"]
  /\ job' = [job EXCEPT ![a] = d]
  /\ attempt' = [attempt EXCEPT ![a] = n]

\* The loop body: INSERT (status PENDING, due at once), then the first attempt.
CreateDelivery(v, w) ==
  /\ call[v] = "loop" /\ w \in todo[v] /\ ~hung[v]
  /\ row' = [row EXCEPT ![<<v, w>>] = "PENDING"]
  /\ Attempt(v, <<v, w>>, 1)
  /\ todo' = [todo EXCEPT ![v] = @ \ {w}]
  /\ UNCHANGED <<owner, registered, attemptCount, subject, call, hung, endpoints,
                 due, acked, crashes>>

\* The INSERT fails, as it always does in a cancelled context: next endpoint.
CreateFails(v, w) ==
  /\ "error" \in Env \/ hung[v]
  /\ call[v] = "loop" /\ w \in todo[v] /\ step[v] = "idle"
  /\ todo' = [todo EXCEPT ![v] = @ \ {w}]
  /\ UNCHANGED <<tables, subject, call, hung, endpoints, due, sender, acked, crashes>>

FinishDispatch(v) ==
  /\ call[v] = "loop" /\ todo[v] = {} /\ step[v] = "idle"
  /\ call' = [call EXCEPT ![v] = "done"]
  /\ UNCHANGED <<tables, subject, hung, endpoints, todo, due, sender, acked, crashes>>

HangUp(v) ==
  /\ "hangup" \in Env
  /\ call[v] = "loop" /\ ~hung[v]
  /\ hung' = [hung EXCEPT ![v] = TRUE]
  /\ UNCHANGED <<tables, subject, call, endpoints, todo, due, sender, acked, crashes>>

-----------------------------------------------------------------------------
(* RetryDue                                                                  *)

Item == [delivery : Deliveries, count : Nat]

\* The query: pending rows whose next_attempt_at has passed, with the
\* attempt_count they have now.  Which ones are due is up to the clock; a row is
\* due from its INSERT on, and again some time after a failed attempt.
ReadDue(S) ==
  /\ due = {} /\ step[Sweep] = "idle"
  /\ S # {} /\ Cardinality(S) <= Batch
  /\ \A d \in S : row[d] = "PENDING"
  /\ due' = {[delivery |-> d, count |-> attemptCount[d]] : d \in S}
  /\ UNCHANGED <<tables, calls, sender, acked, crashes>>

\* Mutant of ResendDue: the first retry counts as the second.
ResendCountedTwice(i) ==
  /\ i \in due
  /\ Attempt(Sweep, i.delivery, i.count + 2)
  /\ due' = due \ {i}
  /\ UNCHANGED <<tables, calls, acked, crashes>>

\* The loop body: the row is not looked at again.
ResendDue(i) ==
  /\ i \in due
  /\ Attempt(Sweep, i.delivery, i.count + 1)
  /\ due' = due \ {i}
  /\ UNCHANGED <<tables, calls, acked, crashes>>

-----------------------------------------------------------------------------
(* attemptDelivery                                                           *)

\* The sweep runs in the background context, a handler in its caller's.
ContextLives(a) == a \in Events => ~hung[a]

Outcome(a, s) == /\ step[a] = "send"
                 /\ step' = [step EXCEPT ![a] = s]
                 /\ UNCHANGED <<tables, calls, due, job, attempt, crashes>>

UrlRefused(a) ==
  /\ job[a][2] \in BadUrls
  /\ Outcome(a, "rejected")
  /\ UNCHANGED acked

EndpointAccepts(a) ==
  /\ job[a][2] \notin BadUrls /\ ContextLives(a)
  /\ Outcome(a, "ok")
  /\ acked' = acked \cup {job[a]}

\* Another status, no connection, or no answer within 5 s or before the context
\* is cancelled, in which case the customer may have accepted the event.
EndpointFails(a) ==
  /\ job[a][2] \notin BadUrls
  /\ Outcome(a, "failed")
  /\ acked' \in {acked, acked \cup {job[a]}}

\* An UPDATE of the delivery: its status, and attempt_count + 1.
Mark(a, s) == /\ ContextLives(a)
              /\ step' = [step EXCEPT ![a] = "idle"]
              /\ row' = [row EXCEPT ![job[a]] = s]
              /\ attemptCount' = [attemptCount EXCEPT ![job[a]] = @ + 1]
              /\ UNCHANGED <<owner, registered, calls, due, job, attempt, acked, crashes>>

\* Mutant of MarkDeliverySuccess: any answer is a success.
MarkAnyAnswer(a) == step[a] \in {"ok", "failed"} /\ Mark(a, "DELIVERED")

\* Mutant of MarkDeliverySuccess: it writes the status of an operation.
MarkSucceeded(a) == step[a] = "ok" /\ Mark(a, "SUCCEEDED")

MarkDeliverySuccess(a) == step[a] = "ok" /\ Mark(a, "DELIVERED")

\* Mutant of Exhausted: one attempt too many.
ExhaustedLate(a) == attempt[a] > MaxAttempts

Exhausted(a) == attempt[a] >= MaxAttempts

MarkDeliveryPermanentlyFailed(a) ==
  /\ step[a] = "rejected" \/ (step[a] = "failed" /\ Exhausted(a))
  /\ Mark(a, "FAILED")

\* Mutant of MarkDeliveryFailedAndReschedule: the attempt is not counted.
RescheduleUncounted(a) ==
  /\ step[a] = "failed" /\ ~Exhausted(a)
  /\ ContextLives(a)
  /\ step' = [step EXCEPT ![a] = "idle"]
  /\ row' = [row EXCEPT ![job[a]] = "PENDING"]
  /\ UNCHANGED <<owner, registered, attemptCount, calls, due, job, attempt, acked, crashes>>

\* Mutant of MarkDeliveryFailedAndReschedule: the failure ends the handler.
RescheduleAndReturn(a) ==
  /\ step[a] = "failed" /\ ~Exhausted(a)
  /\ ContextLives(a)
  /\ step' = [step EXCEPT ![a] = "idle"]
  /\ row' = [row EXCEPT ![job[a]] = "PENDING"]
  /\ attemptCount' = [attemptCount EXCEPT ![job[a]] = @ + 1]
  /\ call' = IF a = Sweep THEN call ELSE [call EXCEPT ![a] = "done"]
  /\ UNCHANGED <<owner, registered, subject, hung, endpoints, todo, due, job, attempt,
                 acked, crashes>>

MarkDeliveryFailedAndReschedule(a) ==
  /\ step[a] = "failed" /\ ~Exhausted(a)
  /\ Mark(a, "PENDING")

\* The UPDATE fails, as it always does in a cancelled context; nobody notices.
MarkFails(a) ==
  /\ "error" \in Env \/ ~ContextLives(a)
  /\ step[a] \in {"ok", "failed", "rejected"}
  /\ step' = [step EXCEPT ![a] = "idle"]
  /\ UNCHANGED <<tables, calls, due, job, attempt, acked, crashes>>

-----------------------------------------------------------------------------
\* The service dies and is started again: what it had in memory is gone.
CrashAndRestart ==
  /\ crashes < MaxCrashes
  /\ crashes' = crashes + 1
  /\ call' = [v \in Events |-> IF call[v] = "loop" THEN "failed" ELSE call[v]]
  /\ todo' = [v \in Events |-> {}]
  /\ step' = [a \in Actors |-> "idle"]
  /\ due' = {}
  /\ UNCHANGED <<tables, subject, hung, endpoints, job, attempt, acked>>

DispatchNext(v) == \/ LoadEndpoints(v) \/ FinishDispatch(v)
                   \/ \E w \in Endpoints : CreateDelivery(v, w) \/ CreateFails(v, w)

AttemptNext(a) == \/ UrlRefused(a) \/ EndpointAccepts(a) \/ EndpointFails(a)
                  \/ MarkDeliverySuccess(a) \/ MarkDeliveryPermanentlyFailed(a)
                  \/ MarkDeliveryFailedAndReschedule(a) \/ MarkFails(a)

SweepNext == \/ \E S \in SUBSET Deliveries : ReadDue(S)
             \/ \E i \in due : ResendDue(i)

Next == \/ \E w \in Endpoints : CreateWebhookEndpoint(w)
        \/ \E v \in Events : DispatchNext(v) \/ LoadFails(v) \/ HangUp(v)
        \/ \E a \in Actors : AttemptNext(a)
        \/ SweepNext
        \/ CrashAndRestart

Spec == Init /\ [][Next]_vars

\* Handlers and sends run to their end (the client has a timeout), a sweep goes
\* through what it read, and a row that stays pending is read in the end: the
\* query takes the rows that are due longest, and a failed one goes behind them.
Fairness == /\ \A v \in Events : WF_vars(call[v] # "new" /\ DispatchNext(v))
            /\ \A a \in Actors : WF_vars(AttemptNext(a))
            /\ WF_vars(\E i \in due : ResendDue(i))
            /\ \A d \in Deliveries : SF_vars(\E S \in SUBSET Deliveries : d \in S /\ ReadDue(S))

FairSpec == Spec /\ Fairness
=============================================================================
