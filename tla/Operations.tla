---------------------------- MODULE Operations ----------------------------
(***************************************************************************)
(* The life of an operation: the operations service (its HTTP handlers,    *)
(* its Postgres repository, its retry scheduler and its notifier), the two *)
(* Redis queues, and the workers that run the attempts.                    *)
(*                                                                         *)
(* One step is one statement that other actors can see: a Postgres         *)
(* statement or transaction, a Redis command or MULTI, an HTTP request     *)
(* being received or answered.  Between two of them every other actor may  *)
(* move.                                                                   *)
(*                                                                         *)
(* Identities.  An operation is named by the create call that inserts its  *)
(* row.  An "exec" is one activation of the worker's process_job; the      *)
(* attempt row it inserts, and the reports it sends, are named by it.      *)
(***************************************************************************)
EXTENDS Integers, Sequences, FiniteSets

CONSTANTS Requests,    \* calls of POST /v1/operations, and so operation ids
          Execs,       \* activations of process_job, numbered from 1
          Replicas,    \* number of worker processes
          Tenants, Keys,
          NoKey,       \* no Idempotency-Key header
          MaxRetries,  \* the literal 3 of createOperation
          Env          \* what may happen besides normal operation

\* "cancel":  the customer cancels
\* "error":   a Postgres or Redis statement fails, or its handler dies; an HTTP
\*            request is answered with an error or never arrives
\* "timeout": the worker's HTTP client sees an error although the handler goes on or
\*            is done: 10 s are over, the connection or the answer is lost
\* "crash":   a worker process dies and is started again
\* "input":   the stored input is a JSON string that is not itself JSON
ASSUME EnvAssumption == Env \subseteq {"cancel", "error", "timeout", "crash", "input"}
ASSUME RequestsAssumption == Requests # {}
ASSUME ExecsAssumption == Execs \subseteq Nat \ {0}
ASSUME RetriesAssumption == MaxRetries \in Nat \ {0}
ASSUME ReplicasAssumption == Replicas \in Nat
ASSUME KeyAssumption == NoKey \notin Keys

VARIABLES
  status, attemptCount,            \* table operations
  result,                          \* operation_attempts.success, per exec
  usage,                           \* table usage_events: the operations in it
  mainQ, delayed, conc,            \* Redis: list, sorted set, counters
  due,                             \* members read by PromoteDueRetries
  call, tenant, key, returned,     \* createOperation: where it is, its input,
                                   \*   the operation it answers with
  idle,                            \* worker processes blocked in BRPOP
  pc, op, number, category,        \* process_job: where it is, its locals
  start,                           \* the startAttempt handler of an exec
  report, snap,                    \* its completeAttempt handlers, the
                                   \*   attempt_count the failing one read
  note                             \* the notifier goroutine of a report

postgres == <<status, attemptCount, result, usage>>
redis    == <<mainQ, delayed, conc>>
creates  == <<call, tenant, key, returned>>
workers  == <<idle, pc, op, number, category>>
handlers == <<start, report, snap>>
vars     == <<postgres, redis, due, creates, workers, handlers, note>>

Kinds == {"success", "failure"}   \* the two bodies of attempts/complete

\* A job envelope.  Only operation_id is ever read back; `from`, the exec whose
\* failure scheduled it (0: createOperation), stands for enqueued_at, which
\* makes two envelopes different members of the sorted set.
Job == [op : Requests, from : Execs \cup {0}]

Statuses == {"ABSENT", "PENDING", "QUEUED", "RUNNING", "RETRYING",
             "SUCCEEDED", "FAILED", "DEAD_LETTERED", "CANCELLED"}

Init ==
  /\ status = [r \in Requests |-> "ABSENT"]
  /\ attemptCount = [r \in Requests |-> 0]
  /\ result = [e \in Execs |-> "none"]
  /\ usage = {}
  /\ mainQ = <<>> /\ delayed = {} /\ due = {}
  /\ conc = [t \in Tenants |-> 0]
  /\ call = [r \in Requests |-> "new"]
  /\ tenant \in [Requests -> Tenants]
  /\ key \in [Requests -> Keys \cup {NoKey}]
  /\ returned = [r \in Requests |-> r]
  /\ idle = Replicas
  /\ pc = [e \in Execs |-> "unused"]
  /\ op = [e \in Execs |-> CHOOSE r \in Requests : TRUE]
  /\ number = [e \in Execs |-> 0]
  /\ category = [e \in Execs |-> "none"]
  /\ start = [e \in Execs |-> "none"]
  /\ report = [k \in Kinds |-> [e \in Execs |-> "none"]]
  /\ snap = [e \in Execs |-> 0]
  /\ note = [k \in Kinds |-> [e \in Execs |-> "none"]]

-----------------------------------------------------------------------------
(* createOperation and cancelOperation                                       *)

\* The rows with r's (tenant_id, idempotency_key): what getByIdempotencyKey
\* selects and what the partial unique index refuses to duplicate.
Matching(r) ==
  {o \in Requests : /\ status[o] # "ABSENT"
                    /\ tenant[o] = tenant[r]
                    /\ key[o] = key[r] /\ key[r] # NoKey}

Answer(r, from, to) == /\ call[r] = from
                       /\ call' = [call EXCEPT ![r] = to]

\* getByIdempotencyKey finds a row: in the lookup that precedes the INSERT
\* (skipped without a key), or in the refetch that follows its error 23505.
ReplayExisting(r, from) ==
  /\ \E o \in Matching(r) : returned' = [returned EXCEPT ![r] = o]
  /\ Answer(r, from, "replayed")
  /\ UNCHANGED <<postgres, redis, due, tenant, key, workers, handlers, note>>

LookupMisses(r) ==
  /\ Matching(r) = {}
  /\ Answer(r, "new", "insert")
  /\ UNCHANGED <<postgres, redis, due, tenant, key, returned, workers, handlers, note>>

\* Mutant of InsertOperation: no unique index behind the lookup.
InsertUnchecked(r) ==
  /\ Answer(r, "insert", "enqueue")
  /\ status' = [status EXCEPT ![r] = "PENDING"]
  /\ UNCHANGED <<attemptCount, result, usage, tenant, key, returned, redis, due,
                 workers, handlers, note>>

InsertOperation(r) ==
  /\ Matching(r) = {}
  /\ Answer(r, "insert", "enqueue")
  /\ status' = [status EXCEPT ![r] = "PENDING"]
  /\ UNCHANGED <<attemptCount, result, usage, tenant, key, returned, redis, due,
                 workers, handlers, note>>

\* Another call's INSERT came between the lookup and this one's: error 23505.
InsertConflicts(r) ==
  /\ Matching(r) # {}
  /\ Answer(r, "insert", "refetch")
  /\ UNCHANGED <<postgres, tenant, key, returned, redis, due, workers, handlers, note>>

Enqueue(r) ==
  /\ Answer(r, "enqueue", "mark")
  /\ mainQ' = Append(mainQ, [op |-> r, from |-> 0])
  /\ UNCHANGED <<postgres, delayed, conc, due, tenant, key, returned,
                 workers, handlers, note>>

\* Mutant of TransitionToQueued: UPDATE without "AND status = 'PENDING'".
QueuedUnguarded(r) ==
  /\ Answer(r, "mark", "accepted")
  /\ status' = [status EXCEPT ![r] = "QUEUED"]
  /\ UNCHANGED <<attemptCount, result, usage, redis, due, tenant, key, returned,
                 workers, handlers, note>>

TransitionToQueued(r) ==
  /\ Answer(r, "mark", "accepted")
  /\ status' = [status EXCEPT ![r] = IF @ = "PENDING" THEN "QUEUED" ELSE @]
  /\ UNCHANGED <<attemptCount, result, usage, redis, due, tenant, key, returned,
                 workers, handlers, note>>

\* A statement of createOperation fails, or its caller hangs up and cancels its
\* context; what it did before stays done.
CreateFails(r) ==
  /\ "error" \in Env
  /\ \E from \in {"new", "insert", "refetch", "enqueue", "mark"} : Answer(r, from, "failed")
  /\ UNCHANGED <<postgres, redis, due, tenant, key, returned, workers, handlers, note>>

NotCancellable == {"ABSENT", "SUCCEEDED", "FAILED", "DEAD_LETTERED", "CANCELLED"}

\* CancelOperation: one UPDATE, scoped to the caller's tenant t.
CancelOperation(t, o) ==
  /\ "cancel" \in Env
  /\ tenant[o] = t
  /\ status[o] \notin NotCancellable
  /\ status' = [status EXCEPT ![o] = "CANCELLED"]
  /\ UNCHANGED <<attemptCount, result, usage, redis, due, creates, workers, handlers, note>>

-----------------------------------------------------------------------------
(* The retry scheduler: PromoteDueRetries once a second                      *)

\* Mutant of ReadDue: the jobs are taken out of the set before they are pushed.
ReadAndRemoveDue ==
  /\ due = {}
  /\ due' \in (SUBSET delayed) \ {{}}
  /\ delayed' = delayed \ due'
  /\ UNCHANGED <<postgres, mainQ, conc, creates, workers, handlers, note>>

\* ZRANGEBYSCORE: some delayed jobs are due.  Which ones is up to the backoff
\* delays; each of them becomes due in the end.
ReadDue ==
  /\ due = {}
  /\ due' \in (SUBSET delayed) \ {{}}
  /\ UNCHANGED <<postgres, redis, creates, workers, handlers, note>>

Orders(S) == {s \in [1..Cardinality(S) -> S] :
                \A i, j \in 1..Cardinality(S) : s[i] = s[j] => i = j}

\* Mutant of PromoteDue: the jobs are pushed and never removed from the set.
PromoteWithoutZRem ==
  /\ due # {}
  /\ \E s \in Orders(due) : mainQ' = mainQ \o s
  /\ due' = {}
  /\ UNCHANGED <<postgres, delayed, conc, creates, workers, handlers, note>>

\* The MULTI: LPUSH and ZREM of every member read, in score order.
PromoteDue ==
  /\ due # {}
  /\ \E s \in Orders(due) : mainQ' = mainQ \o s
  /\ delayed' = delayed \ due
  /\ due' = {}
  /\ UNCHANGED <<postgres, conc, creates, workers, handlers, note>>

\* The MULTI fails: the jobs stay in the set for the next tick.
PromoteFails ==
  /\ "error" \in Env
  /\ due # {}
  /\ due' = {}
  /\ UNCHANGED <<postgres, redis, creates, workers, handlers, note>>

-----------------------------------------------------------------------------
(* process_job up to the provider call, and the startAttempt handler         *)

\* process_job returns and the worker goes back to BRPOP.
Return(e) == /\ pc' = [pc EXCEPT ![e] = "done"]
             /\ idle' = idle + 1

\* BRPOP.  The job is gone from Redis from here on.
PopJob(e) ==
  /\ idle > 0
  /\ mainQ # <<>>
  /\ pc[e] = "unused" /\ \A d \in Execs : d < e => pc[d] # "unused"
  /\ pc' = [pc EXCEPT ![e] = "fetch"]
  /\ op' = [op EXCEPT ![e] = Head(mainQ).op]
  /\ mainQ' = Tail(mainQ)
  /\ idle' = idle - 1
  /\ UNCHANGED <<postgres, delayed, conc, due, creates, number, category, handlers, note>>

\* Mutant of SkipStatuses: a finished operation is not recognised.
SkipStatusesShort == {"FAILED", "DEAD_LETTERED", "CANCELLED"}

\* The worker's own list of terminal statuses.
SkipStatuses == {"SUCCEEDED", "FAILED", "DEAD_LETTERED", "CANCELLED"}

\* ops.get_operation shows a terminal status: nothing more to do.
SkipTerminal(e) ==
  /\ pc[e] = "fetch"
  /\ status[op[e]] \in SkipStatuses
  /\ Return(e)
  /\ UNCHANGED <<postgres, redis, due, creates, op, number, category, handlers, note>>

\* It shows another one: the start request is sent, with the number computed
\* from the attempt_count just read.
FetchOperation(e) ==
  /\ pc[e] = "fetch"
  /\ status[op[e]] \notin SkipStatuses
  /\ number' = [number EXCEPT ![e] = attemptCount[op[e]] + 1]
  /\ pc' = [pc EXCEPT ![e] = "start"]
  /\ start' = [start EXCEPT ![e] = "sent"]
  /\ UNCHANGED <<postgres, redis, due, creates, idle, op, category, report, snap, note>>

\* get_operation raises: the job is dropped.
FetchRaises(e) ==
  /\ Env \cap {"error", "timeout"} # {}
  /\ pc[e] = "fetch"
  /\ Return(e)
  /\ UNCHANGED <<postgres, redis, due, creates, op, number, category, handlers, note>>

\* Mutant of StartAttempt: attempt_count is left alone.
StartAttemptUncounted(e) ==
  /\ start[e] = "sent"
  /\ start' = [start EXCEPT ![e] = "started"]
  /\ status' = [status EXCEPT ![op[e]] = "RUNNING"]
  /\ result' = [result EXCEPT ![e] = "null"]
  /\ UNCHANGED <<attemptCount, usage, redis, due, creates, workers, report, snap, note>>

\* The transaction of repository.StartAttempt.  Its UPDATE has no guard on the
\* status: whatever happened since the worker's read is overwritten.
StartAttempt(e) ==
  /\ start[e] = "sent"
  /\ start' = [start EXCEPT ![e] = "started"]
  /\ status' = [status EXCEPT ![op[e]] = "RUNNING"]
  /\ attemptCount' = [attemptCount EXCEPT ![op[e]] = number[e]]
  /\ result' = [result EXCEPT ![e] = "null"]
  /\ UNCHANGED <<usage, redis, due, creates, workers, report, snap, note>>

IncrConcurrency(e) ==
  /\ start[e] = "started"
  /\ start' = [start EXCEPT ![e] = "ok"]
  /\ conc' = [conc EXCEPT ![tenant[op[e]]] = @ + 1]
  /\ UNCHANGED <<postgres, mainQ, delayed, due, creates, workers, report, snap, note>>

\* The transaction fails (or its outcome is lost); or, once it has committed,
\* the best-effort increment fails and the answer is 200 all the same.  Either
\* is also what follows when the worker has hung up: the context is cancelled.
StartFails(e) ==
  /\ "error" \in Env \/ pc[e] # "start"
  /\ \/ start[e] \in {"sent", "started"} /\ start' = [start EXCEPT ![e] = "error"]
     \/ start[e] = "started" /\ start' = [start EXCEPT ![e] = "ok"]
  /\ UNCHANGED <<postgres, redis, due, creates, workers, report, snap, note>>

StartReturns(e) ==
  /\ pc[e] = "start" /\ start[e] = "ok"
  /\ pc' = [pc EXCEPT ![e] = "work"]
  /\ UNCHANGED <<postgres, redis, due, creates, idle, op, number, category, handlers, note>>

\* ops.start_attempt raises: the job is dropped, whatever the handler did or
\* will still do.
StartRaises(e) ==
  /\ pc[e] = "start" /\ (start[e] = "error" \/ "timeout" \in Env)
  /\ Return(e)
  /\ UNCHANGED <<postgres, redis, due, creates, op, number, category, handlers, note>>

-----------------------------------------------------------------------------
(* The provider call and the worker's side of the report                     *)

SendReport(e, k, where) ==
  /\ pc' = [pc EXCEPT ![e] = where]
  /\ report' = [report EXCEPT ![k][e] = "sent"]
  /\ UNCHANGED <<start, snap>>

\* process_with_fallback returns, and the success is reported.
WorkSucceeds(e) ==
  /\ pc[e] = "work"
  /\ SendReport(e, "success", "succeed")
  /\ UNCHANGED <<postgres, redis, due, creates, idle, op, number, category, note>>

\* It raises ProviderError of category c, or anything else ("transient").
WorkFails(e, c) ==
  /\ pc[e] = "work"
  /\ category' = [category EXCEPT ![e] = c]
  /\ SendReport(e, "failure", "fail")
  /\ UNCHANGED <<postgres, redis, due, creates, idle, op, number, note>>

\* json.loads of the input, outside the try block, raises: the process dies.  A
\* later attempt exists only if the first one got past this.
InputRaises(e) ==
  /\ "input" \in Env
  /\ pc[e] = "work" /\ number[e] = 1
  /\ pc' = [pc EXCEPT ![e] = "dead"]
  /\ UNCHANGED <<postgres, redis, due, creates, idle, op, number, category, handlers, note>>

ReportReturns(e) ==
  /\ \/ pc[e] = "succeed" /\ report["success"][e] = "ok"
     \/ pc[e] = "fail" /\ report["failure"][e] = "ok"
  /\ Return(e)
  /\ UNCHANGED <<postgres, redis, due, creates, op, number, category, handlers, note>>

\* complete_attempt_success raises inside the try block: the handler for
\* unexpected exceptions reports the same attempt as a transient failure.
SuccessRaises(e) ==
  /\ pc[e] = "succeed" /\ (report["success"][e] = "error" \/ "timeout" \in Env)
  /\ category' = [category EXCEPT ![e] = "transient"]
  /\ SendReport(e, "failure", "fail")
  /\ UNCHANGED <<postgres, redis, due, creates, idle, op, number, note>>

\* complete_attempt_failure raises inside an except block: nothing catches it
\* and the worker process ends.
FailureRaises(e) ==
  /\ pc[e] = "fail" /\ (report["failure"][e] = "error" \/ "timeout" \in Env)
  /\ pc' = [pc EXCEPT ![e] = "dead"]
  /\ UNCHANGED <<postgres, redis, due, creates, idle, op, number, category, handlers, note>>

Active == {"fetch", "start", "work", "succeed", "fail"}

\* A busy worker process dies (an idle one holds nothing).
Crash(e) ==
  /\ "crash" \in Env
  /\ pc[e] \in Active
  /\ pc' = [pc EXCEPT ![e] = "dead"]
  /\ UNCHANGED <<postgres, redis, due, creates, idle, op, number, category, handlers, note>>

Restart ==
  /\ "crash" \in Env
  /\ idle + Cardinality({e \in Execs : pc[e] \in Active}) < Replicas
  /\ idle' = idle + 1
  /\ UNCHANGED <<postgres, redis, due, creates, pc, op, number, category, handlers, note>>

-----------------------------------------------------------------------------
(* The completeAttempt handler                                               *)

InFlight == {"sent", "read", "clamp", "counted", "recorded"}

Advance(e, k, from, to) == /\ report[k][e] = from
                           /\ report' = [report EXCEPT ![k][e] = to]

\* GetOperationAnyTenant: attempt_count as it is now.
ReadOperation(e, k) ==
  /\ Advance(e, k, "sent", "read")
  /\ snap' = IF k = "failure" THEN [snap EXCEPT ![e] = attemptCount[op[e]]] ELSE snap
  /\ UNCHANGED <<postgres, redis, due, creates, workers, start, note>>

\* Mutant of DecrConcurrency: only a success gives the slot back.
DecrOnSuccess(e, k) ==
  /\ LET t == tenant[op[e]]
         v == conc[t] - 1
     IN /\ Advance(e, k, "read", IF v < 0 /\ k = "success" THEN "clamp" ELSE "counted")
        /\ conc' = IF k = "success" THEN [conc EXCEPT ![t] = v] ELSE conc
  /\ UNCHANGED <<postgres, mainQ, delayed, due, creates, workers, start, snap, note>>

\* DECR; a negative result leads to the SET, a second command.
DecrConcurrency(e, k) ==
  /\ LET t == tenant[op[e]]
         v == conc[t] - 1
     IN /\ Advance(e, k, "read", IF v < 0 THEN "clamp" ELSE "counted")
        /\ conc' = [conc EXCEPT ![t] = v]
  /\ UNCHANGED <<postgres, mainQ, delayed, due, creates, workers, start, snap, note>>

ClampConcurrency(e, k) ==
  /\ Advance(e, k, "clamp", "counted")
  /\ conc' = [conc EXCEPT ![tenant[op[e]]] = 0]
  /\ UNCHANGED <<postgres, mainQ, delayed, due, creates, workers, start, snap, note>>

\* DECR or SET fails: logged or ignored, and the handler goes on.
CounterFails(e, k) ==
  /\ "error" \in Env
  /\ \E from \in {"read", "clamp"} : Advance(e, k, from, "counted")
  /\ UNCHANGED <<postgres, redis, due, creates, workers, start, snap, note>>

\* Mutant of WillRetry: one attempt too many.
WillRetryAtMax(e) == category[e] = "transient" /\ snap[e] <= MaxRetries

WillRetry(e) == category[e] = "transient" /\ snap[e] < MaxRetries

\* Mutant of NextStatus: an operation that will be retried stays RUNNING.
NextStatusStays(e) == IF WillRetry(e) THEN "RUNNING"
                      ELSE IF category[e] = "permanent" THEN "FAILED" ELSE "DEAD_LETTERED"

NextStatus(e) == IF WillRetry(e) THEN "RETRYING"
                 ELSE IF category[e] = "permanent" THEN "FAILED" ELSE "DEAD_LETTERED"

\* UPDATE operations SET status = s WHERE id = o AND status = 'RUNNING'.
GuardedUpdate(o, s) == [status EXCEPT ![o] = IF @ = "RUNNING" THEN s ELSE @]

\* Mutant of CompleteAttemptSuccess: only the attempt is finalized.
CompleteAttemptOnly(e) ==
  /\ Advance(e, "success", "counted", "recorded")
  /\ result' = [result EXCEPT ![e] = "true"]
  /\ UNCHANGED <<status, attemptCount, usage, redis, due, creates, workers, start, snap, note>>

\* The transaction of CompleteAttemptSuccess.
CompleteAttemptSuccess(e) ==
  /\ Advance(e, "success", "counted", "recorded")
  /\ result' = [result EXCEPT ![e] = "true"]
  /\ status' = GuardedUpdate(op[e], "SUCCEEDED")
  /\ UNCHANGED <<attemptCount, usage, redis, due, creates, workers, start, snap, note>>

\* Mutant of CompleteAttemptFailure: only the operation is finalized.
CompleteOperationOnly(e) ==
  /\ Advance(e, "failure", "counted", "recorded")
  /\ status' = GuardedUpdate(op[e], NextStatus(e))
  /\ UNCHANGED <<result, attemptCount, usage, redis, due, creates, workers, start, snap, note>>

\* The transaction of CompleteAttemptFailure.
CompleteAttemptFailure(e) ==
  /\ Advance(e, "failure", "counted", "recorded")
  /\ result' = [result EXCEPT ![e] = "false"]
  /\ status' = GuardedUpdate(op[e], NextStatus(e))
  /\ UNCHANGED <<attemptCount, usage, redis, due, creates, workers, start, snap, note>>

\* The rest of the success branch: go NotifySuccess, and the answer.
FinishSuccess(e) ==
  /\ Advance(e, "success", "recorded", "ok")
  /\ note' = [note EXCEPT !["success"][e] = "usage"]
  /\ UNCHANGED <<postgres, redis, due, creates, workers, start, snap>>

\* Mutant of ScheduleRetry: the answer without the ZADD.
ScheduleNothing(e) ==
  /\ WillRetry(e)
  /\ Advance(e, "failure", "recorded", "ok")
  /\ UNCHANGED <<postgres, redis, due, creates, workers, start, snap, note>>

\* The failure branch with attempts left: ZADD of the retry, and the answer.  It
\* does not depend on whether the guarded UPDATE matched a row.
ScheduleRetry(e) ==
  /\ WillRetry(e)
  /\ Advance(e, "failure", "recorded", "ok")
  /\ delayed' = delayed \cup {[op |-> op[e], from |-> e]}
  /\ UNCHANGED <<postgres, mainQ, conc, due, creates, workers, start, snap, note>>

\* Mutant of FinishFailure: the customer is notified of every failed attempt.
FinishEveryFailure(e) ==
  /\ Advance(e, "failure", "recorded", "ok")
  /\ note' = [note EXCEPT !["failure"][e] = "dispatch"]
  /\ UNCHANGED <<postgres, redis, due, creates, workers, start, snap>>

\* The failure branch without: go NotifyTerminalFailure, and the answer.
FinishFailure(e) ==
  /\ ~WillRetry(e)
  /\ Advance(e, "failure", "recorded", "ok")
  /\ note' = [note EXCEPT !["failure"][e] = "dispatch"]
  /\ UNCHANGED <<postgres, redis, due, creates, workers, start, snap>>

\* The caller of report (e, k) no longer waits for it, which cancels its context.
HungUp(e, k) == pc[e] # (IF k = "success" THEN "succeed" ELSE "fail")

\* The handler stops with an error, or dies with the service; what it committed
\* stays.  In a cancelled context its next statement fails.
ReportFails(e, k) ==
  /\ "error" \in Env \/ HungUp(e, k)
  /\ \E from \in InFlight : Advance(e, k, from, "error")
  /\ UNCHANGED <<postgres, redis, due, creates, workers, start, snap, note>>

-----------------------------------------------------------------------------
(* The notifier goroutines                                                   *)

Event(e, k) == IF k = "success" THEN "operation.succeeded"
               ELSE IF NextStatus(e) = "FAILED" THEN "operation.failed"
               ELSE "operation.dead_lettered"

Notify(e, k, from, to) == /\ note[k][e] = from
                          /\ note' = [note EXCEPT ![k][e] = to]

\* Mutant of RecordUsage: the webhook is fired first and usage is forgotten.
RecordUsageSkipped(e) ==
  /\ Notify(e, "success", "usage", "dispatch")
  /\ UNCHANGED <<postgres, redis, due, creates, workers, handlers>>

\* recordUsage: INSERT ... ON CONFLICT DO NOTHING in the usage service.
RecordUsage(e) ==
  /\ Notify(e, "success", "usage", "dispatch")
  /\ usage' = usage \cup {op[e]}
  /\ UNCHANGED <<status, attemptCount, result, redis, due, creates, workers, handlers>>

DispatchWebhook(e, k) ==
  /\ Notify(e, k, "dispatch", "sent")
  /\ UNCHANGED <<postgres, redis, due, creates, workers, handlers>>

\* A call to the usage service fails: logged, never tried again.
NotifyFails(e, k) ==
  /\ "error" \in Env
  /\ \/ Notify(e, k, "usage", "dispatch")
     \/ Notify(e, k, "dispatch", "lost")
  /\ UNCHANGED <<postgres, redis, due, creates, workers, handlers>>

-----------------------------------------------------------------------------
CreateNext(r) == \/ \E from \in {"new", "refetch"} : ReplayExisting(r, from)
                 \/ LookupMisses(r) \/ InsertOperation(r) \/ InsertConflicts(r)
                 \/ Enqueue(r) \/ TransitionToQueued(r)

WorkerNext(e) == \/ PopJob(e) \/ SkipTerminal(e) \/ FetchOperation(e)
                 \/ StartReturns(e) \/ StartRaises(e)
                 \/ WorkSucceeds(e) \/ \E c \in {"transient", "permanent"} : WorkFails(e, c)
                 \/ ReportReturns(e) \/ SuccessRaises(e) \/ FailureRaises(e)

StartNext(e) == StartAttempt(e) \/ IncrConcurrency(e)

ReportNext(e, k) == \/ ReadOperation(e, k)
                    \/ DecrConcurrency(e, k)
                    \/ ClampConcurrency(e, k)
                    \/ k = "success" /\ (CompleteAttemptSuccess(e) \/ FinishSuccess(e))
                    \/ /\ k = "failure"
                       /\ CompleteAttemptFailure(e) \/ ScheduleRetry(e) \/ FinishFailure(e)

NotifyNext(e, k) == \/ k = "success" /\ RecordUsage(e)
                    \/ DispatchWebhook(e, k)

SchedulerNext == ReadDue \/ PromoteDue

\* What goes wrong, and the customer's cancellations.
Trouble == \/ \E r \in Requests : CreateFails(r)
           \/ \E t \in Tenants, o \in Requests : CancelOperation(t, o)
           \/ PromoteFails
           \/ Restart
           \/ \E e \in Execs : FetchRaises(e) \/ StartFails(e) \/ InputRaises(e) \/ Crash(e)
           \/ \E e \in Execs, k \in Kinds :
                CounterFails(e, k) \/ ReportFails(e, k) \/ NotifyFails(e, k)

Next == \/ \E r \in Requests : CreateNext(r)
        \/ \E e \in Execs : WorkerNext(e) \/ StartNext(e)
        \/ \E e \in Execs, k \in Kinds : ReportNext(e, k) \/ NotifyNext(e, k)
        \/ SchedulerNext
        \/ Trouble

Spec == Init /\ [][Next]_vars

\* Handlers and goroutines run to their end, the ticker ticks, and a worker
\* process keeps looping; no fairness for new requests and for trouble.
Fairness == /\ \A r \in Requests : WF_vars(call[r] # "new" /\ CreateNext(r))
            /\ \A e \in Execs : WF_vars(WorkerNext(e)) /\ WF_vars(StartNext(e))
            /\ \A e \in Execs, k \in Kinds : WF_vars(ReportNext(e, k)) /\ WF_vars(NotifyNext(e, k))
            /\ WF_vars(ReadDue) /\ WF_vars(PromoteDue)

FairSpec == Spec /\ Fairness
=============================================================================
