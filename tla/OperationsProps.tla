------------------------- MODULE OperationsProps -------------------------
(***************************************************************************)
(* What is checked and proved of Operations: the safety properties that    *)
(* hold whatever fails, those that need a reliable network, the claims the *)
(* repository makes that the code does not keep, liveness, and the         *)
(* inductive invariant of the proofs.                                      *)
(***************************************************************************)
EXTENDS Operations

-----------------------------------------------------------------------------
(* Safety under every kind of trouble                                        *)

\* Types of all variables.
TypeOK ==
  /\ status \in [Requests -> Statuses]
  /\ attemptCount \in [Requests -> Nat]
  /\ result \in [Execs -> {"none", "null", "true", "false"}]
  /\ usage \subseteq Requests
  /\ mainQ \in Seq(Job)
  /\ delayed \subseteq Job /\ due \subseteq delayed
  /\ conc \in [Tenants -> Int]
  /\ call \in [Requests -> {"new", "insert", "refetch", "enqueue", "mark",
                            "accepted", "replayed", "failed"}]
  /\ tenant \in [Requests -> Tenants]
  /\ key \in [Requests -> Keys \cup {NoKey}]
  /\ returned \in [Requests -> Requests]
  /\ idle \in Nat
  /\ pc \in [Execs -> Active \cup {"unused", "done", "dead"}]
  /\ op \in [Execs -> Requests]
  /\ number \in [Execs -> Nat]
  /\ category \in [Execs -> {"none", "transient", "permanent"}]
  /\ start \in [Execs -> {"none", "sent", "started", "ok", "error"}]
  /\ report \in [Kinds -> [Execs -> InFlight \cup {"none", "ok", "error"}]]
  /\ snap \in [Execs -> Nat]
  /\ note \in [Kinds -> [Execs -> {"none", "usage", "dispatch", "sent", "lost"}]]

\* Exec e, or a handler it left behind, can still start an attempt of op[e] or
\* schedule one.
Holds(e) == \/ pc[e] \in {"fetch", "work", "succeed"}
            \/ start[e] = "sent"
            \/ pc[e] = "start" /\ start[e] # "error"
            \/ report["failure"][e] \in InFlight

\* An operation is in one place at a time: in the hands of the create call that
\* is about to enqueue it, in the main queue (once), in the delayed set (once) or
\* with one exec.  Nothing in the code locks an operation; this is what lets
\* worker replicas "run safely without coordinating with each other"
\* (worker/app/main.py), through timeouts, crashes, late handlers and the
\* double report of SuccessRaises.
SingleTicket ==
  /\ \A d, e \in Execs : Holds(d) /\ Holds(e) /\ op[d] = op[e] => d = e
  /\ \A i, j \in 1..Len(mainQ) : mainQ[i].op = mainQ[j].op => i = j
  /\ \A a, b \in delayed : a.op = b.op => a = b
  /\ \A i \in 1..Len(mainQ) : /\ \A a \in delayed : mainQ[i].op # a.op
                              /\ \A e \in Execs : Holds(e) => op[e] # mainQ[i].op
  /\ \A a \in delayed, e \in Execs : Holds(e) => op[e] # a.op
  /\ \A r \in Requests : call[r] = "enqueue" =>
       /\ \A i \in 1..Len(mainQ) : mainQ[i].op # r
       /\ \A a \in delayed : a.op # r
       /\ \A e \in Execs : Holds(e) => op[e] # r

\* A job waits (to be enqueued or scheduled, in a queue, or fetched and not started)
\* only while its operation is not RUNNING: no second attempt is ever lined up
\* behind a running one.
WaitingIsNotRunning ==
  /\ \A r \in Requests : call[r] = "enqueue" => status[r] # "RUNNING"
  /\ \A i \in 1..Len(mainQ) : status[mainQ[i].op] # "RUNNING"
  /\ \A a \in delayed : status[a.op] # "RUNNING"
  /\ \A e \in Execs : pc[e] = "fetch" \/ start[e] = "sent" \/ report["failure"][e] = "recorded"
                        => status[op[e]] # "RUNNING"

Rows(o) == {e \in Execs : result[e] # "none" /\ op[e] = o}

\* The attempt rows of an operation are numbered 1..attempt_count without gap or
\* repetition, although attempt_number is computed by the worker from a read
\* made before the start transaction and written unconditionally.
AttemptHistory ==
  \A o \in Requests : /\ {number[e] : e \in Rows(o)} = 1..attemptCount[o]
                      /\ \A d, e \in Rows(o) : number[d] = number[e] => d = e

\* SUCCEEDED, FAILED and DEAD_LETTERED are never left, although StartAttempt
\* overwrites whatever status it finds.
FinalStatesImmutable ==
  [][\A o \in Requests : status[o] \in {"SUCCEEDED", "FAILED", "DEAD_LETTERED"}
                           => status'[o] = status[o]]_vars

LC == INSTANCE Lifecycle WITH Ops <- Requests

\* Every step of the service moves at most one operation, and as Lifecycle says:
\* at most max_retries attempts, RETRYING only with attempts left, DEAD_LETTERED
\* only with none left, never a start while RUNNING.
Implements == LC!Spec

\* Two create calls of a tenant with the same idempotency key that are answered
\* with an operation are answered with the same one, their own tenant's, and at
\* most one of them is told it was created (repository.CreateOperation's
\* SELECT-then-INSERT race).
IdempotentCreate ==
  \A r, s \in Requests :
    /\ call[r] \in {"accepted", "replayed"} => /\ tenant[returned[r]] = tenant[r]
                                               /\ key[returned[r]] = key[r]
    /\ /\ key[r] = key[s] /\ key[r] # NoKey /\ tenant[r] = tenant[s]
       /\ call[r] \in {"accepted", "replayed"}
       /\ call[s] \in {"accepted", "replayed"}
       => returned[r] = returned[s] /\ (call[r] = "accepted" /\ call[s] = "accepted" => r = s)

-----------------------------------------------------------------------------
(* Safety that needs a reliable network and no cancellation                  *)

\* Usage is billed only for an operation that is SUCCEEDED: "this operation just
\* became SUCCEEDED, so let's bill for it" (README.md).
BilledIsSucceeded == \A o \in usage : status[o] = "SUCCEEDED"

Told(e, k) == note[k][e] \in {"dispatch", "sent"}

\* The customer is told once how an operation ended, and what it was told is the
\* status the operation has: a notifier fires only for "a transition to a
\* terminal state [that] has just happened" (sideeffects/notify.go).
EventsMatchStatus ==
  \A e \in Execs, k \in Kinds : Told(e, k) =>
    /\ status[op[e]] = (CASE Event(e, k) = "operation.succeeded" -> "SUCCEEDED"
                          [] Event(e, k) = "operation.failed" -> "FAILED"
                          [] Event(e, k) = "operation.dead_lettered" -> "DEAD_LETTERED")
    /\ \A d \in Execs, j \in Kinds : Told(d, j) /\ op[d] = op[e] => <<d, j>> = <<e, k>>

LastRow(o) == {e \in Rows(o) : number[e] = attemptCount[o]}

\* The verdict of the last attempt and the status of its operation agree:
\* CompleteAttemptSuccess "finalizes the attempt and the operation together".
VerdictsAgree ==
  \A o \in Requests, e \in Execs : e \in LastRow(o) =>
    result[e] = (CASE status[o] = "SUCCEEDED" -> "true"
                   [] status[o] \in {"RETRYING", "FAILED", "DEAD_LETTERED"} -> "false"
                   [] status[o] = "RUNNING" -> "null"
                   [] OTHER -> result[e])

RunningOf(t) == {o \in Requests : tenant[o] = t /\ status[o] = "RUNNING"}

\* A tenant's concurrency counter never claims more RUNNING operations than there
\* are, also while handlers are at work: no slot stays taken by an operation that
\* left RUNNING, since the slot is given back before the status is written.
NoLeakedSlot == \A t \in Tenants : conc[t] <= Cardinality(RunningOf(t))

-----------------------------------------------------------------------------
(* Claims of the repository that the code does not keep in general           *)

Terminal == {"SUCCEEDED", "FAILED", "DEAD_LETTERED", "CANCELLED"}

\* "Once an operation reaches SUCCEEDED, FAILED, DEAD_LETTERED, or CANCELLED, it
\* is immutable" (README.md).
TerminalStatesImmutable ==
  [][\A o \in Requests : status[o] \in Terminal => status'[o] = status[o]]_vars

Submitted(o) == \/ call[o] \in {"enqueue", "mark"}
                \/ \E i \in 1..Len(mainQ) : mainQ[i].op = o
                \/ \E e \in Execs : pc[e] # "unused" /\ op[e] = o

\* A client that repeats a create call with its idempotency key and is answered
\* with the original operation can rely on it having been submitted: "this is
\* what makes create-operation safe to retry" (repository.CreateOperation).
ReplayIsSubmitted == \A r \in Requests : call[r] = "replayed" => Submitted(returned[r])

-----------------------------------------------------------------------------
(* Liveness                                                                  *)

\* Every accepted operation reaches a terminal status and keeps one for good.
EveryOperationEnds ==
  <>[](\A r \in Requests : call[r] = "accepted" => status[r] \in Terminal)

\* Every operation that succeeds is metered in the end.
SuccessIsMetered == <>[](\A r \in Requests : status[r] = "SUCCEEDED" => r \in usage)

\* Every concurrency slot is given back in the end, also those of operations
\* cancelled while RUNNING and of cancelled operations started all the same.
SlotsReleased == <>[](\A t \in Tenants : conc[t] = 0)

\* Every attempt that was started gets a verdict: "treat as transient so it gets a
\* retry rather than silently vanishing" (worker/app/main.py).
AttemptsGetVerdict == <>[](\A e \in Execs : result[e] # "null")

-----------------------------------------------------------------------------
(* The inductive invariant behind SingleTicket, AttemptHistory, Implements    *)
(* and FinalStatesImmutable                                                   *)

\* What process_job has done tells what its handlers can have done.
Shape ==
  \A e \in Execs :
    /\ pc[e] \in {"unused", "fetch"} => start[e] = "none"
    /\ pc[e] = "start" => start[e] # "none"
    /\ pc[e] \in {"work", "succeed", "fail"} => start[e] = "ok"
    /\ start[e] \in {"none", "sent"} => result[e] = "none"
    /\ start[e] \in {"started", "ok"} => result[e] # "none"
    /\ start[e] # "ok" \/ pc[e] \in {"start", "work"}
         => report["success"][e] = "none" /\ report["failure"][e] = "none"
    /\ pc[e] = "succeed" => report["failure"][e] = "none"
    /\ report["failure"][e] # "none" => category[e] # "none"

\* Whatever names an operation was made after its row.
RowsExist ==
  /\ \A r \in Requests : /\ call[r] \in {"new", "insert"} => status[r] = "ABSENT"
                         /\ call[r] \in {"enqueue", "mark"} => status[r] # "ABSENT"
  /\ \A i \in 1..Len(mainQ) : status[mainQ[i].op] # "ABSENT"
  /\ \A a \in delayed : status[a.op] # "ABSENT"
  /\ \A e \in Execs : pc[e] # "unused" => status[op[e]] # "ABSENT"

\* Whoever can start an attempt finds attempts left, and whoever has read
\* attempt_count has read the current one.
Budget ==
  /\ \A r \in Requests : /\ attemptCount[r] <= MaxRetries
                         /\ status[r] = "ABSENT" => attemptCount[r] = 0
                         /\ call[r] = "enqueue" => attemptCount[r] < MaxRetries
  /\ \A i \in 1..Len(mainQ) : attemptCount[mainQ[i].op] < MaxRetries
  /\ \A a \in delayed : attemptCount[a.op] < MaxRetries
  /\ \A e \in Execs :
       /\ pc[e] = "fetch" \/ start[e] = "sent" => attemptCount[op[e]] < MaxRetries
       /\ start[e] = "sent" => /\ number[e] = attemptCount[op[e]] + 1
                               /\ status[op[e]] \notin {"SUCCEEDED", "FAILED", "DEAD_LETTERED"}
       /\ report["failure"][e] \in InFlight \ {"sent"} => snap[e] = attemptCount[op[e]]

\* The inductive invariant: no statement of the code checks SingleTicket, and no
\* part of this conjunction is inductive without the others.
IndInv == /\ TypeOK /\ IsFiniteSet(delayed)
          /\ Shape /\ RowsExist /\ SingleTicket /\ WaitingIsNotRunning /\ Budget
          /\ AttemptHistory

\* The strengthening of IdempotentCreate: the index admits one row per tenant
\* and key, and an answer names a row that is there.
KeysUnique ==
  /\ \A r, s \in Requests : status[r] # "ABSENT" /\ s \in Matching(r) => s = r
  /\ \A r \in Requests : /\ call[r] = "accepted" => status[r] # "ABSENT"
                         /\ call[r] = "replayed" => returned[r] \in Matching(r)
                         /\ call[r] # "replayed" => returned[r] = r

-----------------------------------------------------------------------------
(* The inductive invariants behind the outcomes, on top of IndInv            *)

\* Somebody other than exec e can start an attempt of o or schedule one.
HeldElsewhere(o, e) == \/ call[o] = "enqueue"
                       \/ \E i \in 1..Len(mainQ) : mainQ[i].op = o
                       \/ \E a \in delayed : a.op = o
                       \/ \E d \in Execs : d # e /\ Holds(d) /\ op[d] = o

\* Behind BilledIsSucceeded, as long as the worker waits for its reports (no
\* timeout): an attempt at work, or whose success is being reported, has its
\* operation for itself, and no failure of it is ever reported besides.
SuccessIsLast ==
  /\ \A e \in Execs : pc[e] = "work" \/ (pc[e] = "start" /\ start[e] \in {"started", "ok"})
                        => status[op[e]] \in {"RUNNING", "CANCELLED"}
  /\ \A e \in Execs : report["success"][e] \in InFlight \cup {"ok"} =>
       /\ report["failure"][e] = "none"
       /\ ~HeldElsewhere(op[e], e)
       /\ status[op[e]] \in {"RUNNING", "SUCCEEDED", "CANCELLED"}
       /\ report["success"][e] \in {"recorded", "ok"} => status[op[e]] # "RUNNING"
  /\ \A e \in Execs : note["success"][e] # "none" => report["success"][e] = "ok"

\* Nothing cancels an operation but the customer.
CancelledByCustomer == \A o \in Requests : status[o] = "CANCELLED" => "cancel" \in Env

\* Attempt e is the last one of its operation.
Last(e) == number[e] = attemptCount[op[e]]

\* What attempt e has come to on a reliable network: it is reported once, its verdict
\* is the report's, the operation's status follows from the verdict of the last
\* attempt, and from one without retry for good.
Verdict(e) ==
  /\ pc[e] = "succeed" => report["success"][e] # "error"
  /\ report["failure"][e] # "none" => report["success"][e] = "none"
  /\ report["success"][e] = "none" /\ report["failure"][e] = "none" => result[e] \in {"none", "null"}
  /\ \A k \in Kinds : report[k][e] \in InFlight \ {"recorded"} => result[e] = "null"
  /\ report["success"][e] \in {"recorded", "ok"} => result[e] = "true"
  /\ report["failure"][e] \in {"recorded", "ok"} => result[e] = "false"
  /\ result[e] = "null" => Last(e) /\ status[op[e]] = "RUNNING"
  /\ result[e] = "true" => Last(e) /\ status[op[e]] = "SUCCEEDED"
  /\ result[e] = "false" /\ (Last(e) \/ ~WillRetry(e)) => Last(e) /\ status[op[e]] = NextStatus(e)
  /\ note["success"][e] # "none" => report["success"][e] = "ok"
  /\ note["failure"][e] # "none" => report["failure"][e] = "ok" /\ ~WillRetry(e)

\* Behind EventsMatchStatus and VerdictsAgree.
Verdicts == \A e \in Execs : Verdict(e)

\* The execs of t that have taken a slot and have neither given it back nor a verdict.
SlotHolders(t) == {e \in Execs : /\ tenant[op[e]] = t
                                 /\ start[e] = "ok" /\ result[e] = "null"
                                 /\ \A k \in Kinds : report[k][e] \notin {"clamp", "counted"}}

\* Behind NoLeakedSlot: the counter claims no more slots than these execs hold.  The
\* SET 0 after a negative DECR claims none.
SlotsCounted ==
  /\ IsFiniteSet({e \in Execs : pc[e] # "unused"})
  /\ IsFiniteSet({o \in Requests : status[o] # "ABSENT"})
  /\ \A t \in Tenants : conc[t] <= Cardinality(SlotHolders(t))

\* The inductive invariant of the outcomes, on a reliable network.
OutcomeInv == SuccessIsLast /\ CancelledByCustomer /\ Verdicts /\ SlotsCounted
=============================================================================
