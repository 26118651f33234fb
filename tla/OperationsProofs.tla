------------------------- MODULE OperationsProofs -------------------------
(***************************************************************************)
(* Proofs about Operations, for every value of its constants: IndInv is    *)
(* inductive, and with it the safety invariants, the refinement of         *)
(* Lifecycle, the finality of three statuses and idempotent creation.      *)
(*                                                                         *)
(* Each XStep lemma shows that a step keeps the part X of IndInv, with one *)
(* step per action of Next; the parts it rests on are its assumptions.     *)
(***************************************************************************)
EXTENDS OperationsProps, TLAPS, FiniteSetTheorems

\* What a pop does to the main queue.
LEMMA PoppedJob ==
  ASSUME TypeOK, NEW e \in Execs, PopJob(e)
  PROVE  /\ op'[e] = mainQ[1].op /\ mainQ[1] \in Job /\ 1 \in 1..Len(mainQ)
         /\ mainQ' \in Seq(Job)
         /\ \A i \in 1..Len(mainQ') : i + 1 \in 1..Len(mainQ) /\ mainQ'[i] = mainQ[i + 1]
<1>1. mainQ \in Seq(Job) /\ mainQ # <<>> /\ mainQ' = Tail(mainQ) BY DEF TypeOK, PopJob
<1>2. op'[e] = mainQ[1].op BY <1>1 DEF TypeOK, PopJob
<1> QED BY <1>1, <1>2

\* What a promotion does to it: every entry was there before, at the same place,
\* or is one of the promoted jobs, each of which is pushed once.
LEMMA PromotedJobs ==
  ASSUME TypeOK, IsFiniteSet(delayed), PromoteDue
  PROVE  /\ mainQ' \in Seq(Job)
         /\ \A i \in 1..Len(mainQ') :
              \/ i \in 1..Len(mainQ) /\ mainQ'[i] = mainQ[i]
              \/ i \notin 1..Len(mainQ) /\ mainQ'[i] \in due
         /\ \A i, j \in 1..Len(mainQ') :
              i \notin 1..Len(mainQ) /\ j \notin 1..Len(mainQ) /\ mainQ'[i] = mainQ'[j] => i = j
<1> DEFINE n == Cardinality(due)
<1>1. mainQ \in Seq(Job) /\ due \subseteq Job BY DEF TypeOK
<1>2. n \in Nat BY FS_Subset, FS_CardinalityType DEF TypeOK
<1>3. PICK s \in [1..n -> due] : /\ mainQ' = mainQ \o s
                                 /\ \A i, j \in 1..n : s[i] = s[j] => i = j
  BY DEF PromoteDue, Orders
<1> HIDE DEF n
<1>4. s \in Seq(Job) /\ Len(s) = n BY <1>1, <1>2, <1>3
<1> DEFINE q == mainQ \o s
<1>5. q \in Seq(Job) /\ Len(q) = Len(mainQ) + n BY <1>1, <1>4
<1>6. \A i \in 1..Len(mainQ) : q[i] = mainQ[i] BY <1>1, <1>4
<1>7. \A i \in 1..Len(q) :
        i \notin 1..Len(mainQ) => i - Len(mainQ) \in 1..n /\ q[i] = s[i - Len(mainQ)]
  BY <1>1, <1>2, <1>4, <1>5
<1>8. mainQ' = q BY <1>3
<1> HIDE DEF q
<1>9. \A i \in 1..Len(q) : i \notin 1..Len(mainQ) => q[i] \in due BY <1>3, <1>7
<1>10. \A i, j \in 1..Len(q) :
         i \notin 1..Len(mainQ) /\ j \notin 1..Len(mainQ) /\ q[i] = q[j] => i = j
  BY <1>1, <1>3, <1>5, <1>7
<1>11. \A i \in 1..Len(q) :
         \/ i \in 1..Len(mainQ) /\ q[i] = mainQ[i]
         \/ i \notin 1..Len(mainQ) /\ q[i] \in due
  BY <1>6, <1>9
<1> QED BY <1>5, <1>8, <1>10, <1>11

\* Every step keeps the types.
LEMMA TypeStep ==
  ASSUME TypeOK, IsFiniteSet(delayed), Next PROVE TypeOK'
<1> USE DEF postgres, redis, creates, workers, handlers, TypeOK, Kinds, InFlight, Active,
        Statuses
<1>1. ASSUME NEW r \in Requests, CreateNext(r) PROVE TypeOK'
  <2>1. CASE \E from \in {"new", "refetch"} : ReplayExisting(r, from)
    BY <2>1 DEF ReplayExisting, Answer, Matching
  <2>2. CASE LookupMisses(r) BY <2>2 DEF LookupMisses, Answer, Matching
  <2>3. CASE InsertOperation(r) BY <2>3 DEF InsertOperation, Answer, Matching
  <2>4. CASE InsertConflicts(r) BY <2>4 DEF InsertConflicts, Answer, Matching
  <2>5. CASE Enqueue(r)
    <3>1. [op |-> r, from |-> 0] \in Job BY DEF Job
    <3> QED BY <2>5, <3>1 DEF Enqueue, Answer
  <2>6. CASE TransitionToQueued(r) BY <2>6 DEF TransitionToQueued, Answer
  <2> QED BY <1>1, <2>1, <2>2, <2>3, <2>4, <2>5, <2>6 DEF CreateNext
<1>2. ASSUME NEW e \in Execs, WorkerNext(e) PROVE TypeOK'
  <2>1. CASE PopJob(e)
    <3>1. op'[e] \in Requests /\ mainQ' \in Seq(Job) BY <2>1, PoppedJob DEF Job
    <3> QED BY <2>1, <3>1 DEF PopJob
  <2>2. CASE SkipTerminal(e) BY <2>2 DEF SkipTerminal, Return, SkipStatuses
  <2>3. CASE FetchOperation(e) BY <2>3 DEF FetchOperation, SkipStatuses
  <2>4. CASE StartReturns(e) BY <2>4 DEF StartReturns
  <2>5. CASE StartRaises(e) BY <2>5 DEF StartRaises, Return
  <2>6. CASE WorkSucceeds(e) BY <2>6 DEF WorkSucceeds, SendReport
  <2>7. CASE \E c \in {"transient", "permanent"} : WorkFails(e, c)
    BY <2>7 DEF WorkFails, SendReport
  <2>8. CASE ReportReturns(e) BY <2>8 DEF ReportReturns, Return
  <2>9. CASE SuccessRaises(e) BY <2>9 DEF SuccessRaises, SendReport
  <2>10. CASE FailureRaises(e) BY <2>10 DEF FailureRaises
  <2> QED BY <1>2, <2>1, <2>2, <2>3, <2>4, <2>5, <2>6, <2>7, <2>8, <2>9, <2>10 DEF WorkerNext
<1>3. ASSUME NEW e \in Execs, StartNext(e) PROVE TypeOK'
  <2>1. CASE StartAttempt(e) BY <2>1 DEF StartAttempt
  <2>2. CASE IncrConcurrency(e) BY <2>2 DEF IncrConcurrency
  <2> QED BY <1>3, <2>1, <2>2 DEF StartNext
<1>4. ASSUME NEW e \in Execs, NEW k \in Kinds, ReportNext(e, k) PROVE TypeOK'
  <2>1. CASE ReadOperation(e, k) BY <2>1 DEF ReadOperation, Advance
  <2>2. CASE DecrConcurrency(e, k) BY <2>2 DEF DecrConcurrency, Advance
  <2>3. CASE ClampConcurrency(e, k) BY <2>3 DEF ClampConcurrency, Advance
  <2>4. CASE CompleteAttemptSuccess(e)
    BY <2>4 DEF CompleteAttemptSuccess, Advance, GuardedUpdate
  <2>5. CASE FinishSuccess(e) BY <2>5 DEF FinishSuccess, Advance
  <2>6. CASE CompleteAttemptFailure(e)
    BY <2>6 DEF CompleteAttemptFailure, Advance, GuardedUpdate, NextStatus, WillRetry
  <2>7. CASE ScheduleRetry(e)
    <3>1. [op |-> op[e], from |-> e] \in Job BY DEF Job
    <3> QED BY <2>7, <3>1 DEF ScheduleRetry, Advance
  <2>8. CASE FinishFailure(e) BY <2>8 DEF FinishFailure, Advance, WillRetry
  <2> QED BY <1>4, <2>1, <2>2, <2>3, <2>4, <2>5, <2>6, <2>7, <2>8 DEF ReportNext
<1>5. ASSUME NEW e \in Execs, NEW k \in Kinds, NotifyNext(e, k) PROVE TypeOK'
  <2>1. CASE RecordUsage(e) BY <2>1 DEF RecordUsage, Notify
  <2>2. CASE DispatchWebhook(e, k) BY <2>2 DEF DispatchWebhook, Notify
  <2> QED BY <1>5, <2>1, <2>2 DEF NotifyNext
<1>6. ASSUME SchedulerNext PROVE TypeOK'
  <2>1. CASE ReadDue BY <2>1 DEF ReadDue
  <2>2. CASE PromoteDue
    BY <2>2, PromotedJobs DEF PromoteDue
  <2> QED BY <1>6, <2>1, <2>2 DEF SchedulerNext
<1>7. ASSUME NEW r \in Requests, CreateFails(r) PROVE TypeOK'
  BY <1>7 DEF CreateFails, Answer
<1>8. ASSUME NEW t \in Tenants, NEW o \in Requests, CancelOperation(t, o) PROVE TypeOK'
  BY <1>8 DEF CancelOperation, NotCancellable
<1>9. ASSUME PromoteFails \/ Restart PROVE TypeOK'
  BY <1>9 DEF PromoteFails, Restart
<1>10. ASSUME NEW e \in Execs, FetchRaises(e) PROVE TypeOK'
  BY <1>10 DEF FetchRaises, Return
<1>11. ASSUME NEW e \in Execs, StartFails(e) PROVE TypeOK'
  BY <1>11 DEF StartFails
<1>12. ASSUME NEW e \in Execs, InputRaises(e) PROVE TypeOK'
  BY <1>12 DEF InputRaises
<1>13. ASSUME NEW e \in Execs, Crash(e) PROVE TypeOK'
  BY <1>13 DEF Crash
<1>14. ASSUME NEW e \in Execs, NEW k \in Kinds, CounterFails(e, k) PROVE TypeOK'
  BY <1>14 DEF CounterFails, Advance
<1>15. ASSUME NEW e \in Execs, NEW k \in Kinds, ReportFails(e, k) PROVE TypeOK'
  BY <1>15 DEF ReportFails, Advance
<1>16. ASSUME NEW e \in Execs, NEW k \in Kinds, NotifyFails(e, k) PROVE TypeOK'
  <2>1. CASE Notify(e, k, "usage", "dispatch") BY <1>16, <2>1 DEF NotifyFails, Notify
  <2>2. CASE Notify(e, k, "dispatch", "lost") BY <1>16, <2>2 DEF NotifyFails, Notify
  <2> QED BY <1>16, <2>1, <2>2 DEF NotifyFails
<1> HIDE DEF TypeOK
<1> QED BY <1>1, <1>2, <1>3, <1>4, <1>5, <1>6, <1>7, <1>8, <1>9, <1>10, <1>11, <1>12, <1>13,
       <1>14, <1>15, <1>16 DEF Next, Trouble

\* The shape of an exec.
LEMMA ShapeStep ==
  ASSUME TypeOK, Shape, Next PROVE Shape'
<1> USE DEF postgres, redis, creates, workers, handlers, TypeOK, Kinds, InFlight, Active,
        Shape
<1>1. ASSUME NEW r \in Requests, CreateNext(r) PROVE Shape'
  <2>1. CASE \E from \in {"new", "refetch"} : ReplayExisting(r, from)
    BY <2>1 DEF ReplayExisting, Answer, Matching
  <2>2. CASE LookupMisses(r) BY <2>2 DEF LookupMisses, Answer, Matching
  <2>3. CASE InsertOperation(r) BY <2>3 DEF InsertOperation, Answer, Matching
  <2>4. CASE InsertConflicts(r) BY <2>4 DEF InsertConflicts, Answer, Matching
  <2>5. CASE Enqueue(r) BY <2>5 DEF Enqueue, Answer
  <2>6. CASE TransitionToQueued(r) BY <2>6 DEF TransitionToQueued, Answer
  <2> QED BY <1>1, <2>1, <2>2, <2>3, <2>4, <2>5, <2>6 DEF CreateNext
<1>2. ASSUME NEW e \in Execs, WorkerNext(e) PROVE Shape'
  <2>1. CASE PopJob(e) BY <2>1 DEF PopJob
  <2>2. CASE SkipTerminal(e) BY <2>2 DEF SkipTerminal, Return, SkipStatuses
  <2>3. CASE FetchOperation(e) BY <2>3 DEF FetchOperation, SkipStatuses
  <2>4. CASE StartReturns(e) BY <2>4 DEF StartReturns
  <2>5. CASE StartRaises(e) BY <2>5 DEF StartRaises, Return
  <2>6. CASE WorkSucceeds(e) BY <2>6 DEF WorkSucceeds, SendReport
  <2>7. CASE \E c \in {"transient", "permanent"} : WorkFails(e, c)
    BY <2>7 DEF WorkFails, SendReport
  <2>8. CASE ReportReturns(e) BY <2>8 DEF ReportReturns, Return
  <2>9. CASE SuccessRaises(e) BY <2>9 DEF SuccessRaises, SendReport
  <2>10. CASE FailureRaises(e) BY <2>10 DEF FailureRaises
  <2> QED BY <1>2, <2>1, <2>2, <2>3, <2>4, <2>5, <2>6, <2>7, <2>8, <2>9, <2>10 DEF WorkerNext
<1>3. ASSUME NEW e \in Execs, StartNext(e) PROVE Shape'
  <2>1. CASE StartAttempt(e) BY <2>1 DEF StartAttempt
  <2>2. CASE IncrConcurrency(e) BY <2>2 DEF IncrConcurrency
  <2> QED BY <1>3, <2>1, <2>2 DEF StartNext
<1>4. ASSUME NEW e \in Execs, NEW k \in Kinds, ReportNext(e, k) PROVE Shape'
  <2>1. CASE ReadOperation(e, k) BY <2>1 DEF ReadOperation, Advance
  <2>2. CASE DecrConcurrency(e, k) BY <2>2 DEF DecrConcurrency, Advance
  <2>3. CASE ClampConcurrency(e, k) BY <2>3 DEF ClampConcurrency, Advance
  <2>4. CASE CompleteAttemptSuccess(e)
    BY <2>4 DEF CompleteAttemptSuccess, Advance, GuardedUpdate
  <2>5. CASE FinishSuccess(e) BY <2>5 DEF FinishSuccess, Advance
  <2>6. CASE CompleteAttemptFailure(e)
    BY <2>6 DEF CompleteAttemptFailure, Advance, GuardedUpdate, NextStatus, WillRetry
  <2>7. CASE ScheduleRetry(e) BY <2>7 DEF ScheduleRetry, Advance, WillRetry
  <2>8. CASE FinishFailure(e) BY <2>8 DEF FinishFailure, Advance, WillRetry
  <2> QED BY <1>4, <2>1, <2>2, <2>3, <2>4, <2>5, <2>6, <2>7, <2>8 DEF ReportNext
<1>5. ASSUME NEW e \in Execs, NEW k \in Kinds, NotifyNext(e, k) PROVE Shape'
  <2>1. CASE RecordUsage(e) BY <2>1 DEF RecordUsage, Notify
  <2>2. CASE DispatchWebhook(e, k) BY <2>2 DEF DispatchWebhook, Notify
  <2> QED BY <1>5, <2>1, <2>2 DEF NotifyNext
<1>6. ASSUME SchedulerNext PROVE Shape'
  <2>1. CASE ReadDue BY <2>1 DEF ReadDue
  <2>2. CASE PromoteDue BY <2>2 DEF PromoteDue
  <2> QED BY <1>6, <2>1, <2>2 DEF SchedulerNext
<1>7. ASSUME NEW r \in Requests, CreateFails(r) PROVE Shape'
  BY <1>7 DEF CreateFails, Answer
<1>8. ASSUME NEW t \in Tenants, NEW o \in Requests, CancelOperation(t, o) PROVE Shape'
  BY <1>8 DEF CancelOperation, NotCancellable
<1>9. ASSUME PromoteFails \/ Restart PROVE Shape'
  BY <1>9 DEF PromoteFails, Restart
<1>10. ASSUME NEW e \in Execs, FetchRaises(e) PROVE Shape'
  BY <1>10 DEF FetchRaises, Return
<1>11. ASSUME NEW e \in Execs, StartFails(e) PROVE Shape'
  BY <1>11 DEF StartFails
<1>12. ASSUME NEW e \in Execs, InputRaises(e) PROVE Shape'
  BY <1>12 DEF InputRaises
<1>13. ASSUME NEW e \in Execs, Crash(e) PROVE Shape'
  BY <1>13 DEF Crash
<1>14. ASSUME NEW e \in Execs, NEW k \in Kinds, CounterFails(e, k) PROVE Shape'
  BY <1>14 DEF CounterFails, Advance
<1>15. ASSUME NEW e \in Execs, NEW k \in Kinds, ReportFails(e, k) PROVE Shape'
  BY <1>15 DEF ReportFails, Advance
<1>16. ASSUME NEW e \in Execs, NEW k \in Kinds, NotifyFails(e, k) PROVE Shape'
  BY <1>16 DEF NotifyFails, Notify
<1> HIDE DEF TypeOK, Shape
<1> QED BY <1>1, <1>2, <1>3, <1>4, <1>5, <1>6, <1>7, <1>8, <1>9, <1>10, <1>11, <1>12, <1>13,
       <1>14, <1>15, <1>16 DEF Next, Trouble

\* Rows exist before anything names them, and are never deleted.
LEMMA RowsStep ==
  ASSUME TypeOK, IsFiniteSet(delayed), Shape, RowsExist, Next PROVE RowsExist'
<1> USE DEF postgres, redis, creates, workers, handlers, TypeOK, Kinds, InFlight, Active,
        Shape, RowsExist
<1>1. ASSUME NEW r \in Requests, CreateNext(r) PROVE RowsExist'
  <2>1. CASE \E from \in {"new", "refetch"} : ReplayExisting(r, from)
    BY <2>1 DEF ReplayExisting, Answer, Matching
  <2>2. CASE LookupMisses(r) BY <2>2 DEF LookupMisses, Answer, Matching
  <2>3. CASE InsertOperation(r) BY <2>3 DEF InsertOperation, Answer, Matching
  <2>4. CASE InsertConflicts(r) BY <2>4 DEF InsertConflicts, Answer, Matching
  <2>5. CASE Enqueue(r) BY <2>5 DEF Enqueue, Answer
  <2>6. CASE TransitionToQueued(r) BY <2>6 DEF TransitionToQueued, Answer
  <2> QED BY <1>1, <2>1, <2>2, <2>3, <2>4, <2>5, <2>6 DEF CreateNext
<1>2. ASSUME NEW e \in Execs, WorkerNext(e) PROVE RowsExist'
  <2>1. CASE PopJob(e)
    <3>1. /\ op'[e] = mainQ[1].op /\ 1 \in 1..Len(mainQ)
          /\ \A i \in 1..Len(mainQ') : i + 1 \in 1..Len(mainQ) /\ mainQ'[i] = mainQ[i + 1]
      BY <2>1, PoppedJob
    <3> QED BY <2>1, <3>1 DEF PopJob
  <2>2. CASE SkipTerminal(e) BY <2>2 DEF SkipTerminal, Return, SkipStatuses
  <2>3. CASE FetchOperation(e) BY <2>3 DEF FetchOperation, SkipStatuses
  <2>4. CASE StartReturns(e) BY <2>4 DEF StartReturns
  <2>5. CASE StartRaises(e) BY <2>5 DEF StartRaises, Return
  <2>6. CASE WorkSucceeds(e) BY <2>6 DEF WorkSucceeds, SendReport
  <2>7. CASE \E c \in {"transient", "permanent"} : WorkFails(e, c)
    BY <2>7 DEF WorkFails, SendReport
  <2>8. CASE ReportReturns(e) BY <2>8 DEF ReportReturns, Return
  <2>9. CASE SuccessRaises(e) BY <2>9 DEF SuccessRaises, SendReport
  <2>10. CASE FailureRaises(e) BY <2>10 DEF FailureRaises
  <2> QED BY <1>2, <2>1, <2>2, <2>3, <2>4, <2>5, <2>6, <2>7, <2>8, <2>9, <2>10 DEF WorkerNext
<1>3. ASSUME NEW e \in Execs, StartNext(e) PROVE RowsExist'
  <2>1. CASE StartAttempt(e) BY <2>1 DEF StartAttempt
  <2>2. CASE IncrConcurrency(e) BY <2>2 DEF IncrConcurrency
  <2> QED BY <1>3, <2>1, <2>2 DEF StartNext
<1>4. ASSUME NEW e \in Execs, NEW k \in Kinds, ReportNext(e, k) PROVE RowsExist'
  <2>1. CASE ReadOperation(e, k) BY <2>1 DEF ReadOperation, Advance
  <2>2. CASE DecrConcurrency(e, k) BY <2>2 DEF DecrConcurrency, Advance
  <2>3. CASE ClampConcurrency(e, k) BY <2>3 DEF ClampConcurrency, Advance
  <2>4. CASE CompleteAttemptSuccess(e)
    BY <2>4 DEF CompleteAttemptSuccess, Advance, GuardedUpdate
  <2>5. CASE FinishSuccess(e) BY <2>5 DEF FinishSuccess, Advance
  <2>6. CASE CompleteAttemptFailure(e)
    BY <2>6 DEF CompleteAttemptFailure, Advance, GuardedUpdate, NextStatus, WillRetry
  <2>7. CASE ScheduleRetry(e)
    <3>1. pc[e] # "unused" BY <2>7 DEF ScheduleRetry, Advance
    <3> QED BY <2>7, <3>1 DEF ScheduleRetry, Advance
  <2>8. CASE FinishFailure(e) BY <2>8 DEF FinishFailure, Advance, WillRetry
  <2> QED BY <1>4, <2>1, <2>2, <2>3, <2>4, <2>5, <2>6, <2>7, <2>8 DEF ReportNext
<1>5. ASSUME NEW e \in Execs, NEW k \in Kinds, NotifyNext(e, k) PROVE RowsExist'
  <2>1. CASE RecordUsage(e) BY <2>1 DEF RecordUsage, Notify
  <2>2. CASE DispatchWebhook(e, k) BY <2>2 DEF DispatchWebhook, Notify
  <2> QED BY <1>5, <2>1, <2>2 DEF NotifyNext
<1>6. ASSUME SchedulerNext PROVE RowsExist'
  <2>1. CASE ReadDue BY <2>1 DEF ReadDue
  <2>2. CASE PromoteDue
    <3>1. \A i \in 1..Len(mainQ') : \/ i \in 1..Len(mainQ) /\ mainQ'[i] = mainQ[i]
                                    \/ mainQ'[i] \in due
      BY <2>2, PromotedJobs
    <3> QED BY <2>2, <3>1 DEF PromoteDue
  <2> QED BY <1>6, <2>1, <2>2 DEF SchedulerNext
<1>7. ASSUME NEW r \in Requests, CreateFails(r) PROVE RowsExist'
  BY <1>7 DEF CreateFails, Answer
<1>8. ASSUME NEW t \in Tenants, NEW o \in Requests, CancelOperation(t, o) PROVE RowsExist'
  BY <1>8 DEF CancelOperation, NotCancellable
<1>9. ASSUME PromoteFails \/ Restart PROVE RowsExist'
  BY <1>9 DEF PromoteFails, Restart
<1>10. ASSUME NEW e \in Execs, FetchRaises(e) PROVE RowsExist'
  BY <1>10 DEF FetchRaises, Return
<1>11. ASSUME NEW e \in Execs, StartFails(e) PROVE RowsExist'
  BY <1>11 DEF StartFails
<1>12. ASSUME NEW e \in Execs, InputRaises(e) PROVE RowsExist'
  BY <1>12 DEF InputRaises
<1>13. ASSUME NEW e \in Execs, Crash(e) PROVE RowsExist'
  BY <1>13 DEF Crash
<1>14. ASSUME NEW e \in Execs, NEW k \in Kinds, CounterFails(e, k) PROVE RowsExist'
  BY <1>14 DEF CounterFails, Advance
<1>15. ASSUME NEW e \in Execs, NEW k \in Kinds, ReportFails(e, k) PROVE RowsExist'
  BY <1>15 DEF ReportFails, Advance
<1>16. ASSUME NEW e \in Execs, NEW k \in Kinds, NotifyFails(e, k) PROVE RowsExist'
  BY <1>16 DEF NotifyFails, Notify
<1> HIDE DEF TypeOK, Shape, RowsExist
<1> QED BY <1>1, <1>2, <1>3, <1>4, <1>5, <1>6, <1>7, <1>8, <1>9, <1>10, <1>11, <1>12, <1>13,
       <1>14, <1>15, <1>16 DEF Next, Trouble

\* A pop moves the one ticket of an operation from the queue to the exec.
LEMMA PopTicket ==
  ASSUME TypeOK, SingleTicket, NEW e \in Execs, PopJob(e) PROVE SingleTicket'
<1> USE DEF postgres, redis, creates, workers, handlers
<1>1. /\ op'[e] = mainQ[1].op /\ 1 \in 1..Len(mainQ) /\ Len(mainQ') \in Nat
      /\ \A i \in 1..Len(mainQ') : i + 1 \in 1..Len(mainQ) /\ mainQ'[i] = mainQ[i + 1]
  BY PoppedJob
<1>2. /\ \A i \in 1..Len(mainQ') : mainQ'[i].op # op'[e]
      /\ \A a \in delayed : a.op # op'[e]
      /\ \A d \in Execs : Holds(d) => op[d] # op'[e]
      /\ \A r \in Requests : call[r] = "enqueue" => op'[e] # r
  BY <1>1 DEF SingleTicket
<1>3. \A d \in Execs : d # e /\ Holds(d)' => Holds(d) /\ op'[d] = op[d]
  BY DEF PopJob, Holds, TypeOK
<1>4. UNCHANGED <<delayed, call>> BY DEF PopJob
<1>5. ASSUME NEW c \in Execs, NEW d \in Execs, Holds(c)', Holds(d)', op'[c] = op'[d] PROVE c = d
  BY <1>2, <1>3, <1>5 DEF SingleTicket
<1>6. ASSUME NEW i \in 1..Len(mainQ'), NEW j \in 1..Len(mainQ'), mainQ'[i].op = mainQ'[j].op
      PROVE  i = j
  <2>1. i + 1 \in 1..Len(mainQ) /\ j + 1 \in 1..Len(mainQ) /\ mainQ[i + 1].op = mainQ[j + 1].op
    BY <1>1, <1>6
  <2>2. i + 1 = j + 1 BY <2>1 DEF SingleTicket
  <2> QED BY <2>2
<1>7. \A i \in 1..Len(mainQ') : /\ \A a \in delayed' : mainQ'[i].op # a.op
                                /\ \A d \in Execs : Holds(d)' => op'[d] # mainQ'[i].op
  <2> TAKE i \in 1..Len(mainQ')
  <2>1. i + 1 \in 1..Len(mainQ) /\ mainQ'[i] = mainQ[i + 1] BY <1>1
  <2>2. \A a \in delayed' : mainQ'[i].op # a.op BY <1>4, <2>1 DEF SingleTicket
  <2>3. \A d \in Execs : d # e /\ Holds(d)' => op'[d] # mainQ'[i].op
    BY <1>3, <2>1 DEF SingleTicket
  <2> QED BY <1>2, <2>2, <2>3
<1>8. ASSUME NEW a \in delayed, NEW d \in Execs, Holds(d)' PROVE op'[d] # a.op
  <2>1. CASE d = e BY <1>2, <2>1
  <2>2. CASE d # e BY <1>3, <1>8, <2>2 DEF SingleTicket
  <2> QED BY <2>1, <2>2
<1>9. ASSUME NEW r \in Requests, call'[r] = "enqueue"
      PROVE  /\ \A i \in 1..Len(mainQ') : mainQ'[i].op # r
             /\ \A a \in delayed' : a.op # r
             /\ \A d \in Execs : Holds(d)' => op'[d] # r
  <2>1. call[r] = "enqueue" BY <1>4, <1>9
  <2>2. \A i \in 1..Len(mainQ') : mainQ'[i].op # r BY <1>1, <2>1 DEF SingleTicket
  <2>3. \A a \in delayed' : a.op # r BY <1>4, <2>1 DEF SingleTicket
  <2>4. \A d \in Execs : d # e /\ Holds(d)' => op'[d] # r BY <1>3, <2>1 DEF SingleTicket
  <2> QED BY <1>2, <2>1, <2>2, <2>3, <2>4
<1> QED BY <1>4, <1>5, <1>6, <1>7, <1>8, <1>9 DEF SingleTicket

\* A promotion moves tickets from the delayed set to the queue.
LEMMA PromoteTicket ==
  ASSUME TypeOK, IsFiniteSet(delayed), SingleTicket, PromoteDue PROVE SingleTicket'
<1> USE DEF postgres, redis, creates, workers, handlers
<1>1. /\ \A i \in 1..Len(mainQ') :
           \/ i \in 1..Len(mainQ) /\ mainQ'[i] = mainQ[i]
           \/ i \notin 1..Len(mainQ) /\ mainQ'[i] \in due
      /\ \A i, j \in 1..Len(mainQ') :
           i \notin 1..Len(mainQ) /\ j \notin 1..Len(mainQ) /\ mainQ'[i] = mainQ'[j] => i = j
  BY PromotedJobs
<1>2. delayed' = delayed \ due /\ due \subseteq delayed /\ call' = call /\ op' = op
  BY DEF TypeOK, PromoteDue
<1>3. \A e \in Execs : Holds(e)' => Holds(e) BY DEF PromoteDue, Holds
<1>4. \A i, j \in 1..Len(mainQ') : mainQ'[i].op = mainQ'[j].op => i = j
  BY <1>1, <1>2 DEF SingleTicket
<1> QED BY <1>1, <1>2, <1>3, <1>4 DEF SingleTicket

\* Nobody takes, hands on or makes a ticket.
TicketsStay == /\ UNCHANGED <<mainQ, delayed, op>>
               /\ \A r \in Requests : call'[r] = "enqueue" => call[r] = "enqueue"
               /\ \A e \in Execs : Holds(e)' => Holds(e)

\* Tickets are made by the INSERT of a row, and move with the LPUSH of a create
\* call, with a pop, with the ZADD of a retry and with a promotion; no other step
\* gives anybody one.
LEMMA TicketMoves ==
  ASSUME TypeOK, Shape, Next
  PROVE  \/ TicketsStay
         \/ \E r \in Requests : InsertOperation(r) \/ Enqueue(r)
         \/ \E e \in Execs : PopJob(e) \/ ScheduleRetry(e)
         \/ PromoteDue
<1> USE DEF TicketsStay, redis, creates, workers, handlers
<1>1. ASSUME NEW r \in Requests, CreateNext(r)
      PROVE  TicketsStay \/ InsertOperation(r) \/ Enqueue(r)
  <2>1. CASE \E from \in {"new", "refetch"} : ReplayExisting(r, from)
    BY <2>1 DEF ReplayExisting, Answer, Holds, TypeOK
  <2>2. CASE LookupMisses(r) BY <2>2 DEF LookupMisses, Answer, Holds, TypeOK
  <2>3. CASE InsertConflicts(r) BY <2>3 DEF InsertConflicts, Answer, Holds, TypeOK
  <2>4. CASE TransitionToQueued(r) BY <2>4 DEF TransitionToQueued, Answer, Holds, TypeOK
  <2> QED BY <1>1, <2>1, <2>2, <2>3, <2>4 DEF CreateNext
<1>2. ASSUME NEW e \in Execs, WorkerNext(e) PROVE TicketsStay \/ PopJob(e)
  <2> SUFFICES ASSUME ~PopJob(e)
               PROVE  UNCHANGED <<mainQ, delayed, op, call>> /\ \A d \in Execs : Holds(d)' => Holds(d)
    BY DEF TicketsStay
  <2>1. CASE SkipTerminal(e) BY <2>1 DEF SkipTerminal, Return, Holds, TypeOK
  <2>2. CASE FetchOperation(e) BY <2>2 DEF FetchOperation, Holds, TypeOK
  <2>3. CASE StartReturns(e) BY <2>3 DEF StartReturns, Holds, TypeOK
  <2>4. CASE StartRaises(e) BY <2>4 DEF StartRaises, Return, Holds, TypeOK
  <2>5. CASE WorkSucceeds(e) BY <2>5 DEF WorkSucceeds, SendReport, Holds, TypeOK, Kinds
  <2>6. CASE \E c \in {"transient", "permanent"} : WorkFails(e, c)
    BY <2>6 DEF WorkFails, SendReport, Holds, TypeOK, Kinds
  <2>7. CASE ReportReturns(e) BY <2>7 DEF ReportReturns, Return, Holds, TypeOK
  <2>8. CASE SuccessRaises(e) BY <2>8 DEF SuccessRaises, SendReport, Holds, TypeOK, Kinds
  <2>9. CASE FailureRaises(e) BY <2>9 DEF FailureRaises, Holds, TypeOK
  <2> QED BY <1>2, <2>1, <2>2, <2>3, <2>4, <2>5, <2>6, <2>7, <2>8, <2>9 DEF WorkerNext
<1>3. ASSUME NEW e \in Execs, StartNext(e) \/ StartFails(e) PROVE TicketsStay
  <2>1. CASE StartAttempt(e) BY <2>1 DEF StartAttempt, Holds, TypeOK
  <2>2. CASE IncrConcurrency(e) BY <2>2 DEF IncrConcurrency, Holds, TypeOK
  <2>3. CASE StartFails(e) BY <2>3 DEF StartFails, Holds, TypeOK
  <2> QED BY <1>3, <2>1, <2>2, <2>3 DEF StartNext
<1>4. ASSUME NEW e \in Execs, NEW k \in Kinds, ReportNext(e, k) PROVE TicketsStay \/ ScheduleRetry(e)
  <2> USE DEF Advance, Holds, TypeOK, Kinds, InFlight
  <2>1. CASE ReadOperation(e, k) BY <2>1 DEF ReadOperation
  <2>2. CASE DecrConcurrency(e, k) BY <2>2 DEF DecrConcurrency
  <2>3. CASE ClampConcurrency(e, k) BY <2>3 DEF ClampConcurrency
  <2>4. CASE CompleteAttemptSuccess(e) BY <2>4 DEF CompleteAttemptSuccess
  <2>5. CASE FinishSuccess(e) BY <2>5 DEF FinishSuccess
  <2>6. CASE CompleteAttemptFailure(e) BY <2>6 DEF CompleteAttemptFailure
  <2>7. CASE FinishFailure(e) BY <2>7 DEF FinishFailure
  <2> QED BY <1>4, <2>1, <2>2, <2>3, <2>4, <2>5, <2>6, <2>7 DEF ReportNext
<1>5. ASSUME NEW e \in Execs, NEW k \in Kinds,
             NotifyNext(e, k) \/ NotifyFails(e, k) \/ CounterFails(e, k) \/ ReportFails(e, k)
      PROVE  TicketsStay
  <2>1. CASE NotifyNext(e, k) \/ NotifyFails(e, k)
    BY <2>1 DEF NotifyNext, NotifyFails, RecordUsage, DispatchWebhook, Holds
  <2>2. CASE CounterFails(e, k)
    BY <2>2 DEF CounterFails, Advance, Holds, TypeOK, Kinds, InFlight
  <2>3. CASE ReportFails(e, k)
    BY <2>3 DEF ReportFails, Advance, Holds, TypeOK, Kinds, InFlight
  <2> QED BY <1>5, <2>1, <2>2, <2>3
<1>6. ASSUME SchedulerNext \/ PromoteFails \/ Restart PROVE TicketsStay \/ PromoteDue
  BY <1>6 DEF SchedulerNext, ReadDue, PromoteFails, Restart, Holds
<1>7. ASSUME NEW r \in Requests, CreateFails(r) PROVE TicketsStay
  BY <1>7 DEF CreateFails, Answer, Holds, TypeOK
<1>8. ASSUME NEW t \in Tenants, NEW o \in Requests, CancelOperation(t, o) PROVE TicketsStay
  BY <1>8 DEF CancelOperation, Holds
<1>9. ASSUME NEW e \in Execs, FetchRaises(e) \/ InputRaises(e) \/ Crash(e) PROVE TicketsStay
  <2>1. CASE FetchRaises(e) BY <2>1 DEF FetchRaises, Return, Holds, TypeOK
  <2>2. CASE InputRaises(e) BY <2>2 DEF InputRaises, Holds, TypeOK
  <2>3. CASE Crash(e) BY <2>3 DEF Crash, Holds, TypeOK
  <2> QED BY <1>9, <2>1, <2>2, <2>3
<1> HIDE DEF TicketsStay
<1> QED BY <1>1, <1>2, <1>3, <1>4, <1>5, <1>6, <1>7, <1>8, <1>9 DEF Next, Trouble

\* No step makes a second ticket of an operation.
LEMMA TicketStep ==
  ASSUME TypeOK, IsFiniteSet(delayed), Shape, RowsExist, SingleTicket, Next PROVE SingleTicket'
<1>1. CASE TicketsStay BY <1>1 DEF TicketsStay, SingleTicket
<1>2. ASSUME NEW r \in Requests, InsertOperation(r) PROVE SingleTicket'
  <2>1. /\ UNCHANGED <<mainQ, delayed, op>> /\ status[r] = "ABSENT"
        /\ \A s \in Requests : call'[s] = "enqueue" => s = r \/ call[s] = "enqueue"
    BY <1>2 DEF InsertOperation, Answer, TypeOK, RowsExist, redis, workers
  <2>2. \A e \in Execs : Holds(e)' => Holds(e)
    BY <1>2 DEF InsertOperation, Holds, workers, handlers
  <2>3. \A e \in Execs : Holds(e) => pc[e] # "unused"
    BY DEF Holds, Shape, InFlight
  <2>4. /\ \A i \in 1..Len(mainQ) : mainQ[i].op # r
        /\ \A a \in delayed : a.op # r
        /\ \A e \in Execs : Holds(e) => op[e] # r
    BY <2>1, <2>3 DEF RowsExist
  <2> QED BY <2>1, <2>2, <2>4 DEF SingleTicket
<1>3. ASSUME NEW r \in Requests, Enqueue(r) PROVE SingleTicket'
  <2>1. /\ call[r] = "enqueue" /\ delayed' = delayed /\ op' = op
        /\ \A s \in Requests : call'[s] = "enqueue" => s # r /\ call[s] = "enqueue"
    BY <1>3 DEF Enqueue, Answer, TypeOK, workers
  <2>2. \A e \in Execs : Holds(e)' => Holds(e)
    BY <1>3 DEF Enqueue, Holds, workers, handlers
  <2>3. \A i \in 1..Len(mainQ') : \/ i \in 1..Len(mainQ) /\ mainQ'[i] = mainQ[i]
                                  \/ i = Len(mainQ) + 1 /\ mainQ'[i].op = r
    <3> DEFINE new == [op |-> r, from |-> 0]
    <3>1. mainQ \in Seq(Job) /\ new \in Job /\ mainQ' = Append(mainQ, new) /\ new.op = r
      BY <1>3 DEF Enqueue, TypeOK, Job
    <3> HIDE DEF new
    <3>2. Len(mainQ) \in Nat /\ Len(mainQ') = Len(mainQ) + 1 BY <3>1
    <3>3. \A i \in 1..Len(mainQ) : mainQ'[i] = mainQ[i] BY <3>1
    <3>4. mainQ'[Len(mainQ) + 1] = new BY <3>1
    <3>5. \A i \in 1..Len(mainQ') : i \in 1..Len(mainQ) \/ i = Len(mainQ) + 1 BY <3>2
    <3>6. mainQ'[Len(mainQ) + 1].op = r BY <3>1, <3>4
    <3> TAKE i \in 1..Len(mainQ')
    <3>7. CASE i \in 1..Len(mainQ) BY <3>3, <3>7
    <3>8. CASE i = Len(mainQ) + 1 BY <3>6, <3>8
    <3> QED BY <3>5, <3>7, <3>8
  <2>4. ASSUME NEW i \in 1..Len(mainQ'), NEW j \in 1..Len(mainQ'), mainQ'[i].op = mainQ'[j].op
        PROVE  i = j
    <3>1. \A h \in 1..Len(mainQ) : mainQ[h].op # r BY <2>1 DEF SingleTicket
    <3>2. CASE i \in 1..Len(mainQ) /\ j \in 1..Len(mainQ)
      <4>1. Len(mainQ) \in Nat BY DEF TypeOK
      <4>2. mainQ'[i] = mainQ[i] /\ mainQ'[j] = mainQ[j] BY <2>3, <3>2, <4>1
      <4> QED BY <2>4, <3>2, <4>2 DEF SingleTicket
    <3> QED BY <2>3, <2>4, <3>1, <3>2
  <2> QED BY <2>1, <2>2, <2>3, <2>4 DEF SingleTicket
<1>4. ASSUME NEW e \in Execs, PopJob(e) PROVE SingleTicket' BY <1>4, PopTicket
<1>5. ASSUME NEW e \in Execs, ScheduleRetry(e) PROVE SingleTicket'
  <2> DEFINE new == [op |-> op[e], from |-> e]
  <2>1. /\ UNCHANGED <<mainQ, op, call>> /\ delayed' = delayed \cup {new}
        /\ report' = [report EXCEPT !["failure"][e] = "ok"] /\ UNCHANGED <<pc, start>>
    BY <1>5 DEF ScheduleRetry, Advance, workers, creates
  <2>2. Holds(e) BY <1>5 DEF ScheduleRetry, Advance, Holds, InFlight
  <2>3. ~Holds(e)'
    BY <1>5, <2>1 DEF ScheduleRetry, Advance, Shape, Holds, TypeOK, Kinds, InFlight
  <2>4. \A d \in Execs : d # e => (Holds(d)' <=> Holds(d))
    BY <2>1 DEF Holds, TypeOK, Kinds
  <2>5. /\ \A i \in 1..Len(mainQ) : mainQ[i].op # new.op
        /\ \A a \in delayed : a.op # new.op
        /\ \A d \in Execs : Holds(d) /\ d # e => op[d] # new.op
        /\ \A r \in Requests : call[r] = "enqueue" => new.op # r
    BY <2>2 DEF SingleTicket
  <2> HIDE DEF new
  <2> QED BY <2>1, <2>3, <2>4, <2>5 DEF SingleTicket
<1>6. CASE PromoteDue BY <1>6, PromoteTicket
<1> QED BY <1>1, <1>2, <1>3, <1>4, <1>5, <1>6, TicketMoves

\* No step makes an operation RUNNING while a job of it waits.
LEMMA WaitingStep ==
  ASSUME TypeOK, IsFiniteSet(delayed), Shape, RowsExist, SingleTicket, WaitingIsNotRunning, Next
  PROVE  WaitingIsNotRunning'
<1> USE DEF postgres, redis, creates, workers, handlers, TypeOK, Kinds, InFlight, Active,
        Shape, RowsExist, SingleTicket, WaitingIsNotRunning, Holds
<1>1. ASSUME NEW r \in Requests, CreateNext(r) PROVE WaitingIsNotRunning'
  <2>1. CASE \E from \in {"new", "refetch"} : ReplayExisting(r, from)
    BY <2>1 DEF ReplayExisting, Answer, Matching
  <2>2. CASE LookupMisses(r) BY <2>2 DEF LookupMisses, Answer, Matching
  <2>3. CASE InsertOperation(r) BY <2>3 DEF InsertOperation, Answer, Matching
  <2>4. CASE InsertConflicts(r) BY <2>4 DEF InsertConflicts, Answer, Matching
  <2>5. CASE Enqueue(r) BY <2>5 DEF Enqueue, Answer
  <2>6. CASE TransitionToQueued(r) BY <2>6 DEF TransitionToQueued, Answer
  <2> QED BY <1>1, <2>1, <2>2, <2>3, <2>4, <2>5, <2>6 DEF CreateNext
<1>2. ASSUME NEW e \in Execs, WorkerNext(e) PROVE WaitingIsNotRunning'
  <2>1. CASE PopJob(e)
    <3>1. /\ op'[e] = mainQ[1].op /\ 1 \in 1..Len(mainQ)
          /\ \A i \in 1..Len(mainQ') : i + 1 \in 1..Len(mainQ) /\ mainQ'[i] = mainQ[i + 1]
      BY <2>1, PoppedJob
    <3> QED BY <2>1, <3>1 DEF PopJob
  <2>2. CASE SkipTerminal(e) BY <2>2 DEF SkipTerminal, Return, SkipStatuses
  <2>3. CASE FetchOperation(e) BY <2>3 DEF FetchOperation, SkipStatuses
  <2>4. CASE StartReturns(e) BY <2>4 DEF StartReturns
  <2>5. CASE StartRaises(e) BY <2>5 DEF StartRaises, Return
  <2>6. CASE WorkSucceeds(e) BY <2>6 DEF WorkSucceeds, SendReport
  <2>7. CASE \E c \in {"transient", "permanent"} : WorkFails(e, c)
    BY <2>7 DEF WorkFails, SendReport
  <2>8. CASE ReportReturns(e) BY <2>8 DEF ReportReturns, Return
  <2>9. CASE SuccessRaises(e) BY <2>9 DEF SuccessRaises, SendReport
  <2>10. CASE FailureRaises(e) BY <2>10 DEF FailureRaises
  <2> QED BY <1>2, <2>1, <2>2, <2>3, <2>4, <2>5, <2>6, <2>7, <2>8, <2>9, <2>10 DEF WorkerNext
<1>3. ASSUME NEW e \in Execs, StartNext(e) PROVE WaitingIsNotRunning'
  <2>1. CASE StartAttempt(e) BY <2>1 DEF StartAttempt
  <2>2. CASE IncrConcurrency(e) BY <2>2 DEF IncrConcurrency
  <2> QED BY <1>3, <2>1, <2>2 DEF StartNext
<1>4. ASSUME NEW e \in Execs, NEW k \in Kinds, ReportNext(e, k) PROVE WaitingIsNotRunning'
  <2>1. CASE ReadOperation(e, k) BY <2>1 DEF ReadOperation, Advance
  <2>2. CASE DecrConcurrency(e, k) BY <2>2 DEF DecrConcurrency, Advance
  <2>3. CASE ClampConcurrency(e, k) BY <2>3 DEF ClampConcurrency, Advance
  <2>4. CASE CompleteAttemptSuccess(e)
    BY <2>4 DEF CompleteAttemptSuccess, Advance, GuardedUpdate
  <2>5. CASE FinishSuccess(e) BY <2>5 DEF FinishSuccess, Advance
  <2>6. CASE CompleteAttemptFailure(e)
    BY <2>6 DEF CompleteAttemptFailure, Advance, GuardedUpdate, NextStatus, WillRetry
  <2>7. CASE ScheduleRetry(e) BY <2>7 DEF ScheduleRetry, Advance, WillRetry
  <2>8. CASE FinishFailure(e) BY <2>8 DEF FinishFailure, Advance, WillRetry
  <2> QED BY <1>4, <2>1, <2>2, <2>3, <2>4, <2>5, <2>6, <2>7, <2>8 DEF ReportNext
<1>5. ASSUME NEW e \in Execs, NEW k \in Kinds, NotifyNext(e, k) PROVE WaitingIsNotRunning'
  <2>1. CASE RecordUsage(e) BY <2>1 DEF RecordUsage, Notify
  <2>2. CASE DispatchWebhook(e, k) BY <2>2 DEF DispatchWebhook, Notify
  <2> QED BY <1>5, <2>1, <2>2 DEF NotifyNext
<1>6. ASSUME SchedulerNext PROVE WaitingIsNotRunning'
  <2>1. CASE ReadDue BY <2>1 DEF ReadDue
  <2>2. CASE PromoteDue
    <3>1. \A i \in 1..Len(mainQ') : \/ i \in 1..Len(mainQ) /\ mainQ'[i] = mainQ[i]
                                    \/ mainQ'[i] \in due
      BY <2>2, PromotedJobs
    <3> QED BY <2>2, <3>1 DEF PromoteDue
  <2> QED BY <1>6, <2>1, <2>2 DEF SchedulerNext
<1>7. ASSUME NEW r \in Requests, CreateFails(r) PROVE WaitingIsNotRunning'
  BY <1>7 DEF CreateFails, Answer
<1>8. ASSUME NEW t \in Tenants, NEW o \in Requests, CancelOperation(t, o) PROVE WaitingIsNotRunning'
  BY <1>8 DEF CancelOperation, NotCancellable
<1>9. ASSUME PromoteFails \/ Restart PROVE WaitingIsNotRunning'
  BY <1>9 DEF PromoteFails, Restart
<1>10. ASSUME NEW e \in Execs, FetchRaises(e) PROVE WaitingIsNotRunning'
  BY <1>10 DEF FetchRaises, Return
<1>11. ASSUME NEW e \in Execs, StartFails(e) PROVE WaitingIsNotRunning'
  BY <1>11 DEF StartFails
<1>12. ASSUME NEW e \in Execs, InputRaises(e) PROVE WaitingIsNotRunning'
  BY <1>12 DEF InputRaises
<1>13. ASSUME NEW e \in Execs, Crash(e) PROVE WaitingIsNotRunning'
  BY <1>13 DEF Crash
<1>14. ASSUME NEW e \in Execs, NEW k \in Kinds, CounterFails(e, k) PROVE WaitingIsNotRunning'
  BY <1>14 DEF CounterFails, Advance
<1>15. ASSUME NEW e \in Execs, NEW k \in Kinds, ReportFails(e, k) PROVE WaitingIsNotRunning'
  BY <1>15 DEF ReportFails, Advance
<1>16. ASSUME NEW e \in Execs, NEW k \in Kinds, NotifyFails(e, k) PROVE WaitingIsNotRunning'
  BY <1>16 DEF NotifyFails, Notify
<1> HIDE DEF TypeOK, Shape, RowsExist, SingleTicket, WaitingIsNotRunning
<1> QED BY <1>1, <1>2, <1>3, <1>4, <1>5, <1>6, <1>7, <1>8, <1>9, <1>10, <1>11, <1>12, <1>13,
       <1>14, <1>15, <1>16 DEF Next, Trouble

\* Attempts are left wherever one may start, and no read of attempt_count is
\* overtaken.
LEMMA BudgetStep ==
  ASSUME TypeOK, IsFiniteSet(delayed), Shape, RowsExist, SingleTicket, WaitingIsNotRunning,
         Budget, Next
  PROVE  Budget'
<1> USE DEF postgres, redis, creates, workers, handlers, TypeOK, Kinds, InFlight, Active,
        Shape, RowsExist, SingleTicket, WaitingIsNotRunning, Budget, Holds
<1>1. ASSUME NEW r \in Requests, CreateNext(r) PROVE Budget'
  <2>1. CASE \E from \in {"new", "refetch"} : ReplayExisting(r, from)
    BY <2>1 DEF ReplayExisting, Answer, Matching
  <2>2. CASE LookupMisses(r) BY <2>2 DEF LookupMisses, Answer, Matching
  <2>3. CASE InsertOperation(r)
    BY <2>3, RetriesAssumption DEF InsertOperation, Answer
  <2>4. CASE InsertConflicts(r) BY <2>4 DEF InsertConflicts, Answer, Matching
  <2>5. CASE Enqueue(r) BY <2>5 DEF Enqueue, Answer
  <2>6. CASE TransitionToQueued(r) BY <2>6 DEF TransitionToQueued, Answer
  <2> QED BY <1>1, <2>1, <2>2, <2>3, <2>4, <2>5, <2>6 DEF CreateNext
<1>2. ASSUME NEW e \in Execs, WorkerNext(e) PROVE Budget'
  <2>1. CASE PopJob(e)
    <3>1. /\ op'[e] = mainQ[1].op /\ 1 \in 1..Len(mainQ)
          /\ \A i \in 1..Len(mainQ') : i + 1 \in 1..Len(mainQ) /\ mainQ'[i] = mainQ[i + 1]
      BY <2>1, PoppedJob
    <3> QED BY <2>1, <3>1 DEF PopJob
  <2>2. CASE SkipTerminal(e) BY <2>2 DEF SkipTerminal, Return, SkipStatuses
  <2>3. CASE FetchOperation(e) BY <2>3 DEF FetchOperation, SkipStatuses
  <2>4. CASE StartReturns(e) BY <2>4 DEF StartReturns
  <2>5. CASE StartRaises(e) BY <2>5 DEF StartRaises, Return
  <2>6. CASE WorkSucceeds(e) BY <2>6 DEF WorkSucceeds, SendReport
  <2>7. CASE \E c \in {"transient", "permanent"} : WorkFails(e, c)
    BY <2>7 DEF WorkFails, SendReport
  <2>8. CASE ReportReturns(e) BY <2>8 DEF ReportReturns, Return
  <2>9. CASE SuccessRaises(e) BY <2>9 DEF SuccessRaises, SendReport
  <2>10. CASE FailureRaises(e) BY <2>10 DEF FailureRaises
  <2> QED BY <1>2, <2>1, <2>2, <2>3, <2>4, <2>5, <2>6, <2>7, <2>8, <2>9, <2>10 DEF WorkerNext
<1>3. ASSUME NEW e \in Execs, StartNext(e) PROVE Budget'
  <2>1. CASE StartAttempt(e)
    BY <2>1, RetriesAssumption DEF StartAttempt
  <2>2. CASE IncrConcurrency(e) BY <2>2 DEF IncrConcurrency
  <2> QED BY <1>3, <2>1, <2>2 DEF StartNext
<1>4. ASSUME NEW e \in Execs, NEW k \in Kinds, ReportNext(e, k) PROVE Budget'
  <2>1. CASE ReadOperation(e, k) BY <2>1 DEF ReadOperation, Advance
  <2>2. CASE DecrConcurrency(e, k) BY <2>2 DEF DecrConcurrency, Advance
  <2>3. CASE ClampConcurrency(e, k) BY <2>3 DEF ClampConcurrency, Advance
  <2>4. CASE CompleteAttemptSuccess(e)
    BY <2>4 DEF CompleteAttemptSuccess, Advance, GuardedUpdate
  <2>5. CASE FinishSuccess(e) BY <2>5 DEF FinishSuccess, Advance
  <2>6. CASE CompleteAttemptFailure(e)
    BY <2>6 DEF CompleteAttemptFailure, Advance, GuardedUpdate, NextStatus, WillRetry
  <2>7. CASE ScheduleRetry(e)
    <3>1. attemptCount[op[e]] < MaxRetries
      BY <2>7 DEF ScheduleRetry, Advance, WillRetry
    <3> QED BY <2>7, <3>1 DEF ScheduleRetry, Advance
  <2>8. CASE FinishFailure(e) BY <2>8 DEF FinishFailure, Advance, WillRetry
  <2> QED BY <1>4, <2>1, <2>2, <2>3, <2>4, <2>5, <2>6, <2>7, <2>8 DEF ReportNext
<1>5. ASSUME NEW e \in Execs, NEW k \in Kinds, NotifyNext(e, k) PROVE Budget'
  <2>1. CASE RecordUsage(e) BY <2>1 DEF RecordUsage, Notify
  <2>2. CASE DispatchWebhook(e, k) BY <2>2 DEF DispatchWebhook, Notify
  <2> QED BY <1>5, <2>1, <2>2 DEF NotifyNext
<1>6. ASSUME SchedulerNext PROVE Budget'
  <2>1. CASE ReadDue BY <2>1 DEF ReadDue
  <2>2. CASE PromoteDue
    BY <2>2, PromotedJobs DEF PromoteDue
  <2> QED BY <1>6, <2>1, <2>2 DEF SchedulerNext
<1>7. ASSUME NEW r \in Requests, CreateFails(r) PROVE Budget'
  BY <1>7 DEF CreateFails, Answer
<1>8. ASSUME NEW t \in Tenants, NEW o \in Requests, CancelOperation(t, o) PROVE Budget'
  BY <1>8 DEF CancelOperation, NotCancellable
<1>9. ASSUME PromoteFails \/ Restart PROVE Budget'
  BY <1>9 DEF PromoteFails, Restart
<1>10. ASSUME NEW e \in Execs, FetchRaises(e) PROVE Budget'
  BY <1>10 DEF FetchRaises, Return
<1>11. ASSUME NEW e \in Execs, StartFails(e) PROVE Budget'
  BY <1>11 DEF StartFails
<1>12. ASSUME NEW e \in Execs, InputRaises(e) PROVE Budget'
  BY <1>12 DEF InputRaises
<1>13. ASSUME NEW e \in Execs, Crash(e) PROVE Budget'
  BY <1>13 DEF Crash
<1>14. ASSUME NEW e \in Execs, NEW k \in Kinds, CounterFails(e, k) PROVE Budget'
  BY <1>14 DEF CounterFails, Advance
<1>15. ASSUME NEW e \in Execs, NEW k \in Kinds, ReportFails(e, k) PROVE Budget'
  BY <1>15 DEF ReportFails, Advance
<1>16. ASSUME NEW e \in Execs, NEW k \in Kinds, NotifyFails(e, k) PROVE Budget'
  BY <1>16 DEF NotifyFails, Notify
<1> HIDE DEF TypeOK, Shape, RowsExist, SingleTicket, WaitingIsNotRunning, Budget
<1> QED BY <1>1, <1>2, <1>3, <1>4, <1>5, <1>6, <1>7, <1>8, <1>9, <1>10, <1>11, <1>12, <1>13,
       <1>14, <1>15, <1>16 DEF Next, Trouble

\* Attempt rows stay numbered without gap or repetition.
LEMMA HistoryStep ==
  ASSUME TypeOK, Shape, Budget, AttemptHistory, Next PROVE AttemptHistory'
<1> USE DEF postgres, redis, creates, workers, handlers, TypeOK, Kinds, InFlight, Active,
        Shape, Budget, AttemptHistory, Rows
<1>1. ASSUME NEW r \in Requests, CreateNext(r) PROVE AttemptHistory'
  <2>1. CASE \E from \in {"new", "refetch"} : ReplayExisting(r, from)
    BY <2>1 DEF ReplayExisting, Answer, Matching
  <2>2. CASE LookupMisses(r) BY <2>2 DEF LookupMisses, Answer, Matching
  <2>3. CASE InsertOperation(r) BY <2>3 DEF InsertOperation, Answer, Matching
  <2>4. CASE InsertConflicts(r) BY <2>4 DEF InsertConflicts, Answer, Matching
  <2>5. CASE Enqueue(r) BY <2>5 DEF Enqueue, Answer
  <2>6. CASE TransitionToQueued(r) BY <2>6 DEF TransitionToQueued, Answer
  <2> QED BY <1>1, <2>1, <2>2, <2>3, <2>4, <2>5, <2>6 DEF CreateNext
<1>2. ASSUME NEW e \in Execs, WorkerNext(e) PROVE AttemptHistory'
  <2>1. CASE PopJob(e) BY <2>1 DEF PopJob
  <2>2. CASE SkipTerminal(e) BY <2>2 DEF SkipTerminal, Return, SkipStatuses
  <2>3. CASE FetchOperation(e) BY <2>3 DEF FetchOperation, SkipStatuses
  <2>4. CASE StartReturns(e) BY <2>4 DEF StartReturns
  <2>5. CASE StartRaises(e) BY <2>5 DEF StartRaises, Return
  <2>6. CASE WorkSucceeds(e) BY <2>6 DEF WorkSucceeds, SendReport
  <2>7. CASE \E c \in {"transient", "permanent"} : WorkFails(e, c)
    BY <2>7 DEF WorkFails, SendReport
  <2>8. CASE ReportReturns(e) BY <2>8 DEF ReportReturns, Return
  <2>9. CASE SuccessRaises(e) BY <2>9 DEF SuccessRaises, SendReport
  <2>10. CASE FailureRaises(e) BY <2>10 DEF FailureRaises
  <2> QED BY <1>2, <2>1, <2>2, <2>3, <2>4, <2>5, <2>6, <2>7, <2>8, <2>9, <2>10 DEF WorkerNext
<1>3. ASSUME NEW e \in Execs, StartNext(e) PROVE AttemptHistory'
  <2>1. CASE StartAttempt(e) BY <2>1 DEF StartAttempt
  <2>2. CASE IncrConcurrency(e) BY <2>2 DEF IncrConcurrency
  <2> QED BY <1>3, <2>1, <2>2 DEF StartNext
<1>4. ASSUME NEW e \in Execs, NEW k \in Kinds, ReportNext(e, k) PROVE AttemptHistory'
  <2>1. CASE ReadOperation(e, k) BY <2>1 DEF ReadOperation, Advance
  <2>2. CASE DecrConcurrency(e, k) BY <2>2 DEF DecrConcurrency, Advance
  <2>3. CASE ClampConcurrency(e, k) BY <2>3 DEF ClampConcurrency, Advance
  <2>4. CASE CompleteAttemptSuccess(e)
    BY <2>4 DEF CompleteAttemptSuccess, Advance, GuardedUpdate
  <2>5. CASE FinishSuccess(e) BY <2>5 DEF FinishSuccess, Advance
  <2>6. CASE CompleteAttemptFailure(e)
    BY <2>6 DEF CompleteAttemptFailure, Advance, GuardedUpdate, NextStatus, WillRetry
  <2>7. CASE ScheduleRetry(e) BY <2>7 DEF ScheduleRetry, Advance, WillRetry
  <2>8. CASE FinishFailure(e) BY <2>8 DEF FinishFailure, Advance, WillRetry
  <2> QED BY <1>4, <2>1, <2>2, <2>3, <2>4, <2>5, <2>6, <2>7, <2>8 DEF ReportNext
<1>5. ASSUME NEW e \in Execs, NEW k \in Kinds, NotifyNext(e, k) PROVE AttemptHistory'
  <2>1. CASE RecordUsage(e) BY <2>1 DEF RecordUsage, Notify
  <2>2. CASE DispatchWebhook(e, k) BY <2>2 DEF DispatchWebhook, Notify
  <2> QED BY <1>5, <2>1, <2>2 DEF NotifyNext
<1>6. ASSUME SchedulerNext PROVE AttemptHistory'
  <2>1. CASE ReadDue BY <2>1 DEF ReadDue
  <2>2. CASE PromoteDue BY <2>2 DEF PromoteDue
  <2> QED BY <1>6, <2>1, <2>2 DEF SchedulerNext
<1>7. ASSUME NEW r \in Requests, CreateFails(r) PROVE AttemptHistory'
  BY <1>7 DEF CreateFails, Answer
<1>8. ASSUME NEW t \in Tenants, NEW o \in Requests, CancelOperation(t, o) PROVE AttemptHistory'
  BY <1>8 DEF CancelOperation, NotCancellable
<1>9. ASSUME PromoteFails \/ Restart PROVE AttemptHistory'
  BY <1>9 DEF PromoteFails, Restart
<1>10. ASSUME NEW e \in Execs, FetchRaises(e) PROVE AttemptHistory'
  BY <1>10 DEF FetchRaises, Return
<1>11. ASSUME NEW e \in Execs, StartFails(e) PROVE AttemptHistory'
  BY <1>11 DEF StartFails
<1>12. ASSUME NEW e \in Execs, InputRaises(e) PROVE AttemptHistory'
  BY <1>12 DEF InputRaises
<1>13. ASSUME NEW e \in Execs, Crash(e) PROVE AttemptHistory'
  BY <1>13 DEF Crash
<1>14. ASSUME NEW e \in Execs, NEW k \in Kinds, CounterFails(e, k) PROVE AttemptHistory'
  BY <1>14 DEF CounterFails, Advance
<1>15. ASSUME NEW e \in Execs, NEW k \in Kinds, ReportFails(e, k) PROVE AttemptHistory'
  BY <1>15 DEF ReportFails, Advance
<1>16. ASSUME NEW e \in Execs, NEW k \in Kinds, NotifyFails(e, k) PROVE AttemptHistory'
  <2>1. CASE Notify(e, k, "usage", "dispatch") BY <1>16, <2>1 DEF NotifyFails, Notify
  <2>2. CASE Notify(e, k, "dispatch", "lost") BY <1>16, <2>2 DEF NotifyFails, Notify
  <2> QED BY <1>16, <2>1, <2>2 DEF NotifyFails
<1> HIDE DEF TypeOK, Shape, Budget, AttemptHistory
<1> QED BY <1>1, <1>2, <1>3, <1>4, <1>5, <1>6, <1>7, <1>8, <1>9, <1>10, <1>11, <1>12, <1>13,
       <1>14, <1>15, <1>16 DEF Next, Trouble

\* The delayed set is finite: it only grows by one ZADD at a time.
LEMMA FiniteStep ==
  ASSUME TypeOK, IsFiniteSet(delayed), Next PROVE IsFiniteSet(delayed)'
<1>1. \/ delayed' = delayed
      \/ \E e \in Execs : delayed' = delayed \cup {[op |-> op[e], from |-> e]}
      \/ delayed' = delayed \ due
  BY DEF Next, CreateNext, WorkerNext, StartNext, ReportNext, NotifyNext, SchedulerNext,
         Trouble, redis, ReplayExisting, LookupMisses, InsertOperation, InsertConflicts,
         Enqueue, TransitionToQueued, PopJob, SkipTerminal, FetchOperation, StartReturns,
         StartRaises, WorkSucceeds, WorkFails, ReportReturns, SuccessRaises, FailureRaises,
         StartAttempt, IncrConcurrency, ReadOperation, DecrConcurrency, ClampConcurrency,
         CompleteAttemptSuccess, FinishSuccess, CompleteAttemptFailure, ScheduleRetry,
         FinishFailure, RecordUsage, DispatchWebhook, ReadDue, PromoteDue, PromoteFails,
         Restart, CreateFails, CancelOperation, FetchRaises, StartFails, InputRaises, Crash,
         CounterFails, ReportFails, NotifyFails
<1> QED BY <1>1, FS_AddElement, FS_Subset

\* The invariant holds initially.
LEMMA InitInv == Init => IndInv
<1> SUFFICES ASSUME Init PROVE IndInv OBVIOUS
<1>1. TypeOK
  <2>1. (CHOOSE r \in Requests : TRUE) \in Requests BY RequestsAssumption
  <2> QED BY <2>1, ReplicasAssumption DEF Init, TypeOK, Kinds, InFlight, Active, Statuses
<1>2. IsFiniteSet(delayed) BY FS_EmptySet DEF Init
<1>3. Shape BY DEF Init, Shape, Kinds
<1>4. RowsExist BY DEF Init, RowsExist
<1>5. SingleTicket BY DEF Init, SingleTicket, Holds, Kinds, InFlight
<1>6. WaitingIsNotRunning BY DEF Init, WaitingIsNotRunning, Kinds
<1>7. Budget BY RetriesAssumption DEF Init, Budget, Kinds, InFlight
<1>8. AttemptHistory BY DEF Init, AttemptHistory, Rows
<1> QED BY <1>1, <1>2, <1>3, <1>4, <1>5, <1>6, <1>7, <1>8 DEF IndInv

\* Every step keeps it.
LEMMA NextInv == IndInv /\ [Next]_vars => IndInv'
<1> SUFFICES ASSUME IndInv, [Next]_vars PROVE IndInv' OBVIOUS
<1>1. CASE Next
  BY <1>1, TypeStep, FiniteStep, ShapeStep, RowsStep, TicketStep, WaitingStep, BudgetStep,
     HistoryStep DEF IndInv
<1>2. CASE UNCHANGED vars
  BY <1>2 DEF vars, postgres, redis, creates, workers, handlers, IndInv, TypeOK, Shape,
     RowsExist, SingleTicket, WaitingIsNotRunning, Budget, AttemptHistory, Holds, Rows
<1> QED BY <1>1, <1>2

\* The inductive invariant holds in every reachable state, for every number of
\* requests, workers and attempts and every kind of trouble.
THEOREM InvariantHolds == Spec => []IndInv
BY InitInv, NextInv, PTL DEF Spec

\* The types of the variables.
THEOREM TypeCorrect == Spec => []TypeOK
<1>1. IndInv => TypeOK BY DEF IndInv
<1> QED BY <1>1, InvariantHolds, PTL

\* No two replicas, queues or late handlers ever hold the same operation.
THEOREM TicketIsSingle == Spec => []SingleTicket
<1>1. IndInv => SingleTicket BY DEF IndInv
<1> QED BY <1>1, InvariantHolds, PTL

\* No attempt is lined up behind a running one.
THEOREM NoneWaitsWhileRunning == Spec => []WaitingIsNotRunning
<1>1. IndInv => WaitingIsNotRunning BY DEF IndInv
<1> QED BY <1>1, InvariantHolds, PTL

\* Attempt rows are numbered 1..attempt_count.
THEOREM HistoryIsGapless == Spec => []AttemptHistory
<1>1. IndInv => AttemptHistory BY DEF IndInv
<1> QED BY <1>1, InvariantHolds, PTL

-----------------------------------------------------------------------------
(* Operations implements Lifecycle                                           *)

\* The steps of the service that write operations.status.
Writes == \/ \E r \in Requests : InsertOperation(r) \/ TransitionToQueued(r)
          \/ \E t \in Tenants, o \in Requests : CancelOperation(t, o)
          \/ \E e \in Execs : \/ StartAttempt(e)
                              \/ CompleteAttemptSuccess(e) \/ CompleteAttemptFailure(e)

\* No other step of the service or of a worker writes the operations table.
LEMMA FewWrite == Next => Writes \/ UNCHANGED <<status, attemptCount>>
BY DEF Writes, Next, CreateNext, WorkerNext, StartNext, ReportNext, NotifyNext, SchedulerNext,
       Trouble, postgres, ReplayExisting, LookupMisses, InsertConflicts, Enqueue, PopJob,
       SkipTerminal, FetchOperation, StartReturns, StartRaises, WorkSucceeds, WorkFails,
       ReportReturns, SuccessRaises, FailureRaises, IncrConcurrency, ReadOperation,
       DecrConcurrency, ClampConcurrency, FinishSuccess, ScheduleRetry, FinishFailure,
       RecordUsage, DispatchWebhook, ReadDue, PromoteDue, PromoteFails, Restart, CreateFails,
       FetchRaises, StartFails, InputRaises, Crash, CounterFails, ReportFails, NotifyFails

\* Every step of the service is a step of the lifecycle or leaves it alone.  The
\* start of an attempt needs the whole invariant: StartAttempt itself checks
\* neither the status nor the number it writes.
LEMMA StepImplements == IndInv /\ [Next]_vars => [LC!Next]_<<status, attemptCount>>
<1> SUFFICES ASSUME IndInv, Writes PROVE LC!Next \/ UNCHANGED <<status, attemptCount>>
  BY FewWrite DEF vars, postgres
<1> USE DEF IndInv, TypeOK, LC!Next, LC!Move
<1>1. ASSUME NEW r \in Requests, InsertOperation(r) PROVE LC!Create(r)
  BY <1>1 DEF InsertOperation, Answer, RowsExist, LC!Create
<1>2. ASSUME NEW r \in Requests, TransitionToQueued(r)
      PROVE  LC!Queue(r) \/ UNCHANGED <<status, attemptCount>>
  BY <1>2 DEF TransitionToQueued, LC!Queue
<1>3. ASSUME NEW t \in Tenants, NEW o \in Requests, CancelOperation(t, o) PROVE LC!Cancel(o)
  BY <1>3 DEF CancelOperation, NotCancellable, Statuses, LC!Cancel, LC!Statuses,
              LC!TerminalStatuses
<1>4. ASSUME NEW e \in Execs, StartAttempt(e) PROVE LC!Start(op[e])
  <2>1. start[e] = "sent" BY <1>4 DEF StartAttempt
  <2>2. pc[e] # "unused" BY <2>1 DEF Shape
  <2>3. status[op[e]] \in {"PENDING", "QUEUED", "RETRYING", "CANCELLED"}
    BY <2>1, <2>2 DEF RowsExist, WaitingIsNotRunning, Budget, Statuses
  <2>4. attemptCount[op[e]] < MaxRetries /\ number[e] = attemptCount[op[e]] + 1
    BY <2>1 DEF Budget
  <2> QED BY <1>4, <2>3, <2>4 DEF StartAttempt, LC!Start
<1>5. ASSUME NEW e \in Execs, CompleteAttemptSuccess(e)
      PROVE  LC!Succeed(op[e]) \/ UNCHANGED <<status, attemptCount>>
  BY <1>5 DEF CompleteAttemptSuccess, GuardedUpdate, LC!Succeed
<1>6. ASSUME NEW e \in Execs, CompleteAttemptFailure(e)
      PROVE  \/ LC!Fail(op[e]) \/ LC!Retry(op[e]) \/ LC!DeadLetter(op[e])
             \/ UNCHANGED <<status, attemptCount>>
  <2>1. snap[e] = attemptCount[op[e]] /\ attemptCount[op[e]] <= MaxRetries
    BY <1>6 DEF CompleteAttemptFailure, Advance, Budget, InFlight
  <2>2. category[e] \in {"transient", "permanent"}
    BY <1>6 DEF CompleteAttemptFailure, Advance, Shape
  <2>3. CASE WillRetry(e)
    BY <1>6, <2>1, <2>3 DEF CompleteAttemptFailure, GuardedUpdate, NextStatus, WillRetry, LC!Retry
  <2>4. CASE ~WillRetry(e) /\ category[e] = "permanent"
    BY <1>6, <2>4 DEF CompleteAttemptFailure, GuardedUpdate, NextStatus, LC!Fail
  <2>5. CASE ~WillRetry(e) /\ category[e] = "transient"
    <3>1. attemptCount[op[e]] = MaxRetries BY <2>1, <2>5, RetriesAssumption DEF WillRetry
    <3> QED BY <1>6, <2>5, <3>1 DEF CompleteAttemptFailure, GuardedUpdate, NextStatus, LC!DeadLetter
  <2> QED BY <2>2, <2>3, <2>4, <2>5
<1> QED BY <1>1, <1>2, <1>3, <1>4, <1>5, <1>6 DEF Writes

\* The service implements the lifecycle: at most max_retries attempts, one at a
\* time, RETRYING and DEAD_LETTERED exactly when attempts are and are not left.
THEOREM ImplementsLifecycle == Spec => Implements
<1>1. Init => LC!Init BY DEF Init, LC!Init
<1> QED BY <1>1, InvariantHolds, StepImplements, PTL DEF Spec, Implements, LC!Spec

\* No step takes an operation out of a final status.
LEMMA FinalStays ==
  ASSUME IndInv, [Next]_vars, NEW o \in Requests,
         status[o] \in {"SUCCEEDED", "FAILED", "DEAD_LETTERED"}
  PROVE  status'[o] = status[o]
<1>1. CASE LC!Next
  BY <1>1 DEF IndInv, TypeOK, LC!Next, LC!Move, LC!Create, LC!Queue, LC!Start, LC!Succeed,
     LC!Fail, LC!Retry, LC!DeadLetter, LC!Cancel, LC!Statuses, LC!TerminalStatuses
<1>2. CASE UNCHANGED <<status, attemptCount>> BY <1>2
<1> QED BY <1>1, <1>2, StepImplements

\* SUCCEEDED, FAILED and DEAD_LETTERED are final, whatever is late, lost or
\* repeated.
THEOREM FinalIsFinal == Spec => FinalStatesImmutable
<1> DEFINE Kept == \A o \in Requests : status[o] \in {"SUCCEEDED", "FAILED", "DEAD_LETTERED"}
                                        => status'[o] = status[o]
<1>1. IndInv /\ [Next]_vars => [Kept]_vars BY FinalStays
<1> QED BY <1>1, InvariantHolds, PTL DEF Spec, FinalStatesImmutable

-----------------------------------------------------------------------------
(* Idempotent creation                                                       *)

\* Outside createOperation no row appears or disappears.
LEMMA OthersKeepRows ==
  ASSUME IndInv, Next
  PROVE  \/ \E r \in Requests : CreateNext(r) \/ CreateFails(r)
         \/ UNCHANGED creates /\ \A o \in Requests : status'[o] = "ABSENT" <=> status[o] = "ABSENT"
<1>1. \/ \E r \in Requests : CreateNext(r) \/ CreateFails(r)
      \/ UNCHANGED creates
  BY DEF Next, WorkerNext, StartNext, ReportNext, NotifyNext, SchedulerNext, Trouble, PopJob,
       SkipTerminal, FetchOperation, StartReturns, StartRaises, WorkSucceeds, WorkFails,
       ReportReturns, SuccessRaises, FailureRaises, StartAttempt, IncrConcurrency,
       ReadOperation, DecrConcurrency, ClampConcurrency, CompleteAttemptSuccess, FinishSuccess,
       CompleteAttemptFailure, ScheduleRetry, FinishFailure, RecordUsage, DispatchWebhook,
       ReadDue, PromoteDue, PromoteFails, Restart, CancelOperation, FetchRaises, StartFails,
       InputRaises, Crash, CounterFails, ReportFails, NotifyFails
<1>2. ASSUME NEW r \in Requests, InsertOperation(r) \/ TransitionToQueued(r) PROVE CreateNext(r)
  BY <1>2 DEF CreateNext
<1>3. ASSUME NEW t \in Tenants, NEW o \in Requests, CancelOperation(t, o)
      PROVE  \A p \in Requests : status'[p] = "ABSENT" <=> status[p] = "ABSENT"
  BY <1>3 DEF CancelOperation, NotCancellable, IndInv, TypeOK
<1>4. ASSUME NEW e \in Execs,
             StartAttempt(e) \/ CompleteAttemptSuccess(e) \/ CompleteAttemptFailure(e)
      PROVE  \A p \in Requests : status'[p] = "ABSENT" <=> status[p] = "ABSENT"
  <2>1. CASE StartAttempt(e)
    <3>1. status[op[e]] # "ABSENT" BY <2>1 DEF StartAttempt, IndInv, Shape, RowsExist
    <3> QED BY <2>1, <3>1 DEF StartAttempt, IndInv, TypeOK
  <2>2. CASE CompleteAttemptSuccess(e)
    BY <2>2 DEF CompleteAttemptSuccess, GuardedUpdate, IndInv, TypeOK
  <2>3. CASE CompleteAttemptFailure(e)
    BY <2>3 DEF CompleteAttemptFailure, GuardedUpdate, NextStatus, IndInv, TypeOK
  <2> QED BY <1>4, <2>1, <2>2, <2>3
<1> QED BY <1>1, <1>2, <1>3, <1>4, FewWrite DEF Writes

\* The unique index keeps one row per tenant and key: an INSERT commits only if
\* no other did, whatever the lookup saw before.
LEMMA KeysStep == ASSUME IndInv, KeysUnique, [Next]_vars PROVE KeysUnique'
<1> USE DEF postgres, redis, creates, workers, handlers, KeysUnique, Matching, Answer, IndInv, TypeOK
<1>1. ASSUME NEW r \in Requests, CreateNext(r) PROVE KeysUnique'
  <2>1. CASE \E from \in {"new", "refetch"} : ReplayExisting(r, from)
    BY <2>1 DEF ReplayExisting
  <2>2. CASE LookupMisses(r) BY <2>2 DEF LookupMisses
  <2>3. CASE InsertOperation(r)
    <3>1. /\ \A o \in Requests : status'[o] # "ABSENT" => o = r \/ status[o] # "ABSENT"
          /\ \A o \in Requests : status[o] # "ABSENT" => status'[o] # "ABSENT"
          /\ UNCHANGED <<tenant, key, returned>> /\ Matching(r) = {}
          /\ call' = [call EXCEPT ![r] = "enqueue"]
      BY <2>3 DEF InsertOperation
    <3>2. ASSUME NEW p \in Requests, NEW q \in Requests, status'[p] # "ABSENT", q \in Matching(p)'
          PROVE  q = p
      <4>1. /\ tenant[q] = tenant[p] /\ key[q] = key[p] /\ key[p] # NoKey
            /\ q = r \/ status[q] # "ABSENT"
            /\ p = r \/ status[p] # "ABSENT"
        BY <3>1, <3>2
      <4>2. CASE p = r BY <3>1, <4>1, <4>2
      <4>3. CASE q = r BY <3>1, <4>1, <4>3
      <4>4. CASE p # r /\ q # r
        <5>1. status[p] # "ABSENT" /\ q \in Matching(p) BY <4>1, <4>4
        <5> QED BY <5>1
      <4> QED BY <4>2, <4>3, <4>4
    <3>3. returned[r] = r BY <2>3 DEF InsertOperation
    <3>4. ASSUME NEW p \in Requests
          PROVE  /\ call'[p] = "accepted" => status'[p] # "ABSENT"
                 /\ call'[p] = "replayed" => returned'[p] \in Matching(p)'
                 /\ call'[p] # "replayed" => returned'[p] = p
      BY <3>1, <3>3
    <3> QED BY <3>2, <3>4
  <2>4. CASE InsertConflicts(r) BY <2>4 DEF InsertConflicts
  <2>5. CASE Enqueue(r) BY <2>5 DEF Enqueue
  <2>6. CASE TransitionToQueued(r)
    <3>1. status[r] # "ABSENT" BY <2>6 DEF TransitionToQueued, RowsExist
    <3> QED BY <2>6, <3>1 DEF TransitionToQueued
  <2> QED BY <1>1, <2>1, <2>2, <2>3, <2>4, <2>5, <2>6 DEF CreateNext
<1>2. ASSUME NEW r \in Requests, CreateFails(r) PROVE KeysUnique'
  BY <1>2 DEF CreateFails
<1>3. ASSUME UNCHANGED creates,
             \A o \in Requests : status'[o] = "ABSENT" <=> status[o] = "ABSENT"
      PROVE  KeysUnique'
  BY <1>3
<1>4. CASE UNCHANGED vars BY <1>3, <1>4 DEF vars
<1> QED BY <1>1, <1>2, <1>3, <1>4, OthersKeepRows

\* Create calls with the same tenant and idempotency key get the same operation,
\* and at most one of them is told it was created, for any number of calls.
THEOREM CreateIsIdempotent == Spec => []IdempotentCreate
<1>1. Init => KeysUnique BY DEF Init, KeysUnique, Matching
<1>2. IndInv /\ KeysUnique /\ [Next]_vars => KeysUnique' BY KeysStep
<1>3. KeysUnique => IdempotentCreate
  BY DEF KeysUnique, Matching, IdempotentCreate
<1> QED BY <1>1, <1>2, <1>3, InvariantHolds, PTL DEF Spec
=============================================================================
