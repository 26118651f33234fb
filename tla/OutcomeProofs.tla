--------------------------- MODULE OutcomeProofs ---------------------------
(***************************************************************************)
(* Proofs about how operations end: what is billed, told and recorded      *)
(* agrees with the status, and no concurrency slot stays taken.  The code  *)
(* keeps none of this in general (a worker that gives up on a report sends *)
(* the opposite one, a failed command is not repeated); each theorem names *)
(* the trouble that must not happen and allows every other kind.           *)
(***************************************************************************)
EXTENDS OperationsProofs, FunctionTheorems

-----------------------------------------------------------------------------
(* A success is the last word                                                *)

\* Whoever holds an operation holds it alone.
LEMMA HolderIsAlone ==
  ASSUME SingleTicket, NEW e \in Execs, Holds(e), op[e] \in Requests
  PROVE  ~HeldElsewhere(op[e], e)
BY DEF SingleTicket, HeldElsewhere

\* An operation that nobody but e holds is not picked up by anybody else, unless e
\* schedules a retry.
LEMMA StaysAlone ==
  ASSUME IndInv, Next, NEW e \in Execs, pc[e] # "unused",
         ~HeldElsewhere(op[e], e), report["failure"][e] = "none"
  PROVE  op'[e] = op[e] /\ ~HeldElsewhere(op[e], e)'
<1> DEFINE o == op[e]
<1>1. TypeOK /\ Shape /\ RowsExist /\ IsFiniteSet(delayed) BY DEF IndInv
<1>2. o \in Requests /\ status[o] # "ABSENT" BY <1>1 DEF TypeOK, RowsExist
<1>3. /\ call[o] # "enqueue"
      /\ \A i \in 1..Len(mainQ) : mainQ[i].op # o
      /\ \A a \in delayed : a.op # o
      /\ \A d \in Execs : d # e /\ Holds(d) => op[d] # o
  BY DEF HeldElsewhere
<1> HIDE DEF o
<1> DEFINE Alone == /\ op'[e] = o /\ call'[o] # "enqueue"
                    /\ \A i \in 1..Len(mainQ') : mainQ'[i].op # o
                    /\ \A a \in delayed' : a.op # o
                    /\ \A d \in Execs : d # e /\ Holds(d)' => op'[d] # o
<1> SUFFICES Alone BY DEF HeldElsewhere, o
<1>4. CASE TicketsStay BY <1>2, <1>3, <1>4 DEF TicketsStay, o
<1>5. ASSUME NEW r \in Requests, InsertOperation(r)
      PROVE  /\ UNCHANGED <<mainQ, delayed, op, pc, start, report>>
             /\ call'[o] = call[o]
  BY <1>1, <1>2, <1>5 DEF InsertOperation, Answer, RowsExist, TypeOK, redis, workers, handlers
<1>6. ASSUME NEW r \in Requests, Enqueue(r)
      PROVE  /\ UNCHANGED <<delayed, op, pc, start, report>> /\ call'[o] = call[o]
             /\ \A i \in 1..Len(mainQ') : mainQ'[i].op # o
  <2>1. r # o /\ UNCHANGED <<delayed, op, pc, start, report>> /\ call'[o] = call[o]
    BY <1>1, <1>2, <1>3, <1>6 DEF Enqueue, Answer, TypeOK, workers, handlers
  <2> DEFINE new == [op |-> r, from |-> 0]
  <2>2. mainQ \in Seq(Job) /\ new \in Job /\ mainQ' = Append(mainQ, new) /\ new.op = r
    BY <1>1, <1>6 DEF Enqueue, TypeOK, Job
  <2> HIDE DEF new
  <2>3. \A i \in 1..Len(mainQ') : mainQ'[i] = new \/ (i \in 1..Len(mainQ) /\ mainQ'[i] = mainQ[i])
    BY <2>2
  <2> QED BY <1>3, <2>1, <2>2, <2>3
<1>7. ASSUME NEW d \in Execs, PopJob(d)
      PROVE  /\ UNCHANGED <<call, delayed, start, report>> /\ op'[e] = o /\ op'[d] # o
             /\ \A i \in 1..Len(mainQ') : mainQ'[i].op # o
             /\ \A c \in Execs : c # d => pc'[c] = pc[c] /\ op'[c] = op[c]
  <2>1. /\ op'[d] = mainQ[1].op /\ 1 \in 1..Len(mainQ)
        /\ \A i \in 1..Len(mainQ') : i + 1 \in 1..Len(mainQ) /\ mainQ'[i] = mainQ[i + 1]
    BY <1>1, <1>7, PoppedJob
  <2>2. /\ UNCHANGED <<call, delayed, start, report>> /\ d # e
        /\ \A c \in Execs : c # d => pc'[c] = pc[c] /\ op'[c] = op[c]
    BY <1>1, <1>7 DEF PopJob, TypeOK, creates, handlers
  <2> QED BY <1>3, <2>1, <2>2 DEF o
<1>8. ASSUME NEW d \in Execs, ScheduleRetry(d)
      PROVE  /\ UNCHANGED <<mainQ, op, call>> /\ \A a \in delayed' : a.op # o
             /\ \A c \in Execs : Holds(c)' => Holds(c)
  <2>1. d # e /\ Holds(d) BY <1>8 DEF ScheduleRetry, Advance, Holds, InFlight
  <2>2. /\ UNCHANGED <<mainQ, op, call, pc, start>>
        /\ delayed' = delayed \cup {[op |-> op[d], from |-> d]}
        /\ report' = [report EXCEPT !["failure"][d] = "ok"]
    BY <1>8 DEF ScheduleRetry, Advance, creates, workers
  <2>3. \A c \in Execs : Holds(c)' => Holds(c)
    BY <1>1, <2>2 DEF Holds, TypeOK, Kinds, InFlight
  <2> QED BY <1>3, <2>1, <2>2, <2>3
<1>9. CASE PromoteDue
  <2>1. /\ UNCHANGED <<op, call, pc, start, report>> /\ delayed' \subseteq delayed
        /\ due \subseteq delayed
    BY <1>1, <1>9 DEF PromoteDue, TypeOK, creates, workers, handlers
  <2>2. \A i \in 1..Len(mainQ') : \/ i \in 1..Len(mainQ) /\ mainQ'[i] = mainQ[i]
                                  \/ mainQ'[i] \in due
    BY <1>1, <1>9, PromotedJobs
  <2>3. \A c \in Execs : Holds(c)' => Holds(c) BY <2>1 DEF Holds
  <2> QED BY <1>3, <2>1, <2>2, <2>3 DEF o
<1>10. ASSUME NEW r \in Requests, InsertOperation(r) \/ Enqueue(r)
       PROVE  \A c \in Execs : Holds(c)' => Holds(c)
  BY <1>5, <1>6, <1>10 DEF Holds
<1>11. ASSUME NEW d \in Execs, PopJob(d) PROVE \A c \in Execs : c # d /\ Holds(c)' => Holds(c)
  BY <1>7, <1>11 DEF Holds
<1>12. ASSUME NEW r \in Requests, InsertOperation(r) PROVE Alone
  BY <1>3, <1>5, <1>10, <1>12 DEF o
<1>13. ASSUME NEW r \in Requests, Enqueue(r) PROVE Alone
  BY <1>3, <1>6, <1>10, <1>13 DEF o
<1>14. ASSUME NEW d \in Execs, PopJob(d) PROVE Alone
  BY <1>3, <1>7, <1>11, <1>14
<1>15. ASSUME NEW d \in Execs, ScheduleRetry(d) PROVE Alone
  BY <1>3, <1>8, <1>15 DEF o
<1> HIDE DEF Alone
<1> QED BY <1>1, <1>4, <1>9, <1>12, <1>13, <1>14, <1>15, TicketMoves

\* What can become of the status of an operation that nobody but e holds.
LEMMA StatusMoves ==
  ASSUME IndInv, Next, NEW e \in Execs, ~HeldElsewhere(op[e], e),
         status[op[e]] \notin {"ABSENT", "PENDING"}
  PROVE  \/ status'[op[e]] = status[op[e]]
         \/ status'[op[e]] = "CANCELLED" /\ "cancel" \in Env
         \/ StartAttempt(e) \/ CompleteAttemptFailure(e)
         \/ /\ status[op[e]] = "RUNNING" /\ status'[op[e]] = "SUCCEEDED"
            /\ \E d \in Execs : CompleteAttemptSuccess(d) /\ op[d] = op[e]
<1> DEFINE o == op[e]
<1>1. TypeOK /\ Shape /\ RowsExist BY DEF IndInv
<1>2. o \in Requests BY <1>1 DEF TypeOK
<1>3. \A d \in Execs : d # e /\ Holds(d) => op[d] # o BY DEF HeldElsewhere
<1> HIDE DEF o
<1>4. ASSUME NEW r \in Requests, InsertOperation(r) PROVE status'[o] = status[o]
  BY <1>1, <1>2, <1>4 DEF InsertOperation, Answer, RowsExist, TypeOK, o
<1>5. ASSUME NEW r \in Requests, TransitionToQueued(r) PROVE status'[o] = status[o]
  BY <1>1, <1>2, <1>5 DEF TransitionToQueued, TypeOK, o
<1>6. ASSUME NEW t \in Tenants, NEW p \in Requests, CancelOperation(t, p)
      PROVE  status'[o] = status[o] \/ (status'[o] = "CANCELLED" /\ "cancel" \in Env)
  BY <1>1, <1>2, <1>6 DEF CancelOperation, TypeOK
<1>7. ASSUME NEW d \in Execs, StartAttempt(d) PROVE d = e \/ status'[o] = status[o]
  <2>1. Holds(d) BY <1>7 DEF StartAttempt, Holds
  <2> QED BY <1>1, <1>2, <1>3, <1>7, <2>1 DEF StartAttempt, TypeOK
<1>8. ASSUME NEW d \in Execs, CompleteAttemptFailure(d) PROVE d = e \/ status'[o] = status[o]
  <2>1. Holds(d) BY <1>8 DEF CompleteAttemptFailure, Advance, Holds, InFlight
  <2> QED BY <1>1, <1>2, <1>3, <1>8, <2>1 DEF CompleteAttemptFailure, GuardedUpdate, TypeOK
<1>9. ASSUME NEW d \in Execs, CompleteAttemptSuccess(d)
      PROVE  \/ status'[o] = status[o]
             \/ op[d] = o /\ status[o] = "RUNNING" /\ status'[o] = "SUCCEEDED"
  BY <1>1, <1>2, <1>9 DEF CompleteAttemptSuccess, GuardedUpdate, TypeOK
<1> QED BY <1>4, <1>5, <1>6, <1>7, <1>8, <1>9, FewWrite DEF Writes, o

\* What a decrement does to its report, and to no other.
LEMMA DecrReport ==
  ASSUME TypeOK, NEW e \in Execs, NEW k \in Kinds, DecrConcurrency(e, k)
  PROVE  /\ report[k][e] = "read" /\ report'[k][e] \in {"clamp", "counted"}
         /\ \A d \in Execs, j \in Kinds : d # e => report'[j][d] = report[j][d]
<1> DEFINE s == IF conc[tenant[op[e]]] - 1 < 0 THEN "clamp" ELSE "counted"
<1>1. report[k][e] = "read" /\ report' = [report EXCEPT ![k][e] = s]
  BY DEF DecrConcurrency, Advance
<1>2. s \in {"clamp", "counted"} OBVIOUS
<1> HIDE DEF s
<1> QED BY <1>1, <1>2 DEF TypeOK

\* How an exec comes to be at work, and to have its success reported.
ReportMoves(e) ==
  /\ pc'[e] = "work" \/ (pc'[e] = "start" /\ start'[e] \in {"started", "ok"}) =>
       \/ pc[e] = "work" \/ (pc[e] = "start" /\ start[e] \in {"started", "ok"})
       \/ StartAttempt(e)
  /\ report'["success"][e] \in InFlight \cup {"ok"} =>
       \/ /\ report["success"][e] \in InFlight \cup {"ok"}
          /\ report["failure"][e] = "none" => report'["failure"][e] = "none"
       \/ pc[e] = "work" /\ report'["failure"][e] = "none" /\ report'["success"][e] = "sent"
  /\ report'["success"][e] \in {"recorded", "ok"} =>
       report["success"][e] \in {"recorded", "ok"} \/ CompleteAttemptSuccess(e)
  /\ report["success"][e] = "ok" => report'["success"][e] = "ok"
  /\ note'["success"][e] # "none" => note["success"][e] # "none" \/ report'["success"][e] = "ok"

\* Every step moves an exec that way, if the worker waits for its reports.
LEMMA EveryReportMoves ==
  ASSUME TypeOK, Shape, Next, "timeout" \notin Env, NEW e \in Execs PROVE ReportMoves(e)
<1> USE DEF postgres, redis, creates, workers, handlers, TypeOK, Kinds, InFlight, Active,
        Shape, ReportMoves
<1>1. ASSUME UNCHANGED <<pc, start, report, note>> PROVE ReportMoves(e) BY <1>1
<1>2. ASSUME NEW r \in Requests, CreateNext(r) \/ CreateFails(r) PROVE ReportMoves(e)
  BY <1>2 DEF CreateNext, ReplayExisting, LookupMisses, InsertOperation, InsertConflicts, Enqueue,
     TransitionToQueued, CreateFails
<1>3. ASSUME NEW d \in Execs, WorkerNext(d) PROVE ReportMoves(e)
  <2>1. CASE PopJob(d) BY <2>1 DEF PopJob
  <2>2. CASE SkipTerminal(d) BY <2>2 DEF SkipTerminal, Return
  <2>3. CASE FetchOperation(d) BY <2>3 DEF FetchOperation
  <2>4. CASE StartReturns(d) BY <2>4 DEF StartReturns
  <2>5. CASE StartRaises(d) BY <2>5 DEF StartRaises, Return
  <2>6. CASE WorkSucceeds(d) BY <2>6 DEF WorkSucceeds, SendReport
  <2>7. CASE \E c \in {"transient", "permanent"} : WorkFails(d, c)
    BY <2>7 DEF WorkFails, SendReport
  <2>8. CASE ReportReturns(d) BY <2>8 DEF ReportReturns, Return
  <2>9. CASE SuccessRaises(d) BY <2>9 DEF SuccessRaises, SendReport
  <2>10. CASE FailureRaises(d) BY <2>10 DEF FailureRaises
  <2> QED BY <1>3, <2>1, <2>2, <2>3, <2>4, <2>5, <2>6, <2>7, <2>8, <2>9, <2>10 DEF WorkerNext
<1>4. ASSUME NEW d \in Execs, StartNext(d) \/ StartFails(d) PROVE ReportMoves(e)
  <2>1. CASE StartAttempt(d) BY <2>1 DEF StartAttempt
  <2>2. CASE IncrConcurrency(d) BY <2>2 DEF IncrConcurrency
  <2>3. CASE StartFails(d) BY <2>3 DEF StartFails
  <2> QED BY <1>4, <2>1, <2>2, <2>3 DEF StartNext
<1>5. ASSUME NEW d \in Execs, NEW k \in Kinds, ReportNext(d, k) PROVE ReportMoves(e)
  <2> USE DEF Advance
  <2>1. CASE ReadOperation(d, k) BY <2>1 DEF ReadOperation
  <2>2. CASE DecrConcurrency(d, k)
    <3>1. /\ UNCHANGED <<pc, start, note>>
          /\ \E s \in {"clamp", "counted"} : report' = [report EXCEPT ![k][d] = s]
          /\ report[k][d] = "read"
      BY <2>2 DEF DecrConcurrency
    <3> QED BY <3>1
  <2>3. CASE ClampConcurrency(d, k) BY <2>3 DEF ClampConcurrency
  <2>4. CASE CompleteAttemptSuccess(d)
    <3>1. /\ UNCHANGED <<pc, start, note>> /\ report["success"][d] = "counted"
          /\ report' = [report EXCEPT !["success"][d] = "recorded"]
      BY <2>4 DEF CompleteAttemptSuccess
    <3>2. CASE d = e BY <2>4, <3>1, <3>2
    <3>3. CASE d # e BY <3>1, <3>3
    <3> QED BY <3>2, <3>3
  <2>5. CASE FinishSuccess(d) BY <2>5 DEF FinishSuccess
  <2>6. CASE CompleteAttemptFailure(d) BY <2>6 DEF CompleteAttemptFailure
  <2>7. CASE ScheduleRetry(d) BY <2>7 DEF ScheduleRetry
  <2>8. CASE FinishFailure(d) BY <2>8 DEF FinishFailure
  <2> QED BY <1>5, <2>1, <2>2, <2>3, <2>4, <2>5, <2>6, <2>7, <2>8 DEF ReportNext
<1>6. ASSUME NEW d \in Execs, NEW k \in Kinds, NotifyNext(d, k) \/ NotifyFails(d, k)
      PROVE  ReportMoves(e)
  <2>1. CASE RecordUsage(d) BY <2>1 DEF RecordUsage, Notify
  <2>2. CASE DispatchWebhook(d, k) BY <2>2 DEF DispatchWebhook, Notify
  <2>3. CASE NotifyFails(d, k)
    <3>1. CASE Notify(d, k, "usage", "dispatch") BY <2>3, <3>1 DEF NotifyFails, Notify
    <3>2. CASE Notify(d, k, "dispatch", "lost") BY <2>3, <3>2 DEF NotifyFails, Notify
    <3> QED BY <2>3, <3>1, <3>2 DEF NotifyFails
  <2> QED BY <1>6, <2>1, <2>2, <2>3 DEF NotifyNext
<1>7. ASSUME NEW d \in Execs, NEW k \in Kinds, CounterFails(d, k) PROVE ReportMoves(e)
  BY <1>7 DEF CounterFails, Advance
<1>8. ASSUME NEW d \in Execs, NEW k \in Kinds, ReportFails(d, k) PROVE ReportMoves(e)
  BY <1>8 DEF ReportFails, Advance
<1>9. ASSUME NEW d \in Execs, FetchRaises(d) \/ InputRaises(d) \/ Crash(d) PROVE ReportMoves(e)
  <2>1. CASE FetchRaises(d) BY <2>1 DEF FetchRaises, Return
  <2>2. CASE InputRaises(d) BY <2>2 DEF InputRaises
  <2>3. CASE Crash(d) BY <2>3 DEF Crash
  <2> QED BY <1>9, <2>1, <2>2, <2>3
<1>10. ASSUME SchedulerNext \/ PromoteFails \/ Restart PROVE ReportMoves(e)
  BY <1>1, <1>10 DEF SchedulerNext, ReadDue, PromoteDue, PromoteFails, Restart
<1>11. ASSUME NEW t \in Tenants, NEW o \in Requests, CancelOperation(t, o) PROVE ReportMoves(e)
  BY <1>1, <1>11 DEF CancelOperation
<1> HIDE DEF TypeOK, Shape, ReportMoves
<1> QED BY <1>2, <1>3, <1>4, <1>5, <1>6, <1>7, <1>8, <1>9, <1>10, <1>11 DEF Next, Trouble

\* An exec moves by its own steps and by those that end it.
LEMMA WorkerMoves ==
  ASSUME Next
  PROVE  \/ UNCHANGED <<pc, op>>
         \/ \E e \in Execs : WorkerNext(e) \/ FetchRaises(e) \/ InputRaises(e) \/ Crash(e)
<1> USE DEF workers
<1>1. ASSUME NEW r \in Requests, CreateNext(r) \/ CreateFails(r) PROVE UNCHANGED <<pc, op>>
  BY <1>1 DEF CreateNext, ReplayExisting, LookupMisses, InsertOperation, InsertConflicts, Enqueue,
     TransitionToQueued, CreateFails
<1>2. ASSUME NEW e \in Execs, StartNext(e) \/ StartFails(e) PROVE UNCHANGED <<pc, op>>
  BY <1>2 DEF StartNext, StartAttempt, IncrConcurrency, StartFails
<1>3. ASSUME NEW e \in Execs, NEW k \in Kinds, ReportNext(e, k) PROVE UNCHANGED <<pc, op>>
  BY <1>3 DEF ReportNext, ReadOperation, DecrConcurrency, ClampConcurrency, CompleteAttemptSuccess,
     FinishSuccess, CompleteAttemptFailure, ScheduleRetry, FinishFailure
<1>4. ASSUME NEW e \in Execs, NEW k \in Kinds,
             NotifyNext(e, k) \/ CounterFails(e, k) \/ ReportFails(e, k) \/ NotifyFails(e, k)
      PROVE  UNCHANGED <<pc, op>>
  BY <1>4 DEF NotifyNext, RecordUsage, DispatchWebhook, CounterFails, ReportFails, NotifyFails
<1>5. ASSUME SchedulerNext \/ PromoteFails \/ Restart PROVE UNCHANGED <<pc, op>>
  BY <1>5 DEF SchedulerNext, ReadDue, PromoteDue, PromoteFails, Restart
<1>6. ASSUME NEW t \in Tenants, NEW o \in Requests, CancelOperation(t, o) PROVE UNCHANGED <<pc, op>>
  BY <1>6 DEF CancelOperation
<1> QED BY <1>1, <1>2, <1>3, <1>4, <1>5, <1>6 DEF Next, Trouble

\* It works on one operation only.
LEMMA OpIsFixed ==
  ASSUME TypeOK, Next, NEW e \in Execs, pc[e] # "unused" PROVE op'[e] = op[e]
<1>1. op' = op \/ \E d \in Execs : WorkerNext(d)
  BY WorkerMoves DEF FetchRaises, InputRaises, Crash
<1>2. ASSUME NEW d \in Execs, WorkerNext(d) PROVE op' = op \/ PopJob(d)
  BY <1>2 DEF WorkerNext, SkipTerminal, FetchOperation, StartReturns, StartRaises, WorkSucceeds,
     WorkFails, ReportReturns, SuccessRaises, FailureRaises
<1> QED BY <1>1, <1>2 DEF PopJob, TypeOK

\* While the worker waits for its reports, a success stays the last word.
LEMMA SuccessStep ==
  ASSUME IndInv, SuccessIsLast, Next, "timeout" \notin Env PROVE SuccessIsLast'
<1>1. TypeOK /\ Shape /\ SingleTicket BY DEF IndInv
<1>2. \A e \in Execs : ReportMoves(e) BY <1>1, EveryReportMoves
<1>3. \A e \in Execs : pc[e] # "unused" => op'[e] = op[e] BY <1>1, OpIsFixed
<1>4. \A e \in Execs : op[e] \in Requests /\ op'[e] \in Requests
  BY <1>1, TypeStep DEF IndInv, TypeOK
<1>5. ASSUME NEW e \in Execs,
             pc'[e] = "work" \/ (pc'[e] = "start" /\ start'[e] \in {"started", "ok"})
      PROVE  status'[op'[e]] \in {"RUNNING", "CANCELLED"}
  <2>1. CASE StartAttempt(e) BY <1>1, <2>1 DEF StartAttempt, TypeOK, workers
  <2>2. CASE ~StartAttempt(e)
    <3>1. pc[e] = "work" \/ (pc[e] = "start" /\ start[e] \in {"started", "ok"})
      BY <1>2, <1>5, <2>2 DEF ReportMoves
    <3>2. status[op[e]] \in {"RUNNING", "CANCELLED"} BY <3>1 DEF SuccessIsLast
    <3>3. Holds(e) /\ op'[e] = op[e] BY <1>3, <3>1 DEF Holds
    <3>4. ~HeldElsewhere(op[e], e) BY <1>1, <1>4, <3>3, HolderIsAlone
    <3>5. ~CompleteAttemptFailure(e)
      BY <1>1, <3>1 DEF CompleteAttemptFailure, Advance, Shape
    <3>6. \A d \in Execs : CompleteAttemptSuccess(d) => op[d] # op[e]
      <4> SUFFICES ASSUME NEW d \in Execs, CompleteAttemptSuccess(d), op[d] = op[e] PROVE FALSE
        OBVIOUS
      <4>1. report["success"][d] = "counted" BY DEF CompleteAttemptSuccess, Advance
      <4>2. d # e BY <1>1, <3>1, <4>1 DEF Shape
      <4>3. ~HeldElsewhere(op[d], d) BY <4>1 DEF SuccessIsLast, InFlight
      <4> QED BY <3>3, <4>2, <4>3 DEF HeldElsewhere
    <3> QED BY <2>2, <3>2, <3>3, <3>4, <3>5, <3>6, StatusMoves
  <2> QED BY <2>1, <2>2
<1>6. ASSUME NEW e \in Execs, report'["success"][e] \in InFlight \cup {"ok"}
      PROVE  /\ report'["failure"][e] = "none"
             /\ ~HeldElsewhere(op[e], e)'
             /\ status'[op'[e]] \in {"RUNNING", "SUCCEEDED", "CANCELLED"}
             /\ report'["success"][e] \in {"recorded", "ok"} => status'[op'[e]] # "RUNNING"
  <2>1. /\ report["failure"][e] = "none" /\ report'["failure"][e] = "none"
        /\ ~HeldElsewhere(op[e], e) /\ pc[e] # "unused"
        /\ status[op[e]] \in {"RUNNING", "SUCCEEDED", "CANCELLED"}
        /\ start[e] = "ok"
        /\ report["success"][e] \in {"recorded", "ok"} => status[op[e]] # "RUNNING"
    <3>1. CASE pc[e] = "work" /\ report'["failure"][e] = "none"
      <4>1. /\ Holds(e) /\ report["failure"][e] = "none" /\ report["success"][e] = "none"
            /\ start[e] = "ok"
        BY <1>1, <3>1 DEF Holds, Shape
      <4>2. ~HeldElsewhere(op[e], e) BY <1>1, <1>4, <4>1, HolderIsAlone
      <4>3. status[op[e]] \in {"RUNNING", "CANCELLED"} BY <3>1 DEF SuccessIsLast
      <4> QED BY <3>1, <4>1, <4>2, <4>3
    <3>2. CASE /\ report["success"][e] \in InFlight \cup {"ok"}
               /\ report["failure"][e] = "none" => report'["failure"][e] = "none"
      <4>1. start[e] = "ok" /\ pc[e] # "unused" BY <1>1, <3>2 DEF Shape, InFlight
      <4> QED BY <3>2, <4>1 DEF SuccessIsLast
    <3> QED BY <1>2, <1>6, <3>1, <3>2 DEF ReportMoves
  <2>2. op'[e] = op[e] /\ ~HeldElsewhere(op[e], e)' BY <2>1, StaysAlone
  <2>3. ~StartAttempt(e) /\ ~CompleteAttemptFailure(e)
    BY <2>1 DEF StartAttempt, CompleteAttemptFailure, Advance
  <2>4. \/ status'[op[e]] = status[op[e]]
        \/ status'[op[e]] = "CANCELLED"
        \/ status[op[e]] = "RUNNING" /\ status'[op[e]] = "SUCCEEDED"
    BY <2>1, <2>3, StatusMoves
  <2>5. CompleteAttemptSuccess(e) => status'[op[e]] # "RUNNING"
    BY <1>1, <1>4 DEF CompleteAttemptSuccess, GuardedUpdate, TypeOK
  <2>6. report'["success"][e] \in {"recorded", "ok"} =>
          report["success"][e] \in {"recorded", "ok"} \/ CompleteAttemptSuccess(e)
    BY <1>2 DEF ReportMoves
  <2> QED BY <2>1, <2>2, <2>4, <2>5, <2>6
<1>7. ASSUME NEW e \in Execs, note'["success"][e] # "none" PROVE report'["success"][e] = "ok"
  BY <1>2, <1>7 DEF ReportMoves, SuccessIsLast
<1> QED BY <1>5, <1>6, <1>7 DEF SuccessIsLast

\* A worker that waits for its reports never has an attempt reported both ways, and
\* a success that is reported is the last word on its operation.  Errors, crashes
\* and cancellations do not change that.
THEOREM SuccessIsFinal == ASSUME "timeout" \notin Env PROVE Spec => []SuccessIsLast
<1>1. Init => SuccessIsLast BY DEF Init, SuccessIsLast, Kinds, InFlight
<1>2. IndInv /\ SuccessIsLast /\ [Next]_vars => SuccessIsLast'
  <2>1. ASSUME UNCHANGED vars, SuccessIsLast PROVE SuccessIsLast'
    BY <2>1 DEF vars, postgres, redis, creates, workers, handlers, SuccessIsLast, HeldElsewhere, Holds
  <2> QED BY <2>1, SuccessStep
<1> QED BY <1>1, <1>2, InvariantHolds, PTL DEF Spec

\* Nothing but a cancellation makes an operation CANCELLED.
LEMMA CancelStep ==
  ASSUME IndInv, CancelledByCustomer, [Next]_vars PROVE CancelledByCustomer'
<1> USE DEF CancelledByCustomer, IndInv, TypeOK
<1>1. CASE UNCHANGED status BY <1>1
<1>2. ASSUME NEW r \in Requests, InsertOperation(r) \/ TransitionToQueued(r)
      PROVE  CancelledByCustomer'
  BY <1>2 DEF InsertOperation, TransitionToQueued
<1>3. ASSUME NEW t \in Tenants, NEW o \in Requests, CancelOperation(t, o)
      PROVE  CancelledByCustomer'
  BY <1>3 DEF CancelOperation
<1>4. ASSUME NEW e \in Execs,
             StartAttempt(e) \/ CompleteAttemptSuccess(e) \/ CompleteAttemptFailure(e)
      PROVE  CancelledByCustomer'
  BY <1>4 DEF StartAttempt, CompleteAttemptSuccess, CompleteAttemptFailure, GuardedUpdate, NextStatus
<1> QED BY <1>1, <1>2, <1>3, <1>4, FewWrite DEF Writes, vars, postgres

\* Usage is written by the notifier of a success only.
LEMMA UsageMoves == ASSUME Next PROVE usage' = usage \/ \E e \in Execs : RecordUsage(e)
<1> USE DEF postgres
<1>1. ASSUME NEW r \in Requests, CreateNext(r) \/ CreateFails(r) PROVE usage' = usage
  BY <1>1 DEF CreateNext, ReplayExisting, LookupMisses, InsertOperation, InsertConflicts, Enqueue,
     TransitionToQueued, CreateFails
<1>2. ASSUME NEW e \in Execs, WorkerNext(e) PROVE usage' = usage
  BY <1>2 DEF WorkerNext, PopJob, SkipTerminal, FetchOperation, StartReturns, StartRaises,
     WorkSucceeds, WorkFails, ReportReturns, SuccessRaises, FailureRaises
<1>3. ASSUME NEW e \in Execs, \/ StartNext(e) \/ StartFails(e)
                              \/ FetchRaises(e) \/ InputRaises(e) \/ Crash(e)
      PROVE  usage' = usage
  BY <1>3 DEF StartNext, StartAttempt, IncrConcurrency, StartFails, FetchRaises, InputRaises, Crash
<1>4. ASSUME NEW e \in Execs, NEW k \in Kinds, ReportNext(e, k) PROVE usage' = usage
  BY <1>4 DEF ReportNext, ReadOperation, DecrConcurrency, ClampConcurrency, CompleteAttemptSuccess,
     FinishSuccess, CompleteAttemptFailure, ScheduleRetry, FinishFailure
<1>5. ASSUME NEW e \in Execs, NEW k \in Kinds,
             NotifyNext(e, k) \/ CounterFails(e, k) \/ ReportFails(e, k) \/ NotifyFails(e, k)
      PROVE  usage' = usage \/ RecordUsage(e)
  BY <1>5 DEF NotifyNext, DispatchWebhook, CounterFails, ReportFails, NotifyFails
<1>6. ASSUME SchedulerNext \/ PromoteFails \/ Restart PROVE usage' = usage
  BY <1>6 DEF SchedulerNext, ReadDue, PromoteDue, PromoteFails, Restart
<1>7. ASSUME NEW t \in Tenants, NEW o \in Requests, CancelOperation(t, o) PROVE usage' = usage
  BY <1>7 DEF CancelOperation
<1> QED BY <1>1, <1>2, <1>3, <1>4, <1>5, <1>6, <1>7 DEF Next, Trouble

\* Only operations that are SUCCEEDED are billed, whatever fails and crashes, if no
\* report is given up by the worker and no operation is cancelled.
THEOREM OnlySuccessIsBilled ==
  ASSUME "timeout" \notin Env, "cancel" \notin Env PROVE Spec => []BilledIsSucceeded
<1>1. Init => CancelledByCustomer /\ BilledIsSucceeded
  BY DEF Init, CancelledByCustomer, BilledIsSucceeded
<1>2. ASSUME IndInv, SuccessIsLast, CancelledByCustomer, BilledIsSucceeded, [Next]_vars
      PROVE  BilledIsSucceeded'
  <2>1. usage \subseteq Requests /\ \A o \in usage : status'[o] = "SUCCEEDED"
    BY <1>2, FinalStays DEF BilledIsSucceeded, IndInv, TypeOK
  <2>2. ASSUME NEW e \in Execs, RecordUsage(e) PROVE BilledIsSucceeded'
    <3>1. report["success"][e] = "ok" BY <1>2, <2>2 DEF RecordUsage, Notify, SuccessIsLast
    <3>2. op[e] \in Requests BY <1>2 DEF IndInv, TypeOK
    <3>3. status[op[e]] = "SUCCEEDED"
      BY <1>2, <3>1, <3>2 DEF SuccessIsLast, CancelledByCustomer
    <3> QED BY <2>1, <2>2, <3>3 DEF RecordUsage, BilledIsSucceeded
  <2> QED BY <1>2, <2>1, <2>2, UsageMoves DEF BilledIsSucceeded, vars, postgres
<1> QED BY <1>1, <1>2, CancelStep, InvariantHolds, SuccessIsFinal, PTL DEF Spec

-----------------------------------------------------------------------------
(* Verdicts on a reliable network: workers may crash or choke on their input, *)
(* and nothing else goes wrong                                               *)

\* A step on one operation leaves the verdicts on the others alone.
LEMMA VerdictKept ==
  ASSUME TypeOK, NEW e \in Execs, Verdict(e), op[e] \in Requests,
         UNCHANGED <<op, number, category>>, result'[e] = result[e], pc'[e] = pc[e],
         snap'[e] = snap[e], \A k \in Kinds : report'[k][e] = report[k][e] /\ note'[k][e] = note[k][e],
         result[e] = "none" \/ (status'[op[e]] = status[op[e]] /\ attemptCount'[op[e]] = attemptCount[op[e]])
  PROVE  Verdict(e)'
BY DEF Verdict, Last, WillRetry, NextStatus, Kinds, InFlight, TypeOK

\* The start of an attempt comes after the verdict on the one before.
LEMMA StartVerdicts ==
  ASSUME IndInv, Verdicts, NEW d \in Execs, StartAttempt(d) PROVE Verdicts'
<1> USE DEF postgres, redis, creates, workers, handlers
<1>1. TypeOK /\ Shape /\ WaitingIsNotRunning /\ Budget /\ AttemptHistory BY DEF IndInv
<1>2. start[d] = "sent" BY DEF StartAttempt
<1>3. /\ number[d] = attemptCount[op[d]] + 1
      /\ status[op[d]] \notin {"RUNNING", "SUCCEEDED", "FAILED", "DEAD_LETTERED"}
  BY <1>1, <1>2 DEF Budget, WaitingIsNotRunning
<1>4. /\ UNCHANGED <<pc, op, number, category, report, snap, note>>
      /\ status' = [status EXCEPT ![op[d]] = "RUNNING"]
      /\ attemptCount' = [attemptCount EXCEPT ![op[d]] = number[d]]
      /\ result' = [result EXCEPT ![d] = "null"]
  BY DEF StartAttempt
<1>5. Verdict(d)'
  <2>1. /\ report["success"][d] = "none" /\ report["failure"][d] = "none"
        /\ pc[d] # "succeed"
    BY <1>1, <1>2 DEF Shape
  <2>2. note["success"][d] = "none" /\ note["failure"][d] = "none"
    BY <2>1 DEF Verdicts, Verdict
  <2>3. /\ result'[d] = "null" /\ status'[op[d]] = "RUNNING"
        /\ number[d] = attemptCount'[op[d]]
    BY <1>1, <1>4 DEF TypeOK
  <2> QED BY <1>4, <2>1, <2>2, <2>3 DEF Verdict, Last, Kinds, InFlight
<1>6. ASSUME NEW e \in Execs, e # d PROVE Verdict(e)'
  <2>1. Verdict(e) /\ op[e] \in Requests /\ result'[e] = result[e]
    BY <1>1, <1>4, <1>6 DEF Verdicts, TypeOK
  <2>2. CASE op[e] # op[d] \/ result[e] = "none"
    BY <1>1, <1>4, <2>1, <2>2, VerdictKept DEF TypeOK
  <2>3. CASE op[e] = op[d] /\ result[e] # "none"
    <3>1. ~(result[e] = "false" /\ ~WillRetry(e)) /\ result[e] \notin {"null", "true"}
      BY <1>3, <2>1, <2>3 DEF Verdict, NextStatus
    <3>2. result[e] = "false" /\ WillRetry(e) BY <1>1, <2>3, <3>1 DEF TypeOK
    <3>3. number[e] \in 1..attemptCount[op[e]]
      BY <1>1, <2>1, <2>3 DEF AttemptHistory, Rows
    <3>4. ~Last(e)'
      BY <1>1, <1>3, <1>4, <2>1, <2>3, <3>3 DEF Last, TypeOK
    <3>5. WillRetry(e)' BY <1>4, <3>2 DEF WillRetry
    <3> QED BY <1>4, <2>1, <3>2, <3>4, <3>5 DEF Verdict
  <2> QED BY <2>2, <2>3
<1> QED BY <1>5, <1>6 DEF Verdicts

\* A verdict is given once, on the last attempt.
LEMMA CompleteVerdicts ==
  ASSUME IndInv, Verdicts, NEW d \in Execs,
         CompleteAttemptSuccess(d) \/ CompleteAttemptFailure(d)
  PROVE  Verdicts'
<1> USE DEF postgres, redis, creates, workers, handlers
<1>1. TypeOK /\ Shape /\ AttemptHistory BY DEF IndInv
<1>2. Verdict(d) /\ op[d] \in Requests BY <1>1 DEF Verdicts, TypeOK
<1>3. result[d] = "null" /\ Last(d) /\ status[op[d]] = "RUNNING"
  BY <1>2 DEF CompleteAttemptSuccess, CompleteAttemptFailure, Advance, Verdict, Kinds, InFlight
<1>4. /\ UNCHANGED <<attemptCount, pc, op, number, category, snap, note>>
      /\ \A e \in Execs : e # d => /\ result'[e] = result[e]
                                   /\ \A k \in Kinds : report'[k][e] = report[k][e]
      /\ \A o \in Requests : o # op[d] => status'[o] = status[o]
  BY <1>1, <1>2 DEF CompleteAttemptSuccess, CompleteAttemptFailure, Advance, GuardedUpdate, TypeOK, Kinds
<1>5. ASSUME CompleteAttemptSuccess(d) PROVE Verdict(d)'
  <2>1. /\ report'["success"][d] = "recorded" /\ report'["failure"][d] = report["failure"][d]
        /\ report["success"][d] = "counted"
        /\ result'[d] = "true" /\ status'[op[d]] = "SUCCEEDED"
    BY <1>1, <1>2, <1>3, <1>5 DEF CompleteAttemptSuccess, Advance, GuardedUpdate, TypeOK, Kinds
  <2> QED BY <1>2, <1>3, <1>4, <2>1 DEF Verdict, Last, Kinds, InFlight
<1>6. ASSUME CompleteAttemptFailure(d) PROVE Verdict(d)'
  <2>1. /\ report'["failure"][d] = "recorded" /\ report'["success"][d] = report["success"][d]
        /\ report["failure"][d] = "counted"
        /\ result'[d] = "false" /\ status'[op[d]] = NextStatus(d)
    BY <1>1, <1>2, <1>3, <1>6 DEF CompleteAttemptFailure, Advance, GuardedUpdate, TypeOK, Kinds
  <2> QED BY <1>2, <1>3, <1>4, <2>1 DEF Verdict, Last, Kinds, InFlight, NextStatus, WillRetry
<1>7. ASSUME NEW e \in Execs, e # d PROVE Verdict(e)'
  <2>1. Verdict(e) /\ op[e] \in Requests BY <1>1 DEF Verdicts, TypeOK
  <2>2. CASE op[e] # op[d] \/ result[e] = "none"
    BY <1>1, <1>4, <1>7, <2>1, <2>2, VerdictKept DEF TypeOK
  <2>3. CASE op[e] = op[d] /\ result[e] # "none"
    <3>1. ~(Last(e) /\ Last(d))
      BY <1>1, <1>2, <1>3, <1>7, <2>3 DEF AttemptHistory, Rows, Last
    <3>2. result[e] = "false" /\ WillRetry(e) /\ ~Last(e)
      BY <1>1, <1>3, <2>1, <2>3, <3>1 DEF Verdict, TypeOK
    <3>3. WillRetry(e)' /\ ~Last(e)' BY <1>4, <3>2 DEF WillRetry, Last
    <3>4. /\ pc'[e] = pc[e] /\ result'[e] = result[e] /\ note' = note
          /\ report'["success"][e] = report["success"][e]
          /\ report'["failure"][e] = report["failure"][e]
      BY <1>4, <1>7 DEF Kinds
    <3> QED BY <2>1, <3>2, <3>3, <3>4 DEF Verdict, Kinds, InFlight
  <2> QED BY <2>2, <2>3
<1> QED BY <1>5, <1>6, <1>7 DEF Verdicts

\* Every step keeps the verdicts, if nothing but workers fails.
LEMMA VerdictStep ==
  ASSUME IndInv, Verdicts, Next, Env \subseteq {"crash", "input"} PROVE Verdicts'
<1> USE DEF postgres, redis, creates, workers, handlers
<1>0. TypeOK /\ Shape /\ RowsExist BY DEF IndInv
<1>1. \A e \in Execs : /\ Verdict(e) /\ op[e] \in Requests
                       /\ result[e] # "none" =>
                            /\ status[op[e]] # "ABSENT"
                            /\ result[e] # "false" \/ Last(e) \/ ~WillRetry(e) => status[op[e]] # "PENDING"
  BY <1>0 DEF Verdicts, Verdict, NextStatus, TypeOK, Shape, RowsExist
<1>2. ASSUME UNCHANGED <<status, attemptCount, result, op, number, category, snap>>,
             \A e \in Execs : /\ pc'[e] = "succeed" => pc[e] = "succeed"
                              /\ \A k \in Kinds : report'[k][e] = report[k][e]
                              /\ \A k \in Kinds : note'[k][e] # "none" => note[k][e] # "none"
      PROVE  Verdicts'
  BY <1>1, <1>2 DEF Verdicts, Verdict, Last, WillRetry, NextStatus, Kinds, InFlight
<1>3. ASSUME NEW r \in Requests, CreateNext(r) PROVE Verdicts'
  <2>1. CASE \E from \in {"new", "refetch"} : ReplayExisting(r, from)
    BY <1>2, <2>1 DEF ReplayExisting
  <2>2. CASE LookupMisses(r) \/ InsertConflicts(r) \/ Enqueue(r)
    BY <1>2, <2>2 DEF LookupMisses, InsertConflicts, Enqueue
  <2>3. CASE InsertOperation(r) \/ TransitionToQueued(r)
    <3>1. /\ UNCHANGED <<attemptCount, result, pc, op, number, category, report, snap, note>>
          /\ \A o \in Requests : \/ status'[o] = status[o]
                                 \/ status[o] = "ABSENT"
                                 \/ status[o] = "PENDING"
      BY <1>0, <2>3 DEF InsertOperation, TransitionToQueued, Answer, RowsExist, TypeOK
    <3> QED BY <1>1, <3>1 DEF Verdicts, Verdict, Last, WillRetry, NextStatus, Kinds, InFlight
  <2> QED BY <1>3, <2>1, <2>2, <2>3 DEF CreateNext
<1>4. ASSUME NEW d \in Execs, PopJob(d) PROVE Verdicts'
  <2>1. /\ UNCHANGED <<status, attemptCount, result, number, category, report, snap, note>>
        /\ result[d] = "none" /\ pc'[d] = "fetch"
        /\ \A e \in Execs : e # d => op'[e] = op[e] /\ pc'[e] = pc[e]
    BY <1>0, <1>4 DEF PopJob, TypeOK, Shape
  <2> QED BY <1>1, <2>1 DEF Verdicts, Verdict, Last, WillRetry, NextStatus, Kinds, InFlight
<1>5. ASSUME NEW d \in Execs, FetchOperation(d) PROVE Verdicts'
  <2>1. /\ UNCHANGED <<status, attemptCount, result, op, category, report, snap, note>>
        /\ result[d] = "none" /\ pc'[d] = "start"
        /\ \A e \in Execs : e # d => number'[e] = number[e] /\ pc'[e] = pc[e]
    BY <1>0, <1>5 DEF FetchOperation, TypeOK, Shape
  <2> QED BY <1>1, <2>1 DEF Verdicts, Verdict, Last, WillRetry, NextStatus, Kinds, InFlight
<1>6. ASSUME NEW d \in Execs, SkipTerminal(d) \/ StartReturns(d) \/ StartRaises(d)
                               \/ ReportReturns(d) \/ FailureRaises(d)
                               \/ FetchRaises(d) \/ InputRaises(d) \/ Crash(d)
      PROVE  Verdicts'
  <2>1. /\ UNCHANGED <<status, attemptCount, result, op, number, category, report, snap, note>>
        /\ \E s \in {"work", "done", "dead"} : pc' = [pc EXCEPT ![d] = s]
    BY <1>6 DEF SkipTerminal, StartReturns, StartRaises, ReportReturns, FailureRaises, FetchRaises,
       InputRaises, Crash, Return
  <2> QED BY <1>0, <1>2, <2>1 DEF TypeOK
<1>7. ASSUME NEW d \in Execs, WorkSucceeds(d) \/ \E c \in {"transient", "permanent"} : WorkFails(d, c)
      PROVE  Verdicts'
  <2>1. /\ UNCHANGED <<status, attemptCount, result, op, number, snap, note>>
        /\ report["success"][d] = "none" /\ report["failure"][d] = "none"
        /\ result[d] # "none"
    BY <1>0, <1>7 DEF WorkSucceeds, WorkFails, SendReport, Shape
  <2>2. \A e \in Execs : e # d => /\ pc'[e] = pc[e] /\ category'[e] = category[e]
                                  /\ \A k \in Kinds : report'[k][e] = report[k][e]
    <3>1. CASE WorkSucceeds(d) BY <1>0, <3>1 DEF WorkSucceeds, SendReport, TypeOK, Kinds
    <3>2. ASSUME NEW c \in {"transient", "permanent"}, WorkFails(d, c)
          PROVE  \A e \in Execs : e # d => /\ pc'[e] = pc[e] /\ category'[e] = category[e]
                                           /\ \A k \in Kinds : report'[k][e] = report[k][e]
      BY <1>0, <3>2 DEF WorkFails, SendReport, TypeOK, Kinds
    <3> QED BY <1>7, <3>1, <3>2
  <2>3. \/ report'["success"][d] = "sent" /\ report'["failure"][d] = "none"
        \/ report'["success"][d] = "none" /\ report'["failure"][d] = "sent" /\ pc'[d] = "fail"
    <3>1. CASE WorkSucceeds(d) BY <1>0, <2>1, <3>1 DEF WorkSucceeds, SendReport, TypeOK, Kinds
    <3>2. ASSUME NEW c \in {"transient", "permanent"}, WorkFails(d, c)
          PROVE  report'["success"][d] = "none" /\ report'["failure"][d] = "sent" /\ pc'[d] = "fail"
      BY <1>0, <2>1, <3>2 DEF WorkFails, SendReport, TypeOK, Kinds
    <3> QED BY <1>7, <3>1, <3>2
  <2>4. Verdict(d)'
    BY <1>1, <2>1, <2>3 DEF Verdict, Last, Kinds, InFlight
  <2>5. ASSUME NEW e \in Execs, e # d PROVE Verdict(e)'
    BY <1>1, <2>1, <2>2, <2>5 DEF Verdict, Last, WillRetry, NextStatus, Kinds, InFlight
  <2> QED BY <2>4, <2>5 DEF Verdicts
<1>8. ASSUME NEW d \in Execs, SuccessRaises(d) PROVE FALSE
  BY <1>1, <1>8 DEF SuccessRaises, Verdict
<1>9. ASSUME NEW d \in Execs, IncrConcurrency(d) \/ StartFails(d) PROVE Verdicts'
  BY <1>2, <1>9 DEF IncrConcurrency, StartFails
<1>10. ASSUME NEW d \in Execs, NEW k \in Kinds, NEW from, NEW to, Advance(d, k, from, to),
              UNCHANGED <<status, attemptCount, result, pc, op, number, category>>,
              \A e \in Execs : e # d => /\ snap'[e] = snap[e]
                                       /\ \A j \in Kinds : note'[j][e] = note[j][e]
       PROVE  /\ \A e \in Execs : e # d => Verdict(e)'
              /\ report[k][d] = from /\ report'[k][d] = to
              /\ \A j \in Kinds : j # k => report'[j][d] = report[j][d]
  <2>1. \A e \in Execs : e # d => \A j \in Kinds : report'[j][e] = report[j][e]
    BY <1>0, <1>10 DEF Advance, TypeOK, Kinds
  <2>2. ASSUME NEW e \in Execs, e # d PROVE Verdict(e)'
    BY <1>0, <1>1, <1>10, <2>1, <2>2, VerdictKept
  <2> QED BY <1>0, <1>10, <2>2 DEF Advance, TypeOK, Kinds
<1>11. ASSUME NEW d \in Execs, NEW k \in Kinds,
              ReadOperation(d, k) \/ DecrConcurrency(d, k) \/ ClampConcurrency(d, k)
       PROVE  Verdicts'
  <2> DEFINE Early == InFlight \ {"recorded"}
  <2>1. PICK from \in Early, to \in Early : Advance(d, k, from, to)
    BY <1>11 DEF ReadOperation, DecrConcurrency, ClampConcurrency, InFlight
  <2>2. /\ UNCHANGED <<status, attemptCount, result, pc, op, number, category, note>>
        /\ \A e \in Execs : e # d => snap'[e] = snap[e]
    BY <1>0, <1>11 DEF ReadOperation, DecrConcurrency, ClampConcurrency, TypeOK
  <2>3. /\ \A e \in Execs : e # d => Verdict(e)'
        /\ report[k][d] = from /\ report'[k][d] = to
        /\ \A j \in Kinds : j # k => report'[j][d] = report[j][d]
    BY <1>10, <2>1, <2>2
  <2>4. result[d] = "null" BY <1>1, <2>1, <2>3 DEF Verdict
  <2>5. Verdict(d)'
    BY <1>1, <2>1, <2>2, <2>3, <2>4 DEF Verdict, Last, Kinds, InFlight
  <2> QED BY <2>3, <2>5 DEF Verdicts
<1>12. ASSUME NEW d \in Execs, FinishSuccess(d) PROVE Verdicts'
  <2>1. /\ Advance(d, "success", "recorded", "ok") /\ "success" \in Kinds /\ "failure" \in Kinds
        /\ UNCHANGED <<status, attemptCount, result, pc, op, number, category, snap>>
        /\ \A e \in Execs : e # d => \A j \in Kinds : note'[j][e] = note[j][e]
        /\ note'["failure"][d] = note["failure"][d]
    BY <1>0, <1>12 DEF FinishSuccess, TypeOK, Kinds
  <2>2. /\ \A e \in Execs : e # d => Verdict(e)'
        /\ report["success"][d] = "recorded" /\ report'["success"][d] = "ok"
        /\ report'["failure"][d] = report["failure"][d]
    BY <1>10, <2>1
  <2>3. Verdict(d)'
    BY <1>1, <2>1, <2>2 DEF Verdict, Last, WillRetry, NextStatus, Kinds, InFlight
  <2> QED BY <2>2, <2>3 DEF Verdicts
<1>13. ASSUME NEW d \in Execs, ScheduleRetry(d) \/ FinishFailure(d) PROVE Verdicts'
  <2>1. /\ Advance(d, "failure", "recorded", "ok") /\ "success" \in Kinds /\ "failure" \in Kinds
        /\ UNCHANGED <<status, attemptCount, result, pc, op, number, category, snap>>
        /\ \A e \in Execs : e # d => \A j \in Kinds : note'[j][e] = note[j][e]
        /\ note'["success"][d] = note["success"][d]
        /\ note'["failure"][d] = note["failure"][d] \/ ~WillRetry(d)
    BY <1>0, <1>13 DEF ScheduleRetry, FinishFailure, TypeOK, Kinds
  <2>2. /\ \A e \in Execs : e # d => Verdict(e)'
        /\ report["failure"][d] = "recorded" /\ report'["failure"][d] = "ok"
        /\ report'["success"][d] = report["success"][d]
    BY <1>10, <2>1
  <2>3. Verdict(d)'
    BY <1>1, <2>1, <2>2 DEF Verdict, Last, WillRetry, NextStatus, Kinds, InFlight
  <2> QED BY <2>2, <2>3 DEF Verdicts
<1>14. ASSUME NEW d \in Execs, NEW k \in Kinds, ReportFails(d, k) PROVE Verdicts'
  <2>1. PICK from \in InFlight : Advance(d, k, from, "error") BY <1>14 DEF ReportFails
  <2>2. /\ UNCHANGED <<status, attemptCount, result, pc, op, number, category, snap, note>>
        /\ k = "success" => pc[d] # "succeed"
    BY <1>14 DEF ReportFails, HungUp
  <2>3. /\ \A e \in Execs : e # d => Verdict(e)'
        /\ report[k][d] = from /\ report'[k][d] = "error"
        /\ \A j \in Kinds : j # k => report'[j][d] = report[j][d]
    BY <1>10, <2>1, <2>2
  <2>4. Verdict(d)'
    <3>1. CASE k = "success"
      <4>1. /\ report'["success"][d] = "error" /\ report'["failure"][d] = report["failure"][d]
            /\ report["success"][d] \notin {"none", "ok"}
        BY <2>1, <2>3, <3>1 DEF Kinds, InFlight
      <4> QED BY <1>1, <2>2, <3>1, <4>1 DEF Verdict, Last, WillRetry, NextStatus, Kinds, InFlight
    <3>2. CASE k = "failure"
      <4>1. /\ report'["failure"][d] = "error" /\ report'["success"][d] = report["success"][d]
            /\ report["failure"][d] \notin {"none", "ok"}
        BY <2>1, <2>3, <3>2 DEF Kinds, InFlight
      <4> QED BY <1>1, <2>2, <3>2, <4>1 DEF Verdict, Last, WillRetry, NextStatus, Kinds, InFlight
    <3> QED BY <3>1, <3>2 DEF Kinds
  <2> QED BY <2>3, <2>4 DEF Verdicts
<1>15. ASSUME NEW d \in Execs, NEW k \in Kinds, NotifyNext(d, k) PROVE Verdicts'
  <2>1. /\ UNCHANGED <<status, attemptCount, result, pc, op, number, category, report, snap>>
        /\ \A e \in Execs, j \in Kinds : note'[j][e] # "none" => note[j][e] # "none"
    <3>1. CASE RecordUsage(d) BY <1>0, <3>1 DEF RecordUsage, Notify, TypeOK, Kinds
    <3>2. CASE DispatchWebhook(d, k) BY <1>0, <3>2 DEF DispatchWebhook, Notify, TypeOK, Kinds
    <3> QED BY <1>15, <3>1, <3>2 DEF NotifyNext
  <2> QED BY <1>2, <2>1
<1>16. ASSUME SchedulerNext \/ Restart PROVE Verdicts'
  BY <1>2, <1>16 DEF SchedulerNext, ReadDue, PromoteDue, Restart
<1>17. /\ \A r \in Requests : ~CreateFails(r)
       /\ \A t \in Tenants, o \in Requests : ~CancelOperation(t, o)
       /\ ~PromoteFails
       /\ \A e \in Execs, k \in Kinds : ~CounterFails(e, k) /\ ~NotifyFails(e, k)
  BY DEF CreateFails, CancelOperation, PromoteFails, CounterFails, NotifyFails
<1>18. ASSUME NEW d \in Execs, WorkerNext(d) \/ StartNext(d) PROVE Verdicts'
  BY <1>4, <1>5, <1>6, <1>7, <1>8, <1>9, <1>18, StartVerdicts DEF WorkerNext, StartNext
<1>19. ASSUME NEW d \in Execs, NEW k \in Kinds, ReportNext(d, k) PROVE Verdicts'
  BY <1>11, <1>12, <1>13, <1>19, CompleteVerdicts DEF ReportNext
<1> HIDE DEF postgres, redis, creates, workers, handlers
<1> QED BY <1>3, <1>6, <1>9, <1>14, <1>15, <1>16, <1>17, <1>18, <1>19 DEF Next, Trouble

\* The verdicts, for any number of operations, workers and attempts.
LEMMA VerdictsHold == ASSUME Env \subseteq {"crash", "input"} PROVE Spec => []Verdicts
<1>1. Init => Verdicts
  BY DEF Init, Verdicts, Verdict, Last, WillRetry, NextStatus, Kinds, InFlight
<1>2. IndInv /\ Verdicts /\ [Next]_vars => Verdicts'
  <2>1. ASSUME UNCHANGED vars, Verdicts PROVE Verdicts'
    BY <2>1 DEF vars, postgres, workers, handlers, Verdicts, Verdict, Last, WillRetry, NextStatus
  <2> QED BY <2>1, VerdictStep
<1> QED BY <1>1, <1>2, InvariantHolds, PTL DEF Spec

\* The status of an operation is the verdict of its last attempt, although the two
\* tables are written by handlers that nothing serialises, and a crash may cut any of
\* them off.
THEOREM VerdictMatchesStatus ==
  ASSUME Env \subseteq {"crash", "input"} PROVE Spec => []VerdictsAgree
<1>1. ASSUME IndInv, Verdicts PROVE VerdictsAgree
  <2> SUFFICES ASSUME NEW o \in Requests, NEW e \in Execs, e \in LastRow(o)
               PROVE  result[e] = (CASE status[o] = "SUCCEEDED" -> "true"
                                     [] status[o] \in {"RETRYING", "FAILED", "DEAD_LETTERED"} -> "false"
                                     [] status[o] = "RUNNING" -> "null"
                                     [] OTHER -> result[e])
    BY DEF VerdictsAgree
  <2>1. op[e] = o /\ Last(e) /\ result[e] \in {"null", "true", "false"}
    BY <1>1 DEF LastRow, Rows, Last, IndInv, TypeOK
  <2>2. \/ result[e] = "null" /\ status[o] = "RUNNING"
        \/ result[e] = "true" /\ status[o] = "SUCCEEDED"
        \/ result[e] = "false" /\ status[o] \in {"RETRYING", "FAILED", "DEAD_LETTERED"}
    BY <1>1, <2>1 DEF Verdicts, Verdict, NextStatus
  <2> QED BY <2>2
<1> QED BY <1>1, InvariantHolds, VerdictsHold, PTL

\* The customer is told at most once how an operation ended, and what it is told is
\* the status the operation has, also when a worker crashes after its report.
THEOREM ToldWhatHappened ==
  ASSUME Env \subseteq {"crash", "input"} PROVE Spec => []EventsMatchStatus
<1>1. ASSUME IndInv, Verdicts PROVE EventsMatchStatus
  <2>1. ASSUME NEW e \in Execs, NEW k \in Kinds, Told(e, k)
        PROVE  /\ Last(e) /\ result[e] # "none" /\ op[e] \in Requests /\ report[k][e] # "none"
               /\ status[op[e]] = (CASE Event(e, k) = "operation.succeeded" -> "SUCCEEDED"
                                     [] Event(e, k) = "operation.failed" -> "FAILED"
                                     [] Event(e, k) = "operation.dead_lettered" -> "DEAD_LETTERED")
    <3>1. Verdict(e) /\ op[e] \in Requests BY <1>1 DEF Verdicts, IndInv, TypeOK
    <3>2. CASE k = "success"
      <4>1. report["success"][e] = "ok" BY <2>1, <3>1, <3>2 DEF Told, Verdict
      <4> QED BY <3>1, <3>2, <4>1 DEF Verdict, Event
    <3>3. CASE k = "failure"
      <4>1. report["failure"][e] = "ok" /\ ~WillRetry(e) BY <2>1, <3>1, <3>3 DEF Told, Verdict
      <4>2. result[e] = "false" /\ Last(e) /\ status[op[e]] = NextStatus(e) BY <3>1, <4>1 DEF Verdict
      <4> QED BY <3>1, <3>3, <4>1, <4>2 DEF Event, NextStatus
    <3> QED BY <3>2, <3>3 DEF Kinds
  <2>2. ASSUME NEW d \in Execs, NEW j \in Kinds, Told(d, j),
               NEW e \in Execs, NEW k \in Kinds, Told(e, k), op[d] = op[e]
        PROVE  d = e /\ j = k
    <3>1. d = e
      BY <1>1, <2>1, <2>2 DEF IndInv, AttemptHistory, Rows, Last
    <3>2. j = k
      BY <1>1, <2>1, <2>2, <3>1 DEF Verdicts, Verdict, Kinds
    <3> QED BY <3>1, <3>2
  <2>3. ASSUME NEW e \in Execs, NEW k \in Kinds, Told(e, k)
        PROVE  \A d \in Execs, j \in Kinds : Told(d, j) /\ op[d] = op[e] => <<d, j>> = <<e, k>>
    BY <2>2, <2>3
  <2> SUFFICES ASSUME NEW e \in Execs, NEW k \in Kinds, Told(e, k)
               PROVE  status[op[e]] = (CASE Event(e, k) = "operation.succeeded" -> "SUCCEEDED"
                                         [] Event(e, k) = "operation.failed" -> "FAILED"
                                         [] Event(e, k) = "operation.dead_lettered" -> "DEAD_LETTERED")
    BY <2>3 DEF EventsMatchStatus
  <2> QED BY <2>1
<1> QED BY <1>1, InvariantHolds, VerdictsHold, PTL

-----------------------------------------------------------------------------
(* Concurrency slots on a reliable network                                   *)

\* No operation changes its tenant.
LEMMA TenantsStay == ASSUME IndInv, Next PROVE tenant' = tenant
<1>1. ASSUME NEW r \in Requests, CreateNext(r) \/ CreateFails(r) PROVE tenant' = tenant
  BY <1>1 DEF CreateNext, ReplayExisting, LookupMisses, InsertOperation, InsertConflicts, Enqueue,
     TransitionToQueued, CreateFails
<1> QED BY <1>1, OthersKeepRows DEF creates

\* Verdicts are written by the transactions of the attempt handlers.
LEMMA FewGiveVerdicts ==
  Next => \/ result' = result
          \/ \E e \in Execs : \/ StartAttempt(e) \/ CompleteAttemptSuccess(e)
                              \/ CompleteAttemptFailure(e)
BY DEF Next, CreateNext, WorkerNext, StartNext, ReportNext, NotifyNext, SchedulerNext,
       Trouble, ReplayExisting, LookupMisses, InsertOperation, InsertConflicts, Enqueue,
       TransitionToQueued, PopJob, SkipTerminal, FetchOperation, StartReturns,
       StartRaises, WorkSucceeds, WorkFails, ReportReturns, SuccessRaises,
       FailureRaises, IncrConcurrency, ReadOperation, DecrConcurrency, ClampConcurrency,
       FinishSuccess, ScheduleRetry, FinishFailure, RecordUsage, DispatchWebhook,
       ReadDue, PromoteDue, PromoteFails, Restart, CreateFails, CancelOperation,
       FetchRaises, StartFails, InputRaises, Crash, CounterFails, ReportFails,
       NotifyFails, postgres

\* The counters are written by INCR, DECR and SET.
LEMMA FewCount ==
  Next => \/ conc' = conc
          \/ \E e \in Execs : IncrConcurrency(e)
          \/ \E e \in Execs, k \in Kinds : DecrConcurrency(e, k) \/ ClampConcurrency(e, k)
BY DEF Next, CreateNext, WorkerNext, StartNext, ReportNext, NotifyNext, SchedulerNext,
       Trouble, ReplayExisting, LookupMisses, InsertOperation, InsertConflicts, Enqueue,
       TransitionToQueued, PopJob, SkipTerminal, FetchOperation, StartReturns,
       StartRaises, WorkSucceeds, WorkFails, ReportReturns, SuccessRaises,
       FailureRaises, StartAttempt, ReadOperation, CompleteAttemptSuccess,
       FinishSuccess, CompleteAttemptFailure, ScheduleRetry, FinishFailure, RecordUsage,
       DispatchWebhook, ReadDue, PromoteDue, PromoteFails, Restart, CreateFails,
       CancelOperation, FetchRaises, StartFails, InputRaises, Crash, CounterFails,
       ReportFails, NotifyFails, redis

\* The start handlers move by themselves, once they are called.
LEMMA FewStart ==
  Next => \/ start' = start
          \/ \E e \in Execs : \/ FetchOperation(e) \/ StartAttempt(e)
                              \/ IncrConcurrency(e) \/ StartFails(e)
BY DEF Next, CreateNext, WorkerNext, StartNext, ReportNext, NotifyNext, SchedulerNext,
       Trouble, ReplayExisting, LookupMisses, InsertOperation, InsertConflicts, Enqueue,
       TransitionToQueued, PopJob, SkipTerminal, StartReturns, StartRaises,
       WorkSucceeds, WorkFails, ReportReturns, SuccessRaises, FailureRaises,
       ReadOperation, DecrConcurrency, ClampConcurrency, CompleteAttemptSuccess,
       FinishSuccess, CompleteAttemptFailure, ScheduleRetry, FinishFailure, RecordUsage,
       DispatchWebhook, ReadDue, PromoteDue, PromoteFails, Restart, CreateFails,
       CancelOperation, FetchRaises, InputRaises, Crash, CounterFails, ReportFails,
       NotifyFails, handlers, SendReport

\* process_job moves by its own steps and by those that end it.
LEMMA FewUse ==
  Next => pc' = pc \/ \E e \in Execs, s \in Active \cup {"done", "dead"} : pc' = [pc EXCEPT ![e] = s]
<1> SUFFICES ASSUME Next
             PROVE  pc' = pc \/ \E e \in Execs, s \in Active \cup {"done", "dead"} : pc' = [pc EXCEPT ![e] = s]
  OBVIOUS
<1>1. \/ pc' = pc
      \/ \E e \in Execs : WorkerNext(e) \/ FetchRaises(e) \/ InputRaises(e) \/ Crash(e)
  BY WorkerMoves
<1>2. ASSUME NEW e \in Execs, FetchRaises(e) \/ InputRaises(e) \/ Crash(e)
      PROVE  \E s \in Active \cup {"done", "dead"} : pc' = [pc EXCEPT ![e] = s]
  BY <1>2 DEF FetchRaises, InputRaises, Crash, Return
<1>3. ASSUME NEW e \in Execs, WorkerNext(e)
      PROVE  \E s \in Active \cup {"done", "dead"} : pc' = [pc EXCEPT ![e] = s]
  <2>1. CASE PopJob(e) \/ SkipTerminal(e) \/ FetchOperation(e) \/ StartReturns(e) \/ StartRaises(e)
    BY <2>1 DEF PopJob, SkipTerminal, FetchOperation, StartReturns, StartRaises, Return, Active
  <2>2. CASE \/ WorkSucceeds(e) \/ \E c \in {"transient", "permanent"} : WorkFails(e, c)
             \/ ReportReturns(e) \/ SuccessRaises(e) \/ FailureRaises(e)
    BY <2>2 DEF WorkSucceeds, WorkFails, ReportReturns, SuccessRaises, FailureRaises, SendReport,
       Return, Active
  <2> QED BY <1>3, <2>1, <2>2 DEF WorkerNext
<1> QED BY <1>1, <1>2, <1>3

\* Reports move when they are sent, by their handlers and by what stops those.
LEMMA FewReport ==
  Next => \/ report' = report
          \/ \E e \in Execs, k \in Kinds :
               \/ DecrConcurrency(e, k) \/ ClampConcurrency(e, k) \/ CounterFails(e, k)
               \/ \E s \in {"sent", "read", "recorded", "ok", "error"} :
                    report' = [report EXCEPT ![k][e] = s]
<1> DEFINE Sets(e, k) == \E s \in {"sent", "read", "recorded", "ok", "error"} :
                           report' = [report EXCEPT ![k][e] = s]
<1> SUFFICES ASSUME Next
             PROVE  \/ report' = report
                    \/ \E e \in Execs, k \in Kinds :
                         \/ DecrConcurrency(e, k) \/ ClampConcurrency(e, k) \/ CounterFails(e, k)
                         \/ Sets(e, k)
  OBVIOUS
<1>1. \/ report' = report
      \/ \E e \in Execs : WorkerNext(e)
      \/ \E e \in Execs, k \in Kinds : ReportNext(e, k) \/ CounterFails(e, k) \/ ReportFails(e, k)
  BY DEF Next, CreateNext, StartNext, NotifyNext, SchedulerNext, Trouble,
         ReplayExisting, LookupMisses, InsertOperation, InsertConflicts, Enqueue,
         TransitionToQueued, StartAttempt, IncrConcurrency, RecordUsage, DispatchWebhook, ReadDue,
         PromoteDue, PromoteFails, Restart, CreateFails, CancelOperation, StartFails, FetchRaises,
         InputRaises, Crash, NotifyFails, handlers
<1>2. ASSUME NEW e \in Execs, WorkerNext(e)
      PROVE  report' = report \/ \E k \in Kinds : Sets(e, k)
  <2>1. \/ report' = report
        \/ \E k \in Kinds, where \in Active : SendReport(e, k, where)
    BY <1>2 DEF WorkerNext, PopJob, SkipTerminal, FetchOperation, StartReturns, StartRaises,
       WorkSucceeds, WorkFails, ReportReturns, SuccessRaises, FailureRaises, handlers, Kinds, Active
  <2> QED BY <2>1 DEF SendReport
<1>3. ASSUME NEW e \in Execs, NEW k \in Kinds, ReportNext(e, k) \/ ReportFails(e, k)
      PROVE  DecrConcurrency(e, k) \/ ClampConcurrency(e, k) \/ Sets(e, k)
  BY <1>3 DEF ReportNext, ReportFails, ReadOperation, CompleteAttemptSuccess, FinishSuccess,
     CompleteAttemptFailure, ScheduleRetry, FinishFailure, Advance
<1> HIDE DEF Sets
<1> QED BY <1>1, <1>2, <1>3

\* A slot is given back by the decrement only.
LEMMA SlotsStay ==
  ASSUME IndInv, Next, "error" \notin Env, NEW t \in Tenants, NEW e \in SlotHolders(t)
  PROVE  e \in SlotHolders(t)' \/ \E k \in Kinds : DecrConcurrency(e, k)
<1>1. TypeOK /\ Shape BY DEF IndInv
<1>2. /\ e \in Execs /\ tenant[op[e]] = t /\ start[e] = "ok" /\ result[e] = "null"
      /\ \A k \in Kinds : report[k][e] \notin {"clamp", "counted"}
  BY DEF SlotHolders
<1>3. op'[e] = op[e] /\ tenant' = tenant
  BY <1>1, <1>2, OpIsFixed, TenantsStay DEF Shape
<1>4. start'[e] = "ok"
  <2>1. ASSUME NEW d \in Execs, \/ FetchOperation(d) \/ StartAttempt(d)
                                \/ IncrConcurrency(d) \/ StartFails(d)
        PROVE  start'[e] = start[e]
    <3>1. start[d] # "ok" /\ \E s : start' = [start EXCEPT ![d] = s]
      BY <1>1, <2>1 DEF FetchOperation, StartAttempt, IncrConcurrency, StartFails, Shape
    <3> QED BY <1>1, <1>2, <3>1 DEF TypeOK
  <2> QED BY <1>2, <2>1, FewStart
<1>5. result'[e] = "null"
  <2>1. ASSUME NEW d \in Execs, StartAttempt(d) PROVE result'[e] = result[e]
    BY <1>1, <1>2, <2>1 DEF StartAttempt, TypeOK
  <2>2. ASSUME NEW d \in Execs, CompleteAttemptSuccess(d) \/ CompleteAttemptFailure(d)
        PROVE  result'[e] = result[e]
    <3>1. \E k \in Kinds : report[k][d] = "counted"
      BY <2>2 DEF CompleteAttemptSuccess, CompleteAttemptFailure, Advance, Kinds
    <3> QED BY <1>1, <1>2, <2>2, <3>1 DEF CompleteAttemptSuccess, CompleteAttemptFailure, TypeOK
  <2> QED BY <1>2, <2>1, <2>2, FewGiveVerdicts
<1>6. ASSUME NEW k \in Kinds, report'[k][e] \in {"clamp", "counted"} PROVE DecrConcurrency(e, k)
  <2>1. ASSUME NEW d \in Execs, NEW j \in Kinds, DecrConcurrency(d, j)
        PROVE  DecrConcurrency(e, k)
    <3>1. report'[k][e] = report[k][e] \/ (d = e /\ j = k)
      BY <1>1, <1>2, <2>1 DEF DecrConcurrency, Advance, TypeOK, Kinds
    <3> QED BY <1>2, <1>6, <2>1, <3>1
  <2>2. ASSUME NEW d \in Execs, NEW j \in Kinds, ClampConcurrency(d, j) PROVE FALSE
    <3>1. report'[k][e] = report[k][e] \/ report[k][e] = "clamp"
      BY <1>1, <1>2, <2>2 DEF ClampConcurrency, Advance, TypeOK, Kinds
    <3> QED BY <1>2, <1>6, <3>1
  <2>3. ASSUME NEW d \in Execs, NEW j \in Kinds,
               NEW s \in {"sent", "read", "recorded", "ok", "error"},
               report' = [report EXCEPT ![j][d] = s]
        PROVE  FALSE
    BY <1>1, <1>2, <1>6, <2>3 DEF TypeOK, Kinds
  <2>4. \A d \in Execs, j \in Kinds : ~CounterFails(d, j) BY DEF CounterFails
  <2> QED BY <1>2, <1>6, <2>1, <2>2, <2>3, <2>4, FewReport
<1> QED BY <1>2, <1>3, <1>4, <1>5, <1>6 DEF SlotHolders

\* The counter claims no more slots than are held: it is incremented for a slot that is
\* taken, and a slot is given back by the decrement, or by the SET 0 that follows it.
LEMMA SlotStep ==
  ASSUME IndInv, Verdicts, SlotsCounted, Next, "error" \notin Env PROVE SlotsCounted'
<1>1. TypeOK /\ Shape /\ TypeOK' BY TypeStep DEF IndInv
<1>2. IsFiniteSet({e \in Execs : pc[e] # "unused"})'
  <2> DEFINE U == {e \in Execs : pc[e] # "unused"}
  <2>1. IsFiniteSet(U) BY DEF SlotsCounted
  <2>2. U' = U \/ \E e \in Execs : U' \subseteq U \cup {e}
    BY <1>1, FewUse DEF TypeOK
  <2> HIDE DEF U
  <2>3. IsFiniteSet(U') BY <2>1, <2>2, FS_AddElement, FS_Subset
  <2> QED BY <2>3 DEF U
<1>3. IsFiniteSet({o \in Requests : status[o] # "ABSENT"})'
  <2> DEFINE U == {o \in Requests : status[o] # "ABSENT"}
  <2>1. IsFiniteSet(U) BY DEF SlotsCounted
  <2>2. ASSUME NEW r \in Requests, CreateNext(r) \/ CreateFails(r) PROVE U' \subseteq U \cup {r}
    BY <1>1, <2>2 DEF CreateNext, CreateFails, ReplayExisting, LookupMisses, InsertOperation, InsertConflicts,
       Enqueue, TransitionToQueued, postgres, TypeOK
  <2>3. U' = U \/ \E r \in Requests : U' \subseteq U \cup {r} BY <2>2, OthersKeepRows
  <2> HIDE DEF U
  <2>4. IsFiniteSet(U') BY <2>1, <2>3, FS_AddElement, FS_Subset
  <2> QED BY <2>4 DEF U
<1>4. ASSUME NEW t \in Tenants PROVE (conc[t] <= Cardinality(SlotHolders(t)))'
  <2> DEFINE S == SlotHolders(t)
  <2>1. IsFiniteSet(S) /\ Cardinality(S) \in Nat
    <3>1. S \subseteq {e \in Execs : pc[e] # "unused"} BY <1>1 DEF SlotHolders, Shape
    <3> QED BY <3>1, FS_Subset, FS_CardinalityType DEF SlotsCounted
  <2>2. IsFiniteSet(S') /\ Cardinality(S') \in Nat
    <3>1. Shape' BY <1>1, ShapeStep
    <3>2. S' \subseteq {e \in Execs : pc'[e] # "unused"} BY <3>1 DEF SlotHolders, Shape
    <3> QED BY <1>2, <3>2, FS_Subset, FS_CardinalityType
  <2>3. conc[t] <= Cardinality(S) /\ conc[t] \in Int /\ conc'[t] \in Int
    BY <1>1 DEF SlotsCounted, TypeOK
  <2>4. \A e \in S : e \in S' \/ \E k \in Kinds : DecrConcurrency(e, k) BY SlotsStay
  <2>5. ASSUME NEW e \in Execs, IncrConcurrency(e)
        PROVE  \/ S \subseteq S' /\ conc'[t] = conc[t]
               \/ S \cup {e} \subseteq S' /\ e \notin S /\ conc'[t] = conc[t] + 1
    <3>1. ASSUME NEW d \in Execs, NEW k \in Kinds, DecrConcurrency(d, k) PROVE FALSE
      <4>1. report' = report BY <2>5 DEF IncrConcurrency
      <4>2. report[k][d] = "read" /\ report'[k][d] # "read" BY <1>1, <3>1, DecrReport
      <4> QED BY <4>1, <4>2
    <3>2. S \subseteq S'
      <4>1. S \subseteq Execs BY DEF SlotHolders
      <4> QED BY <2>4, <3>1, <4>1
    <3>3. start[e] = "started" /\ e \notin S BY <2>5 DEF IncrConcurrency, SlotHolders
    <3>4. result[e] = "null" /\ \A k \in Kinds : report[k][e] = "none"
      <4>1. report["success"][e] = "none" /\ report["failure"][e] = "none" /\ result[e] # "none"
        BY <1>1, <3>3 DEF Shape
      <4>2. Verdict(e) BY DEF Verdicts
      <4> QED BY <4>1, <4>2 DEF Verdict, Kinds
    <3>5. CASE tenant[op[e]] = t
      <4>1. /\ start'[e] = "ok" /\ conc'[t] = conc[t] + 1
            /\ UNCHANGED <<tenant, op, result, report>>
        BY <1>1, <2>5, <3>5 DEF IncrConcurrency, TypeOK, postgres, creates, workers
      <4>2. e \in S' BY <3>4, <3>5, <4>1 DEF SlotHolders
      <4> QED BY <3>2, <3>3, <4>1, <4>2
    <3>6. CASE tenant[op[e]] # t
      BY <1>1, <2>5, <3>2, <3>6 DEF IncrConcurrency, TypeOK
    <3> QED BY <3>5, <3>6
  <2>6. ASSUME NEW e \in Execs, NEW k \in Kinds, DecrConcurrency(e, k)
        PROVE  \/ S \subseteq S' /\ conc'[t] = conc[t]
               \/ S \ {e} \subseteq S' /\ conc'[t] = conc[t] - 1
    <3>1. ASSUME NEW d \in Execs, NEW j \in Kinds, DecrConcurrency(d, j) PROVE d = e
      BY <1>1, <2>6, <3>1, DecrReport
    <3>2. S \subseteq Execs BY DEF SlotHolders
    <3>3. CASE tenant[op[e]] = t
      <4>1. conc'[t] = conc[t] - 1 BY <1>1, <2>6, <3>3 DEF DecrConcurrency, TypeOK
      <4> QED BY <2>4, <3>1, <3>2, <4>1
    <3>4. CASE tenant[op[e]] # t
      <4>1. e \notin S BY <3>4 DEF SlotHolders
      <4>2. conc'[t] = conc[t] BY <1>1, <2>6, <3>4 DEF DecrConcurrency, TypeOK
      <4> QED BY <2>4, <3>1, <3>2, <4>1, <4>2
    <3> QED BY <3>3, <3>4
  <2>7. ASSUME NEW e \in Execs, NEW k \in Kinds, ClampConcurrency(e, k)
        PROVE  conc'[t] = 0 \/ (conc'[t] = conc[t] /\ S \subseteq S')
    <3>1. ASSUME NEW d \in Execs, NEW j \in Kinds, DecrConcurrency(d, j) PROVE FALSE
      <4>1. report[j][d] = "read" /\ report'[j][d] # "read" BY <1>1, <3>1, DecrReport
      <4>2. report[k][e] = "clamp" /\ report' = [report EXCEPT ![k][e] = "counted"]
        BY <2>7 DEF ClampConcurrency, Advance
      <4> QED BY <1>1, <4>1, <4>2 DEF TypeOK
    <3>2. S \subseteq Execs BY DEF SlotHolders
    <3>3. conc'[t] = 0 \/ conc'[t] = conc[t] BY <1>1, <2>7 DEF ClampConcurrency, TypeOK
    <3> QED BY <2>4, <3>1, <3>2, <3>3
  <2>8. ASSUME conc' = conc PROVE S \subseteq S'
    <3>1. ASSUME NEW d \in Execs, NEW j \in Kinds, DecrConcurrency(d, j) PROVE FALSE
      <4>1. tenant[op[d]] \in Tenants BY <1>1 DEF TypeOK
      <4> QED BY <1>1, <2>8, <3>1, <4>1 DEF DecrConcurrency, TypeOK
    <3> QED BY <2>4, <3>1 DEF SlotHolders
  <2> HIDE DEF S
  <2>9. S \subseteq S' => Cardinality(S) <= Cardinality(S') BY <2>2, FS_Subset
  <2>10. ASSUME NEW e, S \cup {e} \subseteq S', e \notin S
         PROVE  Cardinality(S) + 1 <= Cardinality(S')
    BY <2>1, <2>2, <2>10, FS_AddElement, FS_Subset
  <2>11. ASSUME NEW e, S \ {e} \subseteq S' PROVE Cardinality(S) - 1 <= Cardinality(S')
    <3>1. /\ IsFiniteSet(S \ {e}) /\ Cardinality(S \ {e}) \in Nat
          /\ Cardinality(S \ {e}) >= Cardinality(S) - 1
      <4>1. /\ IsFiniteSet(S \ {e})
            /\ Cardinality(S \ {e}) = IF e \in S THEN Cardinality(S) - 1 ELSE Cardinality(S)
        BY <2>1, FS_RemoveElement
      <4>2. Cardinality(S \ {e}) \in Nat BY <4>1, FS_CardinalityType
      <4> QED BY <2>1, <4>1, <4>2
    <3>2. Cardinality(S \ {e}) <= Cardinality(S') BY <2>2, <2>11, FS_Subset
    <3> QED BY <2>1, <2>2, <3>1, <3>2
  <2>12. conc'[t] <= Cardinality(S')
    <3>1. CASE conc' = conc BY <2>1, <2>2, <2>3, <2>8, <2>9, <3>1
    <3>2. ASSUME NEW e \in Execs, IncrConcurrency(e) PROVE conc'[t] <= Cardinality(S')
      BY <2>1, <2>2, <2>3, <2>5, <2>9, <2>10, <3>2
    <3>3. ASSUME NEW e \in Execs, NEW k \in Kinds, DecrConcurrency(e, k)
          PROVE  conc'[t] <= Cardinality(S')
      BY <2>1, <2>2, <2>3, <2>6, <2>9, <2>11, <3>3
    <3>4. ASSUME NEW e \in Execs, NEW k \in Kinds, ClampConcurrency(e, k)
          PROVE  conc'[t] <= Cardinality(S')
      BY <2>1, <2>2, <2>3, <2>7, <2>9, <3>4
    <3> QED BY <3>1, <3>2, <3>3, <3>4, FewCount
  <2> QED BY <2>12 DEF S
<1> QED BY <1>2, <1>3, <1>4 DEF SlotsCounted

\* The invariant of the outcomes.
THEOREM OutcomesHold == ASSUME Env \subseteq {"crash", "input"} PROVE Spec => []OutcomeInv
<1>1. Init => CancelledByCustomer /\ SlotsCounted
  <2> SUFFICES ASSUME Init PROVE CancelledByCustomer /\ SlotsCounted OBVIOUS
  <2>1. CancelledByCustomer BY DEF Init, CancelledByCustomer
  <2>2. /\ {e \in Execs : pc[e] # "unused"} = {} /\ {o \in Requests : status[o] # "ABSENT"} = {}
        /\ \A t \in Tenants : SlotHolders(t) = {} /\ conc[t] = 0
    BY DEF Init, SlotHolders
  <2> QED BY <2>1, <2>2, FS_EmptySet DEF SlotsCounted
<1>2. IndInv /\ Verdicts /\ SlotsCounted /\ [Next]_vars => SlotsCounted'
  <2>1. ASSUME UNCHANGED vars, SlotsCounted PROVE SlotsCounted'
    BY <2>1 DEF vars, postgres, redis, creates, workers, handlers, SlotsCounted, SlotHolders
  <2> QED BY <2>1, SlotStep
<1>3. SuccessIsLast /\ CancelledByCustomer /\ Verdicts /\ SlotsCounted => OutcomeInv
  BY DEF OutcomeInv
<1>4. Spec => []SuccessIsLast BY SuccessIsFinal
<1> QED BY <1>1, <1>2, <1>3, <1>4, CancelStep, InvariantHolds, VerdictsHold, PTL DEF Spec

\* A tenant's counter never claims more RUNNING operations than there are: crashes and
\* the race between DECR and SET 0 make it claim fewer, never more.
THEOREM NoSlotLeaks == ASSUME Env \subseteq {"crash", "input"} PROVE Spec => []NoLeakedSlot
<1>1. ASSUME IndInv, OutcomeInv, NEW t \in Tenants PROVE conc[t] <= Cardinality(RunningOf(t))
  <2> DEFINE S == SlotHolders(t)
             T == RunningOf(t)
             f == [e \in S |-> op[e]]
  <2>1. TypeOK /\ Shape /\ RowsExist /\ AttemptHistory /\ Verdicts /\ SlotsCounted
    BY <1>1 DEF IndInv, OutcomeInv
  <2>2. \A e \in S : /\ e \in Execs /\ op[e] \in T /\ result[e] = "null" /\ Last(e)
                     /\ op[e] \in Requests
    BY <2>1 DEF SlotHolders, RunningOf, Verdicts, Verdict, TypeOK
  <2>3. \A d, e \in S : op[d] = op[e] => d = e
    BY <2>1, <2>2 DEF AttemptHistory, Rows, Last
  <2>4. IsFiniteSet(T)
    <3>1. T \subseteq {o \in Requests : status[o] # "ABSENT"} BY DEF RunningOf
    <3> QED BY <2>1, <3>1, FS_Subset DEF SlotsCounted
  <2>5. conc[t] \in Int /\ conc[t] <= Cardinality(S) BY <2>1 DEF SlotsCounted, TypeOK
  <2> HIDE DEF S, T
  <2>6. f \in Injection(S, T) BY <2>2, <2>3, Fun_IsInj
  <2>7. IsFiniteSet(S) /\ Cardinality(S) <= Cardinality(T) BY <2>4, <2>6, FS_Injection
  <2>8. Cardinality(S) \in Nat /\ Cardinality(T) \in Nat BY <2>4, <2>7, FS_CardinalityType
  <2>9. conc[t] <= Cardinality(T) BY <2>5, <2>7, <2>8
  <2> QED BY <2>9 DEF T
<1>2. IndInv /\ OutcomeInv => NoLeakedSlot BY <1>1 DEF NoLeakedSlot
<1> QED BY <1>2, InvariantHolds, OutcomesHold, PTL
=============================================================================
