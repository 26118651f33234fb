----------------------------- MODULE Lifecycle -----------------------------
(***************************************************************************)
(* What the operations service promises about one row of the `operations`  *)
(* table: which statuses follow which, and how attempt_count counts.  It   *)
(* knows nothing of queues, workers, handlers or failures; Operations.tla  *)
(* is shown to implement it.                                               *)
(*                                                                         *)
(* Two things differ from the diagram of the repository's README, because  *)
(* the code differs from it: a retry goes RETRYING -> RUNNING (no code     *)
(* writes QUEUED after the first enqueue), and CANCELLED is not final (see *)
(* Start).                                                                 *)
(***************************************************************************)
EXTENDS Naturals

CONSTANTS Ops,        \* operation ids
          MaxRetries  \* operations.max_retries: the number of attempts allowed

VARIABLES status,       \* operations.status; "ABSENT" while there is no row
          attemptCount  \* operations.attempt_count

Statuses == {"PENDING", "QUEUED", "RUNNING", "RETRYING",
             "SUCCEEDED", "FAILED", "DEAD_LETTERED", "CANCELLED"}

TerminalStatuses == {"SUCCEEDED", "FAILED", "DEAD_LETTERED", "CANCELLED"}

\* The terminal statuses that are never left, whatever fails.
FinalStatuses == {"SUCCEEDED", "FAILED", "DEAD_LETTERED"}

Init == /\ status = [o \in Ops |-> "ABSENT"]
        /\ attemptCount = [o \in Ops |-> 0]

Move(o, from, to) == /\ status[o] \in from
                     /\ status' = [status EXCEPT ![o] = to]

Create(o) == Move(o, {"ABSENT"}, "PENDING") /\ UNCHANGED attemptCount

Queue(o) == Move(o, {"PENDING"}, "QUEUED") /\ UNCHANGED attemptCount

\* An attempt starts.  Never while another attempt is the running one, never
\* on a finished operation, and never more than MaxRetries times; but a
\* cancelled operation may be started by a worker that read it before.
Start(o) == /\ Move(o, {"PENDING", "QUEUED", "RETRYING", "CANCELLED"}, "RUNNING")
            /\ attemptCount[o] < MaxRetries
            /\ attemptCount' = [attemptCount EXCEPT ![o] = @ + 1]

Succeed(o) == Move(o, {"RUNNING"}, "SUCCEEDED") /\ UNCHANGED attemptCount

Fail(o) == Move(o, {"RUNNING"}, "FAILED") /\ UNCHANGED attemptCount

Retry(o) == /\ attemptCount[o] < MaxRetries
            /\ Move(o, {"RUNNING"}, "RETRYING")
            /\ UNCHANGED attemptCount

DeadLetter(o) == /\ attemptCount[o] = MaxRetries
                 /\ Move(o, {"RUNNING"}, "DEAD_LETTERED")
                 /\ UNCHANGED attemptCount

Cancel(o) == /\ Move(o, Statuses \ TerminalStatuses, "CANCELLED")
             /\ UNCHANGED attemptCount

Next == \E o \in Ops : \/ Create(o) \/ Queue(o) \/ Start(o) \/ Succeed(o)
                       \/ Fail(o) \/ Retry(o) \/ DeadLetter(o) \/ Cancel(o)

Spec == Init /\ [][Next]_<<status, attemptCount>>
=============================================================================
