------------------------------ MODULE Platform ------------------------------
(***************************************************************************)
(* The guards the gateway puts before POST /v1/operations, composed with   *)
(* the service behind them: the quota guard reads the usage table the      *)
(* notifiers write, the concurrency guard reads the counter the attempt    *)
(* handlers keep, and only what passes both reaches createOperation.       *)
(*                                                                         *)
(* A request arrives here authenticated and within its rate limit          *)
(* (Gateway.tla).  The steps of Operations.tla are taken as they are.      *)
(***************************************************************************)
EXTENDS Operations

CONSTANTS Quota,          \* monthly_quota, in units; every operation costs one
          MaxConcurrent,  \* max_concurrent_ops
          GateEnv         \* {"unreachable"}: a service or Redis may not answer
                          \*   the gateway; or {}

\* createTenant writes no limit of 0.
ASSUME LimitsAssumption == Quota \in Nat \ {0} /\ MaxConcurrent \in Nat \ {0}
ASSUME GateEnvAssumption == GateEnv \subseteq {"unreachable"}

VARIABLES
  gate,     \* a request: which guard it is at, or how the gateway answered it
  earlier,  \* operations metered before the first of the month
  peak,     \* history: the most operations of a tenant outstanding at one time
  opened    \* history: requests let through because usage could not be read

platformVars == <<vars, gate, earlier, peak, opened>>

PlatformInit == /\ Init
                /\ gate = [r \in Requests |-> "idle"]
                /\ earlier = {} /\ opened = {}
                /\ peak = [t \in Tenants |-> 0]

Go(r, from, to) == gate[r] = from /\ gate' = [gate EXCEPT ![r] = to]

\* GetUsageSummary: the rows recorded since the first of the month.
Consumed(t) == {o \in usage \ earlier : tenant[o] = t}

\* The operations of t that have passed the quota guard and may still be metered.
Outstanding(t) ==
  {r \in Requests : /\ tenant[r] = t
                    /\ gate[r] \in {"concurrency", "proxied"}
                    /\ r \notin usage /\ call[r] # "replayed"
                    /\ status[r] \notin {"FAILED", "DEAD_LETTERED"}}

Arrive(r) == /\ Go(r, "idle", "quota")
             /\ UNCHANGED <<vars, earlier, peak, opened>>

\* The request goes on to the next guard.
PassQuota(r) ==
  LET t == tenant[r]
      n == Cardinality(Outstanding(t)) + 1
  IN /\ Go(r, "quota", "concurrency")
     /\ peak' = [peak EXCEPT ![t] = IF n > @ THEN n ELSE @]
     /\ UNCHANGED <<vars, earlier>>

\* units_consumed; every operation costs one unit.
GetConsumption(t) == Cardinality(Consumed(t))

\* Mutant of WithinQuota: the unit that uses up the quota is not noticed.
WithinQuotaLate(r) == GetConsumption(tenant[r]) <= Quota

WithinQuota(r) == GetConsumption(tenant[r]) < Quota

QuotaGuard(r) ==
  \/ WithinQuota(r) /\ PassQuota(r) /\ UNCHANGED opened
  \/ ~WithinQuota(r) /\ Go(r, "quota", "exhausted") /\ UNCHANGED <<vars, earlier, peak, opened>>

\* The usage service answers with an error or not at all: the guard fails open.
QuotaFailsOpen(r) ==
  /\ "unreachable" \in GateEnv
  /\ PassQuota(r)
  /\ opened' = opened \cup {r}

ConcurrencyGuard(r) ==
  /\ Go(r, "concurrency", IF conc[tenant[r]] >= MaxConcurrent THEN "busy" ELSE "proxied")
  /\ UNCHANGED <<vars, earlier, peak, opened>>

\* The gateway's process ends, and with it the requests it had not forwarded: the
\* guard's GET, or a fetch of an /admin route, is rejected, which nothing catches.
\* (For a forwarded request this is CreateFails: the service's context is cancelled.)
GatewayDies(r) ==
  /\ "unreachable" \in GateEnv
  /\ gate[r] \in {"quota", "concurrency"}
  /\ gate' = [s \in Requests |-> IF gate[s] \in {"quota", "concurrency"} THEN "lost" ELSE gate[s]]
  /\ UNCHANGED <<vars, earlier, peak, opened>>

\* "The operation will need to be retried once capacity frees up": the customer
\* sends the request again.
RetryLater(r) == /\ Go(r, "busy", "quota")
                 /\ UNCHANGED <<vars, earlier, peak, opened>>

\* Mutant of NewMonth: the new month begins with everything written off, also what
\* is metered later.
NewMonthForAll == /\ earlier # Requests
                  /\ earlier' = Requests
                  /\ UNCHANGED <<vars, gate, peak, opened>>

NewMonth == /\ earlier # usage
            /\ earlier' = usage
            /\ UNCHANGED <<vars, gate, peak, opened>>

\* A step of the service; createOperation runs for forwarded requests only.  (A
\* request the proxy cannot forward, and answers with 503, takes no further step.)
Behind == /\ \A r \in Requests : call'[r] # call[r] => gate[r] = "proxied"
          /\ UNCHANGED <<gate, earlier, peak, opened>>

Service(A) == A /\ Behind

GateNext(r) == QuotaGuard(r) \/ ConcurrencyGuard(r) \/ RetryLater(r)

PlatformNext == \/ \E r \in Requests : \/ Arrive(r) \/ GateNext(r)
                                       \/ QuotaFailsOpen(r) \/ GatewayDies(r)
                \/ NewMonth
                \/ Next /\ Behind

PlatformSpec == PlatformInit /\ [][PlatformNext]_platformVars

\* The gateway goes on with a request it has, a customer told to retry does, and
\* a forwarded request and the service behind it are as fair as in Operations.tla.
PlatformFairSpec ==
  /\ PlatformSpec
  /\ \A r \in Requests : /\ WF_platformVars(GateNext(r))
                         /\ WF_platformVars(Service(CreateNext(r)))
  /\ \A e \in Execs : /\ WF_platformVars(Service(WorkerNext(e)))
                      /\ WF_platformVars(Service(StartNext(e)))
  /\ \A e \in Execs, k \in Kinds : /\ WF_platformVars(Service(ReportNext(e, k)))
                                   /\ WF_platformVars(Service(NotifyNext(e, k)))
  /\ WF_platformVars(Service(ReadDue)) /\ WF_platformVars(Service(PromoteDue))
=============================================================================
