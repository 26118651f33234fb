--------------------------- MODULE PlatformProps ---------------------------
(***************************************************************************)
(* What is checked and proved of Platform.                                 *)
(***************************************************************************)
EXTENDS Platform, OperationsProps

\* Types of the gateway's variables.
PlatformTypeOK ==
  /\ gate \in [Requests -> {"idle", "quota", "concurrency", "proxied",
                            "exhausted", "busy", "lost"}]
  /\ earlier \subseteq usage /\ opened \subseteq Requests
  /\ peak \in [Tenants -> Nat]

\* Requests let through unread that are, or may still be, metered.
OpenedOf(t) == {r \in opened : r \in Outstanding(t) \/ (r \in usage /\ tenant[r] = t)}

\* The monthly quota is overrun by less than the number of operations that were
\* outstanding at one time, and by those let through while usage could not be
\* read.  The guard compares the quota with usage that is recorded when an
\* operation succeeds, so it cannot be "a hard rejection at the perimeter"
\* (usage-webhooks handler.getConsumption); this is how soft it is.
QuotaOvershoot ==
  \A t \in Tenants :
    GetConsumption(t) + Cardinality(Outstanding(t))
      <= (Quota - 1) + peak[t] + Cardinality(OpenedOf(t))

\* A request refused for concurrency, and sent again, is forwarded in the end,
\* unless the quota is used up or the gateway dies: every slot that makes the
\* guard refuse is given back.
AdmittedInTheEnd ==
  \A r \in Requests : gate[r] = "busy" ~> gate[r] \in {"proxied", "exhausted", "lost"}

-----------------------------------------------------------------------------
(* The inductive invariant behind QuotaOvershoot, on top of SuccessIsLast    *)

\* Requests that have reached the gateway.
Arrived == {r \in Requests : gate[r] # "idle"}

\* What t has been charged for this month, or may still be.
Charged(t) == Consumed(t) \cup Outstanding(t)

\* Nothing gets a row, or a usage record, around the gateway, and a call answered with
\* another's operation has no row of its own.
AllForwarded ==
  /\ \A r \in Requests : /\ call[r] # "new" \/ status[r] # "ABSENT" => gate[r] = "proxied"
                         /\ call[r] \in {"refetch", "replayed"} => status[r] = "ABSENT"
  /\ \A o \in usage : gate[o] = "proxied"

\* What t is charged for, apart from what was let through unread, never exceeds what a
\* check within the quota left standing: a record only moves a request from outstanding
\* to consumed.
OvershootInv ==
  /\ PlatformTypeOK /\ IsFiniteSet(Arrived)
  /\ AllForwarded
  /\ \A t \in Tenants : Cardinality(Charged(t) \ opened) <= (Quota - 1) + peak[t]
=============================================================================
