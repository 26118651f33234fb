------------------------------ MODULE Listing ------------------------------
(***************************************************************************)
(* Reading the operations table page by page while it changes: GET         *)
(* /v1/operations for a tenant, GET /internal/operations for the admin     *)
(* dashboard.  A page is one SELECT ... ORDER BY created_at DESC LIMIT ..  *)
(* OFFSET .., so nothing holds the table still between two pages.          *)
(*                                                                         *)
(* The table changes as Lifecycle.tla allows, which is what Operations.tla *)
(* is shown to implement.  created_at is when the inserting statement      *)
(* began, not when its row became visible: a row may appear anywhere in    *)
(* the order.  No two rows have the same created_at.                       *)
(***************************************************************************)
EXTENDS Integers, FiniteSets

CONSTANTS Ops, MaxRetries,
          Tenants, AnyTenant,   \* AnyTenant: the admin's query
          AnyStatus,            \* no status parameter
          Times,                \* values of created_at
          Filters,              \* the status parameters clients give
          Limits,               \* the limit parameters they give
          MaxLimit, DefaultLimit  \* 100 and 25; for the admin 200 and 100

ASSUME LimitAssumption == DefaultLimit \in 1..MaxLimit /\ MaxLimit \in Nat /\ Limits \subseteq Int
ASSUME TimesAssumption == Times \subseteq Int
ASSUME AnyAssumption == AnyTenant \notin Tenants

VARIABLES status, attemptCount,  \* table operations
          createdAt, owner,      \*   its columns created_at and tenant_id
          query, walking,        \* the client: what it lists, whether it still does
          offset, seen,          \* how far it has come, the rows it was shown
          wanted                 \* history: the rows that matched when it began

LC == INSTANCE Lifecycle

table == <<status, attemptCount, createdAt, owner>>
vars  == <<table, query, walking, offset, seen, wanted>>

Queries == [tenant : Tenants \cup {AnyTenant}, status : Filters]

Init == /\ LC!Init
        /\ createdAt = [o \in Ops |-> 0]
        /\ owner \in [Ops -> Tenants]
        /\ query \in Queries /\ walking = FALSE
        /\ offset = 0 /\ seen = {} /\ wanted = {}

Rows == {o \in Ops : status[o] # "ABSENT"}

\* The WHERE clause of ListOperations, and of ListOperationsAnyTenant.
Selects(q, o) == /\ q.tenant \in {AnyTenant, owner[o]}
                 /\ q.status \in {AnyStatus, status[o]}

\* The limit that listOperations and adminListOperations use.
Limit(requested) == IF requested <= 0 \/ requested > MaxLimit THEN DefaultLimit ELSE requested

-----------------------------------------------------------------------------
(* The table changes                                                         *)

Insert(o) == /\ LC!Create(o)
             /\ \E t \in Times \ {createdAt[p] : p \in Rows} :
                  createdAt' = [createdAt EXCEPT ![o] = t]
             /\ UNCHANGED <<owner, query, walking, offset, seen, wanted>>

Update(o) == /\ \/ LC!Queue(o) \/ LC!Start(o) \/ LC!Succeed(o) \/ LC!Fail(o)
                \/ LC!Retry(o) \/ LC!DeadLetter(o) \/ LC!Cancel(o)
             /\ UNCHANGED <<createdAt, owner, query, walking, offset, seen, wanted>>

-----------------------------------------------------------------------------
(* A client lists it                                                         *)

\* The result without LIMIT and OFFSET.
Matching(q) == {o \in Rows : Selects(q, o)}

\* Mutant of Ahead: operations at work are listed first.
AheadByStatus(q, o) ==
  {p \in Matching(q) \ {o} :
     IF (status[p] = "RUNNING") = (status[o] = "RUNNING") THEN createdAt[p] > createdAt[o]
                                                          ELSE status[p] = "RUNNING"}

\* ORDER BY created_at DESC: the rows that come before o.
Ahead(q, o) == {p \in Matching(q) : createdAt[p] > createdAt[o]}

\* LIMIT and OFFSET.
Page(limit) ==
  {o \in Matching(query) : Cardinality(Ahead(query, o)) \in offset..(offset + limit - 1)}

Begin(q) == /\ ~walking
            /\ walking' = TRUE
            /\ query' = q /\ offset' = 0 /\ seen' = {}
            /\ wanted' = Matching(q)
            /\ UNCHANGED table

\* A page.  The client goes on after the rows it was given (it may have been given
\* fewer than it asked for, see Limit), until it is given none.
ListOperations(requested) ==
  LET page == Page(Limit(requested))
  IN /\ walking
     /\ walking' = (page # {})
     /\ offset' = offset + Cardinality(page)
     /\ seen' = seen \cup page
     /\ UNCHANGED <<table, query, wanted>>

Next == \/ \E o \in Ops : Insert(o) \/ Update(o)
        \/ \E q \in Queries : Begin(q)
        \/ \E n \in Limits : ListOperations(n)

Spec == Init /\ [][Next]_vars

-----------------------------------------------------------------------------
\* The filters that select rows that stay selected.
StableFilters == {AnyStatus} \cup LC!FinalStatuses

\* A client that goes through all pages without a status filter, or with that of
\* "the Admin Dashboard's failed/dead-lettered operations view"
\* (repository.ListOperationsAnyTenant), is shown every operation there was when
\* it began, although rows come and change while it pages by OFFSET: a row can be
\* pushed to a later page and be shown twice, but never to one already read.
NothingMissed == ~walking /\ query.status \in StableFilters => wanted \subseteq seen

-----------------------------------------------------------------------------
(* The inductive invariant behind NothingMissed                              *)

\* Types, and no two rows have the same created_at.
TypeOK ==
  /\ status \in [Ops -> LC!Statuses \cup {"ABSENT"}]
  /\ createdAt \in [Ops -> Int] /\ owner \in [Ops -> Tenants]
  /\ \A o, p \in Rows : createdAt[o] = createdAt[p] => o = p
  /\ query \in Queries /\ walking \in BOOLEAN
  /\ offset \in Nat /\ seen \subseteq Ops /\ wanted \subseteq Ops

\* While the client walks, what it has still to be shown is at or behind its offset:
\* what comes into the result pushes rows back, and nothing leaves the result.
StillAhead ==
  walking /\ query.status \in StableFilters =>
    \A o \in wanted \ seen : o \in Matching(query) /\ Cardinality(Ahead(query, o)) >= offset

\* The inductive invariant.  The client's offset counts rows it was shown, of which some
\* may have been shown before; StillAhead says that the count never runs ahead.
ListingInv == TypeOK /\ IsFiniteSet(Rows) /\ StillAhead /\ NothingMissed
=============================================================================
