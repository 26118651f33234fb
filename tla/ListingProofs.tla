--------------------------- MODULE ListingProofs ---------------------------
(***************************************************************************)
(* Paging by OFFSET misses nothing, for every number of operations, every  *)
(* page size and every order in which rows appear.                         *)
(*                                                                         *)
(* A row's place in the result is the number of rows ahead of it.  Places  *)
(* are counted with the theorems on cardinalities of finite sets; no       *)
(* induction over the result is needed.                                    *)
(***************************************************************************)
EXTENDS Listing, TLAPS, FiniteSetTheorems, FunctionTheorems

\* The place of a row in the result.
Place(q, o) == Cardinality(Ahead(q, o))

\* The limit a page is read with is at least one.
LEMMA LimitPositive == ASSUME NEW n \in Limits PROVE Limit(n) \in Nat \ {0}
BY LimitAssumption DEF Limit

\* Places are natural numbers below the number of rows in the result.
LEMMA PlaceType ==
  ASSUME TypeOK, IsFiniteSet(Rows), NEW q, NEW o \in Matching(q)
  PROVE  /\ IsFiniteSet(Matching(q)) /\ Cardinality(Matching(q)) \in Nat
         /\ IsFiniteSet(Ahead(q, o))
         /\ Place(q, o) \in 0..(Cardinality(Matching(q)) - 1)
<1>1. IsFiniteSet(Matching(q)) /\ Cardinality(Matching(q)) \in Nat
  <2>1. Matching(q) \subseteq Rows BY DEF Matching
  <2>2. IsFiniteSet(Matching(q)) BY <2>1, FS_Subset
  <2> QED BY <2>2, FS_CardinalityType
<1>2. Ahead(q, o) \subseteq Matching(q) /\ o \notin Ahead(q, o)
  BY DEF Ahead, Matching, Rows, TypeOK
<1>3. /\ IsFiniteSet(Ahead(q, o)) /\ Cardinality(Ahead(q, o)) \in Nat
      /\ Cardinality(Ahead(q, o)) <= Cardinality(Matching(q))
      /\ Cardinality(Ahead(q, o)) # Cardinality(Matching(q))
  BY <1>1, <1>2, FS_Subset, FS_CardinalityType
<1> QED BY <1>1, <1>3 DEF Place

\* No two rows have the same place.
LEMMA PlacesDiffer ==
  ASSUME TypeOK, IsFiniteSet(Rows), NEW q, NEW o \in Matching(q), NEW p \in Matching(q),
         Place(q, o) = Place(q, p)
  PROVE  o = p
<1>1. ASSUME NEW a \in Matching(q), NEW b \in Matching(q), createdAt[a] > createdAt[b]
      PROVE  Place(q, a) # Place(q, b)
  <2>1. createdAt[a] \in Int /\ createdAt[b] \in Int
        /\ \A c \in Matching(q) : createdAt[c] \in Int
    BY DEF Matching, Rows, TypeOK
  <2>2. Ahead(q, a) \subseteq Ahead(q, b) /\ a \in Ahead(q, b) /\ a \notin Ahead(q, a)
    BY <1>1, <2>1 DEF Ahead
  <2>3. IsFiniteSet(Ahead(q, b)) BY PlaceType
  <2> QED BY <2>2, <2>3, FS_Subset DEF Place
<1>2. createdAt[o] \in Int /\ createdAt[p] \in Int /\ o \in Rows /\ p \in Rows
  BY DEF Matching, Rows, TypeOK
<1>3. createdAt[o] = createdAt[p] BY <1>1, <1>2
<1> QED BY <1>2, <1>3 DEF TypeOK

\* A page holds no more rows than its limit.
LEMMA PageBounded ==
  ASSUME TypeOK, IsFiniteSet(Rows), NEW limit \in Nat
  PROVE  /\ IsFiniteSet(Page(limit)) /\ Cardinality(Page(limit)) \in Nat
         /\ Cardinality(Page(limit)) <= limit
<1> DEFINE P == Page(limit)
           I == offset..(offset + limit - 1)
           place == [o \in P |-> Place(query, o)]
<1>1. offset \in Nat BY DEF TypeOK
<1>2. P \subseteq Matching(query) /\ \A o \in P : Place(query, o) \in I BY DEF Page, Place
<1>3. place \in Injection(P, I)
  <2>1. \A o, p \in P : Place(query, o) = Place(query, p) => o = p BY <1>2, PlacesDiffer
  <2> QED BY <1>2, <2>1 DEF Injection, IsInjective
<1>4. IsFiniteSet(I) /\ Cardinality(I) = limit
  <2>1. IsFiniteSet(I) /\ Cardinality(I) = IF offset > offset + limit - 1 THEN 0
                                           ELSE (offset + limit - 1) - offset + 1
    BY <1>1, FS_Interval
  <2> QED BY <1>1, <2>1
<1> HIDE DEF P, I, place
<1>5. IsFiniteSet(P) /\ Cardinality(P) <= limit BY <1>3, <1>4, FS_Injection
<1> QED BY <1>5, FS_CardinalityType DEF P

\* Every place up to the last one is taken: where there is a row at or behind the
\* offset, a page is not empty.
LEMMA PageNotEmpty ==
  ASSUME TypeOK, IsFiniteSet(Rows), NEW limit \in Nat \ {0},
         NEW o \in Matching(query), Place(query, o) >= offset
  PROVE  Page(limit) # {}
<1> DEFINE M == Matching(query)
           I == 0..(Cardinality(M) - 1)
           place == [p \in M |-> Place(query, p)]
<1>1. IsFiniteSet(M) /\ Cardinality(M) \in Nat /\ \A p \in M : Place(query, p) \in I
  BY PlaceType
<1>2. offset \in Nat /\ offset \in I BY <1>1 DEF TypeOK
<1>3. place \in Injection(M, I)
  <2>1. \A p, r \in M : Place(query, p) = Place(query, r) => p = r BY PlacesDiffer
  <2> QED BY <1>1, <2>1 DEF Injection, IsInjective
<1>4. IsFiniteSet(I) /\ Cardinality(I) = Cardinality(M)
  <2>1. Cardinality(M) - 1 \in Int BY <1>1
  <2>2. /\ IsFiniteSet(I)
        /\ Cardinality(I) = IF 0 > Cardinality(M) - 1 THEN 0 ELSE (Cardinality(M) - 1) - 0 + 1
    <3> HIDE DEF M
    <3> QED BY <2>1, FS_Interval
  <2> QED BY <1>1, <2>2
<1>5. place \in Surjection(M, I)
  <2> HIDE DEF M, I, place
  <2> QED BY <1>3, <1>4, FS_Injection
<1>6. PICK p \in M : place[p] = offset BY <1>2, <1>5 DEF Surjection
<1>7. Cardinality(Ahead(query, p)) = offset BY <1>6 DEF Place
<1>8. p \in Page(limit) BY <1>2, <1>7 DEF Page
<1> QED BY <1>8

-----------------------------------------------------------------------------
(* The table changes                                                         *)

\* What a change of the table does to the status of its operations.
LEMMA TableMoves ==
  ASSUME TypeOK, NEW o \in Ops, Insert(o) \/ Update(o)
  PROVE  /\ \E to \in LC!Statuses : status' = [status EXCEPT ![o] = to]
         /\ status[o] \notin LC!FinalStatuses
         /\ Update(o) => status[o] # "ABSENT"
<1> USE DEF LC!Statuses, LC!TerminalStatuses, LC!FinalStatuses
<1>1. CASE Insert(o) BY <1>1 DEF Insert, LC!Create, LC!Move, Update, LC!Queue, LC!Start, LC!Succeed,
                          LC!Fail, LC!Retry, LC!DeadLetter, LC!Cancel
<1>2. CASE Update(o)
  BY <1>2 DEF Update, LC!Queue, LC!Start, LC!Succeed, LC!Fail, LC!Retry, LC!DeadLetter,
     LC!Cancel, LC!Move
<1> QED BY <1>1, <1>2

\* Rows come and none goes; those that are there keep created_at.
LEMMA RowsStay ==
  ASSUME TypeOK, NEW o \in Ops, Insert(o) \/ Update(o)
  PROVE  /\ Rows \subseteq Rows' /\ Rows' \subseteq Rows \cup {o}
         /\ createdAt' \in [Ops -> Int]
         /\ \A p \in Rows : createdAt'[p] = createdAt[p]
         /\ \A p, r \in Rows' : createdAt'[p] = createdAt'[r] => p = r
<1>1. PICK to \in LC!Statuses : status' = [status EXCEPT ![o] = to] BY TableMoves
<1>2. to # "ABSENT" BY DEF LC!Statuses
<1>3. Rows' = Rows \cup {o} BY <1>1, <1>2 DEF Rows, TypeOK
<1>4. CASE Insert(o)
  <2>1. PICK t \in Times \ {createdAt[p] : p \in Rows} : createdAt' = [createdAt EXCEPT ![o] = t]
    BY <1>4 DEF Insert
  <2>2. o \notin Rows BY <1>4 DEF Insert, LC!Create, LC!Move, Rows
  <2>3. createdAt' \in [Ops -> Int] /\ \A p \in Rows : createdAt'[p] = createdAt[p]
    BY <2>1, <2>2, TimesAssumption DEF TypeOK
  <2>4. createdAt'[o] = t /\ \A p \in Rows : createdAt'[p] # t BY <2>1, <2>3 DEF TypeOK
  <2> QED BY <1>3, <2>3, <2>4 DEF TypeOK
<1>5. CASE Update(o)
  <2>1. createdAt' = createdAt BY <1>5 DEF Update
  <2>2. Rows' = Rows BY <1>3, <1>5, TableMoves DEF Rows
  <2> QED BY <2>1, <2>2 DEF TypeOK
<1> QED BY <1>4, <1>5

\* What a stable filter selects stays selected, and rows are only pushed back.
LEMMA MatchingGrows ==
  ASSUME TypeOK, IsFiniteSet(Rows), IsFiniteSet(Rows'), NEW o \in Ops, Insert(o) \/ Update(o),
         query.status \in StableFilters, NEW p \in Matching(query)
  PROVE  /\ p \in Matching(query)'
         /\ Cardinality(Ahead(query, p)) <= Cardinality(Ahead(query, p)')
         /\ Cardinality(Ahead(query, p)) \in Nat /\ Cardinality(Ahead(query, p)') \in Nat
<1>1. query' = query /\ owner' = owner BY DEF Insert, Update
<1>2. ASSUME NEW r \in Matching(query) PROVE r \in Matching(query)'
  <2>1. r \in Rows /\ Selects(query, r) BY DEF Matching
  <2>2. r \in Rows' BY <2>1, RowsStay
  <2>3. query.status = AnyStatus \/ status'[r] = status[r]
    BY <2>1, TableMoves DEF StableFilters, Selects, Rows, TypeOK
  <2> QED BY <1>1, <2>1, <2>2, <2>3 DEF Matching, Selects
<1>3. Ahead(query, p) \subseteq Ahead(query, p)'
  <2>1. \A r \in Matching(query) : createdAt'[r] = createdAt[r] BY RowsStay DEF Matching
  <2> QED BY <1>1, <1>2, <2>1 DEF Ahead
<1>4. Ahead(query, p)' \subseteq Rows' BY DEF Ahead, Matching
<1>5. IsFiniteSet(Ahead(query, p)') BY <1>4, FS_Subset
<1>6. /\ IsFiniteSet(Ahead(query, p))
      /\ Cardinality(Ahead(query, p)) <= Cardinality(Ahead(query, p)')
  BY <1>3, <1>5, FS_Subset
<1> QED BY <1>2, <1>5, <1>6, FS_CardinalityType

-----------------------------------------------------------------------------
(* The invariant                                                             *)

\* Every step keeps the invariant.
LEMMA ListingStep == ASSUME ListingInv, Next PROVE ListingInv'
<1>1. TypeOK /\ IsFiniteSet(Rows) /\ StillAhead /\ NothingMissed BY DEF ListingInv
<1>2. ASSUME NEW o \in Ops, Insert(o) \/ Update(o) PROVE ListingInv'
  <2>1. UNCHANGED <<owner, query, walking, offset, seen, wanted>> BY <1>2 DEF Insert, Update
  <2>2. status' \in [Ops -> LC!Statuses \cup {"ABSENT"}] BY <1>1, <1>2, TableMoves DEF TypeOK
  <2>3. TypeOK' BY <1>1, <1>2, <2>1, <2>2, RowsStay DEF TypeOK
  <2>4. IsFiniteSet(Rows')
    <3>1. Rows' \subseteq Rows \cup {o} BY <1>1, <1>2, RowsStay
    <3> QED BY <1>1, <3>1, FS_AddElement, FS_Subset
  <2>5. StillAhead'
    <3> SUFFICES ASSUME walking, query.status \in StableFilters, NEW p \in wanted \ seen
                 PROVE  p \in Matching(query)' /\ Cardinality(Ahead(query, p)') >= offset
      BY <2>1 DEF StillAhead, StableFilters
    <3>1. p \in Matching(query) /\ Cardinality(Ahead(query, p)) >= offset
      BY <1>1 DEF StillAhead
    <3>2. /\ p \in Matching(query)'
          /\ Cardinality(Ahead(query, p)) <= Cardinality(Ahead(query, p)')
          /\ Cardinality(Ahead(query, p)) \in Nat /\ Cardinality(Ahead(query, p)') \in Nat
      BY <1>1, <1>2, <2>4, <3>1, MatchingGrows
    <3>3. offset \in Nat BY <1>1 DEF TypeOK
    <3> QED BY <3>1, <3>2, <3>3
  <2>6. NothingMissed' BY <1>1, <2>1 DEF NothingMissed, StableFilters
  <2> QED BY <2>3, <2>4, <2>5, <2>6 DEF ListingInv
<1>3. ASSUME NEW q \in Queries, Begin(q) PROVE ListingInv'
  <2>1. /\ UNCHANGED <<status, createdAt, owner>> /\ Rows' = Rows /\ walking'
        /\ query' = q /\ offset' = 0 /\ seen' = {} /\ wanted' = Matching(q)
        /\ walking' \in BOOLEAN
    BY <1>3 DEF Begin, table, Rows
  <2>2. Matching(q) \subseteq Ops BY DEF Matching, Rows
  <2>3. TypeOK' BY <1>1, <1>3, <2>1, <2>2 DEF TypeOK
  <2>4. ASSUME NEW p \in Matching(q) PROVE Cardinality(Ahead(q, p)) >= 0
    <3>1. Place(q, p) \in Nat BY <1>1, PlaceType
    <3> QED BY <3>1 DEF Place
  <2>5. \A p \in Matching(q) : p \in Matching(q)' /\ Ahead(q, p)' = Ahead(q, p)
    BY <2>1 DEF Matching, Ahead, Selects
  <2>6. StillAhead'
    <3> SUFFICES ASSUME NEW p \in Matching(q)
                 PROVE  p \in Matching(query)' /\ Cardinality(Ahead(query, p)') >= 0
      BY <2>1 DEF StillAhead, StableFilters
    <3>1. Matching(query)' = Matching(q)' /\ Ahead(query, p)' = Ahead(q, p)'
      BY <2>1 DEF Matching, Ahead, Selects
    <3> QED BY <2>4, <2>5, <3>1
  <2>7. NothingMissed' BY <2>1 DEF NothingMissed
  <2> QED BY <1>1, <2>1, <2>3, <2>6, <2>7 DEF ListingInv
<1>4. ASSUME NEW n \in Limits, ListOperations(n) PROVE ListingInv'
  <2> DEFINE limit == Limit(n)
             page == Page(limit)
  <2>1. /\ UNCHANGED <<status, createdAt, owner, query, wanted>> /\ Rows' = Rows /\ walking
        /\ walking' = (page # {}) /\ offset' = offset + Cardinality(page)
        /\ seen' = seen \cup page
    BY <1>4 DEF ListOperations, table, Rows
  <2>2. limit \in Nat \ {0} BY LimitPositive
  <2>3. Cardinality(page) \in Nat /\ Cardinality(page) <= limit BY <1>1, <2>2, PageBounded
  <2>4. page \subseteq Ops BY DEF Page, Matching, Rows
  <2>5. offset \in Nat BY <1>1 DEF TypeOK
  <2>6. TypeOK' BY <1>1, <2>1, <2>3, <2>4, <2>5 DEF TypeOK
  <2>7. ASSUME query.status \in StableFilters, NEW p \in wanted, p \notin seen, p \notin page
        PROVE  /\ p \in Matching(query) /\ Place(query, p) >= offset'
               /\ page # {}
    <3>1. p \in Matching(query) /\ Place(query, p) >= offset
      BY <1>1, <2>1, <2>7 DEF StillAhead, Place
    <3>2. Place(query, p) \in Nat BY <1>1, <3>1, PlaceType
    <3>3. Place(query, p) \notin offset..(offset + limit - 1)
      BY <2>7, <3>1 DEF Page, Place
    <3>4. page # {} BY <1>1, <2>2, <3>1, PageNotEmpty
    <3> HIDE DEF page, limit
    <3> QED BY <2>1, <2>2, <2>3, <2>5, <3>1, <3>2, <3>3, <3>4
  <2> HIDE DEF page, limit
  <2>8. StillAhead'
    <3> SUFFICES ASSUME query.status \in StableFilters, NEW p \in wanted, p \notin seen, p \notin page
                 PROVE  p \in Matching(query)' /\ Cardinality(Ahead(query, p)') >= offset'
      BY <2>1 DEF StillAhead, StableFilters
    <3>1. Matching(query)' = Matching(query) /\ Ahead(query, p)' = Ahead(query, p)
      BY <2>1 DEF Matching, Ahead, Selects
    <3> QED BY <2>7, <3>1 DEF Place
  <2>9. NothingMissed' BY <2>1, <2>7 DEF NothingMissed, StableFilters
  <2> QED BY <1>1, <2>1, <2>6, <2>8, <2>9 DEF ListingInv
<1> QED BY <1>2, <1>3, <1>4 DEF Next

\* The invariant holds, whichever rows appear wherever in the order between two pages.
THEOREM InvariantHolds == Spec => []ListingInv
<1>1. Init => ListingInv
  <2> SUFFICES ASSUME Init PROVE ListingInv OBVIOUS
  <2>1. Rows = {} BY DEF Init, LC!Init, Rows
  <2>2. TypeOK
    <3>1. /\ status \in [Ops -> LC!Statuses \cup {"ABSENT"}] /\ createdAt \in [Ops -> Int]
          /\ offset \in Nat
      BY DEF Init, LC!Init
    <3>2. walking \in BOOLEAN BY DEF Init
    <3>3. owner \in [Ops -> Tenants] /\ query \in Queries /\ seen = {} /\ wanted = {} BY DEF Init
    <3> QED BY <2>1, <3>1, <3>2, <3>3 DEF TypeOK
  <2>3. StillAhead BY DEF Init, StillAhead
  <2>4. NothingMissed BY DEF Init, NothingMissed
  <2> QED BY <2>1, <2>2, <2>3, <2>4, FS_EmptySet DEF ListingInv
<1>2. ListingInv /\ [Next]_vars => ListingInv'
  <2>1. ASSUME ListingInv, UNCHANGED vars PROVE ListingInv'
    BY <2>1 DEF vars, table, ListingInv, TypeOK, Rows, StillAhead, NothingMissed, Matching, Ahead,
       Selects, StableFilters
  <2> QED BY <2>1, ListingStep
<1> QED BY <1>1, <1>2, PTL DEF Spec

\* A client that goes through all pages, of any sizes, without a status filter or with
\* that of a final status, is shown every operation there was when it began.
THEOREM PagingMissesNothing == Spec => []NothingMissed
<1>1. ListingInv => NothingMissed BY DEF ListingInv
<1> QED BY <1>1, InvariantHolds, PTL
=============================================================================
