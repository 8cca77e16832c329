---------------------------- MODULE DbPoolProofs ----------------------------
(***************************************************************************)
(* The connection pool's properties for any number of borrowers, tenants   *)
(* and connections.  The bounds are counting arguments: each step moves one *)
(* borrower into or out of the sets that the invariants count.             *)
(***************************************************************************)
EXTENDS NestedPool, FiniteSetTheorems, TLAPS

Carrying == {"check", "use", "append"}

\* Where the connections are: with a borrower that is past taking one, in the
\* idle list or on their way out, and open in each case.
Attached ==
    /\ \A b \in Borrowers : pc[b] \in Carrying <=> conn[b] # NoConn
    /\ \A b \in Borrowers : conn[b] # NoConn => conn[b] \in open
    /\ idle \cup closing \subseteq open
    /\ idle \cap closing = {}

PlaceInv == TypeOK /\ Attached /\ TenantIsolation

-----------------------------------------------------------------------------
\* Types, places and scopes.

\* The pool starts with no connection anywhere.
LEMMA PlaceInit == Init => PlaceInv
BY PoolAssumption DEF Init, PlaceInv, TypeOK, Attached, Carrying, TenantIsolation, Places, Looking

\* Every step keeps types, places and scopes.
LEMMA PlaceStep == PlaceInv /\ [Next]_vars => PlaceInv'
<1> SUFFICES ASSUME PlaceInv, [Next]_vars PROVE PlaceInv'
    OBVIOUS
<1> USE PoolAssumption DEF PlaceInv, Places, Looking
<1>1. CASE UNCHANGED vars
  BY <1>1 DEF vars, TypeOK, Attached, TenantIsolation, At
<1>2. ASSUME NEW b \in Borrowers, TakeIdle(b), UNCHANGED closing PROVE PlaceInv'
  <2>1. TypeOK'
    BY <1>2 DEF TakeIdle, Looking, TypeOK, Attached, Carrying
  <2>2. Attached'
    BY <1>2 DEF TakeIdle, Looking, TypeOK, Attached, Carrying, TenantIsolation
  <2>3. TenantIsolation'
    BY <1>2 DEF TakeIdle, Looking, TypeOK, Attached, Carrying, TenantIsolation, At
  <2> QED BY <2>1, <2>2, <2>3
<1>3. ASSUME NEW b \in Borrowers, TakeSlot(b), UNCHANGED closing PROVE PlaceInv'
  <2>1. TypeOK'
    BY <1>3 DEF TakeSlot, Looking, TypeOK, Attached, Carrying
  <2>2. Attached'
    BY <1>3 DEF TakeSlot, Looking, TypeOK, Attached, Carrying, TenantIsolation
  <2>3. TenantIsolation'
    BY <1>3 DEF TakeSlot, Looking, TypeOK, Attached, Carrying, TenantIsolation, At
  <2> QED BY <2>1, <2>2, <2>3
<1>4. ASSUME NEW b \in Borrowers, Wait(b), UNCHANGED closing PROVE PlaceInv'
  <2>1. TypeOK'
    BY <1>4 DEF Wait, Looking, TypeOK, Attached, Carrying
  <2>2. Attached'
    BY <1>4 DEF Wait, Looking, TypeOK, Attached, Carrying, TenantIsolation
  <2>3. TenantIsolation'
    BY <1>4 DEF Wait, Looking, TypeOK, Attached, Carrying, TenantIsolation, At
  <2> QED BY <2>1, <2>2, <2>3
<1>5. ASSUME NEW b \in Borrowers, TimeOut(b), UNCHANGED closing PROVE PlaceInv'
  <2>1. TypeOK'
    BY <1>5 DEF TimeOut, TypeOK, Attached, Carrying
  <2>2. Attached'
    BY <1>5 DEF TimeOut, TypeOK, Attached, Carrying, TenantIsolation
  <2>3. TenantIsolation'
    BY <1>5 DEF TimeOut, TypeOK, Attached, Carrying, TenantIsolation, At
  <2> QED BY <2>1, <2>2, <2>3
<1>6. ASSUME NEW b \in Borrowers, Exhausted(b), UNCHANGED closing PROVE PlaceInv'
  <2>1. TypeOK'
    BY <1>6 DEF Exhausted, TypeOK, Attached, Carrying
  <2>2. Attached'
    BY <1>6 DEF Exhausted, TypeOK, Attached, Carrying, TenantIsolation
  <2>3. TenantIsolation'
    BY <1>6 DEF Exhausted, TypeOK, Attached, Carrying, TenantIsolation, At
  <2> QED BY <2>1, <2>2, <2>3
<1>7. ASSUME NEW b \in Borrowers, Check(b), UNCHANGED closing PROVE PlaceInv'
  <2>1. TypeOK'
    BY <1>7 DEF Check, TypeOK, Attached, Carrying
  <2>2. Attached'
    BY <1>7 DEF Check, TypeOK, Attached, Carrying, TenantIsolation
  <2>3. TenantIsolation'
    BY <1>7 DEF Check, TypeOK, Attached, Carrying, TenantIsolation, At
  <2> QED BY <2>1, <2>2, <2>3
<1>8. ASSUME NEW b \in Borrowers, Connect(b), UNCHANGED closing PROVE PlaceInv'
  <2>1. TypeOK'
    BY <1>8 DEF Connect, AfterFailedConnect, TypeOK, Attached, Carrying
  <2>2. Attached'
    BY <1>8 DEF Connect, AfterFailedConnect, TypeOK, Attached, Carrying, TenantIsolation
  <2>3. TenantIsolation'
    BY <1>8 DEF Connect, AfterFailedConnect, TypeOK, Attached, Carrying, TenantIsolation, At
  <2> QED BY <2>1, <2>2, <2>3
<1>9. ASSUME NEW b \in Borrowers, SetTenant(b), UNCHANGED closing PROVE PlaceInv'
  <2>1. TypeOK'
    BY <1>9 DEF SetTenant, TypeOK, Attached, Carrying
  <2>2. Attached'
    BY <1>9 DEF SetTenant, TypeOK, Attached, Carrying, TenantIsolation
  <2>3. TenantIsolation'
    BY <1>9 DEF SetTenant, TypeOK, Attached, Carrying, TenantIsolation, At
  <2> QED BY <2>1, <2>2, <2>3
<1>10. ASSUME NEW b \in Borrowers, EndTransaction(b), UNCHANGED closing PROVE PlaceInv'
  <2>1. TypeOK'
    BY <1>10 DEF EndTransaction, TypeOK, Attached, Carrying
  <2>2. Attached'
    BY <1>10 DEF EndTransaction, TypeOK, Attached, Carrying, TenantIsolation
  <2>3. TenantIsolation'
    BY <1>10 DEF EndTransaction, TypeOK, Attached, Carrying, TenantIsolation, At
  <2> QED BY <2>1, <2>2, <2>3
<1>11. ASSUME NEW b \in Borrowers, RollBack(b), UNCHANGED closing PROVE PlaceInv'
  <2>1. TypeOK'
    BY <1>11 DEF RollBack, ScopeAfterRollback, Unreleased, TypeOK, Attached, Carrying
  <2>2. Attached'
    BY <1>11 DEF RollBack, ScopeAfterRollback, Unreleased, TypeOK, Attached, Carrying, TenantIsolation
  <2>3. TenantIsolation'
    BY <1>11 DEF RollBack, ScopeAfterRollback, Unreleased, TypeOK, Attached, Carrying, TenantIsolation, At
  <2> QED BY <2>1, <2>2, <2>3
<1>12. ASSUME NEW b \in Borrowers, Discard(b), UNCHANGED closing PROVE PlaceInv'
  <2>1. TypeOK'
    BY <1>12 DEF Discard, Unreleased, TypeOK, Attached, Carrying
  <2>2. Attached'
    BY <1>12 DEF Discard, Unreleased, TypeOK, Attached, Carrying, TenantIsolation
  <2>3. TenantIsolation'
    BY <1>12 DEF Discard, Unreleased, TypeOK, Attached, Carrying, TenantIsolation, At
  <2> QED BY <2>1, <2>2, <2>3
<1>13. ASSUME NEW b \in Borrowers, Append(b), UNCHANGED closing PROVE PlaceInv'
  <2>1. TypeOK'
    BY <1>13 DEF Append, TypeOK, Attached, Carrying
  <2>2. Attached'
    BY <1>13 DEF Append, TypeOK, Attached, Carrying, TenantIsolation
  <2>3. TenantIsolation'
    BY <1>13 DEF Append, TypeOK, Attached, Carrying, TenantIsolation, At
  <2> QED BY <2>1, <2>2, <2>3
<1>14. ASSUME NEW b \in Borrowers, FreeSlot(b), UNCHANGED closing PROVE PlaceInv'
  <2>1. TypeOK'
    BY <1>14 DEF FreeSlot, Waiters, At, TypeOK, Attached, Carrying
  <2>2. Attached'
    BY <1>14 DEF FreeSlot, Waiters, At, TypeOK, Attached, Carrying, TenantIsolation
  <2>3. TenantIsolation'
    BY <1>14 DEF FreeSlot, Waiters, At, TypeOK, Attached, Carrying, TenantIsolation, At
  <2> QED BY <2>1, <2>2, <2>3
<1>15. CASE CloseIdle
  BY <1>15 DEF CloseIdle, TypeOK, Attached, Carrying, TenantIsolation, At
<1>16. CASE CloseEntry
  BY <1>16 DEF CloseEntry, TypeOK, Attached, Carrying, TenantIsolation, At
<1> QED
  BY <1>1, <1>2, <1>3, <1>4, <1>5, <1>6, <1>7, <1>8, <1>9, <1>10, <1>11, <1>12, <1>13, <1>14, <1>15, <1>16 DEF Next, Acquire, Work, Release

-----------------------------------------------------------------------------
\* Counting borrowers.

\* Sets of borrowers are finite, so they can be counted.
LEMMA Finite == \A S : IsFiniteSet(At(S)) /\ Cardinality(At(S)) \in Nat
BY PoolAssumption, FS_Subset, FS_CardinalityType DEF At

\* One borrower enters the places S, and nobody else crosses their border.
LEMMA Enters ==
  ASSUME NEW S, NEW b \in Borrowers, pc[b] \notin S, pc'[b] \in S,
         \A a \in Borrowers \ {b} : pc'[a] \in S <=> pc[a] \in S
  PROVE  Cardinality(At(S)') = Cardinality(At(S)) + 1
<1>1. At(S)' = At(S) \cup {b} /\ b \notin At(S)
  BY DEF At
<1> QED
  BY <1>1, Finite, FS_AddElement

\* One borrower leaves the places S.
LEMMA Leaves ==
  ASSUME NEW S, NEW b \in Borrowers, pc[b] \in S, pc'[b] \notin S,
         \A a \in Borrowers \ {b} : pc'[a] \in S <=> pc[a] \in S
  PROVE  Cardinality(At(S)') = Cardinality(At(S)) - 1
<1>1. At(S)' = At(S) \ {b} /\ b \in At(S)
  BY DEF At
<1> QED
  BY <1>1, Finite, FS_RemoveElement

\* Nobody crosses the border of the places S.
LEMMA Stays ==
  ASSUME NEW S, \A a \in Borrowers : pc'[a] \in S <=> pc[a] \in S
  PROVE  At(S)' = At(S)
BY DEF At

\* A connection joins or leaves a set of connections.
LEMMA CountIn ==
  ASSUME NEW S \in SUBSET Conns, NEW c, c \notin S
  PROVE  Cardinality(S \cup {c}) = Cardinality(S) + 1
BY PoolAssumption, FS_Subset, FS_AddElement

\* One element less counts one less.
LEMMA CountOut ==
  ASSUME NEW S \in SUBSET Conns, NEW c \in S
  PROVE  Cardinality(S \ {c}) = Cardinality(S) - 1
BY PoolAssumption, FS_Subset, FS_RemoveElement

\* A finite set has a natural number of elements.
LEMMA CountNat ==
  ASSUME NEW S \in SUBSET Conns
  PROVE  IsFiniteSet(S) /\ Cardinality(S) \in Nat
BY PoolAssumption, FS_Subset, FS_CardinalityType

\* Nothing counts zero.
LEMMA CountNone == Cardinality({}) = 0
BY FS_EmptySet

-----------------------------------------------------------------------------
\* Slots.

\* Every step that moves a borrower into or out of a slot moves the counter
\* with it.
LEMMA SlotsStep == PlaceInv /\ SlotsAccounted /\ [Next]_vars => SlotsAccounted'
<1> SUFFICES ASSUME PlaceInv, SlotsAccounted, [Next]_vars PROVE SlotsAccounted'
    OBVIOUS
<1> DEFINE H == Cardinality(At(Holding))
<1>0. H \in Nat /\ inUse = H /\ pc \in [Borrowers -> Places]
  BY Finite DEF SlotsAccounted, PlaceInv, TypeOK
<1>1. ASSUME NEW b \in Borrowers, TakeIdle(b) \/ TakeSlot(b) PROVE SlotsAccounted'
  <2>1. H' = H + 1
    BY <1>0, <1>1, Enters DEF TakeIdle, TakeSlot, Looking, Holding
  <2>2. inUse' = inUse + 1
    BY <1>1 DEF TakeIdle, TakeSlot
  <2> QED BY <1>0, <2>1, <2>2 DEF SlotsAccounted
<1>2. ASSUME NEW b \in Borrowers, FreeSlot(b) PROVE SlotsAccounted'
  <2>1. pc'[b] = "out" /\ pc[b] = "free"
    BY <1>0, <1>2 DEF FreeSlot, Waiters, At
  <2>2. \A a \in Borrowers \ {b} : pc'[a] \in Holding <=> pc[a] \in Holding
    BY <1>0, <1>2 DEF FreeSlot, Waiters, At, Holding
  <2>3. H' = H - 1
    BY <2>1, <2>2, Leaves DEF Holding
  <2> QED BY <1>0, <1>2, <2>3 DEF SlotsAccounted, FreeSlot
<1>3. ASSUME UNCHANGED inUse,
             \A a \in Borrowers : pc'[a] \in Holding <=> pc[a] \in Holding
      PROVE  SlotsAccounted'
  BY <1>3, Stays DEF SlotsAccounted
<1>4. ASSUME NEW b \in Borrowers,
             Wait(b) \/ TimeOut(b) \/ Exhausted(b) \/ Check(b) \/ Connect(b)
             \/ Work(b) \/ RollBack(b) \/ Discard(b) \/ Append(b)
      PROVE  SlotsAccounted'
  <2>1. UNCHANGED inUse
    BY <1>4 DEF Wait, TimeOut, Exhausted, Check, Connect, Work, SetTenant,
                EndTransaction, RollBack, Discard, Append
  <2>2. \A a \in Borrowers : pc'[a] \in Holding <=> pc[a] \in Holding
    BY <1>0, <1>4 DEF Wait, TimeOut, Exhausted, Check, Connect, AfterFailedConnect, Work,
                SetTenant, EndTransaction, RollBack, Discard, Append, Looking, Holding, Unreleased
  <2> QED BY <1>3, <2>1, <2>2
<1>5. CASE CloseIdle \/ CloseEntry \/ UNCHANGED vars
  BY <1>3, <1>5 DEF CloseIdle, CloseEntry, vars
<1> QED
  BY <1>1, <1>2, <1>4, <1>5 DEF Next, Acquire, Release

-----------------------------------------------------------------------------
\* The bound on connections.

Bearing == {"check", "connect", "use", "append"}

\* Every open connection is idle or borne, and the bearers without one connect.
Balanced == Cardinality(open \ closing) + Cardinality(At({"connect"}))
            = Cardinality(idle) + Cardinality(At(Bearing))

Capacity == Cardinality(idle) + Cardinality(At(Bearing)) <= MaxConn

CountInv == PlaceInv /\ SlotsAccounted /\ Balanced /\ Capacity

\* Every step keeps the two counting invariants: a slot is taken before a
\* connection is opened and freed after one is given up.
LEMMA CountStep == CountInv /\ [Next]_vars => Balanced' /\ Capacity'
<1> SUFFICES ASSUME CountInv, [Next]_vars PROVE Balanced' /\ Capacity'
    OBVIOUS
<1> DEFINE O == Cardinality(open \ closing)
           I == Cardinality(idle)
           C == Cardinality(At({"connect"}))
           B == Cardinality(At(Bearing))
<1>0. /\ O \in Nat /\ I \in Nat /\ C \in Nat /\ B \in Nat /\ MaxConn \in Nat
      /\ O + C = I + B /\ I + B <= MaxConn
  BY CountNat, Finite, PoolAssumption DEF CountInv, Balanced, Capacity, PlaceInv, TypeOK
<1>1. /\ pc \in [Borrowers -> Places] /\ open \subseteq Conns /\ idle \subseteq open
      /\ closing \subseteq open /\ idle \cap closing = {}
      /\ \A b \in Borrowers : /\ pc[b] \in Carrying <=> conn[b] # NoConn
                              /\ conn[b] # NoConn => conn[b] \in open \ closing
                              /\ conn[b] \notin idle
  BY DEF CountInv, PlaceInv, TypeOK, Attached, TenantIsolation
<1>2. ASSUME O' + C' = I' + B', I' + B' <= MaxConn PROVE Balanced' /\ Capacity'
  BY <1>2 DEF Balanced, Capacity
<1>3. ASSUME NEW b \in Borrowers, TakeIdle(b), UNCHANGED closing PROVE Balanced' /\ Capacity'
  <2>1. I' = I - 1
    BY <1>1, <1>3, CountOut DEF TakeIdle
  <2>2. B' = B + 1
    BY <1>1, <1>3, Enters DEF TakeIdle, Looking, Bearing
  <2>3. C' = C /\ O' = O
    BY <1>1, <1>3, Stays DEF TakeIdle, Looking
  <2> QED BY <1>0, <1>2, <2>1, <2>2, <2>3
<1>4. ASSUME NEW b \in Borrowers, TakeSlot(b), UNCHANGED closing PROVE Balanced' /\ Capacity'
  <2>1. B' = B + 1
    BY <1>1, <1>4, Enters DEF TakeSlot, Looking, Bearing
  <2>2. C' = C + 1
    BY <1>1, <1>4, Enters DEF TakeSlot, Looking
  <2>3. O' = O /\ I' = I
    BY <1>4 DEF TakeSlot
  <2>4. B <= Cardinality(At(Holding))
    BY Finite, FS_Subset DEF At, Holding, Bearing
  <2>5. I = 0 /\ Cardinality(At(Holding)) < MaxConn
    BY <1>4, CountNone DEF TakeSlot, Room, CountInv, SlotsAccounted
  <2>6. Cardinality(At(Holding)) \in Nat
    BY Finite
  <2> QED BY <1>0, <1>2, <2>1, <2>2, <2>3, <2>4, <2>5, <2>6
<1>5. ASSUME NEW b \in Borrowers, Check(b), UNCHANGED closing PROVE Balanced' /\ Capacity'
  <2>1. B' = B /\ I' = I
    BY <1>1, <1>5, Stays DEF Check, Bearing
  <2>2. CASE pc' = [pc EXCEPT ![b] = "use"] /\ UNCHANGED <<conn, open>>
    BY <1>0, <1>1, <1>2, <1>5, <2>1, <2>2, Stays DEF Check
  <2>3. CASE pc' = [pc EXCEPT ![b] = "connect"] /\ open' = open \ {conn[b]}
    <3>1. C' = C + 1
      BY <1>1, <1>5, <2>3, Enters DEF Check
    <3>2. conn[b] \in open \ closing
      BY <1>1, <1>5 DEF Check, Carrying
    <3>3. open' \ closing' = (open \ closing) \ {conn[b]}
      BY <1>5, <2>3
    <3>4. O' = O - 1
      BY <1>1, <3>2, <3>3, CountOut
    <3> QED BY <1>0, <1>2, <2>1, <3>1, <3>4
  <2> QED BY <1>5, <2>2, <2>3 DEF Check
<1>6. ASSUME NEW b \in Borrowers, Connect(b), UNCHANGED closing PROVE Balanced' /\ Capacity'
  <2>1. C' = C - 1 /\ I' = I
    BY <1>1, <1>6, Leaves DEF Connect, AfterFailedConnect
  <2>2. ASSUME NEW c \in Conns \ open, open' = open \cup {c},
               pc' = [pc EXCEPT ![b] = "use"]
        PROVE  Balanced' /\ Capacity'
    <3>1. B' = B
      BY <1>1, <1>6, <2>2, Stays DEF Connect, Bearing
    <3>2. open' \ closing' = (open \ closing) \cup {c}
      BY <1>1, <1>6, <2>2
    <3>3. O' = O + 1
      BY <1>1, <2>2, <3>2, CountIn
    <3> QED BY <1>0, <1>2, <2>1, <3>1, <3>3
  <2>3. CASE pc' = [pc EXCEPT ![b] = AfterFailedConnect] /\ UNCHANGED open
    <3>1. B' = B - 1
      BY <1>1, <1>6, <2>3, Leaves DEF Connect, AfterFailedConnect, Bearing
    <3>2. O' = O
      BY <1>6, <2>3
    <3> QED BY <1>0, <1>2, <2>1, <3>1, <3>2
  <2> QED BY <1>6, <2>2, <2>3 DEF Connect
<1>7. ASSUME NEW b \in Borrowers, Discard(b), UNCHANGED closing PROVE Balanced' /\ Capacity'
  <2>1. B' = B - 1
    BY <1>1, <1>7, Leaves DEF Discard, Bearing, Unreleased
  <2>2. C' = C /\ I' = I
    BY <1>1, <1>7, Stays DEF Discard, Unreleased
  <2>3. conn[b] \in open \ closing /\ open' \ closing' = (open \ closing) \ {conn[b]}
    BY <1>1, <1>7 DEF Discard, Carrying, Unreleased
  <2>4. O' = O - 1
    BY <1>1, <2>3, CountOut
  <2> QED BY <1>0, <1>2, <2>1, <2>2, <2>4
<1>8. ASSUME NEW b \in Borrowers, Append(b), UNCHANGED closing PROVE Balanced' /\ Capacity'
  <2>1. B' = B - 1
    BY <1>1, <1>8, Leaves DEF Append, Bearing
  <2>2. C' = C /\ O' = O
    BY <1>1, <1>8, Stays DEF Append
  <2>3. conn[b] \in Conns \ idle
    BY <1>1, <1>8 DEF Append, Carrying
  <2>4. I' = I + 1
    BY <1>1, <1>8, <2>3, CountIn DEF Append
  <2> QED BY <1>0, <1>2, <2>1, <2>2, <2>4
<1>9. ASSUME UNCHANGED <<idle, open, closing>>,
             \A a \in Borrowers : /\ pc'[a] \in Bearing <=> pc[a] \in Bearing
                                  /\ pc'[a] = "connect" <=> pc[a] = "connect"
      PROVE  Balanced' /\ Capacity'
  <2>1. At(Bearing)' = At(Bearing) /\ At({"connect"})' = At({"connect"})
    BY <1>9, Stays
  <2> QED BY <1>0, <1>2, <1>9, <2>1
<1>10. ASSUME NEW b \in Borrowers, UNCHANGED closing,
              Wait(b) \/ TimeOut(b) \/ Exhausted(b) \/ Work(b) \/ RollBack(b) \/ FreeSlot(b)
       PROVE  Balanced' /\ Capacity'
  <2>1. UNCHANGED <<idle, open>>
    BY <1>10 DEF Wait, TimeOut, Exhausted, Work, SetTenant, EndTransaction, RollBack, FreeSlot
  <2>2. \A a \in Borrowers : /\ pc'[a] \in Bearing <=> pc[a] \in Bearing
                             /\ pc'[a] = "connect" <=> pc[a] = "connect"
    BY <1>1, <1>10 DEF Wait, TimeOut, Exhausted, Work, SetTenant, EndTransaction, RollBack,
                       FreeSlot, Looking, Unreleased, Waiters, At, Bearing
  <2> QED BY <1>9, <1>10, <2>1, <2>2
<1>11. CASE CloseIdle
  <2>1. B' = B /\ C' = C
    BY <1>11 DEF CloseIdle, At
  <2>2. I' = 0
    BY <1>11, CountNone DEF CloseIdle
  <2>3. /\ open' \ closing' = (open \ closing) \ idle
        /\ (open \ closing) \cap idle = idle
    BY <1>1, <1>11 DEF CloseIdle
  <2>4. O' = O - I
    BY <1>1, <2>3, CountNat, FS_Difference
  <2> QED BY <1>0, <1>2, <2>1, <2>2, <2>4
<1>12. CASE CloseEntry
  <2>1. B' = B /\ C' = C /\ I' = I
    BY <1>12 DEF CloseEntry, At
  <2>2. open' \ closing' = open \ closing
    BY <1>12 DEF CloseEntry
  <2> QED BY <1>0, <1>2, <2>1, <2>2
<1>13. CASE UNCHANGED vars
  BY <1>9, <1>13 DEF vars
<1> QED
  BY <1>3, <1>4, <1>5, <1>6, <1>7, <1>8, <1>10, <1>11, <1>12, <1>13 DEF Next, Acquire, Release

-----------------------------------------------------------------------------
\* Waiting.

\* While a borrower sleeps, every free slot has a notified thread on its way to
\* it, and every idle connection has one or a releaser about to notify one.
Notified ==
    At({"wait"}) # {} => /\ MaxConn - inUse <= Cardinality(At({"woken"}))
                         /\ Cardinality(idle) <= Cardinality(At({"woken", "free"}))

\* Whoever frees a slot or appends an entry while somebody sleeps notifies.
LEMMA NotifiedStep == PlaceInv /\ Notified /\ [Next]_vars => Notified'
<1> SUFFICES ASSUME PlaceInv, Notified, [Next]_vars, At({"wait"})' # {}
             PROVE  /\ MaxConn - inUse' <= Cardinality(At({"woken"})')
                    /\ Cardinality(idle') <= Cardinality(At({"woken", "free"})')
    BY DEF Notified
<1> DEFINE W == Cardinality(At({"woken"}))
           F == Cardinality(At({"woken", "free"}))
           I == Cardinality(idle)
           Goal == MaxConn - inUse' <= W' /\ I' <= F'
<1>0. /\ W \in Nat /\ F \in Nat /\ I \in Nat /\ MaxConn \in Nat /\ inUse \in Int
      /\ pc \in [Borrowers -> Places] /\ idle \subseteq Conns
  BY CountNat, Finite, PoolAssumption DEF PlaceInv, TypeOK
<1>1. At({"wait"}) # {} => MaxConn - inUse <= W /\ I <= F
  BY DEF Notified
<1>2. ASSUME NEW b \in Borrowers, TakeIdle(b) \/ TakeSlot(b) PROVE Goal
  <2>1. At({"wait"}) # {} /\ inUse' = inUse + 1
    BY <1>0, <1>2 DEF TakeIdle, TakeSlot, Looking, At
  <2>2. W' \in {W, W - 1} /\ F' \in {F, F - 1}
    <3>1. CASE pc[b] = "woken"
      BY <1>0, <1>2, <3>1, Leaves DEF TakeIdle, TakeSlot, Looking
    <3>2. CASE pc[b] # "woken"
      BY <1>0, <1>2, <3>2, Stays DEF TakeIdle, TakeSlot, Looking
    <3> QED BY <3>1, <3>2
  <2>3. CASE TakeIdle(b)
    <3>1. I' = I - 1
      BY <1>0, <2>3, CountOut DEF TakeIdle
    <3> QED BY <1>0, <1>1, <2>1, <2>2, <3>1
  <2>4. CASE TakeSlot(b)
    <3>1. I = 0 /\ I' = 0 /\ F' \in Nat
      <4>1. I = 0 /\ I' = 0
        BY <2>4, CountNone DEF TakeSlot
      <4>2. F' \in Nat
        BY PoolAssumption, FS_Subset, FS_CardinalityType DEF At
      <4> QED BY <4>1, <4>2
    <3> QED BY <1>0, <1>1, <2>1, <2>2, <3>1
  <2> QED BY <1>2, <2>3, <2>4
<1>3. ASSUME NEW b \in Borrowers, Wait(b) \/ Exhausted(b) PROVE Goal
  <2>1. idle' = {} /\ inUse' = inUse /\ ~(inUse < MaxConn)
    BY <1>3 DEF Wait, Exhausted, Room
  <2>2. I' = 0
    BY <2>1, CountNone
  <2>3. W' \in Nat /\ F' \in Nat
    BY PoolAssumption, FS_Subset, FS_CardinalityType DEF At
  <2> QED BY <1>0, <2>1, <2>2, <2>3
<1>4. ASSUME NEW b \in Borrowers, FreeSlot(b) PROVE Goal
  <2>1. PICK w \in Waiters : pc' = [pc EXCEPT ![b] = "out", ![w] = "woken"]
    BY <1>0, <1>4 DEF FreeSlot, Notify, Waiters, At
  <2>2. pc[b] = "free" /\ pc[w] \in {"wait", "late"} /\ w \in Borrowers /\ w # b
    BY <1>4, <2>1 DEF FreeSlot, Waiters, At
  <2>3. W' = W + 1
    BY <1>0, <2>1, <2>2, Enters
  <2>4. At({"woken", "free"})' = (At({"woken", "free"}) \ {b}) \cup {w}
    BY <1>0, <2>1, <2>2 DEF At
  <2>5. F' = F
    <3>1. b \in At({"woken", "free"}) /\ w \notin At({"woken", "free"}) \ {b}
      BY <2>2 DEF At
    <3>2. /\ IsFiniteSet(At({"woken", "free"}) \ {b})
          /\ Cardinality(At({"woken", "free"}) \ {b}) = F - 1
      BY <3>1, Finite, FS_RemoveElement
    <3>3. F' = (F - 1) + 1
      BY <2>4, <3>1, <3>2, FS_AddElement
    <3> QED BY <1>0, <3>3
  <2>6. At({"wait"}) # {} /\ I' = I /\ inUse' = inUse - 1
    BY <1>0, <1>4, <2>1, <2>2 DEF FreeSlot, At
  <2> QED BY <1>0, <1>1, <2>3, <2>5, <2>6
<1>5. ASSUME NEW b \in Borrowers, Append(b) PROVE Goal
  <2>1. W' = W
    BY <1>0, <1>5, Stays DEF Append
  <2>2. F' = F + 1
    BY <1>0, <1>5, Enters DEF Append
  <2>3. conn[b] \in Conns \ idle
    BY <1>5 DEF Append, PlaceInv, TypeOK, Attached, TenantIsolation, Carrying
  <2>4. I' = I + 1
    BY <1>0, <1>5, <2>3, CountIn DEF Append
  <2>5. At({"wait"}) # {} /\ inUse' = inUse
    BY <1>0, <1>5 DEF Append, At
  <2> QED BY <1>0, <1>1, <2>1, <2>2, <2>4, <2>5
<1>6. ASSUME NEW b \in Borrowers,
             TimeOut(b) \/ Check(b) \/ Connect(b) \/ Work(b) \/ RollBack(b) \/ Discard(b)
      PROVE  Goal
  <2>1. W' = W
    BY <1>0, <1>6, Stays DEF TimeOut, Check, Connect, AfterFailedConnect, Work, SetTenant,
                             EndTransaction, RollBack, Discard, Unreleased
  <2>2. F' \in {F, F + 1}
    <3>1. CASE pc'[b] = "free"
      BY <1>0, <1>6, <3>1, Enters DEF TimeOut, Check, Connect, AfterFailedConnect, Work,
                               SetTenant, EndTransaction, RollBack, Discard, Unreleased
    <3>2. CASE pc'[b] # "free"
      BY <1>0, <1>6, <3>2, Stays DEF TimeOut, Check, Connect, AfterFailedConnect, Work,
                               SetTenant, EndTransaction, RollBack, Discard, Unreleased
    <3> QED BY <3>1, <3>2
  <2>3. At({"wait"}) # {} /\ I' = I /\ inUse' = inUse
    BY <1>0, <1>6 DEF TimeOut, Check, Connect, AfterFailedConnect, Work, SetTenant,
                      EndTransaction, RollBack, Discard, Unreleased, At
  <2> QED BY <1>0, <1>1, <2>1, <2>2, <2>3
<1>7. CASE CloseIdle \/ CloseEntry \/ UNCHANGED vars
  <2>1. At({"wait"}) # {} /\ inUse' = inUse /\ W' = W /\ F' = F
    BY <1>7 DEF CloseIdle, CloseEntry, vars, At
  <2>2. I' = I \/ I' = 0
    BY <1>7, CountNone DEF CloseIdle, CloseEntry, vars
  <2> QED BY <1>0, <1>1, <2>1, <2>2
<1> QED
  BY <1>2, <1>3, <1>4, <1>5, <1>6, <1>7 DEF Next, Acquire, Release

-----------------------------------------------------------------------------
\* The inductive invariant and the theorems.

IInv == CountInv /\ Notified

\* The conjunction is an invariant of the pool.
LEMMA Invariant == Spec => []IInv
<1>1. ASSUME Init PROVE IInv
  <2>1. /\ At(Holding) = {} /\ At({"connect"}) = {} /\ At(Bearing) = {}
        /\ At({"wait"}) = {} /\ open \ closing = {} /\ idle = {} /\ inUse = 0
    BY <1>1 DEF Init, At, Holding, Bearing
  <2>2. SlotsAccounted
    BY <2>1, CountNone DEF SlotsAccounted
  <2>3. Balanced /\ Capacity
    BY <2>1, CountNone, PoolAssumption DEF Balanced, Capacity
  <2> QED BY <1>1, <2>1, <2>2, <2>3, PlaceInit DEF IInv, CountInv, Notified
<1>2. IInv /\ [Next]_vars => IInv'
  BY PlaceStep, SlotsStep, CountStep, NotifiedStep DEF IInv, CountInv
<1> QED BY <1>1, <1>2, PTL DEF Spec

\* Every variable keeps its type.
THEOREM TypeCorrect == Spec => []TypeOK
<1>1. IInv => TypeOK
  BY DEF IInv, CountInv, PlaceInv
<1> QED BY <1>1, Invariant, PTL

\* release() and the proxies lose no slot and free none twice: in_use is the
\* number of borrowers between taking a slot and freeing it.
THEOREM EverySlotAccounted == Spec => []SlotsAccounted
<1>1. IInv => SlotsAccounted
  BY DEF IInv, CountInv
<1> QED BY <1>1, Invariant, PTL

\* I3 of the pool's contract: at most maxconn connections are open or opening,
\* whatever in_use is between the two critical sections of release().
THEOREM ConnectionsBounded == Spec => []BoundedOpen
<1>1. IInv => BoundedOpen
  <2> SUFFICES ASSUME IInv PROVE BoundedOpen
      OBVIOUS
  <2>1. /\ Cardinality(open \ closing) \in Nat /\ Cardinality(At({"connect"})) \in Nat
        /\ Cardinality(idle) \in Nat /\ Cardinality(At(Bearing)) \in Nat
    BY CountNat, Finite DEF IInv, CountInv, PlaceInv, TypeOK
  <2> QED BY <2>1, PoolAssumption DEF IInv, CountInv, Balanced, Capacity, BoundedOpen
<1> QED BY <1>1, Invariant, PTL

\* I2 of the pool's contract: no borrower finds another tenant's scope on its
\* connection, and no connection is borrowed twice.
THEOREM TenantsIsolated == Spec => []TenantIsolation
<1>1. IInv => TenantIsolation
  BY DEF IInv, CountInv, PlaceInv
<1> QED BY <1>1, Invariant, PTL

\* notify(), not notify_all(), is enough: no borrower sleeps through room.
THEOREM NoWakeupLost == Spec => []NoLostWakeup
<1>1. IInv => NoLostWakeup
  <2> SUFFICES ASSUME IInv, At({"wait"}) # {}, idle # {} \/ Room,
                      At({"woken", "late", "free"}) = {}
               PROVE  FALSE
      BY DEF NoLostWakeup
  <2>1. At({"woken"}) = {} /\ At({"woken", "free"}) = {}
    BY DEF At
  <2>2. MaxConn - inUse <= 0 /\ Cardinality(idle) <= 0
    BY <2>1, CountNone DEF IInv, Notified
  <2>3. inUse \in Int /\ IsFiniteSet(idle) /\ Cardinality(idle) \in Nat
    BY CountNat DEF IInv, CountInv, PlaceInv, TypeOK
  <2> QED BY <2>2, <2>3, FS_EmptySet, PoolAssumption DEF Room
<1> QED BY <1>1, Invariant, PTL

-----------------------------------------------------------------------------
\* Code that nests its borrowings only takes steps of the pool, so all that is proved of
\* the pool holds of it; and when such threads starve each other, they are as many as the
\* pool has slots.

\* The pool under nested borrowings implements the pool under any borrowings.
THEOREM NestedIsPool == NestedSpec => Spec
<1>1. [NestedNext]_vars => [Next]_vars
  BY DEF NestedNext, Step, Next
<1> QED BY <1>1, PTL DEF NestedSpec, Spec

\* Drains and dashboard requests never share a connection, nor leave a tenant's scope on
\* one, although they have two at a time.
THEOREM NestedIsolated == NestedSpec => [](SlotsAccounted /\ BoundedOpen /\ TenantIsolation)
BY NestedIsPool, EverySlotAccounted, ConnectionsBounded, TenantsIsolated, PTL

\* When everybody waits for the deadline of somebody, the threads that keep a
\* connection and wait for another are as many as the pool has slots: a pool larger
\* than the number of drains and dashboard requests at once never comes to that.
THEOREM StarvingFillsPool == NestedSpec => []StuckOnlyWhenFull
<1>1. IInv => StuckOnlyWhenFull
  <2> SUFFICES ASSUME IInv, Stuck PROVE Cardinality(Starving) >= MaxConn
      BY DEF StuckOnlyWhenFull
  <2>1. At({"woken"}) = {}
    BY DEF Stuck, Starving, At, Holding
  <2>2. At(Holding) = Starving
    BY DEF Stuck, Starving, At, Holding
  <2>3. MaxConn - inUse <= 0
    BY <2>1, CountNone DEF IInv, Notified, Stuck
  <2>4. inUse = Cardinality(Starving) /\ inUse \in Int
    BY <2>2 DEF IInv, CountInv, SlotsAccounted, PlaceInv, TypeOK
  <2> QED BY <2>3, <2>4, PoolAssumption
<1> QED BY <1>1, NestedIsPool, Invariant, PTL

-----------------------------------------------------------------------------
\* Slots, checks and lists aside, the pool lends connections.

\* Who owes a connection is using it, and there are no more of those than maxconn.
LEMMA DebtorsBear ==
    CountInv => /\ Lending!Debtors = At({"use"})
                /\ Cardinality(Lending!Debtors) \in Nat
                /\ Cardinality(Lending!Debtors) <= MaxConn
<1> SUFFICES ASSUME CountInv
             PROVE  /\ Lending!Debtors = At({"use"})
                    /\ Cardinality(At({"use"})) \in Nat
                    /\ Cardinality(At({"use"})) <= MaxConn
    OBVIOUS
<1>1. Lending!Debtors = At({"use"})
  BY PoolAssumption
     DEF CountInv, PlaceInv, TypeOK, Attached, Carrying, Lending!Debtors, lentNow, At
<1>2. At({"use"}) \in SUBSET At(Bearing)
  BY DEF At, Bearing
<1>3. Cardinality(At({"use"})) <= Cardinality(At(Bearing))
  BY <1>2, Finite, FS_Subset
<1>4. Cardinality(idle) \in Nat
  BY CountNat DEF CountInv, PlaceInv, TypeOK
<1> QED BY <1>1, <1>3, <1>4, Finite, PoolAssumption DEF CountInv, Capacity

\* Handing out a connection, checked or just opened, is lending it: it was nobody's and
\* carries no scope, and the borrower's slot left room for it.
LEMMA HandedOut ==
    ASSUME CountInv, CountInv', NEW b \in Borrowers, NEW c \in Conns,
           pc[b] # "use", pc' = [pc EXCEPT ![b] = "use"], conn'[b] = c,
           \A a \in Borrowers \ {b} : conn'[a] = conn[a],
           scope' = scope
    PROVE  Lending!Lend(b, c)
<1> USE DEF CountInv, PlaceInv
<1>1. lentNow' = [lentNow EXCEPT ![b] = c]
  BY DEF lentNow, TypeOK
<1>2. b \notin Lending!Debtors
  BY DebtorsBear DEF At
<1>3. ASSUME NEW a \in Lending!Debtors PROVE lentNow[a] # c
  <2>1. a \in Borrowers /\ a # b /\ pc[a] = "use"
    BY <1>2, DebtorsBear DEF At
  <2>2. conn'[a] = conn[a] /\ conn[a] # NoConn
    BY <2>1 DEF Attached, Carrying
  <2>3. conn'[a] # conn'[b]
    BY <2>1, <2>2 DEF TenantIsolation
  <2> QED BY <2>1, <2>2, <2>3 DEF lentNow
<1>4. Cardinality(Lending!Debtors) < MaxConn
  <2>1. At({"use"})' = At({"use"}) \cup {b} /\ b \notin At({"use"})
    BY DEF At, TypeOK
  <2>2. Cardinality(At({"use"})') = Cardinality(At({"use"})) + 1
    BY <2>1, Finite, FS_AddElement
  <2>3. Cardinality(At({"use"})') <= MaxConn
    <3>1. At({"use"})' \in SUBSET At(Bearing)'
      BY DEF At, Bearing
    <3>2. IsFiniteSet(At(Bearing)') /\ Cardinality(At(Bearing)') \in Nat
      BY PoolAssumption, FS_Subset, FS_CardinalityType DEF At
    <3>3. Cardinality(At({"use"})') <= Cardinality(At(Bearing)')
      BY <3>1, <3>2, FS_Subset
    <3>4. Cardinality(idle') \in Nat
      BY CountNat DEF TypeOK
    <3>5. Cardinality(At({"use"})') \in Nat
      BY <2>2, Finite
    <3> QED BY <3>2, <3>3, <3>4, <3>5, PoolAssumption DEF Capacity
  <2>4. Cardinality(At({"use"})) \in Nat /\ MaxConn \in Nat
    BY Finite, PoolAssumption
  <2>5. Cardinality(At({"use"})) < MaxConn
    BY <2>2, <2>3, <2>4
  <2> QED BY <2>5, DebtorsBear
<1>5. scope[c] = NoTenant
  <2>1. ASSUME scope[c] # NoTenant PROVE FALSE
    <3>1. PICK a \in Borrowers : pc[a] = "use" /\ conn[a] = c
      BY <2>1 DEF TenantIsolation, At
    <3>2. a \in Lending!Debtors /\ lentNow[a] = c
      BY <3>1, DebtorsBear DEF At, lentNow
    <3> QED BY <1>3, <3>2
  <2> QED BY <2>1
<1> QED BY <1>1, <1>2, <1>3, <1>4, <1>5 DEF Lending!Lend, Lending!Cardinality, Cardinality

\* A connection that leaves its borrower is given back.
LEMMA Returned ==
    ASSUME PlaceInv, NEW b \in Borrowers, pc[b] = "use",
           NEW place \in Places \ {"use"}, pc' = [pc EXCEPT ![b] = place],
           \A a \in Borrowers \ {b} : conn'[a] = conn[a],
           scope' = [scope EXCEPT ![conn[b]] = NoTenant]
    PROVE  Lending!GiveBack(b)
<1> USE DEF PlaceInv, TypeOK
<1>1. b \in Lending!Debtors /\ lentNow[b] = conn[b]
  BY DEF Lending!Debtors, lentNow, Attached, Carrying
<1>2. lentNow' = [lentNow EXCEPT ![b] = NoConn]
  BY DEF lentNow
<1> QED BY <1>1, <1>2 DEF Lending!GiveBack

\* Every other step of a borrower is none of the lending.
LEMMA Unlent ==
    ASSUME PlaceInv, NEW b \in Borrowers, pc[b] # "use", pc'[b] # "use",
           \A a \in Borrowers \ {b} : (pc'[a] = "use" <=> pc[a] = "use") /\ conn'[a] = conn[a],
           scope' = scope
    PROVE  UNCHANGED Lending!lvars
BY DEF lentNow, Lending!lvars, PlaceInv, TypeOK

\* Every step of the pool is a step of the lending, or none that it sees.
LEMMA LendingStep == CountInv /\ CountInv' /\ [Next]_vars => [Lending!LNext]_Lending!lvars
<1> SUFFICES ASSUME CountInv, CountInv', [Next]_vars
             PROVE  Lending!LNext \/ UNCHANGED Lending!lvars
    OBVIOUS
<1> USE DEF CountInv, PlaceInv
<1>1. ASSUME NEW b \in Borrowers,
             TakeIdle(b) \/ TakeSlot(b) \/ Wait(b) \/ TimeOut(b) \/ Exhausted(b)
      PROVE  UNCHANGED Lending!lvars
  BY <1>1, Unlent DEF TakeIdle, TakeSlot, Wait, TimeOut, Exhausted, Looking, TypeOK
<1>2. ASSUME NEW b \in Borrowers, Check(b) PROVE Lending!LNext \/ UNCHANGED Lending!lvars
  <2>1. CASE pc' = [pc EXCEPT ![b] = "use"]
    <3>1. conn' = conn /\ conn[b] \in Conns /\ scope' = scope /\ pc[b] # "use"
      BY <1>2, <2>1 DEF Check, TypeOK, Attached, Carrying
    <3>2. Lending!Lend(b, conn[b])
      BY <2>1, <3>1, HandedOut
    <3> QED BY <3>1, <3>2 DEF Lending!LNext
  <2>2. CASE pc' = [pc EXCEPT ![b] = "connect"]
    BY <1>2, <2>2, Unlent DEF Check, TypeOK
  <2> QED BY <1>2, <2>1, <2>2 DEF Check
<1>3. ASSUME NEW b \in Borrowers, Connect(b) PROVE Lending!LNext \/ UNCHANGED Lending!lvars
  <2>1. CASE pc' = [pc EXCEPT ![b] = "use"]
    <3>1. PICK c \in Conns \ open : /\ conn' = [conn EXCEPT ![b] = c]
                                    /\ scope' = [scope EXCEPT ![c] = NoTenant]
      BY <1>3, <2>1 DEF Connect, AfterFailedConnect, TypeOK
    <3>2. scope[c] = NoTenant
      <4>1. \A a \in Borrowers : conn[a] # c
        BY <3>1, PoolAssumption DEF Attached, TypeOK, PlaceInv
      <4> QED BY <3>1, <4>1 DEF TenantIsolation, At
    <3>3. scope' = scope /\ conn'[b] = c /\ \A a \in Borrowers \ {b} : conn'[a] = conn[a]
      BY <3>1, <3>2 DEF TypeOK
    <3>4. Lending!Lend(b, c)
      BY <1>3, <2>1, <3>3, HandedOut DEF Connect
    <3> QED BY <3>4 DEF Lending!LNext
  <2>2. CASE pc' = [pc EXCEPT ![b] = "free"] /\ UNCHANGED <<conn, scope>>
    BY <1>3, <2>2, Unlent DEF Connect, TypeOK
  <2> QED BY <1>3, <2>1, <2>2 DEF Connect, AfterFailedConnect
<1>4. ASSUME NEW b \in Borrowers, SetTenant(b) \/ EndTransaction(b) PROVE Lending!LNext
  <2>1. lentNow' = lentNow /\ b \in Lending!Debtors /\ lentNow[b] = conn[b]
    BY <1>4 DEF SetTenant, EndTransaction, Lending!Debtors, lentNow, Attached, Carrying
  <2>2. Lending!Rescope(b)
    BY <1>4, <2>1 DEF SetTenant, EndTransaction, Lending!Rescope
  <2> QED BY <2>2 DEF Lending!LNext
<1>5. ASSUME NEW b \in Borrowers, RollBack(b) \/ Discard(b) PROVE Lending!LNext
  <2>1. Lending!GiveBack(b)
    <3>1. pc[b] = "use" /\ scope' = [scope EXCEPT ![conn[b]] = NoTenant]
      BY <1>5 DEF RollBack, Discard, Unreleased, ScopeAfterRollback
    <3>2. \A a \in Borrowers \ {b} : conn'[a] = conn[a]
      BY <1>5 DEF RollBack, Discard, TypeOK
    <3>3. \E place \in Places \ {"use"} : pc' = [pc EXCEPT ![b] = place]
      <4>1. {"append", "free"} \subseteq Places \ {"use"}
        BY DEF Places
      <4> QED BY <1>5, <4>1 DEF RollBack, Discard
    <3> QED BY <3>1, <3>2, <3>3, Returned
  <2> QED BY <2>1 DEF Lending!LNext
<1>6. ASSUME NEW b \in Borrowers, Append(b) \/ FreeSlot(b) PROVE UNCHANGED Lending!lvars
  <2>1. CASE Append(b)
    BY <2>1, Unlent DEF Append, TypeOK
  <2>2. CASE FreeSlot(b)
    BY <2>2, Unlent DEF FreeSlot, Waiters, At, TypeOK
  <2> QED BY <1>6, <2>1, <2>2
<1>7. CASE CloseIdle \/ CloseEntry \/ UNCHANGED vars
  BY <1>7 DEF CloseIdle, CloseEntry, vars, lentNow, Lending!lvars
<1> QED
  BY <1>1, <1>2, <1>3, <1>4, <1>5, <1>6, <1>7 DEF Next, Acquire, Work, Release

\* The pool implements the lending of connections.
THEOREM PoolImplementsLending == Spec => ImplementsLending
<1>1. Init => Lending!LInit
  BY DEF Init, Lending!LInit, lentNow
<1>2. IInv => CountInv
  BY DEF IInv
<1> QED
  BY <1>1, <1>2, Invariant, LendingStep, PTL DEF Spec, ImplementsLending, Lending!LSpec

\* So does the pool under nested borrowings.
THEOREM NestedImplementsLending == NestedSpec => ImplementsLending
BY NestedIsPool, PoolImplementsLending
=============================================================================
