--------------------------- MODULE AdmissionProofs ---------------------------
(***************************************************************************)
(* The two admission gates, for any number of keys, calls, months,         *)
(* instances and requests.                                                 *)
(*                                                                         *)
(* The API keys (ApiKeys): quota, revocation and one-for-one replacement   *)
(* rest on one fact: whoever counts, charges or rotates holds the key's    *)
(* row, and the key is live.                                               *)
(*                                                                         *)
(* The demo (DemoGate): the share of the fleet rests on what every entry   *)
(* of a ledger tells about its request, and the hint on a promise that     *)
(* stands at every tick until it is due.                                   *)
(***************************************************************************)
EXTENDS ApiKeys, DemoGate, FiniteSetTheorems, TLAPS

Working == {"locked", "counted", "rotating"}

\* A transaction at work on a key holds its row, and the key is live.
RowHeld == \A c \in Callers \cup Clerks :
              phase[c] \in Working =>
                 key[c] \in Keys /\ lock[key[c]] = c /\ life[key[c]] = "live"

\* A transaction that only read a key names one that was issued.
KeyRead == \A c \in Callers \cup Clerks :
              phase[c] \in {"resolved", "replacing"} =>
                 key[c] \in Keys /\ life[key[c]] # "unissued"

\* While the row is held the count stays true.
CountTrue == \A c \in Callers :
                phase[c] = "counted" => counted[c] = used[key[c]][began[c]]

\* Calls and clerks keep to their own phases.
OwnPhases ==
    /\ \A c \in Callers : phase[c] \in CallPhases
    /\ \A a \in Clerks : phase[a] \in {"out", "rotating", "replacing", "changed"}

\* A key that was not issued has no usage.
NothingBefore == \A k \in Keys : life[k] = "unissued" => used[k] = [m \in Months |-> 0]

KeysInv == KeysTypeOK /\ OwnPhases /\ RowHeld /\ KeyRead /\ CountTrue
           /\ NothingBefore /\ QuotaKept

-----------------------------------------------------------------------------
\* The sign-up's key is live and unused.
LEMMA KeysStart == KeysInit => KeysInv
<1> SUFFICES ASSUME KeysInit PROVE KeysInv
    OBVIOUS
<1> USE KeysAssumption DEF KeysInit
<1>1. 0 \in Months /\ Quotas \subseteq Nat
  BY DEF Months
<1>2. KeysTypeOK
  <2>1. used \in [Keys -> [Months -> Nat]]
    OBVIOUS
  <2>2. life \in [Keys -> {"unissued", "live", "revoked"}] /\ quota \in [Keys -> Quotas]
    OBVIOUS
  <2>3. began \in [Callers -> Months] /\ counted \in [Callers -> Nat] /\ month \in Months
    BY <1>1
  <2>4. /\ lock \in [Keys -> Callers \cup Clerks \cup {Nobody}]
        /\ key \in [Callers \cup Clerks -> Keys \cup {NoKey}]
        /\ phase \in [Callers \cup Clerks -> CallPhases \cup {"rotating", "replacing", "changed"}]
    BY DEF CallPhases
  <2>5. granted \in Int /\ overtaken \in BOOLEAN
    <3>1. granted \in Int
      OBVIOUS
    <3>2. overtaken \in BOOLEAN
      BY Zenon
    <3> QED BY <3>1, <3>2
  <2> QED BY ONLY <2>1, <2>2, <2>3, <2>4, <2>5 DEF KeysTypeOK
<1>3. OwnPhases /\ RowHeld /\ KeyRead /\ CountTrue
  BY DEF OwnPhases, RowHeld, KeyRead, CountTrue, Working, CallPhases
<1>4. NothingBefore /\ QuotaKept
  BY <1>1 DEF NothingBefore, QuotaKept
<1> QED BY <1>2, <1>3, <1>4 DEF KeysInv

\* Every step keeps the rows, the counts and the quota.
LEMMA KeysStep == KeysInv /\ [KeysNext]_keyVars => KeysInv'
<1> SUFFICES ASSUME KeysInv, [KeysNext]_keyVars PROVE KeysInv'
    OBVIOUS
<1> USE KeysAssumption DEF KeysInv, keyRows, calls, keyMarks
<1>1. CASE UNCHANGED keyVars
  BY <1>1 DEF keyVars, KeysTypeOK, OwnPhases, RowHeld, KeyRead, CountTrue,
              NothingBefore, QuotaKept
<1>2. ASSUME NEW c \in Callers, Resolve(c) PROVE KeysInv'
  <2>1. KeysTypeOK'
    BY <1>2 DEF Resolve, Live, KeysTypeOK, CallPhases
  <2>2. OwnPhases'
    BY <1>2 DEF Resolve, Live, KeysTypeOK, OwnPhases, CallPhases
  <2>3. RowHeld'
    BY <1>2 DEF Resolve, Live, KeysTypeOK, OwnPhases, RowHeld, Working, CallPhases
  <2>4. KeyRead'
    BY <1>2 DEF Resolve, Live, KeysTypeOK, OwnPhases, RowHeld, KeyRead, Working,
       CallPhases
  <2>5. CountTrue'
    BY <1>2 DEF Resolve, Live, KeysTypeOK, OwnPhases, RowHeld, CountTrue, Working,
       CallPhases
  <2>6. NothingBefore'
    BY <1>2 DEF Resolve, NothingBefore
  <2>7. QuotaKept'
    BY <1>2 DEF Resolve, QuotaKept
  <2> QED BY <2>1, <2>2, <2>3, <2>4, <2>5, <2>6, <2>7
<1>3. ASSUME NEW c \in Callers, LockKey(c) PROVE KeysInv'
  <2>1. KeysTypeOK'
    BY <1>3 DEF LockKey, Free, StillLive, KeysTypeOK, CallPhases
  <2>2. OwnPhases'
    BY <1>3 DEF LockKey, Free, StillLive, KeysTypeOK, OwnPhases, CallPhases
  <2>3. RowHeld'
    BY <1>3 DEF LockKey, Free, StillLive, KeysTypeOK, OwnPhases, RowHeld, KeyRead,
       Working, CallPhases
  <2>4. KeyRead'
    BY <1>3 DEF LockKey, Free, StillLive, KeysTypeOK, OwnPhases, RowHeld, KeyRead,
       Working, CallPhases
  <2>5. CountTrue'
    BY <1>3 DEF LockKey, Free, StillLive, KeysTypeOK, OwnPhases, RowHeld, CountTrue,
       Working, CallPhases
  <2>6. NothingBefore'
    BY <1>3 DEF LockKey, NothingBefore
  <2>7. QuotaKept'
    BY <1>3 DEF LockKey, QuotaKept
  <2> QED BY <2>1, <2>2, <2>3, <2>4, <2>5, <2>6, <2>7
<1>4. ASSUME NEW c \in Callers, CountUsage(c) PROVE KeysInv'
  <2>1. KeysTypeOK'
    BY <1>4 DEF CountUsage, KeysTypeOK, RowHeld, Working, CallPhases
  <2>2. OwnPhases'
    BY <1>4 DEF CountUsage, KeysTypeOK, OwnPhases, CallPhases
  <2>3. RowHeld'
    BY <1>4 DEF CountUsage, KeysTypeOK, OwnPhases, RowHeld, Working, CallPhases
  <2>4. KeyRead'
    BY <1>4 DEF CountUsage, KeysTypeOK, OwnPhases, RowHeld, KeyRead, Working, CallPhases
  <2>5. CountTrue'
    BY <1>4 DEF CountUsage, KeysTypeOK, OwnPhases, RowHeld, CountTrue, Working,
       CallPhases
  <2>6. NothingBefore'
    BY <1>4 DEF CountUsage, NothingBefore
  <2>7. QuotaKept'
    BY <1>4 DEF CountUsage, QuotaKept
  <2> QED BY <2>1, <2>2, <2>3, <2>4, <2>5, <2>6, <2>7
<1>5. ASSUME NEW c \in Callers, Charge(c) PROVE KeysInv'
  <2>a. key[c] \in Keys /\ life[key[c]] = "live" /\ began[c] \in Months
    BY <1>5 DEF Charge, KeysTypeOK, RowHeld, Working
  <2>b. used[key[c]] \in [Months -> Nat] /\ quota[key[c]] \in Nat
    <3>1. used[key[c]] \in [Months -> Nat] /\ quota[key[c]] \in Quotas
      BY <2>a DEF KeysTypeOK
    <3> QED BY <3>1
  <2>1. KeysTypeOK'
    BY <1>5, <2>a, <2>b DEF Charge, End, KeysTypeOK, CallPhases
  <2>2. OwnPhases'
    BY <1>5 DEF Charge, WithinQuota, End, KeysTypeOK, OwnPhases, CallPhases
  <2>3. RowHeld'
    BY <1>5 DEF Charge, WithinQuota, End, KeysTypeOK, OwnPhases, RowHeld, Working,
       CallPhases
  <2>4. KeyRead'
    BY <1>5 DEF Charge, WithinQuota, End, KeysTypeOK, OwnPhases, RowHeld, KeyRead,
       Working, CallPhases
  <2>5. CountTrue'
    BY <1>5 DEF Charge, WithinQuota, End, KeysTypeOK, OwnPhases, RowHeld, CountTrue,
       Working, CallPhases
  <2>6. NothingBefore'
    BY <1>5 DEF Charge, WithinQuota, End, KeysTypeOK, RowHeld, KeyRead, NothingBefore,
       Working, Months
  <2>7. QuotaKept'
    <3>1. used[key[c]][began[c]] < quota[key[c]]
      BY <1>5 DEF Charge, WithinQuota, CountTrue
    <3>2. ASSUME NEW k \in Keys, NEW m \in Months PROVE used'[k][m] <= quota'[k]
      <4>1. CASE k = key[c] /\ m = began[c]
        BY <4>1, <3>1, <2>a, <2>b, <1>5 DEF Charge, KeysTypeOK
      <4>2. CASE ~(k = key[c] /\ m = began[c])
        <5>1. used'[k][m] = used[k][m]
          BY <4>2, <2>a, <2>b, <1>5 DEF Charge, KeysTypeOK
        <5> QED BY <5>1, <1>5 DEF Charge, QuotaKept
      <4> QED BY <4>1, <4>2
    <3> QED BY <3>2 DEF QuotaKept
  <2> QED BY <2>1, <2>2, <2>3, <2>4, <2>5, <2>6, <2>7
<1>6. ASSUME NEW c \in Callers, Refuse(c) PROVE KeysInv'
  <2>1. KeysTypeOK'
    BY <1>6 DEF Refuse, Free, End, KeysTypeOK, CallPhases
  <2>2. OwnPhases'
    BY <1>6 DEF Refuse, Free, End, KeysTypeOK, OwnPhases, CallPhases
  <2>3. RowHeld'
    BY <1>6 DEF Refuse, Free, End, KeysTypeOK, OwnPhases, RowHeld, Working, CallPhases
  <2>4. KeyRead'
    BY <1>6 DEF Refuse, Free, End, KeysTypeOK, OwnPhases, RowHeld, KeyRead, Working,
       CallPhases
  <2>5. CountTrue'
    BY <1>6 DEF Refuse, Free, End, KeysTypeOK, OwnPhases, RowHeld, CountTrue, Working,
       CallPhases
  <2>6. NothingBefore'
    BY <1>6 DEF Refuse, NothingBefore
  <2>7. QuotaKept'
    BY <1>6 DEF Refuse, QuotaKept
  <2> QED BY <2>1, <2>2, <2>3, <2>4, <2>5, <2>6, <2>7
<1>7. ASSUME NEW a \in Clerks, CreateKey(a) PROVE KeysInv'
  <2>1. KeysTypeOK'
    BY <1>7 DEF CreateKey, KeysTypeOK, CallPhases
  <2>2. OwnPhases'
    BY <1>7 DEF CreateKey, KeysTypeOK, OwnPhases, CallPhases
  <2>3. RowHeld'
    BY <1>7 DEF CreateKey, KeysTypeOK, OwnPhases, RowHeld, Working, CallPhases
  <2>4. KeyRead'
    BY <1>7 DEF CreateKey, KeysTypeOK, OwnPhases, RowHeld, KeyRead, Working, CallPhases
  <2>5. CountTrue'
    BY <1>7 DEF CreateKey, KeysTypeOK, OwnPhases, RowHeld, CountTrue, Working,
       CallPhases
  <2>6. NothingBefore'
    BY <1>7 DEF CreateKey, KeysTypeOK, RowHeld, KeyRead, NothingBefore, Working, Months
  <2>7. QuotaKept'
    BY <1>7 DEF CreateKey, KeysTypeOK, RowHeld, KeyRead, CountTrue, NothingBefore,
       QuotaKept, Working, Months
  <2> QED BY <2>1, <2>2, <2>3, <2>4, <2>5, <2>6, <2>7
<1>8. ASSUME NEW a \in Clerks, RevokeKey(a) PROVE KeysInv'
  <2>1. KeysTypeOK'
    BY <1>8 DEF RevokeKey, Free, Live, Meets, KeysTypeOK, CallPhases
  <2>2. OwnPhases'
    BY <1>8 DEF RevokeKey, Free, Live, Meets, KeysTypeOK, OwnPhases, CallPhases
  <2>3. RowHeld'
    BY <1>8 DEF RevokeKey, Free, Live, Meets, KeysTypeOK, OwnPhases, RowHeld, Working,
       CallPhases
  <2>4. KeyRead'
    BY <1>8 DEF RevokeKey, Free, Live, Meets, KeysTypeOK, OwnPhases, RowHeld, KeyRead,
       Working, CallPhases
  <2>5. CountTrue'
    BY <1>8 DEF RevokeKey, Free, Live, Meets, KeysTypeOK, OwnPhases, RowHeld, CountTrue,
       Working, CallPhases
  <2>6. NothingBefore'
    BY <1>8 DEF RevokeKey, Free, Live, Meets, KeysTypeOK, RowHeld, KeyRead,
       NothingBefore, Working, Months
  <2>7. QuotaKept'
    BY <1>8 DEF RevokeKey, QuotaKept
  <2> QED BY <2>1, <2>2, <2>3, <2>4, <2>5, <2>6, <2>7
<1>9. ASSUME NEW a \in Clerks, LockForRotation(a) PROVE KeysInv'
  <2>1. KeysTypeOK'
    BY <1>9 DEF LockForRotation, Free, Live, Meets, KeysTypeOK, CallPhases
  <2>2. OwnPhases'
    BY <1>9 DEF LockForRotation, Free, Live, Meets, KeysTypeOK, OwnPhases, CallPhases
  <2>3. RowHeld'
    BY <1>9 DEF LockForRotation, Free, Live, Meets, KeysTypeOK, OwnPhases, RowHeld,
       Working, CallPhases
  <2>4. KeyRead'
    BY <1>9 DEF LockForRotation, Free, Live, Meets, KeysTypeOK, OwnPhases, RowHeld,
       KeyRead, Working, CallPhases
  <2>5. CountTrue'
    BY <1>9 DEF LockForRotation, Free, Live, Meets, KeysTypeOK, OwnPhases, RowHeld,
       CountTrue, Working, CallPhases
  <2>6. NothingBefore'
    BY <1>9 DEF LockForRotation, NothingBefore
  <2>7. QuotaKept'
    BY <1>9 DEF LockForRotation, QuotaKept
  <2> QED BY <2>1, <2>2, <2>3, <2>4, <2>5, <2>6, <2>7
<1>10. ASSUME NEW a \in Clerks, Rotate(a) PROVE KeysInv'
  <2>a. key[a] \in Keys /\ life[key[a]] = "live"
    BY <1>10 DEF Rotate, RowHeld, Working
  <2>b. PICK k \in Keys : Issue(k, quota[key[a]], key[a])
    BY <1>10 DEF Rotate
  <2>c. k # key[a] /\ used' = used
    BY <1>10, <2>a, <2>b DEF Issue, Rotate
  <2>1. KeysTypeOK'
    BY <1>10, <2>a, <2>b DEF Rotate, End, Issue, KeysTypeOK, CallPhases
  <2>2. OwnPhases'
    BY <1>10 DEF Rotate, Issue, End, KeysTypeOK, OwnPhases, CallPhases
  <2>3. RowHeld'
    BY <1>10 DEF Rotate, Issue, End, KeysTypeOK, OwnPhases, RowHeld, Working, CallPhases
  <2>4. KeyRead'
    BY <1>10 DEF Rotate, Issue, End, KeysTypeOK, OwnPhases, RowHeld, KeyRead, Working,
       CallPhases
  <2>5. CountTrue'
    BY <1>10 DEF Rotate, Issue, End, KeysTypeOK, OwnPhases, RowHeld, CountTrue, Working,
       CallPhases
  <2>6. NothingBefore'
    BY <2>a, <2>b, <2>c DEF Issue, KeysTypeOK, NothingBefore
  <2>7. QuotaKept'
    <3>1. quota' \in [Keys -> Nat] /\ used[k] = [m \in Months |-> 0]
      BY <2>1, <2>b DEF Issue, KeysTypeOK, NothingBefore
    <3>2. \A j \in Keys : j # k => quota'[j] = quota[j]
      BY <2>b DEF Issue, KeysTypeOK
    <3> QED BY <3>1, <3>2, <2>c DEF QuotaKept
  <2> QED BY <2>1, <2>2, <2>3, <2>4, <2>5, <2>6, <2>7
<1>11. ASSUME NEW a \in Clerks, ReadCurrent(a) PROVE KeysInv'
  <2>1. KeysTypeOK'
    BY <1>11 DEF ReadCurrent, Live, Meets, KeysTypeOK, CallPhases
  <2>2. OwnPhases'
    BY <1>11 DEF ReadCurrent, Live, Meets, KeysTypeOK, OwnPhases, CallPhases
  <2>3. RowHeld'
    BY <1>11 DEF ReadCurrent, Live, Meets, KeysTypeOK, OwnPhases, RowHeld, Working,
       CallPhases
  <2>4. KeyRead'
    BY <1>11 DEF ReadCurrent, Live, Meets, KeysTypeOK, OwnPhases, RowHeld, KeyRead,
       Working, CallPhases
  <2>5. CountTrue'
    BY <1>11 DEF ReadCurrent, Live, Meets, KeysTypeOK, OwnPhases, RowHeld, CountTrue,
       Working, CallPhases
  <2>6. NothingBefore'
    BY <1>11 DEF ReadCurrent, NothingBefore
  <2>7. QuotaKept'
    BY <1>11 DEF ReadCurrent, QuotaKept
  <2> QED BY <2>1, <2>2, <2>3, <2>4, <2>5, <2>6, <2>7
<1>12. ASSUME NEW a \in Clerks, Replace(a) PROVE KeysInv'
  <2>a. key[a] \in Keys /\ life[key[a]] # "unissued"
    BY <1>12 DEF Replace, KeyRead
  <2>b. PICK k \in Keys : Issue(k, DefaultQuota, key[a])
    BY <1>12 DEF Replace
  <2>c. k # key[a] /\ used' = used
    BY <1>12, <2>a, <2>b DEF Issue, Replace
  <2>1. KeysTypeOK'
    BY <1>12, <2>a, <2>b DEF Replace, End, Issue, KeysTypeOK, CallPhases
  <2>2. OwnPhases'
    BY <1>12 DEF Replace, Issue, Free, End, KeysTypeOK, OwnPhases, CallPhases
  <2>3. RowHeld'
    BY <1>12 DEF Replace, Issue, Free, End, KeysTypeOK, OwnPhases, RowHeld, Working,
       CallPhases
  <2>4. KeyRead'
    BY <1>12 DEF Replace, Issue, Free, End, KeysTypeOK, OwnPhases, RowHeld, KeyRead,
       Working, CallPhases
  <2>5. CountTrue'
    BY <1>12 DEF Replace, Issue, Free, End, KeysTypeOK, OwnPhases, RowHeld, CountTrue,
       Working, CallPhases
  <2>6. NothingBefore'
    BY <2>a, <2>b, <2>c DEF Issue, KeysTypeOK, NothingBefore
  <2>7. QuotaKept'
    <3>1. quota' \in [Keys -> Nat] /\ used[k] = [m \in Months |-> 0]
      BY <2>1, <2>b DEF Issue, KeysTypeOK, NothingBefore
    <3>2. \A j \in Keys : j # k => quota'[j] = quota[j]
      BY <2>b DEF Issue, KeysTypeOK
    <3> QED BY <3>1, <3>2, <2>c DEF QuotaKept
  <2> QED BY <2>1, <2>2, <2>3, <2>4, <2>5, <2>6, <2>7
<1>13. ASSUME NEW a \in Clerks, Abandon(a) PROVE KeysInv'
  <2>1. KeysTypeOK'
    BY <1>13 DEF Abandon, Changing, End, KeysTypeOK, CallPhases
  <2>2. OwnPhases'
    BY <1>13 DEF Abandon, Changing, End, KeysTypeOK, OwnPhases, CallPhases
  <2>3. RowHeld'
    BY <1>13 DEF Abandon, Changing, End, KeysTypeOK, OwnPhases, RowHeld, Working,
       CallPhases
  <2>4. KeyRead'
    BY <1>13 DEF Abandon, Changing, End, KeysTypeOK, OwnPhases, RowHeld, KeyRead,
       Working, CallPhases
  <2>5. CountTrue'
    BY <1>13 DEF Abandon, Changing, End, KeysTypeOK, OwnPhases, RowHeld, CountTrue,
       Working, CallPhases
  <2>6. NothingBefore'
    BY <1>13 DEF Abandon, NothingBefore
  <2>7. QuotaKept'
    BY <1>13 DEF Abandon, QuotaKept
  <2> QED BY <2>1, <2>2, <2>3, <2>4, <2>5, <2>6, <2>7
<1>14. CASE NextMonth
  BY <1>14 DEF NextMonth, KeysTypeOK, OwnPhases, RowHeld, KeyRead, CountTrue,
              NothingBefore, QuotaKept, Months
<1> QED
  BY <1>1, <1>2, <1>3, <1>4, <1>5, <1>6, <1>7, <1>8, <1>9, <1>10, <1>11, <1>12, <1>13,
     <1>14
     DEF KeysNext, Authenticate, ChangeKeys

\* The invariant holds of every reachable state.
LEMMA KeysInvariant == KeysSpec => []KeysInv
<1>1. KeysInit => KeysInv
  BY KeysStart
<1>2. KeysInv /\ [KeysNext]_keyVars => KeysInv'
  BY KeysStep
<1> QED BY <1>1, <1>2, PTL DEF KeysSpec

\* Every variable has its type.
THEOREM KeysTyped == KeysSpec => []KeysTypeOK
<1>1. KeysInv => KeysTypeOK
  BY DEF KeysInv
<1> QED BY <1>1, KeysInvariant, PTL

\* No month holds more calls of a key than its quota, however many calls arrive at once.
THEOREM QuotaNeverExceeded == KeysSpec => []QuotaKept
<1>1. KeysInv => QuotaKept
  BY DEF KeysInv
<1> QED BY <1>1, KeysInvariant, PTL

-----------------------------------------------------------------------------
\* Only Charge adds usage, and it holds the row of a live key.
LEMMA RevokedStep ==
    ASSUME KeysInv, [KeysNext]_keyVars, NEW k \in Keys, life[k] = "revoked"
    PROVE  used'[k] = used[k]
<1> USE DEF keyRows, calls, keyMarks
<1>1. ASSUME NEW c \in Callers, Charge(c) PROVE used'[k] = used[k]
  <2>1. life[key[c]] = "live" /\ key[c] \in Keys
    BY <1>1 DEF KeysInv, RowHeld, Working, Charge
  <2> QED BY <1>1, <2>1 DEF Charge, KeysInv, KeysTypeOK
<1>2. ASSUME NEW c \in Callers, Authenticate(c), ~Charge(c) PROVE used' = used
  BY <1>2 DEF Authenticate, Resolve, LockKey, CountUsage, Refuse
<1>3. ASSUME NEW a \in Clerks, ChangeKeys(a) PROVE used' = used
  BY <1>3 DEF ChangeKeys, CreateKey, RevokeKey, LockForRotation, Rotate, ReadCurrent,
              Replace, Abandon
<1>4. CASE NextMonth \/ UNCHANGED keyVars
  BY <1>4 DEF NextMonth, keyVars
<1> QED BY <1>1, <1>2, <1>3, <1>4 DEF KeysNext

\* A revoked key admits nobody, not even a call that found it live before.
THEOREM RevokedIsOut == KeysSpec => RevokedStaysOut
<1>1. KeysInv /\ [KeysNext]_keyVars
      => [\A k \in Keys : life[k] = "revoked" => used'[k] = used[k]]_keyVars
  BY RevokedStep
<1> QED BY <1>1, KeysInvariant, PTL DEF KeysSpec, RevokedStaysOut

-----------------------------------------------------------------------------
\* Unless a regeneration met another change, it is the only one under way and the key
\* it read is live.
LoneReplacing ==
    ~overtaken => \A a \in Replacing : life[key[a]] = "live" /\ Changing = {a}

CountInv == KeysInv /\ LoneReplacing /\ OneForOne

\* There are finitely many live keys.
LEMMA LiveFinite == IsFiniteSet(Live) /\ Cardinality(Live) \in Nat
BY KeysAssumption, FS_Subset, FS_CardinalityType DEF Live

\* A key for a key: the number of live keys stays.
LEMMA Swap ==
    ASSUME KeysTypeOK, NEW k \in Keys, NEW j \in Keys, NEW q, Issue(k, q, j),
           life[j] = "live"
    PROVE  Cardinality(Live') = Cardinality(Live)
<1>1. Live' = (Live \ {j}) \cup {k}
  BY DEF Live, Issue, KeysTypeOK
<1>2. k \notin Live /\ j \in Live
  BY DEF Live, Issue
<1>3. IsFiniteSet(Live \ {j}) /\ Cardinality(Live \ {j}) = Cardinality(Live) - 1
  BY <1>2, LiveFinite, FS_RemoveElement
<1>4. Cardinality((Live \ {j}) \cup {k}) = Cardinality(Live \ {j}) + 1
  BY <1>2, <1>3, FS_AddElement
<1> QED BY <1>1, <1>3, <1>4, LiveFinite

\* At first the sign-up's key is the only one.
LEMMA CountStart == KeysInit => CountInv
<1> SUFFICES ASSUME KeysInit PROVE CountInv
    OBVIOUS
<1>1. Live = {FirstKey}
  BY KeysAssumption DEF KeysInit, Live
<1>2. Cardinality(Live) = 1
  BY <1>1, FS_Singleton
<1>3. LoneReplacing
  BY DEF KeysInit, LoneReplacing, Replacing
<1> QED BY <1>2, <1>3, KeysStart DEF CountInv, OneForOne, KeysInit

\* Every step keeps the number of live keys at what was granted.
LEMMA CountStep == CountInv /\ [KeysNext]_keyVars => CountInv'
<1> SUFFICES ASSUME CountInv, [KeysNext]_keyVars PROVE CountInv'
    OBVIOUS
<1>inv. KeysInv'
  BY KeysStep DEF CountInv
<1> SUFFICES LoneReplacing' /\ OneForOne'
    BY <1>inv DEF CountInv
<1> USE DEF keyRows, calls, keyMarks
<1>1. ASSUME life' = life, granted' = granted, overtaken' = overtaken PROVE OneForOne'
  BY <1>1 DEF OneForOne, Live, CountInv
<1>2. CASE UNCHANGED keyVars
  BY <1>1, <1>2 DEF keyVars, LoneReplacing, Replacing, Changing, CountInv
<1>3. ASSUME NEW c \in Callers, Authenticate(c) PROVE LoneReplacing' /\ OneForOne'
  <2>1. /\ UNCHANGED <<life, granted, overtaken>>
        /\ \A a \in Clerks : phase'[a] = phase[a] /\ key'[a] = key[a]
    <3>1. c \notin Clerks /\ c \in Callers \cup Clerks
      BY KeysAssumption
    <3>2. CASE Resolve(c) \/ LockKey(c) \/ CountUsage(c)
      BY <3>1, <3>2 DEF Resolve, LockKey, CountUsage, CountInv, KeysInv, KeysTypeOK
    <3>3. CASE Charge(c) \/ Refuse(c)
      BY <3>1, <3>3 DEF Charge, Refuse, End, CountInv, KeysInv, KeysTypeOK
    <3> QED BY <1>3, <3>2, <3>3 DEF Authenticate
  <2>2. Changing' = Changing /\ Replacing' = Replacing
    BY <2>1 DEF Changing, Replacing
  <2>3. LoneReplacing'
    BY <2>1, <2>2 DEF LoneReplacing, CountInv, Replacing
  <2> QED BY <1>1, <2>1, <2>3
<1>4. ASSUME NEW a \in Clerks, CreateKey(a) PROVE LoneReplacing' /\ OneForOne'
  <2>1. PICK k \in Keys : life[k] = "unissued" /\ life' = [life EXCEPT ![k] = "live"]
    BY <1>4 DEF CreateKey
  <2>2. Live' = Live \cup {k} /\ k \notin Live
    BY <2>1 DEF Live, CountInv, KeysInv, KeysTypeOK
  <2>3. Cardinality(Live') = Cardinality(Live) + 1
    BY <2>2, LiveFinite, FS_AddElement
  <2>4. Changing' = Changing /\ Replacing' = Replacing
    BY <1>4 DEF CreateKey, Changing, Replacing, CountInv, KeysInv, KeysTypeOK
  <2>5. \A b \in Replacing : life[key[b]] = "live" => life'[key'[b]] = "live"
    BY <1>4, <2>1 DEF CreateKey, CountInv, KeysInv, KeysTypeOK, KeyRead, Replacing
  <2>6. LoneReplacing'
    BY <1>4, <2>4, <2>5 DEF CreateKey, LoneReplacing, CountInv
  <2>7. OneForOne'
    BY <1>4, <2>3, LiveFinite DEF CreateKey, OneForOne, CountInv
  <2> QED BY <2>6, <2>7
<1>5. ASSUME NEW a \in Clerks, RevokeKey(a) PROVE LoneReplacing' /\ OneForOne'
  <2>1. PICK k \in Live : life' = [life EXCEPT ![k] = "revoked"]
    BY <1>5 DEF RevokeKey
  <2>2. Live' = Live \ {k}
    BY <2>1 DEF Live, CountInv, KeysInv, KeysTypeOK
  <2>3. Cardinality(Live') = Cardinality(Live) - 1
    BY <2>1, <2>2, LiveFinite, FS_RemoveElement
  <2>4. overtaken' \/ Replacing \ {a} = {}
    BY <1>5 DEF RevokeKey, Meets
  <2>5. Replacing' = Replacing \ {a} /\ (overtaken => overtaken')
    BY <1>5 DEF RevokeKey, Replacing, Meets, CountInv, KeysInv, KeysTypeOK
  <2>6. LoneReplacing'
    BY <2>4, <2>5 DEF LoneReplacing
  <2>7. OneForOne'
    BY <1>5, <2>3, <2>5, LiveFinite DEF RevokeKey, OneForOne, CountInv
  <2> QED BY <2>6, <2>7
<1>6. ASSUME NEW a \in Clerks, LockForRotation(a) PROVE LoneReplacing' /\ OneForOne'
  <2>1. overtaken' \/ Replacing \ {a} = {}
    BY <1>6 DEF LockForRotation, Meets
  <2>2. Replacing' = Replacing \ {a} /\ (overtaken => overtaken')
    BY <1>6 DEF LockForRotation, Replacing, Meets, CountInv, KeysInv, KeysTypeOK
  <2>3. LoneReplacing'
    BY <2>1, <2>2 DEF LoneReplacing
  <2>4. Live' = Live /\ granted' = granted
    BY <1>6 DEF LockForRotation, Live
  <2>5. OneForOne'
    BY <2>2, <2>4 DEF OneForOne, CountInv
  <2> QED BY <2>3, <2>5
<1>7. ASSUME NEW a \in Clerks, Rotate(a) PROVE LoneReplacing' /\ OneForOne'
  <2>1. key[a] \in Keys /\ life[key[a]] = "live" /\ a \in Changing /\ a \notin Replacing
    BY <1>7 DEF Rotate, CountInv, KeysInv, RowHeld, Working, Changing, Replacing
  <2>2. PICK k \in Keys : Issue(k, quota[key[a]], key[a])
    BY <1>7 DEF Rotate
  <2>3. Cardinality(Live') = Cardinality(Live)
    BY <2>1, <2>2, Swap DEF CountInv, KeysInv
  <2>4. ~overtaken => Replacing = {}
    BY <2>1 DEF LoneReplacing, CountInv
  <2>5. Replacing' = Replacing /\ overtaken' = overtaken /\ granted' = granted
    BY <1>7 DEF Rotate, End, Replacing, CountInv, KeysInv, KeysTypeOK
  <2> QED BY <2>3, <2>4, <2>5 DEF LoneReplacing, OneForOne, CountInv
<1>8. ASSUME NEW a \in Clerks, ReadCurrent(a) PROVE LoneReplacing' /\ OneForOne'
  <2>1. overtaken' \/ (~overtaken /\ Changing \ {a} = {})
    BY <1>8 DEF ReadCurrent, Meets
  <2>2. Changing' = Changing \cup {a} /\ (overtaken => overtaken')
    BY <1>8 DEF ReadCurrent, Changing, Meets, CountInv, KeysInv, KeysTypeOK
  <2>3. key'[a] \in Live /\ life' = life /\ granted' = granted
    BY <1>8 DEF ReadCurrent, CountInv, KeysInv, KeysTypeOK
  <2>4. Replacing' \subseteq Changing'
    BY DEF Replacing, Changing
  <2>5. LoneReplacing'
    BY <2>1, <2>2, <2>3, <2>4 DEF LoneReplacing, Live
  <2>6. OneForOne'
    BY <2>2, <2>3 DEF OneForOne, CountInv, Live
  <2> QED BY <2>5, <2>6
<1>9. ASSUME NEW a \in Clerks, Replace(a) PROVE LoneReplacing' /\ OneForOne'
  <2>1. key[a] \in Keys /\ a \in Replacing
    BY <1>9 DEF Replace, CountInv, KeysInv, KeyRead, Replacing
  <2>2. PICK k \in Keys : Issue(k, DefaultQuota, key[a])
    BY <1>9 DEF Replace
  <2>3. overtaken' = overtaken /\ granted' = granted /\ Replacing' = Replacing \ {a}
    BY <1>9 DEF Replace, End, Replacing, CountInv, KeysInv, KeysTypeOK
  <2>4. ~overtaken => life[key[a]] = "live" /\ Replacing \subseteq {a}
    BY <2>1 DEF LoneReplacing, CountInv, Replacing, Changing
  <2>5. ~overtaken => Cardinality(Live') = Cardinality(Live)
    BY <2>1, <2>2, <2>4, Swap DEF CountInv, KeysInv
  <2> QED BY <2>3, <2>4, <2>5 DEF LoneReplacing, OneForOne, CountInv
<1>10. ASSUME NEW a \in Clerks, Abandon(a) PROVE LoneReplacing' /\ OneForOne'
  <2>1. Replacing' = Replacing \ {a} /\ Changing' = Changing \ {a}
    BY <1>10 DEF Abandon, End, Replacing, Changing, CountInv, KeysInv, KeysTypeOK
  <2>2. UNCHANGED <<life, granted, overtaken>> /\ \A b \in Clerks \ {a} : key'[b] = key[b]
    BY <1>10 DEF Abandon, End, CountInv, KeysInv, KeysTypeOK
  <2>3. LoneReplacing'
    BY <2>1, <2>2 DEF LoneReplacing, CountInv, Replacing, Changing
  <2> QED BY <1>1, <2>2, <2>3
<1>11. CASE NextMonth
  BY <1>1, <1>11 DEF NextMonth, LoneReplacing, Replacing, Changing, CountInv
<1> QED
  BY <1>2, <1>3, <1>4, <1>5, <1>6, <1>7, <1>8, <1>9, <1>10, <1>11 DEF KeysNext,
     ChangeKeys

\* Unless a regeneration meets another change, as many keys are live as were given and
\* not revoked.
THEOREM AKeyForAKey == KeysSpec => []OneForOne
<1>1. KeysInit => CountInv
  BY CountStart
<1>2. CountInv /\ [KeysNext]_keyVars => CountInv'
  BY CountStep
<1>3. CountInv => OneForOne
  BY DEF CountInv
<1> QED BY <1>1, <1>2, <1>3, PTL DEF KeysSpec
-----------------------------------------------------------------------------
\* A call counts in the month it began in, which has come.
BeganBy == \A c \in Callers : began[c] <= month

RegisterInv == KeysInv /\ BeganBy

\* Time and new calls keep every call's month in the past or present.
LEMMA BeganStep == RegisterInv /\ [KeysNext]_keyVars => BeganBy'
<1> SUFFICES ASSUME RegisterInv, [KeysNext]_keyVars PROVE BeganBy'
    OBVIOUS
<1> USE DEF RegisterInv, BeganBy, keyRows, calls, keyMarks
<1>1. began \in [Callers -> Nat] /\ month \in Nat
  BY KeysAssumption DEF KeysInv, KeysTypeOK, Months
<1>2. ASSUME NEW c \in Callers, Authenticate(c) PROVE BeganBy'
  BY <1>1, <1>2 DEF Authenticate, Resolve, LockKey, CountUsage, Charge, Refuse
<1>3. ASSUME NEW a \in Clerks, ChangeKeys(a) PROVE BeganBy'
  BY <1>3 DEF ChangeKeys, CreateKey, RevokeKey, LockForRotation, Rotate, ReadCurrent,
              Replace, Abandon
<1>4. CASE NextMonth
  BY <1>1, <1>4 DEF NextMonth
<1>5. CASE UNCHANGED keyVars
  BY <1>5 DEF keyVars
<1> QED BY <1>2, <1>3, <1>4, <1>5 DEF KeysNext

\* Every step of a transaction is a step of the register, or none that it sees.
LEMMA RegisterStep == RegisterInv /\ [KeysNext]_keyVars => [Register!RNext]_Register!rvars
<1> SUFFICES ASSUME RegisterInv, [KeysNext]_keyVars
             PROVE  Register!RNext \/ UNCHANGED Register!rvars
    OBVIOUS
<1> USE DEF RegisterInv, keyRows, calls, keyMarks
<1>1. ASSUME NEW c \in Callers, Resolve(c) \/ LockKey(c) \/ CountUsage(c) \/ Refuse(c)
      PROVE  UNCHANGED Register!rvars
  BY <1>1 DEF Resolve, LockKey, CountUsage, Refuse, Register!rvars
<1>2. ASSUME NEW c \in Callers, Charge(c) PROVE Register!RNext
  <2>1. key[c] \in Keys /\ life[key[c]] = "live" /\ began[c] \in 0..LastMonth
    BY <1>2 DEF Charge, KeysInv, RowHeld, Working, KeysTypeOK, Months
  <2>2. used[key[c]][began[c]] < quota[key[c]] /\ began[c] <= month
    BY <1>2 DEF Charge, WithinQuota, KeysInv, CountTrue, BeganBy
  <2>3. Register!AdmitCall(key[c], began[c])
    BY <1>2, <2>1, <2>2 DEF Charge, Register!AdmitCall
  <2> QED BY <2>1, <2>3 DEF Register!RNext
<1>3. ASSUME NEW a \in Clerks, CreateKey(a) PROVE Register!RNext
  <2>1. \E k \in Keys : Register!Give(k)
    BY <1>3 DEF CreateKey, Register!Give
  <2> QED BY <2>1 DEF Register!RNext
<1>4. ASSUME NEW a \in Clerks, RevokeKey(a) PROVE Register!RNext
  <2>1. \E k \in Keys : Register!Revoke(k)
    BY <1>4 DEF RevokeKey, Live, Register!Revoke
  <2> QED BY <2>1 DEF Register!RNext
<1>5. ASSUME NEW a \in Clerks, LockForRotation(a) \/ ReadCurrent(a) \/ Abandon(a)
      PROVE  UNCHANGED Register!rvars
  BY <1>5 DEF LockForRotation, ReadCurrent, Abandon, Register!rvars
<1>6. ASSUME NEW a \in Clerks, Rotate(a) \/ Replace(a) PROVE Register!RNext
  <2>1. key[a] \in Keys /\ life[key[a]] # "unissued"
    BY <1>6 DEF Rotate, Replace, KeysInv, RowHeld, KeyRead, Working
  <2>2. PICK k \in Keys, q \in {quota[key[a]], DefaultQuota} : Issue(k, q, key[a])
    BY <1>6 DEF Rotate, Replace
  <2>3. UNCHANGED <<used, month>>
    BY <1>6 DEF Rotate, Replace
  <2>4. Register!ReplaceKey(key[a], k)
    BY <2>1, <2>2, <2>3 DEF Issue, Register!ReplaceKey
  <2> QED BY <2>1, <2>4 DEF Register!RNext
<1>7. CASE NextMonth
  <2>1. Register!TurnMonth
    BY <1>7 DEF NextMonth, Register!TurnMonth
  <2> QED BY <2>1 DEF Register!RNext
<1>8. CASE UNCHANGED keyVars
  BY <1>8 DEF keyVars, Register!rvars
<1> QED
  BY <1>1, <1>2, <1>3, <1>4, <1>5, <1>6, <1>7, <1>8 DEF KeysNext, Authenticate, ChangeKeys

\* The transactions implement the register: what they admit and change could have been
\* admitted and changed one at a time.
THEOREM KeysImplementRegister == KeysSpec => ImplementsRegister
<1>1. KeysInit => Register!RInit
  BY DEF KeysInit, Register!RInit, Months
<1>2. KeysInit => RegisterInv
  <2>1. KeysInit => BeganBy
    BY DEF KeysInit, BeganBy
  <2> QED BY <2>1, KeysStart DEF RegisterInv
<1>3. RegisterInv /\ [KeysNext]_keyVars => RegisterInv'
  BY KeysStep, BeganStep DEF RegisterInv
<1>4. RegisterInv /\ [KeysNext]_keyVars => [Register!RNext]_Register!rvars
  BY RegisterStep
<1> QED BY <1>1, <1>2, <1>3, <1>4, PTL DEF KeysSpec, ImplementsRegister, Register!RSpec

-----------------------------------------------------------------------------
(***************************************************************************)
(* The sums of the demo's ledgers.                                         *)
(***************************************************************************)
\* What is counted per request.
Tallies == [Requests -> Nat]

\* A piece is a pair of a member and a number up to its tally.
LEMMA PieceOf ==
    ASSUME NEW S, NEW n, NEW p
    PROVE  p \in Pieces(n, S) <=> \E r \in S : \E k \in 1..n[r] : p = <<r, k>>
<1>1. p \in Pieces(n, S) <=> \E r \in S : p \in {r} \X (1..n[r])
  BY DEF Pieces
<1>2. \A r \in S : p \in {r} \X (1..n[r]) <=> \E k \in 1..n[r] : p = <<r, k>>
  OBVIOUS
<1> QED BY <1>1, <1>2

\* A sum is a natural number.
LEMMA TotalType ==
    ASSUME NEW n \in Tallies, NEW S \in SUBSET Requests
    PROVE  IsFiniteSet(Pieces(n, S)) /\ Total(n, S) \in Nat
<1> DEFINE part == [r \in S |-> {r} \X (1..n[r])]
           parts == {{r} \X (1..n[r]) : r \in S}
<1>1. IsFiniteSet(S)
  BY FS_Subset, GateAssumption
<1>2. part \in Surjection(S, parts)
  BY DEF Surjection
<1>3. IsFiniteSet(parts)
  BY <1>1, <1>2, FS_Surjection
<1>4. ASSUME NEW T \in parts PROVE IsFiniteSet(T)
  <2>1. PICK r \in S : T = {r} \X (1..n[r])
    BY <1>4
  <2>2. IsFiniteSet({r}) /\ IsFiniteSet(1..n[r])
    <3>1. n[r] \in Int /\ 1 \in Int
      BY DEF Tallies
    <3> QED BY <3>1, FS_Singleton, FS_Interval
  <2> QED BY <2>1, <2>2, FS_Product
<1>5. IsFiniteSet(UNION parts)
  BY <1>3, <1>4, FS_UNION
<1> QED BY <1>5, FS_CardinalityType DEF Pieces, Total

\* A sum grows with the set and with each tally.
LEMMA TotalMore ==
    ASSUME NEW m \in Tallies, NEW n \in Tallies, NEW T \in SUBSET Requests,
           NEW S \in SUBSET Requests, S \subseteq T, \A r \in S : m[r] <= n[r]
    PROVE  Total(m, S) <= Total(n, T)
<1>1. ASSUME NEW p \in Pieces(m, S) PROVE p \in Pieces(n, T)
  <2>1. PICK r \in S : \E k \in 1..m[r] : p = <<r, k>>
    BY PieceOf
  <2>2. r \in T /\ 1..m[r] \subseteq 1..n[r]
    BY DEF Tallies
  <2> QED BY <2>1, <2>2, PieceOf
<1>2. Pieces(m, S) \in SUBSET Pieces(n, T)
  BY <1>1
<1> QED BY <1>2, TotalType, FS_Subset DEF Total

\* Sums of disjoint sets add up.
LEMMA TotalApart ==
    ASSUME NEW n \in Tallies, NEW S \in SUBSET Requests, NEW T \in SUBSET Requests,
           S \cap T = {}
    PROVE  Total(n, S \cup T) = Total(n, S) + Total(n, T)
<1>1. Pieces(n, S \cup T) = Pieces(n, S) \cup Pieces(n, T)
  BY PieceOf
<1>2. Pieces(n, S) \cap Pieces(n, T) = {}
  BY PieceOf
<1>3. Cardinality(Pieces(n, S) \cap Pieces(n, T)) = 0
  BY <1>2, FS_EmptySet
<1>4. /\ IsFiniteSet(Pieces(n, S)) /\ IsFiniteSet(Pieces(n, T))
      /\ Total(n, S) \in Nat /\ Total(n, T) \in Nat
  BY TotalType
<1>5. Cardinality(Pieces(n, S) \cup Pieces(n, T))
        = Cardinality(Pieces(n, S)) + Cardinality(Pieces(n, T))
            - Cardinality(Pieces(n, S) \cap Pieces(n, T))
  BY <1>4, FS_Union
<1>6. Total(n, S \cup T) = Total(n, S) + Total(n, T) - 0
  BY <1>1, <1>3, <1>5 DEF Total
<1> QED BY <1>4, <1>6

\* One more member adds its tally.
LEMMA TotalOne ==
    ASSUME NEW n \in Tallies, NEW S \in SUBSET Requests, NEW r \in Requests \ S
    PROVE  Total(n, S \cup {r}) = Total(n, S) + n[r]
<1>1. Total(n, {r}) = n[r]
  <2>1. Pieces(n, {r}) = {r} \X (1..n[r])
    BY DEF Pieces
  <2>2. /\ IsFiniteSet({r}) /\ Cardinality({r}) = 1
        /\ IsFiniteSet(1..n[r]) /\ Cardinality(1..n[r]) = n[r]
    <3>1. n[r] \in Nat /\ n[r] \in Int /\ 1 \in Int
      BY DEF Tallies
    <3>2. /\ IsFiniteSet(1..n[r])
          /\ Cardinality(1..n[r]) = IF 1 > n[r] THEN 0 ELSE n[r] - 1 + 1
      BY <3>1, FS_Interval
    <3>3. IsFiniteSet({r}) /\ Cardinality({r}) = 1
      BY FS_Singleton
    <3> QED BY <3>1, <3>2, <3>3
  <2>3. Cardinality({r} \X (1..n[r])) = 1 * n[r]
    BY <2>2, FS_Product
  <2>4. 1 * n[r] = n[r]
    BY DEF Tallies
  <2> QED BY <2>1, <2>3, <2>4 DEF Total
<1>2. S \cap {r} = {} /\ {r} \in SUBSET Requests
  OBVIOUS
<1> QED BY <1>1, <1>2, TotalApart

\* Nothing sums to nothing.
LEMMA TotalNone == ASSUME NEW n PROVE Total(n, {}) = 0
<1>1. Pieces(n, {}) = {}
  BY DEF Pieces
<1> QED BY <1>1, FS_EmptySet DEF Total

\* What is at most a ceiling at every instance is at most that many ceilings in all:
\* each instance's pieces fit into its own row of a table of ceilings.
LEMMA TotalSpread ==
    ASSUME NEW n \in Tallies, NEW L \in [Instances -> SUBSET Requests],
           \A i \in Instances : Total(n, L[i]) <= Ceiling
    PROVE  Total(n, UNION {L[i] : i \in Instances}) <= Cardinality(Instances) * Ceiling
<1> DEFINE all == UNION {L[i] : i \in Instances}
           slots == Instances \X (1..Ceiling)
           fits(i) == Injection(Pieces(n, L[i]), 1..Ceiling)
           into == [i \in Instances |-> CHOOSE f : f \in fits(i)]
           home(p) == CHOOSE i \in Instances : p \in Pieces(n, L[i])
           slot == [p \in Pieces(n, all) |-> <<home(p), into[home(p)][p]>>]
<1>1. ASSUME NEW i \in Instances PROVE into[i] \in fits(i)
  <2>1. IsFiniteSet(Pieces(n, L[i])) /\ Cardinality(Pieces(n, L[i])) <= Ceiling
    BY TotalType DEF Total
  <2>2. PICK c \in Nat : c = Cardinality(Pieces(n, L[i])) /\ c <= Ceiling
    BY <2>1, FS_CardinalityType
  <2>3. IsFiniteSet(1..c) /\ Cardinality(1..c) = c
    BY FS_Interval
  <2>4. ExistsBijection(Pieces(n, L[i]), 1..c)
    BY <2>1, <2>2, <2>3, FS_SameCardinalityBij
  <2>5. PICK f : f \in Injection(Pieces(n, L[i]), 1..c)
    BY <2>4 DEF ExistsBijection, Bijection
  <2>6. 1..c \subseteq 1..Ceiling
    BY <2>2, GateAssumption
  <2>7. f \in fits(i)
    BY <2>5, <2>6 DEF Injection
  <2> QED BY <2>7
<1>2. ASSUME NEW p \in Pieces(n, all)
      PROVE  home(p) \in Instances /\ p \in Pieces(n, L[home(p)])
  <2>1. PICK r \in all : \E k \in 1..n[r] : p = <<r, k>>
    BY PieceOf
  <2>2. PICK i \in Instances : r \in L[i]
    BY <2>1
  <2>3. p \in Pieces(n, L[i])
    BY <2>1, <2>2, PieceOf
  <2> QED BY <2>3
<1>3. slot \in Injection(Pieces(n, all), slots)
  <2> HIDE DEF into, home
  <2>1. ASSUME NEW p \in Pieces(n, all) PROVE into[home(p)][p] \in 1..Ceiling
    <3>1. into[home(p)] \in [Pieces(n, L[home(p)]) -> 1..Ceiling]
      BY <1>1, <1>2 DEF Injection
    <3> QED BY <3>1, <1>2
  <2>2. slot \in [Pieces(n, all) -> slots]
    BY <1>2, <2>1
  <2>3. ASSUME NEW p \in Pieces(n, all), NEW q \in Pieces(n, all), slot[p] = slot[q]
        PROVE  p = q
    <3>1. home(p) = home(q) /\ into[home(p)][p] = into[home(p)][q]
      BY <2>3
    <3>2. into[home(p)] \in fits(home(p))
      BY <1>1, <1>2
    <3> QED BY <1>2, <3>1, <3>2 DEF Injection, IsInjective
  <2> QED BY <2>2, <2>3 DEF Injection, IsInjective
<1>4. IsFiniteSet(slots) /\ Cardinality(slots) = Cardinality(Instances) * Ceiling
  <2>1. IsFiniteSet(1..Ceiling) /\ Cardinality(1..Ceiling) = Ceiling
    BY FS_Interval, GateAssumption
  <2> QED BY <2>1, FS_Product, GateAssumption
<1>5. Cardinality(Pieces(n, all)) <= Cardinality(slots)
  BY <1>3, <1>4, FS_Injection
<1> QED BY <1>4, <1>5 DEF Total
-----------------------------------------------------------------------------
\* The requests with an entry somewhere.
Entered == UNION {ledger[i] : i \in Instances}

\* A request under way has its reservation in a ledger and has told no usage.
UnderWay == \A r \in Requests :
    pc[r] # "idle" => r \in Entered /\ tokens[r] = Estimate /\ cost[r] = 0

\* An entry is in one ledger, and in the window.
OneLedger == \A i \in Instances : \A r \in ledger[i] :
    left[r] > 0 /\ \A j \in Instances : r \in ledger[j] => j = i

\* An entry tells what its request used, but for what is beyond the estimate.
EntryTells == \A r \in Entered : Smaller(cost[r], Estimate) <= tokens[r]

\* n, but no more than an estimate each.
Capped(n) == [r \in Requests |-> Smaller(n[r], Estimate)]

\* A ledger keeps to the ceiling, but for what is beyond the estimates.
LedgerShare == \A i \in Instances : Total(Capped(tokens), ledger[i]) <= Ceiling

\* The requests of the window that no ledger knows, because a restart forgot them.
Forgotten == {r \in Requests : left[r] > 0} \ Entered

ForgottenShare == Total(Capped(cost), Forgotten) <= restarts * Ceiling

CountedMishaps == restarts + mishaps <= Mishaps

\* What was promised holds at every tick until it is due.
PromiseStands == Estimate <= Ceiling =>
    \A i \in Instances : promise[i] # None => hold[i] <= promise[i] /\ Room(i, promise[i])

LedgerInv == TypeOK /\ CountedMishaps /\ OneLedger /\ UnderWay

ShareInv == LedgerInv /\ EntryTells /\ LedgerShare /\ ForgottenShare

HintInv == LedgerInv /\ PromiseStands

-----------------------------------------------------------------------------
\* When there is a tick at which one more estimate fits, RoomIn is the first.
LEMMA FirstRoom ==
    ASSUME NEW i, \E t \in 0..Window : Room(i, t)
    PROVE  RoomIn(i) \in 0..Window /\ Room(i, RoomIn(i))
<1> DEFINE T == {t \in 0..Window : Room(i, t)}
<1>1. T # {} /\ T \subseteq Nat
  BY GateAssumption
<1>2. PICK t \in T : \A s \in T : ~(<<s, t>> \in OpToRel(<, Nat))
  BY <1>1, NatLessThanWellFounded, WFMin, Zenon
<1>3. ASSUME NEW s \in 0..(t - 1) PROVE ~Room(i, s)
  <2>1. s \in Nat /\ t \in Nat /\ s < t /\ s \in 0..Window
    BY GateAssumption
  <2>2. <<s, t>> \in OpToRel(<, Nat)
    BY <2>1, Zenon DEF OpToRel
  <2> QED BY <1>2, <2>1, <2>2
<1> QED BY <1>2, <1>3 DEF RoomIn

\* Time alone makes room.
LEMMA RoomStays ==
    ASSUME tokens \in Tallies, left \in Tallies, NEW i \in Instances,
           ledger[i] \subseteq Requests, NEW s \in Nat, NEW t \in Nat, s <= t, Room(i, s)
    PROVE  Room(i, t)
<1>1. Held(i, t) \subseteq Held(i, s) /\ Held(i, s) \in SUBSET Requests
  BY DEF Held, Tallies
<1>2. Total(tokens, Held(i, t)) <= Total(tokens, Held(i, s))
  BY <1>1, TotalMore DEF Tallies
<1> QED BY <1>1, <1>2, TotalType, GateAssumption DEF Room

\* A hint lies in the window; when an estimate can fit at all, it fits then, and no hold
\* lasts longer.
LEMMA RetryAfterType ==
    ASSUME LedgerInv, NEW i \in Instances
    PROVE  /\ RetryAfter(i) \in 0..Window
           /\ Estimate <= Ceiling => hold[i] <= RetryAfter(i) /\ Room(i, RetryAfter(i))
<1> USE GateAssumption DEF LedgerInv, TypeOK
<1>1. CASE Estimate > Ceiling
  BY <1>1 DEF RetryAfter
<1>2. CASE Estimate <= Ceiling
  <2>1. Held(i, Window) = {}
    BY DEF Held
  <2>2. Room(i, Window) /\ Window \in 0..Window
    BY <1>2, <2>1, TotalNone DEF Room
  <2>3. RoomIn(i) \in 0..Window /\ Room(i, RoomIn(i))
    BY <2>2, FirstRoom
  <2>4. RetryAfter(i) = Larger(hold[i], RoomIn(i))
    BY <1>2 DEF RetryAfter
  <2>5. RetryAfter(i) \in 0..Window /\ RoomIn(i) <= RetryAfter(i) /\ hold[i] <= RetryAfter(i)
    BY <2>3, <2>4 DEF Larger
  <2>6. Room(i, RetryAfter(i))
    <3>1. tokens \in Tallies /\ left \in Tallies /\ ledger[i] \subseteq Requests
      BY DEF Tallies, None
    <3>2. RoomIn(i) \in Nat /\ RetryAfter(i) \in Nat
      BY <2>3, <2>5
    <3> QED BY <2>3, <2>5, <3>1, <3>2, RoomStays
  <2> QED BY <2>5, <2>6
<1> QED BY <1>1, <1>2

\* At the start the ledgers are empty.
LEMMA LedgerStart == Init => LedgerInv
<1> SUFFICES ASSUME Init PROVE LedgerInv
    OBVIOUS
<1> USE GateAssumption DEF Init
<1>1. TypeOK
  BY DEF TypeOK, Places, None
<1>2. CountedMishaps /\ OneLedger /\ UnderWay
  BY DEF CountedMishaps, OneLedger, UnderWay
<1> QED BY <1>1, <1>2 DEF LedgerInv

\* Every step keeps the types.
LEMMA GateTypeStep == LedgerInv /\ [Next]_vars => TypeOK' /\ CountedMishaps'
<1> SUFFICES ASSUME LedgerInv, [Next]_vars PROVE TypeOK' /\ CountedMishaps'
    OBVIOUS
<1> USE GateAssumption DEF LedgerInv, TypeOK, CountedMishaps, None, day
<1>1. ASSUME NEW r \in Requests, NEW i \in Instances, Admit(r, i)
      PROVE  TypeOK' /\ CountedMishaps'
  BY <1>1 DEF Admit, Unused, Void, Places
<1>2. ASSUME NEW r \in Requests, TakeUnit(r) PROVE TypeOK' /\ CountedMishaps'
  BY <1>2 DEF TakeUnit, Stay, Places, Larger
<1>3. ASSUME NEW r \in Requests, NoUnit(r) PROVE TypeOK' /\ CountedMishaps'
  BY <1>3 DEF NoUnit, Stay, Settle, Places
<1>4. ASSUME NEW r \in Requests, Answer(r) PROVE TypeOK' /\ CountedMishaps'
  BY <1>4 DEF Answer, Stay, Settle, Places
<1>5. ASSUME NEW r \in Requests, Break(r) PROVE TypeOK' /\ CountedMishaps'
  BY <1>5 DEF Break, Stay, Settle, AfterFailure, Places
<1>6. ASSUME NEW i \in Instances, TurnAway(i) PROVE TypeOK' /\ CountedMishaps'
  BY <1>6, RetryAfterType DEF TurnAway
<1>7. ASSUME NEW i \in Instances, Limited(i) PROVE TypeOK' /\ CountedMishaps'
  BY <1>7 DEF Limited, Larger, Void
<1>8. ASSUME NEW i \in Instances, Restart(i) PROVE TypeOK' /\ CountedMishaps'
  <2>1. PICK n \in Costs \cup {0} :
          cost' = [r \in Requests |-> IF r \in ledger[i] /\ pc[r] = "calling" THEN n ELSE cost[r]]
    BY <1>8 DEF Restart
  <2>2. n \in Nat
    OBVIOUS
  <2>3. cost' \in [Requests -> Nat]
    BY <2>1, <2>2
  <2>4. restarts' = restarts + 1 /\ mishaps' = mishaps - 1 /\ mishaps > 0
    BY <1>8 DEF Restart
  <2> QED BY <1>8, <2>3, <2>4 DEF Restart, Places
<1>9. CASE NextDay
  BY <1>9 DEF NextDay
<1>10. CASE Tick
  <2>1. /\ ledger' = [i \in Instances |-> {r \in ledger[i] : left[r] > 1}]
        /\ left' = [r \in Requests |-> Less(left[r])]
        /\ hold' = [i \in Instances |-> Less(hold[i])]
    BY <1>10 DEF Tick, Kept, Held, HoldLeft
  <2>2. \A n \in 0..None : Less(n) \in 0..None /\ (n <= Window => Less(n) \in 0..Window)
    BY DEF Less
  <2>3. /\ ledger' \in [Instances -> SUBSET Requests]
        /\ left' \in [Requests -> 0..Window] /\ hold' \in [Instances -> 0..Window]
    BY <2>1, <2>2
  <2>4. promise' \in [Instances -> 0..None]
    BY <1>10, <2>2 DEF Tick
  <2>5. tokens' \in [Requests -> Nat] /\ cost' \in [Requests -> Nat]
    BY <1>10 DEF Tick
  <2>6. UNCHANGED <<pc, day, restarts, mishaps>>
    BY <1>10 DEF Tick
  <2> QED BY <2>3, <2>4, <2>5, <2>6
<1>11. CASE UNCHANGED vars
  BY <1>11 DEF vars
<1> QED BY <1>1, <1>2, <1>3, <1>4, <1>5, <1>6, <1>7, <1>8, <1>9, <1>10, <1>11 DEF Next

\* Every step leaves an entry in one ledger, and a request under way with one.
LEMMA LedgerStep == LedgerInv /\ [Next]_vars => LedgerInv'
<1> SUFFICES ASSUME LedgerInv, [Next]_vars PROVE OneLedger' /\ UnderWay'
    BY GateTypeStep DEF LedgerInv
<1> USE GateAssumption DEF LedgerInv, TypeOK, OneLedger, UnderWay, Entered
<1>1. ASSUME NEW r \in Requests, NEW i \in Instances, Admit(r, i)
      PROVE  OneLedger' /\ UnderWay'
  BY <1>1 DEF Admit, Unused
<1>2. ASSUME NEW r \in Requests, TakeUnit(r) PROVE OneLedger' /\ UnderWay'
  BY <1>2 DEF TakeUnit, Stay
<1>3. ASSUME NEW r \in Requests, NoUnit(r) PROVE OneLedger' /\ UnderWay'
  BY <1>3 DEF NoUnit, Stay, Settle
<1>4. ASSUME NEW r \in Requests, Answer(r) PROVE OneLedger' /\ UnderWay'
  BY <1>4 DEF Answer, Stay, Settle
<1>5. ASSUME NEW r \in Requests, Break(r) PROVE OneLedger' /\ UnderWay'
  BY <1>5 DEF Break, Stay, Settle
<1>6. ASSUME NEW i \in Instances, TurnAway(i) PROVE OneLedger' /\ UnderWay'
  BY <1>6 DEF TurnAway
<1>7. ASSUME NEW i \in Instances, Limited(i) PROVE OneLedger' /\ UnderWay'
  BY <1>7 DEF Limited
<1>8. ASSUME NEW i \in Instances, Restart(i) PROVE OneLedger' /\ UnderWay'
  BY <1>8 DEF Restart
<1>9. CASE NextDay
  BY <1>9 DEF NextDay
<1>10. CASE Tick
  BY <1>10 DEF Tick, Kept, Held, Less
<1>11. CASE UNCHANGED vars
  BY <1>11 DEF vars
<1> QED BY <1>1, <1>2, <1>3, <1>4, <1>5, <1>6, <1>7, <1>8, <1>9, <1>10, <1>11 DEF Next

\* Sums of capped tallies grow with the set and with each tally.
LEMMA CappedLess ==
    ASSUME NEW m \in Tallies, NEW n \in Tallies, NEW T \in SUBSET Requests,
           NEW S \in SUBSET Requests, S \subseteq T,
           \A r \in S : Smaller(m[r], Estimate) <= Smaller(n[r], Estimate)
    PROVE  /\ Total(Capped(m), S) <= Total(Capped(n), T)
           /\ Total(Capped(m), S) \in Nat /\ Total(Capped(n), T) \in Nat
<1>1. Capped(m) \in Tallies /\ Capped(n) \in Tallies
  BY GateAssumption DEF Capped, Smaller, Tallies
<1>2. \A r \in S : Capped(m)[r] <= Capped(n)[r]
  BY DEF Capped
<1> QED BY <1>1, <1>2, TotalMore, TotalType

\* At the start nothing is entered and nothing forgotten.
LEMMA ShareStart == Init => ShareInv
<1> SUFFICES ASSUME Init PROVE ShareInv
    OBVIOUS
<1>1. Entered = {} /\ Forgotten = {} /\ restarts = 0 /\ \A i \in Instances : ledger[i] = {}
  BY DEF Init, Entered, Forgotten
<1>2. EntryTells /\ LedgerShare
  BY <1>1, TotalNone, GateAssumption DEF EntryTells, LedgerShare
<1>3. ForgottenShare
  BY <1>1, TotalNone, GateAssumption DEF ForgottenShare
<1> QED BY <1>2, <1>3, LedgerStart DEF ShareInv

\* An entry goes on telling what its request used.
LEMMA EntryStep == ShareInv /\ [Next]_vars => EntryTells'
<1> SUFFICES ASSUME ShareInv, [Next]_vars PROVE EntryTells'
    OBVIOUS
<1> USE GateAssumption DEF ShareInv, LedgerInv, TypeOK, Entered, EntryTells, Smaller
<1>1. ASSUME NEW r \in Requests, NEW i \in Instances, Admit(r, i) PROVE EntryTells'
  BY <1>1 DEF Admit, Unused
<1>2. ASSUME NEW r \in Requests, TakeUnit(r) PROVE EntryTells'
  BY <1>2 DEF TakeUnit
<1>3. ASSUME NEW r \in Requests, NoUnit(r) PROVE EntryTells'
  BY <1>3 DEF NoUnit, Settle, UnderWay
<1>4. ASSUME NEW r \in Requests, Answer(r) PROVE EntryTells'
  BY <1>4 DEF Answer, Settle
<1>5. ASSUME NEW r \in Requests, Break(r) PROVE EntryTells'
  BY <1>5 DEF Break, Settle, AfterFailure, UnderWay
<1>6. ASSUME NEW i \in Instances, TurnAway(i) \/ Limited(i) PROVE EntryTells'
  BY <1>6 DEF TurnAway, Limited
<1>7. ASSUME NEW i \in Instances, Restart(i) PROVE EntryTells'
  BY <1>7 DEF Restart, OneLedger
<1>8. CASE NextDay
  BY <1>8 DEF NextDay
<1>9. CASE Tick
  BY <1>9 DEF Tick, Kept, Held
<1>10. CASE UNCHANGED vars
  BY <1>10 DEF vars
<1> QED BY <1>1, <1>2, <1>3, <1>4, <1>5, <1>6, <1>7, <1>8, <1>9, <1>10 DEF Next

\* No step takes a ledger beyond the ceiling: an admission looks first, and what is
\* settled counts no more than the estimate that was reserved.
LEMMA LedgerShareStep == ShareInv /\ [Next]_vars => LedgerShare'
<1> SUFFICES ASSUME ShareInv, [Next]_vars, NEW j \in Instances
             PROVE  Total(Capped(tokens'), ledger'[j]) <= Ceiling
    BY DEF LedgerShare
<1> USE GateAssumption DEF ShareInv
<1>t. TypeOK /\ TypeOK'
  BY GateTypeStep DEF LedgerInv
<1>a. /\ tokens \in Tallies /\ tokens' \in Tallies
      /\ ledger[j] \in SUBSET Requests /\ ledger'[j] \in SUBSET Requests
      /\ Total(Capped(tokens), ledger[j]) <= Ceiling
  BY <1>t DEF TypeOK, Tallies, LedgerShare
<1>b. ASSUME ledger'[j] \subseteq ledger[j],
             \A r \in ledger'[j] : Smaller(tokens'[r], Estimate) <= Smaller(tokens[r], Estimate)
      PROVE  Total(Capped(tokens'), ledger'[j]) <= Ceiling
  BY <1>a, <1>b, CappedLess
<1>c. \A r \in Requests : Smaller(tokens[r], Estimate) <= Smaller(tokens[r], Estimate)
  BY <1>t DEF TypeOK, Smaller
<1>1. ASSUME NEW r \in Requests, NEW i \in Instances, Admit(r, i)
      PROVE  Total(Capped(tokens'), ledger'[j]) <= Ceiling
  <2>1. \A q \in Requests \ {r} : tokens'[q] = tokens[q]
    BY <1>1, <1>t DEF Admit, Unused, TypeOK
  <2>2. \A q \in ledger[j] : q # r /\ left[q] > 0
    BY <1>1 DEF Admit, Unused, LedgerInv, OneLedger
  <2>3. CASE j # i
    <3>1. ledger'[j] = ledger[j]
      BY <1>1, <1>t, <2>3 DEF Admit, Unused, TypeOK
    <3> QED BY <1>a, <1>b, <1>c, <2>1, <2>2, <3>1
  <2>4. CASE j = i
    <3>1. ledger'[j] = ledger[j] \cup {r} /\ tokens'[r] = Estimate /\ r \in Requests \ ledger[j]
      BY <1>1, <1>t, <2>2, <2>4 DEF Admit, Unused, TypeOK
    <3>2. Held(j, 0) = ledger[j]
      BY <2>2 DEF Held
    <3>3. Total(tokens, ledger[j]) + Estimate <= Ceiling
      BY <1>1, <2>4, <3>2 DEF Admit, Unused, Admits, Room
    <3>4. Capped(tokens') \in Tallies /\ Capped(tokens')[r] = Estimate
      BY <1>a, <3>1 DEF Capped, Smaller, Tallies
    <3>5. Total(Capped(tokens'), ledger[j] \cup {r})
            = Total(Capped(tokens'), ledger[j]) + Estimate
      BY <1>a, <3>1, <3>4, TotalOne
    <3>6. \A q \in ledger[j] : Capped(tokens')[q] <= tokens[q]
      BY <1>a, <2>1, <2>2 DEF Capped, Smaller, Tallies
    <3>7. Total(Capped(tokens'), ledger[j]) <= Total(tokens, ledger[j])
      BY <1>a, <3>4, <3>6, TotalMore
    <3>8. Total(Capped(tokens'), ledger[j]) \in Nat /\ Total(tokens, ledger[j]) \in Nat
      BY <1>a, <3>4, TotalType
    <3> QED BY <3>1, <3>3, <3>5, <3>7, <3>8
  <2> QED BY <2>3, <2>4
<1>2. ASSUME NEW r \in Requests, TakeUnit(r)
      PROVE  Total(Capped(tokens'), ledger'[j]) <= Ceiling
  BY <1>2, <1>a, <1>b, <1>c DEF TakeUnit
<1>3. ASSUME NEW r \in Requests, NoUnit(r) \/ Answer(r) \/ Break(r)
      PROVE  Total(Capped(tokens'), ledger'[j]) <= Ceiling
  <2>1. ledger' = ledger /\ \A q \in Requests \ {r} : tokens'[q] = tokens[q]
    BY <1>3, <1>t DEF NoUnit, Answer, Break, Settle, TypeOK
  <2>2. pc[r] # "idle"
    BY <1>3 DEF NoUnit, Answer, Break
  <2>3. tokens[r] = Estimate /\ tokens'[r] \in Nat
    BY <1>a, <2>2 DEF LedgerInv, UnderWay, Tallies
  <2>4. Smaller(tokens'[r], Estimate) <= Smaller(tokens[r], Estimate)
    BY <2>3 DEF Smaller
  <2> QED BY <1>a, <1>b, <1>c, <2>1, <2>4
<1>4. ASSUME NEW i \in Instances, TurnAway(i) \/ Limited(i)
      PROVE  Total(Capped(tokens'), ledger'[j]) <= Ceiling
  BY <1>4, <1>a, <1>b, <1>c DEF TurnAway, Limited
<1>5. ASSUME NEW i \in Instances, Restart(i)
      PROVE  Total(Capped(tokens'), ledger'[j]) <= Ceiling
  <2>1. CASE j = i
    BY <1>5, <1>b, <1>t, <2>1 DEF Restart, TypeOK
  <2>2. CASE j # i
    <3>1. ledger'[j] = ledger[j] /\ \A r \in ledger[j] : tokens'[r] = tokens[r]
      BY <1>5, <1>t, <2>2 DEF Restart, TypeOK, LedgerInv, OneLedger
    <3> QED BY <1>a, <1>b, <1>c, <3>1
  <2> QED BY <2>1, <2>2
<1>6. CASE NextDay \/ UNCHANGED vars
  BY <1>6, <1>a, <1>b, <1>c DEF NextDay, vars
<1>7. CASE Tick
  <2>1. ledger'[j] \subseteq ledger[j] /\ \A r \in ledger'[j] : tokens'[r] = tokens[r]
    BY <1>7, <1>t DEF Tick, Kept, Held, TypeOK
  <2> QED BY <1>a, <1>b, <1>c, <2>1
<1> QED BY <1>1, <1>2, <1>3, <1>4, <1>5, <1>6, <1>7 DEF Next

\* What the restarts forgot grows by a ceiling each.
LEMMA ForgottenStep == ShareInv /\ [Next]_vars => ForgottenShare'
<1> SUFFICES ASSUME ShareInv, [Next]_vars
             PROVE  Total(Capped(cost'), Forgotten') <= restarts' * Ceiling
    BY DEF ForgottenShare
<1> USE GateAssumption DEF ShareInv
<1>t. TypeOK /\ TypeOK'
  BY GateTypeStep DEF LedgerInv
<1>a. /\ cost \in Tallies /\ cost' \in Tallies
      /\ Forgotten \in SUBSET Requests /\ Forgotten' \in SUBSET Requests
      /\ Total(Capped(cost), Forgotten) <= restarts * Ceiling
      /\ restarts \in Nat
  BY <1>t DEF TypeOK, Tallies, Forgotten, ForgottenShare
<1>b. ASSUME restarts' = restarts, Forgotten' \subseteq Forgotten,
             \A r \in Forgotten' : cost'[r] = cost[r]
      PROVE  Total(Capped(cost'), Forgotten') <= restarts' * Ceiling
  <2>1. \A r \in Forgotten' : Smaller(cost'[r], Estimate) <= Smaller(cost[r], Estimate)
    BY <1>a, <1>b DEF Smaller, Tallies
  <2>2. /\ Total(Capped(cost'), Forgotten') <= Total(Capped(cost), Forgotten)
        /\ Total(Capped(cost'), Forgotten') \in Nat /\ Total(Capped(cost), Forgotten) \in Nat
    BY <1>a, <1>b, <2>1, CappedLess
  <2>3. restarts * Ceiling \in Nat
    BY <1>a
  <2> QED BY <1>a, <1>b, <2>2, <2>3
<1>1. ASSUME NEW r \in Requests, NEW i \in Instances, Admit(r, i)
      PROVE  Total(Capped(cost'), Forgotten') <= restarts' * Ceiling
  BY <1>1, <1>b, <1>t DEF Admit, Unused, Forgotten, Entered, TypeOK
<1>2. ASSUME NEW r \in Requests, TakeUnit(r) \/ NoUnit(r)
      PROVE  Total(Capped(cost'), Forgotten') <= restarts' * Ceiling
  BY <1>2, <1>b DEF TakeUnit, NoUnit, Forgotten, Entered
<1>3. ASSUME NEW r \in Requests, Answer(r) \/ Break(r)
      PROVE  Total(Capped(cost'), Forgotten') <= restarts' * Ceiling
  <2>1. r \in Entered
    BY <1>3 DEF Answer, Break, LedgerInv, UnderWay
  <2>2. UNCHANGED <<ledger, left, restarts>> /\ \A q \in Requests \ {r} : cost'[q] = cost[q]
    BY <1>3, <1>t DEF Answer, Break, TypeOK
  <2>3. Forgotten' = Forgotten
    BY <2>2 DEF Forgotten, Entered
  <2> QED BY <1>b, <2>1, <2>2, <2>3 DEF Forgotten
<1>4. ASSUME NEW i \in Instances, TurnAway(i) \/ Limited(i)
      PROVE  Total(Capped(cost'), Forgotten') <= restarts' * Ceiling
  BY <1>4, <1>b DEF TurnAway, Limited, Forgotten, Entered
<1>5. ASSUME NEW i \in Instances, Restart(i)
      PROVE  Total(Capped(cost'), Forgotten') <= restarts' * Ceiling
  <2>1. /\ ledger[i] \in SUBSET Requests /\ tokens \in Tallies
        /\ Total(Capped(tokens), ledger[i]) <= Ceiling
    BY <1>t DEF TypeOK, Tallies, LedgerShare
  <2>2. Forgotten' = Forgotten \cup ledger[i] /\ Forgotten \cap ledger[i] = {}
    <3>1. /\ left' = left /\ ledger'[i] = {}
          /\ \A j \in Instances \ {i} : ledger'[j] = ledger[j]
      BY <1>5, <1>t DEF Restart, TypeOK
    <3>2. \A r \in ledger[i] : left[r] > 0 /\ \A j \in Instances : r \in ledger[j] => j = i
      BY DEF LedgerInv, OneLedger
    <3> QED BY <2>1, <3>1, <3>2 DEF Forgotten, Entered
  <2>3. PICK n \in Costs \cup {0} :
          cost' = [r \in Requests |-> IF r \in ledger[i] /\ pc[r] = "calling" THEN n ELSE cost[r]]
    BY <1>5 DEF Restart
  <2>4. Total(Capped(cost'), Forgotten) <= Total(Capped(cost), Forgotten)
    <3>1. \A r \in Forgotten : Smaller(cost'[r], Estimate) <= Smaller(cost[r], Estimate)
      BY <1>a, <2>2, <2>3 DEF Smaller, Tallies
    <3> QED BY <1>a, <3>1, CappedLess
  <2>5. Total(Capped(cost'), ledger[i]) <= Total(Capped(tokens), ledger[i])
    <3>1. ASSUME NEW r \in ledger[i]
          PROVE  Smaller(cost'[r], Estimate) <= Smaller(tokens[r], Estimate)
      <4>1. r \in Requests /\ cost'[r] \in Nat /\ tokens[r] \in Nat /\ cost[r] \in Nat
        BY <1>a, <2>1 DEF Tallies
      <4>2. CASE pc[r] = "calling"
        BY <4>1, <4>2 DEF LedgerInv, UnderWay, Smaller
      <4>3. CASE pc[r] # "calling"
        <5>1. cost'[r] = cost[r] /\ Smaller(cost[r], Estimate) <= tokens[r]
          BY <2>3, <4>1, <4>3 DEF EntryTells, Entered
        <5> QED BY <4>1, <5>1 DEF Smaller
      <4> QED BY <4>2, <4>3
    <3> QED BY <1>a, <2>1, <3>1, CappedLess
  <2>6. Total(Capped(cost'), Forgotten \cup ledger[i])
          = Total(Capped(cost'), Forgotten) + Total(Capped(cost'), ledger[i])
    <3>1. Capped(cost') \in Tallies
      BY <1>a DEF Capped, Smaller, Tallies
    <3> QED BY <1>a, <2>1, <2>2, <3>1, TotalApart
  <2>7. /\ Total(Capped(cost'), Forgotten) \in Nat /\ Total(Capped(cost), Forgotten) \in Nat
        /\ Total(Capped(cost'), ledger[i]) \in Nat /\ Total(Capped(tokens), ledger[i]) \in Nat
    <3>1. /\ Capped(cost') \in Tallies /\ Capped(cost) \in Tallies
          /\ Capped(tokens) \in Tallies
      BY <1>a, <2>1 DEF Capped, Smaller, Tallies
    <3> QED BY <1>a, <2>1, <3>1, TotalType
  <2>8. restarts' * Ceiling = restarts * Ceiling + Ceiling /\ restarts * Ceiling \in Nat
    BY <1>5, <1>a DEF Restart
  <2> QED BY <1>a, <2>1, <2>2, <2>4, <2>5, <2>6, <2>7, <2>8
<1>6. CASE NextDay \/ UNCHANGED vars
  BY <1>6, <1>b DEF NextDay, vars, Forgotten, Entered
<1>7. CASE Tick
  <2>1. restarts' = restarts
    BY <1>7 DEF Tick
  <2>2. \A r \in Forgotten' : r \in Forgotten /\ cost'[r] = cost[r]
    BY <1>7, <1>t DEF Tick, Kept, Held, Less, Forgotten, Entered, TypeOK
  <2> QED BY <1>b, <2>1, <2>2
<1> QED BY <1>1, <1>2, <1>3, <1>4, <1>5, <1>6, <1>7 DEF Next

\* A promise stands until it is due: time frees what it counted on, an answer within its
\* estimate frees more, and whatever fills the ledger or holds it off makes it void.
LEMMA PromiseStep == HintInv /\ [Next]_vars => PromiseStands'
<1> SUFFICES ASSUME HintInv, [Next]_vars, Estimate <= Ceiling,
                    NEW j \in Instances, promise'[j] # None
             PROVE  hold'[j] <= promise'[j] /\ Room(j, promise[j])'
    BY DEF PromiseStands, None
<1> USE GateAssumption DEF HintInv
<1> DEFINE Later == {r \in ledger'[j] : left'[r] > promise'[j]}
           Stands == hold'[j] <= promise'[j] /\ Room(j, promise[j])'
<1>t. TypeOK /\ TypeOK'
  BY GateTypeStep DEF LedgerInv
<1>a. /\ tokens \in Tallies /\ tokens' \in Tallies
      /\ Later \in SUBSET Requests /\ \A t : Held(j, t) \in SUBSET Requests
      /\ promise[j] \in 0..None /\ promise'[j] \in 0..Window
      /\ hold[j] \in 0..Window
  <2>1. Later \in SUBSET Requests
    BY <1>t DEF TypeOK
  <2>2. \A t : Held(j, t) \in SUBSET Requests
    BY <1>t DEF TypeOK, Held
  <2> QED BY <1>t, <2>1, <2>2 DEF TypeOK, Tallies, None
<1>p. promise[j] # None => hold[j] <= promise[j] /\ Room(j, promise[j])
  BY DEF PromiseStands
<1>b. ASSUME promise[j] # None, hold'[j] <= promise'[j], Later \subseteq Held(j, promise[j]),
             \A r \in Later : tokens'[r] <= tokens[r]
      PROVE  Stands
  <2>1. Total(tokens', Later) <= Total(tokens, Held(j, promise[j]))
    BY <1>a, <1>b, TotalMore
  <2>2. Total(tokens', Later) \in Nat /\ Total(tokens, Held(j, promise[j])) \in Nat
    BY <1>a, TotalType
  <2>3. Total(tokens', Later) + Estimate <= Ceiling
    BY <1>b, <1>p, <2>1, <2>2 DEF Room
  <2> QED BY <1>b, <2>3 DEF Room, Held
<1>c. ASSUME UNCHANGED <<ledger, left, hold>>, promise'[j] = promise[j],
             \A r \in ledger[j] : tokens'[r] <= tokens[r]
      PROVE  Stands
  <2>1. Later = Held(j, promise[j])
    BY <1>c DEF Held
  <2> QED BY <1>b, <1>c, <1>p, <2>1 DEF Held
<1>d. \A r \in Requests : tokens[r] <= tokens[r]
  BY <1>a DEF Tallies
<1>e. ledger[j] \subseteq Requests
  BY <1>t DEF TypeOK
<1>1. ASSUME NEW r \in Requests, NEW i \in Instances, Admit(r, i) PROVE Stands
  <2>1. j # i /\ promise'[j] = promise[j] /\ ledger'[j] = ledger[j] /\ hold' = hold
    BY <1>1, <1>t DEF Admit, Unused, Void, TypeOK
  <2>2. \A q \in ledger[j] : q # r /\ left'[q] = left[q] /\ tokens'[q] = tokens[q]
    BY <1>1, <1>t DEF Admit, Unused, LedgerInv, OneLedger, TypeOK
  <2>3. Later \subseteq Held(j, promise[j])
    BY <2>1, <2>2 DEF Held
  <2> QED BY <1>b, <1>d, <1>e, <1>p, <2>1, <2>2, <2>3
<1>2. ASSUME NEW r \in Requests, TakeUnit(r) PROVE Stands
  BY <1>2, <1>c, <1>d, <1>e DEF TakeUnit
<1>3. ASSUME NEW r \in Requests, NoUnit(r) \/ Answer(r) \/ Break(r) PROVE Stands
  <2>1. /\ UNCHANGED <<ledger, left, hold>> /\ promise'[j] = promise[j]
        /\ \A q \in Requests \ {r} : tokens'[q] = tokens[q]
    BY <1>3, <1>t DEF NoUnit, Answer, Break, Settle, TypeOK
  <2>2. tokens[r] = Estimate
    BY <1>3 DEF NoUnit, Answer, Break, LedgerInv, UnderWay
  <2>3. r \in ledger[j] => tokens'[r] <= Estimate
    <3>1. CASE NoUnit(r)
      BY <3>1, <1>t DEF NoUnit, Settle, TypeOK
    <3>2. CASE Answer(r)
      <4>1. PICK n \in Costs :
              /\ Settle(r, n)
              /\ promise' = [i \in Instances |->
                               IF n > Estimate /\ r \in ledger[i] THEN None ELSE promise[i]]
        BY <3>2 DEF Answer
      <4>2. r \in ledger[j] => ~(n > Estimate)
        BY <4>1
      <4>3. tokens'[r] = n /\ n \in Nat
        BY <4>1, <1>t DEF Settle, TypeOK
      <4> QED BY <4>2, <4>3
    <3>3. CASE Break(r)
      BY <3>3, <1>t, <2>2 DEF Break, Settle, AfterFailure, TypeOK
    <3> QED BY <1>3, <3>1, <3>2, <3>3
  <2>4. \A q \in ledger[j] : tokens'[q] <= tokens[q]
    BY <1>d, <1>e, <2>1, <2>2, <2>3
  <2> QED BY <1>c, <2>1, <2>4
<1>4. ASSUME NEW i \in Instances, TurnAway(i) PROVE Stands
  <2>1. UNCHANGED <<ledger, left, hold, tokens>>
    BY <1>4 DEF TurnAway
  <2>2. CASE j = i
    <3>1. promise'[j] = RetryAfter(j)
      BY <1>4, <1>t, <2>2 DEF TurnAway, TypeOK
    <3>2. hold[j] <= RetryAfter(j) /\ Room(j, RetryAfter(j))
      BY RetryAfterType
    <3>3. Later = Held(j, RetryAfter(j))
      BY <2>1, <3>1 DEF Held
    <3> QED BY <2>1, <3>1, <3>2, <3>3 DEF Room, Held
  <2>3. CASE j # i
    <3>1. promise'[j] = promise[j]
      BY <1>4, <1>t, <2>3 DEF TurnAway, TypeOK
    <3> QED BY <1>c, <1>d, <1>e, <2>1, <3>1
  <2> QED BY <2>2, <2>3
<1>5. ASSUME NEW i \in Instances, Limited(i) PROVE Stands
  <2>1. j # i /\ promise'[j] = promise[j] /\ hold'[j] = hold[j]
    BY <1>5, <1>t DEF Limited, Void, TypeOK
  <2>2. UNCHANGED <<ledger, left, tokens>> /\ Later = Held(j, promise[j])
    BY <1>5, <2>1 DEF Limited, Held
  <2> QED BY <1>b, <1>d, <1>e, <1>p, <2>1, <2>2 DEF Held
<1>6. ASSUME NEW i \in Instances, Restart(i) PROVE Stands
  <2>1. promise' = promise /\ left' = left
    BY <1>6 DEF Restart
  <2>2. CASE j = i
    <3>1. hold'[j] = 0 /\ Later = {}
      BY <1>6, <1>t, <2>2 DEF Restart, TypeOK
    <3> QED BY <1>a, <1>b, <2>1, <3>1
  <2>3. CASE j # i
    <3>1. /\ ledger'[j] = ledger[j] /\ hold'[j] = hold[j]
          /\ \A r \in ledger[j] : tokens'[r] = tokens[r]
      BY <1>6, <1>t, <2>3 DEF Restart, TypeOK, LedgerInv, OneLedger
    <3>2. Later = Held(j, promise[j])
      BY <2>1, <3>1 DEF Held
    <3> QED BY <1>b, <1>d, <1>e, <1>p, <2>1, <3>1, <3>2 DEF Held
  <2> QED BY <2>2, <2>3
<1>7. CASE NextDay
  BY <1>7, <1>c, <1>d, <1>e DEF NextDay
<1>8. CASE Tick
  <2>1. /\ ledger'[j] = {r \in ledger[j] : left[r] > 1}
        /\ \A r \in Requests : left'[r] = Less(left[r])
        /\ hold'[j] = Less(hold[j])
        /\ promise'[j] = IF promise[j] = None THEN None ELSE Less(promise[j])
        /\ \A r \in Requests : left[r] > 1 => tokens'[r] = tokens[r]
    BY <1>8, <1>t DEF Tick, Kept, Held, HoldLeft, TypeOK
  <2>2. promise[j] # None /\ promise'[j] = Less(promise[j])
    BY <2>1
  <2>3. hold'[j] <= promise'[j]
    BY <1>a, <1>p, <2>1, <2>2 DEF Less, None
  <2>4. ASSUME NEW r \in Later PROVE r \in Held(j, promise[j]) /\ tokens'[r] <= tokens[r]
    <3>1. r \in ledger[j] /\ left[r] > 1 /\ r \in Requests /\ left[r] \in 0..Window
      BY <1>e, <1>t, <2>1 DEF TypeOK
    <3>2. left[r] - 1 > Less(promise[j])
      BY <2>1, <2>2, <3>1 DEF Less
    <3>3. left[r] > promise[j]
      BY <1>a, <3>1, <3>2 DEF Less, None
    <3> QED BY <1>d, <2>1, <3>1, <3>3 DEF Held
  <2> QED BY <1>b, <2>2, <2>3, <2>4
<1>9. CASE UNCHANGED vars
  BY <1>9, <1>c, <1>d, <1>e DEF vars
<1> QED BY <1>1, <1>2, <1>3, <1>4, <1>5, <1>6, <1>7, <1>8, <1>9 DEF Next

-----------------------------------------------------------------------------
\* Every variable of the demo's gates has its type.
THEOREM GateTyped == Spec => []TypeOK
<1>1. Init => LedgerInv
  BY LedgerStart
<1>2. LedgerInv /\ [Next]_vars => LedgerInv'
  BY LedgerStep
<1>3. LedgerInv => TypeOK
  BY DEF LedgerInv
<1> QED BY <1>1, <1>2, <1>3, PTL DEF Spec

\* The counter knows of every call that was let through, and some budget allowed it.
DayInv == passed <= units /\ allowed >= 1 /\ DayKept

\* A call that passes raises what was let through by one, to the budget it was checked
\* against at most, unless it is the date's first.
LEMMA DayStep == TypeOK /\ DayInv /\ [Next]_vars => DayInv'
<1> SUFFICES ASSUME TypeOK, DayInv, [Next]_vars PROVE DayInv'
    OBVIOUS
<1> USE GateAssumption DEF TypeOK, DayInv, DayKept
<1>1. ASSUME NEW r \in Requests, TakeUnit(r) PROVE DayInv'
  <2>1. PICK b \in Budgets : UnitFree(b) /\ allowed' = Larger(allowed, b)
    BY <1>1 DEF TakeUnit
  <2>2. b \in Int /\ allowed' \in Int /\ allowed' >= allowed /\ allowed' >= b
    BY <2>1 DEF Larger
  <2>3. units' = units + 1 /\ passed' = passed + 1
    BY <1>1 DEF TakeUnit
  <2>4. CASE units = 0
    <3>1. passed = 0 /\ allowed >= 1
      BY <2>4
    <3> QED BY <2>2, <2>3, <2>4, <3>1
  <2>5. CASE units < b
    BY <2>2, <2>3, <2>5
  <2> QED BY <2>1, <2>4, <2>5 DEF UnitFree
<1>2. ASSUME NEW r \in Requests, NoUnit(r) PROVE DayInv'
  BY <1>2 DEF NoUnit
<1>3. CASE NextDay
  BY <1>3 DEF NextDay
<1>4. CASE UNCHANGED day
  BY <1>4 DEF day
<1>5. ASSUME NEW r \in Requests, (\E i \in Instances : Admit(r, i)) \/ Answer(r) \/ Break(r)
      PROVE  UNCHANGED day
  BY <1>5 DEF Admit, Unused, Answer, Break
<1>6. ASSUME NEW i \in Instances, TurnAway(i) \/ Limited(i) \/ Restart(i)
      PROVE  UNCHANGED day
  BY <1>6 DEF TurnAway, Limited, Restart
<1>7. CASE Tick
  BY <1>4, <1>7 DEF Tick
<1> QED BY <1>1, <1>2, <1>3, <1>4, <1>5, <1>6, <1>7 DEF Next, vars

\* Whatever the instances take for the budget and however their checks fail, no date lets
\* more calls through than the largest budget that let one of them through, or one.
THEOREM DayBudgetKept == Spec => []DayKept
<1>1. Init => LedgerInv /\ DayInv
  BY LedgerStart DEF Init, DayInv, DayKept
<1>2. LedgerInv /\ DayInv /\ [Next]_vars => LedgerInv' /\ DayInv'
  BY LedgerStep, DayStep DEF LedgerInv
<1>3. DayInv => DayKept
  BY DEF DayInv
<1> QED BY <1>1, <1>2, <1>3, PTL DEF Spec

\* What the ledgers know and what the restarts forgot is all that the window holds.
LEMMA ShareHolds == ShareInv => FleetShare
<1> SUFFICES ASSUME ShareInv PROVE FleetShare
    OBVIOUS
<1> USE GateAssumption DEF ShareInv, LedgerInv
<1> DEFINE window == {r \in Requests : left[r] > 0}
<1>1. /\ cost \in Tallies /\ tokens \in Tallies /\ restarts \in Nat
      /\ ledger \in [Instances -> SUBSET Requests]
      /\ Capped(cost) \in Tallies
  BY DEF TypeOK, Tallies, Capped, Smaller
<1>2. ASSUME NEW i \in Instances PROVE Total(Capped(cost), ledger[i]) <= Ceiling
  <2>1. \A r \in ledger[i] : Smaller(cost[r], Estimate) <= Smaller(tokens[r], Estimate)
    BY <1>1 DEF EntryTells, Entered, Smaller, Tallies
  <2>2. /\ Total(Capped(cost), ledger[i]) <= Total(Capped(tokens), ledger[i])
        /\ Total(Capped(cost), ledger[i]) \in Nat /\ Total(Capped(tokens), ledger[i]) \in Nat
    BY <1>1, <2>1, CappedLess
  <2> QED BY <2>2 DEF LedgerShare
<1>3. Total(Capped(cost), Entered) <= Cardinality(Instances) * Ceiling
  BY <1>1, <1>2, TotalSpread DEF Entered
<1>4. window = Forgotten \cup Entered /\ Forgotten \cap Entered = {}
  BY <1>1 DEF Forgotten, Entered, OneLedger
<1>5. Forgotten \in SUBSET Requests /\ Entered \in SUBSET Requests
  BY <1>1 DEF Forgotten, Entered
<1>6. Total(Capped(cost), window) = Total(Capped(cost), Forgotten) + Total(Capped(cost), Entered)
  BY <1>1, <1>4, <1>5, TotalApart
<1>7. Total(Capped(cost), Forgotten) \in Nat /\ Total(Capped(cost), Entered) \in Nat
  BY <1>1, <1>5, TotalType
<1>8. Cardinality(Instances) \in Nat
  BY FS_CardinalityType
<1>9. (Cardinality(Instances) + restarts) * Ceiling
        = Cardinality(Instances) * Ceiling + restarts * Ceiling
  BY <1>1, <1>8
<1>10. Cardinality(Instances) * Ceiling \in Nat /\ restarts * Ceiling \in Nat
  BY <1>1, <1>8
<1>11. Total(Capped(cost), window) <= (Cardinality(Instances) + restarts) * Ceiling
  BY <1>3, <1>6, <1>7, <1>9, <1>10 DEF ForgottenShare
<1> QED BY <1>11 DEF FleetShare, Capped

\* The fleet keeps its share, whatever is admitted, released, answered, failed or
\* forgotten: one ceiling per instance and one per restart.
THEOREM FleetKeepsShare == Spec => []FleetShare
<1>1. Init => ShareInv
  BY ShareStart
<1>2. ShareInv /\ [Next]_vars => ShareInv'
  BY LedgerStep, EntryStep, LedgerShareStep, ForgottenStep DEF ShareInv
<1>3. ShareInv => FleetShare
  BY ShareHolds
<1> QED BY <1>1, <1>2, <1>3, PTL DEF Spec

\* A visitor who returns when told finds room, if nothing disturbed the ledger.
THEOREM HintsAreHonest == Spec => []HintHonest
<1>1. Init => HintInv
  <2>1. Init => PromiseStands
    BY DEF Init, PromiseStands
  <2> QED BY <2>1, LedgerStart DEF HintInv
<1>2. HintInv /\ [Next]_vars => HintInv'
  BY LedgerStep, PromiseStep DEF HintInv
<1>3. HintInv => HintHonest
  <2> SUFFICES ASSUME HintInv, Estimate <= Ceiling, NEW i \in Instances, promise[i] = 0
               PROVE  Admits(i)
      BY DEF HintHonest
  <2>1. promise[i] # None /\ hold[i] \in Nat
    BY GateAssumption DEF None, HintInv, LedgerInv, TypeOK
  <2>2. hold[i] <= 0 /\ Room(i, 0)
    BY <2>1 DEF HintInv, PromiseStands
  <2> QED BY <2>1, <2>2 DEF Admits
<1> QED BY <1>1, <1>2, <1>3, PTL DEF Spec
=============================================================================
