------------------------- MODULE UrgentAlertsProofs -------------------------
(***************************************************************************)
(* The urgent alerts' properties for any number of reviews, evaluations    *)
(* and sweeps, and for any cap.                                            *)
(***************************************************************************)
EXTENDS UrgentAlerts, FiniteSetTheorems, TLAPS

\* A slot is claimed and its sender has not finished with it.
Holding == {"pending", "send", "release", "record"}

\* What a sender has passed was open at some time since it started, and what is
\* open now counts.
GatesPassed ==
    /\ \A p \in Senders : ~Idle(p) => Open(email, pref, suppressed) \subseteq opened[p]
    /\ \A e \in Evals :
          /\ ~Idle(e) => "email" \in opened[e]
          /\ pc[e] \in {"address", "claim"} \cup Holding =>
                {"enabled", "immediate"} \subseteq opened[e]
          /\ pc[e] \in {"claim"} \cup Holding => "address" \in opened[e]
    /\ \A s \in Sweeps :
          /\ pc[s] \in {"pref", "claim"} \cup Holding => "email" \in opened[s]
          /\ pc[s] \in {"claim"} \cup Holding => "enabled" \in opened[s]

\* Every mail counted in the window still holds its claim, and a token names one
\* delivery.
TokensUnique ==
    /\ recent \subseteq claims
    /\ \A p, q \in Senders : token[p] = token[q] /\ token[p] # NoToken => p = q
    /\ \A p \in Senders : token[p] \in recent => pc[p] = "record"

ClaimsCapped == Cardinality(claims) <= MaxPerWindow

\* What a sender has recorded, or is about to record, has been mailed.
CarriedWasMailed ==
    /\ RecordedWasMailed
    /\ \A p \in Senders : pc[p] = "record" => \A r \in Own(p) \cup rolled[p] : mailed[r] > 0

\* Bounds are only spent.
Spent == left.mishaps <= Mishaps /\ left.overruns <= Overruns

\* Until a mishap, no event is dropped.
Kept == Spent /\ NeverDropped

\* With one slot per window, no mishap and no delivery that outlives its window,
\* whoever is past the claim holds the slot and is alone, what it is about to mail
\* was never mailed, what was mailed is recorded or about to be, and an evaluation
\* of a review that was mailed meanwhile will find the slot taken.
Calm == InTime /\ MaxPerWindow = 1

HoldsSlot ==
    \A p \in Senders : /\ pc[p] \in Holding => token[p] \in claims
                       /\ pc[p] = "record" => token[p] \in recent

CarriesFresh ==
    \A p \in Senders : pc[p] \in {"pending", "send"} =>
                          \A r \in Own(p) \cup rolled[p] : mailed[r] = 0

MailedIsKnown ==
    \A r \in Reviews : mailed[r] > 0 =>
       r \in recorded \/ \E p \in Senders : pc[p] = "record" /\ r \in Own(p) \cup rolled[p]

RepeatBlocked ==
    \A e \in Evals : pc[e] \in {"pref", "address", "claim"} /\ mailed[ReviewOf[e]] > 0
                        => recent # {}

CarriesLate ==
    \A p \in Senders : pc[p] \notin {"send", "release", "record"} => rolled[p] = {}

AtMostOnce == \A r \in Reviews : mailed[r] <= 1

OneHolder ==
    /\ Spent
    /\ Calm => /\ HoldsSlot /\ CarriesFresh /\ MailedIsKnown
               /\ RepeatBlocked /\ CarriesLate /\ AtMostOnce

-----------------------------------------------------------------------------
\* Types.

\* The initial state has the types.
LEMMA TypeInit == Init => TypeOK
<1> SUFFICES ASSUME Init PROVE TypeOK
    OBVIOUS
<1>1. left \in [mishaps : Nat, changes : Nat, overruns : Nat]
  BY AlertsAssumption DEF Init
<1>2. /\ mailed \in [Reviews -> 0..2] /\ token \in [Senders -> Tokens \cup {NoToken}]
      /\ rolled \in [Senders -> SUBSET Reviews] /\ opened \in [Senders -> SUBSET Gates]
  BY DEF Init
<1>3. pc \in [Senders -> Places] /\ \A p \in Senders : pc[p] = "idle"
  BY DEF Init, Places
<1> QED BY <1>1, <1>2, <1>3 DEF Init, TypeOK, Senders

\* Every step keeps the types.
LEMMA TypeStep ==
    TypeOK /\ [Next]_vars => TypeOK'
<1> SUFFICES ASSUME TypeOK, [Next]_vars
             PROVE  TypeOK'
    OBVIOUS
<1> USE AlertsAssumption DEF TypeOK, Places, Senders, Own
<1>1. CASE UNCHANGED vars
  BY <1>1 DEF vars, settings, log
<1>2. CASE Change
  <2>1. opened' \in [Senders -> SUBSET Gates]
    BY <1>2 DEF Change, Open
  <2>2. /\ email' \in BOOLEAN /\ pref' \in {"immediate", "daily_digest", "off"}
        /\ suppressed' \in BOOLEAN /\ reporting' \in BOOLEAN
    BY <1>2 DEF Change
  <2>3. left' \in [mishaps : Nat, changes : Nat, overruns : Nat]
    BY <1>2 DEF Change, Spend
  <2> QED BY <1>2, <2>1, <2>2, <2>3 DEF Change, log
<1>3. CASE RecordSuppression
  BY <1>3 DEF RecordSuppression, settings, log
<1>4. CASE WindowPasses
  BY <1>4 DEF WindowPasses, Spend, settings, log, Aged
<1>5. ASSUME NEW p \in Senders, StartEval(p) PROVE TypeOK'
  BY <1>5 DEF StartEval, Begin, Goto, settings, log, Open
<1>6. ASSUME NEW p \in Senders, StartSweep(p) PROVE TypeOK'
  BY <1>6 DEF StartSweep, Idle, Begin, Goto, settings, log, Pending, Open
<1>7. ASSUME NEW p \in Senders, Dedupe(p) PROVE TypeOK'
  BY <1>7 DEF Dedupe, Gate, Goto, Spend, settings, log, AlreadyAlerted
<1>8. ASSUME NEW p \in Senders, CheckGates(p) PROVE TypeOK'
  BY <1>8 DEF CheckGates, Gate, Goto, Spend, settings, log, Wanted, Enabled, Deliverable
<1>9. ASSUME NEW p \in Senders, Claim(p) PROVE TypeOK'
  BY <1>9 DEF Claim, Goto, Spend, settings, log, SlotFree
<1>10. ASSUME NEW p \in Senders, Defer(p) PROVE TypeOK'
  BY <1>10 DEF Defer, Goto, Spend, settings, log
<1>11. ASSUME NEW p \in Senders, ReadPending(p) PROVE TypeOK'
  BY <1>11 DEF ReadPending, Goto, Spend, settings, log, Pending
<1>12. ASSUME NEW p \in Senders, Sent(p) PROVE TypeOK'
  BY <1>12 DEF Sent, Goto, settings, log, Retired
<1>13. ASSUME NEW p \in Senders, SendFails(p) PROVE TypeOK'
  BY <1>13 DEF SendFails, Goto, settings, log
<1>14. ASSUME NEW p \in Senders, Release(p) PROVE TypeOK'
  BY <1>14 DEF Release, Goto, Spend, settings, log, AfterRelease
<1>15. ASSUME NEW p \in Senders, Record(p) PROVE TypeOK'
  BY <1>15 DEF Record, settings, log
<1>16. ASSUME NEW p \in Senders, Finish(p) PROVE TypeOK'
  BY <1>16 DEF Finish, Goto, Spend, settings, log
<1>17. ASSUME NEW p \in Senders, Die(p) PROVE TypeOK'
  BY <1>17 DEF Die, Goto, Spend, settings, log, Idle
<1> QED
  BY <1>1, <1>2, <1>3, <1>4, <1>5, <1>6, <1>7, <1>8, <1>9, <1>10, <1>11, <1>12, <1>13,
     <1>14, <1>15, <1>16, <1>17 DEF Next, Deliver

\* TypeOK holds of every evaluation, sweep and settings change.
THEOREM TypeCorrect == Spec => []TypeOK
<1>1. Init => TypeOK
  BY TypeInit
<1>2. TypeOK /\ [Next]_vars => TypeOK'
  BY TypeStep
<1> QED BY <1>1, <1>2, PTL DEF Spec

-----------------------------------------------------------------------------
\* Opting out.

\* The settings count for every active sender, and a sender passes a gate only
\* while it is open.
LEMMA GatesStep ==
    TypeOK /\ GatesPassed /\ [Next]_vars => GatesPassed'
<1> SUFFICES ASSUME TypeOK, GatesPassed, [Next]_vars
             PROVE  GatesPassed'
    OBVIOUS
<1> USE AlertsAssumption DEF TypeOK, GatesPassed, Places, Senders, Holding, Idle, Gates, Open
<1>1. CASE UNCHANGED vars
  BY <1>1 DEF vars, settings, log
<1>2. CASE Change
  BY <1>2 DEF Change, Spend, settings, log
<1>3. CASE RecordSuppression
  BY <1>3 DEF RecordSuppression, settings, log
<1>4. CASE WindowPasses
  BY <1>4 DEF WindowPasses, Spend, settings, log, Aged
<1>5. ASSUME NEW p \in Senders, StartEval(p) PROVE GatesPassed'
  BY <1>5 DEF StartEval, Begin, Goto, settings, log
<1>6. ASSUME NEW p \in Senders, StartSweep(p) PROVE GatesPassed'
  BY <1>6 DEF StartSweep, Idle, Begin, Goto, settings, log, Pending
<1>7. ASSUME NEW p \in Senders, Dedupe(p) PROVE GatesPassed'
  BY <1>7 DEF Dedupe, Gate, Goto, Spend, settings, log, AlreadyAlerted
<1>8. ASSUME NEW p \in Senders, CheckGates(p) PROVE GatesPassed'
  BY <1>8 DEF CheckGates, Gate, Goto, Spend, settings, log, Wanted, Enabled, Deliverable
<1>9. ASSUME NEW p \in Senders, Claim(p) PROVE GatesPassed'
  BY <1>9 DEF Claim, Goto, Spend, settings, log, SlotFree
<1>10. ASSUME NEW p \in Senders, Defer(p) PROVE GatesPassed'
  BY <1>10 DEF Defer, Goto, Spend, settings, log
<1>11. ASSUME NEW p \in Senders, ReadPending(p) PROVE GatesPassed'
  BY <1>11 DEF ReadPending, Goto, Spend, settings, log, Pending
<1>12. ASSUME NEW p \in Senders, Sent(p) PROVE GatesPassed'
  BY <1>12 DEF Sent, Goto, settings, log, Retired
<1>13. ASSUME NEW p \in Senders, SendFails(p) PROVE GatesPassed'
  BY <1>13 DEF SendFails, Goto, settings, log
<1>14. ASSUME NEW p \in Senders, Release(p) PROVE GatesPassed'
  BY <1>14 DEF Release, Goto, Spend, settings, log, AfterRelease
<1>15. ASSUME NEW p \in Senders, Record(p) PROVE GatesPassed'
  BY <1>15 DEF Record, settings, log
<1>16. ASSUME NEW p \in Senders, Finish(p) PROVE GatesPassed'
  BY <1>16 DEF Finish, Goto, Spend, settings, log
<1>17. ASSUME NEW p \in Senders, Die(p) PROVE GatesPassed'
  BY <1>17 DEF Die, Goto, Spend, settings, log, Idle
<1> QED
  BY <1>1, <1>2, <1>3, <1>4, <1>5, <1>6, <1>7, <1>8, <1>9, <1>10, <1>11, <1>12, <1>13,
     <1>14, <1>15, <1>16, <1>17 DEF Next, Deliver

\* GatesRespected: evaluate_and_alert and flush_deferred_urgent_for_org mail
\* only past gates that were open at some time since they started, although
\* each gate is a read of its own and the settings change in between.
THEOREM OptOutRespected == Spec => []GatesRespected
<1>1. Init => GatesPassed
  BY AlertsAssumption DEF Init, GatesPassed, Idle, Holding, Senders
<1>2. TypeOK /\ GatesPassed /\ [Next]_vars => GatesPassed'
  BY GatesStep
<1>3. GatesPassed => GatesRespected
  BY DEF GatesPassed, GatesRespected, Idle, Holding, Gates, Senders
<1> QED BY <1>1, <1>2, <1>3, TypeCorrect, PTL DEF Spec

-----------------------------------------------------------------------------
\* The cap.

\* A sent mail keeps its claim until its window passes, and fresh tokens are
\* fresh.
LEMMA TokensStep ==
    TypeOK /\ TokensUnique /\ [Next]_vars => TokensUnique'
<1> SUFFICES ASSUME TypeOK, TokensUnique, [Next]_vars
             PROVE  TokensUnique'
    OBVIOUS
<1> USE AlertsAssumption DEF TypeOK, TokensUnique, Places, Senders
<1>1. CASE UNCHANGED vars
  BY <1>1 DEF vars, settings, log
<1>2. CASE Change
  BY <1>2 DEF Change, Spend, settings, log
<1>3. CASE RecordSuppression
  BY <1>3 DEF RecordSuppression, settings, log
<1>4. CASE WindowPasses
  BY <1>4 DEF WindowPasses, Spend, settings, log, Aged
<1>5. ASSUME NEW p \in Senders, StartEval(p) PROVE TokensUnique'
  BY <1>5 DEF StartEval, Begin, Goto, settings, log
<1>6. ASSUME NEW p \in Senders, StartSweep(p) PROVE TokensUnique'
  BY <1>6 DEF StartSweep, Idle, Begin, Goto, settings, log, Pending
<1>7. ASSUME NEW p \in Senders, Dedupe(p) PROVE TokensUnique'
  BY <1>7 DEF Dedupe, Gate, Goto, Spend, settings, log, AlreadyAlerted
<1>8. ASSUME NEW p \in Senders, CheckGates(p) PROVE TokensUnique'
  BY <1>8 DEF CheckGates, Gate, Goto, Spend, settings, log, Wanted, Enabled, Deliverable
<1>9. ASSUME NEW p \in Senders, Claim(p) PROVE TokensUnique'
  BY <1>9 DEF Claim, Goto, Spend, settings, log, SlotFree
<1>10. ASSUME NEW p \in Senders, Defer(p) PROVE TokensUnique'
  BY <1>10 DEF Defer, Goto, Spend, settings, log
<1>11. ASSUME NEW p \in Senders, ReadPending(p) PROVE TokensUnique'
  BY <1>11 DEF ReadPending, Goto, Spend, settings, log, Pending
<1>12. ASSUME NEW p \in Senders, Sent(p) PROVE TokensUnique'
  BY <1>12 DEF Sent, Goto, settings, log, Retired
<1>13. ASSUME NEW p \in Senders, SendFails(p) PROVE TokensUnique'
  BY <1>13 DEF SendFails, Goto, settings, log
<1>14. ASSUME NEW p \in Senders, Release(p) PROVE TokensUnique'
  BY <1>14 DEF Release, Goto, Spend, settings, log, AfterRelease
<1>15. ASSUME NEW p \in Senders, Record(p) PROVE TokensUnique'
  BY <1>15 DEF Record, settings, log
<1>16. ASSUME NEW p \in Senders, Finish(p) PROVE TokensUnique'
  BY <1>16 DEF Finish, Goto, Spend, settings, log
<1>17. ASSUME NEW p \in Senders, Die(p) PROVE TokensUnique'
  BY <1>17 DEF Die, Goto, Spend, settings, log, Idle
<1> QED
  BY <1>1, <1>2, <1>3, <1>4, <1>5, <1>6, <1>7, <1>8, <1>9, <1>10, <1>11, <1>12, <1>13,
     <1>14, <1>15, <1>16, <1>17 DEF Next, Deliver

\* A claim is added only while a slot is free.
LEMMA ClaimsStep ==
    TypeOK /\ ClaimsCapped /\ [Next]_vars => ClaimsCapped'
<1> SUFFICES ASSUME TypeOK, ClaimsCapped, [Next]_vars
             PROVE  ClaimsCapped'
    OBVIOUS
<1> USE AlertsAssumption DEF ClaimsCapped
<1>1. IsFiniteSet(claims) /\ Cardinality(claims) \in Nat
  BY FS_Subset, FS_CardinalityType DEF TypeOK
<1>2. CASE claims' \subseteq claims
  <2>1. Cardinality(claims') <= Cardinality(claims) /\ Cardinality(claims') \in Nat
    BY <1>1, <1>2, FS_Subset, FS_CardinalityType
  <2> QED BY <1>1, <2>1
<1>3. CASE SlotFree /\ \E t \in Tokens : claims' = claims \cup {t}
  <2>1. PICK t \in Tokens : claims' = claims \cup {t}
    BY <1>3
  <2>2. Cardinality(claims') <= Cardinality(claims) + 1 /\ Cardinality(claims') \in Nat
    BY <1>1, <2>1, FS_AddElement, FS_CardinalityType
  <2> QED BY <1>1, <1>3, <2>2 DEF SlotFree
<1>4. claims' \subseteq claims \/ (SlotFree /\ \E t \in Tokens : claims' = claims \cup {t})
   BY DEF Next, Deliver, vars, settings, log, Change, RecordSuppression, WindowPasses,
     StartEval,
         StartSweep, Dedupe, CheckGates, Gate, Claim, Defer, ReadPending, Sent, SendFails,
         Release, Record, Finish, Die
<1> QED BY <1>2, <1>3, <1>4

\* MailCap: no interleaving of claims, releases and retries makes
\* claim_urgent_window_pg admit more mails to a window than its cap.
THEOREM CapKept == Spec => []MailCap
<1>1. Init => TokensUnique /\ ClaimsCapped
  <2>1. Cardinality({}) = 0
    BY FS_EmptySet
  <2>2. Init => Cardinality(claims) = 0
    BY <2>1 DEF Init
  <2> QED BY <2>2, AlertsAssumption DEF Init, TokensUnique, ClaimsCapped
<1>2. TypeOK /\ TokensUnique /\ [Next]_vars => TokensUnique'
  BY TokensStep
<1>3. TypeOK /\ ClaimsCapped /\ [Next]_vars => ClaimsCapped'
  BY ClaimsStep
<1>4. TypeOK /\ TokensUnique /\ ClaimsCapped => MailCap
  <2> SUFFICES ASSUME TypeOK, TokensUnique, ClaimsCapped PROVE MailCap
      OBVIOUS
  <2>1. IsFiniteSet(claims) /\ recent \subseteq claims
    BY AlertsAssumption, FS_Subset DEF TypeOK, TokensUnique
  <2>2. /\ Cardinality(recent) <= Cardinality(claims)
        /\ Cardinality(recent) \in Nat /\ Cardinality(claims) \in Nat
    BY <2>1, FS_Subset, FS_CardinalityType
  <2> QED BY <2>2, AlertsAssumption DEF ClaimsCapped, MailCap
<1> QED BY <1>1, <1>2, <1>3, <1>4, TypeCorrect, PTL DEF Spec

-----------------------------------------------------------------------------
\* What is recorded was mailed.

\* A review is recorded by the delivery that mailed it.
LEMMA CarriedStep ==
    TypeOK /\ CarriedWasMailed /\ [Next]_vars => CarriedWasMailed'
<1> SUFFICES ASSUME TypeOK, CarriedWasMailed, [Next]_vars
             PROVE  CarriedWasMailed'
    OBVIOUS
<1> USE AlertsAssumption DEF TypeOK, CarriedWasMailed, RecordedWasMailed, Places, Senders, Own
<1>1. CASE UNCHANGED vars
  BY <1>1 DEF vars, settings, log
<1>2. CASE Change
  BY <1>2 DEF Change, Spend, settings, log
<1>3. CASE RecordSuppression
  BY <1>3 DEF RecordSuppression, settings, log
<1>4. CASE WindowPasses
  BY <1>4 DEF WindowPasses, Spend, settings, log, Aged
<1>5. ASSUME NEW p \in Senders, StartEval(p) PROVE CarriedWasMailed'
  BY <1>5 DEF StartEval, Begin, Goto, settings, log
<1>6. ASSUME NEW p \in Senders, StartSweep(p) PROVE CarriedWasMailed'
  BY <1>6 DEF StartSweep, Idle, Begin, Goto, settings, log, Pending
<1>7. ASSUME NEW p \in Senders, Dedupe(p) PROVE CarriedWasMailed'
  BY <1>7 DEF Dedupe, Gate, Goto, Spend, settings, log, AlreadyAlerted
<1>8. ASSUME NEW p \in Senders, CheckGates(p) PROVE CarriedWasMailed'
  BY <1>8 DEF CheckGates, Gate, Goto, Spend, settings, log, Wanted, Enabled, Deliverable
<1>9. ASSUME NEW p \in Senders, Claim(p) PROVE CarriedWasMailed'
  BY <1>9 DEF Claim, Goto, Spend, settings, log, SlotFree
<1>10. ASSUME NEW p \in Senders, Defer(p) PROVE CarriedWasMailed'
  BY <1>10 DEF Defer, Goto, Spend, settings, log
<1>11. ASSUME NEW p \in Senders, ReadPending(p) PROVE CarriedWasMailed'
  BY <1>11 DEF ReadPending, Goto, Spend, settings, log, Pending
<1>12. ASSUME NEW p \in Senders, Sent(p) PROVE CarriedWasMailed'
  BY <1>12 DEF Sent, Goto, settings, log, Retired
<1>13. ASSUME NEW p \in Senders, SendFails(p) PROVE CarriedWasMailed'
  BY <1>13 DEF SendFails, Goto, settings, log
<1>14. ASSUME NEW p \in Senders, Release(p) PROVE CarriedWasMailed'
  BY <1>14 DEF Release, Goto, Spend, settings, log, AfterRelease
<1>15. ASSUME NEW p \in Senders, Record(p) PROVE CarriedWasMailed'
  BY <1>15 DEF Record, settings, log
<1>16. ASSUME NEW p \in Senders, Finish(p) PROVE CarriedWasMailed'
  BY <1>16 DEF Finish, Goto, Spend, settings, log
<1>17. ASSUME NEW p \in Senders, Die(p) PROVE CarriedWasMailed'
  BY <1>17 DEF Die, Goto, Spend, settings, log, Idle
<1> QED
  BY <1>1, <1>2, <1>3, <1>4, <1>5, <1>6, <1>7, <1>8, <1>9, <1>10, <1>11, <1>12, <1>13,
     <1>14, <1>15, <1>16, <1>17 DEF Next, Deliver

\* RecordedWasMailed: alert_log has a high_urgency row only for a review that
\* some mail carried, so retiring a deferred event never loses it.
THEOREM RetiredByMail == Spec => []RecordedWasMailed
<1>1. Init => CarriedWasMailed
  BY DEF Init, CarriedWasMailed, RecordedWasMailed
<1>2. TypeOK /\ CarriedWasMailed /\ [Next]_vars => CarriedWasMailed'
  BY CarriedStep
<1>3. CarriedWasMailed => RecordedWasMailed
  BY DEF CarriedWasMailed
<1> QED BY <1>1, <1>2, <1>3, TypeCorrect, PTL DEF Spec

-----------------------------------------------------------------------------
\* Nothing is dropped.

\* An evaluation ends by a mail, by a deferral or by a mishap.
LEMMA DroppedStep ==
    TypeOK /\ CarriedWasMailed /\ Kept /\ [Next]_vars => Kept'
<1> SUFFICES ASSUME TypeOK, CarriedWasMailed, Kept, [Next]_vars
             PROVE  Kept'
    OBVIOUS
<1> USE AlertsAssumption DEF TypeOK, CarriedWasMailed, Kept, Spent, Undisturbed,
        NeverDropped, Places, Senders, Own
<1>1. CASE UNCHANGED vars
  BY <1>1 DEF vars, settings, log
<1>2. CASE Change
  BY <1>2 DEF Change, Spend, settings, log
<1>3. CASE RecordSuppression
  BY <1>3 DEF RecordSuppression, settings, log
<1>4. CASE WindowPasses
  BY <1>4 DEF WindowPasses, Spend, settings, log, Aged
<1>5. ASSUME NEW p \in Senders, StartEval(p) PROVE Kept'
  BY <1>5 DEF StartEval, Begin, Goto, settings, log
<1>6. ASSUME NEW p \in Senders, StartSweep(p) PROVE Kept'
  BY <1>6 DEF StartSweep, Idle, Begin, Goto, settings, log, Pending
<1>7. ASSUME NEW p \in Senders, Dedupe(p) PROVE Kept'
  BY <1>7 DEF Dedupe, Gate, Goto, Spend, settings, log, AlreadyAlerted
<1>8. ASSUME NEW p \in Senders, CheckGates(p) PROVE Kept'
  BY <1>8 DEF CheckGates, Gate, Goto, Spend, settings, log, Wanted, Enabled, Deliverable
<1>9. ASSUME NEW p \in Senders, Claim(p) PROVE Kept'
  BY <1>9 DEF Claim, Goto, Spend, settings, log, SlotFree
<1>10. ASSUME NEW p \in Senders, Defer(p) PROVE Kept'
  BY <1>10 DEF Defer, Goto, Spend, settings, log
<1>11. ASSUME NEW p \in Senders, ReadPending(p) PROVE Kept'
  BY <1>11 DEF ReadPending, Goto, Spend, settings, log, Pending
<1>12. ASSUME NEW p \in Senders, Sent(p) PROVE Kept'
  BY <1>12 DEF Sent, Goto, settings, log, Retired
<1>13. ASSUME NEW p \in Senders, SendFails(p) PROVE Kept'
  BY <1>13 DEF SendFails, Goto, settings, log
<1>14. ASSUME NEW p \in Senders, Release(p) PROVE Kept'
  BY <1>14 DEF Release, Goto, Spend, settings, log, AfterRelease
<1>15. ASSUME NEW p \in Senders, Record(p) PROVE Kept'
  BY <1>15 DEF Record, settings, log
<1>16. ASSUME NEW p \in Senders, Finish(p) PROVE Kept'
  BY <1>16 DEF Finish, Goto, Spend, settings, log
<1>17. ASSUME NEW p \in Senders, Die(p) PROVE Kept'
  BY <1>17 DEF Die, Goto, Spend, settings, log, Idle
<1> QED
  BY <1>1, <1>2, <1>3, <1>4, <1>5, <1>6, <1>7, <1>8, <1>9, <1>10, <1>11, <1>12, <1>13,
     <1>14, <1>15, <1>16, <1>17 DEF Next, Deliver

\* NeverDropped: without a database error or a death, an event past the gates
\* was mailed or is deferred when its evaluation ends, whatever sends fail.
THEOREM NothingDropped == Spec => []NeverDropped
<1>1. Init => Kept /\ CarriedWasMailed
   BY AlertsAssumption DEF Init, Kept, Spent, NeverDropped, CarriedWasMailed,
     RecordedWasMailed, Senders
<1>2. TypeOK /\ CarriedWasMailed /\ [Next]_vars => CarriedWasMailed'
  BY CarriedStep
<1>3. TypeOK /\ CarriedWasMailed /\ Kept /\ [Next]_vars => Kept'
  BY DroppedStep
<1>4. Kept => NeverDropped
  BY DEF Kept
<1> QED BY <1>1, <1>2, <1>3, <1>4, TypeCorrect, PTL DEF Spec

-----------------------------------------------------------------------------
\* Nothing is mailed twice.

\* No step refunds a bound.
LEMMA SpentStep ==
    TypeOK /\ Spent /\ [Next]_vars => Spent'
<1> SUFFICES ASSUME TypeOK, Spent, [Next]_vars
             PROVE  Spent'
    OBVIOUS
<1> USE AlertsAssumption DEF TypeOK, Spent
<1>1. CASE UNCHANGED vars
  BY <1>1 DEF vars, settings, log
<1>2. CASE Change
  BY <1>2 DEF Change, Spend, settings, log
<1>3. CASE RecordSuppression
  BY <1>3 DEF RecordSuppression, settings, log
<1>4. CASE WindowPasses
  BY <1>4 DEF WindowPasses, Spend, settings, log, Aged
<1>5. ASSUME NEW p \in Senders, StartEval(p) PROVE Spent'
  BY <1>5 DEF StartEval, Begin, Goto, settings, log
<1>6. ASSUME NEW p \in Senders, StartSweep(p) PROVE Spent'
  BY <1>6 DEF StartSweep, Idle, Begin, Goto, settings, log, Pending
<1>7. ASSUME NEW p \in Senders, Dedupe(p) PROVE Spent'
  BY <1>7 DEF Dedupe, Gate, Goto, Spend, settings, log, AlreadyAlerted
<1>8. ASSUME NEW p \in Senders, CheckGates(p) PROVE Spent'
  BY <1>8 DEF CheckGates, Gate, Goto, Spend, settings, log, Wanted, Enabled, Deliverable
<1>9. ASSUME NEW p \in Senders, Claim(p) PROVE Spent'
  BY <1>9 DEF Claim, Goto, Spend, settings, log, SlotFree
<1>10. ASSUME NEW p \in Senders, Defer(p) PROVE Spent'
  BY <1>10 DEF Defer, Goto, Spend, settings, log
<1>11. ASSUME NEW p \in Senders, ReadPending(p) PROVE Spent'
  BY <1>11 DEF ReadPending, Goto, Spend, settings, log, Pending
<1>12. ASSUME NEW p \in Senders, Sent(p) PROVE Spent'
  BY <1>12 DEF Sent, Goto, settings, log, Retired
<1>13. ASSUME NEW p \in Senders, SendFails(p) PROVE Spent'
  BY <1>13 DEF SendFails, Goto, settings, log
<1>14. ASSUME NEW p \in Senders, Release(p) PROVE Spent'
  BY <1>14 DEF Release, Goto, Spend, settings, log, AfterRelease
<1>15. ASSUME NEW p \in Senders, Record(p) PROVE Spent'
  BY <1>15 DEF Record, settings, log
<1>16. ASSUME NEW p \in Senders, Finish(p) PROVE Spent'
  BY <1>16 DEF Finish, Goto, Spend, settings, log
<1>17. ASSUME NEW p \in Senders, Die(p) PROVE Spent'
  BY <1>17 DEF Die, Goto, Spend, settings, log, Idle
<1> QED
  BY <1>1, <1>2, <1>3, <1>4, <1>5, <1>6, <1>7, <1>8, <1>9, <1>10, <1>11, <1>12, <1>13,
     <1>14, <1>15, <1>16, <1>17 DEF Next, Deliver

\* A full window of one slot holds one token.
LEMMA AloneInClaims ==
    ASSUME TypeOK, ClaimsCapped, MaxPerWindow = 1, NEW s \in claims, NEW t \in claims
    PROVE  s = t
<1> SUFFICES ASSUME s # t PROVE FALSE
    OBVIOUS
<1>1. IsFiniteSet(claims) /\ Cardinality(claims) \in Nat
  BY AlertsAssumption, FS_Subset, FS_CardinalityType DEF TypeOK
<1>2. Cardinality({s, t}) <= Cardinality(claims)
  BY <1>1, FS_Subset
<1>3. Cardinality({s}) = 1 /\ IsFiniteSet({s})
  BY FS_Singleton
<1>4. Cardinality({s} \cup {t}) = 2
  BY <1>3, FS_AddElement
<1>5. {s} \cup {t} = {s, t}
  OBVIOUS
<1> QED BY <1>1, <1>2, <1>4, <1>5 DEF ClaimsCapped

\* Whoever holds the only slot is alone.
LEMMA HolderAlone ==
    ASSUME TypeOK, TokensUnique, ClaimsCapped, MaxPerWindow = 1, HoldsSlot,
           NEW p \in Senders, NEW q \in Senders, pc[p] \in Holding, pc[q] \in Holding
    PROVE  p = q
<1>1. token[p] \in claims /\ token[q] \in claims
  BY DEF HoldsSlot
<1>2. token[p] = token[q]
  BY <1>1, AloneInClaims
<1>3. token[p] # NoToken
  BY <1>1, AlertsAssumption DEF TypeOK
<1> QED BY <1>2, <1>3 DEF TokensUnique

\* With one slot, a free slot means an empty window.
LEMMA FreeIsEmpty == TypeOK /\ MaxPerWindow = 1 /\ SlotFree => claims = {}
<1> SUFFICES ASSUME TypeOK, MaxPerWindow = 1, SlotFree PROVE claims = {}
    OBVIOUS
<1>1. IsFiniteSet(claims) /\ Cardinality(claims) \in Nat
  BY AlertsAssumption, FS_Subset, FS_CardinalityType DEF TypeOK
<1>2. Cardinality(claims) = 0
  BY <1>1 DEF SlotFree
<1> QED BY <1>1, <1>2, FS_EmptySet

\* The holder stays alone with what was never mailed.
LEMMA OnceStep ==
    TypeOK /\ TokensUnique /\ ClaimsCapped /\ OneHolder /\ [Next]_vars => OneHolder'
<1> SUFFICES ASSUME TypeOK, TokensUnique, ClaimsCapped, OneHolder, [Next]_vars
             PROVE  OneHolder'
    OBVIOUS
<1> USE AlertsAssumption DEF TypeOK, TokensUnique, OneHolder, Calm, Spent, InTime,
        Undisturbed, Places, Senders, Holding, Own, HoldsSlot, CarriesFresh,
        MailedIsKnown, RepeatBlocked, CarriesLate, AtMostOnce
<1>1. CASE UNCHANGED vars
  BY <1>1 DEF vars, settings, log
<1>2. CASE Change
  BY <1>2 DEF Change, Spend, settings, log
<1>3. CASE RecordSuppression
  BY <1>3 DEF RecordSuppression, settings, log
<1>4. CASE WindowPasses
  <2> SUFFICES ASSUME Calm'
               PROVE  (HoldsSlot /\ CarriesFresh /\ MailedIsKnown /\ RepeatBlocked
                       /\ CarriesLate /\ AtMostOnce)'
    BY SpentStep DEF OneHolder
  <2>1. Calm /\ UNCHANGED <<recorded, mailed, pc, token, rolled>>
    BY <1>4 DEF WindowPasses, Spend, log
  <2>2. \A q \in Senders : Idle(q)
    BY <1>4, <2>1 DEF WindowPasses, Spend
  <2> QED BY <2>1, <2>2 DEF Idle
<1>5. ASSUME NEW p \in Senders, StartEval(p) PROVE OneHolder'
  BY <1>5 DEF StartEval, Begin, Goto, settings, log
<1>6. ASSUME NEW p \in Senders, StartSweep(p) PROVE OneHolder'
  BY <1>6 DEF StartSweep, Idle, Begin, Goto, settings, log, Pending
<1>7. ASSUME NEW p \in Senders, Dedupe(p) PROVE OneHolder'
  BY <1>7 DEF Dedupe, Gate, Goto, Spend, settings, log, AlreadyAlerted
<1>8. ASSUME NEW p \in Senders, CheckGates(p) PROVE OneHolder'
  BY <1>8 DEF CheckGates, Gate, Goto, Spend, settings, log, Wanted, Enabled, Deliverable
<1>9. ASSUME NEW p \in Senders, Claim(p) PROVE OneHolder'
  <2> SUFFICES ASSUME Calm'
               PROVE  (HoldsSlot /\ CarriesFresh /\ MailedIsKnown /\ RepeatBlocked
                       /\ CarriesLate /\ AtMostOnce)'
    BY SpentStep DEF OneHolder
  <2>1. Calm /\ UNCHANGED <<recorded, recent, mailed, rolled, left>>
    BY <1>9 DEF Claim, Spend, settings
  <2>2. CASE ~SlotFree
    BY <1>9, <2>1, <2>2 DEF Claim, Goto, Spend
  <2>3. CASE SlotFree
    <3>1. claims = {} /\ recent = {}
      BY <2>1, <2>3, FreeIsEmpty
    <3>2. \A q \in Senders : pc[q] \notin Holding
      BY <2>1, <3>1
    <3>3. \A r \in Own(p) : mailed[r] = 0
      BY <1>9, <2>1, <3>1 DEF Claim
    <3>4. ~Spend("mishaps")
      BY <2>1 DEF Spend
    <3>5. PICK t \in Tokens : /\ claims' = claims \cup {t}
                              /\ token' = [token EXCEPT ![p] = t]
                              /\ pc' = [pc EXCEPT ![p] = "pending"]
      BY <1>9, <2>3, <3>4 DEF Claim, Goto
    <3>6. rolled[p] = {} /\ rolled' = rolled
      BY <1>9, <2>1 DEF Claim
    <3> QED BY <2>1, <3>1, <3>2, <3>3, <3>5, <3>6
  <2> QED BY <2>2, <2>3
<1>10. ASSUME NEW p \in Senders, Defer(p) PROVE OneHolder'
  BY <1>10 DEF Defer, Goto, Spend, settings, log
<1>11. ASSUME NEW p \in Senders, ReadPending(p) PROVE OneHolder'
  <2> SUFFICES ASSUME Calm'
               PROVE  (HoldsSlot /\ CarriesFresh /\ MailedIsKnown /\ RepeatBlocked
                       /\ CarriesLate /\ AtMostOnce)'
    BY SpentStep DEF OneHolder
  <2>1. Calm /\ UNCHANGED <<recorded, claims, recent, mailed, token>>
    BY <1>11 DEF ReadPending, Spend, settings, log
  <2>a. ~Spend("mishaps")
    BY <2>1, <1>11 DEF ReadPending, Spend
  <2>2. /\ pc[p] = "pending" /\ rolled' = [rolled EXCEPT ![p] = Pending \ Own(p)]
        /\ \/ pc' = [pc EXCEPT ![p] = "release"]
           \/ pc' = [pc EXCEPT ![p] = "send"]
    BY <1>11, <2>a DEF ReadPending, Goto
  <2>3. \A q \in Senders : pc[q] \in Holding => q = p
    BY <2>1, <2>2, HolderAlone
  <2>4. \A r \in Reviews : mailed[r] > 0 => r \in recorded
    BY <2>1, <2>2, <2>3
  <2>5. \A r \in Pending \ Own(p) : mailed[r] = 0
    BY <2>4 DEF Pending
  <2> QED BY <2>1, <2>2, <2>3, <2>4, <2>5
<1>12. ASSUME NEW p \in Senders, Sent(p) PROVE OneHolder'
  <2> SUFFICES ASSUME Calm'
               PROVE  (HoldsSlot /\ CarriesFresh /\ MailedIsKnown /\ RepeatBlocked
                       /\ CarriesLate /\ AtMostOnce)'
    BY SpentStep DEF OneHolder
  <2>1. /\ Calm /\ pc[p] = "send" /\ pc' = [pc EXCEPT ![p] = "record"]
        /\ UNCHANGED <<recorded, claims, token>> /\ recent' = recent \cup {token[p]}
    BY <1>12 DEF Sent, Goto, log
  <2>2. rolled' = rolled
    BY <1>12 DEF Sent, Retired
  <2>3. \A q \in Senders : pc[q] \in Holding => q = p
    BY <2>1, HolderAlone
  <2>4. \A r \in Reviews : IF r \in Own(p) \cup rolled[p]
                          THEN mailed[r] = 0 /\ mailed'[r] = 1
                          ELSE mailed'[r] = mailed[r]
    BY <1>12, <2>1 DEF Sent
  <2> QED BY <2>1, <2>2, <2>3, <2>4
<1>13. ASSUME NEW p \in Senders, SendFails(p) PROVE OneHolder'
  BY <1>13 DEF SendFails, Goto, settings, log
<1>14. ASSUME NEW p \in Senders, Release(p) PROVE OneHolder'
  BY <1>14 DEF Release, Goto, Spend, settings, log, AfterRelease
<1>15. ASSUME NEW p \in Senders, Record(p) PROVE OneHolder'
  BY <1>15 DEF Record, settings, log
<1>16. ASSUME NEW p \in Senders, Finish(p) PROVE OneHolder'
  BY <1>16 DEF Finish, Goto, Spend, settings, log
<1>17. ASSUME NEW p \in Senders, Die(p) PROVE OneHolder'
  BY <1>17 DEF Die, Goto, Spend, settings, log, Idle
<1> QED
  BY <1>1, <1>2, <1>3, <1>4, <1>5, <1>6, <1>7, <1>8, <1>9, <1>10, <1>11, <1>12, <1>13,
     <1>14, <1>15, <1>16, <1>17 DEF Next, Deliver

\* MailedOnce: with one slot per window, no mishap and deliveries that end
\* within their window, no review is mailed twice by any number of evaluations
\* and sweeps, although the dedupe check comes long before the send.
THEOREM NothingTwice == Spec => []MailedOnce
<1>1. Init => TokensUnique /\ ClaimsCapped /\ OneHolder
  <2>1. Cardinality({}) = 0
    BY FS_EmptySet
  <2>2. Init => Cardinality(claims) = 0
    BY <2>1 DEF Init
  <2>3. Init => TokensUnique
    BY AlertsAssumption DEF Init, TokensUnique
  <2>4. Init => OneHolder
    BY AlertsAssumption DEF Init, OneHolder, Spent, Holding, Senders, HoldsSlot, CarriesFresh,
                            MailedIsKnown, RepeatBlocked, CarriesLate, AtMostOnce
  <2> QED BY <2>2, <2>3, <2>4, AlertsAssumption DEF ClaimsCapped
<1>2. TypeOK /\ TokensUnique /\ [Next]_vars => TokensUnique'
  BY TokensStep
<1>3. TypeOK /\ ClaimsCapped /\ [Next]_vars => ClaimsCapped'
  BY ClaimsStep
<1>4. TypeOK /\ TokensUnique /\ ClaimsCapped /\ OneHolder /\ [Next]_vars => OneHolder'
  BY OnceStep
<1>5. OneHolder => MailedOnce
  BY DEF OneHolder, Calm, AtMostOnce, MailedOnce
<1> QED BY <1>1, <1>2, <1>3, <1>4, <1>5, TypeCorrect, PTL DEF Spec

-----------------------------------------------------------------------------
\* The outbox.

\* What a mail adds to its own review was deferred, and no mail is empty.
CarriesWaiting ==
    \A p \in Senders : /\ rolled[p] \subseteq deferred
                       /\ pc[p] = "send" => Own(p) \cup rolled[p] # {}

\* Until a mishap, and until a delivery outlives its window, whoever is past the claim
\* has it.
HoldsClaim ==
    InTime => \A p \in Senders : pc[p] \in Holding => token[p] \in claims

\* A roll-up is read from what is deferred, and deferred events stay so.
LEMMA WaitingStep ==
    TypeOK /\ CarriesWaiting /\ [Next]_vars => CarriesWaiting'
<1> SUFFICES ASSUME TypeOK, CarriesWaiting, [Next]_vars
             PROVE  CarriesWaiting'
    OBVIOUS
<1> USE AlertsAssumption DEF TypeOK, CarriesWaiting, Senders, Own
<1>1. CASE UNCHANGED vars
  BY <1>1 DEF vars, settings, log
<1>2. CASE Change
  BY <1>2 DEF Change, Spend, settings, log
<1>3. CASE RecordSuppression
  BY <1>3 DEF RecordSuppression, settings, log
<1>4. CASE WindowPasses
  BY <1>4 DEF WindowPasses, Spend, settings, log, Aged
<1>5. ASSUME NEW p \in Senders, StartEval(p) PROVE CarriesWaiting'
  BY <1>5 DEF StartEval, Begin, Goto, settings, log
<1>6. ASSUME NEW p \in Senders, StartSweep(p) PROVE CarriesWaiting'
  BY <1>6 DEF StartSweep, Idle, Begin, Goto, settings, log, Pending
<1>7. ASSUME NEW p \in Senders, Dedupe(p) PROVE CarriesWaiting'
  BY <1>7 DEF Dedupe, Gate, Goto, Spend, settings, log, AlreadyAlerted
<1>8. ASSUME NEW p \in Senders, CheckGates(p) PROVE CarriesWaiting'
  BY <1>8 DEF CheckGates, Gate, Goto, Spend, settings, log, Wanted, Enabled, Deliverable
<1>9. ASSUME NEW p \in Senders, Claim(p) PROVE CarriesWaiting'
  BY <1>9 DEF Claim, Goto, Spend, settings, log, SlotFree
<1>10. ASSUME NEW p \in Senders, Defer(p) PROVE CarriesWaiting'
  BY <1>10 DEF Defer, Goto, Spend, settings, log
<1>11. ASSUME NEW p \in Senders, ReadPending(p) PROVE CarriesWaiting'
  BY <1>11 DEF ReadPending, Goto, Spend, settings, log, Pending
<1>12. ASSUME NEW p \in Senders, Sent(p) PROVE CarriesWaiting'
  BY <1>12 DEF Sent, Goto, settings, log, Retired
<1>13. ASSUME NEW p \in Senders, SendFails(p) PROVE CarriesWaiting'
  BY <1>13 DEF SendFails, Goto, settings, log
<1>14. ASSUME NEW p \in Senders, Release(p) PROVE CarriesWaiting'
  BY <1>14 DEF Release, Goto, Spend, settings, log, AfterRelease
<1>15. ASSUME NEW p \in Senders, Record(p) PROVE CarriesWaiting'
  BY <1>15 DEF Record, settings, log
<1>16. ASSUME NEW p \in Senders, Finish(p) PROVE CarriesWaiting'
  BY <1>16 DEF Finish, Goto, Spend, settings, log
<1>17. ASSUME NEW p \in Senders, Die(p) PROVE CarriesWaiting'
  BY <1>17 DEF Die, Goto, Spend, settings, log, Idle
<1> QED
  BY <1>1, <1>2, <1>3, <1>4, <1>5, <1>6, <1>7, <1>8, <1>9, <1>10, <1>11, <1>12, <1>13,
     <1>14, <1>15, <1>16, <1>17 DEF Next, Deliver

\* A claim goes with its sender's release, or with its window.
LEMMA HoldsStep ==
    TypeOK /\ TokensUnique /\ Spent /\ HoldsClaim /\ [Next]_vars => HoldsClaim'
<1> SUFFICES ASSUME TypeOK, TokensUnique, Spent, HoldsClaim, [Next]_vars
             PROVE  HoldsClaim'
    OBVIOUS
<1> USE AlertsAssumption DEF TypeOK, TokensUnique, Spent, HoldsClaim, InTime, Undisturbed,
        Holding, Senders
<1>1. CASE UNCHANGED vars
  BY <1>1 DEF vars, settings, log
<1>2. CASE Change
  BY <1>2 DEF Change, Spend, settings, log
<1>3. CASE RecordSuppression
  BY <1>3 DEF RecordSuppression, settings, log
<1>4. CASE WindowPasses
  BY <1>4 DEF WindowPasses, Spend, settings, log, Aged, Idle
<1>5. ASSUME NEW p \in Senders, StartEval(p) PROVE HoldsClaim'
  BY <1>5 DEF StartEval, Begin, Goto, settings, log
<1>6. ASSUME NEW p \in Senders, StartSweep(p) PROVE HoldsClaim'
  BY <1>6 DEF StartSweep, Idle, Begin, Goto, settings, log, Pending
<1>7. ASSUME NEW p \in Senders, Dedupe(p) PROVE HoldsClaim'
  BY <1>7 DEF Dedupe, Gate, Goto, Spend, settings, log, AlreadyAlerted
<1>8. ASSUME NEW p \in Senders, CheckGates(p) PROVE HoldsClaim'
  BY <1>8 DEF CheckGates, Gate, Goto, Spend, settings, log, Wanted, Enabled, Deliverable
<1>9. ASSUME NEW p \in Senders, Claim(p) PROVE HoldsClaim'
  BY <1>9 DEF Claim, Goto, Spend, settings, log, SlotFree
<1>10. ASSUME NEW p \in Senders, Defer(p) PROVE HoldsClaim'
  BY <1>10 DEF Defer, Goto, Spend, settings, log
<1>11. ASSUME NEW p \in Senders, ReadPending(p) PROVE HoldsClaim'
  BY <1>11 DEF ReadPending, Goto, Spend, settings, log, Pending
<1>12. ASSUME NEW p \in Senders, Sent(p) PROVE HoldsClaim'
  BY <1>12 DEF Sent, Goto, settings, log, Retired
<1>13. ASSUME NEW p \in Senders, SendFails(p) PROVE HoldsClaim'
  BY <1>13 DEF SendFails, Goto, settings, log
<1>14. ASSUME NEW p \in Senders, Release(p) PROVE HoldsClaim'
  BY <1>14 DEF Release, Goto, Spend, settings, log, AfterRelease
<1>15. ASSUME NEW p \in Senders, Record(p) PROVE HoldsClaim'
  BY <1>15 DEF Record, settings, log
<1>16. ASSUME NEW p \in Senders, Finish(p) PROVE HoldsClaim'
  BY <1>16 DEF Finish, Goto, Spend, settings, log
<1>17. ASSUME NEW p \in Senders, Die(p) PROVE HoldsClaim'
  BY <1>17 DEF Die, Goto, Spend, settings, log, Idle
<1> QED
  BY <1>1, <1>2, <1>3, <1>4, <1>5, <1>6, <1>7, <1>8, <1>9, <1>10, <1>11, <1>12, <1>13,
     <1>14, <1>15, <1>16, <1>17 DEF Next, Deliver

\* What a step that spends a bound does to the outbox's trouble.
LEMMA Troubled ==
    ASSUME TypeOK, Spent
    PROVE  /\ UNCHANGED left \/ Spend("changes") => troubleNow' = troubleNow
           /\ Spend("mishaps") => troubleNow' = troubleNow \cup {"error"}
           /\ Spend("overruns") => troubleNow' = troubleNow \cup {"late"}
BY AlertsAssumption DEF TypeOK, Spent, Spend, troubleNow, Undisturbed

\* What a sender's step does to what is owed: it begins to be, or it ends.
LEMMA Owing ==
    ASSUME TypeOK, NEW p \in Senders, NEW place \in Places, pc' = [pc EXCEPT ![p] = place]
    PROVE  /\ p \in Evals /\ place \in Past => owedNow' = owedNow \cup {ReviewOf[p]}
           /\ p \in Evals /\ pc[p] \in Past => ReviewOf[p] \in owedNow
           /\ place \notin Past => owedNow' \in SUBSET owedNow
           /\ p \in Evals /\ place \notin Past =>
                 owedNow' \in {owedNow, owedNow \ {ReviewOf[p]}}
           /\ p \notin Evals \/ (pc[p] \in Past <=> place \in Past) => owedNow' = owedNow
BY AlertsAssumption DEF TypeOK, owedNow, Senders

\* A mail as the outbox sees it: its claim counts while it lasts, and it lasts until
\* there is trouble.
LEMMA MailStep ==
    ASSUME TypeOK, TokensUnique, ClaimsCapped, OneHolder, CarriesWaiting, HoldsClaim,
           NEW p \in Senders, Sent(p)
    PROVE  Outbox!ONext
<1> DEFINE S == Own(p) \cup rolled[p]
<1> USE AlertsAssumption DEF TypeOK
<1>1. /\ pc[p] = "send" /\ pc' = [pc EXCEPT ![p] = "record"]
      /\ recent' = recent \cup ({token[p]} \cap claims)
      /\ UNCHANGED <<recorded, deferred, claims, left>>
  BY DEF Sent, Goto, log
<1>2. S \subseteq Reviews /\ S # {}
  BY <1>1 DEF Own, CarriesWaiting
<1>3. \E r \in S \cap (owedNow \cup deferred) : S \ {r} \subseteq deferred
  <2>1. rolled[p] \subseteq deferred
    BY DEF CarriesWaiting
  <2>2. CASE p \in Evals
    <3>1. Own(p) = {ReviewOf[p]}
      BY <2>2 DEF Own
    <3>2. ReviewOf[p] \in owedNow
      BY <1>1, <2>2 DEF owedNow, Past
    <3> QED BY <2>1, <3>1, <3>2
  <2>3. CASE p \notin Evals
    <3>1. Own(p) = {}
      BY <2>3 DEF Own
    <3> QED BY <1>2, <2>1, <3>1
  <2> QED BY <2>2, <2>3
<1>4. troubleNow = {} => InTime
  BY DEF troubleNow, InTime
<1>5. troubleNow = {} /\ MaxPerWindow = 1 => \A r \in S : mailed[r] = 0
  BY <1>1, <1>4 DEF OneHolder, Calm, CarriesFresh
<1>6. mailed' = [r \in Reviews |-> IF r \in S /\ mailed[r] < 2
                                   THEN mailed[r] + 1 ELSE mailed[r]]
  BY DEF Sent
<1>7. Outbox!Counted \/ (troubleNow # {} /\ UNCHANGED recent)
  <2>1. CASE token[p] \in claims
    <3>1. token[p] \in Tokens \ recent
      BY <1>1, <2>1 DEF TokensUnique
    <3>2. recent' = recent \cup {token[p]} /\ recent' \subseteq claims
      BY <1>1, <2>1 DEF TokensUnique
    <3>3. IsFiniteSet(claims)
      BY FS_Subset
    <3>4. Cardinality(recent') <= Cardinality(claims)
      BY <3>2, <3>3, FS_Subset
    <3>5. Cardinality(recent') \in Nat /\ Cardinality(claims) \in Nat
      BY <3>2, <3>3, FS_Subset, FS_CardinalityType
    <3>6. Cardinality(recent') <= MaxPerWindow
      BY <3>4, <3>5 DEF ClaimsCapped
    <3> QED BY <3>1, <3>2, <3>6 DEF Outbox!Counted, Outbox!Cardinality, Cardinality
  <2>2. CASE token[p] \notin claims
    BY <1>1, <1>4, <2>2 DEF HoldsClaim, Holding
  <2> QED BY <2>1, <2>2
<1>8. owedNow' = owedNow /\ troubleNow' = troubleNow
  <2>1. owedNow' = owedNow
    BY <1>1, Owing DEF Past, Places
  <2>2. troubleNow' = troubleNow
    BY <1>1, Troubled DEF OneHolder
  <2> QED BY <2>1, <2>2
<1>9. Outbox!Mail(S)
  BY <1>1, <1>3, <1>5, <1>6, <1>7, <1>8 DEF Outbox!Mail
<1> QED BY <1>2, <1>9 DEF Outbox!ONext

\* Every other step raises, holds back, closes or retires an event, lets a window pass,
\* meets with trouble, or is invisible.
LEMMA OutboxStep ==
    /\ TypeOK /\ TokensUnique /\ ClaimsCapped /\ CarriedWasMailed /\ OneHolder
    /\ CarriesWaiting /\ HoldsClaim /\ [Next]_vars
    => [Outbox!ONext]_Outbox!ovars
<1> SUFFICES ASSUME TypeOK, TokensUnique, ClaimsCapped, CarriedWasMailed, OneHolder,
                    CarriesWaiting, HoldsClaim, [Next]_vars
             PROVE  Outbox!ONext \/ UNCHANGED Outbox!ovars
    OBVIOUS
<1> USE AlertsAssumption DEF TypeOK
<1>0. Spent
  BY DEF OneHolder
<1>1. CASE UNCHANGED vars \/ Change \/ RecordSuppression
  <2>1. UNCHANGED <<recorded, deferred, recent, mailed, pc>>
    BY <1>1 DEF vars, Change, RecordSuppression, settings, log
  <2>2. UNCHANGED left \/ Spend("changes")
    BY <1>1 DEF vars, Change, RecordSuppression
  <2>3. UNCHANGED <<owedNow, troubleNow>>
    BY <1>0, <2>1, <2>2, Troubled DEF owedNow
  <2> QED BY <2>1, <2>3 DEF Outbox!ovars
<1>2. CASE WindowPasses
  <2>1. UNCHANGED <<recorded, deferred, mailed, owedNow>>
    BY <1>2 DEF WindowPasses, owedNow
  <2>2. troubleNow' \in {troubleNow, troubleNow \cup {"late"}}
    BY <1>0, <1>2, Troubled DEF WindowPasses
  <2>3. \E t \in Tokens : recent' = recent \ {t}
    BY <1>2 DEF WindowPasses
  <2> QED BY <2>1, <2>2, <2>3 DEF Outbox!ONext, Outbox!PassWindow
\* A mishap costs the outbox what its sender owed, and nothing else.
<1>m. ASSUME NEW p \in Senders, NEW place \in Places, Spend("mishaps"),
             UNCHANGED <<recorded, deferred, recent, mailed>>,
             pc' = [pc EXCEPT ![p] = place],
             place \notin Past \/ (pc[p] \in Past <=> place \in Past)
      PROVE  Outbox!ONext
  <2>1. owedNow' \in SUBSET owedNow
    BY <1>m, Owing
  <2> QED BY <1>0, <1>m, <2>1, Troubled DEF Outbox!ONext, Outbox!Suffer
\* A sender that stays before, among or behind the places where it owes is invisible.
<1>q. ASSUME NEW p \in Senders, NEW place \in Places,
             UNCHANGED <<recorded, deferred, recent, mailed, left>>,
             pc' = [pc EXCEPT ![p] = place],
             p \notin Evals \/ (pc[p] \in Past <=> place \in Past)
      PROVE  UNCHANGED Outbox!ovars
  BY <1>0, <1>q, Owing, Troubled DEF Outbox!ovars
<1>3. ASSUME NEW p \in Senders, StartEval(p) \/ StartSweep(p)
      PROVE  UNCHANGED Outbox!ovars
  BY <1>3, <1>q DEF StartEval, StartSweep, Begin, Goto, Idle, Past, Places, log
<1>4. ASSUME NEW p \in Senders, NEW from, NEW passes, NEW to \in Places, Gate(p, from, passes, to),
             from \notin Past, p \notin Evals \/ to \notin Past
      PROVE  Outbox!ONext \/ UNCHANGED Outbox!ovars
  <2>1. /\ UNCHANGED <<recorded, deferred, recent, mailed>> /\ pc[p] \notin Past
        /\ \/ UNCHANGED left /\ pc' = [pc EXCEPT ![p] = IF passes THEN to ELSE "out"]
           \/ Spend("mishaps") /\ pc' = [pc EXCEPT ![p] = "out"]
    BY <1>4 DEF Gate, Goto, log
  <2>2. "out" \in Places \ Past
    BY DEF Places, Past
  <2>3. CASE Spend("mishaps") /\ pc' = [pc EXCEPT ![p] = "out"]
    BY <1>m, <2>1, <2>2, <2>3
  <2>4. CASE UNCHANGED left /\ pc' = [pc EXCEPT ![p] = IF passes THEN to ELSE "out"]
    BY <1>4, <1>q, <2>1, <2>2, <2>4
  <2> QED BY <2>1, <2>3, <2>4
<1>5. ASSUME NEW p \in Senders, Dedupe(p) PROVE Outbox!ONext \/ UNCHANGED Outbox!ovars
  BY <1>4, <1>5 DEF Dedupe, Past, Places
<1>6. ASSUME NEW p \in Senders, CheckGates(p) PROVE Outbox!ONext \/ UNCHANGED Outbox!ovars
  <2>1. CASE p \in Evals /\ Gate(p, "address", Deliverable, "claim")
    <3>1. /\ UNCHANGED <<recorded, deferred, recent, mailed>> /\ pc[p] = "address"
          /\ \/ UNCHANGED left /\ pc' = [pc EXCEPT ![p] = "claim"]
             \/ UNCHANGED left /\ pc' = [pc EXCEPT ![p] = "out"]
             \/ Spend("mishaps") /\ pc' = [pc EXCEPT ![p] = "out"]
      BY <2>1 DEF Gate, Goto, log
    <3>2. "out" \in Places \ Past /\ "address" \in Places \ Past /\ "claim" \in Places \cap Past
      BY DEF Places, Past
    <3>3. CASE UNCHANGED left /\ pc' = [pc EXCEPT ![p] = "claim"]
      <4>1. owedNow' = owedNow \cup {ReviewOf[p]} /\ troubleNow' = troubleNow
        BY <1>0, <2>1, <3>2, <3>3, Owing, Troubled
      <4> QED BY <2>1, <3>1, <4>1 DEF Outbox!ONext, Outbox!Raise
    <3> QED BY <1>m, <1>q, <3>1, <3>2, <3>3
  <2>2. CASE p \in Evals /\ Gate(p, "pref", Wanted, "address")
    BY <1>4, <2>2 DEF Past, Places
  <2>3. CASE p \notin Evals /\ Gate(p, "recipient", email, "pref")
    BY <1>4, <2>3 DEF Past, Places
  <2>4. CASE p \notin Evals /\ Gate(p, "pref", Enabled, "claim")
    BY <1>4, <2>4 DEF Past, Places
  <2> QED BY <1>6, <2>1, <2>2, <2>3, <2>4 DEF CheckGates
<1>7. ASSUME NEW p \in Senders, Claim(p) \/ ReadPending(p) \/ SendFails(p) \/ Release(p)
      PROVE  Outbox!ONext \/ UNCHANGED Outbox!ovars
  <2>1. \E place \in Places :
           /\ UNCHANGED <<recorded, deferred, recent, mailed>>
           /\ UNCHANGED left \/ Spend("mishaps")
           /\ pc' = [pc EXCEPT ![p] = place]
           /\ p \notin Evals \/ (pc[p] \in Past <=> place \in Past)
           /\ place \notin Past \/ (pc[p] \in Past <=> place \in Past)
    BY <1>7 DEF Claim, ReadPending, SendFails, Release, AfterRelease, Goto, Past, Places, log,
                Senders
  <2> QED BY <1>m, <1>q, <2>1
<1>8. ASSUME NEW p \in Senders, Defer(p) PROVE Outbox!ONext
  <2>1. p \in Evals /\ pc[p] = "defer" /\ pc' = [pc EXCEPT ![p] = "done"]
    BY <1>8 DEF Defer, Goto, Senders
  <2>2. "done" \in Places \ Past /\ "defer" \in Past
    BY DEF Places, Past
  <2>3. CASE deferred' = deferred \cup Own(p) /\ UNCHANGED left
    <3>1. Own(p) = {ReviewOf[p]} /\ ReviewOf[p] \in Reviews
      BY <2>1 DEF Own
    <3>2. /\ ReviewOf[p] \in owedNow /\ owedNow' \in {owedNow, owedNow \ {ReviewOf[p]}}
          /\ troubleNow' = troubleNow
      BY <1>0, <2>1, <2>2, <2>3, Owing, Troubled
    <3> QED BY <1>8, <2>3, <3>1, <3>2 DEF Defer, Outbox!ONext, Outbox!HoldBack
  <2>4. CASE Spend("mishaps") /\ UNCHANGED deferred
    BY <1>8, <1>m, <2>1, <2>2, <2>4 DEF Defer
  <2> QED BY <1>8, <2>3, <2>4 DEF Defer
<1>9. ASSUME NEW p \in Senders, Sent(p) PROVE Outbox!ONext
  BY <1>9, MailStep
<1>10. ASSUME NEW p \in Senders, Record(p) PROVE Outbox!ONext
  <2>1. PICK r \in Own(p) \cup rolled[p] : recorded' = recorded \cup {r}
    BY <1>10 DEF Record
  <2>2. pc[p] = "record" /\ UNCHANGED <<deferred, recent, mailed, pc, left>>
    BY <1>10 DEF Record
  <2>3. mailed[r] > 0 /\ r \in Reviews
    BY <2>1, <2>2 DEF CarriedWasMailed, Own
  <2>4. UNCHANGED <<owedNow, troubleNow>>
    BY <1>0, <2>2, Troubled DEF owedNow
  <2> QED BY <2>1, <2>2, <2>3, <2>4 DEF Outbox!ONext, Outbox!Retire
<1>11. ASSUME NEW p \in Senders, Finish(p) PROVE Outbox!ONext \/ UNCHANGED Outbox!ovars
  <2>1. /\ pc[p] = "record" /\ pc' = [pc EXCEPT ![p] = "done"]
        /\ UNCHANGED left \/ Spend("mishaps")
        /\ UNCHANGED <<recorded, deferred, recent, mailed>>
    BY <1>11 DEF Finish, Goto, log
  <2>2. "done" \in Places \ Past /\ "record" \in Past
    BY DEF Places, Past
  <2>3. CASE Spend("mishaps") \/ p \notin Evals
    BY <1>m, <1>q, <2>1, <2>2, <2>3
  <2>4. CASE UNCHANGED left /\ p \in Evals
    <3>1. mailed[ReviewOf[p]] > 0 /\ ReviewOf[p] \in Reviews
      BY <2>1, <2>4 DEF CarriedWasMailed, Own
    <3>2. /\ owedNow' \in {owedNow, owedNow \ {ReviewOf[p]}}
          /\ troubleNow' = troubleNow
      BY <1>0, <2>1, <2>2, <2>4, Owing, Troubled
    <3> QED BY <2>1, <3>1, <3>2 DEF Outbox!ONext, Outbox!Close, Outbox!ovars
  <2> QED BY <2>1, <2>3, <2>4
<1>12. ASSUME NEW p \in Senders, Die(p) PROVE Outbox!ONext
  <2>1. PICK place \in {"out", "done"} : pc' = [pc EXCEPT ![p] = place]
    BY <1>12 DEF Die, Goto
  <2>2. place \in Places \ Past
    BY DEF Places, Past
  <2> QED BY <1>12, <1>m, <2>1, <2>2 DEF Die, log
<1> QED
  BY <1>1, <1>2, <1>3, <1>5, <1>6, <1>7, <1>8, <1>9, <1>10, <1>11, <1>12 DEF Next, Deliver

\* ImplementsOutbox: the gates, claims, roll-ups and failed sends of evaluate_and_alert
\* and the sweeps are an outbox to the owner, whose mails keep to the cap and carry what
\* is owed or waits, whatever fails.
THEOREM AlertsImplementOutbox == Spec => ImplementsOutbox
<1> DEFINE AInv == /\ TypeOK /\ TokensUnique /\ ClaimsCapped /\ CarriedWasMailed
                   /\ OneHolder /\ CarriesWaiting /\ HoldsClaim
<1>1. Init => Outbox!OInit
  BY AlertsAssumption DEF Init, Outbox!OInit, owedNow, troubleNow, Undisturbed, Past, Senders
<1>2. Init => AInv
  <2>1. Init => TypeOK
    BY TypeInit
  <2>2. Init => ClaimsCapped
    BY FS_EmptySet, AlertsAssumption DEF Init, ClaimsCapped
  <2>3. Init => TokensUnique /\ CarriedWasMailed /\ CarriesWaiting /\ HoldsClaim
    BY AlertsAssumption
       DEF Init, TokensUnique, CarriedWasMailed, RecordedWasMailed, CarriesWaiting, HoldsClaim,
           Holding, Senders
  <2>4. Init => OneHolder
    BY AlertsAssumption DEF Init, OneHolder, Spent, Holding, Senders, HoldsSlot, CarriesFresh,
                            MailedIsKnown, RepeatBlocked, CarriesLate, AtMostOnce
  <2> QED BY <2>1, <2>2, <2>3, <2>4
<1>3. AInv /\ [Next]_vars => AInv'
  BY TypeStep, TokensStep, ClaimsStep, CarriedStep, OnceStep, WaitingStep, HoldsStep DEF OneHolder
<1>4. AInv /\ [Next]_vars => [Outbox!ONext]_Outbox!ovars
  BY OutboxStep
<1> QED BY <1>1, <1>2, <1>3, <1>4, PTL DEF Spec, ImplementsOutbox, Outbox!OSpec
=============================================================================
