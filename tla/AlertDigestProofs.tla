--------------------------- MODULE AlertDigestProofs ---------------------------
(***************************************************************************)
(* The digests' properties for any number of reviews and sweeps.           *)
(***************************************************************************)
EXTENDS AlertDigest, TLAPS

\* What is open now counts for every sweep under way, and what it passed was open.
GatesPassed ==
    \A p \in Sweeps :
        /\ pc[p] # "idle" => /\ Open(cadence[p], pref, email, suppressed) \subseteq opened[p]
                             /\ "cadence" \in opened[p]
        /\ pc[p] \in {"address", "send", "record"} => "email" \in opened[p]
        /\ pc[p] \in {"send", "record"} => "address" \in opened[p]

\* What has a row, or is about to get one, was mailed.
CarriedWasMailed ==
    /\ \A r \in recorded : mailed[r] > 0
    /\ \A r \in Reviews : life[r] = "sent" => mailed[r] > 0
    /\ \A p \in Sweeps : pc[p] = "record" => \A r \in events[p] : mailed[r] > 0

\* While no save and no immediate mail interferes, the watermarks pass only what was
\* mailed, and a sweep between its list and its last row has every stored review that
\* was not mailed.
Quiet == "save" \notin crossed /\ DigestOnly

ListsAll ==
    \A p \in Sweeps : \A r \in Reviews : pc[p] = "list" /\ mailed[r] = 0 => r \in rows[p]

HoldsAll ==
    \A p \in Sweeps : Holding(p) =>
        /\ ~Saving
        /\ \A r \in Stored : mailed[r] > 0 \/ r \in rows[p] \cup events[p]
        /\ pc[p] # "exclude" => rows[p] = {}
        /\ pc[p] = "record" => \A r \in Stored : mailed[r] > 0

BehindWasMailed == \A c \in Cadences : \A r \in behind[c] : mailed[r] > 0

NothingLost == Quiet => ListsAll /\ HoldsAll /\ BehindWasMailed

\* While sweeps do not overlap and nothing fails, what was mailed has a row or gets it
\* from the sweep that mailed it, and a sweep collects only what was never mailed.
Orderly == left.mishaps = Mishaps /\ "sweep" \notin crossed /\ DigestOnly

OneHolder == \A p, q \in Sweeps : Holding(p) /\ Holding(q) => p = q

MailedIsKnown ==
    \A r \in Reviews : mailed[r] > 0 =>
        r \in recorded \/ \E p \in Sweeps : pc[p] = "record" /\ r \in events[p]

CarriesFresh ==
    \A p \in Sweeps : pc[p] # "record" => \A r \in events[p] : mailed[r] = 0

StartsEmpty == \A p \in Sweeps : ~Holding(p) => events[p] = {}

AtMostOnce == \A r \in Reviews : mailed[r] <= 1

NothingTwice ==
    /\ left.mishaps <= Mishaps
    /\ StartsEmpty
    /\ Orderly => OneHolder /\ MailedIsKnown /\ CarriesFresh /\ AtMostOnce

-----------------------------------------------------------------------------
\* Types.

\* Every step keeps the types.
LEMMA TypeStep ==
    TypeOK /\ [Next]_vars => TypeOK'
<1> SUFFICES ASSUME TypeOK, [Next]_vars
             PROVE  TypeOK'
    OBVIOUS
<1> USE DigestAssumption DEF TypeOK, Places, Stages, Cadences, Gates
<1>1. CASE UNCHANGED vars
  BY <1>1 DEF vars, outbox, settings, sweep, marks
<1>2. CASE Change
  <2>1. opened' \in [Sweeps -> SUBSET Gates]
    BY <1>2 DEF Change, Open
  <2>2. /\ email' \in BOOLEAN /\ suppressed' \in BOOLEAN
        /\ pref' \in Cadences \cup {"immediate", "off"}
    BY <1>2 DEF Change
  <2>3. left' \in [mishaps : Nat, changes : Nat]
    BY <1>2 DEF Change, Spend
  <2> QED BY <1>2, <2>1, <2>2, <2>3 DEF Change, outbox
<1>3. ASSUME NEW r \in Reviews, Stamp(r) PROVE TypeOK'
  BY <1>3 DEF Stamp, Now, outbox, settings, sweep, marks
<1>4. ASSUME NEW r \in Reviews, Commit(r) PROVE TypeOK'
  BY <1>4 DEF Commit, Now, outbox, settings, sweep, marks
<1>5. ASSUME NEW r \in Reviews, Evaluate(r) PROVE TypeOK'
  BY <1>5 DEF Evaluate, Now, Urgent, outbox, settings, sweep, marks
<1>6. ASSUME NEW r \in Reviews, MailUrgent(r) PROVE TypeOK'
  BY <1>6 DEF MailUrgent, Now, Count, outbox, settings, sweep, marks
<1>7. ASSUME NEW r \in Reviews, RecordUrgent(r) PROVE TypeOK'
  BY <1>7 DEF RecordUrgent, Now, Watermark, Stamped, outbox, settings, sweep, marks
<1>8. ASSUME NEW p \in Sweeps, Start(p) PROVE TypeOK'
  BY <1>8 DEF Start, Listed, Goto, Open, outbox, settings, marks
<1>9. ASSUME NEW p \in Sweeps, CheckPref(p) PROVE TypeOK'
  BY <1>9 DEF CheckPref, Gate, Leave, Goto, Routed, outbox, settings, sweep, marks
<1>10. ASSUME NEW p \in Sweeps, ReadSince(p) PROVE TypeOK'
  BY <1>10 DEF ReadSince, Goto, outbox, settings, sweep, marks
<1>11. ASSUME NEW p \in Sweeps, List(p) PROVE TypeOK'
  BY <1>11 DEF List, Goto, outbox, settings, sweep, marks
<1>12. ASSUME NEW p \in Sweeps, Exclude(p) PROVE TypeOK'
  BY <1>12 DEF Exclude, Pending, outbox, settings, sweep, marks
<1>13. ASSUME NEW p \in Sweeps, Collected(p) PROVE TypeOK'
  BY <1>13 DEF Collected, Gate, Leave, Goto, outbox, settings, sweep, marks
<1>14. ASSUME NEW p \in Sweeps, CheckGates(p) PROVE TypeOK'
  BY <1>14 DEF CheckGates, Gate, Leave, Goto, Deliverable, outbox, settings, sweep, marks
<1>15. ASSUME NEW p \in Sweeps, Sent(p) PROVE TypeOK'
  BY <1>15 DEF Sent, Count, Goto, outbox, settings, sweep, marks
<1>16. ASSUME NEW p \in Sweeps, SendFails(p) PROVE TypeOK'
  BY <1>16 DEF SendFails, AfterFailure, Leave, Goto, outbox, settings, sweep, marks
<1>17. ASSUME NEW p \in Sweeps, Record(p) PROVE TypeOK'
  BY <1>17 DEF Record, Watermark, Stamped, outbox, settings, sweep, marks
<1>18. ASSUME NEW p \in Sweeps, Finish(p) PROVE TypeOK'
  BY <1>18 DEF Finish, Leave, Goto, outbox, settings, sweep, marks
<1>19. ASSUME NEW p \in Sweeps, Fail(p) PROVE TypeOK'
  BY <1>19 DEF Fail, Spend, Leave, Goto, outbox, settings, sweep, marks
<1> QED
  BY <1>1, <1>2, <1>3, <1>4, <1>5, <1>6, <1>7, <1>8, <1>9, <1>10, <1>11, <1>12, <1>13, <1>14, <1>15, <1>16, <1>17, <1>18, <1>19
     DEF Next, Review, Digest

\* TypeOK holds of every save, evaluation, sweep and change of settings.
THEOREM TypeCorrect == Spec => []TypeOK
<1>1. Init => TypeOK
  <2> SUFFICES ASSUME Init PROVE TypeOK
      OBVIOUS
  <2>1. left \in [mishaps : Nat, changes : Nat]
    BY DigestAssumption DEF Init
  <2>2. cadence \in [Sweeps -> Cadences] /\ behind \in [Cadences -> SUBSET Reviews]
    BY DEF Init, Cadences
  <2> QED BY <2>1, <2>2 DEF Init, TypeOK, Places, Stages, Gates
<1>2. TypeOK /\ [Next]_vars => TypeOK'
  BY TypeStep
<1> QED BY <1>1, <1>2, PTL DEF Spec

-----------------------------------------------------------------------------
\* Opting out.

\* A sweep passes a gate only while it is open.
LEMMA GatesStep ==
    TypeOK /\ GatesPassed /\ [Next]_vars => GatesPassed'
<1> SUFFICES ASSUME TypeOK, GatesPassed, [Next]_vars
             PROVE  GatesPassed'
    OBVIOUS
<1> USE DigestAssumption DEF TypeOK, GatesPassed, Places, Open, Gates
<1>1. CASE UNCHANGED vars
  BY <1>1 DEF vars, outbox, settings, sweep, marks
<1>2. CASE Change
  BY <1>2 DEF Change, Spend, outbox
<1>3. ASSUME NEW r \in Reviews, Stamp(r) PROVE GatesPassed'
  BY <1>3 DEF Stamp, Now, outbox, settings, sweep, marks
<1>4. ASSUME NEW r \in Reviews, Commit(r) PROVE GatesPassed'
  BY <1>4 DEF Commit, Now, outbox, settings, sweep, marks
<1>5. ASSUME NEW r \in Reviews, Evaluate(r) PROVE GatesPassed'
  BY <1>5 DEF Evaluate, Now, Urgent, outbox, settings, sweep, marks
<1>6. ASSUME NEW r \in Reviews, MailUrgent(r) PROVE GatesPassed'
  BY <1>6 DEF MailUrgent, Now, Count, outbox, settings, sweep, marks
<1>7. ASSUME NEW r \in Reviews, RecordUrgent(r) PROVE GatesPassed'
  BY <1>7 DEF RecordUrgent, Now, Watermark, Stamped, outbox, settings, sweep, marks
<1>8. ASSUME NEW p \in Sweeps, Start(p) PROVE GatesPassed'
  BY <1>8 DEF Start, Listed, Goto, outbox, settings, sweep, marks
<1>9. ASSUME NEW p \in Sweeps, CheckPref(p) PROVE GatesPassed'
  BY <1>9 DEF CheckPref, Gate, Leave, Goto, Routed, outbox, settings, sweep, marks
<1>10. ASSUME NEW p \in Sweeps, ReadSince(p) PROVE GatesPassed'
  BY <1>10 DEF ReadSince, Goto, outbox, settings, sweep, marks
<1>11. ASSUME NEW p \in Sweeps, List(p) PROVE GatesPassed'
  BY <1>11 DEF List, Goto, outbox, settings, sweep, marks
<1>12. ASSUME NEW p \in Sweeps, Exclude(p) PROVE GatesPassed'
  BY <1>12 DEF Exclude, Pending, outbox, settings, sweep, marks
<1>13. ASSUME NEW p \in Sweeps, Collected(p) PROVE GatesPassed'
  BY <1>13 DEF Collected, Gate, Leave, Goto, outbox, settings, sweep, marks
<1>14. ASSUME NEW p \in Sweeps, CheckGates(p) PROVE GatesPassed'
  BY <1>14 DEF CheckGates, Gate, Leave, Goto, Deliverable, outbox, settings, sweep, marks
<1>15. ASSUME NEW p \in Sweeps, Sent(p) PROVE GatesPassed'
  BY <1>15 DEF Sent, Count, Goto, outbox, settings, sweep, marks
<1>16. ASSUME NEW p \in Sweeps, SendFails(p) PROVE GatesPassed'
  BY <1>16 DEF SendFails, AfterFailure, Leave, Goto, outbox, settings, sweep, marks
<1>17. ASSUME NEW p \in Sweeps, Record(p) PROVE GatesPassed'
  BY <1>17 DEF Record, Watermark, Stamped, outbox, settings, sweep, marks
<1>18. ASSUME NEW p \in Sweeps, Finish(p) PROVE GatesPassed'
  BY <1>18 DEF Finish, Leave, Goto, outbox, settings, sweep, marks
<1>19. ASSUME NEW p \in Sweeps, Fail(p) PROVE GatesPassed'
  BY <1>19 DEF Fail, Spend, Leave, Goto, outbox, settings, sweep, marks
<1> QED
  BY <1>1, <1>2, <1>3, <1>4, <1>5, <1>6, <1>7, <1>8, <1>9, <1>10, <1>11, <1>12, <1>13, <1>14, <1>15, <1>16, <1>17, <1>18, <1>19
     DEF Next, Review, Digest

\* GatesRespected: run_digest_for_org mails only past gates that were open at some
\* time since it started, although it reads them one by one.
THEOREM OptOutRespected == Spec => []GatesRespected
<1>1. Init => GatesPassed
  BY DEF Init, GatesPassed
<1>2. TypeOK /\ GatesPassed /\ [Next]_vars => GatesPassed'
  BY GatesStep
<1>3. TypeOK /\ GatesPassed => GatesRespected
  BY DEF TypeOK, GatesPassed, GatesRespected, Gates
<1> QED BY <1>1, <1>2, <1>3, TypeCorrect, PTL DEF Spec

-----------------------------------------------------------------------------
\* Nothing is passed over.

\* A row is written only after its mail.
LEMMA CarriedStep ==
    TypeOK /\ CarriedWasMailed /\ [Next]_vars => CarriedWasMailed'
<1> SUFFICES ASSUME TypeOK, CarriedWasMailed, [Next]_vars
             PROVE  CarriedWasMailed'
    OBVIOUS
<1> USE DigestAssumption DEF TypeOK, CarriedWasMailed, Places, Stages
<1>1. CASE UNCHANGED vars
  BY <1>1 DEF vars, outbox, settings, sweep, marks
<1>2. CASE Change
  BY <1>2 DEF Change, Spend, outbox
<1>3. ASSUME NEW r \in Reviews, Stamp(r) PROVE CarriedWasMailed'
  BY <1>3 DEF Stamp, Now, outbox, settings, sweep, marks
<1>4. ASSUME NEW r \in Reviews, Commit(r) PROVE CarriedWasMailed'
  BY <1>4 DEF Commit, Now, outbox, settings, sweep, marks
<1>5. ASSUME NEW r \in Reviews, Evaluate(r) PROVE CarriedWasMailed'
  BY <1>5 DEF Evaluate, Now, Urgent, outbox, settings, sweep, marks
<1>6. ASSUME NEW r \in Reviews, MailUrgent(r) PROVE CarriedWasMailed'
  BY <1>6 DEF MailUrgent, Now, Count, outbox, settings, sweep, marks
<1>7. ASSUME NEW r \in Reviews, RecordUrgent(r) PROVE CarriedWasMailed'
  BY <1>7 DEF RecordUrgent, Now, Watermark, Stamped, outbox, settings, sweep, marks
<1>8. ASSUME NEW p \in Sweeps, Start(p) PROVE CarriedWasMailed'
  BY <1>8 DEF Start, Listed, Goto, outbox, settings, sweep, marks
<1>9. ASSUME NEW p \in Sweeps, CheckPref(p) PROVE CarriedWasMailed'
  BY <1>9 DEF CheckPref, Gate, Leave, Goto, Routed, outbox, settings, sweep, marks
<1>10. ASSUME NEW p \in Sweeps, ReadSince(p) PROVE CarriedWasMailed'
  BY <1>10 DEF ReadSince, Goto, outbox, settings, sweep, marks
<1>11. ASSUME NEW p \in Sweeps, List(p) PROVE CarriedWasMailed'
  BY <1>11 DEF List, Goto, outbox, settings, sweep, marks
<1>12. ASSUME NEW p \in Sweeps, Exclude(p) PROVE CarriedWasMailed'
  BY <1>12 DEF Exclude, Pending, outbox, settings, sweep, marks
<1>13. ASSUME NEW p \in Sweeps, Collected(p) PROVE CarriedWasMailed'
  BY <1>13 DEF Collected, Gate, Leave, Goto, outbox, settings, sweep, marks
<1>14. ASSUME NEW p \in Sweeps, CheckGates(p) PROVE CarriedWasMailed'
  BY <1>14 DEF CheckGates, Gate, Leave, Goto, Deliverable, outbox, settings, sweep, marks
<1>15. ASSUME NEW p \in Sweeps, Sent(p) PROVE CarriedWasMailed'
  BY <1>15 DEF Sent, Count, Goto, outbox, settings, sweep, marks
<1>16. ASSUME NEW p \in Sweeps, SendFails(p) PROVE CarriedWasMailed'
  BY <1>16 DEF SendFails, AfterFailure, Leave, Goto, outbox, settings, sweep, marks
<1>17. ASSUME NEW p \in Sweeps, Record(p) PROVE CarriedWasMailed'
  BY <1>17 DEF Record, Watermark, Stamped, outbox, settings, sweep, marks
<1>18. ASSUME NEW p \in Sweeps, Finish(p) PROVE CarriedWasMailed'
  BY <1>18 DEF Finish, Leave, Goto, outbox, settings, sweep, marks
<1>19. ASSUME NEW p \in Sweeps, Fail(p) PROVE CarriedWasMailed'
  BY <1>19 DEF Fail, Spend, Leave, Goto, outbox, settings, sweep, marks
<1> QED
  BY <1>1, <1>2, <1>3, <1>4, <1>5, <1>6, <1>7, <1>8, <1>9, <1>10, <1>11, <1>12, <1>13, <1>14, <1>15, <1>16, <1>17, <1>18, <1>19
     DEF Next, Review, Digest

\* A sweep keeps what it listed until it is mailed, and moves the watermark after.
LEMMA LostStep ==
    TypeOK /\ CarriedWasMailed /\ NothingLost /\ [Next]_vars => NothingLost'
<1> SUFFICES ASSUME TypeOK, CarriedWasMailed, NothingLost, [Next]_vars
             PROVE  NothingLost'
    OBVIOUS
<1> USE DigestAssumption DEF TypeOK, CarriedWasMailed, NothingLost, Quiet, DigestOnly, ListsAll, HoldsAll,
        BehindWasMailed, Holding, Saving, Stored, Places, Stages, Cadences
<1>1. CASE UNCHANGED vars
  BY <1>1 DEF vars, outbox, settings, sweep, marks
<1>2. CASE Change
  BY <1>2 DEF Change, Spend, outbox
<1>3. ASSUME NEW r \in Reviews, Stamp(r) PROVE NothingLost'
  BY <1>3 DEF Stamp, Now, outbox, settings, sweep, marks
<1>4. ASSUME NEW r \in Reviews, Commit(r) PROVE NothingLost'
  BY <1>4 DEF Commit, Now, outbox, settings, sweep, marks
<1>5. ASSUME NEW r \in Reviews, Evaluate(r) PROVE NothingLost'
  BY <1>5 DEF Evaluate, Now, Urgent, outbox, settings, sweep, marks
<1>6. ASSUME NEW r \in Reviews, MailUrgent(r) PROVE NothingLost'
  BY <1>6 DEF MailUrgent, Now, Count, outbox, settings, sweep, marks
<1>7. ASSUME NEW r \in Reviews, RecordUrgent(r) PROVE NothingLost'
  BY <1>7 DEF RecordUrgent, Now, Watermark, Stamped, outbox, settings, sweep, marks
<1>8. ASSUME NEW p \in Sweeps, Start(p) PROVE NothingLost'
  BY <1>8 DEF Start, Listed, Goto, outbox, settings, sweep, marks
<1>9. ASSUME NEW p \in Sweeps, CheckPref(p) PROVE NothingLost'
  BY <1>9 DEF CheckPref, Gate, Leave, Goto, Routed, outbox, settings, sweep, marks
<1>10. ASSUME NEW p \in Sweeps, ReadSince(p) PROVE NothingLost'
  BY <1>10 DEF ReadSince, Goto, outbox, settings, sweep, marks
<1>11. ASSUME NEW p \in Sweeps, List(p) PROVE NothingLost'
  BY <1>11 DEF List, Goto, outbox, settings, sweep, marks
<1>12. ASSUME NEW p \in Sweeps, Exclude(p) PROVE NothingLost'
  BY <1>12 DEF Exclude, Pending, outbox, settings, sweep, marks
<1>13. ASSUME NEW p \in Sweeps, Collected(p) PROVE NothingLost'
  BY <1>13 DEF Collected, Gate, Leave, Goto, outbox, settings, sweep, marks
<1>14. ASSUME NEW p \in Sweeps, CheckGates(p) PROVE NothingLost'
  BY <1>14 DEF CheckGates, Gate, Leave, Goto, Deliverable, outbox, settings, sweep, marks
<1>15. ASSUME NEW p \in Sweeps, Sent(p) PROVE NothingLost'
  BY <1>15 DEF Sent, Count, Goto, outbox, settings, sweep, marks
<1>16. ASSUME NEW p \in Sweeps, SendFails(p) PROVE NothingLost'
  BY <1>16 DEF SendFails, AfterFailure, Leave, Goto, outbox, settings, sweep, marks
<1>17. ASSUME NEW p \in Sweeps, Record(p) PROVE NothingLost'
  BY <1>17 DEF Record, Watermark, Stamped, outbox, settings, sweep, marks
<1>18. ASSUME NEW p \in Sweeps, Finish(p) PROVE NothingLost'
  BY <1>18 DEF Finish, Leave, Goto, outbox, settings, sweep, marks
<1>19. ASSUME NEW p \in Sweeps, Fail(p) PROVE NothingLost'
  BY <1>19 DEF Fail, Spend, Leave, Goto, outbox, settings, sweep, marks
<1> QED
  BY <1>1, <1>2, <1>3, <1>4, <1>5, <1>6, <1>7, <1>8, <1>9, <1>10, <1>11, <1>12, <1>13, <1>14, <1>15, <1>16, <1>17, <1>18, <1>19
     DEF Next, Review, Digest

\* NothingPassedOver: between the list and the last row of a sweep, get_last_digest_
\* watermark_pg's MAX(sent_at) passes only mailed reviews while no save overlaps it.
THEOREM NoneSkipped == Spec => []NothingPassedOver
<1>1. Init => CarriedWasMailed /\ NothingLost
  BY DEF Init, CarriedWasMailed, NothingLost, ListsAll, HoldsAll, BehindWasMailed, Holding
<1>2. TypeOK /\ CarriedWasMailed /\ [Next]_vars => CarriedWasMailed'
  BY CarriedStep
<1>3. TypeOK /\ CarriedWasMailed /\ NothingLost /\ [Next]_vars => NothingLost'
  BY LostStep
<1>4. NothingLost => NothingPassedOver
  BY DEF NothingLost, NothingPassedOver, Quiet, BehindWasMailed
<1> QED BY <1>1, <1>2, <1>3, <1>4, TypeCorrect, PTL DEF Spec

-----------------------------------------------------------------------------
\* Nothing is mailed twice.

\* A sweep alone collects only what was never mailed.
LEMMA TwiceStep ==
    TypeOK /\ NothingTwice /\ [Next]_vars => NothingTwice'
<1> SUFFICES ASSUME TypeOK, NothingTwice, [Next]_vars
             PROVE  NothingTwice'
    OBVIOUS
<1> USE DigestAssumption DEF TypeOK, NothingTwice, Orderly, DigestOnly, OneHolder, MailedIsKnown,
        CarriesFresh, StartsEmpty, AtMostOnce, Holding, Places, Stages
<1>1. CASE UNCHANGED vars
  BY <1>1 DEF vars, outbox, settings, sweep, marks
<1>2. CASE Change
  BY <1>2 DEF Change, Spend, outbox
<1>3. ASSUME NEW r \in Reviews, Stamp(r) PROVE NothingTwice'
  BY <1>3 DEF Stamp, Now, outbox, settings, sweep, marks
<1>4. ASSUME NEW r \in Reviews, Commit(r) PROVE NothingTwice'
  BY <1>4 DEF Commit, Now, outbox, settings, sweep, marks
<1>5. ASSUME NEW r \in Reviews, Evaluate(r) PROVE NothingTwice'
  BY <1>5 DEF Evaluate, Now, Urgent, outbox, settings, sweep, marks
<1>6. ASSUME NEW r \in Reviews, MailUrgent(r) PROVE NothingTwice'
  BY <1>6 DEF MailUrgent, Now, Count, outbox, settings, sweep, marks
<1>7. ASSUME NEW r \in Reviews, RecordUrgent(r) PROVE NothingTwice'
  BY <1>7 DEF RecordUrgent, Now, Watermark, Stamped, outbox, settings, sweep, marks
<1>8. ASSUME NEW p \in Sweeps, Start(p) PROVE NothingTwice'
  BY <1>8 DEF Start, Listed, Goto, outbox, settings, sweep, marks
<1>9. ASSUME NEW p \in Sweeps, CheckPref(p) PROVE NothingTwice'
  BY <1>9 DEF CheckPref, Gate, Leave, Goto, Routed, outbox, settings, sweep, marks
<1>10. ASSUME NEW p \in Sweeps, ReadSince(p) PROVE NothingTwice'
  BY <1>10 DEF ReadSince, Goto, outbox, settings, sweep, marks
<1>11. ASSUME NEW p \in Sweeps, List(p) PROVE NothingTwice'
  BY <1>11 DEF List, Goto, outbox, settings, sweep, marks
<1>12. ASSUME NEW p \in Sweeps, Exclude(p) PROVE NothingTwice'
  BY <1>12 DEF Exclude, Pending, outbox, settings, sweep, marks
<1>13. ASSUME NEW p \in Sweeps, Collected(p) PROVE NothingTwice'
  BY <1>13 DEF Collected, Gate, Leave, Goto, outbox, settings, sweep, marks
<1>14. ASSUME NEW p \in Sweeps, CheckGates(p) PROVE NothingTwice'
  BY <1>14 DEF CheckGates, Gate, Leave, Goto, Deliverable, outbox, settings, sweep, marks
<1>15. ASSUME NEW p \in Sweeps, Sent(p) PROVE NothingTwice'
  BY <1>15 DEF Sent, Count, Goto, outbox, settings, sweep, marks
<1>16. ASSUME NEW p \in Sweeps, SendFails(p) PROVE NothingTwice'
  BY <1>16 DEF SendFails, AfterFailure, Leave, Goto, outbox, settings, sweep, marks
<1>17. ASSUME NEW p \in Sweeps, Record(p) PROVE NothingTwice'
  BY <1>17 DEF Record, Watermark, Stamped, outbox, settings, sweep, marks
<1>18. ASSUME NEW p \in Sweeps, Finish(p) PROVE NothingTwice'
  BY <1>18 DEF Finish, Leave, Goto, outbox, settings, sweep, marks
<1>19. ASSUME NEW p \in Sweeps, Fail(p) PROVE NothingTwice'
  BY <1>19 DEF Fail, Spend, Leave, Goto, outbox, settings, sweep, marks
<1> QED
  BY <1>1, <1>2, <1>3, <1>4, <1>5, <1>6, <1>7, <1>8, <1>9, <1>10, <1>11, <1>12, <1>13, <1>14, <1>15, <1>16, <1>17, <1>18, <1>19
     DEF Next, Review, Digest

\* MailedOnce: sweeps of both cadences that do not overlap mail a review once, although
\* the weekly watermark ignores the daily rows.
THEOREM NoneTwice == Spec => []MailedOnce
<1>1. Init => NothingTwice
  BY DigestAssumption DEF Init, NothingTwice, OneHolder, MailedIsKnown, CarriesFresh, StartsEmpty,
                          AtMostOnce, Holding
<1>2. TypeOK /\ NothingTwice /\ [Next]_vars => NothingTwice'
  BY TwiceStep
<1>3. NothingTwice => MailedOnce
  BY DEF NothingTwice, MailedOnce, Orderly, AtMostOnce
<1> QED BY <1>1, <1>2, <1>3, TypeCorrect, PTL DEF Spec
=============================================================================
