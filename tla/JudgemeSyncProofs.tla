------------------------- MODULE JudgemeSyncProofs -------------------------
(***************************************************************************)
(* What a sync may take away and what it keeps, for lists, pages, caps and *)
(* strike limits of any size.                                              *)
(***************************************************************************)
EXTENDS JudgemeSync, FiniteSetTheorems, TLAPS

Rows == [content : Contents \cup {Nothing}, active : BOOLEAN, strikes : 0..StrikesMass - 1]

\* What is tracked has been published, and only what is tracked has strikes.
RowInv ==
    /\ \A r \in Reviews : ~row[r].active => row[r].strikes = 0
    /\ \A r \in Reviews : row[r].active => row[r].content \in Contents /\ body[r] # Nothing
    /\ \A r \in Reviews : items[r] # Nothing => body[r] # Nothing
    /\ \A r \in Reviews : at[r] > 0 => body[r] # Nothing

Executing == {"stage", "purge", "save"}

\* A scan in a calm time has seen all that is behind it, and at the end all there is.
ScanInv ==
    /\ pc = "idle" => read = 0
    /\ pc = "scan" /\ calm => \A r \in Reviews : 0 < at[r] /\ at[r] <= read => items[r] # Nothing
    /\ pc \in Executing /\ complete /\ calm =>
          \A r \in Reviews : at[r] > 0 /\ row[r].active => items[r] # Nothing

-----------------------------------------------------------------------------
\* The plan.

\* Rows that a plan writes are rows again, with fewer strikes than retire a review.
LEMMA PlanRows ==
    ASSUME TypeOK, RowInv, NEW r \in Reviews
    PROVE  /\ NewRow(r) \in Rows
           /\ ~NewRow(r).active => NewRow(r).strikes = 0
           /\ NewRow(r).active => NewRow(r).content \in Contents /\ body[r] # Nothing
<1> USE JudgemeAssumption DEF TypeOK, RowInv, Rows
<1>1. row[r] \in Rows /\ items[r] \in Contents \cup {Hidden, Nothing}
  OBVIOUS
<1>2. r \in Taken => items[r] \in Contents
  BY <1>1 DEF Taken, Staged, NeedStaging, Changed, Shown, Found
<1>3. NewStrikes(r) \in 0..StrikesMass - 1
  <2>1. CASE r \in Missing \ Absent
    <3>1. row[r].strikes + 1 < Needed /\ Needed \in Nat /\ Needed <= StrikesMass
      BY <1>1, <2>1 DEF Absent, Needed
    <3> QED BY <1>1, <2>1, <3>1 DEF NewStrikes
  <2>2. CASE r \notin Missing \ Absent
    BY <1>1, <2>2 DEF NewStrikes
  <2> QED BY <2>1, <2>2
<1>4. Active(r) \in BOOLEAN /\ row[r].content \in Contents \cup {Nothing}
  BY <1>1 DEF Active
<1>5. NewRow(r) \in Rows
  BY <1>2, <1>3, <1>4 DEF NewRow
<1>6. ASSUME ~NewRow(r).active PROVE NewRow(r).strikes = 0
  <2>1. r \notin Taken /\ (~Active(r) \/ r \in Unpublished \cup Absent)
    BY <1>6 DEF NewRow
  <2>2. CASE Active(r)
    BY <2>1, <2>2 DEF NewRow, NewStrikes, Reset, Unpublished, Missing
  <2>3. CASE ~Active(r)
    BY <2>3 DEF NewRow, NewStrikes, Reset, Missing, Tracked, Active
  <2> QED BY <2>2, <2>3
<1>7. ASSUME NewRow(r).active PROVE NewRow(r).content \in Contents /\ body[r] # Nothing
  <2>1. CASE r \in Taken
    BY <1>2, <2>1 DEF NewRow, Taken, Staged, NeedStaging, Changed, Shown, Found
  <2>2. CASE r \notin Taken
    BY <1>7, <2>2 DEF NewRow, Active
  <2> QED BY <2>1, <2>2
<1> QED BY <1>5, <1>6, <1>7

\* A plan stages and purges the texts of contents that were published.
LEMMA PlanTexts ==
    ASSUME TypeOK, RowInv
    PROVE  /\ ToPurge \subseteq Texts /\ StagedTexts \subseteq Texts
           /\ \A r \in Staged : r \in Reviews /\ items[r] \in Contents
<1> USE JudgemeAssumption DEF TypeOK, RowInv
<1>1. \A r \in Staged : r \in Reviews /\ items[r] \in Contents
  BY DEF Staged, NeedStaging, Changed, Shown, Found
<1>2. \A r \in Unpublished \cup Absent \cup {q \in Staged : Active(q)} :
          r \in Reviews /\ row[r].content \in Contents
  BY <1>1 DEF Unpublished, Absent, Missing, Tracked, Active, Shown, Found
<1> QED BY <1>1, <1>2 DEF ToPurge, Superseded, StagedTexts, RowText

\* The rows staged for a text are counted.
LEMMA StageCount ==
    ASSUME NEW t \in Texts
    PROVE  LET S == {r \in Staged : TextOf[items[r]] = t}
           IN  Cardinality(S) \in Nat /\ (Cardinality(S) > 0 <=> S # {})
<1> DEFINE S == {r \in Staged : TextOf[items[r]] = t}
<1>1. IsFiniteSet(S)
  <2>1. IsFiniteSet(Reviews)
    BY FS_Interval, JudgemeAssumption DEF Reviews
  <2>2. S \subseteq Reviews
    BY DEF Staged, NeedStaging, Changed, Shown, Found
  <2> QED BY <2>1, <2>2, FS_Subset
<1> QED BY <1>1, FS_CardinalityType, FS_EmptySet

-----------------------------------------------------------------------------
\* Types, rows and scans.

\* The first state of a connected shop.
LEMMA SyncInit == Init => TypeOK /\ RowInv /\ ScanInv /\ StrikesEarned
<1> SUFFICES ASSUME Init PROVE TypeOK /\ RowInv /\ ScanInv /\ StrikesEarned
    OBVIOUS
<1> USE JudgemeAssumption DEF Init, NoRow, NoItems
<1>1. NoRow \in Rows
  BY DEF Rows
<1>2. at \in [Reviews -> Nat]
  BY DEF Reviews
<1>3. row \in [Reviews -> Rows] /\ items \in [Reviews -> {Nothing}]
  BY <1>1
<1>4. 0 \in 0..StrikesMass
  OBVIOUS
<1>5. TypeOK
  BY <1>2, <1>3, <1>4 DEF TypeOK, Rows
<1>6. RowInv
  BY DEF RowInv, Reviews
<1> QED BY <1>2, <1>5, <1>6 DEF ScanInv, Executing, StrikesEarned, Listed, Reviews

\* Every step keeps the types.
LEMMA TypeStep == TypeOK /\ RowInv /\ [Next]_vars => TypeOK'
<1> SUFFICES ASSUME TypeOK, RowInv, [Next]_vars PROVE TypeOK'
    OBVIOUS
<1> USE JudgemeAssumption DEF source, store, scan, ghosts, TypeOK
<1>1. CASE UNCHANGED vars
  BY <1>1 DEF vars
<1>2. ASSUME NEW r \in Reviews, NEW c \in Contents, Publish(r, c) PROVE TypeOK'
  <2>1. at' \in [Reviews -> Nat]
    BY <1>2 DEF Publish, ToHead
  <2>2. calm' \in BOOLEAN
    BY <1>2 DEF Publish, Disturb
  <2>3. left' \in Nat
    BY <1>2 DEF Publish, Disturb, Mishap
  <2>4. body' \in [Reviews -> Contents \cup {Hidden, Nothing}]
    BY <1>2 DEF Publish
  <2>5. UNCHANGED <<store, pc, scan, scanned, limit, rough, lost, unkept, stray>>
    BY <1>2 DEF Publish, Disturb
  <2> QED BY <2>1, <2>2, <2>3, <2>4, <2>5
<1>3. ASSUME NEW r \in Reviews, NEW c \in Contents \cup {Hidden}, Edit(r, c) PROVE TypeOK'
  <2>1. at' \in [Reviews -> Nat]
    BY <1>3 DEF Edit, ToHead
  <2>2. calm' \in BOOLEAN
    BY <1>3 DEF Edit, Disturb
  <2>3. left' \in Nat
    BY <1>3 DEF Edit, Disturb, Mishap
  <2>4. body' \in [Reviews -> Contents \cup {Hidden, Nothing}]
    BY <1>3 DEF Edit
  <2>5. UNCHANGED <<store, pc, scan, scanned, limit, rough, lost, unkept, stray>>
    BY <1>3 DEF Edit, Disturb
  <2> QED BY <2>1, <2>2, <2>3, <2>4, <2>5
<1>4. ASSUME NEW r \in Reviews, Unlist(r) PROVE TypeOK'
  <2>1. at' \in [Reviews -> Nat]
    BY <1>4 DEF Unlist, Listed
  <2>2. calm' \in BOOLEAN
    BY <1>4 DEF Unlist, Disturb
  <2> QED BY <1>4, <2>1, <2>2 DEF Unlist, Disturb, Mishap
<1>5. CASE Start
  BY <1>5 DEF Start
<1>6. CASE FetchPage
  <2>1. complete' \in BOOLEAN
    BY <1>6, Zenon DEF FetchPage
  <2>2. pc' \in {"scan", "stage"} /\ UNCHANGED <<left, calm>>
    BY <1>6 DEF FetchPage, Absorb
  <2> QED BY <1>6, <2>1, <2>2 DEF FetchPage, Absorb
<1>7. CASE FetchLast
  <2>1. items' \in [Reviews -> Contents \cup {Hidden, Nothing}] /\ read' \in Nat
    BY <1>7 DEF FetchLast, Absorb, Page
  <2>2. complete' = FALSE /\ pc' = "stage" /\ UNCHANGED <<left, calm>>
    BY <1>7 DEF FetchLast
  <2>3. UNCHANGED <<source, store, full, scanned, limit, rough, lost, unkept, stray>>
    BY <1>7 DEF FetchLast, Absorb
  <2> QED BY <2>1, <2>2, <2>3
<1>8. CASE FetchEmpty
  <2>1. complete' \in BOOLEAN /\ calm' \in BOOLEAN
    BY <1>8, Zenon DEF FetchEmpty
  <2> QED BY <1>8, <2>1 DEF FetchEmpty, Absorb, Mishap
<1>9. CASE Stage
  <2>1. queued' \in [Texts -> Nat]
    BY <1>9, StageCount DEF Stage
  <2> QED BY <1>9, <2>1 DEF Stage
<1>10. CASE Purge
  BY <1>10 DEF Purge, Queued
<1>11. CASE Save
  <2>1. row' \in [Reviews -> Rows]
    BY <1>11, PlanRows DEF Save
  <2>2. items' \in [Reviews -> {Nothing}]
    BY <1>11 DEF Save, EndRun, NoItems
  <2>3. scanned' \in BOOLEAN
    BY <1>11, Zenon DEF Save
  <2>4. rough' \in 0..StrikesMass
    BY <1>11 DEF Save
  <2> QED BY <1>11, <2>1, <2>2, <2>3, <2>4 DEF Save, EndRun, Rows
<1>12. CASE Abort
  <2>1. items' \in [Reviews -> {Nothing}]
    BY <1>12 DEF Abort, EndRun, NoItems
  <2>3. left' \in Nat
    BY <1>12 DEF Abort, Mishap
  <2>4. /\ pc' = "idle" /\ full' = TRUE /\ read' = 0 /\ complete' = FALSE /\ calm' = FALSE
        /\ UNCHANGED <<source, store, scanned, limit, rough, unkept>>
    BY <1>12 DEF Abort, EndRun
  <2> QED BY <1>12, <2>1, <2>3, <2>4 DEF Abort
<1>13. CASE Die
  <2>1. ToPurge \subseteq Texts /\ StagedTexts \subseteq Texts
    BY PlanTexts
  <2>2. items' \in [Reviews -> {Nothing}]
    BY <1>13 DEF Die, EndRun, NoItems
  <2>3. left' \in Nat
    BY <1>13 DEF Die, Mishap
  <2>4. /\ pc' = "idle" /\ full' = TRUE /\ read' = 0 /\ complete' = FALSE /\ calm' = FALSE
        /\ UNCHANGED <<source, store, scanned, limit, rough, unkept>>
    BY <1>13 DEF Die, EndRun
  <2>5. lost' \subseteq Texts /\ stray' \subseteq Texts
    BY <1>13, <2>1 DEF Die
  <2> QED BY <2>2, <2>3, <2>4, <2>5
<1>14. ASSUME NEW t \in Texts, Extract(t) PROVE TypeOK'
  BY <1>14 DEF Extract, Mishap
<1>15. ASSUME NEW t \in Texts, Expire(t) PROVE TypeOK'
  BY <1>15 DEF Expire, Mishap
<1> QED BY ONLY [Next]_vars, <1>1, <1>2, <1>3, <1>4, <1>5, <1>6, <1>7, <1>8, <1>9, <1>10, <1>11, <1>12, <1>13, <1>14, <1>15 DEF Next, Run

\* What is stored about a review follows its publication.
LEMMA RowStep == TypeOK /\ RowInv /\ [Next]_vars => RowInv'
<1> SUFFICES ASSUME TypeOK, RowInv, [Next]_vars PROVE RowInv'
    OBVIOUS
<1> USE JudgemeAssumption DEF source, store, scan, ghosts, TypeOK, RowInv
<1>1. CASE UNCHANGED vars
  BY <1>1 DEF vars
<1>2. ASSUME NEW r \in Reviews, NEW c \in Contents, Publish(r, c) PROVE RowInv'
  BY <1>2 DEF Publish, ToHead, Disturb, Mishap
<1>3. ASSUME NEW r \in Reviews, NEW c \in Contents \cup {Hidden}, Edit(r, c) PROVE RowInv'
  BY <1>3 DEF Edit, ToHead, Disturb, Mishap, Listed
<1>4. ASSUME NEW r \in Reviews, Unlist(r) PROVE RowInv'
  BY <1>4 DEF Unlist, Disturb, Mishap, Listed
<1>5. CASE Start
  BY <1>5 DEF Start
<1>6. CASE FetchPage
  BY <1>6 DEF FetchPage, Absorb, Page, MayEnd, MustEnd
<1>7. CASE FetchLast
  BY <1>7 DEF FetchLast, Absorb, Page
<1>8. CASE FetchEmpty
  BY <1>8 DEF FetchEmpty, Absorb, Mishap
<1>9. CASE Stage
  BY <1>9 DEF Stage
<1>10. CASE Purge
  BY <1>10 DEF Purge
<1>11. CASE Save
  BY <1>11, PlanRows DEF Save, EndRun, NoItems
<1>12. CASE Abort
  BY <1>12 DEF Abort, EndRun, NoItems
<1>13. CASE Die
  BY <1>13 DEF Die, EndRun, NoItems
<1>14. ASSUME NEW t \in Texts, Extract(t) PROVE RowInv'
  BY <1>14 DEF Extract, Mishap
<1>15. ASSUME NEW t \in Texts, Expire(t) PROVE RowInv'
  BY <1>15 DEF Expire, Mishap
<1> QED BY ONLY [Next]_vars, <1>1, <1>2, <1>3, <1>4, <1>5, <1>6, <1>7, <1>8, <1>9, <1>10, <1>11, <1>12, <1>13, <1>14, <1>15 DEF Next, Run

\* A scan passes over a review only while the list changes.
LEMMA ScanStep == TypeOK /\ RowInv /\ ScanInv /\ [Next]_vars => ScanInv'
<1> SUFFICES ASSUME TypeOK, RowInv, ScanInv, [Next]_vars PROVE ScanInv'
    OBVIOUS
<1> USE JudgemeAssumption DEF source, store, scan, ghosts, TypeOK, RowInv, ScanInv, Executing
<1>1. CASE UNCHANGED vars
  BY <1>1 DEF vars
<1>2. ASSUME NEW r \in Reviews, NEW c \in Contents, Publish(r, c) PROVE ScanInv'
  BY <1>2 DEF Publish, ToHead, Disturb, Mishap
<1>3. ASSUME NEW r \in Reviews, NEW c \in Contents \cup {Hidden}, Edit(r, c) PROVE ScanInv'
  BY <1>3 DEF Edit, ToHead, Disturb, Mishap, Listed
<1>4. ASSUME NEW r \in Reviews, Unlist(r) PROVE ScanInv'
  <2>1. \A s \in Reviews : at'[s] > 0 => at[s] > 0
    BY <1>4 DEF Unlist, Listed
  <2>2. pc' = pc /\ (pc = "scan" => ~calm') /\ (calm' => calm)
    BY <1>4 DEF Unlist, Disturb
  <2>3. UNCHANGED <<body, row, read, items, complete>>
    BY <1>4 DEF Unlist, Disturb
  <2> QED BY <2>1, <2>2, <2>3
<1>5. CASE Start
  BY <1>5 DEF Start
<1>6. CASE FetchPage
  BY <1>6 DEF FetchPage, Absorb, Page, MayEnd, MustEnd
<1>7. CASE FetchLast
  BY <1>7 DEF FetchLast, Absorb, Page
<1>8. CASE FetchEmpty
  BY <1>8 DEF FetchEmpty, Absorb, Mishap
<1>9. CASE Stage
  BY <1>9 DEF Stage
<1>10. CASE Purge
  BY <1>10 DEF Purge
<1>11. CASE Save
  BY <1>11 DEF Save, EndRun
<1>12. CASE Abort
  BY <1>12 DEF Abort, EndRun, Mishap
<1>13. CASE Die
  BY <1>13 DEF Die, EndRun, Mishap
<1>14. ASSUME NEW t \in Texts, Extract(t) PROVE ScanInv'
  BY <1>14 DEF Extract, Mishap
<1>15. ASSUME NEW t \in Texts, Expire(t) PROVE ScanInv'
  BY <1>15 DEF Expire, Mishap
<1> QED BY ONLY [Next]_vars, <1>1, <1>2, <1>3, <1>4, <1>5, <1>6, <1>7, <1>8, <1>9, <1>10, <1>11, <1>12, <1>13, <1>14, <1>15 DEF Next, Run

-----------------------------------------------------------------------------
\* Strikes.

\* The strikes that a plan leaves on a review that is still listed.
LEMMA PlanStrikes ==
    ASSUME TypeOK, RowInv, ScanInv, StrikesEarned, Save
    PROVE  \A r \in Listed : NewRow(r).strikes <= rough'
<1> SUFFICES ASSUME NEW r \in Listed PROVE NewRow(r).strikes <= rough'
    OBVIOUS
<1> USE JudgemeAssumption DEF TypeOK
<1>1. r \in Reviews /\ row[r] \in Rows /\ row[r].strikes <= rough /\ rough \in 0..StrikesMass
  BY DEF Listed, StrikesEarned, Rows
<1>2. CASE r \in Missing
  <2>1. complete /\ ~calm
    BY <1>1, <1>2 DEF Missing, Tracked, Active, Found, ScanInv, Executing, Listed, Save
  <2>2. rough' = IF rough < StrikesMass THEN rough + 1 ELSE rough
    BY <2>1 DEF Save
  <2>3. NewRow(r).strikes \in 0..row[r].strikes + 1
    BY <1>1 DEF NewRow, NewStrikes, Reset, Rows
  <2> QED BY <1>1, <2>2, <2>3 DEF Rows, PlanRows
<1>3. CASE r \notin Missing
  <2>1. NewRow(r).strikes \in {0, row[r].strikes}
    BY <1>1, <1>3 DEF NewRow, NewStrikes, Reset, Rows
  <2>2. CASE rough' \in Int /\ rough' >= rough
    BY <1>1, <2>1, <2>2 DEF Rows
  <2>3. CASE complete /\ calm /\ Deferred = {}
    <3>1. CASE ~row[r].active
      BY <1>1, <2>1, <2>3, <3>1 DEF RowInv, Save
    <3>2. CASE row[r].active
      <4>1. r \in Found
        BY <1>1, <2>3, <3>2 DEF ScanInv, Executing, Listed, Save, Found
      <4>2. r \in Unpublished \cup Unchanged \cup Changed
        BY <1>1, <3>2, <4>1 DEF Unpublished, Unchanged, Changed, Shown, Active, NoRow
      <4>3. r \in Changed => r \in Taken
        BY <2>3 DEF Taken, Deferred, NeedStaging
      <4>4. NewRow(r).strikes = 0
        BY <1>1, <1>3, <4>2, <4>3 DEF NewRow, NewStrikes, Reset, Rows
      <4> QED BY <2>3, <4>4 DEF Save
    <3> QED BY <3>1, <3>2
  <2> QED BY <1>1, <2>2, <2>3 DEF Save
<1> QED BY <1>2, <1>3

\* Nothing but a saved plan gives a strike, and no step lists a review again.
LEMMA StrikesStep ==
    TypeOK /\ RowInv /\ ScanInv /\ StrikesEarned /\ [Next]_vars => StrikesEarned'
<1> SUFFICES ASSUME TypeOK, RowInv, ScanInv, StrikesEarned, [Next]_vars PROVE StrikesEarned'
    OBVIOUS
<1> USE JudgemeAssumption DEF source, store, scan, ghosts, TypeOK, RowInv, StrikesEarned, Listed
<1>1. CASE UNCHANGED vars
  BY <1>1 DEF vars
<1>2. ASSUME NEW r \in Reviews, NEW c \in Contents, Publish(r, c) PROVE StrikesEarned'
  BY <1>2 DEF Publish, ToHead, Disturb, Mishap
<1>3. ASSUME NEW r \in Reviews, NEW c \in Contents \cup {Hidden}, Edit(r, c) PROVE StrikesEarned'
  BY <1>3 DEF Edit, ToHead, Disturb, Mishap, Listed
<1>4. ASSUME NEW r \in Reviews, Unlist(r) PROVE StrikesEarned'
  BY <1>4 DEF Unlist, Disturb, Mishap, Listed
<1>5. CASE Start
  BY <1>5 DEF Start
<1>6. CASE FetchPage
  BY <1>6 DEF FetchPage, Absorb, Page, MayEnd, MustEnd
<1>7. CASE FetchLast
  BY <1>7 DEF FetchLast, Absorb, Page
<1>8. CASE FetchEmpty
  BY <1>8 DEF FetchEmpty, Absorb, Mishap
<1>9. CASE Stage
  BY <1>9 DEF Stage
<1>10. CASE Purge
  BY <1>10 DEF Purge
<1>11. CASE Save
  BY <1>11, PlanStrikes DEF Save
<1>12. CASE Abort
  BY <1>12 DEF Abort, EndRun, Mishap
<1>13. CASE Die
  BY <1>13 DEF Die, EndRun, Mishap
<1>14. ASSUME NEW t \in Texts, Extract(t) PROVE StrikesEarned'
  BY <1>14 DEF Extract, Mishap
<1>15. ASSUME NEW t \in Texts, Expire(t) PROVE StrikesEarned'
  BY <1>15 DEF Expire, Mishap
<1> QED BY ONLY [Next]_vars, <1>1, <1>2, <1>3, <1>4, <1>5, <1>6, <1>7, <1>8, <1>9, <1>10, <1>11, <1>12, <1>13, <1>14, <1>15 DEF Next, Run

SyncInv == TypeOK /\ RowInv /\ ScanInv /\ StrikesEarned

\* All of it is invariant.
LEMMA SyncInvariant == Spec => []SyncInv
<1>1. Init => SyncInv
  BY SyncInit DEF SyncInv
<1>2. SyncInv /\ [Next]_vars => SyncInv'
  BY TypeStep, RowStep, ScanStep, StrikesStep DEF SyncInv
<1> QED BY <1>1, <1>2, PTL DEF Spec

\* The variables keep their types; no row ever has the strikes that retire it.
THEOREM TypeCorrect == Spec => []TypeOK
<1>1. SyncInv => TypeOK
  BY DEF SyncInv
<1> QED BY <1>1, SyncInvariant, PTL

\* Whatever the page size and the limits, a listed review has a strike only for a
\* scan that the source disturbed, and the strikes do not outlast a calm one.
THEOREM StrikesAreEarned == Spec => []StrikesEarned
<1>1. SyncInv => StrikesEarned
  BY DEF SyncInv
<1> QED BY <1>1, SyncInvariant, PTL

\* A review that is still listed is retired by a saved plan only, which found it missing.
LEMMA RetireStep ==
    SyncInv /\ [Next]_vars =>
        [\A r \in Listed :
            Active(r) /\ ~row'[r].active /\ items[r] # Hidden => rough' >= Strikes]_vars
<1> SUFFICES ASSUME SyncInv, Next,
                    NEW r \in Listed, Active(r), ~row'[r].active, items[r] # Hidden
             PROVE  rough' >= Strikes
    OBVIOUS
<1> USE JudgemeAssumption DEF SyncInv, TypeOK
<1>1. Save
  <2>1. row' # row
    BY DEF Active
  <2> QED BY <2>1 DEF Next, Run, Publish, Edit, Unlist, Disturb, Start, FetchPage, FetchLast,
             FetchEmpty, Absorb, Stage, Purge, Abort, Die, Extract, Expire, store
<1>2. r \in Reviews /\ row[r] \in Rows /\ row[r].strikes <= rough /\ rough \in 0..StrikesMass
  BY DEF Listed, StrikesEarned, Rows
<1>3. row'[r] = NewRow(r)
  BY <1>1, <1>2 DEF Save
<1>4. r \in Absent
  BY <1>2, <1>3 DEF NewRow, Active, Unpublished, Shown, Found
<1>5. complete /\ ~calm
  BY <1>1, <1>2, <1>4 DEF Absent, Missing, Tracked, Active, Found, ScanInv, Executing, Listed, Save
<1>6. rough' = IF rough < StrikesMass THEN rough + 1 ELSE rough
  BY <1>1, <1>5 DEF Save
<1>7. row[r].strikes + 1 >= Strikes
  BY <1>2, <1>4 DEF Absent, Needed, Rows
<1> QED BY <1>2, <1>6, <1>7 DEF Rows

\* No listed review goes for fewer disturbed scans than the configured strikes.
THEOREM FairRetirement == Spec => RetiredFairly
<1> QED BY RetireStep, SyncInvariant, PTL DEF Spec, RetiredFairly
-----------------------------------------------------------------------------
\* What a sync keeps.

\* The plan is a function of the scan and the stored rows.
LEMMA PlanStays ==
    ASSUME UNCHANGED <<row, items, complete>>
    PROVE  UNCHANGED <<Tracked, StagedTexts, Referenced, ToPurge>>
<1>1. UNCHANGED <<Found, Shown, Tracked, Mass, Needed, Missing>>
  BY DEF Found, Shown, Tracked, Active, Mass, Needed, Missing
<1>2. UNCHANGED <<Unpublished, Unchanged, Absent>>
  BY <1>1 DEF Unpublished, Unchanged, Absent, Active
<1>3. UNCHANGED Changed
  BY <1>1, <1>2 DEF Changed
<1>4. UNCHANGED <<NeedStaging, {r \in Changed : SameText(r)}>>
  BY <1>3 DEF NeedStaging, SameText, Active
<1>5. UNCHANGED <<Staged, Taken>>
  BY <1>4 DEF Staged, Taken
<1>6. UNCHANGED <<StagedTexts, Superseded>>
  BY <1>2, <1>5 DEF StagedTexts, Superseded, RowText, Active
<1>7. UNCHANGED Reset
  BY <1>2, <1>5 DEF Reset
<1>8. \A r \in Reviews : UNCHANGED NewRow(r)
  BY <1>1, <1>2, <1>5, <1>7 DEF NewRow, NewStrikes, Active
<1>9. UNCHANGED Referenced
  BY <1>8 DEF Referenced, RowText
<1> QED BY <1>1, <1>6, <1>9 DEF ToPurge

TrackedTexts == {RowText(row[r]) : r \in Tracked}

\* A plan refers to what it stages and to texts of tracked reviews, and purges what it no
\* longer refers to.
LEMMA PlanSplits ==
    ASSUME TypeOK, RowInv
    PROVE  /\ StagedTexts \subseteq Referenced
           /\ Referenced \subseteq TrackedTexts \cup StagedTexts
           /\ TrackedTexts \subseteq Referenced \cup ToPurge
<1>1. Staged \subseteq Taken /\ Taken \subseteq Reviews
  BY DEF Staged, Taken, NeedStaging, Changed, Shown, Found
<1>2. \A r \in Taken : NewRow(r).active /\ NewRow(r).content = items[r]
  BY DEF NewRow
<1>3. \A r \in Reviews \ Taken : NewRow(r).content = row[r].content /\ (NewRow(r).active => Active(r))
  BY DEF NewRow
<1>4. StagedTexts \subseteq Referenced
  BY <1>1, <1>2 DEF StagedTexts, Referenced, RowText
<1>5. ASSUME NEW r \in Taken \ Staged PROVE Active(r) /\ TextOf[row[r].content] = TextOf[items[r]]
  BY <1>5 DEF Taken, SameText
<1>6. Referenced \subseteq TrackedTexts \cup StagedTexts
  <2>1. SUFFICES ASSUME NEW r \in Reviews, NewRow(r).active
                 PROVE  RowText(NewRow(r)) \in TrackedTexts \cup StagedTexts
      BY DEF Referenced
  <2>2. CASE r \in Staged
    BY <1>1, <1>2, <2>2 DEF StagedTexts, RowText
  <2>3. CASE r \in Taken \ Staged
    BY <1>2, <1>5, <2>3 DEF TrackedTexts, Tracked, RowText
  <2>4. CASE r \notin Taken
    BY <1>3, <2>1, <2>4 DEF TrackedTexts, Tracked, RowText
  <2> QED BY <1>1, <2>2, <2>3, <2>4
<1>7. TrackedTexts \subseteq Referenced \cup ToPurge
  <2>1. SUFFICES ASSUME NEW r \in Reviews, Active(r), RowText(row[r]) \notin ToPurge
                 PROVE  RowText(row[r]) \in Referenced
      BY DEF TrackedTexts, Tracked
  <2>2. CASE r \in Unpublished \cup Absent \cup {s \in Staged : Active(s)}
    BY <2>1, <2>2 DEF ToPurge, Superseded
  <2>3. CASE r \in Taken \ Staged
    BY <1>2, <1>5, <2>3 DEF Referenced, RowText
  <2>4. CASE r \notin Taken /\ r \notin Unpublished \cup Absent
    <3>1. NewRow(r).active /\ NewRow(r).content = row[r].content
      BY <2>1, <2>4 DEF NewRow
    <3> QED BY <3>1 DEF Referenced, RowText
  <2> QED BY <2>1, <2>2, <2>3, <2>4
<1> QED BY <1>4, <1>6, <1>7

\* What is extracted or will be, and what a run took and did not tell.
Kept == extracted \cup Queued \cup lost \cup unkept

KeepInv ==
    /\ pc # "save" => TrackedTexts \subseteq Kept
    /\ pc = "save" => TrackedTexts \subseteq Kept \cup ToPurge /\ Referenced \subseteq Kept
    /\ pc = "purge" => StagedTexts \subseteq Kept

OrphanInv ==
    /\ pc \in {"idle", "scan", "stage"} => extracted \cup Queued \subseteq TrackedTexts \cup stray
    /\ pc = "purge" => extracted \cup Queued \subseteq TrackedTexts \cup StagedTexts \cup stray
    /\ pc = "save" => extracted \cup Queued \subseteq Referenced \cup stray

\* No step takes a text that is still referred to, or leaves one behind unaccounted.
LEMMA TextStep ==
    TypeOK /\ RowInv /\ KeepInv /\ OrphanInv /\ [Next]_vars => KeepInv' /\ OrphanInv'
<1> SUFFICES ASSUME TypeOK, RowInv, KeepInv, OrphanInv, [Next]_vars PROVE KeepInv' /\ OrphanInv'
    OBVIOUS
<1> USE DEF KeepInv, OrphanInv, Kept
<1>1. UNCHANGED row => UNCHANGED TrackedTexts
  BY DEF TrackedTexts, Tracked, Active, RowText
<1>2. UNCHANGED queued => UNCHANGED Queued
  BY DEF Queued
<1>3. ASSUME UNCHANGED <<row, queued, extracted, pc, items, complete, lost, unkept, stray>>
      PROVE  KeepInv' /\ OrphanInv'
  BY <1>1, <1>2, <1>3, PlanStays
<1>4. ASSUME UNCHANGED <<row, queued, extracted, lost, unkept, stray>>,
             pc \in {"idle", "scan", "stage"}, pc' \in {"idle", "scan", "stage"}
      PROVE  KeepInv' /\ OrphanInv'
  BY <1>1, <1>2, <1>4
<1>5. CASE Stage
  <2>1. Queued' = Queued \cup StagedTexts
    <3>1. \A t \in Texts : queued'[t] > 0 <=> queued[t] > 0 \/ t \in StagedTexts
      <4> SUFFICES ASSUME NEW t \in Texts PROVE queued'[t] > 0 <=> queued[t] > 0 \/ t \in StagedTexts
          OBVIOUS
      <4> DEFINE S == {r \in Staged : TextOf[items[r]] = t}
      <4>1. queued[t] \in Nat /\ queued'[t] = queued[t] + Cardinality(S)
        BY <1>5 DEF Stage, TypeOK
      <4>2. Cardinality(S) \in Nat /\ (Cardinality(S) > 0 <=> S # {})
        BY StageCount
      <4>3. S # {} <=> t \in StagedTexts
        BY DEF StagedTexts
      <4> HIDE DEF S
      <4> QED BY <4>1, <4>2, <4>3
    <3>2. StagedTexts \subseteq Texts
      BY PlanTexts
    <3> QED BY <3>1, <3>2 DEF Queued
  <2>2. UNCHANGED <<row, items, complete, extracted, lost, unkept, stray>> /\ pc = "stage" /\ pc' = "purge"
    BY <1>5 DEF Stage, scan, ghosts
  <2>3. UNCHANGED <<TrackedTexts, StagedTexts>> /\ Kept' = Kept \cup StagedTexts
    BY <1>1, <2>1, <2>2, PlanStays
  <2> QED BY <2>1, <2>2, <2>3
<1>6. CASE Purge
  <2>1. UNCHANGED <<row, items, complete, queued, lost, unkept>> /\ pc = "purge" /\ pc' = "save"
    BY <1>6 DEF Purge, scan
  <2>2. extracted' = extracted \ ToPurge /\ stray' = stray \cup (ToPurge \cap Queued)
    BY <1>6 DEF Purge
  <2>3. Referenced \cap ToPurge = {}
    BY DEF ToPurge
  <2>4. UNCHANGED <<TrackedTexts, Queued, Referenced, ToPurge>>
    BY <1>1, <1>2, <2>1, PlanStays
  <2>5. TrackedTexts \subseteq Kept /\ StagedTexts \subseteq Kept
    BY <2>1
  <2>6. Referenced \subseteq Kept'
    BY <2>1, <2>2, <2>3, <2>4, <2>5, PlanSplits
  <2>7. TrackedTexts' \subseteq (Kept \cup ToPurge)'
    BY <2>4, <2>6, PlanSplits
  <2>8. (extracted \cup Queued)' \subseteq (Referenced \cup stray)'
    BY <2>1, <2>2, <2>4, PlanSplits
  <2> QED BY <2>1, <2>4, <2>6, <2>7, <2>8
<1>7. CASE Save
  <2>1. TrackedTexts' = Referenced
    BY <1>7 DEF Save, TrackedTexts, Tracked, Active, Referenced, RowText
  <2>2. UNCHANGED <<queued, extracted, lost, unkept, stray>> /\ pc = "save" /\ pc' = "idle"
    BY <1>7 DEF Save, EndRun
  <2>3. UNCHANGED <<Queued, Kept>>
    BY <1>2, <2>2
  <2> QED BY <2>1, <2>2, <2>3
<1>8. CASE Die
  <2>1. UNCHANGED <<row, queued, extracted, unkept>> /\ pc \in {"purge", "save"} /\ pc' = "idle"
    BY <1>8 DEF Die, EndRun, store
  <2>2. /\ lost' = IF pc = "save" THEN lost \cup ToPurge ELSE lost
        /\ stray' = stray \cup StagedTexts
    BY <1>8 DEF Die
  <2> QED BY <1>1, <1>2, <2>1, <2>2, PlanSplits
<1>9. ASSUME NEW t \in Texts, Extract(t) PROVE KeepInv' /\ OrphanInv'
  <2>1. UNCHANGED <<row, items, complete, pc, lost, stray>> /\ t \in Queued
    BY <1>9 DEF Extract, scan, Queued
  <2>2. \/ extracted' = extracted \cup {t} /\ unkept' = unkept \ {t}
        \/ extracted' = extracted /\ unkept' = unkept \cup ({t} \ extracted)
    BY <1>9 DEF Extract
  <2>3. Queued' \subseteq Queued /\ Queued \subseteq Queued' \cup {t}
    BY <1>9 DEF Extract, Queued, TypeOK
  <2>4. Kept \subseteq Kept' /\ (extracted \cup Queued)' \subseteq extracted \cup Queued
    BY <2>1, <2>2, <2>3
  <2> QED BY <1>1, <2>1, <2>4, PlanStays
<1>13. ASSUME NEW t \in Texts, Expire(t) PROVE KeepInv' /\ OrphanInv'
  <2>1. UNCHANGED <<row, items, complete, queued, pc, lost, stray>>
    BY <1>13 DEF Expire, scan
  <2>2. extracted' = extracted \ {t} /\ unkept' = unkept \cup {t}
    BY <1>13 DEF Expire
  <2>3. Kept \subseteq Kept' /\ (extracted \cup Queued)' \subseteq extracted \cup Queued
    BY <1>2, <2>1, <2>2
  <2> QED BY <1>1, <2>1, <2>3, PlanStays
<1>10. CASE Start \/ FetchPage \/ FetchLast \/ FetchEmpty \/ Abort
  BY <1>4, <1>10 DEF Start, FetchPage, FetchLast, FetchEmpty, Abort, Absorb, EndRun, store
<1>11. ASSUME NEW r \in Reviews,
              \/ \E c \in Contents : Publish(r, c)
              \/ \E c \in Contents \cup {Hidden} : Edit(r, c)
              \/ Unlist(r)
       PROVE  KeepInv' /\ OrphanInv'
  BY <1>3, <1>11 DEF Publish, Edit, Unlist, Disturb, store, scan
<1>12. CASE UNCHANGED vars
  BY <1>3, <1>12 DEF vars, store, scan, ghosts
<1> QED BY ONLY [Next]_vars, <1>5, <1>6, <1>7, <1>8, <1>9, <1>10, <1>11, <1>12, <1>13 DEF Next, Run

\* Types, rows and texts together are invariant.
LEMMA TextInvariant == Spec => [](SyncInv /\ KeepInv /\ OrphanInv)
<1>1. Init => KeepInv /\ OrphanInv
  BY DEF Init, KeepInv, OrphanInv, TrackedTexts, Tracked, Active, NoRow, Queued
<1>2. SyncInv /\ KeepInv /\ OrphanInv /\ [Next]_vars => KeepInv' /\ OrphanInv'
  BY TextStep DEF SyncInv
<1> QED BY <1>1, <1>2, SyncInvariant, PTL DEF Spec

\* No purge takes the text of a review that stays tracked, whichever reviews share it.
THEOREM TrackedAreKept == Spec => []TrackedIsKept
<1>1. KeepInv => TrackedIsKept
  BY DEF KeepInv, TrackedIsKept, TrackedTexts, Kept
<1> QED BY <1>1, TextInvariant, PTL

\* Between runs every extraction has a tracked review, or is one a dead run left.
THEOREM OrphansAreAccounted == Spec => []NoOrphans
<1>1. OrphanInv => NoOrphans
  BY DEF OrphanInv, NoOrphans, TrackedTexts
<1> QED BY <1>1, TextInvariant, PTL
=============================================================================
