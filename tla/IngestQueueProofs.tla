------------------------- MODULE IngestQueueProofs --------------------------
(***************************************************************************)
(* What the ingest queue guarantees for any number of jobs, rows, ticks    *)
(* and deaths.  The invariant IInv says why a job is only ever finalised   *)
(* after its last row: rows are enqueued together, a row lock has one      *)
(* holder, settled rows stay settled, so the zero pending rows that one    *)
(* drain reads stay true until its final UPDATE.                           *)
(***************************************************************************)
EXTENDS IngestQueue, FiniteSetTheorems, TLAPS

\* A job's rows exist from the second transaction of its upload on.
Durable(j) == request[j] \in {"enqueued", "accepted"}

RowsTogether ==
    \A r \in Rows : Durable(JobOf[r]) <=> rowStatus[r] # "absent"

\* A drain holds a row exactly while it extracts and settles it.
HeldRow ==
    \A w \in Workers :
       /\ pc[w] \in {"extract", "settle"} <=> row[w] # NoRow
       /\ row[w] # NoRow => rowStatus[row[w]] = "pending"
       /\ pc[w] = "settle" => outcome[w] \in Final
       /\ pc[w] \in {"claim", "extract", "settle"} => budget[w] > 0

OneHolder ==
    \A v, w \in Workers : row[v] = row[w] /\ row[v] # NoRow => v = w

\* A background task starts when its upload is accepted.
NotStarted == \A j \in Jobs : request[j] # "accepted" => pc[j] = "idle"

Syncing(w) == pc[w] \in {"count", "progress", "check", "list", "finalize"}

SyncedJobs ==
    \A w \in Workers :
       /\ \A j \in touched[w] : Durable(j)
       /\ Syncing(w) => job[w] \in Jobs /\ Durable(job[w])
       /\ pc[w] \in {"check", "list", "finalize"} => Drained(job[w])
       /\ pc[w] = "finalize" => listed[w] = RowsOf(job[w]) \ Rejected

HashedRows ==
    \A r \in Rows : r \in rowHash <=> Settled(r) /\ r \notin Rejected

FinalJobs ==
    \A j \in Jobs :
       /\ status[j] \in Final => j \in completed
       /\ j \in completed => Drained(j) /\ hashes[j] = RowsOf(j) \ Rejected

OwnExtractions ==
    \A e \in extracted : e[2] \notin Rejected /\ e[1] = OrgOf[JobOf[e[2]]]

IInv == /\ TypeOK
        /\ RowsTogether
        /\ HeldRow
        /\ OneHolder
        /\ NotStarted
        /\ SyncedJobs
        /\ HashedRows
        /\ FinalJobs
        /\ OwnExtractions

-----------------------------------------------------------------------------
\* Rows are finitely many.
LEMMA CountIsNat ==
    ASSUME NEW S \in SUBSET Rows
    PROVE  Cardinality(S) \in Nat
  BY FS_Subset, FS_CardinalityType, QueueAssumption

\* Jobs are finitely many.
LEMMA JobCountIsNat ==
    ASSUME NEW S \in SUBSET Jobs
    PROVE  Cardinality(S) \in Nat
  BY FS_Subset, FS_CardinalityType, QueueAssumption

\* Every variable keeps its type.
LEMMA TypeInductive ==
    ASSUME IInv, [Next]_vars
    PROVE  TypeOK'
<1> TypeOK /\ HeldRow /\ SyncedJobs
  BY DEF IInv
<1> USE QueueAssumption DEF TypeOK, Workers, PcValues, Final
<1>1. ASSUME NEW j \in Jobs, CreateJob(j) PROVE TypeOK'
  BY <1>1 DEF CreateJob, jobVars, rowVars, syncVars
<1>2. ASSUME NEW j \in Jobs, EnqueueRows(j) PROVE TypeOK'
  <2>1. Cardinality({i \in Jobs : enqueuedAt[i] > 0}) \in Nat
    BY JobCountIsNat
  <2> QED
    BY <1>2, <2>1 DEF EnqueueRows, jobVars, rowVars, syncVars
<1>3. ASSUME NEW j \in Jobs, MarkProcessing(j) PROVE TypeOK'
  BY <1>3 DEF MarkProcessing, jobVars, rowVars, syncVars
<1>4. ASSUME NEW w \in Workers, StartTick(w) PROVE TypeOK'
  BY <1>4 DEF StartTick, StartDrain, jobVars, rowVars, syncVars
<1>5. ASSUME NEW w \in Workers, Poll(w) PROVE TypeOK'
  <2>1. /\ pc' \in [Workers -> PcValues]
        /\ budget' \in [Workers -> 0 .. TickRows]
        /\ touched' \in [Workers -> SUBSET Jobs]
    <3>1. CASE StartDrain(w)
      BY <3>1 DEF StartDrain
    <3>2. CASE pc' = [pc EXCEPT ![w] = "ended"] /\ UNCHANGED <<budget, touched>>
      BY <3>2
    <3> QED
      BY <1>5, <3>1, <3>2 DEF Poll
  <2>2. UNCHANGED <<jobVars, rowVars, extracted, request, row, outcome, syncVars, deaths>>
    BY <1>5 DEF Poll
  <2> QED
    BY <2>1, <2>2 DEF jobVars, rowVars, syncVars
<1>6. ASSUME NEW w \in Workers, ClaimRow(w) PROVE TypeOK'
  <2>1. /\ pc' \in [Workers -> PcValues]
        /\ budget' \in [Workers -> 0 .. TickRows]
        /\ row' \in [Workers -> Rows \cup {NoRow}]
    <3>1. ASSUME NEW r \in Oldest, row' = [row EXCEPT ![w] = r],
                 pc' = [pc EXCEPT ![w] = "extract"], budget' = budget
          PROVE  <2>1!:
      <4>1. r \in Rows
        BY DEF Oldest, Claimable
      <4> QED
        BY <3>1, <4>1
    <3>2. ASSUME row' = row, pc' = [pc EXCEPT ![w] = "sync"],
                 budget' = [budget EXCEPT ![w] = 0]
          PROVE  <2>1!:
      BY <3>2
    <3> QED
      BY <1>6, <3>1, <3>2 DEF ClaimRow
  <2>2. UNCHANGED <<jobVars, rowVars, extracted, request, outcome, touched, syncVars, deaths>>
    BY <1>6 DEF ClaimRow
  <2> QED
    BY <2>1, <2>2 DEF jobVars, rowVars, syncVars
<1>7. ASSUME NEW w \in Workers, Extract(w) PROVE TypeOK'
  BY <1>7 DEF Extract, OwnerOf, HeldRow, jobVars, rowVars, syncVars
<1>8. ASSUME NEW w \in Workers, SettleRow(w) PROVE TypeOK'
  BY <1>8 DEF SettleRow, Verdict, ClaimsAnother, HeldRow, jobVars, rowVars, syncVars
<1>9. ASSUME NEW w \in Workers, CountSettled(w) PROVE TypeOK'
  <2>1. \A j \in Jobs, s \in Final : Cardinality(WithStatus(j, s)) \in Nat
    BY CountIsNat DEF WithStatus, RowsOf
  <2>2. /\ pc' \in [Workers -> PcValues]
        /\ touched' \in [Workers -> SUBSET Jobs]
        /\ job' \in [Workers -> Jobs \cup {NoJob}]
        /\ counts' \in [Workers -> Nat \X Nat]
    <3>1. ASSUME NEW j \in touched[w],
                 touched' = [touched EXCEPT ![w] = @ \ {j}],
                 job' = [job EXCEPT ![w] = j],
                 counts' = [counts EXCEPT ![w] = <<Cardinality(WithStatus(j, "done")),
                                                   Cardinality(WithStatus(j, "failed"))>>],
                 pc' = [pc EXCEPT ![w] = "count"]
          PROVE  <2>2!:
      BY <2>1, <3>1
    <3>2. ASSUME pc' = [pc EXCEPT ![w] = IF w \in Jobs THEN "poll" ELSE "idle"],
                 UNCHANGED <<touched, job, counts>>
          PROVE  <2>2!:
      BY <3>2
    <3> QED
      BY <1>9, <3>1, <3>2 DEF CountSettled
  <2>3. UNCHANGED <<jobVars, rowVars, extracted, request, row, outcome, budget, listed, deaths>>
    BY <1>9 DEF CountSettled
  <2> QED
    BY <2>2, <2>3 DEF jobVars, rowVars, syncVars
<1>10. ASSUME NEW w \in Workers, CountPending(w) PROVE TypeOK'
  BY <1>10 DEF CountPending, jobVars, rowVars, syncVars
<1>11. ASSUME NEW w \in Workers, WriteProgress(w) PROVE TypeOK'
  BY <1>11 DEF WriteProgress, Return, SyncedJobs, Syncing, jobVars, rowVars, syncVars
<1>12. ASSUME NEW w \in Workers, CheckFinal(w) PROVE TypeOK'
  <2>1. /\ pc' \in [Workers -> PcValues]
        /\ job' \in [Workers -> Jobs \cup {NoJob}]
        /\ counts' \in [Workers -> Nat \X Nat]
        /\ listed' \in [Workers -> SUBSET Rows]
    <3>1. CASE Return(w)
      BY <3>1 DEF Return
    <3>2. CASE pc' = [pc EXCEPT ![w] = "list"] /\ UNCHANGED syncVars
      BY <3>2 DEF syncVars
    <3> QED
      BY <1>12, <3>1, <3>2 DEF CheckFinal
  <2>2. UNCHANGED <<jobVars, rowVars, extracted, request, row, outcome, budget, touched, deaths>>
    BY <1>12 DEF CheckFinal
  <2> QED
    BY <2>1, <2>2 DEF jobVars, rowVars, syncVars
<1>13. ASSUME NEW w \in Workers, ListHashes(w) PROVE TypeOK'
  BY <1>13 DEF ListHashes, RowsOf, jobVars, rowVars, syncVars
<1>14. ASSUME NEW w \in Workers, Finalize(w) PROVE TypeOK'
  BY <1>14 DEF Finalize, Return, SyncedJobs, Syncing, jobVars, rowVars, syncVars
<1>15. ASSUME NEW w \in Workers, Die(w) PROVE TypeOK'
  BY <1>15 DEF Die, jobVars, rowVars, syncVars
<1>16. CASE UNCHANGED vars
  BY <1>16 DEF vars, jobVars, rowVars, syncVars
<1> QED
  BY <1>1, <1>2, <1>3, <1>4, <1>5, <1>6, <1>7, <1>8, <1>9, <1>10, <1>11, <1>12, <1>13, <1>14, <1>15, <1>16 DEF Next, Submit, Drain

-----------------------------------------------------------------------------
\* What the steps that touch no row and no request leave alone.
SyncStep(w) == \/ CountSettled(w) \/ CountPending(w) \/ WriteProgress(w)
               \/ CheckFinal(w) \/ ListHashes(w) \/ Finalize(w)

\* The rows of a job are inserted by one transaction.
LEMMA RowsTogetherInductive ==
    ASSUME IInv, [Next]_vars
    PROVE  RowsTogether'
<1> TypeOK /\ RowsTogether /\ HeldRow /\ TypeOK'
  BY TypeInductive DEF IInv
<1> USE QueueAssumption DEF TypeOK, RowsTogether, Durable
<1>1. ASSUME NEW j \in Jobs, CreateJob(j) PROVE RowsTogether'
  BY <1>1 DEF CreateJob, rowVars
<1>2. ASSUME NEW j \in Jobs, EnqueueRows(j) PROVE RowsTogether'
  BY <1>2 DEF EnqueueRows
<1>3. ASSUME NEW j \in Jobs, MarkProcessing(j) PROVE RowsTogether'
  BY <1>3 DEF MarkProcessing, rowVars
<1>4. ASSUME NEW w \in Workers, SettleRow(w) PROVE RowsTogether'
  BY <1>4 DEF SettleRow, Verdict, HeldRow, Final
<1>5. ASSUME NEW w \in Workers,
             StartTick(w) \/ Poll(w) \/ ClaimRow(w) \/ Extract(w) \/ SyncStep(w) \/ Die(w)
      PROVE  RowsTogether'
  <2>1. UNCHANGED <<request, rowStatus>>
    BY <1>5 DEF StartTick, Poll, ClaimRow, Extract, SyncStep, CountSettled, CountPending,
                WriteProgress, CheckFinal, ListHashes, Finalize, Die, rowVars
  <2> QED
    BY <2>1
<1>6. CASE UNCHANGED vars
  BY <1>6 DEF vars, rowVars
<1> QED
  BY <1>1, <1>2, <1>3, <1>4, <1>5, <1>6 DEF Next, Submit, Drain, SyncStep

\* A settled row keeps its status and its hash: only the holder of its lock
\* writes a row, and nobody can claim a row that is not pending.
LEMMA SettledStays ==
    ASSUME IInv, [Next]_vars, NEW r \in Rows, Settled(r)
    PROVE  /\ rowStatus'[r] = rowStatus[r]
           /\ Settled(r)'
           /\ r \in rowHash' <=> r \in rowHash
<1> TypeOK /\ RowsTogether /\ HeldRow
  BY DEF IInv
<1> USE QueueAssumption DEF TypeOK, Settled
<1>1. ASSUME NEW j \in Jobs, EnqueueRows(j)
      PROVE  rowStatus'[r] = rowStatus[r] /\ rowHash' = rowHash
  BY <1>1 DEF EnqueueRows, RowsTogether, Durable
<1>2. ASSUME NEW w \in Workers, SettleRow(w)
      PROVE  rowStatus'[r] = rowStatus[r] /\ (r \in rowHash' <=> r \in rowHash)
  BY <1>2 DEF SettleRow, HeldRow
<1>3. ASSUME NEW j \in Jobs, CreateJob(j) \/ MarkProcessing(j)
      PROVE  UNCHANGED <<rowStatus, rowHash>>
  BY <1>3 DEF CreateJob, MarkProcessing, rowVars
<1>4. ASSUME NEW w \in Workers,
             StartTick(w) \/ Poll(w) \/ ClaimRow(w) \/ Extract(w) \/ SyncStep(w) \/ Die(w)
      PROVE  UNCHANGED <<rowStatus, rowHash>>
  BY <1>4 DEF StartTick, Poll, ClaimRow, Extract, SyncStep, CountSettled, CountPending,
              WriteProgress, CheckFinal, ListHashes, Finalize, Die, rowVars
<1>5. CASE UNCHANGED vars
  BY <1>5 DEF vars, rowVars
<1> QED
  BY <1>1, <1>2, <1>3, <1>4, <1>5 DEF Next, Submit, Drain, SyncStep

\* A drained job stays drained.
LEMMA DrainedStays ==
    ASSUME IInv, [Next]_vars, NEW j \in Jobs, Drained(j)
    PROVE  Drained(j)'
  BY SettledStays DEF Drained, RowsOf

\* A row that was inserted stays so.
LEMMA DurableStays ==
    ASSUME IInv, [Next]_vars, NEW j \in Jobs, Durable(j)
    PROVE  Durable(j)'
<1> TypeOK
  BY DEF IInv
<1> USE DEF TypeOK, Durable
<1>1. ASSUME NEW i \in Jobs, Submit(i) PROVE Durable(j)'
  BY <1>1 DEF Submit, CreateJob, EnqueueRows, MarkProcessing
<1>2. ASSUME NEW w \in Workers, StartTick(w) \/ Drain(w) \/ Die(w) PROVE UNCHANGED request
  BY <1>2 DEF StartTick, Drain, Poll, ClaimRow, Extract, SettleRow, CountSettled, CountPending,
              WriteProgress, CheckFinal, ListHashes, Finalize, Die
<1> QED
  BY <1>1, <1>2 DEF Next, vars

\* A drain that has listed the hashes has those of a drained job.
LEMMA HashedRowsInductive ==
    ASSUME IInv, [Next]_vars
    PROVE  HashedRows'
<1> TypeOK /\ HashedRows /\ HeldRow /\ RowsTogether /\ TypeOK'
  BY TypeInductive DEF IInv
<1> USE QueueAssumption DEF TypeOK, HashedRows, Settled
<1>1. ASSUME NEW j \in Jobs, EnqueueRows(j) PROVE HashedRows'
  BY <1>1 DEF EnqueueRows, RowsTogether, Durable
<1>2. ASSUME NEW w \in Workers, SettleRow(w) PROVE HashedRows'
  BY <1>2 DEF SettleRow, HeldRow, Verdict, Final
<1>3. ASSUME NEW j \in Jobs, CreateJob(j) \/ MarkProcessing(j)
      PROVE  UNCHANGED <<rowStatus, rowHash>>
  BY <1>3 DEF CreateJob, MarkProcessing, rowVars
<1>4. ASSUME NEW w \in Workers,
             StartTick(w) \/ Poll(w) \/ ClaimRow(w) \/ Extract(w) \/ SyncStep(w) \/ Die(w)
      PROVE  UNCHANGED <<rowStatus, rowHash>>
  BY <1>4 DEF StartTick, Poll, ClaimRow, Extract, SyncStep, CountSettled, CountPending,
              WriteProgress, CheckFinal, ListHashes, Finalize, Die, rowVars
<1>5. CASE UNCHANGED <<rowStatus, rowHash>>
  BY <1>5
<1> QED
  BY <1>1, <1>2, <1>3, <1>4, <1>5 DEF Next, Submit, Drain, SyncStep, vars, rowVars

\* Extractions are stored under the organisation of their row.
LEMMA OwnExtractionsInductive ==
    ASSUME IInv, [Next]_vars
    PROVE  OwnExtractions'
<1> TypeOK /\ OwnExtractions
  BY DEF IInv
<1> USE QueueAssumption DEF TypeOK, OwnExtractions
<1>1. ASSUME NEW w \in Workers, Extract(w) PROVE OwnExtractions'
  BY <1>1 DEF Extract, OwnerOf
<1>2. ASSUME NEW j \in Jobs, Submit(j) PROVE UNCHANGED extracted
  BY <1>2 DEF Submit, CreateJob, EnqueueRows, MarkProcessing
<1>3. ASSUME NEW w \in Workers,
             StartTick(w) \/ Poll(w) \/ ClaimRow(w) \/ SettleRow(w) \/ SyncStep(w) \/ Die(w)
      PROVE  UNCHANGED extracted
  BY <1>3 DEF StartTick, Poll, ClaimRow, SettleRow, SyncStep, CountSettled, CountPending,
              WriteProgress, CheckFinal, ListHashes, Finalize, Die
<1>4. CASE UNCHANGED extracted
  BY <1>4
<1> QED
  BY <1>1, <1>2, <1>3, <1>4 DEF Next, Drain, SyncStep, vars

\* A request that has not begun left nothing behind.
LEMMA NotStartedInductive ==
    ASSUME IInv, [Next]_vars
    PROVE  NotStarted'
<1> TypeOK /\ NotStarted
  BY DEF IInv
<1> USE QueueAssumption DEF TypeOK, NotStarted, Workers
<1>1. ASSUME NEW j \in Jobs, Submit(j) PROVE NotStarted'
  BY <1>1 DEF Submit, CreateJob, EnqueueRows, MarkProcessing
<1>2. ASSUME NEW w \in Workers, StartTick(w) PROVE NotStarted'
  BY <1>2 DEF StartTick, StartDrain
<1>3. ASSUME NEW w \in Workers, Drain(w) \/ Die(w) PROVE NotStarted'
  <2>1. /\ pc[w] # "idle"
        /\ \A v \in Workers : v # w => pc'[v] = pc[v]
        /\ UNCHANGED request
    BY <1>3 DEF Drain, Poll, StartDrain, ClaimRow, Extract, SettleRow, CountSettled, CountPending,
                WriteProgress, CheckFinal, ListHashes, Finalize, Die, Return
  <2> QED
    BY <2>1
<1>4. CASE UNCHANGED vars
  BY <1>4 DEF vars
<1> QED
  BY <1>1, <1>2, <1>3, <1>4 DEF Next

\* The steps of a drain that holds no row before and after.
Idles(w) == StartTick(w) \/ Poll(w) \/ SyncStep(w)

\* A worker at the start or the end of a drain touches no row.
LEMMA IdlesFrame ==
    ASSUME IInv, NEW w \in Workers, Idles(w)
    PROVE  /\ UNCHANGED <<row, rowStatus, outcome>>
           /\ pc[w] \notin {"claim", "extract", "settle"}
           /\ pc'[w] \notin {"extract", "settle"}
           /\ pc'[w] = "claim" => budget'[w] > 0
           /\ \A v \in Workers : v # w => pc'[v] = pc[v] /\ budget'[v] = budget[v]
<1> TypeOK
  BY DEF IInv
<1> USE QueueAssumption DEF TypeOK
<1>1. CASE StartTick(w) \/ Poll(w)
  BY <1>1 DEF StartTick, Poll, StartDrain, rowVars
<1>2. CASE SyncStep(w)
  BY <1>2 DEF SyncStep, CountSettled, CountPending, WriteProgress, CheckFinal, ListHashes,
              Finalize, Return, rowVars
<1> QED
  BY <1>1, <1>2 DEF Idles

\* A claimed row stays pending until its holder settles it.
LEMMA HeldRowInductive ==
    ASSUME IInv, [Next]_vars
    PROVE  HeldRow'
<1> TypeOK /\ HeldRow /\ OneHolder /\ NotStarted /\ RowsTogether
  BY DEF IInv
<1> USE QueueAssumption DEF TypeOK, HeldRow
<1>1. ASSUME NEW j \in Jobs, CreateJob(j) PROVE HeldRow'
  BY <1>1 DEF CreateJob, rowVars
<1>2. ASSUME NEW j \in Jobs, EnqueueRows(j) PROVE HeldRow'
  BY <1>2 DEF EnqueueRows
<1>3. ASSUME NEW j \in Jobs, MarkProcessing(j) PROVE HeldRow'
  BY <1>3 DEF MarkProcessing, rowVars, NotStarted, Workers
<1>4. ASSUME NEW w \in Workers, Idles(w) PROVE HeldRow'
  BY <1>4, IdlesFrame
<1>5. ASSUME NEW w \in Workers, ClaimRow(w) PROVE HeldRow'
  BY <1>5 DEF ClaimRow, Oldest, Claimable, rowVars
<1>6. ASSUME NEW w \in Workers, Extract(w) PROVE HeldRow'
  BY <1>6 DEF Extract, rowVars, Final
<1>7. ASSUME NEW w \in Workers, SettleRow(w) PROVE HeldRow'
  BY <1>7 DEF SettleRow, ClaimsAnother, OneHolder
<1>8. ASSUME NEW w \in Workers, Die(w) PROVE HeldRow'
  BY <1>8 DEF Die, rowVars
<1>9. CASE UNCHANGED vars
  BY <1>9 DEF vars, rowVars
<1> QED
  BY <1>1, <1>2, <1>3, <1>4, <1>5, <1>6, <1>7, <1>8, <1>9
     DEF Next, Submit, Drain, Idles, SyncStep

\* No two workers hold the same row.
LEMMA OneHolderInductive ==
    ASSUME IInv, [Next]_vars
    PROVE  OneHolder'
<1> TypeOK /\ OneHolder
  BY DEF IInv
<1> USE QueueAssumption DEF TypeOK, OneHolder
<1>1. ASSUME NEW w \in Workers, ClaimRow(w) PROVE OneHolder'
  <2>1. CASE row' = row
    BY <2>1
  <2>2. ASSUME NEW r \in Oldest, row' = [row EXCEPT ![w] = r] PROVE OneHolder'
    <3>1. \A v \in Workers : row[v] # r
      BY <2>2 DEF Oldest, Claimable, Locked
    <3> QED
      BY <2>2, <3>1
  <2> QED
    BY <1>1, <2>1, <2>2 DEF ClaimRow
<1>2. ASSUME NEW w \in Workers, SettleRow(w) \/ Die(w) PROVE OneHolder'
  BY <1>2 DEF SettleRow, Die
<1>3. ASSUME NEW j \in Jobs, Submit(j) PROVE UNCHANGED row
  BY <1>3 DEF Submit, CreateJob, EnqueueRows, MarkProcessing
<1>4. ASSUME NEW w \in Workers, Idles(w) \/ Extract(w) PROVE UNCHANGED row
  BY <1>4, IdlesFrame DEF Extract
<1>5. CASE UNCHANGED row
  BY <1>5
<1> QED
  BY <1>1, <1>2, <1>3, <1>4, <1>5 DEF Next, Drain, Idles, SyncStep, vars

\* A drain past its pending count synchronises a drained job.
LEMMA SyncedJobsInductive ==
    ASSUME IInv, [Next]_vars
    PROVE  SyncedJobs'
<1> TypeOK /\ TypeOK' /\ SyncedJobs /\ HeldRow /\ RowsTogether /\ HashedRows /\ NotStarted
  BY TypeInductive DEF IInv
<1> USE QueueAssumption DEF TypeOK
<1> DEFINE Fine(w) ==
             /\ \A j \in touched[w] : Durable(j)
             /\ Syncing(w) => job[w] \in Jobs /\ Durable(job[w])
             /\ pc[w] \in {"check", "list", "finalize"} => Drained(job[w])
             /\ pc[w] = "finalize" => listed[w] = RowsOf(job[w]) \ Rejected
<1>0. SyncedJobs <=> \A w \in Workers : Fine(w)
  BY DEF SyncedJobs
<1>1. ASSUME NEW v \in Workers, pc'[v] = pc[v], touched'[v] = touched[v], job'[v] = job[v],
             listed'[v] = listed[v]
      PROVE  Fine(v)'
  BY <1>0, <1>1, DurableStays, DrainedStays DEF Syncing, RowsOf
<1>2. ASSUME NEW v \in Workers, pc'[v] \in {"idle", "poll", "claim", "extract", "settle", "sync"},
             \A j \in touched'[v] : Durable(j)'
      PROVE  Fine(v)'
  BY <1>2 DEF Syncing
<1>3. ASSUME NEW j \in Jobs, Submit(j), NEW v \in Workers PROVE Fine(v)'
  <2>1. CASE pc'[v] = pc[v]
    BY <1>1, <1>3, <2>1 DEF Submit, CreateJob, EnqueueRows, MarkProcessing, syncVars
  <2>2. CASE pc'[v] # pc[v]
    <3>1. pc'[v] = "poll" /\ touched'[v] = touched[v]
      BY <1>3, <2>2 DEF Submit, CreateJob, EnqueueRows, MarkProcessing
    <3> QED
      BY <1>0, <1>2, <3>1, DurableStays
  <2> QED
    BY <2>1, <2>2
<1>4. ASSUME NEW w \in Workers, Drain(w) \/ StartTick(w) \/ Die(w), NEW v \in Workers, v # w
      PROVE  Fine(v)'
  <2>1. /\ pc'[v] = pc[v] /\ touched'[v] = touched[v] /\ job'[v] = job[v]
        /\ listed'[v] = listed[v]
    BY <1>4 DEF Drain, StartTick, Poll, StartDrain, ClaimRow, Extract, SettleRow, CountSettled,
                CountPending, WriteProgress, CheckFinal, ListHashes, Finalize, Die, Return,
                syncVars
  <2> QED
    BY <1>1, <2>1
<1>5. ASSUME NEW w \in Workers,
             StartTick(w) \/ Poll(w) \/ ClaimRow(w) \/ Extract(w) \/ WriteProgress(w)
             \/ Finalize(w) \/ Die(w)
      PROVE  Fine(w)'
  <2>1. /\ pc'[w] \in {"idle", "poll", "claim", "extract", "settle", "sync", "ended"}
        /\ touched'[w] = {} \/ touched'[w] = touched[w]
    BY <1>5 DEF StartTick, Poll, StartDrain, ClaimRow, Extract, WriteProgress, Finalize, Die,
                Return
  <2> QED
    BY <1>0, <1>2, <2>1, DurableStays DEF Syncing
<1>6. ASSUME NEW w \in Workers, SettleRow(w) PROVE Fine(w)'
  <2>1. Durable(JobOf[row[w]])
    BY <1>6 DEF SettleRow, HeldRow, RowsTogether
  <2>2. /\ pc'[w] \in {"claim", "sync"}
        /\ touched'[w] = touched[w] \cup {JobOf[row[w]]}
    BY <1>6 DEF SettleRow
  <2>3. row[w] \in Rows
    BY <1>6 DEF SettleRow, HeldRow
  <2> QED
    BY <1>0, <1>2, <2>1, <2>2, <2>3, DurableStays
<1>7. ASSUME NEW w \in Workers, CountSettled(w) PROVE Fine(w)'
  <2>1. \A j \in touched'[w] : Durable(j)'
    BY <1>0, <1>7, DurableStays DEF CountSettled
  <2>2. CASE pc'[w] = "count"
    <3>1. job'[w] \in touched[w]
      BY <1>7, <2>2 DEF CountSettled
    <3> QED
      BY <1>0, <2>1, <2>2, <3>1, DurableStays DEF Syncing
  <2>3. CASE pc'[w] \in {"poll", "idle"}
    BY <1>2, <2>1, <2>3
  <2> QED
    BY <1>7, <2>2, <2>3 DEF CountSettled
<1>8. ASSUME NEW w \in Workers, CountPending(w) PROVE Fine(w)'
  <2>1. /\ touched'[w] = touched[w] /\ job'[w] = job[w] /\ pc[w] = "count"
        /\ pc'[w] \in {"progress", "check"}
        /\ pc'[w] = "check" => Unfinished(job[w]) = {}
    BY <1>8 DEF CountPending, syncVars
  <2>2. job[w] \in Jobs /\ Durable(job[w])
    BY <1>0, <2>1 DEF Syncing
  <2>3. ASSUME Unfinished(job[w]) = {} PROVE Drained(job[w])
    BY <2>2, <2>3 DEF Unfinished, WithStatus, Drained, RowsOf, Settled, RowsTogether, Final
  <2> QED
    BY <1>0, <2>1, <2>2, <2>3, DurableStays, DrainedStays DEF Syncing
<1>9. ASSUME NEW w \in Workers, CheckFinal(w) PROVE Fine(w)'
  <2>1. /\ touched'[w] = touched[w] /\ pc[w] = "check"
        /\ \/ pc'[w] = "sync"
           \/ pc'[w] = "list" /\ job'[w] = job[w]
    BY <1>9 DEF CheckFinal, Return, syncVars
  <2> QED
    BY <1>0, <2>1, DurableStays, DrainedStays DEF Syncing
<1>10. ASSUME NEW w \in Workers, ListHashes(w) PROVE Fine(w)'
  <2>1. /\ touched'[w] = touched[w] /\ job'[w] = job[w] /\ pc[w] = "list"
        /\ pc'[w] = "finalize" /\ listed'[w] = RowsOf(job[w]) \cap rowHash
    BY <1>10 DEF ListHashes
  <2>2. job[w] \in Jobs /\ Durable(job[w]) /\ Drained(job[w])
    BY <1>0, <2>1 DEF Syncing
  <2>3. RowsOf(job[w]) \cap rowHash = RowsOf(job[w]) \ Rejected
    BY <2>2 DEF Drained, HashedRows, RowsOf
  <2> QED
    BY <1>0, <2>1, <2>2, <2>3, DurableStays, DrainedStays DEF Syncing, RowsOf
<1>11. ASSUME UNCHANGED vars, NEW v \in Workers PROVE Fine(v)'
  <2>1. pc' = pc /\ touched' = touched /\ job' = job /\ listed' = listed
    BY <1>11 DEF vars, syncVars
  <2> QED
    BY <1>1, <2>1
<1>12. ASSUME NEW v \in Workers PROVE Fine(v)'
  <2>1. CASE \E j \in Jobs : Submit(j)
    BY <1>3, <2>1
  <2>2. ASSUME NEW w \in Workers, Drain(w) \/ StartTick(w) \/ Die(w) PROVE Fine(v)'
    <3>1. CASE v # w
      BY <1>4, <2>2, <3>1
    <3>2. CASE v = w
      BY <1>5, <1>6, <1>7, <1>8, <1>9, <1>10, <2>2, <3>2 DEF Drain
    <3> QED
      BY <3>1, <3>2
  <2> QED
    BY <1>11, <2>1, <2>2 DEF Next
<1> QED
  BY <1>12 DEF SyncedJobs

\* Only drained jobs are final.
LEMMA FinalJobsInductive ==
    ASSUME IInv, [Next]_vars
    PROVE  FinalJobs'
<1> TypeOK /\ FinalJobs /\ SyncedJobs
  BY DEF IInv
<1> USE QueueAssumption DEF TypeOK, FinalJobs
<1>1. ASSUME NEW w \in Workers, Finalize(w) PROVE FinalJobs'
  <2>1. job[w] \in Jobs /\ Drained(job[w]) /\ listed[w] = RowsOf(job[w]) \ Rejected
    BY <1>1 DEF Finalize, SyncedJobs, Syncing
  <2> QED
    BY <1>1, <2>1, DrainedStays DEF Finalize, RowsOf
<1>2. ASSUME NEW j \in Jobs, Submit(j) PROVE FinalJobs'
  <2>1. /\ \A i \in Jobs : status'[i] \in Final => status[i] \in Final
        /\ UNCHANGED <<completed, hashes>>
    BY <1>2 DEF Submit, CreateJob, EnqueueRows, MarkProcessing, jobVars, Final
  <2> QED
    BY <2>1, DrainedStays DEF RowsOf
<1>3. ASSUME NEW w \in Workers,
             StartTick(w) \/ Poll(w) \/ ClaimRow(w) \/ Extract(w) \/ SettleRow(w)
             \/ CountSettled(w) \/ CountPending(w) \/ WriteProgress(w) \/ CheckFinal(w)
             \/ ListHashes(w) \/ Die(w)
      PROVE  UNCHANGED <<status, completed, hashes>>
  BY <1>3 DEF StartTick, Poll, ClaimRow, Extract, SettleRow, CountSettled, CountPending,
              WriteProgress, CheckFinal, ListHashes, Die, jobVars
<1>4. CASE UNCHANGED <<status, completed, hashes>>
  BY <1>4, DrainedStays DEF RowsOf
<1> QED
  BY <1>1, <1>2, <1>3, <1>4 DEF Next, Drain, vars, jobVars

-----------------------------------------------------------------------------
\* The invariant holds initially.
LEMMA InitInvariant == Init => IInv
<1> SUFFICES ASSUME Init PROVE IInv
  OBVIOUS
<1> USE QueueAssumption DEF Init
<1>1. TypeOK
  BY DEF TypeOK, PcValues, Final
<1>2. RowsTogether /\ HeldRow /\ OneHolder
  BY DEF RowsTogether, Durable, HeldRow, OneHolder
<1>3. NotStarted /\ SyncedJobs
  BY DEF NotStarted, SyncedJobs, Syncing, Workers
<1>4. HashedRows /\ FinalJobs /\ OwnExtractions
  BY DEF HashedRows, Settled, FinalJobs, Final, OwnExtractions
<1> QED
  BY <1>1, <1>2, <1>3, <1>4 DEF IInv

\* Every step keeps the invariant.
LEMMA StepInvariant == IInv /\ [Next]_vars => IInv'
  BY TypeInductive, RowsTogetherInductive, HeldRowInductive, OneHolderInductive,
     NotStartedInductive, SyncedJobsInductive, HashedRowsInductive, FinalJobsInductive,
     OwnExtractionsInductive DEF IInv

\* The invariant holds in every behaviour.
LEMMA Invariance == Spec => []IInv
  BY InitInvariant, StepInvariant, PTL DEF Spec

\* Type correctness of the queue, its uploads and its drains.
THEOREM TypeCorrect == Spec => []TypeOK
<1>1. IInv => TypeOK
  BY DEF IInv
<1> QED
  BY <1>1, Invariance, PTL

\* No interleaving of background tasks, ticks and deaths stamps a job complete,
\* or shows it final, while one of its rows is pending.
THEOREM CompletedOnlyWhenDrained == Spec => []CompletedDrained
<1>1. IInv => CompletedDrained
  BY DEF IInv, FinalJobs, CompletedDrained
<1> QED
  BY <1>1, Invariance, PTL

\* The result of a complete job reaches every extraction of its rows, under the
\* uploader's organisation.
THEOREM ResultsComplete == Spec => []ResultComplete
<1>1. ASSUME IInv PROVE ResultComplete
  <2> USE QueueAssumption DEF IInv, FinalJobs, OwnExtractions, ResultComplete
  <2>1. ASSUME NEW e \in extracted, JobOf[e[2]] \in completed
        PROVE  e[1] = OrgOf[JobOf[e[2]]] /\ e[2] \in hashes[JobOf[e[2]]]
    <3>1. e[2] \in Rows \ Rejected /\ JobOf[e[2]] \in Jobs
      BY <1>1, <2>1 DEF TypeOK
    <3>2. hashes[JobOf[e[2]]] = RowsOf(JobOf[e[2]]) \ Rejected
      BY <1>1, <2>1, <3>1
    <3> QED
      BY <1>1, <2>1, <3>1, <3>2 DEF RowsOf
  <2> QED
    BY <2>1
<1> QED
  BY <1>1, Invariance, PTL

\* A row is settled once, whichever drains race for it.
THEOREM SettledOnce == Spec => SettledForGood
<1>1. IInv /\ [Next]_vars => [\A r \in Rows : Settled(r) => rowStatus'[r] = rowStatus[r]]_vars
  BY SettledStays
<1> QED
  BY <1>1, Invariance, PTL DEF Spec, SettledForGood

-----------------------------------------------------------------------------
\* Every step of the queue is a step of DurableQueue or leaves it unchanged.
LEMMA StepRefines ==
    ASSUME IInv, [Next]_vars
    PROVE  [DQ!QNext]_DQ!qvars
<1> TypeOK /\ RowsTogether /\ HeldRow /\ SyncedJobs
  BY DEF IInv
<1> USE QueueAssumption DEF TypeOK
<1>1. ASSUME NEW j \in Jobs, EnqueueRows(j) PROVE DQ!QNext
  <2>1. \A r \in DQ!RowsOf(j) : rowStatus[r] = "absent"
    BY <1>1 DEF EnqueueRows, RowsTogether, Durable, DQ!RowsOf
  <2>2. DQ!Accept(j)
    BY <1>1, <2>1 DEF EnqueueRows, DQ!Accept, jobVars
  <2> QED
    BY <2>2 DEF DQ!QNext
<1>2. ASSUME NEW w \in Workers, SettleRow(w) PROVE DQ!QNext
  <2>1. row[w] \in Rows /\ rowStatus[row[w]] = "pending" /\ outcome[w] \in Final
    BY <1>2 DEF SettleRow, HeldRow
  <2>2. DQ!Settle(row[w])
    BY <1>2, <2>1 DEF SettleRow, Verdict, DQ!Settle, jobVars, Final
  <2> QED
    BY <2>1, <2>2 DEF DQ!QNext
<1>3. ASSUME NEW w \in Workers, Finalize(w) PROVE [DQ!QNext]_DQ!qvars
  <2>1. job[w] \in Jobs /\ Drained(job[w])
    BY <1>3 DEF Finalize, SyncedJobs, Syncing
  <2>2. CASE job[w] \in completed
    BY <1>3, <2>2 DEF Finalize, rowVars, DQ!qvars
  <2>3. CASE job[w] \notin completed
    <3>1. DQ!Report(job[w])
      BY <1>3, <2>1, <2>3 DEF Finalize, rowVars, DQ!Report, DQ!RowsOf, DQ!Settled, Drained,
                              RowsOf, Settled
    <3> QED
      BY <2>1, <3>1 DEF DQ!QNext
  <2> QED
    BY <2>2, <2>3
<1>4. ASSUME NEW j \in Jobs, CreateJob(j) \/ MarkProcessing(j)
      PROVE  UNCHANGED DQ!qvars
  BY <1>4 DEF CreateJob, MarkProcessing, rowVars, DQ!qvars
<1>5. ASSUME NEW w \in Workers,
             StartTick(w) \/ Poll(w) \/ ClaimRow(w) \/ Extract(w) \/ CountSettled(w)
             \/ CountPending(w) \/ WriteProgress(w) \/ CheckFinal(w) \/ ListHashes(w) \/ Die(w)
      PROVE  UNCHANGED DQ!qvars
  BY <1>5 DEF StartTick, Poll, ClaimRow, Extract, CountSettled, CountPending, WriteProgress,
              CheckFinal, ListHashes, Die, jobVars, rowVars, DQ!qvars
<1>6. ASSUME UNCHANGED vars PROVE UNCHANGED DQ!qvars
  BY <1>6 DEF vars, jobVars, rowVars, DQ!qvars
<1> QED
  BY <1>1, <1>2, <1>3, <1>4, <1>5, <1>6 DEF Next, Submit, Drain

\* The queue keeps the promise of DurableQueue, whatever the interleaving.
THEOREM Refinement == Spec => ImplementsDurableQueue
<1>1. Init => DQ!QInit
  BY DEF Init, DQ!QInit
<1>2. IInv /\ [Next]_vars => [DQ!QNext]_DQ!qvars
  BY StepRefines
<1> QED
  BY <1>1, <1>2, Invariance, PTL DEF Spec, ImplementsDurableQueue, DQ!QSpec
=============================================================================
