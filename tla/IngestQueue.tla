---------------------------- MODULE IngestQueue -----------------------------
(***************************************************************************)
(* The durable bulk-ingest queue: POST /v2/ingest/csv and                  *)
(* /v2/extract/batch persist a job and its rows, then drain them from the  *)
(* submitting instance's background task; the scheduler's ticks            *)
(* (POST /internal/ingest/tick) drain the same rows from other instances.  *)
(* Every database call is one step, so any two drains interleave between   *)
(* any two of their queries.                                               *)
(***************************************************************************)
EXTENDS Integers, FiniteSets

CONSTANTS
    Jobs,        \* batch jobs; a job also names its own background task
    Rows,        \* the rows of all jobs
    JobOf,       \* [Rows -> Jobs]
    Orgs,        \* tenants
    OrgOf,       \* [Jobs -> Orgs]
    Ticks,       \* concurrent scheduler requests
    TickRows,    \* INGEST_TICK_ROWS: rows claimed by one drain_rows call
    Rejected,    \* rows whose text ReviewRequest refuses (over 5000 characters)
    MaxDeaths,   \* bound: aborted drains in a behaviour
    NoRow, NoJob

Workers == Jobs \cup Ticks

ASSUME QueueAssumption ==
    /\ JobOf \in [Rows -> Jobs]
    /\ OrgOf \in [Jobs -> Orgs]
    /\ \A j \in Jobs : \E r \in Rows : JobOf[r] = j   \* an empty upload is refused
    /\ Jobs \cap Ticks = {}
    /\ Rejected \subseteq Rows
    /\ NoRow \notin Rows /\ NoJob \notin Jobs
    /\ TickRows \in Nat \ {0}
    /\ MaxDeaths \in Nat
    /\ IsFiniteSet(Rows) /\ IsFiniteSet(Jobs)

VARIABLES
    \* public.batch_jobs
    status,      \* "none" before create_batch_job_pg
    processed, failed,
    completed,   \* jobs with completed_at stamped
    hashes,      \* rows with a non-empty entry in source_columns.input_hashes
    \* public.batch_job_rows
    rowStatus,   \* "absent" before enqueue_batch_job_rows_pg
    rowHash,     \* rows with input_hash set
    enqueuedAt,  \* order of the jobs' INSERTs (updated_at), 0 before
    \* public.extractions
    extracted,   \* <<org, row>> pairs stored
    \* the submitting requests
    request,
    \* the drains
    pc, row, outcome, budget, touched, job, counts, listed,
    deaths

jobVars  == <<status, processed, failed, completed, hashes>>
rowVars  == <<rowStatus, rowHash, enqueuedAt>>
syncVars == <<job, counts, listed>>
vars == <<jobVars, rowVars, extracted, request, pc, row, outcome, budget,
          touched, syncVars, deaths>>

RowsOf(j) == {r \in Rows : JobOf[r] = j}

WithStatus(j, s) == {r \in RowsOf(j) : rowStatus[r] = s}

Settled(r) == rowStatus[r] \in {"done", "failed"}

Final == {"done", "failed"}

\* Rows under some open transaction's FOR UPDATE lock.
Locked == {row[w] : w \in Workers}

\* claim_pending_batch_job_row: ORDER BY updated_at ... SKIP LOCKED.
Claimable == {r \in Rows : rowStatus[r] = "pending" /\ r \notin Locked}

\* Mutants: a count that passes over locked rows; one that counts failed rows.
UnlockedPending(j) == WithStatus(j, "pending") \ Locked
NotDone(j) == RowsOf(j) \ WithStatus(j, "done")

\* count_pending_rows_pg: a row another drain has claimed is still pending.
Unfinished(j) == WithStatus(j, "pending")

Oldest == {r \in Claimable :
             \A q \in Claimable : enqueuedAt[JobOf[r]] <= enqueuedAt[JobOf[q]]}

-----------------------------------------------------------------------------
Init ==
    /\ status = [j \in Jobs |-> "none"]
    /\ processed = [j \in Jobs |-> 0]
    /\ failed = [j \in Jobs |-> 0]
    /\ completed = {}
    /\ hashes = [j \in Jobs |-> {}]
    /\ rowStatus = [r \in Rows |-> "absent"]
    /\ rowHash = {}
    /\ enqueuedAt = [j \in Jobs |-> 0]
    /\ extracted = {}
    /\ request = [j \in Jobs |-> "new"]
    /\ pc = [w \in Workers |-> "idle"]
    /\ row = [w \in Workers |-> NoRow]
    /\ outcome = [w \in Workers |-> "none"]
    /\ budget = [w \in Workers |-> 0]
    /\ touched = [w \in Workers |-> {}]
    /\ job = [w \in Workers |-> NoJob]
    /\ counts = [w \in Workers |-> <<0, 0>>]
    /\ listed = [w \in Workers |-> {}]
    /\ deaths = 0

-----------------------------------------------------------------------------
\* The submitting request: three transactions, then the background task.  It
\* may stop after any of them (the instance dies), so none of them is fair.

CreateJob(j) ==
    /\ request[j] = "new"
    /\ request' = [request EXCEPT ![j] = "created"]
    /\ status' = [status EXCEPT ![j] = "pending"]
    /\ UNCHANGED <<processed, failed, completed, hashes, rowVars, extracted, pc,
                   row, outcome, budget, touched, syncVars, deaths>>

EnqueueRows(j) ==
    /\ request[j] = "created"
    /\ request' = [request EXCEPT ![j] = "enqueued"]
    /\ rowStatus' = [r \in Rows |-> IF JobOf[r] = j THEN "pending" ELSE rowStatus[r]]
    /\ enqueuedAt' = [enqueuedAt EXCEPT
                        ![j] = 1 + Cardinality({i \in Jobs : enqueuedAt[i] > 0})]
    /\ UNCHANGED <<jobVars, rowHash, extracted, pc, row, outcome, budget, touched,
                   syncVars, deaths>>

\* update_batch_job_pg(status="processing") does not look at the stored status.
MarkProcessing(j) ==
    /\ request[j] = "enqueued"
    /\ request' = [request EXCEPT ![j] = "accepted"]
    /\ status' = [status EXCEPT ![j] = "processing"]
    /\ pc' = [pc EXCEPT ![j] = "poll"]
    /\ UNCHANGED <<processed, failed, completed, hashes, rowVars, extracted, row,
                   outcome, budget, touched, syncVars, deaths>>

-----------------------------------------------------------------------------
\* The drains.

StartDrain(w) ==
    /\ pc' = [pc EXCEPT ![w] = "claim"]
    /\ budget' = [budget EXCEPT ![w] = TickRows]
    /\ touched' = [touched EXCEPT ![w] = {}]

\* POST /internal/ingest/tick
StartTick(w) ==
    /\ w \in Ticks
    /\ pc[w] = "idle"
    /\ StartDrain(w)
    /\ UNCHANGED <<jobVars, rowVars, extracted, request, row, outcome, syncVars, deaths>>

\* The background task loops while its own job has pending rows.
Poll(w) ==
    /\ pc[w] = "poll"
    /\ \/ /\ Unfinished(w) # {}
          /\ StartDrain(w)
       \/ /\ Unfinished(w) = {}
          /\ pc' = [pc EXCEPT ![w] = "ended"]
          /\ UNCHANGED <<budget, touched>>
    /\ UNCHANGED <<jobVars, rowVars, extracted, request, row, outcome, syncVars, deaths>>

\* The claim opens a transaction that stays open until SettleRow.
ClaimRow(w) ==
    /\ pc[w] = "claim"
    /\ \/ \E r \in Oldest : /\ row' = [row EXCEPT ![w] = r]
                            /\ pc' = [pc EXCEPT ![w] = "extract"]
                            /\ UNCHANGED budget
       \/ /\ Claimable = {}
          /\ pc' = [pc EXCEPT ![w] = "sync"]
          /\ budget' = [budget EXCEPT ![w] = 0]
          /\ UNCHANGED row
    /\ UNCHANGED <<jobVars, rowVars, extracted, request, outcome, touched, syncVars, deaths>>

\* Mutant: a background task extracts under its own job's tenant.
CallerOf(w) == IF w \in Jobs THEN OrgOf[w] ELSE OrgOf[JobOf[row[w]]]

\* The tenant an extraction run by w is stored under: the claimed row's own.
OwnerOf(w) == OrgOf[JobOf[row[w]]]

\* _run_extraction_v2 commits the extraction on a connection of its own, so a
\* row may fail, or its drain may die, after the extraction has been stored.
\* Nothing is stored for an organisation switched to stateless meanwhile.
Extract(w) ==
    /\ pc[w] = "extract"
    /\ \E o \in {"done", "failed"} :
          /\ row[w] \in Rejected => o = "failed"
          /\ outcome' = [outcome EXCEPT ![w] = o]
    /\ \/ /\ row[w] \notin Rejected
          /\ extracted' = extracted \cup {<<OwnerOf(w), row[w]>>}
       \/ UNCHANGED extracted
    /\ pc' = [pc EXCEPT ![w] = "settle"]
    /\ UNCHANGED <<jobVars, rowVars, request, row, budget, touched, syncVars, deaths>>

\* Mutant: a failed row goes back to the queue.
Requeued(w) == IF outcome[w] = "failed" THEN "pending" ELSE outcome[w]

Verdict(w) == outcome[w]

ClaimsAnother(w) == budget[w] > 1

\* settle_batch_job_row and the COMMIT that releases the lock.  input_hash is
\* set before the extraction runs, so a failed row has one too.
SettleRow(w) ==
    /\ pc[w] = "settle"
    /\ rowStatus' = [rowStatus EXCEPT ![row[w]] = Verdict(w)]
    /\ rowHash' = rowHash \cup ({row[w]} \ Rejected)
    /\ touched' = [touched EXCEPT ![w] = @ \cup {JobOf[row[w]]}]
    /\ row' = [row EXCEPT ![w] = NoRow]
    /\ outcome' = [outcome EXCEPT ![w] = "none"]
    /\ budget' = [budget EXCEPT ![w] = @ - 1]
    /\ pc' = [pc EXCEPT ![w] = IF ClaimsAnother(w) THEN "claim" ELSE "sync"]
    /\ UNCHANGED <<jobVars, enqueuedAt, extracted, request, syncVars, deaths>>

-----------------------------------------------------------------------------
\* _sync_job_progress, once for every job the drain touched.

\* Its local variables go out of scope.
Return(w) ==
    /\ pc' = [pc EXCEPT ![w] = "sync"]
    /\ job' = [job EXCEPT ![w] = NoJob]
    /\ counts' = [counts EXCEPT ![w] = <<0, 0>>]
    /\ listed' = [listed EXCEPT ![w] = {}]

\* The next touched job and count_job_row_statuses_pg, or the end of the drain.
CountSettled(w) ==
    /\ pc[w] = "sync"
    /\ \/ \E j \in touched[w] :
             /\ touched' = [touched EXCEPT ![w] = @ \ {j}]
             /\ job' = [job EXCEPT ![w] = j]
             /\ counts' = [counts EXCEPT ![w] = <<Cardinality(WithStatus(j, "done")),
                                                  Cardinality(WithStatus(j, "failed"))>>]
             /\ pc' = [pc EXCEPT ![w] = "count"]
       \/ /\ touched[w] = {}
          /\ pc' = [pc EXCEPT ![w] = IF w \in Jobs THEN "poll" ELSE "idle"]
          /\ UNCHANGED <<touched, job, counts>>
    /\ UNCHANGED <<jobVars, rowVars, extracted, request, row, outcome, budget, listed, deaths>>

CountPending(w) ==
    /\ pc[w] = "count"
    /\ pc' = [pc EXCEPT ![w] = IF Unfinished(job[w]) # {}
                               THEN "progress" ELSE "check"]
    /\ UNCHANGED <<jobVars, rowVars, extracted, request, row, outcome, budget, touched,
                   syncVars, deaths>>

WriteProgress(w) ==
    /\ pc[w] = "progress"
    /\ processed' = [processed EXCEPT ![job[w]] = counts[w][1]]
    /\ failed' = [failed EXCEPT ![job[w]] = counts[w][2]]
    /\ Return(w)
    /\ UNCHANGED <<status, completed, hashes, rowVars, extracted, request, row, outcome,
                   budget, touched, deaths>>

\* get_batch_job_pg: skip a job another drain has finalised.
CheckFinal(w) ==
    /\ pc[w] = "check"
    /\ \/ /\ status[job[w]] \in Final
          /\ Return(w)
       \/ /\ status[job[w]] \notin Final
          /\ pc' = [pc EXCEPT ![w] = "list"]
          /\ UNCHANGED syncVars
    /\ UNCHANGED <<jobVars, rowVars, extracted, request, row, outcome, budget, touched, deaths>>

ListHashes(w) ==
    /\ pc[w] = "list"
    /\ listed' = [listed EXCEPT ![w] = RowsOf(job[w]) \cap rowHash]
    /\ pc' = [pc EXCEPT ![w] = "finalize"]
    /\ UNCHANGED <<jobVars, rowVars, extracted, request, row, outcome, budget, touched,
                   job, counts, deaths>>

\* The final UPDATE writes what the three reads returned.
Finalize(w) ==
    /\ pc[w] = "finalize"
    /\ status' = [status EXCEPT ![job[w]] = IF counts[w][2] = 0 THEN "done" ELSE "failed"]
    /\ processed' = [processed EXCEPT ![job[w]] = counts[w][1]]
    /\ failed' = [failed EXCEPT ![job[w]] = counts[w][2]]
    /\ completed' = completed \cup {job[w]}
    /\ hashes' = [hashes EXCEPT ![job[w]] = listed[w]]
    /\ Return(w)
    /\ UNCHANGED <<rowVars, extracted, request, row, outcome, budget, touched, deaths>>

\* The instance dies, or an exception escapes drain_rows: the open transaction
\* rolls back, the touched jobs are forgotten and a background task is gone.
Die(w) ==
    /\ pc[w] \notin {"idle", "ended"}
    /\ deaths < MaxDeaths
    /\ deaths' = deaths + 1
    /\ pc' = [pc EXCEPT ![w] = IF w \in Jobs THEN "ended" ELSE "idle"]
    /\ row' = [row EXCEPT ![w] = NoRow]
    /\ outcome' = [outcome EXCEPT ![w] = "none"]
    /\ budget' = [budget EXCEPT ![w] = 0]
    /\ touched' = [touched EXCEPT ![w] = {}]
    /\ job' = [job EXCEPT ![w] = NoJob]
    /\ counts' = [counts EXCEPT ![w] = <<0, 0>>]
    /\ listed' = [listed EXCEPT ![w] = {}]
    /\ UNCHANGED <<jobVars, rowVars, extracted, request>>

-----------------------------------------------------------------------------
Submit(j) == CreateJob(j) \/ EnqueueRows(j) \/ MarkProcessing(j)

Drain(w) == \/ Poll(w) \/ ClaimRow(w) \/ Extract(w) \/ SettleRow(w)
            \/ CountSettled(w) \/ CountPending(w) \/ WriteProgress(w)
            \/ CheckFinal(w) \/ ListHashes(w) \/ Finalize(w)

Next == \/ \E j \in Jobs : Submit(j)
        \/ \E w \in Workers : StartTick(w) \/ Drain(w) \/ Die(w)

Spec == Init /\ [][Next]_vars

\* The scheduler keeps ticking and a live drain keeps running.
FairSpec == Spec /\ \A w \in Workers : WF_vars(Drain(w)) /\ WF_vars(StartTick(w))

-----------------------------------------------------------------------------
PcValues == {"idle", "poll", "claim", "extract", "settle", "sync", "count",
             "progress", "check", "list", "finalize", "ended"}

\* Every variable has its type.
TypeOK ==
    /\ status \in [Jobs -> {"none", "pending", "processing"} \cup Final]
    /\ processed \in [Jobs -> Nat] /\ failed \in [Jobs -> Nat]
    /\ completed \subseteq Jobs
    /\ hashes \in [Jobs -> SUBSET Rows]
    /\ rowStatus \in [Rows -> {"absent", "pending"} \cup Final]
    /\ rowHash \subseteq Rows
    /\ enqueuedAt \in [Jobs -> Nat]
    /\ extracted \subseteq Orgs \X Rows
    /\ request \in [Jobs -> {"new", "created", "enqueued", "accepted"}]
    /\ pc \in [Workers -> PcValues]
    /\ row \in [Workers -> Rows \cup {NoRow}]
    /\ outcome \in [Workers -> Final \cup {"none"}]
    /\ budget \in [Workers -> 0 .. TickRows]
    /\ touched \in [Workers -> SUBSET Jobs]
    /\ job \in [Workers -> Jobs \cup {NoJob}]
    /\ counts \in [Workers -> Nat \X Nat]
    /\ listed \in [Workers -> SUBSET Rows]
    /\ deaths \in 0 .. MaxDeaths

Drained(j) == \A r \in RowsOf(j) : Settled(r)

\* A job is stamped complete, and shows a final status to its poller, only after
\* its last row is settled, whichever drains counted, checked and finalised it.
CompletedDrained ==
    \A j \in Jobs : (j \in completed \/ status[j] \in Final) => Drained(j)

\* GET /v2/ingest/{job_id}/result of a complete job reaches every extraction its
\* rows produced, as the organisation that uploaded them and no other.
ResultComplete ==
    \A e \in extracted :
       JobOf[e[2]] \in completed =>
          /\ e[1] = OrgOf[JobOf[e[2]]]
          /\ e[2] \in hashes[JobOf[e[2]]]

\* Two drains are structurally unable to double-process a row: a settled row is
\* never settled again, even by a drain that claimed it before.
SettledForGood ==
    [][\A r \in Rows : Settled(r) => rowStatus'[r] = rowStatus[r]]_vars

\* The queue keeps its promise: rows accepted together, settled once, job
\* reported after its last row.
DQ == INSTANCE DurableQueue WITH row <- rowStatus, reported <- completed

ImplementsDurableQueue == DQ!QSpec

\* Durability: a row persisted by an upload is settled in the end, though its
\* instance dies, because a later tick claims it.
RowsSettle == \A r \in Rows : rowStatus[r] = "pending" ~> Settled(r)

\* A job whose rows are not all settled shows its poller a final status in the end,
\* however the drains and ticks take each other's rows: a death after the last settle
\* is the only one that a later tick does not make up for.
ResumedCompletes ==
    \A j \in Jobs : \A d \in 0..MaxDeaths :
        (request[j] = "accepted" /\ ~Drained(j) /\ deaths = d)
            ~> (status[j] \in Final \/ deaths > d)
=============================================================================
