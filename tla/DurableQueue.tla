---------------------------- MODULE DurableQueue ----------------------------
(***************************************************************************)
(* What the bulk-ingest queue promises, without workers, locks or          *)
(* snapshots: a job's rows are accepted together, each row is settled      *)
(* exactly once, and a job is reported complete at most once and only      *)
(* after its last row has been settled.                                    *)
(***************************************************************************)
EXTENDS FiniteSets

CONSTANTS Jobs,    \* batch jobs
          Rows,    \* rows of all jobs
          JobOf    \* the job of a row

VARIABLES row,       \* "absent", "pending", "done" or "failed"
          reported   \* jobs whose completion time has been stamped

qvars == <<row, reported>>

RowsOf(j) == {r \in Rows : JobOf[r] = j}

Settled(r) == row[r] \in {"done", "failed"}

QInit == /\ row = [r \in Rows |-> "absent"]
         /\ reported = {}

\* All rows of a job become durable in one step.
Accept(j) == /\ \A r \in RowsOf(j) : row[r] = "absent"
             /\ row' = [r \in Rows |-> IF JobOf[r] = j THEN "pending" ELSE row[r]]
             /\ UNCHANGED reported

Settle(r) == /\ row[r] = "pending"
             /\ \E s \in {"done", "failed"} : row' = [row EXCEPT ![r] = s]
             /\ UNCHANGED reported

Report(j) == /\ j \notin reported
             /\ \A r \in RowsOf(j) : Settled(r)
             /\ reported' = reported \cup {j}
             /\ UNCHANGED row

QNext == \/ \E j \in Jobs : Accept(j) \/ Report(j)
         \/ \E r \in Rows : Settle(r)

QSpec == QInit /\ [][QNext]_qvars
=============================================================================
