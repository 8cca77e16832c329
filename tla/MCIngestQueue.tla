--------------------------- MODULE MCIngestQueue ----------------------------
(***************************************************************************)
(* Uploads of two organisations, drained by their own background tasks and *)
(* a scheduler tick: job j1 has the rows r1 and r2, job j2 has r3.         *)
(***************************************************************************)
EXTENDS IngestQueue, TLC

CONSTANTS j1, r1, r2, r3, org1, org2

MCJobOf == [r \in Rows |-> IF r = r3 THEN CHOOSE j \in Jobs : j # j1 ELSE j1]

MCOrgOf == [j \in Jobs |-> IF j = j1 THEN org1 ELSE org2]

\* r1 and r2 belong to the same job; safety runs only.
RowSymmetry == Permutations({r1, r2})
=============================================================================
