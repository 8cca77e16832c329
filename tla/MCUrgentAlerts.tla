--------------------------- MODULE MCUrgentAlerts ---------------------------
(***************************************************************************)
(* Two urgent reviews, one of them evaluated twice, and one or two sweeps. *)
(***************************************************************************)
EXTENDS UrgentAlerts, TLC

CONSTANTS e1, e2, e3, r1, r2

MCReviewOf == [e \in Evals |-> IF e = e3 THEN r2 ELSE IF e = e2 THEN r2 ELSE r1]

TokenSymmetry == Permutations(Tokens)
=============================================================================
