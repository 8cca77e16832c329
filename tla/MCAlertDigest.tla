----------------------------- MODULE MCAlertDigest -----------------------------
(***************************************************************************)
(* Instances of AlertDigest for TLC.                                       *)
(***************************************************************************)
EXTENDS AlertDigest, TLC

CONSTANTS r1, r2, s1, s2

\* The reviews are alike, and so are the sweeps.
Symmetry == Permutations({r1, r2}) \cup Permutations({s1, s2})
=============================================================================
