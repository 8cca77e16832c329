---------------------------- MODULE MCExtraction ----------------------------
(***************************************************************************)
(* A call and a delivery of the same review, and rows of one text.         *)
(***************************************************************************)
EXTENDS Extraction, TLC

CONSTANTS r1, d1, t1, s1

MCTextOf == (r1 :> t1) @@ (d1 :> t1)
=============================================================================
