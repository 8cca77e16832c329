---------------------------- MODULE MCModelCalls ----------------------------
(***************************************************************************)
(* Three extractions of bulk jobs over two places; one meets trouble.      *)
(***************************************************************************)
EXTENDS ModelCalls

CONSTANTS b1, b2, b3
=============================================================================
