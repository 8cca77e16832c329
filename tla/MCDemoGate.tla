----------------------------- MODULE MCDemoGate -----------------------------
(***************************************************************************)
(* Two instances with room for one estimate each, and for more when an     *)
(* answer costs less.                                                      *)
(***************************************************************************)
EXTENDS DemoGate

CONSTANTS i1, i2, r1, r2, r3
=============================================================================
