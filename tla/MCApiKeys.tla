------------------------------ MODULE MCApiKeys ------------------------------
(***************************************************************************)
(* Three calls and three changes of keys, around one turn of the month.    *)
(***************************************************************************)
EXTENDS ApiKeys, TLC

CONSTANTS c1, c2, c3, a1, a2, a3, k1, k2, k3, k4

KeysSymmetry == Permutations({c1, c2, c3}) \cup Permutations({a1, a2, a3})
                \cup Permutations(Keys \ {FirstKey})
=============================================================================
