---------------------------- MODULE MCNestedPool ----------------------------
(***************************************************************************)
(* Two threads that nest and two that do not, over two connections.        *)
(***************************************************************************)
EXTENDS NestedPool, TLC

CONSTANTS b1, b2, b3, b4, i1, i2, tenant1, tenant2

\* A nesting thread sets the same tenant on both of its connections.
MCTenantOf == [b \in Borrowers |-> IF b \in {b1, b3, i1} THEN tenant1 ELSE tenant2]

MCKeeper == (i1 :> b1) @@ (i2 :> b2)

ConnSymmetry == Permutations(Conns)
=============================================================================
