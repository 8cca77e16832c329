---------------------------- MODULE ConnLending -----------------------------
(***************************************************************************)
(* What the connection pool promises its borrowers, without slots, waits,  *)
(* health checks or idle lists: a connection is lent to one borrower at a  *)
(* time, no more than MaxConn are lent, and one that is lent carries no    *)
(* tenant's scope until its borrower sets its own.                         *)
(***************************************************************************)
EXTENDS Integers, FiniteSets

CONSTANTS Borrowers, Conns, Tenants, TenantOf, MaxConn, NoConn, NoTenant

VARIABLES lent,    \* the connection lent to a borrower
          scope    \* the tenant that a connection's transaction is scoped to

lvars == <<lent, scope>>

LInit == /\ lent = [b \in Borrowers |-> NoConn]
         /\ scope = [c \in Conns |-> NoTenant]

Debtors == {b \in Borrowers : lent[b] # NoConn}

Lend(b, c) == /\ b \notin Debtors /\ \A a \in Debtors : lent[a] # c
              /\ Cardinality(Debtors) < MaxConn
              /\ scope[c] = NoTenant
              /\ lent' = [lent EXCEPT ![b] = c]
              /\ UNCHANGED scope

Rescope(b) == /\ b \in Debtors
              /\ \E t \in {TenantOf[b], NoTenant} : scope' = [scope EXCEPT ![lent[b]] = t]
              /\ UNCHANGED lent

GiveBack(b) == /\ b \in Debtors
               /\ lent' = [lent EXCEPT ![b] = NoConn]
               /\ scope' = [scope EXCEPT ![lent[b]] = NoTenant]

LNext == \E b \in Borrowers : Rescope(b) \/ GiveBack(b) \/ \E c \in Conns : Lend(b, c)

LSpec == LInit /\ [][LNext]_lvars
=============================================================================
