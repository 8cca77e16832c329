----------------------------- MODULE NestedPool -----------------------------
(***************************************************************************)
(* The pool under code that borrows a second connection while it keeps     *)
(* one: a drain of the ingest queue, which holds the lock of its row on a  *)
(* claim connection and runs the retention lookup and the extraction on    *)
(* others (ingest_worker._claim_one_row), and a dashboard request, which   *)
(* looks the retention mode up before it closes the connection of its      *)
(* session lookup (auth/session.py).  The inner borrower of such a thread  *)
(* is a borrower of its own, kept within the use of the outer one.         *)
(***************************************************************************)
EXTENDS DbPool

CONSTANTS
    Inner,     \* the inner borrowers
    Keeper     \* [Inner -> Borrowers \ Inner], who holds a connection meanwhile

ASSUME NestedAssumption ==
    /\ Inner \subseteq Borrowers
    /\ Keeper \in [Inner -> Borrowers \ Inner]
    /\ \A i, j \in Inner : Keeper[i] = Keeper[j] => i = j

\* An inner helper is called while the outer connection is in use ...
MayStart(b) == b \in Inner /\ pc[b] = "out" => pc[Keeper[b]] = "use"

\* ... and the thread goes on when it has returned, with a result or an error.
Awaits(b) == \E i \in Inner : Keeper[i] = b /\ pc[i] # "out"

Step(b) == /\ MayStart(b) /\ ~Awaits(b)
           /\ Acquire(b) \/ Work(b) \/ Release(b)
           /\ UNCHANGED closing

NestedNext == (\E b \in Borrowers : Step(b)) \/ CloseIdle \/ CloseEntry

NestedSpec == Init /\ [][NestedNext]_vars

-----------------------------------------------------------------------------
\* Borrowers that keep a connection while their inner helper waits for another.
Starving == {b \in Borrowers :
                pc[b] = "use" /\ \E i \in Inner : Keeper[i] = b /\ pc[i] = "wait"}

\* Nobody can move before a deadline passes: every slot is held by a thread that
\* waits for another.
Stuck == At({"wait"}) # {} /\ At(Holding \cup {"woken", "late"}) = Starving

\* As many threads as the pool has slots must starve each other for that: with fewer
\* drains and dashboard requests than connections, waits end without a timeout.
StuckOnlyWhenFull == Stuck => Cardinality(Starving) >= MaxConn
=============================================================================
