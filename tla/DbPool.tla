------------------------------- MODULE DbPool -------------------------------
(***************************************************************************)
(* The process-local Postgres connection pool (app/core/db_pool.py): the   *)
(* threads of one instance borrow connections to one DSN.  A borrower is a *)
(* thread with one proxy at a time.  Each critical section of pool.cond is *)
(* one step, and so is each network call outside it; release() enters the  *)
(* lock twice, to append the connection and to free the slot.              *)
(***************************************************************************)
EXTENDS Integers, FiniteSets

CONSTANTS
    Borrowers,
    Conns,       \* client connections, reused once closed
    Tenants,
    TenantOf,    \* [Borrowers -> Tenants], the scope its transactions set
    MaxConn,     \* DB_POOL_MAXCONN
    NoConn, NoTenant

ASSUME PoolAssumption ==
    /\ MaxConn \in Nat \ {0}
    /\ TenantOf \in [Borrowers -> Tenants]
    /\ NoConn \notin Conns /\ NoTenant \notin Tenants
    /\ IsFiniteSet(Borrowers) /\ IsFiniteSet(Conns)

VARIABLES
    idle,     \* pool.idle; which entry is the hottest does not matter here
    inUse,    \* pool.in_use
    pc,       \* where a borrower is in acquire() and release()
    conn,     \* the connection of a borrower
    open,     \* connections not closed
    scope,    \* the tenant set in a connection's open transaction
    closing   \* entries close_idle has taken and not closed yet

vars == <<idle, inUse, pc, conn, open, scope, closing>>

Init == /\ idle = {}
        /\ inUse = 0
        /\ pc = [b \in Borrowers |-> "out"]
        /\ conn = [b \in Borrowers |-> NoConn]
        /\ open = {}
        /\ scope = [c \in Conns |-> NoTenant]
        /\ closing = {}

At(S) == {b \in Borrowers : pc[b] \in S}

-----------------------------------------------------------------------------
\* acquire()

\* A thread that is in the loop with the lock: it has just arrived, was notified,
\* or its wait timed out (a late thread can still be the one notified).
Looking == {"out", "woken", "late"}

\* Mutant: an off-by-one bound.
RoomForOneMore == inUse <= MaxConn

Room == inUse < MaxConn

\* Pop an idle entry, whatever in_use is.
TakeIdle(b) ==
    /\ pc[b] \in Looking
    /\ \E c \in idle : /\ idle' = idle \ {c}
                       /\ conn' = [conn EXCEPT ![b] = c]
    /\ inUse' = inUse + 1
    /\ pc' = [pc EXCEPT ![b] = "check"]
    /\ UNCHANGED <<open, scope>>

\* No idle entry and a free slot: take it before connecting.
TakeSlot(b) ==
    /\ pc[b] \in Looking
    /\ idle = {} /\ Room
    /\ inUse' = inUse + 1
    /\ pc' = [pc EXCEPT ![b] = "connect"]
    /\ UNCHANGED <<idle, conn, open, scope>>

\* cond.wait(remaining); a thread whose deadline has passed does not wait again.
Wait(b) ==
    /\ pc[b] \in Looking \ {"late"}
    /\ idle = {} /\ ~Room
    /\ pc' = [pc EXCEPT ![b] = "wait"]
    /\ UNCHANGED <<idle, inUse, conn, open, scope>>

\* The wait times out; the loop looks at the pool once more.
TimeOut(b) ==
    /\ pc[b] = "wait"
    /\ pc' = [pc EXCEPT ![b] = "late"]
    /\ UNCHANGED <<idle, inUse, conn, open, scope>>

\* PoolExhaustedError
Exhausted(b) ==
    /\ pc[b] \in {"woken", "late"}
    /\ idle = {} /\ ~Room
    /\ pc' = [pc EXCEPT ![b] = "out"]
    /\ UNCHANGED <<idle, inUse, conn, open, scope>>

\* _healthy: handed out, or too old or dead and closed.
Check(b) ==
    /\ pc[b] = "check"
    /\ \/ /\ pc' = [pc EXCEPT ![b] = "use"]
          /\ UNCHANGED <<conn, open>>
       \/ /\ pc' = [pc EXCEPT ![b] = "connect"]
          /\ open' = open \ {conn[b]}
          /\ conn' = [conn EXCEPT ![b] = NoConn]
    /\ UNCHANGED <<idle, inUse, scope>>

\* Mutant: a failed connect forgets its slot.
ForgetSlot == "out"

AfterFailedConnect == "free"

\* psycopg2.connect and, under validate, the first ping.
Connect(b) ==
    /\ pc[b] = "connect"
    /\ \/ /\ \E c \in Conns \ open : /\ open' = open \cup {c}
                                     /\ conn' = [conn EXCEPT ![b] = c]
                                     /\ scope' = [scope EXCEPT ![c] = NoTenant]
          /\ pc' = [pc EXCEPT ![b] = "use"]
       \/ /\ pc' = [pc EXCEPT ![b] = AfterFailedConnect]
          /\ UNCHANGED <<conn, open, scope>>
    /\ UNCHANGED <<idle, inUse>>

-----------------------------------------------------------------------------
\* The borrower's transactions: SET LOCAL scopes until COMMIT or ROLLBACK.

SetTenant(b) ==
    /\ pc[b] = "use"
    /\ scope' = [scope EXCEPT ![conn[b]] = TenantOf[b]]
    /\ UNCHANGED <<idle, inUse, pc, conn, open>>

EndTransaction(b) ==
    /\ pc[b] = "use"
    /\ scope[conn[b]] # NoTenant
    /\ scope' = [scope EXCEPT ![conn[b]] = NoTenant]
    /\ UNCHANGED <<idle, inUse, pc, conn, open>>

-----------------------------------------------------------------------------
\* release()

\* Borrowers whose proxy is not released: close() and __del__ act once.
Unreleased == {"use"}

\* Mutant: the connection goes back with its transaction open.
KeptScope(b) == scope[conn[b]]

ScopeAfterRollback(b) == NoTenant

\* The rollback succeeds and leaves the connection idle: it is reusable.
RollBack(b) ==
    /\ pc[b] \in Unreleased
    /\ scope' = [scope EXCEPT ![conn[b]] = ScopeAfterRollback(b)]
    /\ pc' = [pc EXCEPT ![b] = "append"]
    /\ UNCHANGED <<idle, inUse, conn, open>>

\* The rollback fails, the connection is closed, dirty or too old, or the
\* proxy was garbage-collected: it is closed.
Discard(b) ==
    /\ pc[b] \in Unreleased
    /\ open' = open \ {conn[b]}
    /\ conn' = [conn EXCEPT ![b] = NoConn]
    /\ scope' = [scope EXCEPT ![conn[b]] = NoTenant]
    /\ pc' = [pc EXCEPT ![b] = "free"]
    /\ UNCHANGED <<idle, inUse>>

Append(b) ==
    /\ pc[b] = "append"
    /\ idle' = idle \cup {conn[b]}
    /\ conn' = [conn EXCEPT ![b] = NoConn]
    /\ pc' = [pc EXCEPT ![b] = "free"]
    /\ UNCHANGED <<inUse, open, scope>>

\* Mutant: only an exhausted pool notifies.
NotifyWhenFull == inUse = MaxConn + 1

Notify == TRUE

Waiters == At({"wait", "late"})

\* _free_slot: notify() wakes one waiter, if there is one.
FreeSlot(b) ==
    /\ pc[b] = "free"
    /\ inUse' = inUse - 1
    /\ \/ /\ Notify
          /\ \E w \in Waiters : pc' = [pc EXCEPT ![b] = "out", ![w] = "woken"]
       \/ /\ ~Notify \/ Waiters = {}
          /\ pc' = [pc EXCEPT ![b] = "out"]
    /\ UNCHANGED <<idle, conn, open, scope>>

\* close_idle, the shutdown hook: the entries are taken under the lock and closed
\* outside it.
CloseIdle ==
    /\ idle # {}
    /\ closing' = closing \cup idle
    /\ idle' = {}
    /\ UNCHANGED <<inUse, pc, conn, open, scope>>

CloseEntry ==
    /\ \E c \in closing : closing' = closing \ {c} /\ open' = open \ {c}
    /\ UNCHANGED <<idle, inUse, pc, conn, scope>>

-----------------------------------------------------------------------------
Acquire(b) == \/ TakeIdle(b) \/ TakeSlot(b) \/ Wait(b) \/ TimeOut(b)
              \/ Exhausted(b) \/ Check(b) \/ Connect(b)

Work(b) == SetTenant(b) \/ EndTransaction(b)

Release(b) == RollBack(b) \/ Discard(b) \/ Append(b) \/ FreeSlot(b)

Next == \/ \E b \in Borrowers : (Acquire(b) \/ Work(b) \/ Release(b)) /\ UNCHANGED closing
        \/ CloseIdle \/ CloseEntry

Spec == Init /\ [][Next]_vars

-----------------------------------------------------------------------------
Places == Looking \cup {"wait"} \cup {"check", "connect", "use"} \cup {"append", "free"}

\* Every variable has its type.
TypeOK ==
    /\ idle \subseteq Conns
    /\ inUse \in Int
    /\ pc \in [Borrowers -> Places]
    /\ conn \in [Borrowers -> Conns \cup {NoConn}]
    /\ open \subseteq Conns
    /\ scope \in [Conns -> Tenants \cup {NoTenant}]
    /\ closing \subseteq Conns

Holding == {"check", "connect", "use", "append", "free"}

\* in_use counts exactly the borrowers between taking and freeing a slot: no
\* failed connect, discarded connection or leaked proxy shrinks the pool.
SlotsAccounted == inUse = Cardinality(At(Holding))

\* I3: open and opening connections never exceed maxconn, although a borrower
\* that pops an entry before its releaser frees the slot pushes in_use past it
\* (those that close_idle is about to close aside: they are in no list).
BoundedOpen ==
    Cardinality(open \ closing) + Cardinality(At({"connect"})) <= MaxConn

\* I2: a tenant's scope is on no connection but the one that tenant's borrower
\* is using, and no two borrowers, nor a borrower and the idle list, share one.
TenantIsolation ==
    /\ \A c \in Conns : scope[c] # NoTenant =>
          \E b \in At({"use"}) : conn[b] = c /\ scope[c] = TenantOf[b]
    /\ \A a, b \in Borrowers : conn[a] = conn[b] /\ conn[a] # NoConn => a = b
    /\ \A b \in Borrowers : conn[b] \notin idle \cup closing

\* A borrower sleeps through no free slot: when there is room, somebody is awake
\* to take it or is about to notify.
NoLostWakeup ==
    At({"wait"}) # {} /\ (idle # {} \/ Room) => At({"woken", "late", "free"}) # {}

\* Behind slots, checks and lists connections are simply lent: one borrower at a time,
\* at most maxconn, and without the scope of whoever had it before.
lentNow == [b \in Borrowers |-> IF pc[b] = "use" THEN conn[b] ELSE NoConn]
Lending == INSTANCE ConnLending WITH lent <- lentNow
ImplementsLending == Lending!LSpec
=============================================================================
