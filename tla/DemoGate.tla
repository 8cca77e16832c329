------------------------------ MODULE DemoGate ------------------------------
(***************************************************************************)
(* The two gates of the keyless demo: each instance's ledger of the tokens *)
(* of the last day (TrailingTokenLedger), and the count of calls per date  *)
(* that all instances share.  Time is counted in ticks; a ledger entry     *)
(* leaves after Window of them.                                            *)
(***************************************************************************)
EXTENDS Integers, FiniteSets

CONSTANTS
    Instances,
    Requests,
    Estimate,       \* demo_call_token_estimate
    Ceiling,        \* demo_ceiling_tokens of one instance
    Costs,          \* what an answer may cost
    Budgets,        \* what _effective_demo_daily_budget may say
    Window,
    Holds,          \* how long a refusal by the model may hold the demo off
    Mishaps         \* bound: restarts and refusals by the model

ASSUME GateAssumption ==
    /\ Estimate \in Nat /\ Ceiling \in Nat /\ Costs \subseteq Nat
    /\ Budgets \subseteq Int /\ Window \in Nat \ {0} /\ Holds \subseteq 1..Window
    /\ Mishaps \in Nat
    /\ IsFiniteSet(Instances) /\ IsFiniteSet(Requests)

VARIABLES
    ledger,      \* per instance, the requests with an entry
    tokens,      \* what the entry of a request says
    left,        \* ticks until it leaves the window, which orders the entries
    hold,        \* ticks that a refusal by the model still holds an instance's demo off
    pc,          \* where a request is
    units,       \* the calls counted today
    passed,      \* ghost: the calls let through today
    allowed,     \* ghost: the largest budget that let one through, at least one
    cost,        \* ghost: the tokens that a request has used in the window
    promise,     \* ghost: ticks until a visitor who was refused may return, if undisturbed
    restarts,    \* ghost: processes that have lost their ledger
    mishaps

day == <<units, passed, allowed>>
vars == <<ledger, tokens, left, hold, pc, day, cost, promise, restarts, mishaps>>

None == Window + 1

Init ==
    /\ ledger = [i \in Instances |-> {}] /\ hold = [i \in Instances |-> 0]
    /\ tokens = [r \in Requests |-> 0] /\ left = [r \in Requests |-> 0]
    /\ pc = [r \in Requests |-> "idle"]
    /\ units = 0 /\ passed = 0 /\ allowed = 1
    /\ cost = [r \in Requests |-> 0]
    /\ promise = [i \in Instances |-> None]
    /\ restarts = 0 /\ mishaps = Mishaps

-----------------------------------------------------------------------------
\* The sum of n over S, which counts the pieces <<r, 1>> to <<r, n[r]>> of each member.
Pieces(n, S) == UNION {{r} \X (1..n[r]) : r \in S}

Total(n, S) == Cardinality(Pieces(n, S))

Larger(m, n) == IF m < n THEN n ELSE m

Smaller(m, n) == IF m < n THEN m ELSE n

\* try_admit and retry_after_seconds.

\* The requests with an entry in t ticks.
Held(i, t) == {r \in ledger[i] : left[r] > t}

\* Does one more estimate fit in t ticks, if nothing else happens?
Room(i, t) == Total(tokens, Held(i, t)) + Estimate <= Ceiling

Admits(i) == hold[i] = 0 /\ Room(i, 0)

\* The tick at which enough of the oldest entries have left.
RoomIn(i) == CHOOSE t \in 0..Window : Room(i, t) /\ \A s \in 0..(t - 1) : ~Room(i, s)

\* Mutant: the hint looks at the window only.
WindowHint(i) == Larger(1, RoomIn(i))

\* An estimate beyond the ceiling never fits, whatever leaves.
RetryAfter(i) ==
    IF Estimate > Ceiling THEN Window
    ELSE Larger(hold[i], RoomIn(i))

\* What the ledger promised is void when it gets fuller than it was.
Void(i) == promise' = [promise EXCEPT ![i] = None]

Unused == {r \in Requests : pc[r] = "idle" /\ left[r] = 0}

\* A request comes that the cache cannot answer.  (Requests differ in their names only, so
\* which of the free ones it is makes no difference.)
Admit(r, i) ==
    /\ r \in Unused /\ r = CHOOSE s \in Unused : TRUE
    /\ Admits(i)
    /\ ledger' = [ledger EXCEPT ![i] = @ \cup {r}]
    /\ tokens' = [tokens EXCEPT ![r] = Estimate] /\ left' = [left EXCEPT ![r] = Window]
    /\ cost' = [cost EXCEPT ![r] = 0]
    /\ pc' = [pc EXCEPT ![r] = "checking"]
    /\ Void(i)
    /\ UNCHANGED <<hold, day, restarts, mishaps>>

\* (One visitor is followed at a time: whom a hint was given changes nothing else.)
TurnAway(i) ==
    /\ ~Admits(i) /\ \A j \in Instances : promise[j] = None
    /\ promise' = [promise EXCEPT ![i] = RetryAfter(i)]
    /\ UNCHANGED <<ledger, tokens, left, hold, pc, day, cost, restarts, mishaps>>
-----------------------------------------------------------------------------
\* check_and_increment_demo_request_pg, one conditional upsert.

\* Mutant: the comparison is off by one.
OneMoreUnit(b) == units <= b

\* A date's first call inserts the row, whatever the budget.
UnitFree(b) == units = 0 \/ units < b

Stay(r, place) == pc' = [pc EXCEPT ![r] = place]

Settle(r, n) == tokens' = [tokens EXCEPT ![r] = n]

\* Every call looks the budget up anew: the default, or an override until it expires, as
\* its process was configured.
TakeUnit(r) ==
    /\ pc[r] = "checking"
    /\ \E b \in Budgets :
          /\ UnitFree(b)
          /\ allowed' = Larger(allowed, b)
    /\ units' = units + 1 /\ passed' = passed + 1
    /\ Stay(r, "calling")
    /\ UNCHANGED <<ledger, tokens, left, hold, cost, promise, restarts, mishaps>>

\* The budget is exhausted, or the check failed, perhaps after it counted; the
\* reserved tokens are released.
NoUnit(r) ==
    /\ pc[r] = "checking"
    /\ \E b \in Budgets :
          \/ ~UnitFree(b) /\ UNCHANGED <<units, mishaps>>
          \/ /\ mishaps > 0 /\ mishaps' = mishaps - 1
             /\ units' \in {units} \cup {n \in {units + 1} : UnitFree(b)}
    /\ Settle(r, 0)
    /\ Stay(r, "idle")
    /\ UNCHANGED <<ledger, left, hold, passed, allowed, cost, promise, restarts>>

\* CURRENT_DATE changes.
NextDay ==
    /\ units > 0 /\ units' = 0 /\ passed' = 0 /\ allowed' = 1
    /\ UNCHANGED <<ledger, tokens, left, hold, pc, cost, promise, restarts, mishaps>>
-----------------------------------------------------------------------------
\* The call, whose tokens the ledger learns when it is answered.  (What a failover does
\* not report, see TokensTold in ModelCalls, is not among the costs.)

Answer(r) ==
    /\ pc[r] = "calling"
    /\ \E n \in Costs :
          /\ cost' = [cost EXCEPT ![r] = n]
          /\ Settle(r, n)
          /\ promise' = [i \in Instances |->
                            IF n > Estimate /\ r \in ledger[i] THEN None ELSE promise[i]]
    /\ Stay(r, "idle")
    /\ UNCHANGED <<ledger, left, hold, day, restarts, mishaps>>

\* Mutant: a failed call gives its tokens back.
Refunded(r) == 0

AfterFailure(r) == tokens[r]

\* The call fails, although it may have used tokens.
Break(r) ==
    /\ pc[r] = "calling"
    /\ \E n \in Costs \cup {0} : cost' = [cost EXCEPT ![r] = n]
    /\ Settle(r, AfterFailure(r))
    /\ Stay(r, "idle")
    /\ UNCHANGED <<ledger, left, hold, day, promise, restarts, mishaps>>

\* The model refuses some call of an instance for the tokens of its day.
Limited(i) ==
    /\ mishaps > 0 /\ mishaps' = mishaps - 1
    /\ \E h \in Holds : hold' = [hold EXCEPT ![i] = Larger(@, h)]
    /\ Void(i)
    /\ UNCHANGED <<ledger, tokens, left, pc, day, cost, restarts>>

\* A new process takes an instance's place; calls of the old one may have used tokens.
Restart(i) ==
    /\ mishaps > 0 /\ mishaps' = mishaps - 1
    /\ restarts' = restarts + 1
    /\ ledger' = [ledger EXCEPT ![i] = {}] /\ hold' = [hold EXCEPT ![i] = 0]
    /\ \E n \in Costs \cup {0} :
          cost' = [r \in Requests |-> IF r \in ledger[i] /\ pc[r] = "calling" THEN n ELSE cost[r]]
    /\ pc' = [r \in Requests |-> IF r \in ledger[i] THEN "idle" ELSE pc[r]]
    /\ tokens' = [r \in Requests |-> IF r \in ledger[i] THEN 0 ELSE tokens[r]]
    /\ UNCHANGED <<left, day, promise>>
-----------------------------------------------------------------------------
Less(n) == IF n = 0 THEN 0 ELSE n - 1

\* Mutant: a hold lasts until a call succeeds.
UntilServed(i) == hold[i]

\* blocked_for, a tick later.
HoldLeft(i) == Less(hold[i])

\* _prune: what stays when a tick passes.
Kept(i) == Held(i, 1)

\* (A request ends long before its entry leaves.)
Tick ==
    /\ \/ \E r \in Requests : left[r] > 0
       \/ \E i \in Instances : hold[i] > 0 \/ promise[i] \notin {0, None}
    /\ \A r \in Requests : pc[r] # "idle" => left[r] > 1
    /\ ledger' = [i \in Instances |-> Kept(i)]
    /\ left' = [r \in Requests |-> Less(left[r])]
    /\ hold' = [i \in Instances |-> HoldLeft(i)]
    /\ promise' = [i \in Instances |-> IF promise[i] = None THEN None ELSE Less(promise[i])]
    /\ tokens' = [r \in Requests |-> IF left[r] > 1 THEN tokens[r] ELSE 0]
    /\ cost' = [r \in Requests |-> IF left[r] > 1 THEN cost[r] ELSE 0]
    /\ UNCHANGED <<pc, day, restarts, mishaps>>

Next == \/ \E r \in Requests, i \in Instances : Admit(r, i)
        \/ \E r \in Requests : TakeUnit(r) \/ NoUnit(r) \/ Answer(r) \/ Break(r)
        \/ \E i \in Instances : TurnAway(i) \/ Limited(i) \/ Restart(i)
        \/ NextDay
        \/ Tick

Spec == Init /\ [][Next]_vars

\* Time passes, and requests end: the call has a timeout.
FairSpec ==
    /\ Spec
    /\ WF_vars(Tick)
    /\ WF_vars(\E r \in Requests : TakeUnit(r) \/ NoUnit(r) \/ Answer(r) \/ Break(r))

-----------------------------------------------------------------------------
Places == {"idle", "checking", "calling"}

\* Every variable has its type.
TypeOK ==
    /\ ledger \in [Instances -> SUBSET Requests]
    /\ tokens \in [Requests -> Nat] /\ cost \in [Requests -> Nat]
    /\ left \in [Requests -> 0..Window] /\ hold \in [Instances -> 0..Window]
    /\ pc \in [Requests -> Places]
    /\ units \in Nat /\ passed \in Nat /\ allowed \in Int
    /\ promise \in [Instances -> 0..None]
    /\ restarts \in 0..Mishaps /\ mishaps \in 0..Mishaps

\* However the checks of the instances and their failures interleave, and whatever each of
\* them takes for the budget, no date lets more calls through than the largest budget that
\* let one of them through, or one, as the first passes under any budget.
DayKept == passed <= allowed

\* "The fleet total can then never exceed pool * share": what the demo used in the window
\* stays below the ceilings of the instances, but for what an answer uses beyond its
\* estimate and for the ledgers that restarts emptied, each worth one more ceiling.
FleetShare ==
    Total([r \in Requests |-> Smaller(cost[r], Estimate)], {r \in Requests : left[r] > 0})
        <= (Cardinality(Instances) + restarts) * Ceiling

\* A visitor who is refused for the window and returns when told finds room, unless
\* somebody else took it, an answer used more than its estimate or the model refused
\* a call meanwhile.  (An estimate beyond the ceiling finds room never.)
HintHonest == Estimate <= Ceiling => \A i \in Instances : promise[i] = 0 => Admits(i)

\* Whatever is admitted, refused, released, failed or held off, every instance's demo has
\* room for a visitor again and again.
Reopens == \A i \in Instances : []<>Admits(i)
=============================================================================
