----------------------------- MODULE ModelCalls -----------------------------
(***************************************************************************)
(* How an instance asks the model for its extractions (extract_with_llm):  *)
(* the small model first, the large one for what it got wrong or doubts, a *)
(* second account when the first is out, every call of a bulk job through  *)
(* a semaphore and a token bucket that all bulk jobs share.                *)
(***************************************************************************)
EXTENDS Integers, FiniteSets

CONSTANTS
    Extractions,
    Bulk,             \* those of ingest drains and ticks; the others do not wait
    MaxRetries,       \* llm_max_retries
    MaxConcurrency,   \* bulk_llm_max_concurrency
    Period,           \* ticks in which the bucket earns one call
    Troubled          \* bound: extractions whose calls may be refused or answered badly

ASSUME CallsAssumption ==
    /\ IsFiniteSet(Extractions) /\ Bulk \subseteq Extractions
    /\ Troubled \subseteq Extractions
    /\ MaxRetries \in Nat
    /\ MaxConcurrency \in Nat \ {0} /\ Period \in Nat \ {0}

VARIABLES
    tiered,      \* enable_tiered_routing
    backed,      \* a second account is configured
    pc,          \* where each extraction is
    tier,        \* whom it asks
    tries, errs, \* attempts and API errors in this tier
    first,       \* what the small model's answer was worth
    paid,        \* tiers whose answers cost tokens
    told,        \* ... and those the result reports
    degraded,    \* the result is marked as degraded
    slots,       \* free places of the semaphore
    credit,      \* what the bucket has earned, in ticks
    nap,         \* what is left of the sleep of the one that holds the bucket
    gap,         \* ghost: ticks since the last bulk call, up to Period
    capped       \* ghost: the large model's last refusal was a quota

work == <<pc, tier, tries, errs, first, paid, told, degraded, capped>>
limiter == <<slots, credit, nap, gap>>
settings == <<tiered, backed>>
vars == <<settings, work, limiter>>

Tiers == {"small", "large", "primary", "secondary"}
Over == {"done", "failed", "broken"}

Start == IF tiered THEN "small" ELSE "primary"

Init ==
    /\ tiered \in BOOLEAN /\ backed \in BOOLEAN
    /\ pc = [e \in Extractions |-> "idle"]
    /\ tier = [e \in Extractions |-> Start]
    /\ tries = [e \in Extractions |-> 0] /\ errs = [e \in Extractions |-> 0]
    /\ first = [e \in Extractions |-> "none"]
    /\ paid = [e \in Extractions |-> {}] /\ told = [e \in Extractions |-> {}]
    /\ degraded = [e \in Extractions |-> FALSE]
    /\ slots = MaxConcurrency
    /\ credit = Period /\ nap = 0 /\ gap = Period
    /\ capped = [e \in Extractions |-> FALSE]

-----------------------------------------------------------------------------
\* llm_call_slot: a place among the bulk calls, then a token.

\* Where an extraction goes for its next call.
Entrance(e) == IF e \in Bulk THEN "queued" ELSE "calling"

\* extract_with_llm begins.
Begin(e) ==
    /\ pc[e] \in Over \cup {"idle"}
    /\ pc' = [pc EXCEPT ![e] = Entrance(e)]
    /\ tier' = [tier EXCEPT ![e] = Start]
    /\ tries' = [tries EXCEPT ![e] = 0] /\ errs' = [errs EXCEPT ![e] = 0]
    /\ first' = [first EXCEPT ![e] = "none"]
    /\ paid' = [paid EXCEPT ![e] = {}] /\ told' = [told EXCEPT ![e] = {}]
    /\ degraded' = [degraded EXCEPT ![e] = FALSE]
    /\ capped' = [capped EXCEPT ![e] = FALSE]
    /\ UNCHANGED <<settings, limiter>>

Move(e, place) ==
    /\ pc' = [pc EXCEPT ![e] = place]
    /\ UNCHANGED <<settings, tier, tries, errs, first, paid, told, degraded, capped>>

Enter(e) ==
    /\ pc[e] = "queued" /\ slots > 0
    /\ slots' = slots - 1
    /\ Move(e, "pacing")
    /\ UNCHANGED <<credit, nap, gap>>

Asleep == \E e \in Extractions : pc[e] = "sleeping"

\* TokenBucket.acquire, one caller at a time: there is a token ...
Take(e) ==
    /\ pc[e] = "pacing" /\ ~Asleep
    /\ credit = Period
    /\ credit' = 0 /\ gap' = 0
    /\ Move(e, "calling")
    /\ UNCHANGED <<slots, nap>>

\* ... or the caller sleeps for what is missing, and keeps the others out.
Sleep(e) ==
    /\ pc[e] = "pacing" /\ ~Asleep
    /\ credit < Period
    /\ nap' = Period - credit
    /\ Move(e, "sleeping")
    /\ UNCHANGED <<slots, credit, gap>>

\* Mutant: the token that was earned in the sleep stays in the bucket.
KeptCredit == credit

CreditAfterSleep == 0

Wake(e) ==
    /\ pc[e] = "sleeping" /\ nap = 0
    /\ credit' = CreditAfterSleep
    /\ gap' = 0
    /\ Move(e, "calling")
    /\ UNCHANGED <<slots, nap>>

Smaller(a, b) == IF a < b THEN a ELSE b

\* Time passes; a sleeper may wake late.
Tick ==
    /\ credit < Period \/ nap > 0 \/ gap < Period
    /\ credit' = Smaller(credit + 1, Period)
    /\ gap' = Smaller(gap + 1, Period)
    /\ nap' = IF nap > 0 THEN nap - 1 ELSE 0
    /\ UNCHANGED <<settings, work, slots>>
-----------------------------------------------------------------------------
\* What a call comes to.  The place of the semaphore is given back in the same step.

Valid == {"good", "weak"}

GiveBack(e) == IF e \in Bulk THEN slots + 1 ELSE slots

\* The next tier, from its first attempt.
Ask(e, t) ==
    /\ pc' = [pc EXCEPT ![e] = Entrance(e)]
    /\ tier' = [tier EXCEPT ![e] = t]
    /\ tries' = [tries EXCEPT ![e] = 0] /\ errs' = [errs EXCEPT ![e] = 0]
    /\ UNCHANGED <<told, degraded>>

Stop(e, place) ==
    /\ pc' = [pc EXCEPT ![e] = place]
    /\ UNCHANGED <<tier, tries, errs, told, degraded>>

Return(e, calls, marked) ==
    /\ pc' = [pc EXCEPT ![e] = "done"]
    /\ told' = [told EXCEPT ![e] = calls]
    /\ degraded' = [degraded EXCEPT ![e] = marked]
    /\ UNCHANGED <<tier, tries, errs>>

ThisCall(e) == <<tier[e], tries[e]>>

\* Mutant: an escalation reports the tokens of the large model only.
LargeOnly(e) == {ThisCall(e)}

\* What a routed result reports: its own tokens, and those of the small model.
Routed(e) == {c \in paid[e] : c[1] = "small"} \cup {ThisCall(e)}

\* Mutant: the second account is asked through the same two models again.
StartOver(e) == Ask(e, Start)

\* The second account, if there is one.
FailOver(e) == IF backed THEN Ask(e, "secondary") ELSE Stop(e, "failed")

\* Mutant: whatever fails the large model, the small answer will do.
AnyFailure(e, quota) == tier[e] = "large" /\ first[e] \in Valid

\* A doubtful small answer serves when the large model is out of quota.
Serves(e, quota) == tier[e] = "large" /\ quota /\ first[e] \in Valid

\* No attempt is left in this tier.
Exhaust(e, quota) ==
    \/ tier[e] = "small" /\ Ask(e, "large")
    \/ Serves(e, quota) /\ Return(e, paid[e], TRUE)
    \/ tier[e] = "large" /\ ~Serves(e, quota) /\ FailOver(e)
    \/ tier[e] = "primary" /\ FailOver(e)
    \/ tier[e] = "secondary" /\ Stop(e, "failed")

\* A second API error ends the tier, and so does the last attempt.
MayRetry(e) == tier[e] # "secondary" /\ tries[e] < MaxRetries /\ errs[e] = 0

Retry(e, error) ==
    /\ pc' = [pc EXCEPT ![e] = Entrance(e)]
    /\ tries' = [tries EXCEPT ![e] = @ + 1]
    /\ errs' = [errs EXCEPT ![e] = @ + error]
    /\ UNCHANGED <<tier, told, degraded>>

\* An answer, by what it is worth: valid, valid with a reason to escalate, or malformed.
\* The router parses after its loop of attempts, so it tries no malformed answer again,
\* and one of the large model leaves extract_with_llm as the parser's error.
Answer(e, worth) ==
    /\ pc[e] = "calling"
    /\ worth # "good" => e \in Troubled
    /\ paid' = [paid EXCEPT ![e] = @ \cup {ThisCall(e)}]
    /\ first' = IF tier[e] = "small" THEN [first EXCEPT ![e] = worth] ELSE first
    /\ slots' = GiveBack(e)
    /\ \/ tier[e] = "small" /\ worth # "good" /\ Ask(e, "large")
       \/ tier[e] = "small" /\ worth = "good" /\ Return(e, {ThisCall(e)}, FALSE)
       \/ tier[e] = "large" /\ worth \in Valid /\ Return(e, Routed(e), FALSE)
       \/ tier[e] = "large" /\ worth = "bad" /\ Stop(e, "broken")
       \/ tier[e] \in {"primary", "secondary"} /\ worth \in Valid
          /\ Return(e, {ThisCall(e)}, FALSE)
       \/ tier[e] = "primary" /\ worth = "bad"
          /\ IF tries[e] < MaxRetries THEN Retry(e, 0) ELSE FailOver(e)
       \/ tier[e] = "secondary" /\ worth = "bad" /\ Stop(e, "failed")
    /\ UNCHANGED <<settings, capped, credit, nap, gap>>

\* An API error, which may be a quota, or (of another kind) one that is not retried.
Refuse(e, quota, fatal) ==
    /\ pc[e] = "calling" /\ e \in Troubled
    /\ quota => ~fatal
    /\ capped' = [capped EXCEPT ![e] = quota /\ tier[e] = "large"]
    /\ slots' = GiveBack(e)
    /\ IF MayRetry(e) /\ ~fatal THEN Retry(e, 1) ELSE Exhaust(e, quota)
    /\ UNCHANGED <<settings, first, paid, credit, nap, gap>>

Outcome(e) ==
    \/ \E worth \in {"good", "weak", "bad"} : Answer(e, worth)
    \/ \E quota, fatal \in BOOLEAN : Refuse(e, quota, fatal)

Next == \/ \E e \in Extractions :
              Begin(e) \/ Enter(e) \/ Take(e) \/ Sleep(e) \/ Wake(e) \/ Outcome(e)
        \/ Tick

Spec == Init /\ [][Next]_vars

\* Time passes, every call ends (it has a timeout), and semaphore and lock of asyncio
\* serve their waiters in order, so none of them is passed over for ever.
FairSpec ==
    /\ Spec
    /\ WF_vars(Tick)
    /\ \A e \in Extractions :
          /\ SF_vars(Enter(e)) /\ SF_vars(Take(e) \/ Sleep(e))
          /\ WF_vars(Wake(e)) /\ WF_vars(Outcome(e))

-----------------------------------------------------------------------------
Places == {"idle", "queued", "pacing", "sleeping", "calling"} \cup Over

Calls == Tiers \X (0..MaxRetries)

\* Every variable has its type; no tier is asked a third time after API errors.
TypeOK ==
    /\ tiered \in BOOLEAN /\ backed \in BOOLEAN
    /\ pc \in [Extractions -> Places] /\ tier \in [Extractions -> Tiers]
    /\ tries \in [Extractions -> 0..MaxRetries] /\ errs \in [Extractions -> 0..1]
    /\ first \in [Extractions -> Valid \cup {"none", "bad"}]
    /\ paid \in [Extractions -> SUBSET Calls] /\ told \in [Extractions -> SUBSET Calls]
    /\ degraded \in [Extractions -> BOOLEAN] /\ capped \in [Extractions -> BOOLEAN]
    /\ slots \in 0..MaxConcurrency
    /\ credit \in 0..Period /\ nap \in 0..Period /\ gap \in 0..Period

\* An answer that the policy doubts is returned only with the mark, and the mark is only
\* set when the large model was asked for it and was out of quota.
DegradedIsHonest ==
    \A e \in Extractions : pc[e] = "done" =>
        /\ degraded[e] => first[e] = "weak" /\ capped[e]
        /\ ~degraded[e] /\ tier[e] = "small" => first[e] = "good"

\* A routed result reports the tokens of every answer that its account was paid for.  (An
\* answer of the second account forgets those of the first, and without tiers a retry
\* those of the answers it replaces.)
TokensTold ==
    \A e \in Extractions : pc[e] = "done" /\ tier[e] # "primary" =>
        told[e] = {c \in paid[e] : c[1] = "secondary" <=> tier[e] = "secondary"}

Inside == {e \in Bulk : pc[e] \in {"pacing", "sleeping", "calling"}}

\* Every place of the semaphore is free or held by one bulk extraction, however its calls
\* end: no more bulk calls are under way than the limit says, and no place is lost.
SlotsCounted == slots + Cardinality(Inside) = MaxConcurrency

\* The bulk calls of all extractions together, retries and escalations included, keep the
\* period of the bucket.
RateKept ==
    [][\A e \in Bulk : pc[e] # "calling" /\ pc'[e] = "calling" => gap = Period]_vars

\* Every extraction comes to an end, however many others queue for the same places and
\* tokens, for ever anew.
EveryCallEnds == \A e \in Extractions : pc[e] # "idle" ~> pc[e] \in Over
=============================================================================
