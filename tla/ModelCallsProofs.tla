-------------------------- MODULE ModelCallsProofs --------------------------
(***************************************************************************)
(* The calls to the model, for any extractions, retries, limits and rates. *)
(* The semaphore is a counting argument; the rest follows what an          *)
(* extraction has in hand at each tier, and the bucket's credit, which is  *)
(* what has passed since the last bulk call.                               *)
(***************************************************************************)
EXTENDS ModelCalls, FiniteSetTheorems, TLAPS

Active == {"queued", "pacing", "sleeping", "calling"}

\* What an extraction has in hand before its next call at each tier.
InHand(e) ==
    pc[e] \in Active =>
        /\ tier[e] = "small" => paid[e] = {} /\ first[e] = "none"
        /\ tier[e] = "large" => first[e] # "good" /\ \A c \in paid[e] : c[1] = "small"
        /\ tier[e] = "primary" => \A c \in paid[e] : c[1] = "primary"
        /\ tier[e] = "secondary" => \A c \in paid[e] : c[1] # "secondary"

\* What it returns.
Honest(e) ==
    pc[e] = "done" =>
        /\ degraded[e] => first[e] = "weak" /\ capped[e]
        /\ ~degraded[e] /\ tier[e] = "small" => first[e] = "good"

Told(e) ==
    pc[e] = "done" /\ tier[e] # "primary" =>
        told[e] = {c \in paid[e] : c[1] = "secondary" <=> tier[e] = "secondary"}

Good(e) == InHand(e) /\ Honest(e) /\ Told(e)

\* The bucket: one sleeper at a time, and what it waits for makes up the period.
Paced ==
    /\ credit = gap
    /\ \A d, e \in Extractions : pc[d] = "sleeping" /\ pc[e] = "sleeping" => d = e
    /\ Asleep => nap + gap >= Period

\* Only bulk extractions wait.
OnlyBulkWaits == \A e \in Extractions : pc[e] \in {"queued", "pacing", "sleeping"} => e \in Bulk

IInv == TypeOK /\ SlotsCounted /\ OnlyBulkWaits /\ (\A e \in Extractions : Good(e)) /\ Paced

-----------------------------------------------------------------------------
\* Counting those inside the semaphore.
LEMMA InsideFinite == IsFiniteSet(Inside) /\ Cardinality(Inside) \in Nat
BY FS_Subset, FS_CardinalityType, CallsAssumption DEF Inside

LEMMA GoesIn ==
    ASSUME NEW e, e \notin Inside, Inside' = Inside \cup {e}
    PROVE  Cardinality(Inside') = Cardinality(Inside) + 1
BY InsideFinite, FS_AddElement

LEMMA GoesOut ==
    ASSUME NEW e, e \in Inside, Inside' = Inside \ {e}
    PROVE  Cardinality(Inside') = Cardinality(Inside) - 1
BY InsideFinite, FS_RemoveElement

\* The place that an extraction goes to for its next call is outside.
LEMMA EntranceOutside ==
    ASSUME NEW e \in Extractions
    PROVE  /\ Entrance(e) \in {"queued", "calling"}
           /\ e \in Bulk => Entrance(e) = "queued"
BY DEF Entrance

-----------------------------------------------------------------------------
\* Every outcome of a call moves its extraction to the entrance or to an end.
LEMMA OutcomeMoves ==
    ASSUME IInv, NEW e \in Extractions, Outcome(e)
    PROVE  /\ pc[e] = "calling"
           /\ \E p \in Over \cup {Entrance(e)} : pc' = [pc EXCEPT ![e] = p]
           /\ slots' = GiveBack(e)
           /\ UNCHANGED <<settings, credit, nap, gap>>
<1>1. CASE \E w \in {"good", "weak", "bad"} : Answer(e, w)
  BY <1>1 DEF Answer, Ask, Return, Stop, Retry, FailOver, Over
<1>2. CASE \E quota, fatal \in BOOLEAN : Refuse(e, quota, fatal)
  BY <1>2 DEF Refuse, Exhaust, Ask, Return, Stop, Retry, FailOver, Over
<1> QED BY <1>1, <1>2 DEF Outcome

-----------------------------------------------------------------------------
\* The semaphore.

LEMMA SlotsStep == ASSUME IInv, [Next]_vars PROVE SlotsCounted' /\ slots' \in 0..MaxConcurrency
<1> USE CallsAssumption DEF IInv
<1>0. slots \in 0..MaxConcurrency /\ pc \in [Extractions -> Places]
  BY DEF TypeOK
<1>a. ASSUME slots' = slots, Inside' = Inside PROVE SlotsCounted' /\ slots' \in 0..MaxConcurrency
  BY <1>0, <1>a DEF SlotsCounted
<1>1. ASSUME NEW e \in Extractions, Begin(e) PROVE SlotsCounted' /\ slots' \in 0..MaxConcurrency
  <2>1. PICK p \in {"queued", "calling"} :
            pc' = [pc EXCEPT ![e] = p] /\ (e \in Bulk => p = "queued")
    BY <1>1, EntranceOutside DEF Begin
  <2>2. \A d \in Bulk : d \in Inside' <=> d \in Inside
    BY <1>0, <1>1, <2>1, CallsAssumption DEF Begin, Inside, Over
  <2>3. Inside' = Inside
    BY <2>2 DEF Inside
  <2> QED BY <2>3, <1>1, <1>a DEF Begin, limiter
<1>2. ASSUME NEW e \in Extractions, Enter(e)
      PROVE SlotsCounted' /\ slots' \in 0..MaxConcurrency
  <2>1. e \notin Inside /\ Inside' = Inside \cup {e}
    BY <1>0, <1>2 DEF Enter, Move, Inside, OnlyBulkWaits
  <2> QED BY <1>0, <1>2, <2>1, GoesIn, InsideFinite DEF Enter, SlotsCounted
<1>3. ASSUME NEW e \in Extractions, Take(e) \/ Sleep(e) \/ Wake(e)
      PROVE SlotsCounted' /\ slots' \in 0..MaxConcurrency
  <2>1. \A d \in Bulk : d \in Inside' <=> d \in Inside
    BY <1>0, <1>3, CallsAssumption DEF Take, Sleep, Wake, Move, Inside
  <2>2. Inside' = Inside
    BY <2>1 DEF Inside
  <2> QED BY <2>2, <1>3, <1>a DEF Take, Sleep, Wake
<1>4. ASSUME NEW e \in Extractions, Outcome(e)
      PROVE SlotsCounted' /\ slots' \in 0..MaxConcurrency
  <2>1. pc[e] = "calling" /\ slots' = GiveBack(e)
    BY <1>4, OutcomeMoves
  <2>2. PICK p \in Over \cup {Entrance(e)} : pc' = [pc EXCEPT ![e] = p]
    BY <1>4, OutcomeMoves
  <2>3. CASE e \in Bulk
    <3>1. e \in Inside /\ Inside' = Inside \ {e}
      BY <1>0, <2>1, <2>2, <2>3, EntranceOutside DEF Inside, Over
    <3>2. Cardinality(Inside') = Cardinality(Inside) - 1
      BY <3>1, GoesOut
    <3>3. Cardinality(Inside') \in Nat
      <4>1. IsFiniteSet(Inside')
        BY <3>1, InsideFinite, FS_RemoveElement
      <4> QED BY <4>1, FS_CardinalityType
    <3>4. slots' = slots + 1
      BY <2>1, <2>3 DEF GiveBack
    <3>5. SlotsCounted' <=> slots' + Cardinality(Inside') = MaxConcurrency
      BY DEF SlotsCounted
    <3>6. slots + Cardinality(Inside) = MaxConcurrency
      BY DEF SlotsCounted
    <3>7. slots \in Nat /\ MaxConcurrency \in Nat /\ Cardinality(Inside) \in Nat
      BY <1>0, InsideFinite
    <3> HIDE DEF IInv
    <3> QED BY ONLY <3>2, <3>3, <3>4, <3>5, <3>6, <3>7
  <2>4. CASE e \notin Bulk
    <3>1. Inside' = Inside
      BY <1>0, <2>2, <2>4 DEF Inside
    <3> QED BY <2>1, <2>4, <3>1, <1>a DEF GiveBack
  <2> QED BY <2>3, <2>4
<1>5. ASSUME Tick \/ UNCHANGED vars PROVE SlotsCounted' /\ slots' \in 0..MaxConcurrency
  <2>1. Inside' = Inside /\ slots' = slots
    BY <1>5 DEF Tick, vars, work, limiter, Inside
  <2> QED BY <2>1, <1>a
<1> QED BY <1>1, <1>2, <1>3, <1>4, <1>5 DEF Next
-----------------------------------------------------------------------------
\* The types.

LEMMA RestTyped ==
    ASSUME IInv, [Next]_vars
    PROVE  /\ tiered' \in BOOLEAN /\ backed' \in BOOLEAN
           /\ credit' \in 0..Period /\ nap' \in 0..Period /\ gap' \in 0..Period
<1> USE CallsAssumption DEF IInv, TypeOK
<1>1. ASSUME NEW e \in Extractions,
             Begin(e) \/ Enter(e) \/ Take(e) \/ Sleep(e) \/ Wake(e)
      PROVE  /\ tiered' \in BOOLEAN /\ backed' \in BOOLEAN
             /\ credit' \in 0..Period /\ nap' \in 0..Period /\ gap' \in 0..Period
  BY <1>1 DEF Begin, Enter, Take, Sleep, Wake, CreditAfterSleep, Move, settings, limiter
<1>2. ASSUME NEW e \in Extractions, Outcome(e)
      PROVE  /\ tiered' \in BOOLEAN /\ backed' \in BOOLEAN
             /\ credit' \in 0..Period /\ nap' \in 0..Period /\ gap' \in 0..Period
  BY <1>2, OutcomeMoves DEF settings
<1>3. CASE Tick
  BY <1>3 DEF Tick, Smaller, settings
<1>4. CASE UNCHANGED vars
  BY <1>4 DEF vars, settings, limiter
<1> QED BY <1>1, <1>2, <1>3, <1>4 DEF Next

WorkTyped ==
    /\ pc \in [Extractions -> Places] /\ tier \in [Extractions -> Tiers]
    /\ tries \in [Extractions -> 0..MaxRetries] /\ errs \in [Extractions -> 0..1]
    /\ first \in [Extractions -> Valid \cup {"none", "bad"}]
    /\ paid \in [Extractions -> SUBSET Calls] /\ told \in [Extractions -> SUBSET Calls]
    /\ degraded \in [Extractions -> BOOLEAN] /\ capped \in [Extractions -> BOOLEAN]

\* The next tier is one, and the calls that a result reports are calls.
LEMMA CallsTyped ==
    ASSUME TypeOK, NEW e \in Extractions
    PROVE  /\ Start \in Tiers /\ Entrance(e) \in Places
           /\ ThisCall(e) \in Calls
           /\ Routed(e) \in SUBSET Calls
           /\ 0 \in 0..MaxRetries
BY CallsAssumption DEF TypeOK, Start, Tiers, Entrance, Places, ThisCall, Routed, Calls

LEMMA WorkStep == ASSUME IInv, [Next]_vars PROVE WorkTyped'
<1> USE CallsAssumption
<1>0. TypeOK /\ WorkTyped
  BY DEF IInv, TypeOK, WorkTyped
<1>1. ASSUME NEW e \in Extractions, Begin(e) PROVE WorkTyped'
  BY <1>0, <1>1, CallsTyped DEF Begin, WorkTyped
<1>2. ASSUME NEW e \in Extractions, Enter(e) \/ Take(e) \/ Sleep(e) \/ Wake(e) PROVE WorkTyped'
  BY <1>0, <1>2 DEF Enter, Take, Sleep, Wake, Move, WorkTyped, Places
<1>3. ASSUME NEW e \in Extractions, Outcome(e) PROVE WorkTyped'
  <2> DEFINE Rest == /\ pc' \in [Extractions -> Places] /\ tier' \in [Extractions -> Tiers]
                     /\ tries' \in [Extractions -> 0..MaxRetries]
                     /\ errs' \in [Extractions -> 0..1]
                     /\ told' \in [Extractions -> SUBSET Calls]
                     /\ degraded' \in [Extractions -> BOOLEAN]
  <2>1. ASSUME NEW t \in Tiers, Ask(e, t) PROVE Rest
    BY <1>0, <2>1, CallsTyped DEF Ask, WorkTyped
  <2>2. ASSUME NEW p \in Places, Stop(e, p) PROVE Rest
    BY <1>0, <2>2 DEF Stop, WorkTyped
  <2>3. ASSUME NEW C \in SUBSET Calls, NEW m \in BOOLEAN, Return(e, C, m) PROVE Rest
    BY <1>0, <2>3 DEF Return, WorkTyped, Places, Over
  <2>4. ASSUME NEW n \in 0..1, tries[e] < MaxRetries, errs[e] + n \in 0..1, Retry(e, n)
        PROVE  Rest
    <3>1. tries[e] \in 0..MaxRetries /\ tries[e] + 1 \in 0..MaxRetries
      BY <1>0, <2>4 DEF WorkTyped
    <3> QED BY <1>0, <2>4, <3>1, CallsTyped DEF Retry, WorkTyped
  <2>5. ASSUME FailOver(e) PROVE Rest
    BY <2>5, <2>1, <2>2 DEF FailOver, Tiers, Places, Over
  <2>6. errs[e] \in 0..1 /\ paid[e] \in SUBSET Calls
    BY <1>0 DEF WorkTyped
  <2>7. {"large"} \subseteq Tiers /\ {"failed", "broken"} \subseteq Places
    BY DEF Tiers, Places, Over
  <2>8. {ThisCall(e)} \in SUBSET Calls /\ Routed(e) \in SUBSET Calls
    BY <1>0, CallsTyped
  <2>9. ASSUME NEW w \in {"good", "weak", "bad"}, Answer(e, w) PROVE WorkTyped'
    <3>1. Rest
      <4>1. CASE Ask(e, "large")
        BY <4>1, <2>1, <2>7
      <4>2. CASE Return(e, {ThisCall(e)}, FALSE) \/ Return(e, Routed(e), FALSE)
        BY <4>2, <2>3, <2>8
      <4>3. CASE Stop(e, "broken") \/ Stop(e, "failed")
        BY <4>3, <2>2, <2>7
      <4>4. CASE tries[e] < MaxRetries /\ Retry(e, 0)
        BY <4>4, <2>4, <2>6
      <4>5. CASE FailOver(e)
        BY <4>5, <2>5
      <4> QED
        <5> HIDE DEF Rest
        <5> QED BY <2>9, <4>1, <4>2, <4>3, <4>4, <4>5 DEF Answer
    <3>2. paid' \in [Extractions -> SUBSET Calls] /\ capped' \in [Extractions -> BOOLEAN]
      BY <1>0, <2>9, CallsTyped DEF Answer, WorkTyped
    <3>3. first' \in [Extractions -> Valid \cup {"none", "bad"}]
      BY <1>0, <2>9 DEF Answer, WorkTyped, Valid
    <3> QED BY <3>1, <3>2, <3>3 DEF WorkTyped
  <2>10. ASSUME NEW quota \in BOOLEAN, NEW fatal \in BOOLEAN, Refuse(e, quota, fatal)
         PROVE  WorkTyped'
    <3>1. Rest
      <4>1. CASE MayRetry(e) /\ Retry(e, 1)
        BY <4>1, <2>4 DEF MayRetry
      <4>2. CASE Exhaust(e, quota)
        <5>1. CASE Ask(e, "large")
          BY <5>1, <2>1, <2>7
        <5>2. CASE Return(e, paid[e], TRUE)
          BY <5>2, <2>3, <2>6
        <5>3. CASE FailOver(e)
          BY <5>3, <2>5
        <5>4. CASE Stop(e, "failed")
          BY <5>4, <2>2, <2>7
        <5> HIDE DEF Rest
        <5> QED BY <4>2, <5>1, <5>2, <5>3, <5>4 DEF Exhaust
      <4> HIDE DEF Rest
      <4> QED BY <2>10, <4>1, <4>2 DEF Refuse
    <3>2. /\ paid' \in [Extractions -> SUBSET Calls] /\ capped' \in [Extractions -> BOOLEAN]
          /\ first' \in [Extractions -> Valid \cup {"none", "bad"}]
      BY <1>0, <2>10 DEF Refuse, WorkTyped
    <3> QED BY <3>1, <3>2 DEF WorkTyped
  <2> QED BY <1>3, <2>9, <2>10 DEF Outcome
<1>4. ASSUME Tick \/ UNCHANGED vars PROVE WorkTyped'
  BY <1>0, <1>4 DEF Tick, vars, work, WorkTyped
<1> QED BY <1>1, <1>2, <1>3, <1>4 DEF Next
-----------------------------------------------------------------------------
\* What an extraction has in hand, and what it returns.

\* Nothing about d changes that Good(d) looks at, but for its place among the active ones.
LEMMA GoodKept ==
    ASSUME NEW d \in Extractions, Good(d),
           pc'[d] = pc[d] \/ (pc[d] \in Active /\ pc'[d] \in Active),
           tier'[d] = tier[d], first'[d] = first[d], paid'[d] = paid[d], told'[d] = told[d],
           degraded'[d] = degraded[d], capped'[d] = capped[d]
    PROVE  Good(d)'
BY DEF Good, InHand, Honest, Told, Active

LEMMA GoodStep ==
    ASSUME IInv, [Next]_vars, NEW d \in Extractions
    PROVE  Good(d)'
<1>0. WorkTyped /\ Good(d)
  BY DEF IInv, TypeOK, WorkTyped
<1>1. ASSUME NEW e \in Extractions, Begin(e) PROVE Good(d)'
  <2>1. CASE d = e
    BY <1>0, <1>1, <2>1 DEF Begin, WorkTyped, Good, InHand, Honest, Told, Start, Entrance
  <2>2. CASE d # e
    BY <1>0, <1>1, <2>2, GoodKept DEF Begin, WorkTyped
  <2> QED BY <2>1, <2>2
<1>2. ASSUME NEW e \in Extractions, Enter(e) \/ Take(e) \/ Sleep(e) \/ Wake(e) PROVE Good(d)'
  <2>1. PICK p \in Active : pc[e] \in Active /\ Move(e, p)
    BY <1>2 DEF Enter, Take, Sleep, Wake, Active
  <2> QED BY <1>0, <2>1, GoodKept DEF Move, WorkTyped
<1>3. ASSUME NEW e \in Extractions, Outcome(e), e # d PROVE Good(d)'
  <2>1. ASSUME NEW w \in {"good", "weak", "bad"}, Answer(e, w) PROVE Good(d)'
    BY <1>0, <1>3, <2>1, GoodKept DEF Answer, Ask, Return, Stop, Retry, FailOver, WorkTyped
  <2>2. ASSUME NEW quota \in BOOLEAN, NEW fatal \in BOOLEAN, Refuse(e, quota, fatal)
        PROVE  Good(d)'
    BY <1>0, <1>3, <2>2, GoodKept
       DEF Refuse, Exhaust, Ask, Return, Stop, Retry, FailOver, WorkTyped
  <2> QED BY <1>3, <2>1, <2>2 DEF Outcome
<1>4. ASSUME NEW w \in {"good", "weak", "bad"}, Answer(d, w) PROVE Good(d)'
  <2>1. /\ paid'[d] = paid[d] \cup {ThisCall(d)} /\ ThisCall(d)[1] = tier[d]
        /\ first'[d] = IF tier[d] = "small" THEN w ELSE first[d]
        /\ InHand(d) /\ pc[d] \in Active /\ tier[d] \in Tiers
        /\ capped'[d] = capped[d]
    BY <1>0, <1>4 DEF Answer, ThisCall, WorkTyped, Good, Active
  <2>2. ASSUME Ask(d, "secondary"), tier[d] \in {"large", "primary"} PROVE Good(d)'
    <3>1. pc'[d] \in Active /\ tier'[d] = "secondary"
      BY <1>0, <2>2, EntranceOutside DEF Ask, WorkTyped, Active
    <3> QED BY <2>1, <2>2, <3>1 DEF Good, InHand, Honest, Told, Active
  <2>3. ASSUME NEW p \in {"failed", "broken"}, Stop(d, p) PROVE Good(d)'
    BY <1>0, <2>3 DEF Stop, WorkTyped, Good, InHand, Honest, Told, Active
  <2>4. ASSUME FailOver(d), tier[d] = "primary" PROVE Good(d)'
    BY <2>2, <2>3, <2>4 DEF FailOver
  <2>5. ASSUME tier[d] = "primary", Retry(d, 0) PROVE Good(d)'
    <3>1. pc'[d] \in Active /\ tier'[d] = tier[d]
      BY <1>0, <2>5, EntranceOutside DEF Retry, WorkTyped, Active
    <3> QED BY <2>1, <2>5, <3>1 DEF Good, InHand, Honest, Told, Active
  <2>6. ASSUME NEW C, Return(d, C, FALSE),
               \/ tier[d] = "small" /\ w = "good" /\ C = {ThisCall(d)}
               \/ tier[d] = "large" /\ C = Routed(d)
               \/ tier[d] \in {"primary", "secondary"} /\ C = {ThisCall(d)}
        PROVE  Good(d)'
    <3>1. /\ pc'[d] = "done" /\ told'[d] = C /\ tier'[d] = tier[d] /\ degraded'[d] = FALSE
      BY <1>0, <2>6 DEF Return, WorkTyped
    <3>2. InHand(d)' /\ Honest(d)'
      BY <2>1, <2>6, <3>1 DEF InHand, Honest, Active
    <3>3. Told(d)'
      <4>1. CASE tier[d] = "small"
        BY <2>1, <2>6, <3>1, <4>1 DEF Told, InHand
      <4>2. CASE tier[d] = "large"
        BY <2>1, <2>6, <3>1, <4>2 DEF Told, InHand, Routed
      <4>3. CASE tier[d] = "secondary"
        BY <2>1, <2>6, <3>1, <4>3 DEF Told, InHand
      <4> QED BY <2>6, <3>1, <4>1, <4>2, <4>3 DEF Told
    <3> QED BY <3>2, <3>3 DEF Good
  <2>7. ASSUME tier[d] = "small", w # "good", Ask(d, "large") PROVE Good(d)'
    <3>1. pc'[d] \in Active /\ tier'[d] = "large"
      BY <1>0, <2>7, EntranceOutside DEF Ask, WorkTyped, Active
    <3> QED BY <2>1, <2>7, <3>1 DEF Good, InHand, Honest, Told, Active
  <2>8. ASSUME w = "bad", Stop(d, "broken") \/ Stop(d, "failed") PROVE Good(d)'
    BY <2>8, <2>3
  <2>9. ASSUME tier[d] = "small", w = "good", Return(d, {ThisCall(d)}, FALSE) PROVE Good(d)'
    BY <2>9, <2>6
  <2>10. ASSUME tier[d] = "large", Return(d, Routed(d), FALSE) PROVE Good(d)'
    BY <2>10, <2>6
  <2>11. ASSUME tier[d] \in {"primary", "secondary"}, Return(d, {ThisCall(d)}, FALSE)
         PROVE  Good(d)'
    BY <2>11, <2>6
  <2> QED
    <3> HIDE DEF Good
    <3> QED BY <1>4, <2>4, <2>5, <2>7, <2>8, <2>9, <2>10, <2>11 DEF Answer
<1>5. ASSUME NEW quota \in BOOLEAN, NEW fatal \in BOOLEAN, Refuse(d, quota, fatal)
      PROVE  Good(d)'
  <2>1. /\ paid'[d] = paid[d] /\ first'[d] = first[d]
        /\ capped'[d] = (quota /\ tier[d] = "large")
        /\ InHand(d) /\ pc[d] \in Active /\ tier[d] \in Tiers
    BY <1>0, <1>5 DEF Refuse, WorkTyped, Good, Active
  <2>2. ASSUME Ask(d, "secondary"), tier[d] \in {"large", "primary"} PROVE Good(d)'
    <3>1. pc'[d] \in Active /\ tier'[d] = "secondary"
      BY <1>0, <2>2, EntranceOutside DEF Ask, WorkTyped, Active
    <3> QED BY <2>1, <2>2, <3>1 DEF Good, InHand, Honest, Told, Active
  <2>3. ASSUME Stop(d, "failed") PROVE Good(d)'
    BY <1>0, <2>3 DEF Stop, WorkTyped, Good, InHand, Honest, Told, Active
  <2>4. ASSUME FailOver(d), tier[d] \in {"large", "primary"} PROVE Good(d)'
    BY <2>2, <2>3, <2>4 DEF FailOver
  <2>5. ASSUME Serves(d, quota), Return(d, paid[d], TRUE) PROVE Good(d)'
    <3>1. /\ pc'[d] = "done" /\ told'[d] = paid[d] /\ tier'[d] = "large"
          /\ first[d] = "weak" /\ capped'[d]
      BY <1>0, <2>1, <2>5 DEF Return, Serves, WorkTyped, InHand, Valid
    <3>2. tier[d] = "large"
      BY <2>5 DEF Serves
    <3>3. InHand(d)' /\ Honest(d)'
      BY <2>1, <3>1 DEF InHand, Honest, Active
    <3>4. \A c \in paid[d] : c[1] # "secondary"
      BY <2>1, <3>2 DEF InHand
    <3>5. Told(d)'
      BY <2>1, <3>1, <3>4 DEF Told
    <3> QED BY <3>3, <3>5 DEF Good
  <2>6. CASE MayRetry(d) /\ Retry(d, 1)
    <3>1. pc'[d] \in Active /\ tier'[d] = tier[d]
      BY <1>0, <2>6, EntranceOutside DEF Retry, WorkTyped, Active
    <3> QED BY <2>1, <2>6, <3>1 DEF Good, InHand, Honest, Told, Active
  <2>7. CASE Exhaust(d, quota)
    <3>1. ASSUME tier[d] = "small", Ask(d, "large") PROVE Good(d)'
      <4>1. pc'[d] \in Active /\ tier'[d] = "large" /\ first[d] = "none" /\ paid[d] = {}
        BY <1>0, <2>1, <3>1, EntranceOutside DEF Ask, WorkTyped, Active, InHand
      <4> QED BY <2>1, <4>1 DEF Good, InHand, Honest, Told, Active
    <3> QED BY <2>3, <2>4, <2>5, <2>7, <3>1 DEF Exhaust
  <2> QED BY <1>5, <2>6, <2>7 DEF Refuse
<1>6. CASE Tick \/ UNCHANGED vars
  BY <1>0, <1>6, GoodKept DEF Tick, vars, work
<1> QED
  <2>1. ASSUME Outcome(d) PROVE Good(d)'
    BY <2>1, <1>4, <1>5 DEF Outcome
  <2> QED BY <1>1, <1>2, <1>3, <2>1, <1>6 DEF Next
-----------------------------------------------------------------------------
\* The bucket, and who waits for it.

LEMMA WaitersStep == ASSUME IInv, [Next]_vars PROVE OnlyBulkWaits'
<1>0. WorkTyped /\ OnlyBulkWaits
  BY DEF IInv, TypeOK, WorkTyped
<1>1. ASSUME NEW e \in Extractions, NEW p, pc' = [pc EXCEPT ![e] = p],
             p \in {"queued", "pacing", "sleeping"} => e \in Bulk
      PROVE  OnlyBulkWaits'
  BY <1>0, <1>1 DEF OnlyBulkWaits, WorkTyped
<1>2. ASSUME NEW e \in Extractions, Begin(e) PROVE OnlyBulkWaits'
  BY <1>1, <1>2 DEF Begin, Entrance
<1>3. ASSUME NEW e \in Extractions, Enter(e) \/ Take(e) \/ Sleep(e) \/ Wake(e)
      PROVE  OnlyBulkWaits'
  BY <1>0, <1>1, <1>3 DEF Enter, Take, Sleep, Wake, Move, OnlyBulkWaits
<1>4. ASSUME NEW e \in Extractions, Outcome(e) PROVE OnlyBulkWaits'
  <2>1. PICK p \in Over \cup {Entrance(e)} : pc' = [pc EXCEPT ![e] = p]
    BY <1>4, OutcomeMoves
  <2> QED BY <1>1, <2>1 DEF Over, Entrance
<1>5. CASE Tick \/ UNCHANGED vars
  BY <1>0, <1>5 DEF Tick, vars, work, OnlyBulkWaits
<1> QED BY <1>2, <1>3, <1>4, <1>5 DEF Next

LEMMA PacedStep == ASSUME IInv, [Next]_vars PROVE Paced'
<1> USE CallsAssumption
<1>0. /\ WorkTyped /\ OnlyBulkWaits /\ Paced
      /\ credit \in 0..Period /\ nap \in 0..Period /\ gap \in 0..Period
  BY DEF IInv, TypeOK, WorkTyped
\* Nobody falls asleep, and no time passes.
<1>a. ASSUME UNCHANGED <<credit, nap, gap>>,
             \A e \in Extractions : pc'[e] = "sleeping" => pc[e] = "sleeping"
      PROVE  Paced'
  BY <1>0, <1>a DEF Paced, Asleep
\* Nobody sleeps after the step that starts a bulk call.
<1>b. ASSUME credit' = 0, gap' = 0, \A e \in Extractions : pc'[e] # "sleeping" PROVE Paced'
  BY <1>b DEF Paced, Asleep
<1>1. ASSUME NEW e \in Extractions, Begin(e) \/ Enter(e) PROVE Paced'
  BY <1>0, <1>1, <1>a DEF Begin, Enter, Move, Entrance, limiter, WorkTyped
<1>2. ASSUME NEW e \in Extractions, Take(e) PROVE Paced'
  BY <1>0, <1>2, <1>b DEF Take, Move, Asleep, WorkTyped
<1>3. ASSUME NEW e \in Extractions, Sleep(e) PROVE Paced'
  <2>1. \A d \in Extractions : pc'[d] = "sleeping" <=> d = e
    BY <1>0, <1>3 DEF Sleep, Move, Asleep, WorkTyped
  <2>2. nap' = Period - credit /\ credit' = credit /\ gap' = gap
    BY <1>3 DEF Sleep
  <2>3. nap' + gap' >= Period
    BY <1>0, <2>2 DEF Paced
  <2> QED BY <1>0, <2>1, <2>2, <2>3 DEF Paced
<1>4. ASSUME NEW e \in Extractions, Wake(e) PROVE Paced'
  BY <1>0, <1>4, <1>b DEF Wake, CreditAfterSleep, Move, WorkTyped, Paced
<1>5. ASSUME NEW e \in Extractions, Outcome(e) PROVE Paced'
  <2>1. PICK p \in Over \cup {Entrance(e)} : pc' = [pc EXCEPT ![e] = p]
    BY <1>5, OutcomeMoves
  <2>2. \A d \in Extractions : pc'[d] = "sleeping" => pc[d] = "sleeping"
    BY <1>0, <2>1 DEF Over, Entrance, WorkTyped
  <2> QED BY <1>5, <2>2, <1>a, OutcomeMoves
<1>6. CASE Tick
  <2>1. credit' = gap' /\ pc' = pc
    BY <1>0, <1>6 DEF Tick, Paced, work
  <2>2. Asleep' => nap' + gap' >= Period
    BY <1>0, <1>6, <2>1 DEF Tick, Paced, Smaller, Asleep
  <2> QED BY <1>0, <2>1, <2>2 DEF Paced
<1>7. CASE UNCHANGED vars
  BY <1>0, <1>7, <1>a DEF vars, work, limiter
<1> QED BY <1>1, <1>2, <1>3, <1>4, <1>5, <1>6, <1>7 DEF Next

-----------------------------------------------------------------------------
LEMMA InitHolds == Init => IInv
<1> SUFFICES ASSUME Init PROVE IInv
  OBVIOUS
<1> USE CallsAssumption DEF Init
<1>1. TypeOK
  BY DEF TypeOK, Places, Tiers, Start
<1>2. SlotsCounted
  <2>1. Inside = {}
    BY DEF Inside
  <2> QED BY <2>1, FS_EmptySet DEF SlotsCounted
<1>3. OnlyBulkWaits /\ Paced
  BY DEF OnlyBulkWaits, Paced, Asleep
<1>4. \A e \in Extractions : Good(e)
  BY DEF Good, InHand, Honest, Told, Active
<1> QED BY <1>1, <1>2, <1>3, <1>4 DEF IInv

LEMMA IInvStep == ASSUME IInv, [Next]_vars PROVE IInv'
<1>1. TypeOK'
  BY RestTyped, WorkStep, SlotsStep DEF TypeOK, WorkTyped
<1>2. \A e \in Extractions : Good(e)'
  BY GoodStep
<1> QED BY <1>1, <1>2, SlotsStep, WaitersStep, PacedStep DEF IInv

THEOREM Invariance == Spec => []IInv
BY InitHolds, IInvStep, PTL DEF Spec

\* The types hold; in particular API errors never send a third request to a tier.
THEOREM TypeCorrect == Spec => []TypeOK
<1>1. IInv => TypeOK
  BY DEF IInv
<1> QED BY <1>1, Invariance, PTL

\* No place of the semaphore is lost, and never are more bulk calls under way than it has.
THEOREM PlacesCounted == Spec => []SlotsCounted
<1>1. IInv => SlotsCounted
  BY DEF IInv
<1> QED BY <1>1, Invariance, PTL

\* A doubtful answer is marked, and the mark means that the large model was out of quota.
THEOREM DegradedMarked == Spec => []DegradedIsHonest
<1>1. IInv => DegradedIsHonest
  BY DEF IInv, Good, Honest, DegradedIsHonest
<1> QED BY <1>1, Invariance, PTL

\* A routed result reports the tokens of every answer its account was paid for.
THEOREM TokensReported == Spec => []TokensTold
<1>1. IInv => TokensTold
  BY DEF IInv, Good, Told, TokensTold
<1> QED BY <1>1, Invariance, PTL

\* Between two bulk calls of the instance lies at least the period of the bucket.
THEOREM RateHonoured == Spec => RateKept
<1>1. ASSUME IInv, [Next]_vars
      PROVE  [\A e \in Bulk : pc[e] # "calling" /\ pc'[e] = "calling" => gap = Period]_vars
  <2> USE CallsAssumption
  <2>0. WorkTyped /\ Paced /\ nap \in 0..Period /\ gap \in 0..Period /\ Bulk \subseteq Extractions
    BY <1>1 DEF IInv, TypeOK, WorkTyped
  <2> SUFFICES ASSUME Next, NEW b \in Bulk, pc[b] # "calling", pc'[b] = "calling"
               PROVE  gap = Period
    BY <1>1 DEF vars
  <2>1. ASSUME NEW e \in Extractions, Begin(e) PROVE gap = Period
    BY <2>0, <2>1 DEF Begin, Entrance, WorkTyped
  <2>2. ASSUME NEW e \in Extractions, Enter(e) \/ Sleep(e) PROVE gap = Period
    BY <2>0, <2>2 DEF Enter, Sleep, Move, WorkTyped
  <2>3. ASSUME NEW e \in Extractions, Take(e) PROVE gap = Period
    BY <2>0, <2>3 DEF Take, Paced
  <2>4. ASSUME NEW e \in Extractions, Wake(e) PROVE gap = Period
    BY <2>0, <2>4 DEF Wake, Paced, Asleep
  <2>5. ASSUME NEW e \in Extractions, Outcome(e) PROVE gap = Period
    <3>1. PICK p \in Over \cup {Entrance(e)} : pc' = [pc EXCEPT ![e] = p]
      BY <1>1, <2>5, OutcomeMoves
    <3>2. pc[e] = "calling"
      BY <1>1, <2>5, OutcomeMoves
    <3> QED BY <2>0, <3>1, <3>2 DEF WorkTyped
  <2>6. CASE Tick
    BY <2>6 DEF Tick, work
  <2> QED BY <2>1, <2>2, <2>3, <2>4, <2>5, <2>6 DEF Next
<1> QED BY <1>1, Invariance, PTL DEF Spec, RateKept
=============================================================================
