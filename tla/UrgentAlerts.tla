---------------------------- MODULE UrgentAlerts ----------------------------
(***************************************************************************)
(* The urgent alerts of one organisation (app/core/alerts): evaluations    *)
(* that mail at once or defer, and sweeps that mail what was deferred as   *)
(* one roll-up, over the alert_log table.  Every database call and every   *)
(* send is a step; the claim of a window slot is one transaction under an  *)
(* advisory lock.                                                          *)
(***************************************************************************)
EXTENDS Naturals, FiniteSets

CONSTANTS
    Reviews,       \* reviews that the rules found urgent
    Evals,         \* calls of evaluate_and_alert
    ReviewOf,      \* [Evals -> Reviews]; a cached review is evaluated again
    Sweeps,        \* callers of flush_deferred_urgent_for_org
    Tokens,        \* claim tokens, reused once nothing refers to them
    NoToken,
    MaxPerWindow,  \* URGENT_ALERT_MAX_PER_WINDOW
    Overruns,      \* bound: windows that pass while a delivery is under way
    Mishaps,       \* bound: database errors and instance deaths
    Changes        \* bound: changes of settings and bounce reports

ASSUME AlertsAssumption ==
    /\ ReviewOf \in [Evals -> Reviews]
    /\ Evals \cap Sweeps = {} /\ NoToken \notin Tokens
    /\ MaxPerWindow \in Nat \ {0} /\ Overruns \in Nat
    /\ Mishaps \in Nat /\ Changes \in Nat
    /\ IsFiniteSet(Evals) /\ IsFiniteSet(Sweeps) /\ IsFiniteSet(Tokens)

Senders == Evals \cup Sweeps

VARIABLES
    recorded,    \* alert_log: reviews with a high_urgency row
    deferred,    \* alert_log: reviews with an urgent_deferred row
    claims,      \* alert_log: claims in the window without a release row
    recent,      \* tokens of the mails sent in the window
    mailed,      \* how often a review was mailed: never, once, or more (2)
    email,       \* organizations.notification_email is set
    pref,        \* alert_preferences of high_urgency
    suppressed,  \* the address is in email_suppressions
    reporting,   \* a bounce report has cleared the address, not recorded it yet
    pc, token, rolled,  \* a sender's place, claim_token and rolled_up
    opened,      \* the gates that were open at some time since a sender started
    left         \* what is left of each bound

settings == <<email, pref, suppressed, reporting>>
log == <<recorded, deferred, claims>>
vars == <<recorded, deferred, claims, recent, mailed, settings, pc, token, rolled,
          opened, left>>

Init == /\ recorded = {} /\ deferred = {} /\ claims = {} /\ recent = {}
        /\ mailed = [r \in Reviews |-> 0]
        /\ email = TRUE /\ pref = "immediate" /\ suppressed = FALSE /\ reporting = FALSE
        /\ pc = [p \in Senders |-> "idle"]
        /\ token = [p \in Senders |-> NoToken]
        /\ rolled = [p \in Senders |-> {}]
        /\ opened = [p \in Senders |-> {}]
        /\ left = [mishaps |-> Mishaps, changes |-> Changes, overruns |-> Overruns]

Own(p) == {ReviewOf[e] : e \in Evals \cap {p}}

Spend(what) == /\ left[what] > 0
               /\ left' = [left EXCEPT ![what] = @ - 1]

Goto(p, place) == pc' = [pc EXCEPT ![p] = place]

Idle(p) == pc[p] \in {"idle", "out", "done"}

\* The gates in front of a mail, and those of them that are open.
Gates == {"email", "enabled", "immediate", "address"}

Open(anEmail, aPref, aSuppressed) ==
    {g \in Gates : \/ g = "email" /\ anEmail
                   \/ g = "enabled" /\ aPref # "off"
                   \/ g = "immediate" /\ aPref = "immediate"
                   \/ g = "address" /\ ~aSuppressed}

-----------------------------------------------------------------------------
\* Settings: PUT notification-email and preferences, unsubscribe, and the
\* bounce webhook, which clears the address before it records it.

Change ==
    /\ Spend("changes")
    /\ \/ /\ email' \in BOOLEAN \ {email}
          /\ UNCHANGED <<pref, suppressed, reporting>>
       \/ /\ pref' \in {"immediate", "daily_digest", "off"} \ {pref}
          /\ UNCHANGED <<email, suppressed, reporting>>
       \/ /\ ~suppressed /\ ~reporting
          /\ email' = FALSE /\ reporting' = TRUE
          /\ UNCHANGED <<pref, suppressed>>
    /\ opened' = [p \in Senders |-> IF Idle(p) THEN opened[p]
                                    ELSE opened[p] \cup Open(email', pref', suppressed')]
    /\ UNCHANGED <<log, recent, mailed, pc, token, rolled>>

RecordSuppression ==
    /\ reporting
    /\ reporting' = FALSE /\ suppressed' = TRUE
    /\ UNCHANGED <<log, recent, mailed, email, pref, pc, token, rolled, opened, left>>

-----------------------------------------------------------------------------
\* The gates, each a read of its own.

Begin(p, place) ==
    /\ Goto(p, place)
    /\ opened' = [opened EXCEPT ![p] = Open(email, pref, suppressed)]

\* get_org_notification_email_pg at the head of evaluate_and_alert.
StartEval(p) ==
    /\ p \in Evals /\ pc[p] = "idle"
    /\ Begin(p, IF email THEN "dedupe" ELSE "out")
    /\ UNCHANGED <<log, recent, mailed, settings, token, rolled, left>>

\* Deferred events that no high_urgency row has retired.
Pending == deferred \ recorded

StartSweep(p) ==
    /\ p \in Sweeps /\ Idle(p)
    /\ Pending # {}
    /\ Begin(p, "recipient")
    /\ UNCHANGED <<log, recent, mailed, settings, token, rolled, left>>

\* What a read decides: on to the next gate, or out without a mail, as after a
\* failed read.
Gate(p, from, passes, to) ==
    /\ pc[p] = from
    /\ \/ Goto(p, IF passes THEN to ELSE "out") /\ UNCHANGED left
       \/ Goto(p, "out") /\ Spend("mishaps")
    /\ UNCHANGED <<log, recent, mailed, settings, token, rolled, opened>>

\* Mutant: the evaluation trusts that its caller alerts once.
NoDedupe(p) == FALSE

AlreadyAlerted(p) == ReviewOf[p] \in recorded

Dedupe(p) == p \in Evals /\ Gate(p, "dedupe", ~AlreadyAlerted(p), "pref")

Enabled == pref # "off"

\* Mutant: every frequency but "off" mails at once.
AnyFrequency == Enabled

Wanted == pref = "immediate"

Deliverable == ~suppressed

CheckGates(p) ==
    IF p \in Evals
    THEN \/ Gate(p, "pref", Wanted, "address")
         \/ Gate(p, "address", Deliverable, "claim")
    ELSE \/ Gate(p, "recipient", email, "pref")
         \/ Gate(p, "pref", Enabled, "claim")

-----------------------------------------------------------------------------
\* The window slot and the mail.

\* Mutant: an off-by-one cap.
OneMoreFree == Cardinality(claims) <= MaxPerWindow

SlotFree == Cardinality(claims) < MaxPerWindow

\* claim_urgent_window_pg; an error of it fails open, without a token.
Claim(p) ==
    /\ pc[p] = "claim"
    /\ \/ /\ SlotFree
          /\ \E t \in Tokens \ (claims \cup recent \cup {token[q] : q \in Senders}) :
                claims' = claims \cup {t} /\ token' = [token EXCEPT ![p] = t]
          /\ Goto(p, "pending")
          /\ UNCHANGED left
       \/ /\ ~SlotFree
          /\ Goto(p, IF p \in Evals THEN "defer" ELSE "out")
          /\ UNCHANGED <<claims, token, left>>
       \/ /\ Spend("mishaps")
          /\ Goto(p, "pending")
          /\ UNCHANGED <<claims, token>>
    /\ UNCHANGED <<recorded, deferred, recent, mailed, settings, rolled, opened>>

\* record_urgent_deferred_pg, past the cap or after a failed send.
Defer(p) ==
    /\ pc[p] = "defer"
    /\ \/ deferred' = deferred \cup Own(p) /\ UNCHANGED left
       \/ Spend("mishaps") /\ UNCHANGED deferred
    /\ Goto(p, "done")
    /\ UNCHANGED <<recorded, claims, recent, mailed, settings, token, rolled, opened>>

\* pending_deferred: what the mail carries besides its own review; a sweep with
\* nothing to carry gives its slot back.
ReadPending(p) ==
    /\ pc[p] = "pending"
    /\ \/ rolled' = [rolled EXCEPT ![p] = Pending \ Own(p)] /\ UNCHANGED left
       \/ Spend("mishaps") /\ rolled' = [rolled EXCEPT ![p] = {}]
    /\ Goto(p, IF Own(p) \cup rolled'[p] = {} THEN "release" ELSE "send")
    /\ UNCHANGED <<log, recent, mailed, settings, token, opened>>

Retired(p) == rolled[p]

\* channel.send
Sent(p) ==
    /\ pc[p] = "send"
    /\ mailed' = [r \in Reviews |-> IF r \in Own(p) \cup rolled[p] /\ mailed[r] < 2
                                    THEN mailed[r] + 1 ELSE mailed[r]]
    /\ recent' = recent \cup ({token[p]} \cap claims)
    /\ rolled' = [rolled EXCEPT ![p] = Retired(p)]
    /\ Goto(p, "record")
    /\ UNCHANGED <<log, settings, token, opened, left>>

SendFails(p) ==
    /\ pc[p] = "send"
    /\ Goto(p, "release")
    /\ UNCHANGED <<log, recent, mailed, settings, token, rolled, opened, left>>

\* Mutant: the failed event is not deferred.
Dropped(p) == "done"

AfterRelease(p) == IF p \in Evals THEN "defer" ELSE "done"

\* release_urgent_window_pg, best effort.
Release(p) ==
    /\ pc[p] = "release"
    /\ \/ claims' = claims \ {token[p]} /\ UNCHANGED left
       \/ Spend("mishaps") /\ UNCHANGED claims
    /\ token' = [token EXCEPT ![p] = NoToken]
    /\ rolled' = [rolled EXCEPT ![p] = {}]
    /\ Goto(p, AfterRelease(p))
    /\ UNCHANGED <<recorded, deferred, recent, mailed, settings, opened>>

\* record_alert_sent_pg for the own review, then mark_delivered for each of the
\* others; an error leaves the rest unrecorded.
Record(p) ==
    /\ pc[p] = "record"
    /\ \E r \in Own(p) \cup rolled[p] :
          /\ Own(p) \subseteq recorded \cup {r}
          /\ recorded' = recorded \cup {r}
          /\ rolled' = [rolled EXCEPT ![p] = @ \ {r}]
          /\ r \in rolled[p] \/ r \notin recorded
    /\ UNCHANGED <<deferred, claims, recent, mailed, settings, pc, token, opened, left>>

Finish(p) ==
    /\ pc[p] = "record"
    /\ \/ rolled[p] = {} /\ Own(p) \subseteq recorded /\ UNCHANGED left
       \/ Spend("mishaps")
    /\ Goto(p, "done")
    /\ token' = [token EXCEPT ![p] = NoToken]
    /\ rolled' = [rolled EXCEPT ![p] = {}]
    /\ UNCHANGED <<log, recent, mailed, settings, opened>>

-----------------------------------------------------------------------------
\* Mutant: the count of claims forgets the window.
NeverAged(t) == {}

Aged(t) == {t}

\* A slot's window passes: the claim, and the mail sent under it, are too old to
\* count.
WindowPasses ==
    /\ \/ (\A p \in Senders : Idle(p)) /\ UNCHANGED left
       \/ (\E p \in Senders : ~Idle(p)) /\ Spend("overruns")
    /\ \E t \in claims \cup recent : claims' = claims \ Aged(t) /\ recent' = recent \ {t}
    /\ UNCHANGED <<recorded, deferred, mailed, settings, pc, token, rolled, opened>>

\* The instance dies with the sender, before or after it passed the gates.
Die(p) ==
    /\ ~Idle(p)
    /\ Spend("mishaps")
    /\ Goto(p, IF pc[p] \in {"dedupe", "recipient", "pref", "address"} THEN "out" ELSE "done")
    /\ token' = [token EXCEPT ![p] = NoToken]
    /\ rolled' = [rolled EXCEPT ![p] = {}]
    /\ UNCHANGED <<log, recent, mailed, settings, opened>>

Deliver(p) == \/ StartEval(p) \/ StartSweep(p) \/ Dedupe(p) \/ CheckGates(p)
              \/ Claim(p) \/ Defer(p) \/ ReadPending(p) \/ Sent(p) \/ SendFails(p)
              \/ Release(p) \/ Record(p) \/ Finish(p)

Next == \/ \E p \in Senders : Deliver(p) \/ Die(p)
        \/ Change \/ RecordSuppression \/ WindowPasses

Spec == Init /\ [][Next]_vars

\* Senders run, the scheduler keeps sweeping, windows pass, and neither a busy
\* window nor a failing channel is met for ever.
FairSpec ==
    /\ Spec
    /\ SF_vars(WindowPasses)
    /\ \A p \in Senders : /\ WF_vars(Deliver(p))
                          /\ SF_vars(Claim(p) /\ SlotFree)
                          /\ SF_vars(Sent(p))

-----------------------------------------------------------------------------
Places == {"idle", "dedupe", "recipient", "pref", "address", "claim", "defer",
           "pending", "send", "release", "record", "out", "done"}

\* Every variable has its type.
TypeOK ==
    /\ recorded \subseteq Reviews /\ deferred \subseteq Reviews
    /\ claims \subseteq Tokens /\ recent \subseteq Tokens
    /\ mailed \in [Reviews -> 0..2]
    /\ email \in BOOLEAN /\ suppressed \in BOOLEAN /\ reporting \in BOOLEAN
    /\ pref \in {"immediate", "daily_digest", "off"}
    /\ pc \in [Senders -> Places]
    /\ \A e \in Evals : pc[e] # "recipient"
    /\ \A s \in Sweeps : pc[s] \notin {"dedupe", "address", "defer"}
    /\ token \in [Senders -> Tokens \cup {NoToken}]
    /\ rolled \in [Senders -> SUBSET Reviews]
    /\ opened \in [Senders -> SUBSET Gates]
    /\ left \in [mishaps : Nat, changes : Nat, overruns : Nat]

\* The cap: no more urgent mails, roll-ups included, were sent in a window than
\* it allows, whatever fails and is retried.
MailCap == Cardinality(recent) <= MaxPerWindow

\* No database error and no death so far; no window that a delivery outlived.
Undisturbed == left.mishaps = Mishaps
InTime == Undisturbed /\ left.overruns = Overruns

\* An event past the gates is never dropped, though its mail fails, its window is
\* full or its sweep comes late: when its evaluation is over, it was mailed or it
\* waits for a roll-up.  An error or a death may lose it.
NeverDropped ==
    Undisturbed =>
       \A e \in Evals : pc[e] = "done" => mailed[ReviewOf[e]] > 0 \/ ReviewOf[e] \in deferred

\* An alert is retired only by a mail that carried it.
RecordedWasMailed == \A r \in recorded : mailed[r] > 0

\* No review is mailed twice, by two evaluations of it, by two roll-ups or by one
\* of each, while one slot per window keeps the deliveries apart.
MailedOnce == InTime /\ MaxPerWindow = 1 => \A r \in Reviews : mailed[r] <= 1

\* Opting out stops mail: whoever mails found each gate open at some time since it
\* started (a sweep does not look at the frequency and the address).
GatesRespected ==
    \A p \in Senders : pc[p] = "record" =>
        (IF p \in Evals THEN Gates ELSE {"email", "enabled"}) \subseteq opened[p]

\* What is held back is delivered by a later mail.
DeferredIsDelivered == \A r \in Reviews : r \in deferred ~> r \in recorded

\* Behind gates, claims and failed sends there is an outbox: what is raised is mailed
\* or waits for a mail, and mails keep to the cap.
Past == {"claim", "defer", "pending", "send", "release", "record"}
owedNow == {r \in Reviews : \E e \in Evals : ReviewOf[e] = r /\ pc[e] \in Past}
troubleNow == {x \in {"error"} : ~Undisturbed}
                \cup {x \in {"late"} : left.overruns # Overruns}

Outbox == INSTANCE AlertOutbox WITH owed <- owedNow, waiting <- deferred,
                                    retired <- recorded, trouble <- troubleNow
ImplementsOutbox == Outbox!OSpec
=============================================================================
