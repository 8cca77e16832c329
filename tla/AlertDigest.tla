------------------------------ MODULE AlertDigest ------------------------------
(***************************************************************************)
(* The digests of one organisation (app/core/alerts/digest.py): a sweep    *)
(* looks for the urgent reviews stored since the last alert_log row, mails *)
(* those without a row, and records them.  There is no table of pending    *)
(* events: what waits is what the reviews' created_at and the watermark    *)
(* say.  Reviews are being saved meanwhile, and while the frequency is     *)
(* "immediate" they are mailed by the immediate path (UrgentAlerts), seen  *)
(* here only by its mail and its row.                                      *)
(***************************************************************************)
EXTENDS Naturals, FiniteSets

CONSTANTS
    Reviews,   \* reviews that the rules find urgent
    Sweeps,    \* calls of run_digest_for_org
    Mishaps,   \* bound: errors and deaths of sweeps
    Changes    \* bound: changes of settings and bounce reports

ASSUME DigestAssumption == Mishaps \in Nat /\ Changes \in Nat

Cadences == {"daily", "weekly"}

VARIABLES
    life,        \* a review, from the insert of its extraction to its evaluation
    recorded,    \* alert_log: reviews with a high_urgency row
    behind,      \* for a cadence, the reviews created before its watermark
    mailed,      \* how often a review was mailed: never, once, or more (2)
    pref,        \* alert_preferences of high_urgency: frequency, or "off"
    email,       \* organizations.notification_email is set
    suppressed,  \* the address is in email_suppressions
    pc, cadence, \* a sweep's place and its parameter
    rows,        \* the rows a sweep has still to look at (at "list": might list)
    events,      \* the events it collected and has not recorded
    opened,      \* the gates that were open at some time since it started
    crossed,     \* whether a save and a sweep, or two sweeps, were ever under way together
    left         \* what is left of each bound

settings == <<pref, email, suppressed>>
outbox == <<recorded, behind, mailed>>
sweep == <<pc, cadence, rows, events, opened>>
marks == <<crossed, left>>
vars == <<life, outbox, settings, sweep, marks>>

Init == /\ life = [r \in Reviews |-> "unseen"]
        /\ recorded = {} /\ behind = [c \in Cadences |-> {}]
        /\ mailed = [r \in Reviews |-> 0]
        /\ pref \in Cadences \cup {"immediate", "off"}
        /\ email = TRUE /\ suppressed \in BOOLEAN
        /\ pc = [p \in Sweeps |-> "idle"]
        /\ cadence = [p \in Sweeps |-> "daily"]
        /\ rows = [p \in Sweeps |-> {}] /\ events = [p \in Sweeps |-> {}]
        /\ opened = [p \in Sweeps |-> {}]
        /\ crossed = {}
        /\ left = [mishaps |-> Mishaps, changes |-> Changes]

Spend(what) == left[what] > 0 /\ left' = [left EXCEPT ![what] = @ - 1]

Goto(p, place) == pc' = [pc EXCEPT ![p] = place]

Now(r, stage) == life' = [life EXCEPT ![r] = stage]

Stored == {r \in Reviews : life[r] \notin {"unseen", "stamped"}}

Stamped == {r \in Reviews : life[r] # "unseen"}

\* The gates in front of a digest, and those of them that are open.
Gates == {"cadence", "email", "address"}

Open(c, aPref, anEmail, aSuppressed) ==
    {g \in Gates : \/ g = "cadence" /\ aPref = c
                   \/ g = "email" /\ anEmail
                   \/ g = "address" /\ ~aSuppressed}

Count(S) == mailed' = [r \in Reviews |-> IF r \in S /\ mailed[r] < 2
                                         THEN mailed[r] + 1 ELSE mailed[r]]

\* A new row of alert_log: its sent_at is now, after every created_at so far.  A
\* weekly digest looks only for the rows of weekly digests.
Watermark(sender) ==
    behind' = [c \in Cadences |-> IF c = "daily" \/ sender = c THEN Stamped ELSE behind[c]]

-----------------------------------------------------------------------------
\* A transaction of a save is open; a sweep has its list, and will record what it mails.
Saving == \E r \in Reviews : life[r] = "stamped"

Holding(p) == pc[p] \in {"exclude", "email", "address", "send", "record"}

\* save_extraction_pg: created_at is the start of the transaction that stores the
\* extraction.
Stamp(r) ==
    /\ life[r] = "unseen"
    /\ Now(r, "stamped")
    /\ behind' = [c \in Cadences |-> behind[c] \ {r}]
    /\ crossed' = crossed \cup {x \in {"save"} : \E p \in Sweeps : Holding(p)}
    /\ UNCHANGED <<recorded, mailed, settings, sweep, left>>

Commit(r) ==
    /\ life[r] = "stamped"
    /\ \/ Now(r, "saved") \/ Now(r, "unseen")
    /\ UNCHANGED <<outbox, settings, sweep, marks>>

Urgent(r) == pref = "immediate" /\ r \notin recorded /\ email /\ ~suppressed

\* evaluate_and_alert, after the extraction or a cache hit on it: mailed at once, or
\* left to the digest.
Evaluate(r) ==
    /\ \/ /\ life[r] \in {"saved", "left"}
          /\ Now(r, IF Urgent(r) THEN "urgent" ELSE "left")
       \/ life[r] = "alerted" /\ UNCHANGED life
    /\ UNCHANGED <<outbox, settings, sweep, marks>>

\* The immediate mail or a roll-up, or neither.
MailUrgent(r) ==
    /\ life[r] = "urgent"
    /\ \/ Now(r, "sent") /\ Count({r})
       \/ Now(r, "left") /\ UNCHANGED mailed
    /\ UNCHANGED <<recorded, behind, settings, sweep, marks>>

RecordUrgent(r) ==
    /\ life[r] = "sent"
    /\ Now(r, "alerted")
    /\ recorded' = recorded \cup {r}
    /\ Watermark("immediate")
    /\ UNCHANGED <<mailed, settings, sweep, marks>>

\* The owner changes a setting.  The bounce webhook clears the address and suppresses
\* it, in two transactions.
Change ==
    /\ Spend("changes")
    /\ \/ /\ pref' \in (Cadences \cup {"immediate", "off"}) \ {pref}
          /\ UNCHANGED <<email, suppressed>>
       \/ /\ email' = ~email
          /\ UNCHANGED <<pref, suppressed>>
       \/ /\ ~suppressed /\ suppressed' = TRUE
          /\ UNCHANGED <<pref, email>>
    /\ opened' = [p \in Sweeps |-> IF pc[p] = "idle" THEN opened[p]
                                   ELSE opened[p] \cup Open(cadence[p], pref', email', suppressed')]
    /\ UNCHANGED <<life, outbox, pc, cadence, rows, events, crossed>>

-----------------------------------------------------------------------------
\* A sweep.  Every read and every write is a transaction of its own; an error of one
\* ends the sweep, as a death does (Fail).

\* list_orgs_with_daily_digest_pg and its weekly sibling.
Listed == pref \in Cadences

Start(p) ==
    /\ pc[p] = "idle"
    /\ Listed
    /\ cadence' = [cadence EXCEPT ![p] = pref]
    /\ opened' = [opened EXCEPT ![p] = Open(pref, pref, email, suppressed)]
    /\ Goto(p, "pref")
    /\ UNCHANGED <<life, outbox, settings, rows, events, marks>>

\* The call ends, and its local variables with it.
Leave(p) ==
    /\ Goto(p, "idle")
    /\ cadence' = [cadence EXCEPT ![p] = "daily"]
    /\ rows' = [rows EXCEPT ![p] = {}] /\ events' = [events EXCEPT ![p] = {}]
    /\ opened' = [opened EXCEPT ![p] = {}]

\* What a read decides: on to the next step, or out without a mail.
Gate(p, from, passes, to) ==
    /\ pc[p] = from
    /\ \/ passes /\ Goto(p, to) /\ UNCHANGED <<cadence, rows, events, opened>>
       \/ ~passes /\ Leave(p)
    /\ UNCHANGED <<life, outbox, settings, marks>>

Routed(p) == pref = cadence[p]

CheckPref(p) == Gate(p, "pref", Routed(p), "since")

\* get_last_digest_watermark_pg: only what was created after it will be listed.
ReadSince(p) ==
    /\ pc[p] = "since"
    /\ rows' = [rows EXCEPT ![p] = Reviews \ behind[cadence[p]]]
    /\ Goto(p, "list")
    /\ UNCHANGED <<life, outbox, settings, cadence, events, opened, marks>>

\* list_extractions_since_pg
List(p) ==
    /\ pc[p] = "list"
    /\ rows' = [rows EXCEPT ![p] = @ \cap Stored]
    /\ Goto(p, "exclude")
    /\ crossed' = crossed \cup {x \in {"save"} : Saving}
                          \cup {x \in {"sweep"} : \E q \in Sweeps : q # p /\ Holding(q)}
    /\ UNCHANGED <<life, outbox, settings, cadence, events, opened, left>>

\* Mutant: the sweep relies on the watermark alone.
NotBehind(r) == TRUE

Pending(r) == r \notin recorded

\* is_already_alerted_pg, for one row after the other.
Exclude(p) ==
    /\ pc[p] = "exclude"
    /\ \E r \in rows[p] :
          /\ rows' = [rows EXCEPT ![p] = @ \ {r}]
          /\ events' = [events EXCEPT ![p] = @ \cup {x \in {r} : Pending(x)}]
    /\ UNCHANGED <<life, outbox, settings, pc, cadence, opened, marks>>

Collected(p) == rows[p] = {} /\ Gate(p, "exclude", events[p] # {}, "email")

\* Mutant: the digest relies on the webhook having cleared the address.
AnyAddress == TRUE

Deliverable == ~suppressed

CheckGates(p) == \/ Gate(p, "email", email, "address")
                 \/ Gate(p, "address", Deliverable, "send")

\* channel.send
Sent(p) ==
    /\ pc[p] = "send"
    /\ Count(events[p])
    /\ Goto(p, "record")
    /\ UNCHANGED <<life, recorded, behind, settings, cadence, rows, events, opened, marks>>

\* Mutant: the events of a failed mail are recorded.
RecordAnyway(p) == Goto(p, "record") /\ UNCHANGED <<cadence, rows, events, opened>>

AfterFailure(p) == Leave(p)

SendFails(p) ==
    /\ pc[p] = "send"
    /\ AfterFailure(p)
    /\ UNCHANGED <<life, outbox, settings, marks>>

\* record_alert_sent_pg, for one event after the other.
Record(p) ==
    /\ pc[p] = "record"
    /\ \E r \in events[p] :
          /\ recorded' = recorded \cup {r}
          /\ events' = [events EXCEPT ![p] = @ \ {r}]
    /\ Watermark(cadence[p])
    /\ UNCHANGED <<life, mailed, settings, pc, cadence, rows, opened, marks>>

Finish(p) ==
    /\ pc[p] = "record" /\ events[p] = {}
    /\ Leave(p)
    /\ UNCHANGED <<life, outbox, settings, marks>>

Fail(p) ==
    /\ pc[p] # "idle"
    /\ Spend("mishaps")
    /\ Leave(p)
    /\ UNCHANGED <<life, outbox, settings, crossed>>

Digest(p) == \/ Start(p) \/ CheckPref(p) \/ ReadSince(p) \/ List(p) \/ Exclude(p)
             \/ Collected(p) \/ CheckGates(p) \/ Sent(p) \/ SendFails(p)
             \/ Record(p) \/ Finish(p)

-----------------------------------------------------------------------------
Review(r) == \/ Stamp(r) \/ Commit(r) \/ Evaluate(r) \/ MailUrgent(r) \/ RecordUrgent(r)

Next == \/ \E r \in Reviews : Review(r)
        \/ \E p \in Sweeps : Digest(p) \/ Fail(p)
        \/ Change

Spec == Init /\ [][Next]_vars

\* Savers and sweeps run, the scheduler keeps calling, and the channel does not fail
\* for ever.
FairSpec ==
    /\ Spec
    /\ \A r \in Reviews : WF_vars(Review(r))
    /\ \A p \in Sweeps : WF_vars(Digest(p)) /\ SF_vars(Sent(p))

-----------------------------------------------------------------------------
Places == {"idle", "pref", "since", "list", "exclude", "email", "address", "send", "record"}

Stages == {"unseen", "stamped", "saved", "urgent", "sent", "alerted", "left"}

\* Every variable has its type.
TypeOK ==
    /\ life \in [Reviews -> Stages]
    /\ recorded \subseteq Reviews
    /\ behind \in [Cadences -> SUBSET Reviews]
    /\ mailed \in [Reviews -> 0..2]
    /\ pref \in Cadences \cup {"immediate", "off"}
    /\ email \in BOOLEAN /\ suppressed \in BOOLEAN
    /\ pc \in [Sweeps -> Places] /\ cadence \in [Sweeps -> Cadences]
    /\ rows \in [Sweeps -> SUBSET Reviews] /\ events \in [Sweeps -> SUBSET Reviews]
    /\ opened \in [Sweeps -> SUBSET Gates]
    /\ crossed \subseteq {"save", "sweep"}
    /\ left \in [mishaps : Nat, changes : Nat]

\* No review took the immediate path (a switch of the frequency).
DigestOnly == \A r \in Reviews : life[r] \notin {"sent", "alerted"}

\* The watermark passes no review that was not mailed, as long as nothing is saved
\* while a sweep is under way and no immediate mail moved it: neither failed sends,
\* dead sweeps, two sweeps at once nor a change of cadence loses an event.
NothingPassedOver ==
    "save" \notin crossed /\ DigestOnly =>
        \A c \in Cadences : \A r \in behind[c] : mailed[r] > 0

\* Nothing is mailed twice, by two digests or by two cadences, without overlapping
\* sweeps, errors and immediate mails.
MailedOnce ==
    left.mishaps = Mishaps /\ "sweep" \notin crossed /\ DigestOnly =>
        \A r \in Reviews : mailed[r] <= 1

\* Whoever mails found each gate open at some time since it started.
GatesRespected == \A p \in Sweeps : pc[p] = "record" => opened[p] = Gates

\* What is left to a digest is mailed, if the settings stay favourable: a failed send
\* or a dead sweep only delays it.
WaitingIsMailed ==
    \A c \in Cadences :
        <>[](pref = c /\ email /\ ~suppressed) =>
            \A r \in Reviews :
                life[r] = "left" ~> (mailed[r] > 0 \/ "save" \in crossed \/ ~DigestOnly)
=============================================================================
