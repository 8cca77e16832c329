---------------------------- MODULE JudgemeSync ----------------------------
(***************************************************************************)
(* The Judge.me sync of one shop (run_sync): a paged scan of a list that   *)
(* changes while it is read, a plan from the scan and the stored rows, and *)
(* its execution in three writes, stage, purge and state, any of which may *)
(* be the last of an instance.  The ingest queue settles what was staged   *)
(* in its own time, with an extraction or without, and the retention sweep *)
(* deletes extractions under it.                                           *)
(***************************************************************************)
EXTENDS Integers, FiniteSets

CONSTANTS
    N,             \* reviews 1..N; a larger number is a younger review
    Contents,
    Texts,
    TextOf,        \* [Contents -> Texts]: a change of the rating keeps the text
    Hidden, Nothing,
    Old,           \* reviews from before the backfill window
    PerPage, MaxEnqueue,
    PageLimits,    \* the page limits that a caller may have configured
    Strikes, StrikesMass, MassMin,
    KnownOrder,    \* whether the order of the list is configured
    Mishaps        \* bound: changes of the source, and of runs that go wrong

Reviews == 1..N

ASSUME JudgemeAssumption ==
    /\ N \in Nat /\ Old \subseteq Reviews
    /\ TextOf \in [Contents -> Texts]
    /\ Hidden \notin Contents /\ Nothing \notin Contents /\ Hidden # Nothing
    /\ {PerPage, MaxEnqueue, Strikes, StrikesMass, MassMin} \subseteq Nat \ {0}
    /\ PageLimits \subseteq Nat \ {0}
    /\ Strikes <= StrikesMass
    /\ KnownOrder \in BOOLEAN
    /\ Mishaps \in Nat

VARIABLES
    at,          \* the place of a review in the list at Judge.me, 0 if it is not there
    body,        \* content of each review, Hidden, or Nothing before it is published
    row,         \* the stored state of each review
    queued,      \* rows of the ingest queue, per text
    extracted,   \* texts with an extraction
    pc, full,    \* where the run is, and whether it scans to the end
    read, items, \* places behind the scan, and what it has seen of each review
    complete,    \* the scan met the end of the list
    scanned,     \* meta: there was a complete full scan
    limit,       \* max_pages, the same for every run
    left,        \* what is left of the bound
    calm,        \* ghost: the source has not changed while it was scanned
    rough,       \* ghost: disturbed scans in a row
    lost,        \* ghost: texts purged by runs that died before they saved
    unkept,      \* ghost: texts settled without an extraction, or expired
    stray        \* ghost: texts staged by such runs, or purged while still queued

source == <<at, body>>
store == <<row, queued, extracted>>
scan == <<full, read, items, complete>>
ghosts == <<calm, rough, lost, unkept, stray>>
vars == <<source, store, pc, scan, scanned, limit, left, ghosts>>

NoRow == [content |-> Nothing, active |-> FALSE, strikes |-> 0]

NoItems == [r \in Reviews |-> Nothing]

\* The shop is connected with the n reviews it has by then, the youngest first.
Init ==
    /\ \E n \in 0..N :
          /\ at = [r \in Reviews |-> IF r <= n THEN n + 1 - r ELSE 0]
          /\ body \in [Reviews -> Contents \cup {Nothing}]
          /\ \A r \in Reviews : body[r] = Nothing <=> r > n
    /\ row = [r \in Reviews |-> NoRow]
    /\ queued = [t \in Texts |-> 0] /\ extracted = {}
    /\ pc = "idle" /\ full = TRUE
    /\ read = 0 /\ items = NoItems /\ complete = FALSE
    /\ scanned = FALSE /\ limit \in PageLimits
    /\ left = Mishaps
    /\ calm = FALSE /\ rough = 0
    /\ lost = {} /\ unkept = {} /\ stray = {}

Listed == {r \in Reviews : at[r] > 0}
Queued == {t \in Texts : queued[t] > 0}

-----------------------------------------------------------------------------
Mishap == left > 0 /\ left' = left - 1

\* The source.

Disturb ==
    /\ Mishap
    /\ calm' = (calm /\ pc # "scan")
    /\ UNCHANGED <<store, pc, scan, scanned, limit, rough, lost, unkept, stray>>

\* Review r, at place k or not in the list (k = N + 1), goes to its head.
ToHead(r, k) ==
    at' = [s \in Reviews |->
             IF s = r THEN 1 ELSE IF 0 < at[s] /\ at[s] < k THEN at[s] + 1 ELSE at[s]]

\* The next review appears.
Publish(r, c) ==
    /\ body[r] = Nothing /\ \A s \in 1..r - 1 : body[s] # Nothing
    /\ body' = [body EXCEPT ![r] = c]
    /\ ToHead(r, N + 1)
    /\ Disturb

\* A change of text or rating, a hiding or a showing; where the list is ordered by the
\* last change, the review moves to its head.
Edit(r, c) ==
    /\ r \in Listed /\ body[r] # c
    /\ body' = [body EXCEPT ![r] = c]
    /\ at' = at \/ ToHead(r, at[r])
    /\ Disturb

\* The places behind a review that goes move up.
Unlist(r) ==
    /\ r \in Listed
    /\ at' = [s \in Reviews |->
                IF s = r THEN 0 ELSE IF at[s] > at[r] THEN at[s] - 1 ELSE at[s]]
    /\ Disturb
    /\ UNCHANGED body

-----------------------------------------------------------------------------
\* The scan.

\* choose_mode: to the end, unless the order is known and an earlier run met the end; how
\* long ago that was is left open.
Start ==
    /\ pc = "idle"
    /\ pc' = "scan"
    /\ full' \in (IF KnownOrder /\ scanned THEN BOOLEAN ELSE {TRUE})
    /\ calm' = TRUE
    /\ UNCHANGED <<source, store, read, items, complete, scanned, limit, left>>
    /\ UNCHANGED <<rough, lost, unkept, stray>>

\* What a page shows: a stretch of the list as it is when it is fetched.
Page == {r \in Reviews : read < at[r] /\ at[r] <= read + PerPage}

\* _is_end: a short page, if the answer repeats the page size, or an empty one.
MayEnd == \A r \in Reviews : at[r] < read + PerPage
MustEnd == Page = {}

\* The page at hand is the last that a scan fetches.
AtLimit == read + PerPage >= limit * PerPage

\* _absorb: a review seen twice keeps its later copy.
Absorb(seen) ==
    /\ pc = "scan"
    /\ items' = [r \in Reviews |-> IF r \in seen THEN body[r] ELSE items[r]]
    /\ read' = read + PerPage
    /\ UNCHANGED <<source, store, full, scanned, limit, rough, lost, unkept, stray>>

\* scan_full and scan_incremental, newest first: on to the end or, in an incremental scan,
\* to a page of older reviews.
FetchPage ==
    /\ Absorb(Page)
    /\ \/ MayEnd /\ complete' = full /\ pc' = "stage"
       \/ ~MustEnd /\ ~AtLimit /\ UNCHANGED <<complete, pc>>
       \/ ~MustEnd /\ ~full /\ complete' = FALSE /\ pc' = "stage"
    /\ UNCHANGED <<left, calm>>

\* A scan that the page limit cuts off is not complete, whatever it is for.
FetchLast ==
    /\ Absorb(Page) /\ ~MustEnd /\ AtLimit
    /\ complete' = FALSE
    /\ pc' = "stage"
    /\ UNCHANGED <<left, calm>>

\* A well-formed answer that shows nothing.
FetchEmpty ==
    /\ Absorb({})
    /\ complete' = full
    /\ pc' = "stage"
    /\ Mishap
    /\ calm' = FALSE

-----------------------------------------------------------------------------
\* make_plan: a function of items and row, which stay as they are until the run saves.

Active(r) == row[r].active
Found == {r \in Reviews : items[r] # Nothing}
Shown == {r \in Found : items[r] # Hidden}

Unpublished == {r \in Found \ Shown : Active(r)}

Unchanged == {r \in Shown : Active(r) /\ row[r].content = items[r]}

Changed == {r \in Shown \ Unchanged : r \in Old => row[r] # NoRow}

SameText(r) == Active(r) /\ TextOf[row[r].content] = TextOf[items[r]]

\* Of those that need staging the youngest come first, up to the cap.
NeedStaging == {r \in Changed : ~SameText(r)}
Staged == {r \in NeedStaging : Cardinality({s \in NeedStaging : s > r}) < MaxEnqueue}
Deferred == NeedStaging \ Staged

\* Mutant: what the cap defers is recorded as if it had been staged.
EveryChange == Changed

Taken == {r \in Changed : SameText(r)} \cup Staged

\* Absence counts in a complete full scan that found anything at all.
Tracked == {r \in Reviews : Active(r)}
Missing == IF complete /\ Found # {} THEN Tracked \ Found ELSE {}
Mass == Cardinality(Tracked) >= MassMin /\ 2 * Cardinality(Missing) > Cardinality(Tracked)

\* Mutant: the strike at hand counts twice.
OneLess == Strikes - 1

Needed == IF Mass THEN StrikesMass ELSE Strikes

Absent == {r \in Missing : row[r].strikes + 1 >= Needed}

\* Mutant: a review that shows up again keeps its strikes.
NoReset == Taken \cup Unpublished \cup Absent

Reset == Taken \cup Unpublished \cup Absent \cup Unchanged

NewStrikes(r) ==
    IF r \in Missing \ Absent THEN row[r].strikes + 1
    ELSE IF r \in Reset THEN 0 ELSE row[r].strikes

NewRow(r) ==
    [content |-> IF r \in Taken THEN items[r] ELSE row[r].content,
     active |-> r \in Taken \/ (Active(r) /\ r \notin Unpublished \cup Absent),
     strikes |-> NewStrikes(r)]

RowText(rw) == TextOf[rw.content]

StagedTexts == {TextOf[items[r]] : r \in Staged}

\* Mutant: a text is purged although another review still has it.
NoRefs == {}

Referenced == {RowText(NewRow(r)) : r \in {s \in Reviews : NewRow(s).active}}

\* Mutant: the text of a review that is gone stays.
OfEdited == {RowText(row[r]) : r \in {s \in Staged : Active(s)}}

Superseded == {RowText(row[r]) : r \in Unpublished \cup Absent \cup {s \in Staged : Active(s)}}

ToPurge == Superseded \ Referenced

-----------------------------------------------------------------------------
\* run_sync: stage, purge, state.

Stage ==
    /\ pc = "stage"
    /\ pc' = "purge"
    /\ queued' = [t \in Texts |->
                    queued[t] + Cardinality({r \in Staged : TextOf[items[r]] = t})]
    /\ UNCHANGED <<source, row, extracted, scan, scanned, limit, left, ghosts>>

Purge ==
    /\ pc = "purge"
    /\ pc' = "save"
    /\ extracted' = extracted \ ToPurge
    /\ stray' = stray \cup (ToPurge \cap Queued)
    /\ UNCHANGED <<source, row, queued, scan, scanned, limit, left, calm, rough, lost, unkept>>

\* The scan and the plan are local to the run.
EndRun ==
    /\ pc' = "idle"
    /\ full' = TRUE /\ read' = 0 /\ items' = NoItems /\ complete' = FALSE
    /\ calm' = FALSE

\* The caller keeps the new meta with it.
Save ==
    /\ pc = "save"
    /\ EndRun
    /\ row' = [r \in Reviews |-> NewRow(r)]
    /\ scanned' = (scanned \/ complete)
    /\ rough' = IF ~complete THEN rough
                ELSE IF calm THEN (IF Deferred = {} THEN 0 ELSE rough)
                ELSE IF rough < StrikesMass THEN rough + 1 ELSE rough
    /\ UNCHANGED <<source, queued, extracted, limit, left, lost, unkept, stray>>

\* A page that fails for good ends the run before it writes.
Abort ==
    /\ pc = "scan"
    /\ Mishap
    /\ EndRun
    /\ UNCHANGED <<source, store, scanned, limit, rough, lost, unkept, stray>>

Die ==
    /\ pc \in {"purge", "save"}
    /\ Mishap
    /\ EndRun
    /\ lost' = IF pc = "save" THEN lost \cup ToPurge ELSE lost
    /\ stray' = stray \cup StagedTexts
    /\ UNCHANGED <<source, store, scanned, limit, rough, unkept>>

-----------------------------------------------------------------------------
\* Around the sync.

\* The ingest tick settles a row of the queue, as done or as failed.  There may be no
\* extraction of it: the row failed, the text is not one to extract, or the organisation
\* keeps none; one from before stays.
Extract(t) ==
    /\ queued[t] > 0
    /\ queued' = [queued EXCEPT ![t] = @ - 1]
    /\ \/ extracted' = extracted \cup {t} /\ unkept' = unkept \ {t} /\ UNCHANGED left
       \/ Mishap /\ extracted' = extracted /\ unkept' = unkept \cup ({t} \ extracted)
    /\ UNCHANGED <<source, row, pc, scan, scanned, limit, calm, rough, lost, stray>>

\* The retention sweep knows nothing of tracked reviews.
Expire(t) ==
    /\ t \in extracted
    /\ Mishap
    /\ extracted' = extracted \ {t}
    /\ unkept' = unkept \cup {t}
    /\ UNCHANGED <<source, row, queued, pc, scan, scanned, limit, calm, rough, lost, stray>>

Run == Start \/ FetchPage \/ FetchLast \/ Stage \/ Purge \/ Save

Next ==
    \/ \E r \in Reviews : \/ \E c \in Contents : Publish(r, c)
                          \/ \E c \in Contents \cup {Hidden} : Edit(r, c)
                          \/ Unlist(r)
    \/ Run \/ FetchEmpty \/ Abort \/ Die
    \/ \E t \in Texts : Extract(t) \/ Expire(t)

Spec == Init /\ [][Next]_vars

\* The scheduler runs the sync again and again, to the end of the list at least once per
\* reconcile interval, and the ingest tick goes on.
Fairness ==
    /\ WF_vars(Run) /\ SF_vars(Start /\ full')
    /\ \A t \in Texts : WF_vars(Extract(t))

FairSpec == Spec /\ Fairness

-----------------------------------------------------------------------------
\* Every variable has its type; strikes stay below what retires a review.
TypeOK ==
    /\ at \in [Reviews -> Nat]
    /\ body \in [Reviews -> Contents \cup {Hidden, Nothing}]
    /\ row \in [Reviews -> [content : Contents \cup {Nothing}, active : BOOLEAN,
                            strikes : 0..StrikesMass - 1]]
    /\ queued \in [Texts -> Nat] /\ extracted \subseteq Texts
    /\ pc \in {"idle", "scan", "stage", "purge", "save"} /\ full \in BOOLEAN
    /\ read \in Nat /\ items \in [Reviews -> Contents \cup {Hidden, Nothing}]
    /\ complete \in BOOLEAN /\ scanned \in BOOLEAN /\ limit \in PageLimits
    /\ left \in Nat
    /\ calm \in BOOLEAN /\ rough \in 0..StrikesMass
    /\ lost \subseteq Texts /\ unkept \subseteq Texts /\ stray \subseteq Texts

\* A review that is still listed has no more strikes than there were scans in a row that
\* the source disturbed: a strike that a later scan refutes is taken back, unless that
\* scan defers a change of it.
StrikesEarned == \A r \in Listed : row[r].strikes <= rough

\* No review that is still listed goes for being absent before that many scans in a row
\* were disturbed.
RetiredFairly ==
    [][\A r \in Listed :
         Active(r) /\ ~row'[r].active /\ items[r] # Hidden => rough' >= Strikes]_vars

\* The text of a tracked review is extracted or queued, whichever reviews share it: none
\* is forgotten by a plan, a cap or a purge.  It may have been settled without an
\* extraction, or have expired, which no later run notices, or a run purged it and died
\* before it could say so.
TrackedIsKept ==
    pc # "save" =>
        \A r \in Tracked :
            RowText(row[r]) \in extracted \cup Queued \cup lost \cup unkept

\* What has an extraction, or will get one, has a tracked review with that text, but for
\* what a run left that died, or what was queued when it was purged.
NoOrphans ==
    pc = "idle" => extracted \cup Queued \subseteq {RowText(row[r]) : r \in Tracked} \cup stray

\* What every full scan sees, and whether it meets the end of the list.
Within == {r \in Listed : at[r] <= limit * PerPage}
MeetsEnd == Cardinality(Listed) <= (limit - 1) * PerPage

\* Once the source rests, every published review up to the page limit has had its
\* extraction in the end, however many runs the cap defers it to, its row says what it is,
\* and where a scan meets the end no review that went stays tracked, unless the list is
\* empty.
Converges ==
    <>[]( /\ \A r \in Within :
                /\ body[r] # Hidden /\ r \notin Old
                       => TextOf[body[r]] \in extracted \cup lost \cup unkept
                /\ r \in Tracked => body[r] = row[r].content
          /\ MeetsEnd /\ Listed # {} => Tracked \subseteq Listed )
=============================================================================
