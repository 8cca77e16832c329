----------------------------- MODULE Extraction -----------------------------
(***************************************************************************)
(* One extraction per review and what is kept of it, for one organisation: *)
(* POST /v2/extract and the webhook deliveries (_run_extraction_v2), whose  *)
(* database calls are transactions of their own, under an organisation     *)
(* that switches its retention mode, purges, is swept by the retention job *)
(* or is deleted while they run.                                           *)
(***************************************************************************)
EXTENDS Integers

CONSTANTS
    Requests,
    Keyed,       \* requests that come with an API key; the others are deliveries
    Texts,
    TextOf,      \* [Requests -> Texts], by input hash
    NoOne,
    Windows,     \* the values of retention_days, in steps of a row's age
    Sweeps,      \* runs of the retention job that may overlap
    Mishaps,     \* bound: errors and deaths
    Switches     \* bound: changes of the retention mode or its window

ASSUME ExtractionAssumption ==
    /\ Keyed \subseteq Requests
    /\ TextOf \in [Requests -> Texts]
    /\ NoOne \notin Requests
    /\ Windows \subseteq Nat \ {0}
    /\ Mishaps \in Nat /\ Switches \in Nat

VARIABLES
    mode,      \* organizations.retention_mode
    days,      \* organizations.retention_days, 0 if NULL
    deleted,   \* the organisation is gone
    stored,    \* the row of a text, by the request that inserted it
    age,       \* how old it is
    usage,     \* requests with a usage record
    metered,   \* ... with its tokens
    costed,    \* requests with a cost record
    pc, seen,  \* where a request is, and the mode it read
    kept,      \* requests that have the id of a row they inserted
    called,    \* requests the model has answered
    sweep,     \* the window each sweep has listed, 0 between sweeps
    left,      \* what is left of the bounds
    had,       \* ghost: the windows in force since a sweep's list
    clean,     \* ghost: purged since the last switch
    across,    \* ghost: requests that were under way in that purge
    hit        \* ghost: requests that met an error or lost their row

org == <<mode, days, deleted>>
rows == <<stored, age>>
books == <<usage, metered, costed>>
jobs == <<sweep, had>>
marks == <<clean, across>>
vars == <<org, rows, books, pc, seen, kept, called, jobs, left, marks, hit>>

ModeWith(d) == IF d = 0 THEN "stateless" ELSE "retained"

Init ==
    /\ days \in Windows \cup {0} /\ mode = ModeWith(days) /\ deleted = FALSE
    /\ stored = [t \in Texts |-> NoOne] /\ age = [t \in Texts |-> 0]
    /\ usage = {} /\ metered = {} /\ costed = {}
    /\ pc = [r \in Requests |-> "idle"]
    /\ seen = [r \in Requests |-> "stateless"]
    /\ kept = {} /\ called = {}
    /\ sweep = [s \in Sweeps |-> 0] /\ had = [s \in Sweeps |-> {}]
    /\ left = [mishaps |-> Mishaps, switches |-> Switches]
    /\ clean = FALSE /\ across = {} /\ hit = {}

Over == {"done", "failed"}
Running == {r \in Requests : pc[r] \notin Over \cup {"idle"}}
Retained == {t \in Texts : stored[t] # NoOne}

Goto(r, place) == pc' = [pc EXCEPT ![r] = place]

-----------------------------------------------------------------------------
\* Entry: the mode is read once, and decides about lookup and save.

\* Mutant: a context built without the mode keeps what it extracts.
KeepsAnyway(r) == TRUE

Keeps(r) == seen[r] = "retained"

ReadMode(r) ==
    /\ seen' = [seen EXCEPT ![r] = mode]
    /\ Goto(r, "lookup")

\* require_api_key: the usage record and the mode in one transaction; a key goes with
\* its organisation.
Admit(r) ==
    /\ pc[r] = "idle" /\ r \in Keyed /\ ~deleted
    /\ usage' = usage \cup {r}
    /\ ReadMode(r)
    /\ UNCHANGED <<org, rows, metered, costed, kept, called, jobs, left, marks, hit>>

\* A signed delivery is answered 200 and left to a background task.
Accept(r) ==
    /\ pc[r] = "idle" /\ r \notin Keyed
    /\ Goto(r, "accepted")
    /\ UNCHANGED <<org, rows, books, seen, kept, called, jobs, left, marks, hit>>

\* The installation is looked up by its shop; one that is gone drops the review.
Resolve(r) ==
    /\ pc[r] = "accepted"
    /\ Goto(r, IF deleted THEN "failed" ELSE "mode")
    /\ UNCHANGED <<org, rows, books, seen, kept, called, jobs, left, marks, hit>>

\* get_org_retention_pg
ReadLive(r) ==
    /\ pc[r] = "mode"
    /\ ReadMode(r)
    /\ UNCHANGED <<org, rows, books, kept, called, jobs, left, marks, hit>>

-----------------------------------------------------------------------------
\* _run_extraction_v2

\* get_by_hash_pg, for those who keep; a hit is only re-checked for an alert.
Lookup(r) ==
    /\ pc[r] = "lookup"
    /\ Goto(r, IF Keeps(r) /\ TextOf[r] \in Retained THEN "alert" ELSE "call")
    /\ UNCHANGED <<org, rows, books, seen, kept, called, jobs, left, marks, hit>>

\* extract_with_llm: an answer, or the RuntimeError that becomes a 503.
Call(r) ==
    /\ pc[r] = "call"
    /\ \/ /\ called' = called \cup {r}
          /\ Goto(r, "save")
          /\ hit' = hit
       \/ /\ called' = called
          /\ Goto(r, "failed")
          /\ hit' = hit \cup {r}
    /\ UNCHANGED <<org, rows, books, seen, kept, jobs, left, marks>>

\* Mutant: rows without a foreign key on their organisation.
AnyOrg == TRUE

OrgExists == ~deleted

\* save_extraction_pg: the insert gives way to a row of the same text, and then
\* returns no id.
Save(r) ==
    /\ pc[r] = "save"
    /\ \/ /\ ~Keeps(r)
          /\ Goto(r, "tokens")
          /\ UNCHANGED <<rows, kept>>
       \/ /\ Keeps(r) /\ OrgExists
          /\ LET t == TextOf[r]
             IN  IF t \in Retained
                 THEN UNCHANGED <<rows, kept>>
                 ELSE /\ stored' = [stored EXCEPT ![t] = r]
                      /\ age' = [age EXCEPT ![t] = 0]
                      /\ kept' = kept \cup {r}
          /\ Goto(r, "tokens")
       \/ /\ Keeps(r) /\ ~OrgExists
          /\ Goto(r, "failed")
          /\ UNCHANGED <<rows, kept>>
    /\ UNCHANGED <<org, books, seen, called, jobs, left, marks, hit>>

HasUsage(r) == r \in usage

\* update_usage_tokens, an UPDATE that finds its record or nothing.
Tokens(r) ==
    /\ pc[r] = "tokens"
    /\ metered' = metered \cup {x \in {r} : HasUsage(x)}
    /\ Goto(r, "cost")
    /\ UNCHANGED <<org, rows, usage, costed, seen, kept, called, jobs, left, marks, hit>>

\* Mutant: the empty id of a lost insert is passed on to the foreign key.
NamesItsRow(r) == Keeps(r) => stored[TextOf[r]] = r

\* The extraction_id of the cost record, if there is one, still names a row.
IdHolds(r) == r \in kept => stored[TextOf[r]] = r

\* record_extraction_cost_pg
Cost(r) ==
    /\ pc[r] = "cost"
    /\ \/ /\ ~deleted /\ IdHolds(r)
          /\ costed' = costed \cup {r}
          /\ Goto(r, "alert")
       \/ /\ deleted \/ ~IdHolds(r)
          /\ costed' = costed
          /\ Goto(r, "failed")
    /\ UNCHANGED <<org, rows, usage, metered, seen, kept, called, jobs, left, marks, hit>>

\* alert_on_review_event never raises (UrgentAlerts has its steps).
Alert(r) ==
    /\ pc[r] = "alert"
    /\ Goto(r, "done")
    /\ UNCHANGED <<org, rows, books, seen, kept, called, jobs, left, marks, hit>>

\* A database error or the instance's death ends the request; a model without a price
\* only costs it the cost record.
Fail(r) ==
    /\ r \in Running /\ left.mishaps > 0
    /\ left' = [left EXCEPT !.mishaps = @ - 1]
    /\ hit' = hit \cup {r}
    /\ \/ Goto(r, "failed")
       \/ pc[r] = "cost" /\ Goto(r, "alert")
    /\ UNCHANGED <<org, rows, books, seen, kept, called, jobs, marks>>

Request(r) == \/ Admit(r) \/ Resolve(r) \/ ReadLive(r) \/ Lookup(r) \/ Call(r)
              \/ Save(r) \/ Tokens(r) \/ Cost(r) \/ Alert(r)

-----------------------------------------------------------------------------
\* What happens to the rows meanwhile.

\* The rows of S are deleted; their cost records stay, without them.
Delete(S) ==
    /\ stored' = [t \in Texts |-> IF t \in S THEN NoOne ELSE stored[t]]
    /\ age' = [t \in Texts |-> IF t \in S THEN 0 ELSE age[t]]
    /\ hit' = hit \cup {stored[t] : t \in S \cap Retained}

\* POST /v2/purge
Purge ==
    /\ ~deleted
    /\ Delete(Texts)
    /\ clean' = TRUE
    /\ across' = {r \in Running : Keeps(r)}
    /\ UNCHANGED <<org, books, pc, seen, kept, called, jobs, left>>

\* Older than any window, a row has no age left to tell.
Age(t) ==
    /\ t \in Retained
    /\ \E w \in Windows : age[t] < w
    /\ age' = [age EXCEPT ![t] = @ + 1]
    /\ UNCHANGED <<org, stored, books, pc, seen, kept, called, jobs, left, marks, hit>>

\* Mutant: the lister forgets the windows that are not the shortest.
ShortestWindow == CHOOSE w \in Windows : \A v \in Windows : w <= v

Listed == days

\* list_orgs_with_retained_mode_pg
List(s) ==
    /\ sweep[s] = 0 /\ mode = "retained"
    /\ sweep' = [sweep EXCEPT ![s] = Listed]
    /\ had' = [had EXCEPT ![s] = {days}]
    /\ UNCHANGED <<org, rows, books, pc, seen, kept, called, left, marks, hit>>

Done(s) ==
    /\ sweep' = [sweep EXCEPT ![s] = 0]
    /\ had' = [had EXCEPT ![s] = {}]

\* Mutant: the cutoff on the wrong side.
FreshRows(s) == {t \in Retained : age[t] < sweep[s]}

\* The cutoff is that of the window listed, whatever has become of the organisation's.
Expired(s) == {t \in Retained : age[t] >= sweep[s]}

\* purge_org_extractions_pg with the cutoff, or an error, which is only logged.
Expire(s) ==
    /\ sweep[s] # 0
    /\ Done(s)
    /\ Delete(Expired(s))
    /\ UNCHANGED <<org, books, pc, seen, kept, called, left, marks>>

ExpireFails(s) ==
    /\ sweep[s] # 0 /\ left.mishaps > 0
    /\ Done(s)
    /\ left' = [left EXCEPT !.mishaps = @ - 1]
    /\ UNCHANGED <<org, rows, books, pc, seen, kept, called, marks, hit>>

\* The operator changes the mode, or the window of a retained organisation.
Switch ==
    /\ ~deleted /\ left.switches > 0
    /\ left' = [left EXCEPT !.switches = @ - 1]
    /\ days' \in (Windows \cup {0}) \ {days} /\ mode' = ModeWith(days')
    /\ had' = [s \in Sweeps |->
                  IF sweep[s] = 0 THEN {} ELSE had[s] \cup ({days'} \ {0})]
    /\ clean' = FALSE /\ across' = {}
    /\ UNCHANGED <<deleted, rows, books, pc, seen, kept, called, sweep, hit>>

\* DELETE /account, with everything that references the organisation; one that is not
\* found counts as stateless.
DeleteOrg ==
    /\ ~deleted
    /\ deleted' = TRUE /\ mode' = "stateless" /\ days' = 0
    /\ stored' = [t \in Texts |-> NoOne] /\ age' = [t \in Texts |-> 0]
    /\ usage' = {} /\ metered' = {} /\ costed' = {}
    /\ clean' = FALSE /\ across' = {}
    /\ hit' = hit \cup Requests
    /\ UNCHANGED <<pc, seen, kept, called, jobs, left>>

Next == \/ \E r \in Requests : Request(r) \/ Accept(r) \/ Fail(r)
        \/ \E t \in Texts : Age(t)
        \/ \E s \in Sweeps : List(s) \/ Expire(s) \/ ExpireFails(s)
        \/ Purge \/ Switch \/ DeleteOrg

Spec == Init /\ [][Next]_vars

\* Requests run once they have begun, and the scheduler keeps calling the sweep.
FairSpec ==
    /\ Spec
    /\ \A r \in Requests : WF_vars(pc[r] # "idle" /\ Request(r))
    /\ WF_vars(\E s \in Sweeps : List(s))
    /\ \A s \in Sweeps : WF_vars(Expire(s))

-----------------------------------------------------------------------------
Places == {"idle", "accepted", "mode", "lookup", "call", "save", "tokens", "cost", "alert"} \cup Over

Modes == {"stateless", "retained"}

\* Every variable has its type; only calls with a key are metered.
TypeOK ==
    /\ days \in Windows \cup {0} /\ mode = ModeWith(days) /\ deleted \in BOOLEAN
    /\ stored \in [Texts -> Requests \cup {NoOne}]
    /\ age \in [Texts -> Nat]
    /\ usage \subseteq Keyed /\ metered \subseteq usage /\ costed \subseteq Requests
    /\ pc \in [Requests -> Places] /\ seen \in [Requests -> Modes]
    /\ kept \subseteq Requests /\ called \subseteq Requests
    /\ sweep \in [Sweeps -> Windows \cup {0}] /\ had \in [Sweeps -> SUBSET Windows]
    /\ left \in [mishaps : Nat, switches : Nat]
    /\ clean \in BOOLEAN /\ across \subseteq Requests /\ hit \subseteq Requests

\* An organisation that opted out and purged keeps no text, but for what requests that
\* were under way in the purge still saved: whoever comes later leaves nothing.
OptOutHolds ==
    mode = "stateless" /\ clean => \A t \in Retained : stored[t] \in across

\* Every answer of the model is paid for and metered, whichever of two equal requests
\* wrote the row, unless an error struck or the row went away under the request.
CallsAccounted ==
    \A r \in called \ hit :
        pc[r] \in Over => r \in costed /\ (r \in Keyed => r \in metered)

\* Nothing of a deleted organisation is left or comes back.
NothingAfterDeletion == deleted => Retained = {} /\ usage = {} /\ costed = {}

Owned == Purge \/ DeleteOrg

\* A sweep works with the window it listed, while the operator changes it, other sweeps
\* run and the row is stored anew: unless the owner deletes it, a row goes only when it has
\* outlived a window that was in force since some sweep's list. So a row within the window
\* of now is lost to a sweep only if the window was lengthened, or taken away, under it.
FreshKept ==
    [][\A t \in Retained :
          stored'[t] = NoOne =>
              Owned \/ \E s \in Sweeps : \E w \in had[s] : age[t] >= w]_vars

Answered == {TextOf[r] : r \in called}

\* In an organisation that stays retained no row outlives the window in force for ever,
\* whatever the window was when a sweep began.
WindowHonoured ==
    <>[](mode = "retained") => \A t \in Texts : age[t] >= days ~> age[t] < days

\* A delivery that was answered 200 is extracted and checked for an alert, whatever the
\* mode does meanwhile and whoever else extracts the same text, unless an error, a purge
\* or the end of the organisation hits it.
DeliveriesProcessed ==
    \A r \in Requests :
        pc[r] = "accepted" ~> r \in hit \/ (pc[r] = "done" /\ TextOf[r] \in Answered)
=============================================================================
