# Verification of review-iq

TLA+ models of the parts of review-iq where several instances, requests and scheduled jobs
meet in one Postgres database, the TLC runs that check them on small instances, and TLAPS
proofs of what holds for every instance.

## 1. Inventory

review-iq is a FastAPI service on Cloud Run (several instances, each with a thread pool and
a connection pool) over one Supabase Postgres database, with a cron scheduler that calls
token-protected `/internal/*` endpoints. Every coroutine reaches the database through
`asyncio.to_thread`, one short transaction per helper, so two requests interleave between
any two helpers.

| component | state | operations | hard behaviour | what makes it correct |
|---|---|---|---|---|
| Bulk-ingest queue (`core/ingest_worker.py`, `api/v2/ingest.py`, `api/v2/extract.py`, `internal/ingest_tick.py`) | `batch_jobs`, `batch_job_rows`, row locks, the drains' local sets | upload, claim, extract, settle, sync progress, tick | concurrent drains, instance death, four-query sync | each row settled once; job final only and eventually when drained; results exact; tenant attribution |
| Alert pipeline (`core/alerts/*`, `webhooks/resend.py`, `api/v2/unsubscribe.py`) | `alert_log`, `alert_preferences`, `email_suppressions`, urgent-window markers | evaluate, coalesce, defer, flush, digest, unsubscribe, suppress | crash between claim/send/record, concurrent evaluation, stale reads | no mail after opt-out, window rate, nothing deferred is lost |
| Connection pool (`core/db_pool.py`) | idle list, in-use count, condition variable, tenant GUC per connection | acquire, release, validate, discard | threads, bounded wait, leaked connections | bound on connections, no lost slot, no tenant leak |
| API keys and quota (`auth/api_key.py`, `auth/*`, `api/admin.py`, `api/account.py`, `api/bff/router.py`) | `api_keys`, `usage_records` | authenticate-and-record, create, revoke, rotate, regenerate | concurrent calls at the quota boundary, changes of a key under a call or another change | quota never exceeded, revoked keys refused, a key for a key |
| Extraction and its cache (`api/v2/extract.py`, the background half of `api/webhooks/shopify.py` and `google.py`) | `extractions`, `extraction_costs`, `usage_records` | cache lookup, model call, save, tokens, cost, alert | same text twice at once, retention mode switched midway, partial failure | one row per text, every answer paid for, nothing kept for an organisation that opted out |
| Retention (`core/retention.py`, `api/account.py`) | retention mode, age of stored text | switch mode, purge, sweep, delete the account | switch or deletion under a request or a sweep | every row goes after its window, none before a window that was in force under the sweep |
| Judge.me sync (`core/ingestion/judgeme_*.py`) | `judgeme_review_state`, meta, staged rows | scan, plan, stage, purge, save | a list that shifts while it is read, death between three writes | converges to what the shop shows, retires only what is gone |
| Model routing (`core/router.py`, `core/llm.py`, `core/routing_policy.py`) | one call's attempts | small model, escalation, retries, secondary failover | order of fallbacks | a result says what it is and what it cost |
| Bulk limiter (`core/ratelimit.py`) | token bucket, semaphore | acquire, release | many waiters, each back for retries | the rate holds, nobody waits for ever |
| Token ledger and demo budget (`core/token_ledger.py`, `api/demo.py`) | rolling window of reserved and settled tokens per instance, daily counter | admit, settle, release, prune, hold | reservation settled late, several instances, restarts | the demo keeps to its share and opens again when it said |
| Review sources: installations (`api/shopify_auth.py`, `google_auth.py`, `core/ingestion/*_source.py`) | installations, signed states | install, verify | redelivery | not modelled (section 13) |
| Sign-up and sessions (`auth/signup.py`, `auth/session.py`) | organisations, memberships | provision, verify | two sign-ups at once | not modelled (section 13) |
| Detector sweep, cost alerts, leads, corrections, reply drafts, authenticity, dataset export, insights, BFF | rows of their own tables | CRUD and pure scoring | little | not modelled (section 13) |
| Text pipeline, v1 API, metrics, configuration | none, or a local file | pure functions, legacy path | none | not modelled (section 13) |
| `engine/`, `eval/`, `benchmark/`, `web/`, `ops/`, `scripts/` | files | research code, front end, deployment | none of the service's own | not modelled (section 13) |

How they interact: an upload or a tick of the bulk queue drains rows, each of which is an
extraction; so is a call with a key, a webhook delivery and a review that the Judge.me sync
stages. An extraction asks the models through the router, and in bulk through the limiter;
it ends with an evaluation for an urgent alert. The sweeps of alerts, digests and retention
are calls of the scheduler. All of them borrow connections of the instance's pool.

## 2. Plan

| order | module | what it is for | state |
|---|---|---|---|
| 1 | `DurableQueue`, `IngestQueue`, `IngestQueueProofs` | the bulk queue and what it promises | done |
| 2 | `ConnLending`, `DbPool`, `DbPoolProofs` | the connection pool and what it promises | done |
| 3 | `AlertOutbox`, `UrgentAlerts`, `UrgentAlertsProofs` | immediate mail, coalescing, roll-ups, and what they promise | done |
| 4 | `AlertDigest`, `AlertDigestProofs` | daily and weekly digests | done |
| 5 | `KeyRegister`, `ApiKeys`, proved in `AdmissionProofs` | authentication against the monthly quota, creation, rotation, regeneration, revocation, and what they promise | done |
| 6 | `Extraction`, `ExtractionProofs` | extraction with its cache, the mode read at entry, purge, sweep and deletion | done |
| 7 | `JudgemeSync`, `JudgemeSyncProofs` | scan, plan, stage, purge, save, with crashes, against a source that changes | done |
| 8 | `ModelCalls`, `ModelCallsProofs` | routing, escalation and failover over the shared limiter | done |
| 9 | `DemoGate`, proved in `AdmissionProofs` | the demo's ledger per instance and the counter they share | done |
| 10 | `NestedPool`, proved in `DbPoolProofs` | the pool under threads that keep a connection while they borrow another | done |
| 11 | `Requests` | `ApiKeys` and `Extraction` composed: the lock of the key's row is where the mode is read | left |
| 12 | sign-up, installations, detector sweep | actions of the above | left |

The MC modules carry the same names. Four components have an abstract specification that
says what they promise without the machinery, and implement it, on TLC's instances and by
proof for all constants:

| abstract | implemented by | promises |
|---|---|---|
| `DurableQueue` | `IngestQueue` | rows accepted together, each settled once, the result reported after the last row |
| `ConnLending` | `DbPool`, `NestedPool` | a connection lent to one borrower at a time, at most `maxconn` of them, with no tenant's scope on it |
| `AlertOutbox` | `UrgentAlerts` | an event is owed until it is mailed or waits, a mail carries one owed event and such as wait, mails keep to the cap, only a mail retires |
| `KeyRegister` | `ApiKeys` | a call is admitted, and a key given, revoked or replaced, in one step |

Every behaviour of `NestedPool` is one of `DbPool`. The digests have no such specification:
what they promise depends on what the watermark met, and section 6 states it with its
premises.

Every safety property that a run checks is a theorem for all constants. Type correctness is
one for every module; the runs spend their time on what relates several pieces of state
instead. For the same reason they do not repeat the theorems `SlotsAccounted`,
`SlotsCounted`, `TenantIsolation`, `SettledForGood`, `RecordedWasMailed`, `MailCap` and
`RevokedStaysOut`; the last three and the isolation follow from the refinements too.

## 3. The bulk-ingest queue

`IngestQueue` has one action per database call. `request[j]` is the submitting request
(`CreateJob`, `EnqueueRows`, `MarkProcessing` are the three transactions of `ingest_csv` and
`extract_batch`); a *worker* is a job's background task or a scheduler tick, with a program
counter and the local variables of `drain_rows`, `_claim_one_row` and `_sync_job_progress`.
`ClaimRow` opens the transaction that `SettleRow` commits, so `row[w]` is also the row lock.
`Extract` covers `_run_extraction_v2`, which commits on a connection of its own: the
extraction may be stored and the row still fail or the drain die. `CountSettled`,
`CountPending`, `CheckFinal`, `ListHashes` and `Finalize` are the five transactions of a
progress sync. `Die` stands for an instance's death and for an exception that leaves
`drain_rows`: the transaction rolls back and the set of touched jobs is gone.

Left out: the text of a row (only whether `ReviewRequest` refuses it), products and dates,
the limiter, the GET endpoints (they only read). Whether an extraction is stored is a free
choice, which covers an organisation switched to stateless and the classifier-first draft.
`enqueuedAt` keeps the order of the jobs' inserts, which is what `ORDER BY updated_at`
compares among pending rows; rows of one job share their timestamp.

| run | shows |
|---|---|
| `ingest_safety` | two jobs (three rows, one of them refused), a tick of two rows, one death: `CompletedDrained`, `ResultComplete`, and that the queue implements `DurableQueue` |
| `ingest_live` | two jobs of one row, one death: every persisted row is settled (`RowsSettle`), and an accepted job with an unsettled row becomes final unless one more drain dies (`ResumedCompletes`) |

`ResumedCompletes` draws the line where the code stops keeping the promise of
`api/v2/extract.py:386` that a restart is resumed: the set of touched jobs is a local of
`drain_rows` (`ingest_worker.py:234`), so a drain that dies after the last settle of a job
and before its sync leaves the job in `processing` for ever, with all its rows settled. The
model allows three more behaviours that no property forbids: two drains may both complete
one job, with the same result; the one that writes last may bring counts older than the last
settle, against `storage_pg.py:741` ("never lose an update"); and the unconditional write of
`processing` (`ingest.py:183`) may come after a tick has finished the job, which then shows
that status to its poller.

Bounds: two jobs are the least that show the global queue order and cross-tenant draining,
two rows of one job the least that let two drains share a job, one tick and two background
tasks give three concurrent drains, one death is enough to lose a touched set or a claimed
row. The safety run uses the symmetry of the two rows of one job. Fairness (`FairSpec`): a
live drain keeps running and the scheduler keeps calling; a submitting request need not
continue, so nothing is assumed of it.

Proved (`IngestQueueProofs`, for all constants that satisfy `QueueAssumption`): type
correctness, `CompletedDrained`, `ResultComplete`, `SettledForGood` and the refinement of
`DurableQueue`. `CompletedDrained` is not inductive: the drain that finalises read "no
pending row" several steps before. `IInv` adds what keeps that reading true: rows of a job
become durable together (`RowsTogether`), a lock has one holder and holds a pending row
(`HeldRow`, `OneHolder`), every drain past `CountPending` synchronises a drained job
(`SyncedJobs`), and the hash list it read is final (`HashedRows`). Liveness stays with TLC.

## 4. The connection pool

`DbPool` models the threads that share one instance's pool for one DSN. A critical section
of `pool.cond` is one step, and so is each network call outside it. `TakeIdle`, `TakeSlot`,
`Wait`, `TimeOut` and `Exhausted` are the branches of the loop in `acquire`, `Check` and
`Connect` its ping and connect, `SetTenant` and `EndTransaction` what the borrower does,
`RollBack`, `Discard`, `Append` and `FreeSlot` the release in its two critical sections (a
collected proxy ends in `Discard`), `CloseIdle` and `CloseEntry` the two halves of
`close_idle`. `pc` also says whether a waiter was notified ("woken") or its wait ran out
("late": a notification may still pick it). `scope` is the tenant set in a connection's open
transaction, which only a commit or a rollback clears. Left out: which idle entry is the
hottest, the seconds, a second pool (fork, `close_all_pools`), a proxy collected inside a
critical section of its own thread.

`NestedPool` is the pool as two parts of the service use it: a drain keeps the connection
that holds its row's lock while the retention lookup and the extraction borrow others, and a
dashboard request looks its retention mode up before it closes the connection of its session
lookup (`auth/session.py:119`). The inner helper of such a thread is a borrower of its own
that starts while the outer one is in use and that the outer one waits for.

`pool_safety` runs `NestedSpec`: four borrowers of two tenants over two slots and four
connections, two of them with an inner helper, so that two can wait while two hold, a
connection can be opened while another is on its way out, and two threads can starve each
other. `BoundedOpen` (open and opening connections stay within `maxconn`, although `in_use`
passes it for a moment when an entry is taken before its releaser frees its slot),
`NoLostWakeup` (nobody sleeps beside a free slot that no awake thread will see),
`StuckOnlyWhenFull` (if nobody can move before a deadline passes, as many threads as the
pool has slots each keep a connection and wait for another: a lost slot would break this,
and so would a lost wakeup), and that the pool implements `ConnLending`: from the moment
`acquire` returns to the rollback or discard of the release, a connection is lent, to nobody
else and without the scope of whoever had it before. The starvation itself is the behaviour
of the code, and only the deadline of `acquire` ends it. Connections being closed by
`close_idle` are not counted: for that moment more than `maxconn` may be open, which the
code accepts. A borrower always may end its work and a waiter may time out, so the run
checks for deadlock too.

Proved (`DbPoolProofs`, any borrowers, tenants, connections and `MaxConn > 0`): type
correctness, `SlotsAccounted` (the counter is exactly the borrowers between taking and
freeing a slot), `BoundedOpen`, `TenantIsolation`, `NoLostWakeup` and the refinement of
`ConnLending`; every behaviour of `NestedSpec` is one of `Spec` (`NestedIsPool`), so they
hold of it too, and `StuckOnlyWhenFull` does (`StarvingFillsPool`). The invariant is `IInv`:
`PlaceInv` (types, who has which connection, `TenantIsolation`), `SlotsAccounted`, two
counting invariants, `Balanced` (every open connection is idle or borne by one borrower, and
whoever bears none is connecting) and `Capacity` (idle and borne stay within `MaxConn`), of
which `BoundedOpen` is a consequence, and `Notified` (while somebody sleeps, enough notified
threads are on their way to every free slot and idle entry), which gives `NoLostWakeup`. The
counting steps use six lemmas on the cardinality of `At(S)` when one borrower moves. For the
refinement, whoever is lent a connection bears one (`DebtorsBear`), so a free one leaves
room under `MaxConn`, and `PlaceInv` says that nobody else has it and that it has no scope.

## 5. Urgent alerts

`UrgentAlerts` models one organisation. An evaluation (`evaluate_and_alert`) reads the
recipient, the dedupe row, the preference and the suppression in turn (`StartEval`,
`Dedupe`, `CheckGates`), claims a slot of the window under an advisory lock (`Claim`), and
then mails (`ReadPending`, `Sent`, `Record`) or defers (`Defer`). A sweep
(`flush_deferred_urgent_for_org`) takes the same steps with fewer gates and mails what was
deferred as one roll-up. A failed send gives the slot back (`Release`) and defers. `claims`
are the rows of `urgent_window` claims without a release, `WindowPasses` is the age limit in
their count. `Change` and `RecordSuppression` are the owner's settings and the bounce
webhook, which clears the address in one transaction and records the suppression in the
next. A database error is a `Mishap`, and so is a death: an error of the claim fails open,
as in the code. Left out: wording, links and signatures, the exact length of a window, the
`likely_fake` event (the same path without the coalescer).

| run | shows |
|---|---|
| `alerts_safety` | `NeverDropped`, `MailedOnce`, `GatesRespected`, and that the alerts implement `AlertOutbox` |
| `alerts_live` | `DeferredIsDelivered`: what is held back leaves with some later mail |

A sweep looks neither at the frequency nor at the suppression list, so an address that
bounced and was entered again is mailed what was deferred, against `engine.py:295`,
`coalescer.py:187` and `webhooks/resend.py:18`; `GatesRespected` therefore promises the
suppression gate for evaluations only.

Bounds: two reviews, one of them evaluated twice (the re-evaluation of a cache hit), one
sweep that runs again and again, one slot per window, one window that passes under a
delivery (`Overruns`), one mishap, one change. Three claim tokens are enough, because a
token is free again once no claim, mail or sender names it. The counter `mailed` stops at
two. The runs have no deadlock check: with every review settled the organisation is at rest.

Premises, and what breaks without them: `NeverDropped` needs that no mishap happened (an
error of the insert in `Defer` loses the event, and so does a death before it); `MailedOnce`
needs besides that no delivery outlived its window and that the cap is one, its default
(with two, another roll-up can carry the same review between a send and its rows).
`MailCap`, `RecordedWasMailed` and `GatesRespected` hold whatever fails. `AlertOutbox` has
the premises as a variable: its `trouble` is what went wrong so far, and decides whether an
owed event may be lost, a mail go uncounted or an event be carried twice. A gate counts as
respected when it was open at some time since the sender started, since the code reads each
gate once before the mail.

Fairness (`FairSpec`): senders run and the scheduler keeps calling (`WF` of each sender),
windows pass (`SF`, as other deliveries disable it again and again), a sender that meets a
free slot infinitely often gets one, and the channel does not fail for ever.

Proved (`UrgentAlertsProofs`, any reviews, evaluations, sweeps, tokens, cap and bounds):
type correctness, the five safety properties and the refinement. Each has an inductive
invariant of its own: `GatesPassed` (what a sender passed was open), `TokensUnique` and
`ClaimsCapped` (every mail that counts still holds its claim), `CarriedWasMailed`, `Kept`,
and for `MailedOnce` the conjunction `OneHolder`: in calm conditions whoever is past the
claim holds the only slot, carries nothing mailed before, and an evaluation that passed the
dedupe check before another mail will find the slot taken. The refinement needs two more:
what a mail adds to its own review was deferred (`CarriesWaiting`), and with any cap a
sender keeps its claim until there is trouble (`HoldsClaim`), so that its mail counts.

## 6. Digests

There is no table of pending digest events. A sweep lists the urgent reviews created since
the watermark, which is the `sent_at` of the last `alert_log` row (the last weekly one for a
weekly digest), drops those that have a row, mails the rest, and inserts a row for each.
`AlertDigest` keeps no clock: `behind[c]` is the set of reviews created before the watermark
of cadence `c`, and a new row moves every review created so far behind it. A save is two
steps, `Stamp` (`created_at` is the start of the transaction) and `Commit`, so that a review
may become visible after a watermark passed it. `Start`, `CheckPref`, `ReadSince`, `List`,
`Exclude`, `Collected`, `CheckGates`, `Sent` or `SendFails`, `Record` and `Finish` are the
steps of `run_digest_for_org`; `Fail` is an error or a death at any of them. The immediate
path appears by its mail and its row only (`Evaluate`, `MailUrgent`, `RecordUrgent`);
section 5 has the rest of it. Left out: the weekly statistics, wording, `likely_fake` (the
same steps over another table).

| run | shows |
|---|---|
| `digest_safety` | `NothingPassedOver`, `MailedOnce`, `GatesRespected` |
| `digest_live` | `WaitingIsMailed`: with favourable settings, what is left to a digest is mailed although a send fails or a sweep dies |

Premises: `crossed` remembers whether a save was ever under way together with a sweep
between its list and its last row, or two such sweeps with each other. `NothingPassedOver`
needs the first not to have happened and no immediate mail (it moves the watermark too); a
review saved while a digest is under way falls behind its watermark (`storage.py:341`,
against the docstring at 328) and is never mailed. `MailedOnce` needs the second not to have
happened and no mishap: a sweep that dies after its mail mails again, by design.

Bounds: two reviews and two sweeps, each of any cadence and as often as it likes, one mishap
and one change of settings; one sweep suffices for liveness. Fairness: savers and sweeps
run, the scheduler keeps calling, and the channel does not fail for ever.

Proved (`AlertDigestProofs`, any reviews, sweeps and bounds): type correctness and the three
safety properties. `NothingPassedOver` is not inductive: between list and row the sweep
holds what the watermark will pass. `NothingLost` adds, in quiet conditions, that a sweep
before its list will see every unmailed review (`ListsAll`), that one after it has every
stored review that was not mailed (`HoldsAll`), and that what is behind was mailed. For
`MailedOnce`, `NothingTwice` adds that one sweep at a time is past its list, that it
collects only what was never mailed (`CarriesFresh`), and that what was mailed has a row or
is in the hands of the sweep that mailed it (`MailedIsKnown`).

## 7. API keys and the monthly quota

`ApiKeys` has the keys of one organisation. A call is the transaction of
`_lookup_and_record`: `Resolve` (the lookup of the prefix, which fixes `now()`), `LockKey`
(`FOR UPDATE`, which waits for the row and looks at it again), `CountUsage`, `Charge` (the
usage record and the commit); `Refuse` is a 401, a 429, an error or a death. A change is
`CreateKey`, `RevokeKey`, `LockForRotation` and `Rotate`, or `ReadCurrent` and `Replace`,
the two halves of a regeneration, which reads without a lock and revokes without a second
look; `Abandon` is its failure. `lock[k]` is the row lock, kept to the end of the
transaction; a statement that waits is an action that is not enabled. The usage record
carries the month of the transaction's start, so a call may be counted in a month that is
over.

| run | shows |
|---|---|
| `keys_safety` | `QuotaKept`: no month exceeds a key's quota. `OneForOne`: as many keys are live as were given and not revoked. And the transactions implement `KeyRegister`, where everything is one step: a call is admitted while its key is live (not even one that found it live is, once the key is revoked) and its quota not used up, a replaced key's successor gets its quota or the default |

Premise: `overtaken` remembers whether a regeneration was ever under way together with
another change. `OneForOne` needs that it was not: two regenerations at once revoke one key
and leave two new ones. Rotations and revocations may meet freely.

Bounds: three calls, three changes, four keys, quotas 1 and 2, one turn of the month: enough
for a quota to be reached by calls that meet, and for two changes of one key while a third
replaces another. A regeneration takes the newest live key; the model lets it take any,
which only adds behaviours. Left out: hashing, collisions of prefixes, `last_used_at`, the
ceiling of the plan on a created key.

Proved (`AdmissionProofs`, any calls, changes, keys, quotas and months): type correctness,
`QuotaKept`, `OneForOne`, `RevokedStaysOut` (a revoked key admits nobody) and the
refinement. None is inductive alone. `KeysInv` adds that whoever counts, charges or rotates
holds the key's row and the key is live (`RowHeld`), that the count stays true while the row
is held (`CountTrue`), and that a key has no usage before it is issued (`NothingBefore`,
which a new quota needs). For `OneForOne`, `LoneReplacing` adds that an undisturbed
regeneration is the only change under way and its key still live; the rest counts the live
keys. For the refinement, `BeganBy` adds that no call counts in a month to come.

## 8. Extraction and retention

`Extraction` models one organisation: calls with a key (`POST /v2/extract`), webhook
deliveries, which are answered 200 and left to a background task, and what the owner and the
scheduler do meanwhile. A call reads the retention mode in the transaction of its usage
record (`Admit`), a delivery when it runs (`Accept`, `Resolve`, `ReadLive`). Then come the
database calls of `_run_extraction_v2`, each a transaction of its own: `Lookup`, `Call` (the
model), `Save` (which gives way to a row of the same text), `Tokens`, `Cost`, `Alert`.
`Fail` is an error or a death at any of them. `Purge` and `DeleteOrg` are the owner's, and
`Switch` changes the mode or the window: `days` is `retention_days`, no window being
stateless. `stored[t]` names the request whose insert won; `hit` remembers the requests that
an error struck or whose row went away. The retention sweep lists an organisation with its
window (`List`, into `sweep[s]`), and deletes later what is older than the listed window,
whatever the mode and the window are by then (`Expire`; `ExpireFails` is a delete that goes
wrong, `Done` a sweep that goes on to the next organisation). `Age` makes a row a day older.
The ghost `had[s]` collects the windows that were in force since the list of `s`. Left out:
what the extraction says, the quota (section 7), the steps of an alert (section 5), the
steps of a model call (section 10).

`extraction`: a call and a delivery of one text, one mishap, windows of one and two days,
two changes of the mode or the window, one sweep.

| property | says |
|---|---|
| `OptOutHolds` | a stateless organisation that has purged since it switched keeps nothing, but for what requests that were under way in that purge still saved |
| `CallsAccounted` | whichever of two equal requests wrote the row, every answer of the model has its cost and token records, unless an error or a deletion struck |
| `NothingAfterDeletion` | nothing of a deleted organisation is left or comes back |
| `FreshKept` | unless the owner deletes it, a row goes only when it has outlived a window that was in force since the list of some sweep, so a row within the window of now is lost only if the window was lengthened or taken away under a sweep |
| `WindowHonoured` | in an organisation that stays retained every row older than the window of now goes, whatever window a sweep had listed |
| `DeliveriesProcessed` | a delivery that was answered 200 is extracted, whatever the mode does meanwhile and whoever else extracts the same text |

One text is enough, since rows of different texts do not meet but in a purge; two requests
are the least that both miss the cache; two changes take the mode away and back, or lengthen
and shorten the window under a sweep. Sweeps that overlap are left to the proof. Requests
may all be over, so there is no deadlock check. Fairness: a request that has begun runs, and
the scheduler keeps calling the sweep; that an organisation stays retained is the premise of
`WindowHonoured`, not an assumption.

What the code does against its own words, as the model shows it: a purge or a deletion of
the account between save and cost breaks the foreign key of the cost record, so the request
fails and real cost goes unrecorded (`storage_pg.py:1389`); an organisation that switches to
stateless keeps its old rows until it purges, since the sweep lists retained ones only
(`retention.py:8`, "nothing to purge by construction"); a sweep deletes with the window of
its list (`retention.py:36`), so an organisation that lengthens its window meanwhile loses
rows within it, against "older than their own chosen retention_days" (line 3; TLC finds the
steps for the stricter property), and one that has switched to stateless still loses its
expired ones; a cache hit spends quota, as the usage record is inserted before the lookup
(`api/v2/extract.py:321`). Outside the model: `/v2/extract/batch` stages text without the
check for retained mode that the CSV upload has (`ingest.py:118`), and the quota is counted
per key (`account.py:149`).

Proved (`ExtractionProofs`, any requests, texts, windows and sweeps): type correctness and
the four safety properties. `SweepInv` says that the window a sweep works with is among
those that were in force since its list, from which `FreshKept` follows; `OptOutInv` adds
that whoever still runs and read `retained` was under way in the purge that followed the
opt-out; `BooksInv` what the records owe at each place of a request, and that a kept id
names the row unless the request is in `hit`.

## 9. The Judge.me sync

`JudgemeSync` has one shop: its list at Judge.me (`at`, `body`), the stored row of each
review, the staged texts and their extractions. The source may change between any two steps
(`Publish`, `Edit`, `Unlist`). A run chooses its mode (`Start`), reads page by page
(`FetchPage`; `FetchLast` is the page at the limit `max_pages`, which is the same for all
runs of a behaviour; `FetchEmpty` a page that wrongly shows nothing), and executes the plan
of `make_plan` in three writes, `Stage`, `Purge`, `Save`; `Abort` and `Die` end it early.
The plan is a function of what was scanned and what is stored, so it is a set of definitions
and no state. `Extract` is the ingest worker's `_claim_one_row`: it settles a staged row
with an extraction or without one, because the row failed, the text is not to be extracted
or the organisation keeps nothing. `Expire` is the retention sweep, which knows nothing of
tracked reviews. Ghosts keep the premises: `rough` counts disturbed scans in a row, `lost`
and `stray` name the texts that runs died over, `unkept` those that were settled without an
extraction, or expired, and have not been extracted since.

`judgeme`: two reviews, three contents of two texts (a change of the rating keeps the text),
pages of one, limits of two and three pages (the first cuts a scan of both reviews off), one
staging per run, two strikes (three after a mass disappearance), two mishaps.
`StrikesEarned` and `RetiredFairly`: a review that is still listed collects strikes, and
goes for being absent, only through that many disturbed scans in a row. `TrackedIsKept`: no
plan, cap or purge loses the text of a tracked review; it is extracted or queued, or in
`lost` or `unkept`. `NoOrphans`: nothing else is left over. `Converges`: once the source
rests, what it shows up to the page limit has had its extraction and is recorded as it is,
and if scans meet the end of the list, what it does not show is not tracked. A mishap is a
change of the source, a run that goes wrong, a row settled without an extraction or one that
expires; two are the least that earn both strikes, or lose a page and then disturb the next
scan. The reviews of the start have one content (`FewStarts`), since any other comes by an
edit. Fairness: runs go on, one of infinitely many goes to the end (the reconcile interval),
the tick extracts.

Abstractions: the backfill window does not move; an incremental scan, newest first, may stop
after any page, whatever the ages on it say; the backward search of an `oldest_first` list
is not modelled; how long ago the last full scan was is left open; a mass disappearance is
more than half of the tracked reviews; one run at a time; any extraction may expire at any
time (section 8 has the windows). The stores are protocols in the repository, modelled by
what `run_sync` does with them; only Judge.me itself is external.

The safety rules of the docstring (`judgeme_sync.py:7-12`) hold with these exceptions. "N
consecutive strikes": a review that a scan sees, but whose change the cap defers, keeps its
strikes (line 143). "A crash re-runs the same plan harmlessly": not if the source reverts a
change between a run that died after its purge and the next, whose row then says unchanged
over an extraction that is gone (`lost`); and a text purged while it was still queued is
extracted later and stays (`stray`). "A re-staged identical text [is] a no-op" never applies
to a row that was settled as failed, or to an extraction that expired: the state row says
unchanged (line 133), so no later run stages the text again (`unkept`). A scan that the page
limit cuts off counts for no absence, so a shop beyond the limit keeps tracking what it has
removed. A shop whose list becomes empty keeps its tracked reviews for ever, as line 9
wants.

Proved (`JudgemeSyncProofs`, any number of reviews, contents, caps, limits and thresholds):
type correctness, `StrikesEarned`, `RetiredFairly`, `TrackedIsKept`, `NoOrphans`. `SyncInv`
relates the rows to the scan under way (`RowInv`, `ScanInv`: an undisturbed scan has found
every listed review behind the reading point), `KeepInv` and `OrphanInv` follow a text from
the plan through the three writes.

## 10. Model calls

`ModelCalls` is `extract_with_llm` of all extractions of one instance over the shared
limiter. An extraction asks the small model, escalates, retries, fails over to the second
account; each bulk call first takes a place of the semaphore (`Enter`) and a token of the
bucket (`Take`, or `Sleep` and `Wake`, the sleeper keeping the lock). `Answer` and `Refuse`
are what a call comes to and what the router does then. Time is counted in ticks, `Period`
of them for one token. Whether tiers and a second account are configured is left open.

`model_calls`: three bulk extractions that begin anew for ever, one of which meets every
kind of error, two places, two retries, a token every two ticks. `DegradedIsHonest`: a
doubtful small answer is returned only with the mark, which means that the large model was
out of quota. `TokensTold`: a routed result reports every answer its account was paid for.
`RateKept`: the rate holds across retries and escalations. `EveryCallEnds`: nobody waits for
ever. Three over two places are the least that make one wait for a place while another waits
for the bucket. Fairness: time passes, a call ends (it has a timeout), and semaphore and
lock of asyncio serve in order, which strong fairness of `Enter` and of `Take` or `Sleep`
stands for.

Left out: cancellation, retries inside the SDK (they pass the limiter by), recorded
cassettes, a model named by the caller, and the variant of the second account that is not
limited. Against the repository's words: a malformed answer of the large model leaves
`extract_with_llm` as the parser's error (`router.py:262`, state `broken`), neither the
RuntimeError of its docstring nor the valid small answer at hand; the parse retries of
`_call_provider` never run, because the router parses after its loop; the tokens of the
first account are lost when the second answers, and so are those of answers that a retry
replaces where tiers are off (`storage_pg.py:1389`); an extraction may take more calls than
the "2-4" of `ratelimit.py:6`.

Proved (`ModelCallsProofs`, any extractions, retries, places and rates): type correctness,
`SlotsCounted` (every place is free or held by one bulk extraction), `DegradedIsHonest`,
`TokensTold`, `RateKept`. `IInv` adds `OnlyBulkWaits`, `Good` (what each tier knows of the
one before: the first answer, what was paid, the last refusal) and `Paced` (the bucket's
credit is the time since the last bulk call, and sleep and gap together make a period).

## 11. The demo's gates

`DemoGate` has the ledger of each instance (`TrailingTokenLedger`), as the set of requests
with an entry, their tokens and the ticks until each leaves, which give the order of the
entries, and the counter of the database that the instances share. `Total` is the sum over
entries; it is defined as a count of pieces, since a recursive sum is nothing to prove with.
A request is admitted (`Admit`, the estimate is reserved), takes a unit of the day
(`TakeUnit`) or gives its tokens back (`NoUnit`), and settles (`Answer`, `Break`: a failed
call keeps its estimate). The first call of a date inserts the counter's row without
looking at the budget (`UnitFree`), and each call looks the budget up anew, the default or
an override that has not expired yet, so `Budgets` is the set of the values it may find,
zero included. `Limited` is a refusal of the model that holds the demo off,
`Restart` a new process with an empty ledger, `NextDay` the change of the date, `Tick` a
step of the window.

`demo_gate`: two instances, three requests that come again and again, an estimate of three
under a ceiling of four, answers of one and four tokens (below and beyond the estimate),
budgets of zero and two, a window and a hold of two ticks, one restart, hold or failed
check. `DayKept`: whatever each call takes for the budget, no date lets more calls through
than the largest budget that let one of them through, or one; a count above the budget of
now is what a lapsed override leaves (`passed` and `allowed` are ghosts). `FleetShare`: what
the fleet used in a window stays within the ceilings, but for what answers use beyond their
estimate and for one ceiling per restart. `HintHonest`: whoever is refused and returns when
told finds room, unless something happened meanwhile (an estimate beyond the ceiling never
fits, so that case is left out of it). `Reopens`: no instance's demo closes for good. One
visitor who was turned away is followed at a time, since a hint changes nothing but what it
promised. Requests differ in their names only, so of the free ones the model takes the
first. A request ends before its entry leaves the window (a call has a timeout of seconds,
the window is a day). Fairness: time passes, requests end.

The sentence it is measured by is "the fleet total can then never exceed"
(`token_ledger.py:12`): overruns and the tokens that a failover forgets do exceed it, and so
do restarts, as the same docstring admits. Also against the words of the code: the header of
a refusal truncates the hint, so a visitor may return up to a second early; a budget of zero
lets one request per date through (`storage_pg.py:1546`), against "was below" in line 1531;
the refusal by the daily counter speaks of no midnight reset, although that counter has one.
Left out: the cache in front and the limit per address.

Proved (`AdmissionProofs`, any instances, requests, estimates, ceilings, costs, budgets,
windows and holds): type correctness, `DayKept`, `FleetShare` and `HintHonest`. `DayInv`
adds to `DayKept` that the counter covers the calls it let through. What a ledger tells and
what was used are different things, so `FleetShare` is not inductive. `ShareInv` adds that
an entry tells what its request used up to the estimate (`EntryTells`), that a ledger keeps
to the ceiling as far as the estimates go (`LedgerShare`: an answer beyond its estimate may
fill it further), and that the requests of the window which no ledger knows used at most one
ceiling per restart (`ForgottenShare`); the lemma `TotalSpread` adds the ledgers up over the
instances. For `HintHonest`, `PromiseStands` says of every tick before the visitor returns
that by then the hold is over and there is room; `FirstRoom` and `RoomStays` say that the
tick of the hint exists and that room, once there, stays as entries leave. TLC checked these
invariants before they were proved.

## 12. What is only model-checked

All liveness rests on TLC's small instances, since TLAPS does not reach it: `RowsSettle`,
`ResumedCompletes`, `DeferredIsDelivered`, `WaitingIsMailed`, `WindowHonoured`,
`DeliveriesProcessed`, `Converges`, `EveryCallEnds`, `Reopens`. Every other property of the
runs is proved for all constants. What the proofs assume is what the modules' `ASSUME`s say
of the constants, which TLC evaluates in every run. Symmetry sets are used by safety runs
only. There is no run that expects a violation: where the code departs from a docstring, the
sections above say so, and the properties state what does hold.

## 13. Not modelled

- Installations and OAuth, signatures, tokens of the sources: each is a single upsert or a
  check of one request. The processing of a delivery is in `Extraction`.
- Sign-up and sessions: provisioning is one check-then-act that a UNIQUE constraint decides;
  sessions are verified tokens. A dashboard request nested in the pool is in `NestedPool`.
- Detector sweep and cost alerts: a loop over organisations around `evaluate_and_alert`,
  which `UrgentAlerts` has. The loop has a gap that needs no model: the read of one
  organisation is outside the handlers, so its failure ends the sweep for all that follow.
- Leads, corrections, replies, classification, dataset export, insights, dashboard
  API: single-statement reads and writes, and pure scoring.
- The text pipeline (sanitizing, languages, grounding, guards, prompts, schemas): string
  processing without state.
- The v1 API over a local SQLite file; metrics, logging, configuration.
- `eval/`, `engine/`, `benchmark/`, `scripts/`, `web/`, `ops/`: offline evaluation, research
  code, a static front end, deployment. They are most of the repository's lines, run
  outside the service, and share no state with it.
