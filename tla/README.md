# Verification of the Oura Navi Monitor

TLA+ models, TLC runs and TLAPS proofs for the monitor: an hourly publisher that
turns BigQuery logs and Firestore chats into published analytics, a News usage
publisher behind it, the web API that reads both and computes reports, the user and
label directory that administrators edit, CSV exports, two ways to recover old
history, and the release scripts that move production traffic, switch the
scheduler and start strict checks. Paths below are relative to the
repository root.

## 1. The system

### Components, their state and their operations

| Component | State | Operations | Models |
|---|---|---|---|
| Incremental publisher `app/jobs/refresh_analytics.py`, `app/refresh_policy.py` | the `published` row of `pipeline_state` (watermark, head run, lease, expiry), `pipeline_runs` | acquire, plan a window, begin run, renew, publish, read receipt, mark failed, release; catch-up until a frozen target; Cloud Run retry | `RefreshPipeline`, `Publication` |
| Publish SQL `sql/merge_incremental.sql`, `merge_firestore_projection.sql`, `check_data_quality.sql` | facts, `user_scope` snapshots, quality evidence | one multi-statement transaction: merge, collect old snapshots, blocking checks, compare-and-set of the row | one server action of `RefreshPipeline`; `ChatPublish` of `PublishedReads`; `PublisherCommits` of `HistoryRecovery` |
| Firestore projector `app/jobs/project_firestore.py` | staged identities and conversations; bindings written back to users | project a window, bind verified chat roots to users | a step of `RefreshPipeline`; `ListUsers`, `Bind` of `UserDirectory`; `Project` of `RosterSnapshot` |
| News usage publisher `app/jobs/news_usage_ingestion.py`, `sql/publish_news_usage.sql` | the `news_usage` row (configuration, watermark, pinned roster, lease), its runs, event tables | acquire, plan, begin run, read the Chat pointer, renew, publish in one script, read receipt, mark failed, release | `NewsPipeline`, `Publication`; `NewsPublish` of `PublishedReads`; `Publish` of `NewsReport` |
| Read cache `app/repositories/read_cache.py` | LRU values, byte count, futures in flight | read: hit, join, own, load, retain, evict, settle | `ReadCache` |
| Published readers and services `app/repositories/*_repository.py`, `app/services/*_service.py` | the receipt a request holds | pointer, roster, fact queries; News confirms the pointer again | `PublishedReads` |
| Analytics answers `app/services/analytics_service.py`, `analytics_repository.py` | none | overview, regions, user lists, user detail, usage panels | `AnalyticsReport` |
| News answers `app/services/news_usage_service.py` | none | usage report, dashboard | `NewsReport` |
| Roster rules `app/domain/roster_records.py`, `analysis_scopes.py`, `analytics_roster_projection.py`, `published_roster.py` | the snapshot rows and receipts | read a collection, project, verify, select | `RosterSnapshot` |
| User directory `app/repositories/user_directory.py`, `app/services/user_management.py` | user, label and claim documents, revisions | create/update user, create/update/delete label, bind identity | `UserDirectory` |
| Production promotion `scripts/promote_candidate.sh`, `promotion_release_lock.py`, `promotion_receipt_state.py` | snapshot file, lock document or tombstone, Cloud Run traffic | prepare, acquire, recheck, update traffic, verify, finalize, release, retire | `Promotion` |
| CSV export jobs `app/repositories/export_jobs.py`, `app/routers/export.py` | one document per owner and key, with an expiry | submit, build, idempotent put, get, delete, clean up | `ExportJobs` over `PublishedReads` |
| Roster backfill, history rebuild `app/jobs/backfill_roster_history.py`, `rebuild_history.py` | canonical tables, the publisher's lease, the `history_rebuild` row, receipts | plan, lease, insert, verify; compile, apply day by day, verify, record | `HistoryRecovery` |
| Scheduler cutover, legacy pause `scripts/cutover_refresh_scheduler.sh`, `pause_legacy_bigquery_refresh.sh`, `release_operation_lock.py` and their receipt scripts | snapshot and receipt files, one lock document, Scheduler and transfer state | freeze, backfill, activate, pause, rerun | `RefreshCutover` |
| Enforcement activation `scripts/activate_monitor_v2_enforcement.py`, `register_monitor_v2_revision.py` | the revision ledger, receipt files | register, validate, read back, activate, write receipt | `Enforcement` |
| Roster import, web wiring, authentication, trace, categories, frontend, provisioning | none that a protocol depends on | I/O, rendering, configuration | not modelled, see section 5 |

`PROJECT.json` has the same list with every source file and its status.

### How they interact

The publisher and the News publisher share one BigQuery dataset. Every publish is
a transaction that writes `pipeline_state`; BigQuery aborts a transaction whose
tables changed after its snapshot, so commits are serialised, while the *clients*
around them are not. Cloud Run runs the job hourly, kills a task after
`job_timeout_minutes`, and retries a failed task with the same execution name,
which is also its lease identity. The web API never writes the warehouse: a
request reads a pointer row and then issues further queries for that run,
through per-process caches shared by request threads. News pins a roster snapshot
that the Chat publisher created and would otherwise collect; its job starts only
when Chat has succeeded, in the same process, under a lease of its own. An export
reads the analytics API as a page does and must name the publication its page
showed. The roster backfill takes the Chat publisher's lease while schedulers are
frozen; the history rebuild takes none. Administrators edit
the Firestore directory by read, decide, commit; the projector commits identity
bindings into the same documents. The promotion scripts are run by people, on
different machines, against one lock document per service; activation and pause
share another one for the whole refresh chain. Enforcement is authorised by the
receipt of a promotion of the service that is monitored.

### What is hard here

* A client loses the reply of a transaction the server still runs, and must
  neither repeat it nor deny it; a retried attempt has its predecessor's identity.
* Nothing frees a dead process's lease but its expiry, and time also runs for
  processes that are alive.
* A late log line must be published by a *later* window: overlap, delay and
  window length together decide whether an event is ever read.
* Requests hold a receipt while publications rewrite facts in place and collect
  snapshots.
* Threads share futures whose owner may raise, and a retained pointer would be
  stale for good.
* Directory decisions are made on documents read earlier; unique values are kept
  by claims that older documents do not have, also those of users already bound.
* A script that the News client has given up on is still queued, and its run row
  says whether it may publish.
* Recoveries and telemetry write the same turns under two identities, and MERGE
  looks only at the days it writes; telemetry may report an answer without its
  question, or a question under the placeholder of its answer.
* Freezes, activations and pauses overlap, and freezing takes no lock.
* Two exports with one key are built over different publications.
* Every page runs queries and windows of its own, over instants, local dates and
  whole hours, and the pages are expected to add up.
* Snapshots outlive the release that wrote them, and their receipts hash its rows.
* Promotion and cutover have no timeouts: every crash leaves the lock, and recovery is a person.

`hazards` in `PROJECT.json` lists these at their lines with the properties that
cover them. One is listed without a property: the projector's identity binding
(section 5, where the exceptions that some properties state are explained too).

### What makes each component correct

Publisher: no event is lost to lateness; publications form one chain; a reported
success is durable and a live attempt holds its lease; leases recover and
catch-ups finish. Cache: one load per key, exact accounting, no stale pointer, no
hung reader. News publisher: its rows tell the truth, its publications form a chain, each
anchored to the current roster. Recovery: a backfill only adds what is missing, with
one known exception, and records of recoveries stay true. Readers: a receipt stays readable, a pinned roster is never
collected, News answers are of one publication, analytics facts are never older
than the receipt. Directory: unique values, exact claims, labels in use exist, no
lost update. Promotion: one worker, traffic moves only from the recorded
allocation, receipts are truthful, only a final promotion unlocks. Exports: a link
leads to the run on the screen, and a live job is not lost. Reports: the views of one
publication agree. Roster: every snapshot is readable, its population safe, its
receipt identifies it. Cutover: one operation at a time, the legacy writer last, the
backfill behind a freeze that is quiet unless a resume escapes it. Enforcement: no request of an old revision is left.

## 2. Modules and their correspondence to the code

| Module | Role |
|---|---|
| `Publication` | abstract specification: one chain of published batches |
| `RefreshPipeline` | the publisher, its transactions, Cloud Run and the clock; implements `Publication` |
| `RefreshPipelineProofs` | its theorems |
| `MCRefreshConcurrent`, `MCRefreshRetry` | its instances |
| `NewsPipeline` | the News publisher, a second implementation of `Publication` |
| `ReadCache` / `MCReadCache`, `ReadCacheProofs` | the cache; its theorems |
| `SumTheorems` | lemmas about sums over functions, partitions and extreme elements |
| `PublishedReads` / `MCPublishedReads` | two publishers, two pointers, web requests |
| `ExportJobs` | export requests composed with `PublishedReads` |
| `PublishedReadsProofs` | theorems about the readers, the exports and the roster snapshots they read |
| `AnalyticsReport`, `NewsReport`, `RosterSnapshot` | the computations over one publication |
| `PublishedAnswers` / `MCReports` | `PublishedReads`, `ExportJobs` and those three side by side |
| `ReportProofs` | theorems about the two reports and about `PublishedAnswers` |
| `HistoryRecovery` | both recoveries beside the publisher |
| `OtherWriters` / `MCOtherWriters` | `NewsPipeline` and `HistoryRecovery` side by side |
| `WritersProofs` | theorems about the two and about `OtherWriters` |
| `UserDirectory` / `MCUserDirectory`, `UserDirectoryProofs` | the directory and the projector's binding; their theorems |
| `Promotion` / `MCPromotion` | the promotion lock, its runs and operators |
| `RefreshCutover` | cutover and pause under one lock |
| `Enforcement` | the revision ledger, promotions of the monitored service, activation |
| `ReleaseProtocols` / `MCRelease` | `Promotion`, `RefreshCutover` and `Enforcement` side by side |
| `ReleaseProofs` | theorems about the three and about `ReleaseProtocols` |

`PublishedAnswers`, `OtherWriters` and `ReleaseProtocols` hold several independent
systems: a variable `active`, chosen at the start, says which of them runs, the others
keep their initial state, and a property of one of them is about the behaviours where it
runs. It is a sum of state spaces, never a product, and it is what the runs check; the
MC modules add only the data. Every part is taken with EXTENDS, so that TLC and the
prover see the same definitions under the same names.

The `map` of `PROJECT.json` gives the source lines of every definition. Actions
have the names of the code's functions where there is one (`Acquire` is
`_acquire_lease` and the window decision that follows, `MarkFailed` is
`_mark_failed`, `Retire` is `retire_release_lock`, `CommitUpdateUser` the
transaction of the repository, and so on).

**RefreshPipeline.** One client process per Cloud Run execution; `pc` is the call
it is about to make. Each call is one action for its effect and reply, and one
action (`...Fails`) for an error, with or without the effect on the server.
The publish script is a process of its own (`tx`): `SubmitPublish` sends it,
`TxBegin` evaluates the ASSERTs on its snapshot, `TxCommit` is the commit,
`TxGate` the blocking quality check, `TxFails` a server error. Any other write
aborts an open transaction (`Conflicting`), which is BigQuery's snapshot
isolation as the script relies on it. Time is in model minutes; an event is
logged at every minute and reaches the warehouse `Lateness[t]` later. Run
identities are what `run_id` hashes: execution, sequence number and window.
Classification, quarantine and the rows themselves are abstracted to the set of
events a window ingests.

**ReadCache.** A step is one critical section of `read`, or one call outside the
lock. Values are the version of the source a loader saw; sizes are small numbers.

**PublishedReads.** Both publish transactions write `pipeline_state`, so each is
one step here; the inside of one is `RefreshPipeline`'s subject. Facts carry the
number of the publication that wrote them last. `lookup` and `flights` are the
futures that requests share, by the rule that `ReadCache` shows.

**NewsPipeline.** As `RefreshPipeline`, with what differs: every process makes up
its own identity, so that a retry is another job; the configuration is a column
that the MERGE compares; the publish script is one server step, because everything
it asserts and writes is in one transaction; the run row guards it. A Chat
publication is the number of its run.

**ExportJobs.** Extends `PublishedReads`: an export request is an analytics request
with look-ups around it. All requests have one owner and one key, the interesting
case. Clean-up and DELETE are two calls each, as in the code, so a job can be stored
in between.

**HistoryRecovery.** A turn is a question and an answer; its facts have an identity
(request or fallback), a day and an origin, and name a message (`Message`): the
telemetry of a question may name the answer's placeholder. `Inserted` and `Merged` are
the two MERGE statements with the days they look at. The publisher is reduced to lease,
script and commit; of each turn it publishes any of the two events, as they are admitted
apart (`Reported`), within its checks (`Checked`, `Publishable`). Each backfill step is
one call of `main` without an event manifest. `Matched` is what `missing_rows` recognises
by event, request or message.

**AnalyticsReport, NewsReport.** Operators over the rows of one publication, one per
function of the services, with the SQL predicates that select the rows. Time is a
number; days and hours are divisions of it, so every boundary of the code (half-open
instants, local dates of `end - 1`, hours that begin in the window) is there. Labels,
rates, sorting by name and layout are left out. Content dimensions of News events
stand for one another, so there is one unit.

**RosterSnapshot.** Documents have the fields that the rules tell apart; a
fingerprint is the value that is hashed. The publisher is upgraded once, so that the
readers meet a snapshot of the release before.

**RefreshCutover.** Activation and pause are one protocol, `Operation`; a receipt
file is none, intent or final. `PrepareReceipt` publishes the intent, `LockChain` and
`UnlockChain` are the lock script, `RecheckUnderLock` and `VerifyChange` read again
before and after the mutation. A mutation's command is `Change` (sent), and
`ChangeApplies` or `ChangeDropped` at any later time, as its return code decides
nothing. Reruns share their file and lock, which the code wants. An activation that
a rerun completed in the meantime still passes `VerifyChange` and `FinalizeReceipt`
(the receipt script classifies it as final); a pause insists on its own intent. A slot
of `Operator` runs any of the scripts; freezes overlap each other and activations and
share one snapshot file. Two history variables, `disturbed` and `resumed`, record what
a freeze cannot see: that another one paused a scheduler it had missed or that had been
resumed, and that a resume followed its readback.

**Enforcement.** The monitored service is external: requests arrive and end by
their timeout, traffic is shifted by hand or promoted with a receipt. A ledger row,
a promotion receipt and an activation receipt are what the code compares of them.

**UserDirectory.** `Ask...` is what a request reads and decides outside the
transaction, `Commit...` the transaction, which re-reads. A commit requires the
revision seen at the first read, so all its earlier reads are one step. A roster
id is the hash of the email at creation: here that email itself; a legacy user can have
any (`Id`), and can be bound already. `Init` picks one of the legacy populations. Revisions are
write timestamps in the code and numbers of writes here; they are assumed unique.

**Promotion.** Each slot of `Run` is one invocation of the script; the slot is
reused, so any number of invocations follow each other. `Begin` and `Prepare`
are what happens before the lock, `Recheck` what is read again under it. Traffic
is one revision with 100 %. A command that changes traffic is
`UpdateTraffic` (sent), `UpdateApplies` or `UpdateDropped` (settled by Cloud Run,
at any later time) and `UpdateReturns` (whatever the return code). `Stop` is
every exit and every crash.

## 3. Runs

| Run | Instance and bounds | States | Shows |
|---|---|---|---|
| `refresh_concurrent` | 3 executions, one a targeted catch-up; 8 minutes, starts up to 6; overlap 2, delay 1, window 3, lease 3, timeout 2; 1 fault; lateness 0..3 by event | 1.6 M | type, `NoLateEventLost` |
| `refresh_retry` | a catch-up with 2 attempts and an hourly run; 6 minutes; 2 faults | 3.6 M | `LeaseHeldThroughRun`, `SuccessIsDurable`, `LeaseDiscipline`, and that the pipeline implements `Publication` |
| `refresh_liveness` | 2 executions, 9 minutes, 1 fault, fair | 43 k | `LeaseRecovers`, `CatchUpReachesTarget` |
| `read_cache` | 3 threads; a pointer, a small and a large snapshot, room for one large or two small entries; fair | 156 k | `AccountsForBytes`, `OneLoadPerKey`, `PointersAreFresh`, `EveryReadEnds` |
| `published_reads` | 2 analytics and 1 News request, 3 Chat and 2 News publications; 7 questions over 12 instants (3 days of 2 hours) and 7 windows; 10 deliveries of News events over 6 instants and 13 requests; 6 versions of 3 user documents, 2 labels, 2 releases. Exports: 2 requests with one key, one fact query, 2 Chat publications | 2.0 M | `SnapshotsRetained`, `NewsAnswersAreBound`, `FactsNotOlderThanReceipt`; `ViewsAgree`; `NewsReportIsConsistent`; `RosterReceiptsHold`; `AnswersOwnRequest`, `LiveJobsAreKept` |
| `other_writers` | News: 2 jobs, one a catch-up, 2 configurations, 2 Chat runs, 4 minutes, 2 faults. History: 2 turns (one untraced whose question names the placeholder, one skewed over midnight and straddling the window start), 1 backfill, 2 publications | 4.7 M | `RunRowsAreTrue`, `NewsPublishesInChain`, `PublicationIsAnchored`; `BackfillOnlyAddsMissing`, `RecordsHold` |
| `user_directory` | 2 admins, 2 roots, 2 emails, labels and names, a legacy label and a legacy user, unbound or bound under a foreign id, 3 commits | 1.0 M | `NoDuplicates`, `ClaimsExact`, `UsedLabelsExist`, `NoLostUpdate` |
| `promotion` | 2 runs at a time, 3 intents, two of them for one revision; 1 activation, 2 pauses and freezes, 2 scripts at a time, gate of 2 executions, 2 flights and 1 unsettled command; 3 revisions with timeouts 2, 1, 1, 3 slots, 2 traffic moves, 2 activations at a time | 1.4 M | `OneWorker`, `MovesRecordedTraffic`, `FinalIsTruthful`, `OnlyFinalUnlocks`; `CutoverInOrder`; `EnforcementIsTrue` |

Why the bounds are enough. *Refresh*: the interesting cases need a lease that
expires while its holder's transaction is open (lease longer than the timeout by
one, a clock past both), an event that one window misses and a later one reads
(lateness from zero up to overlap plus delay, several windows), a catch-up of
more than one window, and one attempt's transaction meeting its retry; all fit.
One or two faults cover every single failure and one failure of its clean-up.
`LastStart` below `MaxTime` leaves room for what has started to finish, or the
liveness properties would refute the bound and not the code. *Cache*: three
threads give an owner, a joiner and an evicting rival. *Reads*: three Chat
publications are two moves of the pointer, which is what collection distinguishes
(current, replaced, older). *Exports*: two requests and two publications are enough
for one key to meet two contents; the theorems drop the numbers. *Reports*: the rows put a question or event before, on
and after each boundary (window ends inside a day and inside an hour, data ending
inside the window, rows logged late or stamped ahead, history rows that measure
nothing, an invalid question), and the population has a cohort, an area move and a
person who leaves; every subset of rows logged before the watermark is published in
some behaviour. *News publisher*: two jobs give a script that outlives its client, a
rival with another configuration and a lease that expires. *History*: one
turn per way in which recovery and telemetry differ. *Cutover*: two slots make
one rerun beside its predecessor, a rival pause, or a freeze beside another one with a
resume sent by a run that is gone; the theorem drops the numbers of slots, flights and
commands. *Enforcement*:
timeouts that differ make the longest drain matter. *Directory*: three commits allow read, rival commit,
commit, and one commit after; the bound legacy user makes the identity query of the
binding matter, and the model without it violates `NoDuplicates`. *Promotion*: two runs and a third intent suffice
for a pair of rivals with a successor; nothing is counted, so its state space is
finite without a bound, and the proofs drop the numbers altogether.

Every run disables TLC's deadlock check, because every bounded system may stop
there: the clock or a counter has reached its bound, or all executions have ended.
`EveryReadEnds`, `LeaseRecovers` and `CatchUpReachesTarget` say what must not hang.

### Fairness

`refresh_liveness` assumes weak fairness of the clock, of the next call of a
started process, of the server's step of a submitted transaction, and of Cloud
Run's retry. It assumes nothing about launches or faults. A process makes calls in
a loop without waiting for anything but replies, BigQuery finishes submitted jobs,
and an attempt the timeout kills is a `Crash`, which counts as a fault. The clock
waits for nothing but running attempts, which the task timeout bounds.
`CatchUpReachesTarget` excuses a fault and a rival holding the lease: the code
promises neither. `read_cache` assumes that a thread inside `read` goes on and that
a loader returns or raises: `result()` is called without a timeout, so this rests
on BigQuery ending every query it accepts. Nobody is obliged to begin a read.

### Findings

Four runs check what the repository says and end in a counterexample.

* `refresh_run_row_overwritten`: a retried attempt has the identity of the first
  one and may plan the same window before the first one's transaction commits;
  `_render_begin_run_sql` then resets the run row of a run that is published, and a
  failure marks it failed (`app/jobs/refresh_analytics.py:253`; the comment at
  773-775 says a durable commit's state must not be overwritten).
* `refresh_failure_forged`: after a lost reply, a receipt read while the server
  still runs the transaction says "not committed"; the run is reported failed and
  then becomes published (line 740; the test at
  `tests/test_refresh_analytics.py:381` is named for the opposite).
* `published_reads_mixed`: analytics facts are not bound to the run the answer
  names (`docs/OURA_NAVI_MONITOR_FINAL_SPEC.md:76` says they are): a publication
  between the pointer and the fact queries shows newer facts under the older run.
  What does hold, `FactsNotOlderThanReceipt`, is checked in `published_reads`.
* `promotion_aborted_for_good`: the lock document has room for one tombstone, so
  the runbook's "refused for good" (`docs/THREE_HOUR_RECOVERY_RUNBOOK.md:559`) ends
  when another intent replaces it and goes away in its turn. The traffic
  guarantees above still hold in that case, as they do not rest on it.

`PublishedRunSucceeded` and `FailureIsTruthful` are stated for those runs only. The
News publisher repairs the first: its run row is asserted by the script, and
`RunRowsAreTrue` holds of it. It shares the second for its exit code: a client can
report failure and its script publish before the row is marked.

## 4. Proofs

All theorems hold for every value of the constants that satisfies the named
assumptions of the module.

**RefreshPipelineProofs**, from `TimingAssumption` (the policy's check that the
lease outlives the task timeout, naturals, and an overlap shorter than the longest
window, which the shipped values 240 minutes and 24 hours satisfy but no code
checks), `ExecutionAssumption` and `LatenessAssumption` (no event is later than
overlap plus delay).

* `TypeCorrect`: `TypeInv` adds to the type that submitted transactions have a run.
* `FeedIsLossless` (`NoLateEventLost`). The property is not inductive: it says
  nothing of windows that are planned or in flight. `FeedInv` adds `PlanInv` (a
  planned window is the one `window()` computes for the watermark it expects, and
  ends at least the delay in the past), `TxInv` (so does a submitted one, and an
  open one expects the watermark that is still there) and
  `WatermarkInPast`. At a commit, an event before the new watermark minus the
  overlap either lies before the old watermark minus the overlap, and was
  ingested; or lies in the new window and, being at most overlap plus delay late,
  had arrived when the snapshot was taken. The ASSERT on the expected watermark
  is what makes consecutive windows overlap.
* `PipelineRefinesPublication`: every step is a publication of `Publication` or
  leaves its variables alone. `ChainInv` adds that published runs end at or before
  the watermark, so a run cannot be published twice.
* `LiveAttemptKeepsLease` (`LeaseHeldThroughRun`): `LeaseInv` adds that a live
  attempt is no older than the task timeout and that the lease it acquired lasts
  for longer; a rival could only take it after both.

**ReleaseProofs**, promotion: from `PromotionAssumption`, for any number of runs and intents.
`PromotionInv` relates the lock to the receipt files: a run that works under the
lock owns it and is alone (`Sole`), an outstanding traffic update keeps its
intent's lock active, its file unfinished and traffic where the intent recorded it
(`UpdateFits`), and each step of a worker knows what traffic is (`StepFits`). The
last two are needed because a run can stop while its command is still to take
effect; the lock it leaves is what keeps everybody else out. From it follow
`PromotionTypeCorrect`, `PromotionOneWorker`, `PromotionMovesRecordedTraffic`,
`PromotionFinalIsTruthful` and `PromotionOnlyFinalUnlocks`.

**WritersProofs**, News publisher: from `NewsAssumption` (naturals, and the lease outliving the
task timeout), for any number of jobs, configurations and bounds.

* `NewsTypeCorrect`: `TypeInv`.
* `NewsRunRowsAreTrue` (`RunRowsAreTrue`). Not inductive: a job that begins a run
  must not reset the row of a published one. `RunInv` adds that a job numbers its
  runs, raises the number only after a publication, has at most the script of its
  current number outstanding, and that this one is unpublished while it is.
* `NewsRefinesPublication` (`NewsPublishesInChain`): the commit is a publication of
  `Publication`, from the watermark it asserts (`PlansForward`: planned windows end
  after the watermark they start from), of a run that is not in the chain (`RunInv`).
* `NewsIsAnchored` (`PublicationIsAnchored`): from the script's assertions.

**ReleaseProofs**, cutover: from `CutoverAssumption`, for any number of operators,
activations and pauses and any gate: `CutoverTypeCorrect`, and `CutoverIsOrdered`
(`CutoverInOrder`) from four invariants. `TypeInv` adds that a busy operator has
published its intent. `LockInv`: who is past the lock with an unfinished intent, and
any command of an unfinished intent, is named by the lock; whoever is to release has
a final receipt. It is needed because the run that sent a command may be gone when
it takes effect. `PauseInv`: an operator or a command of a pause exists only once
the proof does, and no step takes it back. `FreezeInv`: of any freeze that has seen
the writers idle and is not `disturbed`, paused schedulers mean that nothing scheduled is
in flight; once it has read them back, and in what it records, both hold until a resume.

**ReleaseProofs**, enforcement: from `EnforcementAssumption` (finitely many revisions, each with a
timeout), for any number of traffic moves, promotions and activations:
`EnforcementTypeCorrect`, and `EnforcementHolds` (`EnforcementIsTrue`).
`EnforcementInv` adds that no request outlives the timeout of its revision
(`RequestInv`), that a started version has in its ledger row a promotion whose drain
time has passed (`DrainInv`), and that a row read back or written to a file is the
ledger's (`RowInv`: an activated row is never written again). The drain time is a
maximum over a finite set, the longest old timeout (`Drains`).

**PublishedReadsProofs**, from `ReadersAssumption`, for any number of requests, fact
queries and publications. `TypeInv` adds what a request holds in each phase.

* `ReceiptsStayReadable` (`SnapshotsRetained`): `RetentionInv` says which snapshots
  are there by number: those of the current run and of the one before it, and the
  pinned one.
* `NewsAnswersBound` (`NewsAnswersAreBound`): a request's pointer is the current one or
  is left for good, as News only moves forward (`NewsInv`); at the confirmation only
  the first passes.
* `FactsAreNotOlder` (`FactsNotOlderThanReceipt`): a query in flight under a run began
  when it was published or later, and so did the query of anyone who shares it.
* `ExportTypeCorrect`, `ExportsAnswerTheirRequest` (`AnswersOwnRequest`),
  `ExportsKeepLiveJobs` (`LiveJobsAreKept`). A behaviour of `ExportJobs` is one of
  `PublishedReads` (`ExportsAreReads`), whose invariants it inherits; `JobInv` adds
  that every stored job is faithful to the run it is keyed by.
* `RosterTypeCorrect`, and `RostersAreSafe` (`RosterReceiptsHold`) from
  `RosterAssumption` (document ids are not blank: Firestore has no others), for any
  documents and labels. The snapshot is the projection of some directory by one of
  the two releases; the lemmas follow a document through it: an eligible one is alone
  with its keys, and stays so in the rows (`NobodyIsolated`); a row carries every label
  its scope refers to, so the reader's receipt is the writer's (`ReceiptsAgree`).

**UserDirectoryProofs**, for any administrators, documents, roots and number of
commits. `DirectoryInvariant` is the conjunction of six. `EmailInv`: claims are of documents
that have the value, no two documents have one email, and *whoever holds the email that a
pending request has asked for holds the claim that will refuse it*. Legacy documents
have no claims; the last part says that the request must then have seen them itself,
and is what makes uniqueness inductive. `NameInv`: the same of labels, which can be
deleted. `UseInv`: labels in use exist, and the identities of documents written since
the claims are claimed. `IdentityInv`: an identity has one owner, claimed or not, and its
claim is of the owner; only a binding gives one away, after its query. `RevisionInv`: a
document with the revision a request saw is the document it saw. From it follow
`DirectoryHasNoDuplicates` (`NoDuplicates`), `DirectoryClaimsAreExact` (`ClaimsExact`),
`DirectoryKeepsUsedLabels` (`UsedLabelsExist`) and `DirectoryLosesNoUpdate`
(`NoLostUpdate`). The first two assume that legacy documents differ from each other:
labels in their names, users in their emails and, if bound, identities
(`LegacyValuesDiffer`); if two had the same, nothing in the code would repair it.

**ReadCacheProofs**, from `CacheAssumption`, for any threads, keys, sizes and limits:
`CacheTypeCorrect`, `CacheAccountsForBytes` (`AccountsForBytes`), `CacheLoadsOnce`
(`OneLoadPerKey`), `CacheAnswersFresh` (`PointersAreFresh`). The bytes of a set of keys are a
fold of the community modules, about which `SumTheorems` has the facts. `OrderInv` is the accounting, where the eviction loop stops because
all entries together may leave (`Retaining`). `LoadInv` says that the future of a key
and the thread that will settle it point at each other, and that nothing is retained
for a key before its owner inserts. `JoinInv` and `FreshInv` carry the versions: what a
reader may accept was current when the load it waits for was asked for.

**WritersProofs**, recoveries: from `HistoryAssumption`, for any turns, days, backfills and
publications: `HistoryTypeCorrect`, `RecordsStayTrue` (`RecordsHold`) and
`BackfillsOnlyAdd` (`BackfillOnlyAddsMissing`). `HistoryInv` says that what telemetry
reported has the request's identity (`OriginInv`); that what a plan has read is still
known, perhaps as another row (`PlanInv`); that a plan whose run is still current lacks only facts that are
themselves compiled from history (`FreshInv`), so that what it inserts later is missing
or already there; that a backfill that is to write a receipt has what it verified
(`ReceiptInv`), and the rebuild what it records (`RebuildInv`). A MERGE of the publisher
may replace a fact by the same event, which is why all of this is about events and not
rows. That a backfill repeats no answer, and a question only in the one case, is a lemma
about `Matched` (`OnlyPlaceholders`): whatever else is of the same turn is recognised, and
then not missing.

**RefreshPipelineProofs** has two more results: `SuccessHolds` (`SuccessIsDurable`) and
`LeaseIsDisciplined` (`LeaseDiscipline`). `SuccessInv` adds to the chain that a
client waiting for a reply waits for the transaction of its run, which is published
once that has committed (`Durable`), and that an open transaction belongs to the holder
of the lease, because every other write of the row aborts it (`Held`).

**SumTheorems**. The sums of the models are `SumFunction` and `SumFunctionOnSet` of the
community modules, folds that the provers know nothing of, and the library's induction
theorems cannot be instantiated. What an induction would show is shown here by a
smallest counterexample, as the subsets of a finite set have a smallest one with any
property that some of them has: that the fold exists (`FoldExists`), that a sum is a
natural number (`SumType`), that leaving out an element takes its value away
(`SumRemove`). The lemma that the reports live on is `SumOfParts`: values summed over a
set are the sums over the parts of any partition of it, summed again; `SumOfCounts` is
its case for sizes, `SumByKey` when the parts are the rows with one value of a field.
`LeastElement` and `GreatestElement` say that a finite set of naturals has one.

**ReportProofs**, analytics: from `AnalyticsAssumption` (finitely many questions, unique
people, days of whole hours), for any roster, window, hour and day length.
`AnalyticsTypeCorrect`, and `PublishedViewsAgree` (`ViewsAgree`). The answers are
functions of the publication, so the type is the invariant and each part of the property
is a lemma about it:

* `PartsAgree`: the rows of the overview are partitioned by area (`RegionSums`), by person
  (`UserSums`), the members by activity level (`ListedByLevel`); a member's area is the
  roster's, so an area's overview is its region (`AreaPart`).
* `DetailsAgree`: the last question of a user with one in the window lies in it
  (`LastInWindow`, a maximum), and a user and the peers partition the area
  (`PeersAddUp`).
* `ChartsAgree`: from the division of an instant into hours and days (`DivUnique`,
  `DivMono`, `HourOfDay`), the dates of the axis are those between the first and the last
  published instant, and the hours leave out only what `ChartsCover` names.
* `LevelsAgree`: whoever asked in a window no longer than the levels look back is active in
  the levels' own period (`AskedLately`).

**ReportProofs**, News: from `NewsReportAssumption` (finitely many deliveries; the rows of
one export agree on its unit, title and filters; unique people), for any log, rosters and
requests. `NewsReportTypeCorrect` is the invariant: no identity has two contents, and
every admitted row has what its kind needs. `NewsReportsConsistent`
(`NewsReportIsConsistent`) then follows from `NeverRefused`; `ResultsAgree` (a finished
export and its start have the same filters after attribution, so both are shown or neither,
`TerminalIsShown`); `OffersAgree`; `SectionsOf` (users, regions, channels, articles and days
as partitions of the same rows); and `CardsOf`, where the cards of one area are the
whole's cards because attribution does not look past a person (`AttributionIsPersonal`).

**The compositions.** `ReleaseTypeCorrect`, `WritersTypeCorrect` and `ReportsTypeCorrect` are
the type invariants of `ReleaseProtocols`, `OtherWriters` and `PublishedAnswers`;
`ReleaseHolds`, `WritersHold` and `AnswersHold` carry the safety properties of every part
over to the specification that the runs check. A behaviour of a composition is, for each
part, a behaviour of that part or one in which it rests (`ProtocolsAreRun`,
`WritersAreRun`, `PartsAreRun`). Exports and requests share variables; while only
requests run, no job exists (`RestingJobs`).

Proving found two things in the model that TLC had not. `CASE` expressions with overlapping
guards were relied on in their order (the code's `if` chains): TLA+ promises no order, so
`MeasurementReason`, `Availability` and the like are now chains of IF. And `NewsReport` admitted rows
that `sql/publish_news_usage.sql` quarantines - another channel, before the
measurement, an export without operation or filters - which the instance simply did not
contain; `Quarantined` now has them, and the instance an example.

The assumptions that are not `ASSUME`d by their modules (because several systems share
one instance) are asserted by `MCRelease`, `MCOtherWriters` and `MCReports`, so that TLC
evaluates each of them on the constants of its run. `MissingAssumption` and `MissingRunAssumption` say that
the model value that stands for "nothing" is not a record of the model.

**Only model-checked**: the liveness properties `EveryReadEnds`, `LeaseRecovers` and
`CatchUpReachesTarget` (the prover has no rules for `ENABLED` and weak fairness). Every other
property of a passing run is proved. What a recursive definition computes for all
inputs is out of the prover's reach; the modules with proofs use none.

## 5. Assumptions and abstractions

* A publish transaction commits only if nothing it mutates changed after its
  snapshot, and it writes `pipeline_state` itself. Statements outside it are atomic.
* Cloud Run kills a task at its timeout, and a retry starts after the previous
  attempt has ended. Server-side jobs survive the client.
* Clocks of jobs and BigQuery are one clock.
* In `UserDirectory` a Firestore transaction is atomic and its revision unique. Nobody
  else writes the documents. A legacy document has no claim at all; a legacy user may be
  bound, whatever its email.
* In `PublishedReads` a cached Chat roster that outlives its collection is not
  modelled: a request then still gets its own receipt's rows.
* In `Promotion` an operator retires an intent only as the runbook says: nobody
  works for it, and the disposition is the state the service is in; nothing but
  the script changes traffic; the contents of the receipts it validates only
  matter by being fresh or not. A snapshot file is on one machine; runs of one
  intent share it.

* In `HistoryRecovery` a day's MERGE is atomic, and an operator never applies a plan
  other than the one it has reviewed (the digest). Both messages of a turn appear in
  Firestore at once; their telemetry does not. Plans with an event manifest, which are
  stricter (`reject_legacy_aliases`), are not modelled.
* In `RefreshCutover` freezes share one snapshot file, whose updates are atomic, and an activation's gate and image checks hold or the run stops
  (`StopOperation`); receipt files of one operation are on one machine. The execution gate
  reads a ledger that has every finished execution. The guard against an
  `activation_started_at` in the freeze snapshot
  (`scripts/backfill_recent_data.sh:175`, `app/jobs/backfill_roster_history.py:446`)
  is not in the model: no script writes that field.
* In `Enforcement` BigQuery's clock and the monitored service's are one clock, and a
  promotion receipt lists every revision that had traffic.
* In the report modules rows are unique where the SQL deduplicates by `event_id`; the
  percentile of latencies and rates are left out (no property distinguishes them).

Some observations have no property that forbids them, as no document promises
otherwise.

* The projector binds a chat root to the user who had its email when the users were
  *listed* (`app/jobs/project_firestore.py:430`), and when two verified roots carry
  one email, the order in which they are streamed decides which is bound
  (line 451; the history rebuild, in contrast, excludes such users).
* A turn that a recovery inserted under its fallback identity is counted twice when its
  telemetry is published later under its request identity
  (`sql/merge_incremental.sql:434` matches by event only).
* In the order telemetry first, the backfill refuses the turn, as it recognises the
  message - except an untraced question whose telemetry names the assistant's placeholder
  (`app/jobs/backfill_roster_history.py:227`). Only a plan with an event manifest rejects
  that one; without, it is inserted a second time. `BackfillOnlyAddsMissing` says that
  this is the only case, and TLC finds it violated without the exception.
* The rebuild verifies that *history* answers have their question
  (`app/jobs/rebuild_history.py:1021`). An answer that telemetry published, its question
  quarantined or outside the window, is recorded without one; `RecordsHold` therefore
  promises questions only for the answers that the verification covers.
* Two freezes can overlap (`scripts/cutover_refresh_scheduler.sh:443`): the first
  finds the writers idle; a late resume lets the new scheduler fire; the second
  pauses it again; the first reads both paused (line 468) and records a verified freeze
  with a scheduled execution in flight. A resume after the readback does the same with one freeze.
  `FreezeIsQuiet` says that there is no third way.

### Not modelled

Roster import (a loop of directory calls that keeps no state), trace and
conversation readers, web wiring, authentication, category tables, CSV columns,
rendering, provisioning and read-only verification scripts: no state that a protocol
depends on. Of modelled components: the publish SQL's classification and quality
checks (data without control) other than those `Publishable` has, conversations and
citations, the rebuild's legacy audits and manifests, the backfill's event manifests, `--target-at` of a backfill execution, latency percentiles, the
contents of Cloud Run and transfer descriptions that the scripts compare, and the
`freeze-old` stage of the cutover.

## 6. Plan

Modules in the order they are worth writing.

1. `RefreshPipeline`, `Publication` and their proofs: the core. *Done.*
2. `ReadCache`, `PublishedReads`, `UserDirectory`, `Promotion`. *Done.*
3. `NewsPipeline`, `ExportJobs`, `HistoryRecovery`, `RefreshCutover`, `Enforcement`,
   `NewsReport`, `AnalyticsReport`, `RosterSnapshot`, and the proofs of `NewsPipeline`
   and `RefreshCutover`. *Done.*
4. The proofs of `PublishedReads`, `ExportJobs`, `RosterSnapshot`, `ReadCache`,
   `UserDirectory`, `HistoryRecovery` and `Enforcement`, and the remaining ones of
   `RefreshPipeline`. *Done.*
5. The reports, on lemmas about partitions and sums, and the compositions. *Done.*
6. Conversations and citations in `HistoryRecovery`, and the row rules of the publish
   SQL (deduplication, quality checks) as operators, to give `TxCommit` and `TxGate`
   their rows.

## 7. Running

    tlc -workers 2 -config MCRefreshConcurrent.cfg MCRefreshConcurrent.tla
    tlapm RefreshPipelineProofs.tla

Theorems are in `RefreshPipelineProofs`, `PublishedReadsProofs`, `ReadCacheProofs`,
`UserDirectoryProofs`, `WritersProofs`, `ReleaseProofs` and `ReportProofs`, lemmas that
several of them cite in `SumTheorems`. `ReportProofs` takes a few minutes.

`PROJECT.json` names the configuration of every run, and for each property a
plausible bug (`mutants`) that violates it: the operator `as` replaces the body of
`of`, for instance `WindowStartWithoutOverlap` that of `WindowStart`. These
operators stand directly before the definitions they mutate.
