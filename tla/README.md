# A TLA+ verification of the FX Forecast Lab

This directory models the parts of the repository whose correctness depends on
interleavings, crashes, leases, retries and money: TLA+ modules, TLC
configurations that check them on small instances, and TLAPS proofs that hold
for every instance. `PROJECT.json` is the machine-readable index (components,
runs, mutants, map from definitions to source lines, findings, hazards,
theorems).

## 1. The system

The program is a Django application over one PostgreSQL database. A scheduler
process and any number of worker processes share the database; the owner uses a
web dashboard and management commands. There is no broker: queue, outbox,
budgets and ledgers are tables, and the concurrency control is PostgreSQL's
(row locks, `SKIP LOCKED`, unique constraints, one transaction per function).

| Component | State it keeps | Operations | What makes it correct |
|---|---|---|---|
| Job queue (`operations/services.py`, `run_worker.py`) | `JobOccurrence` (status, attempts, owner, lease, deadline), `TaskFailure`; per worker a main thread and a one-thread pool | claim with reaping, heartbeat, finish; submit, poll, abandon | one owner per attempt, attempts bounded, every attempt accounted for, terminal is final, every row ends |
| Scheduler (`run_scheduler.py`) | `ScheduledJob.next_run_at`, occurrences by idempotency key | `enqueue_due_jobs` | no slot doubled, early or unexplained, one pass catches up |
| Outbox and e-mail (`email_delivery.py`, `notifications.py`) | `OwnerNotification`, `OutboxMessage`, `DeliveryAttempt` | notify, enqueue, claim, send, finish | no delivery denied by the record, outcomes fenced and final, every message settles |
| Provider budgets (`operations/services.py`) and paid flows (`forecasts/recommendations.py`, `forecasts/interpretations.py`) | `ProviderBudget`, `ProviderBudgetReservation`, `Recommendation`, `InterpretationAttempt` | reserve, call, settle, mark uncertain, record | a key is paid for once, caps hold for what is authorised, accounts are never rewritten |
| Accounting, diagnostics, job-state projection, host health (`operations/`) | none of their own | read-only reports, classification of errors | faithful projection |
| Portfolio and lifecycle (`forecasts/portfolio.py`, `lifecycle.py`, `exposure.py`, `sizing.py`) | cohorts, selections, lifecycle transitions | assess a batch, select, close, reconcile | risk caps hold for what is admitted, one selection per cohort, no decision after a trigger |
| Paper trades, targets, reviews, experiments (`forecasts/`) | append-only results, target occurrences, review cohorts, eras | resolve, reconcile, review, interpret, promote | outcomes only from complete data observed by the cutoff; nothing rewritten |
| Candle ledger and acquisition (`market/`) | append-only candle revisions, acquisition and discovery attempts, one-shot gates and waves | fetch, store, begin/finish/expire an attempt, approve, supersede | immutable revisions, one active attempt, gates used once |
| Market state and strategy (`market/state`, `market/strategy`) | immutable snapshots and runs | compute, persist | deterministic, write once |
| Research (`research/`) | ingestion runs, evidence store, validation batches and checkpoints, studies | ingest, detect conflicts, freeze packets, run and reconcile a validation | append only, idempotent, resumable |
| Assessments (`assessments/`) | immutable assessment runs | assess, replay | deterministic, write once |
| Dashboard, deployment, infrastructure, configuration | sessions and MFA; backup state and lock | views; backup, deploy, roll back | authentication; at most one backup at a time |

Interaction: the scheduler writes `JobOccurrence` rows; workers run the tasks,
which call the flows of `forecasts/`, `market/` and `research/`; those flows
reserve money and create notifications; after each job a worker's main thread
delivers one e-mail. Shared state is always rows; the only in-process
concurrency is a worker's main thread against its pool thread.

What is hard here: two workers in `claim_next_job` at once; a lease that
expires while its task or its SMTP conversation still runs; a task that cannot
be cancelled; a process that dies between two transactions of one flow; a
retried run that overlaps the run it replaces; a backlog after an outage;
batches, reconciliations, paper trading and the owner deciding over the same
recommendations, some with a cutoff read before they waited for a lock.
`PROJECT.json` lists these under `hazards`, each at its line.

## 2. Modules

| Module | Models | Notes |
|---|---|---|
| `JobQueue` | the queue and the workers | `occ`, `failures` are tables, `pc`, `locked`, `job`, `future`, `pool` the processes |
| `JobLifecycle` | what the queue promises of a row | abstract specification, refined by `JobQueue` |
| `Outbox` | notifications, outbox, delivery | |
| `ProviderSpend` | budgets and both paid flows | |
| `Scheduler` | `enqueue_due_jobs` | |
| `MCOperations` | | checks `ProviderSpend` and `Scheduler` in one run: they share no state, and a behaviour exercises one of them (`focus`) while the other stays at its start |
| `Portfolio`, `MCPortfolio` | cohorts, selections, lifecycle and paper facts of recommendations | |
| `Discovery`, `MCDiscovery` | discovery plans, attempts, approval and sealing, and the migrations that govern them | |
| `Acquisition`, `MCAcquisition` | dataset plans, acquisition attempts, candles, audit events, registration, and the migrations | |
| `LiveEvidence`, `MCLiveEvidence` | the live candle ledger, market-state snapshots, strategy records | |
| `FailedBreak`, `MCFailedBreak` | the two failed-break detectors side by side | |
| `Study`, `ReturnCalc`, `MCStudy` | the one-shot commands of the governed study; how one event is resolved and priced | `ReturnCalc` has no state |
| `Targets`, `Experiments`, `Reviews` | the parts of the forecast side, as operators and steps over their rows | composed by `Forecasts` |
| `Forecasts`, `MCForecasts` | the passes of the forecast side, interleaved | |
| `Validation`, `MCValidation` | the offline validation: cache, projection, catalog, workers, publication | |
| `ValidationReplay`, `ValidationForecast`, `ValidationReports` | what the validation computes: execution and its rows; the daily forecasts; reports, gates and the reconciliation that recomputes them | no state |
| `OperationsProofs`, `DiscoveryProofs`, `AcquisitionProofs`, `LiveEvidenceProofs`, `PortfolioProofs`, `StudyProofs`, `ForecastsProofs`, `ValidationProofs` | theorems | section 5 |

Conventions. One action is one transaction of the code, or one step of a
process outside a transaction. `claim_next_job` is two actions (`BeginClaim`
locks the expired rows, `CommitReapOnly` or `CommitClaim` does the rest and
commits), because two such transactions overlap and `SKIP LOCKED` decides what
each sees; the other transactions of the queue lock one row and are atomic.
Timestamps are relative: a row stores the ticks left until its lease expires,
so `lease_expires_at <= now` is `leaseLeft = 0`; the clock is read once per
transaction and does not tick inside a claim. Data that no property tells apart
(task names, parameters, summaries, prompts, e-mail text) is left out; an
exception is `raised` or, because the code confuses the two, `timeout_error`.
A crash ends a process's threads and rolls its transaction back.

`JobQueue`. A worker claims a row, submits its task to a pool with one thread
and polls the future; each poll timeout heartbeats. A refused heartbeat makes
the main thread give the row up, but the task stays in the pool and the next
task waits behind it: `pool` is the sequence of submitted tasks, and `TaskEnds`
ends the first one with any result, at any time or never. `LegacyRow` is a row
left `running` by a release without leases, which `claim_next_job` reaps
because its owner is empty.

`Outbox`. Some subjects notify in their own transaction, those in `OnCommit`
from a `transaction.on_commit` hook, where the notification and the message are
two more transactions; the producer may die in between. Delivery claims under a
lease, talks to the server without a lock, and records. `accepted` is the ghost
record of what the server really took.

`ProviderSpend`. A run is one execution of a flow for an idempotency key;
several runs of one key overlap because the queue retries an attempt while the
abandoned task still runs. The lookup before the lock, the reservation under
the budget's row lock, the call, the settlement and the final record are
separate steps; the process may die before any of them, and during the call
with the money spent. Prompt building and schema validation are abstracted to
a valid or invalid answer with a cost.

`Scheduler`. Slots are numbered and `SlotTime` gives their UTC time: by
multiplication for an interval, by local dates for a daily job whose zone
changes its offset on `ChangeDay`. `DueCount` follows the code's two ways to
count. The owner may disable a job or set `next_run_at` back.

`Portfolio`. The rows the guarded transactions write are one record `db`
(lifecycle chains, refusals, cohorts with selections and closure, latest
admission). Each function of the code is an operator from `db` to `db` that
sets `err` where the code or a PostgreSQL trigger raises (`SelectionError`,
`MemberError`, `Supersedes`, the capacity check in `RecordSelection`), and
`Commit` is the transaction. Assessment, selection and reconciliation hold the
`PortfolioGuard` row throughout, so each is one step, but a reconciliation
reads its cutoff before it asks for the guard: `Reconcile(i, asOf)` takes any
cutoff up to `LockWait` ticks old, and projects the lifecycle by event time as
the code does. The batch is many steps: it commits a recommendation, sizes it in
a second transaction, goes on to the next instrument, and assesses all of them
only if none failed; it may stop anywhere and be run again. Candles are
abstracted to the time at which one that reaches the entry level is stored;
what `resolve_paper_trade` decides from candles is a choice among the outcomes
possible at that time. A target is named by the first recommendation for it.
Recommendations of earlier contracts, the owner's notification, audit events and
the commands that size by hand are left out.

`Discovery`. Three plans: v1 is superseded after its canary failed, v2 is
executed canary first, v3 extends v2 in three stages. `att` holds the attempts
of each chunk with their outcome, `inv` its accepted inventory. A runner checks
the rules in Python under a lock on its chunk, the triggers check them again
under the plan's advisory lock when the attempt is inserted, the provider is
called without a lock, and the outcome is recorded; an operator may resolve the
attempt as stale, supersede the plan, approve, seal, or install and reverse a
migration meanwhile. `installed` is an index in the list of migrations, and each
rule is the one of the trigger function then installed.

`Acquisition`. The same shape for candles: v0 follows the calendar and may be
retried, v1 and v2 follow a sealed inventory under a contract and are requested
once, canary first, one at a time over all contracts. `WaveChunk` works through
a plan made when the wave started. `Accepted` and the readiness report repeat in
Python what the triggers verify in SQL; both are modelled.

`LiveEvidence`. One instrument. An ingestion is `Plan` (rows locked, every item
classified) and `Store` (triggers, commit); a snapshot takes the advisory locks
of its series one by one, reads, and persists what it verifies again. Every
trigger that repeats a decision of Python reports in the ghost `refused` why it
refused. Research records are stored without any lock, other applications cite
candles at any time, and the clock may be corrected backwards.

`FailedBreak`. Both detectors consume the same candles, revealed hour by hour,
so a detector that looked ahead would read what has no value yet. v1 recomputes
its levels from all daily and weekly candles, v2 updates them incrementally;
both write setups, transitions, evaluations and counts.

`Study`. Processes run the commands S0, S1, returns, the older S0 and the
verification; files may be altered, a process killed, a COMMIT land after its
client died, a returns child be stopped by its parent. `ReturnCalc` is evaluated
over all short price paths.

`Forecasts`. A pass (a job or command) is a program of steps; each step reads the
time when the one before it ends and commits later. Candles arrive late, out of
order or never; the owner registers eras, deploys methods, decides; a generation
is paid for while everything else goes on. `MCForecasts` splits the features
into plans (starts and allowances) that keep their products small; each start is
a state the program reaches.

`Validation`. Files and rows that outlive their processes: the acquisition
cache, the frozen manifest, the projection, the catalog of daily checkpoints,
reports and marks. Processes load, prove what is there, continue, publish, die.
Sources may be edited and rows or files altered or lost within `Faults`.

What the reports are made of is computed by `ValidationReplay` (setups, fills,
overlays, the rows of a day), `ValidationForecast` (the daily forecasts and what
they charge) and `ValidationReports`, which draws metrics, paired comparisons
and gates from the rows and, with arithmetic of its own, recomputes them as the
reconciliation does.
## 3. Runs

| Run | Checks | Instance |
|---|---|---|
| `jobqueue` | attempts accounted for; fencing by worker id; abandoned tasks; refinement of `JobLifecycle`; every row ends | 2 rows, 2 workers, 2 attempts, lease 2 and deadline 3 ticks, 1 crash |
| `outbox` | attempts match the message; honest delivery record; fencing; outcomes final; every message settles | 2 messages (one from a hook), 2 processes, 2 attempts, lease 2, 1 crash |
| `operations` | one paid call per key; authorised amounts within both caps; every passed slot explained; exact counts under `latest` | 2 recommendation keys and 1 interpretation key, 2 runs, 3 days in 2 months, costs below and above the estimate; one job of each missed-run policy, 11 hours, an offset change, 1 set-back |
| `portfolio` | caps on active risk; the database's backstops never fire on a decision the code allows; no assessment stays open; `DecisionsAreConsistent`; no selection with hindsight | 3 recommendations on 2 pairs (2 buys that overfill the USD leg, a sell that overfills the total), window and horizon 2, 4 ticks |
| `discovery` | `AttemptsAreGoverned`, `OutcomesAreEarned`, `ReadinessIsExact` | 2 runners, v2 of a canary and 2 chunks, v3 of a canary, a cross chunk and 2 chunks, 2 attempts in v1, 1 in v2, 1 fault |
| `acquisition` | `RequestsAreGoverned`, `OutcomesAreEarned` | 2 runners, 1 calendar chunk with 2 attempts, 2 contracts of a canary and 2 chunks, 1 fault |
| `live` | `LedgerIsFaithful`, `SnapshotsReplay`, `LocksSuffice` | 2 workers, 2 providers and fixtures, 2 contents, clock to 2 with 1 correction, 4 transactions |
| `live_mirror` | violated: `MirrorAgrees` | the same |
| `failed_break` | `DetectorsAgree`, `LevelsStayInForce`, `SetupsSettle` | development hours 4 to 10, inventories with gaps, misaligned days and one conflicting candle |
| `study` | `StagesAreGoverned`, `ReportsAreHonest`, `ReturnsAreHonest` | 2 processes, 5 commands, 2 faults |
| `forecasts` | `OutcomesAgree`, `SamplesRespectEras`, `ReportsReproduce`, `PassesSettle` | 3 sessions of 2 ticks, 3 workers of which a plan lets 2 or 3 run, 12 plans |
| `validation` | `PublishedIsReplayed`, `CompletedReconciles`, `RefusalsAreExplained` | 2 development days of 3 intervals, 2 markets, 2 strategies and an overlay, 4 days of forecasts, 1 fault |

Many properties are conjunctions of named parts; the module states each part
with its own comment:

| Property | Parts |
|---|---|
| `Portfolio!DecisionsAreConsistent` | `TypeOK`, `ChainsAreLegal`, `FactsMatchLifecycle`, `SelectionSettlesCohort`, `SupersededCohortsAreClosed`, `OneOpenDecisionPerTarget` |
| `Discovery!AttemptsAreGoverned` | `SingleFlight`, `StagedOrder`, `EvidenceIsGoverned`, `SupersededIsClosed` |
| `Discovery!OutcomesAreEarned` | `TypeOK`, `InventoryIsEarned`, `SealedIsAccepted` |
| `Acquisition!RequestsAreGoverned` | `ContractsSingleFlight`, `OneRequest`, `CanaryFirst`, `ReadinessIsExact`, `EvidenceIsGoverned` |
| `Acquisition!OutcomesAreEarned` | `TypeOK`, `CandlesAreExpected`, `AuditPairs`, `RegisteredIsComplete` |
| `LiveEvidence!LedgerIsFaithful` | `TypeOK`, `LatestIsShown`, `FixturesNeverMix` |
| `LiveEvidence!LocksSuffice` | `BackstopsNeverFire`, `NoLockCycle`, `OneSimulationPerSignal` |
| `FailedBreak!LevelsStayInForce` | `TypeOK`, `IncrementalIsBatch`, `LevelConsumedOnce`, `EntriesUseLiveLevels` |
| `FailedBreak!SetupsSettle` | `SetupsHaveOneOutcome`, `CountsPartitionSweeps`, `EvidenceExplainsReport`, `AnalysesCoverDevelopment`, `ReplayIsIdempotent`, `NeverStuck` |
| `Study!StagesAreGoverned` | `TypeOK`, `OneRowPerStage`, `RowsAreGoverned`, `StagesAreBound`, `NominalPathIsOpen` |
| `Study!ReportsAreHonest` | `ReportsMatchRows`, `NothingStartsAfterReport`, `VerifiedIsComplete` |
| `Study!ReturnsAreHonest` | `OutcomesAreSealed`, `ResolvedEventsArePriced`, `NoLookAhead`, `ExitIsPessimistic` |
| `Forecasts!OutcomesAgree` | `TypeOK`, `TriggersAgree`, `DerivedMatchesShared`, `LegacyNeverEarly` |
| `Forecasts!SamplesRespectEras` | `SamplesFallInTheirEras`, `ChallengerSamplesAreChampionIssued` |
| `Forecasts!ReportsReproduce` | `AssessmentsReproduce`, `ReportIsExplained`, `ReviewsFollowFacts`, `HypothesisSpansClusters` |
| `Forecasts!PassesSettle` | `MatureIsSettled`, `DecidedErasAreFinal`, `ReviewFreezesTheRest` (all three on steps) |
| `Validation!PublishedIsReplayed` | `TypeOK`, `OneChunkPerRequest`, `SealedStaysSealed`, `PublishedIsExpected`, `ForecastsAreCarried` |
| `Validation!CompletedReconciles` | `EvidenceReconciles`, `ScanAccepts`, `TradesNeverOverlap`, `MarkedIsComplete` |

Bounds and why they suffice. Two workers and two rows give every pairwise
interleaving of claims, and a task queued behind an abandoned one; two attempts
give a retried and a last one; a deadline longer than the lease gives both ways
to lose a row; one crash leaves one process, which the liveness properties need
(without it nothing could run). `MaxWait` (`MaxDelay` in `Outbox`) only merges states of rows that have
been available for long. In `operations` the caps admit one reservation a day
and one and a half a month, so both caps bind, with three keys that compete; the
catch-up bound (2) is smaller than the longest backlog. In `portfolio` three
recommendations are needed for cohorts that compete for capacity, for a target
or by supersession; with all three present the time is capped at 2 and every
reconciliation has a fresh cutoff (`CrowdTime`, `Wait`), with two it runs to 4
and a cutoff may be one tick old, so that windows end, trades mature and late
assessments are cancelled. In `discovery` and `acquisition` two runners give
every race of two checks with two insertions, a canary and two chunks give an
order beyond the canary, and one fault gives a death or a failed write or a
stale resolution at each point. The theorems of section 5 remove these bounds as
far as safety goes, in every run but `failed_break`; for `validation` the facts
of the candles alone (`DaysMakeThePeriod`, `ForecastsAreCarried`,
`EvidenceReconciles`) stay on the instance. In `live` four transactions are a row, a revision by
another source, a return to the earlier content, and a snapshot among them. In
`failed_break` seven development hours hold a weekly and a daily completion, a
sweep, a confirmation and an entry. In `study` five commands are the whole chain
with one retry; the cohorts hold a gap, an exit at a forming bar and an exit at
a daily close that falls into a gap, which no rollover lookup foresaw. In `forecasts` three sessions give a target that matures while
the next is issued. In `validation` two days make a checkpoint that is continued
from and one that ends the period.

Deadlock is checked in `jobqueue`, `outbox`, `failed_break` and `study`. The
others may stop properly: their clocks, passes, keys or faults are bounded, and
the last state of a bounded history has no successor.

Fairness. `JobQueue!FairSpec` asks weak fairness of the clock and of each live
worker's main thread, and nothing of the pool: tasks may hang forever.
`Outbox!OutboxFairSpec` asks weak fairness of the clock and of each process's delivery
steps, the end of an SMTP conversation included. That last part is an
assumption about the server: the code sets no e-mail timeout. No other
specification states fairness: that assessments end is the invariant
`AssessmentEnds` (the next reconciliation, whenever it comes, ends them), and
that passes settle what is due is the action property `PassesSettle`.

Each property has a mutant: a definition of the code with a plausible bug (a
dropped guard, an off-by-one, a missing key), defined next to the original and
listed in `PROJECT.json`, under which TLC finds the property violated.


## 4. Findings and observations

One run shows a disagreement of the code with its own comments:

1. `live_mirror`: the trigger function that is called "the mirror of
   market/services.candle_is_referenced"
   (`src/market/migrations/0029_candle_observation_lineage.py:287`) lists fewer
   relations than the Python function follows. A revision of a candle that only
   a target cites is planned as a conflict and refused by the trigger, so every
   ingestion of that window rolls back.

What was met while modelling and has no run of its own:

- *Queue.* Since Python 3.11 `concurrent.futures.TimeoutError` is the builtin,
  so a task that ends with a `TimeoutError` is taken for a poll timeout and
  recorded only at its deadline (`run_worker.py:32`; `docs/architecture.md:94`).
- *Outbox.* A connection that cannot be opened is not an `SMTPException` and
  counts as uncertain, which is terminal (`email_delivery.py:56`), while
  `docs/gmail-notifications.md` promises bounded retries. A last attempt that
  loses its lease stays `started` (`operations/services.py:261`). A crash between
  the commit of a subject and its `on_commit` hook loses the owner's e-mail
  (`forecasts/interpretations.py:664`).
- *Paid flows.* A valid answer is thrown away when the run that paid for it meets
  the failure record of another run (`handoff.md:118`). A rejected
  interpretation never records its outcome on its reservation. Settled amounts
  may exceed a cap by the overrun of one response, since the estimate is checked.
- *Scheduler.* Under `skip` a slot met on time is skipped as well, so such a job
  never runs.
- *Portfolio.* `reconcile_lifecycle` (`lifecycle.py:245`) reads its cutoff before
  it waits for the guard; members assessed after the cutoff keep awaiting the
  owner in a closed cohort (`docs/phase3/design.md:37`, `:95`). A recommendation
  is committed and sized in two transactions, and an hourly reconciliation in
  between rejects it for good, against "operational failure is retryable
  assessment, not business rejection" (`design.md:61`). An assessment that meets
  an entry level reached earlier is undone every hour until it is cancelled.
- *Acquisition.* 0025 still verifies v1's canary for v2's other chunks, and that
  verifier refuses once any dataset is registered. The 0022 validator lets v2 be
  registered under 0025 and 0026, after which 0027 can never be installed; only
  Python guards against it. The candle trigger alone would not notice that
  candles are missing.
- *Live candles.* A research record has neither `recorded_at` nor a lock: one
  stored after a snapshot with an earlier `fetched_at` makes the snapshot's
  research set mismatch (this is why `SnapshotsReplay` is about candles). A cited
  fixture row blocks a provider's ingestion for ever. The provider is asked
  before the series is locked, so an older answer may be stored after a newer
  one. A clock corrected backwards refuses an ingestion until it has caught up.
- *Failed break.* v1 never admits a day or week that completes with no hour; v2
  keeps last week's level where v1 follows the calendar; v1's invalidation at
  such a time aborts the run; v2's decision counts include purged setups. A
  conflicting hour that is a confirmed setup's entry makes the trigger of 0015
  reject the cancellation, so the run aborts instead of ending as
  DATA_INCOMPLETE (`failed_break_detector.py:529`).
- *Study.* The authorization says no retry, but after a rolled-back attempt
  nothing stops outcomes from being read again. Configuration hashes contain
  primary keys, so a burned sequence value blocks the study for ever. Not every
  possible exit time is fixed in advance, as the comment of
  `exploratory_return_adapter_v2.py:277` says: a daily close that completes inside
  a gap of the hours ends the position at the first bar after it, for which there
  is a conversion only if that is a 17:00 mark or the horizon; without it the
  whole cohort fails (`Unforeseen` of `ReturnCalc`, reached by the run). Pre-state
  checks are not repeated at commit, a timeout may be reported although COMMIT
  landed, and a killed parent leaves its child running. At HEAD the returns
  command can run on no database (`EXPECTED_MIGRATIONS`).
- *Forecasts.* "Missing" is permanent when reconciliation runs before the
  endpoint candle is ingested, and is reported as invalid later when the candle's
  batch had finished but not committed. Timestamps are read before the paid call,
  so an assessment with a cutoff in between does not reproduce. Registering a
  future champion era supersedes the present one at once. `start_challenger_era`
  has no caller. Two terminal decisions may run concurrently. A corrected review
  is never interpreted again, and a reassessment with an earlier `as_of` that
  runs later "supersedes" the newer one.
- *Validation.* A crash in `project_development` leaves a file that blocks every
  later projection. A worker started on edited sources inserts a registration or
  plan after which the restored sources refuse for ever. A re-acquired cache never
  matches the frozen manifest. A deleted middle checkpoint stops the worker.

## 5. Proofs

Every theorem holds for all values of the constants that satisfy the module's
named assumptions: any number of rows, workers, runs, runners, chunks, attempts,
any durations, costs, answers and faults. TLC checked each invariant on the
run's instance, the strengthenings included, before it was proved.

### `OperationsProofs` (`ConstantsAssumption`, `SpendAssumption`, `ScheduleAssumption`, `OutboxAssumption`)

The queue, the budgets, the scheduler and the outbox share a module of theorems. Of
`JobQueue`:

| Theorem | Statement |
|---|---|
| `TypeCorrect` | `Spec => []TypeOK` |
| `AttemptsAreBounded` | `Spec => []AttemptsRemain` |
| `ReapingIsExclusive` | `Spec => []ReapersAreDisjoint` |
| `TerminalRowsAreFinal` | `Spec => TerminalIsFinal` |
| `AttemptsAreAccountedFor` | `Spec => []AttemptAccounting` |
| `TerminalFlagsAreHonest` | `Spec => []TerminalFlagHonest` |
| `OutcomesAreFenced` | `Spec => []OutcomeIsFenced` |
| `QueueImplementsLifecycle` | `Spec => Lifecycle!Spec` |
| `CurrentAttemptRunsAtOwner` | `Spec => []CurrentAttemptAtOwner` |

The argument is in layers. `TypeInv` strengthens the types with
`AttemptsRemain` (a claim increments the attempts of a queued row),
`WatcherHasJob` and `RunningHasAttempt` (the backoff is `2 ^ (attempts - 1)`).
`LockInv` adds that only an open claim transaction holds locks; with it,
`LocksKept` reduces each action to the question whether it touches a locked row,
and `WatchedRowIsUnlocked` answers it for heartbeats and outcomes.
`EveryStepIsARowStep` then abstracts every action to what it does to one row
(kept, created, claimed, succeeded, failed, replaced), from which the
finality of terminal rows, the ledger of attempts and failures (`Ledger`, the
element-wise form of two invariants), the refinement and the placement of tasks
follow row by row. Fencing is inductive on the types alone.

Of `ProviderSpend`:

| Theorem | Statement |
|---|---|
| `SpendTypeCorrect` | `SpendSpec => []SpendTypeOK` |
| `CalledOnce` | `SpendSpec => []ProviderCalledOnce` |
| `OneFlight` | `SpendSpec => []SingleFlight` |
| `UnsettledCounts` | `SpendSpec => []UnsettledCallsCount` |
| `StoredIsPaid` | `SpendSpec => []StoredResultIsPaid` |
| `FinalAccounts` | `SpendSpec => AccountsAreFinal` |
| `CapsHold` | `SpendSpec => []AuthorisedWithinCaps` |

`FlightInv` (`AbsentIsUnused`, `SingleFlight`, `CallIsFirst`,
`ProviderCalledOnce`): a run between reservation and settlement owns its key, so
its call is the first. `PaidInv` relates the records of both flows to the
reservations. `CapInv` is `AuthorisedWithinCaps` with the fact
that the accounts are finite: a total counts units (`Units`, `Total`), so that
what unions and subsets do to it follows from the cardinality theorems
(`TotalIsMonotone`, `TotalGrowsBy`); only `Reserve` authorises, after it has
checked both caps, and settling an overrun counts as no more than the estimate.

Of `Scheduler`:

| Theorem | Statement |
|---|---|
| `SchedulerTypeCorrect` | `SchedulerSpec => []SchedulerTypeOK` |
| `OneEach` | `SchedulerSpec => []OneOccurrencePerSlot` |
| `NoneEarly` | `SchedulerSpec => []NeverEarly` |
| `PassesCatchUp` | `SchedulerSpec => OnePassCatchesUp` |
| `NothingIsLost` | `SchedulerSpec => []PassedSlotsAreCovered` |
| `CountsStayExact` | `SchedulerSpec => []LatestCountsAreExact` |

`DueCountExact` shows that the code's division, and its walk over local dates,
count exactly the slots that are due (as a cardinality); `SelectedIsATail` and
`PassIsABatch` describe what one pass creates. `OccurrenceInv` and `CoverInv`
(`BacklogsAreWhole`, `ReachedAreCovered`) then follow pass by pass, through
outages, set-backs and a change of the zone's offset. `LatestCountsAreExact` says
that the slots the occurrences stand for partition the slots passed, which makes
it inductive pass by pass (`BatchKeepsCounts`).

Of `Outbox`:

| Theorem | Statement |
|---|---|
| `OutboxTypeCorrect` | `OutboxSpec => []OutboxTypeOK` |
| `AttemptsTellOneStory` | `OutboxSpec => []AttemptsMatchMessage` |
| `OutcomesAreFinal` | `OutboxSpec => RecordedOutcomesAreFinal` |
| `DeliveriesAreFenced` | `OutboxSpec => []DeliveryIsFenced` |
| `RecordIsHonest` | `OutboxSpec => []DeliveryRecordIsHonest` |

`OutboxTypeInv` adds to the types what a busy process relies on (`BusyHasWork`,
`AbsentIsUnclaimed`, `SendingHasAttempt`). `AttemptsMatchMessage` is inductive
over it. Honesty needs to know who may still write an outcome: `DeliveryInv`
joins fencing with `WorkIsClaimed`, `WorkIsExclusive` (no two processes hold the
same attempt) and `ProcessIsInformed` (what a process is about to record is what
the server did), and is proved as one.

### `DiscoveryProofs` (`ChunksAssumption`, `BoundsAssumption`, `AnswerAssumption`)

| Theorem | Statement |
|---|---|
| `TypeCorrect` | `Spec => []TypeInv`, which contains `TypeOK` |
| `ResultsAreEarned` | `Spec => []OutcomesAreEarned` |
| `AttemptsStayGoverned` | `Spec => []AttemptsAreGoverned` |
| `ReadinessStaysExact` | `Spec => []ReadinessIsExact` |
| `SealedStaysFinal` | `Spec => SealedIsFinal`: after a plan is sealed no attempt or inventory of it changes |

What makes these hard is the gap between a check in Python and the insertion.
`TypeInv` carries `CheckedAreCurrent`: the lock on the chunk keeps what a runner
has checked true until it inserts. `AttemptRows` restates sets of attempts row by
row, and `StepsAreOrderly` reduces every action to one of four kinds (inserts an
attempt, fails one, completes one, leaves the rows). `RowInv` (`EarlierFailed`,
`InventoryIsWhole`, `EarnedRows`, `AttemptsArePlanned`) and `StageInv`
(`StagedOrder` with `CheckedStages`, the same for what was checked) are inductive
over the kinds; `SealedIsAccepted` follows from them. `FlightInv` (`Flights`,
`GovernedFromTheStart`, `EvidenceIsGoverned`) compares each attempt with the
rules of the migrations installed when it was inserted and since.

### `AcquisitionProofs` (`ChunksAssumption`, `BoundsAssumption`, `AnswerAssumption`)

| Theorem | Statement |
|---|---|
| `TypeCorrect` | `Spec => []TypeInv`, which contains `TypeOK` |
| `ResultsAreEarned` | `Spec => []OutcomesAreEarned` |
| `RequestsStayGoverned` | `Spec => []RequestsAreGoverned` |
| `StoredStaysFinal` | `Spec => StoredIsFinal`: what a chunk's completion stored never changes |

The same structure. `RowInv` (`EarlierFailed`, `OnceUnderContract`,
`CandlesAreWhole`, `EarnedRows`, `EventRows`) is inductive with
`CheckedAreOver`: what a runner is about to insert comes after attempts that all
failed. `RegisteredRows` and `EarnedInv` give what a registered dataset holds;
`RequestInv` (`Flights`, `CanaryRows`, `GovernedRows`) orders the requests of all
contracts; `AcceptedIsDone` and `ReadinessFollows` derive the readiness report.

### `LiveEvidenceProofs` (`LiveAssumption`)

| Theorem | Statement |
|---|---|
| `TypeCorrect` | `Spec => []TypeInv`, which contains `TypeOK` |
| `SnapshotsAlwaysReplay` | `Spec => []SnapshotsReplay` |
| `LedgerStaysFaithful` | `Spec => []LedgerIsFaithful` |
| `HistoryIsKept` | `Spec => LedgerOnlyGrows`: observed and legacy candles never change, observations and runs are only added |
| `LocksAreEnough` | `Spec => []LocksSuffice` |

An ingestion plans under the series lock and stores later. `PlanIsCurrent`, a part
of `TypeInv`, says what the lock and the row locks are for: until it commits, a
plan is what planning again would give (the row locks keep even citations out).
With it `PlansAreAdmitted` shows that the lineage trigger can refuse a row only
for its chronology or because its list of citing relations is shorter than
Python's, and `LedgerSteps` that nothing
but commits changes the ledger. `SnapshotsReplay` follows because a commit
records after every cutoff that a snapshot has passed (`RecordedAfterCutoffs`,
`CommitIsUnknown`). `LedgerInv` (`SaidAreStored`, `RowsStandApart`,
`LatestIsShown`) is inductive over commits. `SimulationInv` joins the exclusive
attempt keys with `BackstopsNeverFire`; a circle of waiting transactions is
impossible because the one that waits for the greatest series is waited for by
none (`LockOrderExcludesCycles`). Greatest and least elements of finite sets are
proved by cardinality (`LeastExists`, `MinIsLeast`, `MaxIsGreatest`), since the
library's induction theorems take an operator as a parameter, which the installed
provers cannot instantiate.

The model was changed for these proofs in form only: a plan, a snapshot under
construction and what a commit leaves became named operators (`PlanOf`,
`SnapshotOf`, `RowsAfter`, `ObservationsAfter`, `TechnicalAfter`), and `runs` is
typed as a sequence of `Batches` of any length. Its state graph is the same.

### `PortfolioProofs` (`ConstantsAssumption`)

| Theorem | Statement |
|---|---|
| `PortfolioTypeCorrect` | `Spec => []TypeOK` |
| `DecisionsStayConsistent` | `Spec => []DecisionsAreConsistent` |
| `ActiveRiskStaysWithinCaps` | `Spec => []ActiveRiskWithinCaps` |
| `BackstopsStayIdle` | `Spec => []BackstopsNeverFire` |
| `AssessmentsEnd` | `Spec => []AssessmentEnds` |
| `SelectionsAreMadeInTime` | `Spec => NoHindsightSelection` |

One inductive invariant, `IInv`, carries all six. Most of it is `Sound(db)`, a
predicate of the rows and not of the state, because a transaction is a chain of
operators and every link must keep it: legal chains whose states rise in rank
(`LegalChain`, `Rank`; a state is never entered twice, so that `Has` decides
whether a transition is a repetition), the paper facts (`FactsInv`), and the
decisions (`DecisionInv`: cohorts do not share members, a selection is the only
one of its cohort and closes it, whoever is live was selected, a later cohort of
an instrument closes the earlier, open cohorts have different targets). It ends
with `Fits(LiveOf(d))`: every step but a recorded selection can only shrink what
is live, a smaller set fits where a larger did (`FitsIsMonotone`, from a total
that counts units), and a selection is refused unless it fits.

What `transition` and `close_cohort` do is stated once (`Transitioned`,
`CohortsClosed`); `EndingsAreSound`, `RecordingIsSound` and `OpeningIsSound` say
that ending recommendations, recording a selection and opening a cohort keep the
rows sound, and `AssessOutcome` puts them together with every error they can
raise. A reconciliation is a recursive function over the recommendations of an
instrument, newest first. That it is defined for every length is proved by
taking the least length for which it would not be (`PassExists`,
`ReconciledIsPass`), that it keeps the rows sound by taking the first step that
would not (`CountUp`, `PassGoesOn`). With a late cutoff no step can raise:
`LatePass` and `LateReconciliation` give `AssessmentEnds`. A stale cutoff may see
a recommendation in an earlier state than the one it is in; what it then repeats
is found in the chain and left (`RepeatsAreUnmoved`).

`Follows` accompanies every transaction and says which cohorts it may have given
a selection: `NoHindsightSelection`. For `BackstopsNeverFire` the invariant adds
what a batch holds (`BatchInv`: one recommendation of each instrument whose turn
is over) and that targets are named within an instrument (`TargetInv`), so the
recommendations of a batch never compete with each other.

The model was changed for these proofs in form only: `Recs` is `1..MaxRecs`,
risk is counted in units, the reconciliation is a recursive function in place of
a fold, and parts of an assessment and of a selection became operators of their
own (`NewCohort`, `PutToOwner`, `WithSelection`, `SettleCohort`). The run reaches
the same states.

### `StudyProofs` (`StudyAssumption`, `CohortsAssumption`)

| Theorem | Statement |
|---|---|
| `StagesStayGoverned` | `Spec => []StagesAreGoverned` |
| `ReportsStayHonest` | `Spec => []ReportsAreHonest` |
| `ReturnsStayHonest` | `Spec => []ReturnsAreHonest` |

The actions of six commands keep one invariant, so each is first reduced
to what it does for the others: its process's own record stays well formed (`Local`: what
it has verified by each point of its command, what its transaction holds, what
its operator was told), what it learnt from the committed rows is still so
(`Learnt`; rows are never removed), and towards the database it is one of four
kinds, it `Stays`, `Opens` a transaction, `Sends` its COMMIT away and ends, or
`Lands`. The `...IsOrderly` lemmas do the first, one action each; the
`...KeepsRows` lemmas show the four kinds, and a COMMIT in flight that lands or
is lost, keep what the rows promise (`RowsInv`) and whose they are (`Owns`).

Uniqueness rests on `RowsApart` and `FlightApart`: an insert waits for, or is
refused by, every row with its key, committed or not, so any two transactions
that may still land have different keys. A killed client's COMMIT stays in
`flight`, where its key still counts as taken (`Owns`). That an undisturbed study is never refused is a matter
of counting: three rows of v1 and no burned sequence value force the numbers 4
and 5 that the governance pins (`FirstStageIsAccepted`, `SecondStageIsAccepted`).

Of an event it is assumed that its times are hours and that a bar's open lies
between its low and its high, which `_validate_bar` checks. `EventResolves` finds
the first bar that ends it (there is one, since the horizon is an hour of the
inventory) and how; `ExitIsForeseen` says when its exit is among the times fixed
in advance, `PricesAreKnown` that each price is the last completed before its
time, `FillIsTheWorst` that no order of the ticks in the last bar fills worse.
The proof found the exception: `ResolvedEventsArePriced` was stated without
`Unforeseen` before, and held on an instance that had no such event.

### `ForecastsProofs` (`ForecastsAssumption`)

| Theorem | Statement |
|---|---|
| `TriggersNeverFire` | `Spec => []TriggersAgree` |
| `PredictionsShareOutcomes` | `Spec => []DerivedMatchesShared` |
| `EveryWriterAgrees` | `Spec => []OutcomesAgree`, which adds `TypeOK` and `LegacyNeverEarly` |
| `SamplesAreTheErasOwn` | `Spec => []SamplesRespectEras` |
| `PassesSettleWhatIsDue` | `Spec => PassesSettle`, all three action properties |
| `ReportsAreReproducible` | `Spec => []ReportsReproduce` |

The assumption says that there is a last session, that a session and the
horizons last for some time, and that every plan starts in a state the program
can have reached (`SoundPlan`): a stored outcome is the one its time found,
an era supersedes one of its kind that started earlier, a sample was issued
inside its eras, a paid generation cites a control of its time. The number of
sessions, candles, eras, recommendations, passes and facts is free.

`Core` types the rows and holds what every writer reads: the outcome of a
target, of its control and of the recommendations on it agree, and whatever a
pass is about to write it read at a time that is over. Five of the theorems need
`Core` and what follows from it step by step; `EveryWriterAgrees` adds the rows
that passes leave (`Rows`: baselines, assessments, decisions, reviews, attempts).

`ReportsAreReproducible` speaks of several times at once. `NothingIsRewritten`
says of every step that no stored row changes except by what is appended to it.
An assessment with cutoff `at` then sees the same samples, outcomes and facts
later as when it was computed, unless something was stored under its cutoff
after it was read; `undercut` records exactly that, and `SameView`, with a
congruence lemma for each operator of the assessment, carries the values over.
The invariant (`Reported`) adds the same of resolutions (`ResolutionsStand`), also for
values that a pass has read and not stored (`AssessmentsStand`). A hypothesis
rests on distinct issuances because attempts are numbered in the order of
insertion (`AttemptIds`) and a cluster enters once. `ReviewsCount` says that
the facts a review cites are among those stored and differ from review to
review; an argument by cardinality then gives `ReviewsFollowFacts`.

That proof corrected the model: the property was stated without its second
disjunct, which admits a correction that read its time before a fact was
stored, and held only because no plan had three passes at once. The property
names the case now, and a plan reaches it.

### `ValidationProofs` (`ValidationAssumption`)

| Theorem | Statement |
|---|---|
| `AcquisitionIsKept` | `Spec => [](TypeOK /\ OneChunkPerRequest /\ SealedStaysSealed)` |
| `RefusalsAreAlwaysExplained` | `Spec => []RefusalsAreExplained` |
| `PublishedIsAlwaysReplayed` | `DaysMakeThePeriod` and `ForecastsAreCarried` imply `Spec => []PublishedIsReplayed` |
| `CompletionStandsUp` | `EvidenceReconciles` implies `Spec => []CompletedReconciles` |

The number of processes, chunks, strategies, instruments, batches, days and
faults is free, and so are the candles.

The two hypotheses at the bottom are formulas of the constants alone: of what
the candles, folded day by day, come to. They are conjuncts of the properties
the run checks, so TLC evaluates them on the instance; the
theorems say that everything else about the two properties (who computed which
day, from which proofs, in which order, after which deaths and alterations)
holds for all constants. To prove them for all candles would take induction over
the candles.

Days are numbered from the start of the period, so the digests of a chain are a
function of its candles (`TrueBody`, `DigestsExist`). The invariant `Inv` has a
part for every kind of behaviour (`Base`: the cache, the lock, what a projection
copies, and that each refusal has its cause in `harm`) and one for the catalogs,
whose frozen content is some `c` (`Kept(c)`). Of an untouched catalog the rows of
a chain are its first days (`RowsHonest`); of a touched one each row is such a
day or a forged one, one per day (`RowsPossible`). What a process has
verified is right in both cases (`ProofsRight`), because a proof is kept only
after recomputation; that is why reports are right even where the catalog was altered
afterwards, and why a process that meets a wrong row can only refuse.
`Behind` says that the days a worker counts on are there, so that in an untouched
catalog no worker is refused. `Linked` adds for completion that what a process
counts as published, and what a mark names, is linked in both forms.

The model was changed for these proofs in form only: the verification of a
chain and of the chains of a report are stated by the first failure in place of
a fold (`Judged`, `Together`), what a process starts or exports on a verification
became an operator (`StartOn`, `ExportOn`), `scan` and `KeepApart` take the rows as
a parameter, and the constants have a named assumption. The run reaches the same
states.

### Only model-checked

- Liveness (`EventuallyTerminal`, `EventuallySettled`) and anything that needs
  `ENABLED`: the provers have no rules for them.
- `FailedBreak` (`DetectorsAgree`, `LevelsStayInForce`, `SetupsSettle`) and, of
  `Validation`, the facts of the candles alone (`DaysMakeThePeriod`,
  `ForecastsAreCarried`, `EvidenceReconciles`). `FailedBreak` compares two
  recursions over the candles, and these facts are about folds over them: what
  they compute for every input needs induction over data, and the
  library's induction theorems take an operator as a parameter, which the
  installed provers cannot instantiate.

## 6. Not modelled, and the plan

Left out: the dashboard (views over the flows that are modelled), assessments
(deterministic, write once), accounting, the job-state projection and host
health (read-only), the parsers and the research evidence store (data, no
concurrency of their own), benchmarks and bootstrap statistics (arithmetic),
deployment, backup, infrastructure and configuration (outside the program).
Within `Validation`: the forward shadow, the opening-range strategies, the
comparison with reports of earlier batches and the audits; its macro overlay is
modelled but not in the instance. Actions of the program that no state of HEAD can take
(downgrades of interpretation contracts, prohibited entry points that only
refuse) are not actions of the models.

Simplifications that matter for reading the results: importing, opening and
hash-comparing a file is one step in `Validation`, where files are lost or
altered only while no process has them open, and one net cost stands for the
costs of one content; an assessment reads its samples and values in one query in
`Forecasts`; `LiveEvidence` follows one instrument.

What would come next: an abstract specification of a governed provider request
that `Acquisition` and `Discovery` both implement.
