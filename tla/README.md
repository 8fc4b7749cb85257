# A verification of Gum in TLA+

Gum runs background jobs written in Python. A deploy registers jobs; enqueues,
schedules and replays create *runs*; runner processes poll for work, execute
one *attempt* of a run under a *lease* they renew by heartbeats, and report how
it ended; a scheduler process recovers attempts whose runner died. This
directory models that machinery in TLA+, model-checks it with TLC on small
instances, and proves its main invariants with TLAPS for every instance.

Paths below are relative to the repository; `crates/...` are its Rust crates.

## 1. Inventory of the system

| Part | Code | State it keeps | Operations |
|---|---|---|---|
| Job store | `crates/gum-store` (`memory.rs`, `pg.rs`, `queries.rs`, `models.rs`) | jobs, deploys, runs, attempts, leases, runners, run keys, function health, provider targets / health, control leases, logs | the `GumStore` trait: register_deploy, enqueue_run, replay_run, register_runner, heartbeat_runner, lease_next_attempt, complete_attempt, cancel_run, recover_lost_attempts, tick_schedules, try_acquire_control_lease, set_*_health, append_log, reads |
| API server | `crates/gum-api` | none of its own (a store and a secret store) | one `service.rs` function per request; some read the store first and then change it in a second transaction |
| Runner | `crates/gum-runner` | the lease it executes, the child process, a cache of Python environments on disk | register, poll, execute, heartbeat loop, cancel-poll loop, append logs, complete; prepare runtimes when idle |
| Scheduler | `crates/gum-scheduler` | leader id | every few seconds: take the control lease, recover lost attempts, create scheduled runs, probe providers |
| Secret store | `crates/gum-api/src/secret_store.rs` | encrypted values | put, list, delete, resolve |
| Admin UI, SDK, CLI, website | `crates/gum-admin`, `sdk/gum`, `website` | none shared | read the API, or call it |

All processes meet in the store, and only there. A runner and the scheduler
learn of each other through deadlines: `leases.expires_at`,
`runners.last_heartbeat_at`, `runs.retry_after`, `function_health.hold_until`.
There are two implementations of the trait. `MemoryStore` (tests, local
development) does each operation under one mutex. `PostgresStore` (what
`gum-api/src/app_state.rs` starts) does each as one or more transactions at the
database's default isolation, READ COMMITTED.

What is hard here, part by part (every item with its line is in
`PROJECT.json`, `hazards`):

- **Store.** A completion, a cancel, a heartbeat and a recovery of the same
  attempt arrive in any order. Leases expire at an instant both sides compare
  with the clock. One poll recovers and re-leases the same run. Redeploys change
  the policy of jobs that are running. Correct means: each run's attempts are
  numbered and within its budget, one attempt runs at a time, only the live
  holder of the lease decides the outcome, a final status is final, a cancel is
  not lost, limits hold when an attempt starts, lost attempts are recovered.
- **PostgreSQL store.** Counts read at READ COMMITTED before an insert, row locks
  taken in different orders, advisory locks around run keys.
- **Runner.** Work that goes on after the lease is lost, a report that fails after
  the work is done, log appends between the two.
- **Scheduler.** A leader whose lease expires in the middle of a tick, catch-up
  inserts interrupted by a crash, one run per fire time.
- **Runtime cache and preparation.** Builds interrupted half-way, lock files
  considered stale, collection of environments in use, late reports.
- **Provider health.** Read, wait for HTTP, write back.

## 2. Modules

| Module | What it models |
|---|---|
| `RunLifecycle` | What the store promises about each run: its state diagram, its budget, final means final. No tables, no leases. |
| `GumStore` | The store: all tables that decide what runs, and every operation on them, from `memory.rs`. |
| `PgStore` | The store as production runs it, from `pg.rs`: each request a transaction of several statements that interleave with those of the others, with row locks. EXTENDS `GumStore`. |
| `ControlLease` | The table `control_leases` and its one operation. EXTENDED by the two modules whose processes take such leases. |
| `Scheduler` | The scheduler processes, `tick_schedules` statement by statement, and the fire times of a schedule expression. EXTENDS `ControlLease`. |
| `GumSystem` | The composition of the store with the runner processes: EXTENDS `GumStore`, and each of its store operations is a request of some process. |
| `ProviderHealth` | The health row of a provider, written by probe rounds of schedulers and by completions. |
| `RuntimePrepare` | The statuses of a deploy, the preparation leases, and the cache of Python environments that the processes of a machine share. EXTENDS `ControlLease`. |
| `MCGumStore`, `MCPgStore`, `MCScheduler`, `MCGumSystem`, `MCRuntimePrepare` | Values for the constants of the module each is named after. `MCProviderHealth` adds model values only. |
| `GumStoreProofs`, `PgStoreProofs`, `SchedulerProofs`, `GumSystemProofs`, `ProviderHealthProofs`, `RuntimePrepareProofs` | The theorems about each module and their proofs. |
| `GumStoreLimitProofs` | The theorems about the limits and recovery of `GumStore`. EXTENDS `GumStoreProofs`, as does `PgStoreProofs`; EXTENDED by `GumSystemProofs`. |
| `SetSums` | Lemmas about `MapThenSumSet`, with which the store adds up cpus. |

### How `GumStore` corresponds to the code

| TLA+ | Code |
|---|---|
| `jobs`, `runs`, `attempts`, `leases`, `runners`, `run_keys`, `function_health` | the maps of `MemoryState` (`memory.rs:33`), with the columns an operation reads |
| `RegisterDeploy`, `EnqueueRun`, `ReplayRun`, `RegisterRunner`, `HeartbeatRunner` | the functions of the same name |
| `LeaseNextAttempt` | `lease_next_attempt`: recovery, then the checks of the poll in the order of the code, then the inserts |
| `RecoverLostAttempts` | `recover_lost_attempts`, called by the scheduler loop |
| `MayComplete`, `CompleteAttempt` | the four refusals and the effects of `complete_attempt`, with `compute_retry_disposition` and the function-health signal |
| `CancelQueuedRun`, `CancelRunningRun` | the two branches of `cancel_run` |
| `Tick` | the clock |

Each operation of `MemoryStore` holds the mutex of the whole state from its first
line to its last, so each is one action. The lease of an attempt is inserted with
it and never replaced, so `leases` is indexed by the attempt.

**Time.** The code stores deadlines and compares them with the clock. The model
stores the time *left* before each deadline, clipped at zero; `Tick` takes one
unit from all of them. `expires_at <= now` is `left = 0`. This keeps time
unbounded in a finite state space and keeps the boundary case exact: at zero,
recovery takes the attempt and completion refuses it.

**Data left out**, because no operation of the module decides anything by it:
names, inputs, failure texts, display timestamps, provider health (written by
`complete_attempt`, read by the probes and the status pages), `memory_mb` (the
check of `cpu_cores` on a second column), deploy ids, `jobs.enabled` (never set to
false by the code). Failure classes are the three the store tells apart. The
order in which a poll looks at due runs is not fixed by the code (a `HashMap`), so
`LeaseNextAttempt` may pick any of them.

### How `PgStore` corresponds to the code

The variables of `GumStore` are the committed database. `tx[s]` is what the
transaction of session `s` knows (its local variables) and the statement it
executes next; `locks` says which session holds the lock of each runner, run,
attempt and lease row.

| TLA+ | Code (`pg.rs`) |
|---|---|
| `LeasePoll` | the recovery transaction `lease_next_attempt` starts with |
| `LeaseSelect`, `LeaseNothing` | the lock of the runner's row, the count of its leases, the candidate query with `SKIP LOCKED` |
| `LeasePick`, `LeasePickNothing` | the loop over the candidates: class, cpu, rate limit |
| `LeaseCommit` | the writes and the commit |
| `CompleteLockAttempt`, `CompleteLockLease`, `CompleteRefused`, `CompleteLockRun`, `CompleteCommit` | `complete_attempt`: the three `FOR UPDATE` reads in their order, the health read, the writes and the commit |
| `CancelLockRun`, `CancelLockAttempt`, `CancelCommit`, `PgCancelQueuedRun` | `cancel_run`, running and queued |
| `PgRecoverLostAttempts`, `Recoverable` | `recover_lost_attempts` and its `SKIP LOCKED` query |
| `PgHeartbeat`, `PgRegisterRunner`, `PgDeploy`, `PgEnqueue`, `PgReplay` | the functions of the same name |
| `Abort` | a rollback by the server: lost client, or victim of a deadlock |

What one action is. PostgreSQL shows a statement the rows committed when it
starts, and a row it locks in its latest committed version. So an action begins
with a statement that waits for a lock or reads what another transaction may
change, and goes on to the next such statement. Writes of a transaction are
seen by others when it commits, and all of them are to rows it has locked or
inserts, so they are applied together by its last action. The transactions that
take their locks without anything held that another would wait for in turn
(recovery, the cancel of a queued run, enqueue, replay) are one action; so is a
heartbeat, which waits for one lease holding the row of its runner. The lock of
the health rows is left out: a completion takes it last. The time between the
snapshot of a statement and its row locks is not modelled: PostgreSQL checks a
row that changed in between again.

Differences from `memory.rs` that decide nothing are not repeated: candidates
come in order of creation (modelled), a heartbeat that names a foreign lease is
rolled back (a runner names its own), `retry_after` of a canceled run is kept
(nobody reads it).

### How `Scheduler` corresponds to the code

| TLA+ | Code |
|---|---|
| `Start`, `ReadClock`, `BecomeLeader`, `StayFollower`, `EndTick`, `Exit` | the loop of `gum-scheduler/src/main.rs`: one clock value per round, the lease, the errors that end the process |
| `LoadJobs`, `NextJob`, `InsertRun`, `TickFails` | `tick_schedules` of `pg.rs`: the read of the scheduled jobs, for each the read of its latest fire time, one INSERT per fire time, each committed on its own |
| `Inserted` | `ON CONFLICT DO NOTHING` on the unique index of migration 0002 |
| `CronField`, `Matches`, `NoMatchAfter`, `DueTimes`, `ScheduleError` | `queries.rs`: the cron fields, the rule for two restricted day fields, the bounded search, `recurring_due_times_ms` |
| `RegisterDeploy` | the upsert of a job by `register_deploy`, which may change the schedule |
| `MayAcquire`, `Acquire` (`ControlLease`) | `try_acquire_control_lease` |

A round uses the clock value it read at its top to the end and no statement
looks at the lease again, so two leaders do overlap: the property is that this
does no harm. A time of the model is one slot of the schedule (a minute of a cron
expression); the local time of a slot is the constant `Calendar`, so a time zone
is a parameter. `scheduled[j][t]` counts the runs of job `j` with fire time `t`.

### How `GumSystem` corresponds to the code

| TLA+ | Code |
|---|---|
| `Start`, `PollLeases`, `PollFindsNothing`, `Rest` | `register_once`, `lease_once`, `heartbeat_once` of `gum-runner/src/main.rs` |
| `PollOrphans` | `lease_run` of `service.rs` fails in a lookup after the lease was committed, or its reply is lost |
| `SetupFails`, `Spawn`, `SeeExit`, `TimesOut`, `ObeyCancel`, `Kill` | `execute_leased_run_inner` and `kill_child` of `execution.rs` |
| `Judged` | the end of `execute_leased_run_inner`: what an exit, and output that cannot be read, is reported as |
| `BusyHeartbeat`, `SeeCancel` | the tasks `heartbeat_loop` and `cancel_poll_loop`, which run beside the handler |
| `ReportAccepted`, `ReportRefused` | `complete_once`; an error ends the process |
| `Crash` | a crash, or an error while appending a log |
| `HandlerEnds` | the Python process, which lives on when its runner dies |

Every other action of `GumStore` (deploy, enqueue, replay, cancel, recovery, time)
happens as it does there. `Procs` may share a `runner_id`, as processes started
with the default `runner_dev` do.

### How `ProviderHealth` corresponds to the code

| TLA+ | Code |
|---|---|
| `ReadClock`, `ReadHealth`, `ProbeDue`, `Answered`, `WriteProbe` | a round of `run_provider_probes`: the clock of the loop, the read of targets and rows, `probe_due`, the HTTP request, the write |
| `Complete`, `ReadSignal`, `WriteSignal` | the provider signal of `complete_attempt`: clock, read without a lock, write of the whole row |
| `AfterProbe`, `AfterSignal`, `Worse`, `Better` | `next_health_params` and `apply_provider_signal_tx` |
| `UpsertTarget` | an operator changes or disables the target |
| `ProviderChanges`, `Tick` | the provider; the clock |

### How `RuntimePrepare` corresponds to the code

| TLA+ | Code |
|---|---|
| `RequestPrepare`, `FindWarming`, `LeasePrepare`, `LeaseHeld`, `Report` | `request_`, `lease_` and `complete_runtime_prepare` of `service.rs` |
| `LeaseRun` | an attempt of a run of the deploy, which resolves the same environment |
| `CheckCache`, `Recheck` | the two lookups of `resolve_runtime_python_fields`, without and with the lock |
| `TakeLock`, `FindStale`, `RemoveStale`, `GiveUp` | `acquire_runtime_build_lock` |
| `CreateVenv`, `Install`, `BuildFails`, `BuildTimesOut` | the two commands of a build, and the removal of the directory when one fails or times out |
| `LeftCommandEnds` | a command that timed out, or whose process crashed, is not killed: what it still does |
| `Crash` | the end of a process: no guard is dropped, no directory removed |

`FindStale` and `RemoveStale` are two actions, because the code removes the file
that is there *by then*. Time does not pass a command's timeout while it runs
(`Overdue`), as the code bounds each command.

## 3. What the runs check

| Run | Checks | Bounds | Why they are enough |
|---|---|---|---|
| `store_safety` | the type invariant, six safety invariants, `FinalIsForever`, and the refinement `RunsFollowLifecycle` | 1 job, 2 runners, 2 runs of 2 attempts each (4 attempts), deadlines of one tick | two runs and two runners give every race of holder and former holder, and a run beside the one disturbed; budgets of two give both ends of each retry decision; a deadline has passed or not |
| `store_limits` | `StartsWithinLimits`; `LostIsRecovered` (liveness) | 2 jobs, 2 policies, 2 runners of different size and class, 2 runs, 2 attempts, a rate window of one tick | two jobs share a pool, and each limit (concurrency, leases, cpu, rate) is the binding one for some pair; recovery is about one attempt and its runner, and there is another of each beside it |
| `store_cancel` | `NoRetryAfterCancel`, expected to fail | as `store_safety` | see findings |
| `pg_safety` | the row-based invariants of `GumStore` again, `LockedReadsHold`, `RunnerWithinLeases`, finality, the refinement | 1 job, 2 runners, 2 sessions, 2 runs, 2 attempts | every pair of transactions meets at every statement; recoveries, heartbeats, queued cancels and expiries happen beside the pair |
| `pg_deadlock` | `OnlyCancelDeadlocks` | 3 sessions, 1 run of 2 attempts, 2 runners, 1 key, a start per window | a chain of waits needs three; all rows of one run meet |
| `pg_concurrency` | `ActiveWithinConcurrency`, expected to fail | 2 sessions, 2 runs of a job with concurrency 1 | see findings |
| `pg_health` | `FailuresCounted`, expected to fail | as `pg_safety` | see findings |
| `scheduler` | types, `LeadersExclude`, `NoFireTimeSkipped`, `OldScheduleEnds`, `IntervalKeepsPhase`, `TickLeavesNothingDue`; `DueIsMaterialized` (liveness) | 2 processes with a pid each, 1 job, 3 schedules (a cron with two restricted day fields, an interval, one that never matches), deploys and 1 exit up to time 2, lease term 3, so 6 clock values | two leaders overlap in each pair of statements, one of them with a clock value of an earlier term; the calendar of three-day weeks and four-day months has days that match by either field and by none; a catch-up has several fire times. 79 012 states |
| `system` | types, `FinishedHandlersAreDead`, `OverlapOnlyAfterLoss`, `RecordsTellTheTruth`; `OrphansAreRecovered`, `RunsSettle` (liveness) | 2 processes with one `runner_id`, 1 run of 2 attempts, 1 unexplained end of a process, deadlines of one tick | the two attempts of the run may both have live handlers; a process may be lost before, during and after each request. 122 188 states |
| `provider` | types; `OutageIsNoticed`, `RecoveryIsNoticed` (liveness) | 1 prober, 1 completion, interval 1, lag up to 1, threshold 3, greatest score 4 (3 and 10 in the code) | every pair of a read and a stale write; the score reaches the threshold, passes it and is clamped. 501 849 states |
| `runtime_builds` | types, `BuildersExclude`, `PartialIsBuilding` | 2 processes with a `runner_id` each, 1 deploy, `InstallTimeout` 1, `LockStale` 2, clock to 5, 1 crash, 1 timeout | the tightest lock the assumption allows (`2 * InstallTimeout = LockStale`); time for two builds and a wait. 2 217 902 states |
| `runtime` | `ReadyIsPrepared`, expected to fail | as `runtime_builds` with slower timeouts | see findings |

Every run but `runtime` leaves deadlock checking on: something can always happen.
In `runtime`, which ends at its first violation, time is bounded. Every property
has a mutant in `PROJECT.json`: a plausible bug in one definition (before it in
its module, with a comment) under which TLC finds the property violated.

What the properties say:

- `AttemptsNumbered`: attempts of a run are 1 .. `attempt_count`, no gap, no repeat,
  within the budget fixed at creation.
- `RunningHasOneAttempt`: a run is Running exactly while one attempt, its latest,
  is: nothing to cancel is ever "running attempt not found", nothing stuck.
- `LeaseIffRunning`: a live lease exactly for each running attempt.
- `SuccessIsFinal`, `OutcomeFromLatest`: only the holder of the live lease decides,
  and what it says is what the run becomes.
- `CancelBeatsCompletion`: after a cancel was recorded only Canceled is accepted.
- `FinalIsForever`: no step changes a finished run.
- `StartsWithinLimits`: an attempt starts on a runner of the class its job asks for, and
  exceeds no limit, counting the recoveries of the same poll.
- `LostIsRecovered`: see fairness.
- `LockedReadsHold`: whatever a PostgreSQL transaction read under its locks is
  still so when it commits; every write of `pg.rs` rests on such a read.
- `RunnerWithinLeases`: two polls in the name of one runner cannot both take its
  last slot, because the first locks the runner's row.
- `OnlyCancelDeadlocks`: of polls, completions and cancels the only wait cycle is a
  completion (attempt, lease, run) against a cancel (run, attempt, lease) of the
  same run. That one does occur in the model; PostgreSQL then aborts one.
- `RunsFollowLifecycle`: the store implements `RunLifecycle` under the mapping of
  status, `attempt_count` and `max_attempts`.
- `NoFireTimeSkipped`: the next catch-up starts from the latest run, so a fire time
  that a crash, an older leader or a redeploy left out before a later one would be
  lost for ever. (That a fire time has no two runs is the unique index, `Inserted`.)
- `OldScheduleEnds`: no run is scheduled for a time after a deploy that the schedule now
  in force does not call for. Ticks go on with jobs they loaded before the deploy; it
  holds because they compute with the clock value they read before that.
- `IntervalKeepsPhase`: the runs of an interval stay at multiples of it from the
  job's creation, whoever inserts them.
- `TickLeavesNothingDue`: a tick that gets through its list of jobs leaves no fire time
  of a cron schedule in force without its run, up to the clock value it works with,
  although another tick moves the base it computed from, or a deploy the schedule.
- `LeadersExclude`: where no two processes are given the same `leader_id`, no two are
  within the term of the lease they tick under. Beyond it they do overlap. The id is a
  pid, which containers may share; the property then fails (a process of the same id
  renews the row with an older clock value and so shortens the other's term), which is
  why the run gives distinct ids. The other safety properties do not need that.
- `DueIsMaterialized`: a fire time that is due gets its run, although processes end,
  unless a schedule that never matches stops every tick.
- `FinishedHandlersAreDead`, `OverlapOnlyAfterLoss`: a handler is dead before its
  attempt is reported, and two handlers of a run are alive together only after the
  store gave one up: never because of a retry, a slow report or a second process of
  the same name.
- `RecordsTellTheTruth`: what is recorded of an attempt is what happened to its
  handler.
- `OrphansAreRecovered`, `RunsSettle`: a lease nobody works under is recovered, though
  the runner it names goes on sending heartbeats; every run ends.
- `OutageIsNoticed`, `RecoveryIsNoticed`: updates are lost, and a lasting outage is
  reported Down nevertheless, a lasting recovery Healthy.
- `BuildersExclude`, `PartialIsBuilding`: until a process crashes, no lock of a living
  builder is taken for stale and one builds at a time; until a crash or a timeout,
  no failure leaves an environment that a lookup would take for prepared. The guard
  `crashes = 0` is needed: after a crash two waiters may find the same lock stale
  and the slower one remove the lock of the faster (`execution.rs:607-610`); without
  the guard TLC shows it.

**Fairness.** The store's `FairSpec` (for `LostIsRecovered`): weak fairness of
`RecoverLostAttempts`, because `gum-scheduler/src/main.rs:31` loops for ever and
every poll of any runner recovers too; weak fairness of `Tick`, because time
passes. Nothing is assumed of runners: they may die, and the property is about
that. `Scheduler`'s `FairSpec`: weak fairness of `Start` (a scheduler that ended
is started again; the repository has no supervisor, so this is an assumption
about its deployment), of the steps of the loop, and of the clock. `SystemFairness`:
the same of time, recovery, `Start`, the steps of a process that is up, with
strong fairness of a poll that finds a run (a poll may find nothing each time the
other process has the run, and still a runner that polls for ever leases a run
that is due again and again); nothing of crashes, heartbeats, lost replies or the
handler, which may run for ever until its timeout. `ProviderHealth`'s: the loop of
the prober goes on, a completion begun ends, time passes; that there are any
completions is not assumed.

**Findings.**

- `store_cancel`. `recover_lost_attempts_locked` (and its PostgreSQL twin) requeues
  the run of a lost attempt whenever budget is left, without looking at
  `cancel_requested_at`. A run canceled while it executes is therefore executed
  again if its runner dies before it acknowledges the cancel.
  `docs/GUM_EXECUTION_SEMANTICS.md:404-410` says "no later retry should proceed
  after terminal cancel".
- `pg_concurrency`. The candidate query counts the running attempts of a job and
  locks the candidates and the row of the polling runner only. Two runners that
  poll at a time both count before either inserts, and pick different runs of the
  job: `concurrency=1` runs two at once. `docs-site/knobs/concurrency.mdx:14` says
  "At most five runs of `process_event` may be active at once." The memory store
  keeps the limit (`StartsWithinLimits`, run `store_limits`). The rate-limit count
  has the same shape, against `docs-site/knobs/rate-limits.mdx:16` ("This function may
  start at most 20 runs per minute."): the same race on another count. How far either can go is proved (`ConcurrencyMissBounded`,
  `RateMissBounded`): with n polls in progress, n - 1 beyond the limit.
- `pg_health`. `apply_function_signal_tx` reads `function_health` without a lock and
  writes it back: two infrastructure failures committed at a time are counted
  once. `docs/GUM_FUNCTION_HEALTH.md:321` says "increment consecutive failures".
- `runtime`. `resolve_runtime_python_fields` takes the existence of `bin/python` for a
  complete environment (`execution.rs:502`), but the environment is created by one
  command and filled by the next. A process that ends in between leaves a python
  without dependencies; the next preparation is a hit, and the deploy becomes
  `ready`, which `docs/GUM_ARCHITECTURE.md:285-286` tells from a deploy whose "cached
  runtime is not ready yet". A command that times out does the same: it is not
  killed, and may create the environment after it was removed. That it takes one of
  the two is `PartialIsBuilding`. A lookup without the lock also hits while another
  process is still installing; that one is not counted by the property.

## 4. What is proved

`GumStoreProofs` proves, for every value of the constants that satisfies the
assumptions named in `GumStore` (`BoundsAssumption`, `NoneAssumption`,
`JobSpecsAssumption`, `RunnerSpecAssumption`: sizes are natural numbers, deadlines
and pools at least one, policies have the shape a deploy gives them):

- `TypeCorrect`: `Spec => []TypeOK`.
- `InvariantCorrect`: `Spec => []IInv`, the inductive invariant, and from it the six
  safety invariants of `store_safety`, each as a theorem named after it.
- `FinalIsForeverCorrect`: the action property.
- `RunsFollowLifecycleCorrect`: the store implements `RunLifecycle`.

The argument. None of the six invariants is inductive alone: that a completion
decides the run rests on the attempt being the latest, which rests on numbering,
which rests on there being one running attempt, which rests on open leases.
`IInv` is `TypeOK /\ JobsKnown /\ Consistent(runs, attempts, leases)`, and `Consistent` is the
conjunction of named parts (`AttemptsLinked`, `BudgetsKept`, `NumbersInRange`,
`NumbersUnique`, `NumbersWithoutGap`, `RunningIsLatest`, `RunningHasAttempt`,
`OpenIffRunning`, `SuccessDecides`, `LatestDecides`, `CancelDecides`). It is stated
over *given* tables, not over the variables, because a poll applies two changes in
one step: `RecoveryConsistent` shows that the tables recovery leaves are
consistent, `StartConsistent` that starting an attempt from any consistent tables
keeps them so, and `InvariantStep` composes them for `LeaseNextAttempt`. The
refinement is proved row by row: `RowStepIsLifecycleStep` turns each operation's
effect on one run into a step, or a stutter, of the life cycle.

`GumStoreLimitProofs`, from the same assumptions:

- `StartsWithinLimitsCorrect`: an attempt starts on a runner of its job's class (that of
  the policy in force, after any redeploy), and exceeds no limit, for
  any number of jobs, runners and limits;
- `UnheldIsLost`, `RecoveryTakesAll`: every running attempt whose lease expired or whose
  runner is silent is one that recovery takes, and a pass takes them all. With
  fairness, which the prover does not reach, these make `LostIsRecovered`.

The argument. A poll checks its limits against tables that its own recovery has
just changed, so the counts after the start must be those of the check plus one
(`StartJoins`, `PollCounts`). That needs more than `IInv`: `CountIInv` adds that every
run's job has a policy, that an attempt not yet used counts in no window, and that
a running attempt's runner has a row. Attempts, leases and starts are counted with
the library's lemmas on cardinality. Cpus are a sum, and `MapThenSumSet` is defined by a
recursive function on subsets; what such a function returns is usually shown by
induction. `SetSums` goes around it: the sum is the number of elements of a set that
has w[x] units for each x, and two functions that satisfy the recursive equation
are equal, since they cannot differ first on any subset (`OneSolution`).

`PgStoreProofs` proves, from the same assumptions and `SessionsAssumption` (`None` is
no session), for any number of sessions that interleave:

- `PgTypeCorrect`, `LockedReadsHoldCorrect`, `RunnerWithinLeasesCorrect` and
  `OnlyCancelDeadlocksCorrect`;
- `PgAttemptsNumberedCorrect`, `PgRunningHasOneAttemptCorrect`,
  `PgSuccessIsFinalCorrect`, `PgCancelBeatsCompletionCorrect`,
  `PgFinalIsForeverCorrect`: what holds of the mutex-protected store holds of the
  production one;
- `PgRunsFollowLifecycleCorrect`: it implements `RunLifecycle` as well.

The argument. `PgStore` does not implement `GumStore` (its polls count before they
insert; see findings), so nothing can be carried over by refinement. Instead
`TableStep` names the four changes a commit can make to the tables (an operation
of `GumStore`, a recovery of any subset of the lost attempts, a start, a
completion with any health), and `TableStepKeeps` shows that each keeps `IInv` and
the life cycle. That a commit *is* such a change rests on what its transaction read
earlier: `SessionOK(s)` says that this still holds (the three `...ReadsHold`), that
its variables are set (`TxKnows`), and that the locks it holds are exactly those
its step explains (`LocksExplained`). `PgIInv` is `IInv` with `SessionOK` of every
session and `RunnerWithinLeases`. Each action has one lemma (`...Keeps`) for the
session that takes it; for all the others `SessionKept` shows, once, that a session
none of whose locked rows are written keeps its part. The proof of
`OnlyCancelDeadlocks` reads the lock order off `LocksExplained`.

For a finite set of n sessions it also bounds what its findings can do, which no
run checks:

- `ConcurrencyMissBounded`: if every policy has a concurrency limit, of at most m, no
  job has more than m + n - 1 attempts running. With one session the limit holds.
- `RateMissBounded`: if every policy draws on one pool, with a limit of at most m,
  no more than m + n - 1 attempts start within a window.

The running attempts alone cannot be bounded inductively: several polls may be
about to commit. `RaceIInv` counts the running attempts of a job together with the
polls that hold a candidate of it. A commit turns one of these into the other, and
a poll is added to the count only when what it counts, committed attempts, is below
the limit; by then at most n - 1 other polls are counted.

`SchedulerProofs`, for any number of processes and jobs, any leader ids, schedules,
calendar and lease term (`SchedulerAssumption`, `HolderIdsAssumption`,
`SchedulesAssumption`, `NoneIsNoHolder`): `TypeCorrect`,
`SchedulesWithoutGap`, `RedeploysEndSchedules`, `IntervalsKeepPhase`,
`TicksLeaveNothingDue`, and, if no two processes may get the same leader id
(`DistinctHolders`), `OneLeaderAtATime`. The gap-freedom is the hard one: a process inserts with fire times it computed from a job and a latest run it read
earlier. The invariant `SchedulerInvariant` says what of this still holds
(`TodoHolds`: or the job was deployed again after the process read its clock, and
then its inserts are not after the deploy), and that of the fire times in force
every one before a time still to be inserted has its run or is to be inserted by
the same process (`DueComplete`).

`IntervalsKeepPhase` is about jobs that are deployed once. Its invariant `PhaseIInv` says
exactly what a catch-up still has to insert (`DueInPhase`): fire times at whole
intervals from the job's creation, each with the one before it either run or still
to be inserted. The step that computes them starts from the latest run, which is in
phase itself, so the proof needs that sums and differences of multiples of the
interval are such multiples. `TicksLeaveNothingDue` follows from `CoverIInv`: each fire
time up to the clock value of a tick has its run, or its job is still to come, or
the tick is about to insert it (`TickCovers`). A deploy in the middle does not break
this, since the fire times it puts in force are later than any clock value read.
`RedeploysEndSchedules` is the other side of it: what a process still has to insert for
a time after the last deploy the schedule in force calls for (`DueInForce`), since a
job read before that deploy gives no fire time after it.

`GumSystemProofs`, for any number of processes, also of one `runner_id`
(`ProcsAssumption` and those of `GumStore`): `SystemImplementsStore`, every step of the
system is a step of `GumStore` or leaves the tables alone, so that the theorems
about the store hold of the system; and from it and `SystemInvariant`:
`SystemTypeCorrect`, `HandlersDieFirst`, `OverlapNeedsLoss`, `RecordsAreTrue`,
`SystemStartsWithinLimits`, and `OrphansRunOut`: the lease of an attempt nobody works
under is renewed by none of the processes that share its `runner_id`, and every tick
takes from it; the safety part of `OrphansAreRecovered`. The
invariant ties each process to the lease it works under: a lease may be released
or expire at any time, so what a process knows is only that nobody else reports
its attempt.

`ProviderHealthProofs` (`ProviderAssumption`): `HealthTypeCorrect`, for every threshold
and score limit: the state and the score of a row agree, whoever wrote it and
whatever it was computed from. `OutageStays` and `RecoveryStays` are the safety parts of
the two liveness properties: an outage, or its end, once settled stays what the row
says, whatever stale rows are written back, as long as the provider does not change.
Settled means of an outage (`OutageSettled`) that the row is Down and that no round
under way saw a success or writes from a row more than one failure away from Down;
of a recovery (`RecoverySettled`), that no round under way saw a failure.

`RuntimePrepareProofs` (`RuntimeAssumption` and `LockOutlastsBuild`:
`2 * InstallTimeout <= LockStale`, as with the defaults of 300 and 900 seconds; both
are environment variables, and the code does not check this):
`RuntimeTypeCorrect`, `BuildersAreAlone`, `PartialIsBeingBuilt`, for any number of
processes. Exclusion is not inductive: a waiter removes a lock it finds old enough,
so the invariant (`LockIsHeld`) bounds the age of the lock by how far its holder has
come (`LockIsYoung`), and that by the timeouts of its commands; then no lock is
stale (`NoLockIsStale`).

Only model-checked: liveness (`LostIsRecovered`, `DueIsMaterialized`,
`OrphansAreRecovered`, `RunsSettle`, `OutageIsNoticed`, `RecoveryIsNoticed`), which needs
fairness and ENABLED and so is beyond this prover. Every invariant and every action
property of a passing run is a theorem; the properties of the other runs do not hold.

## 5. Plan

What is left, in order of importance:

1. **Run keys in `PgStore`**: the statements of `enqueue_run` under its advisory lock,
   one by one (they are one action now), against concurrent enqueues.
2. **Collection of old environments**, which may remove one that an attempt has just
   looked up.
3. **The statements of `register_deploy`** one by one, against polls and ticks that
   read the jobs meanwhile.
4. **The backoff table** as an operator (`Backoffs` is a set of delays now).

## 6. Not modelled

The admin UI, SDK, CLI and website share no state with the rest; the secret store
is one table read once per lease (a read that fails is `PollOrphans`); HTTP, JSON
and key checks keep no state; `gum-queue` has types no other crate uses. Of the
modelled parts are left out: rows of logs and of provider checks, which nothing
decides by (`append_log` failing is a `Crash` of `GumSystem`); `degraded_score` of a
provider; the pipes of a handler's descendants (`execution.rs:227`); files that two
commands mix up in one environment after both have run to their end.
