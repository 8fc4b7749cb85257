------------------------------- MODULE GumStore -------------------------------
(***************************************************************************)
(* The job store of Gum: the tables every process of the platform shares   *)
(* (jobs, runs, attempts, leases, runners, run keys, function health) and   *)
(* the operations of the GumStore trait that change them.  The definitions  *)
(* are those of MemoryStore (gum-store/src/memory.rs), where each operation *)
(* holds the one Mutex from its first line to its last: every action below  *)
(* is therefore one whole operation, internal recovery pass included.       *)
(*                                                                          *)
(* Time.  The code stores deadlines (expires_at, retry_after, hold_until)   *)
(* and compares them with the clock.  Here each deadline is the time that   *)
(* is left before it, clipped at zero, and Tick takes one unit from all of  *)
(* them: "expires_at <= now" is "left = 0".  Time is thus unbounded.        *)
(*                                                                          *)
(* Left out: columns no operation of this module reads (names, inputs,      *)
(* failure texts, timestamps kept for display), provider health (written by *)
(* CompleteAttempt and read by none of these operations), memory_mb (the    *)
(* same check as cpu_cores on a second column) and recurring schedules.     *)
(***************************************************************************)
EXTENDS Integers, FiniteSets, FiniteSetsExt

CONSTANTS
  Jobs,              \* job ids a bundle may declare
  Runners,           \* runner ids
  Keys,              \* values of a job's dedupe key
  MaxRuns,           \* bound: rows of the runs table
  MaxAttempts,       \* bound: rows of the attempts table
  JobSpecs,          \* policies a deploy may give a job
  RunnerSpec,        \* the configuration each runner process sends
  LeaseTtl,          \* lease_ttl_secs
  HeartbeatTimeout,  \* heartbeat_timeout_secs
  KeyRetention,      \* key_retention_ms()
  HoldDelay,         \* function_health_hold_delay_ms()
  WindowTicks,       \* for how long a start counts against a rate limit (window_ms)
  Delays,            \* delays an enqueue may ask for; 0 is no delay
  Backoffs,          \* values of retry_backoff_delay_ms
  DegradedAfter,     \* consecutive failures before a function is held
  None               \* the absent optional value

Runs == 1 .. MaxRuns
Attempts == 1 .. MaxAttempts

ASSUME BoundsAssumption ==
  /\ MaxRuns \in Nat /\ MaxAttempts \in Nat
  /\ LeaseTtl \in Nat \ {0} /\ HeartbeatTimeout \in Nat \ {0}
  /\ KeyRetention \in Nat \ {0} /\ HoldDelay \in Nat \ {0}
  /\ WindowTicks \in Nat /\ DegradedAfter \in Nat \ {0}
  /\ Delays \subseteq Nat /\ Backoffs \subseteq Nat \ {0}

ASSUME NoneAssumption ==
  None \notin Jobs \cup Runners \cup Keys \cup JobSpecs \cup Nat

ASSUME JobSpecsAssumption ==
  \A spec \in JobSpecs :
    /\ spec.retries \in Nat
    /\ spec.concurrency_limit \in Nat \cup {None}
    /\ spec.cpu_cores \in Nat
    /\ spec.rate_limit # None => spec.rate_limit.limit \in Nat \ {0}

ASSUME RunnerSpecAssumption ==
  \A r \in Runners : /\ RunnerSpec[r].max_concurrent_leases \in Nat
                     /\ RunnerSpec[r].cpu_cores \in Nat

VARIABLES
  jobs,             \* [Jobs -> policy of the latest deploy, or None]
  runs,             \* [Runs -> row]
  attempts,         \* [Attempts -> row]
  leases,           \* [Attempts -> the lease inserted with that attempt]
  runners,          \* [Runners -> registration and heartbeat deadline]
  run_keys,         \* [Jobs \X Keys -> the run a key resolves to, and for how long]
  function_health   \* [Jobs -> consecutive infra failures and hold]

vars == <<jobs, runs, attempts, leases, runners, run_keys, function_health>>

-------------------------------------------------------------------------------
(* Rows *)

TerminalStatus == {"Succeeded", "Failed", "TimedOut", "Canceled"}
RunStatus == {"none", "Queued", "Running"} \cup TerminalStatus
AttemptStatus == {"none", "Running"} \cup TerminalStatus

NoRun == [status |-> "none", job |-> None, attempt_count |-> 0,
          max_attempts |-> 0, retry_after |-> 0]

NoAttempt == [status |-> "none", run |-> None, number |-> 0, runner |-> None,
              cancel_requested |-> FALSE, window |-> 0]

\* acked_at and released_at of a lease as one field: neither set ("open"), both
\* set by a completion ("acked"), released_at alone set by recovery ("released").
\* The expires_at of a lease that is not open is read by nobody: left is then 0.
NoLease == [state |-> "none", left |-> 0, revoke_requested |-> FALSE]

\* A row of the runs table as enqueue, replay and the scheduler insert it.
QueuedRun(job, maxAttempts, delay) ==
  [status |-> "Queued", job |-> job, attempt_count |-> 0,
   max_attempts |-> maxAttempts, retry_after |-> delay]

\* next_id: ids are handed out in order and never reused.
IsNextId(table, id) ==
  /\ table[id].status = "none"
  /\ \A other \in DOMAIN table : other < id => table[other].status # "none"

Init ==
  /\ jobs = [j \in Jobs |-> None]
  /\ runs = [r \in Runs |-> NoRun]
  /\ attempts = [a \in Attempts |-> NoAttempt]
  /\ leases = [a \in Attempts |-> NoLease]
  /\ runners = [r \in Runners |-> [registered |-> FALSE, heartbeat |-> 0]]
  /\ run_keys = [jk \in Jobs \X Keys |-> [run |-> None, left |-> 0]]
  /\ function_health = [j \in Jobs |-> [failures |-> 0, hold |-> 0]]

-------------------------------------------------------------------------------
(* Deploys, runners, enqueue, replay *)

\* A deploy upserts the jobs of its bundle: the policy of each is overwritten,
\* whatever runs of the job are queued or running.
RegisterDeploy(bundle, spec) ==
  /\ jobs' = [j \in Jobs |-> IF j \in bundle THEN spec[j] ELSE jobs[j]]
  /\ UNCHANGED <<runs, attempts, leases, runners, run_keys, function_health>>

UpsertRunner(r) ==
  runners' = [runners EXCEPT ![r] = [registered |-> TRUE,
                                     heartbeat |-> HeartbeatTimeout]]

RegisterRunner(r) ==
  /\ UpsertRunner(r)
  /\ UNCHANGED <<jobs, runs, attempts, leases, run_keys, function_health>>

\* Mutant of HeartbeatRunner: adds to the deadline instead of resetting it.
HeartbeatRunnerAdds(r, active) ==
  /\ UpsertRunner(r)
  /\ leases' = [a \in Attempts |->
                  IF a \in active /\ leases[a].state = "open"
                  THEN [leases[a] EXCEPT !.left = @ + LeaseTtl]
                  ELSE leases[a]]
  /\ UNCHANGED <<jobs, runs, attempts, run_keys, function_health>>

\* A heartbeat upserts the runner and renews the leases it lists, which are its
\* own; one already released is skipped, one that expired but was not yet
\* recovered is renewed like any other.
HeartbeatRunner(r, active) ==
  /\ UpsertRunner(r)
  /\ leases' = [a \in Attempts |->
                  IF a \in active /\ leases[a].state = "open"
                  THEN [leases[a] EXCEPT !.left = LeaseTtl]
                  ELSE leases[a]]
  /\ UNCHANGED <<jobs, runs, attempts, run_keys, function_health>>

InsertRun(id, row) ==
  /\ IsNextId(runs, id)
  /\ runs' = [runs EXCEPT ![id] = row]

EnqueueRun(id, job, key, delay) ==
  /\ jobs[job] # None
  /\ key # None => run_keys[<<job, key>>].left = 0
  /\ InsertRun(id, QueuedRun(job, jobs[job].retries + 1, delay))
  /\ IF key = None
     THEN UNCHANGED run_keys
     ELSE run_keys' = [run_keys EXCEPT ![<<job, key>>] = [run |-> id, left |-> KeyRetention]]
  /\ UNCHANGED <<jobs, attempts, leases, runners, function_health>>

\* A replay copies the policy stored in the source run, whatever its status.
ReplayRun(id, source) ==
  /\ runs[source].status # "none"
  /\ InsertRun(id, QueuedRun(runs[source].job, runs[source].max_attempts, 0))
  /\ UNCHANGED <<jobs, attempts, leases, runners, run_keys, function_health>>

-------------------------------------------------------------------------------
(* Recovery of lost attempts.  It also runs inside the lease operation, so   *)
(* its effect is given as new tables, not as primed variables.               *)

\* Mutant of LostAttempts: trusts heartbeats and ignores the lease deadline.
LostAttemptsByHeartbeat ==
  {a \in Attempts :
     /\ attempts[a].status = "Running"
     /\ leases[a].state = "open"
     /\ runners[attempts[a].runner].registered
     /\ runners[attempts[a].runner].heartbeat = 0}

\* Attempts whose lease is open and either expired or held by a runner whose
\* heartbeats stopped; a runner without a row is never stale.
LostAttempts ==
  {a \in Attempts :
     /\ attempts[a].status = "Running"
     /\ leases[a].state = "open"
     /\ \/ leases[a].left = 0
        \/ /\ runners[attempts[a].runner].registered
           /\ runners[attempts[a].runner].heartbeat = 0}

RecoveredAttempts(lost) ==
  [a \in Attempts |-> IF a \in lost THEN [attempts[a] EXCEPT !.status = "Failed"]
                                    ELSE attempts[a]]

\* Mutant of RecoveredLeases: forgets to release.
RecoveredLeasesKept(lost) == leases

RecoveredLeases(lost) ==
  [a \in Attempts |-> IF a \in lost THEN [leases[a] EXCEPT !.state = "released", !.left = 0]
                                    ELSE leases[a]]

\* Mutants of RecoveredRun: a lost attempt is not charged to the budget; the
\* budget is not looked at.
RecoveredRunRefunds(row) ==
  [row EXCEPT !.status = "Queued", !.retry_after = 0, !.attempt_count = @ - 1]

RecoveredRunAlways(row) == [row EXCEPT !.status = "Queued", !.retry_after = 0]

\* The run goes back to the queue, immediately due, while attempts are left.
RecoveredRun(row) ==
  IF row.attempt_count < row.max_attempts
  THEN [row EXCEPT !.status = "Queued", !.retry_after = 0]
  ELSE [row EXCEPT !.status = "Failed", !.retry_after = 0]

RecoveredRuns(lost) ==
  [r \in Runs |-> IF \E a \in lost : attempts[a].run = r THEN RecoveredRun(runs[r])
                                                         ELSE runs[r]]

RecoverLostAttempts ==
  /\ LostAttempts # {}
  /\ runs' = RecoveredRuns(LostAttempts)
  /\ attempts' = RecoveredAttempts(LostAttempts)
  /\ leases' = RecoveredLeases(LostAttempts)
  /\ UNCHANGED <<jobs, runners, run_keys, function_health>>

-------------------------------------------------------------------------------
(* Leasing the next attempt, over given runs and attempts tables *)

RunningAttempts(ats) == {a \in Attempts : ats[a].status = "Running"}

RunningOnRunner(ats, r) == {a \in RunningAttempts(ats) : ats[a].runner = r}

RunningOfJob(rs, ats, job) == {a \in RunningAttempts(ats) : rs[ats[a].run].job = job}

CpuInUse(rs, ats, r) ==
  MapThenSumSet(LAMBDA a : jobs[rs[ats[a].run].job].cpu_cores, RunningOnRunner(ats, r))

\* The jobs whose attempts a limit counts: those naming the same pool, or the
\* job alone when its limit names no pool.
RateLimitScope(job) ==
  LET pool == jobs[job].rate_limit.pool IN
  IF pool = None
  THEN {job}
  ELSE {j \in Jobs : /\ jobs[j] # None
                     /\ jobs[j].rate_limit # None
                     /\ jobs[j].rate_limit.pool = pool}

\* Attempts, finished or not, that started within the window.
RecentStarts(rs, ats, scope) ==
  {a \in Attempts : ats[a].window > 0 /\ rs[ats[a].run].job \in scope}

Due(rs, q) ==
  /\ rs[q].status = "Queued"
  /\ rs[q].retry_after = 0
  /\ function_health[rs[q].job].hold = 0

Fits(rs, ats, r, job) ==
  /\ jobs[job].compute_class \in {None, RunnerSpec[r].compute_class}
  /\ CpuInUse(rs, ats, r) + jobs[job].cpu_cores <= RunnerSpec[r].cpu_cores

\* Mutant of WithinConcurrency: off by one.
WithinConcurrencyInclusive(rs, ats, job) ==
  jobs[job].concurrency_limit # None =>
    Cardinality(RunningOfJob(rs, ats, job)) <= jobs[job].concurrency_limit

WithinConcurrency(rs, ats, job) ==
  jobs[job].concurrency_limit # None =>
    Cardinality(RunningOfJob(rs, ats, job)) < jobs[job].concurrency_limit

WithinRateLimit(rs, ats, job) ==
  jobs[job].rate_limit # None =>
    Cardinality(RecentStarts(rs, ats, RateLimitScope(job))) < jobs[job].rate_limit.limit

Leasable(rs, ats, r, q) ==
  /\ Due(rs, q)
  /\ Fits(rs, ats, r, rs[q].job)
  /\ WithinConcurrency(rs, ats, rs[q].job)
  /\ WithinRateLimit(rs, ats, rs[q].job)

StartedRun(row) ==
  [row EXCEPT !.status = "Running", !.attempt_count = @ + 1, !.retry_after = 0]

StartedAttempt(row, q, r) ==
  [status |-> "Running", run |-> q, number |-> row.attempt_count + 1, runner |-> r,
   cancel_requested |-> FALSE, window |-> WindowTicks]

\* The runner r polls: lost attempts are recovered first, then r, if registered
\* and not full, gets any one run it may start.  (A poll that starts nothing
\* does what RecoverLostAttempts does.)
LeaseNextAttempt(r, q, id) ==
  LET rs == RecoveredRuns(LostAttempts)
      ats == RecoveredAttempts(LostAttempts)
      ls == RecoveredLeases(LostAttempts)
  IN
  /\ runners[r].registered
  /\ Cardinality(RunningOnRunner(ats, r)) < RunnerSpec[r].max_concurrent_leases
  /\ Leasable(rs, ats, r, q)
  /\ IsNextId(attempts, id)
  /\ runs' = [rs EXCEPT ![q] = StartedRun(rs[q])]
  /\ attempts' = [ats EXCEPT ![id] = StartedAttempt(rs[q], q, r)]
  /\ leases' = [ls EXCEPT ![id] = [state |-> "open", left |-> LeaseTtl,
                                   revoke_requested |-> FALSE]]
  /\ UNCHANGED <<jobs, runners, run_keys, function_health>>

-------------------------------------------------------------------------------
(* Completion, with the retry decision and the function-health signal *)

\* What a runner reports.  The failure classes the store tells apart: "fatal"
\* (user_code_error, provider_auth_error), "infra" (provider_timeout,
\* provider_connect_error, provider_5xx, provider_429) and "other".
Outcomes ==
  {[status |-> "Succeeded", class |-> None], [status |-> "Canceled", class |-> None],
   [status |-> "TimedOut", class |-> "other"]}
  \cup {[status |-> "Failed", class |-> c] : c \in {"fatal", "infra", "other"}}

IsHeld(health) == health.failures >= DegradedAfter

FunctionSignal(health, outcome) ==
  LET counted == health.failures + 1 IN
  IF outcome.status = "Succeeded" THEN [failures |-> 0, hold |-> 0]
  ELSE IF outcome.class # "infra" THEN health
  ELSE [failures |-> counted,
        hold |-> IF counted >= DegradedAfter THEN HoldDelay ELSE 0]

\* Mutant of RetryDisposition: every unsuccessful end is recorded as Failed.
RetryDispositionFailed(row, outcome, health) ==
  {[row EXCEPT !.retry_after = 0,
      !.status = IF outcome.status \in {"Succeeded", "Canceled"}
                 THEN outcome.status ELSE "Failed"]}

\* The rows the run may get: final, held until the function's hold passes, or
\* queued behind a backoff.
RetryDisposition(row, outcome, health) ==
  IF \/ outcome.status \in {"Succeeded", "Canceled"}
     \/ row.attempt_count >= row.max_attempts
     \/ outcome.class = "fatal"
  THEN {[row EXCEPT !.status = outcome.status, !.retry_after = 0]}
  ELSE {[row EXCEPT !.status = "Queued", !.retry_after = delay] :
          delay \in IF outcome.class = "infra" /\ IsHeld(health)
                    THEN {health.hold} ELSE Backoffs}

\* Mutants of MayComplete: fenced by the runner's name alone; deaf to cancels.
MayCompleteUnfenced(r, a, outcome) ==
  /\ attempts[a].status # "none"
  /\ attempts[a].cancel_requested => outcome.status = "Canceled"
  /\ attempts[a].runner = r

MayCompleteCanceled(r, a, outcome) ==
  /\ attempts[a].status = "Running"
  /\ attempts[a].runner = r
  /\ leases[a].state = "open" /\ leases[a].left > 0

\* The guards in the order of the code's errors: "attempt already finished",
\* "attempt cancel requested", "runner mismatch", "attempt lease no longer valid".
MayComplete(r, a, outcome) ==
  /\ attempts[a].status = "Running"
  /\ attempts[a].cancel_requested => outcome.status = "Canceled"
  /\ attempts[a].runner = r
  /\ leases[a].state = "open" /\ leases[a].left > 0

CompleteAttempt(r, a, outcome) ==
  LET q == attempts[a].run
      health == FunctionSignal(function_health[runs[q].job], outcome)
  IN
  /\ MayComplete(r, a, outcome)
  /\ attempts' = [attempts EXCEPT ![a].status = outcome.status]
  /\ leases' = [leases EXCEPT ![a].state = "acked", ![a].left = 0]
  /\ function_health' = [function_health EXCEPT ![runs[q].job] = health]
  /\ \E row \in RetryDisposition(runs[q], outcome, health) :
       runs' = [runs EXCEPT ![q] = row]
  /\ UNCHANGED <<jobs, runners, run_keys>>

-------------------------------------------------------------------------------
(* Cancellation, and the passing of time *)

\* Mutant of CancelQueuedRun: cancels whatever is not running.
CancelQueuedRunAny(q) ==
  /\ runs[q].status \notin {"none", "Running"}
  /\ runs' = [runs EXCEPT ![q].status = "Canceled", ![q].retry_after = 0]
  /\ UNCHANGED <<jobs, attempts, leases, runners, run_keys, function_health>>

CancelQueuedRun(q) ==
  /\ runs[q].status = "Queued"
  /\ runs' = [runs EXCEPT ![q].status = "Canceled", ![q].retry_after = 0]
  /\ UNCHANGED <<jobs, attempts, leases, runners, run_keys, function_health>>

\* Mutant of CancelRunningRun: finalizes the run without waiting for its runner.
CancelRunningRunNow(q, a) ==
  /\ runs[q].status = "Running"
  /\ attempts[a].status = "Running" /\ attempts[a].run = q
  /\ runs' = [runs EXCEPT ![q].status = "Canceled"]
  /\ attempts' = [attempts EXCEPT ![a].cancel_requested = TRUE]
  /\ leases' = [leases EXCEPT ![a].revoke_requested = TRUE]
  /\ UNCHANGED <<jobs, runners, run_keys, function_health>>

CancelRunningRun(q, a) ==
  /\ runs[q].status = "Running"
  /\ attempts[a].status = "Running" /\ attempts[a].run = q
  /\ attempts' = [attempts EXCEPT ![a].cancel_requested = TRUE]
  /\ leases' = [leases EXCEPT ![a].revoke_requested = TRUE]
  /\ UNCHANGED <<jobs, runs, runners, run_keys, function_health>>

CancelRun(q) == CancelQueuedRun(q) \/ \E a \in Attempts : CancelRunningRun(q, a)

Less(n) == IF n = 0 THEN 0 ELSE n - 1

Tick ==
  /\ runs' = [q \in Runs |-> [runs[q] EXCEPT !.retry_after = Less(@)]]
  /\ attempts' = [a \in Attempts |-> [attempts[a] EXCEPT !.window = Less(@)]]
  /\ leases' = [a \in Attempts |-> [leases[a] EXCEPT !.left = Less(@)]]
  /\ runners' = [r \in Runners |-> [runners[r] EXCEPT !.heartbeat = Less(@)]]
  /\ run_keys' = [jk \in Jobs \X Keys |-> [run_keys[jk] EXCEPT !.left = Less(@)]]
  /\ function_health' = [j \in Jobs |-> [function_health[j] EXCEPT !.hold = Less(@)]]
  /\ UNCHANGED jobs

-------------------------------------------------------------------------------

LeasesOf(r) == {a \in Attempts : attempts[a].runner = r}

Deploy == \E bundle \in SUBSET Jobs \ {{}} :
            \E spec \in [bundle -> JobSpecs] : RegisterDeploy(bundle, spec)

Enqueue == \E id \in Runs, job \in Jobs, key \in Keys \cup {None}, delay \in Delays :
             EnqueueRun(id, job, key, delay)

Replay == \E id, source \in Runs : ReplayRun(id, source)

Heartbeat(r) == \E active \in SUBSET LeasesOf(r) : HeartbeatRunner(r, active)

Lease(r) == \E q \in Runs, id \in Attempts : LeaseNextAttempt(r, q, id)

Complete(r) == \E a \in Attempts, outcome \in Outcomes : CompleteAttempt(r, a, outcome)

Next ==
  \/ Deploy
  \/ Enqueue
  \/ Replay
  \/ \E r \in Runners :
       RegisterRunner(r) \/ Heartbeat(r) \/ Lease(r) \/ Complete(r)
  \/ \E q \in Runs : CancelRun(q)
  \/ RecoverLostAttempts
  \/ Tick

Spec == Init /\ [][Next]_vars

\* The scheduler recovers lost attempts every few seconds, and time passes.
FairSpec == Spec /\ WF_vars(RecoverLostAttempts) /\ WF_vars(Tick)

-------------------------------------------------------------------------------
(* Properties *)

RunRow == [status : RunStatus, job : Jobs \cup {None}, attempt_count : Nat,
           max_attempts : Nat, retry_after : Nat]

AttemptRow == [status : AttemptStatus, run : Runs \cup {None}, number : Nat,
               runner : Runners \cup {None}, cancel_requested : BOOLEAN,
               window : 0 .. WindowTicks]

LeaseRow == [state : {"none", "open", "acked", "released"}, left : 0 .. LeaseTtl,
             revoke_requested : BOOLEAN]

\* Every table holds rows of its type and no deadline lies further ahead than
\* the operation that sets it allows (expires_at, last_heartbeat_at, hold_until).
TypeOK ==
  /\ jobs \in [Jobs -> JobSpecs \cup {None}]
  /\ runs \in [Runs -> RunRow]
  /\ attempts \in [Attempts -> AttemptRow]
  /\ leases \in [Attempts -> LeaseRow]
  /\ runners \in [Runners -> [registered : BOOLEAN, heartbeat : 0 .. HeartbeatTimeout]]
  /\ run_keys \in [Jobs \X Keys -> [run : Runs \cup {None}, left : 0 .. KeyRetention]]
  /\ function_health \in [Jobs -> [failures : Nat, hold : 0 .. HoldDelay]]

\* The attempts of a run are numbered 1 .. attempt_count without gap or repeat,
\* and never exceed the budget fixed when the run was created, whatever mix of
\* completions, recoveries, cancels and redeploys produced them
\* (complete_attempt, recover_lost_attempts_locked, lease_next_attempt).
AttemptsNumbered ==
  /\ \A a \in Attempts : attempts[a].status # "none" =>
       /\ runs[attempts[a].run].status # "none"
       /\ attempts[a].number \in 1 .. runs[attempts[a].run].attempt_count
       /\ \A b \in Attempts : b # a /\ attempts[b].status # "none" =>
            attempts[b].run # attempts[a].run \/ attempts[b].number # attempts[a].number
  /\ \A q \in Runs :
       /\ runs[q].attempt_count <= runs[q].max_attempts
       /\ \A n \in 1 .. runs[q].attempt_count :
            \E a \in Attempts : attempts[a].run = q /\ attempts[a].number = n

LatestAttempt(a) == attempts[a].number = runs[attempts[a].run].attempt_count

\* A run that is Running has exactly one running attempt, its latest; a run in
\* any other status has none: no operation leaves a run stuck in Running with
\* nothing to recover, or an attempt executing for a run that moved on.
RunningHasOneAttempt ==
  /\ \A a \in Attempts : attempts[a].status = "Running" =>
       runs[attempts[a].run].status = "Running" /\ LatestAttempt(a)
  /\ \A q \in Runs : runs[q].status = "Running" =>
       \E a \in Attempts : attempts[a].status = "Running" /\ attempts[a].run = q

\* An attempt has a live lease exactly while it is running: no finished attempt
\* keeps one, and no running attempt loses the one recovery looks for.
LeaseIffRunning ==
  \A a \in Attempts : leases[a].state = "open" <=> attempts[a].status = "Running"

\* Only the holder of a live lease decides a run: a success is the success of
\* the latest attempt and ends the run; it is never followed by another
\* attempt, a requeue or a recovery, and an attempt whose lease recovery took
\* back never counts as anything but a failure.
SuccessIsFinal ==
  \A a \in Attempts :
    /\ attempts[a].status = "Succeeded" =>
         runs[attempts[a].run].status = "Succeeded" /\ LatestAttempt(a)
    /\ leases[a].state = "released" => attempts[a].status = "Failed"

\* The final status of a run is the status of its latest attempt; only a run
\* canceled in the queue ends without an attempt having said so.
OutcomeFromLatest ==
  \A q \in Runs : runs[q].status \in {"Succeeded", "Failed", "TimedOut"} =>
    \E a \in Attempts : /\ attempts[a].run = q /\ LatestAttempt(a)
                        /\ attempts[a].status = runs[q].status

\* Cancel racing completion: once a cancel was recorded on a running attempt,
\* its runner can commit nothing but Canceled.
CancelBeatsCompletion ==
  \A a \in Attempts : attempts[a].cancel_requested /\ leases[a].state = "acked" =>
    attempts[a].status = "Canceled" /\ runs[attempts[a].run].status = "Canceled"

\* What the documentation says of a canceled run (docs/GUM_EXECUTION_SEMANTICS.md,
\* "no later retry should proceed"): after a cancel was accepted for a running
\* attempt, its run gets no further attempt.  Recovery does not look at
\* cancel_requested_at, so the code does not keep it.
NoRetryAfterCancel ==
  \A a, b \in Attempts :
    attempts[a].cancel_requested /\ attempts[b].run = attempts[a].run =>
      attempts[b].number <= attempts[a].number

\* A run in a final status is never changed again by any operation, late
\* completions, recoveries, cancels and replays of it included.
FinalIsForever ==
  [][\A q \in Runs : runs[q].status \in TerminalStatus => runs'[q] = runs[q]]_vars

\* When an attempt starts, its runner is of the class the job asks for, the
\* running attempts of its job are at most the job's concurrency_limit, those of
\* its runner at most max_concurrent_leases and at most its cpus, and the starts
\* of the window in the scope of its rate limit at most that limit, all counting
\* the new attempt and the recoveries of the same poll.  (A redeploy may lower a
\* limit below what already runs.)
StartsWithinLimits ==
  [][\A a \in Attempts :
       attempts[a].status = "none" /\ attempts'[a].status = "Running" =>
         LET r == attempts'[a].runner
             job == runs'[attempts'[a].run].job
             limit == jobs[job].concurrency_limit
             rate == jobs[job].rate_limit
         IN
         /\ jobs[job].compute_class \in {None, RunnerSpec[r].compute_class}
         /\ limit # None => Cardinality(RunningOfJob(runs', attempts', job)) <= limit
         /\ Cardinality(RunningOnRunner(attempts', r)) <= RunnerSpec[r].max_concurrent_leases
         /\ CpuInUse(runs', attempts', r) <= RunnerSpec[r].cpu_cores
         /\ rate # None =>
              Cardinality(RecentStarts(runs', attempts', RateLimitScope(job))) <= rate.limit]_vars

Unheld(a) ==
  /\ attempts[a].status = "Running"
  /\ leases[a].left = 0 \/ runners[attempts[a].runner].heartbeat = 0

\* An attempt whose lease expired, or whose runner stopped its heartbeats, does
\* not stay running and unheld for ever: its runner is heard of again or the
\* attempt is recovered (recover_lost_attempts, called by every scheduler loop).
LostIsRecovered == \A a \in Attempts : Unheld(a) ~> ~Unheld(a)

Lifecycle == INSTANCE RunLifecycle WITH
  Run <- Runs,
  status <- [q \in Runs |-> runs[q].status],
  tries <- [q \in Runs |-> runs[q].attempt_count],
  budget <- [q \in Runs |-> runs[q].max_attempts]

\* The store implements the life cycle of a run: no sequence of operations
\* moves a run along an edge the diagram does not have, starts it without
\* charging its budget, or changes its budget.
RunsFollowLifecycle == Lifecycle!LifecycleSpec

===============================================================================
