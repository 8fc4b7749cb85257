------------------------------- MODULE PgStore -------------------------------
(***************************************************************************)
(* The store as production runs it: PostgresStore (gum-store/src/pg.rs).    *)
(* Each request is a session that works through the statements of a         *)
(* transaction at READ COMMITTED, while the other sessions work through      *)
(* theirs.                                                                  *)
(*                                                                          *)
(* The variables of GumStore are the committed database, which is what the  *)
(* statements of other transactions read.  A statement FOR UPDATE, or an    *)
(* update, takes the lock of its row and sees the row's latest committed    *)
(* version; a locked row makes it wait, or is left out under SKIP LOCKED.   *)
(* A transaction changes only rows it has locked or inserts itself, so its  *)
(* writes are applied together by its commit, which also frees its locks.   *)
(*                                                                          *)
(* One action here is a statement that waits for a lock or reads what       *)
(* another transaction may change, together with what follows it up to the  *)
(* next such statement.  A transaction that never waits with a lock others   *)
(* wait for in turn (a heartbeat, a recovery, the cancel of a queued run, an *)
(* enqueue) is one action.                                                  *)
(*                                                                          *)
(* The rows, the retry decision and the limits are GumStore's: pg.rs calls  *)
(* the same functions of queries.rs or says the same in SQL.                *)
(*                                                                          *)
(* Left out: the locks of the rows of function and provider health.  A       *)
(* completion takes them last, when it holds all the others it needs, so a  *)
(* wait for them ends; that it reads function_health before is modelled.    *)
(***************************************************************************)
EXTENDS GumStore

CONSTANT Sessions     \* requests in flight at a time

ASSUME SessionsAssumption == None \notin Sessions

VARIABLES
  tx,      \* [Sessions -> what the session's transaction knows and does next]
  locks    \* [Rows -> the session that holds the row, or None]

pgVars == <<jobs, runs, attempts, leases, runners, run_keys, function_health, tx, locks>>

RunnerRow(r) == <<"runner", r>>
TheRun(q) == <<"run", q>>
TheAttempt(a) == <<"attempt", a>>
TheLease(a) == <<"lease", a>>

Rows == {RunnerRow(r) : r \in Runners} \cup {TheRun(q) : q \in Runs}
        \cup {TheAttempt(a) : a \in Attempts} \cup {TheLease(a) : a \in Attempts}

Free(row) == locks[row] = None

Lock(s, rows) == locks' = [row \in Rows |-> IF row \in rows THEN s ELSE locks[row]]

\* step: the statement the session executes next; the other fields are the
\* local variables of its transaction.
NoTx == [step |-> "idle", runner |-> None, run |-> None, attempt |-> None,
         outcome |-> None, health |-> None, candidates |-> {}]

\* Commit, or an early return with nothing to commit: the locks are freed.
EndTx(s) ==
  /\ tx' = [tx EXCEPT ![s] = NoTx]
  /\ locks' = [row \in Rows |-> IF locks[row] = s THEN None ELSE locks[row]]

PgInit ==
  /\ Init
  /\ tx = [s \in Sessions |-> NoTx]
  /\ locks = [row \in Rows |-> None]

-------------------------------------------------------------------------------
(* Transactions of one action *)

PgDeploy == Deploy /\ UNCHANGED <<tx, locks>>

PgRegisterRunner(r) ==
  /\ Free(RunnerRow(r))
  /\ RegisterRunner(r)
  /\ UNCHANGED <<tx, locks>>

\* A runner executes one lease at a time and names it in its heartbeats.
PgHeartbeat(r) ==
  /\ Free(RunnerRow(r))
  /\ \/ HeartbeatRunner(r, {})
     \/ \E a \in LeasesOf(r) : Free(TheLease(a)) /\ HeartbeatRunner(r, {a})
  /\ UNCHANGED <<tx, locks>>

\* The advisory lock of a run key makes two enqueues of one key take turns.
PgEnqueue == Enqueue /\ UNCHANGED <<tx, locks>>

PgReplay == Replay /\ UNCHANGED <<tx, locks>>

\* Mutants of Recoverable: no SKIP LOCKED; FOR UPDATE OF runs alone.
RecoverableAny == LostAttempts

RecoverableByRun == {a \in LostAttempts : Free(TheRun(attempts[a].run))}

\* SELECT ... FOR UPDATE OF attempts, runs, leases SKIP LOCKED: the lost
\* attempts none of whose rows a transaction holds.
Recoverable ==
  {a \in LostAttempts : /\ Free(TheAttempt(a)) /\ Free(TheLease(a))
                        /\ Free(TheRun(attempts[a].run))}

Recover ==
  /\ runs' = RecoveredRuns(Recoverable)
  /\ attempts' = RecoveredAttempts(Recoverable)
  /\ leases' = RecoveredLeases(Recoverable)
  /\ UNCHANGED <<jobs, runners, run_keys, function_health>>

PgRecoverLostAttempts ==
  /\ Recoverable # {}
  /\ Recover
  /\ UNCHANGED <<tx, locks>>

\* Mutant of PgCancelQueuedRun: the run is read without FOR UPDATE.
PgCancelQueuedRunUnlocked(q) ==
  /\ CancelQueuedRun(q)
  /\ UNCHANGED <<tx, locks>>

\* pg.rs keeps the column retry_after, which nobody reads of a run not queued.
PgCancelQueuedRun(q) ==
  /\ Free(TheRun(q))
  /\ CancelQueuedRun(q)
  /\ UNCHANGED <<tx, locks>>

-------------------------------------------------------------------------------
(* A poll: a recovery transaction, then a lease transaction *)

LeasePoll(s, r) ==
  /\ tx[s].step = "idle"
  /\ runners[r].registered
  /\ Recover
  /\ tx' = [tx EXCEPT ![s] = [NoTx EXCEPT !.step = "select", !.runner = r]]
  /\ UNCHANGED locks

\* Mutant of Candidates: runs another transaction holds are not skipped.
CandidatesUnlocked ==
  {q \in Runs : Due(runs, q) /\ WithinConcurrency(runs, attempts, runs[q].job)}

\* The candidate query: due runs of jobs below their concurrency limit, counted
\* over committed attempts, except the runs another transaction holds.
Candidates ==
  {q \in Runs : /\ Due(runs, q)
                /\ WithinConcurrency(runs, attempts, runs[q].job)
                /\ Free(TheRun(q))}

HasRoom(r) ==
  Cardinality(RunningOnRunner(attempts, r)) < RunnerSpec[r].max_concurrent_leases

\* Mutant of LeaseSelect: the runner's row is read without FOR UPDATE.
LeaseSelectRunnerUnlocked(s) ==
  /\ tx[s].step = "select"
  /\ HasRoom(tx[s].runner) /\ Candidates # {}
  /\ tx' = [tx EXCEPT ![s].step = "pick", ![s].candidates = Candidates]
  /\ Lock(s, {TheRun(q) : q \in Candidates})
  /\ UNCHANGED vars

\* The runner's row is locked first, then its leases are counted, then every
\* candidate is locked, whichever of them the loop will pick.
LeaseSelect(s) ==
  LET r == tx[s].runner IN
  /\ tx[s].step = "select"
  /\ Free(RunnerRow(r))
  /\ HasRoom(r) /\ Candidates # {}
  /\ tx' = [tx EXCEPT ![s].step = "pick", ![s].candidates = Candidates]
  /\ Lock(s, {RunnerRow(r)} \cup {TheRun(q) : q \in Candidates})
  /\ UNCHANGED vars

LeaseNothing(s) ==
  LET r == tx[s].runner IN
  /\ tx[s].step = "select"
  /\ Free(RunnerRow(r))
  /\ HasRoom(r) => Candidates = {}
  /\ EndTx(s)
  /\ UNCHANGED vars

Pickable(s) ==
  {q \in tx[s].candidates : /\ Fits(runs, attempts, tx[s].runner, runs[q].job)
                            /\ WithinRateLimit(runs, attempts, runs[q].job)}

\* The oldest candidate the runner has the capacity for and no rate limit stops.
LeasePick(s) ==
  /\ tx[s].step = "pick"
  /\ \E q \in Pickable(s) :
       /\ \A other \in Pickable(s) : q <= other
       /\ tx' = [tx EXCEPT ![s].step = "start", ![s].run = q]
  /\ UNCHANGED <<vars, locks>>

LeasePickNothing(s) ==
  /\ tx[s].step = "pick"
  /\ Pickable(s) = {}
  /\ EndTx(s)
  /\ UNCHANGED vars

LeaseCommit(s, id) ==
  LET q == tx[s].run
      r == tx[s].runner
  IN
  /\ tx[s].step = "start"
  /\ IsNextId(attempts, id)
  /\ runs' = [runs EXCEPT ![q] = StartedRun(runs[q])]
  /\ attempts' = [attempts EXCEPT ![id] = StartedAttempt(runs[q], q, r)]
  /\ leases' = [leases EXCEPT ![id] = [state |-> "open", left |-> LeaseTtl,
                                       revoke_requested |-> FALSE]]
  /\ EndTx(s)
  /\ UNCHANGED <<jobs, runners, run_keys, function_health>>

-------------------------------------------------------------------------------
(* A completion: attempt, lease and run are locked in this order *)

\* Mutant of CompleteLockAttempt: the attempt is read without FOR UPDATE.
CompleteAttemptUnlocked(s, r, a, outcome) ==
  /\ tx[s].step = "idle"
  /\ attempts[a].status = "Running"
  /\ attempts[a].cancel_requested => outcome.status = "Canceled"
  /\ attempts[a].runner = r
  /\ tx' = [tx EXCEPT ![s] = [NoTx EXCEPT !.step = "complete_lease", !.runner = r,
                                          !.attempt = a, !.outcome = outcome]]
  /\ UNCHANGED <<vars, locks>>

CompleteLockAttempt(s, r, a, outcome) ==
  /\ tx[s].step = "idle"
  /\ Free(TheAttempt(a))
  /\ attempts[a].status = "Running"
  /\ attempts[a].cancel_requested => outcome.status = "Canceled"
  /\ attempts[a].runner = r
  /\ tx' = [tx EXCEPT ![s] = [NoTx EXCEPT !.step = "complete_lease", !.runner = r,
                                          !.attempt = a, !.outcome = outcome]]
  /\ Lock(s, {TheAttempt(a)})
  /\ UNCHANGED vars

LeaseValid(a) == leases[a].state = "open" /\ leases[a].left > 0

CompleteLockLease(s) ==
  LET a == tx[s].attempt IN
  /\ tx[s].step = "complete_lease"
  /\ Free(TheLease(a))
  /\ LeaseValid(a)
  /\ tx' = [tx EXCEPT ![s].step = "complete_run"]
  /\ Lock(s, {TheLease(a)})
  /\ UNCHANGED vars

CompleteRefused(s) ==
  LET a == tx[s].attempt IN
  /\ tx[s].step = "complete_lease"
  /\ Free(TheLease(a))
  /\ ~LeaseValid(a)
  /\ EndTx(s)
  /\ UNCHANGED vars

\* Then the function's health is read, without a lock, and its next value
\* computed.
CompleteLockRun(s) ==
  LET q == attempts[tx[s].attempt].run IN
  /\ tx[s].step = "complete_run"
  /\ Free(TheRun(q))
  /\ tx' = [tx EXCEPT
       ![s].step = "complete_commit", ![s].run = q,
       ![s].health = FunctionSignal(function_health[runs[q].job], tx[s].outcome)]
  /\ Lock(s, {TheRun(q)})
  /\ UNCHANGED vars

\* The health row is written back whatever the outcome was: a failure that says
\* nothing about the infrastructure writes what it read.
CompleteCommit(s) ==
  LET a == tx[s].attempt
      q == tx[s].run
      outcome == tx[s].outcome
  IN
  /\ tx[s].step = "complete_commit"
  /\ attempts' = [attempts EXCEPT ![a].status = outcome.status]
  /\ leases' = [leases EXCEPT ![a].state = "acked", ![a].left = 0]
  /\ function_health' = [function_health EXCEPT ![runs[q].job] = tx[s].health]
  /\ \E row \in RetryDisposition(runs[q], outcome, tx[s].health) :
       runs' = [runs EXCEPT ![q] = row]
  /\ EndTx(s)
  /\ UNCHANGED <<jobs, runners, run_keys>>

-------------------------------------------------------------------------------
(* The cancel of a running run: run, attempt and lease are locked in this order *)

\* Mutant of CancelLockRun: the run is read without FOR UPDATE.
CancelRunUnlocked(s, q) ==
  /\ tx[s].step = "idle"
  /\ runs[q].status = "Running"
  /\ tx' = [tx EXCEPT ![s] = [NoTx EXCEPT !.step = "cancel_attempt", !.run = q]]
  /\ UNCHANGED <<vars, locks>>

CancelLockRun(s, q) ==
  /\ tx[s].step = "idle"
  /\ Free(TheRun(q))
  /\ runs[q].status = "Running"
  /\ tx' = [tx EXCEPT ![s] = [NoTx EXCEPT !.step = "cancel_attempt", !.run = q]]
  /\ Lock(s, {TheRun(q)})
  /\ UNCHANGED vars

\* Mutant of CancelLockAttempt: the attempt is read without FOR UPDATE.
CancelAttemptUnlocked(s, a) ==
  /\ tx[s].step = "cancel_attempt"
  /\ attempts[a].status = "Running" /\ attempts[a].run = tx[s].run
  /\ tx' = [tx EXCEPT ![s].step = "cancel_commit", ![s].attempt = a]
  /\ UNCHANGED <<vars, locks>>

\* The running attempt of the run; "running attempt not found" without one.
CancelLockAttempt(s, a) ==
  /\ tx[s].step = "cancel_attempt"
  /\ attempts[a].status = "Running" /\ attempts[a].run = tx[s].run
  /\ Free(TheAttempt(a))
  /\ tx' = [tx EXCEPT ![s].step = "cancel_commit", ![s].attempt = a]
  /\ Lock(s, {TheAttempt(a)})
  /\ UNCHANGED vars

CancelCommit(s) ==
  LET a == tx[s].attempt IN
  /\ tx[s].step = "cancel_commit"
  /\ Free(TheLease(a))
  /\ attempts' = [attempts EXCEPT ![a].cancel_requested = TRUE]
  /\ leases' = [leases EXCEPT ![a].revoke_requested = TRUE]
  /\ EndTx(s)
  /\ UNCHANGED <<jobs, runs, runners, run_keys, function_health>>

\* The server rolls a transaction back: its client died or lost the connection,
\* or it is the victim PostgreSQL chose to break a deadlock.
Abort(s) ==
  /\ tx[s].step # "idle"
  /\ EndTx(s)
  /\ UNCHANGED vars

AgedHealth(health) == [health EXCEPT !.hold = Less(@)]

\* Time passes for the hold a completion has computed and not yet committed too.
PgTick ==
  /\ Tick
  /\ tx' = [s \in Sessions |-> IF tx[s].health = None THEN tx[s]
                               ELSE [tx[s] EXCEPT !.health = AgedHealth(@)]]
  /\ UNCHANGED locks

PgNext ==
  \/ PgDeploy \/ PgEnqueue \/ PgReplay \/ PgRecoverLostAttempts \/ PgTick
  \/ \E r \in Runners : PgRegisterRunner(r) \/ PgHeartbeat(r)
  \/ \E q \in Runs : PgCancelQueuedRun(q)
  \/ \E s \in Sessions :
       \/ \E r \in Runners : LeasePoll(s, r)
       \/ LeaseSelect(s) \/ LeaseNothing(s) \/ LeasePick(s) \/ LeasePickNothing(s)
       \/ \E id \in Attempts : LeaseCommit(s, id)
       \/ \E r \in Runners, a \in Attempts, outcome \in Outcomes :
            CompleteLockAttempt(s, r, a, outcome)
       \/ CompleteLockLease(s) \/ CompleteRefused(s)
       \/ CompleteLockRun(s) \/ CompleteCommit(s)
       \/ \E q \in Runs : CancelLockRun(s, q)
       \/ \E a \in Attempts : CancelLockAttempt(s, a)
       \/ CancelCommit(s)
       \/ Abort(s)

PgSpec == PgInit /\ [][PgNext]_pgVars

-------------------------------------------------------------------------------
(* Properties *)

TxSteps == {"idle", "select", "pick", "start", "complete_lease", "complete_run",
            "complete_commit", "cancel_attempt", "cancel_commit"}

Health == [failures : Nat, hold : 0 .. HoldDelay]

Tx == [step : TxSteps, runner : Runners \cup {None}, run : Runs \cup {None},
       attempt : Attempts \cup {None}, outcome : Outcomes \cup {None},
       health : Health \cup {None}, candidates : SUBSET Runs]

\* The database is well typed, and so is what each transaction remembers.
PgTypeOK ==
  /\ TypeOK
  /\ tx \in [Sessions -> Tx]
  /\ locks \in [Rows -> Sessions \cup {None}]

Leasing(s) == tx[s].step \in {"pick", "start"}
Completing(s) == tx[s].step \in {"complete_lease", "complete_run", "complete_commit"}
Canceling(s) == tx[s].step \in {"cancel_attempt", "cancel_commit"}

\* The runner a poll serves has room, and the runs it selected are queued.
LeaseReadsHold(s) ==
  Leasing(s) =>
    /\ locks[RunnerRow(tx[s].runner)] = s /\ HasRoom(tx[s].runner)
    /\ \A q \in tx[s].candidates : locks[TheRun(q)] = s /\ runs[q].status = "Queued"
    /\ tx[s].step = "start" => tx[s].run \in tx[s].candidates

\* The attempt a completion was accepted for is running, under an open lease, with
\* no cancel the completion did not see.
CompleteReadsHold(s) ==
  LET a == tx[s].attempt IN
  Completing(s) =>
    /\ locks[TheAttempt(a)] = s /\ attempts[a].status = "Running"
    /\ attempts[a].runner = tx[s].runner
    /\ attempts[a].cancel_requested => tx[s].outcome.status = "Canceled"
    /\ tx[s].step # "complete_lease" => locks[TheLease(a)] = s /\ leases[a].state = "open"
    /\ tx[s].step = "complete_commit" =>
         tx[s].run = attempts[a].run /\ locks[TheRun(tx[s].run)] = s

\* The run a cancel found running is running, and so is the attempt it found.
CancelReadsHold(s) ==
  LET a == tx[s].attempt
      q == tx[s].run
  IN
  Canceling(s) =>
    /\ locks[TheRun(q)] = s /\ runs[q].status = "Running"
    /\ tx[s].step = "cancel_commit" =>
         /\ locks[TheAttempt(a)] = s
         /\ attempts[a].status = "Running" /\ attempts[a].run = q

\* What a transaction read under its locks still holds when it commits; every
\* commit of pg.rs writes on the strength of such a read.
LockedReadsHold ==
  \A s \in Sessions : LeaseReadsHold(s) /\ CompleteReadsHold(s) /\ CancelReadsHold(s)

\* The next statement of session s waits for a row session t holds.
WaitsFor(s, t) ==
  /\ s # t
  /\ \/ tx[s].step = "select" /\ locks[RunnerRow(tx[s].runner)] = t
     \/ tx[s].step \in {"complete_lease", "cancel_commit"} /\ locks[TheLease(tx[s].attempt)] = t
     \/ tx[s].step = "complete_run" /\ locks[TheRun(attempts[tx[s].attempt].run)] = t
     \/ /\ tx[s].step = "cancel_attempt"
        /\ \E a \in Attempts : /\ attempts[a].status = "Running" /\ attempts[a].run = tx[s].run
                               /\ locks[TheAttempt(a)] = t

\* Of the polls, completions and cancels in flight, the only one waited for
\* while it waits itself is one of a completion and a cancel of the same run
\* that wait for each other: no other set of requests can deadlock.  (A
\* heartbeat waits for its lease holding the runner's row, which only polls and
\* heartbeats wait for, holding nothing.)
OnlyCancelDeadlocks ==
  \A s, t, u \in Sessions : WaitsFor(s, t) /\ WaitsFor(t, u) =>
    /\ u = s
    /\ \E c \in {s, t} : \E d \in {s, t} \ {c} :
         /\ tx[c].step = "complete_run" /\ tx[d].step = "cancel_attempt"
         /\ attempts[tx[c].attempt].run = tx[d].run

\* A runner never holds more running attempts than its max_concurrent_leases:
\* polls of one runner are serialized by the lock of its row.
RunnerWithinLeases ==
  \A r \in Runners :
    Cardinality(RunningOnRunner(attempts, r)) <= RunnerSpec[r].max_concurrent_leases

\* docs-site/knobs/concurrency.mdx: "At most five runs of `process_event` may be
\* active at once."  Two polls count the running attempts of the job before
\* either commits its own, so the code does not keep it.
ActiveWithinConcurrency ==
  \A j \in Jobs : jobs[j] # None /\ jobs[j].concurrency_limit # None =>
    Cardinality(RunningOfJob(runs, attempts, j)) <= jobs[j].concurrency_limit

\* docs/GUM_FUNCTION_HEALTH.md, on an infrastructure failure: "increment
\* consecutive failures".  The row is read without a lock and written from what
\* was read, so of two completions of a job at a time one is not counted.
FailuresCounted ==
  [][\A s \in Sessions :
       /\ tx[s].step = "complete_commit" /\ tx'[s].step = "idle"
       /\ attempts[tx[s].attempt].status # attempts'[tx[s].attempt].status
       /\ tx[s].outcome.class = "infra"
       => LET j == runs[tx[s].run].job IN
          function_health'[j].failures = function_health[j].failures + 1]_pgVars

===============================================================================
