----------------------------- MODULE PgStoreProofs -----------------------------
(* Theorems about the PostgreSQL store, for any number of sessions, runs,      *)
(* attempts and runners.                                                       *)
EXTENDS PgStore, GumStoreProofs, FiniteSetTheorems

\* The locks a session holds are those its step and its variables say: a
\* transaction takes its locks in the order of the code and keeps them to its end.
LocksExplained(s) ==
  /\ \A r \in Runners : locks[RunnerRow(r)] = s => Leasing(s) /\ r = tx[s].runner
  /\ \A q \in Runs : locks[TheRun(q)] = s =>
       \/ Leasing(s) /\ q \in tx[s].candidates
       \/ (tx[s].step = "complete_commit" \/ Canceling(s)) /\ q = tx[s].run
  /\ \A a \in Attempts : locks[TheAttempt(a)] = s =>
       (Completing(s) \/ tx[s].step = "cancel_commit") /\ a = tx[s].attempt
  /\ \A a \in Attempts : locks[TheLease(a)] = s =>
       tx[s].step \in {"complete_run", "complete_commit"} /\ a = tx[s].attempt

\* The variables a step of a transaction reads have been set.
TxKnows(s) ==
  /\ tx[s].step \in {"select", "pick", "start"} => tx[s].runner \in Runners
  /\ tx[s].step = "start" => tx[s].run \in Runs
  /\ Completing(s) => tx[s].attempt \in Attempts /\ tx[s].outcome \in Outcomes
  /\ tx[s].step = "complete_commit" => tx[s].run \in Runs /\ tx[s].health \in Health
  /\ Canceling(s) => tx[s].run \in Runs
  /\ tx[s].step = "cancel_commit" => tx[s].attempt \in Attempts

SessionOK(s) ==
  /\ TxKnows(s)
  /\ LeaseReadsHold(s) /\ CompleteReadsHold(s) /\ CancelReadsHold(s)
  /\ LocksExplained(s)

PgIInv ==
  /\ PgTypeOK
  /\ IInv
  /\ \A s \in Sessions : SessionOK(s)
  /\ RunnerWithinLeases

-------------------------------------------------------------------------------
(* Rows and locks *)

\* Rows of different tables, or of different keys, are different.
LEMMA RowsDiffer ==
  /\ \A r \in Runners : RunnerRow(r) \in Rows
  /\ \A q \in Runs : TheRun(q) \in Rows
  /\ \A a \in Attempts : TheAttempt(a) \in Rows /\ TheLease(a) \in Rows
  /\ \A x, y : /\ RunnerRow(x) = RunnerRow(y) => x = y
               /\ TheRun(x) = TheRun(y) => x = y
               /\ TheAttempt(x) = TheAttempt(y) => x = y
               /\ TheLease(x) = TheLease(y) => x = y
               /\ RunnerRow(x) # TheRun(y) /\ RunnerRow(x) # TheAttempt(y)
               /\ RunnerRow(x) # TheLease(y) /\ TheRun(x) # TheAttempt(y)
               /\ TheRun(x) # TheLease(y) /\ TheAttempt(x) # TheLease(y)
BY DEF Rows, RunnerRow, TheRun, TheAttempt, TheLease

\* A session that locks free rows holds them besides those it held; the others
\* hold what they held.
LEMMA Locked ==
  ASSUME locks \in [Rows -> Sessions \cup {None}], NEW s \in Sessions,
         NEW rows \in SUBSET Rows, \A row \in rows : Free(row), Lock(s, rows)
  PROVE  /\ locks' \in [Rows -> Sessions \cup {None}]
         /\ \A row \in Rows : locks'[row] = s <=> (locks[row] = s \/ row \in rows)
         /\ \A t \in Sessions \ {s} : \A row \in Rows : locks'[row] = t <=> locks[row] = t
BY SessionsAssumption DEF Lock, Free

\* A session whose transaction ends holds nothing.
LEMMA Unlocked ==
  ASSUME locks \in [Rows -> Sessions \cup {None}], tx \in [Sessions -> Tx],
         NEW s \in Sessions, EndTx(s)
  PROVE  /\ locks' \in [Rows -> Sessions \cup {None}]
         /\ tx' = [tx EXCEPT ![s] = NoTx]
         /\ \A row \in Rows : locks'[row] # s
         /\ \A t \in Sessions \ {s} : \A row \in Rows : locks'[row] = t <=> locks[row] = t
BY SessionsAssumption DEF EndTx

-------------------------------------------------------------------------------
(* What a transaction knows after each of its steps *)

LEMMA NoTxRow == NoTx \in Tx /\ NoTx.step = "idle"
BY DEF NoTx, Tx, TxSteps

LEMMA SelectRow ==
  ASSUME NEW r \in Runners
  PROVE  LET next == [NoTx EXCEPT !.step = "select", !.runner = r]
         IN next \in Tx /\ next.step = "select" /\ next.runner = r
BY DEF NoTx, Tx, TxSteps

LEMMA PickRow ==
  ASSUME NEW row \in Tx, NEW chosen \in SUBSET Runs
  PROVE  LET next == [row EXCEPT !.step = "pick", !.candidates = chosen]
         IN /\ next \in Tx /\ next.step = "pick" /\ next.candidates = chosen
            /\ next.runner = row.runner
BY DEF Tx, TxSteps

LEMMA StartRow ==
  ASSUME NEW row \in Tx, NEW q \in Runs
  PROVE  LET next == [row EXCEPT !.step = "start", !.run = q]
         IN /\ next \in Tx /\ next.step = "start" /\ next.run = q
            /\ next.runner = row.runner /\ next.candidates = row.candidates
BY DEF Tx, TxSteps

LEMMA CompleteRunRow ==
  ASSUME NEW row \in Tx
  PROVE  LET next == [row EXCEPT !.step = "complete_run"]
         IN /\ next \in Tx /\ next.step = "complete_run" /\ next.runner = row.runner
            /\ next.attempt = row.attempt /\ next.outcome = row.outcome
BY DEF Tx, TxSteps

LEMMA CancelAttemptRow ==
  ASSUME NEW q \in Runs
  PROVE  LET next == [NoTx EXCEPT !.step = "cancel_attempt", !.run = q]
         IN next \in Tx /\ next.step = "cancel_attempt" /\ next.run = q
BY DEF NoTx, Tx, TxSteps

LEMMA CancelCommitRow ==
  ASSUME NEW row \in Tx, NEW a \in Attempts
  PROVE  LET next == [row EXCEPT !.step = "cancel_commit", !.attempt = a]
         IN /\ next \in Tx /\ next.step = "cancel_commit" /\ next.attempt = a
            /\ next.run = row.run
BY DEF Tx, TxSteps

LEMMA AgedHealthType == \A health \in Health : AgedHealth(health) \in Health
BY LessBounded, BoundsAssumption DEF AgedHealth, Health

\* Time changes the hold a transaction has computed and nothing else it knows.
LEMMA AgedRow ==
  ASSUME NEW row \in Tx,
         NEW next, next = (IF row.health = None THEN row
                           ELSE [row EXCEPT !.health = AgedHealth(@)])
  PROVE  /\ next \in Tx /\ next.step = row.step /\ next.runner = row.runner
         /\ next.run = row.run /\ next.attempt = row.attempt
         /\ next.outcome = row.outcome /\ next.candidates = row.candidates
         /\ row.health \in Health => next.health \in Health
<1>1. CASE row.health = None
  BY <1>1
<1>2. CASE row.health # None
  <2>1. AgedHealth(row.health) \in Health
    BY <1>2, AgedHealthType DEF Tx
  <2>2. next = [row EXCEPT !.health = AgedHealth(row.health)]
    BY <1>2
  <2>3. QED
    BY <2>1, <2>2 DEF Tx
<1>3. QED
  BY <1>1, <1>2

-------------------------------------------------------------------------------
(* The tables.  Every statement that writes makes one of four changes, none of *)
(* which needs more of the database than IInv: those of GumStore's operations, *)
(* a recovery that skips locked rows, a start and a completion.                *)

Recovers(lost) ==
  /\ runs' = RecoveredRuns(lost)
  /\ attempts' = RecoveredAttempts(lost)
  /\ leases' = RecoveredLeases(lost)

OpenLease == [state |-> "open", left |-> LeaseTtl, revoke_requested |-> FALSE]

Starts(q, id, r) ==
  /\ runs[q].status = "Queued" /\ attempts[id].status = "none"
  /\ runs' = [runs EXCEPT ![q] = StartedRun(runs[q])]
  /\ attempts' = [attempts EXCEPT ![id] = StartedAttempt(runs[q], q, r)]
  /\ leases' = [leases EXCEPT ![id] = OpenLease]

TableStep ==
  \/ [Next]_vars
  \/ \E lost \in SUBSET LostAttempts : Recovers(lost)
  \/ \E q \in Runs, id \in Attempts, r \in Runners : Starts(q, id, r)
  \/ \E a \in Attempts, outcome \in Outcomes, health \in Health : Completes(a, outcome, health)

\* What a recovery, a start and a completion keep of the rows of the runs.
LEMMA RecoversRunStep ==
  ASSUME IInv, NEW lost \in SUBSET LostAttempts, Recovers(lost), NEW q \in Runs
  PROVE  /\ RowStep(runs[q], runs'[q])
         /\ runs[q].status \in TerminalStatus => runs'[q] = runs[q]
<1>1. RowStep(runs[q], runs'[q])
  BY RecoveredRowStep DEF Recovers, RowStep
<1>2. ASSUME runs[q].status \in TerminalStatus PROVE runs'[q] = runs[q]
  BY <1>2, RecoveredWasRunning DEF Recovers, TerminalStatus
<1>3. QED
  BY <1>1, <1>2

LEMMA StartsRunStep ==
  ASSUME IInv, NEW p \in Runs, NEW id \in Attempts, NEW r \in Runners, Starts(p, id, r),
         NEW q \in Runs
  PROVE  /\ RowStep(runs[q], runs'[q])
         /\ runs[q].status \in TerminalStatus => runs'[q] = runs[q]
<1>a. /\ runs \in [Runs -> RunRow] /\ runs[p].status = "Queued"
      /\ runs' = [runs EXCEPT ![p] = StartedRun(runs[p])]
  BY DEF Starts, IInv, TypeOK
<1>1. CASE q # p
  BY <1>a, <1>1 DEF RowStep, Kept
<1>2. CASE q = p
  <2>1. runs[q].attempt_count < runs[q].max_attempts
    BY <1>a, <1>2 DEF IInv, Consistent, BudgetsKept
  <2>2. /\ runs'[q].status = "Running" /\ runs'[q].job = runs[q].job
        /\ runs'[q].attempt_count = runs[q].attempt_count + 1
        /\ runs'[q].max_attempts = runs[q].max_attempts
    BY <1>a, <1>2, StartedRunRow
  <2>3. runs[q].status = "Queued"
    BY <1>a, <1>2
  <2>4. QED
    BY <2>1, <2>2, <2>3 DEF RowStep, Started, TerminalStatus
<1>3. QED
  BY <1>1, <1>2

LEMMA CompletesRunStep ==
  ASSUME IInv, NEW a \in Attempts, NEW outcome \in Outcomes, NEW health,
         Completes(a, outcome, health), NEW q \in Runs
  PROVE  /\ RowStep(runs[q], runs'[q])
         /\ runs[q].status \in TerminalStatus => runs'[q] = runs[q]
<1> DEFINE p == attempts[a].run
<1>a. runs \in [Runs -> RunRow]
  BY DEF IInv, TypeOK
<1>1. p \in Runs /\ runs[p].status = "Running"
  BY DEF Completes, IInv, Consistent, AttemptsLinked, RunningIsLatest
<1>2. PICK row \in RetryDisposition(runs[p], outcome, health) :
        runs' = [runs EXCEPT ![p] = row]
  BY DEF Completes
<1>3. /\ row.attempt_count = runs[p].attempt_count
      /\ row.max_attempts = runs[p].max_attempts /\ row.job = runs[p].job
      /\ \/ row.status = outcome.status
         \/ row.status = "Queued" /\ runs[p].attempt_count < runs[p].max_attempts
  BY <1>a, <1>1, CompletedRunRow DEF Completes
<1>4. runs'[q] = IF q = p THEN row ELSE runs[q]
  BY <1>a, <1>1, <1>2
<1> HIDE DEF p
<1>5. QED
  BY <1>1, <1>3, <1>4, OutcomeStatus DEF RowStep, Ended, Kept, TerminalStatus

\* A start of a queued run under the next free attempt id keeps the tables
\* consistent.
LEMMA StartsConsistent ==
  ASSUME IInv, NEW q \in Runs, NEW id \in Attempts, NEW r \in Runners, Starts(q, id, r)
  PROVE  TablesOK(runs', attempts', leases') /\ Consistent(runs', attempts', leases')
<1>1. /\ runs \in [Runs -> RunRow] /\ attempts \in [Attempts -> AttemptRow]
      /\ leases \in [Attempts -> LeaseRow] /\ Consistent(runs, attempts, leases)
  BY DEF IInv, TypeOK
<1>2. OpenLease \in LeaseRow /\ OpenLease.state = "open"
  BY BoundsAssumption DEF OpenLease, LeaseRow
<1>3. StartedRun(runs[q]) \in RunRow
  BY <1>1, StartedRunRow
<1>4. StartedAttempt(runs[q], q, r) \in AttemptRow
  BY <1>1, BoundsAssumption DEF StartedAttempt, RunRow, AttemptRow, AttemptStatus
<1>5. TablesOK(runs', attempts', leases')
  BY <1>1, <1>2, <1>3, <1>4 DEF TablesOK, Starts
<1>6. Consistent(runs', attempts', leases')
  BY <1>1, <1>2, StartConsistent DEF Starts
<1>7. QED
  BY <1>5, <1>6

\* Each of the four changes keeps the tables well typed, consistent, and on the
\* life cycle of their runs, and leaves final runs alone.
LEMMA TableStepKeeps ==
  ASSUME IInv, TableStep
  PROVE  /\ TablesOK(runs', attempts', leases')
         /\ Consistent(runs', attempts', leases')
         /\ \A q \in Runs : RowStep(runs[q], runs'[q])
         /\ \A q \in Runs : runs[q].status \in TerminalStatus => runs'[q] = runs[q]
<1>1. CASE [Next]_vars
  BY <1>1, InvariantStep, RunStep, FinalRunKept DEF IInv, TypeOK, TablesOK
<1>2. ASSUME NEW lost \in SUBSET LostAttempts, Recovers(lost)
      PROVE  TablesOK(runs', attempts', leases') /\ Consistent(runs', attempts', leases')
  BY <1>2, RecoveredTables, RecoveryConsistent DEF Recovers, IInv
<1>3. QED
  BY <1>1, <1>2, StartsConsistent, CompletionConsistent, RecoversRunStep, StartsRunStep,
     CompletesRunStep DEF TableStep

-------------------------------------------------------------------------------
(* The sessions that do not take the step.  They keep what they know and hold, *)
(* and the step writes no row they hold.                                       *)

TxKept(s) ==
  /\ \A row \in Rows : locks'[row] = s <=> locks[row] = s
  /\ tx'[s].step = tx[s].step /\ tx'[s].runner = tx[s].runner
  /\ tx'[s].run = tx[s].run /\ tx'[s].attempt = tx[s].attempt
  /\ tx'[s].outcome = tx[s].outcome /\ tx'[s].candidates = tx[s].candidates
  /\ tx[s].health \in Health => tx'[s].health \in Health

RowsKept(s) ==
  /\ \A r \in Runners : locks[RunnerRow(r)] = s /\ HasRoom(r) => HasRoom(r)'
  /\ \A q \in Runs : locks[TheRun(q)] = s => runs'[q].status = runs[q].status
  /\ \A a \in Attempts : locks[TheAttempt(a)] = s /\ attempts[a].status = "Running" =>
       /\ attempts'[a].status = "Running" /\ attempts'[a].run = attempts[a].run
       /\ attempts'[a].runner = attempts[a].runner
       /\ attempts'[a].cancel_requested = attempts[a].cancel_requested
  /\ \A a \in Attempts : locks[TheLease(a)] = s => leases'[a].state = leases[a].state

LEMMA SessionKept ==
  ASSUME NEW s \in Sessions, tx[s] \in Tx, SessionOK(s), TxKept(s), RowsKept(s)
  PROVE  SessionOK(s)'
<1> USE DEF SessionOK
<1>1. Leasing(s)' = Leasing(s) /\ Completing(s)' = Completing(s) /\ Canceling(s)' = Canceling(s)
  BY DEF TxKept, Leasing, Completing, Canceling
<1>2. TxKnows(s)'
  BY <1>1 DEF TxKept, TxKnows
<1>3. LeaseReadsHold(s)'
  <2> SUFFICES ASSUME Leasing(s)
               PROVE  LeaseReadsHold(s)'
    BY <1>1 DEF LeaseReadsHold
  <2>1. tx[s].runner \in Runners /\ tx[s].candidates \subseteq Runs
    BY DEF TxKnows, Leasing, Tx
  <2>2. locks'[RunnerRow(tx[s].runner)] = s /\ HasRoom(tx[s].runner)'
    BY <2>1, RowsDiffer DEF LeaseReadsHold, TxKept, RowsKept
  <2>3. \A q \in tx[s].candidates : locks'[TheRun(q)] = s /\ runs'[q].status = "Queued"
    BY <2>1, RowsDiffer DEF LeaseReadsHold, TxKept, RowsKept
  <2>4. QED
    BY <2>2, <2>3 DEF LeaseReadsHold, TxKept, HasRoom
<1>4. CompleteReadsHold(s)'
  <2> SUFFICES ASSUME Completing(s)
               PROVE  CompleteReadsHold(s)'
    BY <1>1 DEF CompleteReadsHold
  <2> DEFINE a == tx[s].attempt
  <2>1. a \in Attempts /\ (tx[s].step = "complete_commit" => tx[s].run \in Runs)
    BY DEF TxKnows
  <2>2. /\ locks[TheAttempt(a)] = s /\ attempts[a].status = "Running"
        /\ attempts[a].runner = tx[s].runner
        /\ attempts[a].cancel_requested => tx[s].outcome.status = "Canceled"
    BY DEF CompleteReadsHold
  <2>3. /\ locks'[TheAttempt(a)] = s /\ attempts'[a].status = "Running"
        /\ attempts'[a].runner = tx[s].runner /\ attempts'[a].run = attempts[a].run
        /\ attempts'[a].cancel_requested => tx[s].outcome.status = "Canceled"
    BY <2>1, <2>2, RowsDiffer DEF TxKept, RowsKept
  <2>4. tx[s].step # "complete_lease" => locks'[TheLease(a)] = s /\ leases'[a].state = "open"
    BY <2>1, RowsDiffer DEF CompleteReadsHold, TxKept, RowsKept
  <2>5. tx[s].step = "complete_commit" =>
          tx[s].run = attempts'[a].run /\ locks'[TheRun(tx[s].run)] = s
    BY <2>1, <2>3, RowsDiffer DEF CompleteReadsHold, TxKept
  <2>6. tx'[s].attempt = a
    BY DEF TxKept
  <2> HIDE DEF a
  <2>7. QED
    BY <2>3, <2>4, <2>5, <2>6 DEF CompleteReadsHold, TxKept
<1>5. CancelReadsHold(s)'
  <2> SUFFICES ASSUME Canceling(s)
               PROVE  CancelReadsHold(s)'
    BY <1>1 DEF CancelReadsHold
  <2>1. tx[s].run \in Runs /\ (tx[s].step = "cancel_commit" => tx[s].attempt \in Attempts)
    BY DEF TxKnows
  <2>2. locks'[TheRun(tx[s].run)] = s /\ runs'[tx[s].run].status = "Running"
    BY <2>1, RowsDiffer DEF CancelReadsHold, TxKept, RowsKept
  <2>3. tx[s].step = "cancel_commit" =>
          /\ locks'[TheAttempt(tx[s].attempt)] = s
          /\ attempts'[tx[s].attempt].status = "Running"
          /\ attempts'[tx[s].attempt].run = tx[s].run
    BY <2>1, RowsDiffer DEF CancelReadsHold, TxKept, RowsKept
  <2>4. QED
    BY <2>2, <2>3 DEF CancelReadsHold, TxKept
<1>6. LocksExplained(s)'
  BY <1>1, RowsDiffer DEF LocksExplained, TxKept
<1>7. QED
  BY <1>2, <1>3, <1>4, <1>5, <1>6

-------------------------------------------------------------------------------
(* Counting the running attempts of a runner                                   *)

LEMMA RunningFinite ==
  \A ats, r : /\ IsFiniteSet(RunningOnRunner(ats, r))
               /\ Cardinality(RunningOnRunner(ats, r)) \in Nat
<1>1. IsFiniteSet(Attempts)
  BY FS_Interval, BoundsAssumption DEF Attempts
<1>2. \A ats, r : RunningOnRunner(ats, r) \in SUBSET Attempts
  BY DEF RunningOnRunner, RunningAttempts
<1>3. \A ats, r : IsFiniteSet(RunningOnRunner(ats, r))
  BY <1>1, <1>2, FS_Subset
<1>4. QED
  BY <1>3, FS_CardinalityType

\* No attempt starts: no runner has less room than before.
NoneStarts ==
  \A a \in Attempts : attempts'[a].status = "Running" =>
    attempts[a].status = "Running" /\ attempts[a].runner = attempts'[a].runner

LEMMA RoomKept ==
  ASSUME NoneStarts
  PROVE  /\ \A r \in Runners : HasRoom(r) => HasRoom(r)'
         /\ RunnerWithinLeases => RunnerWithinLeases'
<1>1. \A r \in Runners :
        Cardinality(RunningOnRunner(attempts', r)) <= Cardinality(RunningOnRunner(attempts, r))
  <2> SUFFICES ASSUME NEW r \in Runners
               PROVE  Cardinality(RunningOnRunner(attempts', r))
                        <= Cardinality(RunningOnRunner(attempts, r))
    OBVIOUS
  <2>1. RunningOnRunner(attempts', r) \subseteq RunningOnRunner(attempts, r)
    BY DEF NoneStarts, RunningOnRunner, RunningAttempts
  <2>2. QED
    BY <2>1, RunningFinite, FS_Subset
<1>2. \A r \in Runners :
        /\ Cardinality(RunningOnRunner(attempts, r)) \in Nat
        /\ Cardinality(RunningOnRunner(attempts', r)) \in Nat
  BY RunningFinite
<1>3. QED
  BY <1>1, <1>2, RunnerSpecAssumption DEF HasRoom, RunnerWithinLeases

-------------------------------------------------------------------------------
(* What a session may hold: the run of a lock is queued for a poll, running    *)
(* for a completion or a cancel, and its attempts and leases are of running    *)
(* attempts.                                                                   *)

LEMMA LockedRun ==
  ASSUME IInv, NEW s \in Sessions, SessionOK(s), NEW q \in Runs, locks[TheRun(q)] = s
  PROVE  /\ Leasing(s) => runs[q].status = "Queued"
         /\ ~Leasing(s) => runs[q].status = "Running" /\ q = tx[s].run
                           /\ (tx[s].step = "complete_commit" \/ Canceling(s))
<1>1. CASE Leasing(s)
  <2>1. q \in tx[s].candidates
    BY <1>1 DEF SessionOK, LocksExplained, Leasing, Canceling
  <2>2. QED
    BY <1>1, <2>1 DEF SessionOK, LeaseReadsHold
<1>2. CASE ~Leasing(s)
  <2>1. (tx[s].step = "complete_commit" \/ Canceling(s)) /\ q = tx[s].run
    BY <1>2 DEF SessionOK, LocksExplained
  <2>2. CASE Canceling(s)
    BY <1>2, <2>1, <2>2 DEF SessionOK, CancelReadsHold
  <2>3. CASE tx[s].step = "complete_commit"
    <3>1. /\ attempts[tx[s].attempt].status = "Running" /\ attempts[tx[s].attempt].run = q
          /\ tx[s].attempt \in Attempts
      BY <2>1, <2>3 DEF SessionOK, TxKnows, CompleteReadsHold, Completing
    <3>2. QED
      BY <1>2, <2>1, <3>1 DEF IInv, Consistent, RunningIsLatest
  <2>4. QED
    BY <2>1, <2>2, <2>3
<1>3. QED
  BY <1>1, <1>2

LEMMA LockedAttempt ==
  ASSUME NEW s \in Sessions, SessionOK(s), NEW a \in Attempts,
         locks[TheAttempt(a)] = s \/ locks[TheLease(a)] = s
  PROVE  attempts[a].status = "Running" /\ a = tx[s].attempt
<1>1. CASE locks[TheAttempt(a)] = s
  BY <1>1 DEF SessionOK, LocksExplained, CompleteReadsHold, CancelReadsHold, Canceling
<1>2. CASE locks[TheLease(a)] = s
  <2>1. Completing(s) /\ a = tx[s].attempt
    BY <1>2 DEF SessionOK, LocksExplained, Completing
  <2>2. QED
    BY <2>1 DEF SessionOK, CompleteReadsHold
<1>3. QED
  BY <1>1, <1>2

-------------------------------------------------------------------------------
(* A step keeps the invariant                                                  *)

\* The invariant after a step, but for the parts the table step accounts for.
StepKeeps ==
  /\ TypeOK' /\ TableStep
  /\ tx' \in [Sessions -> Tx] /\ locks' \in [Rows -> Sessions \cup {None}]
  /\ \A s \in Sessions : SessionOK(s)'
  /\ RunnerWithinLeases'

\* When nothing is written and no runner gets an attempt, the sessions that do
\* not take the step have nothing to fear from it.
LEMMA QuietRows ==
  ASSUME UNCHANGED vars
  PROVE  TypeOK' = TypeOK /\ TableStep /\ NoneStarts /\ \A s \in Sessions : RowsKept(s)
<1>1. UNCHANGED <<jobs, runs, attempts, leases, runners, run_keys, function_health>>
  BY DEF vars
<1>2. TypeOK' = TypeOK
  BY <1>1 DEF TypeOK
<1>3. TableStep
  BY DEF TableStep
<1>4. NoneStarts
  BY <1>1 DEF NoneStarts
<1>5. \A s \in Sessions : RowsKept(s)
  BY <1>1, <1>4, RoomKept DEF RowsKept
<1>6. QED
  BY <1>2, <1>3, <1>4, <1>5

\* Other sessions than the one that takes the step keep what they know.
LEMMA OthersKept ==
  ASSUME PgTypeOK, NEW s \in Sessions,
         tx' = [tx EXCEPT ![s] = tx'[s]],
         \A t \in Sessions \ {s} : \A row \in Rows : locks'[row] = t <=> locks[row] = t
  PROVE  \A t \in Sessions \ {s} : TxKept(t)
<1>1. \A t \in Sessions \ {s} : tx'[t] = tx[t]
  BY DEF PgTypeOK
<1>2. QED
  BY <1>1 DEF TxKept

\* A transaction that ends knows and holds nothing.
LEMMA EndedKeeps ==
  ASSUME PgTypeOK, NEW s \in Sessions, EndTx(s)
  PROVE  /\ tx' \in [Sessions -> Tx] /\ locks' \in [Rows -> Sessions \cup {None}]
         /\ SessionOK(s)' /\ \A t \in Sessions \ {s} : TxKept(t)
<1>1. /\ tx \in [Sessions -> Tx] /\ locks \in [Rows -> Sessions \cup {None}]
  BY DEF PgTypeOK
<1>2. /\ locks' \in [Rows -> Sessions \cup {None}]
      /\ tx' = [tx EXCEPT ![s] = NoTx]
      /\ \A row \in Rows : locks'[row] # s
      /\ \A t \in Sessions \ {s} : \A row \in Rows : locks'[row] = t <=> locks[row] = t
  BY <1>1, Unlocked
<1>3. tx' \in [Sessions -> Tx] /\ tx'[s].step = "idle"
  BY <1>1, <1>2, NoTxRow
<1>4. ~Leasing(s)' /\ ~Completing(s)' /\ ~Canceling(s)'
  BY <1>3 DEF Leasing, Completing, Canceling
<1>5. TxKnows(s)'
  BY <1>3, <1>4 DEF TxKnows
<1>6. LocksExplained(s)'
  BY <1>2, RowsDiffer DEF LocksExplained
<1>7. SessionOK(s)'
  BY <1>4, <1>5, <1>6 DEF SessionOK, LeaseReadsHold, CompleteReadsHold, CancelReadsHold
<1>8. tx' = [tx EXCEPT ![s] = tx'[s]]
  BY <1>1, <1>2
<1>9. QED
  BY <1>2, <1>3, <1>7, <1>8, OthersKept

\* A step of s that writes no row: what remains to show is what s knows after it.
LEMMA QuietKeeps ==
  ASSUME PgIInv, NEW s \in Sessions, UNCHANGED vars,
         tx' \in [Sessions -> Tx], locks' \in [Rows -> Sessions \cup {None}],
         SessionOK(s)', \A t \in Sessions \ {s} : TxKept(t)
  PROVE  StepKeeps
<1>1. TypeOK' = TypeOK /\ TableStep /\ NoneStarts /\ \A t \in Sessions : RowsKept(t)
  BY QuietRows
<1>2. TypeOK' /\ RunnerWithinLeases'
  BY <1>1, RoomKept DEF PgIInv, PgTypeOK
<1>3. ASSUME NEW t \in Sessions \ {s} PROVE SessionOK(t)'
  <2>1. tx[t] \in Tx /\ SessionOK(t)
    BY DEF PgIInv, PgTypeOK
  <2>2. QED
    BY <1>1, <2>1, SessionKept
<1>4. QED
  BY <1>1, <1>2, <1>3 DEF StepKeeps

LEMMA QuietEndKeeps ==
  ASSUME PgIInv, NEW s \in Sessions, UNCHANGED vars, EndTx(s)
  PROVE  StepKeeps
BY EndedKeeps, QuietKeeps DEF PgIInv

\* A step of s that writes no row, locks free rows and updates what s knows.
LEMMA LockingKeeps ==
  ASSUME PgIInv, NEW s \in Sessions, UNCHANGED vars,
         NEW next \in Tx, tx' = [tx EXCEPT ![s] = next],
         NEW rows \in SUBSET Rows, \A row \in rows : Free(row), Lock(s, rows),
         SessionOK(s)'
  PROVE  StepKeeps
<1>1. tx \in [Sessions -> Tx] /\ locks \in [Rows -> Sessions \cup {None}]
  BY DEF PgIInv, PgTypeOK
<1>2. /\ locks' \in [Rows -> Sessions \cup {None}]
      /\ \A t \in Sessions \ {s} : \A row \in Rows : locks'[row] = t <=> locks[row] = t
  BY <1>1, Locked
<1>3. tx' \in [Sessions -> Tx] /\ tx' = [tx EXCEPT ![s] = tx'[s]]
  BY <1>1
<1>4. \A t \in Sessions \ {s} : TxKept(t)
  BY <1>2, <1>3, OthersKept DEF PgIInv
<1>5. QED
  BY <1>2, <1>3, <1>4, QuietKeeps

\* Before its first lock a session holds nothing.
LEMMA HoldsNothing ==
  ASSUME NEW s \in Sessions, SessionOK(s), tx[s].step \in {"idle", "select"}
  PROVE  \A row \in Rows : locks[row] # s
BY DEF SessionOK, LocksExplained, Rows, Leasing, Completing, Canceling

\* What s holds after a step that locks rows: those, and what it held.
LEMMA LocksGrow ==
  ASSUME PgTypeOK, NEW s \in Sessions, NEW rows \in SUBSET Rows,
         \A row \in rows : Free(row), Lock(s, rows)
  PROVE  \A row \in Rows : locks'[row] = s <=> (locks[row] = s \/ row \in rows)
BY Locked DEF PgTypeOK

LEMMA LeaseSelectKeeps ==
  ASSUME PgIInv, NEW s \in Sessions, LeaseSelect(s)
  PROVE  StepKeeps
<1> DEFINE r == tx[s].runner
           rows == {RunnerRow(r)} \cup {TheRun(q) : q \in Candidates}
           next == [tx[s] EXCEPT !.step = "pick", !.candidates = Candidates]
<1>1. /\ tx[s].step = "select" /\ Free(RunnerRow(r)) /\ HasRoom(r) /\ Lock(s, rows)
      /\ tx' = [tx EXCEPT ![s].step = "pick", ![s].candidates = Candidates]
      /\ UNCHANGED vars
  BY DEF LeaseSelect
<1>2. tx \in [Sessions -> Tx] /\ SessionOK(s) /\ r \in Runners
  BY <1>1 DEF PgIInv, PgTypeOK, SessionOK, TxKnows
<1>3. Candidates \subseteq Runs /\ \A q \in Candidates : runs[q].status = "Queued" /\ Free(TheRun(q))
  BY DEF Candidates, Due
<1>4. rows \in SUBSET Rows /\ \A row \in rows : Free(row)
  BY <1>1, <1>2, <1>3, RowsDiffer
<1>5. tx[s] \in Tx /\ Candidates \in SUBSET Runs
  BY <1>2, <1>3
<1>6. /\ next \in Tx /\ next.step = "pick" /\ next.candidates = Candidates
      /\ next.runner = r
  BY <1>5, PickRow
<1>7. tx' = [tx EXCEPT ![s] = next]
  BY <1>1
<1> HIDE DEF next
<1>8. tx'[s].step = "pick" /\ tx'[s].runner = r /\ tx'[s].candidates = Candidates
  BY <1>2, <1>6, <1>7
<1>9. \A row \in Rows : locks'[row] = s <=> row \in rows
  BY <1>1, <1>2, <1>4, LocksGrow, HoldsNothing DEF PgIInv
<1> HIDE DEF r
<1>10. TxKnows(s)' /\ ~Completing(s)' /\ ~Canceling(s)'
  BY <1>2, <1>8 DEF TxKnows, Completing, Canceling
<1>11. LeaseReadsHold(s)'
  BY <1>1, <1>2, <1>3, <1>8, <1>9, RowsDiffer DEF LeaseReadsHold, HasRoom, vars
<1>12. LocksExplained(s)'
  BY <1>8, <1>9, RowsDiffer DEF LocksExplained, Leasing
<1>13. SessionOK(s)'
  BY <1>10, <1>11, <1>12 DEF SessionOK, CompleteReadsHold, CancelReadsHold
<1>14. QED
  BY <1>1, <1>4, <1>6, <1>7, <1>13, LockingKeeps

LEMMA LeasePickKeeps ==
  ASSUME PgIInv, NEW s \in Sessions, LeasePick(s)
  PROVE  StepKeeps
<1>1. PICK q \in Pickable(s) : tx' = [tx EXCEPT ![s].step = "start", ![s].run = q]
  BY DEF LeasePick
<1> DEFINE next == [tx[s] EXCEPT !.step = "start", !.run = q]
<1>2. tx[s].step = "pick" /\ UNCHANGED <<vars, locks>>
  BY DEF LeasePick
<1>3. /\ tx \in [Sessions -> Tx] /\ locks \in [Rows -> Sessions \cup {None}]
      /\ tx[s] \in Tx /\ SessionOK(s) /\ PgTypeOK
  BY DEF PgIInv, PgTypeOK
<1>4. q \in tx[s].candidates /\ q \in Runs
  BY <1>3 DEF Pickable, Tx
<1>5. /\ next \in Tx /\ next.step = "start" /\ next.run = q
      /\ next.runner = tx[s].runner /\ next.candidates = tx[s].candidates
  BY <1>3, <1>4, StartRow
<1>6. tx' = [tx EXCEPT ![s] = next]
  BY <1>1
<1> HIDE DEF next
<1>7. /\ tx' \in [Sessions -> Tx] /\ tx'[s].step = "start" /\ tx'[s].run = q
      /\ tx'[s].runner = tx[s].runner /\ tx'[s].candidates = tx[s].candidates
      /\ tx' = [tx EXCEPT ![s] = tx'[s]]
  BY <1>3, <1>5, <1>6
<1>8. TxKnows(s)' /\ ~Completing(s)' /\ ~Canceling(s)' /\ Leasing(s) /\ Leasing(s)'
  BY <1>2, <1>3, <1>4, <1>7 DEF SessionOK, TxKnows, Completing, Canceling, Leasing
<1>9. LeaseReadsHold(s)'
  BY <1>2, <1>3, <1>4, <1>7, <1>8 DEF SessionOK, LeaseReadsHold, HasRoom, vars
<1>10. LocksExplained(s)'
  BY <1>2, <1>3, <1>7, <1>8 DEF SessionOK, LocksExplained, Completing, Canceling
<1>11. SessionOK(s)'
  BY <1>8, <1>9, <1>10 DEF SessionOK, CompleteReadsHold, CancelReadsHold
<1>12. \A t \in Sessions \ {s} : TxKept(t)
  BY <1>2, <1>3, <1>7, OthersKept
<1>13. QED
  BY <1>2, <1>3, <1>7, <1>11, <1>12, QuietKeeps

LEMMA CompleteLockAttemptKeeps ==
  ASSUME PgIInv, NEW s \in Sessions, NEW r \in Runners, NEW a \in Attempts,
         NEW outcome \in Outcomes, CompleteLockAttempt(s, r, a, outcome)
  PROVE  StepKeeps
<1> DEFINE next == [NoTx EXCEPT !.step = "complete_lease", !.runner = r,
                                !.attempt = a, !.outcome = outcome]
<1>1. /\ tx[s].step = "idle" /\ Free(TheAttempt(a)) /\ attempts[a].status = "Running"
      /\ attempts[a].cancel_requested => outcome.status = "Canceled"
      /\ attempts[a].runner = r
      /\ Lock(s, {TheAttempt(a)}) /\ UNCHANGED vars
  BY DEF CompleteLockAttempt
<1>2. tx' = [tx EXCEPT ![s] = next]
  BY DEF CompleteLockAttempt
<1>3. /\ next \in Tx /\ next.step = "complete_lease" /\ next.runner = r
      /\ next.attempt = a /\ next.outcome = outcome
  BY DEF NoTx, Tx, TxSteps
<1> HIDE DEF next
<1>4. tx \in [Sessions -> Tx] /\ SessionOK(s) /\ PgTypeOK
  BY DEF PgIInv, PgTypeOK
<1>5. {TheAttempt(a)} \in SUBSET Rows /\ \A row \in {TheAttempt(a)} : Free(row)
  BY <1>1, RowsDiffer
<1>6. /\ tx'[s].step = "complete_lease" /\ tx'[s].runner = r
      /\ tx'[s].attempt = a /\ tx'[s].outcome = outcome
  BY <1>2, <1>3, <1>4
<1>7. \A row \in Rows : locks'[row] = s <=> row = TheAttempt(a)
  BY <1>1, <1>4, <1>5, LocksGrow, HoldsNothing
<1>8. TxKnows(s)' /\ ~Leasing(s)' /\ ~Canceling(s)' /\ Completing(s)'
  BY <1>6 DEF TxKnows, Leasing, Completing, Canceling
<1>9. CompleteReadsHold(s)'
  <2>1. locks'[TheAttempt(a)] = s
    BY <1>7, RowsDiffer
  <2>2. attempts' = attempts
    BY <1>1 DEF vars
  <2>3. QED
    BY <1>1, <1>6, <2>1, <2>2 DEF CompleteReadsHold
<1>10. LocksExplained(s)'
  <2>1. /\ \A p \in Runs : TheRun(p) \in Rows /\ TheRun(p) # TheAttempt(a)
        /\ \A q \in Runners : RunnerRow(q) \in Rows /\ RunnerRow(q) # TheAttempt(a)
        /\ \A b \in Attempts : TheLease(b) \in Rows /\ TheLease(b) # TheAttempt(a)
    BY RowsDiffer
  <2>2. \A b \in Attempts : TheAttempt(b) \in Rows /\ (TheAttempt(b) = TheAttempt(a) => b = a)
    BY RowsDiffer
  <2>3. /\ \A p \in Runs : locks'[TheRun(p)] # s
        /\ \A q \in Runners : locks'[RunnerRow(q)] # s
    BY <1>7, <2>1
  <2>4. /\ \A b \in Attempts : locks'[TheAttempt(b)] = s => b = a
        /\ \A b \in Attempts : locks'[TheLease(b)] # s
    BY <1>7, <2>1, <2>2
  <2>5. QED
    BY <1>6, <1>8, <2>3, <2>4 DEF LocksExplained
<1>11. SessionOK(s)'
  BY <1>8, <1>9, <1>10 DEF SessionOK, LeaseReadsHold, CancelReadsHold
<1>12. QED
  BY <1>1, <1>2, <1>3, <1>5, <1>11, LockingKeeps

LEMMA CompleteLockLeaseKeeps ==
  ASSUME PgIInv, NEW s \in Sessions, CompleteLockLease(s)
  PROVE  StepKeeps
<1> DEFINE next == [tx[s] EXCEPT !.step = "complete_run"]
           a == tx[s].attempt
<1>1. /\ tx[s].step = "complete_lease" /\ Free(TheLease(a)) /\ leases[a].state = "open"
      /\ Lock(s, {TheLease(a)}) /\ UNCHANGED vars
  BY DEF CompleteLockLease, LeaseValid
<1>2. tx' = [tx EXCEPT ![s] = next]
  BY DEF CompleteLockLease
<1>3. /\ tx \in [Sessions -> Tx] /\ SessionOK(s) /\ PgTypeOK /\ tx[s] \in Tx
      /\ locks \in [Rows -> Sessions \cup {None}]
  BY DEF PgIInv, PgTypeOK
<1>4. /\ next \in Tx /\ next.step = "complete_run" /\ next.runner = tx[s].runner
      /\ next.attempt = a /\ next.outcome = tx[s].outcome
  BY <1>3, CompleteRunRow
<1> HIDE DEF next
<1>5. Completing(s) /\ a \in Attempts /\ tx[s].outcome \in Outcomes
  BY <1>1, <1>3 DEF SessionOK, TxKnows, Completing
<1>6. {TheLease(a)} \in SUBSET Rows /\ \A row \in {TheLease(a)} : Free(row)
  BY <1>1, <1>5, RowsDiffer
<1>7. /\ tx'[s].step = "complete_run" /\ tx'[s].runner = tx[s].runner
      /\ tx'[s].attempt = a /\ tx'[s].outcome = tx[s].outcome
  BY <1>2, <1>3, <1>4
<1>8. \A row \in Rows : locks'[row] = s <=> (locks[row] = s \/ row = TheLease(a))
  BY <1>1, <1>3, <1>6, LocksGrow
<1>9. /\ locks[TheAttempt(a)] = s /\ attempts[a].status = "Running"
      /\ attempts[a].runner = tx[s].runner
      /\ attempts[a].cancel_requested => tx[s].outcome.status = "Canceled"
  BY <1>3, <1>5 DEF SessionOK, CompleteReadsHold
<1> HIDE DEF a
<1>10. TxKnows(s)' /\ ~Leasing(s)' /\ ~Canceling(s)' /\ Completing(s)'
  BY <1>5, <1>7 DEF TxKnows, Leasing, Completing, Canceling
<1>11. CompleteReadsHold(s)'
  BY <1>1, <1>5, <1>7, <1>8, <1>9, RowsDiffer DEF CompleteReadsHold, vars
<1>12. LocksExplained(s)'
  <2>1. ~Leasing(s) /\ ~Canceling(s) /\ tx[s].step # "complete_commit"
    BY <1>1 DEF Leasing, Canceling
  <2>2. /\ \A q \in Runs : locks[TheRun(q)] # s
        /\ \A q \in Runners : locks[RunnerRow(q)] # s
        /\ \A b \in Attempts : locks[TheAttempt(b)] = s => b = a
        /\ \A b \in Attempts : locks[TheLease(b)] # s
    BY <1>1, <1>3, <2>1 DEF SessionOK, LocksExplained, a
  <2>3. QED
    BY <1>7, <1>8, <1>10, <2>2, RowsDiffer DEF LocksExplained
<1>13. SessionOK(s)'
  BY <1>10, <1>11, <1>12 DEF SessionOK, LeaseReadsHold, CancelReadsHold
<1>14. QED
  BY <1>1, <1>2, <1>4, <1>6, <1>13, LockingKeeps

\* The health a completion computes is a health, since its run has a job.
LEMMA SignalType ==
  \A health \in Health : \A outcome \in Outcomes : FunctionSignal(health, outcome) \in Health
BY BoundsAssumption DEF Health, FunctionSignal, Outcomes

LEMMA CompleteLockRunKeeps ==
  ASSUME PgIInv, NEW s \in Sessions, CompleteLockRun(s)
  PROVE  StepKeeps
<1> DEFINE a == tx[s].attempt
           q == attempts[a].run
           health == FunctionSignal(function_health[runs[q].job], tx[s].outcome)
           next == [tx[s] EXCEPT !.step = "complete_commit", !.run = q, !.health = health]
<1>1. /\ tx[s].step = "complete_run" /\ Free(TheRun(q))
      /\ Lock(s, {TheRun(q)}) /\ UNCHANGED vars
  BY DEF CompleteLockRun
<1>2. tx' = [tx EXCEPT ![s] = next]
  BY DEF CompleteLockRun
<1>3. /\ tx \in [Sessions -> Tx] /\ SessionOK(s) /\ PgTypeOK /\ tx[s] \in Tx /\ IInv
      /\ locks \in [Rows -> Sessions \cup {None}]
  BY DEF PgIInv, PgTypeOK
<1>4. Completing(s) /\ a \in Attempts /\ tx[s].outcome \in Outcomes
  BY <1>1, <1>3 DEF SessionOK, TxKnows, Completing
<1>5. /\ locks[TheAttempt(a)] = s /\ attempts[a].status = "Running"
      /\ attempts[a].runner = tx[s].runner
      /\ attempts[a].cancel_requested => tx[s].outcome.status = "Canceled"
      /\ locks[TheLease(a)] = s /\ leases[a].state = "open"
  BY <1>1, <1>3, <1>4 DEF SessionOK, CompleteReadsHold
<1>6. q \in Runs /\ runs[q].status = "Running" /\ runs[q].job \in Jobs
  BY <1>3, <1>4, <1>5
     DEF IInv, JobsKnown, Consistent, AttemptsLinked, RunningIsLatest
<1>7. health \in Health
  <2>1. function_health[runs[q].job] \in Health
    BY <1>3, <1>6 DEF PgTypeOK, TypeOK, Health
  <2>2. QED
    BY <1>4, <2>1, SignalType
<1> HIDE DEF health
<1>8. /\ next \in Tx /\ next.step = "complete_commit" /\ next.runner = tx[s].runner
      /\ next.attempt = a /\ next.outcome = tx[s].outcome
      /\ next.run = q /\ next.health = health
  BY <1>3, <1>6, <1>7 DEF Tx, TxSteps
<1> HIDE DEF next
<1>9. {TheRun(q)} \in SUBSET Rows /\ \A row \in {TheRun(q)} : Free(row)
  BY <1>1, <1>6, RowsDiffer
<1>10. /\ tx'[s].step = "complete_commit" /\ tx'[s].runner = tx[s].runner
       /\ tx'[s].attempt = a /\ tx'[s].outcome = tx[s].outcome
       /\ tx'[s].run = q /\ tx'[s].health \in Health
  BY <1>2, <1>3, <1>7, <1>8
<1>11. \A row \in Rows : locks'[row] = s <=> (locks[row] = s \/ row = TheRun(q))
  BY <1>1, <1>3, <1>9, LocksGrow
<1>12. TxKnows(s)' /\ ~Leasing(s)' /\ ~Canceling(s)' /\ Completing(s)'
  BY <1>4, <1>6, <1>10 DEF TxKnows, Leasing, Completing, Canceling
<1>13. CompleteReadsHold(s)'
  <2>1. /\ locks'[TheAttempt(a)] = s /\ locks'[TheLease(a)] = s /\ locks'[TheRun(q)] = s
    BY <1>4, <1>5, <1>6, <1>11, RowsDiffer
  <2>2. attempts' = attempts /\ leases' = leases
    BY <1>1 DEF vars
  <2>3. QED
    BY <1>5, <1>10, <2>1, <2>2 DEF CompleteReadsHold
<1>14. LocksExplained(s)'
  <2>1. ~Leasing(s) /\ ~Canceling(s) /\ tx[s].step # "complete_commit"
    BY <1>1 DEF Leasing, Canceling
  <2>2. /\ \A p \in Runs : locks[TheRun(p)] # s
        /\ \A r \in Runners : locks[RunnerRow(r)] # s
        /\ \A b \in Attempts : locks[TheAttempt(b)] = s => b = a
        /\ \A b \in Attempts : locks[TheLease(b)] = s => b = a
    BY <1>1, <1>3, <2>1 DEF SessionOK, LocksExplained
  <2> HIDE DEF a, q
  <2>3. /\ \A p \in Runs : locks'[TheRun(p)] = s => p = q
        /\ \A r \in Runners : locks'[RunnerRow(r)] # s
        /\ \A b \in Attempts : locks'[TheAttempt(b)] = s => b = a
        /\ \A b \in Attempts : locks'[TheLease(b)] = s => b = a
    BY <1>11, <2>2, RowsDiffer
  <2>4. QED
    BY <1>10, <1>12, <2>3 DEF LocksExplained
<1>15. SessionOK(s)'
  BY <1>12, <1>13, <1>14 DEF SessionOK, LeaseReadsHold, CancelReadsHold
<1>16. QED
  BY <1>1, <1>2, <1>8, <1>9, <1>15, LockingKeeps

LEMMA CancelLockRunKeeps ==
  ASSUME PgIInv, NEW s \in Sessions, NEW q \in Runs, CancelLockRun(s, q)
  PROVE  StepKeeps
<1> DEFINE next == [NoTx EXCEPT !.step = "cancel_attempt", !.run = q]
<1>1. /\ tx[s].step = "idle" /\ Free(TheRun(q)) /\ runs[q].status = "Running"
      /\ Lock(s, {TheRun(q)}) /\ UNCHANGED vars
  BY DEF CancelLockRun
<1>2. tx' = [tx EXCEPT ![s] = next]
  BY DEF CancelLockRun
<1>3. next \in Tx /\ next.step = "cancel_attempt" /\ next.run = q
  BY CancelAttemptRow
<1> HIDE DEF next
<1>4. tx \in [Sessions -> Tx] /\ SessionOK(s) /\ PgTypeOK
  BY DEF PgIInv, PgTypeOK
<1>5. {TheRun(q)} \in SUBSET Rows /\ \A row \in {TheRun(q)} : Free(row)
  BY <1>1, RowsDiffer
<1>6. tx'[s].step = "cancel_attempt" /\ tx'[s].run = q
  BY <1>2, <1>3, <1>4
<1>7. \A row \in Rows : locks'[row] = s <=> row = TheRun(q)
  BY <1>1, <1>4, <1>5, LocksGrow, HoldsNothing
<1>8. TxKnows(s)' /\ ~Leasing(s)' /\ ~Completing(s)' /\ Canceling(s)'
  BY <1>6 DEF TxKnows, Leasing, Completing, Canceling
<1>9. CancelReadsHold(s)'
  BY <1>1, <1>6, <1>7, RowsDiffer DEF CancelReadsHold, vars
<1>10. LocksExplained(s)'
  BY <1>6, <1>7, <1>8, RowsDiffer DEF LocksExplained
<1>11. SessionOK(s)'
  BY <1>8, <1>9, <1>10 DEF SessionOK, LeaseReadsHold, CompleteReadsHold
<1>12. QED
  BY <1>1, <1>2, <1>3, <1>5, <1>11, LockingKeeps

LEMMA CancelLockAttemptKeeps ==
  ASSUME PgIInv, NEW s \in Sessions, NEW a \in Attempts, CancelLockAttempt(s, a)
  PROVE  StepKeeps
<1> DEFINE q == tx[s].run
           next == [tx[s] EXCEPT !.step = "cancel_commit", !.attempt = a]
<1>1. /\ tx[s].step = "cancel_attempt" /\ Free(TheAttempt(a))
      /\ attempts[a].status = "Running" /\ attempts[a].run = q
      /\ Lock(s, {TheAttempt(a)}) /\ UNCHANGED vars
  BY DEF CancelLockAttempt
<1>2. tx' = [tx EXCEPT ![s] = next]
  BY DEF CancelLockAttempt
<1>3. tx \in [Sessions -> Tx] /\ SessionOK(s) /\ PgTypeOK /\ tx[s] \in Tx
  BY DEF PgIInv, PgTypeOK
<1>4. next \in Tx /\ next.step = "cancel_commit" /\ next.attempt = a /\ next.run = q
  BY <1>3, CancelCommitRow
<1> HIDE DEF next
<1>5. {TheAttempt(a)} \in SUBSET Rows /\ \A row \in {TheAttempt(a)} : Free(row)
  BY <1>1, RowsDiffer
<1>6. tx'[s].step = "cancel_commit" /\ tx'[s].attempt = a /\ tx'[s].run = q
  BY <1>2, <1>3, <1>4
<1>7. \A row \in Rows : locks'[row] = s <=> (locks[row] = s \/ row = TheAttempt(a))
  BY <1>1, <1>3, <1>5, LocksGrow
<1>8. q \in Runs /\ locks[TheRun(q)] = s /\ runs[q].status = "Running"
  BY <1>1, <1>3 DEF SessionOK, TxKnows, CancelReadsHold, Canceling
<1>9. TxKnows(s)' /\ ~Leasing(s)' /\ ~Completing(s)' /\ Canceling(s)'
  BY <1>6, <1>8 DEF TxKnows, Leasing, Completing, Canceling
<1>10. CancelReadsHold(s)'
  BY <1>1, <1>6, <1>7, <1>8, RowsDiffer DEF CancelReadsHold, vars
<1>11. LocksExplained(s)'
  <2>1. ~Leasing(s) /\ ~Completing(s)
    BY <1>1 DEF Leasing, Completing
  <2>2. /\ \A p \in Runs : locks[TheRun(p)] = s => p = q
        /\ \A r \in Runners : locks[RunnerRow(r)] # s
        /\ \A b \in Attempts : locks[TheAttempt(b)] # s /\ locks[TheLease(b)] # s
    BY <1>1, <1>3, <2>1 DEF SessionOK, LocksExplained
  <2> HIDE DEF q
  <2>3. QED
    BY ZenonT(60), <1>6, <1>7, <1>9, <2>2, RowsDiffer DEF LocksExplained
<1>12. SessionOK(s)'
  BY <1>9, <1>10, <1>11 DEF SessionOK, LeaseReadsHold, CompleteReadsHold
<1>13. QED
  BY <1>1, <1>2, <1>4, <1>5, <1>12, LockingKeeps

-------------------------------------------------------------------------------
(* The steps that write                                                        *)

\* After a step each session is right for what it did itself, or because it did
\* nothing and none of its rows was written.
LEMMA WriteKeeps ==
  ASSUME PgIInv, TypeOK', TableStep,
         tx' \in [Sessions -> Tx], locks' \in [Rows -> Sessions \cup {None}],
         \A s \in Sessions : SessionOK(s)' \/ (TxKept(s) /\ RowsKept(s)),
         RunnerWithinLeases'
  PROVE  StepKeeps
<1>1. \A s \in Sessions : tx[s] \in Tx /\ SessionOK(s)
  BY DEF PgIInv, PgTypeOK
<1>2. \A s \in Sessions : SessionOK(s)'
  BY <1>1, SessionKept
<1>3. QED
  BY <1>2 DEF StepKeeps

LEMMA TablesTyped ==
  ASSUME IInv, TableStep, UNCHANGED <<jobs, runners, run_keys>>,
         function_health' \in [Jobs -> Health]
  PROVE  TypeOK'
BY TableStepKeeps DEF IInv, TypeOK, TablesOK, Health

\* A recovery writes no locked row.
LEMMA RecoverKeepsRows ==
  ASSUME PgIInv, Recover
  PROVE  TypeOK' /\ TableStep /\ RunnerWithinLeases' /\ \A s \in Sessions : RowsKept(s)
<1> DEFINE lost == Recoverable
<1>1. lost \in SUBSET LostAttempts /\ lost \subseteq Attempts
  BY DEF Recoverable, LostAttempts
<1>2. \A a \in lost : /\ locks[TheAttempt(a)] = None /\ locks[TheLease(a)] = None
                      /\ locks[TheRun(attempts[a].run)] = None
  BY DEF Recoverable, Free
<1>3. Recovers(lost) /\ UNCHANGED <<jobs, runners, run_keys, function_health>>
  BY DEF Recover, Recovers
<1>4. IInv /\ TypeOK /\ RunnerWithinLeases /\ function_health \in [Jobs -> Health]
  BY DEF PgIInv, PgTypeOK, TypeOK, Health
<1> HIDE DEF lost
<1>5. TableStep
  BY <1>1, <1>3 DEF TableStep
<1>6. TypeOK'
  BY <1>3, <1>4, <1>5, TablesTyped
<1>7. /\ \A a \in lost : attempts'[a].status = "Failed"
      /\ \A a \in Attempts : a \notin lost => attempts'[a] = attempts[a] /\ leases'[a] = leases[a]
      /\ \A q \in Runs : (~ \E a \in lost : attempts[a].run = q) => runs'[q] = runs[q]
  BY <1>1, <1>3, <1>4, RecoveredTables DEF Recovers
<1>8. NoneStarts
  BY <1>7 DEF NoneStarts
<1>9. ASSUME NEW s \in Sessions PROVE RowsKept(s)
  <2>1. \A a \in Attempts : locks[TheAttempt(a)] = s \/ locks[TheLease(a)] = s => a \notin lost
    BY <1>2, SessionsAssumption
  <2>2. \A q \in Runs : locks[TheRun(q)] = s => ~ \E a \in lost : attempts[a].run = q
    BY <1>2, SessionsAssumption
  <2>3. QED
    BY <1>7, <1>8, <2>1, <2>2, RoomKept DEF RowsKept
<1>10. QED
  BY <1>4, <1>5, <1>6, <1>8, <1>9, RoomKept

LEMMA LeasePollKeeps ==
  ASSUME PgIInv, NEW s \in Sessions, NEW r \in Runners, LeasePoll(s, r)
  PROVE  StepKeeps
<1> DEFINE next == [NoTx EXCEPT !.step = "select", !.runner = r]
<1>1. tx[s].step = "idle" /\ Recover /\ locks' = locks
  BY DEF LeasePoll
<1>2. tx' = [tx EXCEPT ![s] = next]
  BY DEF LeasePoll
<1>3. next \in Tx /\ next.step = "select" /\ next.runner = r
  BY SelectRow
<1> HIDE DEF next
<1>4. /\ tx \in [Sessions -> Tx] /\ locks \in [Rows -> Sessions \cup {None}]
      /\ SessionOK(s) /\ PgTypeOK
  BY DEF PgIInv, PgTypeOK
<1>5. /\ tx' \in [Sessions -> Tx] /\ tx'[s].step = "select" /\ tx'[s].runner = r
      /\ tx' = [tx EXCEPT ![s] = tx'[s]]
  BY <1>2, <1>3, <1>4
<1>6. TxKnows(s)' /\ ~Leasing(s)' /\ ~Completing(s)' /\ ~Canceling(s)'
  BY <1>5 DEF TxKnows, Leasing, Completing, Canceling
<1>7. \A row \in Rows : locks'[row] # s
  BY <1>1, <1>4, HoldsNothing
<1>8. LocksExplained(s)'
  BY <1>7, RowsDiffer DEF LocksExplained
<1>9. SessionOK(s)'
  BY <1>6, <1>8 DEF SessionOK, LeaseReadsHold, CompleteReadsHold, CancelReadsHold
<1>10. \A t \in Sessions \ {s} : TxKept(t)
  BY <1>1, <1>4, <1>5, OthersKept
<1>11. TypeOK' /\ TableStep /\ RunnerWithinLeases' /\ \A t \in Sessions : RowsKept(t)
  BY <1>1, RecoverKeepsRows
<1>12. QED
  BY <1>1, <1>4, <1>5, <1>9, <1>10, <1>11, WriteKeeps

\* The commit of a poll: the run is queued still, the runner has room still, and
\* no other session holds the runner's row, on which it counts.
LEMMA LeaseCommitKeeps ==
  ASSUME PgIInv, NEW s \in Sessions, NEW id \in Attempts, LeaseCommit(s, id)
  PROVE  StepKeeps
<1> DEFINE q == tx[s].run
           r == tx[s].runner
<1>1. /\ tx[s].step = "start" /\ attempts[id].status = "none" /\ EndTx(s)
      /\ UNCHANGED <<jobs, runners, run_keys, function_health>>
  BY DEF LeaseCommit, IsNextId
<1>2. /\ runs' = [runs EXCEPT ![q] = StartedRun(runs[q])]
      /\ attempts' = [attempts EXCEPT ![id] = StartedAttempt(runs[q], q, r)]
      /\ leases' = [leases EXCEPT ![id] = OpenLease]
  BY DEF LeaseCommit, OpenLease
<1>3. /\ PgTypeOK /\ IInv /\ TypeOK /\ RunnerWithinLeases /\ SessionOK(s)
      /\ \A t \in Sessions : SessionOK(t)
      /\ runs \in [Runs -> RunRow] /\ attempts \in [Attempts -> AttemptRow]
      /\ leases \in [Attempts -> LeaseRow] /\ function_health \in [Jobs -> Health]
  BY DEF PgIInv, PgTypeOK, TypeOK, Health
<1>4. Leasing(s) /\ q \in Runs /\ r \in Runners
  BY <1>1, <1>3 DEF SessionOK, TxKnows, Leasing
<1>5. /\ locks[RunnerRow(r)] = s /\ HasRoom(r)
      /\ locks[TheRun(q)] = s /\ runs[q].status = "Queued"
  BY <1>1, <1>3, <1>4 DEF SessionOK, LeaseReadsHold
<1> HIDE DEF q, r
<1>6. Starts(q, id, r)
  BY <1>1, <1>2, <1>5 DEF Starts
<1>7. TableStep
  BY <1>4, <1>6 DEF TableStep
<1>8. TypeOK'
  BY <1>1, <1>3, <1>7, TablesTyped
<1>9. /\ \A p \in Runs : p # q => runs'[p] = runs[p]
      /\ \A a \in Attempts : a # id => attempts'[a] = attempts[a] /\ leases'[a] = leases[a]
      /\ attempts'[id].status = "Running" /\ attempts'[id].runner = r
  BY <1>2, <1>3 DEF StartedAttempt
<1>10. \A other \in Runners : other # r =>
         RunningOnRunner(attempts', other) = RunningOnRunner(attempts, other)
  BY <1>1, <1>9 DEF RunningOnRunner, RunningAttempts
<1>11. RunnerWithinLeases'
  <2>1. RunningOnRunner(attempts', r) = RunningOnRunner(attempts, r) \cup {id}
    BY <1>9 DEF RunningOnRunner, RunningAttempts
  <2>2. Cardinality(RunningOnRunner(attempts', r)) <= Cardinality(RunningOnRunner(attempts, r)) + 1
    BY <2>1, RunningFinite, FS_AddElement
  <2>3. Cardinality(RunningOnRunner(attempts', r)) <= RunnerSpec[r].max_concurrent_leases
    BY <1>4, <1>5, <2>2, RunningFinite, RunnerSpecAssumption DEF HasRoom
  <2>4. QED
    BY <1>3, <1>10, <2>3 DEF RunnerWithinLeases
<1>12. ASSUME NEW t \in Sessions \ {s} PROVE RowsKept(t)
  <2>1. \A other \in Runners : locks[RunnerRow(other)] = t => other # r
    BY <1>5
  <2>2. \A p \in Runs : locks[TheRun(p)] = t => p # q
    BY <1>5
  <2>3. \A a \in Attempts : locks[TheLease(a)] = t => a # id
    BY <1>1, <1>3, LockedAttempt
  <2>4. \A a \in Attempts : attempts[a].status = "Running" => a # id
    BY <1>1
  <2>5. \A other \in Runners : other # r /\ HasRoom(other) => HasRoom(other)'
    BY <1>10 DEF HasRoom
  <2>6. QED
    BY <1>9, <2>1, <2>2, <2>3, <2>4, <2>5 DEF RowsKept
<1>13. /\ tx' \in [Sessions -> Tx] /\ locks' \in [Rows -> Sessions \cup {None}]
       /\ SessionOK(s)' /\ \A t \in Sessions \ {s} : TxKept(t)
  BY <1>1, <1>3, EndedKeeps
<1>14. QED
  BY <1>7, <1>8, <1>11, <1>12, <1>13, WriteKeeps

\* The commit of a completion: the attempt runs still and its cancel, if any, was
\* seen; the rows it writes are its own.
LEMMA CompleteCommitKeeps ==
  ASSUME PgIInv, NEW s \in Sessions, CompleteCommit(s)
  PROVE  StepKeeps
<1> DEFINE a == tx[s].attempt
           q == tx[s].run
           outcome == tx[s].outcome
           health == tx[s].health
<1>1. /\ tx[s].step = "complete_commit" /\ EndTx(s) /\ UNCHANGED <<jobs, runners, run_keys>>
      /\ function_health' = [function_health EXCEPT ![runs[q].job] = health]
  BY DEF CompleteCommit
<1>2. /\ attempts' = [attempts EXCEPT ![a].status = outcome.status]
      /\ leases' = [leases EXCEPT ![a].state = "acked", ![a].left = 0]
      /\ \E row \in RetryDisposition(runs[q], outcome, health) : runs' = [runs EXCEPT ![q] = row]
  BY DEF CompleteCommit
<1>3. /\ PgTypeOK /\ IInv /\ TypeOK /\ RunnerWithinLeases /\ SessionOK(s)
      /\ runs \in [Runs -> RunRow] /\ attempts \in [Attempts -> AttemptRow]
      /\ leases \in [Attempts -> LeaseRow] /\ function_health \in [Jobs -> Health]
  BY DEF PgIInv, PgTypeOK, TypeOK, Health
<1>4. /\ Completing(s) /\ a \in Attempts /\ q \in Runs
      /\ outcome \in Outcomes /\ health \in Health
  BY <1>1, <1>3 DEF SessionOK, TxKnows, Completing
<1>5. /\ locks[TheAttempt(a)] = s /\ locks[TheLease(a)] = s /\ locks[TheRun(q)] = s
      /\ attempts[a].status = "Running" /\ q = attempts[a].run
      /\ attempts[a].cancel_requested => outcome.status = "Canceled"
  BY <1>1, <1>3, <1>4 DEF SessionOK, CompleteReadsHold
<1> HIDE DEF a, q, outcome, health
<1>6. Completes(a, outcome, health)
  <2>1. health.hold \in Nat
    BY <1>4, BoundsAssumption DEF Health
  <2>2. QED
    BY <1>2, <1>5, <2>1 DEF Completes
<1>7. TableStep
  BY <1>4, <1>6 DEF TableStep
<1>8. TypeOK'
  <2>1. function_health' \in [Jobs -> Health]
    BY <1>1, <1>3, <1>4
  <2>2. QED
    BY <1>1, <1>3, <1>7, <2>1, TablesTyped
<1>9. /\ \A p \in Runs : p # q => runs'[p] = runs[p]
      /\ \A b \in Attempts : b # a => attempts'[b] = attempts[b] /\ leases'[b] = leases[b]
      /\ attempts'[a].status # "Running"
  <2>1. attempts'[a].status = outcome.status
    BY <1>2, <1>3, <1>4 DEF AttemptRow
  <2>2. outcome.status # "Running"
    BY <1>4, OutcomeStatus DEF TerminalStatus
  <2>3. QED
    BY <1>2, <1>3, <2>1, <2>2
<1>10. NoneStarts
  BY <1>9 DEF NoneStarts
<1>11. ASSUME NEW t \in Sessions \ {s} PROVE RowsKept(t)
  <2>1. /\ \A p \in Runs : locks[TheRun(p)] = t => p # q
        /\ \A b \in Attempts : locks[TheAttempt(b)] = t \/ locks[TheLease(b)] = t => b # a
    BY <1>5
  <2>2. QED
    BY <1>9, <1>10, <2>1, RoomKept DEF RowsKept
<1>12. /\ tx' \in [Sessions -> Tx] /\ locks' \in [Rows -> Sessions \cup {None}]
       /\ SessionOK(s)' /\ \A t \in Sessions \ {s} : TxKept(t)
  BY <1>1, <1>3, EndedKeeps
<1>13. RunnerWithinLeases'
  BY <1>3, <1>10, RoomKept
<1>14. QED
  BY <1>7, <1>8, <1>11, <1>12, <1>13, WriteKeeps

\* The commit of a cancel is the cancel of GumStore: run and attempt still run.
LEMMA CancelCommitKeeps ==
  ASSUME PgIInv, NEW s \in Sessions, CancelCommit(s)
  PROVE  StepKeeps
<1> DEFINE a == tx[s].attempt
           q == tx[s].run
<1>1. /\ tx[s].step = "cancel_commit" /\ EndTx(s)
      /\ UNCHANGED <<jobs, runs, runners, run_keys, function_health>>
  BY DEF CancelCommit
<1>2. /\ attempts' = [attempts EXCEPT ![a].cancel_requested = TRUE]
      /\ leases' = [leases EXCEPT ![a].revoke_requested = TRUE]
  BY DEF CancelCommit
<1>3. /\ PgTypeOK /\ IInv /\ TypeOK /\ RunnerWithinLeases /\ SessionOK(s)
      /\ attempts \in [Attempts -> AttemptRow] /\ leases \in [Attempts -> LeaseRow]
  BY DEF PgIInv, PgTypeOK, TypeOK
<1>4. Canceling(s) /\ a \in Attempts /\ q \in Runs
  BY <1>1, <1>3 DEF SessionOK, TxKnows, Canceling
<1>5. /\ locks[TheAttempt(a)] = s /\ runs[q].status = "Running"
      /\ attempts[a].status = "Running" /\ attempts[a].run = q
  BY <1>1, <1>3, <1>4 DEF SessionOK, CancelReadsHold
<1> HIDE DEF a, q
<1>6. [Next]_vars
  BY <1>1, <1>2, <1>4, <1>5 DEF Next, CancelRun, CancelRunningRun
<1>7. TableStep /\ TypeOK'
  BY <1>3, <1>6, TypeCorrectStep DEF TableStep
<1>8. /\ \A b \in Attempts : b # a => attempts'[b] = attempts[b] /\ leases'[b] = leases[b]
      /\ attempts'[a].status = attempts[a].status /\ attempts'[a].runner = attempts[a].runner
      /\ leases'[a].state = leases[a].state
  <2>1. /\ attempts'[a] = [attempts[a] EXCEPT !.cancel_requested = TRUE]
        /\ leases'[a] = [leases[a] EXCEPT !.revoke_requested = TRUE]
        /\ \A b \in Attempts : b # a => attempts'[b] = attempts[b] /\ leases'[b] = leases[b]
    BY <1>2, <1>3, <1>4
  <2>2. QED
    BY <1>3, <1>4, <2>1 DEF AttemptRow, LeaseRow
<1>9. NoneStarts
  BY <1>8 DEF NoneStarts
<1>10. ASSUME NEW t \in Sessions \ {s} PROVE RowsKept(t)
  <2>1. \A b \in Attempts : locks[TheAttempt(b)] = t => b # a
    BY <1>5
  <2>2. \A b \in Attempts : leases'[b].state = leases[b].state
    BY <1>8
  <2>3. QED
    BY <1>1, <1>8, <1>9, <2>1, <2>2, RoomKept DEF RowsKept
<1>11. /\ tx' \in [Sessions -> Tx] /\ locks' \in [Rows -> Sessions \cup {None}]
       /\ SessionOK(s)' /\ \A t \in Sessions \ {s} : TxKept(t)
  BY <1>1, <1>3, EndedKeeps
<1>12. RunnerWithinLeases'
  BY <1>3, <1>9, RoomKept
<1>13. QED
  BY <1>7, <1>10, <1>11, <1>12, WriteKeeps

\* An operation of GumStore that is one statement or waits with nothing locked:
\* what remains to show is that it starts nothing and writes no locked row.
LEMMA AloneKeeps ==
  ASSUME PgIInv, [Next]_vars, UNCHANGED <<tx, locks>>, NoneStarts,
         \A s \in Sessions : RowsKept(s)
  PROVE  StepKeeps
<1>1. TypeOK' /\ TableStep /\ RunnerWithinLeases'
  BY TypeCorrectStep, RoomKept DEF PgIInv, PgTypeOK, TableStep
<1>2. \A s \in Sessions : TxKept(s)
  BY DEF TxKept
<1>3. tx' \in [Sessions -> Tx] /\ locks' \in [Rows -> Sessions \cup {None}]
  BY DEF PgIInv, PgTypeOK
<1>4. QED
  BY <1>1, <1>2, <1>3, WriteKeeps

\* An operation that keeps runs, attempts and the states of the leases.
LEMMA UntouchedKeeps ==
  ASSUME PgIInv, [Next]_vars, UNCHANGED <<runs, attempts, tx, locks>>,
         \A a \in Attempts : leases'[a].state = leases[a].state
  PROVE  StepKeeps
<1>1. NoneStarts
  BY DEF NoneStarts
<1>2. \A s \in Sessions : RowsKept(s)
  BY <1>1, RoomKept DEF RowsKept
<1>3. QED
  BY <1>1, <1>2, AloneKeeps

LEMMA HeartbeatKeeps ==
  ASSUME PgIInv, NEW r \in Runners, PgHeartbeat(r)
  PROVE  StepKeeps
<1>1. PICK active \in SUBSET LeasesOf(r) : HeartbeatRunner(r, active)
  BY DEF PgHeartbeat
<1>2. leases \in [Attempts -> LeaseRow]
  BY DEF PgIInv, PgTypeOK, TypeOK
<1>3. \A a \in Attempts : leases'[a].state = leases[a].state
  BY <1>1, <1>2, LeaseColumns DEF HeartbeatRunner
<1>4. UNCHANGED <<runs, attempts, tx, locks>>
  BY <1>1 DEF HeartbeatRunner, PgHeartbeat
<1>5. [Next]_vars
  BY <1>1 DEF Next, Heartbeat
<1>6. QED
  BY <1>3, <1>4, <1>5, UntouchedKeeps

\* An insert finds its row unlocked: nobody locks a row that is not there.
LEMMA InsertKeeps ==
  ASSUME PgIInv, [Next]_vars, UNCHANGED <<attempts, leases, tx, locks>>,
         NEW id \in Runs, NEW row, InsertRun(id, row)
  PROVE  StepKeeps
<1>1. runs[id].status = "none" /\ runs' = [runs EXCEPT ![id] = row]
  BY DEF InsertRun, IsNextId
<1>2. NoneStarts
  BY DEF NoneStarts
<1>3. ASSUME NEW s \in Sessions PROVE RowsKept(s)
  <2>1. \A q \in Runs : locks[TheRun(q)] = s => q # id
    BY <1>1, LockedRun DEF PgIInv
  <2>2. \A q \in Runs : locks[TheRun(q)] = s => runs'[q].status = runs[q].status
    BY <1>1, <2>1 DEF PgIInv, PgTypeOK, TypeOK
  <2>3. QED
    BY <1>2, <2>2, RoomKept DEF RowsKept
<1>4. QED
  BY <1>2, <1>3, AloneKeeps

LEMMA CancelQueuedKeeps ==
  ASSUME PgIInv, NEW q \in Runs, PgCancelQueuedRun(q)
  PROVE  StepKeeps
<1>1. /\ locks[TheRun(q)] = None /\ CancelQueuedRun(q)
      /\ UNCHANGED <<attempts, leases, tx, locks>>
      /\ runs' = [runs EXCEPT ![q].status = "Canceled", ![q].retry_after = 0]
  BY DEF PgCancelQueuedRun, CancelQueuedRun, Free
<1>2. [Next]_vars
  BY <1>1 DEF Next, CancelRun
<1>3. NoneStarts
  BY <1>1 DEF NoneStarts
<1>4. ASSUME NEW s \in Sessions PROVE RowsKept(s)
  <2>1. \A p \in Runs : locks[TheRun(p)] = s => p # q
    BY <1>1, SessionsAssumption
  <2>2. \A p \in Runs : p # q => runs'[p] = runs[p]
    BY <1>1 DEF PgIInv, PgTypeOK, TypeOK
  <2>3. QED
    BY <1>1, <1>3, <2>1, <2>2, RoomKept DEF RowsKept
<1>5. QED
  BY <1>1, <1>2, <1>3, <1>4, AloneKeeps

LEMMA RecoverLostKeeps ==
  ASSUME PgIInv, PgRecoverLostAttempts
  PROVE  StepKeeps
<1>1. TypeOK' /\ TableStep /\ RunnerWithinLeases' /\ \A s \in Sessions : RowsKept(s)
  BY RecoverKeepsRows DEF PgRecoverLostAttempts
<1>2. UNCHANGED <<tx, locks>>
  BY DEF PgRecoverLostAttempts
<1>3. \A s \in Sessions : TxKept(s)
  BY <1>2 DEF TxKept
<1>4. tx' \in [Sessions -> Tx] /\ locks' \in [Rows -> Sessions \cup {None}]
  BY <1>2 DEF PgIInv, PgTypeOK
<1>5. QED
  BY <1>1, <1>3, <1>4, WriteKeeps

\* Time changes nothing a transaction has read, but the hold it is to write.
LEMMA TickKeeps ==
  ASSUME PgIInv, PgTick
  PROVE  StepKeeps
<1>1. Tick /\ locks' = locks
  BY DEF PgTick
<1>2. /\ TypeOK /\ PgTypeOK /\ tx \in [Sessions -> Tx] /\ RunnerWithinLeases
      /\ runs \in [Runs -> RunRow] /\ attempts \in [Attempts -> AttemptRow]
      /\ leases \in [Attempts -> LeaseRow]
      /\ locks \in [Rows -> Sessions \cup {None}]
  BY DEF PgIInv, PgTypeOK, TypeOK
<1>3. TypeOK' /\ TableStep
  BY <1>1, <1>2, TypeCorrectStep DEF Next, TableStep
<1>4. \A q \in Runs : runs'[q].status = runs[q].status
  BY <1>1, <1>2, RunColumns DEF Tick
<1>5. \A a \in Attempts :
        /\ attempts'[a].status = attempts[a].status /\ attempts'[a].run = attempts[a].run
        /\ attempts'[a].runner = attempts[a].runner
        /\ attempts'[a].cancel_requested = attempts[a].cancel_requested
  <2>1. \A row \in AttemptRow :
          LET new == [row EXCEPT !.window = Less(@)]
          IN /\ new.status = row.status /\ new.run = row.run /\ new.runner = row.runner
             /\ new.cancel_requested = row.cancel_requested
    BY DEF AttemptRow
  <2>2. QED
    BY <1>1, <1>2, <2>1 DEF Tick
<1>6. \A a \in Attempts : leases'[a].state = leases[a].state
  BY <1>1, <1>2, LeaseColumns DEF Tick
<1>7. NoneStarts
  BY <1>5 DEF NoneStarts
<1>8. \A s \in Sessions : RowsKept(s)
  BY <1>4, <1>5, <1>6, <1>7, RoomKept DEF RowsKept
<1>9. ASSUME NEW s \in Sessions PROVE tx'[s] \in Tx /\ TxKept(s)
  <2>1. tx[s] \in Tx
    BY <1>2
  <2>2. tx'[s] = IF tx[s].health = None THEN tx[s]
                 ELSE [tx[s] EXCEPT !.health = AgedHealth(@)]
    BY DEF PgTick
  <2>3. /\ tx'[s] \in Tx /\ tx'[s].step = tx[s].step /\ tx'[s].runner = tx[s].runner
        /\ tx'[s].run = tx[s].run /\ tx'[s].attempt = tx[s].attempt
        /\ tx'[s].outcome = tx[s].outcome /\ tx'[s].candidates = tx[s].candidates
        /\ tx[s].health \in Health => tx'[s].health \in Health
    BY <2>1, <2>2, AgedRow
  <2>4. QED
    BY <1>1, <2>3 DEF TxKept
<1>10. tx' \in [Sessions -> Tx]
  <2>1. tx' = [s \in Sessions |-> tx'[s]]
    BY DEF PgTick
  <2>2. QED
    BY <1>9, <2>1
<1>11. RunnerWithinLeases'
  BY <1>2, <1>7, RoomKept
<1>12. QED
  BY <1>1, <1>2, <1>3, <1>8, <1>9, <1>10, <1>11, WriteKeeps

LEMMA PgStepKeeps == PgIInv /\ [PgNext]_pgVars => StepKeeps
<1> SUFFICES ASSUME PgIInv, [PgNext]_pgVars PROVE StepKeeps
  OBVIOUS
<1>1. CASE UNCHANGED pgVars
  <2>1. UNCHANGED <<runs, attempts, leases, tx, locks>> /\ [Next]_vars
    BY <1>1 DEF pgVars, vars
  <2>2. QED
    BY <2>1, UntouchedKeeps
<1>2. CASE PgDeploy
  <2>1. UNCHANGED <<runs, attempts, leases, tx, locks>> /\ [Next]_vars
    BY <1>2 DEF PgDeploy, Deploy, RegisterDeploy, Next
  <2>2. QED
    BY <2>1, UntouchedKeeps
<1>3. ASSUME NEW r \in Runners, PgRegisterRunner(r) PROVE StepKeeps
  <2>1. UNCHANGED <<runs, attempts, leases, tx, locks>> /\ [Next]_vars
    BY <1>3 DEF PgRegisterRunner, RegisterRunner, Next
  <2>2. QED
    BY <2>1, UntouchedKeeps
<1>4. CASE PgEnqueue
  <2>1. PICK id \in Runs, job \in Jobs, key \in Keys \cup {None}, delay \in Delays :
          EnqueueRun(id, job, key, delay)
    BY <1>4 DEF PgEnqueue, Enqueue
  <2>2. /\ [Next]_vars /\ UNCHANGED <<attempts, leases, tx, locks>>
        /\ InsertRun(id, QueuedRun(job, jobs[job].retries + 1, delay))
    BY <1>4, <2>1 DEF PgEnqueue, EnqueueRun, Next
  <2>3. QED
    BY <2>2, InsertKeeps
<1>5. CASE PgReplay
  <2>1. PICK id \in Runs, source \in Runs : ReplayRun(id, source)
    BY <1>5 DEF PgReplay, Replay
  <2>2. /\ [Next]_vars /\ UNCHANGED <<attempts, leases, tx, locks>>
        /\ InsertRun(id, QueuedRun(runs[source].job, runs[source].max_attempts, 0))
    BY <1>5, <2>1 DEF PgReplay, ReplayRun, Next
  <2>3. QED
    BY <2>2, InsertKeeps
<1>6. ASSUME NEW s \in Sessions,
             LeaseNothing(s) \/ LeasePickNothing(s) \/ CompleteRefused(s) \/ Abort(s)
      PROVE  StepKeeps
  <2>1. EndTx(s) /\ UNCHANGED vars
    BY <1>6 DEF LeaseNothing, LeasePickNothing, CompleteRefused, Abort
  <2>2. QED
    BY <2>1, QuietEndKeeps
<1>7. QED
  BY <1>1, <1>2, <1>3, <1>4, <1>5, <1>6, HeartbeatKeeps, RecoverLostKeeps, TickKeeps,
     CancelQueuedKeeps, LeasePollKeeps, LeaseSelectKeeps, LeasePickKeeps, LeaseCommitKeeps,
     CompleteLockAttemptKeeps, CompleteLockLeaseKeeps, CompleteLockRunKeeps,
     CompleteCommitKeeps, CancelLockRunKeeps, CancelLockAttemptKeeps, CancelCommitKeeps
     DEF PgNext

-------------------------------------------------------------------------------
(* The invariant holds                                                         *)

LEMMA PgInvariantInit == PgInit => PgIInv
<1> SUFFICES ASSUME PgInit PROVE PgIInv
  OBVIOUS
<1>1. /\ Init /\ tx = [s \in Sessions |-> NoTx] /\ locks = [row \in Rows |-> None]
  BY DEF PgInit
<1>2. IInv
  BY <1>1, InvariantInit
<1>3. PgTypeOK
  BY <1>1, <1>2, NoTxRow DEF PgTypeOK, IInv
<1>4. ASSUME NEW s \in Sessions PROVE SessionOK(s)
  <2>1. tx[s].step = "idle"
    BY <1>1, NoTxRow
  <2>2. \A row \in Rows : locks[row] # s
    BY <1>1, SessionsAssumption
  <2>3. LocksExplained(s)
    BY <2>2, RowsDiffer DEF LocksExplained
  <2>4. QED
    BY <2>1, <2>3 DEF SessionOK, TxKnows, LeaseReadsHold, CompleteReadsHold,
                      CancelReadsHold, Leasing, Completing, Canceling
<1>5. RunnerWithinLeases
  <2>1. \A r \in Runners : RunningOnRunner(attempts, r) = {}
    BY <1>1 DEF Init, NoAttempt, RunningOnRunner, RunningAttempts
  <2>2. QED
    BY <2>1, FS_EmptySet, RunnerSpecAssumption DEF RunnerWithinLeases
<1>6. QED
  BY <1>2, <1>3, <1>4, <1>5 DEF PgIInv

LEMMA PgInvariantStep == PgIInv /\ [PgNext]_pgVars => PgIInv'
<1> SUFFICES ASSUME PgIInv, [PgNext]_pgVars PROVE PgIInv'
  OBVIOUS
<1>1. StepKeeps
  BY PgStepKeeps
<1>2. /\ Consistent(runs', attempts', leases')
      /\ \A q \in Runs : RowStep(runs[q], runs'[q])
  BY <1>1, TableStepKeeps DEF StepKeeps, PgIInv
<1>3. JobsKnown'
  BY <1>2, JobsStayKnown DEF PgIInv, IInv
<1>4. QED
  BY <1>1, <1>2, <1>3 DEF StepKeeps, PgIInv, PgTypeOK, IInv

\* Every state the transactions reach satisfies the invariant.
THEOREM PgInvariantCorrect == PgSpec => []PgIInv
BY PgInvariantInit, PgInvariantStep, PTL DEF PgSpec

-------------------------------------------------------------------------------
(* Theorems                                                                    *)

\* Whatever the interleaving of the transactions, the database stays well typed,
\* and so does what each transaction remembers.
THEOREM PgTypeCorrect == PgSpec => []PgTypeOK
<1>1. PgIInv => PgTypeOK
  BY DEF PgIInv
<1>2. QED
  BY <1>1, PgInvariantCorrect, PTL

\* What a transaction read under its locks holds until it commits.
THEOREM LockedReadsHoldCorrect == PgSpec => []LockedReadsHold
<1>1. PgIInv => LockedReadsHold
  BY DEF PgIInv, SessionOK, LockedReadsHold
<1>2. QED
  BY <1>1, PgInvariantCorrect, PTL

\* No interleaving of polls gives a runner more than max_concurrent_leases.
THEOREM RunnerWithinLeasesCorrect == PgSpec => []RunnerWithinLeases
<1>1. PgIInv => RunnerWithinLeases
  BY DEF PgIInv
<1>2. QED
  BY <1>1, PgInvariantCorrect, PTL

\* The interleaved transactions keep the attempts of a run numbered within its
\* budget, as the operations of the memory store do.
THEOREM PgAttemptsNumberedCorrect == PgSpec => []AttemptsNumbered
<1>1. PgIInv => AttemptsNumbered
  BY AttemptsNumberedHolds DEF PgIInv
<1>2. QED
  BY <1>1, PgInvariantCorrect, PTL

\* No interleaving leaves a run Running without its one running attempt.
THEOREM PgRunningHasOneAttemptCorrect == PgSpec => []RunningHasOneAttempt
<1>1. PgIInv => RunningHasOneAttempt
  BY RunningHasOneAttemptHolds DEF PgIInv
<1>2. QED
  BY <1>1, PgInvariantCorrect, PTL

\* A completion racing a recovery, a poll or a cancel: a success is that of the
\* latest attempt and ends the run.
THEOREM PgSuccessIsFinalCorrect == PgSpec => []SuccessIsFinal
<1>1. PgIInv => SuccessIsFinal
  BY SuccessIsFinalHolds DEF PgIInv
<1>2. QED
  BY <1>1, PgInvariantCorrect, PTL

\* A cancel that committed first beats the completion it raced.
THEOREM PgCancelBeatsCompletionCorrect == PgSpec => []CancelBeatsCompletion
<1>1. PgIInv => CancelBeatsCompletion
  BY CancelBeatsCompletionHolds DEF PgIInv
<1>2. QED
  BY <1>1, PgInvariantCorrect, PTL

\* No transaction changes a run in a final status.
THEOREM PgFinalIsForeverCorrect == PgSpec => FinalIsForever
<1>1. PgIInv /\ [PgNext]_pgVars =>
        [\A q \in Runs : runs[q].status \in TerminalStatus => runs'[q] = runs[q]]_vars
  BY PgStepKeeps, TableStepKeeps DEF StepKeeps, PgIInv
<1>2. QED
  BY <1>1, PgInvariantCorrect, PTL DEF PgSpec, FinalIsForever

\* The PostgreSQL store implements the life cycle of its runs too.
THEOREM PgRunsFollowLifecycleCorrect == PgSpec => RunsFollowLifecycle
<1>1. PgInit => Lifecycle!LifecycleInit
  BY DEF PgInit, Init, NoRun, Lifecycle!LifecycleInit
<1>2. PgIInv /\ [PgNext]_pgVars => [Lifecycle!LifecycleNext]_(Lifecycle!lifecycleVars)
  BY PgStepKeeps, TableStepKeeps, RowStepIsLifecycleStep
     DEF StepKeeps, PgIInv, Lifecycle!LifecycleNext
<1>3. QED
  BY <1>1, <1>2, PgInvariantCorrect, PTL
     DEF PgSpec, RunsFollowLifecycle, Lifecycle!LifecycleSpec

-------------------------------------------------------------------------------
(* Deadlocks.  A transaction that waits and is waited for has its first locks   *)
(* and not its last: only completions and cancels are ever there.              *)

\* The lease of an attempt is only locked by a completion that locked the attempt.
LEMMA LeaseHolderHoldsAttempt ==
  ASSUME NEW s \in Sessions, SessionOK(s), NEW a \in Attempts, locks[TheLease(a)] = s
  PROVE  locks[TheAttempt(a)] = s
<1>1. Completing(s) /\ a = tx[s].attempt
  BY DEF SessionOK, LocksExplained, Completing
<1>2. QED
  BY <1>1 DEF SessionOK, CompleteReadsHold

LEMMA RunningUnique ==
  ASSUME IInv, NEW a \in Attempts, NEW b \in Attempts,
         attempts[a].status = "Running", attempts[b].status = "Running",
         attempts[a].run = attempts[b].run
  PROVE  a = b
BY DEF IInv, Consistent, RunningIsLatest, Latest, NumbersUnique

\* A completion that waits for the run of its attempt: a cancel holds it, which
\* then waits for that attempt if it waits at all.
LEMMA CompletionWaits ==
  ASSUME PgIInv, NEW s \in Sessions, NEW t \in Sessions, NEW u \in Sessions,
         WaitsFor(s, t), WaitsFor(t, u), tx[s].step = "complete_run"
  PROVE  u = s /\ tx[t].step = "cancel_attempt" /\ attempts[tx[s].attempt].run = tx[t].run
<1> DEFINE a == tx[s].attempt
           q == attempts[a].run
<1>1. IInv /\ SessionOK(s) /\ SessionOK(t) /\ SessionOK(u)
  BY DEF PgIInv
<1>2. s # t /\ t # u /\ locks[TheRun(q)] = t
  BY DEF WaitsFor
<1>3. a \in Attempts /\ attempts[a].status = "Running" /\ locks[TheAttempt(a)] = s
  BY <1>1 DEF SessionOK, TxKnows, CompleteReadsHold, Completing
<1>4. q \in Runs
  BY <1>1, <1>3 DEF IInv, Consistent, AttemptsLinked
<1>5. tx[t].step \in {"select", "complete_lease", "cancel_commit", "complete_run", "cancel_attempt"}
  BY DEF WaitsFor
<1>6. Canceling(t) /\ q = tx[t].run
  BY <1>1, <1>2, <1>4, <1>5, LockedRun DEF Leasing
<1>7. tx[t].step # "cancel_commit"
  <2> SUFFICES ASSUME tx[t].step = "cancel_commit" PROVE FALSE
    OBVIOUS
  <2>1. /\ tx[t].attempt \in Attempts /\ locks[TheAttempt(tx[t].attempt)] = t
        /\ attempts[tx[t].attempt].status = "Running" /\ attempts[tx[t].attempt].run = q
    BY <1>1, <1>6 DEF SessionOK, TxKnows, CancelReadsHold
  <2>2. tx[t].attempt = a
    BY <1>1, <1>3, <2>1, RunningUnique
  <2>3. QED
    BY <1>2, <1>3, <2>1, <2>2
<1>8. tx[t].step = "cancel_attempt"
  BY <1>6, <1>7 DEF Canceling
<1>9. PICK b \in Attempts : /\ attempts[b].status = "Running" /\ attempts[b].run = q
                            /\ locks[TheAttempt(b)] = u
  BY <1>6, <1>8 DEF WaitsFor
<1>10. b = a
  BY <1>1, <1>3, <1>9, RunningUnique
<1>11. QED
  BY <1>3, <1>6, <1>8, <1>9, <1>10

\* A cancel that waits for the attempt of its run: a completion holds it, which
\* then waits for that run if it waits at all.
LEMMA CancelWaits ==
  ASSUME PgIInv, NEW s \in Sessions, NEW t \in Sessions, NEW u \in Sessions,
         WaitsFor(s, t), WaitsFor(t, u), tx[s].step = "cancel_attempt"
  PROVE  u = s /\ tx[t].step = "complete_run" /\ attempts[tx[t].attempt].run = tx[s].run
<1> DEFINE q == tx[s].run
<1>1. IInv /\ SessionOK(s) /\ SessionOK(t) /\ SessionOK(u)
  BY DEF PgIInv
<1>2. s # t /\ t # u
  BY DEF WaitsFor
<1>3. PICK a \in Attempts : /\ attempts[a].status = "Running" /\ attempts[a].run = q
                            /\ locks[TheAttempt(a)] = t
  BY DEF WaitsFor
<1>4. locks[TheRun(q)] = s
  BY <1>1 DEF SessionOK, CancelReadsHold, Canceling
<1>5. (Completing(t) \/ tx[t].step = "cancel_commit") /\ a = tx[t].attempt
  BY <1>1, <1>3 DEF SessionOK, LocksExplained
<1>6. tx[t].step # "cancel_commit"
  <2> SUFFICES ASSUME tx[t].step = "cancel_commit" PROVE FALSE
    OBVIOUS
  <2>1. locks[TheRun(tx[t].run)] = t /\ attempts[a].run = tx[t].run
    BY <1>1, <1>5 DEF SessionOK, CancelReadsHold, Canceling
  <2>2. QED
    BY <1>2, <1>3, <1>4, <2>1
<1>7. tx[t].step # "complete_lease"
  <2> SUFFICES ASSUME tx[t].step = "complete_lease" PROVE FALSE
    OBVIOUS
  <2>1. locks[TheLease(a)] = u
    BY <1>5 DEF WaitsFor
  <2>2. locks[TheAttempt(a)] = u
    BY <1>1, <2>1, LeaseHolderHoldsAttempt
  <2>3. QED
    BY <1>2, <1>3, <2>2
<1>8. tx[t].step = "complete_run"
  BY <1>5, <1>6, <1>7 DEF Completing, WaitsFor
<1>9. locks[TheRun(q)] = u
  BY <1>3, <1>5, <1>8 DEF WaitsFor
<1>10. QED
  BY <1>3, <1>4, <1>5, <1>8, <1>9

\* No other transaction is waited for by one that waits.
LEMMA OthersDoNotChain ==
  ASSUME PgIInv, NEW s \in Sessions, NEW t \in Sessions, NEW u \in Sessions,
         WaitsFor(s, t), WaitsFor(t, u)
  PROVE  tx[s].step \in {"complete_run", "cancel_attempt"}
<1>1. IInv /\ SessionOK(s) /\ SessionOK(t) /\ s # t
  BY DEF PgIInv, WaitsFor
<1>2. tx[t].step \in {"select", "complete_lease", "cancel_commit", "complete_run", "cancel_attempt"}
  BY DEF WaitsFor
<1>3. tx[s].step # "select"
  <2> SUFFICES ASSUME tx[s].step = "select" PROVE FALSE
    OBVIOUS
  <2>1. tx[s].runner \in Runners /\ locks[RunnerRow(tx[s].runner)] = t
    BY <1>1 DEF SessionOK, TxKnows, WaitsFor
  <2>2. Leasing(t)
    BY <1>1, <2>1 DEF SessionOK, LocksExplained
  <2>3. QED
    BY <1>2, <2>2 DEF Leasing
<1>4. tx[s].step \notin {"complete_lease", "cancel_commit"}
  <2> SUFFICES ASSUME tx[s].step \in {"complete_lease", "cancel_commit"} PROVE FALSE
    OBVIOUS
  <2>1. locks[TheLease(tx[s].attempt)] = t
    BY DEF WaitsFor
  <2>2. tx[s].attempt \in Attempts /\ locks[TheAttempt(tx[s].attempt)] = s
    BY <1>1 DEF SessionOK, TxKnows, CompleteReadsHold, CancelReadsHold, Completing, Canceling
  <2>3. QED
    BY <1>1, <2>1, <2>2, LeaseHolderHoldsAttempt
<1>5. QED
  BY <1>3, <1>4 DEF WaitsFor

\* Of polls, completions and cancels, only a completion and a cancel of the same
\* run can wait for each other; no longer cycle exists.
THEOREM OnlyCancelDeadlocksCorrect == PgSpec => []OnlyCancelDeadlocks
<1>1. ASSUME PgIInv PROVE OnlyCancelDeadlocks
  <2> SUFFICES ASSUME NEW s \in Sessions, NEW t \in Sessions, NEW u \in Sessions,
                      WaitsFor(s, t), WaitsFor(t, u)
               PROVE  /\ u = s
                      /\ \E c \in {s, t} : \E d \in {s, t} \ {c} :
                           /\ tx[c].step = "complete_run" /\ tx[d].step = "cancel_attempt"
                           /\ attempts[tx[c].attempt].run = tx[d].run
    BY DEF OnlyCancelDeadlocks
  <2>1. s # t
    BY DEF WaitsFor
  <2>2. CASE tx[s].step = "complete_run"
    BY <1>1, <2>1, <2>2, CompletionWaits
  <2>3. CASE tx[s].step = "cancel_attempt"
    BY <1>1, <2>1, <2>3, CancelWaits
  <2>4. QED
    BY <1>1, <2>2, <2>3, OthersDoNotChain
<1>2. PgIInv => OnlyCancelDeadlocks
  BY <1>1
<1>3. QED
  BY <1>2, PgInvariantCorrect, PTL

-------------------------------------------------------------------------------
(* How far the polls in flight take a job or a pool beyond its limit: each      *)
(* counts before the others commit what they start.                             *)

\* The polls that counted the attempts of job j and may start one more of it.
Starters(j) == {s \in Sessions : Leasing(s) /\ \E q \in tx[s].candidates : runs[q].job = j}

\* The polls that counted the starts of their pool and have one to commit.
Pickers == {s \in Sessions : tx[s].step = "start"}

\* The attempts that started within the window of the rate limits.
Recent == {a \in Attempts : attempts[a].window > 0}

Weight(A, S) == Cardinality(A) + Cardinality(S)

\* No policy a deploy may give a job lets more than n of its attempts run.
ConcurrencyAtMost(n) ==
  \A spec \in JobSpecs : spec.concurrency_limit # None /\ spec.concurrency_limit <= n

\* Every policy draws on the same pool, for at most n starts in a window.
SharedPool(n) ==
  \A spec, other \in JobSpecs :
    /\ spec.rate_limit # None /\ spec.rate_limit.limit <= n
    /\ spec.rate_limit.pool # None
    /\ other.rate_limit # None => other.rate_limit.pool = spec.rate_limit.pool

StartersCounted ==
  \A n \in Nat : ConcurrencyAtMost(n) => \A j \in Jobs :
    Weight(RunningOfJob(runs, attempts, j), Starters(j)) + 1 <= n + Cardinality(Sessions)

PickersCounted ==
  \A n \in Nat : SharedPool(n) =>
    Weight(Recent, Pickers) + 1 <= n + Cardinality(Sessions)

\* The runs are of jobs that have a policy, and only attempts that were started
\* count against a rate limit.
CountedExist ==
  /\ \A q \in Runs : runs[q].status # "none" => jobs[runs[q].job] # None
  /\ \A a \in Attempts : attempts[a].status = "none" => attempts[a].window = 0

RaceIInv == PgIInv /\ CountedExist /\ StartersCounted /\ PickersCounted

LEMMA LessWeight ==
  ASSUME NEW A, IsFiniteSet(A), NEW S, IsFiniteSet(S),
         NEW B, B \subseteq A, NEW T, T \subseteq S
  PROVE  Weight(A, S) \in Nat /\ Weight(B, T) \in Nat /\ Weight(B, T) <= Weight(A, S)
BY FS_Subset, FS_CardinalityType DEF Weight

\* A poll that commits becomes a running attempt.
LEMMA WeightMoves ==
  ASSUME NEW A, IsFiniteSet(A), NEW S, IsFiniteSet(S), NEW id, NEW s \in S,
         NEW B, B \subseteq A \cup {id}, NEW T, T \subseteq S \ {s}
  PROVE  Weight(A, S) \in Nat /\ Weight(B, T) \in Nat /\ Weight(B, T) <= Weight(A, S)
<1>1. /\ Cardinality(A) \in Nat /\ Cardinality(S) \in Nat
      /\ IsFiniteSet(A \cup {id}) /\ Cardinality(A \cup {id}) \in Nat
      /\ Cardinality(A \cup {id}) <= Cardinality(A) + 1
  <2>1. Cardinality(A) \in Nat /\ Cardinality(S) \in Nat
    BY FS_CardinalityType
  <2>2. /\ IsFiniteSet(A \cup {id})
        /\ \/ Cardinality(A \cup {id}) = Cardinality(A)
           \/ Cardinality(A \cup {id}) = Cardinality(A) + 1
    BY FS_AddElement, Zenon
  <2>3. QED
    BY <2>1, <2>2
<1>2. /\ IsFiniteSet(S \ {s}) /\ Cardinality(S \ {s}) = Cardinality(S) - 1
      /\ Cardinality(S \ {s}) \in Nat
  BY <1>1, FS_RemoveElement, FS_CardinalityType
<1>3. /\ Cardinality(B) \in Nat /\ Cardinality(B) <= Cardinality(A \cup {id})
      /\ Cardinality(T) \in Nat /\ Cardinality(T) <= Cardinality(S \ {s})
  BY <1>1, <1>2, FS_Subset, FS_CardinalityType
<1>4. QED
  BY <1>1, <1>2, <1>3 DEF Weight

\* A count below the limit, and every session a poll that made it.
LEMMA WeightBelow ==
  ASSUME IsFiniteSet(Sessions), NEW A, IsFiniteSet(A), NEW T \in SUBSET Sessions,
         NEW limit \in Nat, NEW n \in Nat, limit <= n, Cardinality(A) < limit
  PROVE  Weight(A, T) + 1 <= n + Cardinality(Sessions)
<1>1. /\ Cardinality(A) \in Nat /\ Cardinality(Sessions) \in Nat /\ Cardinality(T) \in Nat
      /\ Cardinality(T) <= Cardinality(Sessions)
  BY FS_CardinalityType, FS_Subset
<1>2. QED
  BY <1>1 DEF Weight

LEMMA CountedFinite ==
  ASSUME IsFiniteSet(Sessions)
  PROVE  /\ \A rs, ats, j : IsFiniteSet(RunningOfJob(rs, ats, j))
         /\ IsFiniteSet(Recent) /\ IsFiniteSet(Recent)'
         /\ \A j : IsFiniteSet(Starters(j)) /\ IsFiniteSet(Starters(j))'
         /\ IsFiniteSet(Pickers) /\ IsFiniteSet(Pickers)'
<1>1. IsFiniteSet(Attempts)
  BY FS_Interval, BoundsAssumption DEF Attempts
<1>2. /\ \A rs, ats, j : RunningOfJob(rs, ats, j) \in SUBSET Attempts
      /\ Recent \in SUBSET Attempts /\ Recent' \in SUBSET Attempts
  BY DEF RunningOfJob, RunningAttempts, Recent
<1>3. /\ \A j : Starters(j) \in SUBSET Sessions /\ Starters(j)' \in SUBSET Sessions
      /\ Pickers \in SUBSET Sessions /\ Pickers' \in SUBSET Sessions
  BY DEF Starters, Pickers
<1>4. \A A \in SUBSET Attempts : IsFiniteSet(A)
  BY <1>1, FS_Subset
<1>5. \A T \in SUBSET Sessions : IsFiniteSet(T)
  BY FS_Subset
<1>6. QED
  BY <1>2, <1>3, <1>4, <1>5

\* What every step but the commit of a poll does to an attempt.
Eased(row, next) ==
  /\ next.status = "none" => row.status = "none"
  /\ next.status = "Running" => row.status = "Running"
  /\ next.window > 0 => row.window > 0
  /\ next.run = row.run

LEMMA RowsEase ==
  ASSUME NEW row \in AttemptRow
  PROVE  /\ Eased(row, row)
         /\ Eased(row, [row EXCEPT !.cancel_requested = TRUE])
         /\ Eased(row, [row EXCEPT !.window = Less(@)])
         /\ \A status \in TerminalStatus : Eased(row, [row EXCEPT !.status = status])
<1>1. Eased(row, row) /\ Eased(row, [row EXCEPT !.cancel_requested = TRUE])
  BY DEF Eased, AttemptRow
<1>2. Eased(row, [row EXCEPT !.window = Less(@)])
  BY DEF Eased, AttemptRow, Less
<1>3. ASSUME NEW status \in TerminalStatus PROVE Eased(row, [row EXCEPT !.status = status])
  BY DEF Eased, AttemptRow, TerminalStatus
<1>4. QED
  BY <1>1, <1>2, <1>3

LEMMA AttemptsEase ==
  ASSUME PgIInv, [PgNext]_pgVars, NEW a \in Attempts,
         \A s \in Sessions, id \in Attempts : ~LeaseCommit(s, id)
  PROVE  Eased(attempts[a], attempts'[a])
<1>1. attempts \in [Attempts -> AttemptRow] /\ attempts[a] \in AttemptRow
  BY DEF PgIInv, PgTypeOK, TypeOK
<1>2. CASE attempts' = attempts
  BY <1>1, <1>2, RowsEase
<1>3. CASE Recover
  <2>1. CASE a \in Recoverable
    <3>1. attempts'[a] = [attempts[a] EXCEPT !.status = "Failed"]
      BY <1>3, <2>1 DEF Recover, RecoveredAttempts
    <3>2. QED
      BY <1>1, <3>1, RowsEase DEF TerminalStatus
  <2>2. CASE a \notin Recoverable
    BY <1>1, <1>3, <2>2, RowsEase DEF Recover, RecoveredAttempts
  <2>3. QED
    BY <2>1, <2>2
<1>4. ASSUME NEW s \in Sessions, CompleteCommit(s) PROVE Eased(attempts[a], attempts'[a])
  <2>1. tx[s].outcome \in Outcomes
    BY <1>4 DEF CompleteCommit, PgIInv, SessionOK, TxKnows, Completing
  <2>2. tx[s].outcome.status \in TerminalStatus
    BY <2>1 DEF Outcomes, TerminalStatus
  <2>3. \/ attempts'[a] = attempts[a]
        \/ attempts'[a] = [attempts[a] EXCEPT !.status = tx[s].outcome.status]
    BY <1>1, <1>4 DEF CompleteCommit
  <2>4. QED
    BY <1>1, <2>2, <2>3, RowsEase
<1>5. ASSUME NEW s \in Sessions, CancelCommit(s) PROVE Eased(attempts[a], attempts'[a])
  <2>1. \/ attempts'[a] = attempts[a]
        \/ attempts'[a] = [attempts[a] EXCEPT !.cancel_requested = TRUE]
    BY <1>1, <1>5 DEF CancelCommit
  <2>2. QED
    BY <1>1, <2>1, RowsEase
<1>6. CASE PgTick
  <2>1. attempts'[a] = [attempts[a] EXCEPT !.window = Less(@)]
    BY <1>6 DEF PgTick, Tick
  <2>2. QED
    BY <1>1, <2>1, RowsEase
<1>7. ASSUME NEW s \in Sessions, NEW r \in Runners, LeasePoll(s, r)
      PROVE  Eased(attempts[a], attempts'[a])
  BY <1>3, <1>7 DEF LeasePoll
<1>8. CASE PgRecoverLostAttempts
  BY <1>3, <1>8 DEF PgRecoverLostAttempts
<1>9. ASSUME \/ PgDeploy \/ PgEnqueue \/ PgReplay \/ UNCHANGED pgVars
             \/ \E r \in Runners : PgRegisterRunner(r) \/ PgHeartbeat(r)
             \/ \E q \in Runs : PgCancelQueuedRun(q)
      PROVE  attempts' = attempts
  BY <1>9 DEF PgDeploy, Deploy, RegisterDeploy, PgEnqueue, Enqueue, EnqueueRun, PgReplay, Replay,
              ReplayRun, pgVars, PgRegisterRunner, RegisterRunner, PgHeartbeat, HeartbeatRunner,
              PgCancelQueuedRun, CancelQueuedRun
<1>10. ASSUME NEW s \in Sessions,
              \/ LeaseSelect(s) \/ LeaseNothing(s) \/ LeasePick(s) \/ LeasePickNothing(s)
              \/ \E r \in Runners, b \in Attempts, outcome \in Outcomes :
                   CompleteLockAttempt(s, r, b, outcome)
              \/ CompleteLockLease(s) \/ CompleteRefused(s) \/ CompleteLockRun(s)
              \/ \E q \in Runs : CancelLockRun(s, q)
              \/ \E b \in Attempts : CancelLockAttempt(s, b)
              \/ Abort(s)
       PROVE  attempts' = attempts
  BY <1>10 DEF LeaseSelect, LeaseNothing, LeasePick, LeasePickNothing, CompleteLockAttempt,
               CompleteLockLease, CompleteRefused, CompleteLockRun, CancelLockRun,
               CancelLockAttempt, Abort, vars
<1>11. QED
  BY <1>2, <1>4, <1>5, <1>6, <1>7, <1>8, <1>9, <1>10 DEF PgNext

\* Only the selection of a poll makes it one that may start runs, and only its
\* pick chooses one.
LEMMA PollsEase ==
  ASSUME PgIInv, [PgNext]_pgVars, NEW s \in Sessions
  PROVE  /\ Leasing(s)' => LeaseSelect(s) \/ (Leasing(s) /\ tx'[s].candidates = tx[s].candidates)
         /\ tx'[s].step = "start" =>
              LeasePick(s) \/ (tx[s].step = "start" /\ tx'[s].run = tx[s].run)
<1> DEFINE Goal == /\ Leasing(s)' =>
                        LeaseSelect(s) \/ (Leasing(s) /\ tx'[s].candidates = tx[s].candidates)
                   /\ tx'[s].step = "start" =>
                        LeasePick(s) \/ (tx[s].step = "start" /\ tx'[s].run = tx[s].run)
<1>1. tx \in [Sessions -> Tx] /\ tx[s] \in Tx
  BY DEF PgIInv, PgTypeOK
<1>2. CASE tx'[s] = tx[s]
  BY <1>2 DEF Leasing
<1>3. CASE tx'[s].step \notin {"pick", "start"}
  BY <1>3 DEF Leasing
<1>4. CASE LeaseSelect(s)
  <2>1. tx' = [tx EXCEPT ![s] = [tx[s] EXCEPT !.step = "pick", !.candidates = Candidates]]
    BY <1>4 DEF LeaseSelect
  <2>2. Candidates \in SUBSET Runs
    BY DEF Candidates
  <2>3. tx'[s].step = "pick"
    BY <1>1, <2>1, <2>2, PickRow
  <2>4. QED
    BY <1>4, <2>3
<1>5. CASE LeasePick(s)
  <2>1. PICK q \in Pickable(s) : tx' = [tx EXCEPT ![s] = [tx[s] EXCEPT !.step = "start", !.run = q]]
    BY <1>5 DEF LeasePick
  <2>2. q \in Runs /\ tx[s].step = "pick"
    BY <1>1, <1>5 DEF LeasePick, Pickable, Tx
  <2>3. tx'[s].candidates = tx[s].candidates
    BY <1>1, <2>1, <2>2, StartRow
  <2>4. QED
    BY <1>5, <2>2, <2>3 DEF Leasing
<1>6. CASE PgTick
  <2>1. tx'[s] = IF tx[s].health = None THEN tx[s]
                 ELSE [tx[s] EXCEPT !.health = AgedHealth(@)]
    BY <1>6 DEF PgTick
  <2>2. /\ tx'[s].step = tx[s].step /\ tx'[s].run = tx[s].run
        /\ tx'[s].candidates = tx[s].candidates
    BY <1>1, <2>1, AgedRow
  <2>3. QED
    BY <2>2 DEF Leasing
<1>7. ASSUME NEW t \in Sessions, EndTx(t) PROVE Goal
  <2>1. tx'[s] = tx[s] \/ tx'[s] = NoTx
    BY <1>1, <1>7 DEF EndTx
  <2>2. QED
    BY <1>2, <1>3, <2>1, NoTxRow
<1>8. ASSUME NEW t \in Sessions, t # s,
             \/ \E r \in Runners : LeasePoll(t, r)
             \/ LeaseSelect(t) \/ LeasePick(t)
             \/ \E r \in Runners, a \in Attempts, outcome \in Outcomes :
                  CompleteLockAttempt(t, r, a, outcome)
             \/ CompleteLockLease(t) \/ CompleteLockRun(t)
             \/ \E q \in Runs : CancelLockRun(t, q)
             \/ \E a \in Attempts : CancelLockAttempt(t, a)
      PROVE  Goal
  <2>1. tx'[s] = tx[s]
    BY <1>1, <1>8 DEF LeasePoll, LeaseSelect, LeasePick, CompleteLockAttempt, CompleteLockLease,
                      CompleteLockRun, CancelLockRun, CancelLockAttempt
  <2>2. QED
    BY <1>2, <2>1
<1>9. CASE \/ \E r \in Runners : LeasePoll(s, r)
           \/ \E r \in Runners, a \in Attempts, outcome \in Outcomes :
                CompleteLockAttempt(s, r, a, outcome)
           \/ CompleteLockLease(s) \/ CompleteLockRun(s)
           \/ \E q \in Runs : CancelLockRun(s, q)
           \/ \E a \in Attempts : CancelLockAttempt(s, a)
  <2>1. ASSUME NEW r \in Runners, LeasePoll(s, r) PROVE tx'[s].step = "select"
    BY <1>1, <2>1 DEF LeasePoll, NoTx
  <2>2. ASSUME NEW r \in Runners, NEW a \in Attempts, NEW outcome \in Outcomes,
               CompleteLockAttempt(s, r, a, outcome)
        PROVE  tx'[s].step = "complete_lease"
    BY <1>1, <2>2 DEF CompleteLockAttempt, NoTx
  <2>3. ASSUME CompleteLockLease(s) PROVE tx'[s].step = "complete_run"
    BY <1>1, <2>3 DEF CompleteLockLease, Tx
  <2>4. ASSUME CompleteLockRun(s) PROVE tx'[s].step = "complete_commit"
    BY <1>1, <2>4 DEF CompleteLockRun, Tx
  <2>5. ASSUME NEW q \in Runs, CancelLockRun(s, q) PROVE tx'[s].step = "cancel_attempt"
    BY <1>1, <2>5 DEF CancelLockRun, NoTx
  <2>6. ASSUME NEW a \in Attempts, CancelLockAttempt(s, a) PROVE tx'[s].step = "cancel_commit"
    BY <1>1, <2>6 DEF CancelLockAttempt, Tx
  <2>7. QED
    BY <1>3, <1>9, <2>1, <2>2, <2>3, <2>4, <2>5, <2>6
<1>10. CASE \/ PgDeploy \/ PgEnqueue \/ PgReplay \/ PgRecoverLostAttempts \/ UNCHANGED pgVars
            \/ \E r \in Runners : PgRegisterRunner(r) \/ PgHeartbeat(r)
            \/ \E q \in Runs : PgCancelQueuedRun(q)
  <2>1. tx' = tx
    BY <1>10 DEF PgDeploy, PgEnqueue, PgReplay, PgRecoverLostAttempts, pgVars, PgRegisterRunner,
                 PgHeartbeat, PgCancelQueuedRun
  <2>2. QED
    BY <1>2, <2>1
<1>11. ASSUME NEW t \in Sessions,
              \/ LeaseNothing(t) \/ LeasePickNothing(t) \/ CompleteRefused(t) \/ CompleteCommit(t)
              \/ CancelCommit(t) \/ Abort(t) \/ \E id \in Attempts : LeaseCommit(t, id)
       PROVE  EndTx(t)
  BY <1>11 DEF LeaseNothing, LeasePickNothing, CompleteRefused, CompleteCommit, CancelCommit,
               Abort, LeaseCommit
<1> HIDE DEF Goal
<1>12. Goal
  BY <1>4, <1>5, <1>6, <1>7, <1>8, <1>9, <1>10, <1>11 DEF PgNext, Goal
<1>13. QED
  BY <1>12 DEF Goal

\* A run keeps its job.
LEMMA RunsKeepJobs ==
  ASSUME PgIInv, [PgNext]_pgVars, NEW q \in Runs, runs[q].status # "none"
  PROVE  runs'[q].job = runs[q].job /\ runs'[q].status # "none"
<1>1. RowStep(runs[q], runs'[q])
  BY PgStepKeeps, TableStepKeeps DEF StepKeeps, PgIInv
<1>2. QED
  BY <1>1 DEF RowStep, Created, Started, Ended, Kept, TerminalStatus

\* A run is there with a job that has a policy, or has not been inserted.
LEMMA OnlyInsertsCreateRuns ==
  ASSUME PgIInv, CountedExist, [PgNext]_pgVars, NEW q \in Runs, runs[q].status = "none"
  PROVE  runs'[q].status = "none" \/ jobs[runs'[q].job] # None
<1>1. IInv /\ runs \in [Runs -> RunRow]
  BY DEF PgIInv, PgTypeOK, TypeOK
<1>2. CASE runs' = runs
  BY <1>2
<1>3. CASE PgEnqueue
  <2>1. PICK id \in Runs, job \in Jobs, key \in Keys \cup {None}, delay \in Delays :
          EnqueueRun(id, job, key, delay)
    BY <1>3 DEF PgEnqueue, Enqueue
  <2>2. jobs[job] # None /\ (runs'[q] = runs[q] \/ runs'[q].job = job)
    BY <1>1, <2>1 DEF EnqueueRun, InsertRun, QueuedRun
  <2>3. QED
    BY <2>2
<1>4. CASE PgReplay
  <2>1. PICK id \in Runs, source \in Runs : ReplayRun(id, source)
    BY <1>4 DEF PgReplay, Replay
  <2>2. jobs[runs[source].job] # None /\ (runs'[q] = runs[q] \/ runs'[q].job = runs[source].job)
    BY <1>1, <2>1 DEF ReplayRun, InsertRun, QueuedRun, CountedExist
  <2>3. QED
    BY <2>2
<1>5. CASE Recover
  <2>1. Recoverable \in SUBSET LostAttempts
    BY DEF Recoverable
  <2>2. QED
    BY <1>1, <1>5, <2>1, RecoveredWasRunning DEF Recover
<1>6. ASSUME NEW p \in Runs, PgCancelQueuedRun(p) PROVE runs'[q].status = "none"
  <2>1. p # q /\ \E row : runs' = [runs EXCEPT ![p] = row]
    BY <1>6 DEF PgCancelQueuedRun, CancelQueuedRun
  <2>2. QED
    BY <1>1, <2>1
<1>7. ASSUME NEW s \in Sessions, NEW id \in Attempts, LeaseCommit(s, id)
      PROVE  runs'[q].status = "none"
  <2>1. SessionOK(s) /\ tx[s].step = "start"
    BY <1>7 DEF PgIInv, LeaseCommit
  <2>2. runs[tx[s].run].status = "Queued"
    BY <2>1 DEF SessionOK, LeaseReadsHold, Leasing
  <2>3. tx[s].run # q /\ runs' = [runs EXCEPT ![tx[s].run] = StartedRun(runs[tx[s].run])]
    BY <1>7, <2>2 DEF LeaseCommit
  <2>4. QED
    BY <1>1, <2>3
<1>8. ASSUME NEW s \in Sessions, CompleteCommit(s) PROVE runs'[q].status = "none"
  <2>1. SessionOK(s) /\ tx[s].step = "complete_commit"
    BY <1>8 DEF PgIInv, CompleteCommit
  <2>2. /\ tx[s].attempt \in Attempts /\ attempts[tx[s].attempt].status = "Running"
        /\ tx[s].run = attempts[tx[s].attempt].run
    BY <2>1 DEF SessionOK, TxKnows, CompleteReadsHold, Completing
  <2>3. tx[s].run # q
    BY <1>1, <2>2 DEF IInv, Consistent, RunningIsLatest
  <2>4. \E row : runs' = [runs EXCEPT ![tx[s].run] = row]
    BY <1>8 DEF CompleteCommit
  <2>5. QED
    BY <1>1, <2>3, <2>4
<1>9. CASE PgTick
  <2>1. runs[q] \in RunRow /\ runs'[q] = [runs[q] EXCEPT !.retry_after = Less(@)]
    BY <1>1, <1>9 DEF PgTick, Tick
  <2>2. QED
    BY <2>1, RunColumns
<1>10. CASE PgRecoverLostAttempts \/ \E s \in Sessions, r \in Runners : LeasePoll(s, r)
  BY <1>5, <1>10 DEF PgRecoverLostAttempts, LeasePoll
<1>11. ASSUME \/ PgDeploy \/ UNCHANGED pgVars
              \/ \E r \in Runners : PgRegisterRunner(r) \/ PgHeartbeat(r)
       PROVE  runs' = runs
  BY <1>11 DEF PgDeploy, Deploy, RegisterDeploy, pgVars, PgRegisterRunner, RegisterRunner,
               PgHeartbeat, HeartbeatRunner
<1>12. ASSUME NEW s \in Sessions,
              \/ LeaseSelect(s) \/ LeaseNothing(s) \/ LeasePick(s) \/ LeasePickNothing(s)
              \/ \E r \in Runners, b \in Attempts, outcome \in Outcomes :
                   CompleteLockAttempt(s, r, b, outcome)
              \/ CompleteLockLease(s) \/ CompleteRefused(s) \/ CompleteLockRun(s)
              \/ \E p \in Runs : CancelLockRun(s, p)
              \/ \E b \in Attempts : CancelLockAttempt(s, b)
              \/ CancelCommit(s) \/ Abort(s)
       PROVE  runs' = runs
  BY <1>12 DEF LeaseSelect, LeaseNothing, LeasePick, LeasePickNothing, CompleteLockAttempt,
               CompleteLockLease, CompleteRefused, CompleteLockRun, CancelLockRun,
               CancelLockAttempt, CancelCommit, Abort, vars
<1>13. QED
  BY <1>2, <1>3, <1>4, <1>6, <1>7, <1>8, <1>9, <1>10, <1>11, <1>12 DEF PgNext

\* A deploy replaces policies and removes none.
LEMMA PgPoliciesStay ==
  ASSUME PgIInv, [PgNext]_pgVars, NEW j \in Jobs, jobs[j] # None
  PROVE  jobs'[j] # None
<1>1. CASE PgDeploy
  <2>1. PICK bundle \in SUBSET Jobs \ {{}} : \E spec \in [bundle -> JobSpecs] :
          RegisterDeploy(bundle, spec)
    BY <1>1 DEF PgDeploy, Deploy
  <2>2. QED
    BY <2>1, NoneAssumption DEF RegisterDeploy
<1>2. CASE jobs' = jobs
  BY <1>2
<1>3. ASSUME \/ PgEnqueue \/ PgReplay \/ PgRecoverLostAttempts \/ PgTick \/ UNCHANGED pgVars
             \/ \E r \in Runners : PgRegisterRunner(r) \/ PgHeartbeat(r)
             \/ \E q \in Runs : PgCancelQueuedRun(q)
      PROVE  jobs' = jobs
  BY <1>3 DEF PgEnqueue, Enqueue, EnqueueRun, PgReplay, Replay, ReplayRun, PgRecoverLostAttempts,
              Recover, PgTick, Tick, pgVars, PgRegisterRunner, RegisterRunner, PgHeartbeat,
              HeartbeatRunner, PgCancelQueuedRun, CancelQueuedRun
<1>4. ASSUME NEW s \in Sessions,
             \/ \E r \in Runners : LeasePoll(s, r)
             \/ LeaseSelect(s) \/ LeaseNothing(s) \/ LeasePick(s) \/ LeasePickNothing(s)
             \/ \E id \in Attempts : LeaseCommit(s, id)
             \/ \E r \in Runners, b \in Attempts, outcome \in Outcomes :
                  CompleteLockAttempt(s, r, b, outcome)
             \/ CompleteLockLease(s) \/ CompleteRefused(s) \/ CompleteLockRun(s)
             \/ CompleteCommit(s)
             \/ \E p \in Runs : CancelLockRun(s, p)
             \/ \E b \in Attempts : CancelLockAttempt(s, b)
             \/ CancelCommit(s) \/ Abort(s)
      PROVE  jobs' = jobs
  BY <1>4 DEF LeasePoll, Recover, LeaseSelect, LeaseNothing, LeasePick, LeasePickNothing,
              LeaseCommit, CompleteLockAttempt, CompleteLockLease, CompleteRefused,
              CompleteLockRun, CompleteCommit, CancelLockRun, CancelLockAttempt, CancelCommit,
              Abort, vars
<1>5. QED
  BY <1>1, <1>2, <1>3, <1>4 DEF PgNext

\* The commit of a poll turns it into an attempt of the run it picked.
LEMMA CommitMoves ==
  ASSUME PgIInv, NEW s \in Sessions, NEW id \in Attempts, LeaseCommit(s, id)
  PROVE  /\ \A a \in Attempts : a # id => attempts'[a] = attempts[a]
         /\ attempts[id].status = "none"
         /\ attempts'[id].status = "Running" /\ attempts'[id].run = tx[s].run
         /\ Leasing(s) /\ tx[s].run \in tx[s].candidates /\ tx[s].run \in Runs
         /\ runs[tx[s].run].status = "Queued"
         /\ tx'[s].step = "idle" /\ \A t \in Sessions : t # s => tx'[t] = tx[t]
<1>1. /\ attempts \in [Attempts -> AttemptRow] /\ tx \in [Sessions -> Tx]
      /\ SessionOK(s) /\ tx[s].step = "start"
  BY DEF PgIInv, PgTypeOK, TypeOK, LeaseCommit
<1>2. /\ Leasing(s) /\ tx[s].run \in tx[s].candidates /\ tx[s].run \in Runs
      /\ runs[tx[s].run].status = "Queued"
  BY <1>1 DEF SessionOK, TxKnows, LeaseReadsHold, Leasing
<1>3. /\ attempts[id].status = "none" /\ EndTx(s)
      /\ attempts' = [attempts EXCEPT ![id] = StartedAttempt(runs[tx[s].run], tx[s].run,
                                                             tx[s].runner)]
  BY DEF LeaseCommit, IsNextId
<1>4. /\ \A a \in Attempts : a # id => attempts'[a] = attempts[a]
      /\ attempts'[id].status = "Running" /\ attempts'[id].run = tx[s].run
  BY <1>1, <1>3 DEF StartedAttempt
<1>5. tx'[s].step = "idle" /\ \A t \in Sessions : t # s => tx'[t] = tx[t]
  BY <1>1, <1>3, NoTxRow DEF EndTx
<1>6. QED
  BY <1>2, <1>3, <1>4, <1>5

LEMMA CountedExistStep ==
  ASSUME PgIInv, CountedExist, [PgNext]_pgVars
  PROVE  CountedExist'
<1>1. PgIInv'
  BY PgInvariantStep
<1>2. ASSUME NEW q \in Runs, runs'[q].status # "none" PROVE jobs'[runs'[q].job] # None
  <2>1. runs'[q].job \in Jobs
    BY <1>1, <1>2 DEF PgIInv, IInv, JobsKnown
  <2>2. jobs[runs'[q].job] # None
    <3>1. CASE runs[q].status = "none"
      BY <1>2, <3>1, OnlyInsertsCreateRuns
    <3>2. CASE runs[q].status # "none"
      BY <3>2, RunsKeepJobs DEF CountedExist
    <3>3. QED
      BY <3>1, <3>2
  <2>3. QED
    BY <2>1, <2>2, PgPoliciesStay
<1>3. ASSUME NEW a \in Attempts, attempts'[a].status = "none" PROVE attempts'[a].window = 0
  <2>1. attempts[a].window \in Nat /\ attempts'[a].window \in Nat
    BY <1>1, BoundsAssumption DEF PgIInv, PgTypeOK, TypeOK, AttemptRow
  <2>2. CASE Eased(attempts[a], attempts'[a])
    BY <1>3, <2>1, <2>2 DEF Eased, CountedExist
  <2>3. ASSUME NEW s \in Sessions, NEW id \in Attempts, LeaseCommit(s, id)
        PROVE  attempts'[a].window = 0
    BY <1>3, <2>3, CommitMoves DEF CountedExist
  <2>4. QED
    BY <2>2, <2>3, AttemptsEase
<1>4. QED
  BY <1>2, <1>3 DEF CountedExist

\* A running attempt is of a run with a job, and that job is the one it counts for.
LEMMA AttemptsOfRuns ==
  ASSUME PgIInv, [PgNext]_pgVars, NEW a \in Attempts, attempts[a].status # "none"
  PROVE  /\ attempts[a].run \in Runs /\ runs[attempts[a].run].status # "none"
         /\ runs'[attempts[a].run].job = runs[attempts[a].run].job
<1>1. attempts[a].run \in Runs /\ runs[attempts[a].run].status # "none"
  BY DEF PgIInv, IInv, Consistent, AttemptsLinked
<1>2. QED
  BY <1>1, RunsKeepJobs

\* A run a poll has selected keeps its job.
LEMMA CandidatesKeepJobs ==
  ASSUME PgIInv, [PgNext]_pgVars, NEW s \in Sessions, Leasing(s), NEW q \in tx[s].candidates
  PROVE  q \in Runs /\ runs'[q].job = runs[q].job
<1>1. tx[s] \in Tx /\ SessionOK(s)
  BY DEF PgIInv, PgTypeOK
<1>2. q \in Runs /\ runs[q].status = "Queued"
  BY <1>1 DEF Tx, SessionOK, LeaseReadsHold
<1>3. QED
  BY <1>2, RunsKeepJobs

\* Without a selection the polls that may start a run of a job are among those
\* that might before.
LEMMA StartersEase ==
  ASSUME PgIInv, [PgNext]_pgVars, NEW j, NEW s \in Sessions, s \in Starters(j)', ~LeaseSelect(s)
  PROVE  s \in Starters(j)
<1>1. Leasing(s)' /\ \E q \in tx'[s].candidates : runs'[q].job = j
  BY DEF Starters
<1>2. Leasing(s) /\ tx'[s].candidates = tx[s].candidates
  BY <1>1, PollsEase
<1>3. QED
  BY <1>1, <1>2, CandidatesKeepJobs DEF Starters

LEMMA RunningEase ==
  ASSUME PgIInv, [PgNext]_pgVars, NEW j, NEW a \in RunningOfJob(runs', attempts', j),
         Eased(attempts[a], attempts'[a])
  PROVE  a \in RunningOfJob(runs, attempts, j)
<1>1. /\ a \in Attempts /\ attempts'[a].status = "Running"
      /\ runs'[attempts'[a].run].job = j
  BY DEF RunningOfJob, RunningAttempts
<1>2. attempts[a].status = "Running" /\ attempts'[a].run = attempts[a].run
  BY <1>1 DEF Eased
<1>3. runs[attempts[a].run].job = j
  BY <1>1, <1>2, AttemptsOfRuns
<1>4. QED
  BY <1>1, <1>2, <1>3 DEF RunningOfJob, RunningAttempts

\* A selection counts the running attempts of every job it selects a run of.
LEMMA SelectionCounts ==
  ASSUME PgIInv, CountedExist, NEW s \in Sessions, LeaseSelect(s), [PgNext]_pgVars,
         NEW n \in Nat, ConcurrencyAtMost(n), NEW j \in Jobs, s \in Starters(j)'
  PROVE  /\ jobs[j].concurrency_limit \in Nat /\ jobs[j].concurrency_limit <= n
         /\ Cardinality(RunningOfJob(runs, attempts, j)) < jobs[j].concurrency_limit
<1>1. tx \in [Sessions -> Tx] /\ tx[s] \in Tx /\ runs' = runs
  BY DEF PgIInv, PgTypeOK, LeaseSelect, vars
<1>2. tx' = [tx EXCEPT ![s] = [tx[s] EXCEPT !.step = "pick", !.candidates = Candidates]]
  BY DEF LeaseSelect
<1>3. Candidates \in SUBSET Runs
  BY DEF Candidates
<1>4. tx'[s].candidates = Candidates
  BY <1>1, <1>2, <1>3, PickRow
<1>5. PICK q \in Candidates : runs[q].job = j
  BY <1>1, <1>4 DEF Starters
<1>6. q \in Runs /\ runs[q].status = "Queued" /\ WithinConcurrency(runs, attempts, j)
  BY <1>5 DEF Candidates, Due
<1>7. jobs[j] \in JobSpecs
  BY <1>5, <1>6 DEF CountedExist, PgIInv, PgTypeOK, TypeOK
<1>8. /\ jobs[j].concurrency_limit # None /\ jobs[j].concurrency_limit \in Nat
      /\ jobs[j].concurrency_limit <= n
  BY <1>7, JobSpecsAssumption DEF ConcurrencyAtMost
<1>9. QED
  BY <1>6, <1>8 DEF WithinConcurrency

LEMMA StartersCountedStep ==
  ASSUME IsFiniteSet(Sessions), PgIInv, CountedExist, StartersCounted, [PgNext]_pgVars
  PROVE  StartersCounted'
<1> SUFFICES ASSUME NEW n \in Nat, ConcurrencyAtMost(n), NEW j \in Jobs
             PROVE  Weight(RunningOfJob(runs', attempts', j), Starters(j)') + 1
                      <= n + Cardinality(Sessions)
  BY DEF StartersCounted, ConcurrencyAtMost, Weight, Starters, Leasing
<1> DEFINE A == RunningOfJob(runs, attempts, j)
           S == Starters(j)
           B == RunningOfJob(runs', attempts', j)
           T == Starters(j)'
<1>1. IsFiniteSet(A) /\ IsFiniteSet(S) /\ T \in SUBSET Sessions /\ Cardinality(Sessions) \in Nat
  BY CountedFinite, FS_CardinalityType DEF Starters
<1>2. Weight(A, S) + 1 <= n + Cardinality(Sessions)
  BY DEF StartersCounted
<1>3. ASSUME NEW s \in Sessions, LeaseSelect(s), s \in T
      PROVE  Weight(B, T) + 1 <= n + Cardinality(Sessions)
  <2>1. /\ jobs[j].concurrency_limit \in Nat /\ jobs[j].concurrency_limit <= n
        /\ Cardinality(A) < jobs[j].concurrency_limit
    BY <1>3, SelectionCounts
  <2>2. B = A
    BY <1>3 DEF LeaseSelect, vars
  <2>3. QED
    BY <1>1, <2>1, <2>2, WeightBelow
<1>4. ASSUME NEW s \in Sessions, NEW id \in Attempts, LeaseCommit(s, id)
      PROVE  Weight(B, T) + 1 <= n + Cardinality(Sessions)
  <2>1. \A t \in T : t \in Sessions /\ t # s /\ ~LeaseSelect(t)
    <3> SUFFICES ASSUME NEW t \in T PROVE t \in Sessions /\ t # s /\ ~LeaseSelect(t)
      OBVIOUS
    <3>1. t \in Sessions /\ tx'[t].step \in {"pick", "start"}
      BY DEF Starters, Leasing
    <3>2. t # s /\ tx'[t] = tx[t]
      BY <1>4, <3>1, CommitMoves
    <3>3. LeaseSelect(t) => attempts' = attempts
      BY DEF LeaseSelect, vars
    <3>4. QED
      BY <1>4, <3>1, <3>2, <3>3, CommitMoves
  <2>2. T \subseteq S \ {s}
    BY <2>1, StartersEase
  <2>3. CASE runs[tx[s].run].job = j
    <3>1. s \in S
      BY <1>4, <2>3, CommitMoves DEF Starters
    <3>2. B \subseteq A \cup {id}
      <4> SUFFICES ASSUME NEW a \in B, a # id PROVE a \in A
        OBVIOUS
      <4>1. a \in Attempts
        BY DEF RunningOfJob, RunningAttempts
      <4>2. attempts'[a] = attempts[a]
        BY <1>4, <4>1, CommitMoves
      <4>3. QED
        BY <4>2, RunningEase DEF Eased
    <3>3. Weight(B, T) <= Weight(A, S) /\ Weight(B, T) \in Nat /\ Weight(A, S) \in Nat
      BY <1>1, <2>2, <3>1, <3>2, WeightMoves
    <3>4. QED
      BY <1>1, <1>2, <3>3
  <2>4. CASE runs[tx[s].run].job # j
    <3>1. B \subseteq A
      <4> SUFFICES ASSUME NEW a \in B PROVE a \in A
        OBVIOUS
      <4>1. a \in Attempts /\ runs'[attempts'[a].run].job = j
        BY DEF RunningOfJob, RunningAttempts
      <4>2. a # id
        <5>1. runs'[tx[s].run].job # j
          BY <1>4, <2>4, CommitMoves, CandidatesKeepJobs
        <5>2. QED
          BY <1>4, <4>1, <5>1, CommitMoves
      <4>3. attempts'[a] = attempts[a]
        BY <1>4, <4>1, <4>2, CommitMoves
      <4>4. QED
        BY <4>3, RunningEase DEF Eased
    <3>2. Weight(B, T) <= Weight(A, S) /\ Weight(B, T) \in Nat /\ Weight(A, S) \in Nat
      BY <1>1, <2>2, <3>1, LessWeight
    <3>3. QED
      BY <1>1, <1>2, <3>2
  <2>5. QED
    BY <2>3, <2>4
<1>5. CASE /\ \A s \in T : ~LeaseSelect(s)
           /\ \A s \in Sessions, id \in Attempts : ~LeaseCommit(s, id)
  <2>1. T \subseteq S
    BY <1>1, <1>5, StartersEase
  <2>2. B \subseteq A
    <3> SUFFICES ASSUME NEW a \in B PROVE a \in A
      OBVIOUS
    <3>1. a \in Attempts
      BY DEF RunningOfJob, RunningAttempts
    <3>2. QED
      BY <1>5, <3>1, AttemptsEase, RunningEase
  <2>3. Weight(B, T) <= Weight(A, S) /\ Weight(B, T) \in Nat /\ Weight(A, S) \in Nat
    BY <1>1, <2>1, <2>2, LessWeight
  <2>4. QED
    BY <1>1, <1>2, <2>3
<1>6. QED
  BY <1>1, <1>3, <1>4, <1>5

-------------------------------------------------------------------------------
(* The same of the starts that count against a pool                            *)

\* The pick of a poll counts every start of the window, when all policies share
\* one pool.
LEMMA PickCounts ==
  ASSUME PgIInv, CountedExist, NEW s \in Sessions, LeasePick(s), NEW n \in Nat, SharedPool(n)
  PROVE  \E limit \in Nat : limit <= n /\ Cardinality(Recent) < limit
<1>1. tx[s] \in Tx /\ SessionOK(s) /\ tx[s].step = "pick"
  BY DEF PgIInv, PgTypeOK, LeasePick
<1>2. PICK q \in tx[s].candidates : WithinRateLimit(runs, attempts, runs[q].job)
  BY DEF LeasePick, Pickable
<1> DEFINE job == runs[q].job
<1>3. q \in Runs /\ runs[q].status = "Queued"
  BY <1>1 DEF Tx, SessionOK, LeaseReadsHold, Leasing
<1>4. \A p \in Runs : runs[p].status # "none" =>
        runs[p].job \in Jobs /\ jobs[runs[p].job] # None /\ jobs[runs[p].job] \in JobSpecs
  BY DEF PgIInv, PgTypeOK, TypeOK, IInv, JobsKnown, CountedExist
<1>5. jobs[job] \in JobSpecs
  BY <1>3, <1>4
<1>6. /\ jobs[job].rate_limit # None /\ jobs[job].rate_limit.limit \in Nat
      /\ jobs[job].rate_limit.limit <= n /\ jobs[job].rate_limit.pool # None
  BY <1>5, JobSpecsAssumption DEF SharedPool
<1>7. \A p \in Runs : runs[p].status # "none" => runs[p].job \in RateLimitScope(job)
  <2> SUFFICES ASSUME NEW p \in Runs, runs[p].status # "none"
               PROVE  runs[p].job \in RateLimitScope(job)
    OBVIOUS
  <2>1. /\ runs[p].job \in Jobs /\ jobs[runs[p].job] # None
        /\ jobs[runs[p].job] \in JobSpecs
    BY <1>4
  <2>2. /\ jobs[runs[p].job].rate_limit # None
        /\ jobs[runs[p].job].rate_limit.pool = jobs[job].rate_limit.pool
    BY <1>5, <2>1 DEF SharedPool
  <2> HIDE DEF job
  <2>3. QED
    BY <1>6, <2>1, <2>2 DEF RateLimitScope
<1> HIDE DEF job
<1>8. Recent = RecentStarts(runs, attempts, RateLimitScope(job))
  <2> SUFFICES ASSUME NEW a \in Attempts, attempts[a].window > 0
               PROVE  runs[attempts[a].run].job \in RateLimitScope(job)
    BY DEF Recent, RecentStarts
  <2>1. attempts[a].status # "none"
    BY DEF CountedExist
  <2>2. attempts[a].run \in Runs /\ runs[attempts[a].run].status # "none"
    BY <2>1 DEF PgIInv, IInv, Consistent, AttemptsLinked
  <2>3. QED
    BY <1>7, <2>2
<1>9. Cardinality(Recent) < jobs[job].rate_limit.limit
  BY <1>2, <1>6, <1>8 DEF WithinRateLimit, job
<1>10. QED
  BY <1>6, <1>9

LEMMA PickersCountedStep ==
  ASSUME IsFiniteSet(Sessions), PgIInv, CountedExist, PickersCounted, [PgNext]_pgVars
  PROVE  PickersCounted'
<1> SUFFICES ASSUME NEW n \in Nat, SharedPool(n)
             PROVE  Weight(Recent', Pickers') + 1 <= n + Cardinality(Sessions)
  BY DEF PickersCounted, SharedPool, Weight, Recent, Pickers
<1> DEFINE A == Recent
           S == Pickers
           B == Recent'
           T == Pickers'
<1>1. IsFiniteSet(A) /\ IsFiniteSet(S) /\ T \in SUBSET Sessions /\ Cardinality(Sessions) \in Nat
  BY CountedFinite, FS_CardinalityType DEF Pickers
<1>2. Weight(A, S) + 1 <= n + Cardinality(Sessions)
  BY DEF PickersCounted
<1>3. ASSUME NEW s \in Sessions, LeasePick(s)
      PROVE  Weight(B, T) + 1 <= n + Cardinality(Sessions)
  <2>1. PICK limit \in Nat : limit <= n /\ Cardinality(A) < limit
    BY <1>3, PickCounts
  <2>2. B = A
    BY <1>3 DEF LeasePick, vars, Recent
  <2>3. QED
    BY <1>1, <2>1, <2>2, WeightBelow
<1>4. ASSUME NEW s \in Sessions, NEW id \in Attempts, LeaseCommit(s, id)
      PROVE  Weight(B, T) + 1 <= n + Cardinality(Sessions)
  <2>1. s \in S
    BY <1>4 DEF LeaseCommit, Pickers
  <2>2. T \subseteq S \ {s}
    BY <1>4, CommitMoves DEF Pickers
  <2>3. B \subseteq A \cup {id}
    BY <1>4, CommitMoves DEF Recent
  <2>4. Weight(B, T) <= Weight(A, S) /\ Weight(B, T) \in Nat /\ Weight(A, S) \in Nat
    <3> HIDE DEF A, S, B, T
    <3>1. QED
      BY SMTT(20), <1>1, <2>1, <2>2, <2>3, WeightMoves
  <2>5. QED
    BY <1>1, <1>2, <2>4
<1>5. CASE /\ \A s \in Sessions : ~LeasePick(s)
           /\ \A s \in Sessions, id \in Attempts : ~LeaseCommit(s, id)
  <2>1. T \subseteq S
    BY <1>5, PollsEase DEF Pickers
  <2>2. B \subseteq A
    BY <1>5, AttemptsEase DEF Recent, Eased
  <2>3. Weight(B, T) <= Weight(A, S) /\ Weight(B, T) \in Nat /\ Weight(A, S) \in Nat
    BY <1>1, <2>1, <2>2, LessWeight
  <2>4. QED
    BY <1>1, <1>2, <2>3
<1>6. QED
  BY <1>3, <1>4, <1>5

LEMMA RaceInit ==
  ASSUME IsFiniteSet(Sessions), Sessions # {}, PgInit
  PROVE  RaceIInv
<1>1. /\ \A q \in Runs : runs[q] = NoRun
      /\ \A a \in Attempts : attempts[a] = NoAttempt
      /\ \A s \in Sessions : tx[s] = NoTx
  BY DEF PgInit, Init
<1>2. CountedExist
  BY <1>1 DEF CountedExist, NoRun, NoAttempt
<1>3. /\ \A j : RunningOfJob(runs, attempts, j) = {} /\ Starters(j) = {}
      /\ Recent = {} /\ Pickers = {}
  BY <1>1, NoTxRow DEF NoAttempt, RunningOfJob, RunningAttempts, Starters, Leasing, Recent, Pickers
<1>4. Weight({}, {}) = 0 /\ Cardinality(Sessions) \in Nat /\ Cardinality(Sessions) # 0
  BY FS_EmptySet, FS_CardinalityType DEF Weight
<1>5. StartersCounted /\ PickersCounted
  BY <1>3, <1>4 DEF StartersCounted, PickersCounted
<1>6. QED
  BY <1>2, <1>5, PgInvariantInit DEF RaceIInv

\* Polls of n sessions together take a job at most n - 1 attempts beyond the largest
\* concurrency limit it was ever given, whatever deploys, cancels and recoveries
\* happen between them: the running attempts and the polls that counted them, taken
\* together, never exceed the limit by more (the candidate query of
\* lease_next_attempt counts committed attempts).  With a single session the limit
\* holds.
THEOREM ConcurrencyMissBounded ==
  ASSUME IsFiniteSet(Sessions), Sessions # {}
  PROVE  PgSpec => [](\A n \in Nat : ConcurrencyAtMost(n) =>
           \A j \in Jobs : Cardinality(RunningOfJob(runs, attempts, j)) + 1
                             <= n + Cardinality(Sessions))
<1>1. PgInit => RaceIInv
  BY RaceInit
<1>2. RaceIInv /\ [PgNext]_pgVars => RaceIInv'
  BY PgInvariantStep, CountedExistStep, StartersCountedStep, PickersCountedStep DEF RaceIInv
<1>3. RaceIInv => \A n \in Nat : ConcurrencyAtMost(n) =>
        \A j \in Jobs : Cardinality(RunningOfJob(runs, attempts, j)) + 1
                          <= n + Cardinality(Sessions)
  <2> SUFFICES ASSUME RaceIInv, NEW n \in Nat, ConcurrencyAtMost(n), NEW j \in Jobs
               PROVE  Cardinality(RunningOfJob(runs, attempts, j)) + 1
                        <= n + Cardinality(Sessions)
    OBVIOUS
  <2>1. /\ Cardinality(RunningOfJob(runs, attempts, j)) \in Nat
        /\ Cardinality(Starters(j)) \in Nat /\ Cardinality(Sessions) \in Nat
    BY CountedFinite, FS_CardinalityType
  <2>2. Weight(RunningOfJob(runs, attempts, j), Starters(j)) + 1 <= n + Cardinality(Sessions)
    BY DEF RaceIInv, StartersCounted
  <2>3. QED
    BY <2>1, <2>2 DEF Weight
<1>4. QED
  BY <1>1, <1>2, <1>3, PTL DEF PgSpec

\* Likewise the starts in a window of a pool all jobs draw on: polls of n sessions
\* take it at most n - 1 beyond its limit (rate_limit_allows counts the starts of
\* the pool without a lock on it).
THEOREM RateMissBounded ==
  ASSUME IsFiniteSet(Sessions), Sessions # {}
  PROVE  PgSpec => [](\A n \in Nat : SharedPool(n) =>
           Cardinality(Recent) + 1 <= n + Cardinality(Sessions))
<1>1. PgInit => RaceIInv
  BY RaceInit
<1>2. RaceIInv /\ [PgNext]_pgVars => RaceIInv'
  BY PgInvariantStep, CountedExistStep, StartersCountedStep, PickersCountedStep DEF RaceIInv
<1>3. RaceIInv => \A n \in Nat : SharedPool(n) =>
        Cardinality(Recent) + 1 <= n + Cardinality(Sessions)
  <2> SUFFICES ASSUME RaceIInv, NEW n \in Nat, SharedPool(n)
               PROVE  Cardinality(Recent) + 1 <= n + Cardinality(Sessions)
    OBVIOUS
  <2>1. /\ Cardinality(Recent) \in Nat /\ Cardinality(Pickers) \in Nat
        /\ Cardinality(Sessions) \in Nat
    BY CountedFinite, FS_CardinalityType
  <2>2. Weight(Recent, Pickers) + 1 <= n + Cardinality(Sessions)
    BY DEF RaceIInv, PickersCounted
  <2>3. QED
    BY <2>1, <2>2 DEF Weight
<1>4. QED
  BY <1>1, <1>2, <1>3, PTL DEF PgSpec

===============================================================================
