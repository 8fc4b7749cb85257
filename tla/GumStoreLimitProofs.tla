-------------------------- MODULE GumStoreLimitProofs --------------------------
(* Theorems about what the polls of the store count: no start of an attempt    *)
(* takes a job, a runner or a pool beyond its limits; and what recovery looks  *)
(* for: no attempt that lost its runner is missed.                             *)
EXTENDS GumStoreProofs, SetSums

-------------------------------------------------------------------------------
(* The invariant the counts rest on *)

\* The job of a run has a policy: a poll always finds limits to compare with.
JobsDeployed == \A q \in Runs : runs[q].status # "none" => jobs[runs[q].job] # None

\* A row no attempt has used yet counts against no rate limit.
UnusedCountNothing == \A a \in Attempts : attempts[a].status = "none" => attempts[a].window = 0

\* A running attempt is held by a runner that has a row.
HeldByRegistered ==
  \A a \in Attempts : attempts[a].status = "Running" =>
    attempts[a].runner \in Runners /\ runners[attempts[a].runner].registered

CountIInv == IInv /\ JobsDeployed /\ UnusedCountNothing /\ HeldByRegistered

LEMMA CountInit == Init => CountIInv
<1> SUFFICES ASSUME Init PROVE JobsDeployed /\ UnusedCountNothing /\ HeldByRegistered
  BY InvariantInit DEF CountIInv
<1> QED
  BY DEF Init, NoRun, NoAttempt, JobsDeployed, UnusedCountNothing, HeldByRegistered

\* What every operation but the start of this attempt does to the row of one.
RowKept(row, next) ==
  /\ next.run = row.run /\ next.runner = row.runner
  /\ next.status = "none" <=> row.status = "none"
  /\ next.status = "Running" => row.status = "Running"
  /\ row.window = 0 => next.window = 0

LEMMA RowsKept ==
  ASSUME NEW row \in AttemptRow
  PROVE  /\ RowKept(row, row)
         /\ RowKept(row, [row EXCEPT !.cancel_requested = TRUE])
         /\ RowKept(row, [row EXCEPT !.window = Less(@)])
         /\ row.status = "Running" => \A status \in TerminalStatus :
              RowKept(row, [row EXCEPT !.status = status])
<1>1. RowKept(row, row) /\ RowKept(row, [row EXCEPT !.cancel_requested = TRUE])
  BY DEF RowKept, AttemptRow
<1>2. RowKept(row, [row EXCEPT !.window = Less(@)])
  BY DEF RowKept, AttemptRow, Less
<1>3. ASSUME row.status = "Running", NEW status \in TerminalStatus
      PROVE  RowKept(row, [row EXCEPT !.status = status])
  BY <1>3 DEF RowKept, AttemptRow, TerminalStatus
<1> QED  BY <1>1, <1>2, <1>3

LEMMA RecoveredRowKept ==
  ASSUME IInv, NEW a \in Attempts
  PROVE  RowKept(attempts[a], RecoveredAttempts(LostAttempts)[a])
<1>1. attempts[a] \in AttemptRow
  BY DEF IInv, TypeOK
<1>2. CASE a \in LostAttempts
  <2>1. attempts[a].status = "Running"
    BY <1>2 DEF LostAttempts
  <2>2. RecoveredAttempts(LostAttempts)[a] = [attempts[a] EXCEPT !.status = "Failed"]
    BY <1>2 DEF RecoveredAttempts
  <2> QED  BY <1>1, <2>1, <2>2, RowsKept DEF TerminalStatus
<1>3. CASE a \notin LostAttempts
  BY <1>1, <1>3, RowsKept DEF RecoveredAttempts
<1> QED  BY <1>2, <1>3

\* Only a poll starts an attempt.
LEMMA OnlyPollsStart ==
  ASSUME IInv, [Next]_vars, NEW a \in Attempts
  PROVE  \/ RowKept(attempts[a], attempts'[a])
         \/ \E r \in Runners, q \in Runs : LeaseNextAttempt(r, q, a)
<1>a. attempts \in [Attempts -> AttemptRow] /\ attempts[a] \in AttemptRow
  BY DEF IInv, TypeOK
<1>1. CASE UNCHANGED attempts
  BY <1>1, <1>a, RowsKept
<1>2. ASSUME NEW r \in Runners, NEW q \in Runs, NEW id \in Attempts,
             LeaseNextAttempt(r, q, id), id # a
      PROVE  RowKept(attempts[a], attempts'[a])
  <2> DEFINE ats == RecoveredAttempts(LostAttempts)
  <2>1. PICK row : attempts' = [ats EXCEPT ![id] = row]
    BY <1>2 DEF LeaseNextAttempt
  <2>2. ats \in [Attempts -> AttemptRow]
    BY RecoveredTables DEF IInv, TablesOK
  <2>3. RowKept(attempts[a], ats[a])
    BY RecoveredRowKept
  <2> HIDE DEF ats
  <2> QED  BY <1>2, <2>1, <2>2, <2>3
<1>3. ASSUME NEW r \in Runners, NEW b \in Attempts, NEW outcome \in Outcomes,
             CompleteAttempt(r, b, outcome)
      PROVE  RowKept(attempts[a], attempts'[a])
  <2>1. /\ attempts[b].status = "Running"
        /\ attempts' = [attempts EXCEPT ![b].status = outcome.status]
    BY <1>3 DEF CompleteAttempt, MayComplete
  <2>2. CASE a = b
    <3>1. attempts'[a] = [attempts[a] EXCEPT !.status = outcome.status]
      BY <1>a, <2>1, <2>2
    <3> QED  BY <1>a, <2>1, <2>2, <3>1, OutcomeStatus, RowsKept
  <2>3. CASE a # b
    BY <1>a, <2>1, <2>3, RowsKept
  <2> QED  BY <2>2, <2>3
<1>4. ASSUME NEW q \in Runs, NEW b \in Attempts, CancelRunningRun(q, b)
      PROVE  RowKept(attempts[a], attempts'[a])
  <2>1. attempts' = [attempts EXCEPT ![b].cancel_requested = TRUE]
    BY <1>4 DEF CancelRunningRun
  <2>2. attempts'[a] = attempts[a] \/ attempts'[a] = [attempts[a] EXCEPT !.cancel_requested = TRUE]
    BY <1>a, <2>1
  <2> QED  BY <1>a, <2>2, RowsKept
<1>5. CASE RecoverLostAttempts
  BY <1>5, RecoveredRowKept DEF RecoverLostAttempts
<1>6. CASE Tick
  <2>1. attempts'[a] = [attempts[a] EXCEPT !.window = Less(@)]
    BY <1>6 DEF Tick
  <2> QED  BY <1>a, <2>1, RowsKept
<1> QED
  BY <1>1, <1>2, <1>3, <1>4, <1>5, <1>6
  DEF Next, vars, Deploy, Enqueue, Replay, Heartbeat, Lease, Complete, CancelRun,
      RegisterDeploy, RegisterRunner, HeartbeatRunner, EnqueueRun, ReplayRun, CancelQueuedRun

\* Policies are overwritten by a deploy, and never removed.
LEMMA PoliciesStay ==
  ASSUME TypeOK, [Next]_vars, NEW j \in Jobs, jobs[j] # None
  PROVE  jobs'[j] # None
<1>1. ASSUME NEW bundle \in SUBSET Jobs \ {{}}, NEW spec \in [bundle -> JobSpecs],
             RegisterDeploy(bundle, spec)
      PROVE  jobs'[j] # None
  BY <1>1, NoneAssumption DEF RegisterDeploy
<1> QED
  BY <1>1
  DEF Next, vars, Deploy, Enqueue, Replay, Heartbeat, Lease, Complete, CancelRun,
      RegisterRunner, HeartbeatRunner, EnqueueRun, ReplayRun, LeaseNextAttempt,
      CompleteAttempt, CancelQueuedRun, CancelRunningRun, RecoverLostAttempts, Tick

\* Runners stay registered.
LEMMA RunnersStay ==
  ASSUME TypeOK, [Next]_vars, NEW r \in Runners, runners[r].registered
  PROVE  runners'[r].registered
<1>1. runners \in [Runners -> [registered : BOOLEAN, heartbeat : 0 .. HeartbeatTimeout]]
  BY DEF TypeOK
<1>2. ASSUME NEW q \in Runners, UpsertRunner(q)
      PROVE  runners'[r].registered
  BY <1>1, <1>2 DEF UpsertRunner
<1>3. CASE Tick
  <2>1. runners'[r] = [runners[r] EXCEPT !.heartbeat = Less(@)]
    BY <1>3 DEF Tick
  <2> QED  BY <1>1, <2>1
<1> QED
  BY <1>2, <1>3
  DEF Next, vars, Deploy, Enqueue, Replay, Heartbeat, Lease, Complete, CancelRun,
      RegisterDeploy, RegisterRunner, HeartbeatRunner, EnqueueRun, ReplayRun,
      LeaseNextAttempt, CompleteAttempt, CancelQueuedRun, CancelRunningRun,
      RecoverLostAttempts

\* Only an enqueue or a replay uses a free row of the runs table.
LEMMA OnlyInsertsCreate ==
  ASSUME IInv, [Next]_vars, NEW q \in Runs, runs[q].status = "none", ~Enqueue, ~Replay
  PROVE  runs'[q].status = "none"
<1>a. runs \in [Runs -> RunRow] /\ runs[q].status \notin {"Queued", "Running"}
  BY DEF IInv, TypeOK
<1>b. RecoveredRuns(LostAttempts)[q] = runs[q]
  BY <1>a, RecoveredWasRunning
<1>1. CASE UNCHANGED runs
  BY <1>1
<1>2. ASSUME NEW r \in Runners, NEW p \in Runs, NEW id \in Attempts,
             LeaseNextAttempt(r, p, id)
      PROVE  runs'[q].status = "none"
  <2> DEFINE rs == RecoveredRuns(LostAttempts)
  <2>1. rs \in [Runs -> RunRow]
    BY RecoveredTables DEF IInv, TablesOK
  <2> HIDE DEF rs
  <2>2. rs[p].status = "Queued" /\ runs' = [rs EXCEPT ![p] = StartedRun(rs[p])]
    BY <1>2 DEF LeaseNextAttempt, Leasable, Due, rs
  <2> QED  BY <1>a, <1>b, <2>1, <2>2 DEF rs
<1>3. ASSUME NEW r \in Runners, NEW a \in Attempts, NEW outcome \in Outcomes,
             CompleteAttempt(r, a, outcome)
      PROVE  runs'[q].status = "none"
  <2>1. attempts[a].run # q
    BY <1>3, <1>a DEF CompleteAttempt, MayComplete, IInv, Consistent, RunningIsLatest
  <2>2. PICK row : runs' = [runs EXCEPT ![attempts[a].run] = row]
    BY <1>3 DEF CompleteAttempt
  <2> QED  BY <1>a, <2>1, <2>2
<1>4. ASSUME NEW p \in Runs, CancelQueuedRun(p)
      PROVE  runs'[q].status = "none"
  <2>1. p # q
    BY <1>4, <1>a DEF CancelQueuedRun
  <2>2. runs' = [runs EXCEPT ![p].status = "Canceled", ![p].retry_after = 0]
    BY <1>4 DEF CancelQueuedRun
  <2> QED  BY <1>a, <2>1, <2>2
<1>5. CASE RecoverLostAttempts
  BY <1>5, <1>b DEF RecoverLostAttempts
<1>6. CASE Tick
  <2>1. runs'[q] = [runs[q] EXCEPT !.retry_after = Less(@)] /\ runs[q] \in RunRow
    BY <1>6, <1>a DEF Tick
  <2> QED  BY <2>1, RunColumns
<1> QED
  BY <1>1, <1>2, <1>3, <1>4, <1>5, <1>6
  DEF Next, vars, Deploy, Heartbeat, Lease, Complete, CancelRun,
      RegisterDeploy, RegisterRunner, HeartbeatRunner, CancelRunningRun

\* A run gets the job it is enqueued for, or that of the run it replays.
LEMMA JobsOfRuns ==
  ASSUME CountIInv, [Next]_vars, NEW q \in Runs, runs'[q].status # "none"
  PROVE  runs'[q].job \in Jobs /\ jobs[runs'[q].job] # None
<1>a. runs \in [Runs -> RunRow] /\ JobsKnown
  BY DEF CountIInv, IInv, TypeOK
<1>1. CASE ~Created(runs[q], runs'[q])
  <2>1. runs[q].status # "none" /\ runs'[q].job = runs[q].job
    BY <1>1, RunStep DEF CountIInv, RowStep, Started, Ended, Kept
  <2> QED  BY <1>a, <2>1 DEF CountIInv, JobsDeployed, JobsKnown
<1>2. ASSUME NEW id \in Runs, NEW job \in Jobs, NEW key \in Keys \cup {None},
             NEW delay \in Delays, EnqueueRun(id, job, key, delay)
      PROVE  runs'[q].job \in Jobs /\ jobs[runs'[q].job] # None
  <2>1. runs'[q] = runs[q] \/ runs'[q].job = job
    BY <1>2, <1>a DEF EnqueueRun, InsertRun, QueuedRun
  <2> QED  BY <1>2, <1>a, <2>1 DEF CountIInv, JobsDeployed, JobsKnown, EnqueueRun
<1>3. ASSUME NEW id \in Runs, NEW source \in Runs, ReplayRun(id, source)
      PROVE  runs'[q].job \in Jobs /\ jobs[runs'[q].job] # None
  <2>1. runs'[q] = runs[q] \/ runs'[q].job = runs[source].job
    BY <1>3, <1>a DEF ReplayRun, InsertRun, QueuedRun
  <2> QED  BY <1>3, <1>a, <2>1 DEF CountIInv, JobsDeployed, JobsKnown, ReplayRun
<1>4. CASE Created(runs[q], runs'[q])
  <2>1. runs[q].status = "none" /\ runs'[q].status = "Queued"
    BY <1>4 DEF Created
  <2>2. Enqueue \/ Replay
    BY <2>1, OnlyInsertsCreate DEF CountIInv
  <2> QED  BY <1>2, <1>3, <2>2 DEF Enqueue, Replay
<1> QED  BY <1>1, <1>4

\* A poll starts its attempt for a registered runner.
LEMMA CountStep == CountIInv /\ [Next]_vars => CountIInv'
<1> SUFFICES ASSUME CountIInv, [Next]_vars
             PROVE  (JobsDeployed /\ UnusedCountNothing /\ HeldByRegistered)'
  BY InvariantStep DEF CountIInv
<1>a. IInv /\ TypeOK /\ IInv' /\ \A a \in Attempts : attempts'[a] \in AttemptRow
  BY InvariantStep DEF CountIInv, IInv, TypeOK
<1>1. JobsDeployed'
  BY JobsOfRuns, <1>a, PoliciesStay DEF JobsDeployed
<1>2. ASSUME NEW a \in Attempts
      PROVE  \/ RowKept(attempts[a], attempts'[a])
             \/ \E r \in Runners : /\ attempts'[a].status = "Running"
                                   /\ attempts'[a].runner = r /\ runners[r].registered
  <2>1. ASSUME NEW r \in Runners, NEW q \in Runs, LeaseNextAttempt(r, q, a)
        PROVE  /\ attempts'[a].status = "Running"
               /\ attempts'[a].runner = r /\ runners[r].registered
    <3> DEFINE ats == RecoveredAttempts(LostAttempts)
               row == RecoveredRuns(LostAttempts)[q]
    <3>1. ats \in [Attempts -> AttemptRow]
      BY <1>a, RecoveredTables DEF TablesOK
    <3>2. attempts' = [ats EXCEPT ![a] = StartedAttempt(row, q, r)] /\ runners[r].registered
      BY <2>1 DEF LeaseNextAttempt
    <3> HIDE DEF ats, row
    <3> QED  BY <3>1, <3>2 DEF StartedAttempt
  <2> QED  BY <1>a, <2>1, OnlyPollsStart
<1>3. UnusedCountNothing'
  BY <1>2 DEF CountIInv, UnusedCountNothing, RowKept
<1>4. HeldByRegistered'
  BY <1>2, <1>a, RunnersStay DEF CountIInv, HeldByRegistered, RowKept
<1> QED  BY <1>1, <1>3, <1>4

THEOREM CountInvariant == Spec => []CountIInv
BY CountInit, CountStep, PTL DEF Spec

-------------------------------------------------------------------------------
(* Counting                                                                  *)

LEMMA AttemptsFinite ==
  ASSUME NEW S \in SUBSET Attempts
  PROVE  IsFiniteSet(S) /\ Cardinality(S) \in Nat
<1>1. IsFiniteSet(1 .. MaxAttempts)
  BY BoundsAssumption, FS_Interval
<1>2. IsFiniteSet(S)
  BY <1>1, FS_Subset DEF Attempts
<1> QED  BY <1>2, FS_CardinalityType

\* A count below its limit stays within it when one attempt joins.
LEMMA OneMoreFits ==
  ASSUME NEW S \in SUBSET Attempts, NEW id \in Attempts, NEW T, T \subseteq S \cup {id},
         NEW limit \in Nat, Cardinality(S) < limit
  PROVE  Cardinality(T) <= limit
<1>1. IsFiniteSet(S) /\ Cardinality(S) \in Nat
  BY AttemptsFinite
<1>2. /\ IsFiniteSet(S \cup {id})
      /\ Cardinality(S \cup {id}) = IF id \in S THEN Cardinality(S) ELSE Cardinality(S) + 1
  BY <1>1, FS_AddElement
<1>3. Cardinality(T) <= Cardinality(S \cup {id})
  BY <1>2, FS_Subset
<1>4. Cardinality(T) \in Nat
  BY <1>2, FS_Subset, FS_CardinalityType
<1> DEFINE n == Cardinality(S)
           m == Cardinality(S \cup {id})
           k == Cardinality(T)
<1>5. n \in Nat /\ k \in Nat /\ (m = n \/ m = n + 1) /\ k <= m /\ n < limit
  BY <1>1, <1>2, <1>3, <1>4, Zenon
<1> HIDE DEF n, m, k
<1>6. k <= limit
  BY <1>5
<1> QED  BY <1>6 DEF k

\* What the limits count in the tables rt, at after the start of attempt id on
\* runner r: what they counted in rs, ats, and the new attempt of job.
Joined(rs, ats, rt, at, job, id, r) ==
  /\ at[id].runner = r /\ rt[at[id].run].job = job
  /\ RunningOfJob(rt, at, job) = RunningOfJob(rs, ats, job) \cup {id}
  /\ RunningOnRunner(at, r) = RunningOnRunner(ats, r) \cup {id}
  /\ id \notin RunningOnRunner(ats, r)
  /\ \A scope : RecentStarts(rt, at, scope) \subseteq RecentStarts(rs, ats, scope) \cup {id}
  /\ \A a \in RunningAttempts(ats) : rt[at[a].run].job = rs[ats[a].run].job

LEMMA StartJoins ==
  ASSUME NEW rs \in [Runs -> RunRow], NEW ats \in [Attempts -> AttemptRow],
         AttemptsLinked(rs, ats), \A a \in Attempts : ats[a].status = "none" => ats[a].window = 0,
         NEW q \in Runs, NEW id \in Attempts, ats[id].status = "none", NEW r \in Runners
  PROVE  Joined(rs, ats, [rs EXCEPT ![q] = StartedRun(rs[q])],
                [ats EXCEPT ![id] = StartedAttempt(rs[q], q, r)], rs[q].job, id, r)
<1> DEFINE rt == [rs EXCEPT ![q] = StartedRun(rs[q])]
           at == [ats EXCEPT ![id] = StartedAttempt(rs[q], q, r)]
<1>1. /\ \A a \in Attempts : a # id => at[a] = ats[a]
      /\ at[id].status = "Running" /\ at[id].run = q /\ at[id].runner = r
  BY DEF StartedAttempt
<1>2. \A p \in Runs : rt[p].job = rs[p].job
  BY StartedRunRow
<1>3. \A a \in Attempts : a # id /\ ats[a].status # "none" =>
        at[a].run \in Runs /\ rt[at[a].run].job = rs[ats[a].run].job
  BY <1>1, <1>2 DEF AttemptsLinked
<1> HIDE DEF rt, at
<1>4. RunningAttempts(at) = RunningAttempts(ats) \cup {id} /\ id \notin RunningAttempts(ats)
  BY <1>1 DEF RunningAttempts
<1>5. \A a \in RunningAttempts(ats) : /\ a \in Attempts /\ a # id /\ at[a] = ats[a]
                                       /\ rt[at[a].run].job = rs[ats[a].run].job
  BY <1>1, <1>3, <1>4 DEF RunningAttempts
<1>6. RunningOfJob(rt, at, rs[q].job) = RunningOfJob(rs, ats, rs[q].job) \cup {id}
  BY <1>1, <1>2, <1>4, <1>5 DEF RunningOfJob
<1>7. /\ RunningOnRunner(at, r) = RunningOnRunner(ats, r) \cup {id}
      /\ id \notin RunningOnRunner(ats, r)
  BY <1>1, <1>4, <1>5 DEF RunningOnRunner
<1>8. ASSUME NEW scope
      PROVE  RecentStarts(rt, at, scope) \subseteq RecentStarts(rs, ats, scope) \cup {id}
  <2>1. ASSUME NEW a \in Attempts, a # id, at[a].window > 0, rt[at[a].run].job \in scope
        PROVE  ats[a].window > 0 /\ rs[ats[a].run].job \in scope
    BY <1>1, <1>3, <2>1
  <2> QED  BY <2>1 DEF RecentStarts
<1>9. Joined(rs, ats, rt, at, rs[q].job, id, r)
  BY <1>1, <1>2, <1>5, <1>6, <1>7, <1>8 DEF Joined
<1> QED  BY <1>9 DEF rt, at

\* The cpus in use are the units the running attempts of the runner weigh.
LEMMA CpuIsUnits ==
  ASSUME NEW rs, NEW ats, NEW r, NEW w \in [Attempts -> Nat],
         \A a \in RunningOnRunner(ats, r) : jobs[rs[ats[a].run].job].cpu_cores = w[a]
  PROVE  CpuInUse(rs, ats, r) = Cardinality(Units(w, RunningOnRunner(ats, r)))
<1> DEFINE S == RunningOnRunner(ats, r)
           cpu(a) == jobs[rs[ats[a].run].job].cpu_cores
           equation(f) == f = [s \in SUBSET S |-> IF s = {} THEN 0
                                 ELSE cpu(CHOOSE x \in s : TRUE) + f[s \ {CHOOSE x \in s : TRUE}]]
           units == [s \in SUBSET S |-> Cardinality(Units(w, s))]
<1>1. S \in SUBSET Attempts
  BY DEF RunningOnRunner, RunningAttempts
<1>2. \A a \in S : cpu(a) = w[a] /\ w[a] \in Nat
  BY <1>1
<1>3. IsFiniteSet(S)
  BY <1>1, AttemptsFinite
<1>4. CpuInUse(rs, ats, r) = (CHOOSE f : equation(f))[S]
  BY DEF CpuInUse, MapThenSumSet, MapThenFoldSet
<1> HIDE DEF S, cpu
<1>5. ASSUME NEW f PROVE equation(f) <=> SumEquation(S, w, f)
  <2>1. \A s \in SUBSET S : s # {} => cpu(Chosen(s)) = w[Chosen(s)]
    BY <1>2, ChosenIn
  <2>2. [s \in SUBSET S |-> IF s = {} THEN 0 ELSE cpu(Chosen(s)) + f[s \ {Chosen(s)}]]
          = [s \in SUBSET S |-> IF s = {} THEN 0 ELSE w[Chosen(s)] + f[s \ {Chosen(s)}]]
    BY <2>1
  <2> QED  BY <2>2 DEF SumEquation, Chosen
<1>6. SumEquation(S, w, units)
  BY <1>2, <1>3, UnitsSolve
<1> HIDE DEF equation, units
<1>7. SumEquation(S, w, CHOOSE f : equation(f))
  <2>1. equation(units)
    BY <1>5, <1>6
  <2>2. equation(CHOOSE f : equation(f))
    BY <2>1, Zenon
  <2> QED  BY <1>5, <2>2
<1>8. (CHOOSE f : equation(f))[S] = units[S]
  BY <1>3, <1>6, <1>7, OneSolution
<1> QED  BY <1>4, <1>8 DEF units, S

-------------------------------------------------------------------------------
(* Starts within limits                                                      *)

\* The limits of StartsWithinLimits, of the start of attempt a.
LimitsKept(a) ==
  LET r == attempts'[a].runner
      job == runs'[attempts'[a].run].job
      limit == jobs[job].concurrency_limit
      rate == jobs[job].rate_limit
  IN
  /\ jobs[job].compute_class \in {None, RunnerSpec[r].compute_class}
  /\ limit # None => Cardinality(RunningOfJob(runs', attempts', job)) <= limit
  /\ Cardinality(RunningOnRunner(attempts', r)) <= RunnerSpec[r].max_concurrent_leases
  /\ CpuInUse(runs', attempts', r) <= RunnerSpec[r].cpu_cores
  /\ rate # None =>
       Cardinality(RecentStarts(runs', attempts', RateLimitScope(job))) <= rate.limit

\* The poll of r that starts attempt id of run q recovers first, and counts in the
\* tables recovery leaves.
LEMMA PollCounts ==
  ASSUME CountIInv, NEW r \in Runners, NEW q \in Runs, NEW id \in Attempts,
         LeaseNextAttempt(r, q, id)
  PROVE  LimitsKept(id)
<1> DEFINE rs == RecoveredRuns(LostAttempts)
           ats == RecoveredAttempts(LostAttempts)
           job == rs[q].job
<1>1. /\ rs \in [Runs -> RunRow] /\ ats \in [Attempts -> AttemptRow]
      /\ AttemptsLinked(rs, ats)
  BY RecoveredTables, RecoveryConsistent DEF CountIInv, IInv, TablesOK, Consistent
<1>2. \A a \in Attempts : ats[a].status = "none" => ats[a].window = 0
  BY RecoveredRowKept DEF CountIInv, UnusedCountNothing, RowKept
<1>3. ASSUME NEW p \in Runs, rs[p].status # "none"
      PROVE  rs[p].job \in Jobs /\ jobs[rs[p].job] \in JobSpecs
  <2>1. rs[p].job = runs[p].job /\ runs[p].status # "none"
    BY <1>3, RecoveredRowStep DEF CountIInv, Kept, Ended
  <2> QED  BY <2>1 DEF CountIInv, JobsDeployed, IInv, TypeOK, JobsKnown
<1>a. ats[id].status = "none"
  <2>1. attempts[id].status = "none"
    BY DEF LeaseNextAttempt, IsNextId
  <2> QED  BY <2>1, RecoveredRowKept DEF CountIInv, RowKept
<1> HIDE DEF rs, ats
<1>4. /\ runs' = [rs EXCEPT ![q] = StartedRun(rs[q])]
      /\ attempts' = [ats EXCEPT ![id] = StartedAttempt(rs[q], q, r)]
      /\ rs[q].status = "Queued"
      /\ jobs[job].compute_class \in {None, RunnerSpec[r].compute_class}
      /\ Cardinality(RunningOnRunner(ats, r)) < RunnerSpec[r].max_concurrent_leases
      /\ CpuInUse(rs, ats, r) + jobs[job].cpu_cores <= RunnerSpec[r].cpu_cores
      /\ WithinConcurrency(rs, ats, job) /\ WithinRateLimit(rs, ats, job)
  BY DEF LeaseNextAttempt, Leasable, Due, Fits, rs, ats
<1>5. job \in Jobs /\ jobs[job] \in JobSpecs
  BY <1>3, <1>4
<1>6. Joined(rs, ats, runs', attempts', job, id, r)
  BY <1>1, <1>2, <1>a, <1>4, StartJoins
<1> HIDE DEF job
<1>7. jobs[job].concurrency_limit # None =>
        Cardinality(RunningOfJob(runs', attempts', job)) <= jobs[job].concurrency_limit
  <2> SUFFICES ASSUME jobs[job].concurrency_limit # None
               PROVE  Cardinality(RunningOfJob(runs', attempts', job))
                        <= jobs[job].concurrency_limit
    OBVIOUS
  <2>1. jobs[job].concurrency_limit \in Nat
    BY <1>5, JobSpecsAssumption
  <2>2. RunningOfJob(rs, ats, job) \in SUBSET Attempts
    BY DEF RunningOfJob, RunningAttempts
  <2>3. Cardinality(RunningOfJob(rs, ats, job)) < jobs[job].concurrency_limit
    BY <1>4 DEF WithinConcurrency
  <2> QED  BY <1>6, <2>1, <2>2, <2>3, OneMoreFits DEF Joined
<1>8. Cardinality(RunningOnRunner(attempts', r)) <= RunnerSpec[r].max_concurrent_leases
  <2>1. RunningOnRunner(ats, r) \in SUBSET Attempts
    BY DEF RunningOnRunner, RunningAttempts
  <2>2. RunnerSpec[r].max_concurrent_leases \in Nat
    BY RunnerSpecAssumption
  <2> QED  BY <1>4, <1>6, <2>1, <2>2, OneMoreFits DEF Joined
<1>9. jobs[job].rate_limit # None =>
        Cardinality(RecentStarts(runs', attempts', RateLimitScope(job)))
          <= jobs[job].rate_limit.limit
  <2> SUFFICES ASSUME jobs[job].rate_limit # None
               PROVE  Cardinality(RecentStarts(runs', attempts', RateLimitScope(job)))
                        <= jobs[job].rate_limit.limit
    OBVIOUS
  <2> DEFINE scope == RateLimitScope(job)
  <2>1. jobs[job].rate_limit.limit \in Nat
    BY <1>5, JobSpecsAssumption
  <2>2. RecentStarts(rs, ats, scope) \in SUBSET Attempts
    BY DEF RecentStarts
  <2>3. Cardinality(RecentStarts(rs, ats, scope)) < jobs[job].rate_limit.limit
    BY <1>4 DEF WithinRateLimit
  <2>4. RecentStarts(runs', attempts', scope) \subseteq RecentStarts(rs, ats, scope) \cup {id}
    BY <1>6 DEF Joined
  <2> HIDE DEF scope
  <2>5. Cardinality(RecentStarts(runs', attempts', scope)) <= jobs[job].rate_limit.limit
    BY <2>1, <2>2, <2>3, <2>4, OneMoreFits
  <2> QED  BY <2>5 DEF scope
<1>10. CpuInUse(runs', attempts', r) <= RunnerSpec[r].cpu_cores
  <2> DEFINE S == RunningOnRunner(ats, r)
             T == RunningOnRunner(attempts', r)
             w == [a \in Attempts |-> IF a \in T THEN jobs[runs'[attempts'[a].run].job].cpu_cores
                                                ELSE 0]
  <2>1. S \in SUBSET Attempts /\ S \subseteq RunningAttempts(ats) /\ T = S \cup {id} /\ id \notin S
        /\ T \in SUBSET Attempts
    BY <1>6 DEF Joined, RunningOnRunner, RunningAttempts
  <2>2. \A a \in S : /\ runs'[attempts'[a].run].job = rs[ats[a].run].job
                     /\ ats[a].run \in Runs /\ rs[ats[a].run].status # "none"
    BY <1>1, <1>6, <2>1 DEF Joined, AttemptsLinked, RunningAttempts
  <2>3. \A a \in T : jobs[runs'[attempts'[a].run].job].cpu_cores \in Nat
    BY <1>3, <1>5, <1>6, <2>1, <2>2, JobSpecsAssumption DEF Joined
  <2>4. /\ w \in [Attempts -> Nat] /\ w[id] = jobs[job].cpu_cores
        /\ \A a \in T : w[a] = jobs[runs'[attempts'[a].run].job].cpu_cores
        /\ \A a \in S : w[a] = jobs[rs[ats[a].run].job].cpu_cores
    BY <1>6, <2>1, <2>2, <2>3 DEF Joined
  <2> HIDE DEF w
  <2>5. CpuInUse(rs, ats, r) = Cardinality(Units(w, S))
    BY <2>4, CpuIsUnits
  <2>6. CpuInUse(runs', attempts', r) = Cardinality(Units(w, T))
    BY <2>4, CpuIsUnits
  <2>7. Cardinality(Units(w, S \cup {id})) = w[id] + Cardinality(Units(w, S))
    <3>1. IsFiniteSet(S) /\ w[id] \in Nat /\ \A a \in S : w[a] \in Nat
      BY <2>1, <2>4, AttemptsFinite
    <3> HIDE DEF S
    <3> QED  BY <2>1, <3>1, UnitsAdd
  <2>8. Cardinality(Units(w, S)) \in Nat
    <3>1. IsFiniteSet(S) /\ \A a \in S : w[a] \in Nat
      BY <2>1, <2>4, AttemptsFinite
    <3> QED  BY <3>1, UnitsFinite, FS_CardinalityType
  <2> DEFINE n == CpuInUse(rs, ats, r)
             m == CpuInUse(runs', attempts', r)
             c == jobs[job].cpu_cores
  <2>9. n \in Nat /\ c \in Nat /\ m = c + n /\ n + c <= RunnerSpec[r].cpu_cores
    BY <1>4, <1>5, <2>1, <2>4, <2>5, <2>6, <2>7, <2>8, JobSpecsAssumption, Zenon
  <2> HIDE DEF n, m, c, S, T
  <2>10. m <= RunnerSpec[r].cpu_cores
    BY <2>9
  <2> QED  BY <2>10 DEF m
<1> QED  BY <1>4, <1>6, <1>7, <1>8, <1>9, <1>10 DEF LimitsKept, Joined

\* When an attempt starts, its runner has the compute class the job in force asks
\* for, its job is within its concurrency limit, its runner within its lease slots
\* and its cpus, and the scope of its rate limit within that limit, whatever the
\* poll recovered first and whatever deploys changed before.
THEOREM StartsWithinLimitsCorrect == Spec => StartsWithinLimits
<1>1. CountIInv /\ [Next]_vars =>
        [\A a \in Attempts :
           attempts[a].status = "none" /\ attempts'[a].status = "Running" => LimitsKept(a)]_vars
  <2> SUFFICES ASSUME CountIInv, [Next]_vars, NEW a \in Attempts,
                      attempts[a].status = "none", attempts'[a].status = "Running"
               PROVE  LimitsKept(a)
    OBVIOUS
  <2>1. \E r \in Runners, q \in Runs : LeaseNextAttempt(r, q, a)
    BY OnlyPollsStart DEF CountIInv, RowKept
  <2> QED  BY <2>1, PollCounts
<1> QED  BY <1>1, CountInvariant, PTL DEF Spec, StartsWithinLimits, LimitsKept

-------------------------------------------------------------------------------
(* What recovery looks for                                                   *)

\* An attempt whose lease expired, or whose runner stopped its heartbeats, is one
\* a recovery pass takes: none is overlooked because its lease is not open or its
\* runner has no row (recover_lost_attempts_locked).
THEOREM UnheldIsLost == Spec => [](\A a \in Attempts : Unheld(a) => a \in LostAttempts)
<1>1. CountIInv => \A a \in Attempts : Unheld(a) => a \in LostAttempts
  BY DEF CountIInv, HeldByRegistered, IInv, Consistent, OpenIffRunning, Unheld, LostAttempts
<1> QED  BY <1>1, CountInvariant, PTL

\* A recovery pass leaves no attempt unheld.
THEOREM RecoveryTakesAll ==
  Spec => [][RecoverLostAttempts => \A a \in Attempts : ~Unheld(a)']_vars
<1>1. ASSUME CountIInv, RecoverLostAttempts, NEW a \in Attempts
      PROVE  ~Unheld(a)'
  <2>1. CASE a \in LostAttempts
    <3>1. attempts'[a].status = "Failed"
      BY <1>1, <2>1, RecoveredTables DEF RecoverLostAttempts, CountIInv, IInv
    <3> QED  BY <3>1 DEF Unheld
  <2>2. CASE a \notin LostAttempts
    <3>1. attempts'[a] = attempts[a] /\ leases'[a] = leases[a] /\ runners' = runners
      BY <1>1, <2>2 DEF RecoverLostAttempts, RecoveredAttempts, RecoveredLeases
    <3>2. ~Unheld(a)
      BY <1>1, <2>2
      DEF CountIInv, HeldByRegistered, IInv, Consistent, OpenIffRunning, Unheld, LostAttempts
    <3> QED  BY <3>1, <3>2 DEF Unheld
  <2> QED  BY <2>1, <2>2
<1>2. CountIInv /\ [Next]_vars => [RecoverLostAttempts => \A a \in Attempts : ~Unheld(a)']_vars
  BY <1>1
<1> QED  BY <1>2, CountInvariant, PTL DEF Spec

===============================================================================
