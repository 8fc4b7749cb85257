---------------------------- MODULE GumStoreProofs ----------------------------
(* Theorems about the store, for every value of its constants.               *)
EXTENDS GumStore, TLAPS

-------------------------------------------------------------------------------
(* Rows: what the operations make of a well-typed row                        *)

\* Counting a timer down keeps it a natural number under the same bound.
LEMMA LessBounded ==
  /\ \A n \in Nat : Less(n) \in Nat /\ Less(n) <= n
  /\ \A m \in Nat : \A n \in 0 .. m : Less(n) \in 0 .. m
BY DEF Less

\* Rows stay rows under every update of one or two of their columns.
LEMMA RunRows ==
  ASSUME NEW row \in RunRow
  PROVE  /\ [row EXCEPT !.status = "Canceled", !.retry_after = 0] \in RunRow
         /\ [row EXCEPT !.retry_after = Less(@)] \in RunRow
BY LessBounded DEF RunRow, RunStatus, TerminalStatus

LEMMA AttemptRows ==
  ASSUME NEW row \in AttemptRow
  PROVE  /\ \A status \in TerminalStatus : [row EXCEPT !.status = status] \in AttemptRow
         /\ [row EXCEPT !.cancel_requested = TRUE] \in AttemptRow
         /\ [row EXCEPT !.window = Less(@)] \in AttemptRow
BY LessBounded, BoundsAssumption DEF AttemptRow, AttemptStatus

LEMMA LeaseRows ==
  ASSUME NEW row \in LeaseRow
  PROVE  /\ \A state \in {"acked", "released"} :
              [row EXCEPT !.state = state, !.left = 0] \in LeaseRow
         /\ [row EXCEPT !.revoke_requested = TRUE] \in LeaseRow
         /\ [row EXCEPT !.left = Less(@)] \in LeaseRow
         /\ [row EXCEPT !.left = LeaseTtl] \in LeaseRow
<1>1. 0 \in 0 .. LeaseTtl /\ LeaseTtl \in 0 .. LeaseTtl
  BY BoundsAssumption
<1>2. QED
  BY <1>1, LessBounded, BoundsAssumption DEF LeaseRow

\* What each of these updates leaves in the columns the invariant reads.
LEMMA RunColumns ==
  ASSUME NEW row \in RunRow
  PROVE  /\ LET new == [row EXCEPT !.status = "Canceled", !.retry_after = 0]
            IN /\ new.status = "Canceled" /\ new.retry_after = 0
               /\ new.attempt_count = row.attempt_count
               /\ new.max_attempts = row.max_attempts /\ new.job = row.job
         /\ LET new == [row EXCEPT !.retry_after = Less(@)]
            IN /\ new.status = row.status /\ new.retry_after = Less(row.retry_after)
               /\ new.attempt_count = row.attempt_count
               /\ new.max_attempts = row.max_attempts /\ new.job = row.job
BY DEF RunRow

LEMMA AttemptColumns ==
  ASSUME NEW row \in AttemptRow
  PROVE  /\ \A status \in TerminalStatus :
              LET new == [row EXCEPT !.status = status]
              IN /\ new.status = status /\ new.run = row.run /\ new.number = row.number
                 /\ new.cancel_requested = row.cancel_requested
         /\ LET new == [row EXCEPT !.cancel_requested = TRUE]
            IN new.status = row.status /\ new.run = row.run /\ new.number = row.number
         /\ LET new == [row EXCEPT !.window = Less(@)]
            IN /\ new.status = row.status /\ new.run = row.run /\ new.number = row.number
               /\ new.cancel_requested = row.cancel_requested
BY DEF AttemptRow

LEMMA LeaseColumns ==
  ASSUME NEW row \in LeaseRow
  PROVE  /\ \A state \in {"acked", "released"} :
              [row EXCEPT !.state = state, !.left = 0].state = state
         /\ [row EXCEPT !.revoke_requested = TRUE].state = row.state
         /\ [row EXCEPT !.left = Less(@)].state = row.state
         /\ [row EXCEPT !.left = LeaseTtl].state = row.state
BY DEF LeaseRow

\* A recovered run is requeued while its budget lasts, and failed otherwise.
LEMMA RecoveredRunRow ==
  ASSUME NEW row \in RunRow
  PROVE  /\ RecoveredRun(row) \in RunRow
         /\ RecoveredRun(row).status =
              (IF row.attempt_count < row.max_attempts THEN "Queued" ELSE "Failed")
         /\ RecoveredRun(row).job = row.job
         /\ RecoveredRun(row).attempt_count = row.attempt_count
         /\ RecoveredRun(row).max_attempts = row.max_attempts
         /\ RecoveredRun(row).retry_after = 0
BY DEF RecoveredRun, RunRow, RunStatus, TerminalStatus

\* A started run is running and one attempt of its budget is spent.
LEMMA StartedRunRow ==
  ASSUME NEW row \in RunRow
  PROVE  /\ StartedRun(row) \in RunRow
         /\ StartedRun(row).status = "Running"
         /\ StartedRun(row).job = row.job
         /\ StartedRun(row).attempt_count = row.attempt_count + 1
         /\ StartedRun(row).max_attempts = row.max_attempts
         /\ StartedRun(row).retry_after = 0
<1>1. row.attempt_count + 1 \in Nat
  BY DEF RunRow
<1>2. QED
  BY <1>1 DEF StartedRun, RunRow, RunStatus

LEMMA OutcomeStatus == \A outcome \in Outcomes : outcome.status \in TerminalStatus
BY DEF Outcomes, TerminalStatus

\* The hold a completion computes is a natural number whatever row it read.
LEMMA SignalHold ==
  ASSUME NEW outcome \in Outcomes, NEW health
  PROVE  outcome.class = "infra" => FunctionSignal(health, outcome).hold \in Nat
BY BoundsAssumption DEF FunctionSignal

\* A completed run is final with the reported status, or queued again while its
\* budget lasts, which a success or a cancellation never is.
LEMMA CompletedRunRow ==
  ASSUME NEW row \in RunRow, NEW outcome \in Outcomes, NEW signal,
         outcome.class = "infra" => signal.hold \in Nat,
         NEW next \in RetryDisposition(row, outcome, signal)
  PROVE  /\ next \in RunRow
         /\ next.job = row.job
         /\ next.attempt_count = row.attempt_count
         /\ next.max_attempts = row.max_attempts
         /\ \/ next.status = outcome.status /\ next.retry_after = 0
            \/ /\ next.status = "Queued"
               /\ row.attempt_count < row.max_attempts
               /\ outcome.status \notin {"Succeeded", "Canceled"}
<1> DEFINE final == \/ outcome.status \in {"Succeeded", "Canceled"}
                    \/ row.attempt_count >= row.max_attempts
                    \/ outcome.class = "fatal"
           delays == IF outcome.class = "infra" /\ IsHeld(signal)
                     THEN {signal.hold} ELSE Backoffs
<1>1. CASE final
  <2>1. next = [row EXCEPT !.status = outcome.status, !.retry_after = 0]
    BY <1>1 DEF RetryDisposition
  <2>2. QED
    BY <2>1, OutcomeStatus DEF RunRow, RunStatus, TerminalStatus
<1>2. CASE ~final
  <2>1. outcome.status \notin {"Succeeded", "Canceled"} /\ row.attempt_count < row.max_attempts
    BY <1>2 DEF RunRow
  <2>2. delays \subseteq Nat
    BY BoundsAssumption
  <2>3. PICK delay \in delays : next = [row EXCEPT !.status = "Queued", !.retry_after = delay]
    BY <1>2 DEF RetryDisposition
  <2>4. QED
    BY <2>1, <2>2, <2>3 DEF RunRow, RunStatus
<1>3. QED
  BY <1>1, <1>2

-------------------------------------------------------------------------------
(* Types *)

TablesOK(rs, ats, ls) ==
  /\ rs \in [Runs -> RunRow]
  /\ ats \in [Attempts -> AttemptRow]
  /\ ls \in [Attempts -> LeaseRow]

\* A recovery pass puts rows of the right type in the three tables it rewrites.
LEMMA RecoveryTypes ==
  ASSUME TablesOK(runs, attempts, leases), NEW lost \in SUBSET Attempts
  PROVE  TablesOK(RecoveredRuns(lost), RecoveredAttempts(lost), RecoveredLeases(lost))
<1>1. RecoveredRuns(lost) \in [Runs -> RunRow]
  BY RecoveredRunRow DEF RecoveredRuns, TablesOK
<1>2. RecoveredAttempts(lost) \in [Attempts -> AttemptRow]
  BY AttemptRows DEF RecoveredAttempts, TablesOK, TerminalStatus
<1>3. RecoveredLeases(lost) \in [Attempts -> LeaseRow]
  BY LeaseRows DEF RecoveredLeases, TablesOK
<1>4. QED
  BY <1>1, <1>2, <1>3 DEF TablesOK

LEMMA TypeCorrectInit == Init => TypeOK
BY BoundsAssumption, NoneAssumption
   DEF Init, TypeOK, RunRow, RunStatus, AttemptRow, AttemptStatus, LeaseRow,
       NoRun, NoAttempt, NoLease

\* Every operation of the store keeps every table well typed.
LEMMA TypeCorrectStep == TypeOK /\ [Next]_vars => TypeOK'
<1> SUFFICES ASSUME TypeOK, [Next]_vars PROVE TypeOK'
  OBVIOUS
<1> USE BoundsAssumption
<1>1. ASSUME NEW bundle \in SUBSET Jobs \ {{}}, NEW spec \in [bundle -> JobSpecs],
             RegisterDeploy(bundle, spec)
      PROVE  TypeOK'
  BY <1>1 DEF RegisterDeploy, TypeOK
<1>2. ASSUME NEW id \in Runs, NEW job \in Jobs, NEW key \in Keys \cup {None},
             NEW delay \in Delays, EnqueueRun(id, job, key, delay)
      PROVE  TypeOK'
  <2>1. jobs[job].retries \in Nat
    BY <1>2, JobSpecsAssumption DEF EnqueueRun, TypeOK
  <2>2. QueuedRun(job, jobs[job].retries + 1, delay) \in RunRow
    BY <2>1 DEF QueuedRun, RunRow, RunStatus
  <2>3. runs' \in [Runs -> RunRow]
    BY <1>2, <2>2 DEF EnqueueRun, InsertRun, TypeOK
  <2>4. run_keys' \in [Jobs \X Keys -> [run : Runs \cup {None}, left : 0 .. KeyRetention]]
    <3>1. CASE key = None
      BY <1>2, <3>1 DEF EnqueueRun, TypeOK
    <3>2. CASE key # None
      <4>1. run_keys' = [run_keys EXCEPT ![<<job, key>>] = [run |-> id, left |-> KeyRetention]]
        BY <1>2, <3>2 DEF EnqueueRun
      <4>2. [run |-> id, left |-> KeyRetention]
              \in [run : Runs \cup {None}, left : 0 .. KeyRetention]
        OBVIOUS
      <4>3. QED
        BY <4>1, <4>2 DEF TypeOK
    <3>3. QED
      BY <3>1, <3>2
  <2>5. QED
    BY <1>2, <2>3, <2>4 DEF EnqueueRun, TypeOK
<1>3. ASSUME NEW id \in Runs, NEW source \in Runs, ReplayRun(id, source)
      PROVE  TypeOK'
  <2>1. QueuedRun(runs[source].job, runs[source].max_attempts, 0) \in RunRow
    BY DEF QueuedRun, RunRow, RunStatus, TypeOK
  <2>2. QED
    BY <1>3, <2>1 DEF ReplayRun, InsertRun, TypeOK
<1>4. ASSUME NEW r \in Runners, RegisterRunner(r)
      PROVE  TypeOK'
  BY <1>4 DEF RegisterRunner, UpsertRunner, TypeOK
<1>5. ASSUME NEW r \in Runners, NEW active \in SUBSET LeasesOf(r), HeartbeatRunner(r, active)
      PROVE  TypeOK'
  <2>1. leases' \in [Attempts -> LeaseRow]
    BY <1>5, LeaseRows DEF HeartbeatRunner, TypeOK
  <2>2. QED
    BY <1>5, <2>1 DEF HeartbeatRunner, UpsertRunner, TypeOK
<1>6. ASSUME NEW r \in Runners, NEW q \in Runs, NEW id \in Attempts,
             LeaseNextAttempt(r, q, id)
      PROVE  TypeOK'
  <2> DEFINE rs == RecoveredRuns(LostAttempts)
             ats == RecoveredAttempts(LostAttempts)
             ls == RecoveredLeases(LostAttempts)
  <2>1. TablesOK(rs, ats, ls)
    BY RecoveryTypes DEF LostAttempts, TablesOK, TypeOK
  <2> HIDE DEF rs, ats, ls
  <2>2. /\ runs' = [rs EXCEPT ![q] = StartedRun(rs[q])]
        /\ attempts' = [ats EXCEPT ![id] = StartedAttempt(rs[q], q, r)]
        /\ leases' = [ls EXCEPT ![id] = [state |-> "open", left |-> LeaseTtl,
                                         revoke_requested |-> FALSE]]
        /\ UNCHANGED <<jobs, runners, run_keys, function_health>>
    BY <1>6 DEF LeaseNextAttempt, rs, ats, ls
  <2>3. StartedRun(rs[q]) \in RunRow
    BY <2>1, StartedRunRow DEF TablesOK
  <2>4. StartedAttempt(rs[q], q, r) \in AttemptRow
    BY <2>1 DEF TablesOK, StartedAttempt, RunRow, AttemptRow, AttemptStatus
  <2>5. [state |-> "open", left |-> LeaseTtl, revoke_requested |-> FALSE] \in LeaseRow
    BY DEF LeaseRow
  <2>6. QED
    BY <2>1, <2>2, <2>3, <2>4, <2>5 DEF TablesOK, TypeOK
<1>7. ASSUME NEW r \in Runners, NEW a \in Attempts, NEW outcome \in Outcomes,
             CompleteAttempt(r, a, outcome)
      PROVE  TypeOK'
  <2> DEFINE q == attempts[a].run
             health == FunctionSignal(function_health[runs[q].job], outcome)
  <2>1. outcome.status \in TerminalStatus
    BY OutcomeStatus
  <2>2. attempts' \in [Attempts -> AttemptRow]
    <3>1. attempts' = [attempts EXCEPT ![a].status = outcome.status]
      BY <1>7 DEF CompleteAttempt
    <3>2. QED
      BY <2>1, <3>1, AttemptRows DEF TypeOK
  <2>3. leases' \in [Attempts -> LeaseRow]
    <3>1. leases' = [leases EXCEPT ![a].state = "acked", ![a].left = 0]
      BY <1>7 DEF CompleteAttempt
    <3>2. QED
      BY <3>1, LeaseRows DEF TypeOK
  <2>4. runs[q].job \in Jobs => health \in [failures : Nat, hold : 0 .. HoldDelay]
    BY DEF FunctionSignal, Outcomes, TypeOK
  <2> HIDE DEF health
  <2>5. function_health' = [function_health EXCEPT ![runs[q].job] = health]
    BY <1>7 DEF CompleteAttempt, health
  <2>6. function_health' \in [Jobs -> [failures : Nat, hold : 0 .. HoldDelay]]
    BY <2>4, <2>5 DEF TypeOK
  <2>7. PICK row \in RetryDisposition(runs[q], outcome, health) :
          runs' = [runs EXCEPT ![q] = row]
    BY <1>7 DEF CompleteAttempt, health
  <2>8. q \in Runs => row \in RunRow
    BY <2>7, CompletedRunRow, SignalHold DEF TypeOK, health
  <2>9. runs' \in [Runs -> RunRow]
    BY <2>7, <2>8 DEF TypeOK
  <2>10. QED
    BY <1>7, <2>2, <2>3, <2>6, <2>9 DEF CompleteAttempt, TypeOK
<1>8. ASSUME NEW q \in Runs, CancelQueuedRun(q)
      PROVE  TypeOK'
  <2>1. runs' = [runs EXCEPT ![q].status = "Canceled", ![q].retry_after = 0]
    BY <1>8 DEF CancelQueuedRun
  <2>2. runs' \in [Runs -> RunRow]
    BY <2>1, RunRows DEF TypeOK
  <2>3. QED
    BY <1>8, <2>2 DEF CancelQueuedRun, TypeOK
<1>9. ASSUME NEW q \in Runs, NEW a \in Attempts, CancelRunningRun(q, a)
      PROVE  TypeOK'
  <2>1. attempts' = [attempts EXCEPT ![a].cancel_requested = TRUE]
    BY <1>9 DEF CancelRunningRun
  <2>2. leases' = [leases EXCEPT ![a].revoke_requested = TRUE]
    BY <1>9 DEF CancelRunningRun
  <2>3. attempts' \in [Attempts -> AttemptRow]
    BY <2>1, AttemptRows DEF TypeOK
  <2>4. leases' \in [Attempts -> LeaseRow]
    BY <2>2, LeaseRows DEF TypeOK
  <2>5. QED
    BY <1>9, <2>3, <2>4 DEF CancelRunningRun, TypeOK
<1>10. ASSUME RecoverLostAttempts
       PROVE  TypeOK'
  <2>1. TablesOK(runs', attempts', leases')
    BY <1>10, RecoveryTypes DEF RecoverLostAttempts, LostAttempts, TablesOK, TypeOK
  <2>2. QED
    BY <1>10, <2>1 DEF RecoverLostAttempts, TablesOK, TypeOK
<1>11. ASSUME Tick
       PROVE  TypeOK'
  <2>1. runs' \in [Runs -> RunRow]
    BY <1>11, LessBounded, RunRows DEF Tick, TypeOK
  <2>2. attempts' \in [Attempts -> AttemptRow]
    BY <1>11, LessBounded, AttemptRows DEF Tick, TypeOK
  <2>3. leases' \in [Attempts -> LeaseRow]
    BY <1>11, LessBounded, LeaseRows DEF Tick, TypeOK
  <2>4. runners' \in [Runners -> [registered : BOOLEAN, heartbeat : 0 .. HeartbeatTimeout]]
    <3>1. runners \in [Runners -> [registered : BOOLEAN, heartbeat : 0 .. HeartbeatTimeout]]
      BY DEF TypeOK
    <3>2. runners' = [r \in Runners |-> [runners[r] EXCEPT !.heartbeat = Less(@)]]
      BY <1>11 DEF Tick
    <3>3. QED
      BY <3>1, <3>2, LessBounded
  <2>5. run_keys' \in [Jobs \X Keys -> [run : Runs \cup {None}, left : 0 .. KeyRetention]]
    <3>1. run_keys \in [Jobs \X Keys -> [run : Runs \cup {None}, left : 0 .. KeyRetention]]
      BY DEF TypeOK
    <3>2. run_keys' = [jk \in Jobs \X Keys |-> [run_keys[jk] EXCEPT !.left = Less(@)]]
      BY <1>11 DEF Tick
    <3>3. QED
      BY <3>1, <3>2, LessBounded
  <2>6. function_health' \in [Jobs -> [failures : Nat, hold : 0 .. HoldDelay]]
    <3>1. function_health \in [Jobs -> [failures : Nat, hold : 0 .. HoldDelay]]
      BY DEF TypeOK
    <3>2. function_health' = [h \in Jobs |-> [function_health[h] EXCEPT !.hold = Less(@)]]
      BY <1>11 DEF Tick
    <3>3. QED
      BY <3>1, <3>2, LessBounded
  <2>7. jobs' = jobs
    BY <1>11 DEF Tick
  <2>8. QED
    BY <2>1, <2>2, <2>3, <2>4, <2>5, <2>6, <2>7 DEF TypeOK
<1>12. CASE UNCHANGED vars
  BY <1>12 DEF vars, TypeOK
<1>13. QED
  BY <1>1, <1>2, <1>3, <1>4, <1>5, <1>6, <1>7, <1>8, <1>9, <1>10, <1>11, <1>12
     DEF Next, Deploy, Enqueue, Replay, Heartbeat, Lease, Complete, CancelRun

\* Whatever the operations and their order, the tables stay well typed and no
\* deadline lies further ahead than the operation that set it allows.
THEOREM TypeCorrect == Spec => []TypeOK
BY TypeCorrectInit, TypeCorrectStep, PTL DEF Spec

-------------------------------------------------------------------------------
(* The inductive invariant.  A poll works on the tables recovery leaves, so   *)
(* each part is stated of given tables: it must hold between the two halves.  *)

\* An attempt belongs to an existing run; an unused row belongs to none.
AttemptsLinked(rs, ats) ==
  \A a \in Attempts :
    IF ats[a].status = "none" THEN ats[a].run = None
    ELSE ats[a].run \in Runs /\ rs[ats[a].run].status # "none"

\* A queued run has budget left (why a start never exceeds it), and only a
\* queued run waits (why time does not change a final one).
BudgetsKept(rs) ==
  \A q \in Runs :
    /\ rs[q].attempt_count <= rs[q].max_attempts
    /\ rs[q].status = "Queued" => rs[q].attempt_count < rs[q].max_attempts
    /\ rs[q].status = "none" => rs[q].attempt_count = 0
    /\ rs[q].status # "none" => rs[q].max_attempts > 0
    /\ rs[q].status # "Queued" => rs[q].retry_after = 0

NumbersInRange(rs, ats) ==
  \A a \in Attempts : ats[a].status # "none" =>
    ats[a].number \in 1 .. rs[ats[a].run].attempt_count

NumbersUnique(ats) ==
  \A a, b \in Attempts :
    ats[a].status # "none" /\ ats[b].status # "none" /\ b # a =>
      ats[b].run # ats[a].run \/ ats[b].number # ats[a].number

NumbersWithoutGap(rs, ats) ==
  \A q \in Runs : \A n \in 1 .. rs[q].attempt_count :
    \E a \in Attempts : ats[a].run = q /\ ats[a].number = n

Latest(rs, ats, a) == ats[a].number = rs[ats[a].run].attempt_count

RunningIsLatest(rs, ats) ==
  \A a \in Attempts : ats[a].status = "Running" =>
    rs[ats[a].run].status = "Running" /\ Latest(rs, ats, a)

RunningHasAttempt(rs, ats) ==
  \A q \in Runs : rs[q].status = "Running" =>
    \E a \in Attempts : ats[a].status = "Running" /\ ats[a].run = q

OpenIffRunning(ats, ls) ==
  \A a \in Attempts : ls[a].state = "open" <=> ats[a].status = "Running"

SuccessDecides(rs, ats, ls) ==
  \A a \in Attempts :
    /\ ats[a].status = "Succeeded" => rs[ats[a].run].status = "Succeeded" /\ Latest(rs, ats, a)
    /\ ls[a].state = "released" => ats[a].status = "Failed"

LatestDecides(rs, ats) ==
  \A q \in Runs : rs[q].status \in {"Succeeded", "Failed", "TimedOut"} =>
    \E a \in Attempts : /\ ats[a].run = q /\ Latest(rs, ats, a)
                        /\ ats[a].status = rs[q].status

CancelDecides(rs, ats, ls) ==
  \A a \in Attempts : ats[a].cancel_requested /\ ls[a].state = "acked" =>
    ats[a].status = "Canceled" /\ rs[ats[a].run].status = "Canceled"

Consistent(rs, ats, ls) ==
  /\ AttemptsLinked(rs, ats)
  /\ BudgetsKept(rs)
  /\ NumbersInRange(rs, ats)
  /\ NumbersUnique(ats)
  /\ NumbersWithoutGap(rs, ats)
  /\ RunningIsLatest(rs, ats)
  /\ RunningHasAttempt(rs, ats)
  /\ OpenIffRunning(ats, ls)
  /\ SuccessDecides(rs, ats, ls)
  /\ LatestDecides(rs, ats)
  /\ CancelDecides(rs, ats, ls)

\* A run is a run of some job.
JobsKnown == \A q \in Runs : runs[q].status # "none" => runs[q].job \in Jobs

IInv == TypeOK /\ JobsKnown /\ Consistent(runs, attempts, leases)

\* No part of Consistent reads the columns the operations that only renew,
\* request a cancel or let time pass write.
LEMMA FrameConsistent ==
  ASSUME NEW rs \in [Runs -> RunRow], NEW ats \in [Attempts -> AttemptRow],
         NEW ls \in [Attempts -> LeaseRow],
         NEW rt \in [Runs -> RunRow], NEW at \in [Attempts -> AttemptRow],
         NEW lt \in [Attempts -> LeaseRow],
         Consistent(rs, ats, ls),
         \A q \in Runs :
           /\ rt[q].status = rs[q].status
           /\ rt[q].attempt_count = rs[q].attempt_count
           /\ rt[q].max_attempts = rs[q].max_attempts
           /\ rs[q].retry_after = 0 => rt[q].retry_after = 0,
         \A a \in Attempts :
           /\ at[a].status = ats[a].status /\ at[a].run = ats[a].run
           /\ at[a].number = ats[a].number
           /\ at[a].cancel_requested => ats[a].cancel_requested \/ ats[a].status = "Running"
           /\ lt[a].state = ls[a].state
  PROVE  Consistent(rt, at, lt)
<1> USE DEF Consistent
<1>1. AttemptsLinked(rt, at)
  BY DEF AttemptsLinked
<1>2. BudgetsKept(rt)
  BY DEF BudgetsKept
<1>3. NumbersInRange(rt, at)
  BY DEF NumbersInRange, AttemptsLinked
<1>4. NumbersUnique(at)
  BY DEF NumbersUnique
<1>5. NumbersWithoutGap(rt, at)
  BY DEF NumbersWithoutGap
<1>6. RunningIsLatest(rt, at)
  BY DEF RunningIsLatest, Latest, AttemptsLinked
<1>7. RunningHasAttempt(rt, at)
  BY DEF RunningHasAttempt
<1>8. OpenIffRunning(at, lt)
  BY DEF OpenIffRunning
<1>9. SuccessDecides(rt, at, lt)
  BY DEF SuccessDecides, Latest, AttemptsLinked
<1>10. LatestDecides(rt, at)
  BY DEF LatestDecides, Latest, AttemptsLinked
<1>11. CancelDecides(rt, at, lt)
  BY DEF CancelDecides, OpenIffRunning, AttemptsLinked
<1>12. QED
  BY <1>1, <1>2, <1>3, <1>4, <1>5, <1>6, <1>7, <1>8, <1>9, <1>10, <1>11

\* A run inserted in the queue with a budget and no attempt.
LEMMA InsertConsistent ==
  ASSUME NEW rs \in [Runs -> RunRow], NEW ats \in [Attempts -> AttemptRow],
         NEW ls \in [Attempts -> LeaseRow], Consistent(rs, ats, ls),
         NEW id \in Runs, rs[id].status = "none",
         NEW row \in RunRow,
         row.status = "Queued", row.attempt_count = 0, row.max_attempts > 0
  PROVE  Consistent([rs EXCEPT ![id] = row], ats, ls)
<1> DEFINE rt == [rs EXCEPT ![id] = row]
<1>1. rt \in [Runs -> RunRow] /\ rt[id] = row /\ \A q \in Runs : q # id => rt[q] = rs[q]
  OBVIOUS
<1>2. \A a \in Attempts : ats[a].run # id
  BY NoneAssumption DEF Consistent, AttemptsLinked, Runs
<1> HIDE DEF rt
<1> USE DEF Consistent
<1>3. AttemptsLinked(rt, ats)
  BY <1>1 DEF AttemptsLinked
<1>4. BudgetsKept(rt)
  BY <1>1 DEF BudgetsKept, RunRow
<1>5. NumbersInRange(rt, ats)
  BY <1>1, <1>2 DEF NumbersInRange, AttemptsLinked
<1>6. NumbersWithoutGap(rt, ats)
  BY <1>1 DEF NumbersWithoutGap
<1>7. RunningIsLatest(rt, ats)
  BY <1>1, <1>2 DEF RunningIsLatest, Latest, AttemptsLinked
<1>8. RunningHasAttempt(rt, ats)
  BY <1>1 DEF RunningHasAttempt
<1>9. SuccessDecides(rt, ats, ls)
  BY <1>1, <1>2 DEF SuccessDecides, Latest, AttemptsLinked
<1>10. LatestDecides(rt, ats)
  BY <1>1, <1>2 DEF LatestDecides, Latest, AttemptsLinked
<1>11. CancelDecides(rt, ats, ls)
  BY <1>1, <1>2 DEF CancelDecides, OpenIffRunning, AttemptsLinked
<1>12. QED
  BY <1>3, <1>4, <1>5, <1>6, <1>7, <1>8, <1>9, <1>10, <1>11 DEF rt

\* The tables a recovery pass leaves, row by row: the lost attempts failed, their
\* leases released, and the runs they executed back in the queue or failed.
LEMMA RecoveredTables ==
  ASSUME TypeOK, NEW lost \in SUBSET LostAttempts
  PROVE  LET rs == RecoveredRuns(lost)
             ats == RecoveredAttempts(lost)
             ls == RecoveredLeases(lost)
         IN /\ TablesOK(rs, ats, ls)
            /\ \A a \in lost :
                 /\ attempts[a].status = "Running" /\ leases[a].state = "open"
                 /\ ats[a].status = "Failed" /\ ls[a].state = "released"
            /\ \A a \in Attempts :
                 /\ ats[a].run = attempts[a].run /\ ats[a].number = attempts[a].number
                 /\ ats[a].cancel_requested = attempts[a].cancel_requested
                 /\ a \notin lost => ats[a] = attempts[a] /\ ls[a] = leases[a]
            /\ \A q \in Runs :
                 /\ rs[q].attempt_count = runs[q].attempt_count
                 /\ rs[q].max_attempts = runs[q].max_attempts
                 /\ rs[q].job = runs[q].job
                 /\ IF \E a \in lost : attempts[a].run = q
                    THEN /\ rs[q].status = (IF runs[q].attempt_count < runs[q].max_attempts
                                            THEN "Queued" ELSE "Failed")
                         /\ rs[q].retry_after = 0
                    ELSE rs[q] = runs[q]
<1> DEFINE rs == RecoveredRuns(lost)
           ats == RecoveredAttempts(lost)
           ls == RecoveredLeases(lost)
<1>1. /\ lost \subseteq Attempts
      /\ \A a \in lost : attempts[a].status = "Running" /\ leases[a].state = "open"
  BY DEF LostAttempts
<1>2. TablesOK(rs, ats, ls)
  BY <1>1, RecoveryTypes DEF TablesOK, TypeOK
<1>3. \A a \in Attempts :
        IF a \in lost
        THEN /\ ats[a] = [attempts[a] EXCEPT !.status = "Failed"]
             /\ ls[a] = [leases[a] EXCEPT !.state = "released", !.left = 0]
        ELSE ats[a] = attempts[a] /\ ls[a] = leases[a]
  BY DEF RecoveredAttempts, RecoveredLeases
<1>4. \A a \in lost :
        /\ ats[a].status = "Failed" /\ ls[a].state = "released"
        /\ ats[a].run = attempts[a].run /\ ats[a].number = attempts[a].number
        /\ ats[a].cancel_requested = attempts[a].cancel_requested
  <2> SUFFICES ASSUME NEW a \in lost
               PROVE  /\ ats[a].status = "Failed" /\ ls[a].state = "released"
                      /\ ats[a].run = attempts[a].run /\ ats[a].number = attempts[a].number
                      /\ ats[a].cancel_requested = attempts[a].cancel_requested
    OBVIOUS
  <2>1. /\ a \in Attempts /\ attempts[a] \in AttemptRow /\ leases[a] \in LeaseRow
        /\ ats[a] = [attempts[a] EXCEPT !.status = "Failed"]
        /\ ls[a] = [leases[a] EXCEPT !.state = "released", !.left = 0]
    BY <1>1, <1>3 DEF TypeOK
  <2> HIDE DEF ats, ls
  <2>2. /\ ats[a].status = "Failed" /\ ats[a].run = attempts[a].run
        /\ ats[a].number = attempts[a].number
        /\ ats[a].cancel_requested = attempts[a].cancel_requested
    BY <2>1, AttemptColumns DEF TerminalStatus
  <2>3. ls[a].state = "released"
    BY <2>1, LeaseColumns
  <2>4. QED
    BY <2>2, <2>3
<1>5. \A q \in Runs :
        IF \E a \in lost : attempts[a].run = q
        THEN rs[q] = RecoveredRun(runs[q]) ELSE rs[q] = runs[q]
  BY DEF RecoveredRuns
<1>6. \A q \in Runs : runs[q] \in RunRow
  BY DEF TypeOK
<1> HIDE DEF rs, ats, ls
<1>7. \A q \in Runs :
        /\ rs[q].attempt_count = runs[q].attempt_count
        /\ rs[q].max_attempts = runs[q].max_attempts
        /\ rs[q].job = runs[q].job
        /\ IF \E a \in lost : attempts[a].run = q
           THEN /\ rs[q].status = (IF runs[q].attempt_count < runs[q].max_attempts
                                   THEN "Queued" ELSE "Failed")
                /\ rs[q].retry_after = 0
           ELSE rs[q] = runs[q]
  BY <1>5, <1>6, RecoveredRunRow
<1>8. QED
  BY <1>1, <1>2, <1>3, <1>4, <1>7 DEF rs, ats, ls

\* A recovery pass keeps every part: the attempt it fails was the only running
\* one of its run, and the latest, so no other attempt of that run runs on.
LEMMA RecoveryConsistent ==
  ASSUME IInv, NEW lost \in SUBSET LostAttempts
  PROVE  Consistent(RecoveredRuns(lost), RecoveredAttempts(lost), RecoveredLeases(lost))
<1> DEFINE rs == RecoveredRuns(lost)
           ats == RecoveredAttempts(lost)
           ls == RecoveredLeases(lost)
           hit(q) == \E a \in lost : attempts[a].run = q
<1>1. /\ TablesOK(rs, ats, ls)
      /\ lost \subseteq Attempts
      /\ \A a \in lost : /\ attempts[a].status = "Running" /\ leases[a].state = "open"
                         /\ ats[a].status = "Failed" /\ ls[a].state = "released"
      /\ \A a \in Attempts :
           /\ ats[a].run = attempts[a].run /\ ats[a].number = attempts[a].number
           /\ ats[a].cancel_requested = attempts[a].cancel_requested
           /\ a \notin lost => ats[a] = attempts[a] /\ ls[a] = leases[a]
  BY RecoveredTables DEF IInv, LostAttempts
<1>2. \A q \in Runs :
        /\ rs[q].attempt_count = runs[q].attempt_count
        /\ rs[q].max_attempts = runs[q].max_attempts
        /\ hit(q) => /\ rs[q].status = (IF runs[q].attempt_count < runs[q].max_attempts
                                        THEN "Queued" ELSE "Failed")
                     /\ rs[q].retry_after = 0
        /\ ~hit(q) => rs[q] = runs[q]
  BY RecoveredTables DEF IInv
<1> HIDE DEF rs, ats, ls
<1> USE DEF IInv, Consistent
<1>3. \A a \in lost : /\ attempts[a].run \in Runs
                      /\ runs[attempts[a].run].status = "Running"
                      /\ attempts[a].number = runs[attempts[a].run].attempt_count
  BY <1>1 DEF AttemptsLinked, RunningIsLatest, Latest
<1>4. \A q \in Runs : hit(q) => runs[q].status = "Running"
  BY <1>3
<1>5. AttemptsLinked(rs, ats)
  BY <1>1, <1>2, <1>3 DEF AttemptsLinked
<1>6. BudgetsKept(rs)
  BY <1>2, <1>4 DEF BudgetsKept
<1>7. NumbersInRange(rs, ats)
  BY <1>1, <1>2 DEF NumbersInRange, AttemptsLinked
<1>8. NumbersUnique(ats)
  BY <1>1 DEF NumbersUnique
<1>9. NumbersWithoutGap(rs, ats)
  BY <1>1, <1>2 DEF NumbersWithoutGap
<1>10. RunningIsLatest(rs, ats)
  <2> SUFFICES ASSUME NEW a \in Attempts, ats[a].status = "Running"
               PROVE  rs[ats[a].run].status = "Running" /\ Latest(rs, ats, a)
    BY DEF RunningIsLatest
  <2>1. /\ a \notin lost /\ attempts[a].status = "Running"
        /\ attempts[a].run \in Runs /\ runs[attempts[a].run].status = "Running"
        /\ attempts[a].number = runs[attempts[a].run].attempt_count
    BY <1>1 DEF AttemptsLinked, RunningIsLatest, Latest
  <2>2. \A b \in lost : attempts[b].run # attempts[a].run
    BY <1>1, <1>3, <2>1 DEF NumbersUnique
  <2>3. ~hit(attempts[a].run)
    BY <2>2
  <2>4. QED
    BY <1>1, <1>2, <2>1, <2>3 DEF Latest
<1>11. RunningHasAttempt(rs, ats)
  <2> SUFFICES ASSUME NEW q \in Runs, rs[q].status = "Running"
               PROVE  \E a \in Attempts : ats[a].status = "Running" /\ ats[a].run = q
    BY DEF RunningHasAttempt
  <2>1. ~hit(q) /\ runs[q].status = "Running"
    BY <1>2
  <2>2. PICK a \in Attempts : attempts[a].status = "Running" /\ attempts[a].run = q
    BY <2>1 DEF RunningHasAttempt
  <2>3. QED
    BY <1>1, <2>1, <2>2
<1>12. OpenIffRunning(ats, ls)
  BY <1>1 DEF OpenIffRunning
<1>13. SuccessDecides(rs, ats, ls)
  BY <1>1, <1>2, <1>4 DEF SuccessDecides, Latest, AttemptsLinked
<1>14. LatestDecides(rs, ats)
  <2> SUFFICES ASSUME NEW q \in Runs, rs[q].status \in {"Succeeded", "Failed", "TimedOut"}
               PROVE  \E a \in Attempts : /\ ats[a].run = q /\ Latest(rs, ats, a)
                                          /\ ats[a].status = rs[q].status
    BY DEF LatestDecides
  <2>1. CASE hit(q)
    <3>1. PICK a \in lost : attempts[a].run = q
      BY <2>1
    <3>2. rs[q].status = "Failed"
      BY <1>2, <2>1
    <3>3. QED
      BY <1>1, <1>2, <1>3, <3>1, <3>2 DEF Latest
  <2>2. CASE ~hit(q)
    <3>1. rs[q] = runs[q]
      BY <1>2, <2>2
    <3>2. PICK a \in Attempts : /\ attempts[a].run = q /\ Latest(runs, attempts, a)
                                /\ attempts[a].status = runs[q].status
      BY <3>1 DEF LatestDecides
    <3>3. a \notin lost
      BY <2>2, <3>2
    <3>4. QED
      BY <1>1, <3>1, <3>2, <3>3 DEF Latest
  <2>3. QED
    BY <2>1, <2>2
<1>15. CancelDecides(rs, ats, ls)
  BY <1>1, <1>2, <1>4 DEF CancelDecides, AttemptsLinked
<1>16. QED
  BY <1>5, <1>6, <1>7, <1>8, <1>9, <1>10, <1>11, <1>12, <1>13, <1>14, <1>15
     DEF rs, ats, ls

\* Starting a queued run keeps every part: it has budget for one attempt more,
\* whose number is above those of all earlier ones, and none of them runs.
LEMMA StartConsistent ==
  ASSUME NEW rs \in [Runs -> RunRow], NEW ats \in [Attempts -> AttemptRow],
         NEW ls \in [Attempts -> LeaseRow], Consistent(rs, ats, ls),
         NEW q \in Runs, rs[q].status = "Queued",
         NEW id \in Attempts, ats[id].status = "none",
         NEW r \in Runners, NEW lease \in LeaseRow, lease.state = "open"
  PROVE  Consistent([rs EXCEPT ![q] = StartedRun(rs[q])],
                    [ats EXCEPT ![id] = StartedAttempt(rs[q], q, r)],
                    [ls EXCEPT ![id] = lease])
<1> DEFINE rt == [rs EXCEPT ![q] = StartedRun(rs[q])]
           at == [ats EXCEPT ![id] = StartedAttempt(rs[q], q, r)]
           lt == [ls EXCEPT ![id] = lease]
           count == rs[q].attempt_count
<1>1. /\ \A p \in Runs : p # q => rt[p] = rs[p]
      /\ rt[q].status = "Running" /\ rt[q].retry_after = 0
      /\ rt[q].attempt_count = count + 1 /\ rt[q].max_attempts = rs[q].max_attempts
  BY StartedRunRow
<1>2. /\ \A a \in Attempts : a # id => at[a] = ats[a] /\ lt[a] = ls[a]
      /\ at[id].status = "Running" /\ at[id].run = q /\ at[id].number = count + 1
      /\ at[id].cancel_requested = FALSE /\ lt[id].state = "open"
  BY DEF StartedAttempt
<1>3. \A p \in Runs : rs[p].attempt_count \in Nat /\ rs[p].max_attempts \in Nat
  BY DEF RunRow
<1>4. None \notin Runs
  BY NoneAssumption DEF Runs
<1> HIDE DEF rt, at, lt
<1> USE DEF Consistent
<1>5. ats[id].run = None
  BY DEF AttemptsLinked
<1>6. \A a \in Attempts : ats[a].status # "none" => ats[a].run \in Runs /\ a # id
  BY DEF AttemptsLinked
<1>7. AttemptsLinked(rt, at)
  BY <1>1, <1>2 DEF AttemptsLinked
<1>8. BudgetsKept(rt)
  BY <1>1, <1>3 DEF BudgetsKept
<1>9. NumbersInRange(rt, at)
  BY <1>1, <1>2, <1>3, <1>6 DEF NumbersInRange
<1>10. NumbersUnique(at)
  <2>1. \A a \in Attempts : ats[a].status # "none" /\ ats[a].run = q => ats[a].number # count + 1
    BY <1>3 DEF NumbersInRange
  <2>2. QED
    BY <1>2, <2>1 DEF NumbersUnique
<1>11. NumbersWithoutGap(rt, at)
  <2> SUFFICES ASSUME NEW p \in Runs, NEW n \in 1 .. rt[p].attempt_count
               PROVE  \E a \in Attempts : at[a].run = p /\ at[a].number = n
    BY DEF NumbersWithoutGap
  <2>1. CASE p = q /\ n = count + 1
    BY <1>2, <2>1
  <2>2. CASE ~(p = q /\ n = count + 1)
    <3>1. n \in 1 .. rs[p].attempt_count
      BY <1>1, <1>3, <2>2
    <3>2. PICK a \in Attempts : ats[a].run = p /\ ats[a].number = n
      BY <3>1 DEF NumbersWithoutGap
    <3>3. QED
      BY <1>2, <1>4, <1>5, <3>2
  <2>3. QED
    BY <2>1, <2>2
<1>12. RunningIsLatest(rt, at)
  BY <1>1, <1>2, <1>6 DEF RunningIsLatest, Latest
<1>13. RunningHasAttempt(rt, at)
  BY <1>1, <1>2, <1>4, <1>5 DEF RunningHasAttempt
<1>14. OpenIffRunning(at, lt)
  BY <1>2 DEF OpenIffRunning
<1>15. SuccessDecides(rt, at, lt)
  BY <1>1, <1>2, <1>6 DEF SuccessDecides, Latest
<1>16. LatestDecides(rt, at)
  BY <1>1, <1>2, <1>4, <1>5 DEF LatestDecides, Latest
<1>17. CancelDecides(rt, at, lt)
  BY <1>1, <1>2, <1>6 DEF CancelDecides
<1>18. QED
  BY <1>7, <1>8, <1>9, <1>10, <1>11, <1>12, <1>13, <1>14, <1>15, <1>16, <1>17 DEF rt, at, lt

\* Ending the running attempt of a run keeps every part, whether its outcome
\* decides the run or the run is queued again.
LEMMA CompleteConsistent ==
  ASSUME NEW rs \in [Runs -> RunRow], NEW ats \in [Attempts -> AttemptRow],
         NEW ls \in [Attempts -> LeaseRow], Consistent(rs, ats, ls),
         NEW rt \in [Runs -> RunRow], NEW at \in [Attempts -> AttemptRow],
         NEW lt \in [Attempts -> LeaseRow],
         NEW a \in Attempts, NEW q \in Runs, NEW status \in TerminalStatus,
         ats[a].status = "Running", ats[a].run = q,
         \A p \in Runs : p # q => rt[p] = rs[p],
         rt[q].attempt_count = rs[q].attempt_count,
         rt[q].max_attempts = rs[q].max_attempts,
         \/ rt[q].status = status /\ rt[q].retry_after = 0
         \/ /\ rt[q].status = "Queued"
            /\ rs[q].attempt_count < rs[q].max_attempts
            /\ status \notin {"Succeeded", "Canceled"},
         \A b \in Attempts : b # a => at[b] = ats[b] /\ lt[b] = ls[b],
         at[a].status = status, at[a].run = q, at[a].number = ats[a].number,
         at[a].cancel_requested => status = "Canceled", lt[a].state = "acked"
  PROVE  Consistent(rt, at, lt)
<1> USE DEF Consistent
<1>1. rs[q].status = "Running" /\ ats[a].number = rs[q].attempt_count
  BY DEF RunningIsLatest, Latest
<1>2. status \notin {"none", "Queued", "Running"}
  BY DEF TerminalStatus
<1>3. \A b \in Attempts : b # a /\ ats[b].run = q => ats[b].status # "Running"
  BY <1>1 DEF RunningIsLatest, Latest, NumbersUnique
<1>4. AttemptsLinked(rt, at)
  BY <1>2 DEF AttemptsLinked
<1>5. BudgetsKept(rt)
  BY <1>1, <1>2 DEF BudgetsKept
<1>6. NumbersInRange(rt, at)
  BY DEF NumbersInRange, AttemptsLinked
<1>7. NumbersUnique(at)
  BY <1>2 DEF NumbersUnique
<1>8. NumbersWithoutGap(rt, at)
  BY DEF NumbersWithoutGap
<1>9. RunningIsLatest(rt, at)
  BY <1>2, <1>3 DEF RunningIsLatest, Latest, AttemptsLinked
<1>10. RunningHasAttempt(rt, at)
  BY <1>2 DEF RunningHasAttempt
<1>11. OpenIffRunning(at, lt)
  BY <1>2 DEF OpenIffRunning
<1>12. SuccessDecides(rt, at, lt)
  BY <1>1, <1>2 DEF SuccessDecides, Latest, AttemptsLinked
<1>13. LatestDecides(rt, at)
  BY <1>1, <1>2 DEF LatestDecides, Latest
<1>14. CancelDecides(rt, at, lt)
  BY <1>1, <1>2 DEF CancelDecides, AttemptsLinked
<1>15. QED
  BY <1>4, <1>5, <1>6, <1>7, <1>8, <1>9, <1>10, <1>11, <1>12, <1>13, <1>14

\* A queued run has no running attempt: canceling it leaves nothing behind.
LEMMA CancelQueuedConsistent ==
  ASSUME NEW rs \in [Runs -> RunRow], NEW ats \in [Attempts -> AttemptRow],
         NEW ls \in [Attempts -> LeaseRow], Consistent(rs, ats, ls),
         NEW rt \in [Runs -> RunRow], NEW q \in Runs, rs[q].status = "Queued",
         \A p \in Runs : p # q => rt[p] = rs[p],
         rt[q].attempt_count = rs[q].attempt_count,
         rt[q].max_attempts = rs[q].max_attempts,
         rt[q].status = "Canceled", rt[q].retry_after = 0
  PROVE  Consistent(rt, ats, ls)
<1> USE DEF Consistent
<1>1. AttemptsLinked(rt, ats)
  BY DEF AttemptsLinked
<1>2. BudgetsKept(rt)
  BY DEF BudgetsKept
<1>3. NumbersInRange(rt, ats)
  BY DEF NumbersInRange, AttemptsLinked
<1>4. NumbersWithoutGap(rt, ats)
  BY DEF NumbersWithoutGap
<1>5. RunningIsLatest(rt, ats)
  BY DEF RunningIsLatest, Latest, AttemptsLinked
<1>6. RunningHasAttempt(rt, ats)
  BY DEF RunningHasAttempt
<1>7. SuccessDecides(rt, ats, ls)
  BY DEF SuccessDecides, Latest, AttemptsLinked
<1>8. LatestDecides(rt, ats)
  BY DEF LatestDecides, Latest
<1>9. CancelDecides(rt, ats, ls)
  BY DEF CancelDecides, AttemptsLinked
<1>10. QED
  BY <1>1, <1>2, <1>3, <1>4, <1>5, <1>6, <1>7, <1>8, <1>9

\* What a completion writes to the three tables, from any health it may have
\* computed, when the attempt runs and its cancel is respected.
Completes(a, outcome, signal) ==
  /\ attempts[a].status = "Running"
  /\ attempts[a].cancel_requested => outcome.status = "Canceled"
  /\ outcome.class = "infra" => signal.hold \in Nat
  /\ \E row \in RetryDisposition(runs[attempts[a].run], outcome, signal) :
       runs' = [runs EXCEPT ![attempts[a].run] = row]
  /\ attempts' = [attempts EXCEPT ![a].status = outcome.status]
  /\ leases' = [leases EXCEPT ![a].state = "acked", ![a].left = 0]

\* Such a completion keeps the tables well typed and consistent.
LEMMA CompletionConsistent ==
  ASSUME IInv, NEW a \in Attempts, NEW outcome \in Outcomes, NEW signal,
         Completes(a, outcome, signal)
  PROVE  TablesOK(runs', attempts', leases') /\ Consistent(runs', attempts', leases')
<1> DEFINE q == attempts[a].run
<1>a. Consistent(runs, attempts, leases)
  BY DEF IInv
<1>b. /\ runs \in [Runs -> RunRow] /\ attempts \in [Attempts -> AttemptRow]
      /\ leases \in [Attempts -> LeaseRow]
  BY DEF IInv, TypeOK
<1>c. /\ attempts[a].status = "Running"
      /\ attempts[a].cancel_requested => outcome.status = "Canceled"
      /\ outcome.class = "infra" => signal.hold \in Nat
      /\ attempts' = [attempts EXCEPT ![a].status = outcome.status]
      /\ leases' = [leases EXCEPT ![a].state = "acked", ![a].left = 0]
  BY DEF Completes
<1>d. PICK row \in RetryDisposition(runs[q], outcome, signal) :
        runs' = [runs EXCEPT ![q] = row]
  BY DEF Completes
<1>1. q \in Runs
  BY <1>a, <1>c DEF Consistent, AttemptsLinked
<1>2. outcome.status \in TerminalStatus
  BY OutcomeStatus
<1>3. /\ row \in RunRow
      /\ row.attempt_count = runs[q].attempt_count
      /\ row.max_attempts = runs[q].max_attempts
      /\ \/ row.status = outcome.status /\ row.retry_after = 0
         \/ /\ row.status = "Queued"
            /\ runs[q].attempt_count < runs[q].max_attempts
            /\ outcome.status \notin {"Succeeded", "Canceled"}
  BY <1>b, <1>c, <1>d, <1>1, CompletedRunRow
<1>4. /\ \A b \in Attempts : b # a => attempts'[b] = attempts[b] /\ leases'[b] = leases[b]
      /\ attempts'[a] = [attempts[a] EXCEPT !.status = outcome.status]
      /\ leases'[a] = [leases[a] EXCEPT !.state = "acked", !.left = 0]
  BY <1>b, <1>c
<1>5. /\ attempts'[a].status = outcome.status /\ attempts'[a].run = q
      /\ attempts'[a].number = attempts[a].number
      /\ attempts'[a].cancel_requested = attempts[a].cancel_requested
  BY <1>b, <1>2, <1>4, AttemptColumns
<1>6. leases'[a].state = "acked"
  BY <1>b, <1>4, LeaseColumns
<1>7. /\ \A p \in Runs : p # q => runs'[p] = runs[p]
      /\ runs'[q] = row
  BY <1>b, <1>d, <1>1
<1>8. attempts'[a].cancel_requested => outcome.status = "Canceled"
  BY <1>c, <1>5
<1>9. /\ runs'[q].attempt_count = runs[q].attempt_count
      /\ runs'[q].max_attempts = runs[q].max_attempts
      /\ \/ runs'[q].status = outcome.status /\ runs'[q].retry_after = 0
         \/ /\ runs'[q].status = "Queued"
            /\ runs[q].attempt_count < runs[q].max_attempts
            /\ outcome.status \notin {"Succeeded", "Canceled"}
  BY <1>3, <1>7
<1>10. runs' \in [Runs -> RunRow]
  BY <1>b, <1>d, <1>3
<1>11. attempts' \in [Attempts -> AttemptRow]
  BY <1>b, <1>c, <1>2, AttemptRows
<1>12. leases' \in [Attempts -> LeaseRow]
  BY <1>b, <1>c, LeaseRows
<1> HIDE DEF q
<1>13. attempts[a].status = "Running" /\ attempts[a].run = q
  BY <1>c DEF q
<1>14. \A b \in Attempts : b # a => attempts'[b] = attempts[b] /\ leases'[b] = leases[b]
  BY <1>4
<1>15. /\ runs' \in [Runs -> RunRow] /\ attempts' \in [Attempts -> AttemptRow]
       /\ leases' \in [Attempts -> LeaseRow]
  BY <1>10, <1>11, <1>12
<1>16. /\ attempts'[a].status = outcome.status /\ attempts'[a].run = q
       /\ attempts'[a].number = attempts[a].number
  BY <1>5
<1>17. Consistent(runs', attempts', leases')
  BY <1>a, <1>b, <1>1, <1>2, <1>6, <1>7, <1>8, <1>9, <1>13, <1>14, <1>15, <1>16,
     CompleteConsistent, SMTT(60)
<1>18. QED
  BY <1>10, <1>11, <1>12, <1>17 DEF TablesOK

-------------------------------------------------------------------------------
(* What a step may do to the row of a run: the steps of its life cycle, of    *)
(* one row q and the row p it becomes.                                        *)

Created(q, p) == /\ q.status = "none" /\ p.status = "Queued"
                 /\ p.attempt_count = 0 /\ p.max_attempts > 0
                 /\ p.job \in Jobs

Started(q, p) == /\ q.status \in {"Queued", "Running"} /\ p.status = "Running"
                 /\ q.attempt_count < q.max_attempts
                 /\ p.attempt_count = q.attempt_count + 1
                 /\ p.max_attempts = q.max_attempts /\ p.job = q.job

Ended(q, p) == /\ q.status = "Running" \/ (q.status = "Queued" /\ p.status = "Canceled")
               /\ \/ p.status \in TerminalStatus
                  \/ p.status = "Queued" /\ q.attempt_count < q.max_attempts
               /\ p.attempt_count = q.attempt_count
               /\ p.max_attempts = q.max_attempts /\ p.job = q.job

Kept(q, p) == /\ p.status = q.status /\ p.attempt_count = q.attempt_count
              /\ p.max_attempts = q.max_attempts /\ p.job = q.job

RowStep(q, p) == Created(q, p) \/ Started(q, p) \/ Ended(q, p) \/ Kept(q, p)

\* A recovery pass touches no run but those it finds running.
LEMMA RecoveredWasRunning ==
  ASSUME IInv, NEW lost \in SUBSET LostAttempts, NEW q \in Runs, runs[q].status # "Running"
  PROVE  RecoveredRuns(lost)[q] = runs[q]
<1>1. \A a \in lost : a \in Attempts /\ attempts[a].status = "Running"
  BY DEF LostAttempts
<1>2. \A a \in lost : attempts[a].run # q
  BY <1>1 DEF IInv, Consistent, RunningIsLatest
<1>3. QED
  BY <1>2, RecoveredTables DEF IInv

\* A recovery pass keeps a run, or ends the execution of a running one.
LEMMA RecoveredRowStep ==
  ASSUME IInv, NEW lost \in SUBSET LostAttempts, NEW q \in Runs
  PROVE  LET p == RecoveredRuns(lost)[q]
         IN Kept(runs[q], p) \/ (Ended(runs[q], p) /\ runs[q].status = "Running")
<1> DEFINE p == RecoveredRuns(lost)[q]
<1> SUFFICES Kept(runs[q], p) \/ (Ended(runs[q], p) /\ runs[q].status = "Running")
  OBVIOUS
<1>1. CASE runs[q].status # "Running"
  BY <1>1, RecoveredWasRunning DEF Kept
<1>2. CASE runs[q].status = "Running"
  <2>1. \/ p = runs[q]
        \/ /\ p.status = (IF runs[q].attempt_count < runs[q].max_attempts
                          THEN "Queued" ELSE "Failed")
           /\ p.attempt_count = runs[q].attempt_count
           /\ p.max_attempts = runs[q].max_attempts /\ p.job = runs[q].job
    BY RecoveredTables DEF IInv
  <2> HIDE DEF p
  <2>2. QED
    BY <1>2, <2>1 DEF Kept, Ended, TerminalStatus
<1>3. QED
  BY <1>1, <1>2

LEMMA RunStep ==
  ASSUME IInv, [Next]_vars, NEW q \in Runs
  PROVE  RowStep(runs[q], runs'[q])
<1>a. runs \in [Runs -> RunRow]
  BY DEF IInv, TypeOK
<1>1. CASE UNCHANGED runs
  BY <1>1 DEF RowStep, Kept
<1>2. ASSUME NEW id \in Runs, NEW job \in Jobs, NEW key \in Keys \cup {None},
             NEW delay \in Delays, EnqueueRun(id, job, key, delay)
      PROVE  RowStep(runs[q], runs'[q])
  <2>1. jobs[job].retries \in Nat
    BY <1>2, JobSpecsAssumption DEF EnqueueRun, IInv, TypeOK
  <2>2. QED
    BY <1>2, <1>a, <2>1 DEF EnqueueRun, InsertRun, IsNextId, QueuedRun, RowStep, Created, Kept
<1>3. ASSUME NEW id \in Runs, NEW source \in Runs, ReplayRun(id, source)
      PROVE  RowStep(runs[q], runs'[q])
  <2>1. runs[source].max_attempts > 0 /\ runs[source].job \in Jobs
    BY <1>3 DEF ReplayRun, IInv, JobsKnown, Consistent, BudgetsKept
  <2>2. QED
    BY <1>3, <1>a, <2>1 DEF ReplayRun, InsertRun, IsNextId, QueuedRun, RowStep, Created, Kept
<1>4. ASSUME NEW r \in Runners, NEW p \in Runs, NEW id \in Attempts,
             LeaseNextAttempt(r, p, id)
      PROVE  RowStep(runs[q], runs'[q])
  <2> DEFINE rs == RecoveredRuns(LostAttempts)
  <2>1. rs \in [Runs -> RunRow] /\ BudgetsKept(rs)
    BY RecoveredTables, RecoveryConsistent DEF IInv, TablesOK, Consistent
  <2>2. Kept(runs[q], rs[q]) \/ (Ended(runs[q], rs[q]) /\ runs[q].status = "Running")
    BY RecoveredRowStep
  <2> HIDE DEF rs
  <2>3. rs[p].status = "Queued" /\ runs' = [rs EXCEPT ![p] = StartedRun(rs[p])]
    BY <1>4 DEF LeaseNextAttempt, Leasable, Due, rs
  <2>4. CASE q # p
    BY <2>1, <2>2, <2>3, <2>4 DEF RowStep
  <2>5. CASE q = p
    <3>1. /\ runs'[q].status = "Running"
          /\ runs'[q].attempt_count = rs[q].attempt_count + 1
          /\ runs'[q].max_attempts = rs[q].max_attempts /\ runs'[q].job = rs[q].job
      BY <2>1, <2>3, <2>5, StartedRunRow
    <3>2. rs[q].attempt_count < rs[q].max_attempts
      BY <2>1, <2>3, <2>5 DEF BudgetsKept
    <3>3. /\ runs[q].status \in {"Queued", "Running"}
          /\ runs[q].attempt_count = rs[q].attempt_count
          /\ runs[q].max_attempts = rs[q].max_attempts /\ runs[q].job = rs[q].job
      BY <2>2, <2>3, <2>5 DEF Kept, Ended
    <3>4. QED
      BY <3>1, <3>2, <3>3 DEF RowStep, Started
  <2>6. QED
    BY <2>4, <2>5
<1>5. ASSUME NEW r \in Runners, NEW a \in Attempts, NEW outcome \in Outcomes,
             CompleteAttempt(r, a, outcome)
      PROVE  RowStep(runs[q], runs'[q])
  <2> DEFINE p == attempts[a].run
             health == FunctionSignal(function_health[runs[p].job], outcome)
  <2>1. attempts[a].status = "Running"
    BY <1>5 DEF CompleteAttempt, MayComplete
  <2>2. p \in Runs /\ runs[p].status = "Running"
    BY <2>1 DEF IInv, Consistent, AttemptsLinked, RunningIsLatest
  <2>3. PICK row \in RetryDisposition(runs[p], outcome, health) :
          runs' = [runs EXCEPT ![p] = row]
    BY <1>5 DEF CompleteAttempt
  <2>4. /\ row.attempt_count = runs[p].attempt_count
        /\ row.max_attempts = runs[p].max_attempts /\ row.job = runs[p].job
        /\ \/ row.status = outcome.status
           \/ row.status = "Queued" /\ runs[p].attempt_count < runs[p].max_attempts
    BY <1>a, <2>2, CompletedRunRow, SignalHold
  <2>5. runs'[q] = IF q = p THEN row ELSE runs[q]
    BY <1>a, <2>2, <2>3
  <2> HIDE DEF p, health
  <2>6. QED
    BY <2>2, <2>4, <2>5, OutcomeStatus DEF RowStep, Ended, Kept
<1>6. ASSUME NEW p \in Runs, CancelQueuedRun(p)
      PROVE  RowStep(runs[q], runs'[q])
  <2>1. /\ runs[p].status = "Queued"
        /\ runs' = [runs EXCEPT ![p].status = "Canceled", ![p].retry_after = 0]
    BY <1>6 DEF CancelQueuedRun
  <2>2. CASE q # p
    BY <1>a, <2>1, <2>2 DEF RowStep, Kept
  <2>3. CASE q = p
    <3>1. runs'[q] = [runs[q] EXCEPT !.status = "Canceled", !.retry_after = 0]
      BY <1>a, <2>1, <2>3
    <3>2. QED
      BY <1>a, <2>1, <2>3, <3>1, RunColumns DEF RowStep, Ended, TerminalStatus
  <2>4. QED
    BY <2>2, <2>3
<1>7. CASE RecoverLostAttempts
  BY <1>7, RecoveredRowStep DEF RecoverLostAttempts, RowStep
<1>8. CASE Tick
  <2>1. runs[q] \in RunRow /\ runs'[q] = [runs[q] EXCEPT !.retry_after = Less(@)]
    BY <1>8, <1>a DEF Tick
  <2>2. QED
    BY <2>1, RunColumns DEF RowStep, Kept
<1>9. QED
  BY <1>1, <1>2, <1>3, <1>4, <1>5, <1>6, <1>7, <1>8
     DEF Next, vars, Deploy, Enqueue, Replay, Heartbeat, Lease, Complete, CancelRun,
         RegisterDeploy, RegisterRunner, HeartbeatRunner, CancelRunningRun

-------------------------------------------------------------------------------
(* The invariant holds                                                       *)

LEMMA InvariantInit == Init => IInv
<1> SUFFICES ASSUME Init PROVE JobsKnown /\ Consistent(runs, attempts, leases)
  BY TypeCorrectInit DEF IInv
<1>1. /\ \A q \in Runs : runs[q] = NoRun
      /\ \A a \in Attempts : attempts[a] = NoAttempt /\ leases[a] = NoLease
  BY DEF Init
<1> USE <1>1 DEF NoRun, NoAttempt, NoLease
<1>2. AttemptsLinked(runs, attempts) /\ BudgetsKept(runs)
  BY DEF AttemptsLinked, BudgetsKept
<1>3. /\ NumbersInRange(runs, attempts) /\ NumbersUnique(attempts)
      /\ NumbersWithoutGap(runs, attempts)
  BY DEF NumbersInRange, NumbersUnique, NumbersWithoutGap
<1>4. /\ RunningIsLatest(runs, attempts) /\ RunningHasAttempt(runs, attempts)
      /\ OpenIffRunning(attempts, leases)
  BY DEF RunningIsLatest, RunningHasAttempt, OpenIffRunning
<1>5. /\ SuccessDecides(runs, attempts, leases) /\ LatestDecides(runs, attempts)
      /\ CancelDecides(runs, attempts, leases)
  BY DEF SuccessDecides, LatestDecides, CancelDecides
<1>6. JobsKnown
  BY DEF JobsKnown
<1>7. QED
  BY <1>2, <1>3, <1>4, <1>5, <1>6 DEF Consistent

\* A step that changes runs by steps of their life cycle keeps their jobs known.
LEMMA JobsStayKnown ==
  ASSUME JobsKnown, \A q \in Runs : RowStep(runs[q], runs'[q])
  PROVE  JobsKnown'
BY DEF JobsKnown, RowStep, Created, Started, Ended, Kept

LEMMA InvariantStep == IInv /\ [Next]_vars => IInv'
<1> SUFFICES ASSUME IInv, [Next]_vars PROVE Consistent(runs, attempts, leases)'
  BY TypeCorrectStep, RunStep, JobsStayKnown DEF IInv
<1>a. TypeOK /\ TypeOK' /\ Consistent(runs, attempts, leases)
  BY TypeCorrectStep DEF IInv
<1>b. /\ runs \in [Runs -> RunRow] /\ attempts \in [Attempts -> AttemptRow]
      /\ leases \in [Attempts -> LeaseRow]
      /\ runs' \in [Runs -> RunRow] /\ attempts' \in [Attempts -> AttemptRow]
      /\ leases' \in [Attempts -> LeaseRow]
  BY <1>a DEF TypeOK
<1>1. CASE UNCHANGED <<runs, attempts, leases>>
  BY <1>1, <1>a
<1>2. ASSUME NEW id \in Runs, NEW job \in Jobs, NEW key \in Keys \cup {None},
             NEW delay \in Delays, EnqueueRun(id, job, key, delay)
      PROVE  Consistent(runs, attempts, leases)'
  <2> DEFINE row == QueuedRun(job, jobs[job].retries + 1, delay)
  <2>1. /\ runs[id].status = "none" /\ runs' = [runs EXCEPT ![id] = row]
        /\ UNCHANGED <<attempts, leases>>
    BY <1>2 DEF EnqueueRun, InsertRun, IsNextId
  <2>2. jobs[job].retries \in Nat
    BY <1>2, <1>a, JobSpecsAssumption DEF EnqueueRun, TypeOK
  <2>3. /\ row \in RunRow /\ row.status = "Queued" /\ row.attempt_count = 0
        /\ row.max_attempts > 0
    BY <2>2, BoundsAssumption DEF QueuedRun, RunRow, RunStatus
  <2> HIDE DEF row
  <2>4. QED
    BY <1>a, <1>b, <2>1, <2>3, InsertConsistent
<1>3. ASSUME NEW id \in Runs, NEW source \in Runs, ReplayRun(id, source)
      PROVE  Consistent(runs, attempts, leases)'
  <2> DEFINE row == QueuedRun(runs[source].job, runs[source].max_attempts, 0)
  <2>1. /\ runs[id].status = "none" /\ runs' = [runs EXCEPT ![id] = row]
        /\ UNCHANGED <<attempts, leases>>
    BY <1>3 DEF ReplayRun, InsertRun, IsNextId
  <2>2. runs[source].max_attempts > 0
    BY <1>3, <1>a DEF ReplayRun, Consistent, BudgetsKept
  <2>3. /\ row \in RunRow /\ row.status = "Queued" /\ row.attempt_count = 0
        /\ row.max_attempts > 0
    BY <1>b, <2>2 DEF QueuedRun, RunRow, RunStatus
  <2> HIDE DEF row
  <2>4. QED
    BY <1>a, <1>b, <2>1, <2>3, InsertConsistent
<1>4. ASSUME NEW r \in Runners, NEW active \in SUBSET LeasesOf(r), HeartbeatRunner(r, active)
      PROVE  Consistent(runs, attempts, leases)'
  <2>1. \A a \in Attempts : leases'[a].state = leases[a].state
    BY <1>4, <1>b, LeaseColumns DEF HeartbeatRunner
  <2>2. UNCHANGED <<runs, attempts>>
    BY <1>4 DEF HeartbeatRunner
  <2>3. QED
    BY <1>a, <1>b, <2>1, <2>2, FrameConsistent
<1>5. ASSUME NEW r \in Runners, NEW q \in Runs, NEW id \in Attempts,
             LeaseNextAttempt(r, q, id)
      PROVE  Consistent(runs, attempts, leases)'
  <2> DEFINE rs == RecoveredRuns(LostAttempts)
             ats == RecoveredAttempts(LostAttempts)
             ls == RecoveredLeases(LostAttempts)
             lease == [state |-> "open", left |-> LeaseTtl, revoke_requested |-> FALSE]
  <2>1. TablesOK(rs, ats, ls) /\ Consistent(rs, ats, ls)
    BY <1>a, RecoveryConsistent, RecoveredTables DEF IInv
  <2>2. attempts[id].status = "none" /\ id \notin LostAttempts
    BY <1>5 DEF LeaseNextAttempt, IsNextId, LostAttempts
  <2>3. ats[id].status = "none"
    BY <1>a, <2>2, RecoveredTables
  <2>4. lease \in LeaseRow /\ lease.state = "open"
    BY BoundsAssumption DEF LeaseRow
  <2> HIDE DEF rs, ats, ls, lease
  <2>5. /\ rs[q].status = "Queued"
        /\ runs' = [rs EXCEPT ![q] = StartedRun(rs[q])]
        /\ attempts' = [ats EXCEPT ![id] = StartedAttempt(rs[q], q, r)]
        /\ leases' = [ls EXCEPT ![id] = lease]
    BY <1>5 DEF LeaseNextAttempt, Leasable, Due, rs, ats, ls, lease
  <2>6. QED
    BY <2>1, <2>3, <2>4, <2>5, StartConsistent DEF TablesOK
<1>6. ASSUME NEW r \in Runners, NEW a \in Attempts, NEW outcome \in Outcomes,
             CompleteAttempt(r, a, outcome)
      PROVE  Consistent(runs, attempts, leases)'
  <2> DEFINE q == attempts[a].run
             signal == FunctionSignal(function_health[runs[q].job], outcome)
  <2>1. Completes(a, outcome, signal)
    BY <1>6, SignalHold DEF CompleteAttempt, MayComplete, Completes
  <2>2. QED
    BY <2>1, CompletionConsistent
<1>7. ASSUME NEW q \in Runs, CancelQueuedRun(q)
      PROVE  Consistent(runs, attempts, leases)'
  <2>1. /\ runs[q].status = "Queued" /\ UNCHANGED <<attempts, leases>>
        /\ runs' = [runs EXCEPT ![q].status = "Canceled", ![q].retry_after = 0]
    BY <1>7 DEF CancelQueuedRun
  <2>2. /\ \A p \in Runs : p # q => runs'[p] = runs[p]
        /\ runs'[q] = [runs[q] EXCEPT !.status = "Canceled", !.retry_after = 0]
    BY <1>b, <2>1
  <2>3. /\ runs'[q].status = "Canceled" /\ runs'[q].retry_after = 0
        /\ runs'[q].attempt_count = runs[q].attempt_count
        /\ runs'[q].max_attempts = runs[q].max_attempts
    BY <1>b, <2>2, RunColumns
  <2>4. /\ runs[q].status = "Queued" /\ UNCHANGED <<attempts, leases>>
        /\ \A p \in Runs : p # q => runs'[p] = runs[p]
    BY <2>1, <2>2
  <2>5. QED
    BY <1>a, <1>b, <2>3, <2>4, CancelQueuedConsistent
<1>8. ASSUME NEW q \in Runs, NEW a \in Attempts, CancelRunningRun(q, a)
      PROVE  Consistent(runs, attempts, leases)'
  <2>1. /\ attempts[a].status = "Running" /\ UNCHANGED runs
        /\ attempts' = [attempts EXCEPT ![a].cancel_requested = TRUE]
        /\ leases' = [leases EXCEPT ![a].revoke_requested = TRUE]
    BY <1>8 DEF CancelRunningRun
  <2>2. /\ \A b \in Attempts : b # a => attempts'[b] = attempts[b] /\ leases'[b] = leases[b]
        /\ attempts'[a] = [attempts[a] EXCEPT !.cancel_requested = TRUE]
        /\ leases'[a] = [leases[a] EXCEPT !.revoke_requested = TRUE]
    BY <1>b, <2>1
  <2>3. /\ attempts'[a].status = attempts[a].status /\ attempts'[a].run = attempts[a].run
        /\ attempts'[a].number = attempts[a].number
    BY <1>b, <2>2, AttemptColumns
  <2>4. leases'[a].state = leases[a].state
    BY <1>b, <2>2, LeaseColumns
  <2>5. \A b \in Attempts :
          /\ attempts'[b].status = attempts[b].status /\ attempts'[b].run = attempts[b].run
          /\ attempts'[b].number = attempts[b].number
          /\ attempts'[b].cancel_requested =>
               attempts[b].cancel_requested \/ attempts[b].status = "Running"
          /\ leases'[b].state = leases[b].state
    BY <2>1, <2>2, <2>3, <2>4
  <2>6. QED
    BY <1>a, <1>b, <2>1, <2>5, FrameConsistent
<1>9. CASE RecoverLostAttempts
  BY <1>9, <1>a, RecoveryConsistent DEF RecoverLostAttempts, IInv
<1>10. CASE Tick
  <2>1. \A q \in Runs :
          /\ runs'[q].status = runs[q].status
          /\ runs'[q].attempt_count = runs[q].attempt_count
          /\ runs'[q].max_attempts = runs[q].max_attempts
          /\ runs[q].retry_after = 0 => runs'[q].retry_after = 0
    <3> SUFFICES ASSUME NEW q \in Runs
                 PROVE  /\ runs'[q].status = runs[q].status
                        /\ runs'[q].attempt_count = runs[q].attempt_count
                        /\ runs'[q].max_attempts = runs[q].max_attempts
                        /\ runs[q].retry_after = 0 => runs'[q].retry_after = 0
      OBVIOUS
    <3>1. runs[q] \in RunRow /\ runs'[q] = [runs[q] EXCEPT !.retry_after = Less(@)]
      BY <1>10, <1>b DEF Tick
    <3>2. Less(0) = 0
      BY DEF Less
    <3>3. QED
      BY <3>1, <3>2, RunColumns
  <2>2. \A a \in Attempts :
          /\ attempts'[a].status = attempts[a].status /\ attempts'[a].run = attempts[a].run
          /\ attempts'[a].number = attempts[a].number
          /\ attempts'[a].cancel_requested = attempts[a].cancel_requested
    BY <1>10, <1>b, AttemptColumns DEF Tick
  <2>3. \A a \in Attempts : leases'[a].state = leases[a].state
    BY <1>10, <1>b, LeaseColumns DEF Tick
  <2>4. \A a \in Attempts :
          /\ attempts'[a].status = attempts[a].status /\ attempts'[a].run = attempts[a].run
          /\ attempts'[a].number = attempts[a].number
          /\ attempts'[a].cancel_requested =>
               attempts[a].cancel_requested \/ attempts[a].status = "Running"
          /\ leases'[a].state = leases[a].state
    BY <2>2, <2>3
  <2>5. Consistent(runs', attempts', leases')
    BY ZenonT(60), <1>a, <1>b, <2>1, <2>4, FrameConsistent
  <2>6. QED
    BY <2>5
<1>11. QED
  BY <1>1, <1>2, <1>3, <1>4, <1>5, <1>6, <1>7, <1>8, <1>9, <1>10
     DEF Next, vars, Deploy, Enqueue, Replay, Heartbeat, Lease, Complete, CancelRun,
         RegisterDeploy, RegisterRunner

\* Every reachable state is consistent.
THEOREM InvariantCorrect == Spec => []IInv
BY InvariantInit, InvariantStep, PTL DEF Spec

-------------------------------------------------------------------------------
(* The safety invariants                                                     *)

LEMMA AttemptsNumberedHolds == IInv => AttemptsNumbered
BY DEF IInv, Consistent, AttemptsNumbered, AttemptsLinked, BudgetsKept, NumbersInRange,
     NumbersUnique, NumbersWithoutGap

\* The attempts of a run are numbered 1 .. attempt_count, within its budget,
\* whatever mix of completions, recoveries and cancels produced them.
THEOREM AttemptsNumberedCorrect == Spec => []AttemptsNumbered
BY AttemptsNumberedHolds, InvariantCorrect, PTL

LEMMA RunningHasOneAttemptHolds == IInv => RunningHasOneAttempt
BY DEF IInv, Consistent, RunningHasOneAttempt, RunningIsLatest, RunningHasAttempt,
     Latest, LatestAttempt

\* A run is Running exactly while one attempt of it, the latest, is.
THEOREM RunningHasOneAttemptCorrect == Spec => []RunningHasOneAttempt
BY RunningHasOneAttemptHolds, InvariantCorrect, PTL

LEMMA LeaseIffRunningHolds == IInv => LeaseIffRunning
BY DEF IInv, Consistent, LeaseIffRunning, OpenIffRunning

\* An attempt has an open lease exactly while it runs.
THEOREM LeaseIffRunningCorrect == Spec => []LeaseIffRunning
BY LeaseIffRunningHolds, InvariantCorrect, PTL

LEMMA SuccessIsFinalHolds == IInv => SuccessIsFinal
BY DEF IInv, Consistent, SuccessIsFinal, SuccessDecides, Latest, LatestAttempt

\* A success is the success of the latest attempt and ends the run.
THEOREM SuccessIsFinalCorrect == Spec => []SuccessIsFinal
BY SuccessIsFinalHolds, InvariantCorrect, PTL

LEMMA OutcomeFromLatestHolds == IInv => OutcomeFromLatest
BY DEF IInv, Consistent, OutcomeFromLatest, LatestDecides, Latest, LatestAttempt

\* The final status of a run is the status of its latest attempt.
THEOREM OutcomeFromLatestCorrect == Spec => []OutcomeFromLatest
BY OutcomeFromLatestHolds, InvariantCorrect, PTL

LEMMA CancelBeatsCompletionHolds == IInv => CancelBeatsCompletion
BY DEF IInv, Consistent, CancelBeatsCompletion, CancelDecides

\* A cancel recorded on a running attempt beats every completion of it.
THEOREM CancelBeatsCompletionCorrect == Spec => []CancelBeatsCompletion
BY CancelBeatsCompletionHolds, InvariantCorrect, PTL

-------------------------------------------------------------------------------
(* What a step may do to a run                                               *)

LEMMA TickKeepsDueRun ==
  ASSUME NEW row \in RunRow, row.retry_after = 0
  PROVE  [row EXCEPT !.retry_after = Less(@)] = row
<1>1. Less(row.retry_after) = row.retry_after
  BY DEF Less
<1>2. QED
  BY <1>1 DEF RunRow

\* No step changes a run whose status is final.
LEMMA FinalRunKept ==
  ASSUME IInv, [Next]_vars, NEW q \in Runs, runs[q].status \in TerminalStatus
  PROVE  runs'[q] = runs[q]
<1>a. runs \in [Runs -> RunRow] /\ runs[q].status \notin {"none", "Queued", "Running"}
  BY DEF IInv, TypeOK, TerminalStatus
<1>1. CASE UNCHANGED runs
  BY <1>1
<1>2. ASSUME NEW id \in Runs, NEW row, InsertRun(id, row)
      PROVE  runs'[q] = runs[q]
  BY <1>2, <1>a DEF InsertRun, IsNextId
<1>3. ASSUME NEW r \in Runners, NEW p \in Runs, NEW id \in Attempts,
             LeaseNextAttempt(r, p, id)
      PROVE  runs'[q] = runs[q]
  <2> DEFINE rs == RecoveredRuns(LostAttempts)
  <2>1. rs[q] = runs[q]
    BY <1>a, RecoveredWasRunning
  <2>2. rs \in [Runs -> RunRow]
    BY RecoveredTables DEF IInv, TablesOK
  <2> HIDE DEF rs
  <2>3. rs[p].status = "Queued" /\ runs' = [rs EXCEPT ![p] = StartedRun(rs[p])]
    BY <1>3 DEF LeaseNextAttempt, Leasable, Due, rs
  <2>4. QED
    BY <1>a, <2>1, <2>2, <2>3
<1>4. ASSUME NEW r \in Runners, NEW a \in Attempts, NEW outcome \in Outcomes,
             CompleteAttempt(r, a, outcome)
      PROVE  runs'[q] = runs[q]
  <2>1. attempts[a].status = "Running"
    BY <1>4 DEF CompleteAttempt, MayComplete
  <2>2. attempts[a].run # q
    BY <2>1, <1>a DEF IInv, Consistent, RunningIsLatest
  <2>3. PICK row : runs' = [runs EXCEPT ![attempts[a].run] = row]
    BY <1>4 DEF CompleteAttempt
  <2>4. QED
    BY <1>a, <2>2, <2>3
<1>5. ASSUME NEW p \in Runs, CancelQueuedRun(p)
      PROVE  runs'[q] = runs[q]
  <2>1. p # q
    BY <1>5, <1>a DEF CancelQueuedRun
  <2>2. runs' = [runs EXCEPT ![p].status = "Canceled", ![p].retry_after = 0]
    BY <1>5 DEF CancelQueuedRun
  <2>3. QED
    BY <1>a, <2>1, <2>2
<1>6. CASE RecoverLostAttempts
  BY <1>6, <1>a, RecoveredWasRunning DEF RecoverLostAttempts
<1>7. CASE Tick
  <2>1. runs'[q] = [runs[q] EXCEPT !.retry_after = Less(@)]
    BY <1>7 DEF Tick
  <2>2. runs[q] \in RunRow /\ runs[q].retry_after = 0
    BY <1>a DEF IInv, Consistent, BudgetsKept
  <2>3. QED
    BY <2>1, <2>2, TickKeepsDueRun
<1>8. QED
  BY <1>1, <1>2, <1>3, <1>4, <1>5, <1>6, <1>7
     DEF Next, vars, Deploy, Enqueue, Replay, Heartbeat, Lease, Complete, CancelRun,
         RegisterDeploy, RegisterRunner, HeartbeatRunner, EnqueueRun, ReplayRun,
         CancelRunningRun

\* No operation ever changes a run in a final status.
THEOREM FinalIsForeverCorrect == Spec => FinalIsForever
<1>1. IInv /\ [Next]_vars =>
        [\A q \in Runs : runs[q].status \in TerminalStatus => runs'[q] = runs[q]]_vars
  BY FinalRunKept
<1>2. QED
  BY <1>1, InvariantCorrect, PTL DEF Spec, FinalIsForever

-------------------------------------------------------------------------------
(* The store implements the life cycle of a run                              *)

\* The step of a row is a step of the life cycle of its run.
LEMMA RowStepIsLifecycleStep ==
  ASSUME NEW q \in Runs, RowStep(runs[q], runs'[q])
  PROVE  \/ Lifecycle!Create(q) \/ Lifecycle!Start(q) \/ Lifecycle!Restart(q)
         \/ Lifecycle!Retry(q) \/ Lifecycle!Finish(q) \/ Lifecycle!CancelQueued(q)
         \/ Lifecycle!Rest(q)
BY DEF RowStep, Created, Started, Ended, Kept, TerminalStatus,
       Lifecycle!Create, Lifecycle!Start, Lifecycle!Restart, Lifecycle!Retry,
       Lifecycle!Finish, Lifecycle!CancelQueued, Lifecycle!Rest, Lifecycle!Final

\* The store implements the life cycle of its runs: every behaviour of it, seen
\* through status, attempt_count and max_attempts, is one the diagram allows.
THEOREM RunsFollowLifecycleCorrect == Spec => RunsFollowLifecycle
<1>1. Init => Lifecycle!LifecycleInit
  BY DEF Init, NoRun, Lifecycle!LifecycleInit
<1>2. IInv /\ [Next]_vars => [Lifecycle!LifecycleNext]_(Lifecycle!lifecycleVars)
  BY RunStep, RowStepIsLifecycleStep DEF Lifecycle!LifecycleNext
<1>3. QED
  BY <1>1, <1>2, InvariantCorrect, PTL
     DEF Spec, RunsFollowLifecycle, Lifecycle!LifecycleSpec

===============================================================================
