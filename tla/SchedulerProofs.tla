----------------------------- MODULE SchedulerProofs -----------------------------
(* Theorems about the scheduler processes, for any number of processes and     *)
(* jobs, any schedules, calendar, bounds and lease term.                       *)
EXTENDS Scheduler, WellFoundedInduction, TLAPS

\* A process works with a clock value of the past, and its fire times are due by
\* that value.
NowIsPast(s) ==
  /\ process[s].now <= clock
  /\ \A t \in process[s].due : t <= process[s].now

\* What a process has read of a job still holds, or the job has been deployed
\* again since the process read its clock.
TodoHolds(s) ==
  \A row \in process[s].todo :
    /\ jobs[row.job].updated_at > 0
    /\ row.created_at = jobs[row.job].created_at
    /\ row.expr = jobs[row.job].schedule \/ process[s].now <= jobs[row.job].updated_at

\* Of the fire times in force, a process that has one to insert has every
\* earlier one to insert too, unless it has its run already.
DueComplete(s) ==
  process[s].pc = "insert" =>
    \A t \in CronFires(process[s].job), later \in process[s].due :
      t < later => t \in process[s].due \/ scheduled[process[s].job][t] > 0

JobTimes ==
  \A j \in Jobs :
    /\ jobs[j].created_at <= jobs[j].updated_at
    /\ jobs[j].updated_at <= clock
    /\ jobs[j].schedule # None => jobs[j].updated_at > 0

\* No run is scheduled ahead of its fire time.
NoneAhead == \A j \in Jobs, t \in Times : scheduled[j][t] > 0 => t <= clock

SchedulerIInv ==
  /\ TypeOK
  /\ \A s \in Schedulers : NowIsPast(s) /\ TodoHolds(s) /\ DueComplete(s)
  /\ JobTimes
  /\ NoneAhead
  /\ NoFireTimeSkipped

USE SchedulerAssumption, HolderIdsAssumption, SchedulesAssumption, NoneIsNoHolder

-------------------------------------------------------------------------------
(* Operators *)

\* A set of natural numbers that is not empty has a least member (NextDue).
LEMMA MinIsLeast ==
  ASSUME NEW S \in SUBSET Nat, S # {}
  PROVE  Min(S) \in S /\ \A x \in S : Min(S) <= x
<1>1. PICK x \in S : \A y \in S : <<y, x>> \notin OpToRel(<, Nat)
  BY WFMin, NatLessThanWellFounded, Zenon
<1>2. \A y \in S : ~(y < x)
  <2>1. S \subseteq Nat
    OBVIOUS
  <2> QED  BY <1>1, <2>1, Zenon DEF OpToRel
<1>3. \A y \in S : x <= y
  BY <1>2
<1> QED  BY <1>3 DEF Min

\* The fire times that are due are later than the base and not later than now.
LEMMA DueTimesBound ==
  ASSUME NEW expr, NEW base \in Nat, NEW now \in Times
  PROVE  /\ DueTimes(expr, base, now) \subseteq Times
         /\ \A t \in DueTimes(expr, base, now) : base < t /\ t <= now
BY DEF DueTimes, Times, LastTime

\* The base of a catch-up is the time of the job's creation or of its latest run,
\* and then no run is later.
LEMMA BaseOfCatchUp ==
  ASSUME TypeOK, NEW row \in TodoRow
  PROVE  /\ CatchUpBase(row) \in Times
         /\ \/ CatchUpBase(row) = row.created_at
            \/ scheduled[row.job][CatchUpBase(row)] > 0
<1>1. CASE LatestScheduled(row.job) = {}
  BY <1>1 DEF CatchUpBase, TodoRow
<1>2. CASE LatestScheduled(row.job) # {}
  <2>1. PICK t \in LatestScheduled(row.job) : TRUE
    BY <1>2
  <2>2. t \in Times /\ scheduled[row.job][t] > 0
    BY <2>1 DEF LatestScheduled
  <2>3. \A u \in LatestScheduled(row.job) : u \in Times /\ u = t
    BY <2>1 DEF LatestScheduled, Times
  <2>4. Max(LatestScheduled(row.job)) = t
    <3>1. \A u \in LatestScheduled(row.job) : t >= u
      BY <2>2, <2>3 DEF Times
    <3>2. Max(LatestScheduled(row.job)) \in LatestScheduled(row.job)
      BY <2>1, <3>1 DEF Max
    <3> QED  BY <2>3, <3>2
  <2> QED  BY <1>2, <2>2, <2>4 DEF CatchUpBase
<1> QED  BY <1>1, <1>2

-------------------------------------------------------------------------------
(* The invariant *)

LEMMA InitInv == Init => SchedulerIInv
<1> SUFFICES ASSUME Init PROVE SchedulerIInv
  OBVIOUS
<1> USE DEF Init, ControlLeaseInit, NoControlLease, NoJob, Stopped, Times, LastTime
<1>1. TypeOK
  BY DEF TypeOK, JobRow, TodoRow, ProcessRow, InStep
<1>2. \A s \in Schedulers : NowIsPast(s) /\ TodoHolds(s) /\ DueComplete(s)
  BY DEF NowIsPast, TodoHolds, DueComplete
<1>3. JobTimes /\ NoneAhead /\ NoFireTimeSkipped
  BY DEF JobTimes, NoneAhead, NoFireTimeSkipped
<1> QED  BY <1>1, <1>2, <1>3 DEF SchedulerIInv

\* A step that leaves the jobs, the runs and the clock alone keeps what is said
\* of a process it does not move.
LEMMA OtherProcess ==
  ASSUME SchedulerIInv, NEW s \in Schedulers, process'[s] = process[s],
         UNCHANGED <<clock, jobs>>,
         \A j \in Jobs, t \in Times : scheduled[j][t] > 0 => scheduled'[j][t] > 0
  PROVE  NowIsPast(s)' /\ TodoHolds(s)' /\ DueComplete(s)'
<1>1. NowIsPast(s)' /\ TodoHolds(s)'
  BY DEF SchedulerIInv, NowIsPast, TodoHolds
<1>2. \A j : CronFires(j)' = CronFires(j)
  BY DEF CronFires
<1>3. process[s].pc = "insert" => process[s].job \in Jobs
  BY DEF SchedulerIInv, TypeOK, ProcessRow, InStep
<1>4. \A j : CronFires(j) \subseteq Times
  BY DEF CronFires
<1>5. DueComplete(s)
  BY DEF SchedulerIInv
<1>6. DueComplete(s)'
  BY <1>2, <1>3, <1>4, <1>5 DEF DueComplete
<1> QED  BY <1>1, <1>6

\* A step that leaves the jobs, the runs and the clock alone keeps the rest.
LEMMA TablesAlone ==
  ASSUME SchedulerIInv, UNCHANGED <<clock, jobs, scheduled>>
  PROVE  (JobTimes /\ NoneAhead /\ NoFireTimeSkipped)'
BY DEF SchedulerIInv, JobTimes, NoneAhead, NoFireTimeSkipped, CronFires

-------------------------------------------------------------------------------
(* Every step preserves it *)

\* A step of process s alone, to the row it has afterwards.
LEMMA ProcessStep ==
  ASSUME SchedulerIInv, NEW s \in Schedulers, NEW row \in ProcessRow,
         process' = [process EXCEPT ![s] = row],
         InStep(row),
         control_leases' \in [LeaseNames -> [holder_id : Holders \cup {None},
                                             expires_at : 0 .. LastTime + LeaderTtl]],
         exits' \in 0 .. MaxExits,
         NowIsPast(s)', TodoHolds(s)', DueComplete(s)',
         UNCHANGED <<clock, jobs, scheduled>>
  PROVE  SchedulerIInv'
<1>1. TypeOK'
  BY DEF SchedulerIInv, TypeOK
<1>2. ASSUME NEW t \in Schedulers PROVE NowIsPast(t)' /\ TodoHolds(t)' /\ DueComplete(t)'
  <2>1. CASE t # s
    <3>1. process'[t] = process[t]
      BY <2>1 DEF SchedulerIInv, TypeOK
    <3> QED  BY <3>1, OtherProcess
  <2>2. CASE t = s
    BY <2>2
  <2> QED  BY <2>1, <2>2
<1> QED  BY <1>1, <1>2, TablesAlone DEF SchedulerIInv

LEMMA TimesAreNat == Times \subseteq Nat /\ 0 \in Times /\ LastTime \in Nat
BY DEF Times, LastTime

LEMMA LoopRow ==
  ASSUME NEW row \in ProcessRow
  PROVE  LET next == [row EXCEPT !.pc = "loop", !.now = 0]
         IN next \in ProcessRow /\ next.pc = "loop" /\ next.now = 0 /\ next.due = row.due
            /\ next.todo = row.todo /\ next.job = row.job /\ next.holder = row.holder
BY TimesAreNat DEF ProcessRow

LEMMA ElectRow ==
  ASSUME NEW row \in ProcessRow, NEW now \in Times
  PROVE  LET next == [row EXCEPT !.pc = "elect", !.now = now]
         IN next \in ProcessRow /\ next.pc = "elect" /\ next.now = now /\ next.due = row.due
            /\ next.todo = row.todo /\ next.job = row.job /\ next.holder = row.holder
BY DEF ProcessRow

LEMMA LoadRow ==
  ASSUME NEW row \in ProcessRow
  PROVE  LET next == [row EXCEPT !.pc = "load"]
         IN next \in ProcessRow /\ next.pc = "load" /\ next.now = row.now /\ next.due = row.due
            /\ next.todo = row.todo /\ next.job = row.job /\ next.holder = row.holder
BY DEF ProcessRow

LEMMA TickRow ==
  ASSUME NEW row \in ProcessRow, NEW todo \in SUBSET TodoRow
  PROVE  LET next == [row EXCEPT !.pc = "tick", !.todo = todo]
         IN next \in ProcessRow /\ next.pc = "tick" /\ next.now = row.now /\ next.due = row.due
            /\ next.todo = todo /\ next.job = row.job /\ next.holder = row.holder
BY DEF ProcessRow

LEMMA InsertingRow ==
  ASSUME NEW row \in ProcessRow, NEW todo \in SUBSET TodoRow, NEW job \in Jobs,
         NEW due \in SUBSET Times
  PROVE  LET next == Inserting(row, todo, job, due)
         IN /\ next \in ProcessRow /\ InStep(next)
            /\ next.holder = row.holder /\ next.now = row.now /\ next.due = due /\ next.todo = todo
            /\ next.pc = "insert" => next.job = job
<1> DEFINE jobOrNone == IF due = {} THEN None ELSE job
           pc == IF due = {} THEN "tick" ELSE "insert"
           next == [row EXCEPT !.todo = todo, !.due = due, !.job = jobOrNone, !.pc = pc]
<1>1. jobOrNone \in Jobs \cup {None} /\ pc \in {"tick", "insert"}
  OBVIOUS
<1>2. due = {} => pc = "tick" /\ jobOrNone = None
  OBVIOUS
<1>3. due # {} => pc = "insert" /\ jobOrNone = job /\ job # None
  OBVIOUS
<1> HIDE DEF jobOrNone, pc
<1>4. /\ next \in ProcessRow /\ next.pc = pc /\ next.now = row.now /\ next.due = due
      /\ next.holder = row.holder /\ next.todo = todo /\ next.job = jobOrNone
  BY <1>1 DEF ProcessRow
<1>5. next = Inserting(row, todo, job, due)
  BY DEF Inserting, jobOrNone, pc
<1> HIDE DEF next
<1>6. InStep(next)
  BY <1>2, <1>3, <1>4 DEF InStep
<1> QED  BY <1>2, <1>3, <1>4, <1>5, <1>6

LEMMA StartRow ==
  ASSUME NEW holder \in Holders
  PROVE  LET next == [Stopped EXCEPT !.pc = "loop", !.holder = holder]
         IN next \in ProcessRow /\ next.pc = "loop" /\ next.now = 0 /\ next.due = {}
            /\ next.todo = {} /\ next.job = None /\ next.holder = holder
BY TimesAreNat DEF ProcessRow, Stopped

\* The rows and tables at any time.
LEMMA Types ==
  ASSUME SchedulerIInv
  PROVE  /\ process \in [Schedulers -> ProcessRow]
         /\ control_leases \in [LeaseNames -> [holder_id : Holders \cup {None},
                                               expires_at : 0 .. LastTime + LeaderTtl]]
         /\ clock \in Times /\ exits \in 0 .. MaxExits
         /\ jobs \in [Jobs -> JobRow] /\ scheduled \in [Jobs -> [Times -> Nat]]
BY DEF SchedulerIInv, TypeOK

LEMMA Clocks ==
  ASSUME SchedulerIInv
  PROVE  /\ clock \in Times /\ clock \in Nat /\ 0 \in Times /\ 0 <= clock
         /\ \A s \in Schedulers : process[s].now \in Times /\ process[s].now \in Nat
                                 /\ process[s].now <= clock
<1>1. clock \in Times /\ \A s \in Schedulers : process[s] \in ProcessRow
  BY Types
<1>2. clock \in Nat /\ 0 \in Times
  BY <1>1 DEF Times, LastTime
<1>3. \A s \in Schedulers : process[s].now \in Times
  BY <1>1 DEF ProcessRow
<1>4. \A s \in Schedulers : process[s].now \in Nat
  BY <1>3 DEF Times, LastTime
<1>5. \A s \in Schedulers : process[s].now <= clock
  BY DEF SchedulerIInv, NowIsPast
<1> QED  BY <1>1, <1>2, <1>3, <1>4, <1>5

LEMMA ProcessInStep ==
  ASSUME SchedulerIInv, NEW s \in Schedulers
  PROVE  InStep(process[s]) /\ NowIsPast(s) /\ TodoHolds(s) /\ DueComplete(s)
BY DEF SchedulerIInv, TypeOK

\* A process that is not ticking has nothing that could be out of date.
LEMMA NotTicking ==
  ASSUME SchedulerIInv, NEW s \in Schedulers, NEW row,
         process'[s] = row, row.pc \notin {"tick", "insert"},
         row.due = {}, row.todo = {}, row.job = None, row.now \in Times, row.now <= clock,
         UNCHANGED clock
  PROVE  NowIsPast(s)' /\ TodoHolds(s)' /\ DueComplete(s)' /\ InStep(row)
<1>1. NowIsPast(s)' /\ TodoHolds(s)' /\ InStep(row)
  BY DEF NowIsPast, TodoHolds, InStep
<1>2. DueComplete(s)'
  BY DEF DueComplete
<1> QED  BY <1>1, <1>2

LEMMA StartInv ==
  ASSUME SchedulerIInv, NEW s \in Schedulers, Start(s)
  PROVE  SchedulerIInv'
<1>1. PICK holder \in HolderIds[s] :
        process' = [process EXCEPT ![s] = [Stopped EXCEPT !.pc = "loop", !.holder = holder]]
  BY DEF Start
<1>2. holder \in Holders
  OBVIOUS
<1> DEFINE row == [Stopped EXCEPT !.pc = "loop", !.holder = holder]
<1>3. /\ row \in ProcessRow /\ row.pc = "loop" /\ row.now = 0 /\ row.due = {}
      /\ row.todo = {} /\ row.job = None
  BY <1>2, StartRow
<1>4. process' = [process EXCEPT ![s] = row] /\ process'[s] = row
  BY <1>1, Types
<1> HIDE DEF row
<1>5. NowIsPast(s)' /\ TodoHolds(s)' /\ DueComplete(s)' /\ InStep(row)
  <2>1. 0 \in Times /\ 0 <= clock
    BY Clocks
  <2> QED  BY <1>3, <1>4, <2>1, NotTicking DEF Start
<1> QED  BY <1>3, <1>4, <1>5, Types, ProcessStep DEF Start

LEMMA ReadClockInv ==
  ASSUME SchedulerIInv, NEW s \in Schedulers, ReadClock(s)
  PROVE  SchedulerIInv'
<1> DEFINE row == [process[s] EXCEPT !.pc = "elect", !.now = clock]
<1>1. /\ row \in ProcessRow /\ row.pc = "elect" /\ row.now = clock
      /\ row.due = process[s].due /\ row.todo = process[s].todo /\ row.job = process[s].job
  <2>1. process[s] \in ProcessRow /\ clock \in Times
    BY Types
  <2> QED  BY ZenonT(60), <2>1, ElectRow
<1>2. process' = [process EXCEPT ![s] = row] /\ process'[s] = row
  BY Types DEF ReadClock
<1> HIDE DEF row
<1>3. NowIsPast(s)' /\ TodoHolds(s)' /\ DueComplete(s)' /\ InStep(row)
  <2>1. row.due = {} /\ row.todo = {} /\ row.job = None
    BY <1>1, ProcessInStep DEF ReadClock, InStep
  <2>2. row.now \in Times /\ row.now <= clock
    BY <1>1, Clocks
  <2> QED  BY <1>1, <1>2, <2>1, <2>2, NotTicking DEF ReadClock
<1> QED  BY <1>1, <1>2, <1>3, Types, ProcessStep DEF ReadClock

LEMMA BecomeLeaderInv ==
  ASSUME SchedulerIInv, NEW s \in Schedulers, BecomeLeader(s)
  PROVE  SchedulerIInv'
<1> DEFINE row == [process[s] EXCEPT !.pc = "load"]
<1>1. /\ row \in ProcessRow /\ row.pc = "load" /\ row.now = process[s].now
      /\ row.due = process[s].due /\ row.todo = process[s].todo /\ row.job = process[s].job
  BY Types, LoadRow
<1>2. process' = [process EXCEPT ![s] = row] /\ process'[s] = row
  BY Types DEF BecomeLeader
<1> HIDE DEF row
<1>3. NowIsPast(s)' /\ TodoHolds(s)' /\ DueComplete(s)' /\ InStep(row)
  <2>1. row.due = {} /\ row.todo = {} /\ row.job = None
    BY <1>1, ProcessInStep DEF BecomeLeader, InStep
  <2>2. row.now \in Times /\ row.now <= clock
    BY <1>1, Clocks
  <2> QED  BY <1>1, <1>2, <2>1, <2>2, NotTicking DEF BecomeLeader
<1>4. /\ process[s].holder \in Holders \cup {None}
      /\ process[s].now + LeaderTtl \in 0 .. LastTime + LeaderTtl
  BY Types DEF ProcessRow, Times, LastTime
<1>5. control_leases' \in [LeaseNames -> [holder_id : Holders \cup {None},
                                          expires_at : 0 .. LastTime + LeaderTtl]]
  BY <1>4, Types DEF BecomeLeader, Acquire
<1> QED  BY <1>1, <1>2, <1>3, <1>5, Types, ProcessStep DEF BecomeLeader

LEMMA ToLoopInv ==
  ASSUME SchedulerIInv, NEW s \in Schedulers,
         process' = [process EXCEPT ![s] = [@ EXCEPT !.pc = "loop", !.now = 0]],
         process[s].pc \in {"elect", "tick"}, process[s].todo = {},
         UNCHANGED <<control_leases, clock, jobs, scheduled, exits>>
  PROVE  SchedulerIInv'
<1> DEFINE row == [process[s] EXCEPT !.pc = "loop", !.now = 0]
<1>1. /\ row \in ProcessRow /\ row.pc = "loop" /\ row.now = 0
      /\ row.due = process[s].due /\ row.todo = process[s].todo /\ row.job = process[s].job
  BY Types, LoopRow
<1>2. process' = [process EXCEPT ![s] = row] /\ process'[s] = row
  BY Types
<1> HIDE DEF row
<1>3. NowIsPast(s)' /\ TodoHolds(s)' /\ DueComplete(s)' /\ InStep(row)
  BY <1>1, <1>2, Types, TimesAreNat, ProcessInStep
  DEF NowIsPast, TodoHolds, DueComplete, InStep
<1> QED  BY <1>1, <1>2, <1>3, Types, ProcessStep

LEMMA StopInv ==
  ASSUME SchedulerIInv, NEW s \in Schedulers, process' = [process EXCEPT ![s] = Stopped],
         exits' \in 0 .. MaxExits,
         UNCHANGED <<control_leases, clock, jobs, scheduled>>
  PROVE  SchedulerIInv'
<1>1. /\ Stopped \in ProcessRow /\ Stopped.pc = "down" /\ Stopped.now = 0
      /\ Stopped.due = {} /\ Stopped.todo = {} /\ Stopped.job = None
  BY TimesAreNat DEF ProcessRow, Stopped
<1>2. process'[s] = Stopped
  BY Types
<1>3. NowIsPast(s)' /\ TodoHolds(s)' /\ DueComplete(s)' /\ InStep(Stopped)
  <2>1. 0 \in Times /\ 0 <= clock
    BY Clocks
  <2> QED  BY <1>1, <1>2, <2>1, NotTicking
<1> QED  BY <1>1, <1>2, <1>3, Types, ProcessStep

LEMMA LoadJobsInv ==
  ASSUME SchedulerIInv, NEW s \in Schedulers, LoadJobs(s)
  PROVE  SchedulerIInv'
<1> DEFINE row == [process[s] EXCEPT !.pc = "tick", !.todo = ScheduledJobs]
<1>1. ScheduledJobs \in SUBSET TodoRow
  BY Types DEF ScheduledJobs, TodoRow, JobRow
<1>2. /\ row \in ProcessRow /\ row.pc = "tick" /\ row.now = process[s].now
      /\ row.due = process[s].due /\ row.todo = ScheduledJobs /\ row.job = process[s].job
  <2>1. process[s] \in ProcessRow
    BY Types
  <2> QED  BY ZenonT(60), <1>1, <2>1, TickRow
<1>3. process' = [process EXCEPT ![s] = row] /\ process'[s] = row
  BY Types DEF LoadJobs
<1> HIDE DEF row
<1>4. row.due = {} /\ InStep(row)
  BY <1>2, ProcessInStep DEF LoadJobs, InStep
<1>5. NowIsPast(s)' /\ DueComplete(s)'
  BY <1>2, <1>3, <1>4, Clocks DEF LoadJobs, NowIsPast, DueComplete
<1>6. TodoHolds(s)'
  BY <1>2, <1>3 DEF LoadJobs, TodoHolds, ScheduledJobs, SchedulerIInv, JobTimes
<1> QED  BY <1>2, <1>3, <1>4, <1>5, <1>6, Types, ProcessStep DEF LoadJobs

\* The fire times computed from what was read of a job leave none out that is in
\* force, due by the clock value and without a run: those before the base have one.
LEMMA DueHasAll ==
  ASSUME SchedulerIInv, NEW s \in Schedulers, NEW row \in process[s].todo,
         NEW t \in CronFires(row.job), t <= process[s].now
  PROVE  /\ row.created_at <= process[s].now
         /\ \/ t \in DueTimes(row.expr, CatchUpBase(row), process[s].now)
            \/ scheduled[row.job][t] > 0
<1> DEFINE base == CatchUpBase(row)
           now == process[s].now
<1>1. row \in TodoRow /\ row.job \in Jobs
  BY Types DEF ProcessRow, TodoRow
<1>2. /\ jobs[row.job].updated_at > 0 /\ row.created_at = jobs[row.job].created_at
      /\ row.expr = jobs[row.job].schedule \/ now <= jobs[row.job].updated_at
  BY ProcessInStep DEF TodoHolds
<1>3. base \in Times /\ (base = row.created_at \/ scheduled[row.job][base] > 0)
  <2>1. TypeOK
    BY DEF SchedulerIInv
  <2> QED  BY <1>1, <2>1, BaseOfCatchUp
<1>4. now \in Times /\ now \in Nat
  BY Clocks
<1>5. t <= now
  OBVIOUS
<1>6. /\ t \in Times /\ jobs[row.job].schedule.kind = "cron"
      /\ jobs[row.job].updated_at < t /\ Matches(jobs[row.job].schedule, t)
  BY DEF CronFires
<1>7. /\ jobs[row.job].created_at \in Nat /\ jobs[row.job].updated_at \in Nat
      /\ jobs[row.job].created_at <= jobs[row.job].updated_at
  <2>1. jobs[row.job] \in JobRow
    BY <1>1, Types
  <2>2. jobs[row.job].created_at <= jobs[row.job].updated_at
    BY <1>1 DEF SchedulerIInv, JobTimes
  <2> QED  BY <2>1, <2>2, TimesAreNat DEF JobRow
<1>8. t \in Nat /\ base \in Nat
  BY <1>3, <1>6, TimesAreNat
<1> HIDE DEF base, now
<1>9. row.expr = jobs[row.job].schedule
  BY <1>2, <1>4, <1>5, <1>6, <1>7, <1>8
<1>10. row.created_at <= now
  BY <1>2, <1>4, <1>5, <1>6, <1>7, <1>8
<1>11. CASE base < t
  <2>1. t \in base + 1 .. now
    BY <1>4, <1>5, <1>8, <1>11
  <2>2. t \in DueTimes(row.expr, base, now)
    BY <1>6, <1>9, <2>1 DEF DueTimes
  <2> QED  BY <1>10, <2>2 DEF base, now
<1>12. CASE t = base
  BY <1>2, <1>3, <1>6, <1>7, <1>8, <1>10, <1>12 DEF now
<1>13. CASE t < base
  <2>1. scheduled[row.job][base] > 0
    BY <1>2, <1>3, <1>6, <1>7, <1>8, <1>13
  <2>2. scheduled[row.job][t] > 0
    BY <1>1, <1>3, <1>13, <2>1 DEF SchedulerIInv, NoFireTimeSkipped, CronFires
  <2> QED  BY <1>10, <2>2 DEF now
<1> QED  BY <1>8, <1>11, <1>12, <1>13

LEMMA NextJobInv ==
  ASSUME SchedulerIInv, NEW s \in Schedulers, NextJob(s)
  PROVE  SchedulerIInv'
<1>1. PICK row \in process[s].todo :
        LET due == IF process[s].now < row.created_at THEN {}
                   ELSE DueTimes(row.expr, CatchUpBase(row), process[s].now)
        IN process' = [process EXCEPT ![s] = Inserting(@, @.todo \ {row}, row.job, due)]
  BY DEF NextJob
<1> DEFINE due == IF process[s].now < row.created_at THEN {}
                  ELSE DueTimes(row.expr, CatchUpBase(row), process[s].now)
           next == Inserting(process[s], process[s].todo \ {row}, row.job, due)
<1>2. /\ row \in TodoRow /\ row.job \in Jobs /\ process[s] \in ProcessRow
      /\ process[s].todo \ {row} \in SUBSET TodoRow
  BY Types DEF ProcessRow, TodoRow
<1>3. due \in SUBSET Times /\ \A t \in due : t <= process[s].now
  <2>1. CatchUpBase(row) \in Nat
    <3>1. TypeOK
      BY DEF SchedulerIInv
    <3> QED  BY <1>2, <3>1, TimesAreNat, BaseOfCatchUp
  <2> QED  BY <2>1, Clocks, DueTimesBound
<1>4. \A t \in CronFires(row.job), later \in due :
        t < later => t \in due \/ scheduled[row.job][t] > 0
  <2> SUFFICES ASSUME NEW t \in CronFires(row.job), NEW later \in due, t < later
               PROVE  t \in due \/ scheduled[row.job][t] > 0
    OBVIOUS
  <2>1. t \in Nat /\ later \in Nat /\ later <= process[s].now
    BY <1>3, TimesAreNat DEF CronFires
  <2>2. t <= process[s].now
    BY <2>1, Clocks
  <2>3. row.created_at \in Nat
    BY <1>2, TimesAreNat DEF TodoRow
  <2>4. ~(process[s].now < row.created_at)
    BY <2>2, <2>3, Clocks, DueHasAll
  <2> QED  BY <2>2, <2>4, DueHasAll
<1>5. process' = [process EXCEPT ![s] = next] /\ process'[s] = next
  BY <1>1, Types
<1> HIDE DEF due
<1>6. /\ next \in ProcessRow /\ InStep(next) /\ next.now = process[s].now /\ next.due = due
      /\ next.todo = process[s].todo \ {row}
      /\ next.pc = "insert" => next.job = row.job
  BY <1>2, <1>3, InsertingRow
<1> HIDE DEF next
<1>7. UNCHANGED <<control_leases, clock, jobs, scheduled, exits>>
  BY DEF NextJob
<1>8. NowIsPast(s)'
  BY <1>3, <1>5, <1>6, <1>7, Clocks DEF NowIsPast
<1>9. TodoHolds(s)'
  BY <1>5, <1>6, <1>7, ProcessInStep DEF TodoHolds
<1>10. DueComplete(s)'
  <2>1. CronFires(row.job)' = CronFires(row.job)
    BY <1>7 DEF CronFires
  <2> QED  BY <1>4, <1>5, <1>6, <1>7, <2>1 DEF DueComplete
<1> QED  BY <1>5, <1>6, <1>7, <1>8, <1>9, <1>10, Types, ProcessStep

\* After the INSERT there is a run of the job at the fire time.
LEMMA InsertedThere ==
  ASSUME SchedulerIInv, NEW j \in Jobs, NEW t \in Times
  PROVE  Inserted(scheduled[j][t]) \in Nat /\ Inserted(scheduled[j][t]) > 0
<1>1. scheduled[j][t] \in Nat
  BY Types
<1>2. \A n \in Nat : Inserted(n) \in Nat /\ Inserted(n) > 0
  BY DEF Inserted
<1> QED  BY <1>1, <1>2

LEMMA InsertRunInv ==
  ASSUME SchedulerIInv, NEW s \in Schedulers, InsertRun(s)
  PROVE  SchedulerIInv'
<1> DEFINE j == process[s].job
           t == NextDue(process[s].due)
           left == process[s].due \ {t}
           next == Inserting(process[s], process[s].todo, j, left)
<1>1. process[s] \in ProcessRow /\ process[s].pc = "insert"
  BY Types DEF InsertRun
<1>2. process[s].due # {} /\ process[s].due \subseteq Times /\ j \in Jobs
  BY <1>1, ProcessInStep DEF InStep, ProcessRow
<1>3. t \in process[s].due /\ t \in Times /\ \A u \in process[s].due : t <= u
  <2>1. process[s].due \in SUBSET Nat
    BY <1>2, TimesAreNat
  <2> QED  BY <1>2, <2>1, MinIsLeast DEF NextDue
<1>4. t <= clock
  <2>1. t <= process[s].now /\ t \in Nat
    BY <1>3, ProcessInStep, TimesAreNat DEF NowIsPast
  <2> HIDE DEF t
  <2> QED  BY <2>1, Clocks
<1>5. scheduled' = [scheduled EXCEPT ![j][t] = Inserted(@)]
  BY DEF InsertRun
<1>6. left \in SUBSET Times /\ process[s].todo \in SUBSET TodoRow
  BY <1>1, <1>2 DEF ProcessRow
<1>7. UNCHANGED <<control_leases, clock, jobs, exits>>
  BY DEF InsertRun
<1>8. process' = [process EXCEPT ![s] = next] /\ process'[s] = next
  BY Types DEF InsertRun
<1> HIDE DEF left, t, j
<1>9. /\ next \in ProcessRow /\ InStep(next) /\ next.now = process[s].now /\ next.due = left
      /\ next.todo = process[s].todo
      /\ next.pc = "insert" => next.job = j
  BY <1>1, <1>2, <1>6, InsertingRow
<1> HIDE DEF next
<1>10. InStep(next)
  BY <1>9
<1>11. /\ scheduled' \in [Jobs -> [Times -> Nat]]
       /\ scheduled'[j][t] > 0
       /\ \A i \in Jobs, u \in Times :
            <<i, u>> # <<j, t>> => scheduled'[i][u] = scheduled[i][u]
  <2>1. Inserted(scheduled[j][t]) \in Nat /\ Inserted(scheduled[j][t]) > 0
    BY <1>2, <1>3, InsertedThere
  <2> QED  BY <1>2, <1>3, <1>5, <2>1, Types
<1>12. \A i \in Jobs, u \in Times : scheduled[i][u] > 0 => scheduled'[i][u] > 0
  BY <1>2, <1>3, <1>11
<1>13. \A i \in Jobs : CronFires(i)' = CronFires(i) /\ CronFires(i) \subseteq Times
  BY <1>7 DEF CronFires
<1>14. TypeOK'
  <2>1. process' \in [Schedulers -> ProcessRow]
    BY <1>8, <1>9, Types
  <2>2. \A p \in Schedulers : InStep(process'[p])
    <3>1. ASSUME NEW p \in Schedulers PROVE InStep(process'[p])
      <4>1. p # s => process'[p] = process[p]
        BY <1>8, Types
      <4> QED  BY <1>8, <1>10, <4>1, ProcessInStep
    <3> QED  BY <3>1
  <2> QED  BY <1>7, <1>11, <2>1, <2>2, Types DEF TypeOK
<1>15. NowIsPast(s)' /\ TodoHolds(s)'
  <2>1. NowIsPast(s)'
    BY <1>7, <1>8, <1>9, ProcessInStep DEF NowIsPast, left
  <2>2. TodoHolds(s)'
    BY <1>7, <1>8, <1>9, ProcessInStep DEF TodoHolds
  <2> QED  BY <2>1, <2>2
<1>16. DueComplete(s)'
  <2> SUFFICES ASSUME next.pc = "insert", NEW u \in CronFires(j), NEW later \in left, u < later
               PROVE  u \in left \/ scheduled'[j][u] > 0
    BY <1>2, <1>8, <1>9, <1>13 DEF DueComplete
  <2>1. u \in process[s].due \/ scheduled[j][u] > 0
    BY <1>1, ProcessInStep DEF DueComplete, left, j
  <2> QED  BY <1>2, <1>11, <1>12, <1>13, <2>1 DEF left
<1>17. ASSUME NEW p \in Schedulers PROVE NowIsPast(p)' /\ TodoHolds(p)' /\ DueComplete(p)'
  <2>1. CASE p = s
    BY <1>15, <1>16, <2>1
  <2>2. CASE p # s
    <3>1. process'[p] = process[p]
      BY <1>8, <2>2, Types
    <3> QED  BY <1>7, <1>12, <3>1, OtherProcess
  <2> QED  BY <2>1, <2>2
<1>18. JobTimes'
  BY <1>7 DEF SchedulerIInv, JobTimes
<1>19. NoneAhead'
  BY <1>2, <1>3, <1>4, <1>7, <1>11 DEF SchedulerIInv, NoneAhead
<1>20. NoFireTimeSkipped'
  <2> SUFFICES ASSUME NEW i \in Jobs, NEW u \in CronFires(i), NEW later \in Times,
                      u < later, scheduled'[i][later] > 0
               PROVE  scheduled'[i][u] > 0
    BY <1>13 DEF NoFireTimeSkipped
  <2>1. CASE scheduled[i][later] > 0
    BY <1>12, <1>13, <2>1 DEF SchedulerIInv, NoFireTimeSkipped
  <2>2. CASE ~(scheduled[i][later] > 0)
    <3>1. i = j /\ later = t
      BY <1>11, <2>2
    <3>2. u \in process[s].due \/ scheduled[i][u] > 0
      BY <1>1, <1>3, <3>1, ProcessInStep DEF DueComplete, j
    <3>3. u \notin process[s].due
      BY <1>3, <1>13, <3>1, TimesAreNat
    <3> QED  BY <1>12, <1>13, <3>2, <3>3
  <2> QED  BY <2>1, <2>2
<1> QED  BY <1>14, <1>17, <1>18, <1>19, <1>20 DEF SchedulerIInv

LEMMA RegisterDeployInv ==
  ASSUME SchedulerIInv, NEW j \in Jobs, NEW expr \in Schedules \cup {None},
         RegisterDeploy(j, expr)
  PROVE  SchedulerIInv'
<1> DEFINE created == IF jobs[j].updated_at = 0 THEN clock ELSE jobs[j].created_at
           row == [schedule |-> expr, updated_at |-> clock, created_at |-> created]
<1>1. /\ UNCHANGED <<control_leases, clock, scheduled, process, exits>>
      /\ jobs' = [jobs EXCEPT ![j] = row]
      /\ clock > 0 /\ clock \in Times /\ clock \in Nat
  BY Clocks DEF RegisterDeploy
<1>2. /\ jobs[j].created_at \in Times /\ jobs[j].updated_at \in Times
      /\ jobs[j].created_at <= jobs[j].updated_at /\ jobs[j].updated_at <= clock
  BY Types DEF JobRow, SchedulerIInv, JobTimes
<1>3. created \in Times /\ created <= clock
  <2>1. jobs[j].created_at \in Nat /\ jobs[j].updated_at \in Nat
    BY <1>2, TimesAreNat
  <2> QED  BY <1>1, <1>2, <2>1
<1>4. jobs[j].updated_at > 0 => created = jobs[j].created_at
  OBVIOUS
<1> HIDE DEF created
<1>5. /\ jobs' \in [Jobs -> JobRow]
      /\ jobs'[j] = row
      /\ \A i \in Jobs : i # j => jobs'[i] = jobs[i]
  BY <1>1, <1>3, Types DEF JobRow
<1>6. TypeOK'
  BY <1>1, <1>5 DEF SchedulerIInv, TypeOK
<1>7. ASSUME NEW s \in Schedulers PROVE NowIsPast(s)' /\ TodoHolds(s)' /\ DueComplete(s)'
  <2>1. NowIsPast(s)'
    BY <1>1, ProcessInStep DEF NowIsPast
  <2>2. TodoHolds(s)'
    <3> SUFFICES ASSUME NEW todo \in process[s].todo
                 PROVE  /\ jobs'[todo.job].updated_at > 0
                        /\ todo.created_at = jobs'[todo.job].created_at
                        /\ \/ todo.expr = jobs'[todo.job].schedule
                           \/ process[s].now <= jobs'[todo.job].updated_at
      BY <1>1 DEF TodoHolds
    <3>1. todo.job \in Jobs
      BY Types DEF ProcessRow, TodoRow
    <3>2. CASE todo.job = j
      BY <1>1, <1>4, <1>5, <3>2, Clocks, ProcessInStep DEF TodoHolds
    <3>3. CASE todo.job # j
      BY <1>5, <3>1, <3>3, ProcessInStep DEF TodoHolds
    <3> QED  BY <3>2, <3>3
  <2>3. DueComplete(s)'
    <3> SUFFICES ASSUME process[s].pc = "insert", NEW t \in CronFires(process[s].job)',
                        NEW later \in process[s].due, t < later
                 PROVE  t \in process[s].due \/ scheduled[process[s].job][t] > 0
      BY <1>1 DEF DueComplete
    <3>1. process[s].job \in Jobs
      BY Types, ProcessInStep DEF ProcessRow, InStep
    <3>2. CASE process[s].job = j
      <4>1. clock < t /\ t \in Nat
        BY <1>1, <1>5, <3>2, TimesAreNat DEF CronFires
      <4>2. later <= clock /\ later \in Nat
        <5>1. later <= process[s].now
          BY ProcessInStep DEF NowIsPast
        <5>2. later \in Nat
          BY Types, TimesAreNat DEF ProcessRow
        <5> QED  BY <5>1, <5>2, Clocks
      <4> QED  BY <1>1, <4>1, <4>2
    <3>3. CASE process[s].job # j
      <4>1. t \in CronFires(process[s].job)
        BY <1>1, <1>5, <3>1, <3>3 DEF CronFires
      <4> QED  BY <4>1, ProcessInStep DEF DueComplete
    <3> QED  BY <3>2, <3>3
  <2> QED  BY <2>1, <2>2, <2>3
<1>8. JobTimes'
  BY <1>1, <1>3, <1>5 DEF SchedulerIInv, JobTimes
<1>9. NoneAhead'
  BY <1>1 DEF SchedulerIInv, NoneAhead
<1>10. NoFireTimeSkipped'
  <2> SUFFICES ASSUME NEW i \in Jobs, NEW t \in CronFires(i)', NEW later \in Times,
                      t < later, scheduled[i][later] > 0
               PROVE  scheduled[i][t] > 0
    BY <1>1 DEF NoFireTimeSkipped
  <2>1. CASE i = j
    <3>1. clock < t /\ t \in Nat
      BY <1>1, <1>5, <2>1, TimesAreNat DEF CronFires
    <3>2. later <= clock /\ later \in Nat
      BY TimesAreNat DEF SchedulerIInv, NoneAhead
    <3> QED  BY <1>1, <3>1, <3>2
  <2>2. CASE i # j
    <3>1. t \in CronFires(i) /\ t \in Times
      BY <1>5, <2>2 DEF CronFires
    <3> QED  BY <3>1 DEF SchedulerIInv, NoFireTimeSkipped
  <2> QED  BY <2>1, <2>2
<1> QED  BY <1>6, <1>7, <1>8, <1>9, <1>10 DEF SchedulerIInv

LEMMA AdvanceInv ==
  ASSUME SchedulerIInv, Advance
  PROVE  SchedulerIInv'
<1>1. /\ clock' \in Times /\ clock' \in Nat /\ clock <= clock' /\ clock \in Nat
      /\ UNCHANGED <<control_leases, jobs, scheduled, process, exits>>
  BY Clocks DEF Advance, Times, LastTime
<1>2. TypeOK'
  BY <1>1 DEF SchedulerIInv, TypeOK
<1>3. ASSUME NEW s \in Schedulers PROVE NowIsPast(s)' /\ TodoHolds(s)' /\ DueComplete(s)'
  <2>1. NowIsPast(s)'
    BY <1>1, Clocks, ProcessInStep DEF NowIsPast
  <2>2. TodoHolds(s)'
    BY <1>1, ProcessInStep DEF TodoHolds
  <2>3. \A j : CronFires(j)' = CronFires(j)
    BY <1>1 DEF CronFires
  <2>4. DueComplete(s)'
    BY <1>1, <2>3, ProcessInStep DEF DueComplete
  <2> QED  BY <2>1, <2>2, <2>4
<1>4. JobTimes' /\ NoneAhead'
  <2>1. JobTimes'
    <3>1. \A j \in Jobs : jobs[j].updated_at \in Nat
      BY Types, TimesAreNat DEF JobRow
    <3> QED  BY <1>1, <3>1 DEF SchedulerIInv, JobTimes
  <2>2. NoneAhead'
    BY <1>1, TimesAreNat DEF SchedulerIInv, NoneAhead
  <2> QED  BY <2>1, <2>2
<1>5. NoFireTimeSkipped'
  BY <1>1 DEF SchedulerIInv, NoFireTimeSkipped, CronFires
<1> QED  BY <1>2, <1>3, <1>4, <1>5 DEF SchedulerIInv

LEMMA StepInv == SchedulerIInv /\ [Next]_vars => SchedulerIInv'
<1> SUFFICES ASSUME SchedulerIInv, [Next]_vars PROVE SchedulerIInv'
  OBVIOUS
<1>1. CASE \E j \in Jobs, expr \in Schedules \cup {None} : RegisterDeploy(j, expr)
  BY <1>1, RegisterDeployInv
<1>2. ASSUME NEW s \in Schedulers, StayFollower(s) PROVE SchedulerIInv'
  BY <1>2, ToLoopInv, ProcessInStep DEF StayFollower, InStep
<1>3. ASSUME NEW s \in Schedulers, EndTick(s) PROVE SchedulerIInv'
  BY <1>3, ToLoopInv DEF EndTick
<1>4. ASSUME NEW s \in Schedulers, TickFails(s) PROVE SchedulerIInv'
  BY <1>4, StopInv, Types DEF TickFails
<1>5. ASSUME NEW s \in Schedulers, Exit(s) PROVE SchedulerIInv'
  <2>1. exits' \in 0 .. MaxExits
    BY <1>5, Types DEF Exit
  <2> QED  BY <1>5, <2>1, StopInv DEF Exit
<1>6. CASE \E s \in Schedulers : Start(s) \/ Loop(s) \/ Exit(s)
  BY <1>2, <1>3, <1>4, <1>5, <1>6, StartInv, ReadClockInv, BecomeLeaderInv, LoadJobsInv,
     NextJobInv, InsertRunInv DEF Loop, Tick
<1>7. CASE Advance
  BY <1>7, AdvanceInv
<1>8. CASE UNCHANGED vars
  <2>1. TypeOK' /\ JobTimes' /\ NoneAhead' /\ NoFireTimeSkipped'
    BY <1>8, TablesAlone DEF SchedulerIInv, TypeOK, vars
  <2>2. \A s \in Schedulers : NowIsPast(s)' /\ TodoHolds(s)' /\ DueComplete(s)'
    BY <1>8, OtherProcess DEF vars
  <2> QED  BY <2>1, <2>2 DEF SchedulerIInv
<1> QED  BY <1>1, <1>6, <1>7, <1>8 DEF Next

THEOREM SchedulerInvariant == Spec => []SchedulerIInv
<1> QED  BY InitInv, StepInv, PTL DEF Spec

\* Type correctness of the scheduler processes and the tables they use.
THEOREM TypeCorrect == Spec => []TypeOK
<1>1. SchedulerIInv => TypeOK
  BY DEF SchedulerIInv
<1> QED  BY <1>1, SchedulerInvariant, PTL

\* No fire time of the cron schedule in force is passed over by a catch-up that
\* overlaps another, stops half-way or works with an older deploy.
THEOREM SchedulesWithoutGap == Spec => []NoFireTimeSkipped
<1>1. SchedulerIInv => NoFireTimeSkipped
  BY DEF SchedulerIInv
<1> QED  BY <1>1, SchedulerInvariant, PTL

-------------------------------------------------------------------------------
(* The control lease *)

\* No two processes may get the same leader_id.
DistinctHolders ==
  \A s, t \in Schedulers : s # t => HolderIds[s] \cap HolderIds[t] = {}

HolderOK(s) == process[s].pc # "down" => process[s].holder \in HolderIds[s]

\* A process within the term of its lease is the holder of the row, which expires
\* at the end of that term.
LeaseHeld(s) ==
  InLease(s) => /\ control_leases["scheduler"].holder_id = process[s].holder
                /\ control_leases["scheduler"].expires_at = process[s].now + LeaderTtl

LeaseIInv ==
  /\ SchedulerIInv
  /\ \A s \in Schedulers : HolderOK(s) /\ LeaseHeld(s)

\* The step of process s, if it does not acquire, either keeps its term or ends it.
LEMMA TermKept ==
  ASSUME LeaseIInv, NEW s \in Schedulers, NEW row \in ProcessRow,
         process' = [process EXCEPT ![s] = row],
         row.pc # "down" => row.holder \in HolderIds[s],
         row.pc \in {"load", "tick", "insert"} =>
           /\ process[s].pc \in {"load", "tick", "insert"}
           /\ row.now = process[s].now /\ row.holder = process[s].holder,
         UNCHANGED <<control_leases, clock>>
  PROVE  \A p \in Schedulers : HolderOK(p)' /\ LeaseHeld(p)'
<1> SUFFICES ASSUME NEW p \in Schedulers PROVE HolderOK(p)' /\ LeaseHeld(p)'
  OBVIOUS
<1>1. p # s => process'[p] = process[p]
  BY Types DEF LeaseIInv
<1>2. process'[s] = row
  BY Types DEF LeaseIInv
<1>3. HolderOK(p) /\ LeaseHeld(p)
  BY DEF LeaseIInv, HolderOK, LeaseHeld
<1>4. HolderOK(p)'
  BY <1>1, <1>2, <1>3 DEF HolderOK
<1>5. CASE p = s
  BY <1>2, <1>3, <1>4, <1>5 DEF LeaseHeld, InLease, Leading
<1>6. CASE p # s
  BY <1>1, <1>3, <1>4, <1>6 DEF LeaseHeld, InLease, Leading
<1> QED  BY <1>5, <1>6

LEMMA LeaseInit == Init => LeaseIInv
BY InitInv DEF Init, Stopped, LeaseIInv, HolderOK, LeaseHeld, InLease, Leading

\* A process takes the lease only when the term of every other one has ended.
LEMMA LeaseAcquired ==
  ASSUME LeaseIInv, DistinctHolders, NEW s \in Schedulers, BecomeLeader(s)
  PROVE  \A p \in Schedulers : HolderOK(p)' /\ LeaseHeld(p)'
<1> DEFINE row == [process[s] EXCEPT !.pc = "load"]
<1>1. process[s] \in ProcessRow /\ process \in [Schedulers -> ProcessRow]
  BY Types DEF LeaseIInv
<1>2. /\ row \in ProcessRow /\ row.pc = "load" /\ row.now = process[s].now
      /\ row.holder = process[s].holder
  BY <1>1, LoadRow
<1>3. process'[s] = row /\ \A p \in Schedulers : p # s => process'[p] = process[p]
  BY <1>1 DEF BecomeLeader
<1> HIDE DEF row
<1>4. process[s].pc = "elect" /\ process[s].holder \in HolderIds[s]
  BY DEF BecomeLeader, LeaseIInv, HolderOK
<1>5. /\ control_leases'["scheduler"].holder_id = process[s].holder
      /\ control_leases'["scheduler"].expires_at = process[s].now + LeaderTtl
  BY Types DEF LeaseIInv, BecomeLeader, Acquire
<1>6. HolderOK(s)' /\ LeaseHeld(s)'
  BY <1>2, <1>3, <1>4, <1>5 DEF HolderOK, LeaseHeld
<1>7. ASSUME NEW p \in Schedulers, p # s PROVE HolderOK(p)' /\ ~InLease(p)'
  <2>1. HolderOK(p)'
    BY <1>3, <1>7 DEF HolderOK, LeaseIInv
  <2>2. ASSUME InLease(p) PROVE FALSE
    <3>1. /\ control_leases["scheduler"].holder_id = process[p].holder
          /\ control_leases["scheduler"].expires_at = process[p].now + LeaderTtl
      BY <2>2 DEF LeaseIInv, LeaseHeld
    <3>2. process[p].holder \in HolderIds[p]
      BY <2>2 DEF LeaseIInv, HolderOK, InLease, Leading
    <3>3. process[p].holder # process[s].holder
      BY <1>4, <1>7, <3>2 DEF DistinctHolders
    <3>4. process[p].holder # None
      BY <3>2
    <3>5. process[p].now + LeaderTtl <= process[s].now
      BY <3>1, <3>3, <3>4 DEF BecomeLeader, Acquire, MayAcquire
    <3>6. /\ process[s].now <= clock /\ clock < process[p].now + LeaderTtl
          /\ process[s].now \in Nat /\ process[p].now \in Nat /\ clock \in Nat
      BY <2>2, Clocks DEF LeaseIInv, InLease
    <3> QED  BY <3>5, <3>6
  <2>3. InLease(p)' => InLease(p)
    BY <1>3, <1>7 DEF InLease, Leading, BecomeLeader
  <2> QED  BY <2>1, <2>2, <2>3
<1> QED  BY <1>6, <1>7 DEF LeaseHeld

LEMMA LeaseStep == LeaseIInv /\ DistinctHolders /\ [Next]_vars => LeaseIInv'
<1> SUFFICES ASSUME LeaseIInv, DistinctHolders, [Next]_vars
             PROVE  \A p \in Schedulers : HolderOK(p)' /\ LeaseHeld(p)'
  BY StepInv DEF LeaseIInv
<1>1. SchedulerIInv /\ \A s \in Schedulers : process[s] \in ProcessRow
  BY Types DEF LeaseIInv
<1>2. ASSUME UNCHANGED <<control_leases, process>>, clock' \in Nat, clock <= clock'
      PROVE  \A p \in Schedulers : HolderOK(p)' /\ LeaseHeld(p)'
  <2>1. \A s \in Schedulers : process[s].now \in Nat
    BY <1>1, Clocks
  <2> QED  BY <1>1, <1>2, <2>1, Clocks DEF LeaseIInv, HolderOK, LeaseHeld, InLease, Leading
<1>3. CASE (\E j \in Jobs, expr \in Schedules \cup {None} : RegisterDeploy(j, expr)) \/ UNCHANGED vars
  BY <1>1, <1>2, <1>3, Clocks DEF RegisterDeploy, vars
<1>4. CASE Advance
  BY <1>1, <1>2, <1>4, Clocks DEF Advance
<1>5. ASSUME NEW s \in Schedulers, Start(s)
      PROVE  \A p \in Schedulers : HolderOK(p)' /\ LeaseHeld(p)'
  <2>1. PICK holder \in HolderIds[s] :
          process' = [process EXCEPT ![s] = [Stopped EXCEPT !.pc = "loop", !.holder = holder]]
    BY <1>5 DEF Start
  <2>2. holder \in Holders
    OBVIOUS
  <2> DEFINE row == [Stopped EXCEPT !.pc = "loop", !.holder = holder]
  <2>3. row \in ProcessRow /\ row.pc = "loop" /\ row.holder = holder
    BY <2>2, StartRow
  <2>4. process' = [process EXCEPT ![s] = row]
    BY <2>1
  <2> HIDE DEF row
  <2> QED  BY <1>5, <2>3, <2>4, TermKept DEF Start
<1>6. ASSUME NEW s \in Schedulers, process' = [process EXCEPT ![s] = Stopped],
             UNCHANGED <<control_leases, clock>>
      PROVE  \A p \in Schedulers : HolderOK(p)' /\ LeaseHeld(p)'
  <2>1. Stopped \in ProcessRow /\ Stopped.pc = "down"
    BY TimesAreNat DEF Stopped, ProcessRow
  <2> QED  BY <1>6, <2>1, TermKept
<1>7. ASSUME NEW s \in Schedulers, StayFollower(s) \/ EndTick(s)
      PROVE  \A p \in Schedulers : HolderOK(p)' /\ LeaseHeld(p)'
  <2> DEFINE row == [process[s] EXCEPT !.pc = "loop", !.now = 0]
  <2>1. row \in ProcessRow /\ row.pc = "loop" /\ row.holder = process[s].holder
    BY <1>1, LoopRow
  <2>2. /\ process' = [process EXCEPT ![s] = row] /\ process[s].pc # "down"
        /\ UNCHANGED <<control_leases, clock>>
    BY <1>7 DEF StayFollower, EndTick
  <2> HIDE DEF row
  <2> QED  BY <2>1, <2>2, TermKept DEF LeaseIInv, HolderOK
<1>8. ASSUME NEW s \in Schedulers, ReadClock(s)
      PROVE  \A p \in Schedulers : HolderOK(p)' /\ LeaseHeld(p)'
  <2> DEFINE row == [process[s] EXCEPT !.pc = "elect", !.now = clock]
  <2>1. row \in ProcessRow /\ row.pc = "elect" /\ row.holder = process[s].holder
    <3>1. clock \in Times
      BY <1>1, Clocks
    <3> QED  BY <1>1, <3>1, ElectRow
  <2>2. /\ process' = [process EXCEPT ![s] = row] /\ process[s].pc # "down"
        /\ UNCHANGED <<control_leases, clock>>
    BY <1>8 DEF ReadClock
  <2> HIDE DEF row
  <2> QED  BY <2>1, <2>2, TermKept DEF LeaseIInv, HolderOK
<1>9. ASSUME NEW s \in Schedulers, NEW row \in ProcessRow,
             process' = [process EXCEPT ![s] = row], process[s].pc \in {"load", "tick", "insert"},
             row.now = process[s].now, row.holder = process[s].holder,
             UNCHANGED <<control_leases, clock>>
      PROVE  \A p \in Schedulers : HolderOK(p)' /\ LeaseHeld(p)'
  BY <1>9, TermKept DEF LeaseIInv, HolderOK
<1>10. ASSUME NEW s \in Schedulers, LoadJobs(s)
       PROVE  \A p \in Schedulers : HolderOK(p)' /\ LeaseHeld(p)'
  <2> DEFINE row == [process[s] EXCEPT !.pc = "tick", !.todo = ScheduledJobs]
  <2>1. row \in ProcessRow /\ row.now = process[s].now /\ row.holder = process[s].holder
    <3>1. ScheduledJobs \in SUBSET TodoRow
      BY <1>1, Types DEF ScheduledJobs, TodoRow, JobRow
    <3> QED  BY <1>1, <3>1, TickRow
  <2>2. /\ process' = [process EXCEPT ![s] = row] /\ process[s].pc = "load"
        /\ UNCHANGED <<control_leases, clock>>
    BY <1>10 DEF LoadJobs
  <2> HIDE DEF row
  <2> QED  BY <1>9, <2>1, <2>2
<1>11. ASSUME NEW s \in Schedulers, NEW todo \in SUBSET TodoRow, NEW job \in Jobs,
              NEW due \in SUBSET Times, process[s].pc \in {"tick", "insert"},
              process' = [process EXCEPT ![s] = Inserting(@, todo, job, due)],
              UNCHANGED <<control_leases, clock>>
       PROVE  \A p \in Schedulers : HolderOK(p)' /\ LeaseHeld(p)'
  <2> DEFINE row == Inserting(process[s], todo, job, due)
  <2>1. row \in ProcessRow /\ row.now = process[s].now /\ row.holder = process[s].holder
    BY <1>1, InsertingRow
  <2>2. process' = [process EXCEPT ![s] = row]
    BY <1>11
  <2> HIDE DEF row
  <2> QED  BY <1>9, <1>11, <2>1, <2>2
<1>12. ASSUME NEW s \in Schedulers, NextJob(s)
       PROVE  \A p \in Schedulers : HolderOK(p)' /\ LeaseHeld(p)'
  <2>1. PICK row \in process[s].todo :
          LET due == IF process[s].now < row.created_at THEN {}
                     ELSE DueTimes(row.expr, CatchUpBase(row), process[s].now)
          IN process' = [process EXCEPT ![s] = Inserting(@, @.todo \ {row}, row.job, due)]
    BY <1>12 DEF NextJob
  <2> DEFINE due == IF process[s].now < row.created_at THEN {}
                    ELSE DueTimes(row.expr, CatchUpBase(row), process[s].now)
             todo == process[s].todo \ {row}
  <2>2. row \in TodoRow /\ row.job \in Jobs /\ todo \in SUBSET TodoRow
    BY <1>1 DEF ProcessRow, TodoRow
  <2>3. due \in SUBSET Times
    <3>1. CatchUpBase(row) \in Nat
      <4>1. TypeOK
        BY <1>1 DEF SchedulerIInv
      <4> QED  BY <2>2, <4>1, TimesAreNat, BaseOfCatchUp
    <3> QED  BY <1>1, <3>1, Clocks, DueTimesBound
  <2>4. process' = [process EXCEPT ![s] = Inserting(@, todo, row.job, due)]
    BY <2>1
  <2>5. process[s].pc \in {"tick", "insert"} /\ UNCHANGED <<control_leases, clock>>
    BY <1>12 DEF NextJob
  <2> HIDE DEF due, todo
  <2> QED  BY <1>11, <2>2, <2>3, <2>4, <2>5
<1>13. ASSUME NEW s \in Schedulers, InsertRun(s)
       PROVE  \A p \in Schedulers : HolderOK(p)' /\ LeaseHeld(p)'
  <2> DEFINE due == process[s].due \ {NextDue(process[s].due)}
  <2>1. /\ process[s].pc = "insert" /\ UNCHANGED <<control_leases, clock>>
        /\ process' = [process EXCEPT ![s] = Inserting(@, @.todo, @.job, due)]
    BY <1>13 DEF InsertRun
  <2>2. /\ process[s].todo \in SUBSET TodoRow /\ process[s].job \in Jobs
        /\ due \in SUBSET Times
    BY <1>1, <2>1, ProcessInStep DEF ProcessRow, InStep
  <2> HIDE DEF due
  <2> QED  BY <1>11, <2>1, <2>2
<1>14. CASE \E s \in Schedulers : Start(s) \/ Loop(s) \/ Exit(s)
  <2>1. ASSUME NEW s \in Schedulers, TickFails(s) \/ Exit(s)
        PROVE  \A p \in Schedulers : HolderOK(p)' /\ LeaseHeld(p)'
    BY <1>6, <2>1 DEF Exit, TickFails
  <2>2. ASSUME NEW s \in Schedulers, BecomeLeader(s)
        PROVE  \A p \in Schedulers : HolderOK(p)' /\ LeaseHeld(p)'
    BY <2>2, LeaseAcquired
  <2> QED  BY <1>5, <1>7, <1>8, <1>10, <1>12, <1>13, <1>14, <2>1, <2>2 DEF Loop, Tick
<1> QED  BY <1>3, <1>4, <1>14 DEF Next

\* With leader_ids that are distinct (not the pid of a process in a container), no
\* two processes are inside the term of the scheduler lease, however old the clock
\* values they acquire it with.
THEOREM OneLeaderAtATime == ASSUME DistinctHolders PROVE Spec => []LeadersExclude
<1>1. LeaseIInv => LeadersExclude
  <2> SUFFICES ASSUME LeaseIInv, NEW s \in Schedulers, NEW t \in Schedulers, InLease(s), InLease(t)
               PROVE  process[s].holder = process[t].holder
    BY DEF LeadersExclude
  <2>1. \A p \in Schedulers :
          InLease(p) => control_leases["scheduler"].holder_id = process[p].holder
    BY DEF LeaseIInv, LeaseHeld
  <2> QED  BY <2>1
<1>2. LeaseIInv /\ [Next]_vars => LeaseIInv'
  BY LeaseStep
<1> QED  BY <1>1, <1>2, LeaseInit, PTL DEF Spec

-------------------------------------------------------------------------------
(* The phase of an interval schedule *)

\* Multiplication distributes over a sum and a difference.
LEMMA Distributes ==
  ASSUME NEW d \in Int, NEW k \in Int, NEW m \in Int
  PROVE  d * (k - m) = d * k - d * m /\ d * (k + m) = d * k + d * m /\ d * k \in Int
BY SMTT(30)

\* The quotient and the remainder of a number.
LEMMA QuotientAndRest ==
  ASSUME NEW d \in Nat \ {0}, NEW n \in Nat
  PROVE  n = d * (n \div d) + (n % d) /\ n \div d \in Nat /\ n % d \in 0 .. d - 1
OBVIOUS

\* No multiple of d but zero lies below d.
LEMMA NoMultipleBelow ==
  ASSUME NEW d \in Nat \ {0}, NEW k \in Int, d * k \in 0 .. d - 1
  PROVE  d * k = 0
<1>1. k <= 0 => d * k <= 0
  BY SMTT(30)
<1>2. k >= 1 => d * k >= d
  BY SMTT(30)
<1> QED  BY <1>1, <1>2

\* The multiples of d are the numbers that leave no rest.
LEMMA MultipleHasNoRest ==
  ASSUME NEW d \in Nat \ {0}, NEW k \in Nat
  PROVE  (d * k) % d = 0
<1> DEFINE n == d * k
           q == n \div d
           r == n % d
<1>1. n \in Nat
  BY SMTT(30)
<1>2. n = d * q + r /\ q \in Nat /\ r \in 0 .. d - 1
  BY <1>1, QuotientAndRest
<1> HIDE DEF q, r
<1>3. d * (k - q) = d * k - d * q /\ d * q \in Int
  BY <1>2, Distributes
<1>4. d * (k - q) = r
  BY <1>1, <1>2, <1>3
<1>5. r = 0
  BY <1>2, <1>4, NoMultipleBelow
<1> QED  BY <1>5 DEF r

LEMMA MultipleOfQuotient ==
  ASSUME NEW d \in Nat \ {0}, NEW n \in Nat, n % d = 0
  PROVE  \E k \in Nat : n = d * k
<1>1. n = d * (n \div d) /\ n \div d \in Nat
  BY QuotientAndRest
<1> QED  BY <1>1, Zenon

\* The sum of two multiples is one.
LEMMA MultiplesAdd ==
  ASSUME NEW d \in Nat \ {0}, NEW m \in Nat, NEW n \in Nat, m % d = 0, n % d = 0
  PROVE  (m + n) % d = 0
<1>1. PICK p \in Nat : m = d * p
  BY MultipleOfQuotient
<1>2. PICK q \in Nat : n = d * q
  BY MultipleOfQuotient
<1>3. m + n = d * (p + q) /\ p + q \in Nat
  BY <1>1, <1>2, Distributes
<1>4. (d * (p + q)) % d = 0
  BY <1>3, MultipleHasNoRest
<1> QED  BY <1>3, <1>4, Zenon

\* The multiple before a positive one.
LEMMA MultipleBefore ==
  ASSUME NEW d \in Nat \ {0}, NEW n \in Nat, n % d = 0, n > 0
  PROVE  n - d \in Nat /\ (n - d) % d = 0
<1>1. PICK k \in Nat : n = d * k
  BY MultipleOfQuotient
<1>2. n >= d
  OBVIOUS
<1>3. k - 1 \in Nat
  <2>1. k # 0
    BY <1>1
  <2> QED  BY <2>1
<1>4. d * (k - 1) = n - d
  <2>1. d * (k - 1) = d * k - d * 1 /\ d * 1 = d
    BY Distributes
  <2> QED  BY <1>1, <2>1
<1>5. (d * (k - 1)) % d = 0
  BY <1>3, MultipleHasNoRest
<1>6. (n - d) % d = 0
  BY <1>4, <1>5, Zenon
<1> QED  BY <1>2, <1>6

\* Job j has been deployed once, with an interval.
FixedInterval(j) ==
  /\ jobs[j].schedule # None
  /\ jobs[j].schedule.kind = "interval"
  /\ jobs[j].created_at = jobs[j].updated_at

InPhase(j, t) ==
  /\ t > jobs[j].created_at
  /\ (t - jobs[j].created_at) % jobs[j].schedule.every = 0

\* The time one interval before a fire time of job j.
Before(j, t) == t - jobs[j].schedule.every

Follows(j, t) ==
  \/ Before(j, t) = jobs[j].created_at
  \/ Before(j, t) \in Times /\ scheduled[j][Before(j, t)] > 0

\* What a process has read of a job that is deployed once is its row.
TodoExact(s) ==
  \A row \in process[s].todo :
    jobs[row.job].created_at = jobs[row.job].updated_at => row.expr = jobs[row.job].schedule

\* The fire times a process is to insert are in phase, and each of them has the
\* one before it in the table or among those to insert.
DueInPhase(s) ==
  process[s].pc = "insert" /\ FixedInterval(process[s].job) =>
    \A t \in process[s].due :
      /\ InPhase(process[s].job, t)
      /\ Follows(process[s].job, t) \/ Before(process[s].job, t) \in process[s].due

\* A process inserts runs of jobs that have a row, and a job without one has none.
InsertsDeployed(s) == process[s].pc = "insert" => jobs[process[s].job].updated_at > 0

NoRunBeforeDeploy == \A j \in Jobs : jobs[j].updated_at = 0 => \A t \in Times : ~(scheduled[j][t] > 0)

RunsInPhase ==
  \A j \in Jobs, t \in Times :
    FixedInterval(j) /\ scheduled[j][t] > 0 => InPhase(j, t) /\ Follows(j, t)

PhaseOK(s) == TodoExact(s) /\ DueInPhase(s) /\ InsertsDeployed(s)

PhaseIInv ==
  /\ SchedulerIInv
  /\ \A s \in Schedulers : PhaseOK(s)
  /\ NoRunBeforeDeploy
  /\ RunsInPhase

LEMMA PhaseInit == Init => PhaseIInv
<1> SUFFICES ASSUME Init PROVE PhaseIInv
  OBVIOUS
<1>1. \A s \in Schedulers : process[s].pc = "down" /\ process[s].todo = {}
  BY DEF Init, Stopped
<1>2. \A j \in Jobs, t \in Times : ~(scheduled[j][t] > 0)
  BY DEF Init
<1>3. \A s \in Schedulers : PhaseOK(s)
  BY <1>1 DEF PhaseOK, TodoExact, DueInPhase, InsertsDeployed
<1>4. NoRunBeforeDeploy /\ RunsInPhase
  BY <1>2 DEF NoRunBeforeDeploy, RunsInPhase
<1> QED  BY <1>3, <1>4, InitInv DEF PhaseIInv

\* An interval has a positive length, and jobs have times that are numbers.
LEMMA IntervalNumbers ==
  ASSUME SchedulerIInv, NEW j \in Jobs
  PROVE  /\ jobs[j].created_at \in Nat /\ jobs[j].updated_at \in Nat
         /\ jobs[j].created_at \in Times
         /\ jobs[j].schedule # None => jobs[j].schedule.every \in Nat \ {0}
                                       /\ jobs[j].updated_at > 0
<1>1. jobs[j] \in JobRow
  BY Types
<1>2. jobs[j].schedule # None => jobs[j].updated_at > 0
  BY DEF SchedulerIInv, JobTimes
<1> QED  BY <1>1, <1>2, TimesAreNat DEF JobRow

\* A process that a step does not move is in phase after it, if runs are only added.
LEMMA OtherInPhase ==
  ASSUME SchedulerIInv, NEW s \in Schedulers, PhaseOK(s),
         process'[s] = process[s], jobs' = jobs,
         \A j \in Jobs, t \in Times : scheduled[j][t] > 0 => scheduled'[j][t] > 0
  PROVE  PhaseOK(s)'
<1>1. TodoExact(s)' /\ InsertsDeployed(s)'
  BY DEF PhaseOK, TodoExact, InsertsDeployed
<1>2. process[s].pc = "insert" => process[s].job \in Jobs
  BY Types, ProcessInStep DEF ProcessRow, InStep
<1>3. \A j \in Jobs : \A t : Follows(j, t) => Follows(j, t)'
  BY DEF Follows, Before
<1>4. \A j, t : InPhase(j, t)' = InPhase(j, t) /\ Before(j, t)' = Before(j, t)
  BY DEF InPhase, Before
<1>5. \A j : FixedInterval(j)' = FixedInterval(j)
  BY DEF FixedInterval
<1>6. DueInPhase(s)'
  <2> SUFFICES ASSUME process[s].pc = "insert", FixedInterval(process[s].job),
                      NEW t \in process[s].due
               PROVE  /\ InPhase(process[s].job, t)
                      /\ Follows(process[s].job, t)' \/ Before(process[s].job, t) \in process[s].due
    BY <1>4, <1>5 DEF DueInPhase
  <2>1. /\ InPhase(process[s].job, t)
        /\ Follows(process[s].job, t) \/ Before(process[s].job, t) \in process[s].due
    BY DEF PhaseOK, DueInPhase
  <2> QED  BY <1>2, <1>3, <2>1
<1> QED  BY <1>1, <1>6 DEF PhaseOK

\* So is a process that is not in a tick.
LEMMA QuietInPhase ==
  ASSUME NEW row, InStep(row), row.pc \notin {"tick", "insert"},
         NEW s \in Schedulers, process'[s] = row
  PROVE  PhaseOK(s)'
BY DEF InStep, PhaseOK, TodoExact, DueInPhase, InsertsDeployed

\* A step that leaves the jobs and the runs alone and moves no process but s.
LEMMA MovedInPhase ==
  ASSUME PhaseIInv, SchedulerIInv', NEW s \in Schedulers, PhaseOK(s)',
         \A p \in Schedulers : p # s => process'[p] = process[p],
         UNCHANGED <<jobs, scheduled>>
  PROVE  PhaseIInv'
<1>1. ASSUME NEW p \in Schedulers PROVE PhaseOK(p)'
  <2>1. p # s => PhaseOK(p)'
    BY OtherInPhase DEF PhaseIInv
  <2> QED  BY <2>1
<1>2. NoRunBeforeDeploy' /\ RunsInPhase'
  BY DEF PhaseIInv, NoRunBeforeDeploy, RunsInPhase, FixedInterval, InPhase, Follows, Before
<1> QED  BY <1>1, <1>2 DEF PhaseIInv

\* From one time to the other it is a whole number of intervals.
Apart(every, from, to) == from <= to /\ (to - from) % every = 0

\* A time due after a base that is in phase is in phase, and so is the time one
\* interval before it.
LEMMA DueFollowsBase ==
  ASSUME NEW every \in Nat \ {0}, NEW created \in Nat, NEW base \in Nat, NEW t \in Nat,
         Apart(every, created, base), Apart(every, base, t), base < t
  PROVE  /\ Apart(every, created, t) /\ created < t
         /\ Apart(every, base, t - every) /\ t - every \in Nat /\ t - every < t
<1>1. base - created \in Nat /\ t - base \in Nat /\ t - base > 0
  BY DEF Apart
<1>2. (base - created) % every = 0 /\ (t - base) % every = 0
  BY DEF Apart
<1>3. ((base - created) + (t - base)) % every = 0
  BY <1>1, <1>2, MultiplesAdd
<1>4. (t - base) - every \in Nat /\ ((t - base) - every) % every = 0
  BY <1>1, <1>2, MultipleBefore
<1>5. (base - created) + (t - base) = t - created /\ (t - base) - every = t - every - base
  OBVIOUS
<1>6. (t - created) % every = 0 /\ (t - every - base) % every = 0
  BY <1>3, <1>4, <1>5, Zenon
<1>7. created < t /\ t - every \in Nat /\ base <= t - every /\ t - every < t
  BY <1>1, <1>4
<1>8. created <= t
  BY <1>7
<1> QED  BY <1>6, <1>7, <1>8 DEF Apart

\* The fire times computed from what was read of a job deployed once are in phase,
\* and each has the one before it in the table or among them.
LEMMA NextInPhase ==
  ASSUME PhaseIInv, NEW s \in Schedulers, NEW row \in process[s].todo,
         FixedInterval(row.job),
         NEW t \in DueTimes(row.expr, CatchUpBase(row), process[s].now)
  PROVE  /\ InPhase(row.job, t)
         /\ \/ Follows(row.job, t)
            \/ Before(row.job, t) \in DueTimes(row.expr, CatchUpBase(row), process[s].now)
<1> DEFINE base == CatchUpBase(row)
           now == process[s].now
           created == jobs[row.job].created_at
           every == jobs[row.job].schedule.every
<1>1. SchedulerIInv /\ PhaseOK(s) /\ RunsInPhase
  BY DEF PhaseIInv
<1>2. row \in TodoRow /\ row.job \in Jobs
  BY <1>1, Types DEF ProcessRow, TodoRow
<1>3. row.expr = jobs[row.job].schedule /\ row.created_at = created
  BY <1>1, ProcessInStep DEF PhaseOK, TodoExact, FixedInterval, TodoHolds
<1>4. base \in Times /\ (base = created \/ scheduled[row.job][base] > 0)
  <2>1. TypeOK
    BY <1>1 DEF SchedulerIInv
  <2> QED  BY <1>2, <1>3, <2>1, BaseOfCatchUp
<1>5. created \in Nat /\ created \in Times /\ every \in Nat \ {0} /\ base \in Nat
  BY <1>1, <1>2, <1>4, IntervalNumbers, TimesAreNat DEF FixedInterval
<1>6. now \in Times /\ now \in Nat
  BY <1>1, Clocks
<1>7. t \in base + 1 .. now /\ (t - base) % every = 0
  BY <1>3 DEF DueTimes, FixedInterval
<1>8. Apart(every, created, base)
  <2>1. CASE base = created
    <3>1. base - created = 0 /\ 0 % every = 0 /\ created <= base
      BY <1>5, <2>1
    <3> QED  BY <3>1 DEF Apart
  <2>2. CASE scheduled[row.job][base] > 0
    <3>1. InPhase(row.job, base)
      BY <1>1, <1>2, <1>4, <2>2 DEF RunsInPhase
    <3>2. created <= base
      BY <1>5, <3>1 DEF InPhase
    <3> QED  BY <3>1, <3>2 DEF InPhase, Apart
  <2> QED  BY <1>4, <2>1, <2>2
<1>9. Before(row.job, t) = t - every
  BY DEF Before
<1> HIDE DEF base, now, every, created
<1>10. t \in Nat /\ base < t /\ t <= now
  BY <1>5, <1>6, <1>7
<1>11. Apart(every, base, t)
  BY <1>5, <1>7, <1>10 DEF Apart
<1>12. /\ Apart(every, created, t) /\ created < t
       /\ Apart(every, base, t - every) /\ t - every \in Nat /\ t - every < t
  BY <1>5, <1>8, <1>10, <1>11, DueFollowsBase
<1>13. InPhase(row.job, t)
  BY <1>5, <1>10, <1>12 DEF InPhase, Apart, every, created
<1>14. CASE t - every = base
  BY <1>4, <1>9, <1>13, <1>14 DEF Follows, created
<1>15. CASE t - every # base
  <2>1. base <= t - every /\ (t - every - base) % every = 0
    BY <1>12 DEF Apart
  <2>2. t - every \in base + 1 .. now
    BY <1>5, <1>6, <1>10, <1>12, <1>15, <2>1
  <2>3. t - every \in DueTimes(row.expr, base, now)
    BY <1>3, <2>1, <2>2 DEF DueTimes, FixedInterval, every
  <2> QED  BY <1>9, <1>13, <2>3 DEF base, now
<1> QED  BY <1>13, <1>14, <1>15

LEMMA NextJobInPhase ==
  ASSUME PhaseIInv, NEW s \in Schedulers, NextJob(s)
  PROVE  PhaseIInv'
<1>0. SchedulerIInv /\ PhaseOK(s) /\ SchedulerIInv'
  BY NextJobInv DEF PhaseIInv
<1>1. PICK row \in process[s].todo :
        LET due == IF process[s].now < row.created_at THEN {}
                   ELSE DueTimes(row.expr, CatchUpBase(row), process[s].now)
        IN process' = [process EXCEPT ![s] = Inserting(@, @.todo \ {row}, row.job, due)]
  BY DEF NextJob
<1> DEFINE due == IF process[s].now < row.created_at THEN {}
                  ELSE DueTimes(row.expr, CatchUpBase(row), process[s].now)
           next == Inserting(process[s], process[s].todo \ {row}, row.job, due)
<1>2. /\ row \in TodoRow /\ row.job \in Jobs /\ process[s] \in ProcessRow
      /\ process[s].todo \ {row} \in SUBSET TodoRow
  BY <1>0, Types DEF ProcessRow, TodoRow
<1>3. due \in SUBSET Times
  <2>1. CatchUpBase(row) \in Nat
    <3>1. TypeOK
      BY <1>0 DEF SchedulerIInv
    <3> QED  BY <1>2, <3>1, TimesAreNat, BaseOfCatchUp
  <2> QED  BY <1>0, <2>1, Clocks, DueTimesBound
<1>4. FixedInterval(row.job) =>
        \A t \in due : /\ InPhase(row.job, t)
                       /\ Follows(row.job, t) \/ Before(row.job, t) \in due
  BY NextInPhase
<1>5. /\ process' = [process EXCEPT ![s] = next] /\ process'[s] = next
      /\ \A p \in Schedulers : p # s => process'[p] = process[p]
  BY <1>0, <1>1, Types
<1> HIDE DEF due
<1>6. /\ next.due = due /\ next.todo = process[s].todo \ {row}
      /\ next.pc = "insert" => next.job = row.job
  BY <1>2, <1>3, InsertingRow
<1> HIDE DEF next
<1>7. UNCHANGED <<control_leases, clock, jobs, scheduled, exits>>
  BY DEF NextJob
<1>8. TodoExact(s)'
  BY <1>0, <1>5, <1>6, <1>7 DEF PhaseOK, TodoExact
<1>9. InsertsDeployed(s)'
  BY <1>0, <1>5, <1>6, <1>7, ProcessInStep DEF InsertsDeployed, TodoHolds
<1>10. DueInPhase(s)'
  <2>1. /\ FixedInterval(row.job)' = FixedInterval(row.job)
        /\ \A t : /\ InPhase(row.job, t)' = InPhase(row.job, t)
                  /\ Follows(row.job, t)' = Follows(row.job, t)
                  /\ Before(row.job, t)' = Before(row.job, t)
    BY <1>7 DEF FixedInterval, InPhase, Follows, Before
  <2> QED  BY <1>4, <1>5, <1>6, <2>1 DEF DueInPhase
<1> QED  BY <1>0, <1>5, <1>7, <1>8, <1>9, <1>10, MovedInPhase DEF PhaseOK

LEMMA LoadJobsInPhase ==
  ASSUME PhaseIInv, NEW s \in Schedulers, LoadJobs(s)
  PROVE  PhaseIInv'
<1>0. SchedulerIInv /\ SchedulerIInv'
  BY LoadJobsInv DEF PhaseIInv
<1> DEFINE next == [process[s] EXCEPT !.pc = "tick", !.todo = ScheduledJobs]
<1>1. /\ process'[s] = next /\ UNCHANGED <<jobs, scheduled>>
      /\ \A p \in Schedulers : p # s => process'[p] = process[p]
  BY <1>0, Types DEF LoadJobs
<1>2. next.pc = "tick" /\ next.todo = ScheduledJobs
  <2>1. process[s] \in ProcessRow
    BY <1>0, Types
  <2>2. ScheduledJobs \in SUBSET TodoRow
    BY <1>0, Types DEF ScheduledJobs, TodoRow, JobRow
  <2> QED  BY <2>1, <2>2, TickRow
<1> HIDE DEF next
<1>3. PhaseOK(s)'
  BY <1>1, <1>2 DEF PhaseOK, TodoExact, DueInPhase, InsertsDeployed, ScheduledJobs
<1> QED  BY <1>0, <1>1, <1>3, MovedInPhase

\* The earliest of the fire times left goes in, so the one before it has its run.
LEMMA InsertRunInPhase ==
  ASSUME PhaseIInv, NEW s \in Schedulers, InsertRun(s)
  PROVE  PhaseIInv'
<1>0. /\ SchedulerIInv /\ SchedulerIInv' /\ PhaseOK(s) /\ NoRunBeforeDeploy /\ RunsInPhase
      /\ \A p \in Schedulers : PhaseOK(p)
  BY InsertRunInv DEF PhaseIInv
<1>1. process[s] \in ProcessRow /\ process[s].pc = "insert"
  BY <1>0, Types DEF InsertRun
<1>2. PICK j \in Jobs : j = process[s].job
  BY <1>0, <1>1, ProcessInStep DEF InStep, ProcessRow
<1>3. PICK t \in Times : /\ t = NextDue(process[s].due)
                         /\ t \in process[s].due
                         /\ \A u \in process[s].due : t <= u
  <2>1. process[s].due # {} /\ process[s].due \in SUBSET Times
    BY <1>0, <1>1, ProcessInStep DEF InStep, ProcessRow
  <2> QED  BY <2>1, TimesAreNat, MinIsLeast DEF NextDue
<1>4. PICK left \in SUBSET Times : left = process[s].due \ {t}
  BY <1>1 DEF ProcessRow
<1> DEFINE next == Inserting(process[s], process[s].todo, j, left)
<1>5. scheduled' = [scheduled EXCEPT ![j][t] = Inserted(@)] /\ jobs' = jobs
  BY <1>2, <1>3 DEF InsertRun
<1>6. /\ process'[s] = next
      /\ \A p \in Schedulers : p # s => process'[p] = process[p]
  BY <1>0, <1>2, <1>3, <1>4, Types DEF InsertRun
<1>7. /\ next.due = left /\ next.todo = process[s].todo
      /\ next.pc = "insert" => next.job = j
  <2>1. process[s].todo \in SUBSET TodoRow
    BY <1>1 DEF ProcessRow
  <2> QED  BY <1>1, <2>1, InsertingRow
<1> HIDE DEF next
<1>8. /\ scheduled'[j][t] > 0
      /\ \A i \in Jobs, u \in Times :
           <<i, u>> # <<j, t>> => scheduled'[i][u] = scheduled[i][u]
  <2>1. Inserted(scheduled[j][t]) > 0
    BY <1>0, <1>2, <1>3, InsertedThere
  <2> QED  BY <1>0, <1>2, <1>3, <1>5, <2>1, Types
<1>9. \A i \in Jobs, u \in Times : scheduled[i][u] > 0 => scheduled'[i][u] > 0
  BY <1>2, <1>3, <1>8
<1>10. /\ \A i : FixedInterval(i)' = FixedInterval(i)
       /\ \A i, u : InPhase(i, u)' = InPhase(i, u) /\ Before(i, u)' = Before(i, u)
       /\ \A i \in Jobs : \A u : Follows(i, u) => Follows(i, u)'
  BY <1>5, <1>9 DEF FixedInterval, InPhase, Follows, Before
<1>11. ASSUME FixedInterval(j), NEW u \in process[s].due
       PROVE  InPhase(j, u) /\ (Follows(j, u) \/ Before(j, u) \in process[s].due)
  BY <1>0, <1>1, <1>2, <1>11 DEF PhaseOK, DueInPhase
<1>12. PhaseOK(s)'
  <2>1. TodoExact(s)'
    BY <1>0, <1>5, <1>6, <1>7 DEF PhaseOK, TodoExact
  <2>2. InsertsDeployed(s)'
    BY <1>0, <1>1, <1>2, <1>5, <1>6, <1>7 DEF PhaseOK, InsertsDeployed
  <2>3. ASSUME next.pc = "insert", FixedInterval(j), NEW u \in left
        PROVE  InPhase(j, u) /\ (Follows(j, u)' \/ Before(j, u) \in left)
    <3>1. InPhase(j, u) /\ (Follows(j, u) \/ Before(j, u) \in process[s].due)
      BY <1>4, <1>11, <2>3
    <3>2. CASE Before(j, u) = t
      BY <1>3, <1>8, <1>10, <3>1, <3>2 DEF Follows
    <3>3. CASE Before(j, u) # t
      BY <1>4, <1>10, <3>1, <3>3
    <3> QED  BY <3>2, <3>3
  <2>4. DueInPhase(s)'
    BY <1>6, <1>7, <1>10, <2>3 DEF DueInPhase
  <2> QED  BY <2>1, <2>2, <2>4 DEF PhaseOK
<1>13. ASSUME NEW p \in Schedulers PROVE PhaseOK(p)'
  <2>1. p # s => PhaseOK(p)'
    BY <1>0, <1>5, <1>6, <1>9, OtherInPhase
  <2> QED  BY <1>12, <2>1
<1>14. NoRunBeforeDeploy'
  <2>1. jobs[j].updated_at > 0
    BY <1>0, <1>1, <1>2 DEF PhaseOK, InsertsDeployed
  <2>2. ASSUME NEW i \in Jobs, jobs[i].updated_at = 0, NEW u \in Times
        PROVE  ~(scheduled'[i][u] > 0)
    <3>1. i # j
      BY <2>1, <2>2
    <3> QED  BY <1>0, <1>8, <2>2, <3>1 DEF NoRunBeforeDeploy
  <2> QED  BY <1>5, <2>2 DEF NoRunBeforeDeploy
<1>15. RunsInPhase'
  <2> SUFFICES ASSUME NEW i \in Jobs, NEW u \in Times,
                      FixedInterval(i), scheduled'[i][u] > 0
               PROVE  InPhase(i, u) /\ Follows(i, u)'
    BY <1>10 DEF RunsInPhase
  <2>1. CASE scheduled[i][u] > 0
    BY <1>0, <1>10, <2>1 DEF RunsInPhase
  <2>2. CASE ~(scheduled[i][u] > 0)
    <3>1. i = j /\ u = t
      BY <1>8, <2>2
    <3>2. InPhase(j, t) /\ (Follows(j, t) \/ Before(j, t) \in process[s].due)
      BY <1>3, <1>11, <3>1
    <3>3. Before(j, t) \notin process[s].due
      <4>1. jobs[j].schedule.every \in Nat \ {0} /\ t \in Nat
        BY <1>0, <1>2, <1>3, <3>1, IntervalNumbers, TimesAreNat DEF FixedInterval
      <4>2. ~(t <= Before(j, t))
        BY <4>1 DEF Before
      <4> QED  BY <1>3, <4>2
    <3> QED  BY <1>2, <1>10, <3>1, <3>2, <3>3
  <2> QED  BY <2>1, <2>2
<1> QED  BY <1>0, <1>13, <1>14, <1>15 DEF PhaseIInv

\* Only its first deploy leaves a job deployed once, and then nothing has been read
\* of it and no run of it inserted.
LEMMA RegisterDeployInPhase ==
  ASSUME PhaseIInv, NEW j \in Jobs, NEW expr \in Schedules \cup {None}, RegisterDeploy(j, expr)
  PROVE  PhaseIInv'
<1>0. /\ SchedulerIInv /\ SchedulerIInv' /\ NoRunBeforeDeploy /\ RunsInPhase
      /\ \A p \in Schedulers : PhaseOK(p)
  BY RegisterDeployInv DEF PhaseIInv
<1> DEFINE created == IF jobs[j].updated_at = 0 THEN clock ELSE jobs[j].created_at
           row == [schedule |-> expr, updated_at |-> clock, created_at |-> created]
<1>1. jobs' = [jobs EXCEPT ![j] = row] /\ clock > 0 /\ jobs[j].updated_at < clock
  BY <1>0, Clocks DEF RegisterDeploy
<1>2. UNCHANGED <<scheduled, process>>
  BY DEF RegisterDeploy
<1>3. jobs'[j] = row /\ \A i \in Jobs : i # j => jobs'[i] = jobs[i]
  BY <1>0, <1>1, Types
<1>4. jobs'[j].created_at = jobs'[j].updated_at => jobs[j].updated_at = 0
  <2>1. /\ jobs[j].created_at \in Nat /\ jobs[j].updated_at \in Nat
        /\ jobs[j].created_at <= jobs[j].updated_at /\ clock \in Nat
    BY <1>0, IntervalNumbers, Clocks DEF SchedulerIInv, JobTimes
  <2> QED  BY <1>1, <1>3, <2>1
<1>5. jobs'[j].updated_at > 0
  BY <1>1, <1>3
<1> HIDE DEF row, created
<1>6. \A i \in Jobs : i # j => /\ FixedInterval(i)' = FixedInterval(i)
                               /\ \A t : /\ InPhase(i, t)' = InPhase(i, t)
                                         /\ Before(i, t)' = Before(i, t)
                                         /\ Follows(i, t)' = Follows(i, t)
  BY <1>2, <1>3 DEF FixedInterval, InPhase, Before, Follows
<1>7. FixedInterval(j)' => jobs[j].updated_at = 0
  BY <1>4 DEF FixedInterval
<1>8. ASSUME NEW s \in Schedulers PROVE PhaseOK(s)'
  <2>1. TodoExact(s)'
    <3> SUFFICES ASSUME NEW todo \in process[s].todo,
                        jobs'[todo.job].created_at = jobs'[todo.job].updated_at
                 PROVE  todo.expr = jobs'[todo.job].schedule
      BY <1>2 DEF TodoExact
    <3>1. todo.job \in Jobs /\ jobs[todo.job].updated_at > 0
      BY <1>0, Types, ProcessInStep DEF ProcessRow, TodoRow, TodoHolds
    <3>2. todo.job # j
      BY <1>4, <3>1
    <3> QED  BY <1>0, <1>3, <3>1, <3>2 DEF PhaseOK, TodoExact
  <2>2. process[s].pc = "insert" => process[s].job \in Jobs /\ jobs[process[s].job].updated_at > 0
    BY <1>0, Types, ProcessInStep DEF ProcessRow, InStep, PhaseOK, InsertsDeployed
  <2>3. InsertsDeployed(s)'
    BY <1>2, <1>3, <1>5, <2>2 DEF InsertsDeployed
  <2>4. DueInPhase(s)'
    <3> SUFFICES ASSUME process[s].pc = "insert", FixedInterval(process[s].job)'
                 PROVE  \A t \in process[s].due :
                          /\ InPhase(process[s].job, t)'
                          /\ \/ Follows(process[s].job, t)'
                             \/ Before(process[s].job, t)' \in process[s].due
      BY <1>2 DEF DueInPhase
    <3>1. process[s].job \in Jobs /\ process[s].job # j
      BY <1>2, <1>7, <2>2
    <3>2. FixedInterval(process[s].job)
      BY <1>2, <1>6, <3>1
    <3> QED  BY <1>0, <1>2, <1>6, <3>1, <3>2 DEF PhaseOK, DueInPhase
  <2> QED  BY <2>1, <2>3, <2>4 DEF PhaseOK
<1>9. NoRunBeforeDeploy'
  BY <1>0, <1>2, <1>3, <1>5 DEF NoRunBeforeDeploy
<1>10. RunsInPhase'
  <2> SUFFICES ASSUME NEW i \in Jobs, NEW t \in Times, FixedInterval(i)', scheduled[i][t] > 0
               PROVE  InPhase(i, t)' /\ Follows(i, t)'
    BY <1>2 DEF RunsInPhase
  <2>1. i # j
    BY <1>0, <1>7 DEF NoRunBeforeDeploy
  <2> QED  BY <1>0, <1>6, <2>1 DEF RunsInPhase
<1> QED  BY <1>0, <1>8, <1>9, <1>10 DEF PhaseIInv

\* The steps of a process that are no part of a tick, or end it.
QuietStep(s) ==
  \/ Start(s) \/ ReadClock(s) \/ BecomeLeader(s) \/ StayFollower(s)
  \/ TickFails(s) \/ EndTick(s) \/ Exit(s)

LEMMA QuietStepMoves ==
  ASSUME SchedulerIInv, NEW s \in Schedulers, QuietStep(s)
  PROVE  /\ process'[s].pc \notin {"tick", "insert"} /\ UNCHANGED <<jobs, scheduled>>
         /\ \A p \in Schedulers : p # s => process'[p] = process[p]
<1>1. process \in [Schedulers -> ProcessRow]
  BY Types
<1>2. CASE TickFails(s) \/ Exit(s)
  BY <1>1, <1>2 DEF TickFails, Exit, Stopped
<1>3. CASE Start(s)
  <2>1. PICK holder \in HolderIds[s] :
          process' = [process EXCEPT ![s] = [Stopped EXCEPT !.pc = "loop", !.holder = holder]]
    BY <1>3 DEF Start
  <2>2. process'[s].pc = "loop"
    BY <1>1, <2>1 DEF Stopped
  <2> QED  BY <1>1, <1>3, <2>1, <2>2 DEF Start
<1>4. CASE StayFollower(s) \/ EndTick(s)
  <2> DEFINE row == [process[s] EXCEPT !.pc = "loop", !.now = 0]
  <2>1. process' = [process EXCEPT ![s] = row] /\ UNCHANGED <<jobs, scheduled>>
    BY <1>4 DEF StayFollower, EndTick
  <2>2. row.pc = "loop"
    BY <1>1, LoopRow
  <2> HIDE DEF row
  <2> QED  BY <1>1, <2>1, <2>2
<1>5. CASE ReadClock(s)
  <2>1. process'[s].pc = "elect"
    BY <1>1, <1>5 DEF ReadClock, ProcessRow
  <2> QED  BY <1>1, <1>5, <2>1 DEF ReadClock
<1>6. CASE BecomeLeader(s)
  <2>1. process'[s].pc = "load"
    BY <1>1, <1>6 DEF BecomeLeader, ProcessRow
  <2> QED  BY <1>1, <1>6, <2>1 DEF BecomeLeader
<1> QED  BY <1>2, <1>3, <1>4, <1>5, <1>6 DEF QuietStep

LEMMA PhaseStep == PhaseIInv /\ [Next]_vars => PhaseIInv'
<1> SUFFICES ASSUME PhaseIInv, [Next]_vars PROVE PhaseIInv'
  OBVIOUS
<1>1. SchedulerIInv /\ SchedulerIInv'
  BY StepInv DEF PhaseIInv
<1>2. CASE \E j \in Jobs, expr \in Schedules \cup {None} : RegisterDeploy(j, expr)
  BY <1>2, RegisterDeployInPhase
<1>3. ASSUME NEW s \in Schedulers, QuietStep(s) PROVE PhaseIInv'
  <2>1. /\ process'[s].pc \notin {"tick", "insert"} /\ UNCHANGED <<jobs, scheduled>>
        /\ \A p \in Schedulers : p # s => process'[p] = process[p]
    BY <1>1, <1>3, QuietStepMoves
  <2>2. PhaseOK(s)'
    <3>1. InStep(process'[s])
      BY <1>1 DEF SchedulerIInv, TypeOK
    <3> QED  BY <2>1, <3>1, QuietInPhase
  <2> QED  BY <1>1, <2>1, <2>2, MovedInPhase
<1>4. CASE \E s \in Schedulers : Start(s) \/ Loop(s) \/ Exit(s)
  BY <1>3, <1>4, LoadJobsInPhase, NextJobInPhase, InsertRunInPhase DEF Loop, Tick, QuietStep
<1>5. CASE Advance \/ UNCHANGED vars
  <2>1. UNCHANGED <<jobs, scheduled, process>>
    BY <1>5 DEF Advance, vars
  <2>2. \A s \in Schedulers : PhaseOK(s)'
    BY <1>1, <2>1, OtherInPhase DEF PhaseIInv
  <2>3. NoRunBeforeDeploy' /\ RunsInPhase'
    BY <2>1 DEF PhaseIInv, NoRunBeforeDeploy, RunsInPhase, FixedInterval, InPhase, Follows, Before
  <2> QED  BY <1>1, <2>2, <2>3 DEF PhaseIInv
<1> QED  BY <1>2, <1>4, <1>5 DEF Next

\* A job deployed once with an interval fires at its creation plus whole intervals,
\* and leaves none of them out, whatever ticks overlap, stop half-way or work with
\* an old read of the latest run (tick_schedules, recurring_due_times_ms).
THEOREM IntervalsKeepPhase == Spec => []IntervalKeepsPhase
<1>1. PhaseIInv => IntervalKeepsPhase
  <2> SUFFICES ASSUME PhaseIInv, NEW j \in Jobs, FixedInterval(j), NEW t \in Times,
                      scheduled[j][t] > 0
               PROVE  LET since == t - jobs[j].created_at
                          every == jobs[j].schedule.every
                      IN /\ since > 0 /\ since % every = 0
                         /\ since = every \/ scheduled[j][t - every] > 0
    BY DEF IntervalKeepsPhase, FixedInterval
  <2>1. InPhase(j, t) /\ Follows(j, t)
    BY DEF PhaseIInv, RunsInPhase
  <2>2. jobs[j].created_at \in Nat /\ jobs[j].schedule.every \in Nat /\ t \in Nat
    BY IntervalNumbers, TimesAreNat DEF PhaseIInv, FixedInterval
  <2>3. t - jobs[j].created_at > 0
    BY <2>1, <2>2 DEF InPhase
  <2>4. t - jobs[j].created_at = jobs[j].schedule.every \/ scheduled[j][t - jobs[j].schedule.every] > 0
    BY <2>1, <2>2 DEF Follows, Before
  <2> QED  BY <2>1, <2>3, <2>4 DEF InPhase
<1> QED  BY <1>1, PhaseInit, PhaseStep, PTL DEF Spec

-------------------------------------------------------------------------------
(* What a tick has done when it ends *)

\* Every fire time in force and due by the clock value of a tick has its run, is
\* about to be inserted, or belongs to a job the tick has still to come to.
TickCovers(s) ==
  process[s].pc \in {"tick", "insert"} =>
    \A j \in Jobs : \A t \in CronFires(j) : t <= process[s].now =>
      \/ scheduled[j][t] > 0
      \/ \E row \in process[s].todo : row.job = j
      \/ process[s].job = j /\ t \in process[s].due

CoverIInv == SchedulerIInv /\ \A s \in Schedulers : TickCovers(s)

LEMMA CoverInit == Init => CoverIInv
BY InitInv DEF Init, Stopped, CoverIInv, TickCovers

\* A step that moves another process and only adds runs takes nothing from a tick.
LEMMA OtherCovers ==
  ASSUME NEW s \in Schedulers, TickCovers(s), process'[s] = process[s], jobs' = jobs,
         \A j \in Jobs, t \in Times : scheduled[j][t] > 0 => scheduled'[j][t] > 0
  PROVE  TickCovers(s)'
<1>1. \A j : CronFires(j)' = CronFires(j) /\ CronFires(j) \subseteq Times
  BY DEF CronFires
<1> QED  BY <1>1 DEF TickCovers

LEMMA MovedCovers ==
  ASSUME CoverIInv, SchedulerIInv', NEW s \in Schedulers, TickCovers(s)',
         \A p \in Schedulers : p # s => process'[p] = process[p],
         UNCHANGED <<jobs, scheduled>>
  PROVE  CoverIInv'
<1>1. ASSUME NEW p \in Schedulers PROVE TickCovers(p)'
  <2>1. p # s => TickCovers(p)'
    BY OtherCovers DEF CoverIInv
  <2> QED  BY <2>1
<1> QED  BY <1>1 DEF CoverIInv

\* A tick starts with every job that has a schedule before it.
LEMMA LoadJobsCovers ==
  ASSUME CoverIInv, NEW s \in Schedulers, LoadJobs(s)
  PROVE  CoverIInv'
<1>0. SchedulerIInv /\ SchedulerIInv'
  BY LoadJobsInv DEF CoverIInv
<1> DEFINE next == [process[s] EXCEPT !.pc = "tick", !.todo = ScheduledJobs]
<1>1. /\ process'[s] = next /\ UNCHANGED <<jobs, scheduled>>
      /\ \A p \in Schedulers : p # s => process'[p] = process[p]
  BY <1>0, Types DEF LoadJobs
<1>2. next.todo = ScheduledJobs
  <2>1. process[s] \in ProcessRow
    BY <1>0, Types
  <2>2. ScheduledJobs \in SUBSET TodoRow
    BY <1>0, Types DEF ScheduledJobs, TodoRow, JobRow
  <2> QED  BY <2>1, <2>2, TickRow
<1> HIDE DEF next
<1>3. ASSUME NEW j \in Jobs, jobs[j].schedule # None
      PROVE  \E row \in ScheduledJobs : row.job = j
  <2> DEFINE row == [job |-> j, expr |-> jobs[j].schedule, created_at |-> jobs[j].created_at]
  <2>1. row \in ScheduledJobs /\ row.job = j
    BY <1>3 DEF ScheduledJobs
  <2> QED  BY <2>1
<1>4. TickCovers(s)'
  BY <1>1, <1>2, <1>3 DEF TickCovers, CronFires
<1> QED  BY <1>0, <1>1, <1>4, MovedCovers

LEMMA NextJobCovers ==
  ASSUME CoverIInv, NEW s \in Schedulers, NextJob(s)
  PROVE  CoverIInv'
<1>0. SchedulerIInv /\ TickCovers(s) /\ SchedulerIInv'
  BY NextJobInv DEF CoverIInv
<1>1. PICK row \in process[s].todo :
        LET due == IF process[s].now < row.created_at THEN {}
                   ELSE DueTimes(row.expr, CatchUpBase(row), process[s].now)
        IN process' = [process EXCEPT ![s] = Inserting(@, @.todo \ {row}, row.job, due)]
  BY DEF NextJob
<1> DEFINE due == IF process[s].now < row.created_at THEN {}
                  ELSE DueTimes(row.expr, CatchUpBase(row), process[s].now)
           next == Inserting(process[s], process[s].todo \ {row}, row.job, due)
<1>2. /\ row \in TodoRow /\ row.job \in Jobs /\ process[s] \in ProcessRow
      /\ process[s].todo \ {row} \in SUBSET TodoRow
  BY <1>0, Types DEF ProcessRow, TodoRow
<1>3. due \in SUBSET Times
  <2>1. CatchUpBase(row) \in Nat
    <3>1. TypeOK
      BY <1>0 DEF SchedulerIInv
    <3> QED  BY <1>2, <3>1, TimesAreNat, BaseOfCatchUp
  <2> QED  BY <1>0, <2>1, Clocks, DueTimesBound
<1>4. \A t \in CronFires(row.job) :
        t <= process[s].now => t \in due \/ scheduled[row.job][t] > 0
  <2> SUFFICES ASSUME NEW t \in CronFires(row.job), t <= process[s].now
               PROVE  t \in due \/ scheduled[row.job][t] > 0
    OBVIOUS
  <2>1. row.created_at \in Nat
    BY <1>2, TimesAreNat DEF TodoRow
  <2>2. ~(process[s].now < row.created_at)
    BY <1>0, <2>1, Clocks, DueHasAll
  <2> QED  BY <1>0, <2>2, DueHasAll
<1>5. /\ process'[s] = next
      /\ \A p \in Schedulers : p # s => process'[p] = process[p]
  BY <1>0, <1>1, Types
<1> HIDE DEF due
<1>6. /\ next.now = process[s].now /\ next.due = due
      /\ next.todo = process[s].todo \ {row} /\ InStep(next)
      /\ next.pc = "insert" => next.job = row.job
  BY <1>2, <1>3, InsertingRow
<1> HIDE DEF next
<1>7. UNCHANGED <<jobs, scheduled>> /\ process[s].pc = "tick" /\ process[s].due = {}
  BY <1>0, ProcessInStep DEF NextJob, InStep
<1>8. \A j : CronFires(j)' = CronFires(j)
  BY <1>7 DEF CronFires
<1>9. TickCovers(s)'
  <2> SUFFICES ASSUME NEW j \in Jobs, NEW t \in CronFires(j), t <= process[s].now,
                      ~(scheduled[j][t] > 0)
               PROVE  \/ \E other \in next.todo : other.job = j
                      \/ next.job = j /\ t \in next.due
    BY <1>5, <1>6, <1>7, <1>8 DEF TickCovers
  <2>1. CASE j = row.job
    <3>1. t \in due
      BY <1>4, <2>1
    <3> QED  BY <1>6, <2>1, <3>1 DEF InStep
  <2>2. CASE j # row.job
    BY <1>0, <1>6, <1>7, <2>2 DEF TickCovers
  <2> QED  BY <2>1, <2>2
<1> QED  BY <1>0, <1>5, <1>7, <1>9, MovedCovers

LEMMA InsertRunCovers ==
  ASSUME CoverIInv, NEW s \in Schedulers, InsertRun(s)
  PROVE  CoverIInv'
<1>0. SchedulerIInv /\ SchedulerIInv' /\ \A p \in Schedulers : TickCovers(p)
  BY InsertRunInv DEF CoverIInv
<1>1. process[s] \in ProcessRow /\ process[s].pc = "insert"
  BY <1>0, Types DEF InsertRun
<1>2. PICK j \in Jobs : j = process[s].job
  BY <1>0, <1>1, ProcessInStep DEF InStep, ProcessRow
<1>3. PICK t \in Times : t = NextDue(process[s].due) /\ t \in process[s].due
  <2>1. process[s].due # {} /\ process[s].due \in SUBSET Times
    BY <1>0, <1>1, ProcessInStep DEF InStep, ProcessRow
  <2> QED  BY <2>1, TimesAreNat, MinIsLeast DEF NextDue
<1>4. PICK left \in SUBSET Times : left = process[s].due \ {t}
  BY <1>1 DEF ProcessRow
<1> DEFINE next == Inserting(process[s], process[s].todo, j, left)
<1>5. scheduled' = [scheduled EXCEPT ![j][t] = Inserted(@)] /\ jobs' = jobs
  BY <1>2, <1>3 DEF InsertRun
<1>6. /\ process'[s] = next
      /\ \A p \in Schedulers : p # s => process'[p] = process[p]
  BY <1>0, <1>2, <1>3, <1>4, Types DEF InsertRun
<1>7. /\ next.now = process[s].now /\ next.due = left /\ next.todo = process[s].todo
      /\ InStep(next)
      /\ next.pc = "insert" => next.job = j
  <2>1. process[s].todo \in SUBSET TodoRow
    BY <1>1 DEF ProcessRow
  <2> QED  BY <1>1, <2>1, InsertingRow
<1> HIDE DEF next
<1>8. /\ scheduled'[j][t] > 0
      /\ \A i \in Jobs, u \in Times : scheduled[i][u] > 0 => scheduled'[i][u] > 0
  <2>1. Inserted(scheduled[j][t]) > 0
    BY <1>0, InsertedThere
  <2> QED  BY <1>0, <1>5, <2>1, Types
<1>9. \A i : CronFires(i)' = CronFires(i) /\ CronFires(i) \subseteq Times
  BY <1>5 DEF CronFires
<1>10. TickCovers(s)'
  <2> SUFFICES ASSUME NEW i \in Jobs, NEW u \in CronFires(i), u <= process[s].now,
                      ~(scheduled'[i][u] > 0)
               PROVE  \/ \E row \in next.todo : row.job = i
                      \/ next.job = i /\ u \in next.due
    BY <1>6, <1>7, <1>9 DEF TickCovers
  <2>1. \/ \E row \in process[s].todo : row.job = i
        \/ i = j /\ u \in process[s].due
    BY <1>0, <1>1, <1>2, <1>8, <1>9 DEF TickCovers
  <2>2. CASE i = j /\ u \in process[s].due
    <3>1. u \in left
      BY <1>4, <1>8, <2>2
    <3> QED  BY <1>7, <2>2, <3>1 DEF InStep
  <2> QED  BY <1>7, <2>1, <2>2
<1>11. ASSUME NEW p \in Schedulers PROVE TickCovers(p)'
  <2>1. p # s => TickCovers(p)'
    BY <1>0, <1>5, <1>6, <1>8, OtherCovers
  <2> QED  BY <1>10, <2>1
<1> QED  BY <1>0, <1>11 DEF CoverIInv

\* A schedule that comes into force after a process has read its clock has no fire
\* time up to that clock value.
LEMMA RegisterDeployCovers ==
  ASSUME CoverIInv, NEW j \in Jobs, NEW expr \in Schedules \cup {None}, RegisterDeploy(j, expr)
  PROVE  CoverIInv'
<1>0. SchedulerIInv /\ SchedulerIInv' /\ \A p \in Schedulers : TickCovers(p)
  BY RegisterDeployInv DEF CoverIInv
<1>1. /\ UNCHANGED <<scheduled, process>> /\ jobs'[j].updated_at = clock
      /\ \A i \in Jobs : i # j => jobs'[i] = jobs[i]
  BY <1>0, Types DEF RegisterDeploy
<1>2. \A i \in Jobs : i # j => CronFires(i)' = CronFires(i)
  BY <1>1 DEF CronFires
<1>3. ASSUME NEW s \in Schedulers, NEW t \in CronFires(j)' PROVE ~(t <= process[s].now)
  <2>1. t \in Nat /\ clock < t
    BY <1>1, TimesAreNat DEF CronFires
  <2> QED  BY <1>0, <2>1, Clocks
<1>4. ASSUME NEW s \in Schedulers PROVE TickCovers(s)'
  <2> SUFFICES ASSUME process[s].pc \in {"tick", "insert"}, NEW i \in Jobs,
                      NEW t \in CronFires(i)', t <= process[s].now
               PROVE  \/ scheduled[i][t] > 0
                      \/ \E row \in process[s].todo : row.job = i
                      \/ process[s].job = i /\ t \in process[s].due
    BY <1>1 DEF TickCovers
  <2>1. i # j
    BY <1>3
  <2> QED  BY <1>0, <1>2, <2>1 DEF TickCovers
<1> QED  BY <1>0, <1>4 DEF CoverIInv

LEMMA CoverStep == CoverIInv /\ [Next]_vars => CoverIInv'
<1> SUFFICES ASSUME CoverIInv, [Next]_vars PROVE CoverIInv'
  OBVIOUS
<1>1. SchedulerIInv /\ SchedulerIInv' /\ \A s \in Schedulers : TickCovers(s)
  BY StepInv DEF CoverIInv
<1>2. CASE \E j \in Jobs, expr \in Schedules \cup {None} : RegisterDeploy(j, expr)
  BY <1>2, RegisterDeployCovers
<1>3. ASSUME NEW s \in Schedulers, QuietStep(s) PROVE CoverIInv'
  <2>1. /\ process'[s].pc \notin {"tick", "insert"} /\ UNCHANGED <<jobs, scheduled>>
        /\ \A p \in Schedulers : p # s => process'[p] = process[p]
    BY <1>1, <1>3, QuietStepMoves
  <2>2. TickCovers(s)'
    BY <2>1 DEF TickCovers
  <2> QED  BY <1>1, <2>1, <2>2, MovedCovers
<1>4. CASE \E s \in Schedulers : Start(s) \/ Loop(s) \/ Exit(s)
  BY <1>3, <1>4, LoadJobsCovers, NextJobCovers, InsertRunCovers DEF Loop, Tick, QuietStep
<1>5. CASE Advance \/ UNCHANGED vars
  <2>1. UNCHANGED <<jobs, scheduled, process>>
    BY <1>5 DEF Advance, vars
  <2>2. \A s \in Schedulers : TickCovers(s)'
    BY <1>1, <2>1, OtherCovers
  <2> QED  BY <1>1, <2>2 DEF CoverIInv
<1> QED  BY <1>2, <1>4, <1>5 DEF Next

\* A tick that gets to its end has left no fire time in force and due by its clock
\* value without a run, whichever ticks, deploys and crashes it overlaps: the
\* catch-up never forgets (tick_schedules).
THEOREM TicksLeaveNothingDue == Spec => []TickLeavesNothingDue
<1>1. CoverIInv => TickLeavesNothingDue
  <2> SUFFICES ASSUME CoverIInv, NEW s \in Schedulers, process[s].pc = "tick",
                      process[s].todo = {}, NEW j \in Jobs, NEW t \in CronFires(j),
                      t <= process[s].now
               PROVE  scheduled[j][t] > 0
    BY DEF TickLeavesNothingDue
  <2>1. process[s].due = {}
    BY ProcessInStep DEF CoverIInv, InStep
  <2> QED  BY <2>1 DEF CoverIInv, TickCovers
<1> QED  BY <1>1, CoverInit, CoverStep, PTL DEF Spec

-------------------------------------------------------------------------------
(* The end of a schedule that a deploy replaces *)

\* The schedule of job j in force has a fire time at t, or is an interval, whose
\* fire times a deploy does not renumber.
CallsFor(j, t) ==
  /\ jobs[j].schedule # None
  /\ jobs[j].schedule.kind = "cron" => Matches(jobs[j].schedule, t)

\* A process may still have fire times of the schedule before to insert, but none
\* after the deploy that replaced it.
DueInForce(s) ==
  process[s].pc = "insert" =>
    \A t \in process[s].due :
      jobs[process[s].job].updated_at < t => CallsFor(process[s].job, t)

ForceIInv ==
  /\ SchedulerIInv
  /\ OldScheduleEnds
  /\ \A s \in Schedulers : DueInForce(s)

LEMMA ForceInit == Init => ForceIInv
BY InitInv DEF Init, Stopped, ForceIInv, DueInForce, OldScheduleEnds

\* A step of another process keeps what is said of this one.
LEMMA OtherInForce ==
  ASSUME NEW s \in Schedulers, DueInForce(s), process'[s] = process[s], jobs' = jobs
  PROVE  DueInForce(s)'
BY DEF DueInForce, CallsFor

LEMMA MovedInForce ==
  ASSUME ForceIInv, SchedulerIInv', NEW s \in Schedulers, DueInForce(s)',
         \A p \in Schedulers : p # s => process'[p] = process[p],
         UNCHANGED <<jobs, scheduled>>
  PROVE  ForceIInv'
<1>1. ASSUME NEW p \in Schedulers PROVE DueInForce(p)'
  <2>1. p # s => DueInForce(p)'
    BY OtherInForce DEF ForceIInv
  <2> QED  BY <2>1
<1>2. OldScheduleEnds'
  BY DEF ForceIInv, OldScheduleEnds
<1> QED  BY <1>1, <1>2 DEF ForceIInv

LEMMA LoadJobsInForce ==
  ASSUME ForceIInv, NEW s \in Schedulers, LoadJobs(s)
  PROVE  ForceIInv'
<1>0. SchedulerIInv /\ SchedulerIInv'
  BY LoadJobsInv DEF ForceIInv
<1> DEFINE next == [process[s] EXCEPT !.pc = "tick", !.todo = ScheduledJobs]
<1>1. /\ process'[s] = next /\ UNCHANGED <<jobs, scheduled>>
      /\ \A p \in Schedulers : p # s => process'[p] = process[p]
  BY <1>0, Types DEF LoadJobs
<1>2. next.pc = "tick"
  <2>1. process[s] \in ProcessRow
    BY <1>0, Types
  <2>2. ScheduledJobs \in SUBSET TodoRow
    BY <1>0, Types DEF ScheduledJobs, TodoRow, JobRow
  <2> QED  BY <2>1, <2>2, TickRow
<1> HIDE DEF next
<1>3. DueInForce(s)'
  BY <1>1, <1>2 DEF DueInForce
<1> QED  BY <1>0, <1>1, <1>3, MovedInForce

\* The job read is the one in force, or was deployed again after the process read
\* its clock; then all that is due lies before that deploy.
LEMMA NextJobInForce ==
  ASSUME ForceIInv, NEW s \in Schedulers, NextJob(s)
  PROVE  ForceIInv'
<1>0. SchedulerIInv /\ SchedulerIInv'
  BY NextJobInv DEF ForceIInv
<1>1. PICK row \in process[s].todo :
        LET due == IF process[s].now < row.created_at THEN {}
                   ELSE DueTimes(row.expr, CatchUpBase(row), process[s].now)
        IN process' = [process EXCEPT ![s] = Inserting(@, @.todo \ {row}, row.job, due)]
  BY DEF NextJob
<1> DEFINE due == IF process[s].now < row.created_at THEN {}
                  ELSE DueTimes(row.expr, CatchUpBase(row), process[s].now)
           next == Inserting(process[s], process[s].todo \ {row}, row.job, due)
<1>2. /\ row \in TodoRow /\ row.job \in Jobs /\ row.expr \in Schedules
      /\ process[s] \in ProcessRow /\ process[s].todo \ {row} \in SUBSET TodoRow
  BY <1>0, Types DEF ProcessRow, TodoRow
<1>3. due \in SUBSET Times /\ \A t \in due : t <= process[s].now
  <2>1. CatchUpBase(row) \in Nat
    <3>1. TypeOK
      BY <1>0 DEF SchedulerIInv
    <3> QED  BY <1>2, <3>1, TimesAreNat, BaseOfCatchUp
  <2> QED  BY <1>0, <2>1, Clocks, DueTimesBound
<1>4. \A t \in due : row.expr.kind = "cron" => Matches(row.expr, t)
  <2>1. row.expr.kind = "cron" => row.expr.kind # "interval"
    OBVIOUS
  <2> QED  BY <2>1 DEF DueTimes
<1>5. /\ process'[s] = next
      /\ \A p \in Schedulers : p # s => process'[p] = process[p]
  BY <1>0, <1>1, Types
<1> HIDE DEF due
<1>6. next.due = due /\ (next.pc = "insert" => next.job = row.job)
  BY <1>2, <1>3, InsertingRow
<1> HIDE DEF next
<1>7. UNCHANGED <<jobs, scheduled>>
  BY DEF NextJob
<1>8. ASSUME NEW t \in due, jobs[row.job].updated_at < t PROVE CallsFor(row.job, t)
  <2>1. t \in Nat /\ t <= process[s].now /\ process[s].now \in Nat
    BY <1>0, <1>3, TimesAreNat, Clocks
  <2>2. jobs[row.job].updated_at \in Nat
    BY <1>0, <1>2, Types, TimesAreNat DEF JobRow
  <2>3. row.expr = jobs[row.job].schedule \/ process[s].now <= jobs[row.job].updated_at
    BY <1>0, ProcessInStep DEF TodoHolds
  <2>4. row.expr = jobs[row.job].schedule
    BY <1>8, <2>1, <2>2, <2>3
  <2>5. row.expr # None
    BY <1>2
  <2> QED  BY <1>4, <2>4, <2>5 DEF CallsFor
<1>9. DueInForce(s)'
  <2>1. \A j, t : CallsFor(j, t)' = CallsFor(j, t)
    BY <1>7 DEF CallsFor
  <2> QED  BY <1>5, <1>6, <1>7, <1>8, <2>1 DEF DueInForce
<1> QED  BY <1>0, <1>5, <1>7, <1>9, MovedInForce

LEMMA InsertRunInForce ==
  ASSUME ForceIInv, NEW s \in Schedulers, InsertRun(s)
  PROVE  ForceIInv'
<1>0. /\ SchedulerIInv /\ SchedulerIInv' /\ OldScheduleEnds
      /\ \A p \in Schedulers : DueInForce(p)
  BY InsertRunInv DEF ForceIInv
<1>1. process[s] \in ProcessRow /\ process[s].pc = "insert"
  BY <1>0, Types DEF InsertRun
<1>2. PICK j \in Jobs : j = process[s].job
  BY <1>0, <1>1, ProcessInStep DEF InStep, ProcessRow
<1>3. PICK t \in Times : t = NextDue(process[s].due) /\ t \in process[s].due
  <2>1. process[s].due # {} /\ process[s].due \in SUBSET Times
    BY <1>0, <1>1, ProcessInStep DEF InStep, ProcessRow
  <2> QED  BY <2>1, TimesAreNat, MinIsLeast DEF NextDue
<1>4. PICK left \in SUBSET Times : left = process[s].due \ {t}
  BY <1>1 DEF ProcessRow
<1> DEFINE next == Inserting(process[s], process[s].todo, j, left)
<1>5. scheduled' = [scheduled EXCEPT ![j][t] = Inserted(@)] /\ jobs' = jobs
  BY <1>2, <1>3 DEF InsertRun
<1>6. /\ process'[s] = next
      /\ \A p \in Schedulers : p # s => process'[p] = process[p]
  BY <1>0, <1>2, <1>3, <1>4, Types DEF InsertRun
<1>7. next.due = left /\ (next.pc = "insert" => next.job = j)
  <2>1. process[s].todo \in SUBSET TodoRow
    BY <1>1 DEF ProcessRow
  <2> QED  BY <1>1, <2>1, InsertingRow
<1> HIDE DEF next
<1>8. \A i \in Jobs, u \in Times : <<i, u>> # <<j, t>> => scheduled'[i][u] = scheduled[i][u]
  BY <1>0, <1>5, Types
<1>9. jobs[j].updated_at < t => CallsFor(j, t)
  BY <1>0, <1>1, <1>2, <1>3 DEF DueInForce
<1>10. OldScheduleEnds'
  <2> SUFFICES ASSUME NEW i \in Jobs, NEW u \in Times, scheduled'[i][u] > 0,
                      jobs[i].updated_at < u
               PROVE  CallsFor(i, u)
    BY <1>5 DEF OldScheduleEnds, CallsFor
  <2>1. CASE <<i, u>> = <<j, t>>
    BY <1>9, <2>1
  <2>2. CASE <<i, u>> # <<j, t>>
    <3>1. scheduled[i][u] > 0
      BY <1>8, <2>2
    <3> QED  BY <1>0, <3>1 DEF OldScheduleEnds, CallsFor
  <2> QED  BY <2>1, <2>2
<1>11. DueInForce(s)'
  <2>1. \A i, u : CallsFor(i, u)' = CallsFor(i, u)
    BY <1>5 DEF CallsFor
  <2> QED  BY <1>0, <1>1, <1>2, <1>4, <1>5, <1>6, <1>7, <2>1 DEF DueInForce
<1>12. ASSUME NEW p \in Schedulers PROVE DueInForce(p)'
  <2>1. p # s => DueInForce(p)'
    BY <1>0, <1>5, <1>6, OtherInForce
  <2> QED  BY <1>11, <2>1
<1> QED  BY <1>0, <1>10, <1>12 DEF ForceIInv

\* What has a run, or is about to be inserted, is not later than the clock, which is
\* the time of the deploy.
LEMMA RegisterDeployInForce ==
  ASSUME ForceIInv, NEW j \in Jobs, NEW expr \in Schedules \cup {None}, RegisterDeploy(j, expr)
  PROVE  ForceIInv'
<1>0. /\ SchedulerIInv /\ SchedulerIInv' /\ OldScheduleEnds
      /\ \A p \in Schedulers : DueInForce(p)
  BY RegisterDeployInv DEF ForceIInv
<1>1. /\ UNCHANGED <<scheduled, process>> /\ jobs'[j].updated_at = clock
      /\ \A i \in Jobs : i # j => jobs'[i] = jobs[i]
  BY <1>0, Types DEF RegisterDeploy
<1>2. OldScheduleEnds'
  <2> SUFFICES ASSUME NEW i \in Jobs, NEW t \in Times, scheduled[i][t] > 0,
                      jobs'[i].updated_at < t
               PROVE  /\ jobs'[i].schedule # None
                      /\ jobs'[i].schedule.kind = "cron" => Matches(jobs'[i].schedule, t)
    BY <1>1 DEF OldScheduleEnds
  <2>1. i # j
    <3>1. t <= clock /\ t \in Nat /\ clock \in Nat
      BY <1>0, TimesAreNat, Clocks DEF SchedulerIInv, NoneAhead
    <3> QED  BY <1>1, <3>1
  <2> QED  BY <1>0, <1>1, <2>1 DEF OldScheduleEnds
<1>3. ASSUME NEW s \in Schedulers PROVE DueInForce(s)'
  <2> SUFFICES ASSUME process[s].pc = "insert", NEW t \in process[s].due,
                      jobs'[process[s].job].updated_at < t
               PROVE  CallsFor(process[s].job, t)'
    BY <1>1 DEF DueInForce
  <2>1. process[s].job \in Jobs /\ t \in Times
    BY <1>0, Types, ProcessInStep DEF ProcessRow, InStep
  <2>2. process[s].job # j
    <3>1. t <= process[s].now
      BY <1>0, ProcessInStep DEF NowIsPast
    <3>2. t \in Nat /\ process[s].now \in Nat /\ clock \in Nat /\ process[s].now <= clock
      BY <1>0, <2>1, TimesAreNat, Clocks
    <3> QED  BY <1>1, <3>1, <3>2
  <2> QED  BY <1>0, <1>1, <2>1, <2>2 DEF DueInForce, CallsFor
<1> QED  BY <1>0, <1>2, <1>3 DEF ForceIInv

LEMMA ForceStep == ForceIInv /\ [Next]_vars => ForceIInv'
<1> SUFFICES ASSUME ForceIInv, [Next]_vars PROVE ForceIInv'
  OBVIOUS
<1>1. SchedulerIInv /\ SchedulerIInv' /\ \A s \in Schedulers : DueInForce(s)
  BY StepInv DEF ForceIInv
<1>2. CASE \E j \in Jobs, expr \in Schedules \cup {None} : RegisterDeploy(j, expr)
  BY <1>2, RegisterDeployInForce
<1>3. ASSUME NEW s \in Schedulers, QuietStep(s) PROVE ForceIInv'
  <2>1. /\ process'[s].pc \notin {"tick", "insert"} /\ UNCHANGED <<jobs, scheduled>>
        /\ \A p \in Schedulers : p # s => process'[p] = process[p]
    BY <1>1, <1>3, QuietStepMoves
  <2>2. DueInForce(s)'
    BY <2>1 DEF DueInForce
  <2> QED  BY <1>1, <2>1, <2>2, MovedInForce
<1>4. CASE \E s \in Schedulers : Start(s) \/ Loop(s) \/ Exit(s)
  BY <1>3, <1>4, LoadJobsInForce, NextJobInForce, InsertRunInForce DEF Loop, Tick, QuietStep
<1>5. CASE Advance \/ UNCHANGED vars
  <2>1. UNCHANGED <<jobs, scheduled, process>>
    BY <1>5 DEF Advance, vars
  <2>2. \A s \in Schedulers : DueInForce(s)'
    BY <1>1, <2>1, OtherInForce
  <2>3. OldScheduleEnds'
    BY <2>1 DEF ForceIInv, OldScheduleEnds
  <2> QED  BY <1>1, <2>2, <2>3 DEF ForceIInv
<1> QED  BY <1>2, <1>4, <1>5 DEF Next

\* A deploy ends the schedule it replaces: whatever ticks it overlaps, with jobs
\* loaded before it, no run is scheduled for a time after it that the schedule now
\* in force does not call for (tick_schedules).  Processes may share a leader_id.
THEOREM RedeploysEndSchedules == Spec => []OldScheduleEnds
<1>1. ForceIInv => OldScheduleEnds
  BY DEF ForceIInv
<1> QED  BY <1>1, ForceInit, ForceStep, PTL DEF Spec
===============================================================================
