------------------------------- MODULE Scheduler -------------------------------
(***************************************************************************)
(* The scheduler processes (gum-scheduler/src/main.rs) and the statements   *)
(* of tick_schedules in the PostgreSQL store (gum-store/src/pg.rs), with    *)
(* the fire times of a schedule expression (gum-store/src/queries.rs).      *)
(*                                                                          *)
(* Every process loops: read the clock, take or renew the control lease,    *)
(* recover lost attempts, tick the schedules, probe the providers, sleep.   *)
(* The clock is read once, at the top, and used to the end of the loop; no  *)
(* statement checks the lease again.  Two processes may therefore tick at   *)
(* the same time, and any step may be a process's last: every error of a    *)
(* loop ends the process.                                                   *)
(*                                                                          *)
(* tick_schedules is a read of the scheduled jobs, then for each of them a  *)
(* read of its latest fire time and one INSERT per fire time that is due,   *)
(* every statement committed on its own.                                    *)
(*                                                                          *)
(* Left out: recovery and probes, which change no table of this module      *)
(* (GumStore, ProviderHealth) and are here the time a process may take      *)
(* between its steps; what becomes of a scheduled run after its INSERT.     *)
(* The unit of time is the slot a schedule is resolved to (one minute for   *)
(* a cron expression).                                                      *)
(***************************************************************************)
EXTENDS ControlLease, FiniteSets, FiniteSetsExt

CONSTANTS
  Schedulers,    \* processes
  HolderIds,     \* [Schedulers -> the leader_ids a start of the process may get]
  Jobs,          \* job ids
  Schedules,     \* schedule expressions a deploy may give a job
  Calendar(_),   \* the fields of a time in the schedule's time zone
  SearchWindow,  \* MAX_SEARCH_MINUTES: how far a next match is looked for
  LeaderTtl,     \* leader_ttl_secs
  MaxTime,       \* bound: deploys and exits happen up to this time
  MaxExits       \* bound: crashes and database errors of scheduler processes

\* The clock runs on until every lease taken up to MaxTime has expired.
LastTime == MaxTime + LeaderTtl
Times == 0 .. LastTime

ASSUME SchedulerAssumption ==
  /\ LeaseNames = {"scheduler"}
  /\ MaxTime \in Nat /\ LeaderTtl \in Nat \ {0} /\ MaxExits \in Nat
  /\ SearchWindow \in Nat \ {0}
  /\ None \notin Schedules \cup Jobs

\* pid: in containers two processes may well have the same one.
ASSUME HolderIdsAssumption == HolderIds \in [Schedulers -> (SUBSET Holders) \ {{}}]

ASSUME SchedulesAssumption ==
  \A expr \in Schedules :
    expr.kind \in {"interval", "cron"} /\ expr.every \in Nat \ {0}

VARIABLES
  clock,       \* the time
  jobs,        \* [Jobs -> the row of the job, or NoJob]
  scheduled,   \* [Jobs -> [Times -> rows of runs with trigger_type 'schedule']]
  process,     \* [Schedulers -> where the process is, and what it has read]
  exits        \* exits so far

vars == <<control_leases, clock, jobs, scheduled, process, exits>>

-------------------------------------------------------------------------------
(* Schedule expressions *)

\* The values a cron field allows.  A field is the set of its segments, each
\* from..to by step; "*" is the empty set, and only it makes a wildcard.
CronField(segments, least, greatest) ==
  [wildcard |-> segments = {},
   allowed |-> IF segments = {} THEN least .. greatest
               ELSE UNION {{v \in s.from .. s.to : (v - s.from) % s.step = 0} :
                             s \in segments}]

\* Day of month and day of week: where both are restricted, either will do.
MatchesDay(expr, day) ==
  LET month == day.of_month \in expr.of_month.allowed
      week == day.of_week \in expr.of_week.allowed
  IN
  IF expr.of_month.wildcard \/ expr.of_week.wildcard THEN month /\ week
                                                     ELSE month \/ week

\* minute, hour and month, which all have to match, are the one field slot.
Matches(expr, t) ==
  LET now == Calendar(t) IN
  now.slot \in expr.slot.allowed /\ MatchesDay(expr, now)

\* next_match_after_epoch_ms finds nothing: an error, not an empty answer.
NoMatchAfter(expr, cursor) ==
  \A t \in cursor + 1 .. cursor + SearchWindow : ~Matches(expr, t)

\* Mutant of DueTimes: the catch-up makes do with the latest fire time.
DueTimesLatestOnly(expr, base, now) ==
  LET due == {t \in base + 1 .. now :
                IF expr.kind = "interval" THEN (t - base) % expr.every = 0
                                          ELSE Matches(expr, t)}
  IN {t \in due : \A u \in due : u <= t}

\* Mutant of DueTimes: a fire time at now itself is left to the next tick.
DueTimesBeforeNow(expr, base, now) ==
  {t \in base + 1 .. now - 1 :
     IF expr.kind = "interval" THEN (t - base) % expr.every = 0 ELSE Matches(expr, t)}

\* recurring_due_times_ms: the fire times after base up to now.
DueTimes(expr, base, now) ==
  {t \in base + 1 .. now :
     IF expr.kind = "interval" THEN (t - base) % expr.every = 0 ELSE Matches(expr, t)}

\* The search for the next fire time after one of them fails.
ScheduleError(expr, base, now) ==
  expr.kind = "cron" /\ \E cursor \in DueTimes(expr, base, now) \cup {base} : NoMatchAfter(expr, cursor)

-------------------------------------------------------------------------------
(* Rows, and the life of a process *)

NoJob == [schedule |-> None, created_at |-> 0, updated_at |-> 0]

Stopped == [pc |-> "down", holder |-> None, now |-> 0, todo |-> {}, job |-> None, due |-> {}]

Init ==
  /\ ControlLeaseInit
  /\ clock = 0
  /\ jobs = [j \in Jobs |-> NoJob]
  /\ scheduled = [j \in Jobs |-> [t \in Times |-> 0]]
  /\ process = [s \in Schedulers |-> Stopped]
  /\ exits = 0

\* A deploy upserts the job: created_at is the time of the first one and stays.
\* updated_at also tells whether the job has a row.  (Bound: one deploy of a
\* job per unit of time.)
RegisterDeploy(j, expr) ==
  /\ clock \in 1 .. MaxTime
  /\ jobs[j].updated_at < clock
  /\ jobs' = [jobs EXCEPT ![j] =
                [schedule |-> expr, updated_at |-> clock,
                 created_at |-> IF jobs[j].updated_at = 0 THEN clock ELSE jobs[j].created_at]]
  /\ UNCHANGED <<control_leases, clock, scheduled, process, exits>>

Start(s) ==
  /\ process[s].pc = "down"
  /\ \E holder \in HolderIds[s] :
       process' = [process EXCEPT ![s] = [Stopped EXCEPT !.pc = "loop", !.holder = holder]]
  /\ UNCHANGED <<control_leases, clock, jobs, scheduled, exits>>

ReadClock(s) ==
  /\ process[s].pc = "loop"
  /\ process' = [process EXCEPT ![s] = [@ EXCEPT !.pc = "elect", !.now = clock]]
  /\ UNCHANGED <<control_leases, clock, jobs, scheduled, exits>>

\* The holder of the lease goes on to recover and tick, with the now it has
\* read; any other process sleeps.
BecomeLeader(s) ==
  /\ process[s].pc = "elect"
  /\ Acquire("scheduler", process[s].holder, LeaderTtl, process[s].now)
  /\ process' = [process EXCEPT ![s] = [@ EXCEPT !.pc = "load"]]
  /\ UNCHANGED <<clock, jobs, scheduled, exits>>

StayFollower(s) ==
  /\ process[s].pc = "elect"
  /\ ~MayAcquire("scheduler", process[s].holder, process[s].now)
  /\ process' = [process EXCEPT ![s] = [@ EXCEPT !.pc = "loop", !.now = 0]]
  /\ UNCHANGED <<control_leases, clock, jobs, scheduled, exits>>

-------------------------------------------------------------------------------
(* tick_schedules, statement by statement *)

ScheduledJobs ==
  {[job |-> j, expr |-> jobs[j].schedule, created_at |-> jobs[j].created_at] :
     j \in {i \in Jobs : jobs[i].schedule # None}}

LoadJobs(s) ==
  /\ process[s].pc = "load"
  /\ process' = [process EXCEPT ![s] = [@ EXCEPT !.pc = "tick", !.todo = ScheduledJobs]]
  /\ UNCHANGED <<control_leases, clock, jobs, scheduled, exits>>

LatestScheduled(j) ==
  LET fired == {t \in Times : scheduled[j][t] > 0} IN
  {t \in fired : \A u \in fired : u <= t}

\* Nothing is due before created_at; otherwise the catch-up starts at the latest
\* fire time there is a run for, or at created_at.
CatchUpBase(row) ==
  IF LatestScheduled(row.job) = {} THEN row.created_at ELSE Max(LatestScheduled(row.job))

\* Mutant of Inserting: the process goes on inserting when nothing is left.
InsertingStill(row, todo, job, due) ==
  [row EXCEPT !.todo = todo, !.due = due, !.job = job, !.pc = "insert"]

\* The row of a process with the fire times due of job to insert, if any, and
\* todo to tick after them.
Inserting(row, todo, job, due) ==
  [row EXCEPT !.todo = todo, !.due = due,
              !.job = IF due = {} THEN None ELSE job,
              !.pc = IF due = {} THEN "tick" ELSE "insert"]

\* Mutant of NextJob: the tick reads the clock afresh for each job.
NextJobClock(s) ==
  /\ process[s].pc = "tick"
  /\ \E row \in process[s].todo :
       /\ clock >= row.created_at
       /\ ~ScheduleError(row.expr, CatchUpBase(row), clock)
       /\ process' = [process EXCEPT ![s] =
            Inserting(@, @.todo \ {row}, row.job, DueTimes(row.expr, CatchUpBase(row), clock))]
  /\ UNCHANGED <<control_leases, clock, jobs, scheduled, exits>>

\* The next job in the order of created_at: its latest fire time is read and the
\* fire times that are due computed.
NextJob(s) ==
  /\ process[s].pc = "tick"
  /\ \E row \in process[s].todo :
       LET due == IF process[s].now < row.created_at THEN {}
                  ELSE DueTimes(row.expr, CatchUpBase(row), process[s].now)
       IN
       /\ \A other \in process[s].todo : row.created_at <= other.created_at
       /\ process[s].now >= row.created_at =>
            ~ScheduleError(row.expr, CatchUpBase(row), process[s].now)
       /\ process' = [process EXCEPT ![s] = Inserting(@, @.todo \ {row}, row.job, due)]
  /\ UNCHANGED <<control_leases, clock, jobs, scheduled, exits>>

\* A schedule no time matches fails the tick, and with it the process.
TickFails(s) ==
  /\ process[s].pc = "tick"
  /\ \E row \in process[s].todo :
       /\ \A other \in process[s].todo : row.created_at <= other.created_at
       /\ process[s].now >= row.created_at
       /\ ScheduleError(row.expr, CatchUpBase(row), process[s].now)
  /\ process' = [process EXCEPT ![s] = Stopped]
  /\ UNCHANGED <<control_leases, clock, jobs, scheduled, exits>>

\* INSERT .. ON CONFLICT DO NOTHING under runs_job_scheduled_unique_idx.
Inserted(rows) == IF rows = 0 THEN 1 ELSE rows

\* Mutant of NextDue: the newest fire time goes in first.
NextDueNewest(due) == Max(due)

NextDue(due) == Min(due)

InsertRun(s) ==
  LET t == NextDue(process[s].due) IN
  /\ process[s].pc = "insert"
  /\ scheduled' = [scheduled EXCEPT ![process[s].job][t] = Inserted(@)]
  /\ process' = [process EXCEPT ![s] = Inserting(@, @.todo, @.job, @.due \ {t})]
  /\ UNCHANGED <<control_leases, clock, jobs, exits>>

\* The probes follow, then the sleep.
EndTick(s) ==
  /\ process[s].pc = "tick"
  /\ process[s].todo = {}
  /\ process' = [process EXCEPT ![s] = [@ EXCEPT !.pc = "loop", !.now = 0]]
  /\ UNCHANGED <<control_leases, clock, jobs, scheduled, exits>>

\* A crash, or a database error in any statement of the loop.
Exit(s) ==
  /\ process[s].pc # "down"
  /\ clock <= MaxTime
  /\ exits < MaxExits
  /\ exits' = exits + 1
  /\ process' = [process EXCEPT ![s] = Stopped]
  /\ UNCHANGED <<control_leases, clock, jobs, scheduled>>

Advance ==
  /\ clock < LastTime
  /\ clock' = clock + 1
  /\ UNCHANGED <<control_leases, jobs, scheduled, process, exits>>

Tick(s) == LoadJobs(s) \/ NextJob(s) \/ TickFails(s) \/ InsertRun(s) \/ EndTick(s)

Loop(s) == ReadClock(s) \/ BecomeLeader(s) \/ StayFollower(s) \/ Tick(s)

Next ==
  \/ \E j \in Jobs, expr \in Schedules \cup {None} : RegisterDeploy(j, expr)
  \/ \E s \in Schedulers : Start(s) \/ Loop(s) \/ Exit(s)
  \/ Advance

Spec == Init /\ [][Next]_vars

\* A process that is up keeps running its loop, one that ended is started again,
\* and time passes.
FairSpec ==
  Spec /\ WF_vars(Advance) /\ \A s \in Schedulers : WF_vars(Start(s)) /\ WF_vars(Loop(s))

-------------------------------------------------------------------------------
(* Properties *)

JobRow == [schedule : Schedules \cup {None}, created_at : Times, updated_at : Times]

TodoRow == [job : Jobs, expr : Schedules, created_at : Times]

ProcessRow == [pc : {"down", "loop", "elect", "load", "tick", "insert"},
               holder : Holders \cup {None}, now : Times, todo : SUBSET TodoRow,
               job : Jobs \cup {None}, due : SUBSET Times]

\* A process is inserting exactly while it has fire times of a job left to insert,
\* and has jobs left to tick only in a tick.
InStep(row) ==
  /\ row.pc = "insert" <=> row.due # {}
  /\ row.pc = "insert" <=> row.job # None
  /\ row.pc \notin {"tick", "insert"} => row.todo = {}

\* Every variable has its type, and every process has read what its next
\* statement uses (tick_schedules).
TypeOK ==
  /\ control_leases \in [LeaseNames -> [holder_id : Holders \cup {None},
                                        expires_at : 0 .. LastTime + LeaderTtl]]
  /\ clock \in Times
  /\ jobs \in [Jobs -> JobRow]
  /\ scheduled \in [Jobs -> [Times -> Nat]]
  /\ process \in [Schedulers -> ProcessRow]
  /\ exits \in 0 .. MaxExits
  /\ \A s \in Schedulers : InStep(process[s])

Leading(s) == process[s].pc \in {"load", "tick", "insert"}

\* The lease a process took with its now has not run out.
InLease(s) == Leading(s) /\ clock < process[s].now + LeaderTtl

\* Where no two processes are given the same leader_id, two of them are never both
\* inside the term of the lease they tick under, however old the clock value was
\* that either acquired with; beyond its term a leader may overlap its successor,
\* and does (try_acquire_control_lease, the loop of gum-scheduler).
LeadersExclude ==
  \A s, t \in Schedulers :
    s # t /\ InLease(s) /\ InLease(t) => process[s].holder = process[t].holder

\* The times at which the cron schedule of job j, in force since updated_at,
\* fires.
CronFires(j) ==
  {t \in Times : /\ jobs[j].schedule # None
                 /\ jobs[j].schedule.kind = "cron"
                 /\ jobs[j].updated_at < t
                 /\ Matches(jobs[j].schedule, t)}

\* The next catch-up starts after the latest fire time that has a run, so an
\* earlier one without a run would be lost for ever.  It never happens: of the
\* fire times of the schedule in force, none is skipped when ticks overlap, stop
\* half-way, or still work with the schedule of an older deploy.
NoFireTimeSkipped ==
  \A j \in Jobs, t, later \in Times :
    t \in CronFires(j) /\ t < later /\ scheduled[j][later] > 0 => scheduled[j][t] > 0

\* A deploy puts an end to the schedule it replaces: no run is scheduled for a time
\* after the deploy unless the schedule now in force calls for it.  Ticks may go on
\* with jobs they loaded before the deploy, but only up to the clock value they
\* read before that (tick_schedules computes with the now of its caller).
OldScheduleEnds ==
  \A j \in Jobs, t \in Times :
    scheduled[j][t] > 0 /\ jobs[j].updated_at < t =>
      /\ jobs[j].schedule # None
      /\ jobs[j].schedule.kind = "cron" => Matches(jobs[j].schedule, t)

\* A job deployed once with an interval has runs at created_at + n * every only,
\* without a gap: no overlap or stale read of the latest run shifts the phase.
IntervalKeepsPhase ==
  \A j \in Jobs :
    /\ jobs[j].schedule # None
    /\ jobs[j].schedule.kind = "interval"
    /\ jobs[j].created_at = jobs[j].updated_at
    => \A t \in Times : scheduled[j][t] > 0 =>
         LET since == t - jobs[j].created_at
             every == jobs[j].schedule.every
         IN since > 0 /\ since % every = 0 /\ (since = every \/ scheduled[j][t - every] > 0)

\* A tick that gets through its list of jobs leaves no fire time of a schedule in
\* force without its run, up to the clock value it works with: what it computes
\* from a base that another tick moves, or a deploy changes, adds up.
TickLeavesNothingDue ==
  \A s \in Schedulers :
    process[s].pc = "tick" /\ process[s].todo = {} =>
      \A j \in Jobs : \A t \in CronFires(j) : t <= process[s].now => scheduled[j][t] > 0

\* A schedule of some job that no time matches ends every tick that reaches it.
Poisoned == \E j \in Jobs : /\ jobs[j].schedule # None
                            /\ ScheduleError(jobs[j].schedule, jobs[j].created_at, clock)

\* A fire time that is due gets its run, whichever processes end meanwhile,
\* unless the job is deployed again first or the tick fails on a schedule that
\* never matches.
DueIsMaterialized ==
  \A j \in Jobs, t \in 1 .. MaxTime :
    t \in CronFires(j) /\ t <= clock
      ~> scheduled[j][t] > 0 \/ t \notin CronFires(j) \/ Poisoned

===============================================================================
