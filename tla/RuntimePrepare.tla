----------------------------- MODULE RuntimePrepare ----------------------------
(* Preparation of a deploy's runtime: the statuses a deploy goes through         *)
(* (request_, lease_ and complete_runtime_prepare in gum-api/src/service.rs) and *)
(* the cache of virtual environments that every runner process of a machine      *)
(* shares (resolve_runtime_python_fields in gum-runner/src/execution.rs), which  *)
(* an attempt fills too when it finds nothing there.                             *)
(*                                                                               *)
(* The deploys have one dependency set, so one environment and one lock file.    *)
(* A command that times out, or whose process crashes, is not killed: it goes on *)
(* and may still write to the directory.                                         *)
(*                                                                               *)
(* Left out: deploys without dependencies, which are Ready at once and never     *)
(* Warming; the collection of environments not used for days; files that two     *)
(* commands mix up in a directory both have completed.                           *)
EXTENDS ControlLease

CONSTANTS
  Deploys,          \* deploys with that dependency set; each names a control lease
  Procs,            \* runner processes of one machine
  RunnerOf,         \* [Procs -> Holders]: the runner_id each is configured with
  LeaseTtl,         \* runtime_prepare_lease_ttl_secs
  InstallTimeout,   \* dependency_install_timeout_secs, of each command
  LockTimeout,      \* GUM_RUNTIME_BUILD_LOCK_TIMEOUT_SECS
  LockStale,        \* GUM_RUNTIME_BUILD_LOCK_STALE_SECS
  MaxTime,          \* bound: the last clock value
  MaxCrashes,       \* bound: ends of processes
  MaxTimeouts       \* bound: commands that time out

ASSUME RuntimeAssumption ==
  /\ Deploys \subseteq LeaseNames
  /\ RunnerOf \in [Procs -> Holders]
  /\ LeaseTtl \in Nat /\ LockTimeout \in Nat
  /\ InstallTimeout \in Nat /\ LockStale \in Nat
  /\ MaxTime \in Nat /\ MaxCrashes \in Nat /\ MaxTimeouts \in Nat
  /\ None \notin Deploys /\ None \notin 0 .. MaxTime

\* As the defaults are: 300 seconds twice, and 900.
ASSUME LockOutlastsBuild == 2 * InstallTimeout <= LockStale

VARIABLES
  now,
  deploys,       \* [Deploys -> status]
  environment,   \* the directory: absent, with a python, with its dependencies too
  lock,          \* when the lock file was created, or None
  task,          \* [Procs -> what the process is doing]
  left,          \* how many commands run that no process waits for
  crashes,       \* crashes so far
  timeouts       \* timeouts of commands so far

faultVars == <<left, crashes, timeouts>>

runtimeVars == <<control_leases, now, deploys, environment, lock, task, faultVars>>

AtRest(pc) == [pc |-> pc, deploy |-> None, for |-> None, since |-> 0, ok |-> FALSE]

Down == AtRest("down")

Idle == AtRest("idle")

RuntimeInit ==
  /\ ControlLeaseInit
  /\ now = 0
  /\ deploys = [d \in Deploys |-> "Ready"]
  /\ environment = "absent"
  /\ lock = None
  /\ task = [p \in Procs |-> Down]
  /\ left = 0 /\ crashes = 0 /\ timeouts = 0

Goes(p, pc) == task' = [task EXCEPT ![p] = [@ EXCEPT !.pc = pc, !.since = now]]

Ends(p, ok) == task' = [task EXCEPT ![p] = [@ EXCEPT !.pc = "report", !.ok = ok]]

-------------------------------------------------------------------------------
(* The API *)

\* Whatever the status was, and whoever is preparing.
RequestPrepare(d) ==
  /\ deploys' = [deploys EXCEPT ![d] = "Warming"]
  /\ UNCHANGED <<control_leases, now, environment, lock, task, faultVars>>

-------------------------------------------------------------------------------
(* A process takes work *)

Start(p) ==
  /\ task[p].pc = "down"
  /\ task' = [task EXCEPT ![p] = Idle]
  /\ UNCHANGED <<control_leases, now, deploys, environment, lock, faultVars>>

\* list_deploys_by_status: a candidate, which may be Warming no longer when its
\* lease is asked for.
FindWarming(p) ==
  /\ task[p].pc = "idle"
  /\ \E d \in Deploys :
       /\ deploys[d] = "Warming"
       /\ task' = [task EXCEPT ![p] = [@ EXCEPT !.pc = "lease", !.deploy = d]]
  /\ UNCHANGED <<control_leases, now, deploys, environment, lock, faultVars>>

LeasePrepare(p) ==
  /\ task[p].pc = "lease"
  /\ Acquire(task[p].deploy, RunnerOf[p], LeaseTtl, now)
  /\ task' = [task EXCEPT ![p] = [@ EXCEPT !.pc = "check", !.for = "prepare"]]
  /\ UNCHANGED <<now, deploys, environment, lock, faultVars>>

LeaseHeld(p) ==
  /\ task[p].pc = "lease"
  /\ ~MayAcquire(task[p].deploy, RunnerOf[p], now)
  /\ task' = [task EXCEPT ![p] = Idle]
  /\ UNCHANGED <<control_leases, now, deploys, environment, lock, faultVars>>

\* An attempt of a run; lease_next_attempt does not ask for the deploy's status.
LeaseRun(p) ==
  /\ task[p].pc = "idle"
  /\ \E d \in Deploys :
       task' = [task EXCEPT ![p] = [@ EXCEPT !.pc = "check", !.deploy = d, !.for = "run"]]
  /\ UNCHANGED <<control_leases, now, deploys, environment, lock, faultVars>>

-------------------------------------------------------------------------------
(* resolve_runtime_python_fields *)

\* The bundle cannot be unpacked.
ExtractFails(p) ==
  /\ task[p].pc = "check"
  /\ Ends(p, FALSE)
  /\ UNCHANGED <<control_leases, now, deploys, environment, lock, faultVars>>

\* A python in the directory is a hit, without asking for the lock.
CheckCache(p) ==
  /\ task[p].pc = "check"
  /\ IF environment # "absent" THEN Ends(p, TRUE) ELSE Goes(p, "wait")
  /\ UNCHANGED <<control_leases, now, deploys, environment, lock, faultVars>>

\* Mutant of TakeLock: opens the file without create_new.
TakeLockShared(p) ==
  /\ task[p].pc = "wait"
  /\ lock' = now
  /\ Goes(p, "locked")
  /\ UNCHANGED <<control_leases, now, deploys, environment, faultVars>>

TakeLock(p) ==
  /\ task[p].pc = "wait"
  /\ lock = None
  /\ lock' = now
  /\ Goes(p, "locked")
  /\ UNCHANGED <<control_leases, now, deploys, environment, faultVars>>

\* The file is there: the waiter decides whether it is stale ...
FindStale(p) ==
  /\ task[p].pc = "wait"
  /\ lock # None
  /\ now - lock > LockStale
  /\ task' = [task EXCEPT ![p].pc = "stale"]
  /\ UNCHANGED <<control_leases, now, deploys, environment, lock, faultVars>>

TimedOut(p) == now - task[p].since >= LockTimeout

\* ... and removes the file that is there by then, before it looks at the time.
RemoveStale(p) ==
  /\ task[p].pc = "stale"
  /\ lock' = None
  /\ IF TimedOut(p) THEN Ends(p, FALSE) ELSE task' = [task EXCEPT ![p].pc = "wait"]
  /\ UNCHANGED <<control_leases, now, deploys, environment, faultVars>>

GiveUp(p) ==
  /\ task[p].pc = "wait"
  /\ lock # None
  /\ now - lock <= LockStale
  /\ TimedOut(p)
  /\ Ends(p, FALSE)
  /\ UNCHANGED <<control_leases, now, deploys, environment, lock, faultVars>>

\* The end of every branch below drops the guard, which removes the lock file,
\* its own or not.
Recheck(p) ==
  /\ task[p].pc = "locked"
  /\ IF environment # "absent"
     THEN Ends(p, TRUE) /\ lock' = None
     ELSE Goes(p, "venv") /\ UNCHANGED lock
  /\ UNCHANGED <<control_leases, now, deploys, environment, faultVars>>

CreateVenv(p) ==
  /\ task[p].pc = "venv"
  /\ environment' = IF environment = "absent" THEN "python" ELSE environment
  /\ Goes(p, "install")
  /\ UNCHANGED <<control_leases, now, deploys, lock, faultVars>>

\* uv builds the environment anew where another builder's failure has removed it;
\* pip fails on it.
Install(p) ==
  /\ task[p].pc = "install"
  /\ environment' = "complete"
  /\ Ends(p, TRUE)
  /\ lock' = None
  /\ UNCHANGED <<control_leases, now, deploys, faultVars>>

\* Mutant of BuildFails: leaves the directory as it is.
BuildFailsLeaving(p) ==
  /\ task[p].pc \in {"venv", "install"}
  /\ Ends(p, FALSE)
  /\ lock' = None
  /\ UNCHANGED <<control_leases, now, deploys, environment, faultVars>>

\* A command fails: the directory is removed.
BuildFails(p) ==
  /\ task[p].pc \in {"venv", "install"}
  /\ environment' = "absent"
  /\ Ends(p, FALSE)
  /\ lock' = None
  /\ UNCHANGED <<control_leases, now, deploys, faultVars>>

\* A command is not waited for any longer, and goes on.
BuildTimesOut(p) ==
  /\ task[p].pc \in {"venv", "install"}
  /\ now - task[p].since >= InstallTimeout
  /\ timeouts < MaxTimeouts
  /\ timeouts' = timeouts + 1
  /\ left' = left + 1
  /\ environment' = "absent"
  /\ Ends(p, FALSE)
  /\ lock' = None
  /\ UNCHANGED <<control_leases, now, deploys, crashes>>

\* It may still create the environment, or complete one.
LeftCommandEnds ==
  /\ left > 0
  /\ left' = left - 1
  /\ \/ UNCHANGED environment
     \/ environment = "absent" /\ environment' = "python"
     \/ environment = "python" /\ environment' = "complete"
  /\ UNCHANGED <<control_leases, now, deploys, lock, task, crashes, timeouts>>

Reported(p) ==
  IF task[p].for = "run" THEN deploys
  ELSE [deploys EXCEPT ![task[p].deploy] = IF task[p].ok THEN "Ready" ELSE "WarmupFailed"]

\* Mutant of Report: the process keeps what it worked on.
ReportStays(p) ==
  /\ task[p].pc = "report"
  /\ deploys' = Reported(p)
  /\ Goes(p, "idle")
  /\ UNCHANGED <<control_leases, now, environment, lock, faultVars>>

\* complete_runtime_prepare, which compares neither holder nor status; an attempt
\* reports elsewhere.
Report(p) ==
  /\ task[p].pc = "report"
  /\ deploys' = Reported(p)
  /\ task' = [task EXCEPT ![p] = Idle]
  /\ UNCHANGED <<control_leases, now, environment, lock, faultVars>>

\* No guard is dropped, no directory removed; the command ends with its process
\* or not.
Crash(p) ==
  /\ task[p].pc # "down"
  /\ crashes < MaxCrashes
  /\ crashes' = crashes + 1
  /\ \/ UNCHANGED left
     \/ task[p].pc \in {"venv", "install"} /\ left' = left + 1
  /\ task' = [task EXCEPT ![p] = Down]
  /\ UNCHANGED <<control_leases, now, deploys, environment, lock, timeouts>>

-------------------------------------------------------------------------------

\* A command has ended by its timeout, and a waiter by its own; between the lock
\* and the first command a process does not stop.
Overdue(p) ==
  \/ task[p].pc = "locked"
  \/ task[p].pc \in {"venv", "install"} /\ now - task[p].since >= InstallTimeout
  \/ task[p].pc = "wait" /\ TimedOut(p)

Tick ==
  /\ now < MaxTime
  /\ \A p \in Procs : ~Overdue(p)
  /\ now' = now + 1
  /\ UNCHANGED <<control_leases, deploys, environment, lock, task, faultVars>>

Resolve(p) ==
  \/ ExtractFails(p) \/ CheckCache(p)
  \/ TakeLock(p) \/ FindStale(p) \/ RemoveStale(p) \/ GiveUp(p)
  \/ Recheck(p) \/ CreateVenv(p) \/ Install(p) \/ BuildFails(p) \/ BuildTimesOut(p)

RuntimeNext ==
  \/ \E d \in Deploys : RequestPrepare(d)
  \/ \E p \in Procs :
       \/ Start(p) \/ FindWarming(p) \/ LeasePrepare(p) \/ LeaseHeld(p) \/ LeaseRun(p)
       \/ Resolve(p) \/ Report(p) \/ Crash(p)
  \/ LeftCommandEnds
  \/ Tick

RuntimeSpec == RuntimeInit /\ [][RuntimeNext]_runtimeVars

-------------------------------------------------------------------------------
(* Properties *)

TaskRow == [pc : {"down", "idle", "lease", "check", "wait", "stale", "locked", "venv",
                  "install", "report"},
            deploy : Deploys \cup {None}, for : {"prepare", "run", None},
            since : 0 .. MaxTime, ok : BOOLEAN]

\* Every variable has its type, no time lies in the future, and a process has a
\* deploy exactly while it works on one (the loop of gum-runner).
RuntimeTypeOK ==
  /\ control_leases \in [LeaseNames -> [holder_id : Holders \cup {None},
                                       expires_at : 0 .. (MaxTime + LeaseTtl)]]
  /\ now \in 0 .. MaxTime
  /\ deploys \in [Deploys -> {"Ready", "Warming", "WarmupFailed"}]
  /\ environment \in {"absent", "python", "complete"}
  /\ lock = None \/ lock \in 0 .. now
  /\ task \in [Procs -> TaskRow]
  /\ crashes \in 0 .. MaxCrashes /\ timeouts \in 0 .. MaxTimeouts
  /\ left \in 0 .. (crashes + timeouts)
  /\ \A p \in Procs :
       /\ task[p].since <= now
       /\ task[p].deploy = None <=> task[p].pc \in {"down", "idle"}

Building(p) == task[p].pc \in {"locked", "venv", "install"}

\* Two processes build in the directory together only when one has crashed before:
\* no waiter takes the lock of a build in progress for stale, however slow its
\* commands are, and no guard that is dropped frees the lock of another
\* (acquire_runtime_build_lock).  A command that timed out may still write beside
\* the next builder.
BuildersExclude ==
  crashes = 0 => \A p, q \in Procs : Building(p) /\ Building(q) => p = q

\* Until a process crashes or a command times out, an environment with a python and
\* without its dependencies is one that somebody is installing them into: commands
\* that fail leave nothing behind that a later lookup would take for prepared
\* (resolve_runtime_python_fields).
PartialIsBuilding ==
  crashes = 0 /\ timeouts = 0 /\ environment = "python"
    => \E p \in Procs : task[p].pc = "install"

\* A deploy that was Warming does not become Ready on an environment that lacks its
\* dependencies and that nobody is installing them into: docs/GUM_ARCHITECTURE.md
\* calls ready "available for normal execution" and tells it from a deploy whose
\* "cached runtime is not ready yet".  (An absent environment would be built by the
\* first attempt; one with a python in it is used as it is.)
ReadyIsPrepared ==
  [][\A d \in Deploys :
       /\ deploys[d] = "Warming" /\ deploys'[d] = "Ready"
       /\ environment = "python"
       => left > 0 \/ \E p \in Procs : task[p].pc = "install"]_runtimeVars

===============================================================================
