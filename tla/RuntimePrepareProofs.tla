-------------------------- MODULE RuntimePrepareProofs -------------------------
(* Theorems about the shared cache of environments, for any number of deploys   *)
(* and processes and any timeouts under which a lock outlasts a build           *)
(* (LockOutlastsBuild).  The exclusion of builders is not inductive: it rests on *)
(* the lock being young while its holder builds, and that on the timeouts of the *)
(* two commands.                                                                *)
EXTENDS RuntimePrepare, TLAPS

USE RuntimeAssumption, LockOutlastsBuild, NoneIsNoHolder
    DEF RuntimeAssumption, LockOutlastsBuild, NoneIsNoHolder

\* How old the lock may be, by how far its holder has come: it is as old as the
\* build, and each command ends in time.
LockIsYoung(p) ==
  /\ lock # None
  /\ task[p].pc = "locked" => lock = now
  /\ task[p].pc = "venv" => now - lock <= InstallTimeout
  /\ task[p].pc = "venv" => task[p].since = lock
  /\ task[p].pc = "install" => task[p].since - lock <= InstallTimeout
  /\ task[p].pc = "install" => now - task[p].since <= InstallTimeout

\* Nobody ever took a lock for stale, and the lock is that of the one builder.  An
\* environment without its dependencies is his, or a command that timed out made it.
LockIsHeld ==
  /\ \A p \in Procs : task[p].pc # "stale"
  /\ \A p \in Procs : Building(p) => LockIsYoung(p)
  /\ \A p, q \in Procs : Building(p) /\ Building(q) => p = q
  /\ lock # None => \E p \in Procs : Building(p)
  /\ timeouts = 0 /\ environment = "python" => \E p \in Procs : task[p].pc = "install"

RuntimeIInv ==
  /\ RuntimeTypeOK
  /\ crashes = 0 => LockIsHeld

-------------------------------------------------------------------------------
(* Types *)

\* A row of task that suits the clock.
TaskOK(row) ==
  /\ row \in TaskRow
  /\ row.since <= now
  /\ row.deploy = None <=> row.pc \in {"down", "idle"}

\* Only the rows of control_leases, deploys and task matter to the type once the
\* other variables have theirs.
LEMMA MovedTask ==
  ASSUME RuntimeTypeOK, NEW p \in Procs, NEW row, TaskOK(row),
         task' = [task EXCEPT ![p] = row], now' = now
  PROVE  /\ task' \in [Procs -> TaskRow]
         /\ \A q \in Procs :
              /\ task'[q].since <= now'
              /\ task'[q].deploy = None <=> task'[q].pc \in {"down", "idle"}
BY DEF RuntimeTypeOK, TaskOK

\* What replacing fields of a row gives.
LEMMA RowWith ==
  ASSUME NEW row \in TaskRow, NEW time \in 0 .. MaxTime, NEW ok \in BOOLEAN,
         NEW d \in Deploys,
         NEW pc \in {"lease", "check", "wait", "stale", "locked", "venv", "install", "report"}
  PROVE  /\ [row EXCEPT !.pc = pc] \in TaskRow
         /\ [row EXCEPT !.pc = pc, !.since = time] \in TaskRow
         /\ [row EXCEPT !.pc = pc, !.ok = ok] \in TaskRow
         /\ [row EXCEPT !.pc = pc, !.for = "prepare"] \in TaskRow
         /\ [row EXCEPT !.pc = pc, !.deploy = d] \in TaskRow
         /\ [row EXCEPT !.pc = pc, !.deploy = d, !.for = "run"] \in TaskRow
<1> USE DEF TaskRow
<1>1. [row EXCEPT !.pc = pc] \in TaskRow
  OBVIOUS
<1>2. [row EXCEPT !.pc = pc, !.since = time] \in TaskRow
  BY <1>1
<1>3. [row EXCEPT !.pc = pc, !.ok = ok] \in TaskRow
  BY <1>1
<1>4. [row EXCEPT !.pc = pc, !.for = "prepare"] \in TaskRow
  BY <1>1
<1>5. [row EXCEPT !.pc = pc, !.deploy = d] \in TaskRow
  BY <1>1
<1>6. [row EXCEPT !.pc = pc, !.deploy = d, !.for = "run"] \in TaskRow
  BY <1>5
<1> QED  BY <1>1, <1>2, <1>3, <1>4, <1>5, <1>6, Zenon

LEMMA EmptyRows ==
  /\ Down \in TaskRow /\ Down.pc = "down" /\ Down.deploy = None /\ Down.since = 0
  /\ Idle \in TaskRow /\ Idle.pc = "idle" /\ Idle.deploy = None /\ Idle.since = 0
<1>1. 0 \in 0 .. MaxTime
  BY SMT
<1> QED  BY <1>1 DEF Down, Idle, AtRest, TaskRow

\* The rows that the steps of a process give it.
LEMMA RowsOfSteps ==
  ASSUME RuntimeTypeOK, NEW p \in Procs
  PROVE  /\ TaskOK(Down) /\ TaskOK(Idle)
         /\ task[p].pc \notin {"down", "idle"} =>
              /\ task[p].deploy \in Deploys
              /\ \A pc \in {"wait", "locked", "venv", "install"} :
                   TaskOK([task[p] EXCEPT !.pc = pc, !.since = now])
              /\ \A ok \in BOOLEAN : TaskOK([task[p] EXCEPT !.pc = "report", !.ok = ok])
              /\ \A pc \in {"stale", "wait"} : TaskOK([task[p] EXCEPT !.pc = pc])
              /\ TaskOK([task[p] EXCEPT !.pc = "check", !.for = "prepare"])
         /\ \A d \in Deploys :
              /\ TaskOK([task[p] EXCEPT !.pc = "lease", !.deploy = d])
              /\ TaskOK([task[p] EXCEPT !.pc = "check", !.deploy = d, !.for = "run"])
<1>1. TaskOK(Down) /\ TaskOK(Idle)
  BY EmptyRows, SMT DEF TaskOK, RuntimeTypeOK
<1>2. /\ task[p] \in TaskRow /\ task[p].since <= now /\ now \in 0 .. MaxTime /\ now <= now
      /\ task[p].deploy = None <=> task[p].pc \in {"down", "idle"}
  BY SMT DEF RuntimeTypeOK
<1>3. ASSUME task[p].pc \notin {"down", "idle"}
      PROVE  /\ task[p].deploy \in Deploys
             /\ \A pc \in {"wait", "locked", "venv", "install"} :
                  TaskOK([task[p] EXCEPT !.pc = pc, !.since = now])
             /\ \A ok \in BOOLEAN : TaskOK([task[p] EXCEPT !.pc = "report", !.ok = ok])
             /\ \A pc \in {"stale", "wait"} : TaskOK([task[p] EXCEPT !.pc = pc])
             /\ TaskOK([task[p] EXCEPT !.pc = "check", !.for = "prepare"])
  <2>1. task[p].deploy \in Deploys /\ task[p].deploy # None
    BY <1>2, <1>3 DEF TaskRow
  <2>2. ASSUME NEW pc \in {"wait", "locked", "venv", "install"}
        PROVE  TaskOK([task[p] EXCEPT !.pc = pc, !.since = now])
    <3>1. [task[p] EXCEPT !.pc = pc, !.since = now] \in TaskRow
      BY <1>2, <2>1, RowWith, Zenon
    <3> QED  BY <1>2, <2>1, <3>1, Zenon DEF TaskOK, TaskRow
  <2>3. ASSUME NEW ok \in BOOLEAN
        PROVE  TaskOK([task[p] EXCEPT !.pc = "report", !.ok = ok])
    <3>1. [task[p] EXCEPT !.pc = "report", !.ok = ok] \in TaskRow
      BY <1>2, <2>1, RowWith, Zenon
    <3> QED  BY <1>2, <2>1, <3>1, Zenon DEF TaskOK, TaskRow
  <2>4. ASSUME NEW pc \in {"stale", "wait"}
        PROVE  TaskOK([task[p] EXCEPT !.pc = pc])
    <3>1. [task[p] EXCEPT !.pc = pc] \in TaskRow
      BY <1>2, <2>1, RowWith, Zenon
    <3> QED  BY <1>2, <2>1, <3>1, Zenon DEF TaskOK, TaskRow
  <2>5. TaskOK([task[p] EXCEPT !.pc = "check", !.for = "prepare"])
    <3>1. [task[p] EXCEPT !.pc = "check", !.for = "prepare"] \in TaskRow
      BY <1>2, <2>1, RowWith, Zenon
    <3> QED  BY <1>2, <2>1, <3>1, Zenon DEF TaskOK, TaskRow
  <2> QED  BY <2>1, <2>2, <2>3, <2>4, <2>5
<1>4. ASSUME NEW d \in Deploys
      PROVE  /\ TaskOK([task[p] EXCEPT !.pc = "lease", !.deploy = d])
             /\ TaskOK([task[p] EXCEPT !.pc = "check", !.deploy = d, !.for = "run"])
  <2>1. /\ [task[p] EXCEPT !.pc = "lease", !.deploy = d] \in TaskRow
        /\ [task[p] EXCEPT !.pc = "check", !.deploy = d, !.for = "run"] \in TaskRow
        /\ d # None
    BY <1>2, RowWith, Zenon
  <2> QED  BY <1>2, <2>1, Zenon DEF TaskOK, TaskRow
<1> QED  BY <1>1, <1>3, <1>4, Zenon

\* The initial states.
LEMMA InitRuntimeIInv == RuntimeInit => RuntimeIInv
<1> SUFFICES ASSUME RuntimeInit PROVE RuntimeIInv
  OBVIOUS
<1>1. RuntimeTypeOK
  BY EmptyRows, SMT DEF RuntimeInit, ControlLeaseInit, NoControlLease, RuntimeTypeOK
<1>2. LockIsHeld
  BY EmptyRows DEF RuntimeInit, LockIsHeld, Building
<1> QED  BY <1>1, <1>2 DEF RuntimeIInv

\* The steps keep the types.  What the lock file says is the clock's value, or
\* nothing; what a process reports is about its own deploy.
LEMMA TypeStep ==
  ASSUME RuntimeTypeOK, [RuntimeNext]_runtimeVars
  PROVE  RuntimeTypeOK'
<1> DEFINE TasksOK == /\ task' \in [Procs -> TaskRow]
                      /\ \A q \in Procs :
                           /\ task'[q].since <= now'
                           /\ task'[q].deploy = None <=> task'[q].pc \in {"down", "idle"}
<1>0. ASSUME NEW p \in Procs, NEW row, TaskOK(row),
             task' = [task EXCEPT ![p] = row], now' = now
      PROVE  TasksOK
  BY <1>0, MovedTask
<1> HIDE DEF TasksOK
<1>t. ASSUME TasksOK, UNCHANGED <<now, control_leases, faultVars>>,
             deploys' \in [Deploys -> {"Ready", "Warming", "WarmupFailed"}],
             environment' \in {"absent", "python", "complete"},
             lock' = None \/ lock' \in 0 .. now
      PROVE  RuntimeTypeOK'
  BY <1>t DEF RuntimeTypeOK, TasksOK, faultVars
<1>u. /\ deploys \in [Deploys -> {"Ready", "Warming", "WarmupFailed"}]
      /\ environment \in {"absent", "python", "complete"}
      /\ lock = None \/ lock \in 0 .. now
      /\ now \in 0 .. now
  BY SMT DEF RuntimeTypeOK
<1>1. CASE UNCHANGED runtimeVars
  BY <1>1 DEF runtimeVars, faultVars, RuntimeTypeOK
<1>2. ASSUME NEW d \in Deploys, RequestPrepare(d) PROVE RuntimeTypeOK'
  BY <1>2 DEF RequestPrepare, RuntimeTypeOK, faultVars
<1>3. CASE Tick
  <2>1. /\ now' \in 0 .. MaxTime
        /\ lock = None \/ lock \in 0 .. now'
        /\ \A q \in Procs : task[q].since <= now'
    <3>1. \A q \in Procs : task[q].since \in Nat
      BY DEF RuntimeTypeOK, TaskRow
    <3> QED  BY <1>3, <3>1, SMT DEF Tick, RuntimeTypeOK, faultVars
  <2> QED  BY <1>3, <2>1 DEF Tick, RuntimeTypeOK, faultVars
<1>4. ASSUME NEW p \in Procs, Crash(p) PROVE RuntimeTypeOK'
  <2>1. TasksOK
    BY <1>4, <1>0, RowsOfSteps DEF Crash
  <2>2. crashes' \in 0 .. MaxCrashes /\ left' \in 0 .. (crashes' + timeouts')
    BY <1>4, SMT DEF Crash, RuntimeTypeOK
  <2> QED  BY <1>4, <2>1, <2>2 DEF Crash, RuntimeTypeOK, TasksOK
<1>5. ASSUME NEW p \in Procs, LeasePrepare(p) PROVE RuntimeTypeOK'
  <2>1. TasksOK
    BY <1>5, <1>0, RowsOfSteps DEF LeasePrepare
  <2>2. control_leases' \in [LeaseNames -> [holder_id : Holders \cup {None},
                                            expires_at : 0 .. (MaxTime + LeaseTtl)]]
    <3>1. [holder_id |-> RunnerOf[p], expires_at |-> now + LeaseTtl]
            \in [holder_id : Holders \cup {None}, expires_at : 0 .. (MaxTime + LeaseTtl)]
      BY SMT DEF RuntimeTypeOK
    <3> QED  BY <1>5, <3>1 DEF LeasePrepare, Acquire, RuntimeTypeOK
  <2> QED  BY <1>5, <2>1, <2>2 DEF LeasePrepare, RuntimeTypeOK, TasksOK, faultVars
<1>6. ASSUME NEW p \in Procs,
             Start(p) \/ FindWarming(p) \/ LeaseHeld(p) \/ LeaseRun(p)
      PROVE RuntimeTypeOK'
  <2>1. TasksOK
    BY <1>6, <1>0, RowsOfSteps DEF Start, FindWarming, LeaseHeld, LeaseRun
  <2> QED  BY <1>6, <2>1, <1>t, <1>u DEF Start, FindWarming, LeaseHeld, LeaseRun
<1>7. ASSUME NEW p \in Procs, Report(p) PROVE RuntimeTypeOK'
  <2>1. TasksOK
    BY <1>7, <1>0, RowsOfSteps DEF Report
  <2>2. Reported(p) \in [Deploys -> {"Ready", "Warming", "WarmupFailed"}]
    BY <1>u DEF Reported
  <2> QED  BY <1>7, <2>1, <2>2, <1>t, <1>u DEF Report
<1>8. ASSUME NEW p \in Procs, Resolve(p) PROVE RuntimeTypeOK'
  <2>1. TasksOK
    <3>1. \A ok \in BOOLEAN :
            task[p].pc \notin {"down", "idle"} /\ Ends(p, ok) /\ now' = now => TasksOK
      BY <1>0, RowsOfSteps DEF Ends
    <3>2. \A pc \in {"wait", "locked", "venv", "install"} :
            task[p].pc \notin {"down", "idle"} /\ Goes(p, pc) /\ now' = now => TasksOK
      BY <1>0, RowsOfSteps DEF Goes
    <3>3. \A pc \in {"stale", "wait"} :
            /\ task[p].pc \notin {"down", "idle"}
            /\ task' = [task EXCEPT ![p].pc = pc] /\ now' = now
            => TasksOK
      BY <1>0, RowsOfSteps
    <3> QED
      BY <1>8, <3>1, <3>2, <3>3
      DEF Resolve, ExtractFails, CheckCache, TakeLock, FindStale, RemoveStale, GiveUp,
          Recheck, CreateVenv, Install, BuildFails, BuildTimesOut
  <2>2. /\ lock' = None \/ lock' \in 0 .. now
        /\ environment' \in {"absent", "python", "complete"}
        /\ UNCHANGED <<now, control_leases, deploys>>
    BY <1>8, <1>u
    DEF Resolve, ExtractFails, CheckCache, TakeLock, FindStale, RemoveStale, GiveUp,
        Recheck, CreateVenv, Install, BuildFails, BuildTimesOut
  <2>3. CASE BuildTimesOut(p)
    <3>1. /\ timeouts' \in 0 .. MaxTimeouts /\ crashes' = crashes
          /\ left' \in 0 .. (crashes' + timeouts')
      BY <2>3, SMT DEF BuildTimesOut, RuntimeTypeOK
    <3> QED  BY <2>1, <2>2, <3>1 DEF RuntimeTypeOK, TasksOK
  <2>4. CASE ~BuildTimesOut(p)
    <3>1. UNCHANGED faultVars
      BY <1>8, <2>4
      DEF Resolve, ExtractFails, CheckCache, TakeLock, FindStale, RemoveStale, GiveUp,
          Recheck, CreateVenv, Install, BuildFails
    <3> QED  BY <2>1, <2>2, <3>1, <1>t, <1>u
  <2> QED  BY <2>3, <2>4
<1>9. CASE LeftCommandEnds
  <2>1. left' \in 0 .. (crashes + timeouts)
    BY <1>9, SMT DEF LeftCommandEnds, RuntimeTypeOK
  <2> QED  BY <1>9, <2>1 DEF LeftCommandEnds, RuntimeTypeOK
<1> QED
  BY <1>1, <1>2, <1>3, <1>4, <1>5, <1>6, <1>7, <1>8, <1>9 DEF RuntimeNext

-------------------------------------------------------------------------------
(* The lock *)

\* While a lock is held it is no older than two commands take, so no waiter can
\* take it for stale.
LEMMA NoLockIsStale ==
  ASSUME RuntimeTypeOK, LockIsHeld, lock # None
  PROVE  ~(now - lock > LockStale)
<1>1. PICK p \in Procs : Building(p)
  BY DEF LockIsHeld
<1>2. LockIsYoung(p) /\ task[p].since \in Nat /\ now \in Nat /\ lock \in Nat
  BY <1>1 DEF LockIsHeld, RuntimeTypeOK, TaskRow
<1>3. now - lock <= 2 * InstallTimeout
  <2>1. CASE task[p].pc = "locked"
    BY <1>2, <2>1, SMT DEF LockIsYoung
  <2>2. CASE task[p].pc = "venv"
    BY <1>2, <2>2, SMT DEF LockIsYoung
  <2>3. CASE task[p].pc = "install"
    BY <1>2, <2>3, SMT DEF LockIsYoung
  <2> QED  BY <1>1, <2>1, <2>2, <2>3 DEF Building
<1> QED  BY <1>2, <1>3, SMT

\* A process that neither builds nor begins to leaves the lock as it is.
LEMMA LockUntouched ==
  ASSUME RuntimeTypeOK, LockIsHeld, NEW p \in Procs, NEW row,
         task' = [task EXCEPT ![p] = row],
         ~Building(p), row.pc \notin {"locked", "venv", "install", "stale"},
         UNCHANGED <<now, lock, environment, timeouts>>
  PROVE  LockIsHeld'
<1>1. /\ task'[p] = row
      /\ \A q \in Procs \ {p} : task'[q] = task[q]
  BY DEF RuntimeTypeOK
<1>2. \A q \in Procs : Building(q)' <=> Building(q) /\ q # p
  BY <1>1 DEF Building
<1>3. \A q \in Procs : Building(q)' => LockIsYoung(q)'
  BY <1>1, <1>2 DEF LockIsHeld, LockIsYoung
<1> QED  BY <1>1, <1>2, <1>3 DEF LockIsHeld, Building

\* The builder goes on, or another process begins when nobody builds.
LEMMA LockKept ==
  ASSUME RuntimeTypeOK, LockIsHeld, NEW p \in Procs, NEW row,
         task' = [task EXCEPT ![p] = row],
         \A q \in Procs : Building(q) => q = p,
         row.pc \in {"locked", "venv", "install"}, LockIsYoung(p)',
         timeouts' = 0 /\ environment' = "python" => row.pc = "install"
  PROVE  LockIsHeld'
<1>1. /\ task'[p] = row
      /\ \A q \in Procs \ {p} : task'[q] = task[q]
  BY DEF RuntimeTypeOK
<1>2. \A q \in Procs : Building(q)' <=> q = p
  BY <1>1 DEF Building
<1> QED  BY <1>1, <1>2 DEF LockIsHeld

\* The builder ends, and leaves no environment half made.
LEMMA LockFreed ==
  ASSUME RuntimeTypeOK, LockIsHeld, NEW p \in Procs, NEW row,
         task' = [task EXCEPT ![p] = row],
         Building(p), row.pc = "report", lock' = None,
         timeouts' = 0 => environment' # "python"
  PROVE  LockIsHeld'
<1>1. /\ task'[p] = row
      /\ \A q \in Procs \ {p} : task'[q] = task[q]
  BY DEF RuntimeTypeOK
<1>2. \A q \in Procs : ~Building(q)'
  BY <1>1 DEF Building, LockIsHeld
<1> QED  BY <1>1, <1>2 DEF LockIsHeld

\* The steps of the builder.
LEMMA BuildStep ==
  ASSUME RuntimeTypeOK, LockIsHeld, NEW p \in Procs,
         Recheck(p) \/ CreateVenv(p) \/ Install(p) \/ BuildFails(p) \/ BuildTimesOut(p)
  PROVE  LockIsHeld'
<1>1. Building(p) /\ LockIsYoung(p) /\ \A q \in Procs : Building(q) => q = p
  BY DEF Recheck, CreateVenv, Install, BuildFails, BuildTimesOut, Building, LockIsHeld
<1>2. /\ task[p].since \in Nat /\ now \in Nat /\ lock \in Nat
      /\ task \in [Procs -> TaskRow]
  BY <1>1, SMT DEF LockIsYoung, RuntimeTypeOK, TaskRow
<1>3. timeouts = 0 /\ environment = "python" => task[p].pc = "install"
  BY <1>1 DEF LockIsHeld, Building
<1>4. CASE Recheck(p)
  <2>1. (timeouts = 0 => environment # "python") /\ timeouts' = timeouts
    BY <1>3, <1>4 DEF Recheck, faultVars
  <2>2. CASE environment # "absent"
    <3> DEFINE row == [task[p] EXCEPT !.pc = "report", !.ok = TRUE]
    <3>1. row.pc = "report"
      BY <1>2 DEF TaskRow
    <3>2. task' = [task EXCEPT ![p] = row] /\ lock' = None /\ environment' = environment
      BY <1>4, <2>1, <2>2 DEF Recheck, Ends
    <3> QED  BY <1>1, <2>1, <3>1, <3>2, LockFreed
  <2>3. CASE environment = "absent"
    <3> DEFINE row == [task[p] EXCEPT !.pc = "venv", !.since = now]
    <3>1. row.pc = "venv" /\ row.since = now
      BY <1>2 DEF TaskRow
    <3>2. task' = [task EXCEPT ![p] = row] /\ UNCHANGED <<now, lock, environment>>
      BY <1>4, <2>3 DEF Recheck, Goes
    <3>3. task'[p] = row /\ lock = now
      BY <1>1, <1>2, <1>4, <3>2 DEF LockIsYoung, Recheck
    <3>4. LockIsYoung(p)'
      BY <1>1, <1>2, <3>1, <3>2, <3>3, SMT DEF LockIsYoung
    <3> QED  BY <1>1, <2>1, <3>1, <3>2, <3>4, LockKept
  <2> QED  BY <2>2, <2>3
<1>5. CASE CreateVenv(p)
  <2> DEFINE row == [task[p] EXCEPT !.pc = "install", !.since = now]
  <2>1. row.pc = "install" /\ row.since = now
    BY <1>2 DEF TaskRow
  <2>2. task' = [task EXCEPT ![p] = row] /\ UNCHANGED <<now, lock>>
    BY <1>5 DEF CreateVenv, Goes
  <2>3. task'[p] = row /\ now - lock <= InstallTimeout
    BY <1>1, <1>2, <1>5, <2>2 DEF LockIsYoung, CreateVenv
  <2>4. LockIsYoung(p)'
    BY <1>1, <1>2, <2>1, <2>2, <2>3, SMT DEF LockIsYoung
  <2> QED  BY <1>1, <2>1, <2>2, <2>4, LockKept
<1>6. CASE Install(p)
  <2> DEFINE row == [task[p] EXCEPT !.pc = "report", !.ok = TRUE]
  <2>1. row.pc = "report"
    BY <1>2 DEF TaskRow
  <2> QED  BY <1>1, <1>6, <2>1, LockFreed DEF Install, Ends
<1>7. CASE BuildFails(p) \/ BuildTimesOut(p)
  <2> DEFINE row == [task[p] EXCEPT !.pc = "report", !.ok = FALSE]
  <2>1. row.pc = "report"
    BY <1>2 DEF TaskRow
  <2> QED  BY <1>1, <1>7, <2>1, LockFreed DEF BuildFails, BuildTimesOut, Ends
<1> QED  BY <1>4, <1>5, <1>6, <1>7

\* The steps before a build.
LEMMA WaitStep ==
  ASSUME RuntimeTypeOK, LockIsHeld, NEW p \in Procs,
         \/ ExtractFails(p) \/ CheckCache(p)
         \/ TakeLock(p) \/ FindStale(p) \/ RemoveStale(p) \/ GiveUp(p)
  PROVE  LockIsHeld'
<1>1. task \in [Procs -> TaskRow] /\ now \in Nat
  BY DEF RuntimeTypeOK
<1>2. ~FindStale(p) /\ ~RemoveStale(p)
  BY NoLockIsStale DEF FindStale, RemoveStale, LockIsHeld
<1>3. CASE TakeLock(p)
  <2> DEFINE row == [task[p] EXCEPT !.pc = "locked", !.since = now]
  <2>1. row.pc = "locked" /\ row.since = now
    BY <1>1 DEF TaskRow
  <2>2. task' = [task EXCEPT ![p] = row] /\ lock' = now /\ UNCHANGED <<now, environment, timeouts>>
    BY <1>3 DEF TakeLock, Goes, faultVars
  <2>3. task'[p] = row
    BY <1>1, <2>2
  <2>4. \A q \in Procs : ~Building(q)
    BY <1>3 DEF TakeLock, LockIsHeld, LockIsYoung
  <2>5. LockIsYoung(p)'
    <3>1. now # None
      BY SMT DEF RuntimeTypeOK
    <3> QED  BY <1>1, <2>1, <2>2, <2>3, <3>1, SMT DEF LockIsYoung
  <2>6. timeouts = 0 => environment # "python"
    BY <2>4 DEF LockIsHeld, Building
  <2> QED  BY <2>1, <2>2, <2>4, <2>5, <2>6, LockKept
<1>4. CASE ExtractFails(p) \/ CheckCache(p) \/ GiveUp(p)
  <2>1. PICK row :
          /\ task' = [task EXCEPT ![p] = row]
          /\ row.pc \in {"report", "wait"}
    <3>1. /\ \A ok \in BOOLEAN : [task[p] EXCEPT !.pc = "report", !.ok = ok].pc = "report"
          /\ [task[p] EXCEPT !.pc = "wait", !.since = now].pc = "wait"
      BY <1>1, Zenon DEF TaskRow
    <3> QED  BY <1>4, <3>1, Zenon DEF ExtractFails, CheckCache, GiveUp, Ends, Goes
  <2>2. ~Building(p) /\ UNCHANGED <<now, lock, environment, timeouts>>
    BY <1>4 DEF ExtractFails, CheckCache, GiveUp, Building, faultVars
  <2> QED  BY <2>1, <2>2, LockUntouched
<1> QED  BY <1>2, <1>3, <1>4

\* The steps outside resolve_runtime_python_fields.
LEMMA OtherStep ==
  ASSUME RuntimeTypeOK, LockIsHeld, NEW p \in Procs,
         \/ Start(p) \/ FindWarming(p) \/ LeasePrepare(p) \/ LeaseHeld(p) \/ LeaseRun(p)
         \/ Report(p)
  PROVE  LockIsHeld'
<1>1. task \in [Procs -> TaskRow]
  BY DEF RuntimeTypeOK
<1>2. PICK row :
        /\ task' = [task EXCEPT ![p] = row]
        /\ row.pc \in {"idle", "lease", "check"}
  <2>1. /\ Idle.pc = "idle"
        /\ \A d \in Deploys :
             /\ [task[p] EXCEPT !.pc = "lease", !.deploy = d].pc = "lease"
             /\ [task[p] EXCEPT !.pc = "check", !.deploy = d, !.for = "run"].pc = "check"
        /\ [task[p] EXCEPT !.pc = "check", !.for = "prepare"].pc = "check"
    BY <1>1, EmptyRows, Zenon DEF TaskRow
  <2> QED
    BY <2>1, Zenon DEF Start, FindWarming, LeasePrepare, LeaseHeld, LeaseRun, Report
<1>3. ~Building(p) /\ UNCHANGED <<now, lock, environment, timeouts>>
  BY DEF Start, FindWarming, LeasePrepare, LeaseHeld, LeaseRun, Report, Building, faultVars
<1> QED  BY <1>2, <1>3, LockUntouched

\* A builder's command ends before time goes on beyond its timeout.
LEMMA TickStep ==
  ASSUME RuntimeTypeOK, LockIsHeld, Tick
  PROVE  LockIsHeld'
<1>1. \A p \in Procs : Building(p)' <=> Building(p)
  BY DEF Tick, Building
<1>2. ASSUME NEW p \in Procs, Building(p) PROVE LockIsYoung(p)'
  <2>1. /\ task[p].since \in Nat /\ now \in Nat /\ lock \in Nat
        /\ LockIsYoung(p) /\ ~Overdue(p)
    BY <1>2, SMT DEF LockIsHeld, LockIsYoung, RuntimeTypeOK, TaskRow, Tick
  <2>2. task[p].pc # "locked" /\ now - task[p].since < InstallTimeout
    BY <1>2, <2>1, SMT DEF Overdue, Building
  <2> QED  BY <2>1, <2>2, SMT DEF LockIsYoung, Tick
<1> QED  BY <1>1, <1>2 DEF LockIsHeld, Tick, faultVars

\* A command nobody waits for leaves the lock alone, and was there only after a
\* timeout.
LEMMA LeftStep ==
  ASSUME RuntimeTypeOK, LockIsHeld, crashes = 0, LeftCommandEnds
  PROVE  LockIsHeld'
<1>1. timeouts # 0
  BY SMT DEF RuntimeTypeOK, LeftCommandEnds
<1> QED  BY <1>1 DEF LockIsHeld, LockIsYoung, Building, LeftCommandEnds

\* The invariant the theorems below follow from.
THEOREM RuntimeInvariant == RuntimeSpec => []RuntimeIInv
<1>1. RuntimeIInv /\ [RuntimeNext]_runtimeVars => RuntimeIInv'
  <2> SUFFICES ASSUME RuntimeIInv, [RuntimeNext]_runtimeVars, crashes' = 0
               PROVE  LockIsHeld'
    BY TypeStep DEF RuntimeIInv
  <2>1. RuntimeTypeOK
    BY DEF RuntimeIInv
  <2>2. \A p \in Procs : ~Crash(p)
    BY <2>1, SMT DEF Crash, RuntimeTypeOK
  <2>3. crashes = 0
    BY <2>2 DEF RuntimeNext, runtimeVars, RequestPrepare, Tick, Start, FindWarming,
                LeasePrepare, LeaseHeld, LeaseRun, Report, Resolve, ExtractFails,
                CheckCache, TakeLock, FindStale, RemoveStale, GiveUp, Recheck,
                CreateVenv, Install, BuildFails, BuildTimesOut, LeftCommandEnds, faultVars
  <2>4. LockIsHeld
    BY <2>3 DEF RuntimeIInv
  <2>5. CASE UNCHANGED runtimeVars
    BY <2>4, <2>5 DEF runtimeVars, faultVars, LockIsHeld, LockIsYoung, Building
  <2>6. ASSUME NEW d \in Deploys, RequestPrepare(d) PROVE LockIsHeld'
    BY <2>4, <2>6 DEF RequestPrepare, faultVars, LockIsHeld, LockIsYoung, Building
  <2>7. ASSUME NEW p \in Procs, Resolve(p) PROVE LockIsHeld'
    BY <2>1, <2>4, <2>7, WaitStep, BuildStep DEF Resolve
  <2> QED
    BY <2>1, <2>2, <2>4, <2>5, <2>6, <2>7, <2>3, OtherStep, TickStep, LeftStep
    DEF RuntimeNext
<1> QED  BY <1>1, InitRuntimeIInv, PTL DEF RuntimeSpec

\* Every variable keeps its type, no time lies in the future, and a process has a
\* deploy exactly while it works on one (RuntimeTypeOK).
THEOREM RuntimeTypeCorrect == RuntimeSpec => []RuntimeTypeOK
<1>1. RuntimeIInv => RuntimeTypeOK
  BY DEF RuntimeIInv
<1> QED  BY <1>1, RuntimeInvariant, PTL

\* As long as no process has crashed, at most one builds the environment, whatever
\* the number of processes that want it (acquire_runtime_build_lock).
THEOREM BuildersAreAlone == RuntimeSpec => []BuildersExclude
<1>1. RuntimeIInv => BuildersExclude
  BY DEF RuntimeIInv, LockIsHeld, BuildersExclude
<1> QED  BY <1>1, RuntimeInvariant, PTL

\* As long as no process has crashed and no command has timed out, an environment
\* without its dependencies is being built (resolve_runtime_python_fields removes it
\* when a command fails).
THEOREM PartialIsBeingBuilt == RuntimeSpec => []PartialIsBuilding
<1>1. RuntimeIInv => PartialIsBuilding
  BY DEF RuntimeIInv, LockIsHeld, PartialIsBuilding
<1> QED  BY <1>1, RuntimeInvariant, PTL

===============================================================================
