---------------------------- MODULE GumSystemProofs ----------------------------
(* Theorems about the runner processes and the store together.  The composed  *)
(* system implements the store, so the store's invariant is its invariant too; *)
(* the rest says what a process and its handler know of the store's rows.      *)
EXTENDS GumSystem, GumStoreLimitProofs

\* What the process p and its attempt have in common at each place of its loop.
Working(p) ==
  LET pc == process[p].pc
      a == process[p].attempt
      outcome == process[p].outcome
  IN
  /\ a # None <=> pc \in {"prepare", "execute", "report"}
  /\ a # None => attempts[a].runner = RunnerOf[p] /\ leases[a].state \in {"open", "released"}
  /\ pc = "prepare" => handler[a] = "none"
  /\ pc = "execute" => handler[a] \in {"alive", "succeeded", "failed"}
  /\ pc = "report" =>
       /\ outcome # None /\ handler[a] # "alive"
       /\ outcome.status = "Succeeded" => handler[a] = "succeeded"
       /\ outcome.status \in {"TimedOut", "Canceled"} =>
            handler[a] \in {"killed", "succeeded", "failed"}

\* No two processes work on one attempt.
Alone ==
  \A p \in Procs : \A s \in Procs \ {p} :
    process[p].attempt # None => process[s].attempt # process[p].attempt

\* What the row of an attempt says of its handler.
Told(a) ==
  /\ handler[a] = "alive" => leases[a].state \in {"open", "released"}
  /\ attempts[a].status = "none" => handler[a] = "none"
  /\ attempts[a].status = "Succeeded" => handler[a] = "succeeded"
  /\ attempts[a].status \in {"TimedOut", "Canceled"} =>
       handler[a] \in {"killed", "succeeded", "failed"}

SystemTypes ==
  /\ process \in [Procs -> ProcessRow]
  /\ handler \in [Attempts -> HandlerStates]
  /\ crashes \in 0 .. MaxCrashes

SystemIInv ==
  /\ IInv
  /\ SystemTypes
  /\ \A p \in Procs : Working(p)
  /\ Alone
  /\ \A a \in Attempts : Told(a)

-------------------------------------------------------------------------------
(* What the store's operations do to the columns a process depends on *)

Unmoved(a) ==
  /\ attempts'[a].status = attempts[a].status
  /\ attempts'[a].runner = attempts[a].runner
  /\ leases'[a].state = leases[a].state

Lost(a) ==
  /\ attempts[a].status = "Running" /\ attempts'[a].status = "Failed"
  /\ attempts'[a].runner = attempts[a].runner
  /\ leases[a].state = "open" /\ leases'[a].state = "released"

\* No operation but a poll, a recovery and a completion ends or starts an attempt.
LEMMA QuietOperations ==
  ASSUME TypeOK,
         \/ Deploy \/ Enqueue \/ Replay
         \/ \E r \in Runners : RegisterRunner(r)
         \/ \E r \in Runners : \E active \in SUBSET Attempts : HeartbeatRunner(r, active)
         \/ \E q \in Runs : CancelRun(q)
         \/ Tick \/ UNCHANGED vars
  PROVE  \A a \in Attempts : Unmoved(a)
<1> SUFFICES ASSUME NEW a \in Attempts
             PROVE  Unmoved(a)
  OBVIOUS
<1>r. attempts[a] \in AttemptRow /\ leases[a] \in LeaseRow
  BY DEF TypeOK
<1>1. CASE Deploy \/ Enqueue \/ Replay \/ (\E r \in Runners : RegisterRunner(r)) \/ UNCHANGED vars
  BY <1>1 DEF Deploy, RegisterDeploy, Enqueue, EnqueueRun, Replay, ReplayRun, RegisterRunner,
              vars, Unmoved
<1>2. CASE \E r \in Runners : \E active \in SUBSET Attempts : HeartbeatRunner(r, active)
  <2>1. attempts' = attempts
        /\ (leases'[a] = leases[a] \/ leases'[a] = [leases[a] EXCEPT !.left = LeaseTtl])
    BY <1>2 DEF HeartbeatRunner
  <2>2. QED
    BY <2>1, <1>r, LeaseColumns DEF Unmoved
<1>3. CASE \E q \in Runs : CancelRun(q)
  <2>1. CASE attempts' = attempts /\ leases' = leases
    BY <2>1 DEF Unmoved
  <2>2. CASE \E q \in Runs, b \in Attempts : CancelRunningRun(q, b)
    <3>1. /\ attempts'[a] = attempts[a]
             \/ attempts'[a] = [attempts[a] EXCEPT !.cancel_requested = TRUE]
          /\ leases'[a] = leases[a] \/ leases'[a] = [leases[a] EXCEPT !.revoke_requested = TRUE]
      BY ZenonT(60), <2>2 DEF CancelRunningRun, TypeOK
    <3>2. attempts'[a].status = attempts[a].status /\ attempts'[a].runner = attempts[a].runner
      BY <3>1, <1>r DEF AttemptRow
    <3>3. QED
      BY <3>1, <3>2, <1>r, LeaseColumns DEF Unmoved
  <2>3. QED
    BY <1>3, <2>1, <2>2 DEF CancelRun, CancelQueuedRun
<1>4. CASE Tick
  <2>1. /\ attempts'[a] = [attempts[a] EXCEPT !.window = Less(@)]
        /\ leases'[a] = [leases[a] EXCEPT !.left = Less(@)]
    BY <1>4 DEF Tick
  <2>2. attempts'[a].status = attempts[a].status /\ attempts'[a].runner = attempts[a].runner
    BY <2>1, <1>r DEF AttemptRow
  <2>3. QED
    BY <2>1, <2>2, <1>r, LeaseColumns DEF Unmoved
<1>5. QED
  BY <1>1, <1>2, <1>3, <1>4

\* The columns of a recovered attempt.
LEMMA RecoveredColumns ==
  ASSUME TypeOK, NEW a \in Attempts
  PROVE  LET ats == RecoveredAttempts(LostAttempts)
             ls == RecoveredLeases(LostAttempts)
         IN /\ ats[a].runner = attempts[a].runner
            /\ IF a \in LostAttempts
               THEN /\ attempts[a].status = "Running" /\ ats[a].status = "Failed"
                    /\ leases[a].state = "open" /\ ls[a].state = "released"
               ELSE ats[a] = attempts[a] /\ ls[a] = leases[a]
<1> DEFINE ats == RecoveredAttempts(LostAttempts)
           ls == RecoveredLeases(LostAttempts)
<1>1. attempts[a] \in AttemptRow /\ leases[a] \in LeaseRow
  BY DEF TypeOK
<1>2. CASE a \in LostAttempts
  <2>1. /\ ats[a] = [attempts[a] EXCEPT !.status = "Failed"]
        /\ ls[a] = [leases[a] EXCEPT !.state = "released", !.left = 0]
    BY <1>2 DEF RecoveredAttempts, RecoveredLeases
  <2>2. attempts[a].status = "Running" /\ leases[a].state = "open"
    BY <1>2 DEF LostAttempts
  <2> HIDE DEF ats, ls
  <2>3. ats[a].runner = attempts[a].runner /\ ats[a].status = "Failed"
    BY <2>1, <1>1 DEF AttemptRow
  <2>4. ls[a].state = "released"
    BY <2>1, <1>1, LeaseColumns
  <2>5. QED
    BY <1>2, <2>2, <2>3, <2>4 DEF ats, ls
<1>3. CASE a \notin LostAttempts
  BY <1>3 DEF RecoveredAttempts, RecoveredLeases
<1>4. QED
  BY <1>2, <1>3

LEMMA RecoveryColumns ==
  ASSUME TypeOK, RecoverLostAttempts
  PROVE  \A a \in Attempts : Unmoved(a) \/ Lost(a)
<1> SUFFICES ASSUME NEW a \in Attempts
             PROVE  Unmoved(a) \/ Lost(a)
  OBVIOUS
<1>1. attempts' = RecoveredAttempts(LostAttempts) /\ leases' = RecoveredLeases(LostAttempts)
  BY DEF RecoverLostAttempts
<1>2. QED
  BY <1>1, RecoveredColumns DEF Unmoved, Lost

\* A poll that succeeds starts an attempt that did not exist before.
LEMMA LeaseColumnsKept ==
  ASSUME TypeOK, NEW r \in Runners, NEW q \in Runs, NEW id \in Attempts,
         LeaseNextAttempt(r, q, id)
  PROVE  /\ attempts[id].status = "none"
         /\ attempts'[id].status = "Running" /\ attempts'[id].runner = r
         /\ leases'[id].state = "open"
         /\ \A a \in Attempts \ {id} : Unmoved(a) \/ Lost(a)
<1> DEFINE rs == RecoveredRuns(LostAttempts)
           ats == RecoveredAttempts(LostAttempts)
           ls == RecoveredLeases(LostAttempts)
           lease == [state |-> "open", left |-> LeaseTtl, revoke_requested |-> FALSE]
<1>1. /\ attempts' = [ats EXCEPT ![id] = StartedAttempt(rs[q], q, r)]
      /\ leases' = [ls EXCEPT ![id] = lease]
      /\ attempts[id].status = "none"
  BY DEF LeaseNextAttempt, IsNextId
<1>2. ats \in [Attempts -> AttemptRow] /\ ls \in [Attempts -> LeaseRow]
  BY RecoveryTypes DEF TypeOK, TablesOK, LostAttempts
<1> HIDE DEF ats, ls, rs
<1>3. attempts'[id] = StartedAttempt(rs[q], q, r) /\ leases'[id] = lease
  BY <1>1, <1>2
<1>4. \A a \in Attempts \ {id} : attempts'[a] = ats[a] /\ leases'[a] = ls[a]
  BY <1>1, <1>2
<1>5. \A a \in Attempts \ {id} : Unmoved(a) \/ Lost(a)
  BY <1>4, RecoveredColumns DEF Unmoved, Lost, ats, ls
<1>6. QED
  BY <1>1, <1>3, <1>5 DEF StartedAttempt

\* A completion ends the attempt it names and touches no other.
LEMMA CompletionColumns ==
  ASSUME TypeOK, NEW r \in Runners, NEW a \in Attempts, NEW outcome \in Outcomes,
         CompleteAttempt(r, a, outcome)
  PROVE  /\ attempts[a].status = "Running"
         /\ attempts'[a].status = outcome.status
         /\ leases'[a].state = "acked"
         /\ \A b \in Attempts \ {a} : Unmoved(b)
<1>1. /\ attempts' = [attempts EXCEPT ![a].status = outcome.status]
      /\ leases' = [leases EXCEPT ![a].state = "acked", ![a].left = 0]
      /\ attempts[a].status = "Running"
  BY DEF CompleteAttempt, MayComplete
<1>2. attempts'[a] = [attempts[a] EXCEPT !.status = outcome.status]
      /\ leases'[a] = [leases[a] EXCEPT !.state = "acked", !.left = 0]
      /\ attempts[a] \in AttemptRow /\ leases[a] \in LeaseRow
  BY <1>1 DEF TypeOK
<1>3. attempts'[a].status = outcome.status
  BY <1>2, OutcomeStatus, AttemptColumns
<1>4. leases'[a].state = "acked"
  BY <1>2, LeaseColumns
<1>5. \A b \in Attempts \ {a} : attempts'[b] = attempts[b] /\ leases'[b] = leases[b]
  BY <1>1 DEF TypeOK
<1>6. QED
  BY <1>1, <1>3, <1>4, <1>5 DEF Unmoved

-------------------------------------------------------------------------------
(* What a step that is not its own leaves of a process's work and of a row    *)

Survives(a) ==
  /\ Unmoved(a) \/ Lost(a)
  /\ \/ handler'[a] = handler[a]
     \/ handler[a] = "alive" /\ handler'[a] \in {"succeeded", "failed"}

LEMMA WorkSurvives ==
  ASSUME NEW p \in Procs, Working(p), process'[p] = process[p],
         process[p].attempt # None => Survives(process[p].attempt)
  PROVE  Working(p)'
<1> DEFINE pc == process[p].pc
           a == process[p].attempt
           outcome == process[p].outcome
<1>1. /\ process'[p].pc = pc /\ process'[p].attempt = a /\ process'[p].outcome = outcome
      /\ a # None <=> pc \in {"prepare", "execute", "report"}
  BY DEF Working
<1>2. CASE a = None
  BY <1>1, <1>2 DEF Working
<1>3. CASE a # None
  <2>1. /\ attempts'[a].runner = attempts[a].runner
        /\ leases[a].state \in {"open", "released"} => leases'[a].state \in {"open", "released"}
        /\ \/ handler'[a] = handler[a]
           \/ handler[a] = "alive" /\ handler'[a] \in {"succeeded", "failed"}
    BY <1>3 DEF Survives, Unmoved, Lost
  <2>2. /\ attempts'[a].runner = RunnerOf[p] /\ leases'[a].state \in {"open", "released"}
        /\ pc \in {"prepare", "execute", "report"}
    BY <1>3, <2>1 DEF Working
  <2>3. CASE pc = "prepare"
    <3>1. handler'[a] = "none"
      BY <2>1, <2>3 DEF Working
    <3>2. QED
      BY <1>1, <1>3, <2>2, <2>3, <3>1 DEF Working
  <2>4. CASE pc = "execute"
    <3>1. handler'[a] \in {"alive", "succeeded", "failed"}
      BY <2>1, <2>4 DEF Working
    <3>2. QED
      BY <1>1, <1>3, <2>2, <2>4, <3>1 DEF Working
  <2>5. CASE pc = "report"
    <3>1. handler'[a] = handler[a]
      BY <2>1, <2>5 DEF Working
    <3>2. /\ outcome # None /\ handler[a] # "alive"
          /\ outcome.status = "Succeeded" => handler[a] = "succeeded"
          /\ outcome.status \in {"TimedOut", "Canceled"} =>
               handler[a] \in {"killed", "succeeded", "failed"}
      BY <2>5 DEF Working
    <3>3. QED
      BY <1>1, <1>3, <2>2, <2>5, <3>1, <3>2 DEF Working
  <2>6. QED
    BY <2>2, <2>3, <2>4, <2>5
<1>4. QED
  BY <1>2, <1>3

LEMMA ToldSurvives ==
  ASSUME NEW a \in Attempts, Told(a), Unmoved(a) \/ Lost(a),
         \/ handler'[a] = handler[a]
         \/ handler[a] = "alive" /\ handler'[a] \in {"succeeded", "failed", "killed"}
  PROVE  Told(a)'
BY DEF Told, Unmoved, Lost

\* An attempt somebody works on has been leased; one in the row of a process is
\* an attempt.
LEMMA WorkedOn ==
  ASSUME SystemIInv, NEW p \in Procs, process[p].attempt # None
  PROVE  /\ process[p].attempt \in Attempts
         /\ attempts[process[p].attempt].status \in {"Running", "Failed"}
         /\ attempts[process[p].attempt].runner = RunnerOf[p]
<1> DEFINE a == process[p].attempt
<1>1. a \in Attempts
  BY DEF SystemIInv, SystemTypes, ProcessRow
<1>2. leases[a].state \in {"open", "released"} /\ attempts[a].runner = RunnerOf[p]
  BY DEF SystemIInv, Working
<1>3. /\ leases[a].state = "open" <=> attempts[a].status = "Running"
      /\ leases[a].state = "released" => attempts[a].status = "Failed"
  BY <1>1 DEF SystemIInv, IInv, Consistent, OpenIffRunning, SuccessDecides
<1>4. QED
  BY <1>1, <1>2, <1>3

LEMMA ProcessRows ==
  ASSUME NEW row \in ProcessRow
  PROVE  /\ [row EXCEPT !.cancel = TRUE] \in ProcessRow
         /\ [row EXCEPT !.pc = "execute"] \in ProcessRow
         /\ \A outcome \in Outcomes :
              LET new == [row EXCEPT !.pc = "report", !.outcome = outcome, !.cancel = FALSE]
              IN /\ new \in ProcessRow /\ new.pc = "report" /\ new.attempt = row.attempt
                 /\ new.outcome = outcome
         /\ LET new == [row EXCEPT !.cancel = TRUE]
            IN new.pc = row.pc /\ new.attempt = row.attempt /\ new.outcome = row.outcome
         /\ LET new == [row EXCEPT !.pc = "execute"]
            IN new.pc = "execute" /\ new.attempt = row.attempt
BY DEF ProcessRow

LEMMA RestingRows ==
  \A pc \in {"down", "poll", "rest"} :
    /\ Resting(pc) \in ProcessRow /\ Resting(pc).pc = pc /\ Resting(pc).attempt = None
    /\ Down \in ProcessRow /\ Down.pc = "down" /\ Down.attempt = None
BY DEF Resting, Down, ProcessRow

LEMMA PreparingRow ==
  ASSUME NEW a \in Attempts
  PROVE  LET row == [Resting("prepare") EXCEPT !.attempt = a]
         IN row \in ProcessRow /\ row.pc = "prepare" /\ row.attempt = a
BY DEF Resting, Down, ProcessRow

\* A step that lets a process go, or none, and lets all attempts survive.
LEMMA IdleStep ==
  ASSUME SystemIInv, IInv', NEW next \in [Procs -> ProcessRow], process' = next,
         \A p \in Procs : \/ next[p] = process[p]
                          \/ next[p].pc \in {"down", "poll", "rest"} /\ next[p].attempt = None,
         \A a \in Attempts :
           Survives(a) \/ (attempts[a].status = "none" /\ attempts'[a].status = "Running"
                           /\ leases'[a].state = "open" /\ handler'[a] = handler[a]),
         handler' \in [Attempts -> HandlerStates], crashes' \in 0 .. MaxCrashes
  PROVE  SystemIInv'
<1>1. SystemTypes'
  BY DEF SystemTypes
<1>2. ASSUME NEW p \in Procs
      PROVE  Working(p)'
  <2>1. CASE next[p] = process[p]
    <3>1. process[p].attempt # None => Survives(process[p].attempt)
      BY WorkedOn
    <3>2. QED
      BY <2>1, <3>1, WorkSurvives DEF SystemIInv
  <2>2. CASE next[p].pc \in {"down", "poll", "rest"} /\ next[p].attempt = None
    BY <2>2 DEF Working
  <2>3. QED
    BY <2>1, <2>2
<1>3. Alone'
  <2>1. \A p \in Procs : process'[p].attempt # None => process'[p] = process[p]
    OBVIOUS
  <2>2. QED
    BY <2>1 DEF SystemIInv, Alone
<1>4. ASSUME NEW a \in Attempts
      PROVE  Told(a)'
  <2>1. CASE Survives(a)
    BY <2>1, ToldSurvives DEF SystemIInv, Survives
  <2>2. CASE /\ attempts[a].status = "none" /\ attempts'[a].status = "Running"
             /\ leases'[a].state = "open" /\ handler'[a] = handler[a]
    BY <2>2 DEF SystemIInv, Told
  <2>3. QED
    BY <2>1, <2>2
<1>5. QED
  BY <1>1, <1>2, <1>3, <1>4 DEF SystemIInv

\* A step of one process that goes on with its attempt, or takes up a new one.
LEMMA WorkStep ==
  ASSUME SystemIInv, IInv', NEW p \in Procs, NEW row \in ProcessRow,
         process' = [process EXCEPT ![p] = row],
         NEW a \in Attempts, row.attempt \in {a, None},
         \A s \in Procs \ {p} : process[s].attempt # a,
         \A b \in Attempts \ {a} : Survives(b),
         handler' \in [Attempts -> HandlerStates], crashes' \in 0 .. MaxCrashes,
         Working(p)', Told(a)'
  PROVE  SystemIInv'
<1>0. process'[p] = row /\ \A s \in Procs \ {p} : process'[s] = process[s]
  BY DEF SystemIInv, SystemTypes
<1>1. SystemTypes'
  BY DEF SystemIInv, SystemTypes
<1>2. ASSUME NEW s \in Procs \ {p}
      PROVE  Working(s)'
  <2>1. process[s].attempt # None => Survives(process[s].attempt)
    BY WorkedOn
  <2>2. QED
    BY <1>0, <2>1, WorkSurvives DEF SystemIInv
<1>3. Alone'
  BY <1>0 DEF SystemIInv, Alone
<1>4. \A b \in Attempts \ {a} : Told(b)'
  BY ToldSurvives DEF SystemIInv, Survives
<1>5. QED
  BY <1>1, <1>2, <1>3, <1>4 DEF SystemIInv

-------------------------------------------------------------------------------
(* Every request of a process is an operation of the store                     *)

LEMMA RunnerOfProcess == \A p \in Procs : RunnerOf[p] \in Runners
BY ProcsAssumption

LEMMA ProcessStepIsStoreStep ==
  ASSUME SystemIInv, NEW p \in Procs, ProcessStep(p)
  PROVE  [Next]_vars
<1> DEFINE r == RunnerOf[p]
<1>r. r \in Runners
  BY RunnerOfProcess
<1>1. CASE Start(p)
  BY <1>1, <1>r DEF Start, Next
<1>2. CASE PollFindsNothing(p)
  BY <1>2 DEF PollFindsNothing, Next
<1>3. CASE Rest(p)
  <2>1. HeartbeatRunner(r, {})
    BY <1>3 DEF Rest
  <2>2. Heartbeat(r)
    BY <2>1 DEF Heartbeat
  <2>3. QED
    BY <2>2, <1>r DEF Next
<1>4. CASE PollLeases(p) \/ PollOrphans(p)
  <2>1. Lease(r)
    BY <1>4 DEF PollLeases, PollOrphans, Lease
  <2>2. QED
    BY <2>1, <1>r DEF Next
<1>5. CASE Work(p)
  <2>1. CASE ReportAccepted(p)
    <3>1. process[p].attempt # None /\ process[p].outcome # None
      BY <2>1 DEF ReportAccepted, SystemIInv, Working
    <3>2. process[p].attempt \in Attempts /\ process[p].outcome \in Outcomes
      BY <3>1 DEF SystemIInv, SystemTypes, ProcessRow
    <3>3. Complete(r)
      BY <2>1, <3>2 DEF ReportAccepted, Complete
    <3>4. QED
      BY <3>3, <1>r DEF Next
  <2>2. CASE ~ReportAccepted(p)
    BY <1>5, <2>2 DEF Work, SetupFails, Spawn, SeeExit, TimesOut, ObeyCancel, Kill, ReportRefused
  <2>3. QED
    BY <2>1, <2>2
<1>6. CASE BusyHeartbeat(p)
  <2>1. process[p].attempt # None /\ HeartbeatRunner(r, {process[p].attempt})
    BY <1>6 DEF BusyHeartbeat, SystemIInv, Working
  <2>2. {process[p].attempt} \in SUBSET LeasesOf(r)
    BY <2>1, WorkedOn DEF LeasesOf
  <2>3. Heartbeat(r)
    BY <2>1, <2>2 DEF Heartbeat
  <2>4. QED
    BY <2>3, <1>r DEF Next
<1>7. CASE SeeCancel(p) \/ Crash(p)
  BY <1>7 DEF SeeCancel, Crash
<1>8. QED
  BY <1>1, <1>2, <1>3, <1>4, <1>5, <1>6, <1>7 DEF ProcessStep, Idle

LEMMA SystemStepIsStoreStep ==
  ASSUME SystemIInv, [SystemNext]_systemVars
  PROVE  [Next]_vars
<1>1. CASE \E p \in Procs : ProcessStep(p)
  BY <1>1, ProcessStepIsStoreStep
<1>2. CASE \E a \in Attempts : HandlerEnds(a)
  BY <1>2 DEF HandlerEnds
<1>3. CASE Others
  BY <1>3 DEF Others, Next
<1>4. CASE UNCHANGED systemVars
  BY <1>4 DEF systemVars, vars
<1>5. QED
  BY <1>1, <1>2, <1>3, <1>4 DEF SystemNext

-------------------------------------------------------------------------------
(* The invariant                                                               *)

LEMMA SystemInvariantInit == SystemInit => SystemIInv
<1> SUFFICES ASSUME SystemInit
             PROVE  SystemIInv
  OBVIOUS
<1>1. IInv
  BY InvariantInit DEF SystemInit
<1>2. SystemTypes
  BY ProcsAssumption, RestingRows DEF SystemInit, SystemTypes, HandlerStates
<1>3. ASSUME NEW p \in Procs
      PROVE  Working(p) /\ process[p].attempt = None
  BY RestingRows DEF SystemInit, Working
<1>4. Alone
  BY <1>3 DEF Alone
<1>5. ASSUME NEW a \in Attempts
      PROVE  Told(a)
  <2>1. handler[a] = "none" /\ attempts[a].status = "none"
    BY DEF SystemInit, Init, NoAttempt
  <2>2. QED
    BY <2>1 DEF Told
<1>6. QED
  BY <1>1, <1>2, <1>3, <1>4, <1>5 DEF SystemIInv

LEMMA CrashesCounted ==
  ASSUME SystemTypes,
         UNCHANGED crashes \/ (crashes < MaxCrashes /\ crashes' = crashes + 1)
  PROVE  crashes' \in 0 .. MaxCrashes
BY ProcsAssumption DEF SystemTypes

\* Steps of a process between attempts, and the end of a process.
LEMMA IdleProcessStep ==
  ASSUME SystemIInv, IInv', NEW p \in Procs,
         Idle(p) \/ PollOrphans(p) \/ Crash(p) \/ ReportRefused(p) \/ BusyHeartbeat(p)
  PROVE  SystemIInv'
<1>t. TypeOK /\ SystemTypes /\ RunnerOf[p] \in Runners
  BY RunnerOfProcess DEF SystemIInv, IInv
<1>1. UNCHANGED handler
  BY DEF Idle, Start, PollFindsNothing, Rest, PollOrphans, Crash, ReportRefused, BusyHeartbeat
<1>2. UNCHANGED crashes \/ (crashes < MaxCrashes /\ crashes' = crashes + 1)
  BY DEF Idle, Start, PollFindsNothing, Rest, PollOrphans, Crash, ReportRefused, BusyHeartbeat,
         Answered
<1>3. crashes' \in 0 .. MaxCrashes
  BY <1>t, <1>2, CrashesCounted
<1>4. \/ process' = process
      \/ process' = [process EXCEPT ![p] = Down]
      \/ \E pc \in {"poll", "rest"} : process' = [process EXCEPT ![p] = Resting(pc)]
  BY DEF Idle, Start, PollFindsNothing, Rest, PollOrphans, Crash, ReportRefused,
         BusyHeartbeat, Answered, Moves
<1>5. /\ process' \in [Procs -> ProcessRow]
      /\ \A s \in Procs : \/ process'[s] = process[s]
                          \/ /\ process'[s].pc \in {"down", "poll", "rest"}
                             /\ process'[s].attempt = None
  BY <1>4, <1>t, RestingRows DEF SystemTypes
<1>6. ASSUME NEW a \in Attempts
      PROVE  \/ Unmoved(a) \/ Lost(a)
             \/ /\ attempts[a].status = "none" /\ attempts'[a].status = "Running"
                /\ leases'[a].state = "open"
  <2>1. CASE PollOrphans(p)
    <3>1. PICK q \in Runs, id \in Attempts : LeaseNextAttempt(RunnerOf[p], q, id)
      BY <2>1 DEF PollOrphans
    <3>2. QED
      BY <3>1, <1>t, LeaseColumnsKept
  <2>2. CASE RecoverLostAttempts
    BY <2>2, <1>t, RecoveryColumns
  <2>3. CASE RegisterRunner(RunnerOf[p]) \/ UNCHANGED vars
    BY <2>3, <1>t, QuietOperations
  <2>4. CASE Rest(p)
    <3>1. HeartbeatRunner(RunnerOf[p], {})
      BY <2>4 DEF Rest
    <3>2. QED
      BY <3>1, <1>t, QuietOperations
  <2>5. CASE BusyHeartbeat(p)
    <3>1. process[p].attempt # None /\ HeartbeatRunner(RunnerOf[p], {process[p].attempt})
      BY <2>5 DEF BusyHeartbeat, SystemIInv, Working
    <3>2. {process[p].attempt} \in SUBSET Attempts
      BY <3>1, WorkedOn
    <3>3. QED
      BY <3>1, <3>2, <1>t, QuietOperations
  <2>6. QED
    BY <2>1, <2>2, <2>3, <2>4, <2>5 DEF Idle, Start, PollFindsNothing, Crash, ReportRefused
<1>7. handler' \in [Attempts -> HandlerStates]
  BY <1>t, <1>1 DEF SystemTypes
<1>8. \A a \in Attempts :
        \/ Survives(a)
        \/ /\ attempts[a].status = "none" /\ attempts'[a].status = "Running"
           /\ leases'[a].state = "open" /\ handler'[a] = handler[a]
  BY <1>1, <1>6 DEF Survives
<1>9. QED
  BY <1>3, <1>5, <1>7, <1>8, IdleStep

\* A poll that leases an attempt to this process.
LEMMA PollLeasesStep ==
  ASSUME SystemIInv, IInv', NEW p \in Procs, PollLeases(p)
  PROVE  SystemIInv'
<1>t. TypeOK /\ SystemTypes /\ RunnerOf[p] \in Runners
  BY RunnerOfProcess DEF SystemIInv, IInv
<1>1. PICK q \in Runs, a \in Attempts :
        /\ LeaseNextAttempt(RunnerOf[p], q, a)
        /\ Moves(p, [Resting("prepare") EXCEPT !.attempt = a])
  BY DEF PollLeases
<1> DEFINE row == [Resting("prepare") EXCEPT !.attempt = a]
<1>2. row \in ProcessRow /\ row.pc = "prepare" /\ row.attempt = a
  BY PreparingRow
<1>3. process' = [process EXCEPT ![p] = row] /\ UNCHANGED <<handler, crashes>>
  BY <1>1 DEF PollLeases, Moves
<1> HIDE DEF row
<1>4. process'[p] = row
  BY <1>3, <1>t DEF SystemTypes
<1>5. /\ attempts[a].status = "none"
      /\ attempts'[a].status = "Running" /\ attempts'[a].runner = RunnerOf[p]
      /\ leases'[a].state = "open"
      /\ \A b \in Attempts \ {a} : Unmoved(b) \/ Lost(b)
  BY <1>1, <1>t, LeaseColumnsKept
<1>6. \A b \in Attempts \ {a} : Survives(b)
  BY <1>3, <1>5 DEF Survives
<1>7. a # None
  BY NoneAssumption DEF Attempts
<1>8. ASSUME NEW s \in Procs
      PROVE  process[s].attempt # a
  <2>1. SUFFICES ASSUME process[s].attempt = a
                 PROVE  FALSE
    OBVIOUS
  <2>2. attempts[a].status \in {"Running", "Failed"}
    BY <1>7, <2>1, WorkedOn
  <2>3. QED
    BY <1>5, <2>2
<1>9. handler'[a] = "none"
  BY <1>3, <1>5 DEF SystemIInv, Told
<1>10. Working(p)'
  BY <1>2, <1>4, <1>5, <1>7, <1>9 DEF Working
<1>11. Told(a)'
  BY <1>5, <1>9 DEF Told
<1>12. handler' \in [Attempts -> HandlerStates] /\ crashes' \in 0 .. MaxCrashes
  BY <1>3, <1>t DEF SystemTypes
<1>13. QED
  BY <1>2, <1>3, <1>6, <1>8, <1>10, <1>11, <1>12, WorkStep

\* A process whose attempt is given: its attempt is its own, and what it moves to
\* when it reports.
LEMMA Owner ==
  ASSUME SystemIInv, NEW p \in Procs, process[p].pc \in {"prepare", "execute", "report"}
  PROVE  LET a == process[p].attempt IN
         /\ a # None /\ a \in Attempts /\ process[p] \in ProcessRow
         /\ attempts[a].runner = RunnerOf[p]
         /\ attempts[a].status \in {"Running", "Failed"}
         /\ leases[a].state \in {"open", "released"}
         /\ \A s \in Procs \ {p} : process[s].attempt # a
<1>1. process[p].attempt # None /\ process[p] \in ProcessRow
  BY DEF SystemIInv, SystemTypes, Working
<1>2. leases[process[p].attempt].state \in {"open", "released"}
  BY <1>1 DEF SystemIInv, Working
<1>3. \A s \in Procs \ {p} : process[s].attempt # process[p].attempt
  BY <1>1 DEF SystemIInv, Alone
<1>4. QED
  BY <1>1, <1>2, <1>3, WorkedOn

\* A process that leaves the store alone keeps its attempt, and its handler may
\* start or end.
LEMMA OwnStep ==
  ASSUME SystemIInv, IInv', NEW p \in Procs, NEW row \in ProcessRow,
         process[p].pc \in {"prepare", "execute"}, process' = [process EXCEPT ![p] = row],
         UNCHANGED vars, UNCHANGED crashes, row.attempt = process[p].attempt,
         NEW h \in HandlerStates, handler' = [handler EXCEPT ![process[p].attempt] = h],
         \/ h = handler[process[p].attempt]
         \/ handler[process[p].attempt] = "alive"
         \/ handler[process[p].attempt] = "none" /\ h = "alive",
         \/ row.pc = "prepare" /\ h = "none"
         \/ row.pc = "execute" /\ h \in {"alive", "succeeded", "failed"}
         \/ /\ row.pc = "report" /\ row.outcome # None /\ h # "alive"
            /\ row.outcome.status = "Succeeded" => h = "succeeded"
            /\ row.outcome.status \in {"TimedOut", "Canceled"} =>
                 h \in {"killed", "succeeded", "failed"}
  PROVE  SystemIInv'
<1>0. PICK a \in Attempts : a = process[p].attempt
  BY Owner
<1>1. /\ a # None
      /\ attempts[a].runner = RunnerOf[p]
      /\ attempts[a].status \in {"Running", "Failed"}
      /\ leases[a].state \in {"open", "released"}
      /\ \A s \in Procs \ {p} : process[s].attempt # a
  BY <1>0, Owner
<1>2. SystemTypes /\ attempts' = attempts /\ leases' = leases
  BY DEF SystemIInv, vars
<1>3. process'[p] = row /\ handler'[a] = h
  BY <1>0, <1>1, <1>2 DEF SystemTypes
<1>4. \A b \in Attempts \ {a} : Survives(b)
  BY <1>0, <1>1, <1>2 DEF SystemTypes, Survives, Unmoved
<1>5. handler' \in [Attempts -> HandlerStates] /\ crashes' \in 0 .. MaxCrashes
  BY <1>0, <1>1, <1>2 DEF SystemTypes
<1>6. Told(a)'
  BY <1>0, <1>1, <1>2, <1>3 DEF Told
<1>7. Working(p)'
  <2>1. /\ process'[p].pc = row.pc /\ process'[p].attempt = a
        /\ process'[p].outcome = row.outcome
        /\ attempts'[a].runner = RunnerOf[p] /\ leases'[a].state \in {"open", "released"}
    BY <1>0, <1>1, <1>2, <1>3
  <2>2. CASE row.pc = "prepare" /\ h = "none"
    BY <1>0, <1>1, <1>3, <2>1, <2>2 DEF Working
  <2>3. CASE row.pc = "execute" /\ h \in {"alive", "succeeded", "failed"}
    BY <1>0, <1>1, <1>3, <2>1, <2>3 DEF Working
  <2>4. CASE /\ row.pc = "report" /\ row.outcome # None /\ h # "alive"
             /\ row.outcome.status = "Succeeded" => h = "succeeded"
             /\ row.outcome.status \in {"TimedOut", "Canceled"} =>
                  h \in {"killed", "succeeded", "failed"}
    BY <1>0, <1>1, <1>3, <2>1, <2>4 DEF Working
  <2>5. QED
    BY <2>2, <2>3, <2>4
<1>8. QED
  BY <1>0, <1>1, <1>4, <1>5, <1>6, <1>7, WorkStep

LEMMA ReportingRow ==
  ASSUME SystemIInv, NEW p \in Procs, process[p].pc \in {"prepare", "execute"},
         NEW outcome \in Outcomes, Reports(p, outcome)
  PROVE  \E row \in ProcessRow :
           /\ process' = [process EXCEPT ![p] = row]
           /\ row.pc = "report" /\ row.attempt = process[p].attempt
           /\ row.outcome = outcome /\ row.outcome # None
<1>1. PICK row : /\ row = [process[p] EXCEPT !.pc = "report", !.outcome = outcome, !.cancel = FALSE]
                 /\ process' = [process EXCEPT ![p] = row]
  BY DEF Reports, Moves
<1>2. process[p] \in ProcessRow
  BY DEF SystemIInv, SystemTypes
<1>3. /\ row \in ProcessRow /\ row.pc = "report"
      /\ row.attempt = process[p].attempt /\ row.outcome = outcome
  BY <1>1, <1>2, ProcessRows
<1>4. QED
  BY <1>1, <1>3, ProcsAssumption

LEMMA GumFailureIsOutcome == GumFailure \in Outcomes /\ GumFailure.status = "Failed"
BY DEF GumFailure, Outcomes

LEMMA SameHandler ==
  ASSUME SystemTypes, NEW a \in Attempts, UNCHANGED handler
  PROVE  handler[a] \in HandlerStates /\ handler' = [handler EXCEPT ![a] = handler[a]]
BY DEF SystemTypes

\* The setup fails, the handler is spawned, a cancel is seen.
LEMMA SetupSteps ==
  ASSUME SystemIInv, IInv', NEW p \in Procs, SetupFails(p) \/ Spawn(p) \/ SeeCancel(p)
  PROVE  SystemIInv'
<1> DEFINE a == process[p].attempt
<1>1. process[p].pc \in {"prepare", "execute"} /\ UNCHANGED vars /\ UNCHANGED crashes
  BY DEF SetupFails, Spawn, SeeCancel, Reports
<1>2. a \in Attempts /\ process[p] \in ProcessRow
  BY <1>1, Owner
<1>3. process[p].pc = "prepare" => handler[a] = "none"
  BY DEF SystemIInv, Working
<1>4. CASE SetupFails(p)
  <2>1. process[p].pc = "prepare" /\ Reports(p, GumFailure) /\ UNCHANGED handler
    BY <1>4 DEF SetupFails
  <2>2. PICK row \in ProcessRow :
          /\ process' = [process EXCEPT ![p] = row]
          /\ row.pc = "report" /\ row.attempt = a
          /\ row.outcome = GumFailure /\ row.outcome # None
    BY <2>1, GumFailureIsOutcome, ReportingRow
  <2>3. handler[a] \in HandlerStates /\ handler' = [handler EXCEPT ![a] = handler[a]]
    BY <1>2, <2>1, SameHandler DEF SystemIInv
  <2>4. row.outcome.status = "Failed" /\ handler[a] = "none"
    BY <1>3, <2>1, <2>2, GumFailureIsOutcome
  <2>5. QED
    BY <1>1, <2>2, <2>3, <2>4, OwnStep
<1>5. CASE Spawn(p)
  <2> DEFINE row == [process[p] EXCEPT !.pc = "execute"]
  <2>1. process[p].pc = "prepare" /\ process' = [process EXCEPT ![p] = row]
        /\ handler' = [handler EXCEPT ![a] = "alive"]
    BY <1>5 DEF Spawn, Moves
  <2>2. row \in ProcessRow /\ row.pc = "execute" /\ row.attempt = a
    BY <1>2, ProcessRows
  <2>3. "alive" \in HandlerStates /\ handler[a] = "none"
    BY <1>3, <2>1 DEF HandlerStates
  <2> HIDE DEF row
  <2>4. QED
    BY <1>1, <2>1, <2>2, <2>3, OwnStep
<1>6. CASE SeeCancel(p)
  <2>1. process' = [process EXCEPT ![p] = [process[p] EXCEPT !.cancel = TRUE]]
        /\ UNCHANGED handler
    BY <1>6 DEF SeeCancel, Moves
  <2>2. PICK row \in ProcessRow :
          /\ process' = [process EXCEPT ![p] = row]
          /\ row.pc = process[p].pc /\ row.attempt = a
    BY <1>2, <2>1, ProcessRows
  <2>3. handler[a] \in HandlerStates /\ handler' = [handler EXCEPT ![a] = handler[a]]
    BY <1>2, <2>1, SameHandler DEF SystemIInv
  <2>4. process[p].pc = "execute" => handler[a] \in {"alive", "succeeded", "failed"}
    BY DEF SystemIInv, Working
  <2>5. CASE process[p].pc = "prepare"
    <3>1. row.pc = "prepare" /\ handler[a] = "none"
      BY <1>3, <2>2, <2>5
    <3>2. QED
      BY <1>1, <2>2, <2>3, <3>1, OwnStep
  <2>6. CASE process[p].pc = "execute"
    <3>1. row.pc = "execute" /\ handler[a] \in {"alive", "succeeded", "failed"}
      BY <2>2, <2>4, <2>6
    <3>2. QED
      BY <1>1, <2>2, <2>3, <3>1, OwnStep
  <2>7. QED
    BY <1>1, <2>5, <2>6
<1>7. QED
  BY <1>4, <1>5, <1>6

\* The end of the handler is seen.
LEMMA SeeExitStep ==
  ASSUME SystemIInv, IInv', NEW p \in Procs, SeeExit(p)
  PROVE  SystemIInv'
<1> DEFINE a == process[p].attempt
<1>1. /\ process[p].pc = "execute" /\ UNCHANGED <<vars, handler, crashes>>
      /\ handler[a] \in {"succeeded", "failed"}
  BY DEF SeeExit
<1>2. PICK outcome \in Judged(handler[a]) : Reports(p, outcome)
  BY DEF SeeExit
<1>3. /\ outcome \in Outcomes
      /\ outcome.status \in {"Succeeded", "Failed"}
      /\ outcome.status = "Succeeded" => handler[a] = "succeeded"
  BY <1>2, GumFailureIsOutcome DEF Judged
<1>4. PICK row \in ProcessRow :
        /\ process' = [process EXCEPT ![p] = row]
        /\ row.pc = "report" /\ row.attempt = a
        /\ row.outcome = outcome /\ row.outcome # None
  BY <1>1, <1>2, <1>3, ReportingRow
<1>5. a \in Attempts
  BY <1>1, Owner
<1>6. handler[a] \in HandlerStates /\ handler' = [handler EXCEPT ![a] = handler[a]]
  BY <1>1, <1>5, SameHandler DEF SystemIInv
<1>7. QED
  BY <1>1, <1>3, <1>4, <1>6, OwnStep

\* The handler is killed, or was over already.
LEMMA KillStep ==
  ASSUME SystemIInv, IInv', NEW p \in Procs, NEW status \in {"TimedOut", "Canceled"},
         Kill(p, status)
  PROVE  SystemIInv'
<1> DEFINE a == process[p].attempt
           h == IF handler[a] = "alive" THEN "killed" ELSE handler[a]
<1>1. process[p].pc = "execute" /\ UNCHANGED <<vars, crashes>>
  BY DEF Kill
<1>2. PICK outcome \in {o \in Outcomes : o.status = status} \cup {GumFailure} : Reports(p, outcome)
  BY DEF Kill
<1>3. outcome \in Outcomes /\ outcome.status \in {"TimedOut", "Canceled", "Failed"}
  BY <1>2, GumFailureIsOutcome
<1>4. PICK row \in ProcessRow :
        /\ process' = [process EXCEPT ![p] = row]
        /\ row.pc = "report" /\ row.attempt = a
        /\ row.outcome = outcome /\ row.outcome # None
  BY <1>1, <1>2, <1>3, ReportingRow
<1>5. a \in Attempts
  BY <1>1, Owner
<1>6. handler' = [handler EXCEPT ![a] = h]
  BY <1>5 DEF Kill, SystemIInv, SystemTypes
<1>7. handler[a] \in {"alive", "succeeded", "failed"}
  BY <1>1 DEF SystemIInv, Working
<1>8. /\ h \in HandlerStates /\ h \in {"killed", "succeeded", "failed"}
      /\ h = handler[a] \/ handler[a] = "alive"
  BY <1>7 DEF HandlerStates
<1> HIDE DEF h
<1>9. QED
  BY <1>1, <1>3, <1>4, <1>6, <1>8, OwnStep

\* An accepted report ends the attempt of this process and of no other.
LEMMA ReportStep ==
  ASSUME SystemIInv, IInv', NEW p \in Procs, ReportAccepted(p)
  PROVE  SystemIInv'
<1>t. TypeOK /\ SystemTypes /\ RunnerOf[p] \in Runners
  BY RunnerOfProcess DEF SystemIInv, IInv
<1>1. process[p].pc = "report" /\ UNCHANGED handler
  BY DEF ReportAccepted
<1>2. PICK a \in Attempts : a = process[p].attempt
  BY <1>1, Owner
<1>3. PICK outcome \in Outcomes : outcome = process[p].outcome
  BY <1>1 DEF SystemIInv, SystemTypes, ProcessRow, Working
<1>4. CompleteAttempt(RunnerOf[p], a, outcome)
  BY <1>2, <1>3 DEF ReportAccepted
<1>5. /\ attempts'[a].status = outcome.status /\ leases'[a].state = "acked"
      /\ \A b \in Attempts \ {a} : Unmoved(b)
  BY <1>4, <1>t, CompletionColumns
<1>6. PICK row \in ProcessRow :
        /\ process' = [process EXCEPT ![p] = row]
        /\ row.pc \in {"poll", "down"} /\ row.attempt = None
  BY RestingRows DEF ReportAccepted, Answered, Moves
<1>7. UNCHANGED crashes \/ (crashes < MaxCrashes /\ crashes' = crashes + 1)
  BY DEF ReportAccepted, Answered
<1>8. handler' \in [Attempts -> HandlerStates] /\ crashes' \in 0 .. MaxCrashes
  BY <1>1, <1>7, <1>t, CrashesCounted DEF SystemTypes
<1>9. \A s \in Procs \ {p} : process[s].attempt # a
  BY <1>1, <1>2, Owner
<1>10. \A b \in Attempts \ {a} : Survives(b)
  BY <1>1, <1>5 DEF Survives
<1>11. Working(p)'
  <2>1. process'[p] = row
    BY <1>6, <1>t DEF SystemTypes
  <2>2. QED
    BY <1>6, <2>1 DEF Working
<1>12. Told(a)'
  <2>1. /\ handler[a] # "alive"
        /\ outcome.status = "Succeeded" => handler[a] = "succeeded"
        /\ outcome.status \in {"TimedOut", "Canceled"} =>
             handler[a] \in {"killed", "succeeded", "failed"}
    BY <1>1, <1>2, <1>3 DEF SystemIInv, Working
  <2>2. outcome.status # "none"
    BY OutcomeStatus DEF TerminalStatus
  <2>3. QED
    BY <1>1, <1>5, <2>1, <2>2 DEF Told
<1>13. QED
  BY <1>6, <1>8, <1>9, <1>10, <1>11, <1>12, WorkStep

LEMMA HandlerEndsStep ==
  ASSUME SystemIInv, IInv', NEW a \in Attempts, HandlerEnds(a)
  PROVE  SystemIInv'
<1>t. SystemTypes
  BY DEF SystemIInv
<1>1. PICK how \in {"succeeded", "failed"} : handler' = [handler EXCEPT ![a] = how]
  BY DEF HandlerEnds
<1>2. handler[a] = "alive" /\ UNCHANGED <<vars, process, crashes>>
  BY DEF HandlerEnds
<1>3. \A b \in Attempts : Survives(b)
  BY <1>1, <1>2, <1>t DEF Survives, Unmoved, vars, SystemTypes
<1>4. handler' \in [Attempts -> HandlerStates] /\ crashes' \in 0 .. MaxCrashes
  BY <1>1, <1>2, <1>t DEF SystemTypes, HandlerStates
<1>5. process' \in [Procs -> ProcessRow] /\ \A p \in Procs : process'[p] = process[p]
  BY <1>2, <1>t DEF SystemTypes
<1>6. QED
  BY <1>3, <1>4, <1>5, IdleStep

LEMMA OthersStep ==
  ASSUME SystemIInv, IInv', Others \/ UNCHANGED systemVars
  PROVE  SystemIInv'
<1>t. TypeOK /\ SystemTypes
  BY DEF SystemIInv, IInv
<1>1. UNCHANGED <<process, handler, crashes>>
  BY DEF Others, systemVars
<1>2. \A a \in Attempts : Unmoved(a) \/ Lost(a)
  <2>1. CASE RecoverLostAttempts
    BY <2>1, <1>t, RecoveryColumns
  <2>2. CASE Deploy \/ Enqueue \/ Replay \/ (\E q \in Runs : CancelRun(q)) \/ Tick \/ UNCHANGED vars
    BY <2>2, <1>t, QuietOperations
  <2>3. QED
    BY <2>1, <2>2 DEF Others, systemVars, vars
<1>3. \A a \in Attempts : Survives(a)
  BY <1>1, <1>2 DEF Survives
<1>4. /\ handler' \in [Attempts -> HandlerStates] /\ crashes' \in 0 .. MaxCrashes
      /\ process' \in [Procs -> ProcessRow] /\ \A p \in Procs : process'[p] = process[p]
  BY <1>1, <1>t DEF SystemTypes
<1>5. QED
  BY <1>3, <1>4, IdleStep

LEMMA SystemInvariantStep ==
  ASSUME SystemIInv, [SystemNext]_systemVars
  PROVE  SystemIInv'
<1>1. IInv'
  BY SystemStepIsStoreStep, InvariantStep DEF SystemIInv
<1>2. ASSUME NEW p \in Procs, ProcessStep(p)
      PROVE  SystemIInv'
  <2>1. CASE Idle(p) \/ PollOrphans(p) \/ Crash(p) \/ ReportRefused(p) \/ BusyHeartbeat(p)
    BY <1>1, <2>1, IdleProcessStep
  <2>2. CASE PollLeases(p)
    BY <1>1, <2>2, PollLeasesStep
  <2>3. CASE SetupFails(p) \/ Spawn(p) \/ SeeCancel(p)
    BY <1>1, <2>3, SetupSteps
  <2>4. CASE SeeExit(p)
    BY <1>1, <2>4, SeeExitStep
  <2>5. CASE TimesOut(p) \/ ObeyCancel(p)
    BY <1>1, <2>5, KillStep DEF TimesOut, ObeyCancel
  <2>6. CASE ReportAccepted(p)
    BY <1>1, <2>6, ReportStep
  <2>7. QED
    BY <1>2, <2>1, <2>2, <2>3, <2>4, <2>5, <2>6 DEF ProcessStep, Work
<1>3. QED
  BY <1>1, <1>2, HandlerEndsStep, OthersStep DEF SystemNext

\* The invariant of the composed system holds of every behaviour.
THEOREM SystemInvariant == SystemSpec => []SystemIInv
BY SystemInvariantInit, SystemInvariantStep, PTL DEF SystemSpec

-------------------------------------------------------------------------------

\* The runner processes with everything that can happen to them do to the tables
\* only what the store alone allows: every theorem about the store (RunsFollow-
\* Lifecycle, FinalIsForever, SuccessIsFinal, ...) holds of the composed system.
THEOREM SystemImplementsStore == SystemSpec => Spec
<1>1. SystemInit => Init
  BY DEF SystemInit
<1>2. SystemIInv /\ [SystemNext]_systemVars => [Next]_vars
  BY SystemStepIsStoreStep
<1>3. QED
  BY <1>1, <1>2, SystemInvariant, PTL DEF SystemSpec, Spec

\* Type correctness of processes and handlers; a process works on an attempt of
\* its own runner, and no two on the same one (main.rs, the loop).
THEOREM SystemTypeCorrect == SystemSpec => []SystemTypeOK
<1>1. SystemIInv => SystemTypeOK
  <2> SUFFICES ASSUME SystemIInv
               PROVE  SystemTypeOK
    OBVIOUS
  <2>1. SystemTypes /\ Alone
    BY DEF SystemIInv
  <2>2. ASSUME NEW p \in Procs
        PROVE  LET a == process[p].attempt IN
               /\ a # None <=> process[p].pc \in {"prepare", "execute", "report"}
               /\ a # None => attempts[a].runner = RunnerOf[p]
               /\ process[p].pc = "prepare" => handler[a] = "none"
               /\ process[p].pc = "execute" => handler[a] \in {"alive", "succeeded", "failed"}
               /\ process[p].pc = "report" => handler[a] # "alive" /\ process[p].outcome # None
    BY DEF SystemIInv, Working
  <2>3. QED
    BY <2>1, <2>2 DEF SystemTypeOK, SystemTypes, Alone
<1>2. QED
  BY <1>1, SystemInvariant, PTL

\* No attempt is finished in the store while its handler runs (kill_child before
\* complete_once): only recovery lets go of an attempt whose handler lives.
THEOREM HandlersDieFirst == SystemSpec => []FinishedHandlersAreDead
<1>1. SystemIInv => FinishedHandlersAreDead
  BY DEF SystemIInv, Told, FinishedHandlersAreDead
<1>2. QED
  BY <1>1, SystemInvariant, PTL

\* Two handlers of one run live together only after recovery gave up on one of
\* them, whatever the processes, crashes, lost replies and retries.
THEOREM OverlapNeedsLoss == SystemSpec => []OverlapOnlyAfterLoss
<1>1. SystemIInv => OverlapOnlyAfterLoss
  <2> SUFFICES ASSUME SystemIInv, NEW a \in Attempts, NEW b \in Attempts,
                      a # b, attempts[a].run = attempts[b].run,
                      handler[a] = "alive", handler[b] = "alive",
                      "released" \notin {leases[a].state, leases[b].state}
               PROVE  FALSE
    BY DEF OverlapOnlyAfterLoss
  <2>1. leases[a].state = "open" /\ leases[b].state = "open"
    BY DEF SystemIInv, Told
  <2>2. attempts[a].status = "Running" /\ attempts[b].status = "Running"
    BY <2>1 DEF SystemIInv, IInv, Consistent, OpenIffRunning
  <2>3. attempts[a].number = attempts[b].number
    BY <2>2 DEF SystemIInv, IInv, Consistent, RunningIsLatest, Latest
  <2>4. QED
    BY <2>2, <2>3 DEF SystemIInv, IInv, Consistent, NumbersUnique
<1>2. QED
  BY <1>1, SystemInvariant, PTL

\* The store records of an attempt what happened to its handler, whoever reported
\* it and however late (execute_leased_run_inner, complete_attempt).
THEOREM RecordsAreTrue == SystemSpec => []RecordsTellTheTruth
<1>1. SystemIInv => RecordsTellTheTruth
  BY DEF SystemIInv, Told, RecordsTellTheTruth
<1>2. QED
  BY <1>1, SystemInvariant, PTL

-------------------------------------------------------------------------------
(* Attempts nobody works on *)

\* No operation but a heartbeat that names the attempt gives it more time.
LEMMA TermShrinks ==
  ASSUME TypeOK, NEW a \in Attempts, attempts[a].status = "Running",
         \/ Deploy \/ Enqueue \/ Replay
         \/ \E r \in Runners : RegisterRunner(r)
         \/ \E r \in Runners : \E active \in SUBSET (Attempts \ {a}) : HeartbeatRunner(r, active)
         \/ \E q \in Runs : CancelRun(q)
         \/ RecoverLostAttempts
         \/ \E r \in Runners, q \in Runs, id \in Attempts : LeaseNextAttempt(r, q, id)
         \/ \E r \in Runners, b \in Attempts, outcome \in Outcomes : CompleteAttempt(r, b, outcome)
         \/ Tick \/ UNCHANGED vars
  PROVE  leases'[a].left <= leases[a].left
<1>1. leases[a] \in LeaseRow /\ leases[a].left \in Nat /\ leases \in [Attempts -> LeaseRow]
  BY BoundsAssumption DEF TypeOK, LeaseRow
<1>2. /\ [leases[a] EXCEPT !.state = "released", !.left = 0].left = 0
      /\ [leases[a] EXCEPT !.state = "acked", !.left = 0].left = 0
      /\ [leases[a] EXCEPT !.revoke_requested = TRUE].left = leases[a].left
      /\ [leases[a] EXCEPT !.left = Less(@)].left = Less(leases[a].left)
  BY <1>1 DEF LeaseRow
<1>3. RecoveredLeases(LostAttempts)[a].left <= leases[a].left
  BY <1>1, <1>2 DEF RecoveredLeases
<1>4. CASE leases'[a] = leases[a]
  BY <1>1, <1>4
<1>5. CASE \E r \in Runners : \E active \in SUBSET (Attempts \ {a}) : HeartbeatRunner(r, active)
  BY <1>4, <1>5 DEF HeartbeatRunner
<1>6. CASE \E q \in Runs : CancelRun(q)
  <2>1. leases'[a] = leases[a] \/ leases'[a] = [leases[a] EXCEPT !.revoke_requested = TRUE]
    BY <1>1, <1>6 DEF CancelRun, CancelQueuedRun, CancelRunningRun
  <2>2. leases'[a].left = leases[a].left
    BY <1>2, <2>1, Zenon
  <2> QED  BY <1>1, <2>2
<1>7. CASE RecoverLostAttempts
  BY <1>3, <1>7 DEF RecoverLostAttempts
<1>8. CASE \E r \in Runners, q \in Runs, id \in Attempts : LeaseNextAttempt(r, q, id)
  <2>1. PICK r \in Runners, q \in Runs, id \in Attempts : LeaseNextAttempt(r, q, id)
    BY <1>8
  <2>2. id # a
    BY <2>1 DEF LeaseNextAttempt, IsNextId
  <2>3. leases'[a] = RecoveredLeases(LostAttempts)[a]
    BY <2>1, <2>2 DEF LeaseNextAttempt, RecoveredLeases
  <2> QED  BY <1>3, <2>3
<1>9. CASE \E r \in Runners, b \in Attempts, outcome \in Outcomes : CompleteAttempt(r, b, outcome)
  <2>1. \/ leases'[a] = leases[a]
        \/ leases'[a] = [leases[a] EXCEPT !.state = "acked", !.left = 0]
    BY <1>1, <1>9 DEF CompleteAttempt
  <2>2. leases'[a].left = leases[a].left \/ leases'[a].left = 0
    BY <1>2, <2>1, Zenon
  <2> QED  BY <1>1, <2>2
<1>10. CASE Tick
  <2>1. leases'[a].left = Less(leases[a].left)
    BY <1>2, <1>10 DEF Tick
  <2> QED  BY <1>1, <2>1 DEF Less
<1>11. CASE Deploy \/ Enqueue \/ Replay \/ (\E r \in Runners : RegisterRunner(r)) \/ UNCHANGED vars
  BY <1>4, <1>11 DEF Deploy, RegisterDeploy, Enqueue, EnqueueRun, Replay, ReplayRun,
                     RegisterRunner, vars
<1> QED  BY <1>5, <1>6, <1>7, <1>8, <1>9, <1>10, <1>11

\* A process takes up an attempt only by the poll that creates it.
LEMMA OrphanStays ==
  ASSUME SystemIInv, [SystemNext]_systemVars, NEW a \in Attempts, Orphaned(a),
         NEW p \in Procs
  PROVE  process'[p].attempt # a
<1>1. SystemTypes /\ process[p] \in ProcessRow /\ a # None /\ process[p].attempt # a
  BY NoneAssumption DEF SystemIInv, SystemTypes, Orphaned, Attempts
<1>2. CASE process'[p] = process[p]
  BY <1>1, <1>2
<1>3. ASSUME NEW s \in Procs, ProcessStep(s), ~PollLeases(s) PROVE process'[p].attempt # a
  <2>1. CASE p # s
    <3>1. process'[p] = process[p]
      BY <1>1, <1>3, <2>1
      DEF SystemTypes, ProcessStep, Idle, Start, PollFindsNothing, Rest, PollOrphans, Work,
          SetupFails, Spawn, SeeExit, TimesOut, ObeyCancel, Kill, ReportAccepted, ReportRefused,
          BusyHeartbeat, SeeCancel, Crash, Answered, Reports, Moves
    <3> QED  BY <1>2, <3>1
  <2>2. CASE p = s
    <3>1. \A row : Moves(p, row) => process'[p] = row
      BY <1>1 DEF Moves, SystemTypes
    <3>2. Resting("poll").attempt = None /\ Resting("rest").attempt = None /\ Down.attempt = None
      BY RestingRows
    <3>3. /\ [process[p] EXCEPT !.cancel = TRUE].attempt = process[p].attempt
          /\ [process[p] EXCEPT !.pc = "execute"].attempt = process[p].attempt
      BY <1>1, ProcessRows
    <3>4. \A outcome : Reports(p, outcome) => process'[p].attempt = process[p].attempt
      BY <1>1, <3>1 DEF Reports, ProcessRow
    <3>5. CASE Idle(p) \/ PollOrphans(p) \/ Crash(p) \/ ReportAccepted(p) \/ ReportRefused(p)
      BY <1>1, <3>1, <3>2, <3>5
      DEF Idle, Start, PollFindsNothing, Rest, PollOrphans, Crash, ReportAccepted, ReportRefused,
          Answered
    <3>6. CASE SetupFails(p) \/ SeeExit(p) \/ TimesOut(p) \/ ObeyCancel(p)
      BY <1>1, <3>4, <3>6 DEF SetupFails, SeeExit, TimesOut, ObeyCancel, Kill
    <3>7. CASE Spawn(p) \/ SeeCancel(p) \/ BusyHeartbeat(p)
      BY <1>1, <3>1, <3>3, <3>7 DEF Spawn, SeeCancel, BusyHeartbeat
    <3> QED  BY <1>3, <2>2, <3>5, <3>6, <3>7 DEF ProcessStep, Work
  <2> QED  BY <2>1, <2>2
<1>4. ASSUME NEW s \in Procs, PollLeases(s) PROVE process'[p].attempt # a
  <2>1. PICK q \in Runs, id \in Attempts :
          /\ LeaseNextAttempt(RunnerOf[s], q, id)
          /\ Moves(s, [Resting("prepare") EXCEPT !.attempt = id])
    BY <1>4 DEF PollLeases
  <2>2. id # a
    BY <2>1 DEF LeaseNextAttempt, IsNextId, Orphaned
  <2>3. process'[p] = process[p] \/ process'[p].attempt = id
    BY <1>1, <2>1, PreparingRow DEF Moves, SystemTypes
  <2> QED  BY <1>1, <2>2, <2>3
<1>5. CASE (\E b \in Attempts : HandlerEnds(b)) \/ Others \/ UNCHANGED systemVars
  BY <1>2, <1>5 DEF HandlerEnds, Others, systemVars
<1> QED  BY <1>3, <1>4, <1>5 DEF SystemNext

\* No request of a process gives more time to an attempt none of them works on.
LEMMA OrphanNotRenewed ==
  ASSUME SystemIInv, [SystemNext]_systemVars, NEW a \in Attempts, Orphaned(a)
  PROVE  leases'[a].left <= leases[a].left
<1>1. TypeOK /\ attempts[a].status = "Running" /\ \A p \in Procs : process[p].attempt # a
  BY DEF SystemIInv, IInv, Orphaned
<1>2. ASSUME NEW p \in Procs, BusyHeartbeat(p) PROVE leases'[a].left <= leases[a].left
  <2>1. HeartbeatRunner(RunnerOf[p], {process[p].attempt}) /\ process[p].attempt # None
    BY <1>2 DEF BusyHeartbeat, SystemIInv, Working
  <2>2. {process[p].attempt} \in SUBSET (Attempts \ {a})
    BY <1>1, <2>1, WorkedOn
  <2> QED  BY <1>1, <2>1, <2>2, RunnerOfProcess, TermShrinks
<1>3. ASSUME NEW p \in Procs, Rest(p) PROVE leases'[a].left <= leases[a].left
  <2>1. HeartbeatRunner(RunnerOf[p], {}) /\ {} \in SUBSET (Attempts \ {a})
    BY <1>3 DEF Rest
  <2> QED  BY <1>1, <2>1, RunnerOfProcess, TermShrinks
<1>4. ASSUME NEW p \in Procs, ReportAccepted(p) PROVE leases'[a].left <= leases[a].left
  <2>1. CompleteAttempt(RunnerOf[p], process[p].attempt, process[p].outcome)
    BY <1>4 DEF ReportAccepted
  <2>2. process[p].attempt \in Attempts /\ process[p].outcome \in Outcomes
    <3>1. process[p].pc = "report"
      BY <1>4 DEF ReportAccepted
    <3>2. process[p].outcome # None /\ process[p] \in ProcessRow
      BY <3>1 DEF SystemIInv, SystemTypes, Working
    <3> QED  BY <3>1, <3>2, Owner DEF ProcessRow
  <2> QED  BY <1>1, <2>1, <2>2, RunnerOfProcess, TermShrinks
<1>5. ASSUME NEW p \in Procs, PollLeases(p) \/ PollOrphans(p)
      PROVE  leases'[a].left <= leases[a].left
  <2>1. \E q \in Runs, id \in Attempts : LeaseNextAttempt(RunnerOf[p], q, id)
    BY <1>5 DEF PollLeases, PollOrphans
  <2> QED  BY <1>1, <2>1, RunnerOfProcess, TermShrinks
<1>6. ASSUME NEW p \in Procs, Start(p) \/ PollFindsNothing(p)
      PROVE  leases'[a].left <= leases[a].left
  <2>1. RegisterRunner(RunnerOf[p]) \/ RecoverLostAttempts \/ UNCHANGED vars
    BY <1>6 DEF Start, PollFindsNothing
  <2> QED  BY <1>1, <2>1, RunnerOfProcess, TermShrinks
<1>7. CASE UNCHANGED vars
  BY <1>1, <1>7, TermShrinks
<1>8. CASE \E p \in Procs : ProcessStep(p)
  <2>1. ASSUME NEW p \in Procs,
               SetupFails(p) \/ Spawn(p) \/ SeeExit(p) \/ TimesOut(p) \/ ObeyCancel(p)
               \/ ReportRefused(p) \/ SeeCancel(p) \/ Crash(p)
        PROVE  UNCHANGED vars
    BY <2>1 DEF SetupFails, Spawn, SeeExit, TimesOut, ObeyCancel, Kill, ReportRefused, SeeCancel,
                Crash
  <2> QED  BY <1>2, <1>3, <1>4, <1>5, <1>6, <1>7, <1>8, <2>1 DEF ProcessStep, Idle, Work
<1>9. CASE Others
  BY <1>1, <1>9, TermShrinks DEF Others
<1>10. CASE (\E b \in Attempts : HandlerEnds(b)) \/ UNCHANGED systemVars
  BY <1>7, <1>10 DEF HandlerEnds, systemVars
<1> QED  BY <1>8, <1>9, <1>10 DEF SystemNext

\* An attempt nobody works on, while it is not ended, stays so, with a lease that
\* no heartbeat renews and every unit of time shortens.
RunsOut(a) ==
  Orphaned(a) /\ attempts'[a].status = "Running" =>
    /\ Orphaned(a)'
    /\ leases'[a].left <= leases[a].left
    /\ Tick => leases'[a].left < leases[a].left \/ leases[a].left = 0

\* The attempt of a lost reply or of a crashed process is not kept alive by the
\* heartbeats of processes that share its runner_id: its lease only runs out, and
\* then recovery takes it (heartbeat_loop names the active lease only).
THEOREM OrphansRunOut == SystemSpec => [][\A a \in Attempts : RunsOut(a)]_systemVars
<1>1. ASSUME SystemIInv, [SystemNext]_systemVars, NEW a \in Attempts PROVE RunsOut(a)
  <2> SUFFICES ASSUME Orphaned(a), attempts'[a].status = "Running"
               PROVE  /\ Orphaned(a)'
                      /\ leases'[a].left <= leases[a].left
                      /\ Tick => leases'[a].left < leases[a].left \/ leases[a].left = 0
    BY DEF RunsOut
  <2>1. Orphaned(a)'
    BY <1>1, OrphanStays DEF Orphaned
  <2>2. leases'[a].left <= leases[a].left
    BY <1>1, OrphanNotRenewed
  <2>3. ASSUME Tick PROVE leases'[a].left < leases[a].left \/ leases[a].left = 0
    <3>1. leases[a] \in LeaseRow /\ leases[a].left \in Nat
      BY <1>1, BoundsAssumption DEF SystemIInv, IInv, TypeOK, LeaseRow
    <3>2. leases'[a].left = Less(leases[a].left)
      BY <2>3, <3>1 DEF Tick, LeaseRow
    <3> QED  BY <3>1, <3>2 DEF Less
  <2> QED  BY <2>1, <2>2, <2>3
<1>2. SystemIInv /\ [SystemNext]_systemVars => [\A a \in Attempts : RunsOut(a)]_systemVars
  BY <1>1
<1> QED  BY <1>2, SystemInvariant, PTL DEF SystemSpec

\* Nor do crashes, lost replies and retries of several processes get a job, a pool
\* or a runner beyond its limits.
THEOREM SystemStartsWithinLimits == SystemSpec => StartsWithinLimits
BY SystemImplementsStore, StartsWithinLimitsCorrect

===============================================================================
