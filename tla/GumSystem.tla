------------------------------- MODULE GumSystem -------------------------------
(***************************************************************************)
(* The store with the runner processes that poll it (gum-runner/src/main.rs, *)
(* the parts of execution.rs that start, watch and end a handler, and the    *)
(* service functions they call).  Every store operation of GumStore a runner *)
(* performs is here an HTTP request of some process; the requests of the API *)
(* and the scheduler (deploy, enqueue, replay, cancel, recovery) and the     *)
(* passing of time come from GumStore unchanged.                             *)
(*                                                                           *)
(* A process works on one attempt at a time: it leases it, sets it up, spawns *)
(* the Python handler, waits for its end, a timeout or a cancel, appends the  *)
(* output to the logs and reports.  Two more tasks of it send heartbeats and  *)
(* poll the lease for a cancel until the handler has ended.  What can fail:   *)
(* the reply to a request that was applied, a lookup after the lease was      *)
(* committed, the setup, an append of a log, and the process itself, whose    *)
(* handler then lives on (nothing asks for kill_on_drop).                     *)
(*                                                                           *)
(* Left out: the contents of logs and payloads; preparation of runtimes       *)
(* (RuntimePrepare), which a process may do instead of resting; requests that *)
(* are applied after their sender has started again.                          *)
(***************************************************************************)
EXTENDS GumStore

CONSTANTS
  Procs,       \* runner processes
  RunnerOf,    \* [Procs -> the runner_id each is configured with]
  MaxCrashes   \* bound: ends of processes that no refused request explains

ASSUME ProcsAssumption ==
  /\ RunnerOf \in [Procs -> Runners]
  /\ MaxCrashes \in Nat
  /\ None \notin Outcomes

VARIABLES
  process,   \* [Procs -> where the process is, the attempt it works on]
  handler,   \* [Attempts -> the Python process of the attempt]
  crashes    \* crashes so far

systemVars == <<vars, process, handler, crashes>>

HandlerStates == {"none", "alive", "succeeded", "failed", "killed"}

Down == [pc |-> "down", attempt |-> None, outcome |-> None, cancel |-> FALSE]

Resting(pc) == [Down EXCEPT !.pc = pc]

SystemInit ==
  /\ Init
  /\ process = [p \in Procs |-> Down]
  /\ handler = [a \in Attempts |-> "none"]
  /\ crashes = 0

Moves(p, row) == process' = [process EXCEPT ![p] = row]

\* A request that was applied at the store, and whose reply arrived or not: the
\* process goes on, or ends as it does with an error.
Answered(p, row) ==
  \/ Moves(p, row) /\ UNCHANGED crashes
  \/ crashes < MaxCrashes /\ Moves(p, Down) /\ crashes' = crashes + 1

-------------------------------------------------------------------------------
(* Start, poll, rest *)

Start(p) ==
  /\ process[p].pc = "down"
  /\ RegisterRunner(RunnerOf[p])
  /\ Answered(p, Resting("poll"))
  /\ UNCHANGED handler

\* A poll that leases an attempt; its reply is lost, or a lookup of the deploy,
\* the job or the key fails after the lease was committed, and nobody will work
\* on the attempt: the process rests and polls again.
PollLeases(p) ==
  /\ process[p].pc = "poll"
  /\ \E q \in Runs, a \in Attempts :
       /\ LeaseNextAttempt(RunnerOf[p], q, a)
       /\ Moves(p, [Resting("prepare") EXCEPT !.attempt = a])
  /\ UNCHANGED <<handler, crashes>>

PollOrphans(p) ==
  /\ process[p].pc = "poll"
  /\ crashes < MaxCrashes
  /\ \E q \in Runs, a \in Attempts : LeaseNextAttempt(RunnerOf[p], q, a)
  /\ Moves(p, Resting("rest"))
  /\ crashes' = crashes + 1
  /\ UNCHANGED handler

\* A poll that leases nothing has recovered what was lost.
PollFindsNothing(p) ==
  /\ process[p].pc = "poll"
  /\ IF LostAttempts = {} THEN UNCHANGED vars ELSE RecoverLostAttempts
  /\ Moves(p, Resting("rest"))
  /\ UNCHANGED <<handler, crashes>>

\* Mutant of Rest: names every open lease of the runner.
RestRenewing(p) ==
  /\ process[p].pc = "rest"
  /\ HeartbeatRunner(RunnerOf[p], LeasesOf(RunnerOf[p]))
  /\ Answered(p, Resting("poll"))
  /\ UNCHANGED handler

\* A heartbeat without leases, before the next poll.
Rest(p) ==
  /\ process[p].pc = "rest"
  /\ HeartbeatRunner(RunnerOf[p], {})
  /\ Answered(p, Resting("poll"))
  /\ UNCHANGED handler

-------------------------------------------------------------------------------
(* One attempt *)

\* heartbeat_loop; one that fails is logged and forgotten.
BusyHeartbeat(p) ==
  /\ process[p].pc \in {"prepare", "execute"}
  /\ HeartbeatRunner(RunnerOf[p], {process[p].attempt})
  /\ UNCHANGED <<process, handler, crashes>>

\* cancel_poll_loop: the lease tells of a cancel, even after it was released.
SeeCancel(p) ==
  /\ process[p].pc \in {"prepare", "execute"}
  /\ ~process[p].cancel
  /\ attempts[process[p].attempt].cancel_requested
  /\ Moves(p, [process[p] EXCEPT !.cancel = TRUE])
  /\ UNCHANGED <<vars, handler, crashes>>

\* A secret is missing, dependencies cannot be installed, the bundle cannot be
\* unpacked: none of the classes the store treats apart.
GumFailure == [status |-> "Failed", class |-> "other"]

Reports(p, outcome) ==
  Moves(p, [process[p] EXCEPT !.pc = "report", !.outcome = outcome, !.cancel = FALSE])

SetupFails(p) ==
  /\ process[p].pc = "prepare"
  /\ Reports(p, GumFailure)
  /\ UNCHANGED <<vars, handler, crashes>>

\* A cancel seen before is acted upon only from here on.
Spawn(p) ==
  /\ process[p].pc = "prepare"
  /\ handler' = [handler EXCEPT ![process[p].attempt] = "alive"]
  /\ Moves(p, [process[p] EXCEPT !.pc = "execute"])
  /\ UNCHANGED <<vars, crashes>>

\* The handler comes to its end, watched or not.
HandlerEnds(a) ==
  /\ handler[a] = "alive"
  /\ \E how \in {"succeeded", "failed"} : handler' = [handler EXCEPT ![a] = how]
  /\ UNCHANGED <<vars, process, crashes>>

\* Mutant of Judged: output that cannot be read is no reason to fail.
JudgedLeniently(how) == {o \in Outcomes : o.status \in {"Succeeded", "Failed"}}

\* What the process makes of the handler's end: its status and the failure class
\* it wrote to stderr, or an error of its own when the output cannot be read.
Judged(how) ==
  {GumFailure} \cup
  {o \in Outcomes : IF how = "succeeded" THEN o.status = "Succeeded" ELSE o.status = "Failed"}

SeeExit(p) ==
  /\ process[p].pc = "execute"
  /\ handler[process[p].attempt] \in {"succeeded", "failed"}
  /\ \E outcome \in Judged(handler[process[p].attempt]) : Reports(p, outcome)
  /\ UNCHANGED <<vars, handler, crashes>>

\* Mutant of Kill: leaves the handler running.
KillNot(p, status) ==
  /\ process[p].pc = "execute"
  /\ \E outcome \in {o \in Outcomes : o.status = status} \cup {GumFailure} : Reports(p, outcome)
  /\ UNCHANGED <<vars, handler, crashes>>

\* The handler is killed and reaped before the process reports.
Kill(p, status) ==
  /\ process[p].pc = "execute"
  /\ handler' = [handler EXCEPT ![process[p].attempt] = IF @ = "alive" THEN "killed" ELSE @]
  /\ \E outcome \in {o \in Outcomes : o.status = status} \cup {GumFailure} : Reports(p, outcome)
  /\ UNCHANGED <<vars, crashes>>

TimesOut(p) == Kill(p, "TimedOut")

ObeyCancel(p) == process[p].cancel /\ Kill(p, "Canceled")

\* Neither heartbeats nor the watch for cancels go on while it reports.
ReportAccepted(p) ==
  /\ process[p].pc = "report"
  /\ CompleteAttempt(RunnerOf[p], process[p].attempt, process[p].outcome)
  /\ Answered(p, Resting("poll"))
  /\ UNCHANGED handler

\* A refused report ends the process.
ReportRefused(p) ==
  /\ process[p].pc = "report"
  /\ ~MayComplete(RunnerOf[p], process[p].attempt, process[p].outcome)
  /\ Moves(p, Down)
  /\ UNCHANGED <<vars, handler, crashes>>

\* A crash anywhere, or an error in appending a log.
Crash(p) ==
  /\ process[p].pc # "down"
  /\ crashes < MaxCrashes
  /\ Moves(p, Down)
  /\ crashes' = crashes + 1
  /\ UNCHANGED <<vars, handler>>

-------------------------------------------------------------------------------

\* Requests of the API, the scheduler's recovery and time.
Others ==
  /\ \/ Deploy \/ Enqueue \/ Replay
     \/ \E q \in Runs : CancelRun(q)
     \/ RecoverLostAttempts
     \/ Tick
  /\ UNCHANGED <<process, handler, crashes>>

Work(p) ==
  \/ SetupFails(p) \/ Spawn(p) \/ SeeExit(p) \/ TimesOut(p) \/ ObeyCancel(p)
  \/ ReportAccepted(p) \/ ReportRefused(p)

Idle(p) == Start(p) \/ PollFindsNothing(p) \/ Rest(p)

ProcessStep(p) ==
  \/ Idle(p) \/ PollLeases(p) \/ PollOrphans(p) \/ Work(p)
  \/ BusyHeartbeat(p) \/ SeeCancel(p) \/ Crash(p)

SystemNext ==
  \/ \E p \in Procs : ProcessStep(p)
  \/ \E a \in Attempts : HandlerEnds(a)
  \/ Others

SystemSpec == SystemInit /\ [][SystemNext]_systemVars

\* Time passes and lost attempts are recovered; a process that is up goes on, one
\* that ended is started again, and a poll finds a run it may start now and then.
SystemFairness ==
  /\ WF_systemVars(Tick /\ UNCHANGED <<process, handler, crashes>>)
  /\ WF_systemVars(RecoverLostAttempts /\ UNCHANGED <<process, handler, crashes>>)
  /\ \A p \in Procs :
       WF_systemVars(Idle(p)) /\ WF_systemVars(Work(p)) /\ SF_systemVars(PollLeases(p))

FairSystemSpec == SystemSpec /\ SystemFairness

-------------------------------------------------------------------------------
(* Properties *)

ProcessRow == [pc : {"down", "poll", "rest", "prepare", "execute", "report"},
               attempt : Attempts \cup {None}, outcome : Outcomes \cup {None},
               cancel : BOOLEAN]

\* Every variable has its type; a process works on an attempt of its own runner,
\* no two on the same one, and whether a handler was spawned follows from how far
\* the process is (main.rs, the loop).
SystemTypeOK ==
  /\ process \in [Procs -> ProcessRow]
  /\ handler \in [Attempts -> HandlerStates]
  /\ crashes \in 0 .. MaxCrashes
  /\ \A p \in Procs :
       LET a == process[p].attempt IN
       /\ a # None <=> process[p].pc \in {"prepare", "execute", "report"}
       /\ a # None => attempts[a].runner = RunnerOf[p]
       /\ process[p].pc = "prepare" => handler[a] = "none"
       /\ process[p].pc = "execute" => handler[a] \in {"alive", "succeeded", "failed"}
       /\ process[p].pc = "report" => handler[a] # "alive" /\ process[p].outcome # None
       /\ \A s \in Procs \ {p} : a # None => process[s].attempt # a

\* No attempt is reported finished while its handler runs; a handler its process
\* has lost runs on, but only until the lease is released does the store still
\* believe in it (kill_child before complete_once; the handler of a crashed
\* process).
FinishedHandlersAreDead ==
  \A a \in Attempts : handler[a] = "alive" => leases[a].state \in {"open", "released"}

\* Two handlers of one run are alive together only when the store has given up on
\* one of them: overlap is the price of recovery, never of a retry, a slow report
\* or two processes with one runner_id.
OverlapOnlyAfterLoss ==
  \A a, b \in Attempts :
    /\ a # b /\ attempts[a].run = attempts[b].run
    /\ handler[a] = "alive" /\ handler[b] = "alive"
    => "released" \in {leases[a].state, leases[b].state}

\* What the store records of an attempt is what happened to its handler: success
\* only if it succeeded, a timeout or a cancel only of one that had been spawned
\* and is over.
RecordsTellTheTruth ==
  \A a \in Attempts :
    /\ attempts[a].status = "Succeeded" => handler[a] = "succeeded"
    /\ attempts[a].status \in {"TimedOut", "Canceled"} =>
         handler[a] \in {"killed", "succeeded", "failed"}

Orphaned(a) ==
  attempts[a].status = "Running" /\ \A p \in Procs : process[p].attempt # a

\* An attempt nobody works on, because the reply to the poll was lost or its
\* process ended, does not stay running: the process that forgot it and others of
\* the same runner_id go on sending heartbeats, and none of them renews its lease.
OrphansAreRecovered ==
  \A a \in Attempts : Orphaned(a) ~> attempts[a].status # "Running"

\* Every run comes to an end, through retries, losses, crashes and cancels.
RunsSettle ==
  \A q \in Runs : runs[q].status \in {"Queued", "Running"} ~> runs[q].status \in TerminalStatus

===============================================================================
