----------------------------- MODULE RunLifecycle -----------------------------
(***************************************************************************)
(* What the store promises about each run, without saying how: its status   *)
(* follows the state diagram below, every execution of it consumes one of   *)
(* the attempts it was given at creation, and a final status never changes. *)
(*                                                                          *)
(*   none -> Queued -> Running -> Succeeded | Failed | TimedOut | Canceled   *)
(*             ^  \        |                                                 *)
(*             |   \-> Canceled                                              *)
(*             |           |                                                 *)
(*             +-- Retry --+   (only while attempts are left)                *)
(*                                                                          *)
(* One step of the store may move several runs: recovery requeues every run *)
(* whose attempt is lost, and a poll recovers lost attempts before it       *)
(* starts a run, possibly one it has just requeued (Restart).               *)
(***************************************************************************)
EXTENDS Naturals

CONSTANT Run

VARIABLES
  status,      \* [Run -> status]
  tries,       \* [Run -> executions started]
  budget       \* [Run -> executions allowed]

lifecycleVars == <<status, tries, budget>>

Final == {"Succeeded", "Failed", "TimedOut", "Canceled"}

LifecycleInit ==
  /\ status = [r \in Run |-> "none"]
  /\ tries = [r \in Run |-> 0]
  /\ budget = [r \in Run |-> 0]

Create(r) == /\ status[r] = "none" /\ status'[r] = "Queued"
             /\ tries'[r] = 0 /\ budget'[r] > 0

Start(r) == /\ status[r] = "Queued" /\ status'[r] = "Running"
            /\ tries[r] < budget[r] /\ tries'[r] = tries[r] + 1
            /\ budget'[r] = budget[r]

Restart(r) == /\ status[r] = "Running" /\ status'[r] = "Running"
              /\ tries[r] < budget[r] /\ tries'[r] = tries[r] + 1
              /\ budget'[r] = budget[r]

Retry(r) == /\ status[r] = "Running" /\ status'[r] = "Queued"
            /\ tries[r] < budget[r] /\ tries'[r] = tries[r]
            /\ budget'[r] = budget[r]

Finish(r) == /\ status[r] = "Running" /\ status'[r] \in Final
             /\ tries'[r] = tries[r] /\ budget'[r] = budget[r]

CancelQueued(r) == /\ status[r] = "Queued" /\ status'[r] = "Canceled"
                   /\ tries'[r] = tries[r] /\ budget'[r] = budget[r]

Rest(r) == /\ status'[r] = status[r]
           /\ tries'[r] = tries[r] /\ budget'[r] = budget[r]

LifecycleNext ==
  \A r \in Run : \/ Create(r) \/ Start(r) \/ Restart(r) \/ Retry(r)
                 \/ Finish(r) \/ CancelQueued(r) \/ Rest(r)

LifecycleSpec == LifecycleInit /\ [][LifecycleNext]_lifecycleVars

===============================================================================
