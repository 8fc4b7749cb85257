---------------------------- MODULE ProviderHealth ----------------------------
(* The health row of a provider (gum-scheduler/src/probes.rs and the signal    *)
(* part of complete_attempt): schedulers probe the provider over HTTP, the     *)
(* completions of real attempts signal what happened to their requests, and    *)
(* each computes the next row from the row it read and writes the whole of it, *)
(* without a lock in between.                                                  *)
(*                                                                             *)
(* One target: rows of other targets are not touched; their probes only delay  *)
(* the one modelled, between the read and the request.  A timestamp is the     *)
(* time since it, clipped at Horizon; one that is NULL is long ago.  Left out: *)
(* degraded_score and reason (nobody reads them to decide), last_changed_at    *)
(* (read only for a row without timestamps, which these writers do not leave), *)
(* the rows of provider_checks (appended, and read by nobody).                 *)
EXTENDS Integers

CONSTANTS
  Probers,              \* schedulers; two when a leader outlives its lease
  Completions,          \* completions in flight
  Interval,             \* interval_secs of the probe
  MaxLag,               \* bound: how long a probe or a completion takes
  DownScoreThreshold,   \* DOWN_SCORE_THRESHOLD
  MaxScore              \* MAX_SCORE

ASSUME ProviderAssumption ==
  /\ Interval \in Nat \ {0} /\ MaxLag \in Nat
  /\ DownScoreThreshold \in Nat \ {0} /\ MaxScore \in Nat
  /\ DownScoreThreshold <= MaxScore

VARIABLES
  target,     \* enabled and configuration of the provider_targets row
  provider,   \* what the provider does to a request (external)
  health,     \* the provider_health row
  probe,      \* [Probers -> a round of run_provider_probes]
  signal      \* [Completions -> a completion of an attempt that used the provider]

vars == <<target, provider, health, probe, signal>>

Horizon == Interval + MaxLag
Ages == 0 .. Horizon
Lags == 0 .. MaxLag

NoRow == [state |-> "none", down |-> 0, success |-> Horizon, failure |-> Horizon]

\* Rows as read: nothing is read yet, and nothing observed.
Idle == [pc |-> "idle", seen |-> NoRow, age |-> 0, result |-> "none"]

Init ==
  /\ target \in {"valid", "invalid", "disabled"}
  /\ provider \in {"fast", "slow", "failing"}
  /\ health = NoRow
  /\ probe = [s \in Probers |-> Idle]
  /\ signal = [c \in Completions |-> Idle]

-------------------------------------------------------------------------------
(* The next row *)

\* Mutants of Worse: does not clamp; forgets the failures counted so far.
WorseUnclamped(row, age) ==
  LET down == row.down + 1 IN
  [row EXCEPT !.state = IF down >= DownScoreThreshold THEN "Down" ELSE "Degraded",
              !.down = down, !.failure = age]

WorseFromZero(row, age) ==
  [row EXCEPT !.state = IF 1 >= DownScoreThreshold THEN "Down" ELSE "Degraded",
              !.down = 1, !.failure = age]

\* saturating_score: one more failure.
Worse(row, age) ==
  LET down == IF row.down < MaxScore THEN row.down + 1 ELSE MaxScore IN
  [row EXCEPT !.state = IF down >= DownScoreThreshold THEN "Down" ELSE "Degraded",
              !.down = down, !.failure = age]

\* Mutant of Better: a provider that is down takes more than one success.
BetterByHalf(row, age, state) ==
  [row EXCEPT !.state = IF row.down >= DownScoreThreshold THEN "Down" ELSE state,
              !.success = age]

\* One success outweighs every failure before it.
Better(row, age, state) == [row EXCEPT !.state = state, !.down = 0, !.success = age]

\* next_health_params
AfterProbe(row, age, result) ==
  CASE result = "failing" -> Worse(row, age)
    [] result = "slow" -> Better(row, age, "Degraded")
    [] result = "fast" -> Better(row, age, "Healthy")

\* apply_provider_signal: a slow request is a success.
AfterSignal(row, age, result) ==
  IF result = "failing" THEN Worse(row, age) ELSE Better(row, age, "Healthy")

-------------------------------------------------------------------------------
(* Probes *)

\* The clock is read at the top of the scheduler's loop.
ReadClock(s) ==
  /\ probe[s].pc = "idle"
  /\ probe' = [probe EXCEPT ![s] = [Idle EXCEPT !.pc = "tick"]]
  /\ UNCHANGED <<target, provider, health, signal>>

\* The last success or failure, of a probe or of a real request, is at least an
\* interval older than the clock value.
ProbeDue(row, age) ==
  \/ row.state = "none"
  \/ /\ row.success - age >= Interval
     /\ row.failure - age >= Interval

\* list_provider_targets and list_provider_health, and the decision to probe: a
\* target whose configuration cannot be loaded fails without a request, in
\* every round.
ReadHealth(s) ==
  /\ probe[s].pc = "tick"
  /\ probe' = [probe EXCEPT ![s] =
       IF target = "invalid"
       THEN [@ EXCEPT !.pc = "answered", !.seen = health, !.result = "failing"]
       ELSE IF target = "valid" /\ ProbeDue(health, @.age)
       THEN [@ EXCEPT !.pc = "asking", !.seen = health]
       ELSE Idle]
  /\ UNCHANGED <<target, provider, health, signal>>

Answered(s) ==
  /\ probe[s].pc = "asking"
  /\ probe' = [probe EXCEPT ![s] = [@ EXCEPT !.pc = "answered", !.result = provider]]
  /\ UNCHANGED <<target, provider, health, signal>>

\* record_provider_check and set_provider_health
WriteProbe(s) ==
  /\ probe[s].pc = "answered"
  /\ health' = AfterProbe(probe[s].seen, probe[s].age, probe[s].result)
  /\ probe' = [probe EXCEPT ![s] = Idle]
  /\ UNCHANGED <<target, provider, signal>>

-------------------------------------------------------------------------------
(* Signals *)

\* A request has succeeded, or failed in a class that is the provider's, and its
\* attempt is being completed: complete_attempt has read the clock.
Complete(c) ==
  /\ signal[c].pc = "idle"
  /\ signal' = [signal EXCEPT ![c] = [Idle EXCEPT !.pc = "completing", !.result = provider]]
  /\ UNCHANGED <<target, provider, health, probe>>

\* The row is read without a lock (provider_health_by_slug_tx) ...
ReadSignal(c) ==
  /\ signal[c].pc = "completing"
  /\ signal' = [signal EXCEPT ![c] = [@ EXCEPT !.pc = "read", !.seen = health]]
  /\ UNCHANGED <<target, provider, health, probe>>

\* ... and written later; MemoryStore does both under its mutex.
WriteSignal(c) ==
  /\ signal[c].pc = "read"
  /\ health' = AfterSignal(signal[c].seen, signal[c].age, signal[c].result)
  /\ signal' = [signal EXCEPT ![c] = Idle]
  /\ UNCHANGED <<target, provider, probe>>

-------------------------------------------------------------------------------

\* An operator's upsert of the target.
UpsertTarget ==
  /\ target' \in {"valid", "invalid", "disabled"} \ {target}
  /\ UNCHANGED <<provider, health, probe, signal>>

ProviderChanges ==
  /\ provider' \in {"fast", "slow", "failing"} \ {provider}
  /\ UNCHANGED <<target, health, probe, signal>>

Older(n) == IF n < Horizon THEN n + 1 ELSE Horizon

OlderRow(row) == [row EXCEPT !.success = Older(@), !.failure = Older(@)]

OlderRound(round) ==
  IF round.pc = "idle" THEN round
  ELSE [round EXCEPT !.seen = OlderRow(@), !.age = @ + 1]

\* Time passes while no round has lasted MaxLag.
Tick ==
  /\ \A s \in Probers : probe[s].age < MaxLag
  /\ \A c \in Completions : signal[c].age < MaxLag
  /\ health' = OlderRow(health)
  /\ probe' = [s \in Probers |-> OlderRound(probe[s])]
  /\ signal' = [c \in Completions |-> OlderRound(signal[c])]
  /\ UNCHANGED <<target, provider>>

Round(s) == ReadClock(s) \/ ReadHealth(s) \/ Answered(s) \/ WriteProbe(s)

Signal(c) == ReadSignal(c) \/ WriteSignal(c)

Next ==
  \/ \E s \in Probers : Round(s)
  \/ \E c \in Completions : Complete(c) \/ Signal(c)
  \/ UpsertTarget \/ ProviderChanges \/ Tick

Spec == Init /\ [][Next]_vars

\* The loop of a scheduler goes on, a completion that has begun ends, and time
\* passes; real requests need not happen.
FairSpec ==
  /\ Spec
  /\ WF_vars(Tick)
  /\ \A s \in Probers : WF_vars(Round(s))
  /\ \A c \in Completions : WF_vars(Signal(c))

-------------------------------------------------------------------------------
(* Properties *)

HealthRow == [state : {"none", "Healthy", "Degraded", "Down"}, down : 0 .. MaxScore,
              success : Ages, failure : Ages]

RoundRow(pcs) == [pc : pcs, seen : HealthRow, age : Lags,
                  result : {"none", "fast", "slow", "failing"}]

\* Every variable has its type, and a row says Down exactly when its score has
\* reached the threshold, whoever wrote it (probes.rs and both stores).
HealthTypeOK ==
  /\ target \in {"valid", "invalid", "disabled"}
  /\ provider \in {"fast", "slow", "failing"}
  /\ health \in HealthRow
  /\ probe \in [Probers -> RoundRow({"idle", "tick", "asking", "answered"})]
  /\ signal \in [Completions -> RoundRow({"idle", "completing", "read"})]
  /\ health.state = "Down" <=> health.down >= DownScoreThreshold

\* A provider that fails from some time on is reported Down from some time on, in
\* spite of every write computed from a row that was stale: what a lost update
\* takes from the score comes back with the next probe.
OutageIsNoticed ==
  <>[](provider = "failing" /\ target # "disabled") => <>[](health.state = "Down")

\* A provider that answers well from some time on is reported Healthy from some
\* time on, with or without real requests: neither a late failure nor a probe
\* that real requests put off keeps the row Down.
RecoveryIsNoticed ==
  <>[](provider = "fast" /\ target = "valid") => <>[](health.state = "Healthy")

===============================================================================
