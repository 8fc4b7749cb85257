------------------------- MODULE ProviderHealthProofs --------------------------
(* HealthTypeOK for every set of probers and completions, every interval, lag   *)
(* and pair of thresholds.  It is inductive once it is known that a round about *)
(* to write has something to write.                                             *)
EXTENDS ProviderHealth, TLAPS

HealthIInv ==
  /\ HealthTypeOK
  /\ \A s \in Probers : probe[s].pc = "answered" => probe[s].result # "none"
  /\ \A c \in Completions : signal[c].pc # "idle" => signal[c].result # "none"

Says(row) == row.state = "Down" <=> row.down >= DownScoreThreshold

USE ProviderAssumption DEF ProviderAssumption

\* NoRow, the value before the first write, is a row.
LEMMA NoRowIsRow == NoRow \in HealthRow /\ Says(NoRow)
  BY SMT DEF NoRow, HealthRow, Ages, Horizon, Says

\* An age within the lag is one within the horizon.
LEMMA LagsAreAges == Lags \subseteq Ages
  BY SMT DEF Lags, Ages, Horizon

\* saturating_score keeps the score in its range, and the state follows it.
LEMMA WorseIsRow ==
  ASSUME NEW row \in HealthRow, NEW age \in Ages
  PROVE  Worse(row, age) \in HealthRow /\ Says(Worse(row, age))
<1> DEFINE down == IF row.down < MaxScore THEN row.down + 1 ELSE MaxScore
           state == IF down >= DownScoreThreshold THEN "Down" ELSE "Degraded"
<1>1. down \in 0 .. MaxScore
  BY SMT DEF HealthRow
<1>2. state \in {"Degraded", "Down"} /\ (state = "Down" <=> down >= DownScoreThreshold)
  OBVIOUS
<1>3. Worse(row, age) = [row EXCEPT !.state = state, !.down = down, !.failure = age]
  BY DEF Worse
<1> QED
  <2> HIDE DEF down, state
  <2> QED BY <1>1, <1>2, <1>3 DEF HealthRow, Says

\* A success leaves a row that is not Down.
LEMMA BetterIsRow ==
  ASSUME NEW row \in HealthRow, NEW age \in Ages, NEW state \in {"Healthy", "Degraded"}
  PROVE  Better(row, age, state) \in HealthRow /\ Says(Better(row, age, state))
<1>1. 0 \in 0 .. MaxScore /\ ~(0 >= DownScoreThreshold)
  BY SMT
<1> QED BY <1>1 DEF HealthRow, Better, Says

\* Both ways of computing the next row compute one.
LEMMA NextIsRow ==
  ASSUME NEW row \in HealthRow, NEW age \in Lags, NEW result \in {"fast", "slow", "failing"}
  PROVE  /\ AfterProbe(row, age, result) \in HealthRow /\ Says(AfterProbe(row, age, result))
         /\ AfterSignal(row, age, result) \in HealthRow /\ Says(AfterSignal(row, age, result))
<1>1. age \in Ages
  BY LagsAreAges
<1>2. CASE result = "failing"
  <2>1. AfterProbe(row, age, result) = Worse(row, age)
    BY <1>2 DEF AfterProbe
  <2>2. AfterSignal(row, age, result) = Worse(row, age)
    BY <1>2 DEF AfterSignal
  <2> QED BY <1>1, <2>1, <2>2, WorseIsRow
<1>3. CASE result = "slow"
  <2>1. AfterProbe(row, age, result) = Better(row, age, "Degraded")
    BY <1>3 DEF AfterProbe
  <2>2. AfterSignal(row, age, result) = Better(row, age, "Healthy")
    BY <1>3 DEF AfterSignal
  <2> QED BY <1>1, <2>1, <2>2, BetterIsRow
<1>4. CASE result = "fast"
  <2>1. AfterProbe(row, age, result) = Better(row, age, "Healthy")
    BY <1>4 DEF AfterProbe
  <2>2. AfterSignal(row, age, result) = Better(row, age, "Healthy")
    BY <1>4 DEF AfterSignal
  <2> QED BY <1>1, <2>1, <2>2, BetterIsRow
<1> QED BY <1>2, <1>3, <1>4

\* Time passes over a row.
LEMMA OlderIsRow ==
  ASSUME NEW row \in HealthRow
  PROVE  OlderRow(row) \in HealthRow /\ (Says(row) => Says(OlderRow(row)))
<1>1. \A n \in Ages : Older(n) \in Ages
  BY SMT DEF Older, Ages, Horizon
<1> QED BY <1>1 DEF HealthRow, OlderRow, Says

\* Time passes over a round that may still last.
LEMMA OlderIsRound ==
  ASSUME NEW pcs, "idle" \in pcs, NEW round \in RoundRow(pcs), round.age < MaxLag
  PROVE  /\ OlderRound(round) \in RoundRow(pcs)
         /\ OlderRound(round).pc = round.pc
         /\ OlderRound(round).result = round.result
<1>1. OlderRow(round.seen) \in HealthRow
  BY OlderIsRow DEF RoundRow
<1>2. round.age + 1 \in Lags
  BY SMT DEF RoundRow, Lags
<1>3. CASE round.pc = "idle"
  BY <1>3 DEF OlderRound
<1>4. CASE round.pc # "idle"
  <2>1. OlderRound(round) = [round EXCEPT !.seen = OlderRow(@), !.age = @ + 1]
    BY <1>4 DEF OlderRound
  <2> QED BY <1>1, <1>2, <2>1 DEF RoundRow
<1> QED BY <1>3, <1>4

\* The round nobody has begun is a round.
LEMMA IdleIsRound ==
  ASSUME NEW pcs, "idle" \in pcs
  PROVE  Idle \in RoundRow(pcs)
<1>1. 0 \in Lags
  BY SMT DEF Lags
<1> QED BY <1>1, NoRowIsRow DEF Idle, RoundRow

\* The initial states.
LEMMA InitHealthIInv == Init => HealthIInv
  BY NoRowIsRow, IdleIsRound DEF Init, HealthIInv, HealthTypeOK, Says, Idle

ProberPcs == {"idle", "tick", "asking", "answered"}
SignalPcs == {"idle", "completing", "read"}

\* A step of a probe.
LEMMA RoundStep ==
  ASSUME HealthIInv, NEW s \in Probers, Round(s)
  PROVE  HealthIInv'
<1> USE DEF HealthIInv, HealthTypeOK
<1>0. /\ probe[s] \in RoundRow(ProberPcs)
      /\ health \in HealthRow
      /\ probe \in [Probers -> RoundRow(ProberPcs)]
      /\ 0 \in Lags
  BY SMT DEF ProberPcs, Lags
<1>1. CASE ReadClock(s)
  <2>1. [Idle EXCEPT !.pc = "tick"] \in RoundRow(ProberPcs)
    BY IdleIsRound DEF RoundRow, ProberPcs
  <2> QED BY <1>0, <1>1, <2>1 DEF ReadClock, ProberPcs
<1>2. CASE ReadHealth(s)
  <2>1. PICK row \in RoundRow(ProberPcs) :
          /\ probe' = [probe EXCEPT ![s] = row]
          /\ row.pc = "answered" => row.result # "none"
    <3>1. /\ [probe[s] EXCEPT !.pc = "answered", !.seen = health, !.result = "failing"]
               \in RoundRow(ProberPcs)
          /\ [probe[s] EXCEPT !.pc = "asking", !.seen = health] \in RoundRow(ProberPcs)
          /\ Idle \in RoundRow(ProberPcs)
      BY <1>0, IdleIsRound DEF RoundRow, ProberPcs
    <3> QED BY <1>0, <1>2, <3>1 DEF ReadHealth, Idle, RoundRow
  <2> QED BY <1>0, <1>2, <2>1 DEF ReadHealth, ProberPcs
<1>3. CASE Answered(s)
  <2>1. [probe[s] EXCEPT !.pc = "answered", !.result = provider] \in RoundRow(ProberPcs)
    BY <1>0 DEF RoundRow, ProberPcs
  <2>2. provider # "none"
    OBVIOUS
  <2> QED BY <1>0, <1>3, <2>1, <2>2 DEF Answered, ProberPcs, RoundRow
<1>4. CASE WriteProbe(s)
  <2>1. /\ probe[s].seen \in HealthRow /\ probe[s].age \in Lags
        /\ probe[s].result \in {"fast", "slow", "failing"}
    BY <1>0, <1>4 DEF WriteProbe, RoundRow
  <2>2. health' \in HealthRow /\ Says(health')
    BY <1>4, <2>1, NextIsRow DEF WriteProbe
  <2>3. Idle \in RoundRow(ProberPcs) /\ Idle.pc = "idle"
    BY IdleIsRound DEF ProberPcs, Idle
  <2> QED BY <1>0, <1>4, <2>2, <2>3 DEF WriteProbe, ProberPcs, Says
<1> QED BY <1>1, <1>2, <1>3, <1>4 DEF Round

\* A step of a completion.
LEMMA SignalStep ==
  ASSUME HealthIInv, NEW c \in Completions, Complete(c) \/ Signal(c)
  PROVE  HealthIInv'
<1> USE DEF HealthIInv, HealthTypeOK
<1>0. /\ signal[c] \in RoundRow(SignalPcs)
      /\ health \in HealthRow
      /\ signal \in [Completions -> RoundRow(SignalPcs)]
  BY DEF SignalPcs
<1>1. CASE Complete(c)
  <2>1. /\ [Idle EXCEPT !.pc = "completing", !.result = provider] \in RoundRow(SignalPcs)
        /\ provider # "none"
    BY IdleIsRound DEF RoundRow, SignalPcs
  <2> QED BY <1>0, <1>1, <2>1 DEF Complete, SignalPcs, RoundRow, Idle
<1>2. CASE ReadSignal(c)
  <2>1. [signal[c] EXCEPT !.pc = "read", !.seen = health] \in RoundRow(SignalPcs)
    BY <1>0 DEF RoundRow, SignalPcs
  <2> QED BY <1>0, <1>2, <2>1 DEF ReadSignal, SignalPcs, RoundRow
<1>3. CASE WriteSignal(c)
  <2>1. /\ signal[c].seen \in HealthRow /\ signal[c].age \in Lags
        /\ signal[c].result \in {"fast", "slow", "failing"}
    BY <1>0, <1>3 DEF WriteSignal, RoundRow
  <2>2. health' \in HealthRow /\ Says(health')
    BY <1>3, <2>1, NextIsRow DEF WriteSignal
  <2>3. Idle \in RoundRow(SignalPcs) /\ Idle.pc = "idle"
    BY IdleIsRound DEF SignalPcs, Idle
  <2> QED BY <1>0, <1>3, <2>2, <2>3 DEF WriteSignal, SignalPcs, Says
<1> QED BY <1>1, <1>2, <1>3 DEF Signal

\* A tick.
LEMMA TimeStep ==
  ASSUME HealthIInv, Tick
  PROVE  HealthIInv'
<1> USE DEF HealthIInv, HealthTypeOK
<1>1. health' \in HealthRow /\ Says(health')
  BY OlderIsRow DEF Tick, Says
<1>2. \A s \in Probers :
        /\ OlderRound(probe[s]) \in RoundRow(ProberPcs)
        /\ OlderRound(probe[s]).pc = probe[s].pc
        /\ OlderRound(probe[s]).result = probe[s].result
  BY OlderIsRound DEF Tick, ProberPcs
<1>3. \A c \in Completions :
        /\ OlderRound(signal[c]) \in RoundRow(SignalPcs)
        /\ OlderRound(signal[c]).pc = signal[c].pc
        /\ OlderRound(signal[c]).result = signal[c].result
  BY OlderIsRound DEF Tick, SignalPcs
<1> QED BY <1>1, <1>2, <1>3 DEF Tick, ProberPcs, SignalPcs, Says

\* The invariant the type follows from.
THEOREM HealthInvariant == Spec => []HealthIInv
<1>1. HealthIInv /\ [Next]_vars => HealthIInv'
  <2> SUFFICES ASSUME HealthIInv, [Next]_vars PROVE HealthIInv'
    OBVIOUS
  <2>1. CASE UNCHANGED vars
    BY <2>1 DEF vars, HealthIInv, HealthTypeOK
  <2>2. CASE UpsertTarget \/ ProviderChanges
    BY <2>2 DEF UpsertTarget, ProviderChanges, HealthIInv, HealthTypeOK
  <2> QED BY <2>1, <2>2, RoundStep, SignalStep, TimeStep DEF Next
<1> QED BY <1>1, InitHealthIInv, PTL DEF Spec

\* Every variable keeps its type, and the row says Down exactly when its score has
\* reached the threshold (HealthTypeOK).
THEOREM HealthTypeCorrect == Spec => []HealthTypeOK
<1>1. HealthIInv => HealthTypeOK
  BY DEF HealthIInv
<1> QED BY <1>1, HealthInvariant, PTL

-------------------------------------------------------------------------------
(* What the row says of an outage, and of its end, stays                       *)

\* One more failure takes the row Down.
NearDown(row) == row.down + 1 >= DownScoreThreshold

\* The row is Down, every round under way has seen a failure, and none writes from
\* a row older than the failures that took it near Down.
OutageSettled ==
  /\ health.down >= DownScoreThreshold
  /\ \A s \in Probers :
       /\ probe[s].result \in {"none", "failing"}
       /\ probe[s].pc \in {"asking", "answered"} => NearDown(probe[s].seen)
  /\ \A c \in Completions :
       /\ signal[c].result \in {"none", "failing"}
       /\ signal[c].pc = "read" => NearDown(signal[c].seen)

\* The row has no failure counted, and no round under way has seen one, however old
\* the row it writes from.
RecoverySettled ==
  /\ health.down = 0
  /\ \A s \in Probers : probe[s].result # "failing"
  /\ \A c \in Completions : signal[c].result # "failing"

\* One more failure, counted from a row that is near Down.
LEMMA WorseIsDown ==
  ASSUME NEW row \in HealthRow, NearDown(row), NEW age
  PROVE  Worse(row, age).down >= DownScoreThreshold
<1> DEFINE down == IF row.down < MaxScore THEN row.down + 1 ELSE MaxScore
           state == IF down >= DownScoreThreshold THEN "Down" ELSE "Degraded"
<1>1. down >= DownScoreThreshold
  BY DEF HealthRow, NearDown
<1>2. Worse(row, age) = [row EXCEPT !.state = state, !.down = down, !.failure = age]
  BY DEF Worse
<1> QED
  <2> HIDE DEF down, state
  <2> QED BY <1>1, <1>2 DEF HealthRow

LEMMA BetterIsZero ==
  ASSUME NEW row \in HealthRow, NEW age, NEW state
  PROVE  Better(row, age, state).down = 0
BY DEF HealthRow, Better

\* What the steps of the model do to a round and to the row.
LEMMA OlderKeeps ==
  ASSUME HealthTypeOK
  PROVE  /\ OlderRow(health).down = health.down
         /\ \A s \in Probers : /\ OlderRound(probe[s]).result = probe[s].result
                               /\ OlderRound(probe[s]).pc = probe[s].pc
                               /\ OlderRound(probe[s]).seen.down = probe[s].seen.down
         /\ \A c \in Completions : /\ OlderRound(signal[c]).result = signal[c].result
                                   /\ OlderRound(signal[c]).pc = signal[c].pc
                                   /\ OlderRound(signal[c]).seen.down = signal[c].seen.down
<1>1. \A row \in HealthRow : OlderRow(row).down = row.down
  BY DEF HealthRow, OlderRow
<1>2. ASSUME NEW pcs, NEW round \in RoundRow(pcs)
      PROVE  /\ OlderRound(round).result = round.result /\ OlderRound(round).pc = round.pc
             /\ OlderRound(round).seen.down = round.seen.down
  <2>1. round.seen \in HealthRow
    BY DEF RoundRow
  <2>2. CASE round.pc = "idle"
    BY <2>2 DEF OlderRound
  <2>3. CASE round.pc # "idle"
    <3>1. OlderRound(round) = [round EXCEPT !.seen = OlderRow(@), !.age = @ + 1]
      BY <2>3 DEF OlderRound
    <3>2. /\ OlderRound(round).result = round.result /\ OlderRound(round).pc = round.pc
          /\ OlderRound(round).seen = OlderRow(round.seen)
      BY <3>1 DEF RoundRow
    <3> QED BY <1>1, <2>1, <3>2
  <2> QED BY <2>2, <2>3
<1> QED BY <1>1, <1>2 DEF HealthTypeOK

\* A step of a probe: its round goes from one point to the next, and only its write
\* changes the row.
LEMMA RoundMoves ==
  ASSUME HealthIInv, NEW s \in Probers, Round(s)
  PROVE  /\ UNCHANGED <<signal, target, provider>>
         /\ \A t \in Probers : t # s => probe'[t] = probe[t]
         /\ \/ probe'[s].result \in {"none", provider, probe[s].result}
            \/ target = "invalid" /\ probe'[s].result = "failing"
         /\ probe'[s].pc \in {"asking", "answered"} =>
              \/ probe[s].pc = "tick" /\ probe'[s].seen = health
              \/ probe[s].pc = "asking" /\ probe'[s].seen = probe[s].seen
         /\ \/ health' = health
            \/ /\ probe[s].pc = "answered"
               /\ health' = AfterProbe(probe[s].seen, probe[s].age, probe[s].result)
<1>1. probe \in [Probers -> RoundRow(ProberPcs)] /\ probe[s] \in RoundRow(ProberPcs)
  BY DEF HealthIInv, HealthTypeOK, ProberPcs
<1>2. CASE ReadClock(s)
  <2>1. probe' = [probe EXCEPT ![s] = [Idle EXCEPT !.pc = "tick"]]
    BY <1>2 DEF ReadClock
  <2>2. probe'[s].pc = "tick" /\ probe'[s].result = "none"
    BY <1>1, <2>1 DEF Idle
  <2> QED BY <1>1, <1>2, <2>1, <2>2 DEF ReadClock
<1>3. CASE ReadHealth(s)
  <2>1. PICK row : /\ probe' = [probe EXCEPT ![s] = row]
                   /\ \/ /\ target = "invalid"
                         /\ row = [probe[s] EXCEPT !.pc = "answered", !.seen = health,
                                                   !.result = "failing"]
                      \/ row = [probe[s] EXCEPT !.pc = "asking", !.seen = health]
                      \/ row = Idle
    BY <1>1, <1>3 DEF ReadHealth
  <2>2. /\ \/ target = "invalid" /\ row.result = "failing"
           \/ row.result \in {"none", probe[s].result}
        /\ row.pc \in {"asking", "answered"} => row.seen = health
    <3>1. /\ [probe[s] EXCEPT !.pc = "answered", !.seen = health, !.result = "failing"].result
               = "failing"
          /\ [probe[s] EXCEPT !.pc = "answered", !.seen = health, !.result = "failing"].seen
               = health
      BY <1>1 DEF RoundRow
    <3>2. /\ [probe[s] EXCEPT !.pc = "asking", !.seen = health].result = probe[s].result
          /\ [probe[s] EXCEPT !.pc = "asking", !.seen = health].seen = health
      BY <1>1 DEF RoundRow
    <3>3. Idle.result = "none" /\ Idle.pc = "idle"
      BY DEF Idle
    <3> QED BY <2>1, <3>1, <3>2, <3>3
  <2> QED BY <1>1, <1>3, <2>1, <2>2 DEF ReadHealth
<1>4. CASE Answered(s)
  <2>1. probe' = [probe EXCEPT ![s] = [probe[s] EXCEPT !.pc = "answered", !.result = provider]]
    BY <1>4 DEF Answered
  <2>2. probe'[s].result = provider /\ probe'[s].seen = probe[s].seen
    BY <1>1, <2>1 DEF RoundRow
  <2> QED BY <1>1, <1>4, <2>1, <2>2 DEF Answered
<1>5. CASE WriteProbe(s)
  BY <1>1, <1>5 DEF WriteProbe, Idle
<1> QED BY <1>2, <1>3, <1>4, <1>5 DEF Round

LEMMA SignalMoves ==
  ASSUME HealthIInv, NEW c \in Completions, Complete(c) \/ Signal(c)
  PROVE  /\ UNCHANGED <<probe, target, provider>>
         /\ \A d \in Completions : d # c => signal'[d] = signal[d]
         /\ signal'[c].result \in {"none", provider, signal[c].result}
         /\ signal'[c].pc = "read" => signal'[c].seen = health
         /\ \/ health' = health
            \/ /\ signal[c].pc = "read"
               /\ health' = AfterSignal(signal[c].seen, signal[c].age, signal[c].result)
<1>1. signal \in [Completions -> RoundRow(SignalPcs)] /\ signal[c] \in RoundRow(SignalPcs)
  BY DEF HealthIInv, HealthTypeOK, SignalPcs
<1>2. CASE Complete(c)
  <2>1. signal' = [signal EXCEPT ![c] = [Idle EXCEPT !.pc = "completing", !.result = provider]]
    BY <1>2 DEF Complete
  <2>2. signal'[c].pc = "completing" /\ signal'[c].result = provider
    BY <1>1, <2>1 DEF Idle
  <2> QED BY <1>1, <1>2, <2>1, <2>2 DEF Complete
<1>3. CASE ReadSignal(c)
  <2>1. signal' = [signal EXCEPT ![c] = [signal[c] EXCEPT !.pc = "read", !.seen = health]]
    BY <1>3 DEF ReadSignal
  <2>2. signal'[c].result = signal[c].result /\ signal'[c].seen = health
    BY <1>1, <2>1 DEF RoundRow
  <2> QED BY <1>1, <1>3, <2>1, <2>2 DEF ReadSignal
<1>4. CASE WriteSignal(c)
  BY <1>1, <1>4 DEF WriteSignal, Idle
<1> QED BY <1>2, <1>3, <1>4 DEF Signal

\* Once an outage has settled it stays noticed for as long as the provider fails:
\* no interleaving of probes and completions, each of which writes the row it read
\* a while ago, brings the row back up (AfterProbe and AfterSignal overwrite what
\* was written in between).
THEOREM OutageStays ==
  Spec => [][OutageSettled /\ provider = "failing" => OutageSettled']_vars
<1>1. ASSUME HealthIInv, [Next]_vars, OutageSettled, provider = "failing" PROVE OutageSettled'
  <2>0. /\ HealthTypeOK /\ health \in HealthRow
        /\ \A s \in Probers : probe[s].seen \in HealthRow
        /\ \A c \in Completions : signal[c].seen \in HealthRow
    BY <1>1 DEF HealthIInv, HealthTypeOK, RoundRow
  <2>1. health.down + 1 >= DownScoreThreshold
    BY <1>1, <2>0 DEF OutageSettled, HealthRow
  <2>2. ASSUME NEW s \in Probers, Round(s) PROVE OutageSettled'
    <3>1. probe'[s].result \in {"none", "failing"}
      BY <1>1, <2>2, RoundMoves DEF OutageSettled
    <3>2. probe'[s].pc \in {"asking", "answered"} => NearDown(probe'[s].seen)
      BY <1>1, <2>1, <2>2, RoundMoves DEF OutageSettled, NearDown
    <3>3. health'.down >= DownScoreThreshold
      <4>1. CASE health' = health
        BY <1>1, <4>1 DEF OutageSettled
      <4>2. CASE /\ probe[s].pc = "answered"
                 /\ health' = AfterProbe(probe[s].seen, probe[s].age, probe[s].result)
        <5>1. probe[s].result = "failing" /\ NearDown(probe[s].seen)
          BY <1>1, <4>2 DEF OutageSettled, HealthIInv
        <5>2. health' = Worse(probe[s].seen, probe[s].age)
          BY <4>2, <5>1 DEF AfterProbe
        <5> QED BY <2>0, <5>1, <5>2, WorseIsDown
      <4> QED BY <1>1, <2>2, <4>1, <4>2, RoundMoves
    <3> QED BY <1>1, <2>2, <3>1, <3>2, <3>3, RoundMoves DEF OutageSettled, NearDown
  <2>3. ASSUME NEW c \in Completions, Complete(c) \/ Signal(c) PROVE OutageSettled'
    <3>1. signal'[c].result \in {"none", "failing"}
      BY <1>1, <2>3, SignalMoves DEF OutageSettled
    <3>2. signal'[c].pc = "read" => NearDown(signal'[c].seen)
      BY <1>1, <2>1, <2>3, SignalMoves DEF NearDown
    <3>3. health'.down >= DownScoreThreshold
      <4>1. CASE health' = health
        BY <1>1, <4>1 DEF OutageSettled
      <4>2. CASE /\ signal[c].pc = "read"
                 /\ health' = AfterSignal(signal[c].seen, signal[c].age, signal[c].result)
        <5>1. signal[c].result = "failing" /\ NearDown(signal[c].seen)
          BY <1>1, <4>2 DEF OutageSettled, HealthIInv
        <5>2. health' = Worse(signal[c].seen, signal[c].age)
          BY <4>2, <5>1 DEF AfterSignal
        <5> QED BY <2>0, <5>1, <5>2, WorseIsDown
      <4> QED BY <1>1, <2>3, <4>1, <4>2, SignalMoves
    <3> QED BY <1>1, <2>3, <3>1, <3>2, <3>3, SignalMoves DEF OutageSettled, NearDown
  <2>4. CASE Tick
    <3>1. /\ health' = OlderRow(health) /\ probe' = [s \in Probers |-> OlderRound(probe[s])]
          /\ signal' = [c \in Completions |-> OlderRound(signal[c])]
      BY <2>4 DEF Tick
    <3> QED BY <1>1, <2>0, <3>1, OlderKeeps DEF OutageSettled, NearDown
  <2>5. CASE UpsertTarget \/ ProviderChanges \/ UNCHANGED vars
    BY <1>1, <2>5 DEF UpsertTarget, ProviderChanges, vars, OutageSettled, NearDown
  <2> QED BY <1>1, <2>2, <2>3, <2>4, <2>5 DEF Next
<1>2. HealthIInv /\ [Next]_vars =>
        [OutageSettled /\ provider = "failing" => OutageSettled']_vars
  BY <1>1
<1> QED BY <1>2, HealthInvariant, PTL DEF Spec

\* Once the row has recovered and the failures seen before have been written, it
\* stays up for as long as the provider answers and its target can be probed: what a
\* success writes does not depend on the row that was read (Better).
THEOREM RecoveryStays ==
  Spec => [][RecoverySettled /\ provider # "failing" /\ target # "invalid"
               => RecoverySettled' /\ health'.state # "Down"]_vars
<1>1. ASSUME HealthIInv, [Next]_vars, RecoverySettled, provider # "failing", target # "invalid"
      PROVE  RecoverySettled'
  <2>0. /\ HealthTypeOK /\ health \in HealthRow
        /\ \A s \in Probers : probe[s].seen \in HealthRow /\ probe[s] \in RoundRow(ProberPcs)
        /\ \A c \in Completions : signal[c].seen \in HealthRow /\ signal[c] \in RoundRow(SignalPcs)
    BY <1>1 DEF HealthIInv, HealthTypeOK, RoundRow, ProberPcs, SignalPcs
  <2>2. ASSUME NEW s \in Probers, Round(s) PROVE RecoverySettled'
    <3>1. probe'[s].result # "failing"
      BY <1>1, <2>2, RoundMoves DEF RecoverySettled
    <3>2. health'.down = 0
      <4>1. CASE health' = health
        BY <1>1, <4>1 DEF RecoverySettled
      <4>2. CASE /\ probe[s].pc = "answered"
                 /\ health' = AfterProbe(probe[s].seen, probe[s].age, probe[s].result)
        <5>1. probe[s].result \in {"fast", "slow"}
          BY <1>1, <2>0, <4>2 DEF RecoverySettled, HealthIInv, RoundRow
        <5>2. \E state : health' = Better(probe[s].seen, probe[s].age, state)
          BY <4>2, <5>1 DEF AfterProbe
        <5> QED BY <2>0, <5>2, BetterIsZero
      <4> QED BY <1>1, <2>2, <4>1, <4>2, RoundMoves
    <3> QED BY <1>1, <2>2, <3>1, <3>2, RoundMoves DEF RecoverySettled
  <2>3. ASSUME NEW c \in Completions, Complete(c) \/ Signal(c) PROVE RecoverySettled'
    <3>1. signal'[c].result # "failing"
      BY <1>1, <2>3, SignalMoves DEF RecoverySettled
    <3>2. health'.down = 0
      <4>1. CASE health' = health
        BY <1>1, <4>1 DEF RecoverySettled
      <4>2. CASE /\ signal[c].pc = "read"
                 /\ health' = AfterSignal(signal[c].seen, signal[c].age, signal[c].result)
        <5>1. health' = Better(signal[c].seen, signal[c].age, "Healthy")
          BY <1>1, <4>2 DEF AfterSignal, RecoverySettled
        <5> QED BY <2>0, <5>1, BetterIsZero
      <4> QED BY <1>1, <2>3, <4>1, <4>2, SignalMoves
    <3> QED BY <1>1, <2>3, <3>1, <3>2, SignalMoves DEF RecoverySettled
  <2>4. CASE Tick
    <3>1. /\ health' = OlderRow(health) /\ probe' = [s \in Probers |-> OlderRound(probe[s])]
          /\ signal' = [c \in Completions |-> OlderRound(signal[c])]
      BY <2>4 DEF Tick
    <3> QED BY <1>1, <2>0, <3>1, OlderKeeps DEF RecoverySettled
  <2>5. CASE UpsertTarget \/ ProviderChanges \/ UNCHANGED vars
    BY <1>1, <2>5 DEF UpsertTarget, ProviderChanges, vars, RecoverySettled
  <2> QED BY <1>1, <2>2, <2>3, <2>4, <2>5 DEF Next
<1>2. HealthIInv' /\ RecoverySettled' => health'.state # "Down"
  BY DEF HealthIInv, HealthTypeOK, RecoverySettled
<1>3. HealthIInv /\ HealthIInv' /\ [Next]_vars =>
        [RecoverySettled /\ provider # "failing" /\ target # "invalid"
           => RecoverySettled' /\ health'.state # "Down"]_vars
  BY <1>1, <1>2
<1> QED BY <1>3, HealthInvariant, PTL DEF Spec

===============================================================================
