------------------------- MODULE MemoryPressure_proofs -------------------------
(***************************************************************************)
(* Proofs about MemoryPressure: the monitor's debounce for any watermarks  *)
(* and any number of samples, the pool's obligations when the monitor asks *)
(* for bytes beside the workers' and the operator's requests, and what the *)
(* monitor's rounds ask for, of whom and in which order.                   *)
(***************************************************************************)
EXTENDS MemoryPressure, BackupPool_proofs

\* Until the monitor reclaims, its count is the run of low samples, and not full.
Debounce ==
  /\ pressure \in {"normal", "reclaiming"}
  /\ low_samples \in 0 .. consecutive_samples
  /\ low_run \in 0 .. consecutive_samples
  /\ pressure = "normal" => low_samples = low_run /\ low_run < consecutive_samples

PressureInv == IInv /\ Debounce

-----------------------------------------------------------------------------

\* What DebouncedHysteresis says of a step.
Hysteresis ==
  /\ pressure = "normal" /\ pressure' = "reclaiming" => low_run' = consecutive_samples
  /\ low_run' = consecutive_samples => pressure' = "reclaiming"
  /\ pressure = "reclaiming" /\ pressure' = "normal" => available' >= high

\* One sample: the count and the run grow together, and are 0 together, until the
\* run is full; then the count is what it was until a sample at the high watermark.
LEMMA ClassifyStep ==
  ASSUME Debounce, NEW a \in 0 .. high, Sampled(a), Classify(a)
  PROVE  Debounce' /\ Hysteresis
<1>1. /\ consecutive_samples \in Nat \ {0} /\ low \in Nat /\ high \in Nat
      /\ a \in Nat /\ available' = a /\ low_samples \in Nat /\ low_run \in Nat
  BY WatermarksAssumption DEF Sampled, Debounce
<1>2. CASE a < low
  <2>1. /\ low_samples' = Least(low_samples + 1, consecutive_samples)
        /\ low_run' = Least(low_run + 1, consecutive_samples)
        /\ pressure' = IF low_samples' >= consecutive_samples
                       THEN "reclaiming" ELSE pressure
    BY <1>1, <1>2 DEF Classify, Sampled
  <2>2. /\ low_samples' \in 0 .. consecutive_samples /\ low_run' \in 0 .. consecutive_samples
        /\ pressure = "normal" => low_samples' = low_run'
    BY <1>1, <2>1 DEF Least, Debounce
  <2> QED BY <1>1, <2>1, <2>2 DEF Debounce, Hysteresis
<1>3. CASE a >= high /\ a >= low
  <2>1. low_samples' = 0 /\ low_run' = 0 /\ pressure' = "normal"
    BY <1>1, <1>3 DEF Classify, Sampled
  <2> QED BY <1>1, <1>3, <2>1 DEF Debounce, Hysteresis
<1>4. CASE a >= low /\ a < high
  <2>1. /\ low_samples' = IF pressure = "reclaiming" THEN low_samples ELSE 0
        /\ low_run' = 0 /\ pressure' = pressure
    BY <1>1, <1>4 DEF Classify, Sampled
  <2> QED BY <1>1, <2>1 DEF Debounce, Hysteresis
<1> QED BY <1>1, <1>2, <1>3, <1>4

LEMMA EvaluateClassifies ==
  ASSUME NEW a, Evaluate(a)
  PROVE  Sampled(a) /\ Classify(a)
BY DEF Evaluate, Quiet, Cooldown, Reclaim

\* What a step of the whole does to the pool: as AnyStep, but the requests may
\* be the monitor's.
LEMMA PoolStep ==
  ASSUME IInv, [Next]_vars
  PROVE  \/ PoolRestart
         \/ UNCHANGED poolVars
         \/ /\ clients' \in [Clients -> Usages]
            /\ \A d \in Clients : Step(clients[d], clients'[d])
            /\ older' \in SUBSET (Clients \X Clients)
<1>1. CASE \E a \in 0 .. high : Reclaim(a)
  <2>1. PICK a \in 0 .. high : Reclaim(a)
    BY <1>1
  <2>2. \A c \in Clients : Sound(clients[c])
    BY Clientwise
  <2>3. /\ RequestReleaseBytes(clients, older, Additional(Monus(high, a)))
        /\ older' \in SUBSET (Clients \X Clients)
    BY <2>1 DEF Reclaim, IInv, TypeOK
  <2> QED BY <2>2, <2>3, RequestStep
<1>2. CASE \E a \in 0 .. high : Quiet(a) \/ Cooldown(a)
  BY <1>2 DEF Quiet, Cooldown
<1>3. CASE Handle
  <2>1. PoolNext
    BY <1>3 DEF Handle, PoolNext
  <2> QED BY <2>1, AnyStep
<1>4. CASE Restart
  BY <1>4 DEF Restart
<1>5. CASE UNCHANGED vars
  BY <1>5 DEF vars
<1> QED BY <1>1, <1>2, <1>3, <1>4, <1>5 DEF Next, Evaluate

LEMMA PoolStepIInv == IInv /\ [Next]_vars => IInv'
<1> SUFFICES ASSUME IInv, [Next]_vars PROVE IInv'
  OBVIOUS
<1>1. CASE PoolRestart
  BY <1>1, NoClientsSound, Clientwise DEF PoolRestart
<1>2. CASE UNCHANGED poolVars
  BY <1>2 DEF poolVars, IInv, TypeOK, ObligationsKept
<1>3. CASE /\ clients' \in [Clients -> Usages]
           /\ \A d \in Clients : Step(clients[d], clients'[d])
           /\ older' \in SUBSET (Clients \X Clients)
  BY <1>3, Clientwise DEF Step
<1> QED BY <1>1, <1>2, <1>3, PoolStep

LEMMA InitPressureInv == Init => PressureInv
<1> SUFFICES ASSUME Init PROVE PressureInv
  OBVIOUS
<1>1. IInv
  BY InitIInv DEF Init
<1>2. consecutive_samples \in Nat \ {0}
  BY WatermarksAssumption
<1> QED BY <1>1, <1>2 DEF Init, PressureInv, Debounce

LEMMA MonitorStep ==
  ASSUME Debounce, [Next]_vars
  PROVE  Debounce' /\ Hysteresis
<1>1. CASE \E a \in 0 .. high : Evaluate(a)
  BY <1>1, EvaluateClassifies, ClassifyStep
<1>2. CASE UNCHANGED monitor
  BY <1>2, WatermarksAssumption DEF monitor, Debounce, Hysteresis
<1>3. CASE Restart
  <2>1. pressure' = "normal" /\ low_samples' = 0 /\ low_run' = 0 /\ available' = high
    BY <1>3 DEF Restart, FreshMonitor
  <2> QED BY <2>1, WatermarksAssumption DEF Debounce, Hysteresis
<1> QED BY <1>1, <1>2, <1>3 DEF Next, Handle, vars

LEMMA NextPressureInv == PressureInv /\ [Next]_vars => PressureInv'
BY PoolStepIInv, MonitorStep DEF PressureInv

-----------------------------------------------------------------------------

\* As RInv, with the monitor.
MInv == PressureInv /\ RInv /\ available \in 0 .. high

LEMMA InitMInv == Init => MInv
BY InitPressureInv, InitRInv, WatermarksAssumption DEF Init, MInv

\* The monitor's round, over the records as they stand.
LEMMA ReclaimRound ==
  ASSUME RInv, NEW a \in 0 .. high, Reclaim(a)
  PROVE  LET target == Additional(Monus(high, a))
         IN  /\ target \in Nat
             /\ RequestReleaseBytes(clients, older, target)
             /\ older' = older
<1>1. Pending(clients) \in Nat
  BY RInvSound, SumsType
<1>2. Monus(high, a) \in Nat
  BY MonusType, WatermarksAssumption, SMTT(60)
<1>3. Additional(Monus(high, a)) \in Nat
  BY <1>1, <1>2, MonusType DEF Additional
<1>4. /\ RequestReleaseBytes(clients, older, Additional(Monus(high, a)))
      /\ older' = older
  BY DEF Reclaim
<1> QED BY <1>3, <1>4

\* A step of the whole is one of the pool's or the monitor's round.
LEMMA PoolOrRound ==
  ASSUME [Next]_vars
  PROVE  \/ [PoolNext]_poolVars
         \/ \E a \in 0 .. high : Reclaim(a)
<1>1. CASE Handle
  BY <1>1 DEF Handle, PoolNext
<1>2. CASE Restart
  BY <1>2 DEF Restart, PoolNext
<1>3. CASE UNCHANGED vars
  BY <1>3 DEF vars, poolVars
<1>4. CASE \E a \in 0 .. high : Quiet(a) \/ Cooldown(a)
  BY <1>4 DEF Quiet, Cooldown
<1> QED BY <1>1, <1>2, <1>3, <1>4 DEF Next, Evaluate

LEMMA NextMInv == MInv /\ [Next]_vars => MInv'
<1> SUFFICES ASSUME MInv, [Next]_vars PROVE MInv'
  OBVIOUS
<1>1. PressureInv' /\ IInv'
  BY NextPressureInv DEF MInv, PressureInv
<1>2. available' \in 0 .. high
  BY WatermarksAssumption DEF MInv, Next, Evaluate, Quiet, Cooldown, Reclaim, Sampled, Handle,
                              Restart, FreshMonitor, monitor, vars
<1>3. CASE [PoolNext]_poolVars
  BY <1>1, <1>2, <1>3, NextRInv DEF MInv
<1>4. CASE \E a \in 0 .. high : Reclaim(a)
  <2>1. PICK a \in 0 .. high : Reclaim(a)
    BY <1>4
  <2>2. Ages' /\ CapPursued'
    BY <1>1, <2>1, ReclaimRound, RoundRInv DEF MInv
  <2> QED BY <1>1, <1>2, <2>2 DEF MInv, RInv
<1> QED BY <1>3, <1>4, PoolOrRound

\* What the monitor asks for is what is missing to the high watermark, and in
\* turn.
LEMMA MonitorAsks ==
  ASSUME MInv, MInv', NEW a \in 0 .. high, Reclaim(a), NEW d \in Clients, Asks(d)
  PROVE  InTurn(d) /\ available' = a /\ Pending(clients') <= high - a
<1> DEFINE target == Additional(Monus(high, a))
<1>1. /\ target \in Nat
      /\ RequestReleaseBytes(clients, older', target)
      /\ AgesStrict(older') /\ AgesTotal(clients, older')
  BY ReclaimRound DEF MInv, RInv, Ages
<1> HIDE DEF target
<1>2. /\ target > 0 /\ InTurn(d)
      /\ Pending(clients') <= Pending(clients) + target
  BY <1>1, RInvSound, RoundGrows DEF MInv, Asks, InTurn
<1>3. Pending(clients) \in Nat /\ Pending(clients') \in Nat
  BY RInvSound, Clientwise, SumsType DEF MInv, RInv
<1>4. target = Monus(Monus(high, a), Pending(clients)) /\ high \in Nat /\ a \in Nat
  BY WatermarksAssumption DEF target, Additional
<1>5. Pending(clients') <= high - a
  BY <1>2, <1>3, <1>4 DEF Monus
<1> QED BY <1>2, <1>5 DEF Reclaim, Sampled

\* The sample of a round is the one it leaves in available.
LEMMA ReclaimOfSample == \A a : Reclaim(a) => available' = a /\ Reclaim(available')
BY DEF Reclaim, Sampled

-----------------------------------------------------------------------------

\* For any watermarks and any number of samples: the monitor starts to reclaim with
\* the last of that many consecutive low samples and never without them, and stops
\* only with a sample at the high watermark (MemoryPressureMonitor.evaluate_once).
THEOREM ReclaimsAsSampled == Spec => DebouncedHysteresis
<1> DEFINE Sequel ==
      /\ pressure = "normal" /\ pressure' = "reclaiming" => low_run' = consecutive_samples
      /\ low_run' = consecutive_samples => pressure' = "reclaiming"
      /\ pressure = "reclaiming" /\ pressure' = "normal" => available' >= high
<1>1. PressureInv /\ [Next]_vars => [Sequel]_vars
  BY MonitorStep DEF PressureInv, Hysteresis
<1> QED BY InitPressureInv, NextPressureInv, <1>1, PTL DEF Spec, DebouncedHysteresis

\* With the monitor asking for bytes beside the cap and the operator, no worker
\* is asked twice for the same storage.
THEOREM BudgetsUnderPressure == Spec => NoDuplicateBudget
<1> DEFINE Grows(c) == clients'[c].requested_total > clients[c].requested_total
           Covered(c) == clients'[c].requested_total <=
                           clients'[c].released_total + clients'[c].evictable
<1>1. ASSUME IInv, [Next]_vars, NEW c \in Clients, Grows(c)
      PROVE  Covered(c)
  <2>1. clients[c] \in Usages
    BY <1>1 DEF IInv, TypeOK
  <2>2. CASE PoolRestart
    BY <1>1, <2>1, <2>2, NoClientsSound DEF PoolRestart, Usages
  <2>3. CASE UNCHANGED poolVars
    BY <1>1, <2>1, <2>3 DEF poolVars, Usages
  <2>4. CASE \A d \in Clients : Step(clients[d], clients'[d])
    <3>1. /\ clients'[c].pending <= clients'[c].evictable
          /\ Sound(clients'[c])
      BY <1>1, <2>4 DEF Step
    <3>2. Kept(clients'[c])
      BY <1>1, <2>4, Clientwise DEF Step
    <3> QED BY <3>1, <3>2, BoundsAssumption DEF Kept, Sound, Usages
  <2> QED BY <1>1, <2>2, <2>3, <2>4, PoolStep
<1>2. IInv /\ [Next]_vars => [\A c \in Clients : Grows(c) => Covered(c)]_poolVars
  BY <1>1
<1>3. PressureInv => IInv
  BY DEF PressureInv
<1> QED BY InitPressureInv, NextPressureInv, <1>2, <1>3, PTL DEF Spec, NoDuplicateBudget

\* With the monitor's rounds beside the pool's own, no state of the pool over
\* its cap leaves a releasable byte unasked.
THEOREM CapIsPursuedUnderPressure == Spec => []CapPursued
<1>1. MInv => CapPursued
  BY DEF MInv, RInv
<1> QED BY InitMInv, NextMInv, <1>1, PTL DEF Spec

\* Whoever asks, the cap or the monitor, the victims are taken in order.
THEOREM VictimsInOrderUnderPressure == Spec => VictimsInOrder
<1> DEFINE Turn ==
      \A c, d \in Clients :
        /\ clients'[d].requested_total > clients[d].requested_total
        /\ Precedes(clients', older', c, d)
        => Available(clients'[c]) = 0 \/ ByOperator(d)
<1>1. MInv /\ [Next]_vars => [Turn]_poolVars
  <2> SUFFICES ASSUME MInv, [Next]_vars, NEW c \in Clients, NEW d \in Clients,
                      clients'[d].requested_total > clients[d].requested_total,
                      Precedes(clients', older', c, d), ~ByOperator(d)
               PROVE  Available(clients'[c]) = 0
    OBVIOUS
  <2>1. InTurn(d)
    BY NextMInv, PoolOrRound, PoolAsks, MonitorAsks DEF Asks, MInv
  <2> QED BY <2>1 DEF InTurn
<1> QED BY InitMInv, NextMInv, <1>1, PTL DEF Spec, VictimsInOrder

\* Nobody is asked without need: by the monitor only while memory is low, and
\* for no more than is missing; for the cap only what is over it.
THEOREM AskedOnlyUnderPressure == Spec => OnlyUnderPressure
<1> DEFINE Needed ==
      \A c \in Clients :
        clients'[c].requested_total > clients[c].requested_total =>
          \/ Reclaim(available') /\ Pending(clients') <= high - available'
          \/ Cap # NoCap /\ Pending(clients') + Cap <= Total(clients')
          \/ ByOperator(c) /\ UNCHANGED monitor
<1>1. ASSUME MInv, [Next]_vars, NEW c \in Clients, Asks(c)
      PROVE  \/ Reclaim(available') /\ Pending(clients') <= high - available'
             \/ WithinCap
             \/ ByOperator(c) /\ UNCHANGED monitor
  <2>1. CASE \E a \in 0 .. high : Reclaim(a)
    <3>1. PICK a \in 0 .. high : Reclaim(a)
      BY <2>1
    <3>2. available' = a /\ Reclaim(available')
      BY <3>1, ReclaimOfSample
    <3>3. Pending(clients') <= high - a
      BY <1>1, <3>1, NextMInv, MonitorAsks
    <3> QED BY <3>2, <3>3
  <2>2. CASE Handle
    <3>1. PoolNext /\ UNCHANGED monitor
      BY <2>2 DEF Handle, PoolNext
    <3> QED BY <1>1, <3>1, PoolAsks DEF MInv
  <2>3. CASE UNCHANGED poolVars \/ Restart
    <3>1. [PoolNext]_poolVars
      BY <2>3 DEF Restart, PoolNext
    <3>2. clients \in [Clients -> Usages]
      BY <1>1, RInvSound DEF MInv
    <3>3. ~Asks(c)
      BY <2>3, <3>2, NoClientsSound DEF Restart, PoolRestart, poolVars, Asks, Usages
    <3> QED BY <1>1, <3>3
  <2> QED BY <1>1, <2>1, <2>2, <2>3 DEF Next, Evaluate, Quiet, Cooldown, vars, poolVars
<1>2. MInv /\ [Next]_vars => [Needed]_vars
  BY <1>1 DEF Asks, WithinCap
<1> QED BY InitMInv, NextMInv, <1>2, PTL DEF Spec, OnlyUnderPressure

\* A round of the monitor asks until enough is pending or nobody has more.
THEOREM RoundsAreExhaustive == Spec => RoundExhaustive
<1> DEFINE Exhausted ==
      Reclaim(available') =>
        \/ Pending(clients') >= target_release_bytes'
        \/ \A c \in Clients : Available(clients'[c]) = 0
<1>1. ASSUME MInv, [Next]_vars, Reclaim(available')
      PROVE  \/ Pending(clients') >= target_release_bytes'
             \/ \A c \in Clients : Available(clients'[c]) = 0
  <2>1. PICK a \in 0 .. high : a = available' /\ Reclaim(a)
    BY <1>1, NextMInv DEF MInv
  <2> DEFINE target == Additional(Monus(high, a))
  <2>2. target \in Nat /\ RequestReleaseBytes(clients, older, target) /\ AgesStrict(older)
    BY <1>1, <2>1, ReclaimRound DEF MInv, RInv, Ages
  <2> HIDE DEF target
  <2>3. \/ Pending(clients') >= Pending(clients) + target
        \/ \A c \in Clients : Available(clients'[c]) = 0
    BY <1>1, <2>2, RInvSound, RoundEnds DEF MInv
  <2>4. Pending(clients) \in Nat /\ Pending(clients') \in Nat
    BY <1>1, NextMInv, RInvSound, Clientwise, SumsType DEF MInv, RInv
  <2>5. /\ target_release_bytes' = Monus(high, a)
        /\ target = Monus(Monus(high, a), Pending(clients))
        /\ Monus(high, a) \in Nat
    BY <2>1, MonusType, WatermarksAssumption DEF Reclaim, target, Additional
  <2>6. Pending(clients) + target >= Monus(high, a)
    BY <2>2, <2>4, <2>5 DEF Monus
  <2> QED BY <2>2, <2>3, <2>4, <2>5, <2>6
<1>2. MInv /\ [Next]_vars => [Exhausted]_vars
  BY <1>1
<1> QED BY InitMInv, NextMInv, <1>2, PTL DEF Spec, RoundExhaustive

=============================================================================
