---------------------------- MODULE MemoryPressure ----------------------------
(***************************************************************************)
(* The monitor of the host's memory (controller/memory_pressure.py, class  *)
(* MemoryPressureMonitor) over the coordinator of BackupPool.  The monitor *)
(* is a task that evaluates one sample per poll_interval_s; evaluate_once  *)
(* does not await, so an evaluation is one step between the handlers of    *)
(* the workers' requests.                                                  *)
(*                                                                         *)
(* Memory is what a sample says it is: the model does not relate a         *)
(* worker's releases to MemAvailable.  A probe that fails keeps the state  *)
(* and issues nothing, and is no step.                                     *)
(***************************************************************************)
EXTENDS BackupPool

CONSTANTS
  low,                 \* the two watermarks of _watermarks(total_bytes)
  high,
  consecutive_samples  \* cpu_memory_pressure_consecutive_samples

\* The monitor is enabled, and the configuration was validated.
ASSUME WatermarksAssumption ==
  /\ low \in Nat \ {0} /\ high \in Nat /\ low <= high
  /\ consecutive_samples \in Nat \ {0}

VARIABLES
  pressure,    \* MemoryPressureMonitor.state
  low_samples,
  available,   \* the last sample's MemAvailable; high stands for more, too
  target_release_bytes,
  unresolved_pressure_bytes,
  cooling,     \* reclaim_cooldown_s has not passed since the last request
  low_run      \* history, which nothing reads: how many of this monitor's last
               \* samples in a row were below low, up to consecutive_samples

monitor == <<pressure, low_samples, available, target_release_bytes,
             unresolved_pressure_bytes, cooling, low_run>>
vars    == <<poolVars, monitor>>

-----------------------------------------------------------------------------

MonitorTypeOK ==
  /\ TypeOK
  /\ pressure \in {"normal", "reclaiming"}
  /\ low_samples \in 0 .. consecutive_samples
  /\ available \in 0 .. high
  /\ target_release_bytes \in 0 .. high
  /\ unresolved_pressure_bytes \in 0 .. high
  /\ cooling \in BOOLEAN
  /\ low_run \in 0 .. consecutive_samples

FreshMonitor ==
  /\ pressure' = "normal"
  /\ low_samples' = 0
  /\ available' = high
  /\ target_release_bytes' = 0
  /\ unresolved_pressure_bytes' = 0
  /\ cooling' = FALSE
  /\ low_run' = 0

Init ==
  /\ PoolInit
  /\ pressure = "normal"
  /\ low_samples = 0
  /\ available = high
  /\ target_release_bytes = 0
  /\ unresolved_pressure_bytes = 0
  /\ cooling = FALSE
  /\ low_run = 0

\* The sample a is taken, and added to the history.
Sampled(a) ==
  /\ available' = a
  /\ low_run' = IF a < low THEN Least(low_run + 1, consecutive_samples) ELSE 0

\* Mutant of Classify: a sample between the watermarks does not start the count
\* again, so that low samples count that are not consecutive.
ClassifyGaps(a) ==
  \/ /\ a < low
     /\ low_samples' = Least(low_samples + 1, consecutive_samples)
     /\ pressure' = IF low_samples' >= consecutive_samples THEN "reclaiming" ELSE pressure
  \/ /\ a >= low
     /\ a >= high
     /\ low_samples' = 0
     /\ pressure' = "normal"
  \/ /\ a >= low
     /\ a < high
     /\ UNCHANGED <<low_samples, pressure>>

\* The state after the sample a.
Classify(a) ==
  \/ /\ a < low
     /\ low_samples' = Least(low_samples + 1, consecutive_samples)
     /\ pressure' = IF low_samples' >= consecutive_samples THEN "reclaiming" ELSE pressure
  \/ /\ a >= low
     /\ a >= high
     /\ low_samples' = 0
     /\ pressure' = "normal"
  \/ /\ a >= low
     /\ a < high
     /\ low_samples' = IF pressure = "reclaiming" THEN low_samples ELSE 0
     /\ UNCHANGED pressure

\* Mutant of Additional: what is pending is asked for again.
AdditionalAll(target) == target

\* What is asked for on top of what is pending.
Additional(target) == Monus(target, Pending(clients))

\* The evaluation of a sample that leaves the monitor in NORMAL.
Quiet(a) ==
  /\ Sampled(a)
  /\ Classify(a)
  /\ pressure' # "reclaiming"
  /\ target_release_bytes' = 0
  /\ unresolved_pressure_bytes' = 0
  /\ UNCHANGED <<poolVars, cooling>>

\* RECLAIMING, but the cooldown has not passed: nothing but the target is
\* brought up to date.
Cooldown(a) ==
  /\ Sampled(a)
  /\ Classify(a)
  /\ pressure' = "reclaiming"
  /\ target_release_bytes' = Monus(high, a)
  /\ cooling
  /\ UNCHANGED <<poolVars, unresolved_pressure_bytes, cooling>>

\* RECLAIMING, and the cooldown has passed, which it may have done since any
\* earlier request.
Reclaim(a) ==
  /\ Sampled(a)
  /\ Classify(a)
  /\ pressure' = "reclaiming"
  /\ target_release_bytes' = Monus(high, a)
  /\ RequestReleaseBytes(clients, older, Additional(Monus(high, a)))
  /\ unresolved_pressure_bytes' = Monus(Monus(high, a), Pending(clients'))
  /\ cooling' = (clients' # clients)
  /\ UNCHANGED older

\* evaluate_once
Evaluate(a) == Quiet(a) \/ Cooldown(a) \/ Reclaim(a)

\* The handlers of /admin/cpu-backup/*; the operator's and the cap's requests
\* do not start a cooldown.
Handle ==
  /\ \/ \E c \in Clients, m \in BackupModels : Register(c, m)
     \/ \E c \in Clients, m \in BackupModels, total \in 0 .. MaxBytes,
           evictable \in 0 .. MaxBytes, released \in 0 .. MaxReleased :
          Usage(c, m, total, evictable, released)
     \/ \E c \in Clients, target \in 1 .. MaxBytes : Release(c, target)
     \/ ReleaseRequests
  /\ UNCHANGED monitor

Restart == PoolRestart /\ FreshMonitor

Next ==
  \/ \E a \in 0 .. high : Evaluate(a)
  \/ Handle
  \/ Restart

Spec == Init /\ [][Next]_vars

-----------------------------------------------------------------------------
(***************************************************************************)
(* Safety.                                                                 *)
(***************************************************************************)

\* Debounce and hysteresis share one counter, and this is what the samples say
\* of them.  The monitor starts to reclaim only when as many samples as are
\* configured, one after the other, were all low, and it does not miss such a
\* run; once it reclaims, only a sample at the high watermark stops it, whatever
\* lies between (a monitor that is started again has seen no low sample).
DebouncedHysteresis ==
  [][/\ pressure = "normal" /\ pressure' = "reclaiming" => low_run' = consecutive_samples
     /\ low_run' = consecutive_samples => pressure' = "reclaiming"
     /\ pressure = "reclaiming" /\ pressure' = "normal" => available' >= high]_vars

\* Nothing is asked of the workers without need: the monitor asks only when
\* memory is low, and what is then pending on all of them together does not
\* exceed what is missing to the high watermark; the cap never asks for more
\* than the excess over it, whoever reports in whatever order.  The rest is an
\* operator's.
OnlyUnderPressure ==
  [][\A c \in Clients :
       clients'[c].requested_total > clients[c].requested_total =>
         \/ Reclaim(available') /\ Pending(clients') <= high - available'
         \/ Cap # NoCap /\ Pending(clients') + Cap <= Total(clients')
         \/ ByOperator(c) /\ UNCHANGED monitor]_vars

\* The hysteresis asks until the target is reached: after a round, either
\* enough is pending or nobody can release more.
RoundExhaustive ==
  [][Reclaim(available') =>
       \/ Pending(clients') >= target_release_bytes'
       \/ \A c \in Clients : Available(clients'[c]) = 0]_vars

-----------------------------------------------------------------------------
(***************************************************************************)
(* docs/cpu_backup_coordinator.md: "Required or copy-in-flight backup      *)
(* cannot be released; the shortfall remains visible as                    *)
(* `unresolved_pressure_bytes`."                                           *)
(***************************************************************************)

\* What the workers can release of what is pending, as they last reported.
Releasable(s) ==
  SumFunctionOnSet([c \in Clients |-> Least(s[c].evictable, s[c].pending)], Clients)

\* After a round, the part of the target that no worker can release is
\* reported, while the workers still hold what is pending.
ShortfallVisible ==
  [][/\ Reclaim(available')
     /\ \A c \in Clients : clients'[c].total >= clients'[c].pending
     => unresolved_pressure_bytes' >= Monus(target_release_bytes', Releasable(clients'))]_vars

=============================================================================
