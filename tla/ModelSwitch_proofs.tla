-------------------------- MODULE ModelSwitch_proofs --------------------------
(***************************************************************************)
(* Theorems about ModelSwitch, for every set of models and requests, every *)
(* policy, and backends that do whatever they like; the last part is about *)
(* backends that change only by the POST under way.                        *)
(***************************************************************************)
EXTENDS ModelSwitch, TLAPS, FiniteSetTheorems, SequenceTheorems

UnderLock == {"probing", "draining", "sleeping", "waking", "entering", "reserved"}

-----------------------------------------------------------------------------
(***************************************************************************)
(* The inductive invariant.                                                *)
(***************************************************************************)

\* Whoever is between acquiring switch_lock and leaving it holds it.
LockInv == \A r \in Requests : pc[r] \in UnderLock => switch_lock = r

\* The queue of the lock holds waiting requests, each once.
WaitersInv ==
  /\ \A i \in 1 .. Len(waiters) : pc[waiters[i]] = "waiting"
  /\ \A i, j \in 1 .. Len(waiters) : waiters[i] = waiters[j] => i = j

\* A request that is being served has a target; only the queue and the
\* startup pass come before the pool has been observed.
TaskInv ==
  \A r \in Requests :
    /\ pc[r] # "idle" => target[r] \in Models
    /\ pc[r] \notin {"idle", "waiting", "probing"} => state.startup_reconciled

\* The states of the models once the pool has been observed: one model at
\* most is not asleep, and it is active exactly when it can serve.
Shape(s) ==
  /\ \A a, b \in Models : a # b =>
       s.model_states[a] = "sleeping" \/ s.model_states[b] = "sleeping"
  /\ \A m \in Models : s.model_states[m] = "awake" => s.active_model = m
  /\ \A m \in Models : s.active_model = m =>
       s.model_states[m] \in {"awake", "sleeping_in_progress"}

\* Nothing is under way and nothing is in doubt.
Stable(s) ==
  /\ s.startup_reconciled
  /\ Shape(s)
  /\ \A m \in Models : s.model_states[m] \in {"awake", "sleeping"}

ShapeInv == state.startup_reconciled => Shape(state)

\* A transition is under way only in the hands of a request.
TransitInv ==
  \A m \in Models :
    /\ state.model_states[m] = "waking" =>
         \E r \in Requests : pc[r] = "waking"
    /\ state.model_states[m] = "sleeping_in_progress" =>
         \E r \in Requests : pc[r] = "sleeping"
    /\ state.model_states[m] = "unknown" => ~state.startup_reconciled

\* A pass has recorded what it has seen so far.  A later pass has one model
\* to observe, which failed a transition, and no other is awake.
ProbeInv ==
  /\ to_probe # {}
  /\ observed_awake \cap to_probe = {}
  /\ \A m \in Models \ to_probe :
       state.model_states[m] = IF m \in observed_awake THEN "awake" ELSE "sleeping"
  /\ IF observed_awake = {} THEN state.active_model \in to_probe \cup {NONE}
                            ELSE state.active_model \in observed_awake
  /\ state.startup_reconciled =>
       /\ \A a, b \in to_probe : a = b
       /\ \A m \in to_probe : state.model_states[m] = "error"
       /\ state.active_model = NONE
       /\ observed_awake = {}

\* What the holder of the lock knows at each of its awaits.
HolderInv ==
  \A r \in Requests :
    /\ pc[r] = "probing" => ProbeInv
    /\ pc[r] = "draining" =>
         /\ Stable(state)
         /\ state.active_model \in Models \ {target[r]}
         /\ decision = Decision(state.active_model, target[r], TRUE)
    /\ pc[r] = "sleeping" =>
         /\ decision.sleep_model \in Models \ {target[r]}
         /\ decision.wake_model = target[r]
         /\ state.active_model = decision.sleep_model
         /\ state.model_states[decision.sleep_model] = "sleeping_in_progress"
    /\ pc[r] = "waking" =>
         /\ decision.wake_model = target[r]
         /\ state.active_model = NONE
         /\ state.model_states[target[r]] = "waking"
    /\ pc[r] \in {"entering", "reserved"} =>
         /\ Stable(state)
         /\ state.active_model = target[r]

\* A request with a reservation is on the active model, which is awake.
ReservedInv ==
  \A r \in Requests : Reserved(r) =>
    /\ state.active_model = target[r]
    /\ state.model_states[target[r]] = "awake"

IInv ==
  /\ TypeOK
  /\ LockInv
  /\ WaitersInv
  /\ TaskInv
  /\ ShapeInv
  /\ TransitInv
  /\ HolderInv
  /\ ReservedInv
  /\ ReservationsExact

-----------------------------------------------------------------------------
(***************************************************************************)
(* Lemmas about the operators of ControllerState.                          *)
(***************************************************************************)

LEMMA MarksType ==
  ASSUME NEW s \in ControllerStates, NEW m \in Models
  PROVE  /\ MarkAwake(s, m) \in ControllerStates
         /\ MarkSleeping(s, m) \in ControllerStates
         /\ MarkWaking(s, m) \in ControllerStates
         /\ MarkSleepingInProgress(s, m) \in ControllerStates
         /\ MarkError(s, m) \in ControllerStates
  BY DEF MarkAwake, MarkSleeping, MarkWaking, MarkSleepingInProgress, MarkError,
         ControllerStates, ModelState

LEMMA MarkFields ==
  ASSUME NEW s \in ControllerStates, NEW m \in Models
  PROVE  /\ MarkAwake(s, m).startup_reconciled = s.startup_reconciled
         /\ MarkAwake(s, m).model_states[m] = "awake"
         /\ \A n \in Models \ {m} : MarkAwake(s, m).model_states[n] = s.model_states[n]
         /\ MarkAwake(s, m).active_model = m
         /\ MarkSleeping(s, m).startup_reconciled = s.startup_reconciled
         /\ MarkSleeping(s, m).model_states[m] = "sleeping"
         /\ \A n \in Models \ {m} : MarkSleeping(s, m).model_states[n] = s.model_states[n]
         /\ MarkSleeping(s, m).active_model =
              IF s.active_model = m THEN NONE ELSE s.active_model
         /\ MarkError(s, m).startup_reconciled = s.startup_reconciled
         /\ MarkError(s, m).model_states[m] = "error"
         /\ \A n \in Models \ {m} : MarkError(s, m).model_states[n] = s.model_states[n]
         /\ MarkError(s, m).active_model =
              IF s.active_model = m THEN NONE ELSE s.active_model
  BY DEF MarkAwake, MarkSleeping, MarkError, ControllerStates

LEMMA TransitFields ==
  ASSUME NEW s \in ControllerStates, NEW m \in Models
  PROVE  /\ MarkSleepingInProgress(s, m).startup_reconciled = s.startup_reconciled
         /\ MarkSleepingInProgress(s, m).active_model = s.active_model
         /\ MarkSleepingInProgress(s, m).model_states[m] = "sleeping_in_progress"
         /\ \A n \in Models \ {m} :
              MarkSleepingInProgress(s, m).model_states[n] = s.model_states[n]
  BY DEF MarkSleepingInProgress, ControllerStates

LEMMA MarkErrorsType ==
  ASSUME NEW s \in ControllerStates, NEW S \in SUBSET Models
  PROVE  MarkErrors(s, S) \in ControllerStates
  BY DEF MarkErrors, ControllerStates, ModelState

LEMMA FromModelsType == FromModels(startup_awake_model) \in ControllerStates
  BY StartupAssumption DEF FromModels, ControllerStates, ModelState

\* The policies decide alike.  On a stable state they keep the target, wake it
\* when no model is active, and otherwise replace the active one.
LEMMA DecideStable ==
  ASSUME NEW s \in ControllerStates, NEW m \in Models, Stable(s)
  PROVE  /\ Decide(Policy, s, m) \in Decisions
         /\ Decide(Policy, s, m) = NoSwitch =>
              s.active_model = m
         /\ Decide(Policy, s, m) # NoSwitch /\ ~Decide(Policy, s, m).wait_for_active_requests =>
              /\ s.active_model = NONE
              /\ Decide(Policy, s, m) = Decision(NONE, m, FALSE)
         /\ Decide(Policy, s, m).wait_for_active_requests =>
              /\ s.active_model \in Models \ {m}
              /\ Decide(Policy, s, m) = Decision(s.active_model, m, TRUE)
  BY ModelsAssumption
  DEF Stable, Shape, Decide, AlwaysAwakePrevious, AlwaysSleepPrevious, NoSwitch,
      Decision, Decisions, ControllerStates, ModelState

LEMMA NoSwitchType == NoSwitch \in Decisions
  BY DEF NoSwitch, Decision, Decisions

-----------------------------------------------------------------------------
(***************************************************************************)
(* Lemmas about the queue and the reservations.                            *)
(***************************************************************************)

LEMMA RemoveFromQueue ==
  ASSUME NEW S, NEW q \in Seq(S), NEW i \in 1 .. Len(q)
  PROVE  LET t == SubSeq(q, 1, i - 1) \o SubSeq(q, i + 1, Len(q))
         IN  /\ t \in Seq(S)
             /\ Len(t) = Len(q) - 1
             /\ \A j \in 1 .. Len(q) - 1 : t[j] = IF j < i THEN q[j] ELSE q[j + 1]
  <1>. DEFINE u == SubSeq(q, 1, i - 1)
              v == SubSeq(q, i + 1, Len(q))
              t == u \o v
  <1>1. u \in Seq(S) /\ Len(u) = i - 1 /\ \A j \in 1 .. i - 1 : u[j] = q[j]
    OBVIOUS
  <1>2. v \in Seq(S) /\ Len(v) = Len(q) - i
    OBVIOUS
  <1>3. \A j \in 1 .. Len(q) - i : v[j] = q[j + i]
    OBVIOUS
  <1>. HIDE DEF u, v
  <1>4. /\ t \in Seq(S)
        /\ Len(t) = Len(u) + Len(v)
        /\ \A j \in 1 .. Len(u) + Len(v) :
             t[j] = IF j <= Len(u) THEN u[j] ELSE v[j - Len(u)]
    BY <1>1, <1>2, ConcatProperties
  <1>. HIDE DEF t
  <1>5. Len(t) = Len(q) - 1
    BY <1>1, <1>2, <1>4
  <1>6. ASSUME NEW j \in 1 .. Len(q) - 1
        PROVE  t[j] = IF j < i THEN q[j] ELSE q[j + 1]
    <2>1. CASE j < i
      <3>1. t[j] = u[j]
        BY <2>1, <1>1, <1>2, <1>4, SMTT(60)
      <3>2. u[j] = q[j]
        BY <2>1, <1>1
      <3>. QED
        BY <2>1, <3>1, <3>2
    <2>2. CASE ~(j < i)
      <3>1. t[j] = v[j - (i - 1)]
        BY <2>2, <1>1, <1>2, <1>4, SMTT(60)
      <3>2. j - (i - 1) \in 1 .. Len(q) - i
        BY <2>2
      <3>3. v[j - (i - 1)] = q[(j - (i - 1)) + i]
        BY <3>2, <1>3
      <3>. QED
        BY <2>2, <3>1, <3>3
    <2>. QED
      BY <2>1, <2>2
  <1>. QED
    BY <1>4, <1>5, <1>6 DEF t, u, v

\* Nobody leaves the queue by changing its own place in the code.
LEMMA WaitersKept ==
  ASSUME WaitersInv, TypeOK, UNCHANGED waiters,
         \A q \in Requests : pc[q] = "waiting" => pc'[q] = "waiting"
  PROVE  WaitersInv'
  BY DEF WaitersInv, TypeOK

LEMMA LockKept ==
  ASSUME LockInv, UNCHANGED switch_lock,
         \A q \in Requests : pc'[q] \in UnderLock => pc[q] \in UnderLock
  PROVE  LockInv'
  BY DEF LockInv

\* What holds at an await holds until the holder goes on.
LEMMA HolderKept ==
  ASSUME HolderInv, UNCHANGED <<state, locals>>,
         \A q \in Requests :
           pc'[q] \in UnderLock => pc'[q] = pc[q] /\ target'[q] = target[q]
  PROVE  HolderInv'
  <1>1. (ProbeInv <=> ProbeInv') /\ (Stable(state) <=> Stable(state)')
    BY DEF ProbeInv, Stable, Shape, locals
  <1>2. ASSUME NEW q \in Requests, pc'[q] \in UnderLock
        PROVE  pc'[q] = pc[q] /\ target'[q] = target[q]
    BY <1>2
  <1>. QED
    BY <1>1, <1>2, ZenonT(60) DEF HolderInv, UnderLock, locals

LEMMA ReservedKept ==
  ASSUME ReservedInv, UNCHANGED state,
         \A q \in Requests : Reserved(q)' => Reserved(q) /\ target'[q] = target[q]
  PROVE  ReservedInv'
  BY DEF ReservedInv, Reserved

LEMMA CountKept ==
  ASSUME ReservationsExact, UNCHANGED active_requests,
         \A q \in Requests :
           /\ Reserved(q) <=> Reserved(q)'
           /\ Reserved(q) => target'[q] = target[q]
  PROVE  ReservationsExact'
  <1>1. Inside' = Inside
    BY DEF Inside
  <1>. QED
    BY <1>1 DEF ReservationsExact

LEMMA InsideFinite ==
  ASSUME NEW m \in Models
  PROVE  IsFiniteSet(Inside[m])
  <1>1. Inside[m] \subseteq Requests
    BY DEF Inside
  <1>. QED
    BY <1>1, RequestsAssumption, FS_Subset

-----------------------------------------------------------------------------

LEMMA InitIInv == Init => IInv
  <1>. SUFFICES ASSUME Init PROVE IInv
    OBVIOUS
  <1>1. TypeOK
    <2>1. state \in ControllerStates /\ decision \in Decisions
      BY FromModelsType, NoSwitchType DEF Init
    <2>2. waiters \in Seq(Requests)
      BY DEF Init
    <2>. QED
      BY <2>1, <2>2 DEF Init, TypeOK, PC
  <1>2. LockInv /\ WaitersInv /\ TaskInv /\ HolderInv /\ ReservedInv
    BY DEF Init, LockInv, WaitersInv, TaskInv, HolderInv, ReservedInv, Reserved, UnderLock
  <1>3. ShapeInv /\ TransitInv
    BY DEF Init, ShapeInv, TransitInv, FromModels
  <1>4. ReservationsExact
    <2>1. \A m \in Models : Inside[m] = {}
      BY DEF Init, Inside, Reserved
    <2>. QED
      BY <2>1, FS_EmptySet DEF Init, ReservationsExact
  <1>. QED
    BY <1>1, <1>2, <1>3, <1>4 DEF IInv

-----------------------------------------------------------------------------
(***************************************************************************)
(* Steps by their effect: several actions end in the same way.             *)
(***************************************************************************)

\* The holder is alone under the lock.
LEMMA HolderAlone ==
  ASSUME IInv, NEW r \in Requests, pc[r] \in UnderLock \/ switch_lock = NONE
  PROVE  \A q \in Requests \ {r} : pc[q] \notin UnderLock
  BY RequestsAssumption DEF IInv, LockInv

\* A step of the backends touches nothing the invariant speaks of.
LEMMA BackendStep ==
  ASSUME IInv, UNCHANGED <<state, active_requests, switch_lock, waiters, tasks, locals>>,
         applied' \in BOOLEAN, awake' \in [Models -> BOOLEAN], late' \in SUBSET Posts
  PROVE  IInv'
  <1>. USE DEF IInv, tasks, locals
  <1>1. TypeOK'
    BY DEF TypeOK
  <1>2. LockInv' /\ WaitersInv' /\ TaskInv'
    BY DEF LockInv, WaitersInv, TaskInv
  <1>3. ShapeInv' /\ TransitInv'
    BY DEF ShapeInv, Shape, TransitInv
  <1>4. Stable(state)' = Stable(state) /\ ProbeInv' = ProbeInv
    BY Zenon DEF Stable, Shape, ProbeInv
  <1>5. HolderInv'
    BY <1>4, Zenon DEF HolderInv
  <1>6. ReservedInv'
    BY Zenon DEF ReservedInv, Reserved, tasks
  <1>7. ReservationsExact'
    BY CountKept DEF Reserved
  <1>. QED
    BY <1>1, <1>2, <1>3, <1>5, <1>6, <1>7

\* The holder fails with the state s: it drops the lock, and whoever comes
\* next finds no transition under way.
LEMMA FailStep ==
  ASSUME IInv, NEW r \in Requests,
         pc[r] \in {"probing", "draining", "sleeping", "waking"},
         FailUnderLock(r), UNCHANGED <<active_requests, waiters>>,
         awake' \in [Models -> BOOLEAN], late' \in SUBSET Posts,
         state' \in ControllerStates,
         state'.startup_reconciled = state.startup_reconciled,
         state'.startup_reconciled => Shape(state'),
         \A m \in Models :
           /\ state'.model_states[m] \notin {"waking", "sleeping_in_progress"}
           /\ state'.model_states[m] = "unknown" => ~state'.startup_reconciled,
         \A q \in Requests : Reserved(q) =>
           /\ state'.active_model = target[q]
           /\ state'.model_states[target[q]] = "awake"
  PROVE  IInv'
  <1>1. \A q \in Requests \ {r} : pc[q] \notin UnderLock
    BY HolderAlone DEF UnderLock
  <1>. USE DEF IInv
  <1>2. TypeOK'
    BY NoSwitchType DEF TypeOK, FailUnderLock, Finish, ForgetLocals, PC
  <1>3. LockInv'
    BY <1>1 DEF LockInv, FailUnderLock, Finish, TypeOK, UnderLock
  <1>4. WaitersInv'
    BY WaitersKept DEF FailUnderLock, Finish, TypeOK
  <1>5. TaskInv'
    BY DEF TaskInv, FailUnderLock, Finish, TypeOK
  <1>6. ShapeInv' /\ TransitInv'
    BY DEF ShapeInv, TransitInv
  <1>7. HolderInv'
    BY <1>1, ZenonT(60) DEF HolderInv, FailUnderLock, Finish, TypeOK, UnderLock
  <1>8. ReservedInv'
    BY DEF ReservedInv, Reserved, FailUnderLock, Finish, TypeOK
  <1>9. ReservationsExact'
    BY CountKept DEF Reserved, FailUnderLock, Finish, TypeOK
  <1>. QED
    BY <1>2, <1>3, <1>4, <1>5, <1>6, <1>7, <1>8, <1>9

\* The model of the request is ready in the stable state s.
LEMMA ReadyStep ==
  ASSUME IInv, NEW r \in Requests, pc[r] \in {"waiting", "probing", "waking"},
         \A q \in Requests \ {r} : pc[q] \notin UnderLock,
         WaitersInv', waiters' \in Seq(Requests),
         Ready(r), UNCHANGED <<active_requests, backends>>,
         state' \in ControllerStates, Stable(state'),
         state'.active_model = target[r],
         \A q \in Requests : Reserved(q) =>
           /\ state'.active_model = target[q]
           /\ state'.model_states[target[q]] = "awake"
  PROVE  IInv'
  <1>. USE DEF IInv
  <1>1. /\ pc' = [pc EXCEPT ![r] = IF kind[r] = "proxy" THEN "entering" ELSE "idle"]
        /\ switch_lock' = IF kind[r] = "proxy" THEN r ELSE NONE
        /\ target' = IF kind[r] = "proxy" THEN target ELSE [target EXCEPT ![r] = NONE]
        /\ kind' \in [Requests -> {"proxy", "admin"}]
        /\ cancelled' \in SUBSET Requests
    BY DEF Ready, GoTo, Finish, TypeOK
  <1>2. TypeOK'
    BY <1>1, NoSwitchType DEF TypeOK, Ready, ForgetLocals, PC, backends
  <1>3. LockInv'
    BY <1>1 DEF LockInv, TypeOK, UnderLock
  <1>4. TaskInv'
    BY <1>1 DEF TaskInv, TypeOK, Stable
  <1>5. ShapeInv' /\ TransitInv'
    BY DEF ShapeInv, TransitInv, Stable
  <1>6. HolderInv'
    <2>1. \A q \in Requests \ {r} : pc'[q] \notin UnderLock
      BY <1>1 DEF TypeOK
    <2>2. pc'[r] \in {"entering", "idle"}
      BY <1>1 DEF TypeOK
    <2>3. pc'[r] = "entering" => target'[r] = target[r]
      BY <1>1 DEF TypeOK
    <2>. QED
      BY <2>1, <2>2, <2>3 DEF HolderInv, UnderLock, Stable
  <1>7. ReservedInv'
    BY <1>1 DEF ReservedInv, Reserved, TypeOK
  <1>8. ReservationsExact'
    BY <1>1, CountKept DEF Reserved, TypeOK
  <1>. QED
    BY <1>2, <1>3, <1>4, <1>5, <1>6, <1>7, <1>8

\* The policy is applied to the stable state s.
LEMMA RouteStep ==
  ASSUME IInv, NEW r \in Requests, pc[r] \in {"waiting", "probing"},
         \A q \in Requests \ {r} : pc[q] \notin UnderLock,
         WaitersInv', waiters' \in Seq(Requests),
         NEW s \in ControllerStates, Stable(s),
         Route(r, s), UNCHANGED <<active_requests, backends>>,
         \A q \in Requests : Reserved(q) =>
           /\ s.active_model = target[q]
           /\ s.model_states[target[q]] = "awake"
  PROVE  IInv'
  <1>. DEFINE d == Decide(Policy, s, target[r])
  <1>1. target[r] \in Models
    BY DEF IInv, TaskInv
  <1>2. CASE d = NoSwitch
    <2>1. state' = s /\ Ready(r)
      BY <1>2 DEF Route
    <2>2. s.active_model = target[r]
      BY <1>1, <1>2, DecideStable
    <2>. QED
      BY <2>1, <2>2, ReadyStep
  <1>3. CASE d # NoSwitch
    <2>. DEFINE l == IF d.wait_for_active_requests THEN "draining" ELSE "waking"
    <2>1. /\ pc' = [pc EXCEPT ![r] = l]
          /\ UNCHANGED <<target, kind, cancelled>>
          /\ to_probe' = {} /\ observed_awake' = {} /\ decision' = d
          /\ applied' = FALSE /\ switch_lock' = r
          /\ state' = IF d.wait_for_active_requests THEN s ELSE MarkWaking(s, d.wake_model)
      BY <1>3 DEF Route, GoTo, NoSwitch, Decision
    <2>2. d \in Decisions
      BY <1>1, DecideStable
    <2>3. d.wait_for_active_requests =>
            /\ s.active_model \in Models \ {target[r]}
            /\ d = Decision(s.active_model, target[r], TRUE)
      BY <1>1, DecideStable
    <2>4. ~d.wait_for_active_requests =>
            /\ s.active_model = NONE
            /\ d.wake_model = target[r]
      BY <1>1, <1>3, DecideStable DEF Decision
    <2>. HIDE DEF d
    <2>5. state' \in ControllerStates
      BY <1>1, <2>1, <2>4, MarksType
    <2>6. /\ pc[r] \notin {"reserved", "proxying", "exiting"}
          /\ pc' \in [Requests -> PC] /\ pc'[r] = l
          /\ \A q \in Requests \ {r} : pc'[q] = pc[q]
          /\ l \in {"draining", "waking"}
      BY <2>1 DEF IInv, TypeOK, PC
    <2>. HIDE DEF l
    <2>7. TypeOK'
      BY <2>1, <2>2, <2>5, <2>6 DEF IInv, TypeOK, backends
    <2>8. LockInv'
      BY <2>1, <2>6 DEF LockInv
    <2>9. state'.startup_reconciled
      BY <2>1 DEF Stable, MarkWaking, ControllerStates
    <2>10. TaskInv'
      BY <2>1, <2>6, <2>9, <1>1 DEF IInv, TaskInv
    <2>11. CASE d.wait_for_active_requests
      <3>1. state' = s /\ l = "draining"
        BY <2>1, <2>11 DEF l
      <3>2. ShapeInv' /\ TransitInv'
        BY <3>1 DEF ShapeInv, TransitInv, Stable
      <3>3. HolderInv'
        BY <2>1, <2>3, <2>6, <2>11, <3>1, ZenonT(60) DEF HolderInv, UnderLock, Stable
      <3>4. ReservedInv'
        BY <2>1, <2>6, <3>1 DEF ReservedInv, Reserved
      <3>5. ReservationsExact'
        BY <2>1, <2>6, <3>1, CountKept DEF IInv, Reserved
      <3>. QED
        BY <2>7, <2>8, <2>10, <3>2, <3>3, <3>4, <3>5 DEF IInv
    <2>12. CASE ~d.wait_for_active_requests
      <3>1. state' = MarkWaking(s, target[r]) /\ l = "waking"
        BY <2>1, <2>4, <2>12 DEF l
      <3>2. /\ state'.active_model = NONE
            /\ state'.model_states[target[r]] = "waking"
            /\ \A m \in Models \ {target[r]} : state'.model_states[m] = "sleeping"
        BY <1>1, <2>4, <2>12, <3>1, ModelsAssumption
        DEF MarkWaking, ControllerStates, Stable, Shape
      <3>3. ShapeInv' /\ TransitInv'
        BY <1>1, <2>6, <3>1, <3>2, ModelsAssumption DEF ShapeInv, Shape, TransitInv
      <3>4. HolderInv'
        BY <2>1, <2>4, <2>6, <2>12, <3>1, <3>2, ZenonT(60) DEF HolderInv, UnderLock
      <3>5. \A q \in Requests : ~Reserved(q)
        BY <2>4, <2>12, ModelsAssumption DEF IInv, TaskInv, Reserved
      <3>6. ReservedInv'
        BY <2>6, <3>1, <3>5 DEF ReservedInv, Reserved
      <3>7. ReservationsExact'
        BY <2>1, <2>6, <3>1, CountKept DEF IInv, Reserved
      <3>. QED
        BY <2>7, <2>8, <2>10, <3>3, <3>4, <3>6, <3>7 DEF IInv
    <2>. QED
      BY <2>11, <2>12
  <1>. QED
    BY <1>2, <1>3

-----------------------------------------------------------------------------
(***************************************************************************)
(* One lemma per action.                                                   *)
(***************************************************************************)

LEMMA ArriveStep ==
  ASSUME IInv, NEW r \in Requests, NEW m \in Models, NEW k \in {"proxy", "admin"},
         Arrive(r, m, k)
  PROVE  IInv'
  <1>. USE DEF IInv
  <1>1. /\ pc[r] = "idle"
        /\ pc' \in [Requests -> PC] /\ pc'[r] = "waiting"
        /\ \A q \in Requests \ {r} : pc'[q] = pc[q] /\ target'[q] = target[q]
        /\ target' \in [Requests -> Models \cup {NONE}] /\ target'[r] = m
    BY DEF Arrive, TypeOK, PC
  <1>2. /\ Len(waiters') = Len(waiters) + 1
        /\ waiters' \in Seq(Requests)
        /\ \A i \in 1 .. Len(waiters) : waiters'[i] = waiters[i] /\ waiters[i] \in Requests
        /\ waiters'[Len(waiters) + 1] = r
    BY AppendProperties DEF Arrive, TypeOK
  <1>3. TypeOK'
    BY <1>1, <1>2 DEF TypeOK, Arrive, locals, backends
  <1>4. LockInv' /\ TaskInv' /\ HolderInv' /\ ReservedInv'
    BY <1>1, LockKept, HolderKept, ReservedKept
    DEF TaskInv, Reserved, UnderLock, Arrive
  <1>5. WaitersInv'
    <2>1. \A i \in 1 .. Len(waiters) : waiters[i] # r /\ pc[waiters[i]] = "waiting"
      BY <1>1 DEF WaitersInv
    <2>2. Len(waiters) \in Nat
      BY DEF TypeOK
    <2>3. \A i \in 1 .. Len(waiters') : i \in 1 .. Len(waiters) \/ i = Len(waiters) + 1
      BY <1>2, <2>2
    <2>. QED
      BY <1>1, <1>2, <2>1, <2>3 DEF WaitersInv
  <1>6. ShapeInv' /\ TransitInv'
    BY <1>1 DEF ShapeInv, TransitInv, Arrive
  <1>7. ReservationsExact'
    BY <1>1, CountKept DEF Reserved, Arrive
  <1>. QED
    BY <1>3, <1>4, <1>5, <1>6, <1>7

LEMMA CancelWaitingStep ==
  ASSUME IInv, NEW r \in Requests, CancelWaiting(r)
  PROVE  IInv'
  <1>. USE DEF IInv
  <1>1. PICK i \in 1 .. Len(waiters) :
          /\ waiters[i] = r
          /\ waiters' = SubSeq(waiters, 1, i - 1) \o SubSeq(waiters, i + 1, Len(waiters))
          /\ Finish(r)
          /\ UNCHANGED <<state, active_requests, switch_lock, locals, applied, backends>>
    <2>1. DOMAIN waiters = 1 .. Len(waiters)
      BY DEF TypeOK
    <2>. QED
      BY <2>1 DEF CancelWaiting
  <1>2. /\ pc[r] = "waiting"
        /\ pc' \in [Requests -> PC] /\ pc'[r] = "idle"
        /\ \A q \in Requests \ {r} : pc'[q] = pc[q] /\ target'[q] = target[q]
        /\ target' \in [Requests -> Models \cup {NONE}]
    BY <1>1 DEF Finish, TypeOK, WaitersInv, PC
  <1>3. /\ waiters' \in Seq(Requests)
        /\ Len(waiters') = Len(waiters) - 1
        /\ \A j \in 1 .. Len(waiters) - 1 :
             waiters'[j] = IF j < i THEN waiters[j] ELSE waiters[j + 1]
    BY <1>1, RemoveFromQueue DEF TypeOK
  <1>4. TypeOK'
    BY <1>1, <1>2, <1>3 DEF TypeOK, Finish, locals, backends
  <1>5. LockInv' /\ TaskInv' /\ HolderInv' /\ ReservedInv'
    BY <1>1, <1>2, LockKept, HolderKept, ReservedKept DEF TaskInv, Reserved, UnderLock
  <1>6. WaitersInv'
    <2>. DEFINE old(j) == IF j < i THEN j ELSE j + 1
    <2>1. Len(waiters) \in Nat
      BY DEF TypeOK
    <2>2. \A j \in 1 .. Len(waiters') :
            /\ old(j) \in 1 .. Len(waiters) /\ old(j) # i
            /\ waiters'[j] = waiters[old(j)]
      BY <1>3, <2>1
    <2>3. \A j, k \in 1 .. Len(waiters') : old(j) = old(k) => j = k
      BY <1>3, <2>1
    <2>. HIDE DEF old
    <2>4. \A j \in 1 .. Len(waiters) : j # i => waiters[j] # r
      BY <1>1 DEF WaitersInv
    <2>5. \A j \in 1 .. Len(waiters) : waiters[j] \in Requests
      BY DEF TypeOK
    <2>. QED
      <3>1. \A j \in 1 .. Len(waiters') :
              waiters'[j] \in Requests \ {r} /\ pc[waiters'[j]] = "waiting"
        <4>1. \A j \in 1 .. Len(waiters) : pc[waiters[j]] = "waiting"
          BY DEF WaitersInv
        <4>. QED
          BY <2>2, <2>4, <2>5, <4>1
      <3>2. ASSUME NEW j \in 1 .. Len(waiters'), NEW k \in 1 .. Len(waiters'),
                   waiters'[j] = waiters'[k]
            PROVE  old(j) = old(k)
        <4>1. waiters[old(j)] = waiters[old(k)]
          BY <2>2, <3>2
        <4>. QED
          BY <2>2, <4>1 DEF WaitersInv
      <3>3. \A j \in 1 .. Len(waiters') : pc'[waiters'[j]] = "waiting"
        BY <1>2, <3>1
      <3>4. \A j, k \in 1 .. Len(waiters') : waiters'[j] = waiters'[k] => j = k
        BY <2>3, <3>2
      <3>. QED
        BY <3>3, <3>4 DEF WaitersInv
  <1>7. ShapeInv' /\ TransitInv'
    BY <1>1, <1>2 DEF ShapeInv, TransitInv
  <1>8. ReservationsExact'
    BY <1>1, <1>2, CountKept DEF Reserved
  <1>. QED
    BY <1>4, <1>5, <1>6, <1>7, <1>8

LEMMA AcquireLockStep ==
  ASSUME IInv, NEW r \in Requests, AcquireLock(r)
  PROVE  IInv'
  <1>. USE DEF IInv
  <1>. DEFINE unsafe == IF state.startup_reconciled THEN UnsafeModels(state) ELSE Models
  <1>1. /\ switch_lock = NONE /\ waiters # <<>> /\ r = Head(waiters)
        /\ waiters' = Tail(waiters)
        /\ UNCHANGED <<active_requests, backends>>
    BY DEF AcquireLock
  <1>2. /\ pc[r] = "waiting"
        /\ waiters' \in Seq(Requests) /\ Len(waiters') = Len(waiters) - 1
        /\ \A i \in 1 .. Len(waiters') : waiters'[i] = waiters[i + 1] /\ waiters[i + 1] # r
    <2>1. /\ waiters' \in Seq(Requests) /\ Len(waiters') = Len(waiters) - 1
          /\ \A i \in 1 .. Len(waiters') : waiters'[i] = waiters[i + 1]
      BY <1>1, HeadTailProperties DEF TypeOK
    <2>2. Len(waiters) \in Nat \ {0} /\ waiters[1] = r
      BY <1>1 DEF TypeOK
    <2>. QED
      BY <2>1, <2>2, SMTT(60) DEF WaitersInv
  <1>3. \A q \in Requests : pc[q] \notin UnderLock
    BY <1>1, RequestsAssumption DEF LockInv
  <1>4. target[r] \in Models
    BY <1>2 DEF TaskInv
  <1>5. ASSUME \A q \in Requests \ {r} : pc'[q] = pc[q]
        PROVE  WaitersInv'
    <2>1. Len(waiters) \in Nat
      BY DEF TypeOK
    <2>2. \A i \in 1 .. Len(waiters') : i + 1 \in 1 .. Len(waiters)
      BY <1>2, <2>1
    <2>3. \A i \in 1 .. Len(waiters') : waiters'[i] \in Requests \ {r}
      <3>1. \A i \in 1 .. Len(waiters) : waiters[i] \in Requests
        BY DEF TypeOK
      <3>. QED
        BY <1>2, <2>2, <3>1
    <2>4. \A i \in 1 .. Len(waiters') : pc'[waiters'[i]] = "waiting"
      BY <1>2, <1>5, <2>2, <2>3 DEF WaitersInv
    <2>5. \A i, j \in 1 .. Len(waiters') : waiters'[i] = waiters'[j] => i = j
      BY <1>2, <2>1, <2>2 DEF WaitersInv
    <2>. QED
      BY <2>4, <2>5 DEF WaitersInv
  <1>6. \A m \in Models :
          state.model_states[m] \notin {"waking", "sleeping_in_progress"}
    BY <1>3 DEF TransitInv, UnderLock
  <1>7. CASE unsafe # {} /\ BeginProbing(r, unsafe)
    <2>1. /\ pc' = [pc EXCEPT ![r] = "probing"] /\ switch_lock' = r
          /\ to_probe' = unsafe /\ observed_awake' = {}
          /\ UNCHANGED <<state, target, kind, cancelled, decision, applied>>
      BY <1>7 DEF BeginProbing, GoTo
    <2>2. pc' \in [Requests -> PC] /\ pc'[r] = "probing" /\ \A q \in Requests \ {r} : pc'[q] = pc[q]
      BY <2>1 DEF TypeOK, PC
    <2>3. unsafe \subseteq Models
      BY DEF UnsafeModels
    <2>4. TypeOK'
      BY <1>1, <1>2, <2>1, <2>2, <2>3 DEF TypeOK, backends
    <2>5. LockInv' /\ TaskInv' /\ WaitersInv'
      BY <1>3, <1>4, <1>5, <2>1, <2>2 DEF LockInv, TaskInv
    <2>6. ShapeInv' /\ TransitInv'
      BY <1>6, <2>1 DEF ShapeInv, Shape, TransitInv
    <2>10. ReservedInv'
      BY <2>1, <2>2, ReservedKept DEF Reserved
    <2>7. ProbeInv'
      <3>1. CASE state.startup_reconciled
        <4>1. \A m \in Models :
                state.model_states[m] \in {"awake", "sleeping", "error"}
          BY <1>6, <3>1 DEF TypeOK, ControllerStates, ModelState, TransitInv
        <4>2. unsafe = {m \in Models : state.model_states[m] = "error"}
          BY <3>1, <4>1 DEF UnsafeModels
        <4>3. /\ \A a, b \in unsafe : a = b
              /\ \A m \in Models \ unsafe : state.model_states[m] = "sleeping"
              /\ state.active_model = NONE
          BY <1>7, <3>1, <4>1, <4>2, SMTT(60) DEF ShapeInv, Shape, TypeOK, ControllerStates
        <4>. HIDE DEF unsafe
        <4>. QED
          BY <1>7, <2>1, <4>2, <4>3 DEF ProbeInv
      <3>2. CASE ~state.startup_reconciled
        BY <1>7, <2>1, <3>2 DEF ProbeInv, TypeOK, ControllerStates
      <3>. QED
        BY <3>1, <3>2
    <2>8. HolderInv'
      BY <1>3, <2>2, <2>7, ZenonT(60) DEF HolderInv, UnderLock
    <2>9. ReservationsExact'
      BY <1>1, <1>2, <2>1, <2>2, CountKept DEF Reserved
    <2>. QED
      BY <2>4, <2>5, <2>6, <2>8, <2>9, <2>10
  <1>8. CASE unsafe = {} /\ Route(r, state)
    <2>1. state.startup_reconciled
      BY <1>4, <1>8
    <2>2. Stable(state)
      BY <1>8, <2>1
      DEF Stable, ShapeInv, UnsafeModels, TypeOK, ControllerStates, ModelState
    <2>3. \A q \in Requests \ {r} : pc'[q] = pc[q]
      BY <1>8 DEF Route, Ready, GoTo, Finish, TypeOK
    <2>4. WaitersInv'
      BY <1>5, <2>3
    <2>. QED
      BY <1>1, <1>2, <1>3, <1>8, <2>2, <2>4, RouteStep DEF TypeOK, ReservedInv
  <1>. QED
    BY <1>7, <1>8 DEF AcquireLock

\* The states a pass records while it goes on.
LEMMA ObserveOne ==
  ASSUME IInv, ProbeInv, NEW m \in to_probe, NEW s, NEW seen,
         \/ s = MarkAwake(state, m) /\ seen = observed_awake \cup {m}
         \/ s = MarkSleeping(state, m) /\ seen = observed_awake
  PROVE  /\ s \in ControllerStates
         /\ s.startup_reconciled = state.startup_reconciled
         /\ s.model_states[m] = IF m \in seen THEN "awake" ELSE "sleeping"
         /\ \A n \in Models \ {m} : s.model_states[n] = state.model_states[n]
         /\ seen \in SUBSET Models
         /\ seen \cap (to_probe \ {m}) = {}
         /\ \A n \in Models \ (to_probe \ {m}) :
              s.model_states[n] = IF n \in seen THEN "awake" ELSE "sleeping"
         /\ IF seen = {} THEN s.active_model \in (to_probe \ {m}) \cup {NONE}
                         ELSE s.active_model \in seen
  <1>1. m \in Models /\ to_probe \subseteq Models /\ observed_awake \subseteq Models
        /\ state \in ControllerStates /\ m \notin observed_awake
    BY DEF IInv, TypeOK, ProbeInv
  <1>2. CASE s = MarkAwake(state, m) /\ seen = observed_awake \cup {m}
    <2>1. /\ s \in ControllerStates
          /\ s.startup_reconciled = state.startup_reconciled
          /\ s.model_states[m] = "awake"
          /\ \A n \in Models \ {m} : s.model_states[n] = state.model_states[n]
          /\ s.active_model = m
      <3>1. s \in ControllerStates
        BY <1>1, <1>2, MarksType
      <3>. QED
        BY <3>1, <1>1, <1>2, MarkFields
    <2>. QED
      BY <1>1, <1>2, <2>1 DEF ProbeInv
  <1>3. CASE s = MarkSleeping(state, m) /\ seen = observed_awake
    <2>1. /\ s \in ControllerStates
          /\ s.startup_reconciled = state.startup_reconciled
          /\ s.model_states[m] = "sleeping"
          /\ \A n \in Models \ {m} : s.model_states[n] = state.model_states[n]
          /\ s.active_model = IF state.active_model = m THEN NONE ELSE state.active_model
      <3>1. s \in ControllerStates
        BY <1>1, <1>3, MarksType
      <3>. QED
        BY <3>1, <1>1, <1>3, MarkFields
    <2>. QED
      BY <1>1, <1>3, <2>1 DEF ProbeInv
  <1>. QED
    BY <1>2, <1>3

LEMMA ObserveSleepingStep ==
  ASSUME IInv, NEW r \in Requests, NEW m \in Models, ObserveSleeping(r, m)
  PROVE  IInv'
  <1>. DEFINE s    == IF awake[m] THEN MarkAwake(state, m) ELSE MarkSleeping(state, m)
              seen == IF awake[m] THEN observed_awake \cup {m} ELSE observed_awake
  <1>1. /\ pc[r] = "probing" /\ m \in to_probe
        /\ UNCHANGED <<active_requests, waiters, backends>>
    BY DEF ObserveSleeping
  <1>2. ProbeInv
    BY <1>1 DEF IInv, HolderInv
  <1>3. \A q \in Requests \ {r} : pc[q] \notin UnderLock
    BY <1>1, HolderAlone DEF UnderLock
  <1>4. /\ s \in ControllerStates
        /\ s.startup_reconciled = state.startup_reconciled
        /\ s.model_states[m] = IF m \in seen THEN "awake" ELSE "sleeping"
        /\ \A n \in Models \ {m} : s.model_states[n] = state.model_states[n]
        /\ seen \in SUBSET Models
        /\ seen \cap (to_probe \ {m}) = {}
        /\ \A n \in Models \ (to_probe \ {m}) :
             s.model_states[n] = IF n \in seen THEN "awake" ELSE "sleeping"
        /\ IF seen = {} THEN s.active_model \in (to_probe \ {m}) \cup {NONE}
                        ELSE s.active_model \in seen
    <2>1. \/ s = MarkAwake(state, m) /\ seen = observed_awake \cup {m}
          \/ s = MarkSleeping(state, m) /\ seen = observed_awake
      OBVIOUS
    <2>. HIDE DEF s, seen
    <2>. QED
      BY <1>1, <1>2, <2>1, ObserveOne
  \* Nobody has a reservation while a pass is made.
  <1>5. \A q \in Requests : ~Reserved(q)
    <2>1. CASE state.startup_reconciled
      <3>1. state.active_model = NONE
        BY <1>2, <2>1 DEF ProbeInv
      <3>. QED
        BY <3>1, ModelsAssumption DEF IInv, ReservedInv, TaskInv, Reserved
    <2>2. CASE ~state.startup_reconciled
      BY <2>2 DEF IInv, TaskInv, Reserved
    <2>. QED
      BY <2>1, <2>2
  <1>6. \A n \in Models :
          state.model_states[n] \notin {"waking", "sleeping_in_progress"}
    BY <1>1, <1>3 DEF IInv, TransitInv, UnderLock
  <1>. HIDE DEF s, seen
  <1>7. CASE /\ to_probe # {m}
             /\ state' = s
             /\ to_probe' = to_probe \ {m}
             /\ observed_awake' = seen
             /\ UNCHANGED <<switch_lock, tasks, decision, applied>>
    <2>1. ~state.startup_reconciled
      BY <1>1, <1>2, <1>7 DEF ProbeInv
    <2>2. TypeOK'
      BY <1>1, <1>4, <1>7 DEF IInv, TypeOK, tasks, backends
    <2>3. LockInv' /\ WaitersInv' /\ TaskInv'
      BY <1>1, <1>4, <1>7, LockKept, WaitersKept DEF IInv, TaskInv, tasks
    <2>4. ShapeInv' /\ TransitInv'
      BY <1>4, <1>6, <1>7, <2>1 DEF ShapeInv, TransitInv
    <2>5. ProbeInv'
      BY <1>1, <1>4, <1>7, <2>1 DEF ProbeInv
    <2>6. HolderInv'
      BY <1>1, <1>3, <1>7, <2>5 DEF HolderInv, UnderLock, tasks
    <2>7. ReservedInv' /\ ReservationsExact'
      BY <1>1, <1>5, <1>7, CountKept DEF IInv, ReservedInv, Reserved, tasks
    <2>. QED
      BY <2>2, <2>3, <2>4, <2>6, <2>7 DEF IInv
  <1>8. CASE to_probe = {m} /\ Several(seen) /\ state' = MarkErrors(s, seen) /\ FailUnderLock(r)
    <2>1. state' \in ControllerStates
      BY <1>4, <1>8, MarkErrorsType
    <2>2. state'.startup_reconciled = state.startup_reconciled
      BY <1>4, <1>8 DEF MarkErrors, ControllerStates
    <2>3. ~state.startup_reconciled
      <3>1. state.startup_reconciled => observed_awake = {}
        BY <1>2 DEF ProbeInv
      <3>. QED
        BY <1>8, <3>1 DEF Several, seen
    <2>4. \A n \in Models : state'.model_states[n] \in {"error", "sleeping"}
      BY <1>4, <1>8 DEF MarkErrors, ControllerStates
    <2>. QED
      BY <1>1, <1>5, <1>8, <2>1, <2>2, <2>3, <2>4, FailStep DEF IInv, TypeOK, backends
  <1>9. CASE to_probe = {m} /\ ~Several(seen) /\ Route(r, [s EXCEPT !.startup_reconciled = TRUE])
    <2>. DEFINE u == [s EXCEPT !.startup_reconciled = TRUE]
    <2>1. u \in ControllerStates /\ u.startup_reconciled
          /\ u.model_states = s.model_states /\ u.active_model = s.active_model
      BY <1>4 DEF ControllerStates
    <2>2. \A n \in Models : s.model_states[n] = IF n \in seen THEN "awake" ELSE "sleeping"
      BY <1>4, <1>9
    <2>3. IF seen = {} THEN s.active_model = NONE ELSE s.active_model \in seen
      BY <1>4, <1>9
    <2>4. \A a, b \in seen : a = b
      BY <1>9 DEF Several
    <2>. HIDE DEF u
    <2>5. Stable(u)
      BY <1>4, <2>1, <2>2, <2>3, <2>4, ModelsAssumption DEF Stable, Shape
    <2>6. Route(r, u)
      BY <1>9 DEF u
    <2>7. \A q \in Requests \ {r} : pc'[q] = pc[q]
      BY <2>6 DEF Route, Ready, GoTo, Finish, IInv, TypeOK
    <2>8. WaitersInv'
      BY <1>1, <2>7, WaitersKept DEF IInv
    <2>9. waiters' \in Seq(Requests)
      BY <1>1 DEF IInv, TypeOK
    <2>. QED
      BY <1>1, <1>3, <1>5, <2>1, <2>5, <2>6, <2>8, <2>9, RouteStep
  <1>. QED
    BY <1>7, <1>8, <1>9 DEF ObserveSleeping, s, seen

LEMMA ProbeFailsStep ==
  ASSUME IInv, NEW r \in Requests, ProbeFails(r)
  PROVE  IInv'
  <1>1. pc[r] = "probing" /\ FailUnderLock(r)
        /\ UNCHANGED <<state, active_requests, waiters, backends>>
    BY DEF ProbeFails
  <1>2. \A m \in Models :
          /\ state'.model_states[m] \notin {"waking", "sleeping_in_progress"}
          /\ state'.model_states[m] = "unknown" => ~state'.startup_reconciled
    BY <1>1, HolderAlone DEF IInv, TransitInv, UnderLock
  <1>3. /\ state'.startup_reconciled => Shape(state')
        /\ \A q \in Requests : Reserved(q) =>
             state'.active_model = target[q] /\ state'.model_states[target[q]] = "awake"
    BY <1>1 DEF IInv, ShapeInv, ReservedInv
  <1>. QED
    BY <1>1, <1>2, <1>3, FailStep DEF IInv, TypeOK, backends

LEMMA DrainFailsStep ==
  ASSUME IInv, NEW r \in Requests, DrainFails(r)
  PROVE  IInv'
  <1>1. pc[r] = "draining" /\ FailUnderLock(r)
        /\ UNCHANGED <<state, active_requests, waiters, backends>>
    BY DEF DrainFails
  <1>2. Stable(state)
    BY <1>1 DEF IInv, HolderInv
  <1>3. /\ \A m \in Models : state'.model_states[m] \in {"awake", "sleeping"}
        /\ state'.startup_reconciled => Shape(state')
        /\ \A q \in Requests : Reserved(q) =>
             state'.active_model = target[q] /\ state'.model_states[target[q]] = "awake"
    BY <1>1, <1>2 DEF Stable, IInv, ReservedInv
  <1>. QED
    BY <1>1, <1>3, FailStep DEF IInv, TypeOK, backends

\* A model that nobody has reserved: what the drain waits for.
LEMMA NoReservation ==
  ASSUME IInv, NEW m \in Models, active_requests[m] = 0
  PROVE  \A q \in Requests : ~(Reserved(q) /\ target[q] = m)
  <1>1. Cardinality(Inside[m]) = 0 /\ IsFiniteSet(Inside[m])
    BY InsideFinite DEF IInv, ReservationsExact
  <1>2. Inside[m] = {}
    BY <1>1, FS_EmptySet
  <1>. QED
    BY <1>2 DEF Inside

LEMMA DrainDoneStep ==
  ASSUME IInv, NEW r \in Requests, DrainDone(r)
  PROVE  IInv'
  <1>1. /\ pc[r] = "draining"
        /\ \A m \in Models \ {target[r]} : active_requests[m] = 0
        /\ state' = MarkSleepingInProgress(state, decision.sleep_model)
        /\ pc' = [pc EXCEPT ![r] = "sleeping"]
        /\ UNCHANGED <<target, kind, cancelled, active_requests, switch_lock, waiters,
                       locals, applied, backends>>
    BY DEF DrainDone, GoTo
  <1>2. /\ Stable(state)
        /\ state.active_model \in Models \ {target[r]}
        /\ decision = Decision(state.active_model, target[r], TRUE)
    BY <1>1 DEF IInv, HolderInv
  <1>. DEFINE x == state.active_model
  <1>3. decision.sleep_model = x /\ decision.wake_model = target[r]
    BY <1>2 DEF Decision
  <1>4. \A q \in Requests : ~Reserved(q)
    <2>1. \A q \in Requests : Reserved(q) => target[q] = x
      BY DEF IInv, ReservedInv
    <2>. QED
      BY <1>1, <1>2, <2>1, NoReservation
  <1>5. /\ pc' \in [Requests -> PC] /\ pc'[r] = "sleeping"
        /\ \A q \in Requests \ {r} : pc'[q] = pc[q] /\ pc[q] \notin UnderLock
    BY <1>1, HolderAlone DEF IInv, TypeOK, PC, UnderLock
  <1>6. /\ state' \in ControllerStates
        /\ state'.startup_reconciled
        /\ state'.active_model = x
        /\ state'.model_states[x] = "sleeping_in_progress"
        /\ \A m \in Models \ {x} : state'.model_states[m] = "sleeping"
    <2>1. /\ state \in ControllerStates
          /\ \A m \in Models \ {x} : state.model_states[m] = "sleeping"
      BY <1>2 DEF Stable, Shape, IInv, TypeOK
    <2>2. x \in Models /\ state' = MarkSleepingInProgress(state, x)
      BY <1>1, <1>2, <1>3
    <2>. HIDE DEF x
    <2>3. state' \in ControllerStates
      BY <2>1, <2>2, MarksType
    <2>4. /\ state'.startup_reconciled = state.startup_reconciled
          /\ state'.active_model = state.active_model
          /\ state'.model_states[x] = "sleeping_in_progress"
          /\ \A m \in Models \ {x} : state'.model_states[m] = state.model_states[m]
      BY <2>1, <2>2, TransitFields
    <2>. QED
      BY <1>2, <2>1, <2>3, <2>4 DEF Stable, x
  <1>7. TypeOK'
    BY <1>1, <1>5, <1>6 DEF IInv, TypeOK, locals, backends
  <1>8. LockInv' /\ WaitersInv' /\ TaskInv'
    BY <1>1, <1>5, <1>6, LockKept, WaitersKept DEF IInv, TaskInv, UnderLock
  <1>9. ShapeInv' /\ TransitInv'
    BY <1>2, <1>5, <1>6, ModelsAssumption DEF ShapeInv, Shape, TransitInv
  <1>10. HolderInv'
    BY <1>1, <1>2, <1>3, <1>5, <1>6 DEF HolderInv, UnderLock, locals
  <1>11. ReservedInv' /\ ReservationsExact'
    BY <1>1, <1>4, <1>5, CountKept DEF IInv, ReservedInv, Reserved
  <1>. QED
    BY <1>7, <1>8, <1>9, <1>10, <1>11 DEF IInv

LEMMA SleepDoneStep ==
  ASSUME IInv, NEW r \in Requests, SleepDone(r)
  PROVE  IInv'
  <1>1. /\ pc[r] = "sleeping"
        /\ state' = MarkWaking(MarkSleeping(state, decision.sleep_model), decision.wake_model)
        /\ applied' = FALSE
        /\ pc' = [pc EXCEPT ![r] = "waking"]
        /\ UNCHANGED <<target, kind, cancelled, active_requests, switch_lock, waiters,
                       locals, backends>>
    BY DEF SleepDone, GoTo
  <1>. DEFINE x == decision.sleep_model
  <1>2. /\ x \in Models \ {target[r]}
        /\ decision.wake_model = target[r]
        /\ state.active_model = x
        /\ state.model_states[x] = "sleeping_in_progress"
        /\ state.startup_reconciled
        /\ target[r] \in Models
    BY <1>1 DEF IInv, HolderInv, TaskInv
  <1>3. \A m \in Models \ {x} : state.model_states[m] = "sleeping"
    BY <1>2 DEF IInv, ShapeInv, Shape
  <1>4. \A q \in Requests : ~Reserved(q)
    BY <1>2 DEF IInv, ReservedInv
  <1>5. /\ pc' \in [Requests -> PC] /\ pc'[r] = "waking"
        /\ \A q \in Requests \ {r} : pc'[q] = pc[q] /\ pc[q] \notin UnderLock
    BY <1>1, HolderAlone DEF IInv, TypeOK, PC, UnderLock
  <1>6. /\ state' \in ControllerStates
        /\ state'.startup_reconciled
        /\ state'.active_model = NONE
        /\ state'.model_states[target[r]] = "waking"
        /\ \A m \in Models \ {target[r]} : state'.model_states[m] = "sleeping"
    BY <1>1, <1>2, <1>3
    DEF MarkWaking, MarkSleeping, ControllerStates, ModelState, IInv, TypeOK
  <1>7. TypeOK'
    BY <1>1, <1>5, <1>6 DEF IInv, TypeOK, locals, backends
  <1>8. LockInv' /\ WaitersInv' /\ TaskInv'
    BY <1>1, <1>5, <1>6, LockKept, WaitersKept DEF IInv, TaskInv, UnderLock
  <1>9. ShapeInv' /\ TransitInv'
    BY <1>2, <1>5, <1>6, ModelsAssumption DEF ShapeInv, Shape, TransitInv
  <1>10. HolderInv'
    BY <1>1, <1>2, <1>5, <1>6 DEF HolderInv, UnderLock, locals
  <1>11. ReservedInv' /\ ReservationsExact'
    BY <1>1, <1>4, <1>5, CountKept DEF IInv, ReservedInv, Reserved
  <1>. QED
    BY <1>7, <1>8, <1>9, <1>10, <1>11 DEF IInv

\* A transition of the model x fails: x was not reserved, and is in doubt.
LEMMA TransitionFailsStep ==
  ASSUME IInv, NEW r \in Requests, NEW x \in Models,
         \/ pc[r] = "sleeping" /\ x = decision.sleep_model
         \/ pc[r] = "waking" /\ x = decision.wake_model,
         state' = MarkError(state, x), FailUnderLock(r),
         UNCHANGED <<active_requests, waiters, awake>>, late' \in SUBSET Posts
  PROVE  IInv'
  <1>1. /\ state.startup_reconciled
        /\ state.active_model \in {x, NONE}
        /\ state.model_states[x] \in {"waking", "sleeping_in_progress"}
    BY ZenonT(60) DEF IInv, HolderInv, TaskInv
  <1>2. \A m \in Models \ {x} : state.model_states[m] = "sleeping"
    BY <1>1 DEF IInv, ShapeInv, Shape
  <1>3. \A q \in Requests : ~Reserved(q)
    BY <1>1, ModelsAssumption DEF IInv, ReservedInv, TaskInv, Reserved
  <1>4. state \in ControllerStates /\ state' \in ControllerStates
    BY MarksType DEF IInv, TypeOK
  <1>5. /\ state'.startup_reconciled = state.startup_reconciled
        /\ state'.active_model = NONE
        /\ state'.model_states[x] = "error"
        /\ \A m \in Models \ {x} : state'.model_states[m] = "sleeping"
    <2>1. state'.startup_reconciled = state.startup_reconciled
      BY <1>4, MarkFields
    <2>2. state'.active_model = NONE
      BY <1>1, <1>4, MarkFields
    <2>3. state'.model_states[x] = "error"
      BY <1>4, MarkFields
    <2>4. \A m \in Models \ {x} : state'.model_states[m] = "sleeping"
      BY <1>2, <1>4, MarkFields
    <2>. QED
      BY <2>1, <2>2, <2>3, <2>4
  <1>6. Shape(state')
    BY <1>5, ModelsAssumption DEF Shape
  <1>. QED
    BY <1>1, <1>3, <1>4, <1>5, <1>6, FailStep DEF IInv, TypeOK

LEMMA AbandonType ==
  ASSUME IInv, NEW m \in Models, NEW up \in BOOLEAN, Abandon(m, up)
  PROVE  late' \in SUBSET Posts
  BY DEF Abandon, IInv, TypeOK, Posts

LEMMA SleepFailsStep ==
  ASSUME IInv, NEW r \in Requests, SleepFails(r)
  PROVE  IInv'
  <1>1. decision.sleep_model \in Models
    BY DEF SleepFails, IInv, HolderInv
  <1>2. late' \in SUBSET Posts
    BY <1>1, AbandonType DEF SleepFails
  <1>. QED
    BY <1>1, <1>2, TransitionFailsStep DEF SleepFails

LEMMA WakeFailsStep ==
  ASSUME IInv, NEW r \in Requests, WakeFails(r)
  PROVE  IInv'
  <1>1. decision.wake_model \in Models
    BY DEF WakeFails, IInv, HolderInv, TaskInv
  <1>2. late' \in SUBSET Posts
    BY <1>1, AbandonType DEF WakeFails
  <1>. QED
    BY <1>1, <1>2, TransitionFailsStep DEF WakeFails

LEMMA WakeDoneStep ==
  ASSUME IInv, NEW r \in Requests, WakeDone(r)
  PROVE  IInv'
  <1>1. /\ pc[r] = "waking"
        /\ state' = MarkAwake(state, decision.wake_model)
        /\ Ready(r)
        /\ UNCHANGED <<active_requests, waiters, backends>>
    BY DEF WakeDone
  <1>. DEFINE x == target[r]
  <1>2. /\ x \in Models /\ decision.wake_model = x
        /\ state.active_model = NONE
        /\ state.model_states[x] = "waking"
        /\ state.startup_reconciled
        /\ state \in ControllerStates
    BY <1>1 DEF IInv, HolderInv, TaskInv, TypeOK
  <1>3. \A m \in Models \ {x} : state.model_states[m] = "sleeping"
    BY <1>2 DEF IInv, ShapeInv, Shape
  <1>4. \A q \in Requests : ~Reserved(q)
    BY <1>2, ModelsAssumption DEF IInv, ReservedInv, TaskInv, Reserved
  <1>5. state' \in ControllerStates
    BY <1>1, <1>2, MarksType
  <1>6. /\ state'.startup_reconciled
        /\ state'.active_model = x
        /\ state'.model_states[x] = "awake"
        /\ \A m \in Models \ {x} : state'.model_states[m] = "sleeping"
    BY <1>1, <1>2, <1>3, MarkFields
  <1>7. Stable(state')
    BY <1>2, <1>6 DEF Stable, Shape
  <1>8. \A q \in Requests \ {r} : pc[q] \notin UnderLock /\ pc'[q] = pc[q]
    BY <1>1, HolderAlone DEF UnderLock, Ready, GoTo, Finish, IInv, TypeOK
  <1>9. WaitersInv' /\ waiters' \in Seq(Requests)
    BY <1>1, <1>8, WaitersKept DEF IInv, TypeOK
  <1>. QED
    BY <1>1, <1>4, <1>5, <1>6, <1>7, <1>8, <1>9, ReadyStep

\* Reservations are counted one by one.
LEMMA CountUp ==
  ASSUME IInv, NEW r \in Requests, ~Reserved(r), Reserved(r)', target[r] \in Models,
         UNCHANGED target,
         \A q \in Requests \ {r} : Reserved(q)' <=> Reserved(q),
         active_requests' = [active_requests EXCEPT ![target[r]] = @ + 1]
  PROVE  ReservationsExact'
  <1>1. ASSUME NEW m \in Models, m # target[r]
        PROVE  Inside'[m] = Inside[m] /\ active_requests'[m] = active_requests[m]
    BY <1>1 DEF Inside, IInv, TypeOK
  <1>2. /\ Inside'[target[r]] = Inside[target[r]] \cup {r}
        /\ r \notin Inside[target[r]]
        /\ active_requests'[target[r]] = active_requests[target[r]] + 1
    BY DEF Inside, IInv, TypeOK
  <1>3. Cardinality(Inside'[target[r]]) = Cardinality(Inside[target[r]]) + 1
    BY <1>2, InsideFinite, FS_AddElement
  <1>. QED
    BY <1>1, <1>2, <1>3 DEF ReservationsExact, IInv

LEMMA CountDown ==
  ASSUME IInv, NEW r \in Requests, Reserved(r), ~Reserved(r)', target[r] \in Models,
         \A q \in Requests \ {r} :
           target'[q] = target[q] /\ (Reserved(q)' <=> Reserved(q)),
         active_requests' = [active_requests EXCEPT ![target[r]] = @ - 1]
  PROVE  /\ active_requests[target[r]] > 0
         /\ ReservationsExact'
  <1>1. ASSUME NEW m \in Models, m # target[r]
        PROVE  Inside'[m] = Inside[m] /\ active_requests'[m] = active_requests[m]
    BY <1>1 DEF Inside, IInv, TypeOK
  <1>2. /\ Inside'[target[r]] = Inside[target[r]] \ {r}
        /\ r \in Inside[target[r]]
        /\ active_requests'[target[r]] = active_requests[target[r]] - 1
    BY DEF Inside, IInv, TypeOK
  <1>3. /\ Cardinality(Inside'[target[r]]) = Cardinality(Inside[target[r]]) - 1
        /\ IsFiniteSet(Inside'[target[r]])
    BY <1>2, InsideFinite, FS_RemoveElement, ZenonT(60)
  <1>4. ReservationsExact'
    BY <1>1, <1>2, <1>3 DEF ReservationsExact, IInv
  <1>5. active_requests[target[r]] # 0
    BY NoReservation
  <1>. QED
    BY <1>4, <1>5 DEF IInv, TypeOK

LEMMA EnterTrackerStep ==
  ASSUME IInv, NEW r \in Requests, EnterTracker(r)
  PROVE  IInv'
  <1>1. /\ pc[r] = "entering"
        /\ active_requests' = [active_requests EXCEPT ![target[r]] = @ + 1]
        /\ pc' = [pc EXCEPT ![r] = "reserved"]
        /\ UNCHANGED <<target, kind, cancelled, state, switch_lock, waiters, locals,
                       applied, backends>>
    BY DEF EnterTracker, GoTo
  <1>2. target[r] \in Models /\ Stable(state) /\ state.active_model = target[r]
    BY <1>1 DEF IInv, TaskInv, HolderInv
  <1>3. /\ pc' \in [Requests -> PC] /\ pc'[r] = "reserved"
        /\ \A q \in Requests \ {r} : pc'[q] = pc[q] /\ pc[q] \notin UnderLock
    BY <1>1, HolderAlone DEF IInv, TypeOK, PC, UnderLock
  <1>4. TypeOK'
    BY <1>1, <1>2, <1>3 DEF IInv, TypeOK, locals, backends
  <1>5. LockInv' /\ WaitersInv' /\ TaskInv'
    BY <1>1, <1>2, <1>3, LockKept, WaitersKept DEF IInv, TaskInv, UnderLock
  <1>6. ShapeInv' /\ TransitInv'
    BY <1>1, <1>2, <1>3 DEF IInv, ShapeInv, Shape, Stable, TransitInv
  <1>7. HolderInv'
    BY <1>1, <1>2, <1>3 DEF HolderInv, Stable, Shape, UnderLock
  <1>8. ReservedInv'
    <2>1. state.model_states[target[r]] = "awake"
      <3>1. state.model_states[target[r]] \in {"awake", "sleeping_in_progress"}
        BY <1>2 DEF Stable, Shape
      <3>. QED
        BY <1>2, <3>1 DEF Stable
    <2>. QED
      BY <1>1, <1>2, <1>3, <2>1 DEF IInv, ReservedInv, Reserved
  <1>9. ReservationsExact'
    BY <1>1, <1>2, <1>3, CountUp DEF Reserved
  <1>. QED
    BY <1>4, <1>5, <1>6, <1>7, <1>8, <1>9 DEF IInv

LEMMA CancelEnteringStep ==
  ASSUME IInv, NEW r \in Requests, CancelEntering(r)
  PROVE  IInv'
  <1>1. UNCHANGED <<state, active_requests, switch_lock, waiters, pc, target, kind,
                    locals, applied, backends>>
    BY DEF CancelEntering
  <1>2. TypeOK'
    BY <1>1 DEF CancelEntering, IInv, TypeOK, locals, backends
  <1>3. LockInv' /\ WaitersInv' /\ TaskInv'
    BY <1>1, LockKept, WaitersKept DEF IInv, TaskInv
  <1>4. ShapeInv' /\ TransitInv'
    BY <1>1 DEF IInv, ShapeInv, Shape, TransitInv
  <1>5. HolderInv' /\ ReservedInv' /\ ReservationsExact'
    BY <1>1, HolderKept, ReservedKept, CountKept DEF IInv, Reserved
  <1>. QED
    BY <1>2, <1>3, <1>4, <1>5 DEF IInv

\* A request with a reservation goes on with it, within or out of the lock.
LEMMA ReservedGoesOn ==
  ASSUME IInv, NEW r \in Requests, NEW l \in {"proxying", "exiting"},
         pc[r] \in {"reserved", "proxying"}, GoTo(r, l),
         UNCHANGED <<state, active_requests, waiters, locals, applied, backends>>,
         switch_lock' \in {switch_lock, NONE},
         switch_lock' = NONE => pc[r] = "reserved" \/ switch_lock = NONE
  PROVE  IInv'
  <1>1. /\ pc' \in [Requests -> PC] /\ pc'[r] = l
        /\ \A q \in Requests \ {r} : pc'[q] = pc[q]
        /\ UNCHANGED <<target, kind, cancelled>>
    BY DEF GoTo, IInv, TypeOK, PC
  <1>2. pc[r] = "reserved" => \A q \in Requests \ {r} : pc[q] \notin UnderLock
    BY HolderAlone DEF UnderLock
  <1>3. TypeOK'
    BY <1>1 DEF IInv, TypeOK, locals, backends
  <1>4. LockInv'
    <2>1. ASSUME NEW q \in Requests, pc'[q] \in UnderLock
          PROVE  switch_lock' = q
      <3>1. q # r /\ pc[q] \in UnderLock
        BY <1>1, <2>1 DEF UnderLock
      <3>2. switch_lock = q /\ pc[r] # "reserved"
        BY <1>2, <3>1 DEF IInv, LockInv
      <3>. QED
        BY <3>2, RequestsAssumption
    <2>. QED
      BY <2>1 DEF LockInv
  <1>5. WaitersInv' /\ TaskInv'
    BY <1>1, WaitersKept DEF IInv, TaskInv
  <1>6. ShapeInv' /\ TransitInv'
    BY <1>1 DEF IInv, ShapeInv, Shape, TransitInv
  <1>7. HolderInv' /\ ReservedInv' /\ ReservationsExact'
    BY <1>1, HolderKept, ReservedKept, CountKept DEF IInv, Reserved, UnderLock
  <1>. QED
    BY <1>3, <1>4, <1>5, <1>6, <1>7 DEF IInv

LEMMA ExitTrackerStep ==
  ASSUME IInv, NEW r \in Requests, ExitTracker(r)
  PROVE  IInv'
  <1>1. /\ pc[r] = "exiting"
        /\ active_requests' = [active_requests EXCEPT ![target[r]] = @ - 1]
        /\ Finish(r)
        /\ switch_lock' = IF switch_lock = r THEN NONE ELSE switch_lock
        /\ UNCHANGED <<state, waiters, locals, applied, backends>>
    BY DEF ExitTracker
  <1>2. /\ pc' \in [Requests -> PC] /\ pc'[r] = "idle"
        /\ \A q \in Requests \ {r} : pc'[q] = pc[q] /\ target'[q] = target[q]
        /\ target' \in [Requests -> Models \cup {NONE}]
    BY <1>1 DEF Finish, IInv, TypeOK, PC
  <1>3. target[r] \in Models
    BY <1>1 DEF IInv, TaskInv
  <1>4. active_requests[target[r]] > 0 /\ ReservationsExact'
    BY <1>1, <1>2, <1>3, CountDown DEF Reserved
  <1>5. active_requests' \in [Models -> Nat]
    BY <1>1, <1>3, <1>4 DEF IInv, TypeOK
  <1>6. TypeOK'
    BY <1>1, <1>2, <1>5 DEF Finish, IInv, TypeOK, locals, backends
  <1>7. LockInv'
    BY <1>1, <1>2 DEF IInv, LockInv, UnderLock
  <1>8. WaitersInv' /\ TaskInv'
    BY <1>1, <1>2, WaitersKept DEF IInv, TaskInv
  <1>9. ShapeInv' /\ TransitInv'
    BY <1>1, <1>2 DEF IInv, ShapeInv, Shape, TransitInv
  <1>10. HolderInv' /\ ReservedInv'
    BY <1>1, <1>2, HolderKept, ReservedKept DEF IInv, Reserved, UnderLock
  <1>. QED
    BY <1>4, <1>6, <1>7, <1>8, <1>9, <1>10 DEF IInv

LEMMA BackendExecutesStep ==
  ASSUME IInv, NEW r \in Requests, BackendExecutes(r)
  PROVE  IInv'
  <1>1. awake' \in [Models -> BOOLEAN] /\ late' \in SUBSET Posts /\ applied' \in BOOLEAN
    BY DEF BackendExecutes, IInv, TypeOK
  <1>. QED
    BY <1>1, BackendStep DEF BackendExecutes

LEMMA RestartStep ==
  ASSUME IInv, Restart
  PROVE  IInv'
  <1>1. FreshController /\ UNCHANGED awake
    BY DEF Restart
  <1>2. late' \in SUBSET Posts
    <2>1. ASSUME NEW r \in Requests, pc[r] = "sleeping", Abandon(decision.sleep_model, FALSE)
          PROVE  late' \in SUBSET Posts
      BY <2>1, AbandonType DEF IInv, HolderInv
    <2>2. ASSUME NEW r \in Requests, pc[r] = "waking", Abandon(decision.wake_model, TRUE)
          PROVE  late' \in SUBSET Posts
      BY <2>2, AbandonType DEF IInv, HolderInv, TaskInv
    <2>3. ASSUME UNCHANGED late
          PROVE  late' \in SUBSET Posts
      BY <2>3 DEF IInv, TypeOK
    <2>. QED
      BY <2>1, <2>2, <2>3 DEF Restart
  <1>3. TypeOK'
    <2>1. state' \in ControllerStates /\ decision' \in Decisions
      BY <1>1, FromModelsType, NoSwitchType DEF FreshController
    <2>2. waiters' \in Seq(Requests)
      BY <1>1 DEF FreshController
    <2>. QED
      BY <1>1, <1>2, <2>1, <2>2 DEF FreshController, IInv, TypeOK, PC
  <1>4. LockInv' /\ WaitersInv' /\ TaskInv' /\ HolderInv' /\ ReservedInv'
    BY <1>1 DEF FreshController, LockInv, WaitersInv, TaskInv, HolderInv,
                ReservedInv, Reserved, UnderLock
  <1>5. ShapeInv' /\ TransitInv'
    BY <1>1 DEF FreshController, ShapeInv, TransitInv, FromModels
  <1>6. ReservationsExact'
    <2>1. \A m \in Models : Inside'[m] = {}
      BY <1>1 DEF FreshController, Inside, Reserved
    <2>. QED
      BY <1>1, <2>1, FS_EmptySet DEF FreshController, ReservationsExact
  <1>. QED
    BY <1>3, <1>4, <1>5, <1>6 DEF IInv

-----------------------------------------------------------------------------

LEMMA NextIInv == IInv /\ [Next]_vars => IInv'
  <1>. SUFFICES ASSUME IInv, [Next]_vars PROVE IInv'
    OBVIOUS
  <1>1. ASSUME NEW r \in Requests, Progress(r)
        PROVE  IInv'
    <2>1. CASE AcquireLock(r)
      BY <2>1, AcquireLockStep
    <2>2. CASE \E m \in Models : ObserveSleeping(r, m)
      BY <2>2, ObserveSleepingStep
    <2>3. CASE ProbeFails(r)
      BY <2>3, ProbeFailsStep
    <2>4. CASE DrainDone(r)
      BY <2>4, DrainDoneStep
    <2>5. CASE DrainFails(r)
      BY <2>5, DrainFailsStep
    <2>6. CASE SleepDone(r)
      BY <2>6, SleepDoneStep
    <2>7. CASE SleepFails(r)
      BY <2>7, SleepFailsStep
    <2>8. CASE WakeDone(r)
      BY <2>8, WakeDoneStep
    <2>9. CASE WakeFails(r)
      BY <2>9, WakeFailsStep
    <2>10. CASE EnterTracker(r)
      BY <2>10, EnterTrackerStep
    <2>11. CASE LeaveSwitchLock(r)
      BY <2>11, ReservedGoesOn DEF LeaveSwitchLock
    <2>12. CASE ExitTracker(r)
      BY <2>12, ExitTrackerStep
    <2>. QED
      BY <1>1, <2>1, <2>2, <2>3, <2>4, <2>5, <2>6, <2>7, <2>8, <2>9, <2>10, <2>11,
         <2>12 DEF Progress
  <1>2. ASSUME NEW r \in Requests, NEW m \in Models, NEW k \in {"proxy", "admin"},
               Arrive(r, m, k)
        PROVE  IInv'
    BY <1>2, ArriveStep
  <1>3. ASSUME NEW r \in Requests, CancelWaiting(r) PROVE IInv'
    BY <1>3, CancelWaitingStep
  <1>4. ASSUME NEW r \in Requests, CancelEntering(r) PROVE IInv'
    BY <1>4, CancelEnteringStep
  <1>5. ASSUME NEW r \in Requests, ProxyEnds(r) PROVE IInv'
    <2>1. switch_lock' = switch_lock
      BY <1>5 DEF ProxyEnds
    <2>. QED
      BY <1>5, <2>1, ReservedGoesOn DEF ProxyEnds
  <1>6. ASSUME NEW r \in Requests, BackendExecutes(r) PROVE IInv'
    BY <1>6, BackendExecutesStep
  <1>7. ASSUME NEW p \in Posts, LateExecutes(p) PROVE IInv'
    <2>1. /\ awake' \in [Models -> BOOLEAN] /\ late' \in SUBSET Posts
          /\ applied' \in BOOLEAN
      BY <1>7 DEF LateExecutes, IInv, TypeOK, Posts
    <2>. QED
      BY <1>7, <2>1, BackendStep DEF LateExecutes
  <1>8. ASSUME NEW m \in Models, DriftBackend(m) PROVE IInv'
    <2>1. /\ awake' \in [Models -> BOOLEAN] /\ late' \in SUBSET Posts
          /\ applied' \in BOOLEAN
      BY <1>8 DEF DriftBackend, IInv, TypeOK
    <2>. QED
      BY <1>8, <2>1, BackendStep DEF DriftBackend
  <1>9. CASE Restart
    BY <1>9, RestartStep
  <1>10. CASE UNCHANGED vars
    <2>1. awake' \in [Models -> BOOLEAN] /\ late' \in SUBSET Posts /\ applied' \in BOOLEAN
      BY <1>10 DEF vars, backends, IInv, TypeOK
    <2>. QED
      BY <1>10, <2>1, BackendStep DEF vars
  <1>. QED
    BY <1>1, <1>2, <1>3, <1>4, <1>5, <1>6, <1>7, <1>8, <1>9, <1>10 DEF Next

\* The inductive invariant holds, whatever requests and backends do.
THEOREM IInvAlways == Spec => []IInv
  BY InitIInv, NextIInv, PTL DEF Spec

-----------------------------------------------------------------------------
(***************************************************************************)
(* The safety properties.                                                  *)
(***************************************************************************)

\* Every variable of the switch keeps its type; in particular no count of
\* active requests becomes negative.
THEOREM TypeCorrect == Spec => []TypeOK
  <1>1. IInv => TypeOK
    BY DEF IInv
  <1>. QED
    BY <1>1, IInvAlways, PTL

\* ControllerState._active_requests counts exactly the requests between enter
\* and exit of track_request, whatever is cancelled and whatever fails.
THEOREM CountsExact == Spec => []ReservationsExact
  <1>1. IInv => ReservationsExact
    BY DEF IInv
  <1>. QED
    BY <1>1, IInvAlways, PTL

\* Requests are only ever counted on the active model, and it is awake as far
\* as the controller knows: no transition starts under a reservation.
THEOREM ReservationsOnActive == Spec => []ReservedOnActive
  <1>1. IInv => ReservedOnActive
    <2>. SUFFICES ASSUME IInv, NEW m \in Models, active_requests[m] > 0
                  PROVE  state.active_model = m /\ state.model_states[m] = "awake"
      BY DEF ReservedOnActive
    <2>1. Cardinality(Inside[m]) # 0
      BY DEF IInv, ReservationsExact, TypeOK
    <2>2. Inside[m] # {}
      BY <2>1, FS_EmptySet
    <2>. QED
      BY <2>2 DEF Inside, IInv, ReservedInv
  <1>. QED
    BY <1>1, IInvAlways, PTL

\* After the startup pass two models are never both out of "sleeping": the
\* error branch of the later reconciliations cannot be reached.
THEOREM OneModelInDoubt == Spec => []OneUncertainModel
  <1>1. IInv => OneUncertainModel
    BY DEF IInv, ShapeInv, Shape, OneUncertainModel
  <1>. QED
    BY <1>1, IInvAlways, PTL

\* Nothing is under way while switch_lock is free, and the active model is
\* then the one that is awake.
THEOREM SettledBetweenHolders == Spec => []SettledWhenUnlocked
  <1>1. IInv => SettledWhenUnlocked
    <2>. SUFFICES ASSUME IInv, switch_lock = NONE PROVE SettledWhenUnlocked
      BY DEF SettledWhenUnlocked
    <2>1. \A r \in Requests : pc[r] \notin UnderLock
      BY RequestsAssumption DEF IInv, LockInv
    <2>2. \A m \in Models :
            state.model_states[m] \notin {"waking", "sleeping_in_progress"}
      BY <2>1 DEF IInv, TransitInv, UnderLock
    <2>3. state.startup_reconciled =>
            \A m \in Models :
              (state.active_model = m) <=> (state.model_states[m] = "awake")
      BY <2>2 DEF IInv, ShapeInv, Shape
    <2>. QED
      BY <2>2, <2>3 DEF SettledWhenUnlocked
  <1>. QED
    BY <1>1, IInvAlways, PTL

\* The decision a request took before its drain is the one the policy would
\* take at the end of it.
THEOREM DecisionStaysFresh == Spec => []DecisionFresh
  <1>1. IInv => DecisionFresh
    <2>. SUFFICES ASSUME IInv, NEW r \in Requests, pc[r] = "draining"
                  PROVE  decision = Decide(Policy, state, target[r])
      BY DEF DecisionFresh
    <2>1. /\ Stable(state) /\ state.active_model \in Models \ {target[r]}
          /\ decision = Decision(state.active_model, target[r], TRUE)
          /\ target[r] \in Models
      BY DEF IInv, HolderInv, TaskInv
    <2>. QED
      BY <2>1, ModelsAssumption
      DEF Decide, AlwaysAwakePrevious, AlwaysSleepPrevious
  <1>. QED
    BY <1>1, IInvAlways, PTL

-----------------------------------------------------------------------------
(***************************************************************************)
(* Switching implements group mutual exclusion.                            *)
(***************************************************************************)

\* The requests inside stay, and the active model changes only while there
\* are none.
LEMMA ChangeOrStutter ==
  ASSUME IInv, IInv',
         \A q \in Requests :
           /\ Reserved(q)' <=> Reserved(q)
           /\ Reserved(q) => target'[q] = target[q],
         \/ state'.active_model = state.active_model
         \/ \A q \in Requests : ~Reserved(q)
  PROVE  [Groups!Next]_(Groups!vars)
  <1>1. Inside' = Inside
    BY DEF Inside
  <1>2. CASE state'.active_model = state.active_model
    BY <1>1, <1>2 DEF Groups!vars
  <1>3. CASE \A q \in Requests : ~Reserved(q)
    <2>1. \A m \in Models : Inside[m] = {}
      BY <1>3 DEF Inside
    <2>2. state'.active_model \in Models \cup {NONE}
      BY DEF IInv, TypeOK, ControllerStates
    <2>3. Groups!Change(state'.active_model)
      BY <1>1, <2>1 DEF Groups!Change, Groups!Empty
    <2>. QED
      BY <2>2, <2>3 DEF Groups!Next
  <1>. QED
    BY <1>2, <1>3

LEMMA EnterAdmits ==
  ASSUME IInv, NEW r \in Requests, EnterTracker(r)
  PROVE  Groups!Admit(r)
  <1>1. /\ pc[r] = "entering" /\ target' = target /\ state' = state
        /\ pc' = [pc EXCEPT ![r] = "reserved"]
    BY DEF EnterTracker, GoTo
  <1>2. target[r] \in Models /\ state.active_model = target[r]
    BY <1>1 DEF IInv, TaskInv, HolderInv
  <1>3. \A m \in Models : r \notin Inside[m]
    BY <1>1 DEF Inside, Reserved
  <1>4. \A m \in Models :
          Inside'[m] = IF m = target[r] THEN Inside[m] \cup {r} ELSE Inside[m]
    BY <1>1, <1>2 DEF Inside, Reserved, IInv, TypeOK
  <1>5. Inside' = [Inside EXCEPT ![state.active_model] = @ \cup {r}]
    BY <1>2, <1>4, ZenonT(60) DEF Inside
  <1>. QED
    BY <1>1, <1>2, <1>3, <1>5 DEF Groups!Admit

LEMMA ExitLeaves ==
  ASSUME IInv, NEW r \in Requests, ExitTracker(r)
  PROVE  target[r] \in Models /\ Groups!Leave(r, target[r])
  <1>1. /\ pc[r] = "exiting" /\ state' = state
        /\ pc' = [pc EXCEPT ![r] = "idle"]
        /\ target' = [target EXCEPT ![r] = NONE]
    BY DEF ExitTracker, Finish
  <1>2. target[r] \in Models
    BY <1>1 DEF IInv, TaskInv
  <1>3. r \in Inside[target[r]]
    BY <1>1, <1>2 DEF Inside, Reserved
  <1>4. Inside' = [Inside EXCEPT ![target[r]] = @ \ {r}]
    BY <1>1, <1>2 DEF Inside, Reserved, IInv, TypeOK
  <1>. QED
    BY <1>1, <1>2, <1>3, <1>4 DEF Groups!Leave

LEMMA RestartRestarts ==
  ASSUME IInv, IInv', Restart
  PROVE  Groups!Restart
  <1>1. Inside' = [m \in Models |-> {}]
    BY DEF Restart, FreshController, Inside, Reserved
  <1>2. state'.active_model \in Models \cup {NONE}
    BY DEF IInv, TypeOK, ControllerStates
  <1>. QED
    BY <1>1, <1>2 DEF Groups!Restart

LEMMA StepRefines == IInv /\ IInv' /\ [Next]_vars => [Groups!Next]_(Groups!vars)
  <1>. SUFFICES ASSUME IInv, IInv', [Next]_vars
                PROVE  [Groups!Next]_(Groups!vars)
    OBVIOUS
  <1>. USE ChangeOrStutter
  <1>1. ASSUME NEW r \in Requests, Progress(r)
        PROVE  [Groups!Next]_(Groups!vars)
    <2>1. CASE \E m \in Models : ObserveSleeping(r, m)
      <3>1. pc[r] = "probing" /\ ProbeInv
        BY <2>1 DEF ObserveSleeping, IInv, HolderInv
      <3>2. \A q \in Requests : ~Reserved(q)
        <4>1. state.startup_reconciled => state.active_model = NONE
          BY <3>1 DEF ProbeInv
        <4>. QED
          BY <4>1, ModelsAssumption DEF IInv, ReservedInv, TaskInv, Reserved
      <3>3. \A q \in Requests : ~Reserved(q)'
        <4>1. \A q \in Requests \ {r} : pc'[q] = pc[q]
          BY <2>1 DEF ObserveSleeping, FailUnderLock, Route, Ready, GoTo, Finish, tasks,
                      IInv, TypeOK
        <4>2. pc'[r] \notin {"reserved", "proxying", "exiting"}
          BY <2>1, <3>1 DEF ObserveSleeping, FailUnderLock, Route, Ready, GoTo, Finish,
                            tasks, IInv, TypeOK
        <4>. QED
          BY <3>2, <4>1, <4>2 DEF Reserved
      <3>. QED
        BY <3>2, <3>3
    <2>2. CASE AcquireLock(r)
      <3>1. pc[r] = "waiting"
        <4>1. waiters # <<>> /\ r = waiters[1] /\ 1 \in 1 .. Len(waiters)
          BY <2>2 DEF AcquireLock, IInv, TypeOK
        <4>. QED
          BY <4>1 DEF IInv, WaitersInv
      <3>2. \A q \in Requests \ {r} : pc'[q] = pc[q] /\ target'[q] = target[q]
        BY <2>2 DEF AcquireLock, BeginProbing, Route, Ready, GoTo, Finish, IInv, TypeOK
      <3>3. pc'[r] \notin {"reserved", "proxying", "exiting"}
        BY <2>2 DEF AcquireLock, BeginProbing, Route, Ready, GoTo, Finish, IInv, TypeOK
      <3>4. state'.active_model = state.active_model
        BY <2>2 DEF AcquireLock, BeginProbing, Route, MarkWaking, IInv, TypeOK,
                    ControllerStates
      <3>. QED
        BY <3>1, <3>2, <3>3, <3>4 DEF Reserved
    <2>3. CASE ProbeFails(r) \/ DrainFails(r)
      BY <2>3 DEF ProbeFails, DrainFails, FailUnderLock, Finish, Reserved, IInv, TypeOK
    <2>4. CASE DrainDone(r)
      <3>1. state'.active_model = state.active_model
        BY <2>4 DEF DrainDone, MarkSleepingInProgress, IInv, TypeOK, ControllerStates
      <3>. QED
        BY <2>4, <3>1 DEF DrainDone, GoTo, Reserved, IInv, TypeOK
    <2>5. CASE SleepDone(r) \/ SleepFails(r) \/ WakeDone(r) \/ WakeFails(r)
      <3>1. pc[r] \in {"sleeping", "waking"}
        BY <2>5 DEF SleepDone, SleepFails, WakeDone, WakeFails
      <3>2. \A q \in Requests : ~Reserved(q)
        <4>1. \/ state.active_model = NONE
              \/ state.model_states[state.active_model] = "sleeping_in_progress"
          BY <3>1 DEF IInv, HolderInv
        <4>. QED
          BY <4>1, ModelsAssumption DEF IInv, ReservedInv, TaskInv, Reserved
      <3>3. \A q \in Requests \ {r} : pc'[q] = pc[q]
        BY <2>5 DEF SleepDone, SleepFails, WakeDone, WakeFails, FailUnderLock, Ready,
                    GoTo, Finish, IInv, TypeOK
      <3>4. pc'[r] \notin {"reserved", "proxying", "exiting"}
        BY <2>5 DEF SleepDone, SleepFails, WakeDone, WakeFails, FailUnderLock, Ready,
                    GoTo, Finish, IInv, TypeOK
      <3>. QED
        BY <3>2, <3>3, <3>4 DEF Reserved
    <2>6. CASE EnterTracker(r)
      BY <2>6, EnterAdmits DEF Groups!Next
    <2>7. CASE LeaveSwitchLock(r)
      BY <2>7 DEF LeaveSwitchLock, GoTo, Reserved, IInv, TypeOK
    <2>8. CASE ExitTracker(r)
      BY <2>8, ExitLeaves DEF Groups!Next
    <2>. QED
      BY <1>1, <2>1, <2>2, <2>3, <2>4, <2>5, <2>6, <2>7, <2>8 DEF Progress
  <1>2. ASSUME NEW r \in Requests, NEW m \in Models, NEW k \in {"proxy", "admin"},
               Arrive(r, m, k)
        PROVE  [Groups!Next]_(Groups!vars)
    BY <1>2 DEF Arrive, Reserved, IInv, TypeOK
  <1>3. ASSUME NEW r \in Requests, CancelWaiting(r)
        PROVE  [Groups!Next]_(Groups!vars)
    <2>1. PICK i \in 1 .. Len(waiters) : waiters[i] = r /\ Finish(r) /\ state' = state
      <3>1. DOMAIN waiters = 1 .. Len(waiters)
        BY DEF IInv, TypeOK
      <3>. QED
        BY <1>3, <3>1 DEF CancelWaiting
    <2>2. pc[r] = "waiting"
      BY <2>1 DEF IInv, WaitersInv
    <2>. QED
      BY <2>1, <2>2 DEF Finish, Reserved, IInv, TypeOK
  <1>4. ASSUME NEW r \in Requests, CancelEntering(r) \/ ProxyEnds(r) \/ BackendExecutes(r)
        PROVE  [Groups!Next]_(Groups!vars)
    BY <1>4 DEF CancelEntering, ProxyEnds, BackendExecutes, GoTo, tasks, Reserved, IInv, TypeOK
  <1>5. ASSUME NEW p \in Posts, LateExecutes(p)
        PROVE  [Groups!Next]_(Groups!vars)
    BY <1>5 DEF LateExecutes, tasks, Reserved
  <1>6. ASSUME NEW m \in Models, DriftBackend(m)
        PROVE  [Groups!Next]_(Groups!vars)
    BY <1>6 DEF DriftBackend, tasks, Reserved
  <1>7. CASE Restart
    BY <1>7, RestartRestarts DEF Groups!Next
  <1>8. CASE UNCHANGED vars
    BY <1>8 DEF vars, tasks, Reserved
  <1>. QED
    BY <1>1, <1>2, <1>3, <1>4, <1>5, <1>6, <1>7, <1>8 DEF Next

\* Requests between enter and exit of track_request are in group mutual
\* exclusion: they are on one model together, the active one, which changes
\* only when there are none.
THEOREM ImplementsGroupExclusion == Spec => RefinesGroupExclusion
  <1>1. Init => Groups!Init
    BY StartupAssumption DEF Init, FromModels, Inside, Reserved, Groups!Init
  <1>. QED
    BY <1>1, IInvAlways, StepRefines, PTL DEF Spec, RefinesGroupExclusion, Groups!Spec

\* Any implementation of the abstract specification keeps requests inside the
\* current model.
LEMMA ExclusionHolds == Groups!Spec => []Groups!Exclusion
  <1>. DEFINE GroupInv == Groups!TypeOK /\ Groups!Exclusion
  <1>1. Groups!Init => GroupInv
    BY DEF Groups!Init, Groups!TypeOK, Groups!Exclusion
  <1>2. GroupInv /\ [Groups!Next]_(Groups!vars) => GroupInv'
    <2>. SUFFICES ASSUME GroupInv, [Groups!Next]_(Groups!vars) PROVE GroupInv'
      OBVIOUS
    <2>. USE DEF Groups!TypeOK, Groups!Exclusion
    <2>1. CASE \E r \in Requests : Groups!Admit(r)
      BY <2>1 DEF Groups!Admit
    <2>2. CASE \E r \in Requests, m \in Models : Groups!Leave(r, m)
      BY <2>2 DEF Groups!Leave
    <2>3. CASE \E m \in Models \cup {NONE} : Groups!Change(m)
      BY <2>3 DEF Groups!Change, Groups!Empty
    <2>4. CASE Groups!Restart
      BY <2>4 DEF Groups!Restart
    <2>5. CASE UNCHANGED Groups!vars
      BY <2>5 DEF Groups!vars
    <2>. QED
      BY <2>1, <2>2, <2>3, <2>4, <2>5 DEF Groups!Next
  <1>3. GroupInv => Groups!Exclusion
    OBVIOUS
  <1>. HIDE DEF GroupInv
  <1>. QED
    BY <1>1, <1>2, <1>3, PTL DEF Groups!Spec

\* Requests never have reservations of two models at the same time, because the
\* router drains one before it switches to another.
THEOREM ModelsExcludeEachOther == Spec => []Groups!Exclusion
  <1>1. Spec => Groups!Spec
    BY ImplementsGroupExclusion DEF RefinesGroupExclusion
  <1>. QED
    BY <1>1, ExclusionHolds, PTL

-----------------------------------------------------------------------------
(***************************************************************************)
(* The controller and the backends, where these change only by the POST    *)
(* under way.                                                              *)
(***************************************************************************)

Faithful == ~LateEffects /\ ~Drift

\* What s says of the models in S is so.
Truthful(s, S) ==
  \A m \in S :
    /\ s.model_states[m] = "awake" => awake[m]
    /\ s.model_states[m] = "sleeping" => ~awake[m]

\* No claim is made of a model in transition, in error or yet to be observed:
\* that is why no step of a backend makes a claim false.
TruthInv ==
  /\ late = {}
  /\ state.startup_reconciled => Truthful(state, Models)
  /\ \A r \in Requests : pc[r] = "probing" => Truthful(state, Models \ to_probe)

\* Steps that leave the backends alone, change state to one that is true of
\* them, and do not begin to probe.
LEMMA TruthKept ==
  ASSUME TruthInv, UNCHANGED <<awake, late>>,
         state'.startup_reconciled => Truthful(state', Models),
         \A q \in Requests : pc'[q] = "probing" =>
           pc[q] = "probing" /\ UNCHANGED <<state, to_probe>>
  PROVE  TruthInv'
  BY DEF TruthInv, Truthful

LEMMA MarksTruthful ==
  ASSUME NEW s \in ControllerStates, NEW m \in Models, Truthful(s, Models)
  PROVE  /\ Truthful(MarkWaking(s, m), Models)
         /\ Truthful(MarkSleepingInProgress(s, m), Models)
         /\ Truthful(MarkError(s, m), Models)
         /\ awake[m] => Truthful(MarkAwake(s, m), Models)
         /\ ~awake[m] => Truthful(MarkSleeping(s, m), Models)
  BY DEF Truthful, MarkWaking, MarkSleepingInProgress, MarkError, MarkAwake,
         MarkSleeping, ControllerStates

\* Routing by a truthful state leads to one.
LEMMA RouteTruthful ==
  ASSUME IInv, TruthInv, NEW r \in Requests, target[r] \in Models,
         \A q \in Requests \ {r} : pc[q] # "probing",
         NEW s \in ControllerStates, Truthful(s, Models), Stable(s), Route(r, s),
         UNCHANGED <<awake, late>>
  PROVE  TruthInv'
  <1>1. pc' \in [Requests -> PC] /\ \A q \in Requests : pc'[q] # "probing"
    BY DEF Route, Ready, GoTo, Finish, IInv, TypeOK, PC
  <1>2. state' = s \/ state' = MarkWaking(s, target[r])
    BY DecideStable DEF Route, Decision
  <1>3. Truthful(state', Models)
    BY <1>2, MarksTruthful
  <1>. QED
    BY <1>1, <1>3, TruthKept

LEMMA AcquireLockTruth ==
  ASSUME IInv, TruthInv, NEW r \in Requests, AcquireLock(r)
  PROVE  TruthInv'
  <1>. DEFINE unsafe == IF state.startup_reconciled THEN UnsafeModels(state) ELSE Models
  <1>1. /\ switch_lock = NONE /\ waiters # <<>> /\ r = Head(waiters)
        /\ UNCHANGED <<awake, late>>
    BY DEF AcquireLock, backends
  <1>2. \A q \in Requests : pc[q] \notin UnderLock
    BY <1>1, RequestsAssumption DEF LockInv, IInv
  <1>3. pc[r] = "waiting" /\ target[r] \in Models
    <2>1. Len(waiters) \in Nat \ {0} /\ waiters[1] = r
      BY <1>1 DEF TypeOK, IInv
    <2>. QED
      BY <2>1 DEF WaitersInv, TaskInv, IInv
  <1>4. CASE unsafe # {} /\ BeginProbing(r, unsafe)
    <2>1. state' = state /\ to_probe' = unsafe
      BY <1>4 DEF BeginProbing
    <2>2. state.startup_reconciled => Truthful(state, Models)
      BY DEF TruthInv
    <2>3. Truthful(state, Models \ unsafe)
      BY <2>2 DEF Truthful
    <2>. QED
      BY <1>1, <2>1, <2>2, <2>3 DEF TruthInv, Truthful
  <1>5. CASE unsafe = {} /\ Route(r, state)
    <2>1. state.startup_reconciled
      BY <1>3, <1>5
    <2>2. Stable(state)
      BY <1>5, <2>1
      DEF IInv, Stable, ShapeInv, UnsafeModels, TypeOK, ControllerStates, ModelState
    <2>. QED
      BY <1>1, <1>2, <1>3, <1>5, <2>1, <2>2, RouteTruthful
      DEF UnderLock, TruthInv, IInv, TypeOK
  <1>. QED
    BY <1>4, <1>5 DEF AcquireLock

LEMMA ObserveTruth ==
  ASSUME IInv, TruthInv, NEW r \in Requests, NEW m \in Models, ObserveSleeping(r, m)
  PROVE  TruthInv'
  <1>. DEFINE s    == IF awake[m] THEN MarkAwake(state, m) ELSE MarkSleeping(state, m)
              seen == IF awake[m] THEN observed_awake \cup {m} ELSE observed_awake
              done == [s EXCEPT !.startup_reconciled = TRUE]
  <1>1. /\ pc[r] = "probing" /\ m \in to_probe
        /\ UNCHANGED <<awake, late>>
    BY DEF ObserveSleeping, backends
  <1>2. ProbeInv /\ target[r] \in Models /\ \A q \in Requests \ {r} : pc[q] # "probing"
    BY <1>1, HolderAlone DEF IInv, HolderInv, TaskInv, UnderLock
  <1>3. /\ s \in ControllerStates
        /\ s.startup_reconciled = state.startup_reconciled
        /\ s.model_states[m] = IF m \in seen THEN "awake" ELSE "sleeping"
        /\ \A n \in Models \ {m} : s.model_states[n] = state.model_states[n]
        /\ seen \in SUBSET Models
        /\ \A n \in Models \ (to_probe \ {m}) :
             s.model_states[n] = IF n \in seen THEN "awake" ELSE "sleeping"
        /\ IF seen = {} THEN s.active_model \in (to_probe \ {m}) \cup {NONE}
                        ELSE s.active_model \in seen
    <2>1. \/ s = MarkAwake(state, m) /\ seen = observed_awake \cup {m}
          \/ s = MarkSleeping(state, m) /\ seen = observed_awake
      OBVIOUS
    <2>. HIDE DEF s, seen
    <2>. QED
      BY <1>1, <1>2, <2>1, ObserveOne
  <1>4. m \in seen <=> awake[m]
    BY <1>1, <1>2 DEF ProbeInv
  <1>5. Truthful(s, Models \ (to_probe \ {m}))
    BY <1>1, <1>3, <1>4 DEF TruthInv, Truthful
  <1>6. s.startup_reconciled => Truthful(s, Models)
    BY <1>3, <1>4 DEF TruthInv, Truthful
  <1>7. CASE to_probe # {m} /\ state' = s /\ to_probe' = to_probe \ {m} /\ UNCHANGED tasks
    BY <1>1, <1>2, <1>5, <1>6, <1>7 DEF TruthInv, Truthful, tasks
  <1>8. CASE state' = MarkErrors(s, seen) /\ FailUnderLock(r)
    <2>1. \A q \in Requests : pc'[q] # "probing"
      BY <1>2, <1>8 DEF FailUnderLock, Finish, IInv, TypeOK
    <2>2. s.startup_reconciled => Truthful(MarkErrors(s, seen), Models)
      BY <1>3, <1>6 DEF Truthful, MarkErrors, ControllerStates
    <2>3. MarkErrors(s, seen).startup_reconciled = s.startup_reconciled
      BY <1>3 DEF MarkErrors, ControllerStates
    <2>. QED
      BY <1>1, <1>8, <2>1, <2>2, <2>3, TruthKept
  <1>9. CASE to_probe = {m} /\ ~Several(seen) /\ Route(r, done)
    <2>1. /\ done \in ControllerStates /\ done.startup_reconciled
          /\ done.model_states = s.model_states /\ done.active_model = s.active_model
      BY <1>3 DEF ControllerStates
    <2>. HIDE DEF s, seen, done
    <2>2. Truthful(done, Models)
      BY <1>5, <1>9, <2>1 DEF Truthful
    <2>3. Stable(done)
      <3>1. \A a, b \in seen : a = b
        BY <1>9 DEF Several
      <3>2. \A n \in Models : done.model_states[n] = IF n \in seen THEN "awake" ELSE "sleeping"
        BY <1>3, <1>9, <2>1
      <3>3. \A n \in Models : done.active_model = n <=> n \in seen
        <4>1. IF seen = {} THEN s.active_model \in (to_probe \ {m}) \cup {NONE}
                          ELSE s.active_model \in seen
          BY <1>3
        <4>2. CASE seen = {}
          <5>1. done.active_model = NONE
            BY <1>9, <2>1, <4>1, <4>2
          <5>. QED
            BY <4>2, <5>1, ModelsAssumption
        <4>3. CASE seen # {}
          BY <2>1, <3>1, <4>1, <4>3
        <4>. QED
          BY <4>2, <4>3
      <3>. QED
        BY <1>3, <2>1, <3>1, <3>2, <3>3 DEF Stable, Shape
    <2>. QED
      BY <1>1, <1>2, <1>9, <2>1, <2>2, <2>3, RouteTruthful
  <1>. QED
    BY <1>7, <1>8, <1>9 DEF ObserveSleeping

\* The end of a lifecycle call.
LEMMA CallTruth ==
  ASSUME IInv, TruthInv, Faithful, NEW r \in Requests,
         SleepDone(r) \/ SleepFails(r) \/ WakeDone(r) \/ WakeFails(r)
  PROVE  TruthInv'
  <1>1. pc[r] \in {"sleeping", "waking"}
    BY DEF SleepDone, SleepFails, WakeDone, WakeFails
  <1>2. /\ state.startup_reconciled /\ Truthful(state, Models)
        /\ state \in ControllerStates
        /\ pc[r] = "sleeping" => decision.sleep_model \in Models
        /\ decision.wake_model \in Models
    BY <1>1 DEF IInv, TypeOK, TaskInv, TruthInv, HolderInv
  <1>3. UNCHANGED <<awake, late>>
    BY DEF SleepDone, SleepFails, WakeDone, WakeFails, Abandon, Faithful, backends
  <1>4. \A q \in Requests : pc'[q] # "probing"
    <2>1. \A q \in Requests \ {r} : pc[q] # "probing"
      BY <1>1, HolderAlone DEF UnderLock
    <2>2. \A q \in Requests \ {r} : pc'[q] = pc[q]
      BY DEF SleepDone, SleepFails, WakeDone, WakeFails, FailUnderLock, Ready, GoTo,
             Finish, IInv, TypeOK
    <2>3. pc'[r] # "probing"
      BY DEF SleepDone, SleepFails, WakeDone, WakeFails, FailUnderLock, Ready, GoTo,
             Finish, IInv, TypeOK
    <2>. QED
      BY <2>1, <2>2, <2>3
  <1>5. Truthful(state', Models)
    <2>1. CASE SleepDone(r)
      <3>1. MarkSleeping(state, decision.sleep_model) \in ControllerStates
        BY <1>2, <2>1, MarksType DEF SleepDone
      <3>2. Truthful(MarkSleeping(state, decision.sleep_model), Models)
        BY <1>2, <2>1, MarksTruthful DEF SleepDone, Confirmed
      <3>. QED
        BY <1>2, <2>1, <3>1, <3>2, MarksTruthful DEF SleepDone
    <2>2. CASE SleepFails(r)
      BY <1>2, <2>2, MarksTruthful DEF SleepFails
    <2>3. CASE WakeDone(r)
      BY <1>2, <2>3, MarksTruthful DEF WakeDone, Confirmed
    <2>4. CASE WakeFails(r)
      BY <1>2, <2>4, MarksTruthful DEF WakeFails
    <2>. QED
      BY <2>1, <2>2, <2>3, <2>4
  <1>. QED
    BY <1>3, <1>4, <1>5, TruthKept

\* A backend executes the POST under way: its model is in transition.
LEMMA BackendTruth ==
  ASSUME IInv, TruthInv, NEW r \in Requests, BackendExecutes(r)
  PROVE  TruthInv'
  <1>1. PICK m \in Models :
          /\ state.model_states[m] \in {"sleeping_in_progress", "waking"}
          /\ \A n \in Models \ {m} : awake'[n] = awake[n]
    <2>1. CASE pc[r] = "sleeping" /\ awake' = [awake EXCEPT ![decision.sleep_model] = FALSE]
      BY <2>1 DEF IInv, HolderInv, TypeOK
    <2>2. CASE pc[r] = "waking" /\ awake' = [awake EXCEPT ![decision.wake_model] = TRUE]
      <3>1. decision.wake_model = target[r] /\ state.model_states[target[r]] = "waking"
            /\ target[r] \in Models
        BY <2>2 DEF IInv, HolderInv, TaskInv
      <3>. QED
        BY <2>2, <3>1 DEF IInv, TypeOK
    <2>. QED
      BY <2>1, <2>2 DEF BackendExecutes
  <1>2. /\ UNCHANGED <<state, pc, to_probe, late>>
        /\ pc[r] \in {"sleeping", "waking"}
    BY DEF BackendExecutes, tasks, locals
  <1>3. \A q \in Requests : pc'[q] # "probing"
    BY <1>2, HolderAlone DEF UnderLock
  <1>. QED
    BY <1>1, <1>2, <1>3 DEF TruthInv, Truthful

\* The steps that leave the states of the models as they are.
LEMMA OtherTruth ==
  ASSUME IInv, TruthInv, NEW r \in Requests,
         \/ ProbeFails(r) \/ DrainFails(r) \/ EnterTracker(r) \/ LeaveSwitchLock(r)
         \/ ExitTracker(r) \/ CancelWaiting(r) \/ CancelEntering(r) \/ ProxyEnds(r)
         \/ \E m \in Models, k \in {"proxy", "admin"} : Arrive(r, m, k)
  PROVE  TruthInv'
  <1>. USE DEF ProbeFails, DrainFails, EnterTracker, LeaveSwitchLock, ExitTracker,
               CancelWaiting, CancelEntering, ProxyEnds, Arrive
  <1>1. UNCHANGED <<state, awake, late>>
    BY DEF backends
  <1>2. \/ UNCHANGED pc
        \/ \A q \in Requests : pc'[q] = "probing" => pc[q] = "probing" /\ q # r
    BY DEF FailUnderLock, Finish, GoTo, IInv, TypeOK
  <1>3. \/ UNCHANGED to_probe
        \/ pc[r] \in {"probing", "draining"} /\ FailUnderLock(r)
    BY DEF locals
  <1>4. CASE UNCHANGED to_probe
    BY <1>1, <1>2, <1>4 DEF TruthInv, Truthful
  <1>5. CASE pc[r] \in {"probing", "draining"} /\ FailUnderLock(r)
    <2>1. \A q \in Requests : pc'[q] # "probing"
      BY <1>5, HolderAlone DEF UnderLock, FailUnderLock, Finish, IInv, TypeOK
    <2>. QED
      BY <1>1, <2>1 DEF TruthInv, Truthful
  <1>. QED
    BY <1>3, <1>4, <1>5

LEMMA InitTruth == Init => TruthInv
  BY DEF Init, TruthInv, FromModels

LEMMA NextTruth == Faithful /\ IInv /\ TruthInv /\ [Next]_vars => TruthInv'
  <1>. SUFFICES ASSUME Faithful, IInv, TruthInv, [Next]_vars PROVE TruthInv'
    OBVIOUS
  <1>1. ASSUME NEW r \in Requests, DrainDone(r) PROVE TruthInv'
    <2>1. pc[r] = "draining" /\ state \in ControllerStates
      BY <1>1 DEF DrainDone, IInv, TypeOK
    <2>4. decision.sleep_model \in Models
      BY <2>1 DEF IInv, HolderInv, Decision
    <2>5. Truthful(state, Models)
      BY <2>1 DEF IInv, TaskInv, TruthInv
    <2>2. \A q \in Requests : pc'[q] # "probing"
      BY <1>1, HolderAlone DEF DrainDone, GoTo, UnderLock, IInv, TypeOK
    <2>3. UNCHANGED <<awake, late>>
      BY <1>1 DEF DrainDone, backends
    <2>. QED
      BY <1>1, <2>1, <2>2, <2>3, <2>4, <2>5, MarksTruthful, TruthKept DEF DrainDone
  <1>2. CASE Restart
    <2>1. UNCHANGED <<awake, late>>
      BY <1>2 DEF Restart, Abandon, Faithful
    <2>. QED
      BY <1>2, <2>1 DEF Restart, FreshController, FromModels, TruthInv
  <1>3. ASSUME NEW p \in Posts, LateExecutes(p) PROVE FALSE
    BY <1>3 DEF LateExecutes, TruthInv
  <1>4. ASSUME NEW m \in Models, DriftBackend(m) PROVE FALSE
    BY <1>4 DEF DriftBackend, Faithful
  <1>5. CASE UNCHANGED vars
    BY <1>5 DEF vars, tasks, locals, backends, TruthInv, Truthful
  <1>6. ASSUME NEW r \in Requests, ~DrainDone(r),
               \/ Progress(r) \/ CancelWaiting(r) \/ CancelEntering(r)
               \/ ProxyEnds(r) \/ BackendExecutes(r)
               \/ \E m \in Models, k \in {"proxy", "admin"} : Arrive(r, m, k)
        PROVE  TruthInv'
    BY <1>6, AcquireLockTruth, ObserveTruth, CallTruth, BackendTruth, OtherTruth
    DEF Progress
  <1>. QED
    BY <1>1, <1>2, <1>3, <1>4, <1>5, <1>6 DEF Next

\* What the controller believes awake or asleep is, after the startup pass, if
\* no POST is executed after it was given up and no backend changes by itself:
\* half-way transitions are in error, and configuration was not believed.
THEOREM BeliefsAreTrue == Faithful => (Spec => []ControllerTruthful)
  <1>. SUFFICES ASSUME Faithful PROVE Spec => []ControllerTruthful
    OBVIOUS
  <1>1. IInv /\ TruthInv /\ [Next]_vars => TruthInv'
    BY NextTruth
  <1>2. TruthInv => ControllerTruthful
    BY DEF TruthInv, Truthful, ControllerTruthful
  <1>. QED
    BY <1>1, <1>2, InitTruth, IInvAlways, PTL DEF Spec

\* Only one model is awake: what is not believed asleep is one model at most.
THEOREM OneBackendAwake == Faithful => (Spec => []AtMostOneAwake)
  <1>. SUFFICES ASSUME Faithful PROVE Spec => []AtMostOneAwake
    OBVIOUS
  <1>1. IInv /\ TruthInv /\ [Next]_vars => TruthInv'
    BY NextTruth
  <1>2. IInv /\ TruthInv => AtMostOneAwake
    BY DEF IInv, ShapeInv, Shape, TruthInv, Truthful, AtMostOneAwake
  <1>. QED
    BY <1>1, <1>2, InitTruth, IInvAlways, PTL DEF Spec

\* A request that has its reservation runs on an awake backend to its end.
THEOREM RequestsAreServed == Faithful => (Spec => []ServedByAwakeBackend)
  <1>. SUFFICES ASSUME Faithful PROVE Spec => []ServedByAwakeBackend
    OBVIOUS
  <1>1. IInv /\ TruthInv /\ [Next]_vars => TruthInv'
    BY NextTruth
  <1>2. IInv /\ TruthInv => ServedByAwakeBackend
    BY DEF IInv, ReservedInv, TaskInv, Reserved, TruthInv, Truthful, ServedByAwakeBackend
  <1>. QED
    BY <1>1, <1>2, InitTruth, IInvAlways, PTL DEF Spec

=============================================================================
