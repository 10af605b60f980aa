------------------------------ MODULE ModelSwitch ------------------------------
(***************************************************************************)
(* Model switching in the controller's router (controller/router.py,       *)
(* handle_openai_proxy, admin_switch and ensure_model_ready_locked) with   *)
(* the request accounting of controller/state.py.                          *)
(*                                                                         *)
(* Every HTTP request is an asyncio task.  The tasks of one event loop     *)
(* interleave at their awaits only: an action here is what a task does     *)
(* from one await to the next.  A request                                  *)
(*                                                                         *)
(*   waits for switch_lock, in arrival order             "waiting"         *)
(*   observes the real state of the uncertain backends   "probing"         *)
(*   waits for the requests of the other models          "draining"        *)
(*   puts the previous backend to sleep                  "sleeping"        *)
(*   wakes the backend of its target                     "waking"          *)
(*   enters the request tracker                          "entering"        *)
(*   still owns the lock, with a reservation             "reserved"        *)
(*   runs on the backend, the lock is released           "proxying"        *)
(*   gives its reservation back                          "exiting"         *)
(*                                                                         *)
(* and skips what it does not need.  All of "probing" .. "reserved" runs   *)
(* under switch_lock, as does "exiting" for a request cancelled while it   *)
(* entered the tracker.                                                    *)
(*                                                                         *)
(* A lifecycle call is a POST and the polls of /is_sleeping that follow    *)
(* it.  Time is not modelled: a deadline may expire, a call may fail and   *)
(* a client may disconnect whenever a task is at an await.                 *)
(***************************************************************************)
EXTENDS ControllerState, Naturals, Sequences, FiniteSets

CONSTANTS
  Requests,             \* tasks, each may serve any number of requests in turn
  Policy,               \* config.controller.policy
  startup_awake_model,  \* config.controller.startup_awake_model
  LateEffects,          \* may a POST given up by the controller execute later?
  Drift                 \* may a backend sleep or wake by itself?

ASSUME RequestsAssumption == IsFiniteSet(Requests) /\ NONE \notin Requests
ASSUME PolicyAssumption   ==
  Policy \in {"always_sleep_previous", "always_awake_previous"}
ASSUME StartupAssumption  == startup_awake_model \in Models \cup {NONE}
ASSUME FaultsAssumption   == LateEffects \in BOOLEAN /\ Drift \in BOOLEAN

VARIABLES
  state,            \* ControllerState
  active_requests,  \* ControllerState._active_requests, 0 for a missing key
  switch_lock,      \* the request that holds ControllerState.switch_lock
  waiters,          \* the requests queued on switch_lock
  pc,               \* where each request is
  target,           \* its target_model
  kind,             \* "proxy" (inference) or "admin" (/admin/switch)
  cancelled,        \* the requests with a cancellation to deliver
  to_probe,         \* the lock holder's locals in ensure_model_ready_locked:
  observed_awake,   \*   the models it has yet to observe, those it saw awake,
  decision,         \*   the policy's decision
  applied,          \* the backend executed the holder's POST
  awake,            \* the backends: is the model awake?
  late              \* the POSTs the controller gave up that may yet execute

locals   == <<to_probe, observed_awake, decision>>
tasks    == <<pc, target, kind, cancelled>>
backends == <<awake, late>>
vars     == <<state, active_requests, switch_lock, waiters, tasks, locals,
              applied, backends>>

-----------------------------------------------------------------------------

PC == {"idle", "waiting", "probing", "draining", "sleeping", "waking",
       "entering", "reserved", "proxying", "exiting"}

Posts == [model : Models, wake : BOOLEAN]

TypeOK ==
  /\ state \in ControllerStates
  /\ active_requests \in [Models -> Nat]
  /\ switch_lock \in Requests \cup {NONE}
  /\ waiters \in Seq(Requests)
  /\ pc \in [Requests -> PC]
  /\ target \in [Requests -> Models \cup {NONE}]
  /\ kind \in [Requests -> {"proxy", "admin"}]
  /\ cancelled \in SUBSET Requests
  /\ to_probe \in SUBSET Models
  /\ observed_awake \in SUBSET Models
  /\ decision \in Decisions
  /\ applied \in BOOLEAN
  /\ awake \in [Models -> BOOLEAN]
  /\ late \in SUBSET Posts

\* A fresh controller over backends in any state: the configured startup
\* model is what the launcher is expected to have established, no more.
FreshController ==
  /\ state' = FromModels(startup_awake_model)
  /\ active_requests' = [m \in Models |-> 0]
  /\ switch_lock' = NONE
  /\ waiters' = <<>>
  /\ pc' = [r \in Requests |-> "idle"]
  /\ target' = [r \in Requests |-> NONE]
  /\ kind' = [r \in Requests |-> "proxy"]
  /\ cancelled' = {}
  /\ to_probe' = {}
  /\ observed_awake' = {}
  /\ decision' = NoSwitch
  /\ applied' = FALSE

Init ==
  /\ state = FromModels(startup_awake_model)
  /\ active_requests = [m \in Models |-> 0]
  /\ switch_lock = NONE
  /\ waiters = <<>>
  /\ pc = [r \in Requests |-> "idle"]
  /\ target = [r \in Requests |-> NONE]
  /\ kind = [r \in Requests |-> "proxy"]
  /\ cancelled = {}
  /\ to_probe = {}
  /\ observed_awake = {}
  /\ decision = NoSwitch
  /\ applied = FALSE
  /\ awake \in [Models -> BOOLEAN]
  /\ late = {}

-----------------------------------------------------------------------------
(***************************************************************************)
(* Pieces of steps.                                                        *)
(***************************************************************************)

GoTo(r, l) ==
  /\ pc' = [pc EXCEPT ![r] = l]
  /\ UNCHANGED <<target, kind, cancelled>>

\* The task answers its request or raises; the slot is free again.
Finish(r) ==
  /\ pc' = [pc EXCEPT ![r] = "idle"]
  /\ target' = [target EXCEPT ![r] = NONE]
  /\ kind' = [kind EXCEPT ![r] = "proxy"]
  /\ cancelled' = cancelled \ {r}

ForgetLocals ==
  /\ to_probe' = {}
  /\ observed_awake' = {}
  /\ decision' = NoSwitch
  /\ applied' = FALSE

\* An exception leaves "async with switch_lock" before the request has a
\* reservation.
FailUnderLock(r) ==
  /\ Finish(r)
  /\ ForgetLocals
  /\ switch_lock' = NONE

\* Mutant of Ready: the lock is released before the reservation is taken.
ReadyUnlocked(r) ==
  /\ ForgetLocals
  /\ switch_lock' = NONE
  /\ IF kind[r] = "proxy" THEN GoTo(r, "entering") ELSE Finish(r)

\* ensure_model_ready_locked returns: /admin/switch leaves the lock and
\* answers, a proxied request goes on to its reservation under the lock.
Ready(r) ==
  /\ ForgetLocals
  /\ \/ /\ kind[r] = "proxy"
        /\ GoTo(r, "entering")
        /\ switch_lock' = r
     \/ /\ kind[r] = "admin"
        /\ Finish(r)
        /\ switch_lock' = NONE

\* policy.decide on the reconciled state s, and what is done up to the next
\* await.
Route(r, s) ==
  LET d == Decide(Policy, s, target[r]) IN
  \/ /\ d = NoSwitch
     /\ state' = s
     /\ Ready(r)
  \/ /\ d # NoSwitch
     /\ to_probe' = {}
     /\ observed_awake' = {}
     /\ decision' = d
     /\ applied' = FALSE
     /\ switch_lock' = r
     /\ \/ /\ d.wait_for_active_requests
           /\ state' = s
           /\ GoTo(r, "draining")
        \/ /\ ~d.wait_for_active_requests
           /\ state' = MarkWaking(s, d.wake_model)
           /\ GoTo(r, "waking")

BeginProbing(r, S) ==
  /\ to_probe' = S
  /\ observed_awake' = {}
  /\ switch_lock' = r
  /\ GoTo(r, "probing")
  /\ UNCHANGED <<state, decision, applied>>

\* Mutant of Several: the check for several awake backends is missing.
NeverSeveral(S) == FALSE

Several(S) == \E a, b \in S : a # b

-----------------------------------------------------------------------------
(***************************************************************************)
(* Queueing on switch_lock, a fair asyncio.Lock.                           *)
(***************************************************************************)

Arrive(r, m, k) ==
  /\ pc[r] = "idle"
  /\ pc' = [pc EXCEPT ![r] = "waiting"]
  /\ target' = [target EXCEPT ![r] = m]
  /\ kind' = [kind EXCEPT ![r] = k]
  /\ waiters' = Append(waiters, r)
  /\ UNCHANGED <<state, active_requests, switch_lock, cancelled, locals,
                 applied, backends>>

\* The lock is acquired and the models to observe are found: the whole pool
\* until it has been observed once, later those in an uncertain state.
AcquireLock(r) ==
  /\ switch_lock = NONE
  /\ waiters # <<>>
  /\ r = Head(waiters)
  /\ waiters' = Tail(waiters)
  /\ LET unsafe == IF state.startup_reconciled THEN UnsafeModels(state) ELSE Models
     IN \/ unsafe # {} /\ BeginProbing(r, unsafe)
        \/ unsafe = {} /\ Route(r, state)
  /\ UNCHANGED <<active_requests, backends>>

\* Mutant of CancelWaiting: the cancelled waiter releases a lock it never got.
CancelWaitingReleases(r) ==
  /\ pc[r] = "waiting"
  /\ waiters' = SelectSeq(waiters, LAMBDA q : q # r)
  /\ Finish(r)
  /\ switch_lock' = NONE
  /\ UNCHANGED <<state, active_requests, locals, applied, backends>>

\* The client disconnects while its request is queued.
CancelWaiting(r) ==
  \E i \in DOMAIN waiters :
    /\ waiters[i] = r
    /\ waiters' = SubSeq(waiters, 1, i - 1) \o SubSeq(waiters, i + 1, Len(waiters))
    /\ Finish(r)
    /\ UNCHANGED <<state, active_requests, switch_lock, locals, applied, backends>>

-----------------------------------------------------------------------------
(***************************************************************************)
(* Reconciliation.  The startup pass and the later passes are the same     *)
(* loop, the first over all models; the code takes the models by name, any *)
(* order is allowed here.  Only the startup pass changes                   *)
(* startup_reconciled, and leaves no uncertain model for a second pass.    *)
(***************************************************************************)

ObserveSleeping(r, m) ==
  /\ pc[r] = "probing"
  /\ m \in to_probe
  /\ LET s    == IF awake[m] THEN MarkAwake(state, m) ELSE MarkSleeping(state, m)
         seen == IF awake[m] THEN observed_awake \cup {m} ELSE observed_awake
     IN \/ /\ to_probe # {m}
           /\ state' = s
           /\ to_probe' = to_probe \ {m}
           /\ observed_awake' = seen
           /\ UNCHANGED <<switch_lock, tasks, decision, applied>>
        \/ /\ to_probe = {m}
           /\ Several(seen)
           /\ state' = MarkErrors(s, seen)
           /\ FailUnderLock(r)
        \/ /\ to_probe = {m}
           /\ ~Several(seen)
           /\ Route(r, [s EXCEPT !.startup_reconciled = TRUE])
  /\ UNCHANGED <<active_requests, waiters, backends>>

\* The probe fails, the deadline expires or the client disconnects: what was
\* already observed stays recorded.
ProbeFails(r) ==
  /\ pc[r] = "probing"
  /\ FailUnderLock(r)
  /\ UNCHANGED <<state, active_requests, waiters, backends>>

-----------------------------------------------------------------------------
(***************************************************************************)
(* Draining, and the two lifecycle calls.                                  *)
(***************************************************************************)

\* Mutant of DrainDone: the other models' requests are not waited for.
DrainDoneAtOnce(r) ==
  /\ pc[r] = "draining"
  /\ state' = MarkSleepingInProgress(state, decision.sleep_model)
  /\ GoTo(r, "sleeping")
  /\ UNCHANGED <<active_requests, switch_lock, waiters, locals, applied, backends>>

\* wait_for_other_model_requests_to_finish returns: no await separates its
\* predicate from mark_sleeping_in_progress.
DrainDone(r) ==
  /\ pc[r] = "draining"
  /\ \A m \in Models \ {target[r]} : active_requests[m] = 0
  /\ state' = MarkSleepingInProgress(state, decision.sleep_model)
  /\ GoTo(r, "sleeping")
  /\ UNCHANGED <<active_requests, switch_lock, waiters, locals, applied, backends>>

\* Mutant of DrainFails: the drain has no deadline.
DrainNeverFails(r) == FALSE

DrainFails(r) ==
  /\ pc[r] = "draining"
  /\ FailUnderLock(r)
  /\ UNCHANGED <<state, active_requests, waiters, backends>>

\* The backend executes the POST of the lock holder.
BackendExecutes(r) ==
  /\ ~applied
  /\ \/ pc[r] = "sleeping" /\ awake' = [awake EXCEPT ![decision.sleep_model] = FALSE]
     \/ pc[r] = "waking" /\ awake' = [awake EXCEPT ![decision.wake_model] = TRUE]
  /\ applied' = TRUE
  /\ UNCHANGED <<state, active_requests, switch_lock, waiters, tasks, locals, late>>

\* _transition_and_wait returns: the POST was answered, then a poll of
\* /is_sleeping agreed.
Confirmed(m, up) == applied /\ awake[m] = up

\* The sleep is confirmed; the wake call follows at once.
SleepDone(r) ==
  /\ pc[r] = "sleeping"
  /\ Confirmed(decision.sleep_model, FALSE)
  /\ state' = MarkWaking(MarkSleeping(state, decision.sleep_model), decision.wake_model)
  /\ applied' = FALSE
  /\ GoTo(r, "waking")
  /\ UNCHANGED <<active_requests, switch_lock, waiters, locals, backends>>

\* A POST nobody waits for any more.
Abandon(m, up) ==
  late' = IF LateEffects /\ ~applied THEN late \cup {[model |-> m, wake |-> up]} ELSE late

\* Mutant of SleepFails: the failed transition is not marked.
SleepFailsUnmarked(r) ==
  /\ pc[r] = "sleeping"
  /\ Abandon(decision.sleep_model, FALSE)
  /\ FailUnderLock(r)
  /\ UNCHANGED <<state, active_requests, waiters, awake>>

\* An error answer, a lost one, a deadline or a disconnect: except BaseException.
SleepFails(r) ==
  /\ pc[r] = "sleeping"
  /\ state' = MarkError(state, decision.sleep_model)
  /\ Abandon(decision.sleep_model, FALSE)
  /\ FailUnderLock(r)
  /\ UNCHANGED <<active_requests, waiters, awake>>

WakeDone(r) ==
  /\ pc[r] = "waking"
  /\ Confirmed(decision.wake_model, TRUE)
  /\ state' = MarkAwake(state, decision.wake_model)
  /\ Ready(r)
  /\ UNCHANGED <<active_requests, waiters, backends>>

WakeFails(r) ==
  /\ pc[r] = "waking"
  /\ state' = MarkError(state, decision.wake_model)
  /\ Abandon(decision.wake_model, TRUE)
  /\ FailUnderLock(r)
  /\ UNCHANGED <<active_requests, waiters, awake>>

-----------------------------------------------------------------------------
(***************************************************************************)
(* The reservation.  track_request is entered and left in tasks of their   *)
(* own, which a cancellation of the request does not reach.                *)
(***************************************************************************)

EnterTracker(r) ==
  /\ pc[r] = "entering"
  /\ active_requests' = [active_requests EXCEPT ![target[r]] = @ + 1]
  /\ GoTo(r, "reserved")
  /\ UNCHANGED <<state, switch_lock, waiters, locals, applied, backends>>

\* A cancellation while the tracker is entered is noted by
\* wait_task_resisting_cancellation.
CancelEntering(r) ==
  /\ pc[r] \in {"entering", "reserved"}
  /\ r \notin cancelled
  /\ cancelled' = cancelled \cup {r}
  /\ UNCHANGED <<state, active_requests, switch_lock, waiters, pc, target, kind,
                 locals, applied, backends>>

\* Mutants of LeaveSwitchLock: the cancelled request raises without undoing
\* its reservation; the noted cancellation is forgotten.
LeaveSwitchLockLeaking(r) ==
  /\ pc[r] = "reserved"
  /\ switch_lock' = NONE
  /\ IF r \in cancelled THEN Finish(r) ELSE GoTo(r, "proxying")
  /\ UNCHANGED <<state, active_requests, waiters, locals, applied, backends>>

LeaveSwitchLockDeaf(r) ==
  /\ pc[r] = "reserved"
  /\ switch_lock' = NONE
  /\ GoTo(r, "proxying")
  /\ UNCHANGED <<state, active_requests, waiters, locals, applied, backends>>

\* The task resumes with its reservation: it leaves the lock for the backend
\* or, cancelled, undoes the reservation before it does.
LeaveSwitchLock(r) ==
  /\ pc[r] = "reserved"
  /\ \/ r \notin cancelled /\ switch_lock' = NONE /\ GoTo(r, "proxying")
     \/ r \in cancelled /\ UNCHANGED switch_lock /\ GoTo(r, "exiting")
  /\ UNCHANGED <<state, active_requests, waiters, locals, applied, backends>>

\* The JSON answer or the stream ends, fails or is cancelled.
ProxyEnds(r) ==
  /\ pc[r] = "proxying"
  /\ GoTo(r, "exiting")
  /\ UNCHANGED <<state, active_requests, switch_lock, waiters, locals, applied, backends>>

\* Mutant of ExitTracker: the reservation is released twice.
ExitTrackerTwice(r) ==
  /\ pc[r] = "exiting"
  /\ active_requests' = [active_requests EXCEPT ![target[r]] = @ - 2]
  /\ Finish(r)
  /\ switch_lock' = IF switch_lock = r THEN NONE ELSE switch_lock
  /\ UNCHANGED <<state, waiters, locals, applied, backends>>

ExitTracker(r) ==
  /\ pc[r] = "exiting"
  /\ active_requests' = [active_requests EXCEPT ![target[r]] = @ - 1]
  /\ Finish(r)
  /\ switch_lock' = IF switch_lock = r THEN NONE ELSE switch_lock
  /\ UNCHANGED <<state, waiters, locals, applied, backends>>

-----------------------------------------------------------------------------
(***************************************************************************)
(* The environment.                                                        *)
(***************************************************************************)

LateExecutes(p) ==
  /\ p \in late
  /\ late' = late \ {p}
  /\ awake' = [awake EXCEPT ![p.model] = p.wake]
  /\ UNCHANGED <<state, active_requests, switch_lock, waiters, tasks, locals, applied>>

DriftBackend(m) ==
  /\ Drift
  /\ awake' = [awake EXCEPT ![m] = ~@]
  /\ UNCHANGED <<state, active_requests, switch_lock, waiters, tasks, locals,
                 applied, late>>

\* The controller process stops and is started again; the backends, which
\* are processes of their own, keep running.
Restart ==
  /\ FreshController
  /\ \/ /\ \E r \in Requests :
             \/ pc[r] = "sleeping" /\ Abandon(decision.sleep_model, FALSE)
             \/ pc[r] = "waking" /\ Abandon(decision.wake_model, TRUE)
     \/ (\A r \in Requests : pc[r] \notin {"sleeping", "waking"}) /\ UNCHANGED late
  /\ UNCHANGED awake

-----------------------------------------------------------------------------

\* What the controller does by itself once a request has arrived.  Every
\* await under the lock ends: by success, or at the switch deadline.
Progress(r) ==
  \/ AcquireLock(r)
  \/ \E m \in Models : ObserveSleeping(r, m)
  \/ ProbeFails(r)
  \/ DrainDone(r)
  \/ DrainFails(r)
  \/ SleepDone(r)
  \/ SleepFails(r)
  \/ WakeDone(r)
  \/ WakeFails(r)
  \/ EnterTracker(r)
  \/ LeaveSwitchLock(r)
  \/ ExitTracker(r)

Next ==
  \/ \E r \in Requests :
       \/ Progress(r)
       \/ \E m \in Models, k \in {"proxy", "admin"} : Arrive(r, m, k)
       \/ CancelWaiting(r)
       \/ CancelEntering(r)
       \/ ProxyEnds(r)
       \/ BackendExecutes(r)
  \/ \E p \in Posts : LateExecutes(p)
  \/ \E m \in Models : DriftBackend(m)
  \/ Restart

Spec == Init /\ [][Next]_vars

\* A request may stay on its backend for ever, a client may never come: the
\* only fairness is that of the event loop and of the deadlines.
FairSpec == Spec /\ \A r \in Requests : WF_vars(Progress(r))

-----------------------------------------------------------------------------
(***************************************************************************)
(* Safety, whatever the backends do.                                       *)
(***************************************************************************)

Reserved(r) == pc[r] \in {"reserved", "proxying", "exiting"}

Inside == [m \in Models |-> {r \in Requests : Reserved(r) /\ target[r] = m}]

\* Every reservation is given back exactly once: the count of a model is the
\* number of requests between track_request's enter and exit on it, whatever
\* was cancelled when (router.py, the enter task and tracker_cleanup).
ReservationsExact ==
  \A m \in Models : active_requests[m] = Cardinality(Inside[m])

\* A model with a reservation is the active model and is not being switched:
\* no transition starts between readiness and track_request, or before the
\* drain is over, and no reconciliation moves active_model away from it.
ReservedOnActive ==
  \A m \in Models : active_requests[m] > 0 =>
    state.active_model = m /\ state.model_states[m] = "awake"

\* After the startup pass at most one model is not believed asleep, so the
\* later passes probe one model and never see "multiple awake backends
\* observed during lifecycle reconciliation": no sequence of failed and
\* cancelled transitions leaves a second one behind.
OneUncertainModel ==
  state.startup_reconciled =>
    \A a, b \in Models : a # b =>
      "sleeping" \in {state.model_states[a], state.model_states[b]}

\* Between two holders of the lock no transition is under way, and the active
\* model, once observed, is an awake one: every exit of a transition, by
\* error, deadline or cancellation, commits it or marks the error.
SettledWhenUnlocked ==
  switch_lock = NONE =>
    /\ \A m \in Models :
         state.model_states[m] \notin {"waking", "sleeping_in_progress"}
    /\ state.startup_reconciled =>
         \A m \in Models :
           (state.active_model = m) <=> (state.model_states[m] = "awake")

\* The decision taken before the drain is still the policy's when the drain
\* ends, however long it lasted.
DecisionFresh ==
  \A r \in Requests : pc[r] = "draining" =>
    decision = Decide(Policy, state, target[r])

\* Once awaited requests have left, switching is group mutual exclusion.
Groups == INSTANCE GroupExclusion WITH
            current <- state.active_model,
            inside  <- Inside

RefinesGroupExclusion == Groups!Spec

-----------------------------------------------------------------------------
(***************************************************************************)
(* Safety over backends that change only when they are told to, and soon.  *)
(***************************************************************************)

\* After the startup pass, what the controller believes to be awake or asleep
\* is: transitions that failed half-way are behind an error, and the state
\* configured at startup was replaced by an observation.
ControllerTruthful ==
  state.startup_reconciled =>
    \A m \in Models :
      /\ state.model_states[m] = "awake" => awake[m]
      /\ state.model_states[m] = "sleeping" => ~awake[m]

\* After the startup pass two backends are never awake together
\* (policies.py: "Only one model is awake; sleep previous on every switch").
AtMostOneAwake ==
  state.startup_reconciled => \A a, b \in Models : awake[a] /\ awake[b] => a = b

\* A request runs on an awake backend, and the backend is not put to sleep
\* under it.
ServedByAwakeBackend ==
  \A r \in Requests : Reserved(r) => awake[target[r]]

-----------------------------------------------------------------------------
(***************************************************************************)
(* The always_awake_previous policy.                                       *)
(***************************************************************************)

\* docs/configuration.md: "keep already-awake models resident".  Without
\* faults no step puts an awake backend to sleep.
KeepsResident == [][\A m \in Models : awake[m] => awake'[m]]_vars

-----------------------------------------------------------------------------
(***************************************************************************)
(* Liveness.                                                               *)
(***************************************************************************)

\* A request that waits for switch_lock gets it, even while streams of other
\* models never end: each holder gives the lock up at its deadline.
LockGranted ==
  \A r \in Requests : pc[r] = "waiting" ~> pc[r] # "waiting"

\* A request cancelled while it enters the tracker ends.
CancelledEnds ==
  \A r \in Requests : r \in cancelled ~> pc[r] = "idle"

=============================================================================
