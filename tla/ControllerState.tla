--------------------------- MODULE ControllerState ---------------------------
(***************************************************************************)
(* The in-memory lifecycle state of the controller (controller/state.py,   *)
(* class ControllerState), as a record, and the mark_* methods that change *)
(* it, as operators from record to record: the router calls several of     *)
(* them between two awaits, and such a sequence is one step.               *)
(* The switching policies (controller/policies.py) are here too, they are  *)
(* pure functions of this state.                                           *)
(***************************************************************************)

CONSTANTS
  Models,   \* the configured aliases, config.models
  NONE      \* Python's None

ASSUME ModelsAssumption == NONE \notin Models

-----------------------------------------------------------------------------

ModelState ==
  {"unknown", "awake", "sleeping", "waking", "sleeping_in_progress", "error"}

ControllerStates ==
  [active_model       : Models \cup {NONE},
   model_states       : [Models -> ModelState],
   startup_reconciled : BOOLEAN]

\* Mutant of FromModels: the configured state is taken for an observation.
FromModelsTrusted(startup) ==
  [active_model       |-> startup,
   model_states       |-> [m \in Models |-> IF startup = m THEN "awake" ELSE "sleeping"],
   startup_reconciled |-> TRUE]

\* ControllerState.from_models: the configured state, not yet an observation.
FromModels(startup) ==
  [active_model       |-> startup,
   model_states       |-> [m \in Models |-> IF startup = NONE THEN "unknown"
                                            ELSE IF m = startup THEN "awake"
                                            ELSE "sleeping"],
   startup_reconciled |-> FALSE]

MarkAwake(s, m) ==
  [s EXCEPT !.model_states[m] = "awake", !.active_model = m]

MarkSleeping(s, m) ==
  [s EXCEPT !.model_states[m] = "sleeping",
            !.active_model = IF @ = m THEN NONE ELSE @]

MarkWaking(s, m) == [s EXCEPT !.model_states[m] = "waking"]

MarkSleepingInProgress(s, m) ==
  [s EXCEPT !.model_states[m] = "sleeping_in_progress"]

MarkError(s, m) ==
  [s EXCEPT !.model_states[m] = "error",
            !.active_model = IF @ = m THEN NONE ELSE @]

\* mark_error on every element of a set, the loop after a reconciliation
\* that observed several awake backends.
MarkErrors(s, S) ==
  [s EXCEPT !.model_states = [m \in Models |-> IF m \in S THEN "error" ELSE @[m]],
            !.active_model = IF @ \in S THEN NONE ELSE @]

\* Mutant of UnsafeModels: a failed transition is not observed again.
UnsafeModelsButErrors(s) ==
  {m \in Models :
     s.model_states[m] \in {"unknown", "waking", "sleeping_in_progress"}}

\* The aliases whose real state must be observed before the next transition.
UnsafeModels(s) ==
  {m \in Models :
     s.model_states[m] \in {"error", "unknown", "waking", "sleeping_in_progress"}}

-----------------------------------------------------------------------------
(***************************************************************************)
(* SwitchDecision.  Both policies put at most one model in sleep_models,   *)
(* so the list is that model or NONE.                                      *)
(***************************************************************************)

Decisions ==
  [sleep_model              : Models \cup {NONE},
   wake_model               : Models \cup {NONE},
   wait_for_active_requests : BOOLEAN]

Decision(sleep, wake, wait) ==
  [sleep_model |-> sleep, wake_model |-> wake, wait_for_active_requests |-> wait]

NoSwitch == Decision(NONE, NONE, FALSE)

AlwaysSleepPrevious(s, target) ==
  IF s.active_model = target /\ s.model_states[target] = "awake"
  THEN NoSwitch
  ELSE IF s.active_model \in {NONE, target}
  THEN Decision(NONE, target, FALSE)
  ELSE Decision(s.active_model, target, TRUE)

\* AlwaysAwakePreviousPolicy.decide delegates to the other policy.
AlwaysAwakePrevious(s, target) == AlwaysSleepPrevious(s, target)

\* make_policy(name).decide
Decide(policy, s, target) ==
  IF policy = "always_sleep_previous"
  THEN AlwaysSleepPrevious(s, target)
  ELSE AlwaysAwakePrevious(s, target)

=============================================================================
