----------------------------- MODULE CachedCleanup -----------------------------
(***************************************************************************)
(* CancellationResistantCleanup and wait_task_resisting_cancellation       *)
(* (controller/router.py): a cleanup that several owners may call, that    *)
(* runs in an asyncio task of its own, and whose callers, however often    *)
(* they are cancelled, wait for its end.                                   *)
(*                                                                         *)
(* Nothing separates the check for a cached task from its creation, so a   *)
(* call up to its first await is one step.  A cancellation reaches a       *)
(* caller at its await: the shield passes it to the caller, not to the     *)
(* task, and the caller notes it and waits again.  It may still arrive     *)
(* when the task is finished and the caller has not yet been resumed.      *)
(***************************************************************************)
EXTENDS Naturals

CONSTANT Callers  \* the owners of the cleanup, each calls it at most once

VARIABLES
  task,    \* CancellationResistantCleanup._task
  starts,  \* how many times the coroutine _cleanup() was made a task
  caller,  \* where each caller is, or how its call ended
  noted    \* the callers whose local "cancellation" is set

cleanupVars == <<task, starts, caller, noted>>

-----------------------------------------------------------------------------

TaskStates == {"none", "running", "done", "failed"}

Finished == task \in {"done", "failed"}

CallerStates == {"out", "waiting", "returned", "cancelled", "raised"}

Ended(c) == caller[c] \in {"returned", "cancelled", "raised"}

CleanupTypeOK ==
  /\ task \in TaskStates
  /\ starts \in Nat
  /\ caller \in [Callers -> CallerStates]
  /\ noted \in SUBSET Callers

CleanupInit ==
  /\ task = "none"
  /\ starts = 0
  /\ caller = [c \in Callers |-> "out"]
  /\ noted = {}

-----------------------------------------------------------------------------

\* Mutant of Outcome: a noted cancellation is not raised.
OutcomeDeaf(c) == IF task = "failed" THEN "raised" ELSE "returned"

\* How a call ends: task.result() raises the error of the cleanup, and only
\* then is a noted cancellation raised.
Outcome(c) ==
  IF task = "failed" THEN "raised" ELSE IF c \in noted THEN "cancelled" ELSE "returned"

\* Mutant of Call: every caller starts a cleanup of its own.
CallUncached(c) ==
  /\ caller[c] = "out"
  /\ task' = "running"
  /\ starts' = starts + 1
  /\ caller' = [caller EXCEPT ![c] = "waiting"]
  /\ UNCHANGED noted

\* The first caller makes the task.  A finished one is not awaited.
Call(c) ==
  /\ caller[c] = "out"
  /\ \/ /\ task = "none"
        /\ task' = "running"
        /\ starts' = starts + 1
        /\ caller' = [caller EXCEPT ![c] = "waiting"]
     \/ /\ task = "running"
        /\ caller' = [caller EXCEPT ![c] = "waiting"]
        /\ UNCHANGED <<task, starts>>
     \/ /\ Finished
        /\ caller' = [caller EXCEPT ![c] = Outcome(c)]
        /\ UNCHANGED <<task, starts>>
  /\ UNCHANGED noted

\* A cancellation is delivered to a caller.
Cancel(c) ==
  /\ caller[c] = "waiting"
  /\ noted' = noted \cup {c}
  /\ UNCHANGED <<task, starts, caller>>

\* Mutant of Resume: a cancelled caller does not wait for the task again.
ResumeImpatient(c) ==
  /\ caller[c] = "waiting"
  /\ Finished \/ c \in noted
  /\ caller' = [caller EXCEPT ![c] = Outcome(c)]
  /\ UNCHANGED <<task, starts, noted>>

Resume(c) ==
  /\ caller[c] = "waiting"
  /\ Finished
  /\ caller' = [caller EXCEPT ![c] = Outcome(c)]
  /\ UNCHANGED <<task, starts, noted>>

\* The cleanup coroutine returns or raises.
Finish(ending) ==
  /\ task = "running"
  /\ task' = ending
  /\ UNCHANGED <<starts, caller, noted>>

CleanupNext ==
  \/ \E c \in Callers : Call(c) \/ Cancel(c) \/ Resume(c)
  \/ \E ending \in {"done", "failed"} : Finish(ending)

CleanupSpec == CleanupInit /\ [][CleanupNext]_cleanupVars

-----------------------------------------------------------------------------

\* However many owners call, the teardown is started once
\* (docs/architecture.md: "one cached teardown operation, which makes exit
\* exactly once even when cancellation is repeated").
StartedOnce == starts <= 1

\* No owner goes on, by returning or by raising its cancellation, before the
\* teardown is over.
NoOwnerLeavesEarly == \A c \in Callers : Ended(c) => Finished

\* An owner learns of a failed teardown even if it was cancelled, and a
\* cancellation is not lost when the teardown succeeds.
OutcomeFaithful ==
  \A c \in Callers :
    /\ Ended(c) /\ task = "failed" => caller[c] = "raised"
    /\ caller[c] = "returned" => c \notin noted

=============================================================================
