----------------------------- MODULE ProcessGroups -----------------------------
(***************************************************************************)
(* Linux processes and process groups as far as the launcher and the stop  *)
(* command depend on them, and controller/processes.py, which reads them.  *)
(*                                                                         *)
(* The processes are external.  A process id is given out again when no    *)
(* process has it and no process group is named by it; the start time      *)
(* tells the processes that had an id apart, and is here their number.  A  *)
(* process that has exited is a zombie until its parent has reaped it.     *)
(* SIGTERM may be ignored, so a process that dies of it exits by itself;   *)
(* SIGKILL may not.                                                        *)
(***************************************************************************)
EXTENDS Naturals, FiniteSets

CONSTANTS
  Pids,       \* the process ids
  NONE,       \* no process
  MaxStarts   \* bounds on the processes that have each id, one after the other

ASSUME PidsAssumption   == NONE \notin Pids
ASSUME StartsAssumption == MaxStarts \in [Pids -> Nat \ {0}]

VARIABLES
  proc,   \* the process table
  signals \* the signals sent so far, with whom they reached

-----------------------------------------------------------------------------

\* A pool process descends from a launch command, all others are foreign.
Owners == {"pool", "foreign"}

Processes ==
  [status : {"gone", "live", "zombie"},
   pgid   : Pids,
   start  : Nat,
   owner  : Owners]

\* Who was hit by which signal, and whether the group's leader was there.
Signals == [signal : {"SIGTERM", "SIGKILL"}, hit : Pids, owner : Owners, led : BOOLEAN]

ProcessTypeOK ==
  /\ proc \in [Pids -> Processes]
  /\ signals \in SUBSET Signals

Exists(p) == proc[p].status # "gone"

Live(p) == proc[p].status = "live"

Members(g) == {p \in Pids : Live(p) /\ proc[p].pgid = g}

\* Mutant of GroupHasMembers: only the leader is looked at.
LeaderLives(g) == Live(g)

\* process_group_has_members
GroupHasMembers(g) == Members(g) # {}

\* read_process_identity: a zombie can still be read.
Identity(p) ==
  IF Exists(p) THEN [pid |-> p, pgid |-> proc[p].pgid, start |-> proc[p].start] ELSE NONE

Identities == [pid : Pids, pgid : Pids, start : Nat]

ASSUME IdentityAssumption == NONE \notin Identities

NoProcesses ==
  [p \in Pids |-> [status |-> "gone", pgid |-> p, start |-> 0, owner |-> "foreign"]]

-----------------------------------------------------------------------------

Free(p) ==
  /\ \A q \in Pids : Exists(q) => q # p /\ proc[q].pgid # p
  /\ proc[p].start < MaxStarts[p]

Started(p, g, owner) ==
  [status |-> "live", pgid |-> g, start |-> proc[p].start + 1, owner |-> owner]

\* A process p in a session of its own.
StartSession(p, owner) ==
  /\ Free(p)
  /\ proc' = [proc EXCEPT ![p] = Started(p, p, owner)]

Fork(p, q) ==
  /\ Live(p)
  /\ Free(q)
  /\ proc' = [proc EXCEPT ![q] = Started(q, proc[p].pgid, proc[p].owner)]

Exit(p) ==
  /\ Live(p)
  /\ proc' = [proc EXCEPT ![p].status = "zombie"]

Reaped(p) ==
  [status |-> "gone", pgid |-> p, start |-> proc[p].start, owner |-> "foreign"]

Reap(p) ==
  /\ proc[p].status = "zombie"
  /\ proc' = [proc EXCEPT ![p] = Reaped(p)]

\* What other processes do while a command runs, which alone can reap the
\* processes in children.
Environment(children) ==
  /\ \/ \E p \in Pids : StartSession(p, "foreign") \/ Exit(p)
     \/ \E p, q \in Pids : Fork(p, q)
     \/ \E p \in Pids \ children : Reap(p)
  /\ UNCHANGED signals

-----------------------------------------------------------------------------

Sent(s, g) ==
  {[signal |-> s, hit |-> p, owner |-> proc[p].owner, led |-> Exists(g)] : p \in Members(g)}

\* os.killpg.  A group that is gone raises ProcessLookupError, which the
\* callers ignore.
Terminate(g) ==
  /\ signals' = signals \cup Sent("SIGTERM", g)
  /\ UNCHANGED proc

Killed(g) ==
  [p \in Pids |-> IF p \in Members(g) THEN [proc[p] EXCEPT !.status = "zombie"] ELSE proc[p]]

Kill(g) ==
  /\ signals' = signals \cup Sent("SIGKILL", g)
  /\ proc' = Killed(g)

=============================================================================
