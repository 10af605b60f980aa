------------------------------- MODULE PoolStop -------------------------------
(***************************************************************************)
(* vllm-switch-stop (scripts/stop_vllm_pool.py) over the ownership record  *)
(* of a pool that was launched some time ago.  Since then, and while the   *)
(* command runs, processes fork, exit and reuse process ids.               *)
(*                                                                         *)
(* A loop of the command is a set of the names still to be handled: it     *)
(* goes in the order of the record, any order is allowed here.  What is    *)
(* read to verify one group is read in one step; the signal that follows   *)
(* is sent in a step of its own.                                           *)
(***************************************************************************)
EXTENDS ProcessGroups

CONSTANT Names  \* the models with a process in the record

ASSUME NamesAssumption == IsFiniteSet(Names) /\ NONE \notin Names

VARIABLES
  race,      \* do processes change between a verification and its signal?
  file,      \* is the ownership record there, and can it be parsed?
  record,    \* the identities in it
  self,      \* the process of the command, NONE before it starts
  pc,        \* the loop it is in
  todo,      \* the names this loop has yet to handle
  current,   \* the name whose group is verified and is signalled next
  verified,
  success

command == <<self, pc, todo, current, verified, success>>
vars    == <<race, proc, signals, file, record, command>>

-----------------------------------------------------------------------------

TypeOK ==
  /\ ProcessTypeOK
  /\ race \in BOOLEAN
  /\ file \in {"missing", "invalid", "valid"}
  /\ record \in [Names -> Identities]
  /\ self \in Pids \cup {NONE}
  /\ pc \in {"idle", "verify", "signal", "wait", "killed", "done"}
  /\ todo \in SUBSET Names
  /\ current \in Names \cup {NONE}
  /\ verified \in SUBSET Names
  /\ success \in BOOLEAN

\* The leaders that the launcher recorded, and nothing else.
Launched(leader) ==
  [p \in Pids |->
     IF \E n \in Names : leader[n] = p
     THEN [status |-> "live", pgid |-> p, start |-> 1, owner |-> "pool"]
     ELSE NoProcesses[p]]

Init ==
  /\ race \in BOOLEAN
  /\ \E leader \in [Names -> Pids] :
       /\ \A m, n \in Names : leader[m] = leader[n] => m = n
       /\ proc = Launched(leader)
       /\ record = [n \in Names |-> [pid |-> leader[n], pgid |-> leader[n], start |-> 1]]
  /\ file \in {"missing", "invalid", "valid"}
  /\ signals = {}
  /\ self = NONE
  /\ pc = "idle"
  /\ todo = {}
  /\ current = NONE
  /\ verified = {}
  /\ success = TRUE

-----------------------------------------------------------------------------

Group(n) == record[n].pgid

\* os.getpgrp
OwnGroup == proc[self].pgid

\* Mutants of VerifyOwnedGroup: the identity is not compared; the command does
\* not look for its own group.
VerifyNumber(n) == Group(n) # OwnGroup

VerifyButOwn(n) == Identity(record[n].pid) \in {NONE, record[n]}

\* _verify_owned_group
VerifyOwnedGroup(n) ==
  /\ Identity(record[n].pid) \in {NONE, record[n]}
  /\ Group(n) # OwnGroup

Loop(place, names) ==
  /\ pc' = place
  /\ todo' = names

End(result) ==
  /\ Loop("done", {})
  /\ success' = result

-----------------------------------------------------------------------------

\* The command is started by a shell, in a group of its own or in one that
\* the shell has made for it and whose leader may have exited.
StartCommand ==
  /\ pc = "idle"
  /\ self = NONE
  /\ \E p \in Pids :
       /\ self' = p
       /\ \/ StartSession(p, "foreign")
          \/ \E q \in Pids : proc[q].owner = "foreign" /\ Fork(q, p)
  /\ UNCHANGED <<signals, file, record, pc, todo, current, verified, success>>

\* Is there a record, and can it be parsed?
ReadRecord ==
  /\ pc = "idle"
  /\ self # NONE
  /\ \/ file \in {"missing", "invalid"} /\ End(file = "missing")
     \/ file = "valid" /\ Loop("verify", Names) /\ UNCHANGED success
  /\ UNCHANGED <<proc, signals, file, record, self, current, verified>>

\* One group that cannot be verified refuses them all; groups that are gone
\* are left alone.
Verify(n) ==
  /\ pc = "verify"
  /\ n \in todo
  /\ \/ ~VerifyOwnedGroup(n) /\ End(FALSE) /\ UNCHANGED verified
     \/ /\ VerifyOwnedGroup(n)
        /\ Loop("verify", todo \ {n})
        /\ verified' = IF Exists(record[n].pid) \/ GroupHasMembers(Group(n))
                       THEN verified \cup {n} ELSE verified
        /\ UNCHANGED success
  /\ UNCHANGED <<proc, signals, file, record, self, current>>

BeginSignals ==
  /\ pc = "verify"
  /\ todo = {}
  /\ Loop("signal", verified)
  /\ UNCHANGED <<proc, signals, file, record, self, current, verified, success>>

\* The group is verified again before each signal.
Reverify(n) ==
  /\ \/ VerifyOwnedGroup(n) /\ current' = n /\ UNCHANGED success
     \/ ~VerifyOwnedGroup(n) /\ success' = FALSE /\ UNCHANGED current
  /\ UNCHANGED <<proc, signals, file, record, self, verified>>

BeforeSigterm(n) ==
  /\ pc = "signal"
  /\ current = NONE
  /\ n \in todo
  /\ Loop("signal", todo \ {n})
  /\ Reverify(n)

SendSigterm ==
  /\ pc = "signal"
  /\ current # NONE
  /\ Terminate(Group(current))
  /\ current' = NONE
  /\ UNCHANGED <<file, record, self, pc, todo, verified, success>>

BeginWaits ==
  /\ pc = "signal"
  /\ current = NONE
  /\ todo = {}
  /\ Loop("wait", verified)
  /\ UNCHANGED <<proc, signals, file, record, self, current, verified, success>>

\* wait_process_group_empty sees the group empty before timeout_s has passed.
GroupStopped(n) ==
  /\ pc = "wait"
  /\ current = NONE
  /\ n \in todo
  /\ ~GroupHasMembers(Group(n))
  /\ Loop("wait", todo \ {n})
  /\ UNCHANGED <<proc, signals, file, record, self, current, verified, success>>

\* It does not, and the group is verified again before it is killed.
GroupSurvives(n) ==
  /\ pc = "wait"
  /\ current = NONE
  /\ n \in todo
  /\ GroupHasMembers(Group(n))
  /\ Loop("wait", todo \ {n})
  /\ Reverify(n)

SendSigkill ==
  /\ pc = "wait"
  /\ current # NONE
  /\ Kill(Group(current))
  /\ pc' = "killed"
  /\ UNCHANGED <<file, record, self, todo, current, verified, success>>

\* The second wait, for the group that was killed.
AfterSigkill ==
  /\ pc = "killed"
  /\ pc' = "wait"
  /\ success' = (success /\ ~GroupHasMembers(Group(current)))
  /\ current' = NONE
  /\ UNCHANGED <<proc, signals, file, record, self, todo, verified>>

\* The record is removed only by a stop that succeeded.
EndCommand ==
  /\ pc = "wait"
  /\ current = NONE
  /\ todo = {}
  /\ End(success)
  /\ file' = IF success THEN "missing" ELSE file
  /\ UNCHANGED <<proc, signals, record, self, current, verified>>

\* Other processes, among which the command itself does not exit before it is
\* done.
Others ==
  /\ race \/ current = NONE
  /\ pc # "done"
  /\ Environment({})
  /\ self # NONE => proc'[self].status = "live"
  /\ UNCHANGED <<file, record, command>>

Next ==
  /\ \/ StartCommand
     \/ ReadRecord
     \/ \E n \in Names :
          \/ Verify(n)
          \/ BeforeSigterm(n)
          \/ GroupStopped(n)
          \/ GroupSurvives(n)
     \/ BeginSignals
     \/ SendSigterm
     \/ BeginWaits
     \/ SendSigkill
     \/ AfterSigkill
     \/ EndCommand
     \/ Others
  /\ UNCHANGED race

Spec == Init /\ [][Next]_vars

-----------------------------------------------------------------------------

PoolProcesses == {p \in Pids : Live(p) /\ proc[p].owner = "pool"}

\* A record that the command has removed describes a pool none of whose
\* processes is left, however its leaders died: a group lives on in the
\* descendants of a leader that exited first.
RemovedOnlyWhenStopped ==
  [][(file = "valid" /\ file' = "missing") => PoolProcesses = {}]_vars

\* The command never signals itself, whatever ids it and its shell were given.
SparesItself == \A s \in signals : s.hit # self

\* A recorded process id that now belongs to somebody else is not signalled,
\* as long as nothing happens between a verification and its signal.
ReusedLeaderSpared == ~race => \A s \in signals : s.owner = "foreign" => ~s.led

\* docs/architecture.md:158-159: "Shutdown signals a complete verified process
\* group and fails closed if a numeric PID/PGID was reused."  Also where nothing
\* happens between a verification and its signal.
ForeignSpared == ~race => \A s \in signals : s.owner # "foreign"

=============================================================================
