---------------------------- MODULE PoolStop_proofs ----------------------------
(***************************************************************************)
(* Proofs about PoolStop, for any number of processes, of recorded groups  *)
(* and of incarnations of a process id.                                    *)
(***************************************************************************)
EXTENDS PoolStop, ProcessGroups_proofs, TLAPS

-----------------------------------------------------------------------------
(***************************************************************************)
(* The inductive invariant.                                                *)
(***************************************************************************)

\* The command's own variables; signals are typed by what is proved of them.
CommandTypeOK ==
  /\ record \in [Names -> Identities]
  /\ self \in Pids \cup {NONE}
  /\ pc \in {"idle", "verify", "signal", "wait", "killed", "done"}
  /\ todo \in SUBSET Names
  /\ current \in Names \cup {NONE}
  /\ verified \in SUBSET Names
  /\ success \in BOOLEAN

\* The record is of the first incarnation of each leader.
RecordInv ==
  \A n \in Names :
    /\ record[n].pid \in Pids
    /\ record[n].pid = record[n].pgid
    /\ record[n].start = 1
    /\ proc[record[n].pid].start >= 1
    /\ Exists(record[n].pid) /\ proc[record[n].pid].start = 1 =>
         /\ proc[record[n].pid].owner = "pool"
         /\ proc[record[n].pid].pgid = record[n].pid

PoolInv ==
  \A p \in Pids : Live(p) /\ proc[p].owner = "pool" => \E n \in Names : proc[p].pgid = Group(n)

Stopped(n) == \A p \in Pids : Live(p) /\ proc[p].owner = "pool" => proc[p].pgid # Group(n)

\* What a loop has passed without failing is stopped.
LoopInv ==
  /\ pc = "verify" => \A n \in Names : n \notin todo /\ n \notin verified => Stopped(n)
  /\ pc = "signal" => \A n \in Names : n \notin verified => Stopped(n)
  /\ pc \in {"wait", "killed"} =>
       \A n \in Names :
         (n \notin verified \/ (n \notin todo /\ n # current /\ success)) => Stopped(n)

SelfInv ==
  /\ self = NONE => signals = {} /\ pc = "idle"
  /\ self # NONE => Live(self)
  /\ pc \in {"idle", "verify", "done"} => current = NONE
  /\ pc = "killed" => current # NONE
  /\ current # NONE => self # NONE /\ Group(current) # OwnGroup

\* Nothing happens between a verification and its signal.
VerifiedInv ==
  ~race /\ current # NONE /\ pc # "killed" => Identity(record[current].pid) \in {NONE, record[current]}

IInv ==
  /\ ProcTypeOK
  /\ Homogeneous
  /\ CommandTypeOK
  /\ RecordInv
  /\ PoolInv
  /\ LoopInv
  /\ SelfInv
  /\ VerifiedInv
  /\ SparesItself
  /\ ReusedLeaderSpared

-----------------------------------------------------------------------------

\* What the record and the processes say survives a step of the processes.
LEMMA RecordKept ==
  ASSUME IInv, ProcessStep, record' = record
  PROVE  RecordInv' /\ PoolInv' /\ \A n \in Names : Stopped(n) => Stopped(n)'
<1>1. RecordInv'
  <2> SUFFICES ASSUME NEW n \in Names
               PROVE  /\ record[n].pid \in Pids
                      /\ record[n].pid = record[n].pgid
                      /\ record[n].start = 1
                      /\ proc'[record[n].pid].start >= 1
                      /\ Exists(record[n].pid)' /\ proc'[record[n].pid].start = 1 =>
                           /\ proc'[record[n].pid].owner = "pool"
                           /\ proc'[record[n].pid].pgid = record[n].pid
    BY DEF RecordInv, Exists
  <2> DEFINE l == record[n].pid
  <2>1. /\ l \in Pids /\ l = record[n].pgid /\ record[n].start = 1 /\ proc[l].start >= 1
        /\ Exists(l) /\ proc[l].start = 1 => proc[l].owner = "pool" /\ proc[l].pgid = l
    BY DEF IInv, RecordInv
  <2>2. Incarnation(l)
    BY <2>1 DEF ProcessStep
  <2>3. proc[l].start \in Nat /\ proc'[l].start \in Nat
    BY <2>1 DEF IInv, ProcessStep, ProcTypeOK, Processes
  <2> HIDE DEF l
  <2>4. /\ proc'[l].start >= 1
        /\ Exists(l)' /\ proc'[l].start = 1 => proc'[l].owner = "pool" /\ proc'[l].pgid = l
    BY <2>1, <2>2, <2>3 DEF Incarnation
  <2> QED BY <2>1, <2>4 DEF l
<1>2. PoolInv'
  BY DEF IInv, PoolInv, ProcessStep, Ancestor, Group, Live
<1>3. \A n \in Names : Stopped(n) => Stopped(n)'
  BY DEF Stopped, ProcessStep, Ancestor, Group, Live
<1> QED BY <1>1, <1>2, <1>3

\* A group without members is stopped.
LEMMA EmptyStopped ==
  ASSUME NEW n \in Names, ~GroupHasMembers(Group(n))
  PROVE  Stopped(n)
BY DEF GroupHasMembers, Members, Stopped

\* The process of the command, which lives on, keeps its group.
LEMMA SelfKept ==
  ASSUME IInv, ProcessStep, self # NONE, Live(self)', record' = record, self' = self
  PROVE  /\ OwnGroup' = OwnGroup
         /\ \A n : Group(n)' = Group(n)
<1>1. self \in Pids /\ Live(self)
  BY DEF IInv, CommandTypeOK, SelfInv
<1>2. OwnGroup' = OwnGroup
  <2>1. Incarnation(self)
    BY <1>1 DEF ProcessStep
  <2>2. proc[self].status = "live" /\ proc'[self].status = "live"
    BY <1>1 DEF Live
  <2> QED BY <2>1, <2>2 DEF Incarnation, OwnGroup, Exists
<1>3. \A n : Group(n)' = Group(n)
  BY DEF Group
<1> QED BY <1>2, <1>3

-----------------------------------------------------------------------------

\* A step of the command that touches no process.
LEMMA QuietStep ==
  ASSUME IInv, race' = race, proc' = proc, record' = record, signals' = signals, self' = self,
         CommandTypeOK', LoopInv', SelfInv', VerifiedInv'
  PROVE  IInv'
<1>1. ProcessStep
  BY StutterStep DEF IInv
<1>2. ProcTypeOK' /\ Homogeneous' /\ RecordInv' /\ PoolInv'
  BY <1>1, RecordKept DEF ProcessStep
<1>3. SparesItself' /\ ReusedLeaderSpared'
  BY DEF IInv, SparesItself, ReusedLeaderSpared
<1> QED BY <1>2, <1>3 DEF IInv

LEMMA StoppedKept ==
  ASSUME proc' = proc, record' = record
  PROVE  /\ \A n \in Names : Stopped(n) = Stopped(n)'
         /\ \A n \in Names : VerifyOwnedGroup(n) => Group(n)' # proc'[self].pgid
         /\ \A n \in Names : VerifyOwnedGroup(n) => Identity(record[n].pid)' \in {NONE, record'[n]}
BY DEF Stopped, Live, Group, VerifyOwnedGroup, OwnGroup, Identity, Exists

LEMMA ReadRecordStep ==
  ASSUME IInv, race' = race, ReadRecord
  PROVE  IInv'
<1>1. CommandTypeOK'
  BY DEF IInv, CommandTypeOK, ReadRecord, End, Loop
<1>2. LoopInv' /\ SelfInv' /\ VerifiedInv'
  BY DEF IInv, LoopInv, SelfInv, VerifiedInv, ReadRecord, End, Loop, Live
<1> QED BY <1>1, <1>2, QuietStep DEF ReadRecord

LEMMA VerifyStep ==
  ASSUME IInv, race' = race, NEW n \in Names, Verify(n)
  PROVE  IInv'
<1>1. CommandTypeOK'
  BY DEF IInv, CommandTypeOK, Verify, End, Loop
<1>2. LoopInv'
  <2>1. CASE pc' = "done"
    BY <2>1 DEF LoopInv
  <2>2. CASE pc' # "done"
    <3>1. /\ pc' = "verify"
          /\ todo' = todo \ {n}
          /\ verified' = IF Exists(record[n].pid) \/ GroupHasMembers(Group(n))
                         THEN verified \cup {n} ELSE verified
          /\ \A m \in Names : Stopped(m) = Stopped(m)'
      BY <2>2, StoppedKept DEF Verify, End, Loop
    <3>2. n \notin verified' => Stopped(n)
      BY <3>1, EmptyStopped
    <3>3. \A m \in Names : m \notin todo /\ m \notin verified => Stopped(m)
      BY DEF IInv, LoopInv, Verify
    <3> QED BY <3>1, <3>2, <3>3 DEF LoopInv
  <2> QED BY <2>1, <2>2
<1>3. SelfInv' /\ VerifiedInv'
  BY DEF IInv, SelfInv, VerifiedInv, Verify, End, Loop, Live
<1> QED BY <1>1, <1>2, <1>3, QuietStep DEF Verify

LEMMA BeginStep ==
  ASSUME IInv, race' = race, BeginSignals \/ BeginWaits
  PROVE  IInv'
<1>1. CommandTypeOK'
  BY DEF IInv, CommandTypeOK, BeginSignals, BeginWaits, Loop
<1>2. LoopInv'
  BY StoppedKept DEF IInv, LoopInv, BeginSignals, BeginWaits, Loop
<1>3. SelfInv' /\ VerifiedInv'
  BY DEF IInv, SelfInv, VerifiedInv, BeginSignals, BeginWaits, Loop, Live
<1> QED BY <1>1, <1>2, <1>3, QuietStep DEF BeginSignals, BeginWaits

\* The two places where a group is verified before its signal.
LEMMA ReverifyStep ==
  ASSUME IInv, race' = race, NEW n \in Names, BeforeSigterm(n) \/ GroupSurvives(n)
  PROVE  IInv'
<1>1. CommandTypeOK'
  BY DEF IInv, CommandTypeOK, BeforeSigterm, GroupSurvives, Reverify, Loop
<1>2. LoopInv'
  <2>1. \A m \in Names : Stopped(m) = Stopped(m)'
    BY StoppedKept DEF BeforeSigterm, GroupSurvives, Reverify
  <2>2. CASE BeforeSigterm(n)
    BY <2>1, <2>2 DEF IInv, LoopInv, BeforeSigterm, Reverify, Loop
  <2>3. CASE GroupSurvives(n)
    BY <2>1, <2>3, NamesAssumption DEF IInv, LoopInv, GroupSurvives, Reverify, Loop
  <2> QED BY <2>2, <2>3
<1>3. SelfInv' /\ VerifiedInv'
  <2>1. /\ proc' = proc /\ record' = record /\ self' = self /\ signals' = signals
        /\ pc' = pc /\ pc' \in {"signal", "wait"}
        /\ current = NONE
        /\ \/ current' = n /\ VerifyOwnedGroup(n)
           \/ current' = NONE
    BY DEF BeforeSigterm, GroupSurvives, Reverify, Loop
  <2>2. /\ VerifyOwnedGroup(n) => Group(n)' # proc'[self].pgid
        /\ VerifyOwnedGroup(n) => Identity(record[n].pid)' \in {NONE, record'[n]}
    BY <2>1, StoppedKept
  <2>3. SelfInv'
    BY <2>1, <2>2 DEF IInv, SelfInv, Live, OwnGroup, Group
  <2>4. VerifiedInv'
    BY <2>1, <2>2 DEF VerifiedInv
  <2> QED BY <2>3, <2>4
<1> QED BY <1>1, <1>2, <1>3, QuietStep DEF BeforeSigterm, GroupSurvives, Reverify

LEMMA GroupStoppedStep ==
  ASSUME IInv, race' = race, NEW n \in Names, GroupStopped(n)
  PROVE  IInv'
<1>1. CommandTypeOK'
  BY DEF IInv, CommandTypeOK, GroupStopped, Loop
<1>2. LoopInv'
  <2>1. Stopped(n) /\ \A m \in Names : Stopped(m) = Stopped(m)'
    BY StoppedKept, EmptyStopped DEF GroupStopped
  <2> QED BY <2>1 DEF IInv, LoopInv, GroupStopped, Loop
<1>3. SelfInv' /\ VerifiedInv'
  BY DEF IInv, SelfInv, VerifiedInv, GroupStopped, Loop, Live
<1> QED BY <1>1, <1>2, <1>3, QuietStep DEF GroupStopped

LEMMA AfterSigkillStep ==
  ASSUME IInv, race' = race, AfterSigkill
  PROVE  IInv'
<1>1. CommandTypeOK'
  BY DEF IInv, CommandTypeOK, AfterSigkill, GroupHasMembers
<1>2. LoopInv'
  <2>1. \A m \in Names : Stopped(m) = Stopped(m)'
    BY StoppedKept DEF AfterSigkill
  <2>2. current \in Names /\ (success' => Stopped(current))
    BY EmptyStopped DEF IInv, CommandTypeOK, SelfInv, AfterSigkill
  <2>3. /\ pc = "killed" /\ pc' = "wait" /\ current' = NONE /\ todo' = todo /\ verified' = verified
        /\ success' => success
    BY DEF AfterSigkill
  <2>4. \A m \in Names : (m \notin verified \/ (m \notin todo /\ m # current /\ success)) => Stopped(m)
    BY <2>3 DEF IInv, LoopInv
  <2> QED BY <2>1, <2>2, <2>3, <2>4 DEF LoopInv
<1>3. SelfInv' /\ VerifiedInv'
  BY DEF IInv, SelfInv, VerifiedInv, AfterSigkill, Live
<1> QED BY <1>1, <1>2, <1>3, QuietStep DEF AfterSigkill

LEMMA EndCommandStep ==
  ASSUME IInv, race' = race, EndCommand
  PROVE  IInv'
<1>1. CommandTypeOK'
  BY DEF IInv, CommandTypeOK, EndCommand, End, Loop
<1>2. LoopInv' /\ SelfInv' /\ VerifiedInv'
  BY DEF IInv, LoopInv, SelfInv, VerifiedInv, EndCommand, End, Loop, Live
<1> QED BY <1>1, <1>2, QuietStep DEF EndCommand

-----------------------------------------------------------------------------
(***************************************************************************)
(* The steps that change processes.                                        *)
(***************************************************************************)

\* Processes change and no signal is sent.
LEMMA UnsignalledStep ==
  ASSUME IInv, race' = race, ProcessStep, signals' = signals, record' = record, self' = self,
         pc' = pc, todo' = todo, current' = current, verified' = verified, success' = success,
         self # NONE => Live(self)', race \/ current = NONE
  PROVE  IInv'
<1>1. /\ ProcTypeOK' /\ Homogeneous' /\ RecordInv' /\ PoolInv'
      /\ \A n \in Names : Stopped(n) => Stopped(n)'
  BY RecordKept DEF ProcessStep
<1>2. CommandTypeOK' /\ LoopInv'
  BY <1>1 DEF IInv, CommandTypeOK, LoopInv
<1>3. SelfInv'
  <2>1. CASE self = NONE
    BY <2>1 DEF IInv, SelfInv
  <2>2. CASE self # NONE
    <3>1. OwnGroup' = OwnGroup /\ \A n : Group(n)' = Group(n)
      BY <2>2, SelfKept
    <3>2. current # NONE => Group(current)' # OwnGroup'
      BY <3>1 DEF IInv, SelfInv
    <3> QED BY <2>2, <3>2 DEF IInv, SelfInv, Group
  <2> QED BY <2>1, <2>2
<1>4. VerifiedInv' /\ SparesItself' /\ ReusedLeaderSpared'
  BY DEF IInv, VerifiedInv, SparesItself, ReusedLeaderSpared
<1> QED BY <1>1, <1>2, <1>3, <1>4 DEF IInv

LEMMA OthersStep ==
  ASSUME IInv, race' = race, Others
  PROVE  IInv'
<1>1. ProcessStep
  BY EnvironmentStep DEF IInv, Others
<1>2. self # NONE => Live(self)'
  BY DEF Others, Live, command
<1> QED BY <1>1, <1>2, UnsignalledStep DEF Others, Environment, command

LEMMA StartCommandStep ==
  ASSUME IInv, race' = race, StartCommand
  PROVE  IInv'
<1>1. PICK p \in Pids : /\ self' = p
                        /\ \/ StartSession(p, "foreign")
                           \/ \E q \in Pids : Fork(q, p)
  BY DEF StartCommand
<1>2. ProcessStep
  BY <1>1, SessionStep, ForkStep DEF IInv
<1>3. Live(p)'
  BY <1>1 DEF StartSession, Fork, Started, Live, IInv, ProcTypeOK
<1>4. /\ ProcTypeOK' /\ Homogeneous' /\ RecordInv' /\ PoolInv'
  BY <1>2, RecordKept DEF ProcessStep, StartCommand
<1>5. /\ signals = {} /\ signals' = {} /\ pc = "idle" /\ pc' = "idle"
      /\ current = NONE /\ current' = NONE
  BY DEF StartCommand, IInv, SelfInv
<1>6. CommandTypeOK' /\ LoopInv' /\ SelfInv'
  BY <1>1, <1>3, <1>5 DEF StartCommand, IInv, CommandTypeOK, LoopInv, SelfInv, Live
<1>7. VerifiedInv' /\ SparesItself' /\ ReusedLeaderSpared'
  BY <1>5 DEF VerifiedInv, SparesItself, ReusedLeaderSpared
<1> QED BY <1>4, <1>6, <1>7 DEF IInv

\* A signal to a verified group spares the command, and a foreign process
\* that a reused id would have named.
LEMMA SignalStep ==
  ASSUME IInv, race' = race, NEW s \in {"SIGTERM", "SIGKILL"}, current # NONE, pc # "killed",
         signals' = signals \cup Sent(s, Group(current)), self' = self
  PROVE  SparesItself' /\ ReusedLeaderSpared'
<1> DEFINE g == Group(current)
<1>1. current \in Names /\ self # NONE /\ g # OwnGroup
  BY DEF IInv, SelfInv, CommandTypeOK
<1>2. \A t \in Sent(s, g) : /\ t.hit \in Members(g)
                             /\ t.owner = proc[t.hit].owner
                             /\ t.led = Exists(g)
  BY DEF Sent
<1>3. self \notin Members(g)
  BY <1>1 DEF Members, OwnGroup
<1>4. SparesItself'
  BY <1>2, <1>3 DEF IInv, SparesItself
<1>5. ASSUME ~race, Exists(g), NEW p \in Members(g) PROVE proc[p].owner = "pool"
  <2>1. /\ record[current].pid = g /\ g \in Pids
        /\ Exists(g) /\ proc[g].start = 1 => proc[g].owner = "pool" /\ proc[g].pgid = g
        /\ record[current].start = 1
    BY <1>1 DEF IInv, RecordInv, Group
  <2>2. Identity(g) = record[current]
    <3>1. Identity(g) \in {NONE, record[current]}
      BY <1>1, <1>5, <2>1 DEF IInv, VerifiedInv
    <3>2. Identity(g) \in Identities
      BY <1>5, <2>1 DEF Identity, Identities, IInv, ProcTypeOK, Processes
    <3> QED BY <3>1, <3>2, IdentityAssumption
  <2>3. proc[g].start = 1
    BY <1>5, <2>1, <2>2 DEF Identity
  <2>4. p \in Pids /\ Exists(p) /\ proc[p].pgid = g
    BY <1>5 DEF Members, Live, Exists
  <2>5. proc[g].owner = "pool" /\ proc[g].pgid = g
    BY <1>5, <2>1, <2>3
  <2> HIDE DEF g
  <2> QED BY <1>5, <2>1, <2>4, <2>5 DEF IInv, Homogeneous
<1>6. ReusedLeaderSpared'
  BY <1>2, <1>5 DEF IInv, ReusedLeaderSpared
<1> QED BY <1>4, <1>6

LEMMA SendSigtermStep ==
  ASSUME IInv, race' = race, SendSigterm
  PROVE  IInv'
<1>1. /\ proc' = proc /\ record' = record /\ self' = self /\ pc = "signal" /\ pc' = "signal"
      /\ current # NONE /\ current' = NONE /\ todo' = todo /\ verified' = verified
      /\ success' = success
      /\ signals' = signals \cup Sent("SIGTERM", Group(current))
  BY DEF SendSigterm, Terminate
<1>2. SparesItself' /\ ReusedLeaderSpared'
  BY <1>1, SignalStep
<1>3. ProcessStep
  BY <1>1, StutterStep DEF IInv
<1>4. ProcTypeOK' /\ Homogeneous' /\ RecordInv' /\ PoolInv'
  BY <1>1, <1>3, RecordKept DEF ProcessStep
<1>5. CommandTypeOK' /\ VerifiedInv'
  BY <1>1 DEF IInv, CommandTypeOK, VerifiedInv
<1>6. LoopInv'
  BY <1>1, StoppedKept DEF IInv, LoopInv
<1>7. SelfInv'
  BY <1>1 DEF IInv, SelfInv, Live
<1> QED BY <1>2, <1>4, <1>5, <1>6, <1>7 DEF IInv

LEMMA SendSigkillStep ==
  ASSUME IInv, race' = race, SendSigkill
  PROVE  IInv'
<1>1. /\ record' = record /\ self' = self /\ pc = "wait" /\ pc' = "killed"
      /\ current # NONE /\ current' = current /\ todo' = todo /\ verified' = verified
      /\ success' = success
      /\ signals' = signals \cup Sent("SIGKILL", Group(current))
      /\ proc' = Killed(Group(current))
  BY DEF SendSigkill, Kill
<1>2. SparesItself' /\ ReusedLeaderSpared'
  BY <1>1, SignalStep
<1>3. ProcessStep /\ \A q \in Pids \ Members(Group(current)) : proc'[q] = proc[q]
  BY <1>1, KilledStep DEF IInv
<1>4. /\ ProcTypeOK' /\ Homogeneous' /\ RecordInv' /\ PoolInv'
      /\ \A n \in Names : Stopped(n) => Stopped(n)'
  BY <1>1, <1>3, RecordKept DEF ProcessStep
<1>5. CommandTypeOK' /\ VerifiedInv' /\ LoopInv'
  BY <1>1, <1>4 DEF IInv, CommandTypeOK, VerifiedInv, LoopInv
<1>6. SelfInv'
  <2>1. self # NONE /\ self \in Pids /\ Live(self) /\ Group(current) # OwnGroup
    BY <1>1 DEF IInv, SelfInv, CommandTypeOK
  <2>2. proc'[self] = proc[self]
    BY <1>3, <2>1 DEF Members, OwnGroup
  <2> QED BY <1>1, <2>1, <2>2 DEF SelfInv, Live, OwnGroup, Group
<1> QED BY <1>2, <1>4, <1>5, <1>6 DEF IInv

LEMMA StopStep ==
  ASSUME IInv, [Next]_vars
  PROVE  IInv'
<1>1. CASE UNCHANGED vars
  <2>1. CommandTypeOK' /\ VerifiedInv'
    BY <1>1 DEF vars, command, IInv, CommandTypeOK, VerifiedInv, Identity, Exists
  <2>2. LoopInv'
    BY <1>1, StoppedKept DEF vars, command, IInv, LoopInv
  <2>3. SelfInv'
    BY <1>1 DEF vars, command, IInv, SelfInv, Live, OwnGroup, Group
  <2> QED BY <1>1, <2>1, <2>2, <2>3, QuietStep DEF vars, command
<1>2. CASE Next
  BY <1>2, StartCommandStep, ReadRecordStep, VerifyStep, ReverifyStep, GroupStoppedStep,
     BeginStep, SendSigtermStep, SendSigkillStep, AfterSigkillStep, EndCommandStep, OthersStep
     DEF Next
<1> QED BY <1>1, <1>2

LEMMA StopInit ==
  ASSUME Init
  PROVE  IInv
<1>1. PICK leader \in [Names -> Pids] :
        /\ proc = Launched(leader)
        /\ record = [n \in Names |-> [pid |-> leader[n], pgid |-> leader[n], start |-> 1]]
  BY DEF Init
<1>2. \A p \in Pids :
        proc[p] = IF \E n \in Names : leader[n] = p
                  THEN [status |-> "live", pgid |-> p, start |-> 1, owner |-> "pool"]
                  ELSE [status |-> "gone", pgid |-> p, start |-> 0, owner |-> "foreign"]
  BY <1>1 DEF Launched, NoProcesses
<1>3. ProcTypeOK
  BY <1>1 DEF Launched, NoProcesses, ProcTypeOK, Processes, Owners
<1>4. Homogeneous /\ PoolInv
  <2>1. \A p \in Pids : /\ proc[p].pgid = p
                        /\ Exists(p) => proc[p].owner = "pool" /\ \E n \in Names : leader[n] = p
    <3> TAKE p \in Pids
    <3>1. CASE \E n \in Names : leader[n] = p
      <4>1. proc[p] = [status |-> "live", pgid |-> p, start |-> 1, owner |-> "pool"]
        BY <1>2, <3>1
      <4> QED BY <3>1, <4>1
    <3>2. CASE ~ \E n \in Names : leader[n] = p
      <4>1. proc[p] = [status |-> "gone", pgid |-> p, start |-> 0, owner |-> "foreign"]
        BY <1>2, <3>2
      <4> QED BY <4>1 DEF Exists
    <3> QED BY <3>1, <3>2
  <2>2. \A n \in Names : Group(n) = leader[n]
    BY <1>1 DEF Group
  <2>3. Homogeneous
    BY <2>1 DEF Homogeneous
  <2>4. \A p \in Pids : Live(p) => Exists(p)
    BY DEF Live, Exists
  <2> QED BY <2>1, <2>2, <2>3, <2>4 DEF PoolInv
<1>5. RecordInv
  <2> SUFFICES ASSUME NEW n \in Names
               PROVE  /\ record[n].pid \in Pids
                      /\ record[n].pid = record[n].pgid
                      /\ record[n].start = 1
                      /\ proc[record[n].pid].start = 1
                      /\ proc[record[n].pid].owner = "pool"
                      /\ proc[record[n].pid].pgid = record[n].pid
    BY DEF RecordInv
  <2>1. record[n] = [pid |-> leader[n], pgid |-> leader[n], start |-> 1] /\ leader[n] \in Pids
    BY <1>1
  <2>2. proc[leader[n]] = [status |-> "live", pgid |-> leader[n], start |-> 1, owner |-> "pool"]
    BY <1>2, <2>1
  <2> QED BY <2>1, <2>2
<1>6. CommandTypeOK /\ LoopInv /\ SelfInv /\ VerifiedInv /\ SparesItself /\ ReusedLeaderSpared
  <2>1. record \in [Names -> Identities]
    BY <1>1 DEF Identities
  <2> QED BY <2>1 DEF Init, CommandTypeOK, LoopInv, SelfInv, VerifiedInv, SparesItself,
                      ReusedLeaderSpared
<1> QED BY <1>3, <1>4, <1>5, <1>6 DEF IInv

LEMMA StopInvariant == Spec => []IInv
<1>1. IInv /\ [Next]_vars => IInv'
  BY StopStep
<1> QED BY StopInit, <1>1, PTL DEF Spec

-----------------------------------------------------------------------------

\* SparesItself for every pool and every number of processes: the comparison
\* with os.getpgrp in _verify_owned_group keeps the command from signalling
\* itself, also when its group's id was a recorded one.
THEOREM CommandSparesItself == Spec => []SparesItself
<1>1. IInv => SparesItself
  BY DEF IInv
<1> QED BY <1>1, StopInvariant, PTL

\* ReusedLeaderSpared: the start time tells the recorded leader from any later
\* process with its id, if nothing happens between verification and signal.
THEOREM ReusedLeadersAreSpared == Spec => []ReusedLeaderSpared
<1>1. IInv => ReusedLeaderSpared
  BY DEF IInv
<1> QED BY <1>1, StopInvariant, PTL

\* RemovedOnlyWhenStopped: the ownership record goes only when no process of
\* the pool is left, descendants of dead leaders included.
THEOREM RecordOutlivesPool == Spec => RemovedOnlyWhenStopped
<1>1. IInv /\ [Next]_vars => [(file = "valid" /\ file' = "missing") => PoolProcesses = {}]_vars
  <2> SUFFICES ASSUME IInv, Next, file = "valid", file' = "missing"
               PROVE  PoolProcesses = {}
    OBVIOUS
  <2>1. EndCommand
    BY DEF Next, StartCommand, ReadRecord, Verify, BeforeSigterm, GroupStopped, GroupSurvives,
           Reverify, BeginSignals, SendSigterm, BeginWaits, SendSigkill, AfterSigkill, Others
  <2>2. pc = "wait" /\ current = NONE /\ todo = {} /\ success
    BY <2>1 DEF EndCommand
  <2>3. \A n \in Names : Stopped(n)
    BY <2>2, NamesAssumption DEF IInv, LoopInv
  <2> QED BY <2>3 DEF IInv, PoolInv, Stopped, PoolProcesses
<1> QED BY <1>1, StopInvariant, PTL DEF Spec, RemovedOnlyWhenStopped

=============================================================================
