-------------------------- MODULE PoolLauncher_proofs --------------------------
(***************************************************************************)
(* Proofs about PoolLauncher, for any number of models and processes.      *)
(***************************************************************************)
EXTENDS PoolLauncher, ProcessGroups_proofs, TLAPS

LauncherTypeOK ==
  /\ child \in [Names -> Pids \cup {NONE}]
  /\ waited \in SUBSET Names
  /\ todo \in SUBSET Names
  /\ current \in Names \cup {NONE}

Reaping == {"reap", "group", "kill", "poll"}

\* Until it is reaped a leader keeps its id and its group, dead or alive.
ChildInv ==
  \A n \in Children \ waited :
    /\ Exists(child[n])
    /\ proc[child[n]].owner = "pool"
    /\ proc[child[n]].pgid = child[n]
    /\ \A m \in Children \ waited : child[m] = child[n] => m = n

PoolInv ==
  \A p \in Pids : Live(p) /\ proc[p].owner = "pool" => \E n \in Children : proc[p].pgid = child[n]

Stopped(n) == \A p \in Pids : Live(p) /\ proc[p].owner = "pool" => proc[p].pgid # child[n]

\* What each loop has reached: no leader is reaped before the last SIGTERM, and
\* what the last loop has passed is stopped and reaped.
PhaseInv ==
  /\ waited \subseteq Children
  /\ pc \notin Reaping \cup {"failed"} => waited = {}
  /\ pc = "begin" => Children = {}
  /\ pc = "next" => Children \cap todo = {}
  /\ pc \in Trying => Children \cap todo \subseteq {current}
  /\ pc \in {"terminate", "failed"} \cup Reaping => todo \subseteq Children
  /\ pc \in {"failed"} \cup Reaping => \A n \in Children \ todo : Stopped(n) /\ n \in waited
  /\ pc \in {"group", "kill", "poll"} => current \in todo
  /\ pc = "reap" => waited \cap todo = {}
  /\ pc \in Reaping => waited \cap todo \subseteq {current}
  /\ pc = "poll" => Stopped(current)
  /\ pc = "failed" => todo = {}

IInv ==
  /\ ProcTypeOK
  /\ Homogeneous
  /\ LauncherTypeOK
  /\ ChildInv
  /\ PoolInv
  /\ PhaseInv
  /\ SigtermSpared

-----------------------------------------------------------------------------

LEMMA ChildPid ==
  ASSUME LauncherTypeOK, NEW n \in Children
  PROVE  n \in Names /\ child[n] \in Pids
BY DEF LauncherTypeOK, Children

\* Steps that neither start, end nor signal a process.
LEMMA QuietStep ==
  ASSUME IInv, proc' = proc, signals' = signals, child' = child, waited' = waited,
         LauncherTypeOK', PhaseInv'
  PROVE  IInv'
<1>1. ProcTypeOK' /\ Homogeneous'
  BY DEF IInv, ProcTypeOK, Homogeneous, Exists
<1>2. ChildInv' /\ PoolInv' /\ SigtermSpared'
  BY DEF IInv, ChildInv, PoolInv, SigtermSpared, Children, Exists, Live
<1> QED BY <1>1, <1>2 DEF IInv

LEMMA PhaseKept ==
  ASSUME proc' = proc, child' = child
  PROVE  Children' = Children /\ \A n : Stopped(n)' = Stopped(n)
BY DEF Children, Stopped, Live

\* The steps of the preparation that start nothing, and its failure.
LEMMA PreparingStep ==
  ASSUME IInv,
         \/ Begin \/ Identify \/ AwaitHealth \/ PostSleep \/ ConfirmSleep \/ PostWake
         \/ ConfirmWake \/ Publish \/ Report \/ Fail \/ \E n \in Names : Locate(n)
  PROVE  IInv'
<1>1. /\ proc' = proc /\ signals' = signals /\ child' = child /\ waited' = waited
  BY DEF Begin, Identify, AwaitHealth, PostSleep, Post, ConfirmSleep, PostWake, ConfirmWake,
         Publish, Report, Fail, Locate, owned
<1>2. /\ pc \in Trying \cup {"begin", "written"}
      /\ pc' \in Trying \cup {"written", "succeeded", "refused", "terminate"}
      /\ todo' \in {todo, todo \ {current}, Children}
      /\ pc' = "terminate" => todo' = Children
      /\ pc' \in Trying => \/ pc = "begin" /\ todo' = todo
                           \/ pc = "next" /\ todo' = todo
                           \/ todo' = todo /\ current' = current /\ pc \in Trying /\ pc' # "next"
                           \/ todo' = todo \ {current} /\ pc \in Trying
      /\ current' \in Names \cup {NONE}
  BY DEF IInv, LauncherTypeOK, Begin, Identify, AwaitHealth, PostSleep, Post, ConfirmSleep,
         PostWake, ConfirmWake, Publish, Report, Fail, Locate, owned, Trying
<1>3. LauncherTypeOK'
  BY <1>1, <1>2 DEF IInv, LauncherTypeOK, Children
<1>4. PhaseInv'
  BY <1>1, <1>2, PhaseKept DEF IInv, PhaseInv, Trying, Reaping
<1> QED BY <1>1, <1>3, <1>4, QuietStep

LEMMA LaunchStep ==
  ASSUME IInv, NEW n \in Names, Launch(n)
  PROVE  IInv'
<1>1. PICK p \in Pids : StartSession(p, "pool") /\ child' = [child EXCEPT ![n] = p]
  BY DEF Launch
<1>2. /\ ProcTypeOK' /\ Homogeneous'
      /\ \A q \in Pids : q # p => proc'[q] = proc[q]
      /\ \A q \in Pids : Exists(q) => q # p /\ proc[q].pgid # p
      /\ proc'[p].status = "live" /\ proc'[p].pgid = p /\ proc'[p].owner = "pool"
  BY <1>1, SessionStarts DEF IInv, Owners
<1>3. /\ pc = "next" /\ n \in todo /\ pc' = "identify" /\ waited' = waited /\ todo' = todo
      /\ current' = n /\ signals' = signals
  BY DEF Launch
<1>4. waited = {} /\ Children \cap todo = {} /\ n \notin Children
  BY <1>3 DEF IInv, PhaseInv, Reaping
<1>5. /\ Children' = Children \cup {n}
      /\ child'[n] = p
      /\ \A m \in Children : child'[m] = child[m] /\ child[m] \in Pids
  BY <1>1, <1>4, PidsAssumption DEF Children, IInv, LauncherTypeOK
<1>6. LauncherTypeOK' /\ SigtermSpared'
  BY <1>1, <1>3 DEF IInv, LauncherTypeOK, SigtermSpared
<1>7. ChildInv'
  <2>1. \A m \in Children : /\ Exists(child[m]) /\ proc[child[m]].owner = "pool"
                            /\ proc[child[m]].pgid = child[m] /\ child[m] # p
                            /\ proc'[child[m]] = proc[child[m]]
                            /\ \A k \in Children : child[k] = child[m] => k = m
    BY <1>2, <1>4, <1>5 DEF IInv, ChildInv
  <2> QED BY <1>2, <1>3, <1>4, <1>5, <2>1 DEF ChildInv, Exists
<1>8. PoolInv'
  BY <1>2, <1>5 DEF IInv, PoolInv, Live
<1>9. PhaseInv'
  BY <1>3, <1>4, <1>5 DEF PhaseInv, Reaping, Trying
<1> QED BY <1>2, <1>6, <1>7, <1>8, <1>9 DEF IInv

\* A step of the processes that reaps no child of the launcher.
LEMMA ProcessesStep ==
  ASSUME IInv, ProcessStep, child' = child, waited' = waited,
         \A n \in Children \ waited : Exists(child[n])'
  PROVE  /\ ChildInv' /\ PoolInv' /\ Children' = Children
         /\ \A n \in Children : Stopped(n) => Stopped(n)'
<1>1. Children' = Children
  BY DEF Children
<1>2. ChildInv'
  <2> SUFFICES ASSUME NEW n \in Children \ waited
               PROVE  /\ Exists(child[n])'
                      /\ proc'[child[n]].owner = "pool"
                      /\ proc'[child[n]].pgid = child[n]
                      /\ \A m \in Children \ waited : child[m] = child[n] => m = n
    BY <1>1 DEF ChildInv, Exists
  <2>1. Incarnation(child[n])
    BY ChildPid DEF IInv, ProcessStep
  <2>2. Exists(child[n]) /\ Exists(child[n])'
    BY DEF IInv, ChildInv
  <2> QED BY <2>1, <2>2 DEF IInv, ChildInv, Incarnation
<1>3. PoolInv'
  BY <1>1 DEF IInv, PoolInv, ProcessStep, Ancestor, Live
<1>4. \A n \in Children : Stopped(n) => Stopped(n)'
  BY DEF Stopped, ProcessStep, Ancestor, Live
<1> QED BY <1>1, <1>2, <1>3, <1>4

LEMMA OthersStep ==
  ASSUME IInv, Others
  PROVE  IInv'
<1>1. ProcessStep
  BY EnvironmentStep DEF IInv, Others
<1>2. /\ child' = child /\ waited' = waited /\ pc' = pc /\ todo' = todo /\ current' = current
      /\ signals' = signals
  BY DEF Others, launcher, owned, Environment
<1>3. \A n \in Children \ waited : Exists(child[n])'
  <2> TAKE n \in Children \ waited
  <2>1. PICK q \in Pids \cap Unreaped : q = child[n] /\ Exists(q)
    BY ChildPid DEF IInv, ChildInv, Unreaped
  <2>2. Environment(Unreaped)
    BY DEF Others
  <2>3. Exists(q)'
    BY <2>1, <2>2, ChildrenKept DEF IInv
  <2> QED BY <1>2, <2>1, <2>3 DEF Exists
<1>4. /\ ChildInv' /\ PoolInv' /\ Children' = Children
      /\ \A n \in Children : Stopped(n) => Stopped(n)'
  BY <1>1, <1>2, <1>3, ProcessesStep
<1>5. PhaseInv'
  BY <1>2, <1>4 DEF IInv, PhaseInv, Reaping
<1>6. LauncherTypeOK' /\ SigtermSpared'
  BY <1>2 DEF IInv, LauncherTypeOK, SigtermSpared
<1> QED BY <1>1, <1>4, <1>5, <1>6 DEF IInv, ProcessStep

-----------------------------------------------------------------------------
(***************************************************************************)
(* The unwinding.                                                          *)
(***************************************************************************)

\* While no leader is reaped, a group named by one is the launch's own.
LEMMA TerminateStep ==
  ASSUME IInv, NEW n \in Names, TerminateGroup(n)
  PROVE  IInv'
<1>1. /\ proc' = proc /\ signals' = signals \cup Sent("SIGTERM", child[n])
      /\ pc = "terminate" /\ pc' = pc /\ n \in todo /\ todo' = todo \ {n}
      /\ child' = child /\ waited' = waited /\ current' = current
  BY DEF TerminateGroup, Terminate, owned
<1>2. n \in Children /\ waited = {}
  BY <1>1 DEF IInv, PhaseInv, Reaping
<1>3. /\ Exists(child[n]) /\ proc[child[n]].owner = "pool" /\ proc[child[n]].pgid = child[n]
      /\ child[n] \in Pids
  BY <1>2, ChildPid DEF IInv, ChildInv
<1>4. \A p \in Members(child[n]) : proc[p].owner = "pool"
  BY <1>3 DEF IInv, Homogeneous, Members, Live, Exists
<1>5. SigtermSpared'
  BY <1>1, <1>4 DEF IInv, SigtermSpared, Sent
<1>6. ProcTypeOK' /\ Homogeneous' /\ ChildInv' /\ PoolInv'
  BY <1>1 DEF IInv, ProcTypeOK, Homogeneous, ChildInv, PoolInv, Children, Exists, Live
<1>7. LauncherTypeOK' /\ PhaseInv'
  BY <1>1, PhaseKept DEF IInv, LauncherTypeOK, PhaseInv, Trying, Reaping
<1> QED BY <1>5, <1>6, <1>7 DEF IInv

LEMMA LoopStep ==
  ASSUME IInv, BeginReaping \/ WaitGroup \/ Raise
  PROVE  IInv'
<1>1. /\ proc' = proc /\ signals' = signals /\ child' = child /\ waited' = waited
      /\ current' = current
  BY DEF BeginReaping, WaitGroup, Raise, owned
<1>2. Children' = Children /\ \A n : Stopped(n)' = Stopped(n)
  BY <1>1, PhaseKept
<1>3. LauncherTypeOK' /\ PhaseInv'
  <2>1. CASE BeginReaping
    BY <1>1, <1>2, <2>1 DEF IInv, LauncherTypeOK, PhaseInv, BeginReaping, Trying, Reaping, Children
  <2>2. CASE WaitGroup
    <3>1. ~GroupHasMembers(child[current]) => Stopped(current)
      BY DEF GroupHasMembers, Members, Stopped
    <3> QED BY <1>1, <1>2, <2>2, <3>1 DEF IInv, LauncherTypeOK, PhaseInv, WaitGroup, Trying, Reaping
  <2>3. CASE Raise
    BY <1>1, <1>2, <2>3 DEF IInv, LauncherTypeOK, PhaseInv, Raise, Trying, Reaping
  <2> QED BY <2>1, <2>2, <2>3
<1> QED BY <1>1, <1>3, QuietStep

\* Reaping one leader leaves the others, whose ids are different.
LEMMA ReapStep ==
  ASSUME IInv, NEW n \in Children \ waited, Reap(child[n]),
         child' = child, waited' = waited \cup {n}
  PROVE  /\ ProcessStep /\ ChildInv' /\ PoolInv' /\ Children' = Children
         /\ \A m \in Children : Stopped(m) => Stopped(m)'
<1>1. child[n] \in Pids
  BY ChildPid DEF IInv
<1>2. ProcessStep
  BY <1>1, ExitStep DEF IInv
<1>3. Children' = Children
  BY DEF Children
<1>4. \A q \in Pids : q # child[n] => proc'[q] = proc[q]
  BY DEF Reap, IInv, ProcTypeOK
<1>5. ChildInv'
  <2> SUFFICES ASSUME NEW m \in Children \ (waited \cup {n})
               PROVE  /\ Exists(child[m])'
                      /\ proc'[child[m]].owner = "pool"
                      /\ proc'[child[m]].pgid = child[m]
                      /\ \A k \in Children \ (waited \cup {n}) : child[k] = child[m] => k = m
    BY <1>3 DEF ChildInv, Exists
  <2>1. child[m] \in Pids /\ child[m] # child[n]
    BY ChildPid DEF IInv, ChildInv
  <2>2. proc'[child[m]] = proc[child[m]]
    BY <1>4, <2>1
  <2> QED BY <2>2 DEF IInv, ChildInv, Exists
<1>6. PoolInv'
  BY <1>2, <1>3 DEF IInv, PoolInv, ProcessStep, Ancestor, Live
<1>7. \A m \in Children : Stopped(m) => Stopped(m)'
  BY <1>2 DEF Stopped, ProcessStep, Ancestor, Live
<1> QED BY <1>2, <1>3, <1>5, <1>6, <1>7

LEMMA WaitLeaderStep ==
  ASSUME IInv, NEW n \in Names, WaitLeader(n)
  PROVE  IInv'
<1>1. /\ pc = "reap" /\ pc' = "group" /\ n \in todo /\ todo' = todo /\ current' = n
      /\ child' = child /\ signals' = signals
      /\ \/ Reap(child[n]) /\ waited' = waited \cup {n}
         \/ proc' = proc /\ waited' = waited
  BY DEF WaitLeader
<1>2. n \in Children
  BY <1>1 DEF IInv, PhaseInv, Reaping
<1>3. LauncherTypeOK' /\ SigtermSpared'
  BY <1>1 DEF IInv, LauncherTypeOK, SigtermSpared
<1>4. CASE proc' = proc /\ waited' = waited
  <2>1. PhaseInv'
    BY <1>1, <1>4, PhaseKept DEF IInv, PhaseInv, Trying, Reaping
  <2> QED BY <1>1, <1>3, <1>4, <2>1, QuietStep
<1>5. CASE Reap(child[n]) /\ waited' = waited \cup {n}
  <2>1. n \notin waited
    BY <1>1, <1>2 DEF IInv, PhaseInv
  <2>2. /\ ProcessStep /\ ChildInv' /\ PoolInv' /\ Children' = Children
        /\ \A m \in Children : Stopped(m) => Stopped(m)'
    BY <1>1, <1>2, <1>5, <2>1, ReapStep
  <2>3. PhaseInv'
    BY <1>1, <1>2, <1>5, <2>2 DEF IInv, PhaseInv, Trying, Reaping
  <2> QED BY <1>3, <2>2, <2>3 DEF IInv, ProcessStep
<1> QED BY <1>1, <1>4, <1>5

LEMMA KillGroupStep ==
  ASSUME IInv, KillGroup
  PROVE  IInv'
<1>1. /\ pc = "kill" /\ pc' = "poll" /\ todo' = todo /\ current' = current
      /\ child' = child /\ waited' = waited
      /\ proc' = Killed(child[current])
      /\ signals' = signals \cup Sent("SIGKILL", child[current])
  BY DEF KillGroup, Kill, owned
<1>2. /\ ProcessStep
      /\ \A q \in Pids : Exists(q) => Exists(q)'
      /\ \A q \in Pids : Live(q)' => q \notin Members(child[current])
  BY <1>1, KilledStep DEF IInv
<1>3. \A n \in Children \ waited : Exists(child[n])'
  BY <1>1, <1>2, ChildPid DEF IInv, ChildInv, Exists
<1>4. /\ ChildInv' /\ PoolInv' /\ Children' = Children
      /\ \A n \in Children : Stopped(n) => Stopped(n)'
  BY <1>1, <1>2, <1>3, ProcessesStep
<1>5. Stopped(current)'
  <2> SUFFICES ASSUME NEW p \in Pids, Live(p)', proc'[p].pgid = child[current] PROVE FALSE
    BY <1>1 DEF Stopped, Live
  <2>1. Live(p) /\ Incarnation(p) /\ p \notin Members(child[current])
    BY <1>1, <1>2 DEF Killed, Members, ProcessStep, Live, IInv, ProcTypeOK, Processes
  <2>2. Exists(p) /\ Exists(p)'
    BY <2>1 DEF Live, Exists
  <2> QED BY <2>1, <2>2 DEF Incarnation, Members
<1>6. LauncherTypeOK' /\ PhaseInv'
  BY <1>1, <1>4, <1>5 DEF IInv, LauncherTypeOK, PhaseInv, Trying, Reaping
<1>7. SigtermSpared'
  BY <1>1 DEF IInv, SigtermSpared, Sent
<1> QED BY <1>2, <1>4, <1>6, <1>7 DEF IInv, ProcessStep

LEMMA PollStep ==
  ASSUME IInv, Poll
  PROVE  IInv'
<1>1. /\ pc = "poll" /\ pc' = "reap" /\ todo' = todo \ {current} /\ current' = NONE
      /\ child' = child /\ signals' = signals
      /\ \/ current \notin waited /\ Reap(child[current]) /\ waited' = waited \cup {current}
         \/ (current \in waited \/ Live(child[current])) /\ proc' = proc /\ waited' = waited
  BY DEF Poll
<1>2. current \in Children /\ current \in todo /\ Stopped(current)
  BY <1>1 DEF IInv, PhaseInv, Reaping
<1>3. LauncherTypeOK' /\ SigtermSpared'
  <2>1. current \in Names
    BY <1>2, ChildPid DEF IInv
  <2>2. LauncherTypeOK'
    BY <1>1, <2>1 DEF IInv, LauncherTypeOK
  <2>3. SigtermSpared'
    BY <1>1 DEF IInv, SigtermSpared
  <2> QED BY <2>2, <2>3
<1>4. CASE current \notin waited /\ Reap(child[current]) /\ waited' = waited \cup {current}
  <2>1. /\ ProcessStep /\ ChildInv' /\ PoolInv' /\ Children' = Children
        /\ \A m \in Children : Stopped(m) => Stopped(m)'
    BY <1>1, <1>2, <1>4, ReapStep
  <2>2. PhaseInv'
    BY <1>1, <1>2, <1>4, <2>1 DEF IInv, PhaseInv, Trying, Reaping
  <2> QED BY <1>3, <2>1, <2>2 DEF IInv, ProcessStep
<1>5. CASE (current \in waited \/ Live(child[current])) /\ proc' = proc /\ waited' = waited
  <2>1. current \in waited
    <3> SUFFICES ASSUME current \notin waited PROVE FALSE
      OBVIOUS
    <3>1. Live(child[current]) /\ child[current] \in Pids
      BY <1>2, <1>5, ChildPid DEF IInv
    <3>2. proc[child[current]].owner = "pool" /\ proc[child[current]].pgid = child[current]
      BY <1>2 DEF IInv, ChildInv
    <3> QED BY <1>2, <3>1, <3>2 DEF Stopped
  <2>2. PhaseInv'
    BY <1>1, <1>2, <1>5, <2>1, PhaseKept DEF IInv, PhaseInv, Trying, Reaping
  <2> QED BY <1>1, <1>3, <1>5, <2>2, QuietStep
<1> QED BY <1>1, <1>4, <1>5

LEMMA LauncherStep ==
  ASSUME IInv, [Next]_vars
  PROVE  IInv'
<1>1. ASSUME NEW n \in Names, Comply(n) PROVE IInv'
  <2>1. /\ proc' = proc /\ signals' = signals /\ child' = child /\ waited' = waited
        /\ pc' = pc /\ todo' = todo /\ current' = current
    BY <1>1 DEF Comply, launcher, owned
  <2>2. LauncherTypeOK' /\ PhaseInv'
    BY <2>1, PhaseKept DEF IInv, LauncherTypeOK, PhaseInv
  <2> QED BY <2>1, <2>2, QuietStep
<1>2. CASE UNCHANGED vars
  <2>1. /\ proc' = proc /\ signals' = signals /\ child' = child /\ waited' = waited
        /\ pc' = pc /\ todo' = todo /\ current' = current
    BY <1>2 DEF vars, launcher, owned
  <2>2. LauncherTypeOK' /\ PhaseInv'
    BY <2>1, PhaseKept DEF IInv, LauncherTypeOK, PhaseInv
  <2> QED BY <2>1, <2>2, QuietStep
<1>3. ASSUME Unwind PROVE IInv'
  BY <1>3, TerminateStep, WaitLeaderStep, LoopStep, KillGroupStep, PollStep DEF Unwind
<1> QED BY <1>1, <1>2, <1>3, PreparingStep, LaunchStep, OthersStep DEF Next

LEMMA LauncherInit ==
  ASSUME Init
  PROVE  IInv
<1>1. /\ \A p \in Pids : ~Exists(p) /\ ~Live(p)
      /\ ProcTypeOK
  BY DEF Init, NoProcesses, Exists, Live, ProcTypeOK, Processes, Owners
<1>2. Children = {}
  BY DEF Init, Children
<1> QED BY <1>1, <1>2 DEF Init, IInv, Homogeneous, LauncherTypeOK, ChildInv, PoolInv, PhaseInv,
                          SigtermSpared, Trying, Reaping

LEMMA LauncherInvariant == Spec => []IInv
<1>1. IInv /\ [Next]_vars => IInv'
  BY LauncherStep
<1> QED BY LauncherInit, <1>1, PTL DEF Spec

-----------------------------------------------------------------------------

\* SigtermSpared for any number of models and processes: prepare_pool sends
\* its SIGTERMs before it reaps any leader, so none of the ids is reused.
THEOREM SigtermReachesOwnGroups == Spec => []SigtermSpared
<1>1. IInv => SigtermSpared
  BY DEF IInv
<1> QED BY <1>1, LauncherInvariant, PTL

\* AllStopped for any number of models and processes: when prepare_pool raises,
\* nothing it started is alive and it has reaped every leader.
THEOREM FailureStopsAll == Spec => []AllStopped
<1>1. IInv => AllStopped
  <2> SUFFICES ASSUME IInv, pc = "failed"
               PROVE  /\ \A p \in Pids : Live(p) => proc[p].owner = "foreign"
                      /\ waited = Children
    BY DEF AllStopped
  <2>1. \A n \in Children : Stopped(n) /\ n \in waited
    BY DEF IInv, PhaseInv
  <2>2. waited = Children
    BY <2>1 DEF IInv, PhaseInv
  <2>3. \A p \in Pids : Live(p) => proc[p].owner # "pool"
    BY <2>1 DEF IInv, PoolInv, Stopped
  <2> QED BY <2>2, <2>3 DEF IInv, ProcTypeOK, Processes, Owners
<1> QED BY <1>1, LauncherInvariant, PTL

-----------------------------------------------------------------------------
(***************************************************************************)
(* The preparation: which backends have been put to sleep, and recorded.   *)
(***************************************************************************)

\* The startup model has been asked to wake, and all others are done.
Waking == {"wake", "publish", "written", "succeeded"}

Preparing == Trying \cup {"written", "succeeded"}

\* A model that the loop has passed sleeps, and nothing under way will wake it
\* except the POST to the startup model, which comes after the loop.
SleepInv ==
  /\ backend \in [Names -> {"awake", "asleep"}]
  /\ asked \in [Names -> {"nothing", "awake", "asleep"}]
  /\ pc = "begin" => todo = Names
  /\ pc \in Waking => todo = {}
  /\ pc \in Preparing =>
       \A n \in Names \ todo : backend[n] = "asleep" \/ (n = Startup /\ pc \in Waking)
  /\ pc \in Preparing \cup {"begin"} =>
       \A n \in Names : asked[n] = "awake" => n = Startup /\ pc \in Waking
  /\ pc \in {"wake", "publish"} /\ Startup \in Names => asked[Startup] # "asleep"
  /\ pc = "publish" /\ Startup \in Names => backend[Startup] = "awake"

\* Every process but the one that is being identified is in the record.
RecordInv ==
  /\ pc \in (Trying \ {"identify"}) \cup {"begin"} => recorded = Children
  /\ pc = "identify" => current \in Names /\ recorded \cup {current} = Children

-----------------------------------------------------------------------------

\* Steps at which no backend is asked anything, does anything or is passed.
LEMMA ServersKept ==
  ASSUME SleepInv, UNCHANGED servers,
         \/ pc' = pc /\ (pc \in Preparing \cup {"begin"} => todo' = todo)
         \/ /\ pc \in Trying \cup {"begin"} /\ todo' = todo
            /\ pc' \in {"next", "identify", "health", "sleep", "confirm"}
            /\ pc \notin Waking
         \/ pc = "publish" /\ pc' = "written" /\ todo' = todo
         \/ pc = "written" /\ pc' = "succeeded" /\ todo' = todo
         \/ pc' \notin Preparing \cup {"begin"}
  PROVE  SleepInv'
BY DEF SleepInv, servers, Preparing, Waking, Trying

LEMMA SleepStep ==
  ASSUME IInv, SleepInv, [Next]_vars
  PROVE  SleepInv'
<1>1. CASE Begin \/ Identify \/ AwaitHealth \/ Publish \/ Report \/ Fail
           \/ \E n \in Names : Launch(n) \/ Locate(n)
  <2>1. UNCHANGED servers
    BY <1>1 DEF Begin, Identify, AwaitHealth, Publish, Report, Fail, Launch, Locate
  <2>2. \/ /\ pc \in Trying \cup {"begin"} /\ todo' = todo /\ pc \notin Waking
           /\ pc' \in {"next", "identify", "health", "sleep", "confirm"}
        \/ pc = "publish" /\ pc' = "written" /\ todo' = todo
        \/ pc = "written" /\ pc' = "succeeded" /\ todo' = todo
        \/ pc' \in {"refused", "terminate"}
    BY <1>1 DEF Begin, Identify, AwaitHealth, Publish, Report, Fail, Launch, Locate, Trying, Waking
  <2> QED BY <2>1, <2>2, ServersKept DEF Preparing, Trying
<1>2. CASE Unwind
  <2>1. /\ UNCHANGED servers
        /\ pc' \in {"terminate", "reap", "group", "kill", "poll", "failed"}
    BY <1>2 DEF Unwind, TerminateGroup, WaitLeader, BeginReaping, WaitGroup, KillGroup, Poll, Raise
  <2> QED BY <2>1, ServersKept DEF Preparing, Trying
<1>3. CASE Others \/ UNCHANGED vars
  <2>1. UNCHANGED servers /\ pc' = pc /\ todo' = todo
    BY <1>3 DEF Others, vars, launcher
  <2> QED BY <2>1, ServersKept
<1>4. ASSUME NEW n \in Names, Comply(n) PROVE SleepInv'
  <2>1. /\ asked[n] # "nothing" /\ pc' = pc /\ todo' = todo
        /\ backend' = [backend EXCEPT ![n] = asked[n]]
        /\ asked' = [asked EXCEPT ![n] = "nothing"]
    BY <1>4 DEF Comply, launcher
  <2>2. /\ backend' \in [Names -> {"awake", "asleep"}]
        /\ asked' \in [Names -> {"nothing", "awake", "asleep"}]
        /\ backend'[n] = asked[n] /\ asked'[n] = "nothing" /\ asked[n] \in {"awake", "asleep"}
        /\ \A m \in Names \ {n} : backend'[m] = backend[m] /\ asked'[m] = asked[m]
    BY <2>1 DEF SleepInv
  <2>3. pc \in Preparing =>
          \A m \in Names \ todo : backend'[m] = "asleep" \/ (m = Startup /\ pc \in Waking)
    BY <2>2 DEF SleepInv
  <2> QED BY <2>1, <2>2, <2>3 DEF SleepInv
<1>5. CASE PostSleep
  <2>1. /\ pc = "sleep" /\ pc' = "confirm" /\ todo' = todo /\ backend' = backend
        /\ asked' = [asked EXCEPT ![current] = "asleep"]
    BY <1>5 DEF PostSleep, Post
  <2>2. /\ asked' \in [Names -> {"nothing", "awake", "asleep"}]
        /\ \A m \in Names : asked'[m] \in {asked[m], "asleep"}
    BY <2>1 DEF SleepInv
  <2> QED BY <2>1, <2>2 DEF SleepInv, Preparing, Waking, Trying
<1>6. CASE ConfirmSleep
  <2>1. /\ pc = "confirm" /\ pc' = "next" /\ todo' = todo \ {current}
        /\ backend[current] = "asleep" /\ backend' = backend /\ asked' = asked
    BY <1>6 DEF ConfirmSleep, servers
  <2> QED BY <2>1 DEF SleepInv, Preparing, Waking, Trying
<1>7. CASE PostWake
  <2>1. /\ pc = "next" /\ todo = {} /\ pc' = "wake" /\ todo' = todo /\ backend' = backend
        /\ asked' = [asked EXCEPT ![Startup] = "awake"] /\ Startup \in Names
    BY <1>7, StartupAssumption DEF PostWake, Post
  <2>2. /\ asked' \in [Names -> {"nothing", "awake", "asleep"}] /\ asked'[Startup] = "awake"
        /\ \A m \in Names \ {Startup} : asked'[m] = asked[m]
    BY <2>1 DEF SleepInv
  <2> QED BY <2>1, <2>2 DEF SleepInv, Preparing, Waking, Trying
<1>8. CASE ConfirmWake
  <2>1. /\ pc' = "publish" /\ todo' = todo /\ backend' = backend /\ asked' = asked
        /\ \/ pc = "wake" /\ backend[Startup] = "awake"
           \/ pc = "next" /\ todo = {} /\ Startup \notin Names
    BY <1>8, NamesAssumption DEF ConfirmWake, servers
  <2> QED BY <2>1 DEF SleepInv, Preparing, Waking, Trying
<1> QED
  BY <1>1, <1>2, <1>3, <1>4, <1>5, <1>6, <1>7, <1>8 DEF Next

LEMMA RecordStep ==
  ASSUME IInv, RecordInv, [Next]_vars
  PROVE  RecordInv'
<1>1. ASSUME NEW n \in Names, Launch(n) PROVE RecordInv'
  <2>1. PICK p \in Pids : child' = [child EXCEPT ![n] = p]
    BY <1>1 DEF Launch
  <2>2. pc = "next" /\ recorded' = recorded /\ current' = n /\ pc' = "identify"
    BY <1>1 DEF Launch
  <2>3. Children' = Children \cup {n}
    BY <2>1, PidsAssumption DEF Children, IInv, LauncherTypeOK
  <2> QED BY <2>2, <2>3 DEF RecordInv, Trying
<1>2. CASE Identify
  BY <1>2 DEF Identify, RecordInv, Trying, Children
<1>3. CASE Others \/ UNCHANGED vars \/ \E n \in Names : Comply(n)
  <2>1. pc' = pc /\ recorded' = recorded /\ child' = child /\ current' = current
    BY <1>3 DEF Others, Comply, vars, launcher, owned
  <2> QED BY <2>1 DEF RecordInv, Children
<1>4. CASE \/ Begin \/ AwaitHealth \/ PostSleep \/ ConfirmSleep \/ PostWake \/ ConfirmWake
           \/ \E n \in Names : Locate(n)
  <2>1. /\ recorded' = recorded /\ child' = child
        /\ pc \in (Trying \ {"identify"}) \cup {"begin"} /\ pc' # "identify"
    BY <1>4 DEF Begin, AwaitHealth, PostSleep, Post, ConfirmSleep, PostWake, ConfirmWake, Locate,
                owned, Trying
  <2> QED BY <2>1 DEF RecordInv, Children
<1>5. CASE Publish \/ Report \/ Fail \/ Unwind
  <2>1. pc' \notin Trying \cup {"begin"}
    BY <1>5 DEF Publish, Report, Fail, Unwind, TerminateGroup, WaitLeader, BeginReaping, WaitGroup,
                KillGroup, Poll, Raise, Trying
  <2> QED BY <2>1 DEF RecordInv, Trying
<1> QED BY <1>1, <1>2, <1>3, <1>4, <1>5 DEF Next

LEMMA PreparationInvariant == Spec => [](IInv /\ SleepInv /\ RecordInv)
<1> DEFINE PInv == IInv /\ SleepInv /\ RecordInv
<1>1. Init => PInv
  BY LauncherInit DEF Init, SleepInv, RecordInv, Children, Preparing, Waking, Trying
<1>2. PInv /\ [Next]_vars => PInv'
  BY LauncherStep, SleepStep, RecordStep
<1> QED BY <1>1, <1>2, PTL DEF Spec

-----------------------------------------------------------------------------

\* OneFootprint for any number of models and processes: of the backends that
\* prepare_pool has launched only the one it is at, or in the end the startup
\* model, is loaded and not asleep; each of the others was seen asleep.
THEOREM FootprintsDoNotCoexist == Spec => []OneFootprint
<1>1. IInv /\ SleepInv /\ RecordInv => OneFootprint
  <2> SUFFICES ASSUME IInv, SleepInv, pc \in Preparing, NEW m \in Children, NEW n \in Children,
                      backend[m] = "awake", backend[n] = "awake"
               PROVE  m = n
    BY DEF OneFootprint, Preparing
  <2>1. m \in Names /\ n \in Names
    BY DEF Children
  <2>2. CASE pc \in Waking
    BY <2>1, <2>2 DEF SleepInv
  <2>3. CASE pc \notin Waking
    <3>1. pc \in Trying /\ m \in todo /\ n \in todo
      BY <2>1, <2>3 DEF SleepInv, Preparing, Waking, Trying
    <3> QED BY <3>1 DEF IInv, PhaseInv
  <2> QED BY <2>2, <2>3
<1> QED BY <1>1, PreparationInvariant, PTL

\* PublishedPrepared for any number of models and processes: the step that
\* replaces the ownership record finds every backend asleep but the startup
\* model, which is awake, and the record names every process that was started.
THEOREM RecordsArePrepared == Spec => PublishedPrepared
<1>1. IInv /\ SleepInv /\ RecordInv /\ [Next]_vars =>
        [(file # "written" /\ file' = "written") =>
           /\ \A n \in Names : backend[n] = IF n = Startup THEN "awake" ELSE "asleep"
           /\ recorded = Children]_vars
  <2> SUFFICES ASSUME IInv, SleepInv, RecordInv, [Next]_vars, file # "written", file' = "written"
               PROVE  /\ \A n \in Names : backend[n] = IF n = Startup THEN "awake" ELSE "asleep"
                      /\ recorded = Children
    OBVIOUS
  <2>1. Publish
    BY DEF Next, Begin, Launch, Locate, Comply, Identify, AwaitHealth, PostSleep, Post, ConfirmSleep,
           PostWake, ConfirmWake, Report, Fail, Unwind, TerminateGroup, WaitLeader, BeginReaping,
           WaitGroup, KillGroup, Poll, Raise, Others, vars, launcher, owned
  <2>2. pc = "publish"
    BY <2>1 DEF Publish
  <2> QED BY <2>2 DEF SleepInv, RecordInv, Preparing, Waking, Trying
<1> QED BY <1>1, PreparationInvariant, PTL DEF Spec, PublishedPrepared

=============================================================================
