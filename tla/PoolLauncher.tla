----------------------------- MODULE PoolLauncher -----------------------------
(***************************************************************************)
(* vllm-switch-launch (prepare_pool of scripts/launch_vllm_pool.py): it    *)
(* starts the backends one by one, each in a process group of its own,     *)
(* puts each to sleep before the next is started, wakes the startup model  *)
(* and publishes the ownership record.  Whatever fails on the way unwinds  *)
(* it: every group it started is signalled, waited for and killed.         *)
(*                                                                         *)
(* The launcher goes through the models in the order of the configuration; *)
(* any order is allowed here.  A POST that was answered may take effect    *)
(* later, which is why the launcher polls.  Every failure (an exception, a *)
(* deadline, a cancellation at an await) is one nondeterministic action.   *)
(***************************************************************************)
EXTENDS ProcessGroups

CONSTANTS
  Names,    \* the configured models
  Startup   \* startup_awake_model, or NONE

ASSUME NamesAssumption   == IsFiniteSet(Names) /\ NONE \notin Names
ASSUME StartupAssumption == Startup \in Names \cup {NONE}

VARIABLES
  existing, \* the models whose backend is not launched, only located
  backend,  \* is the backend of each model asleep?
  asked,    \* the state that a POST under way will bring it to
  file,     \* the ownership record
  recorded, \* process_records
  child,    \* processes: the leader started for each model
  waited,   \* the models whose leader has been reaped
  pc,
  todo,     \* the models that the current loop has yet to handle
  current   \* the model it is at

owned    == <<file, recorded, child, waited>>
launcher == <<owned, pc, todo, current>>
servers  == <<backend, asked>>
vars     == <<proc, signals, existing, servers, launcher>>

-----------------------------------------------------------------------------

\* Where prepare_pool can be inside its try statement.
Trying == {"next", "identify", "health", "sleep", "confirm", "wake", "publish"}

TypeOK ==
  /\ ProcessTypeOK
  /\ existing \in SUBSET Names
  /\ backend \in [Names -> {"awake", "asleep"}]
  /\ asked \in [Names -> {"nothing", "awake", "asleep"}]
  /\ file \in {"missing", "older", "written"}
  /\ recorded \in SUBSET Names
  /\ child \in [Names -> Pids \cup {NONE}]
  /\ waited \in SUBSET Names
  /\ pc \in Trying \cup {"begin", "written", "terminate", "reap", "group", "kill", "poll",
                         "succeeded", "failed", "refused"}
  /\ todo \in SUBSET Names
  /\ current \in Names \cup {NONE}

Children == {n \in Names : child[n] # NONE}

\* Only the launcher can reap these, so their ids are not given out again.
Unreaped == {child[n] : n \in Children \ waited}

Init ==
  /\ proc = NoProcesses
  /\ signals = {}
  /\ existing \in SUBSET Names
  /\ backend = [n \in Names |-> "awake"]
  /\ asked = [n \in Names |-> "nothing"]
  /\ file \in {"missing", "older"}
  /\ recorded = {}
  /\ child = [n \in Names |-> NONE]
  /\ waited = {}
  /\ pc = "begin"
  /\ todo = Names
  /\ current = NONE

-----------------------------------------------------------------------------

\* The record of an earlier launch goes first.  When it cannot be removed
\* nothing is started.
Begin ==
  /\ pc = "begin"
  /\ \/ pc' = "next" /\ file' = "missing"
     \/ pc' = "refused" /\ UNCHANGED file
  /\ UNCHANGED <<proc, signals, existing, servers, recorded, child, waited, todo, current>>

\* subprocess.Popen in a session of its own, and processes.append
Launch(n) ==
  /\ pc = "next"
  /\ n \in todo \ existing
  /\ \E p \in Pids :
       /\ StartSession(p, "pool")
       /\ child' = [child EXCEPT ![n] = p]
  /\ current' = n
  /\ pc' = "identify"
  /\ UNCHANGED <<signals, existing, servers, file, recorded, waited, todo>>

Identify ==
  /\ pc = "identify"
  /\ Identity(child[current]) # NONE
  /\ Identity(child[current]).pgid = child[current]
  /\ recorded' = recorded \cup {current}
  /\ pc' = "health"
  /\ UNCHANGED <<proc, signals, existing, servers, file, child, waited, todo, current>>

Locate(n) ==
  /\ pc = "next"
  /\ n \in todo \cap existing
  /\ current' = n
  /\ pc' = "health"
  /\ UNCHANGED <<proc, signals, existing, servers, owned, todo>>

\* An answer comes from the model's URL.  wait_health, post and
\* wait_sleep_state look at nothing but the URL; that for a launched model it is the
\* living leader that answers, and no server that was left on its port, is an
\* assumption about the environment.
Serves(n) == n \in existing \/ (child[n] # NONE /\ Live(child[n]))

\* Mutant of AwaitHealth: it also looks whether the process has exited, which
\* reaps it.
AwaitHealthPolling ==
  \/ /\ pc = "health"
     /\ Serves(current)
     /\ pc' = "sleep"
     /\ UNCHANGED <<proc, waited, todo, current>>
     /\ UNCHANGED <<signals, existing, servers, file, recorded, child>>
  \/ /\ pc = "health"
     /\ current \in Children
     /\ Reap(child[current])
     /\ waited' = waited \cup {current}
     /\ pc' = "terminate"
     /\ todo' = Children
     /\ UNCHANGED <<signals, existing, servers, file, recorded, child, current>>

\* wait_health
AwaitHealth ==
  /\ pc = "health"
  /\ Serves(current)
  /\ pc' = "sleep"
  /\ UNCHANGED <<proc, signals, existing, servers, owned, todo, current>>

\* post
Post(n, state) ==
  /\ Serves(n)
  /\ asked' = [asked EXCEPT ![n] = state]
  /\ UNCHANGED <<proc, signals, existing, backend, owned>>

PostSleep ==
  /\ pc = "sleep"
  /\ Post(current, "asleep")
  /\ pc' = "confirm"
  /\ UNCHANGED <<todo, current>>

\* Mutant of ConfirmSleep: the answer to the POST is believed.
ConfirmSleepUnpolled ==
  /\ pc = "confirm"
  /\ pc' = "next"
  /\ todo' = todo \ {current}
  /\ current' = NONE
  /\ UNCHANGED <<proc, signals, existing, servers, owned>>

\* wait_sleep_state after /sleep, and on to the next model
ConfirmSleep ==
  /\ pc = "confirm"
  /\ Serves(current)
  /\ backend[current] = "asleep"
  /\ pc' = "next"
  /\ todo' = todo \ {current}
  /\ current' = NONE
  /\ UNCHANGED <<proc, signals, existing, servers, owned>>

PostWake ==
  /\ pc = "next"
  /\ todo = {}
  /\ Startup # NONE
  /\ Post(Startup, "awake")
  /\ pc' = "wake"
  /\ UNCHANGED <<todo, current>>

\* Mutant of ConfirmWake: the answer to the POST is believed.
ConfirmWakeUnpolled ==
  /\ \/ pc = "wake"
     \/ pc = "next" /\ todo = {} /\ Startup = NONE
  /\ pc' = "publish"
  /\ UNCHANGED <<proc, signals, existing, servers, owned, todo, current>>

ConfirmWake ==
  /\ \/ pc = "wake" /\ Serves(Startup) /\ backend[Startup] = "awake"
     \/ pc = "next" /\ todo = {} /\ Startup = NONE
  /\ pc' = "publish"
  /\ UNCHANGED <<proc, signals, existing, servers, owned, todo, current>>

\* The record is written to a temporary file, which replaces the record.
Publish ==
  /\ pc = "publish"
  /\ file' = "written"
  /\ pc' = "written"
  /\ UNCHANGED <<proc, signals, existing, servers, recorded, child, waited, todo, current>>

\* The message that follows is still inside the try statement.
Report ==
  /\ pc = "written"
  /\ \/ pc' = "succeeded" /\ UNCHANGED <<todo, current>>
     \/ pc' = "terminate" /\ todo' = Children /\ current' = NONE
  /\ UNCHANGED <<proc, signals, existing, servers, owned>>

-----------------------------------------------------------------------------

\* except BaseException
Fail ==
  /\ pc \in Trying
  /\ pc' = "terminate"
  /\ todo' = Children
  /\ current' = NONE
  /\ UNCHANGED <<proc, signals, existing, servers, owned>>

TerminateGroup(n) ==
  /\ pc = "terminate"
  /\ n \in todo
  /\ Terminate(child[n])
  /\ todo' = todo \ {n}
  /\ UNCHANGED <<existing, servers, owned, pc, current>>

BeginReaping ==
  /\ pc = "terminate"
  /\ todo = {}
  /\ pc' = "reap"
  /\ todo' = Children
  /\ UNCHANGED <<proc, signals, existing, servers, owned, current>>

\* Mutant of WaitLeader: process.wait()
WaitLeaderForever(n) ==
  /\ pc = "reap"
  /\ n \in todo
  /\ Reap(child[n])
  /\ waited' = waited \cup {n}
  /\ pc' = "group"
  /\ current' = n
  /\ UNCHANGED <<signals, existing, servers, file, recorded, child, todo>>

\* process.wait(timeout=5) reaps the leader, or gives it up while it lives.
WaitLeader(n) ==
  /\ pc = "reap"
  /\ n \in todo
  /\ \/ Reap(child[n]) /\ waited' = waited \cup {n}
     \/ Live(child[n]) /\ UNCHANGED <<proc, waited>>
  /\ pc' = "group"
  /\ current' = n
  /\ UNCHANGED <<signals, existing, servers, file, recorded, child, todo>>

\* wait_process_group_empty
WaitGroup ==
  /\ pc = "group"
  /\ pc' = IF GroupHasMembers(child[current]) THEN "kill" ELSE "poll"
  /\ UNCHANGED <<proc, signals, existing, servers, owned, todo, current>>

KillGroup ==
  /\ pc = "kill"
  /\ Kill(child[current])
  /\ pc' = "poll"
  /\ UNCHANGED <<existing, servers, owned, todo, current>>

\* process.poll() reaps a leader that process.wait has given up.
Poll ==
  /\ pc = "poll"
  /\ \/ /\ current \notin waited
        /\ Reap(child[current])
        /\ waited' = waited \cup {current}
     \/ /\ current \in waited \/ Live(child[current])
        /\ UNCHANGED <<proc, waited>>
  /\ pc' = "reap"
  /\ todo' = todo \ {current}
  /\ current' = NONE
  /\ UNCHANGED <<signals, existing, servers, file, recorded, child>>

\* raise
Raise ==
  /\ pc = "reap"
  /\ todo = {}
  /\ pc' = "failed"
  /\ UNCHANGED <<proc, signals, existing, servers, owned, todo, current>>

Unwind ==
  \/ \E n \in Names : TerminateGroup(n) \/ WaitLeader(n)
  \/ BeginReaping
  \/ WaitGroup
  \/ KillGroup
  \/ Poll
  \/ Raise

-----------------------------------------------------------------------------

Ended == pc \in {"succeeded", "failed", "refused"}

\* A backend does what it was asked to.
Comply(n) ==
  /\ ~Ended
  /\ Serves(n)
  /\ asked[n] # "nothing"
  /\ backend' = [backend EXCEPT ![n] = asked[n]]
  /\ asked' = [asked EXCEPT ![n] = "nothing"]
  /\ UNCHANGED <<proc, signals, existing, launcher>>

Others ==
  /\ ~Ended
  /\ Environment(Unreaped)
  /\ UNCHANGED <<existing, servers, launcher>>

Next ==
  \/ Begin
  \/ \E n \in Names : Launch(n) \/ Locate(n) \/ Comply(n)
  \/ Identify
  \/ AwaitHealth
  \/ PostSleep
  \/ ConfirmSleep
  \/ PostWake
  \/ ConfirmWake
  \/ Publish
  \/ Report
  \/ Fail
  \/ Unwind
  \/ Others

Spec == Init /\ [][Next]_vars

\* Every wait of the unwinding has a timeout.
FairSpec == Spec /\ WF_vars(Unwind)

-----------------------------------------------------------------------------

\* docs/operations.md:22-23: "A partial failure terminates and reaps all
\* process groups created by that invocation": the descendants of a leader
\* that died early as well, and groups that ignore SIGTERM.
AllStopped ==
  pc = "failed" =>
    /\ \A p \in Pids : Live(p) => proc[p].owner = "foreign"
    /\ waited = Children

\* The SIGTERM of the unwinding reaches only processes of this launch, although
\* a leader may have died long before: its id is not free until it is reaped.
SigtermSpared == \A s \in signals : s.signal = "SIGTERM" => s.owner = "pool"

\* "The sequential sequence lets models initialize even when their awake
\* footprints cannot coexist" (docs/architecture.md:150-151): of the backends
\* that were launched, at most one is loaded and not asleep.
OneFootprint ==
  \A m, n \in Children :
    (/\ pc \in Trying \cup {"written", "succeeded"}
     /\ \A k \in {m, n} : backend[k] = "awake" /\ Members(child[k]) # {}) => m = n

\* The record is published when every backend was seen asleep and the startup
\* model awake, and it names every process that was started.
PublishedPrepared ==
  [][(file # "written" /\ file' = "written") =>
       /\ \A n \in Names : backend[n] = IF n = Startup THEN "awake" ELSE "asleep"
       /\ recorded = Children]_vars

\* The unwinding ends, whatever the processes ignore.
UnwindingEnds == (pc = "terminate") ~> (pc = "failed")

=============================================================================
