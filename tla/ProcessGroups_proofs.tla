-------------------------- MODULE ProcessGroups_proofs --------------------------
(***************************************************************************)
(* What every step of the processes preserves, for any number of them: who *)
(* a process is, and that the members of a group have one owner.           *)
(***************************************************************************)
EXTENDS ProcessGroups, TLAPS

ProcTypeOK == proc \in [Pids -> Processes]

\* A process group is not shared by two owners.
Homogeneous ==
  \A p, q \in Pids :
    (Exists(p) /\ Exists(q) /\ proc[p].pgid = proc[q].pgid) => proc[p].owner = proc[q].owner

\* What a step does to one process: a process stays who it is, and an id is
\* given out to a later incarnation only when it is free.
Incarnation(q) ==
  /\ proc'[q].start >= proc[q].start
  /\ Exists(q) /\ Exists(q)' => /\ proc'[q].pgid = proc[q].pgid
                                /\ proc'[q].owner = proc[q].owner
                                /\ proc'[q].start = proc[q].start
  /\ ~Exists(q) /\ Exists(q)' => proc'[q].start > proc[q].start

\* A live pool process has an ancestor in its group.
Ancestor(q) ==
  (Live(q) /\ proc[q].owner = "pool")' =>
    \E r \in Pids : Live(r) /\ proc[r].owner = "pool" /\ proc[r].pgid = proc'[q].pgid

ProcessStep ==
  /\ ProcTypeOK'
  /\ Homogeneous'
  /\ \A q \in Pids : Incarnation(q) /\ Ancestor(q)

-----------------------------------------------------------------------------

\* StartSession at a free id.
LEMMA SessionStarts ==
  ASSUME ProcTypeOK, Homogeneous, NEW p \in Pids, NEW owner \in Owners, StartSession(p, owner)
  PROVE  /\ ProcTypeOK' /\ Homogeneous'
         /\ \A q \in Pids : Incarnation(q)
         /\ \A q \in Pids : q # p => proc'[q] = proc[q]
         /\ \A q \in Pids : Exists(q) => q # p /\ proc[q].pgid # p
         /\ proc'[p].status = "live" /\ proc'[p].pgid = p /\ proc'[p].owner = owner
<1>1. /\ \A q \in Pids : q # p => proc'[q] = proc[q]
      /\ proc'[p] = Started(p, p, owner)
      /\ proc' = [proc EXCEPT ![p] = Started(p, p, owner)]
  BY DEF StartSession, ProcTypeOK
<1>2. /\ ~Exists(p)
      /\ \A q \in Pids : Exists(q) => proc[q].pgid # p
      /\ proc[p].start \in Nat
      /\ proc[p].start + 1 \in Nat
  BY DEF StartSession, Free, ProcTypeOK, Processes
<1>3. /\ Started(p, p, owner) \in Processes
      /\ Started(p, p, owner).status = "live"
      /\ Started(p, p, owner).pgid = p
      /\ Started(p, p, owner).owner = owner
      /\ Started(p, p, owner).start = proc[p].start + 1
  BY <1>2 DEF Started, Processes, Owners
<1>4. ProcTypeOK'
  BY <1>1, <1>3 DEF ProcTypeOK
<1>5. Homogeneous'
  BY <1>1, <1>2, <1>3 DEF Homogeneous, Exists
<1>6. \A q \in Pids : Incarnation(q)
  BY <1>1, <1>2, <1>3 DEF Incarnation, Exists, ProcTypeOK, Processes
<1> QED BY <1>1, <1>2, <1>3, <1>4, <1>5, <1>6

LEMMA SessionStep ==
  ASSUME ProcTypeOK, Homogeneous, NEW p \in Pids, StartSession(p, "foreign")
  PROVE  ProcessStep
<1>1. /\ ProcTypeOK' /\ Homogeneous'
      /\ \A q \in Pids : Incarnation(q)
      /\ \A q \in Pids : q # p => proc'[q] = proc[q]
      /\ proc'[p].owner = "foreign"
  BY SessionStarts DEF Owners
<1>2. \A q \in Pids : Ancestor(q)
  BY <1>1 DEF Ancestor, Live
<1> QED BY <1>1, <1>2 DEF ProcessStep

\* A fork stays in its parent's group, with its parent's owner.
LEMMA ForkStep ==
  ASSUME ProcTypeOK, Homogeneous, NEW p \in Pids, NEW q \in Pids, Fork(p, q)
  PROVE  ProcessStep
<1>1. /\ \A r \in Pids : r # q => proc'[r] = proc[r]
      /\ proc'[q] = Started(q, proc[p].pgid, proc[p].owner)
      /\ proc' = [proc EXCEPT ![q] = Started(q, proc[p].pgid, proc[p].owner)]
  BY DEF Fork, ProcTypeOK
<1>2. /\ ~Exists(q)
      /\ Live(p)
      /\ proc[p] \in Processes
      /\ proc[q].start \in Nat
      /\ proc[q].start + 1 \in Nat
  BY DEF Fork, Free, ProcTypeOK, Processes
<1>3. /\ Started(q, proc[p].pgid, proc[p].owner) \in Processes
      /\ Started(q, proc[p].pgid, proc[p].owner).status = "live"
      /\ Started(q, proc[p].pgid, proc[p].owner).pgid = proc[p].pgid
      /\ Started(q, proc[p].pgid, proc[p].owner).owner = proc[p].owner
      /\ Started(q, proc[p].pgid, proc[p].owner).start = proc[q].start + 1
  BY <1>2 DEF Started, Processes, Owners
<1>4. ProcTypeOK'
  BY <1>1, <1>3 DEF ProcTypeOK
<1>5. Homogeneous'
  BY <1>1, <1>2, <1>3 DEF Homogeneous, Exists, Live
<1>6. \A r \in Pids : Incarnation(r) /\ Ancestor(r)
  BY <1>1, <1>2, <1>3 DEF Incarnation, Ancestor, Exists, Live, ProcTypeOK, Processes
<1> QED BY <1>4, <1>5, <1>6 DEF ProcessStep

\* The steps that start nothing: exits, signals, reaping.
LEMMA EndingStep ==
  ASSUME ProcTypeOK, Homogeneous, ProcTypeOK',
         \A q \in Pids : /\ Exists(q)' => /\ Exists(q)
                                          /\ proc'[q].pgid = proc[q].pgid
                                          /\ proc'[q].owner = proc[q].owner
                         /\ Live(q)' => Live(q)
                         /\ proc'[q].start = proc[q].start
  PROVE  ProcessStep
<1>1. Homogeneous'
  BY DEF Homogeneous
<1>2. \A q \in Pids : Incarnation(q) /\ Ancestor(q)
  BY DEF Incarnation, Ancestor, Exists, Live, ProcTypeOK, Processes
<1> QED BY <1>1, <1>2 DEF ProcessStep

LEMMA ExitStep ==
  ASSUME ProcTypeOK, Homogeneous, NEW p \in Pids, Exit(p) \/ Reap(p)
  PROVE  ProcessStep
<1>1. CASE Exit(p)
  <2>1. proc' = [proc EXCEPT ![p] = [proc[p] EXCEPT !.status = "zombie"]]
    BY <1>1 DEF Exit
  <2>2. ProcTypeOK'
    BY <2>1 DEF ProcTypeOK, Processes
  <2>3. \A q \in Pids : /\ q # p => proc'[q] = proc[q]
                        /\ proc'[q].pgid = proc[q].pgid
                        /\ proc'[q].owner = proc[q].owner
                        /\ proc'[q].start = proc[q].start
    BY <2>1 DEF ProcTypeOK, Processes
  <2>4. proc[p].status = "live" /\ proc'[p].status = "zombie"
    BY <1>1, <2>1 DEF Exit, Live, ProcTypeOK, Processes
  <2>5. \A q \in Pids : (Exists(q)' => Exists(q)) /\ (Live(q)' => Live(q))
    BY <2>3, <2>4 DEF Exists, Live
  <2> QED BY <2>2, <2>3, <2>5, EndingStep
<1>2. CASE Reap(p)
  <2>1. proc' = [proc EXCEPT ![p] = Reaped(p)]
    BY <1>2 DEF Reap
  <2>2. /\ Reaped(p) \in Processes
        /\ Reaped(p).status = "gone"
        /\ Reaped(p).start = proc[p].start
    BY DEF Reaped, ProcTypeOK, Processes, Owners
  <2>3. ProcTypeOK'
    BY <2>1, <2>2 DEF ProcTypeOK
  <2> QED BY <2>1, <2>2, <2>3, EndingStep DEF Exists, Live, ProcTypeOK
<1> QED BY <1>1, <1>2

LEMMA EnvironmentStep ==
  ASSUME ProcTypeOK, Homogeneous, NEW children, Environment(children)
  PROVE  ProcessStep
BY SessionStep, ForkStep, ExitStep DEF Environment

\* Nobody but their parent reaps the children.
LEMMA ChildrenKept ==
  ASSUME ProcTypeOK, NEW children, Environment(children), NEW q \in Pids \cap children, Exists(q)
  PROVE  Exists(q)'
<1>1. ASSUME NEW p \in Pids, StartSession(p, "foreign") \/ Exit(p) PROVE Exists(q)'
  BY <1>1 DEF StartSession, Exit, Exists, Live, Started, ProcTypeOK, Processes
<1>2. ASSUME NEW p \in Pids, NEW r \in Pids, Fork(p, r) PROVE Exists(q)'
  BY <1>2 DEF Fork, Exists, Started, ProcTypeOK, Processes
<1>3. ASSUME NEW p \in Pids \ children, Reap(p) PROVE Exists(q)'
  BY <1>3 DEF Reap, Exists, ProcTypeOK, Processes
<1> QED BY <1>1, <1>2, <1>3 DEF Environment

LEMMA KilledStep ==
  ASSUME ProcTypeOK, Homogeneous, NEW g, proc' = Killed(g)
  PROVE  /\ ProcessStep
         /\ \A q \in Pids \ Members(g) : proc'[q] = proc[q]
         /\ \A q \in Pids : Exists(q) => Exists(q)'
         /\ \A q \in Pids : Live(q)' => q \notin Members(g)
<1>1. \A q \in Pids : proc'[q] = IF q \in Members(g) THEN [proc[q] EXCEPT !.status = "zombie"]
                                 ELSE proc[q]
  BY DEF Killed
<1>2. ProcTypeOK'
  BY DEF Killed, ProcTypeOK, Processes
<1>3. \A q \in Pids : /\ proc'[q].pgid = proc[q].pgid
                      /\ proc'[q].owner = proc[q].owner
                      /\ proc'[q].start = proc[q].start
                      /\ Exists(q)' => Exists(q)
                      /\ Live(q)' => Live(q)
  BY <1>1 DEF ProcTypeOK, Processes, Members, Exists, Live
<1>4. ProcessStep
  BY <1>2, <1>3, EndingStep
<1>5. \A q \in Pids : (Exists(q) => Exists(q)') /\ (Live(q)' => q \notin Members(g))
  BY <1>1 DEF ProcTypeOK, Processes, Exists, Live
<1> QED BY <1>1, <1>4, <1>5

LEMMA StutterStep ==
  ASSUME ProcTypeOK, Homogeneous, proc' = proc
  PROVE  ProcessStep
BY EndingStep DEF ProcTypeOK, Exists, Live

=============================================================================
