----------------------------- MODULE Awaits_proofs -----------------------------
(***************************************************************************)
(* Proofs about the components that are about awaits under cancellations   *)
(* and timeouts: CachedCleanup, LifecycleCall, and StreamOwnership, which  *)
(* has two cached cleanups and is one request of ModelSwitch in detail.    *)
(***************************************************************************)
EXTENDS CachedCleanup, LifecycleCall, StreamOwnership, TLAPS

(***************************************************************************)
(* CachedCleanup, for any set of callers.                                  *)
(***************************************************************************)

\* The number of starts follows the task, and a caller has ended only when the
\* task has: by its result, which no later step changes.
StartsInv == starts = IF task = "none" THEN 0 ELSE 1

TeardownInv ==
  /\ CleanupTypeOK
  /\ StartsInv
  /\ NoOwnerLeavesEarly
  /\ OutcomeFaithful

-----------------------------------------------------------------------------

\* How a call ends once the task is over.
LEMMA OutcomeEnds ==
  ASSUME NEW c \in Callers, Finished
  PROVE  /\ Outcome(c) \in {"returned", "cancelled", "raised"}
         /\ task = "failed" => Outcome(c) = "raised"
         /\ Outcome(c) = "returned" => c \notin noted
BY DEF Outcome, Finished

\* A call, a cancellation and a resumption concern one caller; the end of the
\* task none.
LEMMA CleanupStep ==
  ASSUME TeardownInv, [CleanupNext]_cleanupVars
  PROVE  TeardownInv'
<1>1. ASSUME NEW c \in Callers, Call(c) PROVE TeardownInv'
  <2>1. CASE task = "none"
    <3>1. /\ task' = "running" /\ starts' = 1 /\ noted' = noted
          /\ caller' = [caller EXCEPT ![c] = "waiting"]
      BY <1>1, <2>1 DEF Call, Finished, TeardownInv, StartsInv
    <3> QED BY <3>1, <2>1 DEF TeardownInv, CleanupTypeOK, StartsInv, NoOwnerLeavesEarly, OutcomeFaithful,
                              TaskStates, CallerStates, Ended, Finished
  <2>2. CASE task = "running"
    <3>1. /\ task' = task /\ starts' = starts /\ noted' = noted
          /\ caller' = [caller EXCEPT ![c] = "waiting"]
      BY <1>1, <2>2 DEF Call, Finished
    <3> QED BY <3>1, <2>2 DEF TeardownInv, CleanupTypeOK, StartsInv, NoOwnerLeavesEarly, OutcomeFaithful,
                              TaskStates, CallerStates, Ended, Finished
  <2>3. CASE Finished
    <3>1. /\ task' = task /\ starts' = starts /\ noted' = noted
          /\ caller' = [caller EXCEPT ![c] = Outcome(c)]
      BY <1>1, <2>3 DEF Call, Finished
    <3> QED BY <3>1, <2>3, OutcomeEnds DEF TeardownInv, CleanupTypeOK, StartsInv, NoOwnerLeavesEarly,
                              OutcomeFaithful, TaskStates, CallerStates, Ended, Finished
  <2> QED BY <2>1, <2>2, <2>3 DEF TeardownInv, CleanupTypeOK, TaskStates, Finished
<1>2. ASSUME NEW c \in Callers, Cancel(c) PROVE TeardownInv'
  BY <1>2 DEF Cancel, TeardownInv, CleanupTypeOK, StartsInv, NoOwnerLeavesEarly, OutcomeFaithful,
              CallerStates, Ended, Finished
<1>3. ASSUME NEW c \in Callers, Resume(c) PROVE TeardownInv'
  BY <1>3, OutcomeEnds DEF Resume, TeardownInv, CleanupTypeOK, StartsInv, NoOwnerLeavesEarly,
              OutcomeFaithful, CallerStates, Ended, Finished
<1>4. ASSUME NEW ending \in {"done", "failed"}, Finish(ending) PROVE TeardownInv'
  BY <1>4 DEF Finish, TeardownInv, CleanupTypeOK, StartsInv, NoOwnerLeavesEarly, OutcomeFaithful,
              TaskStates, Ended, Finished
<1>5. CASE UNCHANGED cleanupVars
  BY <1>5 DEF cleanupVars, TeardownInv, CleanupTypeOK, StartsInv, NoOwnerLeavesEarly, OutcomeFaithful,
              Ended, Finished
<1> QED BY <1>1, <1>2, <1>3, <1>4, <1>5 DEF CleanupNext

LEMMA CleanupInvariant == CleanupSpec => []TeardownInv
<1>1. CleanupInit => TeardownInv
  BY DEF CleanupInit, TeardownInv, CleanupTypeOK, StartsInv, NoOwnerLeavesEarly, OutcomeFaithful,
         TaskStates, CallerStates, Ended, Finished
<1>2. TeardownInv /\ [CleanupNext]_cleanupVars => TeardownInv'
  BY CleanupStep
<1> QED BY <1>1, <1>2, PTL DEF CleanupSpec

-----------------------------------------------------------------------------

\* StartedOnce for any number of owners: the cleanup of
\* CancellationResistantCleanup.__call__ is started at most once.
THEOREM TeardownStartsOnce == CleanupSpec => []StartedOnce
<1>1. TeardownInv => StartedOnce
  BY DEF TeardownInv, StartsInv, StartedOnce
<1> QED BY <1>1, CleanupInvariant, PTL

\* NoOwnerLeavesEarly and OutcomeFaithful for any number of owners:
\* wait_task_resisting_cancellation returns only when the task is over, with
\* its error or the noted cancellation.
THEOREM OwnersWaitForTeardown == CleanupSpec => [](NoOwnerLeavesEarly /\ OutcomeFaithful)
<1>1. TeardownInv => NoOwnerLeavesEarly /\ OutcomeFaithful
  BY DEF TeardownInv
<1> QED BY <1>1, CleanupInvariant, PTL

-----------------------------------------------------------------------------
(***************************************************************************)
(* LifecycleCall, for any timeouts and any interval between two polls.     *)
(***************************************************************************)

\* How many of the task's cancellations a timeout has asked for.
Own(layer) == IF layer \in expired THEN 1 ELSE 0

\* Until the call ends, the task counts the cancellations from outside and one
\* for each expired timeout, and those are all around the await.
Underway ==
  /\ result = NONE
  /\ expired \subseteq Around
  /\ cancelling = cancels + Own("router") + Own("client") + Own("poll")

\* The clock has not passed the deadline, which the client's timeout sees at
\* whatever await the call is; an outcome is decided once, by the step that ends
\* the call.
CallInv ==
  /\ timeout \in Nat
  /\ now \in Nat
  /\ cancels \in Nat
  /\ pc # "ended" => Underway
  /\ EndsByDeadline
  /\ LatencyKept
  /\ CancellationWins

\* An exception by its fields.
Flight(kind, lat, recorded, count) ==
  [kind |-> kind, latency |-> lat, recorded |-> recorded, count |-> count]

\* What each place on the way outward makes of it.
LEMMA Clauses ==
  ASSUME NEW kind, NEW lat, NEW recorded, NEW count
  PROVE  /\ \A layer : TimeoutExit(layer, Flight(kind, lat, recorded, count)) =
              IF layer \notin expired THEN Flight(kind, lat, recorded, count)
              ELSE Flight(IF kind = "cancelled" /\ count - 1 <= 0 THEN "timeout" ELSE kind,
                          lat, recorded, count - 1)
         /\ PollExcept(Flight(kind, lat, recorded, count)) =
              Flight(IF kind = "timeout" THEN "client" ELSE kind, lat, recorded, count)
         /\ \A m : kind = "cancelled" =>
              ClientExcept(Flight(kind, lat, recorded, count), m) = Flight(kind, lat, recorded, count)
         /\ \A m : kind = "timeout" =>
              ClientExcept(Flight(kind, lat, recorded, count), m) = Flight("client", m, recorded, count)
         /\ \A m : kind = "client" /\ lat = NONE =>
              ClientExcept(Flight(kind, lat, recorded, count), m) = Flight("client", m, recorded, count)
         /\ RouterExcept(Flight(kind, lat, recorded, count)) =
              Flight(IF kind = "timeout" THEN "client" ELSE kind, lat, lat, count)
<1> DEFINE f == Flight(kind, lat, recorded, count)
<1>1. ASSUME NEW layer
      PROVE  TimeoutExit(layer, f) =
               IF layer \notin expired THEN f
               ELSE Flight(IF kind = "cancelled" /\ count - 1 <= 0 THEN "timeout" ELSE kind,
                           lat, recorded, count - 1)
  BY DEF TimeoutExit, Flight
<1>2. PollExcept(f) = Flight(IF kind = "timeout" THEN "client" ELSE kind, lat, recorded, count)
  BY DEF PollExcept, Flight
<1>3. ASSUME NEW m, kind = "cancelled" PROVE ClientExcept(f, m) = f
  BY <1>3 DEF ClientExcept, Flight
<1>4. ASSUME NEW m, kind = "timeout" PROVE ClientExcept(f, m) = Flight("client", m, recorded, count)
  BY <1>4 DEF ClientExcept, Flight
<1>5. ASSUME NEW m, kind = "client", lat = NONE
      PROVE  ClientExcept(f, m) = Flight("client", m, recorded, count)
  BY <1>5 DEF ClientExcept, Flight
<1>6. RouterExcept(f) = Flight(IF kind = "timeout" THEN "client" ELSE kind, lat, lat, count)
  BY DEF RouterExcept, Flight
<1> QED BY <1>1, <1>2, <1>3, <1>4, <1>5, <1>6, Zenon

\* A client's error is nobody's cancellation: it meets no expired timeout, and
\* gets the latency that was measured.
LEMMA FailureOutside ==
  ASSUME ~Interrupted, NEW measured
  PROVE  Outward(Raise("client"), measured) =
           Flight("client", measured, IF routed THEN measured ELSE NONE, cancelling)
<1>1. expired = {}
  BY DEF Interrupted
<1>2. Raise("client") = Flight("client", NONE, NONE, cancelling)
  BY DEF Raise, Flight
<1> DEFINE polled == IF pc = "poll" THEN PollExcept(TimeoutExit("poll", Raise("client")))
                     ELSE Raise("client")
           raised == ClientExcept(TimeoutExit("client", polled), measured)
<1>3. polled = Flight("client", NONE, NONE, cancelling)
  BY <1>1, <1>2, Clauses
<1>4. raised = Flight("client", measured, NONE, cancelling)
  BY <1>1, <1>3, Clauses
<1>5. Outward(Raise("client"), measured) =
        IF routed THEN RouterExcept(TimeoutExit("router", raised)) ELSE raised
  BY DEF Outward
<1> HIDE DEF raised
<1>6. TimeoutExit("router", raised) = raised
  BY <1>1, <1>4, Clauses
<1>7. RouterExcept(raised) = Flight("client", measured, measured, cancelling)
  BY <1>4, Clauses
<1> QED BY <1>4, <1>5, <1>6, <1>7

\* An interrupted await: the timeouts take back their cancellations one by one,
\* and the last of them makes an error if there are no others.
LEMMA InterruptOutside ==
  ASSUME Underway, Interrupted, cancels \in Nat, NEW out,
         out = Outward(Raise("cancelled"), latency)
  PROVE  /\ out.count = cancels
         /\ out.kind = IF cancels > 0 THEN "cancelled" ELSE "client"
         /\ cancels = 0 /\ "router" \notin expired =>
              out.latency = latency /\ (routed => out.recorded = latency)
<1> DEFINE n == Own("router") + Own("client")
<1>1. /\ Own("router") \in Nat /\ Own("client") \in Nat /\ Own("poll") \in Nat
      /\ cancelling = cancels + Own("router") + Own("client") + Own("poll")
  BY DEF Own, Underway
<1>2. Raise("cancelled") = Flight("cancelled", NONE, NONE, cancelling)
  BY DEF Raise, Flight
<1> DEFINE polled == IF pc = "poll" THEN PollExcept(TimeoutExit("poll", Raise("cancelled")))
                     ELSE Raise("cancelled")
           raised == ClientExcept(TimeoutExit("client", polled), latency)
<1>3. polled = Flight(IF cancels + n > 0 THEN "cancelled" ELSE "client", NONE, NONE, cancels + n)
  <2>1. CASE "poll" \in expired
    <3>1. pc = "poll" /\ Own("poll") = 1
      BY <2>1 DEF Own, Underway, Around
    <3>2. TimeoutExit("poll", Raise("cancelled")) =
            Flight(IF cancels + n <= 0 THEN "timeout" ELSE "cancelled", NONE, NONE, cancels + n)
      BY <1>1, <1>2, <2>1, <3>1, Clauses
    <3> QED BY <1>1, <3>1, <3>2, Clauses
  <2>2. CASE "poll" \notin expired
    <3>1. cancelling = cancels + n /\ cancelling > 0
      <4>1. \/ "router" \in expired \/ "client" \in expired \/ cancels > 0
        BY <2>2 DEF Interrupted, Underway, Around
      <4> QED BY <1>1, <2>2, <4>1 DEF Own
    <3>2. TimeoutExit("poll", Raise("cancelled")) = Raise("cancelled")
      BY <1>2, <2>2, Clauses
    <3> QED BY <1>2, <3>1, <3>2, Clauses
  <2> QED BY <2>1, <2>2
<1> HIDE DEF polled
<1>4. raised = IF cancels + Own("router") > 0
               THEN Flight("cancelled", NONE, NONE, cancels + Own("router"))
               ELSE Flight("client", latency, NONE, 0)
  <2>1. CASE "client" \in expired
    <3>1. Own("client") = 1
      BY <2>1 DEF Own
    <3>2. TimeoutExit("client", polled) =
            Flight(IF cancels + Own("router") <= 0 THEN "timeout" ELSE "cancelled",
                   NONE, NONE, cancels + Own("router"))
      BY <1>1, <1>3, <2>1, <3>1, Clauses
    <3> QED BY <1>1, <3>2, Clauses
  <2>2. CASE "client" \notin expired
    <3>1. n = Own("router") /\ TimeoutExit("client", polled) = polled
      BY <1>1, <1>3, <2>2, Clauses DEF Own
    <3> QED BY <1>1, <1>3, <3>1, Clauses
  <2> QED BY <2>1, <2>2
<1>5. out = IF routed THEN RouterExcept(TimeoutExit("router", raised)) ELSE raised
  BY DEF Outward, polled
<1> HIDE DEF raised
<1>6. CASE "router" \in expired
  <2>1. routed /\ Own("router") = 1
    BY <1>6 DEF Own, Underway, Around
  <2>2. TimeoutExit("router", raised) =
          Flight(IF cancels <= 0 THEN "timeout" ELSE "cancelled", NONE, NONE, cancels)
    BY <1>1, <1>4, <1>6, <2>1, Clauses
  <2>3. out = Flight(IF cancels <= 0 THEN "client" ELSE "cancelled", NONE, NONE, cancels)
    BY <1>5, <2>1, <2>2, Clauses
  <2> QED BY <1>6, <2>3 DEF Flight
<1>7. CASE "router" \notin expired
  <2>1. Own("router") = 0
    BY <1>7 DEF Own
  <2>2. raised = IF cancels > 0 THEN Flight("cancelled", NONE, NONE, cancels)
                 ELSE Flight("client", latency, NONE, 0)
    BY <1>1, <1>4, <2>1
  <2>3. TimeoutExit("router", raised) = raised
    BY <1>7, <2>2, Clauses
  <2>4. RouterExcept(raised) = IF cancels > 0 THEN Flight("cancelled", NONE, NONE, cancels)
                               ELSE Flight("client", latency, latency, 0)
    BY <2>2, Clauses
  <2> QED BY <1>5, <2>2, <2>3, <2>4 DEF Flight
<1> QED BY <1>6, <1>7

\* A call that is not interrupted ends by itself, in "ok" or in an error of the
\* client, with the latency.
LEMMA EndsByItself ==
  ASSUME CallInv, NEW outcome, End(outcome), ~Interrupted, pc # "ended",
         outcome.kind \in {"ok", "client"}, outcome.latency = latency',
         routed => outcome.recorded = latency', outcome.count = cancelling,
         UNCHANGED <<timeout, routed, now, expired, cancels>>
  PROVE  CallInv'
<1>1. cancels = 0 /\ cancelling = 0
  BY DEF Interrupted, CallInv, Underway, Own
<1> QED BY <1>1 DEF End, CallInv, EndsByDeadline, LatencyKept, CancellationWins

\* So it does in particular when the client fails.
LEMMA FailsByItself ==
  ASSUME CallInv, NEW measured, Fail(measured), measured = latency', ~Interrupted, pc # "ended",
         UNCHANGED <<timeout, routed, now, expired, cancels>>
  PROVE  CallInv'
<1> DEFINE out == Outward(Raise("client"), measured)
<1>1. End(out)
  BY DEF Fail
<1>2. out = Flight("client", measured, IF routed THEN measured ELSE NONE, cancelling)
  BY FailureOutside
<1> HIDE DEF out
<1>3. /\ out.kind = "client" /\ out.latency = measured /\ out.count = cancelling
      /\ routed => out.recorded = measured
  BY <1>2 DEF Flight
<1> QED BY <1>1, <1>3, EndsByItself

\* A call that goes on has no outcome yet.
LEMMA GoesOn ==
  ASSUME CallInv, pc # "ended", pc' # "ended", UNCHANGED timeout, Underway',
         now' \in Nat, now' <= timeout, cancels' \in Nat
  PROVE  CallInv'
BY DEF CallInv, EndsByDeadline, LatencyKept, CancellationWins

\* Nothing has expired and nobody has cancelled it: it may go on at any await.
LEMMA GoesOnTo ==
  ASSUME CallInv, NEW place \in {"post", "poll", "pause"}, GoOn(place), ~Interrupted, pc # "ended",
         UNCHANGED <<timeout, now, expired, cancels>>
  PROVE  CallInv'
<1>1. Underway'
  BY DEF CallInv, Underway, Own, GoOn, Interrupted
<1> QED BY <1>1, GoesOn DEF GoOn, CallInv, EndsByDeadline

LEMMA CallStep ==
  ASSUME CallInv, [CallNext]_callVars
  PROVE  CallInv'
<1>1. CASE Execute
  BY <1>1 DEF Execute, CallInv, Underway, Own, Around, EndsByDeadline, LatencyKept, CancellationWins,
              interruptVars
<1>2. CASE PostAnswered
  <2>1. CASE timeout > 0
    BY <1>2, <2>1, GoesOnTo DEF PostAnswered, Awaiting
  <2>2. CASE ~(timeout > 0)
    BY <1>2, <2>2, FailsByItself DEF PostAnswered, Awaiting
  <2> QED BY <2>1, <2>2
<1>3. CASE CallFails
  BY <1>3, FailsByItself DEF CallFails, Awaiting
<1>4. CASE PollAgrees
  <2>1. /\ Returned.kind = "ok" /\ Returned.latency = latency /\ Returned.count = cancelling
        /\ routed => Returned.recorded = latency
    BY DEF Returned
  <2> QED BY <1>4, <2>1, EndsByItself DEF PollAgrees, Awaiting
<1>5. CASE PollDisagrees
  <2>1. CASE now < PollDeadline
    BY <1>5, <2>1, GoesOnTo DEF PollDisagrees, Awaiting
  <2>2. CASE ~(now < PollDeadline)
    BY <1>5, <2>2, FailsByItself DEF PollDisagrees, Awaiting
  <2> QED BY <2>1, <2>2
<1>6. CASE PauseEnds
  <2>1. CASE now < PollDeadline
    BY <1>6, <2>1, GoesOnTo DEF PauseEnds, Awaiting
  <2>2. CASE ~(now < PollDeadline)
    BY <1>6, <2>2, FailsByItself DEF PauseEnds, Awaiting
  <2> QED BY <2>1, <2>2
<1>7. ASSUME NEW layer \in Layers, Expire(layer) PROVE CallInv'
  <2>1. /\ layer \in Around \ expired /\ expired' = expired \cup {layer}
        /\ cancelling' = cancelling + 1 /\ pc # "ended"
        /\ UNCHANGED <<timeout, routed, now, pc, cancels, result>>
    BY <1>7 DEF Expire, Due
  <2>2. cancelling' = cancels' + Own("router")' + Own("client")' + Own("poll")'
    BY <1>7, <2>1 DEF Layers, Own, CallInv, Underway
  <2>3. Underway'
    BY <2>1, <2>2 DEF Underway, CallInv, Around
  <2> QED BY <2>1, <2>3, GoesOn DEF CallInv, EndsByDeadline
<1>8. CASE CancelTask
  <2>1. Underway' /\ cancels' \in Nat
    BY <1>8 DEF CancelTask, CallInv, Underway, Own, Around
  <2> QED BY <1>8, <2>1, GoesOn DEF CancelTask, CallInv, EndsByDeadline
<1>9. CASE Interrupt
  <2> DEFINE out == Outward(Raise("cancelled"), latency)
  <2>1. Underway /\ Interrupted /\ cancels \in Nat
    BY <1>9 DEF Interrupt, CallInv
  <2>2. /\ out.count = cancels
        /\ out.kind = IF cancels > 0 THEN "cancelled" ELSE "client"
        /\ cancels = 0 /\ "router" \notin expired =>
             out.latency = latency /\ (routed => out.recorded = latency)
    BY <2>1, InterruptOutside
  <2>3. /\ pc' = "ended" /\ result' = out /\ cancelling' = out.count
        /\ UNCHANGED <<timeout, routed, now, latency, expired, cancels>>
    BY <1>9 DEF Interrupt, End
  <2> HIDE DEF out
  <2>4. LatencyKept'
    BY <2>1, <2>2, <2>3 DEF LatencyKept
  <2>5. CancellationWins'
    BY <2>1, <2>2, <2>3 DEF CancellationWins
  <2> QED BY <2>3, <2>4, <2>5 DEF CallInv, EndsByDeadline
<1>10. CASE Tick
  <2>1. now < timeout
    <3>1. "client" \in Around \ expired
      BY <1>10 DEF Tick, Interrupted, Around
    <3> QED BY <1>10, <3>1 DEF Tick, Due, Deadline, Layers, CallInv
  <2>2. Underway'
    BY <1>10 DEF Tick, CallInv, Underway, Own, Around, interruptVars
  <2> QED BY <1>10, <2>1, <2>2, GoesOn DEF Tick, CallInv, interruptVars
<1>11. CASE UNCHANGED callVars
  BY <1>11 DEF callVars, interruptVars, CallInv, Underway, Own, Around, EndsByDeadline, LatencyKept,
               CancellationWins
<1> QED BY <1>1, <1>2, <1>3, <1>4, <1>5, <1>6, <1>7, <1>8, <1>9, <1>10, <1>11 DEF CallNext

LEMMA CallInvariant == CallSpec => []CallInv
<1>1. CallInit => CallInv
  BY TimeoutsAssumption DEF CallInit, CallInv, Underway, Own, EndsByDeadline, LatencyKept, CancellationWins
<1> QED BY <1>1, CallStep, PTL DEF CallSpec

-----------------------------------------------------------------------------

\* The call does not outlast its timeout, whatever the timeout, the interval
\* between polls and the time that the POST and its polls take
\* (_transition_and_wait: one deadline around both).
THEOREM CallEndsByDeadline == CallSpec => []EndsByDeadline
<1>1. CallInv => EndsByDeadline
  BY DEF CallInv
<1> QED BY <1>1, CallInvariant, PTL

\* Neither of the except clauses of _transition_and_wait loses the latency of the
\* POST that was answered: a call that is not cancelled, nor overtaken by the router's
\* own timeout, reports it, and the router's metrics have it.
THEOREM LatencyIsKept == CallSpec => []LatencyKept
<1>1. CallInv => LatencyKept
  BY DEF CallInv
<1> QED BY <1>1, CallInvariant, PTL

\* However many timeouts expire together with however many cancellations from
\* outside, taking back one cancellation per expired timeout (asyncio.timeout.__aexit__)
\* leaves exactly those from outside: the call ends cancelled if there is one, and
\* never as a TimeoutError.
THEOREM CancellationsWin == CallSpec => []CancellationWins
<1>1. CallInv => CancellationWins
  BY DEF CallInv
<1> QED BY <1>1, CallInvariant, PTL

-----------------------------------------------------------------------------
(***************************************************************************)
(* StreamOwnership: one request, its two cached tasks and their owners.    *)
(*                                                                         *)
(* What the runs check of it says little about which task runs while serve *)
(* is where, and none of it is inductive.  OInv ties the position of serve *)
(* to the two tasks (Phases) and each caller that waits to the code that   *)
(* is in the await (the Callings).  Its steps go through one lemma for     *)
(* each operation of a cached task, which say all that the step does to    *)
(* the variables of that task.                                             *)
(***************************************************************************)

\* Where serve is before anything has been left, closed or given back.
Untouched == {"entered", "json", "opening", "start", "reading", "sending"}

\* An owner waits for the cleanup of the stream exactly while the code that it runs
\* is inside the await; a cancellation is noted only for a caller that serve runs
\* itself, never for the generator finalizer.
CleanupCallings ==
  /\ \A c \in {"setup", "iterator", "response"} : cleanup_caller[c] = "waiting" <=> serve = c
  /\ cleanup_caller["finalizer"] = "waiting" <=> finalizer = "closing"
  /\ \A c \in cleanup_noted : c # "finalizer" /\ cleanup_caller[c] # "out"

\* The same of the exit of the tracker. "outer", the last finally clause, finds the
\* exit over and never waits, so no cancellation reaches it.
TrackerCallings ==
  /\ \A c \in {"undo", "answered"} : tracker_caller[c] = "waiting" <=> serve = c
  /\ tracker_caller["teardown"] = "waiting" <=> close \in {"tracker", "tracker_failed"}
  /\ tracker_caller["outer"] # "waiting"
  /\ \A c \in tracker_noted : c \notin {"outer", "teardown"} /\ tracker_caller[c] # "out"

\* How far the request is against how far the two tasks are. The cleanup task runs
\* exactly while close is in its body, and ends only after the exit of the tracker; the
\* exit is what a request that has left the stream waits for; the releases count it.
Phases ==
  /\ cleanup_task = "running" <=> close # "idle"
  /\ serve \in Untouched \cup {"undo", "answered", "outer"} => cleanup_task = "none"
  /\ serve \in {"setup", "iterator", "response", "last"} \/ finalizer # "none" => cleanup_task # "none"
  /\ serve = "last" => Cleanup!Finished
  /\ Cleanup!Finished => tracker_task = "done"
  /\ serve \in Untouched \/ close = "exit" => tracker_task = "none"
  /\ serve \in {"undo", "answered"} => tracker_task # "none"
  /\ serve \in {"outer", "done"} => tracker_task = "done"
  /\ tracker_task # "failed"
  /\ releases = IF tracker_task = "done" THEN 1 ELSE 0
  /\ upstream = "open" => serve \in {"start", "reading", "sending"} \/ close = "exit"
  /\ enter_cancelled => serve \in {"entered", "undo", "outer", "done"} /\ cleanup_task = "none"
  /\ tracker_task = "none" => serve \in Untouched \/ close = "exit"

\* The types of the variables that are not those of the two cached tasks.
Places ==
  /\ serve \in Serve
  /\ enter_cancelled \in BOOLEAN
  /\ upstream \in {"none", "open", "closed"}
  /\ finalizer \in {"none", "due", "closing", "done"}
  /\ close \in {"idle", "exit", "tracker", "tracker_failed"}
  /\ releases \in Nat

\* What CachedCleanup guarantees, of the cleanup of the stream.
CleanupGood ==
  /\ Cleanup!CleanupTypeOK
  /\ cleanup_starts = IF cleanup_task = "none" THEN 0 ELSE 1
  /\ Cleanup!NoOwnerLeavesEarly
  /\ Cleanup!OutcomeFaithful

\* What CachedCleanup guarantees, of the exit of the tracker.
TrackerGood ==
  /\ Tracker!CleanupTypeOK
  /\ tracker_starts = IF tracker_task = "none" THEN 0 ELSE 1
  /\ Tracker!NoOwnerLeavesEarly
  /\ Tracker!OutcomeFaithful

\* The inductive invariant of StreamOwnership.
OInv == Places /\ CleanupGood /\ TrackerGood /\ CleanupCallings /\ TrackerCallings /\ Phases

\* A call of the cleanup of the stream starts it or joins it, and ends at once when it is over.
LEMMA CleanupCalled ==
  ASSUME CleanupGood, NEW c \in CleanupCallers, Cleanup!Call(c)
  PROVE  /\ CleanupGood'
         /\ cleanup_caller[c] = "out" /\ cleanup_noted' = cleanup_noted
         /\ \A d \in CleanupCallers \ {c} : cleanup_caller'[d] = cleanup_caller[d]
         /\ cleanup_task' = IF cleanup_task = "none" THEN "running" ELSE cleanup_task
         /\ cleanup_caller'[c] \in IF Cleanup!Finished THEN {"returned", "cancelled", "raised"}
                                   ELSE {"waiting"}
<1>1. CASE Cleanup!Finished
  <2>1. /\ cleanup_caller' = [cleanup_caller EXCEPT ![c] = Cleanup!Outcome(c)]
        /\ cleanup_caller[c] = "out"
        /\ UNCHANGED <<cleanup_task, cleanup_starts, cleanup_noted>>
    BY <1>1 DEF Cleanup!Call, Cleanup!Finished
  <2> QED
    BY <1>1, <2>1 DEF CleanupGood, Cleanup!CleanupTypeOK, Cleanup!NoOwnerLeavesEarly,
         Cleanup!OutcomeFaithful, Cleanup!TaskStates, Cleanup!CallerStates, Cleanup!Ended,
         Cleanup!Finished, Cleanup!Outcome
<1>2. CASE ~Cleanup!Finished
  <2>1. /\ cleanup_caller' = [cleanup_caller EXCEPT ![c] = "waiting"]
        /\ cleanup_caller[c] = "out"
        /\ cleanup_task' = "running" /\ cleanup_starts' = 1 /\ cleanup_noted' = cleanup_noted
        /\ cleanup_task \in {"none", "running"}
    BY <1>2 DEF Cleanup!Call, Cleanup!Finished, CleanupGood, Cleanup!CleanupTypeOK, Cleanup!TaskStates
  <2> QED
    BY <1>2, <2>1 DEF CleanupGood, Cleanup!CleanupTypeOK, Cleanup!NoOwnerLeavesEarly,
         Cleanup!OutcomeFaithful, Cleanup!TaskStates, Cleanup!CallerStates, Cleanup!Ended,
         Cleanup!Finished
<1> QED BY <1>1, <1>2

\* A caller of the cleanup resumes only when it is over, and no other caller moves.
LEMMA CleanupResumed ==
  ASSUME CleanupGood, NEW c \in CleanupCallers, Cleanup!Resume(c)
  PROVE  /\ CleanupGood' /\ Cleanup!Finished /\ UNCHANGED <<cleanup_task, cleanup_noted>>
         /\ cleanup_caller'[c] \in {"returned", "cancelled", "raised"}
         /\ \A d \in CleanupCallers \ {c} : cleanup_caller'[d] = cleanup_caller[d]
BY DEF Cleanup!Resume, CleanupGood, Cleanup!CleanupTypeOK, Cleanup!NoOwnerLeavesEarly,
       Cleanup!OutcomeFaithful, Cleanup!TaskStates, Cleanup!CallerStates, Cleanup!Ended,
       Cleanup!Finished, Cleanup!Outcome

\* A cancellation is noted by a caller that waits, and nothing else changes.
LEMMA CleanupCancelled ==
  ASSUME CleanupGood, NEW c \in CleanupCallers, Cleanup!Cancel(c)
  PROVE  /\ CleanupGood' /\ UNCHANGED <<cleanup_task, cleanup_caller>>
         /\ cleanup_noted' = cleanup_noted \cup {c} /\ cleanup_caller[c] = "waiting"
BY DEF Cleanup!Cancel, CleanupGood, Cleanup!CleanupTypeOK, Cleanup!NoOwnerLeavesEarly,
       Cleanup!OutcomeFaithful, Cleanup!TaskStates, Cleanup!CallerStates, Cleanup!Ended,
       Cleanup!Finished

\* The end of the cleanup leaves its callers where they wait.
LEMMA CleanupFinishes ==
  ASSUME CleanupGood, NEW ending \in {"done", "failed"}, Cleanup!Finish(ending)
  PROVE  /\ CleanupGood' /\ UNCHANGED <<cleanup_caller, cleanup_noted>>
         /\ cleanup_task = "running" /\ cleanup_task' = ending
BY DEF Cleanup!Finish, CleanupGood, Cleanup!CleanupTypeOK, Cleanup!NoOwnerLeavesEarly,
       Cleanup!OutcomeFaithful, Cleanup!TaskStates, Cleanup!CallerStates, Cleanup!Ended,
       Cleanup!Finished

\* A step that leaves the variables of the cleanup alone keeps what is known of them.
LEMMA CleanupRests ==
  ASSUME CleanupGood, UNCHANGED cleanupVs
  PROVE  /\ CleanupGood'
         /\ UNCHANGED <<cleanup_task, cleanup_caller, cleanup_noted>>
BY DEF cleanupVs, CleanupGood, Cleanup!CleanupTypeOK, Cleanup!NoOwnerLeavesEarly,
       Cleanup!OutcomeFaithful, Cleanup!TaskStates, Cleanup!CallerStates, Cleanup!Ended,
       Cleanup!Finished

\* A call of the exit of the tracker starts it or joins it, and ends at once when it is over.
LEMMA TrackerCalled ==
  ASSUME TrackerGood, NEW c \in TrackerCallers, Tracker!Call(c)
  PROVE  /\ TrackerGood'
         /\ tracker_caller[c] = "out" /\ tracker_noted' = tracker_noted
         /\ \A d \in TrackerCallers \ {c} : tracker_caller'[d] = tracker_caller[d]
         /\ tracker_task' = IF tracker_task = "none" THEN "running" ELSE tracker_task
         /\ tracker_caller'[c] \in IF Tracker!Finished THEN {"returned", "cancelled", "raised"}
                                   ELSE {"waiting"}
<1>1. CASE Tracker!Finished
  <2>1. /\ tracker_caller' = [tracker_caller EXCEPT ![c] = Tracker!Outcome(c)]
        /\ tracker_caller[c] = "out"
        /\ UNCHANGED <<tracker_task, tracker_starts, tracker_noted>>
    BY <1>1 DEF Tracker!Call, Tracker!Finished
  <2> QED
    BY <1>1, <2>1 DEF TrackerGood, Tracker!CleanupTypeOK, Tracker!NoOwnerLeavesEarly,
         Tracker!OutcomeFaithful, Tracker!TaskStates, Tracker!CallerStates, Tracker!Ended,
         Tracker!Finished, Tracker!Outcome
<1>2. CASE ~Tracker!Finished
  <2>1. /\ tracker_caller' = [tracker_caller EXCEPT ![c] = "waiting"]
        /\ tracker_caller[c] = "out"
        /\ tracker_task' = "running" /\ tracker_starts' = 1 /\ tracker_noted' = tracker_noted
        /\ tracker_task \in {"none", "running"}
    BY <1>2 DEF Tracker!Call, Tracker!Finished, TrackerGood, Tracker!CleanupTypeOK, Tracker!TaskStates
  <2> QED
    BY <1>2, <2>1 DEF TrackerGood, Tracker!CleanupTypeOK, Tracker!NoOwnerLeavesEarly,
         Tracker!OutcomeFaithful, Tracker!TaskStates, Tracker!CallerStates, Tracker!Ended,
         Tracker!Finished
<1> QED BY <1>1, <1>2

\* A caller of the exit resumes only when it is over, and no other caller moves.
LEMMA TrackerResumed ==
  ASSUME TrackerGood, NEW c \in TrackerCallers, Tracker!Resume(c)
  PROVE  /\ TrackerGood' /\ Tracker!Finished /\ UNCHANGED <<tracker_task, tracker_noted>>
         /\ tracker_caller'[c] \in {"returned", "cancelled", "raised"}
         /\ \A d \in TrackerCallers \ {c} : tracker_caller'[d] = tracker_caller[d]
BY DEF Tracker!Resume, TrackerGood, Tracker!CleanupTypeOK, Tracker!NoOwnerLeavesEarly,
       Tracker!OutcomeFaithful, Tracker!TaskStates, Tracker!CallerStates, Tracker!Ended,
       Tracker!Finished, Tracker!Outcome

\* A cancellation is noted by a caller that waits, and nothing else changes.
LEMMA TrackerCancelled ==
  ASSUME TrackerGood, NEW c \in TrackerCallers, Tracker!Cancel(c)
  PROVE  /\ TrackerGood' /\ UNCHANGED <<tracker_task, tracker_caller>>
         /\ tracker_noted' = tracker_noted \cup {c} /\ tracker_caller[c] = "waiting"
BY DEF Tracker!Cancel, TrackerGood, Tracker!CleanupTypeOK, Tracker!NoOwnerLeavesEarly,
       Tracker!OutcomeFaithful, Tracker!TaskStates, Tracker!CallerStates, Tracker!Ended,
       Tracker!Finished

\* The end of the exit leaves its callers where they wait.
LEMMA TrackerFinishes ==
  ASSUME TrackerGood, NEW ending \in {"done", "failed"}, Tracker!Finish(ending)
  PROVE  /\ TrackerGood' /\ UNCHANGED <<tracker_caller, tracker_noted>>
         /\ tracker_task = "running" /\ tracker_task' = ending
BY DEF Tracker!Finish, TrackerGood, Tracker!CleanupTypeOK, Tracker!NoOwnerLeavesEarly,
       Tracker!OutcomeFaithful, Tracker!TaskStates, Tracker!CallerStates, Tracker!Ended,
       Tracker!Finished

\* A step that leaves the variables of the exit alone keeps what is known of them.
LEMMA TrackerRests ==
  ASSUME TrackerGood, UNCHANGED trackerVs
  PROVE  /\ TrackerGood'
         /\ UNCHANGED <<tracker_task, tracker_caller, tracker_noted>>
BY DEF trackerVs, TrackerGood, Tracker!CleanupTypeOK, Tracker!NoOwnerLeavesEarly,
       Tracker!OutcomeFaithful, Tracker!TaskStates, Tracker!CallerStates, Tracker!Ended,
       Tracker!Finished


\* When one caller of the cleanup starts or stops to wait, and serve (or the finalizer)
\* with it, the callers that wait are still those whose code is in the await.
LEMMA CleanupMoves ==
  ASSUME CleanupGood, CleanupCallings, NEW c \in CleanupCallers,
         \A d \in CleanupCallers \ {c} : cleanup_caller'[d] = cleanup_caller[d],
         cleanup_noted' = cleanup_noted, cleanup_caller'[c] # "out",
         \/ /\ c = "finalizer" /\ serve' = serve
            /\ cleanup_caller'[c] = "waiting" <=> finalizer' = "closing"
         \/ /\ c # "finalizer"
            /\ cleanup_caller'[c] = "waiting" <=> serve' = c
            /\ {serve, serve'} \cap {"setup", "iterator", "response"} \subseteq {c}
            /\ finalizer' = "closing" <=> finalizer = "closing"
  PROVE  CleanupCallings'
<1>1. cleanup_noted \in SUBSET CleanupCallers
  BY DEF CleanupGood, Cleanup!CleanupTypeOK
<1>2. CASE c = "finalizer"
  BY <1>1, <1>2 DEF CleanupCallings, CleanupCallers
<1>3. CASE c # "finalizer"
  <2>1. \A d \in cleanup_noted' : d # "finalizer" /\ cleanup_caller'[d] # "out"
    BY <1>1, <1>3 DEF CleanupCallings, CleanupCallers
  <2>2. cleanup_caller'["finalizer"] = "waiting" <=> finalizer' = "closing"
    BY <1>3 DEF CleanupCallings, CleanupCallers
  <2>3. ASSUME NEW d \in {"setup", "iterator", "response"}, d # c
        PROVE  cleanup_caller'[d] = "waiting" <=> serve' = d
    <3>1. cleanup_caller'[d] = cleanup_caller[d] /\ serve # d /\ serve' # d
      BY <1>3, <2>3 DEF CleanupCallers
    <3> QED BY <2>3, <3>1 DEF CleanupCallings
  <2>4. cleanup_caller'[c] = "waiting" <=> serve' = c
    BY <1>3
  <2> QED BY <2>1, <2>2, <2>3, <2>4 DEF CleanupCallings
<1> QED BY <1>2, <1>3

\* So they are when no caller moves and serve neither enters nor leaves an await of theirs.
LEMMA CleanupStays ==
  ASSUME CleanupCallings, UNCHANGED <<cleanup_caller, cleanup_noted, finalizer>>,
         serve' = serve \/ {serve, serve'} \cap {"setup", "iterator", "response"} = {}
  PROVE  CleanupCallings'
<1>1. ASSUME NEW c \in {"setup", "iterator", "response"}
      PROVE  cleanup_caller'[c] = "waiting" <=> serve' = c
  <2>1. serve' = c <=> serve = c
    OBVIOUS
  <2> QED BY <2>1 DEF CleanupCallings
<1> QED BY <1>1 DEF CleanupCallings

\* When one caller of the exit starts or stops to wait, and serve (or the cleanup) with
\* it, the callers that wait are still those whose code is in the await.
LEMMA TrackerMoves ==
  ASSUME TrackerGood, TrackerCallings, NEW c \in TrackerCallers,
         \A d \in TrackerCallers \ {c} : tracker_caller'[d] = tracker_caller[d],
         tracker_noted' = tracker_noted, tracker_caller'[c] # "out",
         \/ /\ c = "teardown" /\ serve' = serve
            /\ tracker_caller'[c] = "waiting" <=> close' \in {"tracker", "tracker_failed"}
         \/ /\ c # "teardown" /\ close' = close
            /\ tracker_caller'[c] = "waiting" <=> serve' = c
            /\ {serve, serve'} \cap {"undo", "answered"} \subseteq {c}
            /\ c = "outer" => tracker_caller'[c] # "waiting"
  PROVE  TrackerCallings'
<1>1. tracker_noted \in SUBSET TrackerCallers
  BY DEF TrackerGood, Tracker!CleanupTypeOK
<1>2. CASE c = "teardown"
  BY <1>1, <1>2 DEF TrackerCallings, TrackerCallers
<1>3. CASE c # "teardown"
  <2>1. \A d \in tracker_noted' : d \notin {"outer", "teardown"} /\ tracker_caller'[d] # "out"
    BY <1>1, <1>3 DEF TrackerCallings, TrackerCallers
  <2>2. tracker_caller'["teardown"] = "waiting" <=> close' \in {"tracker", "tracker_failed"}
    BY <1>3 DEF TrackerCallings, TrackerCallers
  <2>3. ASSUME NEW d \in {"undo", "answered"}
        PROVE  tracker_caller'[d] = "waiting" <=> serve' = d
    <3>1. CASE d = c
      BY <1>3, <3>1
    <3>2. CASE d # c
      <4>1. tracker_caller'[d] = tracker_caller[d] /\ serve # d /\ serve' # d
        BY <1>3, <2>3, <3>2 DEF TrackerCallers
      <4> QED BY <2>3, <4>1 DEF TrackerCallings
    <3> QED BY <3>1, <3>2
  <2>4. tracker_caller'["outer"] # "waiting"
    BY <1>3 DEF TrackerCallings, TrackerCallers
  <2> QED BY <2>1, <2>2, <2>3, <2>4 DEF TrackerCallings
<1> QED BY <1>2, <1>3

\* So they are when no caller moves and neither serve nor the cleanup enters or leaves
\* an await of theirs.
LEMMA TrackerStays ==
  ASSUME TrackerCallings, UNCHANGED <<tracker_caller, tracker_noted>>,
         serve' = serve \/ {serve, serve'} \cap {"undo", "answered"} = {},
         close' \in {"tracker", "tracker_failed"} <=> close \in {"tracker", "tracker_failed"}
  PROVE  TrackerCallings'
<1>1. ASSUME NEW c \in {"undo", "answered"}
      PROVE  tracker_caller'[c] = "waiting" <=> serve' = c
  <2>1. serve' = c <=> serve = c
    OBVIOUS
  <2> QED BY <2>1 DEF TrackerCallings
<1> QED BY <1>1 DEF TrackerCallings

\* The invariant holds when the reservation has just been made.
LEMMA InitOInv == Init => OInv
BY DEF Init, OInv, Places, CleanupGood, TrackerGood, CleanupCallings, TrackerCallings, Phases, Serve, Untouched,
       Cleanup!CleanupInit, Cleanup!CleanupTypeOK, Cleanup!NoOwnerLeavesEarly,
       Cleanup!OutcomeFaithful, Cleanup!TaskStates, Cleanup!CallerStates, Cleanup!Ended,
       Cleanup!Finished, CleanupCallers,
       Tracker!CleanupInit, Tracker!CleanupTypeOK, Tracker!NoOwnerLeavesEarly,
       Tracker!OutcomeFaithful, Tracker!TaskStates, Tracker!CallerStates, Tracker!Ended,
       Tracker!Finished, TrackerCallers

\* The proxy goes on, or the cancelled entry undoes the reservation: the exit starts.
LEMMA AdmittedStep == ASSUME OInv, Admitted PROVE OInv'
<1>1. /\ serve = "entered" /\ UNCHANGED <<enter_cancelled, streamVs, releases, cleanupVs>>
      /\ cleanup_task = "none" /\ tracker_task = "none"
  BY DEF Admitted, GoTo, OInv, Phases, Untouched
<1>2. CleanupGood' /\ UNCHANGED <<cleanup_task, cleanup_caller, cleanup_noted>>
  BY <1>1, CleanupRests DEF OInv
<1>3. CASE enter_cancelled
  <2>1. Tracker!Call("undo") /\ serve' = "undo" /\ "undo" \in TrackerCallers
    BY <1>3 DEF Admitted, GoTo, TrackerCallers
  <2>2. /\ TrackerGood' /\ tracker_noted' = tracker_noted
        /\ \A d \in TrackerCallers \ {"undo"} : tracker_caller'[d] = tracker_caller[d]
        /\ tracker_task' = "running" /\ tracker_caller'["undo"] = "waiting"
    BY <1>1, <2>1, TrackerCalled DEF OInv, Tracker!Finished
  <2>3. CleanupCallings'
    BY <1>1, <1>2, <2>1, CleanupStays DEF OInv, streamVs
  <2>4. TrackerCallings'
    BY <1>1, <2>1, <2>2, TrackerMoves DEF OInv, streamVs
  <2>5. Places'
    BY <1>1, <2>1 DEF OInv, Places, Serve, streamVs
  <2>6. Phases'
    BY <1>1, <1>2, <2>1, <2>2 DEF OInv, Phases, Untouched, streamVs, Cleanup!Finished
  <2> QED BY <1>2, <2>2, <2>3, <2>4, <2>5, <2>6 DEF OInv
<1>4. CASE ~enter_cancelled
  <2>1. serve' \in {"json", "opening"} /\ UNCHANGED trackerVs
    BY <1>4 DEF Admitted, GoTo
  <2>2. TrackerGood' /\ UNCHANGED <<tracker_task, tracker_caller, tracker_noted>>
    BY <2>1, TrackerRests DEF OInv
  <2>3. CleanupCallings'
    BY <1>1, <1>2, <2>1, CleanupStays DEF OInv, streamVs
  <2>4. TrackerCallings'
    BY <1>1, <2>1, <2>2, TrackerStays DEF OInv, streamVs
  <2>5. Places'
    BY <1>1, <2>1 DEF OInv, Places, Serve, streamVs
  <2>6. Phases'
    BY <1>1, <1>2, <1>4, <2>1, <2>2 DEF OInv, Phases, Untouched, streamVs, Cleanup!Finished
  <2> QED BY <1>2, <2>2, <2>3, <2>4, <2>5, <2>6 DEF OInv
<1> QED BY <1>3, <1>4

\* The undoing of a cancelled entry has waited for the exit: nothing is reserved any more.
LEMMA UndoneStep == ASSUME OInv, Undone PROVE OInv'
<1>1. /\ serve = "undo" /\ Tracker!Resume("undo") /\ serve' = "outer"
      /\ UNCHANGED <<enter_cancelled, streamVs, releases, cleanupVs>>
  BY DEF Undone, GoTo
<1>2. "undo" \in TrackerCallers
  BY DEF TrackerCallers
<1>3. /\ TrackerGood' /\ tracker_noted' = tracker_noted
      /\ \A d \in TrackerCallers \ {"undo"} : tracker_caller'[d] = tracker_caller[d]
      /\ tracker_task = "done" /\ tracker_task' = "done"
      /\ tracker_caller'["undo"] \in {"returned", "cancelled", "raised"}
  BY <1>1, <1>2, TrackerResumed DEF OInv, Phases, Untouched, Tracker!Finished
<1>4. CleanupGood' /\ UNCHANGED <<cleanup_task, cleanup_caller, cleanup_noted>>
  BY <1>1, CleanupRests DEF OInv
<1>5. Places'
  BY <1>1 DEF OInv, Places, Serve, requestVs, streamVs
<1>6. CleanupCallings'
  BY <1>1, <1>4, CleanupStays DEF OInv, requestVs, streamVs
<1>7. TrackerCallings'
  BY <1>1, <1>2, <1>3, TrackerMoves DEF OInv, requestVs, streamVs
<1>8. Phases'
  BY <1>1, <1>3, <1>4 DEF OInv, Phases, Untouched, requestVs, streamVs, Cleanup!Finished
<1> QED BY <1>3, <1>4, <1>5, <1>6, <1>7, <1>8 DEF OInv

\* A proxied JSON request ends and starts the exit.
LEMMA JsonEndsStep == ASSUME OInv, JsonEnds PROVE OInv'
<1>1. /\ serve = "json" /\ Tracker!Call("answered") /\ serve' = "answered"
      /\ UNCHANGED <<enter_cancelled, streamVs, releases, cleanupVs>>
  BY DEF JsonEnds, GoTo
<1>2. "answered" \in TrackerCallers
  BY DEF TrackerCallers
<1>3. /\ TrackerGood' /\ tracker_noted' = tracker_noted
      /\ \A d \in TrackerCallers \ {"answered"} : tracker_caller'[d] = tracker_caller[d]
      /\ tracker_task = "none" /\ tracker_task' = "running" /\ tracker_caller'["answered"] = "waiting"
  BY <1>1, <1>2, TrackerCalled DEF OInv, Phases, Untouched, Tracker!Finished
<1>4. CleanupGood' /\ UNCHANGED <<cleanup_task, cleanup_caller, cleanup_noted>>
  BY <1>1, CleanupRests DEF OInv
<1>5. Places'
  BY <1>1 DEF OInv, Places, Serve, requestVs, streamVs
<1>6. CleanupCallings'
  BY <1>1, <1>4, CleanupStays DEF OInv, requestVs, streamVs
<1>7. TrackerCallings'
  BY <1>1, <1>2, <1>3, TrackerMoves DEF OInv, requestVs, streamVs
<1>8. Phases'
  BY <1>1, <1>3, <1>4 DEF OInv, Phases, Untouched, requestVs, streamVs, Cleanup!Finished
<1> QED BY <1>3, <1>4, <1>5, <1>6, <1>7, <1>8 DEF OInv

\* The JSON request has waited for the exit.
LEMMA AnsweredStep == ASSUME OInv, Answered PROVE OInv'
<1>1. /\ serve = "answered" /\ Tracker!Resume("answered") /\ serve' \in {"done", "outer"}
      /\ UNCHANGED <<enter_cancelled, streamVs, releases, cleanupVs>>
  BY DEF Answered, GoTo
<1>2. "answered" \in TrackerCallers
  BY DEF TrackerCallers
<1>3. /\ TrackerGood' /\ tracker_noted' = tracker_noted
      /\ \A d \in TrackerCallers \ {"answered"} : tracker_caller'[d] = tracker_caller[d]
      /\ tracker_task = "done" /\ tracker_task' = "done"
      /\ tracker_caller'["answered"] \in {"returned", "cancelled", "raised"}
  BY <1>1, <1>2, TrackerResumed DEF OInv, Phases, Untouched, Tracker!Finished
<1>4. CleanupGood' /\ UNCHANGED <<cleanup_task, cleanup_caller, cleanup_noted>>
  BY <1>1, CleanupRests DEF OInv
<1>5. Places'
  BY <1>1 DEF OInv, Places, Serve, requestVs, streamVs
<1>6. CleanupCallings'
  BY <1>1, <1>4, CleanupStays DEF OInv, requestVs, streamVs
<1>7. TrackerCallings'
  BY <1>1, <1>2, <1>3, TrackerMoves DEF OInv, requestVs, streamVs
<1>8. Phases'
  BY <1>1, <1>3, <1>4 DEF OInv, Phases, Untouched, requestVs, streamVs, Cleanup!Finished
<1> QED BY <1>3, <1>4, <1>5, <1>6, <1>7, <1>8 DEF OInv

\* The last finally clause calls an exit that is over.
LEMMA OuterFinallyStep == ASSUME OInv, OuterFinally PROVE OInv'
<1>1. /\ serve = "outer" /\ Tracker!Call("outer") /\ serve' = "done"
      /\ UNCHANGED <<enter_cancelled, streamVs, releases, cleanupVs>>
  BY DEF OuterFinally, GoTo
<1>2. "outer" \in TrackerCallers
  BY DEF TrackerCallers
<1>3. /\ TrackerGood' /\ tracker_noted' = tracker_noted
      /\ \A d \in TrackerCallers \ {"outer"} : tracker_caller'[d] = tracker_caller[d]
      /\ tracker_task = "done" /\ tracker_task' = "done"
      /\ tracker_caller'["outer"] \in {"returned", "cancelled", "raised"}
  BY <1>1, <1>2, TrackerCalled DEF OInv, Phases, Untouched, Tracker!Finished
<1>4. CleanupGood' /\ UNCHANGED <<cleanup_task, cleanup_caller, cleanup_noted>>
  BY <1>1, CleanupRests DEF OInv
<1>5. Places'
  BY <1>1 DEF OInv, Places, Serve, requestVs, streamVs
<1>6. CleanupCallings'
  BY <1>1, <1>4, CleanupStays DEF OInv, requestVs, streamVs
<1>7. TrackerCallings'
  BY <1>1, <1>2, <1>3, TrackerMoves DEF OInv, requestVs, streamVs
<1>8. Phases'
  BY <1>1, <1>3, <1>4 DEF OInv, Phases, Untouched, requestVs, streamVs, Cleanup!Finished
<1> QED BY <1>3, <1>4, <1>5, <1>6, <1>7, <1>8 DEF OInv

\* The cleanup of the stream closes the upstream and starts the exit of the tracker.
LEMMA CloseUpstreamStep == ASSUME OInv, CloseUpstream PROVE OInv'
<1>1. /\ close = "exit" /\ Tracker!Call("teardown")
      /\ upstream' # "open" /\ upstream' \in {"none", "closed"}
      /\ close' \in {"tracker", "tracker_failed"}
      /\ UNCHANGED <<requestVs, finalizer, releases, cleanupVs>>
  BY DEF CloseUpstream
<1>2. "teardown" \in TrackerCallers
  BY DEF TrackerCallers
<1>3. /\ TrackerGood' /\ tracker_noted' = tracker_noted
      /\ \A d \in TrackerCallers \ {"teardown"} : tracker_caller'[d] = tracker_caller[d]
      /\ tracker_task = "none" /\ tracker_task' = "running" /\ tracker_caller'["teardown"] = "waiting"
  BY <1>1, <1>2, TrackerCalled DEF OInv, Phases, Untouched, Tracker!Finished
<1>4. CleanupGood' /\ UNCHANGED <<cleanup_task, cleanup_caller, cleanup_noted>>
  BY <1>1, CleanupRests DEF OInv
<1>5. Places'
  BY <1>1 DEF OInv, Places, Serve, requestVs, streamVs
<1>6. CleanupCallings'
  BY <1>1, <1>4, CleanupStays DEF OInv, requestVs, streamVs
<1>7. TrackerCallings'
  BY <1>1, <1>2, <1>3, TrackerMoves DEF OInv, requestVs, streamVs
<1>8. Phases'
  BY <1>1, <1>3, <1>4 DEF OInv, Phases, Untouched, requestVs, streamVs, Cleanup!Finished
<1> QED BY <1>3, <1>4, <1>5, <1>6, <1>7, <1>8 DEF OInv

\* A stream that could not be opened starts its cleanup.
LEMMA SetupFailsStep == ASSUME OInv, SetupFails PROVE OInv'
<1>1. /\ serve = "opening" /\ Cleanup!Call("setup") /\ serve' = "setup"
      /\ upstream' \in {"none", "open"}
      /\ close' = IF cleanup_task = "none" THEN "exit" ELSE close
      /\ UNCHANGED <<enter_cancelled, finalizer, releases, trackerVs>>
  BY DEF SetupFails, CallCleanup, GoTo
<1>2. "setup" \in CleanupCallers
  BY DEF CleanupCallers
<1>3. /\ CleanupGood' /\ cleanup_noted' = cleanup_noted
      /\ \A d \in CleanupCallers \ {"setup"} : cleanup_caller'[d] = cleanup_caller[d]
      /\ cleanup_task = "none" /\ cleanup_task' = "running"
      /\ close = "idle" /\ close' = "exit"
      /\ cleanup_caller'["setup"] = "waiting"
  BY <1>1, <1>2, CleanupCalled DEF OInv, Phases, Untouched, Cleanup!Finished
<1>4. TrackerGood' /\ UNCHANGED <<tracker_task, tracker_caller, tracker_noted>>
  BY <1>1, TrackerRests DEF OInv
<1>5. Places'
  BY <1>1, <1>3 DEF OInv, Places, Serve, requestVs, streamVs
<1>6. CleanupCallings'
  BY <1>1, <1>2, <1>3, CleanupMoves DEF OInv, requestVs, streamVs
<1>7. TrackerCallings'
  BY <1>1, <1>3, <1>4, TrackerStays DEF OInv, requestVs, streamVs
<1>8. Phases'
  BY <1>1, <1>3, <1>4 DEF OInv, Phases, Untouched, requestVs, streamVs, Cleanup!Finished
<1> QED BY <1>3, <1>4, <1>5, <1>6, <1>7, <1>8 DEF OInv

\* The end of the upstream starts the cleanup from the iterator.
LEMMA ReadEndsStep == ASSUME OInv, ReadEnds PROVE OInv'
<1>1. /\ serve = "reading" /\ Cleanup!Call("iterator") /\ serve' = "iterator"
      /\ close' = IF cleanup_task = "none" THEN "exit" ELSE close
      /\ UNCHANGED <<enter_cancelled, upstream, finalizer, releases, trackerVs>>
  BY DEF ReadEnds, CallCleanup, GoTo
<1>2. "iterator" \in CleanupCallers
  BY DEF CleanupCallers
<1>3. /\ CleanupGood' /\ cleanup_noted' = cleanup_noted
      /\ \A d \in CleanupCallers \ {"iterator"} : cleanup_caller'[d] = cleanup_caller[d]
      /\ cleanup_task = "none" /\ cleanup_task' = "running"
      /\ close = "idle" /\ close' = "exit"
      /\ cleanup_caller'["iterator"] = "waiting"
  BY <1>1, <1>2, CleanupCalled DEF OInv, Phases, Untouched, Cleanup!Finished
<1>4. TrackerGood' /\ UNCHANGED <<tracker_task, tracker_caller, tracker_noted>>
  BY <1>1, TrackerRests DEF OInv
<1>5. Places'
  BY <1>1, <1>3 DEF OInv, Places, Serve, requestVs, streamVs
<1>6. CleanupCallings'
  BY <1>1, <1>2, <1>3, CleanupMoves DEF OInv, requestVs, streamVs
<1>7. TrackerCallings'
  BY <1>1, <1>3, <1>4, TrackerStays DEF OInv, requestVs, streamVs
<1>8. Phases'
  BY <1>1, <1>3, <1>4 DEF OInv, Phases, Untouched, requestVs, streamVs, Cleanup!Finished
<1> QED BY <1>3, <1>4, <1>5, <1>6, <1>7, <1>8 DEF OInv

\* A client that went away starts the cleanup from the response, and may leave the
\* iterator to the finalizer.
LEMMA SendFailsStep == ASSUME OInv, SendFails PROVE OInv'
<1>1. /\ serve \in {"start", "sending"} /\ Cleanup!Call("response") /\ serve' = "response"
      /\ finalizer' \in {"due", finalizer}
      /\ close' = IF cleanup_task = "none" THEN "exit" ELSE close
      /\ UNCHANGED <<enter_cancelled, upstream, releases, trackerVs>>
  BY DEF SendFails, CallCleanup, GoTo
<1>2. "response" \in CleanupCallers
  BY DEF CleanupCallers
<1>3. /\ CleanupGood' /\ cleanup_noted' = cleanup_noted
      /\ \A d \in CleanupCallers \ {"response"} : cleanup_caller'[d] = cleanup_caller[d]
      /\ cleanup_task = "none" /\ cleanup_task' = "running"
      /\ close = "idle" /\ close' = "exit"
      /\ cleanup_caller'["response"] = "waiting"
      /\ finalizer = "none"
  BY <1>1, <1>2, CleanupCalled DEF OInv, Phases, Untouched, Cleanup!Finished
<1>4. TrackerGood' /\ UNCHANGED <<tracker_task, tracker_caller, tracker_noted>>
  BY <1>1, TrackerRests DEF OInv
<1>5. Places'
  BY <1>1, <1>3 DEF OInv, Places, Serve, requestVs, streamVs
<1>6. CleanupCallings'
  BY <1>1, <1>2, <1>3, CleanupMoves DEF OInv, requestVs, streamVs
<1>7. TrackerCallings'
  BY <1>1, <1>3, <1>4, TrackerStays DEF OInv, requestVs, streamVs
<1>8. Phases'
  BY <1>1, <1>3, <1>4 DEF OInv, Phases, Untouched, requestVs, streamVs, Cleanup!Finished
<1> QED BY <1>3, <1>4, <1>5, <1>6, <1>7, <1>8 DEF OInv

\* An owner inside serve has waited for the cleanup.
LEMMA CleanupReturnsStep == ASSUME OInv, CleanupReturns PROVE OInv'
<1>1. PICK c \in {"setup", "iterator", "response"} :
        /\ serve = c /\ Cleanup!Resume(c)
        /\ serve' = IF c = "iterator" THEN "last" ELSE "done"
        /\ UNCHANGED <<enter_cancelled, streamVs, releases, trackerVs>>
  BY DEF CleanupReturns, GoTo
<1>2. c \in CleanupCallers
  BY DEF CleanupCallers
<1>3. /\ CleanupGood' /\ cleanup_noted' = cleanup_noted
      /\ \A d \in CleanupCallers \ {c} : cleanup_caller'[d] = cleanup_caller[d]
      /\ Cleanup!Finished /\ cleanup_task' = cleanup_task /\ close' = close
      /\ cleanup_caller'[c] \in {"returned", "cancelled", "raised"}
  BY <1>1, <1>2, CleanupResumed DEF OInv, streamVs
<1>4. TrackerGood' /\ UNCHANGED <<tracker_task, tracker_caller, tracker_noted>>
  BY <1>1, TrackerRests DEF OInv
<1>5. Places'
  BY <1>1, <1>3 DEF OInv, Places, Serve, requestVs, streamVs
<1>6. CleanupCallings'
  BY <1>1, <1>2, <1>3, CleanupMoves DEF OInv, requestVs, streamVs
<1>7. TrackerCallings'
  BY <1>1, <1>3, <1>4, TrackerStays DEF OInv, requestVs, streamVs
<1>8. Phases'
  BY <1>1, <1>3, <1>4 DEF OInv, Phases, Untouched, requestVs, streamVs, Cleanup!Finished
<1> QED BY <1>3, <1>4, <1>5, <1>6, <1>7, <1>8 DEF OInv

\* The response calls a cleanup that its iterator has already waited for.
LEMMA ResponseEndsStep == ASSUME OInv, ResponseEnds PROVE OInv'
<1>1. /\ serve = "last" /\ Cleanup!Call("response") /\ serve' = "done"
      /\ close' = IF cleanup_task = "none" THEN "exit" ELSE close
      /\ UNCHANGED <<enter_cancelled, upstream, finalizer, releases, trackerVs>>
  BY DEF ResponseEnds, CallCleanup, GoTo
<1>2. "response" \in CleanupCallers
  BY DEF CleanupCallers
<1>3. /\ CleanupGood' /\ cleanup_noted' = cleanup_noted
      /\ \A d \in CleanupCallers \ {"response"} : cleanup_caller'[d] = cleanup_caller[d]
      /\ Cleanup!Finished /\ cleanup_task' = cleanup_task /\ close' = close
      /\ cleanup_caller'["response"] \in {"returned", "cancelled", "raised"}
  BY <1>1, <1>2, CleanupCalled DEF OInv, Phases, Untouched, Cleanup!Finished
<1>4. TrackerGood' /\ UNCHANGED <<tracker_task, tracker_caller, tracker_noted>>
  BY <1>1, TrackerRests DEF OInv
<1>5. Places'
  BY <1>1, <1>3 DEF OInv, Places, Serve, requestVs, streamVs
<1>6. CleanupCallings'
  BY <1>1, <1>2, <1>3, CleanupMoves DEF OInv, requestVs, streamVs
<1>7. TrackerCallings'
  BY <1>1, <1>3, <1>4, TrackerStays DEF OInv, requestVs, streamVs
<1>8. Phases'
  BY <1>1, <1>3, <1>4 DEF OInv, Phases, Untouched, requestVs, streamVs, Cleanup!Finished
<1> QED BY <1>3, <1>4, <1>5, <1>6, <1>7, <1>8 DEF OInv

\* The finalizer has waited for the cleanup.
LEMMA FinalizerReturnsStep == ASSUME OInv, FinalizerReturns PROVE OInv'
<1>1. /\ finalizer = "closing" /\ Cleanup!Resume("finalizer") /\ finalizer' = "done"
      /\ UNCHANGED <<requestVs, upstream, close, releases, trackerVs>>
  BY DEF FinalizerReturns
<1>2. "finalizer" \in CleanupCallers
  BY DEF CleanupCallers
<1>3. /\ CleanupGood' /\ cleanup_noted' = cleanup_noted
      /\ \A d \in CleanupCallers \ {"finalizer"} : cleanup_caller'[d] = cleanup_caller[d]
      /\ Cleanup!Finished /\ cleanup_task' = cleanup_task /\ close' = close
      /\ cleanup_caller'["finalizer"] \in {"returned", "cancelled", "raised"}
  BY <1>1, <1>2, CleanupResumed DEF OInv
<1>4. TrackerGood' /\ UNCHANGED <<tracker_task, tracker_caller, tracker_noted>>
  BY <1>1, TrackerRests DEF OInv
<1>5. Places'
  BY <1>1, <1>3 DEF OInv, Places, Serve, requestVs, streamVs
<1>6. CleanupCallings'
  BY <1>1, <1>2, <1>3, CleanupMoves DEF OInv, requestVs, streamVs
<1>7. TrackerCallings'
  BY <1>1, <1>3, <1>4, TrackerStays DEF OInv, requestVs, streamVs
<1>8. Phases'
  BY <1>1, <1>3, <1>4 DEF OInv, Phases, Untouched, requestVs, streamVs, Cleanup!Finished
<1> QED BY <1>3, <1>4, <1>5, <1>6, <1>7, <1>8 DEF OInv

\* The finalizer of an abandoned iterator calls a cleanup that another owner has started.
LEMMA FinalizerCallsStep == ASSUME OInv, FinalizerCalls PROVE OInv'
<1>1. /\ finalizer = "due" /\ Cleanup!Call("finalizer")
      /\ finalizer' = IF Cleanup!Finished THEN "done" ELSE "closing"
      /\ close' = IF cleanup_task = "none" THEN "exit" ELSE close
      /\ UNCHANGED <<requestVs, upstream, releases, trackerVs>>
  BY DEF FinalizerCalls, CallCleanup
<1>2. "finalizer" \in CleanupCallers
  BY DEF CleanupCallers
<1>3. /\ CleanupGood' /\ cleanup_noted' = cleanup_noted
      /\ \A d \in CleanupCallers \ {"finalizer"} : cleanup_caller'[d] = cleanup_caller[d]
      /\ cleanup_task' = cleanup_task /\ cleanup_task # "none" /\ close' = close
      /\ cleanup_caller'["finalizer"] \in IF Cleanup!Finished THEN {"returned", "cancelled", "raised"}
                                         ELSE {"waiting"}
  BY <1>1, <1>2, CleanupCalled DEF OInv, Phases, Untouched, Cleanup!Finished
<1>4. TrackerGood' /\ UNCHANGED <<tracker_task, tracker_caller, tracker_noted>>
  BY <1>1, TrackerRests DEF OInv
<1>5. Places'
  BY <1>1, <1>3 DEF OInv, Places, Serve, requestVs, streamVs
<1>6. CleanupCallings'
  BY <1>1, <1>2, <1>3, CleanupMoves DEF OInv, requestVs, streamVs
<1>7. TrackerCallings'
  BY <1>1, <1>3, <1>4, TrackerStays DEF OInv, requestVs, streamVs
<1>8. Phases'
  BY <1>1, <1>3, <1>4 DEF OInv, Phases, Untouched, requestVs, streamVs, Cleanup!Finished
<1> QED BY <1>3, <1>4, <1>5, <1>6, <1>7, <1>8 DEF OInv

\* The upstream is open, and nothing has been left.
LEMMA OpenSucceedsStep == ASSUME OInv, OpenSucceeds PROVE OInv'
<1>1. /\ serve = "opening" /\ serve' = "start" /\ upstream' = "open"
      /\ UNCHANGED <<enter_cancelled, finalizer, close, releases, cleanupVs, trackerVs>>
  BY DEF OpenSucceeds, GoTo
<1> QED
  BY <1>1, CleanupRests, TrackerRests
     DEF OInv, Places, CleanupCallings, TrackerCallings, Phases, Serve, Untouched, Cleanup!Finished, Tracker!Finished

\* A chunk goes from the upstream to the client.
LEMMA StreamsStep == ASSUME OInv, Streams PROVE OInv'
<1>1. /\ serve \in {"start", "sending", "reading"} /\ serve' \in {"reading", "sending"}
      /\ UNCHANGED <<enter_cancelled, streamVs, releases, cleanupVs, trackerVs>>
  BY DEF Streams, GoTo
<1> QED
  BY <1>1, CleanupRests, TrackerRests
     DEF OInv, Places, CleanupCallings, TrackerCallings, Phases, Serve, Untouched, streamVs, Cleanup!Finished, Tracker!Finished

\* A cancellation is noted by the owner whose code is in the await, and by no other.
LEMMA CancelOwnerStep == ASSUME OInv, CancelOwner PROVE OInv'
<1>1. CASE /\ serve \in {"undo", "answered"} /\ Tracker!Cancel(serve) /\ UNCHANGED cleanupVs
           /\ UNCHANGED <<requestVs, streamVs, releases>>
  <2>1. serve \in TrackerCallers
    BY <1>1 DEF TrackerCallers
  <2> QED
    BY <1>1, <2>1, TrackerCancelled, CleanupRests
       DEF OInv, Places, CleanupCallings, TrackerCallings, Phases, Serve, Untouched, requestVs, streamVs,
           Cleanup!Finished, Tracker!Finished
<1>2. CASE /\ serve \in {"setup", "iterator", "response"} /\ Cleanup!Cancel(serve)
           /\ UNCHANGED <<requestVs, streamVs, releases, trackerVs>>
  <2>1. serve \in CleanupCallers
    BY <1>2 DEF CleanupCallers
  <2> QED
    BY <1>2, <2>1, CleanupCancelled, TrackerRests
       DEF OInv, Places, CleanupCallings, TrackerCallings, Phases, Serve, Untouched, requestVs, streamVs,
           Cleanup!Finished, Tracker!Finished
<1> QED BY <1>1, <1>2 DEF CancelOwner

\* The cleanup ends: it has itself waited for the exit of the tracker.
LEMMA TeardownEndsStep == ASSUME OInv, TeardownEnds PROVE OInv'
<1> DEFINE ending == IF close = "tracker" THEN "done" ELSE "failed"
<1>1. /\ close \in {"tracker", "tracker_failed"} /\ Tracker!Resume("teardown")
      /\ Cleanup!Finish(ending) /\ close' = "idle"
      /\ UNCHANGED <<requestVs, upstream, finalizer, releases>>
  BY DEF TeardownEnds
<1>2. "teardown" \in TrackerCallers /\ ending \in {"done", "failed"}
  BY DEF TrackerCallers
<1> HIDE DEF ending
<1>3. /\ TrackerGood' /\ tracker_noted' = tracker_noted
      /\ \A d \in TrackerCallers \ {"teardown"} : tracker_caller'[d] = tracker_caller[d]
      /\ tracker_task = "done" /\ tracker_task' = "done"
      /\ tracker_caller'["teardown"] \in {"returned", "cancelled", "raised"}
  BY <1>1, <1>2, TrackerResumed DEF OInv, Phases, Tracker!Finished
<1>4. /\ CleanupGood' /\ UNCHANGED <<cleanup_caller, cleanup_noted>>
      /\ cleanup_task = "running" /\ cleanup_task' \in {"done", "failed"}
  BY <1>1, <1>2, CleanupFinishes DEF OInv
<1>5. Places'
  BY <1>1 DEF OInv, Places, Serve, requestVs
<1>6. CleanupCallings'
  BY <1>1, <1>4, CleanupStays DEF OInv, requestVs
<1>7. TrackerCallings'
  BY <1>1, <1>2, <1>3, TrackerMoves DEF OInv, requestVs
<1>8. Phases'
  BY <1>1, <1>3, <1>4 DEF OInv, Phases, Untouched, requestVs, Cleanup!Finished
<1> QED BY <1>3, <1>4, <1>5, <1>6, <1>7, <1>8 DEF OInv

\* The exit ends, and the reservation is given back.
LEMMA LeaveTrackerStep == ASSUME OInv, LeaveTracker PROVE OInv'
<1>1. /\ Tracker!Finish("done") /\ releases' = releases + 1
      /\ UNCHANGED <<requestVs, streamVs, cleanupVs>>
  BY DEF LeaveTracker
<1> QED
  BY <1>1, TrackerFinishes, CleanupRests
     DEF OInv, Places, CleanupCallings, TrackerCallings, Phases, Serve, Untouched, requestVs, streamVs,
         Cleanup!Finished, Tracker!Finished

\* Every step of serve, its owners and its tasks preserves the invariant.
LEMMA NextOInv == OInv /\ [Next]_vars => OInv'
<1> SUFFICES ASSUME OInv, [Next]_vars PROVE OInv'
  OBVIOUS
<1>1. CASE UNCHANGED vars
  BY <1>1, CleanupRests, TrackerRests
     DEF OInv, Places, CleanupCallings, TrackerCallings, Phases, Serve, Untouched, vars, requestVs, streamVs,
         Cleanup!Finished, Tracker!Finished
<1> QED
  BY <1>1, AdmittedStep, UndoneStep, JsonEndsStep, AnsweredStep, OuterFinallyStep,
     SetupFailsStep, OpenSucceedsStep, StreamsStep, ReadEndsStep, SendFailsStep,
     CleanupReturnsStep, ResponseEndsStep, FinalizerCallsStep, FinalizerReturnsStep,
     CancelOwnerStep, CloseUpstreamStep, TeardownEndsStep, LeaveTrackerStep
     DEF Next, Progress

\* The reservation of a request is given back at most once and, when everything is over,
\* exactly once, whichever owners called the cleanup and whichever were cancelled
\* (exit_request_tracker and close_resources, each behind a CancellationResistantCleanup).
THEOREM ReleasesExactlyOnce == Spec => []ReleasedExactlyOnce
<1>1. OInv => ReleasedExactlyOnce
  BY DEF OInv, Phases, ReleasedExactlyOnce
<1> QED BY InitOInv, NextOInv, <1>1, PTL DEF Spec

\* While the upstream stream is open its request is still counted, so that no switch puts
\* the model to sleep under it (the cleanup closes the upstream before it leaves the tracker).
THEOREM OpenStreamsAreReserved == Spec => []OpenStreamReserved
<1>1. OInv => OpenStreamReserved
  BY DEF OInv, Phases, OpenStreamReserved, Untouched
<1> QED BY InitOInv, NextOInv, <1>1, PTL DEF Spec

\* When the request and its tasks are over no upstream stream is open, on any path:
\* failure to open, end of stream, client gone, cancellation, finalizer.
THEOREM StreamsAreClosed == Spec => []NoStreamLeftOpen
<1>1. OInv => NoStreamLeftOpen
  BY DEF OInv, Phases, NoStreamLeftOpen
<1> QED BY InitOInv, NextOInv, <1>1, PTL DEF Spec

\* A cancellation that reached an owner while it waited is never swallowed: that owner
\* ends cancelled, or with the error of the cleanup, once the request is over.
THEOREM CancellationsSurface == Spec => []CancellationSurfaces
<1>1. OInv => CancellationSurfaces
  <2> SUFFICES ASSUME OInv, serve = "done" PROVE CancellationSurfaces
    BY DEF CancellationSurfaces
  <2>1. ASSUME NEW c \in CleanupCallers, c \in cleanup_noted
        PROVE  cleanup_caller[c] \in {"cancelled", "raised"}
    BY <2>1 DEF OInv, CleanupCallings, TrackerCallings, CleanupGood, Cleanup!CleanupTypeOK, Cleanup!CallerStates,
                Cleanup!OutcomeFaithful, CleanupCallers
  <2>2. ASSUME NEW c \in TrackerCallers, c \in tracker_noted
        PROVE  tracker_caller[c] \in {"cancelled", "raised"}
    BY <2>2 DEF OInv, CleanupCallings, TrackerCallings, TrackerGood, Tracker!CleanupTypeOK, Tracker!CallerStates,
                Tracker!OutcomeFaithful, TrackerCallers
  <2> QED BY <2>1, <2>2 DEF CancellationSurfaces
<1> QED BY InitOInv, NextOInv, <1>1, PTL DEF Spec

-----------------------------------------------------------------------------
(***************************************************************************)
(* What StreamOwnership implements.                                        *)
(***************************************************************************)

\* What a step leaves alone of the stay of the request in the tracker.
StaySame ==
  /\ UNCHANGED <<releases, enter_cancelled>>
  /\ serve = "entered" <=> serve' = "entered"
  /\ tracker_task = "none" <=> tracker_task' = "none"

\* The step that leaves the switch lock.
StayLeft ==
  /\ releases = 0 /\ UNCHANGED <<releases, enter_cancelled>>
  /\ serve = "entered" /\ serve' # "entered"
  /\ enter_cancelled <=> tracker_task' # "none"

\* The step with which the proxying ends.
StayEnded ==
  /\ releases = 0 /\ UNCHANGED <<releases, enter_cancelled>>
  /\ serve # "entered" /\ serve' # "entered"
  /\ tracker_task = "none" /\ tracker_task' # "none"

\* The step that leaves the tracker.
StayExited ==
  /\ releases = 0 /\ releases' = 1 /\ UNCHANGED enter_cancelled
  /\ serve # "entered" /\ serve' # "entered"
  /\ tracker_task # "none"

\* The first kind is a stutter of ModelSwitch.
LEMMA SameIsStutter == ASSUME StaySame PROVE UNCHANGED Stay!vars
BY DEF StaySame, Held, Stay!vars, Stay!tasks, Stay!locals, Stay!backends

\* The second is its LeaveSwitchLock, of a cancelled or of an admitted request.
LEMMA LeftIsLeave == ASSUME StayLeft, enter_cancelled \in BOOLEAN PROVE Stay!LeaveSwitchLock("request")
<1>1. CASE enter_cancelled
  BY <1>1 DEF StayLeft, Held, Stay!LeaveSwitchLock, Stay!GoTo, Stay!locals, Stay!backends
<1>2. CASE ~enter_cancelled
  BY <1>2 DEF StayLeft, Held, Stay!LeaveSwitchLock, Stay!GoTo, Stay!locals, Stay!backends
<1> QED BY <1>1, <1>2

\* The third is its ProxyEnds.
LEMMA EndedIsEnd == ASSUME StayEnded PROVE Stay!ProxyEnds("request")
BY DEF StayEnded, Held, Stay!ProxyEnds, Stay!GoTo, Stay!locals, Stay!backends

\* The fourth is its ExitTracker: the count of the model goes from one to zero.
LEMMA ExitedIsExit == ASSUME StayExited PROVE Stay!ExitTracker("request")
<1> DEFINE counts(n) == [m \in {"model"} |-> n]
           at(p)     == [r \in {"request"} |-> p]
<1>1. counts(1 - releases)' = [counts(1 - releases) EXCEPT !["model"] = @ - 1]
  BY DEF StayExited
<1>2. at("exiting")["request"] = "exiting" /\ at("model")["request"] = "model"
  OBVIOUS
<1>3. \A p, q : at(q) = [at(p) EXCEPT !["request"] = q]
  OBVIOUS
<1>4. \A C : C \subseteq {"request"} => C \ {"request"} = {}
  OBVIOUS
<1>5. releases = 0 /\ releases' = 1 /\ enter_cancelled' = enter_cancelled
      /\ serve # "entered" /\ serve' # "entered" /\ tracker_task # "none"
  BY DEF StayExited
<1>6. Held /\ ~Held'
  BY <1>5 DEF Held
<1> QED
  BY <1>1, <1>2, <1>3, <1>4, <1>5, <1>6 DEF Stay!ExitTracker, Stay!Finish, Stay!locals, Stay!backends

\* The task of the exit changes only when it is called for the first time or ends.
LEMMA CleanupTaskKept ==
  /\ \A c \in TrackerCallers : Tracker!Call(c) => tracker_task' # "none"
  /\ \A c \in TrackerCallers : Tracker!Call(c) /\ tracker_task # "none" => tracker_task' = tracker_task
  /\ \A c : Tracker!Resume(c) \/ Tracker!Cancel(c) => tracker_task' = tracker_task
  /\ UNCHANGED trackerVs => tracker_task' = tracker_task
BY DEF Tracker!Call, Tracker!Resume, Tracker!Cancel, Tracker!Finished, trackerVs

\* Every step is one of the four.
LEMMA StayStep ==
  ASSUME OInv, [Next]_vars
  PROVE  StaySame \/ StayLeft \/ StayEnded \/ StayExited
<1>1. CASE Admitted
  BY <1>1, CleanupTaskKept DEF Admitted, GoTo, StayLeft, OInv, Places, Phases, Untouched, TrackerCallers, streamVs
<1>2. CASE JsonEnds
  BY <1>2, CleanupTaskKept DEF JsonEnds, GoTo, StayEnded, OInv, Phases, Untouched, TrackerCallers, streamVs
<1>3. CASE CloseUpstream
  BY <1>3, CleanupTaskKept DEF CloseUpstream, StayEnded, OInv, Phases, Untouched, TrackerCallers, requestVs
<1>4. CASE LeaveTracker
  BY <1>4 DEF LeaveTracker, Tracker!Finish, StayExited, OInv, Phases, Untouched, requestVs
<1>5. CASE Undone
  BY <1>5, CleanupTaskKept DEF Undone, GoTo, StaySame, streamVs
<1>6. CASE Answered
  BY <1>6, CleanupTaskKept DEF Answered, GoTo, StaySame, streamVs
<1>7. CASE OuterFinally
  BY <1>7, CleanupTaskKept DEF OuterFinally, GoTo, StaySame, streamVs, TrackerCallers, OInv, Phases
<1>8. CASE SetupFails \/ OpenSucceeds \/ Streams \/ ReadEnds \/ SendFails \/ CleanupReturns \/ ResponseEnds
  BY <1>8, CleanupTaskKept
     DEF SetupFails, OpenSucceeds, Streams, ReadEnds, SendFails, CleanupReturns, ResponseEnds,
         CallCleanup, GoTo, StaySame, streamVs
<1>9. CASE FinalizerCalls \/ FinalizerReturns
  BY <1>9, CleanupTaskKept DEF FinalizerCalls, FinalizerReturns, CallCleanup, StaySame, requestVs
<1>10. CASE CancelOwner
  BY <1>10, CleanupTaskKept DEF CancelOwner, StaySame, requestVs, streamVs
<1>11. CASE TeardownEnds
  BY <1>11, CleanupTaskKept DEF TeardownEnds, StaySame, requestVs
<1>12. CASE UNCHANGED vars
  BY <1>12, CleanupTaskKept DEF StaySame, vars, requestVs
<1> QED BY <1>1, <1>2, <1>3, <1>4, <1>5, <1>6, <1>7, <1>8, <1>9, <1>10, <1>11, <1>12 DEF Next, Progress

\* Streaming ownership implements the part of ModelSwitch that it details: seen through
\* the reservation, everything the owners and their tasks do between the admission of a
\* request and the release of its model is LeaveSwitchLock, then ProxyEnds, then
\* ExitTracker, each once and in this order.
THEOREM StreamsAreStays == Spec => ImplementsStay
<1> DEFINE S == \/ Stay!LeaveSwitchLock("request")
                \/ Stay!ProxyEnds("request")
                \/ Stay!ExitTracker("request")
<1>1. OInv /\ [Next]_vars => [S]_(Stay!vars)
  <2> SUFFICES ASSUME OInv, [Next]_vars PROVE S \/ UNCHANGED Stay!vars
    OBVIOUS
  <2>1. enter_cancelled \in BOOLEAN
    BY DEF OInv, Places
  <2> QED BY <2>1, StayStep, SameIsStutter, LeftIsLeave, EndedIsEnd, ExitedIsExit
<1> QED BY InitOInv, NextOInv, <1>1, PTL DEF Spec, ImplementsStay

\* The cleanup of a stream is used as CachedCleanup says: every step of StreamOwnership
\* is a call, a cancellation, a resumption or an end of that one task, or leaves it alone
\* (the cleanup around close_resources, called by setup, iterator, response and finalizer).
THEOREM StreamCleanupIsCached == Spec => Cleanup!CleanupSpec
<1>1. Init => Cleanup!CleanupInit
  BY DEF Init
<1>2. [Next]_vars => [Cleanup!CleanupNext]_(Cleanup!cleanupVars)
  <2> SUFFICES ASSUME [Next]_vars PROVE Cleanup!CleanupNext \/ UNCHANGED Cleanup!cleanupVars
    OBVIOUS
  <2>1. CASE UNCHANGED cleanupVs
    BY <2>1 DEF cleanupVs, Cleanup!cleanupVars
  <2>2. CASE \E c \in CleanupCallers : Cleanup!Call(c) \/ Cleanup!Cancel(c) \/ Cleanup!Resume(c)
    BY <2>2 DEF Cleanup!CleanupNext
  <2>3. CASE TeardownEnds
    BY <2>3 DEF TeardownEnds, Cleanup!CleanupNext
  <2>4. CASE CleanupReturns
    BY <2>2, <2>4 DEF CleanupReturns, CleanupCallers
  <2>5. CASE SetupFails \/ ReadEnds \/ SendFails \/ ResponseEnds \/ FinalizerCalls
    <3>1. \E c \in CleanupCallers : CallCleanup(c)
      BY <2>5 DEF SetupFails, ReadEnds, SendFails, ResponseEnds, FinalizerCalls, CleanupCallers
    <3> QED BY <2>2, <3>1 DEF CallCleanup
  <2>6. CASE FinalizerReturns
    BY <2>2, <2>6 DEF FinalizerReturns, CleanupCallers
  <2>7. CASE CancelOwner
    BY <2>1, <2>2, <2>7 DEF CancelOwner, CleanupCallers
  <2>8. CASE \/ Admitted \/ Undone \/ JsonEnds \/ Answered \/ OuterFinally \/ OpenSucceeds
             \/ Streams \/ CloseUpstream \/ LeaveTracker \/ UNCHANGED vars
    BY <2>1, <2>8 DEF Admitted, Undone, JsonEnds, Answered, OuterFinally, OpenSucceeds, Streams,
                      CloseUpstream, LeaveTracker, vars
  <2> QED BY <2>3, <2>4, <2>5, <2>6, <2>7, <2>8 DEF Next, Progress
<1> QED BY <1>1, <1>2, PTL DEF Spec, Cleanup!CleanupSpec

\* So is the exit of the tracker, called by the cleanup and by the paths without one
\* (tracker_cleanup).
THEOREM StreamTrackerIsCached == Spec => Tracker!CleanupSpec
<1>1. Init => Tracker!CleanupInit
  BY DEF Init
<1>2. [Next]_vars => [Tracker!CleanupNext]_(Tracker!cleanupVars)
  <2> SUFFICES ASSUME [Next]_vars PROVE Tracker!CleanupNext \/ UNCHANGED Tracker!cleanupVars
    OBVIOUS
  <2>1. CASE UNCHANGED trackerVs
    BY <2>1 DEF trackerVs, Tracker!cleanupVars
  <2>2. CASE \E c \in TrackerCallers : Tracker!Call(c) \/ Tracker!Cancel(c) \/ Tracker!Resume(c)
    BY <2>2 DEF Tracker!CleanupNext
  <2>3. CASE LeaveTracker
    BY <2>3 DEF LeaveTracker, Tracker!CleanupNext
  <2>4. CASE Admitted \/ Undone \/ JsonEnds \/ Answered \/ OuterFinally
    BY <2>1, <2>2, <2>4 DEF Admitted, Undone, JsonEnds, Answered, OuterFinally, TrackerCallers
  <2>5. CASE CloseUpstream \/ TeardownEnds
    BY <2>2, <2>5 DEF CloseUpstream, TeardownEnds, TrackerCallers
  <2>6. CASE CancelOwner
    BY <2>1, <2>2, <2>6 DEF CancelOwner, TrackerCallers
  <2>7. CASE \/ SetupFails \/ ReadEnds \/ SendFails \/ ResponseEnds \/ FinalizerCalls
             \/ OpenSucceeds \/ Streams \/ CleanupReturns \/ FinalizerReturns \/ UNCHANGED vars
    BY <2>1, <2>7 DEF SetupFails, ReadEnds, SendFails, ResponseEnds, FinalizerCalls, CallCleanup,
                      OpenSucceeds, Streams, CleanupReturns, FinalizerReturns, vars
  <2> QED BY <2>3, <2>4, <2>5, <2>6, <2>7 DEF Next, Progress
<1> QED BY <1>1, <1>2, PTL DEF Spec, Tracker!CleanupSpec

=============================================================================
