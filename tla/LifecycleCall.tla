----------------------------- MODULE LifecycleCall -----------------------------
(***************************************************************************)
(* One transition of one backend: VLLMClient._transition_and_wait and what *)
(* it calls, alone or inside the router's own try statement.               *)
(*                                                                         *)
(* Up to three asyncio timeouts are nested around an await: the router's,  *)
(* the client's and the poll's.  A timeout that expires cancels the task,  *)
(* as anybody else may, and the task counts its cancellations.  The        *)
(* CancelledError is raised at the await and travels outward without       *)
(* another await: each timeout that it leaves takes its own cancellation   *)
(* back and makes a TimeoutError of it when none is left, and each except  *)
(* clause on the way does what it does with the class it catches.  An      *)
(* outer timeout has been started before an inner one and lasts as long,   *)
(* so it never expires after it.  Time is discrete, and does not pass      *)
(* while the event loop has an expired timer or a cancellation to handle.  *)
(***************************************************************************)
EXTENDS Naturals

CONSTANTS
  Timeouts,   \* the values of timeout_s
  Interval,   \* poll_interval_s
  MaxCancels, \* bound: cancellations of the task from outside
  NONE        \* no latency

ASSUME TimeoutsAssumption == Timeouts \subseteq Nat
ASSUME IntervalAssumption == Interval \in Nat
ASSUME NoneAssumption     == NONE \notin Nat

VARIABLES
  timeout,    \* timeout_s
  routed,     \* is the router around the call?
  now,
  done,       \* is the backend in the state asked for?
  pc,
  latency,    \* the variable latency: when the POST was answered
  resume,     \* when asyncio.sleep returns
  expired,    \* the timeouts that have expired
  cancels,    \* how often the task has been cancelled from outside
  cancelling, \* task.cancelling()
  result

interruptVars == <<expired, cancels, cancelling>>
callVars == <<timeout, routed, now, done, pc, latency, resume, interruptVars, result>>

-----------------------------------------------------------------------------

Times == Nat \cup {NONE}

Layers == {"router", "client", "poll"}

\* What travels outward: the class of the exception, its transition_latency_s,
\* the latency that the router adds to the metrics, and the cancellations that
\* the task still counts.
Flights == [kind : {"cancelled", "timeout", "client"}, latency : Times, recorded : Times,
            count : Nat]

\* How the call ended, for its caller or, inside the router, for the switch.
Results == [kind : {"ok", "cancelled", "client"}, latency : Times, recorded : Times, count : Nat]

CallTypeOK ==
  /\ timeout \in Timeouts
  /\ routed \in BOOLEAN
  /\ now \in Nat
  /\ done \in BOOLEAN
  /\ pc \in {"post", "poll", "pause", "ended"}
  /\ latency \in Times
  /\ resume \in Nat
  /\ expired \in SUBSET Layers
  /\ cancels \in Nat
  /\ cancelling \in Nat
  /\ result \in Results \cup {NONE}

CallInit ==
  /\ timeout \in Timeouts
  /\ routed \in BOOLEAN
  /\ now = 0
  /\ done = FALSE
  /\ pc = "post"
  /\ latency = NONE
  /\ resume = 0
  /\ expired = {}
  /\ cancels = 0
  /\ cancelling = 0
  /\ result = NONE

-----------------------------------------------------------------------------

\* Mutant of Around: the HTTP client's timeouts, each of one read or write, are
\* relied upon for the POST.
AroundPolls ==
  (IF routed THEN {"router"} ELSE {}) \cup (IF pc = "poll" THEN {"client", "poll"} ELSE {})

\* The timeouts around the await.
Around ==
  (IF routed THEN {"router"} ELSE {}) \cup {"client"} \cup (IF pc = "poll" THEN {"poll"} ELSE {})

\* The deadline of wait_until_sleeping is counted from the POST's answer.
PollDeadline == latency + timeout

\* Mutant of Deadline: the POST and its polls have a budget each.
DeadlineEach(layer) ==
  IF layer = "router" \/ latency = NONE THEN timeout ELSE PollDeadline

Deadline(layer) == IF layer = "poll" THEN PollDeadline ELSE timeout

Outer(layer) ==
  CASE layer = "poll"   -> Around \cap {"router", "client"}
    [] layer = "client" -> Around \cap {"router"}
    [] layer = "router" -> {}

Interrupted == expired # {} \/ cancels > 0

\* The answers and the ends of a sleep are seen by a task that is not to be
\* cancelled.
Awaiting(place) == pc = place /\ ~Interrupted

-----------------------------------------------------------------------------
(***************************************************************************)
(* An exception on its way outward.                                        *)
(***************************************************************************)

Raise(kind) == [kind |-> kind, latency |-> NONE, recorded |-> NONE, count |-> cancelling]

\* asyncio.timeout.__aexit__.  No timeout here is entered by a task that has
\* been cancelled, so the count it compares with is 0.
TimeoutExit(layer, f) ==
  IF layer \notin expired THEN f
  ELSE [kind |-> IF f.kind = "cancelled" /\ f.count - 1 <= 0 THEN "timeout" ELSE f.kind,
        latency |-> f.latency, recorded |-> f.recorded, count |-> f.count - 1]

\* The except clause of wait_until_sleeping: an error without a latency.  A
\* poll's timeout does not expire alone inside _transition_and_wait.
PollExcept(f) == IF f.kind = "timeout" THEN [f EXCEPT !.kind = "client"] ELSE f

\* Mutant of ClientExcept: an error of the polls is raised again as it is.
ClientExceptBare(f, measured) ==
  IF f.kind = "timeout" THEN [f EXCEPT !.kind = "client", !.latency = measured] ELSE f

\* The except clauses of _transition_and_wait.
ClientExcept(f, measured) ==
  CASE f.kind = "timeout"   -> [f EXCEPT !.kind = "client", !.latency = measured]
    [] f.kind = "client"    -> IF measured # NONE /\ f.latency = NONE
                               THEN [f EXCEPT !.latency = measured] ELSE f
    [] f.kind = "cancelled" -> f

\* Mutant of RouterExcept: whatever ends the transition is its timeout.
RouterExceptAny(f) == [f EXCEPT !.recorded = f.latency, !.kind = "client"]

\* The router's clause: except BaseException.  A TimeoutError has no latency,
\* nor has the VLLMClientError that it becomes.
RouterExcept(f) ==
  [kind |-> IF f.kind = "timeout" THEN "client" ELSE f.kind,
   latency |-> f.latency, recorded |-> f.latency, count |-> f.count]

\* What is left of the exception f, raised at the await, outside everything.
Outward(f, measured) ==
  LET polled == IF pc = "poll" THEN PollExcept(TimeoutExit("poll", f)) ELSE f
      raised == ClientExcept(TimeoutExit("client", polled), measured)
  IN IF routed THEN RouterExcept(TimeoutExit("router", raised)) ELSE raised

End(outcome) ==
  /\ pc' = "ended"
  /\ result' = outcome
  /\ cancelling' = outcome.count

\* VLLMClientError is raised by what the task does next.
Fail(measured) == End(Outward(Raise("client"), measured))

\* The router adds the latency to its metrics.
Returned ==
  [kind |-> "ok", latency |-> latency, recorded |-> IF routed THEN latency ELSE NONE,
   count |-> cancelling]

\* The call goes on at the await place.
GoOn(place) == pc' = place /\ UNCHANGED <<result, cancelling>>

-----------------------------------------------------------------------------

\* The POST is executed, by the time it is answered or later.
Execute ==
  /\ ~done
  /\ done' = TRUE
  /\ UNCHANGED <<timeout, routed, now, pc, latency, resume, interruptVars, result>>

\* sleep, wake_up
PostAnswered ==
  /\ Awaiting("post")
  /\ latency' = now
  /\ IF timeout > 0 THEN GoOn("poll") ELSE Fail(now)
  /\ UNCHANGED <<timeout, routed, now, done, resume, expired, cancels>>

\* A transport error, an answer that is not a success, or no boolean in it.
CallFails ==
  /\ Awaiting("post") \/ Awaiting("poll")
  /\ Fail(latency)
  /\ UNCHANGED <<timeout, routed, now, done, latency, resume, expired, cancels>>

PollAgrees ==
  /\ Awaiting("poll")
  /\ done
  /\ End(Returned)
  /\ UNCHANGED <<timeout, routed, now, done, latency, resume, expired, cancels>>

Earlier(s, t) == IF s < t THEN s ELSE t

PollDisagrees ==
  /\ Awaiting("poll")
  /\ ~done
  /\ IF now < PollDeadline
     THEN GoOn("pause") /\ resume' = Earlier(now + Interval, PollDeadline)
     ELSE Fail(latency) /\ UNCHANGED resume
  /\ UNCHANGED <<timeout, routed, now, done, latency, expired, cancels>>

PauseEnds ==
  /\ Awaiting("pause")
  /\ now >= resume
  /\ IF now < PollDeadline THEN GoOn("poll") ELSE Fail(latency)
  /\ UNCHANGED <<timeout, routed, now, done, latency, resume, expired, cancels>>

-----------------------------------------------------------------------------

Due(layer) ==
  /\ pc # "ended"
  /\ layer \in Around \ expired
  /\ now >= Deadline(layer)

\* Timeout._on_timeout
Expire(layer) ==
  /\ Due(layer)
  /\ Outer(layer) \subseteq expired
  /\ expired' = expired \cup {layer}
  /\ cancelling' = cancelling + 1
  /\ UNCHANGED <<timeout, routed, now, done, pc, latency, resume, cancels, result>>

\* A client that disconnects, or the server that stops.
CancelTask ==
  /\ pc # "ended"
  /\ cancels < MaxCancels
  /\ cancels' = cancels + 1
  /\ cancelling' = cancelling + 1
  /\ UNCHANGED <<timeout, routed, now, done, pc, latency, resume, expired, result>>

\* CancelledError reaches the await.
Interrupt ==
  /\ pc # "ended"
  /\ Interrupted
  /\ End(Outward(Raise("cancelled"), latency))
  /\ UNCHANGED <<timeout, routed, now, done, latency, resume, expired, cancels>>

\* Time passes as far as the property looks.
Tick ==
  /\ pc # "ended"
  /\ ~Interrupted
  /\ \A layer \in Layers : ~Due(layer)
  /\ now <= timeout
  /\ now' = now + 1
  /\ UNCHANGED <<timeout, routed, done, pc, latency, resume, interruptVars, result>>

-----------------------------------------------------------------------------

CallNext ==
  \/ Execute
  \/ PostAnswered
  \/ CallFails
  \/ PollAgrees
  \/ PollDisagrees
  \/ PauseEnds
  \/ \E layer \in Layers : Expire(layer)
  \/ CancelTask
  \/ Interrupt
  \/ Tick

CallSpec == CallInit /\ [][CallNext]_callVars

\* The event loop runs and the clock advances; no answer has to come.
FairCallSpec ==
  /\ CallSpec
  /\ WF_callVars(Tick)
  /\ WF_callVars(Interrupt)
  /\ \A layer \in Layers : WF_callVars(Expire(layer))

-----------------------------------------------------------------------------

\* "Run one lifecycle request and its post-condition under one deadline"
\* (controller/vllm_client.py:163): however the time is spent on the POST, the
\* polls and the pauses, the call does not outlast timeout_s.
EndsByDeadline == now <= timeout

\* Once the POST has been answered its latency is lost only to a cancellation
\* or to the router's own timeout: any other end, wherever it was raised,
\* carries it through the except clauses, and the router's metrics have it.
\* Nothing is reported of a POST that was not answered.
LatencyKept ==
  pc = "ended" /\ result.kind # "cancelled" /\ "router" \notin expired =>
    /\ result.latency = latency
    /\ routed => result.recorded = latency

\* A call ends as cancelled exactly when it was cancelled from outside: a
\* timeout that expires at the same moment never makes an error of it, which
\* would be answered as 502, and timeouts alone never cancel the request,
\* however many expire together.  Nor does a TimeoutError come out, which
\* nobody answers as 502.  What the timeouts added to the task's count of
\* cancellations they have taken back.
CancellationWins ==
  pc = "ended" => /\ result.kind = "cancelled" <=> cancels > 0
                  /\ result.kind # "timeout"
                  /\ cancelling = cancels

\* The call ends although nothing is ever answered.
CallEnds == <>(pc = "ended")

=============================================================================
