# Verification of the vLLM model switch controller

TLA+ models of the controller, the TLC configurations that check them on small
instances, and theorems about them that TLAPS checks for every value of the
constants. Paths below are relative to the repository, which the models call
`src/`.

## 1. Inventory

The controller is one Python process with one event loop (FastAPI, asyncio). It
stands in front of several vLLM servers that share one GPU, of which at most
one should be awake. All its state is in memory.

| component | source | state | operations |
|---|---|---|---|
| lifecycle state | `controller/state.py` | per alias one of six states, `active_model`, `startup_reconciled`, `switch_lock`, request counts | `mark_*`, `track_request`, drain |
| switching policies | `controller/policies.py` | none | `decide` |
| switching and reservation | `controller/router.py` | the tasks of the requests, the locals of the lock holder | `/v1/*`, `/admin/switch/{model}`, `ensure_model_ready_locked` |
| streaming ownership | `controller/router.py` (`stream_response`, `CancellationResistantCleanup`) | who must run the cleanup, one cached task | setup, iteration, disconnect |
| lifecycle client | `controller/vllm_client.py` | one deadline per call | POST and polls of `/is_sleeping` |
| CPU backup coordinator | `controller/backup_pool.py`, `controller/schemas.py` | one record per worker: usage, pending and cumulative totals; an epoch | register, usage, release, release-requests |
| its workers | another program, over HTTP | storage, what of a total has been seen, releases | poll, execute, report, die |
| memory pressure monitor | `controller/memory_pressure.py` | NORMAL/RECLAIMING, sample count, cooldown | `evaluate_once`, every `poll_interval_s` |
| start and stop | `controller/main.py` | – | `create_app`, lifespan |
| pool launcher | `scripts/launch_vllm_pool.py` | processes started, ownership file | launch, prepare, unwind |
| pool stop, process identity | `scripts/stop_vllm_pool.py`, `controller/processes.py` | ownership file, `/proc` | verify, TERM, KILL |
| configuration, schemas, headers, metrics, smoke and validation scripts | `controller/config.py`, ... | none that decisions read | – |

How they interact:

* A request calls the policy, the lifecycle client and the lifecycle state
  under `switch_lock`, then the backend without it. What connects a request
  that runs with one that wants to switch is its *reservation*: a count per
  model, taken under the lock and given back when the answer or the stream ends.
* Backends are other processes. They execute POSTs that the controller has
  given up, crash, and are restarted, without telling.
* Workers report usage and ask for what they are to release. The answer is a
  cumulative total, so that a lost answer can be asked for again. The cap, the
  monitor and an operator add to the same totals.

Where it is hard, and what makes each component correct:

| component | what is hard | what must hold |
|---|---|---|
| switching and reservation | tasks interleave at every await; any of them may be cancelled at any of them; a transition fails half-way; a queue of waiters; streams that never end | reservations are exact; nothing is switched under a request; every failure is marked; requests of two models exclude each other; waiters get the lock |
| lifecycle state | the configured state is no observation; uncertain aliases | believed awake or asleep means it is, as far as backends do as told; one uncertain alias at most |
| streaming ownership | four parties that may have to clean up, some cancelled while they do | cleanup runs exactly once |
| lifecycle client | nested deadlines that expire together with each other and with cancellations; a POST that is executed after its deadline | one deadline for POST and polls; a cancellation stays one, a timeout never becomes one; the latency of an answered POST is reported |
| backup coordinator and workers | reports and answers lost, repeated and overtaken; both programs restart; storage that stops and starts being evictable; reallocation between reports; epochs | no byte is owed twice or forgotten; the cap is pursued and not exceeded in demands; victims in order |
| memory pressure | a counter shared by debounce and hysteresis; three sources of requests | reclaiming starts and stops exactly when it should; no demand without need; shortfall visible |
| launcher | failures half-way; leaders that die before their descendants; processes that ignore SIGTERM; POSTs that are answered before they take effect | all or nothing; one awake footprint at a time; nobody else is terminated; the unwinding ends |
| stop | reuse of process ids by the time of the stop and while it runs | the record outlives the pool; neither itself nor a reused leader signalled |

`PROJECT.json` lists each hazard at its line with the properties that cover it.

## 2. Modules

| module | models | role |
|---|---|---|
| `ControllerState` | `state.py` as a record and operators on it, `policies.py` | pure, used by `ModelSwitch` |
| `ModelSwitch` | `router.py`: `handle_openai_proxy`, `admin_switch`, `ensure_model_ready_locked`; request accounting; backends as environment | core state machine |
| `GroupExclusion` | what switching promises its requests | abstract specification, implemented by `ModelSwitch` |
| `CachedCleanup` | `CancellationResistantCleanup`, `wait_task_resisting_cancellation` | one cleanup with any number of owners |
| `StreamOwnership` | `router.py`: the end of `handle_openai_proxy`, `stream_response`, `CleanupStreamingResponse` | two `CachedCleanup`s of one request; implements what `ModelSwitch` says of a request on its backend |
| `LifecycleCall` | `vllm_client.py`: `_transition_and_wait`, `wait_until_sleeping`, under the router's timeout | one call with nested timeouts |
| `BackupPool` | `backup_pool.py` and its handlers | state machine |
| `MemoryPressure` | `memory_pressure.py` over `BackupPool` | composition |
| `BackupCoordinator` | `BackupPool` with its workers and the messages between them | composition under faults |
| `ProcessGroups` | Linux processes and groups, `processes.py` | environment of the two below |
| `PoolLauncher` | `prepare_pool` of `launch_vllm_pool.py` | state machine over `ProcessGroups` |
| `PoolStop` | `stop_vllm_pool.py` | state machine over `ProcessGroups` |
| `MC*` | – | instances for TLC, with their `.cfg` files |
| `*_proofs` | – | theorems |

### ModelSwitch

One action is what a task does between two awaits; nothing else on one event
loop can interleave. `pc[r]` says at which await a request is:

| action | code |
|---|---|
| `Arrive`, `CancelWaiting` | the queue of `switch_lock`, a first-come asyncio lock |
| `AcquireLock` | the lock is got; the aliases to observe are found; if there are none, on to the decision |
| `ObserveSleeping`, `ProbeFails` | one `/is_sleeping` of a reconciliation pass, startup or later, with the barrier for several awake backends after the last one |
| `DrainDone`, `DrainFails` | `wait_for_other_model_requests_to_finish` under its deadline |
| `SleepDone`, `SleepFails`, `WakeDone`, `WakeFails` | the lifecycle calls, their commits and their `except BaseException` |
| `EnterTracker`, `CancelEntering`, `LeaveSwitchLock` | the enter task, a cancellation noted meanwhile, the end of `async with switch_lock` |
| `ProxyEnds`, `ExitTracker` | answer or stream ends; the cleanup gives the reservation back |
| `BackendExecutes`, `LateExecutes`, `DriftBackend` | the backends |
| `Restart` | a new process: all controller state is lost, backends keep theirs, a POST under way may still be executed |

What is abstracted:

* Time. A deadline may expire, a call may fail and a client may disconnect at
  any await, which includes every run in which they do so at their time.
* Both reconciliation passes are one loop, and the order of the probes is
  arbitrary (the code goes by name).
* A stream and a JSON answer are one stay on the backend (`proxying`), whose
  end `StreamOwnership` has in detail.
* A POST given up may be executed at any later time, or never (`late`, a set:
  two equal POSTs given up are one).
* A task that has ended is used for the next request, so runs are infinite
  although `Requests` is finite.
* Requests rejected before they queue (400, 404) change nothing and are left
  out.

### CachedCleanup and StreamOwnership

`CachedCleanup` has one action for a caller that comes (`Call`), one for a
cancellation that reaches it at its await (`Cancel`), one for its resumption
once the task is over (`Resume`), and the end of the task (`Finish`).
`StreamOwnership` instantiates it twice, for the cleanup of the stream and for
that of the reservation, and follows one request from the end of the tracker's
enter to the end of its response. `serve` says at which await the request is;
the callers of the cleanups are named after the place of their call. The code's
`tracker_cleanup = None`, which hands the reservation over before the stream is
set up, is the step `Admitted`; `CloseUpstream` is the `try ... finally` of
`close_resources`. External are three facts about the framework, listed at the
top of the module; the one that matters is that the response a handler
returns is called without an await in between. The iterator that is left
suspended and closed later by the event loop is an owner of its own
(`finalizer`).

`Stay` is `ModelSwitch` with one request that is on its backend; `ImplementsStay`
says that each step here is a step of it or none.

### LifecycleCall

Time is discrete and stands still while a timer has expired or a cancellation
is to be delivered, which is how asyncio's timeouts are meant to work. A timeout that
expires cancels the task (`Expire`), and so may anybody else (`CancelTask`); the task counts
both (`cancelling`). The `CancelledError` reaches the await (`Interrupt`) and from there the
outside without another await, so the way is one step, but each place on it is
an operator of its own, and `Outward` composes them in the order of the code: `TimeoutExit` is
`asyncio.timeout.__aexit__`, which takes the timeout's own cancellation back and raises
`TimeoutError` only if none is left; `PollExcept`, `ClientExcept` and `RouterExcept` are the except
clauses of `wait_until_sleeping`, of `_transition_and_wait` (two: one passes the latency of the
POST, the other adds it if it is missing) and of the router (which reads the latency for
the metrics and turns a `TimeoutError` into a `VLLMClientError`). An error that the client
itself raises goes the same way (`Fail`).

A consequence, which the model has and no document
mentions: inside the router the router's timeout is always among the
expired ones, so that the client's `TimeoutError`, and with it the latency of the POST,
never reaches the router's metrics by that way. `LatencyKept` exempts it. Another is that
the poll's timeout never expires alone, since the client's was started before it
and lasts as long.

### BackupPool, MemoryPressure and BackupCoordinator

No handler awaits, so a request is one step; `evaluate_once` is one step too.

* A report keeps what the pool computes with: total bytes, evictable bytes,
  the cumulative release counter and the model. The validated accounting
  identity makes evictable at most total.
* A client without a record is a fresh record: all operations treat the two
  alike. Requests answered 409 or 422 change nothing and are no step.
* `updated_at` is an order of the records (`older`); two updates at the same
  time are left out, so the third sort key never decides.
* `low_run` is a history variable: the run of low samples, whatever the monitor
  makes of it. No action reads it; the debounce is stated on it.
* Reports carry the release counter. `BackupUsageRequest` requires it; the
  fallback for in-process callers without one is not modelled, nor are the
  binding to a pid and the stability of capabilities.
* Samples of memory are arbitrary, not tied to what workers release; whether
  the cooldown has passed is a free choice while one is running.
* `BackupCoordinator` adds what the protocol is for. A worker has bytes that
  are required and bytes that are evictable, executes the part of the cumulative
  total that it has not seen in the epoch of an answer (`ReceiveAnswer`,
  `Execute`), releases by itself (`Drop`), and dies; its next incarnation is another
  client. One answer and up to `MaxReports` reports of a worker are under way;
  each may be lost, and reports may be overtaken. `RestartController` begins a new
  epoch, and messages of the old one still arrive.

### ProcessGroups, PoolLauncher and PoolStop

A process id is given out again when no process has it and no group is named by
it, as Linux does; the n-th process with an id is told from the others by `start = n`.
A group lives on in its members when its leader has exited, a zombie can still be
read, and only its parent reaps it. `Environment` is everything other processes do.

In `PoolLauncher` every failure of `prepare_pool` (an exception, a deadline, a
cancellation) is `Fail`, at any place of the `try` statement. Then `TerminateGroup`,
`WaitLeader`, `WaitGroup`, `KillGroup`, `Poll` and `Raise` are the `except BaseException`.
A backend does what it was asked after it has answered (`Comply`), and a model may
be served by a process that the launcher did not start (`existing`). The code takes whatever
answers a model's URL for the model. `Serves` assumes that at the URL of a launched
model this is the leader it started, while it lives: a server that was left on the port, which would
pass the health check and answer the POSTs in its place, is excluded. `OneFootprint` and
`PublishedPrepared` rest on that; what is said of signals and of the unwinding does not.

In `PoolStop` what is read to verify one group is read in one step, and the signal
that follows is a step of its own. The variable `race` says whether other
processes may act between the two: it is chosen at the start and never read by the
command, so that a run covers both.

## 3. Checks

| run | question | outcome |
|---|---|---|
| `any` | Is the controller's own state coherent, and does switching implement `GroupExclusion`, whatever tasks, backends, cancellations and restarts do? 2 models, 3 requests, late POSTs, drifting backends | holds |
| `faithful` | If backends change only by the POST under way: is what the controller believes true, is one backend awake at most, does every request run on an awake one? Does every waiter get the lock, does every cancelled request end? 2 models, 3 requests | holds |
| `late` | Does "fails closed" hold when a POST is executed after it was given up? | refuted |
| `resident` | Does `always_awake_previous` keep backends resident? | refuted |
| `owners` | Is a request that ends anywhere between its reservation and its end, however often its owners are cancelled, torn down once and in the right order, and is all of this what `ModelSwitch` takes it to be? | holds |
| `deadline` | Does a lifecycle call end by its deadline, with the right outcome and latency, whichever of up to three timeouts and a cancellation come together? | holds |
| `pressure` | Is the cap pursued to the last evictable byte and in order; does the monitor start, stop and ask exactly when and for what it should; is nothing asked for twice, between reports, cap, monitor and operator? | holds |
| `shortfall` | Is a shortfall that no worker can make up reported? | refuted |
| `one` | With a worker that executes requests, and messages and processes that are lost: does anyone owe what the controller counts on, does no one owe a byte twice, is an obligation met? | holds |
| `launch` | Does a launch that fails anywhere stop and reap all it started and nothing else; has one that succeeds prepared every backend, one at a time? | holds |
| `stop` | Does the stop command spare itself and reused leaders, and does the record outlive the pool, while processes fork, exit and reuse ids? | holds |
| `vacated` | Does it spare every foreign process? | refuted |

The properties, and what each could break on:

* `ReservationsExact`: a count is the number of requests between enter and exit
  on the model. A cancellation during enter is the case to get wrong.
* `ReservedOnActive`: whoever has a reservation has it on the active, awake
  alias; in particular a drain cannot be left early, and no reconciliation moves
  `active_model` from under a stream.
* `OneUncertainModel`: after the startup pass no history of failures makes two
  aliases uncertain or awake. So the error "multiple awake backends observed
  during lifecycle reconciliation" of later passes is unreachable.
* `SettledWhenUnlocked`: every exit of a transition, the cancelled ones
  included, commits or marks the error before the lock is free.
* `DecisionFresh`: the decision taken before the drain is still the policy's
  after it. It is what a waiter that released a foreign lock would break.
* `RefinesGroupExclusion`: see `GroupExclusion`.
* `ControllerTruthful`, `AtMostOneAwake`, `ServedByAwakeBackend`: the
  controller against the backends themselves. `LockGranted`, `CancelledEnds`: a
  stream may last for ever, a waiter may not wait for ever.
* `ReleasedExactlyOnce`, `TornDown`: the reservation is given back once and in
  the end. `OpenStreamReserved`, `NoStreamLeftOpen`: the stream is closed before
  it, and never left. `CancellationSurfaces`: a cancellation that was waited out is
  still raised.
* `EndsByDeadline`, `CallEnds`: what a second budget for the polls or a timeout missing
  around the POST would break. `LatencyKept`: an error of a poll meets another except
  clause than the client's timeout, and the latency must come through both.
  `CancellationWins`: up to three timeouts cancel the task together with
  cancellations from outside; the request is cancelled exactly when somebody outside did it, and
  the count of cancellations is left as they made it. A timeout that does not take
  its own back, or an except clause that catches too much or too little, breaks it.
* `ObligationsKept`, `NoDuplicateBudget`, `CapPursued`, `VictimsInOrder`;
  `OnlyUnderPressure`, `RoundExhaustive`: storage that stops and
  starts being evictable between reports, and three sources of requests that
  must not add up.
* `DebouncedHysteresis`: the state against the samples themselves. Reclaiming starts with a full
  run of consecutive low samples, with every one, and stops only at the high
  watermark. Counting low samples that are not consecutive, or leaving at the low
  watermark, breaks it.
* `PendingIsOwed`: bytes that are pending but owed by nobody would be counted as
  resolved for ever. `NothingOwedTwice`: an answer that is repeated, or comes from
  an earlier controller, must not be executed again. `ObligationMet`: nor forgotten.
* `AllStopped`: descendants of a leader that died early, and processes that ignore
  SIGTERM. `SigtermSpared`: an id is not free before the launcher has reaped it, which is why it
  may not reap before it has signalled. `OneFootprint`, `PublishedPrepared`: the
  answer to a POST is not its effect. `UnwindingEnds`: each wait has its timeout.
* `RemovedOnlyWhenStopped`, `ReusedLeaderSpared`: the evidence for a group when it is
  verified and what is left of it at the signal. `SparesItself`: a recorded number that is
  now the command's own group.

Every property of a passing run is accompanied in `PROJECT.json` by a mutant of
the code's model, defined beside the original and marked *Mutant of*, that
violates it in that run.

### Bounds

* `ModelSwitch`: two models suffice for a switch in either direction. Three requests are the
  holder of the lock, one that runs on the previous model and one that waits.
  Nothing counts up, so there is no other bound. A third model is left to
  the theorems, which are for any number of models.
* `StreamOwnership` has no constants and nothing in it counts up: its run is
  exhaustive.
* `LifecycleCall`: timeouts 0, 1, 2 and 5 with an interval of 2 are shorter than, equal
  to and several times the interval, and the clock stops one step after the deadline. `MaxCancels` is 2: of the cancellations from
  outside, the count matters beside those of the three timeouts.
* `BackupPool`: two workers of two priorities; `MaxBytes` bounds the bytes of
  a report and `MaxReleased` the release counter, both in the actions. With a
  cap of 2 and at most 2 bytes each the pool can be under, at and over it,
  with one or both workers to ask. `requested_total` is not bounded by a guard:
  it cannot grow beyond what was released and what is pending.
* `MemoryPressure`: watermarks one byte apart make a sample below, between and
  above them; two low samples are needed, so that they may be interrupted, before and after the
  monitor reclaims.
* `BackupCoordinator`: one worker, one byte at a time released twice, two epochs and two
  reports under way: a repeated answer, an overtaken report and an
  answer of the earlier controller all occur. What happens between one worker and the
  controller is independent of the other workers but for how targets are divided, which
  `pressure` covers; the theorems are for any number.
* `ProcessGroups`: `MaxStarts` bounds how often an id is given out, per id. In `stop` four
  ids, twice each, are a pool of two groups, the command and its shell; in
  `launch` three ids of which one is used twice are a leader, a descendant or
  another leader, and a foreign process that gets the id of one that has died.
* Symmetry: requests, clients, process ids and names; in runs without liveness only,
  and only where no constant tells the elements apart.

Deadlock is not checked in `deadline`, `launch`, `stop`, `vacated` and `owners`: a call, a command and a
request come to an end.

### Fairness

* `ModelSwitch`: weak fairness of `Progress(r)`, what the controller does by
  itself for a request. The event loop runs every task that can run, and every
  await under the lock is under the switch deadline, so it ends in success or in
  an error. Nothing is assumed of clients, of backends, or of requests that run
  on a backend: a stream may last for ever, in which case the drain fails at its
  deadline (`DrainFails`) and gives up the lock. Without that deadline
  `LockGranted` is violated, which is its mutant.
* `StreamOwnership`: likewise; closing the upstream and leaving the tracker end. Nothing is
  assumed of a stream that is open, of the client, or of those who cancel.
* `LifecycleCall`: the clock advances, timers fire, cancellations are delivered. No answer
  has to come.
* `BackupCoordinator`: the worker polls, reports and releases for ever, and a
  message that is sent again and again arrives in the end (strong fairness of
  `ReceiveAnswer`, and of handling a report that is up to date). This is about the other
  program and the network; of the controller only that it answers.
* `PoolLauncher`: each wait of the unwinding has a timeout (`Unwind`). Nothing is
  assumed of processes.

## 4. Disagreements between code and documentation

* `always_awake_previous` delegates to the other policy and puts the previous
  backend to sleep (`controller/policies.py:54`), against
  `docs/configuration.md:54-55` (`resident`).
* A wake whose deadline expires may be executed after the probe that settles
  the alias's state, and two backends are awake, with one of them believed
  asleep (`late`). The model reaches this with no other fault. The controller
  cannot know; a later probe of a *believed asleep* alias is never made.
* `unresolved_pressure_bytes` counts pending bytes as resolved although they
  are pending on storage that has become required (`shortfall`), against
  `docs/cpu_backup_coordinator.md:283-284`. `over_cap_bytes` is computed
  likewise.
* The stop command accepts a recorded group number whose leader cannot be read.
  If the pool has ended, and a foreign session has been given the number and has lost
  its leader, its processes are signalled (`vacated`), against
  `docs/architecture.md:158-159`.

Not a disagreement, but worth knowing: a launch that fails at
its last statement, the message after the publication (`scripts/launch_vllm_pool.py:147`), stops the pool and
leaves the ownership record of it. The model has the step; the next launch removes the
record, and a stop command finds nothing to signal unless the numbers are
in use again.

## 5. Proofs

The theorems assume only what the modules' `ASSUME`s say: finite sets of
requests, clients and names, `NONE` and `NoCap` distinct from proper values, values of
configuration that pass its validation. Models are any set; requests, workers, processes and
owners any number.

`ModelSwitch_proofs`. No safety property of the controller is inductive by
itself: that a count is exact needs that an exit is of somebody inside, that a
decision is fresh needs that only the lock holder changes the state, and that
needs to know what holder and waiters are. The inductive invariant `IInv` has

* `LockInv`, `WaitersInv`, `TaskInv`: who holds the lock, who queues, and that
  everyone past the queue has a target and an observed pool;
* `ShapeInv`, `TransitInv`: the shape of the alias states once observed, one
  alias at most not asleep, and a transition only in the hands of a request;
* `HolderInv`: what the lock holder knows at each of its awaits (the models
  left to probe, that the decision is the policy's, whose state is in
  transition);
* `ReservedInv`, `ReservationsExact`: reservations are on the active model, and
  counted.

From it follow `TypeCorrect`, `CountsExact`, `ReservationsOnActive`,
`OneModelInDoubt`, `SettledBetweenHolders`, `DecisionStaysFresh`, and
`ImplementsGroupExclusion`: each step is `Admit` (`EnterTracker`), `Leave`
(`ExitTracker`), `Change`, `Restart` or a stutter of the abstract specification.
A change of `active_model` needs that nobody is inside: it happens in
steps of the lock holder, and `IInv` says that a holder which changes it has no
reservations to fear. `ModelsExcludeEachOther` is what that buys. All of this is for
backends that do what they like (`LateEffects` and `Drift` are any).

For `Faithful` backends, neither late nor drifting, `TruthInv` is added: what the
controller claims of a model is so. The point is that it claims nothing of a model in transition,
in error, or still to be probed, so that the only step of a backend, the POST under way,
makes no claim false; and a claim is made only from an answer, at a moment when the
backend has executed what was asked. `BeliefsAreTrue`, `OneBackendAwake` (with `ShapeInv`: one
model at most is not believed asleep) and `RequestsAreServed` (with `ReservedInv`)
follow. `late` shows that the assumption is needed.

`Awaits_proofs`. For `CachedCleanup` the number of starts follows the state of the task, and whoever
has ended has ended with its result (`TeardownStartsOnce`, `OwnersWaitForTeardown`).
For `LifecycleCall` the client's timeout is around every await, so that the
clock does not advance past it (`CallEndsByDeadline`), for any timeouts
and any interval. `Underway` says that until the end the task counts the
cancellations from outside and one for each expired timeout, all of them around the await;
so the exits take back exactly the timeouts' (`InterruptOutside`, by the clauses in the order
they are met), and `CancellationsWin` and `LatencyIsKept` follow for any
number of cancellations.

For `StreamOwnership` nothing that the run checks is inductive, since it says nothing
of which task runs while the request is where. `OInv` adds

* `Phases`: how far the cleanup and the exit of the tracker are, against the position of the
  request; in particular the cleanup waits for the exit, and the releases count the exit;
* `CleanupCallings`, `TrackerCallings`: a caller waits exactly while its code is inside the
  await, so that a cancellation finds the owner it is meant for;
* `CleanupGood`, `TrackerGood`: what `CachedCleanup` promises of each of its two instances.

From it: `ReleasesExactlyOnce`, `OpenStreamsAreReserved`, `StreamsAreClosed`,
`CancellationsSurface`. `StreamsAreStays` is the refinement: by `StayStep` every step
leaves what `ModelSwitch` sees of the request alone, or is its `LeaveSwitchLock`, `ProxyEnds`
or `ExitTracker`. `StreamCleanupIsCached` and `StreamTrackerIsCached` are the refinement in the other
direction: both tasks are used as `CachedCleanup` specifies, so that its theorems hold of them.

`BackupPool_proofs`. `IInv`, that is `TypeOK /\ ObligationsKept`, is inductive. Its lemmas say
what one client's record does under a report (`AcknowledgeSound`) and under a
request (`AskedSound`), and `Clientwise` lifts them to all records. From it:
`PoolTypeCorrect`, `ObligationsAreKept`, and `BudgetsAreNotDuplicated`, an action property.

The cap and the order of the victims are about all records together, and need two things more.

* Sums. The community modules define the sum over a set recursively. `SetInduction` is
  induction over the subsets of a finite set with the predicate given as a *set*, from
  the well-foundedness of the strict subset relation, so that no theorem with an operator
  parameter is needed; from it, that the recursive function exists (`SumExists`), and what
  a sum does when an element is added or removed, when a term grows, and over a union.
* Rounds. One `request_release_bytes(target)` asks nobody out of turn (`RoundInOrder`),
  asks for at most the target (`RoundBounded`), and ends with the target asked for or
  nobody left (`RoundExhausts`). This needs that the candidates are ordered: `Ages` says
  that `older` is a strict order, total on the clients with anything to release.

`RInv` is `IInv /\ Ages /\ CapPursued`; the delicate step is a request of the operator, which
changes what is pending under the cap (`OverCapMonotone`). From it: `CapIsPursued` and
`VictimsAreInOrder`.

`MemoryPressure_proofs`. `Debounce` is inductive: until the monitor reclaims, its counter is the
run of low samples, and not full. `ReclaimsAsSampled` is what it says of a step. The pool's
invariants carry over to the composition (`MInv`): `BudgetsUnderPressure`, `CapIsPursuedUnderPressure`,
`VictimsInOrderUnderPressure`. `AskedOnlyUnderPressure` and `RoundsAreExhaustive` are the lemmas about rounds,
applied to what is missing to the high watermark.

`BackupCoordinator_proofs`. `CInv` adds to the pool's invariant how a record is linked to its
worker (`Linked`): the controller knows of no more releases than there are, the worker has
seen no more of the present epoch's total than was requested, and what is pending is
owed or released and unreported. An answer under way must not be older than what
the worker has seen (`AnswersInv`), and a report says no more than the worker has released
(`ReportsInv`). All of it is about one client, one worker and one answer, so the
steps are first looked at for one client. From it: `PendingIsAlwaysOwed` and
`NeverOwedTwice`. `PoolOrAsk` says that to the pool every step is one of its own or a round, so
that `RInv` is kept whatever is lost, overtaken or restarted (`FInv`): `CapIsPursuedUnderFaults`,
`VictimsInOrderUnderFaults`, `BudgetsUnderFaults`.

`ProcessGroups_proofs` has what both commands rest on: a living group is
`Homogeneous`, all its processes have one owner, and no step of other processes changes the group of a process
that exists.

`PoolLauncher_proofs`. Until it is reaped a leader keeps its id and its group, dead or alive
(`ChildInv`), every process of the pool is in the group of a leader (`PoolInv`), and `PhaseInv` says
what each loop has reached: nothing is reaped before the last SIGTERM, and what the last loop has
passed is stopped. From it: `SigtermReachesOwnGroups`, `FailureStopsAll`. Of the backends,
`SleepInv` says that a model the loop has passed sleeps and that nothing under way will wake it but
the POST to the startup model, and `RecordInv` that all processes but the one being identified are
in the record. From them: `FootprintsDoNotCoexist`, and `RecordsArePrepared`, an action property.

`PoolStop_proofs`. The record is of the first process that had each id (`RecordInv`), the pool's
processes are in recorded groups (`PoolInv`), what a loop has passed without failing is stopped
(`LoopInv`). From it: `CommandSparesItself`, `ReusedLeadersAreSpared`, `RecordOutlivesPool`.

Every invariant and every action property of a passing run is proved. Only
model-checked:

* liveness (`LockGranted`, `CancelledEnds`, `TornDown`, `CallEnds`, `ObligationMet`, `UnwindingEnds`),
  which with `ENABLED` is beyond the prover.

The refuted properties (`AtMostOneAwake` under late POSTs, `KeepsResident`, `ShortfallVisible`,
`ForeignSpared`) have counterexamples, and no theorem but the conditional ones above.

## 6. Not modelled

* `config.py`: validation before anything runs; its results are the assumptions
  on the constants. Message schemas beyond the accounting identity of a usage
  report: checks of one message.
* Header filtering and body rebuilding: a pure translation of one message.
* `metrics.py`: best-effort writes that no decision reads.
* The smoke and validation scripts: clients for acceptance tests.
* In the coordinator, the binding of an id to a pid and the stability of its capabilities, each
  a comparison of one record with one message, and in-process callers
  without a release counter, of which the repository has none but tests.
* At shutdown, the cancelling of the monitor's task: everything it would
  have changed is lost with the process.
* Of processes: descendants that leave their group with `setsid`, sleep that SIGKILL does not
  interrupt, a scan of `/proc` that sees some processes before and some after a step of theirs
  (here it is one step), and the launcher itself being killed. The SIGKILL of the unwinding may come after the leader was
  reaped and its group emptied; the number could have been reused by then. Only for SIGTERM
  does the code exclude that (`SigtermSpared`).
* Of servers: one left on the port of a launched model, which answers in its place (see `Serves`
  above).

## 7. Running

    tlc -config MCModelSwitch_any.cfg MCModelSwitch.tla
    tlapm ModelSwitch_proofs.tla

Each run ends within about three minutes on two cores; the proofs of
`ModelSwitch_proofs` take about as long, those of the other modules less.
