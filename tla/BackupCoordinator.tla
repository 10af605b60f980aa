--------------------------- MODULE BackupCoordinator ---------------------------
(***************************************************************************)
(* BackupPool and the workers it coordinates, over HTTP.  The workers are  *)
(* another program, external to this repository: what they do is taken     *)
(* from the wire contract that controller/backup_pool.py is written for    *)
(* (released_bytes_total, requested_release_bytes_total, request_epoch).   *)
(*                                                                         *)
(* A worker owns storage that is required or evictable, makes and drops    *)
(* storage by itself, and releases evictable storage on command.  It polls *)
(* GET /release-requests one request at a time and executes the part of    *)
(* the cumulative total that it has not seen in the epoch of the answer.   *)
(* It reports its usage; a report given up by its timeout may be handled   *)
(* after a newer one, as may every report that is under way.               *)
(*                                                                         *)
(*   an answer may be lost, a report may be lost or overtaken              *)
(*   the controller restarts, with a new epoch and without records         *)
(*   a worker dies; another incarnation is another client                  *)
(***************************************************************************)
EXTENDS BackupPool

CONSTANTS
  model_of,    \* the model_id each incarnation reports
  MaxReports,  \* bound on the reports of one worker under way
  MaxEpochs    \* bound on the epochs of the controller

ASSUME ModelOfAssumption == model_of \in [Clients -> BackupModels]
ASSUME EpochsAssumption  == MaxReports \in Nat /\ MaxEpochs \in Nat \ {0}

VARIABLES
  request_epoch,  \* BackupPoolState.request_epoch: epochs are numbered here
  worker,         \* the workers
  answer,         \* answer[c]: the answer to c's GET under way, {} or {answer}
  reports         \* the usage reports under way

coordinatorVars == <<poolVars, request_epoch, worker, answer, reports>>

-----------------------------------------------------------------------------

Workers ==
  [up         : BOOLEAN,
   required   : 0 .. MaxBytes,
   evictable  : 0 .. MaxBytes,
   released   : 0 .. MaxReleased,  \* released_bytes_total
   seen_epoch : Nat,
   seen_total : Nat,               \* of requested_release_bytes_total
   todo       : Nat]               \* commanded and not yet released

Answers == [epoch : Nat, requested_total : Nat]

Reports ==
  [client    : Clients,
   total     : 0 .. MaxBytes,
   evictable : 0 .. MaxBytes,
   released  : 0 .. MaxReleased]

CoordinatorTypeOK ==
  /\ TypeOK
  /\ request_epoch \in Nat
  /\ worker \in [Clients -> Workers]
  /\ answer \in [Clients -> SUBSET Answers]
  /\ reports \in SUBSET Reports

Init ==
  /\ PoolInit
  /\ request_epoch = 1
  /\ worker = [c \in Clients |->
       [up |-> TRUE, required |-> 0, evictable |-> 0, released |-> 0,
        seen_epoch |-> 0, seen_total |-> 0, todo |-> 0]]
  /\ answer = [c \in Clients |-> {}]
  /\ reports = {}

-----------------------------------------------------------------------------
(***************************************************************************)
(* A worker's storage.                                                     *)
(***************************************************************************)

Held(w) == w.required + w.evictable

Change(c, w) ==
  /\ worker[c].up
  /\ worker' = [worker EXCEPT ![c] = w]
  /\ UNCHANGED <<poolVars, request_epoch, answer, reports>>

\* Storage is made for a sleeping model, becomes cache only when the model is
\* awake, and is required again when it sleeps.
Allocate(c) ==
  /\ Held(worker[c]) < MaxBytes
  /\ Change(c, [worker[c] EXCEPT !.required = @ + 1])

Unrequire(c) ==
  /\ worker[c].required > 0
  /\ Change(c, [worker[c] EXCEPT !.required = @ - 1, !.evictable = @ + 1])

Require(c) ==
  /\ worker[c].evictable > 0
  /\ Change(c, [worker[c] EXCEPT !.required = @ + 1, !.evictable = @ - 1])

\* A release that nobody asked for counts as well.
Drop(c) ==
  /\ worker[c].evictable > 0
  /\ worker[c].released < MaxReleased
  /\ Change(c, [worker[c] EXCEPT !.evictable = @ - 1, !.released = @ + 1])

Execute(c) ==
  /\ worker[c].todo > 0
  /\ worker[c].evictable > 0
  /\ worker[c].released < MaxReleased
  /\ Change(c, [worker[c] EXCEPT !.todo = @ - 1, !.evictable = @ - 1, !.released = @ + 1])

\* The process and its storage are gone, its record in the controller is not.
Die(c) == Change(c, [worker[c] EXCEPT !.up = FALSE, !.required = 0, !.evictable = 0, !.todo = 0])

-----------------------------------------------------------------------------
(***************************************************************************)
(* Messages.                                                               *)
(***************************************************************************)

SendReport(c) ==
  /\ worker[c].up
  /\ Cardinality({r \in reports : r.client = c}) < MaxReports
  /\ reports' = reports \cup
       {[client |-> c, total |-> Held(worker[c]), evictable |-> worker[c].evictable,
         released |-> worker[c].released]}
  /\ UNCHANGED <<poolVars, request_epoch, worker, answer>>

\* POST /admin/cpu-backup/usage reaches the controller; a report overtaken by
\* one with a larger counter is refused with 409.
HandleReport(r) ==
  /\ r \in reports
  /\ reports' = reports \ {r}
  /\ \/ Usage(r.client, model_of[r.client], r.total, r.evictable, r.released)
     \/ r.released < clients[r.client].released_total /\ UNCHANGED poolVars
  /\ UNCHANGED <<request_epoch, worker, answer>>

LoseReport(r) ==
  /\ r \in reports
  /\ reports' = reports \ {r}
  /\ UNCHANGED <<poolVars, request_epoch, worker, answer>>

\* Mutants of HandleGet: the answer says what is to be done since the last
\* one; the epoch is made anew for each answer (they are two, in turn).
HandleGetConsuming(c) ==
  /\ worker[c].up
  /\ answer[c] = {}
  /\ clients' = [clients EXCEPT ![c].requested_total = 0]
  /\ answer' = [answer EXCEPT ![c] =
       {[epoch |-> request_epoch, requested_total |-> clients[c].requested_total]}]
  /\ UNCHANGED <<older, request_epoch, worker, reports>>

HandleGetNewEpoch(c) ==
  /\ worker[c].up
  /\ answer[c] = {}
  /\ request_epoch' = (request_epoch % MaxEpochs) + 1
  /\ ReleaseRequests
  /\ answer' = [answer EXCEPT ![c] =
       {[epoch |-> request_epoch', requested_total |-> clients'[c].requested_total]}]
  /\ UNCHANGED <<worker, reports>>

\* The controller handles the worker's GET and answers its totals.
HandleGet(c) ==
  /\ worker[c].up
  /\ answer[c] = {}
  /\ ReleaseRequests
  /\ answer' = [answer EXCEPT ![c] =
       {[epoch |-> request_epoch, requested_total |-> clients'[c].requested_total]}]
  /\ UNCHANGED <<request_epoch, worker, reports>>

\* What worker w has not seen of an answer's total.
Unseen(w, epoch, total) ==
  IF w.seen_epoch = epoch THEN Monus(total, w.seen_total) ELSE total

ReceiveAnswer(c) ==
  \E a \in answer[c] :
    /\ worker[c].up
    /\ answer' = [answer EXCEPT ![c] = {}]
    /\ worker' = [worker EXCEPT
         ![c].todo       = @ + Unseen(worker[c], a.epoch, a.requested_total),
         ![c].seen_epoch = a.epoch,
         ![c].seen_total = a.requested_total]
    /\ UNCHANGED <<poolVars, request_epoch, reports>>

LoseAnswer(c) ==
  /\ answer[c] # {}
  /\ answer' = [answer EXCEPT ![c] = {}]
  /\ UNCHANGED <<poolVars, request_epoch, worker, reports>>

-----------------------------------------------------------------------------
(***************************************************************************)
(* The controller's own part.                                              *)
(***************************************************************************)

\* POST /admin/cpu-backup/register, which a worker may repeat at any time.
RegisterWorker(c) ==
  /\ worker[c].up
  /\ Register(c, model_of[c])
  /\ UNCHANGED <<request_epoch, worker, answer, reports>>

\* The operator asks one client, the monitor asks all of them.
Ask ==
  /\ \E target \in 1 .. MaxBytes :
       \/ \E c \in Clients : Release(c, target)
       \/ RequestReleaseBytes(clients, older, target) /\ UNCHANGED older
  /\ UNCHANGED <<request_epoch, worker, answer, reports>>

\* Mutant of RestartController: the new controller has the old epoch.
RestartControllerSameEpoch ==
  /\ request_epoch < MaxEpochs
  /\ PoolRestart
  /\ UNCHANGED <<request_epoch, worker, answer, reports>>

\* Messages under way outlive the controller that was to handle them or
\* that answered them.
RestartController ==
  /\ request_epoch < MaxEpochs
  /\ request_epoch' = request_epoch + 1
  /\ PoolRestart
  /\ UNCHANGED <<worker, answer, reports>>

WorkerNext(c) ==
  \/ Allocate(c)
  \/ Unrequire(c)
  \/ Require(c)
  \/ Drop(c)
  \/ Execute(c)
  \/ Die(c)
  \/ SendReport(c)
  \/ HandleGet(c)
  \/ ReceiveAnswer(c)
  \/ LoseAnswer(c)
  \/ RegisterWorker(c)

CoordinatorNext ==
  \/ \E c \in Clients : WorkerNext(c)
  \/ \E r \in reports : HandleReport(r) \/ LoseReport(r)
  \/ Ask
  \/ RestartController

CoordinatorSpec == Init /\ [][CoordinatorNext]_coordinatorVars

\* Workers poll and report for ever, some of their messages arrive, none is
\* under way for ever, and evictable storage that is to be released is released.
CoordinatorFairness ==
  \A c \in Clients :
    /\ WF_coordinatorVars(Execute(c))
    /\ WF_coordinatorVars(HandleGet(c))
    /\ SF_coordinatorVars(ReceiveAnswer(c))
    /\ SF_coordinatorVars(SendReport(c))
    /\ WF_coordinatorVars(\E r \in reports :
         r.client = c /\ (HandleReport(r) \/ LoseReport(r)))
    /\ SF_coordinatorVars(\E r \in reports :
         /\ r.client = c
         /\ r.released = worker[c].released
         /\ HandleReport(r))

FairCoordinatorSpec == CoordinatorSpec /\ CoordinatorFairness

-----------------------------------------------------------------------------

\* What worker c will still execute of what this controller asked of it.
ToDo(c) ==
  worker[c].todo + Unseen(worker[c], request_epoch, clients[c].requested_total)

\* The releases of c that the controller does not know of.
Unreported(c) == worker[c].released - clients[c].released_total

\* Every byte pending of a live worker will be executed, or its release is
\* still to be reported: no lost answer, overtaken report or restart leaves an obligation
\* that nobody has.  It would be counted as resolved for ever
\* (over_cap_bytes, unresolved_pressure_bytes) and never be asked for again.
PendingIsOwed ==
  \A c \in Clients : worker[c].up => clients[c].pending <= ToDo(c) + Unreported(c)

\* The part of an answer of an earlier controller that is still to be received.
Stale(c) ==
  IF \E a \in answer[c] : a.epoch # request_epoch
  THEN LET a == CHOOSE b \in answer[c] : TRUE
       IN Unseen(worker[c], a.epoch, a.requested_total)
  ELSE 0

\* A worker comes to owe a byte only in the step in which it is asked for it:
\* answers lost and repeated, and a new epoch, never make it owe one twice
\* (backup_pool.py, request_release: "without the controller reissuing (and
\* potentially duplicating) an obligation").
NothingOwedTwice ==
  [][\A c \in Clients :
       ToDo(c)' + Stale(c)' - ToDo(c) - Stale(c)
         <= Monus(clients'[c].requested_total, clients[c].requested_total)]_coordinatorVars

\* An obligation is met as long as there is evictable storage to meet it with
\* (and the bound on the release counter allows it): it is not forgotten by
\* the two programs together, whatever is lost.
ObligationMet ==
  \A c \in Clients :
    clients[c].pending > 0 ~>
      \/ clients[c].pending = 0
      \/ worker[c].evictable = 0
      \/ worker[c].released = MaxReleased
      \/ ~worker[c].up

=============================================================================
