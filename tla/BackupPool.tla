------------------------------ MODULE BackupPool ------------------------------
(***************************************************************************)
(* The coordinator of the workers' pinned CPU backups                      *)
(* (controller/backup_pool.py, class BackupPoolState) and the handlers of  *)
(* /admin/cpu-backup/* in controller/router.py.  No handler awaits, so     *)
(* each request is one step.                                               *)
(*                                                                         *)
(* The state buckets of a report are reduced to what the pool computes     *)
(* with: total_bytes, and evictable_bytes, the three evictable buckets     *)
(* plus the required RAM that has a disk source.  The accounting identity  *)
(* and the bound on that part (controller/schemas.py) say exactly that     *)
(* evictable is at most total.  The rest of total is required.             *)
(*                                                                         *)
(* A client the pool has no record of is a fresh record here: every        *)
(* operation treats the two alike.  A request the code answers with 409 or *)
(* 422 changes nothing and is no step.                                     *)
(***************************************************************************)
EXTENDS Integers, FiniteSetsExt

CONSTANTS
  Clients,         \* client_ids, one per process incarnation of a worker
  BackupModels,    \* the model_ids in reports
  model_priority,  \* cpu_backup_model_priorities over the default
  Cap,             \* cpu_backup_global_cap_bytes
  NoCap,           \* its value when it is not configured
  MaxBytes,        \* bound on the bytes of one report
  MaxReleased      \* bound on a worker's cumulative release counter

ASSUME ClientsAssumption  == IsFiniteSet(Clients)
ASSUME PriorityAssumption == model_priority \in [BackupModels -> Int]
ASSUME ModelsAssumption   == BackupModels # {}  \* a report may leave it None
ASSUME CapAssumption      == NoCap \notin Nat /\ Cap \in Nat \cup {NoCap}
ASSUME BoundsAssumption   == MaxBytes \in Nat /\ MaxReleased \in Nat

VARIABLES
  clients,  \* BackupPoolState.clients
  older     \* <<c, d>>: c's updated_at is before d's

poolVars == <<clients, older>>

-----------------------------------------------------------------------------

Usages ==
  [model           : BackupModels,
   total           : 0 .. MaxBytes,
   evictable       : 0 .. MaxBytes,
   released_total  : 0 .. MaxReleased,
   pending         : Nat,
   requested_total : Nat]

TypeOK ==
  /\ clients \in [Clients -> Usages]
  /\ \A c \in Clients : clients[c].evictable <= clients[c].total
  /\ older \in SUBSET (Clients \X Clients)

\* max(a - b, 0)
Monus(a, b) == IF a > b THEN a - b ELSE 0

Least(a, b) == IF a < b THEN a ELSE b

\* What may still be asked of a client, as its usage u stands.
Available(u) == Monus(u.evictable, u.pending)

Total(s)   == SumFunctionOnSet([c \in Clients |-> s[c].total], Clients)
Pending(s) == SumFunctionOnSet([c \in Clients |-> s[c].pending], Clients)

\* stats()["over_cap_bytes"]
OverCap(s) == IF Cap = NoCap THEN 0 ELSE Monus(Total(s), Cap + Pending(s))

-----------------------------------------------------------------------------
(***************************************************************************)
(* Requests to release, over usages s and ages o.                          *)
(***************************************************************************)

\* The order of the candidates.  Two updates never have the same time, which
\* leaves the third key, the larger remainder, without effect.
Precedes(s, o, c, d) ==
  \/ model_priority[s[c].model] < model_priority[s[d].model]
  \/ /\ model_priority[s[c].model] = model_priority[s[d].model]
     /\ <<c, d>> \in o

\* What the clients of a set can be asked for together.
AvailableOf(s, candidates) ==
  SumFunctionOnSet([c \in Clients |-> Available(s[c])], candidates)

\* Mutants of Queued: the order is reversed; only the first candidate is asked.
QueuedReversed(s, o, target) ==
  [c \in Clients |->
     Least(Available(s[c]),
           Monus(target, AvailableOf(s, {d \in Clients : Precedes(s, o, c, d)})))]

QueuedOnce(s, o, target) ==
  [c \in Clients |->
     IF \E d \in Clients : Precedes(s, o, d, c) /\ Available(s[d]) > 0
     THEN 0 ELSE Least(Available(s[c]), target)]

\* What request_release_bytes queues: each candidate in turn is asked for
\* what those before it leave of the target.
Queued(s, o, target) ==
  [c \in Clients |->
     Least(Available(s[c]),
           Monus(target, AvailableOf(s, {d \in Clients : Precedes(s, o, d, c)})))]

\* request_release on every client for which something is queued
Issue(s, queued) ==
  [c \in Clients |-> [s[c] EXCEPT !.pending         = @ + queued[c],
                                  !.requested_total = @ + queued[c]]]

\* request_release_bytes(target)
RequestReleaseBytes(s, o, target) ==
  LET queued == Queued(s, o, target)
  IN /\ queued \in [Clients -> 0 .. MaxBytes]
     /\ clients' = Issue(s, queued)

\* maybe_enqueue_release_requests
MaybeEnqueue(s, o) == RequestReleaseBytes(s, o, OverCap(s))

\* The ages once c is updated: nobody is younger.
Updated(c) ==
  {p \in older : c \notin {p[1], p[2]}} \cup ((Clients \ {c}) \X {c})

-----------------------------------------------------------------------------

Fresh(m) ==
  [model |-> m, total |-> 0, evictable |-> 0,
   released_total |-> 0, pending |-> 0, requested_total |-> 0]

NoClients ==
  [c \in Clients |-> Fresh(CHOOSE m \in BackupModels : TRUE)]

PoolInit ==
  /\ clients = NoClients
  /\ older = {}

\* POST /admin/cpu-backup/register
Register(c, m) ==
  /\ clients' = [clients EXCEPT ![c].model = m]
  /\ older' = Updated(c)

\* Mutants of Acknowledge: what is no longer evictable is no longer owed; a
\* smaller footprint acknowledges too.
AcknowledgeEvictable(u, m, total, evictable, released) ==
  [u EXCEPT !.model = m, !.total = total, !.evictable = evictable,
            !.released_total = released,
            !.pending = Least(Monus(@, released - u.released_total), evictable)]

AcknowledgeFootprint(u, m, total, evictable, released) ==
  [u EXCEPT !.model = m, !.total = total, !.evictable = evictable,
            !.released_total = released,
            !.pending = Monus(@, Monus(u.total, total))]

\* The usage u after a report: only the growth of the release counter takes
\* from what is pending.
Acknowledge(u, m, total, evictable, released) ==
  [u EXCEPT !.model = m, !.total = total, !.evictable = evictable,
            !.released_total = released,
            !.pending = Monus(@, released - u.released_total)]

\* BackupUsageRequest.validate_accounting
Accounted(total, evictable) == evictable <= total

\* POST /admin/cpu-backup/usage
Usage(c, m, total, evictable, released) ==
  /\ Accounted(total, evictable)
  /\ released >= clients[c].released_total
  /\ older' = Updated(c)
  /\ MaybeEnqueue([clients EXCEPT ![c] = Acknowledge(@, m, total, evictable, released)],
                  older')

\* POST /admin/cpu-backup/release, an operator's request
Release(c, target) ==
  /\ LET requested == Least(target, Available(clients[c]))
     IN clients' = [clients EXCEPT ![c].pending         = @ + requested,
                                   ![c].requested_total = @ + requested]
  /\ UNCHANGED older

\* GET /admin/cpu-backup/release-requests/{client_id}, of any client; the
\* totals it answers change nothing.
ReleaseRequests ==
  /\ MaybeEnqueue(clients, older)
  /\ UNCHANGED older

\* A restarted controller has a new request_epoch and no record.
PoolRestart ==
  /\ clients' = NoClients
  /\ older' = {}

PoolNext ==
  \/ \E c \in Clients, m \in BackupModels : Register(c, m)
  \/ \E c \in Clients, m \in BackupModels, total \in 0 .. MaxBytes,
        evictable \in 0 .. MaxBytes, released \in 0 .. MaxReleased :
       Usage(c, m, total, evictable, released)
  \/ \E c \in Clients, target \in 1 .. MaxBytes : Release(c, target)
  \/ ReleaseRequests
  \/ PoolRestart

PoolSpec == PoolInit /\ [][PoolNext]_poolVars

-----------------------------------------------------------------------------
(***************************************************************************)
(* Safety.                                                                 *)
(***************************************************************************)

\* What was asked of a worker and is no longer pending was released by it:
\* an obligation survives every change of state of the storage and is never
\* forgotten (report_usage, the comment at its end).
ObligationsKept ==
  \A c \in Clients :
    clients[c].requested_total <= clients[c].released_total + clients[c].pending

\* Nothing is asked for twice: whenever more is asked of a worker, all it was
\* ever asked for is covered by what it released and what it can release now,
\* although its storage may have been required, and so not releasable, since
\* the earlier request.
NoDuplicateBudget ==
  [][\A c \in Clients :
       clients'[c].requested_total > clients[c].requested_total =>
         clients'[c].requested_total <=
           clients'[c].released_total + clients'[c].evictable]_poolVars

\* As long as the pool is over its cap beyond what is pending, every byte that
\* can be asked for has been: no usage that brings the pool over the cap, or
\* makes storage evictable while it is, is left without its requests.
CapPursued ==
  OverCap(clients) > 0 => \A c \in Clients : Available(clients[c]) = 0

\* Only an operator's request explains the step.
ByOperator(c) ==
  /\ \E target \in 1 .. MaxBytes : Release(c, target)
  /\ ~ReleaseRequests

\* A worker is asked only when every worker that precedes it, by the priority
\* of its model and then by age, has been asked for all it can release.
VictimsInOrder ==
  [][\A c, d \in Clients :
       /\ clients'[d].requested_total > clients[d].requested_total
       /\ Precedes(clients', older', c, d)
       => Available(clients'[c]) = 0 \/ ByOperator(d)]_poolVars

=============================================================================
