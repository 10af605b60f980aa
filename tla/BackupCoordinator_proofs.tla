----------------------- MODULE BackupCoordinator_proofs -----------------------
(***************************************************************************)
(* Proofs about BackupCoordinator, for any workers, cap, priorities and    *)
(* bounds: what the controller counts as pending is owed by its worker,    *)
(* and no worker comes to owe what it was not asked for.  Both are         *)
(* statements about one client, its worker and the answer between them, so *)
(* the steps are first looked at for one client.  What the pool guarantees *)
(* by itself, it guarantees here too (FInv).                               *)
(***************************************************************************)
EXTENDS BackupCoordinator, BackupPool_proofs

\* What a worker w will execute of what a controller of epoch e asked of u.
Owed(u, w, e) == w.todo + Unseen(w, e, u.requested_total)

\* What an answer a of an earlier controller adds when w receives it.
StaleIn(w, a, e) ==
  IF a.epoch # e THEN Unseen(w, a.epoch, a.requested_total) ELSE 0

\* An answer under way is of no earlier total than the worker has seen.
InOrder(u, w, a, e) ==
  /\ w.seen_epoch <= a.epoch /\ a.epoch <= e
  /\ a.epoch = e => a.requested_total <= u.requested_total
  /\ a.epoch = w.seen_epoch => w.seen_total <= a.requested_total

\* A controller's record and its worker.
Linked(u, w, e) ==
  /\ u.released_total <= w.released
  /\ w.seen_epoch <= e
  /\ w.seen_epoch = e => w.seen_total <= u.requested_total
  /\ w.up => u.pending <= Owed(u, w, e) + (w.released - u.released_total)

AnswersInv ==
  \A c \in Clients :
    \/ answer[c] = {}
    \/ \E a \in Answers :
         answer[c] = {a} /\ InOrder(clients[c], worker[c], a, request_epoch)

ReportsInv ==
  \A r \in reports :
    r.evictable <= r.total /\ r.released <= worker[r.client].released

CInv ==
  /\ IInv
  /\ CoordinatorTypeOK
  /\ \A c \in Clients : Held(worker[c]) <= MaxBytes
  /\ \A c \in Clients : Linked(clients[c], worker[c], request_epoch)
  /\ AnswersInv
  /\ ReportsInv

\* The bound of NothingOwedTwice, for one client.
Bound(c) ==
  ToDo(c)' + Stale(c)' - ToDo(c) - Stale(c)
    <= Monus(clients'[c].requested_total, clients[c].requested_total)

-----------------------------------------------------------------------------
(***************************************************************************)
(* One client.                                                             *)
(***************************************************************************)

LEMMA UnseenType ==
  ASSUME NEW w \in Workers, NEW e \in Nat, NEW n \in Nat
  PROVE  Unseen(w, e, n) \in Nat /\ Unseen(w, e, n) <= n
<1>1. w.seen_total \in Nat
  BY DEF Workers
<1>2. Monus(n, w.seen_total) \in Nat /\ Monus(n, w.seen_total) <= n
  BY <1>1, MonusType
<1> QED BY <1>2 DEF Unseen

LEMMA OwedType ==
  ASSUME NEW u \in Usages, NEW w \in Workers, NEW e \in Nat
  PROVE  /\ Unseen(w, e, u.requested_total) \in Nat
         /\ Owed(u, w, e) \in Nat
         /\ Owed(u, w, e) = w.todo + Unseen(w, e, u.requested_total)
<1>1. u.requested_total \in Nat /\ w.todo \in Nat
  BY DEF Usages, Workers
<1>2. Unseen(w, e, u.requested_total) \in Nat
  BY <1>1, UnseenType
<1> QED BY <1>1, <1>2 DEF Owed

\* What a record may become while its worker is left alone: releases that are
\* reported take from what is pending, requests add to it.
Moves(u, v) ==
  /\ v.requested_total >= u.requested_total
  /\ v.released_total >= u.released_total
  /\ v.pending <= Monus(u.pending, v.released_total - u.released_total)
                    + (v.requested_total - u.requested_total)

LEMMA MovesLinked ==
  ASSUME NEW u \in Usages, NEW v \in Usages, NEW w \in Workers, NEW e \in Nat,
         Linked(u, w, e), Moves(u, v), v.released_total <= w.released
  PROVE  /\ Linked(v, w, e)
         /\ Owed(v, w, e) <= Owed(u, w, e) + (v.requested_total - u.requested_total)
         /\ \A a \in Answers : InOrder(u, w, a, e) => InOrder(v, w, a, e)
<1> DEFINE n == v.requested_total - u.requested_total
           k == v.released_total - u.released_total
<1>1. /\ u.requested_total \in Nat /\ v.requested_total \in Nat
      /\ u.released_total \in Nat /\ v.released_total \in Nat
      /\ u.pending \in Nat /\ v.pending \in Nat
      /\ w.todo \in Nat /\ w.released \in Nat /\ w.seen_total \in Nat
      /\ w.seen_epoch \in Nat
  BY BoundsAssumption DEF Usages, Workers
<1>2. n \in Nat /\ k \in Nat
  BY <1>1 DEF Moves
<1>3. Unseen(w, e, v.requested_total) = Unseen(w, e, u.requested_total) + n
  BY <1>1, <1>2 DEF Unseen, Monus, Linked
<1>4. Unseen(w, e, u.requested_total) \in Nat
  BY <1>1, UnseenType
<1>5. Owed(v, w, e) = Owed(u, w, e) + n /\ Owed(u, w, e) \in Nat
  BY <1>1, <1>2, <1>3, <1>4 DEF Owed
<1>6. w.up => v.pending <= Owed(v, w, e) + (w.released - v.released_total)
  <2>1. w.up => u.pending <= Owed(u, w, e) + (w.released - u.released_total)
    BY DEF Linked
  <2>2. v.pending <= Monus(u.pending, k) + n
    BY DEF Moves
  <2> HIDE DEF n
  <2>3. CASE u.pending > k
    BY <1>1, <1>2, <1>5, <2>1, <2>2, <2>3 DEF Monus
  <2>4. CASE ~(u.pending > k)
    BY <1>1, <1>2, <1>5, <2>2, <2>4 DEF Monus
  <2> QED BY <2>3, <2>4
<1>7. \A a \in Answers : InOrder(u, w, a, e) => InOrder(v, w, a, e)
  BY <1>1, <1>2 DEF InOrder, Answers
<1>8. Linked(v, w, e)
  BY <1>1, <1>2, <1>6 DEF Linked
<1> QED BY <1>1, <1>2, <1>5, <1>7, <1>8

\* What a worker may become by itself: it sees nothing, and what it does not
\* have to do any more it has released.
Works(w, x) ==
  /\ x.seen_epoch = w.seen_epoch /\ x.seen_total = w.seen_total
  /\ x.released >= w.released
  /\ x.todo <= w.todo
  /\ x.up => w.up /\ x.todo + x.released >= w.todo + w.released

LEMMA WorksLinked ==
  ASSUME NEW u \in Usages, NEW w \in Workers, NEW x \in Workers, NEW e \in Nat,
         Linked(u, w, e), Works(w, x)
  PROVE  /\ Linked(u, x, e)
         /\ Owed(u, x, e) <= Owed(u, w, e)
         /\ \A a \in Answers : /\ InOrder(u, w, a, e) => InOrder(u, x, a, e)
                               /\ StaleIn(x, a, e) = StaleIn(w, a, e)
<1>1. /\ u.requested_total \in Nat /\ u.released_total \in Nat /\ u.pending \in Nat
      /\ w.todo \in Nat /\ w.released \in Nat
      /\ x.todo \in Nat /\ x.released \in Nat
  BY BoundsAssumption DEF Usages, Workers
<1>2. \A f, n : Unseen(x, f, n) = Unseen(w, f, n)
  BY DEF Unseen, Works
<1>3. Unseen(w, e, u.requested_total) \in Nat
  BY <1>1, UnseenType
<1>4. Linked(u, x, e)
  BY <1>1, <1>2, <1>3 DEF Linked, Works, Owed
<1>5. Owed(u, x, e) <= Owed(u, w, e)
  BY <1>1, <1>2, <1>3 DEF Owed, Works
<1>6. \A a \in Answers : /\ InOrder(u, w, a, e) => InOrder(u, x, a, e)
                         /\ StaleIn(x, a, e) = StaleIn(w, a, e)
  BY <1>2 DEF InOrder, StaleIn, Works
<1> QED BY <1>4, <1>5, <1>6

\* A worker receives an answer.
LEMMA ReceivedLinked ==
  ASSUME NEW u \in Usages, NEW w \in Workers, NEW x \in Workers, NEW e \in Nat,
         NEW a \in Answers, Linked(u, w, e), InOrder(u, w, a, e),
         x.up = w.up, x.released = w.released,
         x.todo = w.todo + Unseen(w, a.epoch, a.requested_total),
         x.seen_epoch = a.epoch, x.seen_total = a.requested_total
  PROVE  /\ Linked(u, x, e)
         /\ Owed(u, x, e) <= Owed(u, w, e) + StaleIn(w, a, e)
<1>1. /\ u.requested_total \in Nat /\ u.released_total \in Nat /\ u.pending \in Nat
      /\ w.todo \in Nat /\ w.released \in Nat /\ w.seen_total \in Nat
      /\ w.seen_epoch \in Nat
      /\ a.epoch \in Nat /\ a.requested_total \in Nat
  BY BoundsAssumption DEF Usages, Workers, Answers
<1>2. CASE a.epoch = e
  <2>1. Unseen(x, e, u.requested_total) = u.requested_total - a.requested_total
    BY <1>1, <1>2 DEF Unseen, Monus, InOrder
  <2>2. Unseen(w, a.epoch, a.requested_total) + (u.requested_total - a.requested_total)
          = Unseen(w, e, u.requested_total)
    BY <1>1, <1>2 DEF Unseen, Monus, InOrder
  <2>3. Unseen(w, a.epoch, a.requested_total) \in Nat
    BY <1>1, UnseenType
  <2>4. Owed(u, x, e) = Owed(u, w, e)
    BY <1>1, <2>1, <2>2, <2>3 DEF Owed
  <2>5. StaleIn(w, a, e) = 0
    BY <1>2 DEF StaleIn
  <2>6. Owed(u, w, e) \in Nat
    BY OwedType
  <2>7. Linked(u, x, e)
    BY <1>1, <1>2, <2>4 DEF Linked, InOrder
  <2> QED BY <2>4, <2>5, <2>6, <2>7
<1>3. CASE a.epoch # e
  <2>1. w.seen_epoch # e /\ a.epoch < e
    BY <1>1, <1>3 DEF InOrder
  <2>2. /\ Unseen(x, e, u.requested_total) = u.requested_total
        /\ Unseen(w, e, u.requested_total) = u.requested_total
    BY <1>3, <2>1 DEF Unseen
  <2>3. Unseen(w, a.epoch, a.requested_total) \in Nat
    BY <1>1, UnseenType
  <2>4. Owed(u, x, e) = Owed(u, w, e) + StaleIn(w, a, e)
    BY <1>1, <1>3, <2>2, <2>3 DEF Owed, StaleIn
  <2>5. Owed(u, w, e) \in Nat /\ StaleIn(w, a, e) \in Nat
    BY <1>1, <1>3, <2>2, <2>3 DEF Owed, StaleIn
  <2>6. Linked(u, x, e)
    BY <1>1, <1>3, <2>1, <2>4, <2>5 DEF Linked
  <2> QED BY <2>4, <2>5, <2>6
<1> QED BY <1>2, <1>3

\* The controller restarts: a new epoch e + 1 and an empty record v.
LEMMA RestartedLinked ==
  ASSUME NEW u \in Usages, NEW v \in Usages, NEW w \in Workers, NEW e \in Nat,
         Linked(u, w, e),
         v.pending = 0, v.released_total = 0, v.requested_total = 0
  PROVE  /\ Linked(v, w, e + 1)
         /\ Owed(v, w, e + 1) <= Owed(u, w, e)
         /\ \A a \in Answers : InOrder(u, w, a, e) =>
              /\ InOrder(v, w, a, e + 1)
              /\ Owed(v, w, e + 1) + StaleIn(w, a, e + 1)
                   <= Owed(u, w, e) + StaleIn(w, a, e)
<1>1. /\ u.requested_total \in Nat
      /\ w.todo \in Nat /\ w.released \in Nat /\ w.seen_total \in Nat
      /\ w.seen_epoch \in Nat /\ w.seen_epoch <= e
  BY BoundsAssumption DEF Usages, Workers, Linked
<1>2. Unseen(w, e + 1, 0) = 0 /\ Owed(v, w, e + 1) = w.todo
  BY <1>1 DEF Unseen, Owed
<1>3. /\ Unseen(w, e, u.requested_total) \in Nat
      /\ Owed(u, w, e) = w.todo + Unseen(w, e, u.requested_total)
  BY OwedType
<1>4. Linked(v, w, e + 1)
  BY <1>1, <1>2 DEF Linked
<1>5. ASSUME NEW a \in Answers, InOrder(u, w, a, e)
      PROVE  /\ InOrder(v, w, a, e + 1)
             /\ Owed(v, w, e + 1) + StaleIn(w, a, e + 1)
                  <= Owed(u, w, e) + StaleIn(w, a, e)
  <2>1. a.epoch \in Nat /\ a.requested_total \in Nat /\ a.epoch <= e
    BY <1>5 DEF Answers, InOrder
  <2>2. InOrder(v, w, a, e + 1)
    BY <1>1, <1>5, <2>1 DEF InOrder
  <2>3. StaleIn(w, a, e + 1) = Unseen(w, a.epoch, a.requested_total)
    BY <2>1 DEF StaleIn
  <2>4. Unseen(w, a.epoch, a.requested_total) \in Nat
    BY <2>1, UnseenType
  <2>5. CASE a.epoch = e
    <3>1. Unseen(w, a.epoch, a.requested_total) <= Unseen(w, e, u.requested_total)
      BY <1>1, <1>5, <2>1, <2>5 DEF Unseen, Monus, InOrder
    <3>2. StaleIn(w, a, e) = 0
      BY <2>5 DEF StaleIn
    <3> QED BY <1>1, <1>2, <1>3, <2>2, <2>3, <2>4, <3>1, <3>2
  <2>6. CASE a.epoch # e
    <3>1. StaleIn(w, a, e) = Unseen(w, a.epoch, a.requested_total)
      BY <2>6 DEF StaleIn
    <3> QED BY <1>1, <1>2, <1>3, <2>2, <2>3, <2>4, <3>1
  <2> QED BY <2>5, <2>6
<1> QED BY <1>1, <1>2, <1>3, <1>4, <1>5

-----------------------------------------------------------------------------
(***************************************************************************)
(* The steps of the pool move every record.                                *)
(***************************************************************************)

LEMMA AskedMoves ==
  ASSUME NEW u, Sound(u), NEW n \in 0 .. Available(u)
  PROVE  /\ Asked(u, n) \in Usages
         /\ Asked(u, n).released_total = u.released_total
         /\ Moves(u, Asked(u, n))
<1>1. u \in Usages /\ n \in Nat
  BY AvailableType, BoundsAssumption DEF Sound, Usages
<1>2. /\ Asked(u, n) \in Usages
      /\ Asked(u, n).released_total = u.released_total
      /\ Asked(u, n).requested_total = u.requested_total + n
  BY AskedSound DEF Sound
<1>3. Asked(u, n).pending = u.pending + n
  BY <1>1 DEF Asked, Usages
<1>4. /\ u.pending \in Nat /\ u.requested_total \in Nat /\ u.released_total \in Nat
      /\ Monus(u.pending, 0) = u.pending
  BY <1>1, BoundsAssumption DEF Usages, Monus
<1> QED BY <1>1, <1>2, <1>3, <1>4 DEF Moves

LEMMA RequestMoves ==
  ASSUME NEW s, \A c \in Clients : Sound(s[c]),
         NEW o, NEW target, RequestReleaseBytes(s, o, target)
  PROVE  /\ clients' \in [Clients -> Usages]
         /\ \A c \in Clients : /\ Moves(s[c], clients'[c])
                               /\ clients'[c].released_total = s[c].released_total
<1>1. PICK n \in [Clients -> Nat] :
        /\ \A c \in Clients : n[c] \in 0 .. Available(s[c])
        /\ clients' = [c \in Clients |-> Asked(s[c], n[c])]
  BY QueuedAvailable
<1>2. \A c \in Clients :
        /\ clients'[c] \in Usages
        /\ Moves(s[c], clients'[c])
        /\ clients'[c].released_total = s[c].released_total
  BY <1>1, AskedMoves
<1> QED BY <1>1, <1>2

LEMMA UsageMoves ==
  ASSUME IInv, NEW c \in Clients, NEW m \in BackupModels,
         NEW total \in 0 .. MaxBytes, NEW evictable \in 0 .. MaxBytes,
         NEW released \in 0 .. MaxReleased,
         Usage(c, m, total, evictable, released)
  PROVE  /\ clients' \in [Clients -> Usages]
         /\ \A d \in Clients :
              /\ Moves(clients[d], clients'[d])
              /\ clients'[d].released_total =
                   IF d = c THEN released ELSE clients[d].released_total
<1> DEFINE v == Acknowledge(clients[c], m, total, evictable, released)
           s == [clients EXCEPT ![c] = v]
<1>1. /\ evictable <= total /\ released >= clients[c].released_total
      /\ RequestReleaseBytes(s, older', OverCap(s))
  BY DEF Usage, Accounted, MaybeEnqueue
<1>2. \A d \in Clients : Sound(clients[d]) /\ clients[d] \in Usages
  BY Clientwise DEF Sound
<1>3. Sound(v)
  BY <1>1, <1>2, AcknowledgeSound
<1>4. /\ v.released_total = released
      /\ v.requested_total = clients[c].requested_total
      /\ v.pending = Monus(clients[c].pending, released - clients[c].released_total)
  BY <1>2 DEF Acknowledge, Usages
<1> HIDE DEF v
<1>5. \A d \in Clients : s[d] = IF d = c THEN v ELSE clients[d]
  BY DEF IInv, TypeOK
<1>6. \A d \in Clients : Sound(s[d])
  BY <1>2, <1>3, <1>5
<1> HIDE DEF s
<1>7. /\ clients' \in [Clients -> Usages]
      /\ \A d \in Clients : /\ Moves(s[d], clients'[d])
                            /\ clients'[d].released_total = s[d].released_total
  BY <1>1, <1>6, RequestMoves
<1>8. ASSUME NEW d \in Clients
      PROVE  /\ Moves(clients[d], clients'[d])
             /\ clients'[d].released_total =
                  IF d = c THEN released ELSE clients[d].released_total
  <2>1. CASE d # c
    BY <1>5, <1>7, <2>1
  <2>2. CASE d = c
    <3>1. Moves(v, clients'[c]) /\ clients'[c].released_total = released
      BY <1>4, <1>5, <1>7, <2>2
    <3>2. v.pending \in Nat /\ Monus(v.pending, 0) = v.pending
      BY <1>3 DEF Sound, Usages, Monus
    <3>3. released - released = 0
      BY BoundsAssumption
    <3> QED BY <1>1, <1>4, <2>2, <3>1, <3>2, <3>3 DEF Moves
  <2> QED BY <2>1, <2>2
<1> QED BY <1>7, <1>8

LEMMA ReleaseMoves ==
  ASSUME IInv, NEW c \in Clients, NEW target \in 1 .. MaxBytes, Release(c, target)
  PROVE  \A d \in Clients : /\ Moves(clients[d], clients'[d])
                            /\ clients'[d].released_total = clients[d].released_total
<1> DEFINE n == Least(target, Available(clients[c]))
<1>1. \A d \in Clients : Sound(clients[d]) /\ clients[d] \in Usages
  BY Clientwise DEF Sound
<1>2. n \in 0 .. Available(clients[c])
  <2>1. Available(clients[c]) \in Nat
    BY <1>1, AvailableType, BoundsAssumption DEF Usages
  <2> QED BY <2>1, BoundsAssumption DEF Least
<1>3. clients' = [clients EXCEPT ![c] = Asked(clients[c], n)]
  BY DEF Release, Asked, IInv, TypeOK, Usages
<1> HIDE DEF n
<1>4. /\ Moves(clients[c], Asked(clients[c], n))
      /\ Asked(clients[c], n).released_total = clients[c].released_total
  BY <1>1, <1>2, AskedMoves
<1>5. ASSUME NEW d \in Clients, d # c
      PROVE  /\ Moves(clients[d], clients'[d])
             /\ clients'[d].released_total = clients[d].released_total
  <2>1. clients'[d] = clients[d]
    BY <1>3, <1>5 DEF IInv, TypeOK
  <2>2. /\ clients[d].pending \in Nat /\ clients[d].requested_total \in Nat
        /\ clients[d].released_total \in Nat
    BY <1>1, BoundsAssumption DEF Usages
  <2> QED BY <2>1, <2>2 DEF Moves, Monus
<1>6. clients'[c] = Asked(clients[c], n)
  BY <1>3 DEF IInv, TypeOK
<1> QED BY <1>4, <1>5, <1>6

LEMMA RegisterMoves ==
  ASSUME IInv, NEW c \in Clients, NEW m \in BackupModels, Register(c, m)
  PROVE  \A d \in Clients : /\ Moves(clients[d], clients'[d])
                            /\ clients'[d].released_total = clients[d].released_total
<1>1. clients' = [clients EXCEPT ![c].model = m]
  BY DEF Register
<1>2. ASSUME NEW d \in Clients
      PROVE  /\ clients[d].pending \in Nat /\ clients[d].requested_total \in Nat
             /\ clients[d].released_total \in Nat
             /\ clients'[d].pending = clients[d].pending
             /\ clients'[d].released_total = clients[d].released_total
             /\ clients'[d].requested_total = clients[d].requested_total
  BY <1>1, BoundsAssumption DEF IInv, TypeOK, Usages
<1> QED BY <1>2 DEF Moves, Monus

-----------------------------------------------------------------------------
(***************************************************************************)
(* The steps of the composition.                                           *)
(***************************************************************************)

LEMMA StaleValues ==
  ASSUME NEW c \in Clients
  PROVE  /\ answer[c] = {} => Stale(c) = 0
         /\ \A a : answer[c] = {a} => Stale(c) = StaleIn(worker[c], a, request_epoch)
         /\ answer'[c] = {} => Stale(c)' = 0
         /\ \A a : answer'[c] = {a} => Stale(c)' = StaleIn(worker'[c], a, request_epoch')
BY DEF Stale, StaleIn

LEMMA CInvTypes ==
  ASSUME CInv, NEW c \in Clients
  PROVE  /\ clients[c] \in Usages /\ worker[c] \in Workers /\ request_epoch \in Nat
         /\ Linked(clients[c], worker[c], request_epoch)
         /\ clients[c].requested_total \in Nat
         /\ ToDo(c) = Owed(clients[c], worker[c], request_epoch) /\ ToDo(c) \in Nat
         /\ Stale(c) \in Nat
<1>1. /\ clients[c] \in Usages /\ worker[c] \in Workers /\ request_epoch \in Nat
      /\ Linked(clients[c], worker[c], request_epoch)
  BY DEF CInv, IInv, TypeOK, CoordinatorTypeOK
<1>2. ToDo(c) = Owed(clients[c], worker[c], request_epoch)
  BY DEF ToDo, Owed
<1>3. CASE answer[c] = {}
  BY <1>1, <1>2, <1>3, OwedType, StaleValues DEF Usages
<1>4. ASSUME NEW a \in Answers, answer[c] = {a}
      PROVE  Stale(c) \in Nat
  <2>1. a.epoch \in Nat /\ a.requested_total \in Nat
    BY DEF Answers
  <2>2. Unseen(worker[c], a.epoch, a.requested_total) \in Nat
    BY <1>1, <2>1, UnseenType
  <2> QED BY <1>4, <2>2, StaleValues DEF StaleIn
<1> QED BY <1>1, <1>2, <1>3, <1>4, OwedType DEF Usages, CInv, AnswersInv

\* A step that leaves workers, answers and epoch alone.
LEMMA PoolPart ==
  ASSUME CInv, IInv', UNCHANGED <<request_epoch, worker, answer>>,
         \A c \in Clients : /\ Moves(clients[c], clients'[c])
                            /\ clients'[c].released_total <= worker[c].released,
         reports' \in SUBSET reports
  PROVE  CInv' /\ \A c \in Clients : Bound(c)
<1>1. CoordinatorTypeOK'
  BY DEF CInv, CoordinatorTypeOK, IInv
<1>2. ASSUME NEW c \in Clients
      PROVE  /\ Linked(clients'[c], worker'[c], request_epoch')
             /\ Bound(c)
             /\ \A a \in Answers :
                  InOrder(clients[c], worker[c], a, request_epoch) =>
                    InOrder(clients'[c], worker'[c], a, request_epoch')
  <2>1. clients'[c] \in Usages
    BY DEF IInv, TypeOK
  <2>2. /\ Linked(clients'[c], worker[c], request_epoch)
        /\ Owed(clients'[c], worker[c], request_epoch)
             <= Owed(clients[c], worker[c], request_epoch)
                  + (clients'[c].requested_total - clients[c].requested_total)
        /\ \A a \in Answers : InOrder(clients[c], worker[c], a, request_epoch)
                                => InOrder(clients'[c], worker[c], a, request_epoch)
    BY <2>1, CInvTypes, MovesLinked
  <2>3. Stale(c)' = Stale(c) /\ Stale(c) \in Nat
    BY CInvTypes DEF Stale, Unseen
  <2>4. /\ clients'[c].requested_total \in Nat /\ clients[c].requested_total \in Nat
        /\ clients'[c].requested_total >= clients[c].requested_total
    BY <2>1, CInvTypes DEF Usages, Moves
  <2>5. /\ ToDo(c)' = Owed(clients'[c], worker[c], request_epoch)
        /\ ToDo(c) = Owed(clients[c], worker[c], request_epoch)
        /\ ToDo(c) \in Nat
    BY CInvTypes DEF ToDo, Owed, Unseen
  <2>6. ToDo(c)' \in Nat
    BY <2>1, <2>5, CInvTypes, OwedType
  <2>7. Bound(c)
    BY <2>2, <2>3, <2>4, <2>5, <2>6 DEF Bound, Monus
  <2> QED BY <2>2, <2>7
<1>3. AnswersInv'
  BY <1>2 DEF CInv, AnswersInv
<1>4. ReportsInv'
  BY DEF CInv, ReportsInv
<1> QED BY <1>1, <1>2, <1>3, <1>4 DEF CInv

\* A step of worker c, which may send a report of its new storage.
LEMMA WorkerPart ==
  ASSUME CInv, UNCHANGED <<poolVars, request_epoch, answer, reports>>,
         NEW c \in Clients, NEW x \in Workers, worker' = [worker EXCEPT ![c] = x],
         Held(x) <= MaxBytes, Works(worker[c], x)
  PROVE  CInv' /\ \A d \in Clients : Bound(d)
<1>1. worker \in [Clients -> Workers] /\ \A d \in Clients :
        worker'[d] = IF d = c THEN x ELSE worker[d]
  BY DEF CInv, CoordinatorTypeOK
<1>2. IInv' /\ CoordinatorTypeOK'
  BY <1>1 DEF CInv, CoordinatorTypeOK, IInv, TypeOK, ObligationsKept, poolVars
<1>3. ASSUME NEW d \in Clients
      PROVE  /\ Held(worker'[d]) <= MaxBytes
             /\ worker'[d].released >= worker[d].released
             /\ Linked(clients'[d], worker'[d], request_epoch')
             /\ Bound(d)
             /\ \A a \in Answers :
                  InOrder(clients[d], worker[d], a, request_epoch) =>
                    InOrder(clients'[d], worker'[d], a, request_epoch')
  <2>1. Works(worker[d], worker'[d]) /\ worker'[d] \in Workers /\ worker[d] \in Workers
    BY <1>1, BoundsAssumption DEF Works, Workers
  <2>2. /\ clients' = clients /\ request_epoch' = request_epoch /\ answer' = answer
    BY DEF poolVars
  <2>3. /\ Linked(clients[d], worker'[d], request_epoch)
        /\ Owed(clients[d], worker'[d], request_epoch)
             <= Owed(clients[d], worker[d], request_epoch)
        /\ \A a \in Answers :
             /\ InOrder(clients[d], worker[d], a, request_epoch)
                  => InOrder(clients[d], worker'[d], a, request_epoch)
             /\ StaleIn(worker'[d], a, request_epoch) = StaleIn(worker[d], a, request_epoch)
    BY <2>1, CInvTypes, WorksLinked
  <2>4. Stale(d)' = Stale(d) /\ Stale(d) \in Nat
    <3>1. CASE answer[d] = {}
      BY <2>2, <3>1, CInvTypes, StaleValues
    <3>2. CASE answer[d] # {}
      <4>1. PICK a \in Answers : answer[d] = {a}
        BY <3>2 DEF CInv, AnswersInv
      <4> QED BY <2>2, <2>3, <4>1, CInvTypes, StaleValues
    <3> QED BY <3>1, <3>2
  <2>5. /\ ToDo(d)' = Owed(clients[d], worker'[d], request_epoch)
        /\ ToDo(d) = Owed(clients[d], worker[d], request_epoch)
        /\ ToDo(d) \in Nat
    BY <2>2, CInvTypes DEF ToDo, Owed, Unseen
  <2>6. ToDo(d)' \in Nat /\ clients[d].requested_total \in Nat
    BY <2>1, <2>5, CInvTypes, OwedType
  <2>7. Bound(d)
    BY <2>2, <2>3, <2>4, <2>5, <2>6 DEF Bound, Monus
  <2>8. Held(worker'[d]) <= MaxBytes /\ worker'[d].released >= worker[d].released
    BY <1>1, <2>1 DEF CInv, Works
  <2> QED BY <2>2, <2>3, <2>7, <2>8
<1>4. AnswersInv'
  BY <1>3 DEF CInv, AnswersInv
<1>5. ReportsInv'
  <2>1. \A r \in reports : /\ r.client \in Clients /\ r.released \in Nat
                           /\ r.evictable <= r.total
                           /\ r.released <= worker[r.client].released
    BY BoundsAssumption DEF CInv, CoordinatorTypeOK, Reports, ReportsInv
  <2>2. \A d \in Clients : worker[d].released \in Nat /\ worker'[d].released \in Nat
    BY <1>1, BoundsAssumption DEF Workers
  <2> QED BY <1>3, <2>1, <2>2 DEF ReportsInv
<1> QED BY <1>2, <1>3, <1>4, <1>5 DEF CInv

\* An unchanged record moves.
LEMMA Unmoved ==
  ASSUME CInv, UNCHANGED poolVars
  PROVE  /\ IInv'
         /\ \A c \in Clients : /\ Moves(clients[c], clients'[c])
                               /\ clients'[c].released_total <= worker[c].released
<1>1. clients' = clients
  BY DEF poolVars
<1>2. ASSUME NEW c \in Clients
      PROVE  /\ Moves(clients[c], clients[c])
             /\ clients[c].released_total <= worker[c].released
  <2>1. /\ clients[c].pending \in Nat /\ clients[c].requested_total \in Nat
        /\ clients[c].released_total \in Nat
    BY CInvTypes, BoundsAssumption DEF Usages
  <2> QED BY <2>1, CInvTypes DEF Moves, Monus, Linked
<1>3. IInv'
  BY DEF poolVars, CInv, IInv, TypeOK, ObligationsKept
<1> QED BY <1>1, <1>2, <1>3

\* What a worker may do with its storage by itself.
LEMMA StorageWorks ==
  ASSUME NEW w \in Workers, Held(w) <= MaxBytes,
         NEW up \in BOOLEAN, NEW required \in Nat, NEW evictable \in Nat,
         NEW released \in 0 .. MaxReleased, NEW todo \in Nat,
         required + evictable <= MaxBytes,
         released >= w.released, todo <= w.todo,
         up => w.up /\ todo + released >= w.todo + w.released,
         NEW x, x = [w EXCEPT !.up = up, !.required = required, !.evictable = evictable,
                              !.released = released, !.todo = todo]
  PROVE  x \in Workers /\ Held(x) <= MaxBytes /\ Works(w, x)
<1>1. required \in 0 .. MaxBytes /\ evictable \in 0 .. MaxBytes
  BY BoundsAssumption
<1>2. x \in Workers
  BY <1>1 DEF Workers
<1>3. /\ x.up = up /\ x.required = required /\ x.evictable = evictable
      /\ x.released = released /\ x.todo = todo
      /\ x.seen_epoch = w.seen_epoch /\ x.seen_total = w.seen_total
  BY DEF Workers
<1> QED BY <1>2, <1>3 DEF Held, Works

LEMMA StorageStep ==
  ASSUME CInv, NEW c \in Clients,
         \/ Allocate(c) \/ Unrequire(c) \/ Require(c) \/ Drop(c) \/ Execute(c) \/ Die(c)
  PROVE  CInv' /\ \A d \in Clients : Bound(d)
<1> DEFINE w == worker[c]
           Becomes(up, required, evictable, released, todo) ==
             [w EXCEPT !.up = up, !.required = required, !.evictable = evictable,
                       !.released = released, !.todo = todo]
<1>1. /\ w \in Workers /\ Held(w) <= MaxBytes
      /\ w.required \in Nat /\ w.evictable \in Nat /\ w.up \in BOOLEAN
      /\ w.released \in 0 .. MaxReleased /\ w.released \in Nat /\ w.todo \in Nat
      /\ w.required + w.evictable <= MaxBytes
  BY BoundsAssumption DEF CInv, CoordinatorTypeOK, Workers, Held
<1>2. ASSUME NEW up \in BOOLEAN, NEW required \in Nat, NEW evictable \in Nat,
             NEW released \in 0 .. MaxReleased, NEW todo \in Nat,
             required + evictable <= MaxBytes,
             released >= w.released, todo <= w.todo,
             up => w.up /\ todo + released >= w.todo + w.released,
             Change(c, Becomes(up, required, evictable, released, todo))
      PROVE  CInv' /\ \A d \in Clients : Bound(d)
  <2> DEFINE x == Becomes(up, required, evictable, released, todo)
  <2>1. /\ UNCHANGED <<poolVars, request_epoch, answer, reports>>
        /\ worker' = [worker EXCEPT ![c] = x]
    BY <1>2 DEF Change
  <2> HIDE DEF w
  <2>2. x \in Workers /\ Held(x) <= MaxBytes /\ Works(w, x)
    BY <1>1, <1>2, StorageWorks
  <2> HIDE DEF x
  <2> QED BY <2>1, <2>2, WorkerPart DEF w
<1>3. CASE Allocate(c)
  <2>1. w.required + w.evictable < MaxBytes
    BY <1>3 DEF Allocate, Held
  <2>2. Change(c, Becomes(w.up, w.required + 1, w.evictable, w.released, w.todo))
    BY <1>1, <1>3 DEF Allocate, Workers
  <2>3. /\ w.required + 1 \in Nat
        /\ w.required + 1 + w.evictable <= MaxBytes
        /\ w.released >= w.released /\ w.todo <= w.todo
        /\ w.todo + w.released >= w.todo + w.released
    BY <1>1, <2>1, BoundsAssumption
  <2> HIDE DEF w, Becomes
  <2> QED BY <1>1, <1>2, <2>2, <2>3
<1>4. CASE Unrequire(c)
  <2>1. w.required > 0
    BY <1>4 DEF Unrequire
  <2>2. Change(c, Becomes(w.up, w.required - 1, w.evictable + 1, w.released, w.todo))
    BY <1>1, <1>4 DEF Unrequire, Workers
  <2>3. /\ w.required - 1 \in Nat /\ w.evictable + 1 \in Nat
        /\ (w.required - 1) + (w.evictable + 1) <= MaxBytes
        /\ w.released >= w.released /\ w.todo <= w.todo
        /\ w.todo + w.released >= w.todo + w.released
    BY <1>1, <2>1, BoundsAssumption
  <2> HIDE DEF w, Becomes
  <2> QED BY <1>1, <1>2, <2>2, <2>3
<1>5. CASE Require(c)
  <2>1. w.evictable > 0
    BY <1>5 DEF Require
  <2>2. Change(c, Becomes(w.up, w.required + 1, w.evictable - 1, w.released, w.todo))
    BY <1>1, <1>5 DEF Require, Workers
  <2>3. /\ w.required + 1 \in Nat /\ w.evictable - 1 \in Nat
        /\ (w.required + 1) + (w.evictable - 1) <= MaxBytes
        /\ w.released >= w.released /\ w.todo <= w.todo
        /\ w.todo + w.released >= w.todo + w.released
    BY <1>1, <2>1, BoundsAssumption
  <2> HIDE DEF w, Becomes
  <2> QED BY <1>1, <1>2, <2>2, <2>3
<1>6. CASE Drop(c)
  <2>1. w.evictable > 0 /\ w.released < MaxReleased
    BY <1>6 DEF Drop
  <2>2. Change(c, Becomes(w.up, w.required, w.evictable - 1, w.released + 1, w.todo))
    BY <1>1, <1>6 DEF Drop, Workers
  <2>3. /\ w.evictable - 1 \in Nat /\ w.released + 1 \in 0 .. MaxReleased
        /\ w.required + (w.evictable - 1) <= MaxBytes
        /\ w.released + 1 >= w.released /\ w.todo <= w.todo
        /\ w.todo + (w.released + 1) >= w.todo + w.released
    BY <1>1, <2>1, BoundsAssumption
  <2> HIDE DEF w, Becomes
  <2> QED BY <1>1, <1>2, <2>2, <2>3
<1>7. CASE Execute(c)
  <2>1. w.todo > 0 /\ w.evictable > 0 /\ w.released < MaxReleased
    BY <1>7 DEF Execute
  <2>2. Change(c, Becomes(w.up, w.required, w.evictable - 1, w.released + 1, w.todo - 1))
    BY <1>1, <1>7 DEF Execute, Workers
  <2>3. /\ w.evictable - 1 \in Nat /\ w.released + 1 \in 0 .. MaxReleased
        /\ w.todo - 1 \in Nat
        /\ w.required + (w.evictable - 1) <= MaxBytes
        /\ w.released + 1 >= w.released /\ w.todo - 1 <= w.todo
        /\ (w.todo - 1) + (w.released + 1) >= w.todo + w.released
    BY <1>1, <2>1, BoundsAssumption
  <2> HIDE DEF w, Becomes
  <2> QED BY <1>1, <1>2, <2>2, <2>3
<1>8. CASE Die(c)
  <2>1. Change(c, Becomes(FALSE, 0, 0, w.released, 0))
    BY <1>1, <1>8 DEF Die, Workers
  <2>3. 0 \in Nat /\ 0 + 0 <= MaxBytes /\ w.released >= w.released /\ 0 <= w.todo
    BY <1>1, BoundsAssumption
  <2> HIDE DEF w, Becomes
  <2> QED BY <1>1, <1>2, <2>1, <2>3
<1> QED BY <1>3, <1>4, <1>5, <1>6, <1>7, <1>8

LEMMA SendStep ==
  ASSUME CInv, NEW c \in Clients, SendReport(c)
  PROVE  CInv' /\ \A d \in Clients : Bound(d)
<1> DEFINE r == [client |-> c, total |-> Held(worker[c]),
                 evictable |-> worker[c].evictable, released |-> worker[c].released]
<1>1. /\ reports' = reports \cup {r}
      /\ UNCHANGED <<poolVars, request_epoch, worker, answer>>
  BY DEF SendReport
<1>2. r \in Reports /\ r.evictable <= r.total /\ r.released <= worker[r.client].released
  <2>1. worker[c] \in Workers /\ Held(worker[c]) <= MaxBytes
    BY DEF CInv, CoordinatorTypeOK
  <2>2. Held(worker[c]) \in 0 .. MaxBytes /\ worker[c].evictable <= Held(worker[c])
    BY <2>1, BoundsAssumption DEF Workers, Held
  <2> QED BY <2>1, <2>2, BoundsAssumption DEF Reports, Workers
<1> HIDE DEF r
<1>3. IInv' /\ CoordinatorTypeOK'
  BY <1>1, <1>2 DEF CInv, CoordinatorTypeOK, IInv, TypeOK, ObligationsKept, poolVars
<1>4. AnswersInv' /\ ReportsInv'
  BY <1>1, <1>2 DEF CInv, AnswersInv, InOrder, ReportsInv, poolVars
<1>5. CInv'
  BY <1>1, <1>3, <1>4 DEF CInv, Linked, Owed, Unseen, poolVars
<1>6. ASSUME NEW d \in Clients PROVE Bound(d)
  <2>1. ToDo(d)' = ToDo(d) /\ Stale(d)' = Stale(d) /\ clients' = clients
    BY <1>1 DEF ToDo, Stale, Unseen, poolVars
  <2> QED BY <2>1, CInvTypes DEF Bound, Monus
<1> QED BY <1>5, <1>6

LEMMA ReportStep ==
  ASSUME CInv, NEW r \in reports, HandleReport(r) \/ LoseReport(r)
  PROVE  CInv' /\ \A d \in Clients : Bound(d)
<1>1. reports' = reports \ {r} /\ UNCHANGED <<request_epoch, worker, answer>>
  BY DEF HandleReport, LoseReport
<1>2. CASE UNCHANGED poolVars
  BY <1>1, <1>2, Unmoved, PoolPart
<1>3. CASE Usage(r.client, model_of[r.client], r.total, r.evictable, r.released)
  <2>1. /\ r.client \in Clients /\ model_of[r.client] \in BackupModels
        /\ r.total \in 0 .. MaxBytes /\ r.evictable \in 0 .. MaxBytes
        /\ r.released \in 0 .. MaxReleased
        /\ r.released <= worker[r.client].released
    BY ModelOfAssumption DEF CInv, CoordinatorTypeOK, Reports, ReportsInv
  <2>2. IInv'
    BY <1>3, <2>1, NextIInv DEF PoolNext, CInv
  <2>3. \A d \in Clients :
          /\ Moves(clients[d], clients'[d])
          /\ clients'[d].released_total =
               IF d = r.client THEN r.released ELSE clients[d].released_total
    BY <1>3, <2>1, UsageMoves DEF CInv
  <2>4. \A d \in Clients : clients'[d].released_total <= worker[d].released
    BY <2>1, <2>3, CInvTypes DEF Linked
  <2> QED BY <1>1, <2>2, <2>3, <2>4, PoolPart
<1> QED BY <1>2, <1>3 DEF HandleReport, LoseReport

LEMMA ReleaseRequestsMoves ==
  ASSUME CInv, ReleaseRequests
  PROVE  /\ IInv'
         /\ \A c \in Clients : /\ Moves(clients[c], clients'[c])
                               /\ clients'[c].released_total <= worker[c].released
<1>1. IInv'
  BY NextIInv DEF PoolNext, CInv
<1>2. \A c \in Clients : /\ Moves(clients[c], clients'[c])
                         /\ clients'[c].released_total = clients[c].released_total
  BY RequestMoves, Clientwise DEF ReleaseRequests, MaybeEnqueue, CInv
<1> QED BY <1>1, <1>2, CInvTypes DEF Linked

LEMMA AskStep ==
  ASSUME CInv, Ask \/ \E c \in Clients : RegisterWorker(c)
  PROVE  CInv' /\ \A d \in Clients : Bound(d)
<1>1. UNCHANGED <<request_epoch, worker, answer, reports>>
  BY DEF Ask, RegisterWorker
<1>2. SUFFICES
        /\ IInv'
        /\ \A d \in Clients : /\ Moves(clients[d], clients'[d])
                              /\ clients'[d].released_total = clients[d].released_total
  BY <1>1, PoolPart, CInvTypes DEF Linked
<1>3. ASSUME NEW d \in Clients, NEW target \in 1 .. MaxBytes, Release(d, target)
      PROVE  IInv' /\ \A b \in Clients :
                        /\ Moves(clients[b], clients'[b])
                        /\ clients'[b].released_total = clients[b].released_total
  BY <1>3, ReleaseMoves, NextIInv DEF PoolNext, CInv
<1>4. ASSUME NEW target, RequestReleaseBytes(clients, older, target), UNCHANGED older
      PROVE  IInv' /\ \A b \in Clients :
                        /\ Moves(clients[b], clients'[b])
                        /\ clients'[b].released_total = clients[b].released_total
  <2>1. IInv /\ \A b \in Clients : Sound(clients[b])
    BY Clientwise DEF CInv
  <2>2. \A b \in Clients : Step(clients[b], clients'[b])
    BY <1>4, <2>1, RequestStep
  <2>3. \A b \in Clients : /\ Moves(clients[b], clients'[b])
                           /\ clients'[b].released_total = clients[b].released_total
    BY <1>4, <2>1, RequestMoves
  <2>4. clients' \in [Clients -> Usages]
    BY <1>4, <2>1, RequestMoves
  <2>5. older' \in SUBSET (Clients \X Clients)
    BY <1>4, <2>1, Clientwise
  <2>6. \A b \in Clients : Sound(clients'[b]) /\ Kept(clients'[b])
    BY <2>1, <2>2, Clientwise DEF Step
  <2> QED BY <2>3, <2>4, <2>5, <2>6, Clientwise
<1>5. ASSUME NEW c \in Clients, Register(c, model_of[c])
      PROVE  IInv' /\ \A b \in Clients :
                        /\ Moves(clients[b], clients'[b])
                        /\ clients'[b].released_total = clients[b].released_total
  <2>1. model_of[c] \in BackupModels
    BY ModelOfAssumption
  <2> QED BY <1>5, <2>1, RegisterMoves, NextIInv DEF PoolNext, CInv
<1> QED BY <1>3, <1>4, <1>5 DEF Ask, RegisterWorker

LEMMA GetStep ==
  ASSUME CInv, NEW c \in Clients, HandleGet(c)
  PROVE  CInv' /\ \A d \in Clients : Bound(d)
<1> DEFINE a == [epoch |-> request_epoch, requested_total |-> clients'[c].requested_total]
<1>1. /\ answer[c] = {} /\ ReleaseRequests
      /\ answer' = [answer EXCEPT ![c] = {a}]
      /\ UNCHANGED <<request_epoch, worker, reports>>
  BY DEF HandleGet
<1>2. /\ IInv'
      /\ \A d \in Clients : /\ Moves(clients[d], clients'[d])
                            /\ clients'[d].released_total <= worker[d].released
  BY <1>1, ReleaseRequestsMoves
<1>3. \A d \in Clients :
        /\ clients'[d] \in Usages /\ worker[d] \in Workers /\ request_epoch \in Nat
        /\ clients'[d].requested_total \in Nat /\ clients[d].requested_total \in Nat
        /\ clients'[d].requested_total >= clients[d].requested_total
  BY <1>2, CInvTypes DEF IInv, TypeOK, Usages, Moves
<1>4. \A d \in Clients :
        /\ Linked(clients'[d], worker[d], request_epoch)
        /\ Owed(clients'[d], worker[d], request_epoch)
             <= Owed(clients[d], worker[d], request_epoch)
                  + (clients'[d].requested_total - clients[d].requested_total)
        /\ \A b \in Answers : InOrder(clients[d], worker[d], b, request_epoch)
                                => InOrder(clients'[d], worker[d], b, request_epoch)
  BY <1>2, <1>3, CInvTypes, MovesLinked
<1>5. a \in Answers /\ InOrder(clients'[c], worker[c], a, request_epoch)
  <2>1. worker[c].seen_epoch \in Nat /\ worker[c].seen_total \in Nat
    BY <1>3 DEF Workers
  <2> QED BY <1>3, <1>4, <2>1 DEF Answers, InOrder, Linked
<1> HIDE DEF a
<1>6. answer \in [Clients -> SUBSET Answers]
  BY DEF CInv, CoordinatorTypeOK
<1>7. \A d \in Clients : answer'[d] = IF d = c THEN {a} ELSE answer[d]
  BY <1>1, <1>6
<1>8. CoordinatorTypeOK'
  BY <1>1, <1>2, <1>5, <1>6 DEF CInv, CoordinatorTypeOK, IInv
<1>9. AnswersInv'
  <2>1. ASSUME NEW d \in Clients
        PROVE  \/ answer'[d] = {}
               \/ \E b \in Answers :
                    answer'[d] = {b} /\ InOrder(clients'[d], worker[d], b, request_epoch)
    <3>1. CASE d = c
      BY <1>5, <1>7, <3>1
    <3>2. CASE d # c
      BY <1>4, <1>7, <3>2 DEF CInv, AnswersInv
    <3> QED BY <3>1, <3>2
  <2> QED BY <1>1, <2>1 DEF AnswersInv
<1>10. CInv'
  BY <1>1, <1>2, <1>4, <1>8, <1>9 DEF CInv, ReportsInv
<1>11. ASSUME NEW d \in Clients PROVE Bound(d)
  <2>1. Stale(d)' = Stale(d)
    <3>1. CASE d = c
      <4>1. Stale(c)' = StaleIn(worker[c], a, request_epoch)
        BY <1>1, <1>7, StaleValues
      <4> QED BY <1>1, <3>1, <4>1, StaleValues DEF StaleIn, a
    <3>2. CASE d # c
      BY <1>1, <1>7, <3>2 DEF Stale, Unseen
    <3> QED BY <3>1, <3>2
  <2>2. /\ ToDo(d)' = Owed(clients'[d], worker[d], request_epoch)
        /\ ToDo(d) = Owed(clients[d], worker[d], request_epoch)
    BY <1>1 DEF ToDo, Owed, Unseen
  <2>3. ToDo(d)' \in Nat /\ ToDo(d) \in Nat /\ Stale(d) \in Nat
    BY <1>3, <2>2, CInvTypes, OwedType
  <2> QED BY <1>3, <1>4, <2>1, <2>2, <2>3 DEF Bound, Monus
<1> QED BY <1>10, <1>11

LEMMA ReceiveStep ==
  ASSUME CInv, NEW c \in Clients, ReceiveAnswer(c) \/ LoseAnswer(c)
  PROVE  CInv' /\ \A d \in Clients : Bound(d)
<1>1. /\ answer' = [answer EXCEPT ![c] = {}]
      /\ UNCHANGED <<poolVars, request_epoch, reports>>
  BY ZenonT(60) DEF ReceiveAnswer, LoseAnswer
<1>2. PICK a \in Answers :
        answer[c] = {a} /\ InOrder(clients[c], worker[c], a, request_epoch)
  BY DEF CInv, AnswersInv, ReceiveAnswer, LoseAnswer
<1>3. /\ answer \in [Clients -> SUBSET Answers] /\ worker \in [Clients -> Workers]
      /\ a.epoch \in Nat /\ a.requested_total \in Nat
  BY DEF CInv, CoordinatorTypeOK, Answers
<1> DEFINE x == [worker[c] EXCEPT
                   !.todo       = @ + Unseen(worker[c], a.epoch, a.requested_total),
                   !.seen_epoch = a.epoch,
                   !.seen_total = a.requested_total]
<1>4. \/ worker' = worker
      \/ worker' = [worker EXCEPT ![c] = x]
  BY <1>2, <1>3 DEF ReceiveAnswer, LoseAnswer
<1>5. /\ x \in Workers
      /\ x.up = worker[c].up /\ x.released = worker[c].released
      /\ x.todo = worker[c].todo + Unseen(worker[c], a.epoch, a.requested_total)
      /\ x.seen_epoch = a.epoch /\ x.seen_total = a.requested_total
      /\ Held(x) = Held(worker[c])
  <2>1. worker[c] \in Workers /\ Unseen(worker[c], a.epoch, a.requested_total) \in Nat
    BY <1>3, UnseenType
  <2>2. worker[c].todo + Unseen(worker[c], a.epoch, a.requested_total) \in Nat
    BY <2>1 DEF Workers
  <2> QED BY <1>3, <2>1, <2>2 DEF Workers, Held
<1> HIDE DEF x
<1>6. /\ Linked(clients[c], x, request_epoch)
      /\ Owed(clients[c], x, request_epoch)
           <= Owed(clients[c], worker[c], request_epoch)
                + StaleIn(worker[c], a, request_epoch)
  BY <1>2, <1>5, CInvTypes, ReceivedLinked
<1>7. \A d \in Clients :
        /\ answer'[d] = IF d = c THEN {} ELSE answer[d]
        /\ worker'[d] = IF d = c THEN worker'[c] ELSE worker[d]
  BY <1>1, <1>3, <1>4
<1>14. worker'[c] = worker[c] \/ worker'[c] = x
  BY <1>3, <1>4
<1>8. IInv' /\ CoordinatorTypeOK'
  BY <1>1, <1>3, <1>4, <1>5
  DEF CInv, CoordinatorTypeOK, IInv, TypeOK, ObligationsKept, poolVars
<1>9. AnswersInv'
  <2>1. ASSUME NEW d \in Clients, answer'[d] # {}
        PROVE  worker'[d] = worker[d] /\ answer'[d] = answer[d]
    BY <1>7, <2>1
  <2> QED BY <1>1, <2>1 DEF CInv, AnswersInv, poolVars, InOrder
<1>10. \A d \in Clients : /\ Held(worker'[d]) <= MaxBytes
                          /\ worker'[d].released = worker[d].released
                          /\ Linked(clients[d], worker'[d], request_epoch)
  BY <1>5, <1>6, <1>7, <1>14 DEF CInv
<1>11. ReportsInv'
  BY <1>1, <1>10 DEF CInv, ReportsInv, CoordinatorTypeOK, Reports
<1>12. CInv'
  BY <1>1, <1>8, <1>9, <1>10, <1>11 DEF CInv, poolVars
<1>13. ASSUME NEW d \in Clients PROVE Bound(d)
  <2>1. /\ ToDo(d)' = Owed(clients[d], worker'[d], request_epoch)
        /\ ToDo(d) = Owed(clients[d], worker[d], request_epoch)
        /\ clients' = clients
    BY <1>1 DEF ToDo, Owed, Unseen, poolVars
  <2>2. /\ ToDo(d) \in Nat /\ Stale(d) \in Nat /\ clients[d].requested_total \in Nat
        /\ ToDo(d)' \in Nat
    <3>1. worker'[d] \in Workers
      BY <1>5, <1>7, <1>14, CInvTypes
    <3> QED BY <2>1, <3>1, CInvTypes, OwedType
  <2>3. CASE d = c
    <3>1. Stale(d)' = 0 /\ Stale(d) = StaleIn(worker[d], a, request_epoch)
      BY <1>2, <1>7, <2>3, StaleValues
    <3>2. ToDo(d)' <= ToDo(d) + Stale(d)
      BY <1>6, <1>7, <1>14, <2>1, <2>2, <2>3, <3>1
    <3> QED BY <2>1, <2>2, <3>1, <3>2 DEF Bound, Monus
  <2>4. CASE d # c
    <3>1. worker'[d] = worker[d] /\ answer'[d] = answer[d]
      BY <1>7, <2>4
    <3>2. ToDo(d)' = ToDo(d)
      BY <2>1, <3>1
    <3>3. Stale(d)' = Stale(d)
      BY <1>1, <3>1, StaleValues, SMTT(60) DEF CInv, AnswersInv
    <3> QED BY <2>1, <2>2, <3>2, <3>3, SMTT(60) DEF Bound, Monus
  <2> QED BY <2>3, <2>4
<1> QED BY <1>12, <1>13, SMTT(60)

LEMMA RestartStep ==
  ASSUME CInv, RestartController
  PROVE  CInv' /\ \A d \in Clients : Bound(d)
<1>1. /\ request_epoch' = request_epoch + 1 /\ clients' = NoClients /\ older' = {}
      /\ UNCHANGED <<worker, answer, reports>>
  BY DEF RestartController, PoolRestart
<1>2. IInv'
  BY <1>1, NextIInv DEF PoolNext, PoolRestart, CInv
<1>3. \A d \in Clients :
        /\ clients'[d] \in Usages
        /\ clients'[d].pending = 0 /\ clients'[d].released_total = 0
        /\ clients'[d].requested_total = 0
  BY <1>1, NoClientsSound DEF NoClients, Fresh
<1>4. \A d \in Clients :
        /\ Linked(clients'[d], worker[d], request_epoch + 1)
        /\ Owed(clients'[d], worker[d], request_epoch + 1)
             <= Owed(clients[d], worker[d], request_epoch)
        /\ \A a \in Answers : InOrder(clients[d], worker[d], a, request_epoch) =>
             /\ InOrder(clients'[d], worker[d], a, request_epoch + 1)
             /\ Owed(clients'[d], worker[d], request_epoch + 1)
                  + StaleIn(worker[d], a, request_epoch + 1)
                  <= Owed(clients[d], worker[d], request_epoch)
                       + StaleIn(worker[d], a, request_epoch)
  BY <1>3, CInvTypes, RestartedLinked
<1>5. AnswersInv'
  BY <1>1, <1>4 DEF CInv, AnswersInv
<1>6. CInv'
  BY <1>1, <1>2, <1>4, <1>5 DEF CInv, CoordinatorTypeOK, IInv, ReportsInv
<1>7. ASSUME NEW d \in Clients PROVE Bound(d)
  <2>1. /\ ToDo(d)' = Owed(clients'[d], worker[d], request_epoch + 1)
        /\ ToDo(d) = Owed(clients[d], worker[d], request_epoch)
    BY <1>1 DEF ToDo, Owed, Unseen
  <2>2. /\ ToDo(d) \in Nat /\ Stale(d) \in Nat /\ clients[d].requested_total \in Nat
        /\ request_epoch + 1 \in Nat
    BY CInvTypes
  <2>3. ToDo(d)' \in Nat
    BY <1>3, <2>1, <2>2, CInvTypes, OwedType
  <2>4. Stale(d)' \in Nat /\ ToDo(d)' + Stale(d)' <= ToDo(d) + Stale(d)
    <3>1. CASE answer[d] = {}
      <4>1. Stale(d)' = 0 /\ Stale(d) = 0
        BY <1>1, <3>1, StaleValues
      <4> QED BY <1>4, <2>1, <2>2, <2>3, <4>1
    <3>2. CASE answer[d] # {}
      <4>1. PICK a \in Answers :
              answer[d] = {a} /\ InOrder(clients[d], worker[d], a, request_epoch)
        BY <3>2 DEF CInv, AnswersInv
      <4>2. /\ Stale(d) = StaleIn(worker[d], a, request_epoch)
            /\ Stale(d)' = StaleIn(worker[d], a, request_epoch + 1)
        BY <1>1, <4>1, StaleValues
      <4>3. StaleIn(worker[d], a, request_epoch + 1) \in Nat
        BY CInvTypes, UnseenType DEF StaleIn, Answers
      <4> QED BY <1>4, <2>1, <4>1, <4>2, <4>3
    <3> QED BY <3>1, <3>2
  <2>5. clients'[d].requested_total = 0
    BY <1>3
  <2> QED BY <2>2, <2>3, <2>4, <2>5 DEF Bound, Monus
<1> QED BY <1>6, <1>7

LEMMA InitCInv == Init => CInv
<1> SUFFICES ASSUME Init PROVE CInv
  OBVIOUS
<1>1. IInv
  BY InitIInv DEF Init
<1>2. /\ \A c \in Clients :
           /\ worker[c] = [up |-> TRUE, required |-> 0, evictable |-> 0, released |-> 0,
                           seen_epoch |-> 0, seen_total |-> 0, todo |-> 0]
           /\ worker[c] \in Workers
      /\ worker \in [Clients -> Workers]
  BY BoundsAssumption DEF Init, Workers
<1>3. CoordinatorTypeOK
  BY <1>1, <1>2 DEF CoordinatorTypeOK, IInv, Init
<1>4. \A c \in Clients : Held(worker[c]) <= MaxBytes
  BY <1>2, BoundsAssumption DEF Held
<1>5. \A c \in Clients : Linked(clients[c], worker[c], request_epoch)
  <2>1. \A c \in Clients : /\ clients[c] \in Usages /\ clients[c].released_total = 0
                           /\ clients[c].pending = 0 /\ clients[c].requested_total = 0
    BY NoClientsSound DEF Init, PoolInit, NoClients, Fresh
  <2>2. request_epoch = 1
    BY DEF Init
  <2> QED BY <1>2, <2>1, <2>2 DEF Linked, Owed, Unseen
<1>6. AnswersInv /\ ReportsInv
  BY DEF Init, AnswersInv, ReportsInv
<1> QED BY <1>1, <1>3, <1>4, <1>5, <1>6 DEF CInv

LEMMA NextCInv ==
  CInv /\ [CoordinatorNext]_coordinatorVars => CInv' /\ \A c \in Clients : Bound(c)
<1> SUFFICES ASSUME CInv, [CoordinatorNext]_coordinatorVars
             PROVE  CInv' /\ \A c \in Clients : Bound(c)
  OBVIOUS
<1>1. ASSUME NEW c \in Clients, WorkerNext(c)
      PROVE  CInv' /\ \A d \in Clients : Bound(d)
  BY <1>1, StorageStep, SendStep, GetStep, ReceiveStep, AskStep DEF WorkerNext
<1>2. ASSUME NEW r \in reports, HandleReport(r) \/ LoseReport(r)
      PROVE  CInv' /\ \A d \in Clients : Bound(d)
  BY <1>2, ReportStep
<1>3. CASE Ask
  BY <1>3, AskStep
<1>4. CASE RestartController
  BY <1>4, RestartStep
<1>5. CASE UNCHANGED coordinatorVars
  <2>1. UNCHANGED <<poolVars, request_epoch, worker, answer, reports>>
    BY <1>5 DEF coordinatorVars
  <2> QED BY <2>1, Unmoved, PoolPart
<1> QED BY <1>1, <1>2, <1>3, <1>4, <1>5 DEF CoordinatorNext

-----------------------------------------------------------------------------
(***************************************************************************)
(* The pool under faults: its rounds, with reports that are lost and       *)
(* overtaken, a monitor that asks at any time, and restarts.               *)
(***************************************************************************)

\* To the pool a step of the whole is one of its own, or a round of the monitor.
LEMMA PoolOrAsk ==
  ASSUME CInv, [CoordinatorNext]_coordinatorVars
  PROVE  \/ [PoolNext]_poolVars
         \/ \E target \in 1 .. MaxBytes :
              RequestReleaseBytes(clients, older, target) /\ older' = older
<1>1. ASSUME NEW c \in Clients, WorkerNext(c)
      PROVE  [PoolNext]_poolVars
  <2>1. CASE HandleGet(c)
    BY <2>1 DEF HandleGet, PoolNext
  <2>2. CASE RegisterWorker(c)
    BY <2>2, ModelOfAssumption, SMTT(60) DEF RegisterWorker, PoolNext
  <2>3. CASE ~HandleGet(c) /\ ~RegisterWorker(c)
    BY <1>1, <2>3 DEF WorkerNext, Allocate, Unrequire, Require, Drop, Execute, Die, Change,
                      SendReport, ReceiveAnswer, LoseAnswer
  <2> QED BY <2>1, <2>2, <2>3
<1>2. ASSUME NEW r \in reports, HandleReport(r) \/ LoseReport(r)
      PROVE  [PoolNext]_poolVars
  <2>1. r \in Reports
    BY DEF CInv, CoordinatorTypeOK
  <2>2. /\ r.client \in Clients /\ model_of[r.client] \in BackupModels
        /\ r.total \in 0 .. MaxBytes /\ r.evictable \in 0 .. MaxBytes
        /\ r.released \in 0 .. MaxReleased
    BY <2>1, ModelOfAssumption DEF Reports
  <2> QED BY <1>2, <2>2 DEF HandleReport, LoseReport, PoolNext
<1>3. CASE Ask
  BY <1>3 DEF Ask, PoolNext
<1>4. CASE RestartController
  BY <1>4 DEF RestartController, PoolNext
<1>5. CASE UNCHANGED coordinatorVars
  BY <1>5 DEF coordinatorVars, poolVars
<1> QED BY <1>1, <1>2, <1>3, <1>4, <1>5 DEF CoordinatorNext

\* As RInv, with the workers.
FInv == CInv /\ RInv

LEMMA InitFInv == Init => FInv
BY InitCInv, InitRInv DEF Init, FInv

LEMMA NextFInv == FInv /\ [CoordinatorNext]_coordinatorVars => FInv'
<1> SUFFICES ASSUME FInv, [CoordinatorNext]_coordinatorVars PROVE FInv'
  OBVIOUS
<1>1. CInv' /\ IInv'
  BY NextCInv DEF FInv, CInv
<1>2. CASE [PoolNext]_poolVars
  BY <1>1, <1>2, NextRInv DEF FInv
<1>3. CASE \E target \in 1 .. MaxBytes :
             RequestReleaseBytes(clients, older, target) /\ older' = older
  <2>1. PICK target \in 1 .. MaxBytes :
          RequestReleaseBytes(clients, older, target) /\ older' = older
    BY <1>3
  <2>2. target \in Nat
    OBVIOUS
  <2>3. Ages' /\ CapPursued'
    BY <1>1, <2>1, <2>2, RoundRInv DEF FInv
  <2> QED BY <1>1, <2>3 DEF FInv, RInv
<1> QED BY <1>2, <1>3, PoolOrAsk DEF FInv

-----------------------------------------------------------------------------
(***************************************************************************)
(* The theorems.                                                           *)
(***************************************************************************)

\* What the controller counts as pending of a live worker will be executed by
\* it or its release is still to be reported, whatever is lost or overtaken
\* and whoever restarts (backup_pool.py, report_usage and request_release).
THEOREM PendingIsAlwaysOwed == CoordinatorSpec => []PendingIsOwed
<1>1. CInv => PendingIsOwed
  <2> SUFFICES ASSUME CInv, NEW c \in Clients, worker[c].up
               PROVE  clients[c].pending <= ToDo(c) + Unreported(c)
    BY DEF PendingIsOwed
  <2> QED BY CInvTypes DEF Linked, Unreported
<1> QED BY InitCInv, NextCInv, <1>1, PTL DEF CoordinatorSpec

\* A worker comes to owe no more in a step than it is asked for in it: answers
\* lost, repeated or of an earlier epoch never make it owe a byte twice.
THEOREM NeverOwedTwice == CoordinatorSpec => NothingOwedTwice
<1>1. CInv /\ [CoordinatorNext]_coordinatorVars => [\A c \in Clients : Bound(c)]_coordinatorVars
  BY NextCInv
<1> QED BY InitCInv, NextCInv, <1>1, PTL DEF CoordinatorSpec, NothingOwedTwice, Bound

\* Whatever reports are lost or overtaken, and however often the controller
\* restarts, it never knows of storage over the cap without having asked for
\* all that it can ask for (report_usage, maybe_enqueue_release_requests).
THEOREM CapIsPursuedUnderFaults == CoordinatorSpec => []CapPursued
<1>1. FInv => CapPursued
  BY DEF FInv, RInv
<1> QED BY InitFInv, NextFInv, <1>1, PTL DEF CoordinatorSpec

\* Under the same faults the victims are taken in order, be it the cap or the
\* monitor that asks (request_release_bytes).
THEOREM VictimsInOrderUnderFaults == CoordinatorSpec => VictimsInOrder
<1> DEFINE Turn ==
      \A c, d \in Clients :
        /\ clients'[d].requested_total > clients[d].requested_total
        /\ Precedes(clients', older', c, d)
        => Available(clients'[c]) = 0 \/ ByOperator(d)
<1>1. FInv /\ [CoordinatorNext]_coordinatorVars => [Turn]_poolVars
  <2> SUFFICES ASSUME FInv, [CoordinatorNext]_coordinatorVars,
                      NEW c \in Clients, NEW d \in Clients,
                      clients'[d].requested_total > clients[d].requested_total,
                      Precedes(clients', older', c, d), ~ByOperator(d)
               PROVE  Available(clients'[c]) = 0
    OBVIOUS
  <2>1. CASE [PoolNext]_poolVars
    BY <2>1, PoolAsks DEF Asks, InTurn, FInv
  <2>2. CASE \E target \in 1 .. MaxBytes :
               RequestReleaseBytes(clients, older, target) /\ older' = older
    <3>1. PICK target \in 1 .. MaxBytes :
            RequestReleaseBytes(clients, older, target) /\ older' = older
      BY <2>2
    <3>2. target \in Nat /\ AgesStrict(older') /\ AgesTotal(clients, older')
      BY <3>1 DEF FInv, RInv, Ages
    <3>3. InTurn(d)
      BY <3>1, <3>2, RInvSound, RoundGrows DEF FInv, InTurn
    <3> QED BY <3>3 DEF InTurn
  <2> QED BY <2>1, <2>2, PoolOrAsk DEF FInv
<1> QED BY InitFInv, NextFInv, <1>1, PTL DEF CoordinatorSpec, VictimsInOrder

\* And no worker is asked twice for the same storage, although the reports on
\* which the controller acts may be old (request_release).
THEOREM BudgetsUnderFaults == CoordinatorSpec => NoDuplicateBudget
<1> DEFINE Grows(c) == clients'[c].requested_total > clients[c].requested_total
           Covered(c) == clients'[c].requested_total <=
                           clients'[c].released_total + clients'[c].evictable
<1>1. ASSUME CInv, [CoordinatorNext]_coordinatorVars, NEW c \in Clients, Grows(c)
      PROVE  Covered(c)
  <2>1. clients[c] \in Usages /\ \A d \in Clients : Sound(clients[d])
    BY <1>1, Clientwise DEF CInv, IInv, TypeOK
  <2>2. older \in SUBSET (Clients \X Clients)
    BY <1>1 DEF CInv, IInv, TypeOK
  <2>3. \/ PoolRestart \/ UNCHANGED poolVars
        \/ \A d \in Clients : Step(clients[d], clients'[d])
    <3>1. CASE [PoolNext]_poolVars
      BY <1>1, <3>1, AnyStep DEF CInv
    <3>2. CASE \E target \in 1 .. MaxBytes :
                 RequestReleaseBytes(clients, older, target) /\ older' = older
      BY <2>1, <3>2, RequestStep
    <3> QED BY <1>1, <3>1, <3>2, PoolOrAsk
  <2>4. CASE PoolRestart
    BY <1>1, <2>1, <2>4, NoClientsSound DEF PoolRestart, Usages
  <2>5. CASE UNCHANGED poolVars
    BY <1>1, <2>1, <2>5 DEF poolVars, Usages
  <2>6. CASE \A d \in Clients : Step(clients[d], clients'[d])
    <3>1. clients'[c].pending <= clients'[c].evictable /\ Sound(clients'[c])
      BY <1>1, <2>6 DEF Step
    <3>2. Kept(clients'[c])
      BY <1>1, <2>6, Clientwise DEF Step, CInv
    <3> QED BY <3>1, <3>2, BoundsAssumption DEF Kept, Sound, Usages
  <2> QED BY <2>3, <2>4, <2>5, <2>6
<1>2. CInv /\ [CoordinatorNext]_coordinatorVars => [\A c \in Clients : Grows(c) => Covered(c)]_poolVars
  BY <1>1
<1> QED BY InitCInv, NextCInv, <1>2, PTL DEF CoordinatorSpec, NoDuplicateBudget

=============================================================================
