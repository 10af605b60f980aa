-------------------------- MODULE BackupPool_proofs --------------------------
(***************************************************************************)
(* Proofs about BackupPool, for any clients, models, priorities, cap and   *)
(* bounds.  The obligations depend only on each client's being asked for   *)
(* at most what it has available (IInv).  The cap and the order of the     *)
(* victims depend on the sums over the clients, and on the ages being an   *)
(* order that every client with anything to release is part of (RInv).     *)
(***************************************************************************)
EXTENDS BackupPool, FiniteSetTheorems, WellFoundedInduction, TLAPS

\* The usage u with n more bytes asked for.
Asked(u, n) == [u EXCEPT !.pending = @ + n, !.requested_total = @ + n]

\* What is pending is never more than what was not released of the requests.
Kept(u) == u.requested_total <= u.released_total + u.pending

\* A usage the pool can hold.
Sound(u) == u \in Usages /\ u.evictable <= u.total

IInv == TypeOK /\ ObligationsKept

-----------------------------------------------------------------------------
(***************************************************************************)
(* Sums over finite sets, from the definition of SumFunctionOnSet.         *)
(***************************************************************************)

\* The element that the sum over s adds last.
Any(s) == CHOOSE x \in s : TRUE

\* g is the recursive function by which the sum of f over S is defined.
IsSum(g, f, S) ==
  g = [s \in SUBSET S |-> IF s = {} THEN 0 ELSE f[Any(s)] + g[s \ {Any(s)}]]

\* What holds of a set whenever it holds of its proper subsets holds of every
\* finite set: an induction over data in which the predicate is a set.
LEMMA SubsetInduction ==
  ASSUME NEW S, IsFiniteSet(S), NEW Good,
         \A T \in SUBSET S : (\A U \in SUBSET T : U # T => U \in Good) => T \in Good
  PROVE  S \in Good
<1> DEFINE Bad == {T \in SUBSET S : T \notin Good}
<1>1. SUFFICES ASSUME Bad # {} PROVE FALSE
  OBVIOUS
<1>2. Bad \subseteq FiniteSubsetsOf(S)
  BY FS_Subset DEF FiniteSubsetsOf
<1> HIDE DEF Bad
<1>3. PICK T \in Bad : \A U \in Bad : <<U, T>> \notin StrictSubsetOrdering(S)
  BY <1>1, <1>2, FS_StrictSubsetOrderingWellFounded, WFMin
<1>4. T \in SUBSET S /\ T \notin Good
  BY <1>3 DEF Bad
<1>5. ASSUME NEW U \in SUBSET T, U # T PROVE U \in Good
  <2>1. <<U, T>> \in StrictSubsetOrdering(S)
    BY <1>4, <1>5 DEF StrictSubsetOrdering
  <2> QED BY <2>1, <1>3, <1>4, <1>5 DEF Bad
<1> QED BY <1>4, <1>5

\* The same, one element at a time.
LEMMA SetInduction ==
  ASSUME NEW S, IsFiniteSet(S), NEW Good, {} \in Good,
         \A T \in SUBSET S : \A x \in T : T \ {x} \in Good => T \in Good
  PROVE  S \in Good
<1>1. ASSUME NEW T \in SUBSET S, \A U \in SUBSET T : U # T => U \in Good
      PROVE  T \in Good
  <2>1. CASE T = {}
    BY <2>1
  <2>2. ASSUME NEW x \in T PROVE T \in Good
    <3>1. T \ {x} \in Good
      BY <1>1
    <3> QED BY <3>1
  <2> QED BY <2>1, <2>2
<1> QED BY <1>1, SubsetInduction


\* The community modules' definition of the sum, in these terms.
LEMMA SumDef ==
  ASSUME NEW f, NEW S
  PROVE  SumFunctionOnSet(f, S) = (CHOOSE g : IsSum(g, f, S))[S]
BY DEF SumFunctionOnSet, FoldFunctionOnSet, MapThenFoldSet, IsSum, Any

LEMMA AnyIn == \A s : s # {} => Any(s) \in s
BY DEF Any

\* One step of the recursion.
LEMMA SumValue ==
  ASSUME NEW f, NEW S, NEW g, IsSum(g, f, S), NEW s \in SUBSET S
  PROVE  g[s] = IF s = {} THEN 0 ELSE f[Any(s)] + g[s \ {Any(s)}]
BY DEF IsSum

\* The sum over U does not depend on the set it is a part of.
LEMMA SumUnique ==
  ASSUME NEW f, NEW S, NEW T, NEW g, NEW h, IsSum(g, f, S), IsSum(h, f, T),
         NEW U \in SUBSET (S \cap T), IsFiniteSet(U)
  PROVE  g[U] = h[U]
<1> DEFINE Good == {u \in SUBSET U : g[u] = h[u]}
<1>1. ASSUME NEW u \in SUBSET U, \A v \in SUBSET u : v # u => v \in Good
      PROVE  u \in Good
  <2>1. CASE u = {}
    <3>1. {} \in SUBSET S /\ {} \in SUBSET T
      OBVIOUS
    <3>2. g[{}] = 0 /\ h[{}] = 0
      BY <3>1, SumValue
    <3> QED BY <2>1, <3>2
  <2>2. CASE u # {}
    <3>1. u \ {Any(u)} \in Good
      BY <1>1, <2>2, AnyIn
    <3>2. u \in SUBSET S /\ u \in SUBSET T
      OBVIOUS
    <3>3. g[u] = f[Any(u)] + g[u \ {Any(u)}]
      BY <2>2, <3>2, SumValue
    <3>4. h[u] = f[Any(u)] + h[u \ {Any(u)}]
      BY <2>2, <3>2, SumValue
    <3> QED BY <3>1, <3>3, <3>4
  <2> QED BY <2>1, <2>2
<1> HIDE DEF Good
<1>2. U \in Good
  BY <1>1, SubsetInduction
<1> QED BY <1>2 DEF Good

\* Every finite sum is defined.
LEMMA SumExists ==
  ASSUME NEW f, NEW S, IsFiniteSet(S)
  PROVE  \E g : IsSum(g, f, S)
<1> DEFINE Good == {T \in SUBSET S : \E g : IsSum(g, f, T)}
<1>1. ASSUME NEW T \in SUBSET S, \A U \in SUBSET T : U # T => U \in Good
      PROVE  T \in Good
  <2> DEFINE part(u) == CHOOSE g : IsSum(g, f, u)
             sum == [t \in SUBSET T |-> IF t = {} THEN 0
                                         ELSE f[Any(t)] + part(t \ {Any(t)})[t \ {Any(t)}]]
  <2>1. \A u \in SUBSET T : u # T => IsSum(part(u), f, u) /\ IsFiniteSet(u)
    BY <1>1, FS_Subset
  <2> HIDE DEF part
  <2>2. ASSUME NEW u \in SUBSET T, u # T PROVE sum[u] = part(u)[u]
    <3>1. CASE u = {}
      BY <2>1, <2>2, <3>1, SumValue
    <3>2. CASE u # {}
      <4> DEFINE v == u \ {Any(u)}
      <4>1. v \in SUBSET u /\ v # T /\ v \in SUBSET T
        BY <2>2, <3>2, AnyIn
      <4>2. part(v)[v] = part(u)[v]
        BY <2>1, <2>2, <4>1, SumUnique
      <4>3. part(u)[u] = f[Any(u)] + part(u)[v]
        BY <2>1, <2>2, <3>2, SumValue
      <4> QED BY <3>2, <4>2, <4>3
    <3> QED BY <3>1, <3>2
  <2>3. sum = [t \in SUBSET T |-> IF t = {} THEN 0 ELSE f[Any(t)] + sum[t \ {Any(t)}]]
    <3>1. \A t \in SUBSET T : t # {} => t \ {Any(t)} \in SUBSET T /\ t \ {Any(t)} # T
      BY AnyIn
    <3>2. \A t \in SUBSET T : t # {} => sum[t \ {Any(t)}] = part(t \ {Any(t)})[t \ {Any(t)}]
      BY <2>2, <3>1
    <3> QED BY <3>2
  <2> HIDE DEF sum
  <2>4. IsSum(sum, f, T)
    BY <2>3 DEF IsSum
  <2> QED BY <2>4
<1> HIDE DEF Good
<1>2. S \in Good
  BY <1>1, SubsetInduction
<1> QED BY <1>2 DEF Good

\* From here on only what the sum over {} is and what one element adds is used.
LEMMA SumEmpty == \A f : SumFunctionOnSet(f, {}) = 0
<1> SUFFICES ASSUME NEW f PROVE SumFunctionOnSet(f, {}) = 0
  OBVIOUS
<1>1. IsSum(CHOOSE g : IsSum(g, f, {}), f, {})
  BY SumExists, FS_EmptySet
<1> QED BY <1>1, SumValue, SumDef

LEMMA SumAny ==
  ASSUME NEW f, NEW S, IsFiniteSet(S), S # {}
  PROVE  SumFunctionOnSet(f, S) = f[Any(S)] + SumFunctionOnSet(f, S \ {Any(S)})
<1> DEFINE T == S \ {Any(S)}
           g == CHOOSE h : IsSum(h, f, S)
           k == CHOOSE h : IsSum(h, f, T)
<1>1. IsFiniteSet(T)
  BY FS_Subset
<1>2. IsSum(g, f, S) /\ IsSum(k, f, T)
  BY <1>1, SumExists
<1>3. SumFunctionOnSet(f, S) = g[S] /\ SumFunctionOnSet(f, T) = k[T]
  BY SumDef
<1> HIDE DEF g, k
<1>4. k[T] = g[T]
  BY <1>1, <1>2, SumUnique
<1>5. g[S] = f[Any(S)] + g[T]
  BY <1>2, SumValue
<1> QED BY <1>3, <1>4, <1>5


\* A sum of numbers is a number.
LEMMA SumNat ==
  ASSUME NEW f, NEW S, IsFiniteSet(S), \A x \in S : f[x] \in Nat
  PROVE  SumFunctionOnSet(f, S) \in Nat
<1> DEFINE Good == {T \in SUBSET S : SumFunctionOnSet(f, T) \in Nat}
<1>1. ASSUME NEW T \in SUBSET S, \A U \in SUBSET T : U # T => U \in Good
      PROVE  T \in Good
  <2>1. CASE T = {}
    BY <2>1, SumEmpty
  <2>2. CASE T # {}
    <3>1. Any(T) \in T /\ T \ {Any(T)} \in Good /\ IsFiniteSet(T)
      BY <1>1, <2>2, AnyIn, FS_Subset
    <3> QED BY <2>2, <3>1, SumAny
  <2> QED BY <2>1, <2>2
<1> HIDE DEF Good
<1>2. S \in Good
  BY <1>1, SubsetInduction
<1> QED BY <1>2 DEF Good

\* A sum does not depend on the order: any element may be the last.
LEMMA SumRemove ==
  ASSUME NEW f, NEW S, IsFiniteSet(S), \A x \in S : f[x] \in Nat, NEW x \in S
  PROVE  SumFunctionOnSet(f, S) = f[x] + SumFunctionOnSet(f, S \ {x})
<1> DEFINE Sum(T) == SumFunctionOnSet(f, T)
           Good == {T \in SUBSET S : \A y \in T : Sum(T) = f[y] + Sum(T \ {y})}
<1>1. ASSUME NEW T \in SUBSET S, \A U \in SUBSET T : U # T => U \in Good
      PROVE  T \in Good
  <2> SUFFICES ASSUME NEW y \in T PROVE Sum(T) = f[y] + Sum(T \ {y})
    OBVIOUS
  <2> DEFINE a == Any(T)
             R == (T \ {a}) \ {y}
  <2>1. a \in T /\ IsFiniteSet(T) /\ IsFiniteSet(R)
    BY AnyIn, FS_Subset
  <2>2. Sum(T) = f[a] + Sum(T \ {a})
    BY <2>1, SumAny
  <2> HIDE DEF a
  <2>3. CASE a = y
    BY <2>2, <2>3
  <2>4. CASE a # y
    <3>1. Sum(T \ {a}) = f[y] + Sum(R)
      BY <1>1, <2>1, <2>4
    <3>2. (T \ {y}) \ {a} = R
      OBVIOUS
    <3>3. Sum(T \ {y}) = f[a] + Sum(R)
      <4>1. T \ {y} \in Good /\ a \in T \ {y}
        BY <1>1, <2>1, <2>4
      <4> QED BY <4>1, <3>2
    <3>4. f[a] \in Nat /\ f[y] \in Nat /\ Sum(R) \in Nat
      BY <2>1, SumNat
    <3> HIDE DEF Sum, R
    <3> QED BY <2>2, <3>1, <3>3, <3>4
  <2> QED BY <2>3, <2>4
<1> HIDE DEF Good
<1>2. S \in Good
  BY <1>1, SubsetInduction
<1> QED BY <1>2 DEF Good

\* The sum of a sum.
LEMMA SumAdd ==
  ASSUME NEW f, NEW g, NEW h, NEW S, IsFiniteSet(S),
         \A x \in S : f[x] \in Nat /\ g[x] \in Nat /\ h[x] = f[x] + g[x]
  PROVE  SumFunctionOnSet(h, S) = SumFunctionOnSet(f, S) + SumFunctionOnSet(g, S)
<1> DEFINE F(T) == SumFunctionOnSet(f, T)
           G(T) == SumFunctionOnSet(g, T)
           H(T) == SumFunctionOnSet(h, T)
           Good == {T \in SUBSET S : H(T) = F(T) + G(T)}
<1>1. {} \in Good
  BY SumEmpty
<1>2. ASSUME NEW T \in SUBSET S, NEW x \in T, T \ {x} \in Good
      PROVE  T \in Good
  <2>1. IsFiniteSet(T) /\ IsFiniteSet(T \ {x})
    BY FS_Subset
  <2>2. /\ F(T) = f[x] + F(T \ {x})
        /\ G(T) = g[x] + G(T \ {x})
        /\ H(T) = h[x] + H(T \ {x})
    BY <2>1, SumRemove
  <2>3. F(T \ {x}) \in Nat /\ G(T \ {x}) \in Nat
    BY <2>1, SumNat
  <2>4. f[x] \in Nat /\ g[x] \in Nat /\ h[x] = f[x] + g[x]
    OBVIOUS
  <2> HIDE DEF F, G, H
  <2> QED BY <1>2, <2>2, <2>3, <2>4
<1> HIDE DEF Good
<1>3. S \in Good
  BY <1>1, <1>2, SetInduction
<1> QED BY <1>3 DEF Good

\* Larger terms, larger sum; equal terms, equal sum.
LEMMA SumMonotone ==
  ASSUME NEW f, NEW g, NEW S, IsFiniteSet(S),
         \A x \in S : f[x] \in Nat /\ g[x] \in Nat /\ f[x] <= g[x]
  PROVE  SumFunctionOnSet(f, S) <= SumFunctionOnSet(g, S)
<1> DEFINE d == [x \in S |-> g[x] - f[x]]
<1>1. \A x \in S : d[x] \in Nat /\ g[x] = f[x] + d[x]
  OBVIOUS
<1> HIDE DEF d
<1>2. SumFunctionOnSet(g, S) = SumFunctionOnSet(f, S) + SumFunctionOnSet(d, S)
  BY <1>1, SumAdd
<1>3. SumFunctionOnSet(f, S) \in Nat /\ SumFunctionOnSet(d, S) \in Nat
  BY <1>1, SumNat
<1> QED BY <1>2, <1>3

\* A sum of zeros.
LEMMA SumZero ==
  ASSUME NEW f, NEW S, IsFiniteSet(S), \A x \in S : f[x] = 0
  PROVE  SumFunctionOnSet(f, S) = 0
<1> DEFINE n == SumFunctionOnSet(f, S)
<1>1. n = n + n
  BY SumAdd
<1>2. n \in Nat
  BY SumNat
<1> HIDE DEF n
<1>3. n = 0
  BY <1>1, <1>2
<1> QED BY <1>3 DEF n

\* The sum over two parts of a set.
LEMMA SumUnion ==
  ASSUME NEW f, NEW S, IsFiniteSet(S), \A x \in S : f[x] \in Nat, NEW T \in SUBSET S
  PROVE  SumFunctionOnSet(f, S) = SumFunctionOnSet(f, T) + SumFunctionOnSet(f, S \ T)
<1> DEFINE Sum(U) == SumFunctionOnSet(f, U)
           Good == {U \in SUBSET (S \ T) : Sum(T \cup U) = Sum(T) + Sum(U)}
<1>1. {} \in Good
  <2>1. Sum(T) \in Nat /\ Sum({}) = 0 /\ T \cup {} = T
    BY SumNat, SumEmpty, FS_Subset
  <2> HIDE DEF Sum
  <2> QED BY <2>1
<1>2. ASSUME NEW U \in SUBSET (S \ T), NEW x \in U, U \ {x} \in Good
      PROVE  U \in Good
  <2>1. /\ IsFiniteSet(T) /\ IsFiniteSet(U) /\ IsFiniteSet(U \ {x})
        /\ IsFiniteSet(T \cup U)
    BY FS_Subset
  <2>2. x \in T \cup U /\ (T \cup U) \ {x} = T \cup (U \ {x})
    OBVIOUS
  <2>3. Sum(T \cup U) = f[x] + Sum(T \cup (U \ {x}))
    BY <2>1, <2>2, SumRemove
  <2>4. Sum(U) = f[x] + Sum(U \ {x})
    BY <2>1, SumRemove
  <2>5. f[x] \in Nat /\ Sum(T) \in Nat /\ Sum(U \ {x}) \in Nat
    BY <2>1, SumNat
  <2> HIDE DEF Sum
  <2> QED BY <1>2, <2>3, <2>4, <2>5
<1> HIDE DEF Good
<1>3. S \ T \in Good
  BY <1>1, <1>2, SetInduction, FS_Subset
<1>4. T \cup (S \ T) = S
  OBVIOUS
<1> QED BY <1>3, <1>4 DEF Good

\* Fewer terms, smaller sum.
LEMMA SumSubset ==
  ASSUME NEW f, NEW S, IsFiniteSet(S), \A x \in S : f[x] \in Nat, NEW T \in SUBSET S
  PROVE  SumFunctionOnSet(f, T) <= SumFunctionOnSet(f, S)
<1>1. SumFunctionOnSet(f, T) \in Nat /\ SumFunctionOnSet(f, S \ T) \in Nat
  BY SumNat, FS_Subset
<1> QED BY <1>1, SumUnion

-----------------------------------------------------------------------------

\* max(a - b, 0) and min(a, b) over numbers of bytes.
LEMMA MonusType ==
  ASSUME NEW a \in Nat, NEW b \in Nat
  PROVE  Monus(a, b) \in Nat /\ Monus(a, b) <= a /\ a <= Monus(a, b) + b
BY DEF Monus

LEMMA AvailableType ==
  ASSUME NEW u \in Usages
  PROVE  Available(u) \in 0 .. u.evictable
BY MonusType, BoundsAssumption DEF Available, Usages

\* Asking for at most what is available keeps a usage sound and its
\* obligations accounted for.
LEMMA AskedSound ==
  ASSUME NEW u, Sound(u), NEW n \in 0 .. Available(u)
  PROVE  /\ Sound(Asked(u, n))
         /\ Kept(u) => Kept(Asked(u, n))
         /\ Asked(u, n).requested_total = u.requested_total + n
         /\ Asked(u, n).released_total = u.released_total
         /\ Asked(u, n).evictable = u.evictable
         /\ n > 0 => Asked(u, n).pending <= u.evictable
<1>1. n \in Nat /\ u \in Usages /\ u.evictable <= u.total
  BY AvailableType, BoundsAssumption DEF Sound, Usages
<1>2. n > 0 => n + u.pending <= u.evictable
  BY <1>1, BoundsAssumption DEF Available, Monus, Usages
<1>3. /\ Asked(u, n).total = u.total
      /\ Asked(u, n).evictable = u.evictable
      /\ Asked(u, n).released_total = u.released_total
      /\ Asked(u, n).pending = u.pending + n
      /\ Asked(u, n).requested_total = u.requested_total + n
  BY <1>1 DEF Asked, Usages
<1>4. Asked(u, n) \in Usages
  <2>1. u.pending + n \in Nat /\ u.requested_total + n \in Nat
    BY <1>1 DEF Usages
  <2> DEFINE p == u.pending + n
             q == u.requested_total + n
  <2>2. Asked(u, n) = [u EXCEPT !.pending = p, !.requested_total = q]
    BY DEF Asked
  <2> HIDE DEF p, q
  <2>3. p \in Nat /\ q \in Nat
    BY <2>1 DEF p, q
  <2> QED BY <1>1, <2>2, <2>3 DEF Usages
<1>5. Kept(u) => Kept(Asked(u, n))
  BY <1>1, <1>3, BoundsAssumption DEF Kept, Usages
<1>6. n > 0 => Asked(u, n).pending <= u.evictable
  BY <1>1, <1>2, <1>3, BoundsAssumption DEF Usages
<1> QED BY <1>1, <1>3, <1>4, <1>5, <1>6 DEF Sound

\* request_release_bytes asks every client for at most what it has available.
LEMMA QueuedAvailable ==
  ASSUME NEW s, \A c \in Clients : Sound(s[c]),
         NEW o, NEW target, RequestReleaseBytes(s, o, target)
  PROVE  \E n \in [Clients -> Nat] :
           /\ \A c \in Clients : n[c] \in 0 .. Available(s[c])
           /\ clients' = [c \in Clients |-> Asked(s[c], n[c])]
<1>1. PICK queued \in [Clients -> 0 .. MaxBytes] :
        queued = Queued(s, o, target) /\ clients' = Issue(s, queued)
  BY DEF RequestReleaseBytes
<1>2. ASSUME NEW c \in Clients
      PROVE  queued[c] \in 0 .. Available(s[c])
  <2> DEFINE rest == Monus(target, AvailableOf(s, {d \in Clients : Precedes(s, o, d, c)}))
  <2>1. queued[c] = Least(Available(s[c]), rest)
    BY <1>1 DEF Queued
  <2> HIDE DEF rest
  <2>2. queued[c] \in Nat
    BY <1>1, BoundsAssumption
  <2>3. Available(s[c]) \in Nat
    BY AvailableType, BoundsAssumption DEF Sound, Usages
  <2> QED BY <2>1, <2>2, <2>3 DEF Least
<1>3. queued \in [Clients -> Nat]
  BY <1>1, BoundsAssumption
<1>4. clients' = [c \in Clients |-> Asked(s[c], queued[c])]
  BY <1>1 DEF Issue, Asked
<1> QED BY <1>2, <1>3, <1>4

\* A report leaves a usage sound, and what it takes from what is pending is
\* released.
LEMMA AcknowledgeSound ==
  ASSUME NEW u, Sound(u), NEW m \in BackupModels,
         NEW total \in 0 .. MaxBytes, NEW evictable \in 0 .. MaxBytes,
         NEW released \in 0 .. MaxReleased,
         evictable <= total, released >= u.released_total
  PROVE  LET v == Acknowledge(u, m, total, evictable, released)
         IN  /\ Sound(v)
             /\ Kept(u) => Kept(v)
             /\ v.requested_total = u.requested_total
<1> DEFINE v == Acknowledge(u, m, total, evictable, released)
<1>1. u \in Usages /\ released - u.released_total \in Nat
  BY BoundsAssumption DEF Sound, Usages
<1>2. /\ Monus(u.pending, released - u.released_total) \in Nat
      /\ u.pending <= Monus(u.pending, released - u.released_total)
                        + (released - u.released_total)
  BY <1>1, MonusType DEF Usages
<1>3. /\ v.model = m /\ v.total = total /\ v.evictable = evictable
      /\ v.released_total = released
      /\ v.pending = Monus(u.pending, released - u.released_total)
      /\ v.requested_total = u.requested_total
  BY <1>1 DEF Acknowledge, Usages
<1>4. v \in Usages
  BY <1>1, <1>2 DEF Acknowledge, Usages
<1>5. Kept(u) => Kept(v)
  BY <1>1, <1>2, <1>3, BoundsAssumption DEF Kept, Usages
<1> QED BY <1>3, <1>4, <1>5 DEF Sound

-----------------------------------------------------------------------------
(***************************************************************************)
(* One step.                                                               *)
(***************************************************************************)

\* What every step but a restart does to the usage of one client.
Step(u, v) ==
  /\ Sound(v)
  /\ Kept(u) => Kept(v)
  /\ v.requested_total > u.requested_total =>
       v.pending <= v.evictable

\* The two conjuncts of the invariant, client by client.
LEMMA Clientwise ==
  /\ IInv <=> /\ clients \in [Clients -> Usages]
              /\ \A c \in Clients : Sound(clients[c]) /\ Kept(clients[c])
              /\ older \in SUBSET (Clients \X Clients)
  /\ IInv' <=> /\ clients' \in [Clients -> Usages]
               /\ \A c \in Clients : Sound(clients'[c]) /\ Kept(clients'[c])
               /\ older' \in SUBSET (Clients \X Clients)
BY DEF IInv, TypeOK, ObligationsKept, Sound, Kept

LEMMA UpdatedType ==
  ASSUME older \in SUBSET (Clients \X Clients), NEW c \in Clients
  PROVE  Updated(c) \in SUBSET (Clients \X Clients)
BY DEF Updated

LEMMA RequestStep ==
  ASSUME NEW s, \A c \in Clients : Sound(s[c]),
         NEW o, NEW target, RequestReleaseBytes(s, o, target)
  PROVE  /\ clients' \in [Clients -> Usages]
         /\ \A c \in Clients : Step(s[c], clients'[c])
<1>1. PICK n \in [Clients -> Nat] :
        /\ \A c \in Clients : n[c] \in 0 .. Available(s[c])
        /\ clients' = [c \in Clients |-> Asked(s[c], n[c])]
  BY QueuedAvailable
<1>2. ASSUME NEW c \in Clients
      PROVE  Step(s[c], clients'[c])
  <2>1. Sound(s[c]) /\ n[c] \in 0 .. Available(s[c]) /\ clients'[c] = Asked(s[c], n[c])
    BY <1>1
  <2>2. s[c].requested_total \in Nat /\ n[c] \in Nat
    BY <2>1, <1>1 DEF Sound, Usages
  <2> QED BY <2>1, <2>2, AskedSound DEF Step
<1>3. clients' \in [Clients -> Usages]
  BY <1>1, <1>2 DEF Step, Sound
<1> QED BY <1>2, <1>3

LEMMA RegisterStep ==
  ASSUME IInv, NEW c \in Clients, NEW m \in BackupModels, Register(c, m)
  PROVE  /\ clients' \in [Clients -> Usages]
         /\ \A d \in Clients : Step(clients[d], clients'[d])
         /\ older' \in SUBSET (Clients \X Clients)
<1>1. older' \in SUBSET (Clients \X Clients)
  BY UpdatedType DEF Register, IInv, TypeOK
<1>2. clients' = [clients EXCEPT ![c].model = m]
  BY DEF Register
<1>3. clients' \in [Clients -> Usages]
  BY <1>2 DEF IInv, TypeOK, Usages
<1>4. ASSUME NEW d \in Clients
      PROVE  Step(clients[d], clients'[d])
  <2>1. /\ clients'[d].total = clients[d].total
        /\ clients'[d].evictable = clients[d].evictable
        /\ clients'[d].pending = clients[d].pending
        /\ clients'[d].released_total = clients[d].released_total
        /\ clients'[d].requested_total = clients[d].requested_total
    BY <1>2 DEF IInv, TypeOK, Usages
  <2>2. clients[d] \in Usages /\ clients[d].evictable <= clients[d].total
    BY DEF IInv, TypeOK
  <2> QED BY <1>3, <2>1, <2>2 DEF Step, Sound, Kept, Usages
<1> QED BY <1>1, <1>3, <1>4

LEMMA UsageStep ==
  ASSUME IInv, NEW c \in Clients, NEW m \in BackupModels,
         NEW total \in 0 .. MaxBytes, NEW evictable \in 0 .. MaxBytes,
         NEW released \in 0 .. MaxReleased,
         Usage(c, m, total, evictable, released)
  PROVE  /\ clients' \in [Clients -> Usages]
         /\ \A d \in Clients : Step(clients[d], clients'[d])
         /\ older' \in SUBSET (Clients \X Clients)
<1> DEFINE v == Acknowledge(clients[c], m, total, evictable, released)
           s == [clients EXCEPT ![c] = v]
<1>1. /\ evictable <= total /\ released >= clients[c].released_total
      /\ older' = Updated(c)
      /\ RequestReleaseBytes(s, older', OverCap(s))
  BY DEF Usage, Accounted, MaybeEnqueue
<1>2. older' \in SUBSET (Clients \X Clients)
  BY <1>1, UpdatedType DEF IInv, TypeOK
<1>3. \A d \in Clients : Sound(clients[d])
  BY Clientwise
<1>4. /\ Sound(v)
      /\ Kept(clients[c]) => Kept(v)
      /\ v.requested_total = clients[c].requested_total
  BY <1>1, <1>3, AcknowledgeSound
<1> HIDE DEF v
<1>5. \A d \in Clients : s[d] = IF d = c THEN v ELSE clients[d]
  BY DEF IInv, TypeOK
<1>6. \A d \in Clients :
        /\ Sound(s[d])
        /\ Kept(clients[d]) => Kept(s[d])
        /\ s[d].requested_total = clients[d].requested_total
  BY <1>3, <1>4, <1>5
<1> HIDE DEF s
<1>7. /\ clients' \in [Clients -> Usages]
      /\ \A d \in Clients : Step(s[d], clients'[d])
  BY <1>1, <1>6, RequestStep
<1>8. \A d \in Clients : Step(clients[d], clients'[d])
  BY <1>6, <1>7 DEF Step
<1> QED BY <1>2, <1>7, <1>8

LEMMA ReleaseStep ==
  ASSUME IInv, NEW c \in Clients, NEW target \in 1 .. MaxBytes, Release(c, target)
  PROVE  /\ clients' \in [Clients -> Usages]
         /\ \A d \in Clients : Step(clients[d], clients'[d])
         /\ older' \in SUBSET (Clients \X Clients)
<1> DEFINE n == Least(target, Available(clients[c]))
<1>1. \A d \in Clients : Sound(clients[d]) /\ clients[d] \in Usages
  BY Clientwise DEF Sound
<1>2. n \in 0 .. Available(clients[c])
  <2>1. Available(clients[c]) \in Nat
    BY <1>1, AvailableType, BoundsAssumption DEF Usages
  <2> QED BY <2>1, BoundsAssumption DEF Least
<1>3. clients' = [clients EXCEPT ![c] = Asked(clients[c], n)]
  BY DEF Release, Asked, IInv, TypeOK, Usages
<1>4. n \in Nat /\ clients[c].requested_total \in Nat
  BY <1>1, <1>2, AvailableType, BoundsAssumption DEF Usages
<1> HIDE DEF n
<1>5. Step(clients[c], Asked(clients[c], n))
  BY <1>1, <1>2, <1>4, AskedSound DEF Step
<1>6. ASSUME NEW d \in Clients
      PROVE  Step(clients[d], clients'[d])
  <2>1. CASE d = c
    BY <1>3, <1>5, <2>1 DEF IInv, TypeOK
  <2>2. CASE d # c
    <3>1. clients'[d] = clients[d]
      BY <1>3, <2>2 DEF IInv, TypeOK
    <3> QED BY <1>1, <3>1 DEF Step, Usages
  <2> QED BY <2>1, <2>2
<1>7. clients' \in [Clients -> Usages]
  BY <1>3, <1>5 DEF IInv, TypeOK, Step, Sound
<1>8. older' \in SUBSET (Clients \X Clients)
  BY DEF Release, IInv, TypeOK
<1> QED BY <1>6, <1>7, <1>8

LEMMA NoClientsSound ==
  /\ NoClients \in [Clients -> Usages]
  /\ \A c \in Clients : /\ Sound(NoClients[c]) /\ Kept(NoClients[c])
                        /\ NoClients[c].requested_total = 0
<1>1. (CHOOSE m \in BackupModels : TRUE) \in BackupModels
  BY ModelsAssumption
<1> QED BY <1>1, BoundsAssumption DEF NoClients, Fresh, Usages, Sound, Kept

LEMMA InitIInv == PoolInit => IInv
BY NoClientsSound DEF PoolInit, IInv, TypeOK, ObligationsKept, Sound, Kept

\* A step restarts the pool, leaves it alone or changes the clients as above.
LEMMA AnyStep ==
  ASSUME IInv, [PoolNext]_poolVars
  PROVE  \/ PoolRestart
         \/ UNCHANGED poolVars
         \/ /\ clients' \in [Clients -> Usages]
            /\ \A d \in Clients : Step(clients[d], clients'[d])
            /\ older' \in SUBSET (Clients \X Clients)
<1>1. CASE ReleaseRequests
  <2>1. \A c \in Clients : Sound(clients[c])
    BY Clientwise
  <2>2. /\ RequestReleaseBytes(clients, older, OverCap(clients))
        /\ older' \in SUBSET (Clients \X Clients)
    BY <1>1 DEF ReleaseRequests, MaybeEnqueue, IInv, TypeOK
  <2> QED BY <2>1, <2>2, RequestStep
<1> QED BY <1>1, RegisterStep, UsageStep, ReleaseStep DEF PoolNext

LEMMA NextIInv == IInv /\ [PoolNext]_poolVars => IInv'
<1> SUFFICES ASSUME IInv, [PoolNext]_poolVars PROVE IInv'
  OBVIOUS
<1>1. CASE PoolRestart
  BY <1>1, NoClientsSound, Clientwise DEF PoolRestart
<1>2. CASE UNCHANGED poolVars
  BY <1>2 DEF poolVars, IInv, TypeOK, ObligationsKept
<1>3. CASE /\ clients' \in [Clients -> Usages]
           /\ \A d \in Clients : Step(clients[d], clients'[d])
           /\ older' \in SUBSET (Clients \X Clients)
  BY <1>3, Clientwise DEF Step
<1> QED BY <1>1, <1>2, <1>3, AnyStep

-----------------------------------------------------------------------------
(***************************************************************************)
(* The order of the victims, and a round of requests.                      *)
(***************************************************************************)

\* The ages are a strict order.
AgesStrict(o) ==
  /\ \A c \in Clients : <<c, c>> \notin o
  /\ \A b, c, d \in Clients : <<b, c>> \in o /\ <<c, d>> \in o => <<b, d>> \in o

\* Whoever has something to release has an age: the others never reported.
AgesTotal(s, o) ==
  \A c, d \in Clients :
    c # d /\ s[c].evictable > 0 => <<c, d>> \in o \/ <<d, c>> \in o

\* What each client can be asked for, and the clients asked before c.
Room(s) == [c \in Clients |-> Available(s[c])]

Before(s, o, c) == {d \in Clients : Precedes(s, o, d, c)}

\* The order of the candidates is a strict one.
LEMMA PrecedesStrict ==
  ASSUME NEW s, \A c \in Clients : Sound(s[c]), NEW o, AgesStrict(o)
  PROVE  /\ \A c \in Clients : ~Precedes(s, o, c, c)
         /\ \A b, c, d \in Clients :
              Precedes(s, o, b, c) /\ Precedes(s, o, c, d) => Precedes(s, o, b, d)
<1>1. \A c \in Clients : model_priority[s[c].model] \in Int
  BY PriorityAssumption DEF Sound, Usages
<1> QED BY <1>1 DEF Precedes, AgesStrict

\* It orders whoever has anything to be asked for.
LEMMA PrecedesTotal ==
  ASSUME NEW s, \A c \in Clients : Sound(s[c]), NEW o, AgesTotal(s, o),
         NEW c \in Clients, NEW d \in Clients, c # d, Available(s[c]) > 0
  PROVE  Precedes(s, o, c, d) \/ Precedes(s, o, d, c)
<1>1. model_priority[s[c].model] \in Int /\ model_priority[s[d].model] \in Int
  BY PriorityAssumption DEF Sound, Usages
<1>2. s[c].evictable > 0
  BY AvailableType, BoundsAssumption DEF Sound, Usages
<1>3. <<c, d>> \in o \/ <<d, c>> \in o
  BY <1>2 DEF AgesTotal
<1> QED BY <1>1, <1>3 DEF Precedes

\* Of some clients, one is asked before all others.
LEMMA FirstVictim ==
  ASSUME NEW s, \A c \in Clients : Sound(s[c]), NEW o, AgesStrict(o),
         NEW X \in SUBSET Clients, X # {}
  PROVE  \E c \in X : \A d \in X : ~Precedes(s, o, d, c)
<1> DEFINE First(T) == \E c \in T : \A d \in T : ~Precedes(s, o, d, c)
           Good == {T \in SUBSET X : T = {} \/ First(T)}
<1>1. ASSUME NEW T \in SUBSET X, NEW x \in T, T \ {x} \in Good
      PROVE  T \in Good
  <2>1. \A c \in T : ~Precedes(s, o, c, c)
    BY PrecedesStrict
  <2>2. CASE T \ {x} = {}
    BY <2>1, <2>2
  <2>3. CASE First(T \ {x})
    <3>1. PICK c \in T \ {x} : \A d \in T \ {x} : ~Precedes(s, o, d, c)
      BY <2>3
    <3>2. CASE Precedes(s, o, x, c)
      <4>1. ASSUME NEW d \in T, Precedes(s, o, d, x) PROVE FALSE
        <5>1. Precedes(s, o, d, c) /\ d # x
          BY <2>1, <3>1, <3>2, <4>1, PrecedesStrict
        <5> QED BY <3>1, <5>1
      <4> QED BY <4>1
    <3>3. CASE ~Precedes(s, o, x, c)
      BY <3>1, <3>3
    <3> QED BY <3>2, <3>3
  <2> QED BY <1>1, <2>2, <2>3
<1>2. IsFiniteSet(X) /\ {} \in Good
  BY FS_Subset, ClientsAssumption
<1> HIDE DEF Good
<1>3. X \in Good
  BY <1>1, <1>2, SetInduction
<1> QED BY <1>3 DEF Good

\* Of some clients that have anything to be asked for, one is asked last.
LEMMA LastVictim ==
  ASSUME NEW s, \A c \in Clients : Sound(s[c]), NEW o, AgesStrict(o), AgesTotal(s, o),
         NEW X \in SUBSET Clients, X # {}, \A c \in X : Available(s[c]) > 0
  PROVE  \E c \in X : \A d \in X \ {c} : Precedes(s, o, d, c)
<1> DEFINE Last(T) == \E c \in T : \A d \in T \ {c} : Precedes(s, o, d, c)
           Good == {T \in SUBSET X : T = {} \/ Last(T)}
<1>1. ASSUME NEW T \in SUBSET X, NEW x \in T, T \ {x} \in Good
      PROVE  T \in Good
  <2>1. CASE T \ {x} = {}
    BY <2>1
  <2>2. CASE Last(T \ {x})
    <3>1. PICK c \in T \ {x} : \A d \in (T \ {x}) \ {c} : Precedes(s, o, d, c)
      BY <2>2
    <3>2. Precedes(s, o, c, x) \/ Precedes(s, o, x, c)
      BY PrecedesTotal
    <3>3. CASE Precedes(s, o, x, c)
      BY <3>1, <3>3
    <3>4. CASE Precedes(s, o, c, x)
      <4>1. \A d \in T \ {x} : Precedes(s, o, d, x)
        BY <3>1, <3>4, PrecedesStrict
      <4> QED BY <4>1
    <3> QED BY <3>2, <3>3, <3>4
  <2> QED BY <1>1, <2>1, <2>2
<1>2. IsFiniteSet(X) /\ {} \in Good
  BY FS_Subset, ClientsAssumption
<1> HIDE DEF Good
<1>3. X \in Good
  BY <1>1, <1>2, SetInduction
<1> QED BY <1>3 DEF Good

\* What is available is a number, and so is its sum.
LEMMA RoomType ==
  ASSUME NEW s, \A c \in Clients : Sound(s[c]), NEW o
  PROVE  /\ \A c \in Clients : Room(s)[c] = Available(s[c]) /\ Room(s)[c] \in Nat
         /\ \A X \in SUBSET Clients : /\ AvailableOf(s, X) = SumFunctionOnSet(Room(s), X)
                                      /\ AvailableOf(s, X) \in Nat
<1>1. \A c \in Clients : Room(s)[c] = Available(s[c]) /\ Room(s)[c] \in Nat
  BY AvailableType, BoundsAssumption DEF Room, Sound, Usages
<1>2. ASSUME NEW X \in SUBSET Clients
      PROVE  /\ AvailableOf(s, X) = SumFunctionOnSet(Room(s), X)
             /\ AvailableOf(s, X) \in Nat
  <2>1. AvailableOf(s, X) = SumFunctionOnSet(Room(s), X)
    BY DEF AvailableOf, Room
  <2>2. IsFiniteSet(X)
    BY FS_Subset, ClientsAssumption
  <2> QED BY <1>1, <2>1, <2>2, SumNat
<1> QED BY <1>1, <1>2

\* A client's part of a round: if it is not asked for all it has, it completes
\* the target, and what it is asked for is within the target.
LEMMA QueuedShare ==
  ASSUME NEW s, \A c \in Clients : Sound(s[c]), NEW o, NEW target \in Nat,
         NEW c \in Clients
  PROVE  LET n == Queued(s, o, target)[c]
             before == AvailableOf(s, Before(s, o, c))
         IN  /\ n \in Nat /\ n <= Available(s[c])
             /\ before \in Nat
             /\ n < Available(s[c]) => target <= before + n
             /\ n > 0 => before + n <= target
<1> DEFINE n == Queued(s, o, target)[c]
           before == AvailableOf(s, Before(s, o, c))
           room == Available(s[c])
<1>1. before \in Nat /\ room \in Nat
  BY RoomType DEF Before
<1>2. n = Least(room, Monus(target, before))
  BY DEF Queued, Before
<1> HIDE DEF n, before, room
<1>3. /\ n \in Nat /\ n <= room
      /\ n < room => target <= before + n
      /\ n > 0 => before + n <= target
  BY <1>1, <1>2 DEF Least, Monus
<1> QED BY <1>1, <1>3 DEF n, before, room

\* Everybody is asked for all he has or the target is reached: the first client
\* with something left completes it.
LEMMA RoundExhausts ==
  ASSUME NEW s, \A c \in Clients : Sound(s[c]), NEW o, AgesStrict(o), NEW target \in Nat
  PROVE  LET q == Queued(s, o, target)
         IN  \/ SumFunctionOnSet(q, Clients) >= target
             \/ \A c \in Clients : q[c] = Available(s[c])
<1> DEFINE q == Queued(s, o, target)
           Left == {c \in Clients : q[c] # Available(s[c])}
<1>1. \A c \in Clients : q[c] \in Nat /\ q[c] <= Available(s[c]) /\ Available(s[c]) \in Nat
  BY QueuedShare, RoomType
<1>2. ASSUME Left # {}
      PROVE  SumFunctionOnSet(q, Clients) >= target
  <2>1. PICK c \in Left : \A d \in Left : ~Precedes(s, o, d, c)
    BY <1>2, FirstVictim
  <2> DEFINE B == Before(s, o, c)
  <2>2. c \in Clients /\ q[c] < Available(s[c])
    BY <1>1
  <2>3. \A d \in B : d \in Clients /\ q[d] = Available(s[d])
    BY <2>1 DEF Before
  <2>4. c \notin B
    BY <2>1 DEF Before
  <2>5. B \in SUBSET Clients /\ IsFiniteSet(B) /\ B \cup {c} \in SUBSET Clients
        /\ IsFiniteSet(B \cup {c})
    BY <2>2, FS_Subset, ClientsAssumption DEF Before
  <2>6. target <= AvailableOf(s, B) + q[c] /\ AvailableOf(s, B) \in Nat
    BY <2>2, QueuedShare
  <2> HIDE DEF q, B, Left
  <2>7. SumFunctionOnSet(Room(s), B) <= SumFunctionOnSet(q, B)
    BY <1>1, <2>3, <2>5, RoomType, SumMonotone
  <2>8. SumFunctionOnSet(q, B \cup {c}) = q[c] + SumFunctionOnSet(q, B)
    <3>1. (B \cup {c}) \ {c} = B
      BY <2>4
    <3> QED BY <1>1, <2>5, <3>1, SumRemove
  <2>9. SumFunctionOnSet(q, B \cup {c}) <= SumFunctionOnSet(q, Clients)
    BY <1>1, <2>5, ClientsAssumption, SumSubset
  <2>10. /\ SumFunctionOnSet(q, B) \in Nat /\ SumFunctionOnSet(q, Clients) \in Nat
         /\ q[c] \in Nat
    BY <1>1, <2>2, <2>5, ClientsAssumption, SumNat
  <2>11. AvailableOf(s, B) = SumFunctionOnSet(Room(s), B)
    BY <2>5, RoomType
  <2> QED BY <2>6, <2>7, <2>8, <2>9, <2>10, <2>11
<1> QED BY <1>2

\* No more than the target is asked for: the last client to be asked completes
\* it at most, and this is where the order must be total.
LEMMA RoundBounded ==
  ASSUME NEW s, \A c \in Clients : Sound(s[c]), NEW o, AgesStrict(o), AgesTotal(s, o),
         NEW target \in Nat
  PROVE  SumFunctionOnSet(Queued(s, o, target), Clients) <= target
<1> DEFINE q == Queued(s, o, target)
           Asks == {c \in Clients : q[c] > 0}
<1>1. \A c \in Clients : q[c] \in Nat /\ q[c] <= Available(s[c]) /\ Available(s[c]) \in Nat
  BY QueuedShare, RoomType
<1>2. SumFunctionOnSet(q, Clients) = SumFunctionOnSet(q, Asks) + SumFunctionOnSet(q, Clients \ Asks)
  BY <1>1, ClientsAssumption, SumUnion
<1>3. IsFiniteSet(Asks) /\ IsFiniteSet(Clients \ Asks)
  BY FS_Subset, ClientsAssumption
<1>4. \A c \in Clients \ Asks : q[c] = 0
  BY <1>1
<1>5. SumFunctionOnSet(q, Clients \ Asks) = 0
  BY <1>3, <1>4, SumZero
<1>6. CASE Asks = {}
  <2>1. SumFunctionOnSet(q, Asks) = 0
    BY <1>6, SumEmpty
  <2> QED BY <1>2, <1>5, <2>1
<1>7. CASE Asks # {}
  <2>1. PICK c \in Asks : \A d \in Asks \ {c} : Precedes(s, o, d, c)
    <3>1. \A c \in Asks : Available(s[c]) > 0
      BY <1>1
    <3> QED BY <1>7, <3>1, LastVictim
  <2> DEFINE B == Before(s, o, c)
  <2>2. Asks \ {c} \in SUBSET B /\ B \in SUBSET Clients /\ IsFiniteSet(B)
    BY <2>1, FS_Subset, ClientsAssumption DEF Before
  <2>3. c \in Clients /\ q[c] > 0
    OBVIOUS
  <2>4. AvailableOf(s, B) + q[c] <= target /\ AvailableOf(s, B) \in Nat
    BY <2>3, QueuedShare
  <2> HIDE DEF q, B
  <2>5. SumFunctionOnSet(q, Asks) = q[c] + SumFunctionOnSet(q, Asks \ {c})
    BY <1>1, <1>3, SumRemove
  <2>6. SumFunctionOnSet(q, Asks \ {c}) <= SumFunctionOnSet(q, B)
    BY <1>1, <2>2, SumSubset
  <2>7. SumFunctionOnSet(q, B) <= SumFunctionOnSet(Room(s), B)
    BY <1>1, <2>2, RoomType, SumMonotone
  <2>8. AvailableOf(s, B) = SumFunctionOnSet(Room(s), B)
    BY <2>2, RoomType
  <2>9. /\ q[c] \in Nat
        /\ SumFunctionOnSet(q, B) \in Nat /\ SumFunctionOnSet(q, Asks \ {c}) \in Nat
    BY <1>1, <1>3, <2>2, <2>3, FS_Subset, SumNat
  <2>10. SumFunctionOnSet(q, Asks) <= target
    BY <2>4, <2>5, <2>6, <2>7, <2>8, <2>9
  <2>11. SumFunctionOnSet(q, Asks) \in Nat
    BY <2>5, <2>9
  <2> HIDE DEF Asks
  <2>12. SumFunctionOnSet(q, Clients) <= target
    BY <1>2, <1>5, <2>10, <2>11
  <2> QED BY <2>12 DEF q
<1> QED BY <1>6, <1>7

\* Whoever is asked, nothing is left to those before it.
LEMMA RoundInOrder ==
  ASSUME NEW s, \A c \in Clients : Sound(s[c]), NEW o, AgesStrict(o),
         NEW target \in Nat, NEW c \in Clients, NEW d \in Clients,
         Precedes(s, o, c, d), Queued(s, o, target)[d] > 0
  PROVE  Queued(s, o, target)[c] = Available(s[c])
<1> DEFINE q == Queued(s, o, target)
           B(e) == Before(s, o, e)
<1>1. /\ q[c] \in Nat /\ q[c] <= Available(s[c])
      /\ q[d] \in Nat /\ AvailableOf(s, B(d)) + q[d] <= target
      /\ q[c] < Available(s[c]) => target <= AvailableOf(s, B(c)) + q[c]
      /\ AvailableOf(s, B(d)) \in Nat /\ AvailableOf(s, B(c)) \in Nat
  BY QueuedShare
<1>2. /\ c \in B(d) /\ c \notin B(c) /\ B(c) \in SUBSET (B(d) \ {c})
      /\ B(d) \in SUBSET Clients
  BY PrecedesStrict DEF Before
<1>3. IsFiniteSet(B(d)) /\ IsFiniteSet(B(d) \ {c})
  BY <1>2, FS_Subset, ClientsAssumption
<1> HIDE DEF q, B
<1>4. AvailableOf(s, B(d)) = Available(s[c]) + AvailableOf(s, B(d) \ {c})
  BY <1>2, <1>3, RoomType, SumRemove
<1>5. AvailableOf(s, B(c)) <= AvailableOf(s, B(d) \ {c})
  BY <1>2, <1>3, RoomType, SumSubset
<1>6. Available(s[c]) \in Nat /\ AvailableOf(s, B(d) \ {c}) \in Nat
  BY <1>2, RoomType
<1>7. q[d] > 0
  BY DEF q
<1>8. q[c] = Available(s[c])
  BY <1>1, <1>4, <1>5, <1>6, <1>7
<1> QED BY <1>8 DEF q

\* The sums of a state of the records are numbers.
LEMMA SumsType ==
  ASSUME NEW s, \A c \in Clients : Sound(s[c])
  PROVE  Total(s) \in Nat /\ Pending(s) \in Nat /\ OverCap(s) \in Nat
<1>1. \A c \in Clients : s[c].total \in Nat /\ s[c].pending \in Nat
  BY BoundsAssumption DEF Sound, Usages
<1>2. Total(s) \in Nat /\ Pending(s) \in Nat
  <2> DEFINE t == [c \in Clients |-> s[c].total]
             p == [c \in Clients |-> s[c].pending]
  <2>1. \A c \in Clients : t[c] \in Nat /\ p[c] \in Nat
    BY <1>1
  <2> HIDE DEF t, p
  <2>2. SumFunctionOnSet(t, Clients) \in Nat /\ SumFunctionOnSet(p, Clients) \in Nat
    BY <2>1, ClientsAssumption, SumNat
  <2> QED BY <2>2 DEF Total, Pending, t, p
<1>3. OverCap(s) \in Nat
  <2>1. CASE Cap = NoCap
    BY <2>1 DEF OverCap
  <2>2. CASE Cap # NoCap
    <3>1. Cap + Pending(s) \in Nat
      BY <1>2, <2>2, CapAssumption
    <3>2. Monus(Total(s), Cap + Pending(s)) \in Nat
      BY <1>2, <3>1, MonusType
    <3> QED BY <2>2, <3>2 DEF OverCap
  <2> QED BY <2>1, <2>2
<1> QED BY <1>2, <1>3

\* The new records of a round: what was queued is added to what is pending,
\* and nothing else of a record changes.
LEMMA RoundRecords ==
  ASSUME NEW s, \A c \in Clients : Sound(s[c]), NEW o, NEW target \in Nat,
         RequestReleaseBytes(s, o, target)
  PROVE  LET q == Queued(s, o, target)
         IN  /\ \A c \in Clients :
                  /\ clients'[c].model = s[c].model
                  /\ clients'[c].total = s[c].total
                  /\ clients'[c].evictable = s[c].evictable
                  /\ clients'[c].pending = s[c].pending + q[c]
                  /\ clients'[c].requested_total = s[c].requested_total + q[c]
                  /\ q[c] = Available(s[c]) => Available(clients'[c]) = 0
             /\ Total(clients') = Total(s)
             /\ Pending(clients') = Pending(s) + SumFunctionOnSet(q, Clients)
<1> DEFINE q == Queued(s, o, target)
<1>1. clients' = [c \in Clients |-> Asked(s[c], q[c])]
  BY DEF RequestReleaseBytes, Issue, Asked
<1>2. \A c \in Clients : q[c] \in Nat /\ q[c] <= Available(s[c])
  BY QueuedShare
<1> HIDE DEF q
<1>3. ASSUME NEW c \in Clients
      PROVE  /\ clients'[c].model = s[c].model
             /\ clients'[c].total = s[c].total
             /\ clients'[c].evictable = s[c].evictable
             /\ clients'[c].pending = s[c].pending + q[c]
             /\ clients'[c].requested_total = s[c].requested_total + q[c]
             /\ q[c] = Available(s[c]) => Available(clients'[c]) = 0
             /\ s[c].pending \in Nat /\ s[c].total \in Nat
  <2>1. clients'[c] = Asked(s[c], q[c]) /\ s[c] \in Usages
    BY <1>1 DEF Sound
  <2>2. /\ clients'[c].model = s[c].model
        /\ clients'[c].total = s[c].total
        /\ clients'[c].evictable = s[c].evictable
        /\ clients'[c].pending = s[c].pending + q[c]
        /\ clients'[c].requested_total = s[c].requested_total + q[c]
    BY <2>1 DEF Asked, Usages
  <2>3. s[c].evictable \in Nat /\ s[c].pending \in Nat /\ s[c].total \in Nat
    BY <2>1, BoundsAssumption DEF Usages
  <2>4. q[c] = Available(s[c]) => Available(clients'[c]) = 0
    BY <1>2, <2>2, <2>3 DEF Available, Monus
  <2> QED BY <2>2, <2>3, <2>4
<1>4. Total(clients') = Total(s)
  <2>1. [c \in Clients |-> clients'[c].total] = [c \in Clients |-> s[c].total]
    BY <1>3
  <2> QED BY <2>1 DEF Total
<1>5. Pending(clients') = Pending(s) + SumFunctionOnSet(q, Clients)
  <2> DEFINE p  == [c \in Clients |-> s[c].pending]
             pp == [c \in Clients |-> clients'[c].pending]
  <2>1. \A c \in Clients : p[c] \in Nat /\ q[c] \in Nat /\ pp[c] = p[c] + q[c]
    BY <1>2, <1>3
  <2> HIDE DEF p, pp
  <2>2. SumFunctionOnSet(pp, Clients) = SumFunctionOnSet(p, Clients)
                                          + SumFunctionOnSet(q, Clients)
    BY <2>1, ClientsAssumption, SumAdd
  <2> QED BY <2>2 DEF Pending, p, pp
<1> QED BY <1>3, <1>4, <1>5 DEF q

\* A round in which a client d is asked for more had something to ask for,
\* asked for no more than that, and left nothing to those before d.
LEMMA RoundGrows ==
  ASSUME NEW s, \A c \in Clients : Sound(s[c]), NEW o, AgesStrict(o), AgesTotal(s, o),
         NEW target \in Nat, RequestReleaseBytes(s, o, target),
         NEW d \in Clients, clients'[d].requested_total > s[d].requested_total
  PROVE  /\ target > 0
         /\ Total(clients') = Total(s)
         /\ Pending(clients') <= Pending(s) + target
         /\ \A c \in Clients : Precedes(clients', o, c, d) => Available(clients'[c]) = 0
<1> DEFINE q == Queued(s, o, target)
<1>1. q[d] \in Nat /\ q[d] > 0
  <2>1. s[d].requested_total \in Nat
    BY DEF Sound, Usages
  <2>2. q[d] \in Nat /\ clients'[d].requested_total = s[d].requested_total + q[d]
    BY RoundRecords, QueuedShare
  <2> HIDE DEF q
  <2> QED BY <2>1, <2>2
<1>2. target > 0
  <2>1. /\ AvailableOf(s, Before(s, o, d)) \in Nat
        /\ AvailableOf(s, Before(s, o, d)) + q[d] <= target
    BY <1>1, QueuedShare
  <2> HIDE DEF q
  <2> QED BY <1>1, <2>1
<1>3. Pending(clients') <= Pending(s) + target
  <2>1. /\ SumFunctionOnSet(q, Clients) <= target
        /\ Pending(clients') = Pending(s) + SumFunctionOnSet(q, Clients)
        /\ Pending(s) \in Nat
    BY RoundBounded, RoundRecords, SumsType
  <2>2. SumFunctionOnSet(q, Clients) \in Nat
    BY QueuedShare, SumNat, ClientsAssumption
  <2> HIDE DEF q
  <2> QED BY <2>1, <2>2
<1>4. ASSUME NEW c \in Clients, Precedes(clients', o, c, d)
      PROVE  Available(clients'[c]) = 0
  <2>1. clients'[c].model = s[c].model /\ clients'[d].model = s[d].model
    BY RoundRecords
  <2>2. Precedes(s, o, c, d)
    BY <1>4, <2>1 DEF Precedes
  <2>3. q[c] = Available(s[c])
    BY <1>1, <2>2, RoundInOrder
  <2> QED BY <2>3, RoundRecords
<1> QED BY <1>2, <1>3, <1>4, RoundRecords

\* After a round, either what was to be asked for has been or nobody has more.
LEMMA RoundEnds ==
  ASSUME NEW s, \A c \in Clients : Sound(s[c]), NEW o, AgesStrict(o),
         NEW target \in Nat, RequestReleaseBytes(s, o, target)
  PROVE  \/ Pending(clients') >= Pending(s) + target
         \/ \A c \in Clients : Available(clients'[c]) = 0
<1> DEFINE q == Queued(s, o, target)
<1>1. CASE \A c \in Clients : q[c] = Available(s[c])
  BY <1>1, RoundRecords
<1>2. CASE SumFunctionOnSet(q, Clients) >= target
  <2>1. /\ Pending(clients') = Pending(s) + SumFunctionOnSet(q, Clients)
        /\ Pending(s) \in Nat
    BY RoundRecords, SumsType
  <2>2. SumFunctionOnSet(q, Clients) \in Nat
    BY QueuedShare, SumNat, ClientsAssumption
  <2> HIDE DEF q
  <2> QED BY <1>2, <2>1, <2>2
<1> QED BY <1>1, <1>2, RoundExhausts

-----------------------------------------------------------------------------

\* The ages of the records order the clients that have anything to release.
Ages == AgesStrict(older) /\ AgesTotal(clients, older)

\* The inductive invariant with the order of the victims and the cap.
RInv == IInv /\ Ages /\ CapPursued

LEMMA RInvSound ==
  /\ RInv => \A c \in Clients : Sound(clients[c])
  /\ RInv => clients \in [Clients -> Usages] /\ older \in SUBSET (Clients \X Clients)
BY Clientwise DEF RInv

LEMMA UpdatedAges ==
  ASSUME older \in SUBSET (Clients \X Clients), Ages, NEW c \in Clients,
         NEW s, \A d \in Clients \ {c} : s[d] = clients[d]
  PROVE  AgesStrict(Updated(c)) /\ AgesTotal(s, Updated(c))
<1>1. \A a, b \in Clients :
        <<a, b>> \in Updated(c) <=> \/ <<a, b>> \in older /\ a # c /\ b # c
                                    \/ a # c /\ b = c
  BY DEF Updated
<1>2. AgesStrict(Updated(c))
  BY <1>1 DEF Ages, AgesStrict
<1>3. AgesTotal(s, Updated(c))
  <2> SUFFICES ASSUME NEW a \in Clients, NEW b \in Clients, a # b, s[a].evictable > 0
               PROVE  <<a, b>> \in Updated(c) \/ <<b, a>> \in Updated(c)
    BY DEF AgesTotal
  <2>1. CASE a = c \/ b = c
    BY <1>1, <2>1
  <2>2. CASE a # c /\ b # c
    <3>1. clients[a].evictable > 0
      BY <2>2
    <3> QED BY <1>1, <2>2, <3>1 DEF Ages, AgesTotal
  <2> QED BY <2>1, <2>2
<1> QED BY <1>2, <1>3

\* A round keeps the order of ages.
LEMMA RoundAges ==
  ASSUME NEW s, \A c \in Clients : Sound(s[c]), NEW target \in Nat,
         AgesStrict(older'), AgesTotal(s, older'), RequestReleaseBytes(s, older', target)
  PROVE  Ages'
<1>1. \A c \in Clients : clients'[c].evictable = s[c].evictable
  BY RoundRecords
<1> QED BY <1>1 DEF Ages, AgesStrict, AgesTotal

\* A round for what is over the cap leaves nothing to ask for, or nothing over
\* the cap.
LEMMA CapRound ==
  ASSUME NEW s, \A c \in Clients : Sound(s[c]), NEW o, AgesStrict(o),
         MaybeEnqueue(s, o), \A c \in Clients : Sound(clients'[c])
  PROVE  CapPursued'
<1>1. OverCap(s) \in Nat /\ Total(s) \in Nat /\ Pending(s) \in Nat
  BY SumsType
<1>2. RequestReleaseBytes(s, o, OverCap(s))
  BY DEF MaybeEnqueue
<1>3. Total(clients') = Total(s) /\ Pending(clients') \in Nat
  BY <1>1, <1>2, RoundRecords, SumsType
<1>4. CASE Pending(clients') >= Pending(s) + OverCap(s)
  <2>1. OverCap(clients') = IF Cap = NoCap THEN 0
                            ELSE Monus(Total(clients'), Cap + Pending(clients'))
    BY DEF OverCap
  <2>2. OverCap(s) = IF Cap = NoCap THEN 0 ELSE Monus(Total(s), Cap + Pending(s))
    BY DEF OverCap
  <2>3. ~(OverCap(clients') > 0)
    BY <1>1, <1>3, <1>4, <2>1, <2>2, CapAssumption DEF Monus
  <2> QED BY <2>3 DEF CapPursued
<1>5. CASE \A c \in Clients : Available(clients'[c]) = 0
  BY <1>5 DEF CapPursued
<1> QED BY <1>1, <1>2, <1>4, <1>5, RoundEnds

\* A step that takes nothing from what is pending and leaves the bytes alone
\* brings nothing over the cap.
LEMMA OverCapMonotone ==
  ASSUME \A c \in Clients : Sound(clients[c]) /\ Sound(clients'[c]),
         \A c \in Clients : clients'[c].total = clients[c].total,
         \A c \in Clients : clients'[c].pending >= clients[c].pending,
         OverCap(clients') > 0
  PROVE  OverCap(clients) > 0
<1>1. Total(clients') = Total(clients)
  <2>1. [c \in Clients |-> clients'[c].total] = [c \in Clients |-> clients[c].total]
    OBVIOUS
  <2> QED BY <2>1 DEF Total
<1>2. Pending(clients') >= Pending(clients)
  <2> DEFINE p  == [c \in Clients |-> clients[c].pending]
             pp == [c \in Clients |-> clients'[c].pending]
  <2>1. \A c \in Clients : p[c] \in Nat /\ pp[c] \in Nat /\ p[c] <= pp[c]
    BY DEF Sound, Usages
  <2> HIDE DEF p, pp
  <2>2. SumFunctionOnSet(p, Clients) <= SumFunctionOnSet(pp, Clients)
    BY <2>1, ClientsAssumption, SumMonotone
  <2>3. SumFunctionOnSet(p, Clients) \in Nat /\ SumFunctionOnSet(pp, Clients) \in Nat
    BY <2>1, ClientsAssumption, SumNat
  <2>4. SumFunctionOnSet(pp, Clients) >= SumFunctionOnSet(p, Clients)
    BY <2>2, <2>3
  <2> QED BY <2>4 DEF Pending, p, pp
<1>3. /\ Total(clients) \in Nat /\ Pending(clients) \in Nat /\ Pending(clients') \in Nat
  BY SumsType
<1>4. Cap # NoCap
  BY DEF OverCap
<1>5. Monus(Total(clients'), Cap + Pending(clients')) > 0
  BY <1>4 DEF OverCap
<1>6. Monus(Total(clients), Cap + Pending(clients)) > 0
  BY <1>1, <1>2, <1>3, <1>4, <1>5, CapAssumption DEF Monus
<1> QED BY <1>4, <1>6 DEF OverCap

LEMMA InitRInv == PoolInit => RInv
<1> SUFFICES ASSUME PoolInit PROVE RInv
  OBVIOUS
<1>1. \A c \in Clients : clients[c].evictable = 0 /\ Available(clients[c]) = 0
  BY DEF PoolInit, NoClients, Fresh, Available, Monus
<1>2. Ages
  BY <1>1 DEF PoolInit, Ages, AgesStrict, AgesTotal
<1> QED BY <1>1, <1>2, InitIInv DEF RInv, CapPursued

LEMMA RestartRInv == PoolRestart => RInv'
<1> SUFFICES ASSUME PoolRestart PROVE RInv'
  OBVIOUS
<1>1. \A c \in Clients : clients'[c].evictable = 0 /\ Available(clients'[c]) = 0
  BY DEF PoolRestart, NoClients, Fresh, Available, Monus
<1>2. Ages'
  BY <1>1 DEF PoolRestart, Ages, AgesStrict, AgesTotal
<1>3. IInv'
  BY NoClientsSound, Clientwise DEF PoolRestart
<1> QED BY <1>1, <1>2, <1>3 DEF RInv, CapPursued

\* The handlers, one by one.
LEMMA RegisterRInv ==
  ASSUME RInv, IInv', NEW c \in Clients, NEW m \in BackupModels, Register(c, m)
  PROVE  Ages' /\ CapPursued'
<1>1. \A d \in Clients : /\ clients'[d].total = clients[d].total
                         /\ clients'[d].evictable = clients[d].evictable
                         /\ clients'[d].pending = clients[d].pending
                         /\ d # c => clients'[d] = clients[d]
  BY RInvSound DEF Register, Usages
<1>2. Ages'
  BY <1>1, RInvSound, UpdatedAges DEF Register, Ages, RInv
<1>3. \A d \in Clients : Sound(clients[d]) /\ Sound(clients'[d])
  BY RInvSound, Clientwise
<1>4. CapPursued'
  <2>1. \A d \in Clients : Available(clients'[d]) = Available(clients[d])
    BY <1>1 DEF Available
  <2>2. \A d \in Clients : clients'[d].pending >= clients[d].pending
    BY <1>1, <1>3 DEF Sound, Usages
  <2>3. OverCap(clients') > 0 => OverCap(clients) > 0
    BY <1>1, <1>3, <2>2, OverCapMonotone
  <2> QED BY <2>1, <2>3 DEF RInv, CapPursued
<1> QED BY <1>2, <1>4

\* The records that a report leaves before the round that ends it.
Reported(c, m, total, evictable, released) ==
  [clients EXCEPT ![c] = Acknowledge(@, m, total, evictable, released)]

LEMMA ReportedSound ==
  ASSUME RInv, NEW c \in Clients, NEW m \in BackupModels,
         NEW total \in 0 .. MaxBytes, NEW evictable \in 0 .. MaxBytes,
         NEW released \in 0 .. MaxReleased,
         Usage(c, m, total, evictable, released)
  PROVE  LET s == Reported(c, m, total, evictable, released)
         IN  /\ \A d \in Clients : Sound(s[d])
             /\ \A d \in Clients : s[d].requested_total = clients[d].requested_total
             /\ AgesStrict(older') /\ AgesTotal(s, older')
             /\ MaybeEnqueue(s, older')
<1> DEFINE v == Acknowledge(clients[c], m, total, evictable, released)
           s == Reported(c, m, total, evictable, released)
<1>1. evictable <= total /\ released >= clients[c].released_total
  BY DEF Usage, Accounted
<1>2. Sound(v) /\ v.requested_total = clients[c].requested_total
  BY <1>1, RInvSound, AcknowledgeSound
<1> HIDE DEF v
<1>3. \A d \in Clients : s[d] = IF d = c THEN v ELSE clients[d]
  BY RInvSound DEF Reported, v
<1>4. MaybeEnqueue(s, older') /\ older' = Updated(c)
  BY DEF Usage, Reported
<1> HIDE DEF s
<1>5. AgesStrict(older') /\ AgesTotal(s, older')
  BY <1>3, <1>4, RInvSound, UpdatedAges DEF RInv
<1>6. \A d \in Clients : Sound(s[d]) /\ s[d].requested_total = clients[d].requested_total
  BY <1>2, <1>3, RInvSound
<1> QED BY <1>4, <1>5, <1>6 DEF s

LEMMA UsageRInv ==
  ASSUME RInv, IInv', NEW c \in Clients, NEW m \in BackupModels,
         NEW total \in 0 .. MaxBytes, NEW evictable \in 0 .. MaxBytes,
         NEW released \in 0 .. MaxReleased,
         Usage(c, m, total, evictable, released)
  PROVE  Ages' /\ CapPursued'
<1> DEFINE s == Reported(c, m, total, evictable, released)
<1>1. /\ \A d \in Clients : Sound(s[d])
      /\ AgesStrict(older') /\ AgesTotal(s, older')
      /\ MaybeEnqueue(s, older')
  BY ReportedSound
<1> HIDE DEF s
<1>2. OverCap(s) \in Nat
  BY <1>1, SumsType
<1>3. RequestReleaseBytes(s, older', OverCap(s))
  BY <1>1 DEF MaybeEnqueue
<1>4. Ages'
  BY <1>1, <1>2, <1>3, RoundAges
<1>5. \A d \in Clients : Sound(clients'[d])
  BY Clientwise
<1> QED BY <1>1, <1>4, <1>5, CapRound

\* An operator's request takes its n bytes from what one client has available.
LEMMA ReleaseRecords ==
  ASSUME RInv, NEW c \in Clients, NEW n \in 1 .. MaxBytes, Release(c, n)
  PROVE  /\ \A d \in Clients :
              /\ clients'[d].total = clients[d].total
              /\ clients'[d].evictable = clients[d].evictable
              /\ clients'[d].pending >= clients[d].pending
              /\ Available(clients[d]) = 0 => Available(clients'[d]) = 0
              /\ d # c => clients'[d] = clients[d]
<1> DEFINE k == Least(n, Available(clients[c]))
<1>1. /\ clients[c] \in Usages /\ clients[c].evictable \in Nat /\ clients[c].pending \in Nat
      /\ Available(clients[c]) \in Nat
  BY RInvSound, AvailableType, BoundsAssumption DEF Usages
<1>2. k \in Nat /\ k <= Available(clients[c])
  BY <1>1, BoundsAssumption DEF Least
<1>3. clients' = [clients EXCEPT ![c] = Asked(clients[c], k)]
  BY RInvSound DEF Release, Asked, Usages
<1> HIDE DEF k
<1>4. /\ clients'[c] = Asked(clients[c], k)
      /\ \A d \in Clients : d # c => clients'[d] = clients[d]
  BY <1>3, RInvSound
<1>5. /\ clients'[c].total = clients[c].total
      /\ clients'[c].evictable = clients[c].evictable
      /\ clients'[c].pending = clients[c].pending + k
  BY <1>1, <1>4 DEF Asked, Usages
<1>6. Available(clients[c]) = 0 => Available(clients'[c]) = 0
  BY <1>1, <1>2, <1>5 DEF Available
<1>7. \A d \in Clients : clients[d].pending \in Nat
  BY RInvSound DEF Usages
<1> QED BY <1>1, <1>2, <1>4, <1>5, <1>6, <1>7

LEMMA ReleaseRInv ==
  ASSUME RInv, IInv', NEW c \in Clients, NEW n \in 1 .. MaxBytes, Release(c, n)
  PROVE  Ages' /\ CapPursued'
<1>1. Ages'
  BY ReleaseRecords DEF Release, RInv, Ages, AgesTotal
<1>2. \A d \in Clients : Sound(clients[d]) /\ Sound(clients'[d])
  BY RInvSound, Clientwise
<1>3. OverCap(clients') > 0 => OverCap(clients) > 0
  BY <1>2, ReleaseRecords, OverCapMonotone
<1> QED BY <1>1, <1>3, ReleaseRecords DEF RInv, CapPursued

\* A round over the records as they stand, whatever is asked for.
LEMMA RoundRInv ==
  ASSUME RInv, IInv', NEW target \in Nat, RequestReleaseBytes(clients, older, target),
         older' = older
  PROVE  Ages' /\ CapPursued'
<1>1. \A c \in Clients : Sound(clients[c]) /\ Sound(clients'[c])
  BY RInvSound, Clientwise
<1>2. Ages'
  BY <1>1, RoundAges DEF RInv, Ages
<1> DEFINE q == Queued(clients, older, target)
<1>3. \A c \in Clients :
        /\ clients'[c].total = clients[c].total
        /\ clients'[c].pending = clients[c].pending + q[c]
        /\ q[c] \in Nat /\ q[c] <= Available(clients[c])
        /\ q[c] = Available(clients[c]) => Available(clients'[c]) = 0
  BY <1>1, RoundRecords, QueuedShare
<1> HIDE DEF q
<1>4. \A c \in Clients : clients'[c].pending >= clients[c].pending
  BY <1>1, <1>3 DEF Sound, Usages
<1>5. OverCap(clients') > 0 => OverCap(clients) > 0
  BY <1>1, <1>3, <1>4, OverCapMonotone
<1>6. CapPursued'
  BY <1>3, <1>5 DEF RInv, CapPursued
<1> QED BY <1>2, <1>6

LEMMA NextRInv == RInv /\ [PoolNext]_poolVars => RInv'
<1> SUFFICES ASSUME RInv, [PoolNext]_poolVars PROVE RInv'
  OBVIOUS
<1>1. IInv'
  BY NextIInv DEF RInv
<1>2. CASE PoolRestart
  BY <1>2, RestartRInv
<1>3. CASE UNCHANGED poolVars
  <2>1. Ages' /\ CapPursued'
    BY <1>3 DEF RInv, poolVars, Ages, AgesStrict, AgesTotal, CapPursued, OverCap, Total,
                Pending, Available
  <2> QED BY <1>1, <2>1 DEF RInv
<1>4. CASE ReleaseRequests
  <2>1. OverCap(clients) \in Nat
    BY RInvSound, SumsType
  <2>2. RequestReleaseBytes(clients, older, OverCap(clients)) /\ older' = older
    BY <1>4 DEF ReleaseRequests, MaybeEnqueue
  <2> QED BY <1>1, <2>1, <2>2, RoundRInv DEF RInv
<1> QED BY <1>1, <1>2, <1>3, <1>4, RegisterRInv, UsageRInv, ReleaseRInv DEF PoolNext, RInv

-----------------------------------------------------------------------------

\* The client d is asked for more in the step.
Asks(d) == clients'[d].requested_total > clients[d].requested_total

\* Nothing is left to those before d.
InTurn(d) ==
  \A c \in Clients : Precedes(clients', older', c, d) => Available(clients'[c]) = 0

\* What is pending and the cap together do not exceed what the workers hold.
WithinCap == Cap # NoCap /\ Pending(clients') + Cap <= Total(clients')

\* The requests for what is over the cap.
LEMMA CapAsks ==
  ASSUME NEW s, \A c \in Clients : Sound(s[c]), AgesStrict(older'), AgesTotal(s, older'),
         MaybeEnqueue(s, older'), NEW d \in Clients,
         clients'[d].requested_total > s[d].requested_total
  PROVE  InTurn(d) /\ WithinCap
<1>1. OverCap(s) \in Nat /\ Total(s) \in Nat /\ Pending(s) \in Nat
  BY SumsType
<1>2. RequestReleaseBytes(s, older', OverCap(s))
  BY DEF MaybeEnqueue
<1>3. /\ OverCap(s) > 0 /\ Total(clients') = Total(s)
      /\ Pending(clients') <= Pending(s) + OverCap(s)
      /\ InTurn(d)
  BY <1>1, <1>2, RoundGrows DEF InTurn
<1>4. Pending(clients') \in Nat
  <2>1. Pending(clients') = Pending(s) + SumFunctionOnSet(Queued(s, older', OverCap(s)), Clients)
    BY <1>1, <1>2, RoundRecords
  <2>2. SumFunctionOnSet(Queued(s, older', OverCap(s)), Clients) \in Nat
    BY <1>1, QueuedShare, SumNat, ClientsAssumption
  <2> QED BY <1>1, <2>1, <2>2
<1>5. Cap # NoCap
  BY <1>3 DEF OverCap
<1>6. OverCap(s) = Monus(Total(s), Cap + Pending(s)) /\ Cap \in Nat
  BY <1>5, CapAssumption DEF OverCap
<1>7. Pending(clients') + Cap <= Total(clients')
  BY <1>1, <1>3, <1>4, <1>6 DEF Monus
<1> QED BY <1>3, <1>5, <1>7 DEF WithinCap

\* Every request is the cap's or an operator's.
LEMMA PoolAsks ==
  ASSUME RInv, [PoolNext]_poolVars, NEW d \in Clients, Asks(d)
  PROVE  (InTurn(d) /\ WithinCap) \/ ByOperator(d)
<1>1. clients \in [Clients -> Usages] /\ clients[d].requested_total \in Nat
  BY RInvSound DEF Usages
<1>2. CASE ReleaseRequests
  <2>1. MaybeEnqueue(clients, older') /\ AgesStrict(older') /\ AgesTotal(clients, older')
    BY <1>2 DEF ReleaseRequests, RInv, Ages
  <2> QED BY <2>1, RInvSound, CapAsks DEF Asks
<1>3. CASE ~ReleaseRequests /\ \E c \in Clients, n \in 1 .. MaxBytes : Release(c, n)
  <2>1. PICK c \in Clients, n \in 1 .. MaxBytes : Release(c, n)
    BY <1>3
  <2>2. c = d
    BY <1>1, <2>1, ReleaseRecords DEF Asks
  <2> QED BY <1>3, <2>1, <2>2 DEF ByOperator
<1>4. ASSUME NEW c \in Clients, NEW m \in BackupModels,
             NEW total \in 0 .. MaxBytes, NEW evictable \in 0 .. MaxBytes,
             NEW released \in 0 .. MaxReleased,
             Usage(c, m, total, evictable, released)
      PROVE  InTurn(d) /\ WithinCap
  <2> DEFINE s == Reported(c, m, total, evictable, released)
  <2>1. /\ \A e \in Clients : Sound(s[e])
        /\ \A e \in Clients : s[e].requested_total = clients[e].requested_total
        /\ AgesStrict(older') /\ AgesTotal(s, older')
        /\ MaybeEnqueue(s, older')
    BY <1>4, ReportedSound
  <2> HIDE DEF s
  <2>2. clients'[d].requested_total > s[d].requested_total
    BY <2>1 DEF Asks
  <2> QED BY <2>1, <2>2, CapAsks
<1>5. CASE \E c \in Clients, m \in BackupModels : Register(c, m)
  <2>1. clients'[d].requested_total = clients[d].requested_total
    BY <1>1, <1>5 DEF Register, Usages
  <2> QED BY <1>1, <2>1 DEF Asks
<1>6. CASE PoolRestart
  BY <1>1, <1>6, NoClientsSound DEF PoolRestart, Asks
<1>7. CASE UNCHANGED poolVars
  BY <1>1, <1>7 DEF poolVars, Asks
<1> QED BY <1>2, <1>3, <1>4, <1>5, <1>6, <1>7 DEF PoolNext

-----------------------------------------------------------------------------
(***************************************************************************)
(* The theorems.                                                           *)
(***************************************************************************)

\* The pool's records keep their types, and no client reports more evictable
\* bytes than bytes (BackupPoolState, BackupUsageRequest.validate_accounting).
THEOREM PoolTypeCorrect == PoolSpec => []TypeOK
<1>1. IInv => TypeOK
  BY DEF IInv
<1> QED BY InitIInv, NextIInv, <1>1, PTL DEF PoolSpec

\* What was asked of a worker is pending until it is released, however its
\* storage changes state in between (report_usage, request_release).
THEOREM ObligationsAreKept == PoolSpec => []ObligationsKept
<1>1. IInv => ObligationsKept
  BY DEF IInv
<1> QED BY InitIInv, NextIInv, <1>1, PTL DEF PoolSpec

\* No worker is ever asked for more than it has released and can release now:
\* storage that was required for a while is not asked for twice.
THEOREM BudgetsAreNotDuplicated == PoolSpec => NoDuplicateBudget
<1> DEFINE Grows(c) == clients'[c].requested_total > clients[c].requested_total
           Covered(c) == clients'[c].requested_total <=
                           clients'[c].released_total + clients'[c].evictable
<1>1. ASSUME IInv, [PoolNext]_poolVars, NEW c \in Clients, Grows(c)
      PROVE  Covered(c)
  <2>1. clients[c] \in Usages
    BY <1>1 DEF IInv, TypeOK
  <2>2. CASE PoolRestart
    BY <1>1, <2>1, <2>2, NoClientsSound DEF PoolRestart, Usages
  <2>3. CASE UNCHANGED poolVars
    BY <1>1, <2>1, <2>3 DEF poolVars, Usages
  <2>4. CASE \A d \in Clients : Step(clients[d], clients'[d])
    <3>1. /\ clients'[c].pending <= clients'[c].evictable
          /\ Sound(clients'[c])
      BY <1>1, <2>4 DEF Step
    <3>2. Kept(clients'[c])
      BY <1>1, <2>4, Clientwise DEF Step
    <3> QED BY <3>1, <3>2, BoundsAssumption DEF Kept, Sound, Usages
  <2> QED BY <1>1, <2>2, <2>3, <2>4, AnyStep
<1>2. IInv /\ [PoolNext]_poolVars =>
        [\A c \in Clients : Grows(c) => Covered(c)]_poolVars
  BY <1>1
<1> QED BY InitIInv, NextIInv, <1>2, PTL DEF PoolSpec, NoDuplicateBudget

\* No state of the pool over its cap leaves a releasable byte unasked
\* (maybe_enqueue_release_requests, request_release_bytes).
THEOREM CapIsPursued == PoolSpec => []CapPursued
<1>1. RInv => CapPursued
  BY DEF RInv
<1> QED BY InitRInv, NextRInv, <1>1, PTL DEF PoolSpec

\* Whoever is asked by the cap, those before it in the order of the candidates
\* have been asked for all they have (request_release_bytes).
THEOREM VictimsAreInOrder == PoolSpec => VictimsInOrder
<1> DEFINE Turn ==
      \A c, d \in Clients :
        /\ clients'[d].requested_total > clients[d].requested_total
        /\ Precedes(clients', older', c, d)
        => Available(clients'[c]) = 0 \/ ByOperator(d)
<1>1. RInv /\ [PoolNext]_poolVars => [Turn]_poolVars
  <2> SUFFICES ASSUME RInv, [PoolNext]_poolVars, NEW c \in Clients, NEW d \in Clients,
                      clients'[d].requested_total > clients[d].requested_total,
                      Precedes(clients', older', c, d), ~ByOperator(d)
               PROVE  Available(clients'[c]) = 0
    OBVIOUS
  <2>1. InTurn(d)
    BY PoolAsks DEF Asks
  <2> QED BY <2>1 DEF InTurn
<1> QED BY InitRInv, NextRInv, <1>1, PTL DEF PoolSpec, VictimsInOrder

=============================================================================
