----------------------------- MODULE ProxyProofs -----------------------------
(***************************************************************************)
(* Proofs about the RPC proxy.                                             *)
(*                                                                         *)
(* ProxyMonitor, for any finite sets of tasks, methods and providers: the  *)
(* numbers the proxy keeps agree at rest, and those its monitor shows      *)
(* agree at any moment.  The argument counts the updates still to come     *)
(* with those made, so it starts with the facts about sums it needs.       *)
(*                                                                         *)
(* EdbRegistry and ProxyLifecycle, for any set of pids and any timeouts.   *)
(* The registry alone: type correctness, and that the monitor's three      *)
(* separately locked steps do not shut down a proxy under an instance it   *)
(* has accepted.  With the processes and proxies around it: the same for   *)
(* every proxy process that starts, and that a process whose heartbeats    *)
(* arrive in time stays registered.                                        *)
(***************************************************************************)
EXTENDS ProxyLifecycle, ProxyMonitor, FiniteSetTheorems, SequenceTheorems,
        WellFoundedInduction, TLAPS

(* Sums over a finite set: SumFunction is the fold whose order CHOOSE gives. *)
Pick(s) == CHOOSE x \in s : TRUE

LEMMA LeastNumber ==
  ASSUME NEW T \in SUBSET Nat, T # {}
  PROVE  \E x \in T : \A y \in T : x <= y
<1> DEFINE R == {ss \in Nat \X Nat : ss[1] < ss[2]}
<1>1. IsWellFoundedOn(R, Nat)
  BY NatLessThanWellFounded DEF OpToRel
<1>2. PICK x \in T : \A y \in T : <<y, x>> \notin R
  <2> HIDE DEF R
  <2> QED
    BY <1>1, WFMin
<1>3. ASSUME NEW y \in T PROVE x <= y
  <2>1. x \in Nat /\ y \in Nat /\ <<y, x>> \notin R
    BY <1>2
  <2> QED
    BY <2>1
<1> QED
  BY <1>3

(* Induction over the subsets of a finite set *)
LEMMA SubsetInduction ==
  ASSUME NEW S, IsFiniteSet(S), NEW T \in SUBSET SUBSET S, {} \in T,
         \A s \in SUBSET S : s # {} /\ s \ {Pick(s)} \in T => s \in T
  PROVE  T = SUBSET S
<1> DEFINE Sizes == {Cardinality(s) : s \in (SUBSET S) \ T}
<1>1. \A s \in SUBSET S : IsFiniteSet(s) /\ Cardinality(s) \in Nat
  BY FS_Subset, FS_CardinalityType
<1>2. SUFFICES ASSUME Sizes # {} PROVE FALSE
  OBVIOUS
<1>3. PICK n \in Sizes : \A k \in Sizes : n <= k
  <2>1. Sizes \in SUBSET Nat
    BY <1>1
  <2> HIDE DEF Sizes
  <2> QED
    BY <1>2, <2>1, LeastNumber
<1>4. PICK s \in (SUBSET S) \ T : Cardinality(s) = n
  BY <1>3
<1>5. Pick(s) \in s /\ s # {} /\ s \ {Pick(s)} \in SUBSET S
  BY <1>4 DEF Pick
<1>6. Cardinality(s \ {Pick(s)}) = n - 1 /\ n \in Nat
  BY <1>1, <1>4, <1>5, FS_RemoveElement
<1>7. s \ {Pick(s)} \notin T
  BY <1>4, <1>5
<1>8. n - 1 \in Sizes
  BY <1>5, <1>6, <1>7
<1> QED
  BY <1>3, <1>6, <1>8

IsSum(h, g, S) ==
  h = [s \in SUBSET S |-> IF s = {} THEN 0 ELSE g[Pick(s)] + h[s \ {Pick(s)}]]

LEMMA SumExists ==
  ASSUME NEW S, IsFiniteSet(S), NEW g \in [S -> Nat]
  PROVE  \E h : IsSum(h, g, S)
<1> DEFINE Step(h, s) == IF s = {} THEN 0 ELSE g[Pick(s)] + h[s \ {Pick(s)}]
           UpTo(h, n) == \A s \in SUBSET S : Cardinality(s) <= n => h[s] = Step(h, s)
           Bad == {n \in Nat : ~ \E h \in [SUBSET S -> Nat] : UpTo(h, n)}
<1>1. \A s \in SUBSET S : IsFiniteSet(s) /\ Cardinality(s) \in Nat
  BY FS_Subset, FS_CardinalityType
<1>2. \A s \in SUBSET S : s # {} => /\ Pick(s) \in S /\ s \ {Pick(s)} \in SUBSET S
                                    /\ Cardinality(s \ {Pick(s)}) = Cardinality(s) - 1
  <2> SUFFICES ASSUME NEW s \in SUBSET S, s # {}
               PROVE  /\ Pick(s) \in S /\ s \ {Pick(s)} \in SUBSET S
                      /\ Cardinality(s \ {Pick(s)}) = Cardinality(s) - 1
    OBVIOUS
  <2>1. Pick(s) \in s
    BY DEF Pick
  <2> QED
    BY <1>1, <2>1, FS_RemoveElement
<1>3. \A s \in SUBSET S : s = {} <=> Cardinality(s) = 0
  BY <1>1, FS_EmptySet
<1>4. Bad = {}
  <2>1. SUFFICES ASSUME Bad # {} PROVE FALSE
    OBVIOUS
  <2>2. PICK n \in Bad : \A k \in Bad : n <= k
    <3>1. Bad \in SUBSET Nat
      OBVIOUS
    <3> HIDE DEF Bad
    <3> QED
      BY <2>1, <3>1, LeastNumber
  <2>3. CASE n = 0
    <3> DEFINE h == [s \in SUBSET S |-> 0]
    <3>1. h \in [SUBSET S -> Nat]
      OBVIOUS
    <3>2. UpTo(h, 0)
      BY <1>1, <1>3
    <3> QED
      BY <2>2, <2>3, <3>1, <3>2
  <2>4. CASE n # 0
    <3>1. n \in Nat /\ n - 1 \in Nat
      BY <2>2, <2>4
    <3>7. n - 1 \notin Bad
      <4> HIDE DEF Bad
      <4> QED
        BY <2>2, <3>1
    <3>2. PICK h \in [SUBSET S -> Nat] : UpTo(h, n - 1)
      BY <3>1, <3>7
    <3> DEFINE k == [s \in SUBSET S |-> IF Cardinality(s) <= n - 1 THEN h[s] ELSE Step(h, s)]
    <3>3. \A s \in SUBSET S : k[s] = Step(h, s)
      BY <3>2
    <3>4. ASSUME NEW s \in SUBSET S PROVE Step(h, s) \in Nat
      <4>1. s # {} => g[Pick(s)] \in Nat /\ h[s \ {Pick(s)}] \in Nat
        BY <1>2
      <4> QED
        BY <4>1
    <3>5. k \in [SUBSET S -> Nat]
      BY <3>3, <3>4
    <3>6. ASSUME NEW s \in SUBSET S, Cardinality(s) <= n PROVE k[s] = Step(k, s)
      <4>1. CASE s = {}
        BY <3>3, <4>1
      <4>2. CASE s # {}
        <5>1. Cardinality(s \ {Pick(s)}) <= n - 1 /\ s \ {Pick(s)} \in SUBSET S
          BY <1>1, <1>2, <3>1, <3>6, <4>2
        <5>2. k[s \ {Pick(s)}] = h[s \ {Pick(s)}]
          BY <5>1
        <5> HIDE DEF k
        <5> QED
          BY <3>3, <4>2, <5>2
      <4> QED
        BY <4>1, <4>2
    <3> HIDE DEF k
    <3> QED
      BY <2>2, <3>1, <3>5, <3>6
  <2> QED
    BY <2>3, <2>4
<1>5. Cardinality(S) \in Nat /\ \A s \in SUBSET S : Cardinality(s) <= Cardinality(S)
  BY FS_Subset, FS_CardinalityType
<1>6. PICK h \in [SUBSET S -> Nat] : UpTo(h, Cardinality(S))
  BY <1>4, <1>5
<1>7. \A s \in SUBSET S : h[s] = Step(h, s)
  BY <1>5, <1>6
<1>8. h = [s \in SUBSET S |-> Step(h, s)]
  BY <1>6, <1>7
<1> QED
  BY <1>8 DEF IsSum

(* The sums over all subsets, of which SumFunction is the last *)
Sums(h, g, S) ==
  /\ h \in [SUBSET S -> Nat] /\ SumFunction(g) = h[S] /\ h[{}] = 0
  /\ \A s \in SUBSET S : s # {} => h[s] = g[Pick(s)] + h[s \ {Pick(s)}]

LEMMA SumFacts ==
  ASSUME NEW S, IsFiniteSet(S), NEW g \in [S -> Nat]
  PROVE  \E h : Sums(h, g, S)
<1> DEFINE h == CHOOSE h : IsSum(h, g, S)
<1>1. IsSum(h, g, S)
  BY SumExists
<1>2. SumFunction(g) = h[S]
  <2>1. DOMAIN g = S
    OBVIOUS
  <2> QED
    BY <2>1 DEF SumFunction, SumFunctionOnSet, FoldFunctionOnSet, MapThenFoldSet, Pick, IsSum
<1> HIDE DEF h
<1>3. /\ DOMAIN h = SUBSET S /\ h[{}] = 0
      /\ \A s \in SUBSET S : s # {} => h[s] = g[Pick(s)] + h[s \ {Pick(s)}]
  BY <1>1 DEF IsSum
<1>4. h \in [SUBSET S -> Nat]
  <2> DEFINE T == {s \in SUBSET S : h[s] \in Nat}
  <2>1. {} \in T
    BY <1>3
  <2>2. ASSUME NEW s \in SUBSET S, s # {}, s \ {Pick(s)} \in T PROVE s \in T
    <3>1. Pick(s) \in S
      BY <2>2 DEF Pick
    <3> QED
      BY <1>3, <2>2, <3>1
  <2>3. T = SUBSET S
    <3>1. T \in SUBSET SUBSET S
      OBVIOUS
    <3> HIDE DEF T
    <3> QED
      BY <2>1, <2>2, <3>1, SubsetInduction
  <2>4. h = [s \in SUBSET S |-> h[s]]
    BY <1>1 DEF IsSum
  <2> QED
    BY <2>3, <2>4
<1> QED
  BY <1>2, <1>3, <1>4 DEF Sums

LEMMA SumType ==
  ASSUME NEW S, IsFiniteSet(S), NEW g \in [S -> Nat]
  PROVE  SumFunction(g) \in Nat
<1>1. PICK h : Sums(h, g, S)
  BY SumFacts
<1> QED
  BY <1>1 DEF Sums

LEMMA SumOfZeros ==
  ASSUME NEW S, IsFiniteSet(S), NEW g \in [S -> Nat], \A x \in S : g[x] = 0
  PROVE  SumFunction(g) = 0
<1>1. PICK h : Sums(h, g, S)
  BY SumFacts
<1> DEFINE T == {s \in SUBSET S : h[s] = 0}
<1>2. {} \in T
  BY <1>1 DEF Sums
<1>3. ASSUME NEW s \in SUBSET S, s # {}, s \ {Pick(s)} \in T PROVE s \in T
  <2>1. Pick(s) \in S
    BY <1>3 DEF Pick
  <2> QED
    BY <1>1, <1>3, <2>1 DEF Sums
<1>4. T = SUBSET S
  <2>1. T \in SUBSET SUBSET S
    OBVIOUS
  <2> HIDE DEF T
  <2> QED
    BY <1>2, <1>3, <2>1, SubsetInduction
<1> QED
  BY <1>1, <1>4 DEF Sums

(* Of two functions that differ at one place *)
LEMMA SumChanged ==
  ASSUME NEW S, IsFiniteSet(S), NEW g \in [S -> Nat], NEW k \in [S -> Nat], NEW y \in S,
         \A x \in S \ {y} : g[x] = k[x]
  PROVE  SumFunction(g) + k[y] = SumFunction(k) + g[y]
<1>1. PICK h : Sums(h, g, S)
  BY SumFacts
<1>2. PICK j : Sums(j, k, S)
  BY SumFacts
<1> DEFINE Agree(s) == IF y \in s THEN h[s] + k[y] = j[s] + g[y] ELSE h[s] = j[s]
           T == {s \in SUBSET S : Agree(s)}
<1>3. {} \in T
  BY <1>1, <1>2 DEF Sums
<1>4. ASSUME NEW s \in SUBSET S, s # {}, s \ {Pick(s)} \in T PROVE s \in T
  <2> DEFINE x == Pick(s)
             r == s \ {x}
  <2>1. x \in s /\ x \in S /\ r \in SUBSET S
    BY <1>4 DEF Pick
  <2>2. h[s] = g[x] + h[r] /\ j[s] = k[x] + j[r] /\ Agree(r)
    BY <1>1, <1>2, <1>4 DEF Sums
  <2>3. g[x] \in Nat /\ k[x] \in Nat /\ h[r] \in Nat /\ j[r] \in Nat /\ g[y] \in Nat /\ k[y] \in Nat
    BY <1>1, <1>2, <2>1 DEF Sums
  <2>4. CASE x = y
    BY <2>1, <2>2, <2>3, <2>4
  <2>5. CASE x # y
    BY <2>1, <2>2, <2>3, <2>5
  <2> QED
    BY <2>4, <2>5
<1>5. T = SUBSET S
  <2>1. T \in SUBSET SUBSET S
    OBVIOUS
  <2> HIDE DEF T
  <2> QED
    BY <1>3, <1>4, <2>1, SubsetInduction
<1>6. Agree(S)
  BY <1>5
<1> QED
  BY <1>1, <1>2, <1>6 DEF Sums

LEMMA SumOfSums ==
  ASSUME NEW S, IsFiniteSet(S), NEW g \in [S -> Nat], NEW k \in [S -> Nat], NEW f \in [S -> Nat],
         \A x \in S : f[x] = g[x] + k[x]
  PROVE  SumFunction(f) = SumFunction(g) + SumFunction(k)
<1>1. PICK h : Sums(h, g, S)
  BY SumFacts
<1>2. PICK j : Sums(j, k, S)
  BY SumFacts
<1>3. PICK i : Sums(i, f, S)
  BY SumFacts
<1> DEFINE T == {s \in SUBSET S : i[s] = h[s] + j[s]}
<1>4. {} \in T
  BY <1>1, <1>2, <1>3 DEF Sums
<1>5. ASSUME NEW s \in SUBSET S, s # {}, s \ {Pick(s)} \in T PROVE s \in T
  <2> DEFINE x == Pick(s)
             r == s \ {x}
  <2>1. x \in S /\ r \in SUBSET S
    BY <1>5 DEF Pick
  <2>2. h[s] = g[x] + h[r] /\ j[s] = k[x] + j[r] /\ i[s] = f[x] + i[r] /\ i[r] = h[r] + j[r]
    BY <1>1, <1>2, <1>3, <1>5 DEF Sums
  <2>3. g[x] \in Nat /\ k[x] \in Nat /\ h[r] \in Nat /\ j[r] \in Nat /\ f[x] = g[x] + k[x]
    BY <1>1, <1>2, <2>1 DEF Sums
  <2> QED
    BY <2>2, <2>3
<1>6. T = SUBSET S
  <2>1. T \in SUBSET SUBSET S
    OBVIOUS
  <2> HIDE DEF T
  <2> QED
    BY <1>4, <1>5, <2>1, SubsetInduction
<1> QED
  BY <1>1, <1>2, <1>3, <1>6 DEF Sums

LEMMA SumAtMost ==
  ASSUME NEW S, IsFiniteSet(S), NEW g \in [S -> Nat], NEW k \in [S -> Nat],
         \A x \in S : g[x] <= k[x]
  PROVE  SumFunction(g) <= SumFunction(k)
<1> DEFINE rest == [x \in S |-> k[x] - g[x]]
<1>1. rest \in [S -> Nat] /\ \A x \in S : k[x] = g[x] + rest[x]
  OBVIOUS
<1> HIDE DEF rest
<1>2. SumFunction(k) = SumFunction(g) + SumFunction(rest)
  BY <1>1, SumOfSums
<1>3. SumFunction(g) \in Nat /\ SumFunction(rest) \in Nat
  BY <1>1, SumType
<1> QED
  BY <1>2, <1>3
-----------------------------------------------------------------------------
(* What the updates of the record_* functions add to. *)
Quantity == {"total_requests", "cache_hits", "total_errors", "methods", "method_hits",
             "method_misses", "method_errors", "attempts", "failed_attempts"}

(* u adds one to q. *)
Adds(u, q) ==
  CASE q \in Counters -> u.of = "counter" /\ u.name = q
    [] q = "methods" -> u.of = "method"
    [] q = "method_hits" -> u.of = "method" /\ u.hit
    [] q = "method_misses" -> u.of = "method" /\ ~u.hit
    [] q = "method_errors" -> u.of = "method" /\ u.error
    [] q = "attempts" -> u.of = "provider"
    [] q = "failed_attempts" -> u.of = "provider" /\ u.error

Counted(q) ==
  CASE q \in Counters -> counter[q]
    [] q = "methods" -> MethodSum(method_stats, "total_requests")
    [] q = "method_hits" -> MethodSum(method_stats, "hits")
    [] q = "method_misses" -> MethodSum(method_stats, "misses")
    [] q = "method_errors" -> MethodSum(method_stats, "errors")
    [] q = "attempts" -> ProviderSum(provider_usage, "request_count")
    [] q = "failed_attempts" -> ProviderSum(provider_usage, "error_count")

(* What the rest of a record_* call is yet to add to q. *)
Coming(us, q) == One(\E i \in DOMAIN us : Adds(us[i], q))

Committed(q) == Counted(q) + SumFunction([t \in Task |-> Coming(updates[t], q)])

Update ==
  {Count(c) : c \in Counters}
  \union {MethodUpdate(m, hit, error) : m \in MethodName, hit \in BOOLEAN, error \in BOOLEAN}
  \union {ProviderUpdate(p, error) : p \in Provider, error \in BOOLEAN}

CollectorType ==
  /\ counter \in [Counters -> Nat]
  /\ method_stats \in [MethodName -> [hits : Nat, misses : Nat, total_requests : Nat, errors : Nat]]
  /\ provider_usage \in [Provider -> [request_count : Nat, success_count : Nat, error_count : Nat]]
  /\ updates \in [Task -> Seq(Update)]

(* No quantity is added to twice; the totals come first. *)
Once(us) == \A q \in Quantity, i, j \in DOMAIN us : Adds(us[i], q) /\ Adds(us[j], q) => i = j
Precedes(us, q, r) == \A i \in DOMAIN us : Adds(us[i], q) => \E j \in DOMAIN us : i < j /\ Adds(us[j], r)
Ordered(us) == Once(us) /\ Precedes(us, "total_requests", "methods") /\ Precedes(us, "cache_hits", "method_hits")

Balanced ==
  /\ Committed("total_requests") = Committed("cache_hits") + Committed("attempts")
  /\ Committed("total_requests") = Committed("methods")
  /\ Committed("cache_hits") = Committed("method_hits")
  /\ Committed("attempts") = Committed("method_misses")
  /\ Committed("method_errors") = Committed("failed_attempts")
  /\ Committed("failed_attempts") <= Committed("total_errors")

CollectorInv == CollectorType /\ (\A t \in Task : Ordered(updates[t])) /\ Balanced
-----------------------------------------------------------------------------
LEMMA TailFacts ==
  ASSUME NEW us \in Seq(Update), us # <<>>
  PROVE  /\ Head(us) = us[1] /\ 1 \in DOMAIN us /\ Tail(us) \in Seq(Update)
         /\ \A i \in DOMAIN Tail(us) : i + 1 \in DOMAIN us /\ Tail(us)[i] = us[i + 1] /\ i \in Nat
         /\ \A i \in DOMAIN us : i # 1 => i - 1 \in DOMAIN Tail(us) /\ i \in Nat
OBVIOUS

LEMMA OrderedTail ==
  ASSUME NEW us \in Seq(Update), us # <<>>, Ordered(us)
  PROVE  Ordered(Tail(us))
<1>1. Once(Tail(us))
  <2> SUFFICES ASSUME NEW q \in Quantity, NEW i \in DOMAIN Tail(us), NEW j \in DOMAIN Tail(us),
                      Adds(Tail(us)[i], q), Adds(Tail(us)[j], q)
               PROVE  i = j
    BY DEF Once
  <2>1. Adds(us[i + 1], q) /\ Adds(us[j + 1], q) /\ i + 1 \in DOMAIN us /\ j + 1 \in DOMAIN us /\ i \in Nat /\ j \in Nat
    BY TailFacts
  <2>2. i + 1 = j + 1
    BY <2>1 DEF Ordered, Once
  <2> QED
    BY <2>1, <2>2
<1>2. ASSUME NEW q, NEW r, Precedes(us, q, r) PROVE Precedes(Tail(us), q, r)
  <2> SUFFICES ASSUME NEW i \in DOMAIN Tail(us), Adds(Tail(us)[i], q)
               PROVE  \E j \in DOMAIN Tail(us) : i < j /\ Adds(Tail(us)[j], r)
    BY DEF Precedes
  <2>1. Adds(us[i + 1], q) /\ i + 1 \in DOMAIN us /\ i \in Nat
    BY TailFacts
  <2>2. PICK j \in DOMAIN us : i + 1 < j /\ Adds(us[j], r)
    BY <1>2, <2>1 DEF Precedes
  <2>3. j - 1 \in DOMAIN Tail(us) /\ j \in Nat
    BY <2>1, <2>2, TailFacts
  <2>4. Tail(us)[j - 1] = us[j]
    BY <2>3, TailFacts
  <2>5. i < j - 1 /\ Adds(Tail(us)[j - 1], r)
    BY <2>1, <2>2, <2>3, <2>4
  <2> QED
    BY <2>3, <2>5
<1> QED
  BY <1>1, <1>2 DEF Ordered

(* The head adds what is no longer to come. *)
LEMMA ComingTail ==
  ASSUME NEW us \in Seq(Update), us # <<>>, Ordered(us), NEW q \in Quantity
  PROVE  Coming(us, q) = Coming(Tail(us), q) + One(Adds(Head(us), q))
<1>1. CASE Adds(us[1], q)
  <2>1. \A i \in DOMAIN Tail(us) : ~Adds(Tail(us)[i], q)
    <3> SUFFICES ASSUME NEW i \in DOMAIN Tail(us), Adds(Tail(us)[i], q) PROVE FALSE
      OBVIOUS
    <3>1. i + 1 \in DOMAIN us /\ Adds(us[i + 1], q) /\ i \in Nat /\ 1 \in DOMAIN us
      BY TailFacts
    <3>2. i + 1 = 1
      BY <1>1, <3>1 DEF Ordered, Once
    <3> QED
      BY <3>1, <3>2
  <2>2. \E i \in DOMAIN us : Adds(us[i], q)
    BY <1>1, TailFacts
  <2>3. Coming(us, q) = 1 /\ Coming(Tail(us), q) = 0
    BY <2>1, <2>2 DEF Coming, One
  <2>4. One(Adds(Head(us), q)) = 1
    BY <1>1, TailFacts DEF One
  <2> QED
    BY <2>3, <2>4
<1>2. CASE ~Adds(us[1], q)
  <2>1. (\E i \in DOMAIN us : Adds(us[i], q)) <=> (\E i \in DOMAIN Tail(us) : Adds(Tail(us)[i], q))
    <3>1. ASSUME NEW i \in DOMAIN us, Adds(us[i], q) PROVE \E j \in DOMAIN Tail(us) : Adds(Tail(us)[j], q)
      <4>1. i - 1 \in DOMAIN Tail(us) /\ i \in Nat
        BY <1>2, <3>1, TailFacts
      <4>2. Tail(us)[i - 1] = us[i]
        BY <4>1, TailFacts
      <4> QED
        BY <3>1, <4>1, <4>2
    <3>2. ASSUME NEW i \in DOMAIN Tail(us), Adds(Tail(us)[i], q) PROVE \E j \in DOMAIN us : Adds(us[j], q)
      BY <3>2, TailFacts
    <3> QED
      BY <3>1, <3>2
  <2>2. Coming(us, q) = Coming(Tail(us), q) /\ Coming(us, q) \in {0, 1}
    BY <2>1 DEF Coming, One
  <2>3. One(Adds(Head(us), q)) = 0
    BY <1>2, TailFacts DEF One
  <2> QED
    BY <2>2, <2>3
<1> QED
  BY <1>1, <1>2

LEMMA ComingType ==
  ASSUME NEW us, NEW q
  PROVE  Coming(us, q) \in {0, 1} /\ (us = <<>> => Coming(us, q) = 0)
BY DEF Coming, One

(* One field of the methods' table, one of the providers'. *)
LEMMA MethodSumAdds ==
  ASSUME CollectorType, CollectorType', NEW f \in {"hits", "misses", "total_requests", "errors"},
         NEW m \in MethodName, NEW b \in BOOLEAN,
         \A n \in MethodName \ {m} : method_stats'[n] = method_stats[n],
         method_stats'[m][f] = method_stats[m][f] + One(b)
  PROVE  MethodSum(method_stats', f) = MethodSum(method_stats, f) + One(b)
<1> DEFINE g == [n \in MethodName |-> method_stats'[n][f]]
           k == [n \in MethodName |-> method_stats[n][f]]
<1>1. g \in [MethodName -> Nat] /\ k \in [MethodName -> Nat]
  BY DEF CollectorType
<1>2. g[m] = k[m] + One(b) /\ \A n \in MethodName \ {m} : g[n] = k[n]
  OBVIOUS
<1>3. MethodSum(method_stats', f) = SumFunction(g) /\ MethodSum(method_stats, f) = SumFunction(k)
  BY DEF MethodSum
<1> HIDE DEF g, k
<1>4. SumFunction(g) + k[m] = SumFunction(k) + g[m]
  BY <1>1, <1>2, SumChanged, FiniteAssumption
<1>5. SumFunction(g) \in Nat /\ SumFunction(k) \in Nat /\ k[m] \in Nat /\ One(b) \in Nat
  BY <1>1, SumType, FiniteAssumption DEF One
<1> QED
  BY <1>2, <1>3, <1>4, <1>5

LEMMA ProviderSumAdds ==
  ASSUME CollectorType, CollectorType', NEW f \in {"request_count", "success_count", "error_count"},
         NEW p \in Provider, NEW b \in BOOLEAN,
         \A n \in Provider \ {p} : provider_usage'[n] = provider_usage[n],
         provider_usage'[p][f] = provider_usage[p][f] + One(b)
  PROVE  ProviderSum(provider_usage', f) = ProviderSum(provider_usage, f) + One(b)
<1> DEFINE g == [n \in Provider |-> provider_usage'[n][f]]
           k == [n \in Provider |-> provider_usage[n][f]]
<1>1. g \in [Provider -> Nat] /\ k \in [Provider -> Nat]
  BY DEF CollectorType
<1>2. g[p] = k[p] + One(b) /\ \A n \in Provider \ {p} : g[n] = k[n]
  OBVIOUS
<1>3. ProviderSum(provider_usage', f) = SumFunction(g) /\ ProviderSum(provider_usage, f) = SumFunction(k)
  BY DEF ProviderSum
<1> HIDE DEF g, k
<1>4. SumFunction(g) + k[p] = SumFunction(k) + g[p]
  BY <1>1, <1>2, SumChanged, FiniteAssumption
<1>5. SumFunction(g) \in Nat /\ SumFunction(k) \in Nat /\ k[p] \in Nat /\ One(b) \in Nat
  BY <1>1, SumType, FiniteAssumption DEF One
<1> QED
  BY <1>2, <1>3, <1>4, <1>5

LEMMA CountedType ==
  ASSUME CollectorType, NEW q \in Quantity
  PROVE  Counted(q) \in Nat /\ SumFunction([t \in Task |-> Coming(updates[t], q)]) \in Nat
<1>1. ASSUME NEW f \in {"hits", "misses", "total_requests", "errors"}
      PROVE  MethodSum(method_stats, f) \in Nat
  <2>1. [m \in MethodName |-> method_stats[m][f]] \in [MethodName -> Nat]
    BY DEF CollectorType
  <2> QED
    BY <2>1, SumType, FiniteAssumption DEF MethodSum
<1>2. ASSUME NEW f \in {"request_count", "success_count", "error_count"}
      PROVE  ProviderSum(provider_usage, f) \in Nat
  <2>1. [p \in Provider |-> provider_usage[p][f]] \in [Provider -> Nat]
    BY DEF CollectorType
  <2> QED
    BY <2>1, SumType, FiniteAssumption DEF ProviderSum
<1>3. q \in Counters => counter[q] \in Nat
  BY DEF CollectorType
<1>4. Counted(q) \in Nat
  BY <1>1, <1>2, <1>3 DEF Counted, Quantity, Counters
<1>5. [t \in Task |-> Coming(updates[t], q)] \in [Task -> Nat]
  BY ComingType
<1> QED
  BY <1>4, <1>5, SumType, FiniteAssumption

(* The sum of what is to come changes with the task that moves on. *)
LEMMA ComingChanges ==
  ASSUME CollectorType, CollectorType', NEW t \in Task, NEW q \in Quantity,
         \A s \in Task \ {t} : updates'[s] = updates[s]
  PROVE  SumFunction([s \in Task |-> Coming(updates'[s], q)]) + Coming(updates[t], q)
           = SumFunction([s \in Task |-> Coming(updates[s], q)]) + Coming(updates'[t], q)
<1> DEFINE g == [s \in Task |-> Coming(updates'[s], q)]
           k == [s \in Task |-> Coming(updates[s], q)]
<1>1. g \in [Task -> Nat] /\ k \in [Task -> Nat]
  BY ComingType
<1>2. g[t] = Coming(updates'[t], q) /\ k[t] = Coming(updates[t], q) /\ \A s \in Task \ {t} : g[s] = k[s]
  OBVIOUS
<1> HIDE DEF g, k
<1>3. SumFunction(g) + k[t] = SumFunction(k) + g[t]
  BY <1>1, <1>2, SumChanged, FiniteAssumption
<1>4. SumFunction(g) + Coming(updates[t], q) = SumFunction(k) + Coming(updates'[t], q)
  BY <1>2, <1>3
<1> QED
  BY <1>4 DEF g, k

(* Each update adds what it adds to each quantity. *)
LEMMA RecordCounts ==
  ASSUME CollectorType, CollectorType', NEW t \in Task, Record(t), NEW q \in Quantity
  PROVE  Counted(q)' = Counted(q) + One(Adds(Head(updates[t]), q))
<1> DEFINE u == Head(updates[t])
<1>1. u \in Update
  <2>1. updates[t] \in Seq(Update) /\ updates[t] # <<>>
    BY DEF Record, CollectorType
  <2> QED
    BY <2>1, TailFacts
<1>2. /\ counter' = IF u.of = "counter" THEN [counter EXCEPT ![u.name] = @ + 1] ELSE counter
      /\ u.of # "method" => method_stats' = method_stats
      /\ u.of # "provider" => provider_usage' = provider_usage
  BY DEF Record
<1>6. Counted(q) \in Nat
  BY CountedType
<1>7. (Adds(u, q) => One(Adds(u, q)) = 1) /\ (~Adds(u, q) => One(Adds(u, q)) = 0)
  BY DEF One
<1> HIDE DEF u
<1>8. SUFFICES Counted(q)' = Counted(q) + One(Adds(u, q))
  BY DEF u
<1>3. CASE \E c \in Counters : u = Count(c)
  <2>1. PICK c \in Counters : u = Count(c)
    BY <1>3
  <2>2. u.of = "counter" /\ u.name = c
    BY <2>1 DEF Count
  <2>3. Adds(u, q) <=> q = c
    BY <2>2 DEF Adds, Quantity, Counters
  <2>4. method_stats' = method_stats /\ provider_usage' = provider_usage /\ counter' = [counter EXCEPT ![c] = @ + 1]
    BY <1>2, <2>2
  <2>5. CASE q \in Counters
    <3>1. Counted(q)' = counter'[q] /\ Counted(q) = counter[q]
      BY <2>5 DEF Counted, Counters
    <3>2. counter'[q] = IF q = c THEN counter[q] + 1 ELSE counter[q]
      BY <2>4, <2>5 DEF CollectorType
    <3> QED
      BY <1>6, <1>7, <2>3, <2>5, <3>1, <3>2
  <2>6. CASE q \notin Counters
    <3>1. Counted(q)' = Counted(q)
      BY <2>4, <2>6 DEF Counted, Quantity, Counters
    <3> QED
      BY <1>6, <1>7, <2>1, <2>3, <2>6, <3>1
  <2> QED
    BY <2>5, <2>6
<1>4. CASE \E m \in MethodName, hit \in BOOLEAN, error \in BOOLEAN : u = MethodUpdate(m, hit, error)
  <2>1. PICK m \in MethodName, hit \in BOOLEAN, error \in BOOLEAN : u = MethodUpdate(m, hit, error)
    BY <1>4
  <2>2. u.of = "method" /\ u.name = m /\ u.hit = hit /\ u.error = error
    BY <2>1 DEF MethodUpdate
  <2>3. counter' = counter /\ provider_usage' = provider_usage
    BY <1>2, <2>2
  <2>4. method_stats' = [method_stats EXCEPT ![m] =
                 [hits |-> @.hits + One(hit), misses |-> @.misses + One(~hit),
                  total_requests |-> @.total_requests + 1, errors |-> @.errors + One(error)]]
    BY <2>2 DEF Record, u
  <2>5. /\ \A n \in MethodName \ {m} : method_stats'[n] = method_stats[n]
        /\ method_stats'[m] = [hits |-> method_stats[m].hits + One(hit), misses |-> method_stats[m].misses + One(~hit),
                  total_requests |-> method_stats[m].total_requests + 1, errors |-> method_stats[m].errors + One(error)]
    BY <2>4 DEF CollectorType
  <2>6. /\ method_stats'[m]["hits"] = method_stats[m]["hits"] + One(hit)
        /\ method_stats'[m]["misses"] = method_stats[m]["misses"] + One(~hit)
        /\ method_stats'[m]["total_requests"] = method_stats[m]["total_requests"] + One(TRUE)
        /\ method_stats'[m]["errors"] = method_stats[m]["errors"] + One(error)
    BY <2>5 DEF One
  <2>7. /\ MethodSum(method_stats', "hits") = MethodSum(method_stats, "hits") + One(hit)
        /\ MethodSum(method_stats', "misses") = MethodSum(method_stats, "misses") + One(~hit)
        /\ MethodSum(method_stats', "total_requests") = MethodSum(method_stats, "total_requests") + One(TRUE)
        /\ MethodSum(method_stats', "errors") = MethodSum(method_stats, "errors") + One(error)
    BY <2>5, <2>6, MethodSumAdds
  <2>8. CASE q \in Counters \union {"attempts", "failed_attempts"}
    <3>1. Counted(q)' = Counted(q)
      BY <2>3, <2>8 DEF Counted, Counters
    <3>2. ~Adds(u, q)
      BY <2>2, <2>8 DEF Adds, Counters
    <3> QED
      BY <1>6, <1>7, <3>1, <3>2
  <2>9. CASE q \in {"methods", "method_hits", "method_misses", "method_errors"}
    <3>1. CASE q = "methods"
      <4>1. Counted(q)' = MethodSum(method_stats', "total_requests") /\ Counted(q) = MethodSum(method_stats, "total_requests")
        BY <3>1 DEF Counted, Counters
      <4>2. Adds(u, q)
        BY <2>2, <3>1 DEF Adds, Counters
      <4> QED
        BY <1>7, <2>7, <4>1, <4>2 DEF One
    <3>2. CASE q = "method_hits"
      <4>1. Counted(q)' = MethodSum(method_stats', "hits") /\ Counted(q) = MethodSum(method_stats, "hits")
        BY <3>2 DEF Counted, Counters
      <4>2. Adds(u, q) <=> hit
        BY <2>2, <3>2 DEF Adds, Counters
      <4> QED
        BY <1>7, <2>7, <4>1, <4>2 DEF One
    <3>3. CASE q = "method_misses"
      <4>1. Counted(q)' = MethodSum(method_stats', "misses") /\ Counted(q) = MethodSum(method_stats, "misses")
        BY <3>3 DEF Counted, Counters
      <4>2. Adds(u, q) <=> ~hit
        BY <2>2, <3>3 DEF Adds, Counters
      <4> QED
        BY <1>7, <2>7, <4>1, <4>2 DEF One
    <3>4. CASE q = "method_errors"
      <4>1. Counted(q)' = MethodSum(method_stats', "errors") /\ Counted(q) = MethodSum(method_stats, "errors")
        BY <3>4 DEF Counted, Counters
      <4>2. Adds(u, q) <=> error
        BY <2>2, <3>4 DEF Adds, Counters
      <4> QED
        BY <1>7, <2>7, <4>1, <4>2 DEF One
    <3> QED
      BY <2>9, <3>1, <3>2, <3>3, <3>4
  <2> QED
    BY <2>8, <2>9 DEF Quantity, Counters
<1>5. CASE \E p \in Provider, error \in BOOLEAN : u = ProviderUpdate(p, error)
  <2>1. PICK p \in Provider, error \in BOOLEAN : u = ProviderUpdate(p, error)
    BY <1>5
  <2>2. u.of = "provider" /\ u.name = p /\ u.error = error
    BY <2>1 DEF ProviderUpdate
  <2>3. counter' = counter /\ method_stats' = method_stats
    BY <1>2, <2>2
  <2>4. provider_usage' = [provider_usage EXCEPT ![p] =
                 [request_count |-> @.request_count + 1,
                  success_count |-> @.success_count + One(~error),
                  error_count |-> @.error_count + One(error)]]
    BY <2>2 DEF Record, u
  <2>5. /\ \A n \in Provider \ {p} : provider_usage'[n] = provider_usage[n]
        /\ provider_usage'[p]["request_count"] = provider_usage[p]["request_count"] + One(TRUE)
        /\ provider_usage'[p]["error_count"] = provider_usage[p]["error_count"] + One(error)
    BY <2>4 DEF CollectorType, One
  <2>6. /\ ProviderSum(provider_usage', "request_count") = ProviderSum(provider_usage, "request_count") + One(TRUE)
        /\ ProviderSum(provider_usage', "error_count") = ProviderSum(provider_usage, "error_count") + One(error)
    BY <2>5, ProviderSumAdds
  <2>7. CASE q \notin {"attempts", "failed_attempts"}
    <3>1. Counted(q)' = Counted(q)
      BY <2>3, <2>7 DEF Counted, Counters, Quantity
    <3>2. ~Adds(u, q)
      BY <2>2, <2>7 DEF Adds, Counters, Quantity
    <3> QED
      BY <1>6, <1>7, <3>1, <3>2
  <2>8. CASE q \in {"attempts", "failed_attempts"}
    BY <2>2, <2>6, <2>8 DEF Counted, Adds, Counters
  <2> QED
    BY <2>7, <2>8
<1> QED
  BY <1>1, <1>3, <1>4, <1>5 DEF Update

LEMMA CommittedType ==
  ASSUME CollectorType, NEW q \in Quantity
  PROVE  Committed(q) \in Nat
BY CountedType DEF Committed

(* An update moves what it adds from what is to come to what is counted. *)
LEMMA RecordKeeps ==
  ASSUME CollectorType, CollectorType', NEW t \in Task, Record(t), Ordered(updates[t]), NEW q \in Quantity
  PROVE  Committed(q)' = Committed(q)
<1> DEFINE coming == SumFunction([s \in Task |-> Coming(updates[s], q)])
           comingThen == SumFunction([s \in Task |-> Coming(updates'[s], q)])
           added == One(Adds(Head(updates[t]), q))
<1>1. updates[t] \in Seq(Update) /\ updates[t] # <<>>
  BY DEF Record, CollectorType
<1>2. /\ \A s \in Task \ {t} : updates'[s] = updates[s]
      /\ updates'[t] = Tail(updates[t])
  BY DEF Record, CollectorType
<1>3. Coming(updates[t], q) = Coming(updates'[t], q) + added
  BY <1>1, <1>2, ComingTail
<1>4. comingThen + Coming(updates[t], q) = coming + Coming(updates'[t], q)
  BY <1>2, ComingChanges
<1>5. Counted(q)' = Counted(q) + added
  BY RecordCounts
<1>6. coming \in Nat /\ Counted(q) \in Nat
  BY CountedType
<1>7. comingThen \in Nat
  <2>1. [s \in Task |-> Coming(updates'[s], q)] \in [Task -> Nat]
    BY ComingType
  <2> QED
    BY <2>1, SumType, FiniteAssumption
<1>8. Coming(updates[t], q) \in Nat /\ Coming(updates'[t], q) \in Nat /\ added \in Nat
  BY ComingType DEF One
<1>9. Committed(q) = Counted(q) + coming /\ Committed(q)' = Counted(q)' + comingThen
  BY DEF Committed
<1> HIDE DEF coming, comingThen, added
<1> QED
  BY <1>3, <1>4, <1>5, <1>6, <1>7, <1>8, <1>9
-----------------------------------------------------------------------------
(* What each kind of update adds to. *)
LEMMA CountAdds ==
  ASSUME NEW c \in Counters
  PROVE  Count(c) \in Update /\ \A q \in Quantity : Adds(Count(c), q) <=> q = c
<1>1. Count(c).of = "counter" /\ Count(c).name = c
  BY DEF Count
<1> QED
  BY <1>1 DEF Adds, Quantity, Counters, Update

LEMMA MethodAdds ==
  ASSUME NEW m \in MethodName, NEW hit \in BOOLEAN, NEW error \in BOOLEAN
  PROVE  /\ MethodUpdate(m, hit, error) \in Update
         /\ \A q \in Quantity : Adds(MethodUpdate(m, hit, error), q) <=>
              \/ q = "methods"
              \/ q = "method_hits" /\ hit
              \/ q = "method_misses" /\ ~hit
              \/ q = "method_errors" /\ error
<1> DEFINE u == MethodUpdate(m, hit, error)
<1>1. u.of = "method" /\ u.hit = hit /\ u.error = error
  BY DEF MethodUpdate
<1>2. u \in Update
  BY DEF Update
<1> HIDE DEF u
<1>3. \A q \in Quantity : Adds(u, q) <=>
              \/ q = "methods"
              \/ q = "method_hits" /\ hit
              \/ q = "method_misses" /\ ~hit
              \/ q = "method_errors" /\ error
  BY <1>1 DEF Adds, Quantity, Counters
<1> QED
  BY <1>2, <1>3 DEF u

LEMMA ProviderAdds ==
  ASSUME NEW p \in Provider, NEW error \in BOOLEAN
  PROVE  /\ ProviderUpdate(p, error) \in Update
         /\ \A q \in Quantity : Adds(ProviderUpdate(p, error), q) <=>
              q = "attempts" \/ (q = "failed_attempts" /\ error)
<1> DEFINE u == ProviderUpdate(p, error)
<1>1. u.of = "provider" /\ u.error = error
  BY DEF ProviderUpdate
<1>2. u \in Update
  BY DEF Update
<1> HIDE DEF u
<1>3. \A q \in Quantity : Adds(u, q) <=> q = "attempts" \/ (q = "failed_attempts" /\ error)
  BY <1>1 DEF Adds, Quantity, Counters
<1> QED
  BY <1>2, <1>3 DEF u

(* What a record_* function adds keeps the quantities balanced. *)
KeepsBalance(us) ==
  /\ us \in Seq(Update) /\ Ordered(us)
  /\ Coming(us, "total_requests") = Coming(us, "cache_hits") + Coming(us, "attempts")
  /\ Coming(us, "total_requests") = Coming(us, "methods")
  /\ Coming(us, "cache_hits") = Coming(us, "method_hits")
  /\ Coming(us, "attempts") = Coming(us, "method_misses")
  /\ Coming(us, "method_errors") = Coming(us, "failed_attempts")
  /\ Coming(us, "failed_attempts") <= Coming(us, "total_errors")

LEMMA HitBalances ==
  ASSUME NEW m \in MethodName
  PROVE  KeepsBalance(RecordCacheHit(m))
<1> DEFINE a == Count("cache_hits")  b == Count("total_requests")  c == MethodUpdate(m, TRUE, FALSE)
           us == <<a, b, c>>
<1>1. a \in Update /\ b \in Update /\ c \in Update
  BY CountAdds, MethodAdds DEF Counters
<1>2. \A q \in Quantity : /\ Adds(a, q) <=> q = "cache_hits"
                          /\ Adds(b, q) <=> q = "total_requests"
                          /\ Adds(c, q) <=> q \in {"methods", "method_hits"}
  BY CountAdds, MethodAdds DEF Counters
<1>3. us = RecordCacheHit(m)
  BY DEF RecordCacheHit
<1> HIDE DEF a, b, c
<1>4. us \in Seq(Update) /\ DOMAIN us = 1..3 /\ us[1] = a /\ us[2] = b /\ us[3] = c
  BY <1>1
<1> HIDE DEF us
<1>5. \A q \in Quantity, i \in 1..3 : Adds(us[i], q) <=>
        \/ i = 1 /\ q = "cache_hits"
        \/ i = 2 /\ q = "total_requests"
        \/ i = 3 /\ q \in {"methods", "method_hits"}
  BY <1>2, <1>4
<1>6. Once(us)
  BY <1>4, <1>5 DEF Once
<1>7. Precedes(us, "total_requests", "methods") /\ Precedes(us, "cache_hits", "method_hits")
  BY <1>4, <1>5 DEF Precedes, Quantity
<1>8. \A q \in Quantity : Coming(us, q) = One(q \in {"cache_hits", "total_requests", "methods", "method_hits"})
  <2>1. \A q \in Quantity : (\E i \in DOMAIN us : Adds(us[i], q)) <=> q \in {"cache_hits", "total_requests", "methods", "method_hits"}
    BY <1>4, <1>5 DEF Quantity
  <2> QED
    BY <2>1 DEF Coming, One
<1>9. \A q \in Quantity : Coming(us, q) = IF q \in {"cache_hits", "total_requests", "methods", "method_hits"} THEN 1 ELSE 0
  BY <1>8 DEF One
<1> QED
  BY <1>3, <1>4, <1>6, <1>7, <1>9 DEF KeepsBalance, Ordered, Quantity

LEMMA AttemptBalances ==
  ASSUME NEW m \in MethodName, NEW p \in Provider
  PROVE  KeepsBalance(RecordRequest(m, p, TRUE))
<1> DEFINE a == Count("total_requests")  b == MethodUpdate(m, FALSE, FALSE)  c == ProviderUpdate(p, FALSE)
           us == RecordRequest(m, p, TRUE)
<1>1. a \in Update /\ b \in Update /\ c \in Update
  BY CountAdds, MethodAdds, ProviderAdds DEF Counters
<1>2. \A q \in Quantity : /\ Adds(a, q) <=> q = "total_requests"
                          /\ Adds(b, q) <=> q \in {"methods", "method_misses"}
                          /\ Adds(c, q) <=> q = "attempts"
  BY CountAdds, MethodAdds, ProviderAdds DEF Counters
<1>3. us = <<a>> \o <<>> \o <<b, c>>
  BY DEF RecordRequest
<1> HIDE DEF a, b, c, us
<1>4. us \in Seq(Update) /\ DOMAIN us = 1..3 /\ us[1] = a /\ us[2] = b /\ us[3] = c
  <2>1. <<a>> \o <<>> \in Seq(Update) /\ <<a>> \o <<>> = <<a>>
    BY <1>1
  <2> QED
    BY <1>1, <1>3, <2>1
<1>5. \A q \in Quantity, i \in 1..3 : Adds(us[i], q) <=>
        \/ i = 1 /\ q = "total_requests"
        \/ i = 2 /\ q \in {"methods", "method_misses"}
        \/ i = 3 /\ q = "attempts"
  BY <1>2, <1>4
<1>6. Once(us)
  BY <1>4, <1>5 DEF Once
<1>7. Precedes(us, "total_requests", "methods") /\ Precedes(us, "cache_hits", "method_hits")
  BY <1>4, <1>5 DEF Precedes, Quantity
<1>8. \A q \in Quantity : Coming(us, q) = One(q \in {"total_requests", "methods", "method_misses", "attempts"})
  <2>1. \A q \in Quantity : (\E i \in DOMAIN us : Adds(us[i], q)) <=> q \in {"total_requests", "methods", "method_misses", "attempts"}
    BY <1>4, <1>5 DEF Quantity
  <2> QED
    BY <2>1 DEF Coming, One
<1>9. \A q \in Quantity : Coming(us, q) = IF q \in {"total_requests", "methods", "method_misses", "attempts"} THEN 1 ELSE 0
  BY <1>8 DEF One
<1>10. KeepsBalance(us)
  BY <1>4, <1>6, <1>7, <1>9 DEF KeepsBalance, Ordered, Quantity
<1> QED
  BY <1>10 DEF us

LEMMA TwoAndTwo ==
  ASSUME NEW S, NEW s \in Seq(S), NEW t \in Seq(S), Len(s) = 2, Len(t) = 2
  PROVE  /\ s \o t \in Seq(S) /\ DOMAIN (s \o t) = 1..4
         /\ (s \o t)[1] = s[1] /\ (s \o t)[2] = s[2] /\ (s \o t)[3] = t[1] /\ (s \o t)[4] = t[2]
<1>1. s \o t \in Seq(S) /\ Len(s \o t) = 4
  BY ConcatProperties
<1>2. \A i \in 1..(Len(s) + Len(t)) : (s \o t)[i] = IF i <= Len(s) THEN s[i] ELSE t[i - Len(s)]
  BY ConcatProperties
<1> QED
  BY <1>1, <1>2

LEMMA FailureBalances ==
  ASSUME NEW m \in MethodName, NEW p \in Provider
  PROVE  KeepsBalance(RecordRequest(m, p, FALSE))
<1> DEFINE a == Count("total_requests")  b == Count("total_errors")
           c == MethodUpdate(m, FALSE, TRUE)  d == ProviderUpdate(p, TRUE)
           us == RecordRequest(m, p, FALSE)
<1>1. a \in Update /\ b \in Update /\ c \in Update /\ d \in Update
  BY CountAdds, MethodAdds, ProviderAdds DEF Counters
<1>2. \A q \in Quantity : /\ Adds(a, q) <=> q = "total_requests"
                          /\ Adds(b, q) <=> q = "total_errors"
                          /\ Adds(c, q) <=> q \in {"methods", "method_misses", "method_errors"}
                          /\ Adds(d, q) <=> q \in {"attempts", "failed_attempts"}
  BY CountAdds, MethodAdds, ProviderAdds DEF Counters
<1>3. us = <<a>> \o <<b>> \o <<c, d>>
  BY DEF RecordRequest
<1> HIDE DEF a, b, c, d, us
<1>4. us \in Seq(Update) /\ DOMAIN us = 1..4 /\ us[1] = a /\ us[2] = b /\ us[3] = c /\ us[4] = d
  <2> DEFINE ab == <<a>> \o <<b>>
  <2>1. ab \in Seq(Update) /\ Len(ab) = 2 /\ ab[1] = a /\ ab[2] = b
    BY <1>1
  <2> DEFINE cd == <<c, d>>
  <2>2. cd \in Seq(Update) /\ Len(cd) = 2 /\ cd[1] = c /\ cd[2] = d
    BY <1>1
  <2>3. us = ab \o cd
    BY <1>3
  <2> HIDE DEF ab, cd
  <2>4. /\ ab \o cd \in Seq(Update) /\ DOMAIN (ab \o cd) = 1..4
        /\ (ab \o cd)[1] = ab[1] /\ (ab \o cd)[2] = ab[2] /\ (ab \o cd)[3] = cd[1] /\ (ab \o cd)[4] = cd[2]
    BY <2>1, <2>2, TwoAndTwo
  <2> QED
    BY <2>1, <2>2, <2>3, <2>4
<1>5. \A q \in Quantity, i \in 1..4 : Adds(us[i], q) <=>
        \/ i = 1 /\ q = "total_requests"
        \/ i = 2 /\ q = "total_errors"
        \/ i = 3 /\ q \in {"methods", "method_misses", "method_errors"}
        \/ i = 4 /\ q \in {"attempts", "failed_attempts"}
  BY <1>2, <1>4
<1>6. Once(us)
  BY <1>4, <1>5 DEF Once
<1>7. Precedes(us, "total_requests", "methods") /\ Precedes(us, "cache_hits", "method_hits")
  BY <1>4, <1>5 DEF Precedes, Quantity
<1>8. \A q \in Quantity : Coming(us, q) = One(q \notin {"cache_hits", "method_hits"})
  <2>1. \A q \in Quantity : (\E i \in DOMAIN us : Adds(us[i], q)) <=> q \notin {"cache_hits", "method_hits"}
    BY <1>4, <1>5 DEF Quantity
  <2> QED
    BY <2>1 DEF Coming, One
<1>9. \A q \in Quantity : Coming(us, q) = IF q \notin {"cache_hits", "method_hits"} THEN 1 ELSE 0
  BY <1>8 DEF One
<1>10. KeepsBalance(us)
  BY <1>4, <1>6, <1>7, <1>9 DEF KeepsBalance, Ordered, Quantity

<1> QED
  BY <1>10 DEF us

(* A miss adds to no quantity, an error response at most to the errors. *)
LEMMA MissBalances ==
  ASSUME NEW us, us \in {RecordCacheMiss} \union {RecordCacheMiss \o RecordError(e) : e \in ErrorType}
  PROVE  KeepsBalance(us)
<1>1. CASE us = RecordCacheMiss
  <2> DEFINE a == Count("cache_misses")
  <2>1. a \in Update /\ \A q \in Quantity : ~Adds(a, q)
    BY CountAdds DEF Counters, Quantity
  <2>2. us = <<a>>
    BY <1>1 DEF RecordCacheMiss
  <2> HIDE DEF a
  <2>3. us \in Seq(Update) /\ \A i \in DOMAIN us, q \in Quantity : ~Adds(us[i], q)
    BY <2>1, <2>2
  <2>4. Once(us) /\ Precedes(us, "total_requests", "methods") /\ Precedes(us, "cache_hits", "method_hits")
    BY <2>3 DEF Once, Precedes, Quantity
  <2>5. \A q \in Quantity : Coming(us, q) = 0
    BY <2>3 DEF Coming, One
  <2> QED
    BY <2>3, <2>4, <2>5 DEF KeepsBalance, Ordered, Quantity
<1>2. ASSUME NEW e \in ErrorType, us = RecordCacheMiss \o RecordError(e) PROVE KeepsBalance(us)
  <2> DEFINE a == Count("cache_misses")  b == Count(e)
  <2>1. a \in Update /\ (\A q \in Quantity : ~Adds(a, q))
        /\ b \in Update /\ (\A q \in Quantity : Adds(b, q) <=> q = e)
    BY CountAdds DEF Counters, Quantity, ErrorType
  <2>2. us = <<a>> \o <<b>>
    BY <1>2 DEF RecordCacheMiss, RecordError
  <2> HIDE DEF a, b
  <2>3. us \in Seq(Update) /\ DOMAIN us = 1..2 /\ us[1] = a /\ us[2] = b
    BY <2>1, <2>2
  <2>4. \A i \in 1..2, q \in Quantity : Adds(us[i], q) <=> i = 2 /\ q = e
    BY <2>1, <2>3
  <2>5. Once(us) /\ Precedes(us, "total_requests", "methods") /\ Precedes(us, "cache_hits", "method_hits")
    BY <2>3, <2>4 DEF Once, Precedes, Quantity, ErrorType
  <2>6. \A q \in Quantity : Coming(us, q) = IF q = e THEN 1 ELSE 0
    <3>1. \A q \in Quantity : (\E i \in DOMAIN us : Adds(us[i], q)) <=> q = e
      BY <2>3, <2>4
    <3> QED
      BY <3>1 DEF Coming, One
  <2> QED
    BY <2>3, <2>5, <2>6 DEF KeepsBalance, Ordered, Quantity, ErrorType
<1> QED
  BY <1>1, <1>2

LEMMA RecordingsBalance ==
  ASSUME NEW recording \in Recordings
  PROVE  KeepsBalance(recording)
<1>1. CASE recording \in {RecordCacheHit(m) : m \in MethodName}
  BY <1>1, HitBalances
<1>2. ASSUME NEW m \in MethodName, NEW p \in Provider, NEW success \in BOOLEAN,
             recording = RecordRequest(m, p, success)
      PROVE  KeepsBalance(recording)
  <2>1. CASE success = TRUE
    BY <1>2, <2>1, AttemptBalances, Zenon
  <2>2. CASE success = FALSE
    BY <1>2, <2>2, FailureBalances, Zenon
  <2> QED
    BY <2>1, <2>2
<1>3. CASE recording \in {RecordCacheMiss} \union {RecordCacheMiss \o RecordError(e) : e \in ErrorType}
  BY <1>3, MissBalances
<1> QED
  BY <1>1, <1>2, <1>3 DEF Recordings

-----------------------------------------------------------------------------
(* Of every method, the requests are the hits and the misses. *)
Table == [MethodName -> [hits : Nat, misses : Nat, total_requests : Nat, errors : Nat]]
Consistent(stats) == \A m \in MethodName : stats[m].total_requests = stats[m].hits + stats[m].misses

CollectorIInv == CollectorInv /\ Consistent(method_stats)

LEMMA NothingComing ==
  ASSUME \A t \in Task : updates[t] = <<>>, NEW q
  PROVE  SumFunction([t \in Task |-> Coming(updates[t], q)]) = 0
<1> DEFINE g == [t \in Task |-> Coming(updates[t], q)]
<1>1. g \in [Task -> Nat] /\ \A t \in Task : g[t] = 0
  BY ComingType
<1> HIDE DEF g
<1>2. SumFunction(g) = 0
  BY <1>1, SumOfZeros, FiniteAssumption
<1> QED
  BY <1>2 DEF g

LEMMA FreshCollector ==
  ASSUME NewCollector, updates = [t \in Task |-> <<>>]
  PROVE  CollectorIInv
<1>1. CollectorType /\ Consistent(method_stats)
  BY DEF NewCollector, CollectorType, Consistent, NoStats, NoUsage
<1>2. \A t \in Task : Ordered(updates[t])
  BY DEF Ordered, Once, Precedes
<1>3. \A q \in Quantity : SumFunction([t \in Task |-> Coming(updates[t], q)]) = 0
  BY NothingComing
<1>4. ASSUME NEW f \in {"hits", "misses", "total_requests", "errors"} PROVE MethodSum(method_stats, f) = 0
  <2> DEFINE g == [m \in MethodName |-> method_stats[m][f]]
  <2>1. g \in [MethodName -> Nat] /\ \A m \in MethodName : g[m] = 0
    BY DEF NewCollector, NoStats
  <2> HIDE DEF g
  <2>2. SumFunction(g) = 0
    BY <2>1, SumOfZeros, FiniteAssumption
  <2> QED
    BY <2>2 DEF g, MethodSum
<1>5. ASSUME NEW f \in {"request_count", "success_count", "error_count"} PROVE ProviderSum(provider_usage, f) = 0
  <2> DEFINE g == [p \in Provider |-> provider_usage[p][f]]
  <2>1. g \in [Provider -> Nat] /\ \A p \in Provider : g[p] = 0
    BY DEF NewCollector, NoUsage
  <2> HIDE DEF g
  <2>2. SumFunction(g) = 0
    BY <2>1, SumOfZeros, FiniteAssumption
  <2> QED
    BY <2>2 DEF g, ProviderSum
<1>6. \A q \in Counters : counter[q] = 0
  BY DEF NewCollector
<1>7. \A q \in Quantity : Counted(q) = 0
  BY <1>4, <1>5, <1>6 DEF Counted, Quantity, Counters
<1>8. \A q \in Quantity : Committed(q) = 0
  BY <1>3, <1>7 DEF Committed
<1>9. Balanced
  BY <1>8 DEF Balanced, Quantity
<1> QED
  BY <1>1, <1>2, <1>9 DEF CollectorIInv, CollectorInv

LEMMA RecordStep ==
  ASSUME CollectorIInv, NEW t \in Task, Record(t)
  PROVE  CollectorIInv'
<1> DEFINE us == updates[t]  u == Head(us)
<1>1. us \in Seq(Update) /\ us # <<>> /\ Ordered(us)
  BY DEF Record, CollectorIInv, CollectorInv, CollectorType
<1>2. u \in Update /\ Tail(us) \in Seq(Update) /\ Ordered(Tail(us))
  BY <1>1, TailFacts, OrderedTail
<1>3. /\ counter' = IF u.of = "counter" THEN [counter EXCEPT ![u.name] = @ + 1] ELSE counter
      /\ method_stats' =
          IF u.of # "method" THEN method_stats
          ELSE [method_stats EXCEPT ![u.name] =
                 [hits |-> @.hits + One(u.hit), misses |-> @.misses + One(~u.hit),
                  total_requests |-> @.total_requests + 1, errors |-> @.errors + One(u.error)]]
      /\ provider_usage' =
          IF u.of # "provider" THEN provider_usage
          ELSE [provider_usage EXCEPT ![u.name] =
                 [request_count |-> @.request_count + 1,
                  success_count |-> @.success_count + One(~u.error),
                  error_count |-> @.error_count + One(u.error)]]
      /\ updates' = [updates EXCEPT ![t] = Tail(us)]
  BY DEF Record
<1> HIDE DEF u
<1>4. /\ u.of = "counter" => u.name \in Counters
      /\ u.of = "method" => u.name \in MethodName /\ u.hit \in BOOLEAN /\ u.error \in BOOLEAN
      /\ u.of = "provider" => u.name \in Provider /\ u.error \in BOOLEAN
  BY <1>2 DEF Update, Count, MethodUpdate, ProviderUpdate
<1>5. \A b \in BOOLEAN : One(b) \in Nat /\ One(b) + One(~b) = 1
  BY DEF One
<1>6. CollectorType'
  <2>1. counter' \in [Counters -> Nat]
    BY <1>3, <1>4 DEF CollectorIInv, CollectorInv, CollectorType
  <2>2. method_stats' \in Table
    <3>1. CASE u.of # "method"
      BY <1>3, <3>1 DEF CollectorIInv, CollectorInv, CollectorType, Table
    <3>2. CASE u.of = "method"
      <4> DEFINE h == One(u.hit)  i == One(~u.hit)  e == One(u.error)  m == u.name
      <4>1. h \in Nat /\ i \in Nat /\ e \in Nat /\ m \in MethodName
        BY <1>4, <1>5, <3>2
      <4>2. method_stats' = [method_stats EXCEPT ![m] =
                 [hits |-> @.hits + h, misses |-> @.misses + i,
                  total_requests |-> @.total_requests + 1, errors |-> @.errors + e]]
        BY <1>3, <3>2
      <4> HIDE DEF h, i, e, m
      <4> DEFINE r == [hits |-> method_stats[m].hits + h, misses |-> method_stats[m].misses + i,
                       total_requests |-> method_stats[m].total_requests + 1,
                       errors |-> method_stats[m].errors + e]
      <4>3. method_stats \in Table
        BY DEF CollectorIInv, CollectorInv, CollectorType, Table
      <4>4. r \in [hits : Nat, misses : Nat, total_requests : Nat, errors : Nat]
        BY <4>1, <4>3 DEF Table
      <4>5. method_stats' = [method_stats EXCEPT ![m] = r]
        BY <4>1, <4>2, <4>3 DEF Table
      <4> HIDE DEF r
      <4> QED
        BY <4>1, <4>3, <4>4, <4>5 DEF Table
    <3> QED
      BY <3>1, <3>2
  <2>3. provider_usage' \in [Provider -> [request_count : Nat, success_count : Nat, error_count : Nat]]
    <3>1. CASE u.of # "provider"
      BY <1>3, <3>1 DEF CollectorIInv, CollectorInv, CollectorType
    <3>2. CASE u.of = "provider"
      <4> DEFINE h == One(~u.error)  e == One(u.error)  p == u.name
      <4>1. h \in Nat /\ e \in Nat /\ p \in Provider
        BY <1>4, <1>5, <3>2
      <4>2. provider_usage' = [provider_usage EXCEPT ![p] =
                 [request_count |-> @.request_count + 1,
                  success_count |-> @.success_count + h, error_count |-> @.error_count + e]]
        BY <1>3, <3>2
      <4> HIDE DEF h, e, p
      <4> DEFINE Usages == [request_count : Nat, success_count : Nat, error_count : Nat]
                 r == [request_count |-> provider_usage[p].request_count + 1,
                       success_count |-> provider_usage[p].success_count + h,
                       error_count |-> provider_usage[p].error_count + e]
      <4>3. provider_usage \in [Provider -> Usages]
        BY DEF CollectorIInv, CollectorInv, CollectorType
      <4>4. r \in Usages
        BY <4>1, <4>3
      <4>5. provider_usage' = [provider_usage EXCEPT ![p] = r]
        BY <4>1, <4>2, <4>3
      <4>6. ASSUME NEW S, provider_usage \in [Provider -> S], r \in S
            PROVE  provider_usage' \in [Provider -> S]
        <5> HIDE DEF r
        <5> QED
          BY <4>1, <4>5, <4>6
      <4> QED
        BY <4>3, <4>4, <4>6
    <3> QED
      BY <3>1, <3>2
  <2>4. updates' \in [Task -> Seq(Update)]
    BY <1>2, <1>3 DEF CollectorIInv, CollectorInv, CollectorType
  <2> QED
    BY <2>1, <2>2, <2>3, <2>4 DEF CollectorType, Table
<1>7. \A s \in Task : Ordered(updates'[s])
  BY <1>2, <1>3 DEF CollectorIInv, CollectorInv, CollectorType
<1>8. \A q \in Quantity : Committed(q)' = Committed(q)
  BY <1>1, <1>6, RecordKeeps DEF CollectorIInv, CollectorInv
<1>9. Balanced'
  BY <1>8 DEF CollectorIInv, CollectorInv, Balanced, Quantity
<1>10. Consistent(method_stats')
  <2>1. CASE u.of # "method"
    BY <1>3, <2>1 DEF CollectorIInv
  <2>2. CASE u.of = "method"
    <3> DEFINE h == One(u.hit)  i == One(~u.hit)  e == One(u.error)  m == u.name
    <3>1. h \in Nat /\ i \in Nat /\ h + i = 1 /\ m \in MethodName
      BY <1>4, <1>5, <2>2
    <3>2. method_stats' = [method_stats EXCEPT ![m] =
               [hits |-> @.hits + h, misses |-> @.misses + i,
                total_requests |-> @.total_requests + 1, errors |-> @.errors + e]]
      BY <1>3, <2>2
    <3> HIDE DEF h, i, e, m
    <3>3. \A n \in MethodName : /\ method_stats[n].hits \in Nat /\ method_stats[n].misses \in Nat
                                /\ method_stats[n].total_requests = method_stats[n].hits + method_stats[n].misses
      BY DEF CollectorIInv, CollectorInv, CollectorType, Consistent
    <3>4. /\ method_stats'[m].hits = method_stats[m].hits + h
          /\ method_stats'[m].misses = method_stats[m].misses + i
          /\ method_stats'[m].total_requests = method_stats[m].total_requests + 1
          /\ \A n \in MethodName \ {m} : method_stats'[n] = method_stats[n]
      BY <3>1, <3>2 DEF CollectorIInv, CollectorInv, CollectorType
    <3>5. method_stats'[m].total_requests = method_stats'[m].hits + method_stats'[m].misses
      BY <3>1, <3>3, <3>4
    <3> QED
      BY <3>3, <3>4, <3>5 DEF Consistent
  <2> QED
    BY <2>1, <2>2
<1> QED
  BY <1>6, <1>7, <1>9, <1>10 DEF CollectorIInv, CollectorInv

LEMMA StartRecordStep ==
  ASSUME CollectorIInv, NEW t \in Task, NEW recording \in Recordings, StartRecord(t, recording)
  PROVE  CollectorIInv'
<1>1. KeepsBalance(recording)
  BY RecordingsBalance
<1>2. /\ counter' = counter /\ method_stats' = method_stats /\ provider_usage' = provider_usage
      /\ updates' = [updates EXCEPT ![t] = recording] /\ updates[t] = <<>>
  BY DEF StartRecord, collector
<1>3. CollectorType'
  BY <1>1, <1>2 DEF CollectorIInv, CollectorInv, CollectorType, KeepsBalance
<1>4. \A s \in Task : Ordered(updates'[s])
  BY <1>1, <1>2 DEF CollectorIInv, CollectorInv, CollectorType, KeepsBalance
<1>5. ASSUME NEW q \in Quantity PROVE Committed(q)' = Committed(q) + Coming(recording, q)
  <2> DEFINE coming == SumFunction([s \in Task |-> Coming(updates[s], q)])
             comingThen == SumFunction([s \in Task |-> Coming(updates'[s], q)])
  <2>1. updates'[t] = recording /\ \A s \in Task \ {t} : updates'[s] = updates[s]
    BY <1>2 DEF CollectorIInv, CollectorInv, CollectorType
  <2>2. comingThen + Coming(updates[t], q) = coming + Coming(updates'[t], q)
    BY <1>3, <2>1, ComingChanges DEF CollectorIInv, CollectorInv
  <2>3. Coming(updates[t], q) = 0 /\ Coming(recording, q) \in Nat
    BY <1>2, ComingType
  <2>4. coming \in Nat /\ Counted(q) \in Nat
    BY CountedType DEF CollectorIInv, CollectorInv
  <2>5. comingThen \in Nat
    <3>1. [s \in Task |-> Coming(updates'[s], q)] \in [Task -> Nat]
      BY ComingType
    <3> QED
      BY <3>1, SumType, FiniteAssumption
  <2>6. Counted(q)' = Counted(q)
    BY <1>2 DEF Counted, Quantity, Counters
  <2>7. Committed(q) = Counted(q) + coming /\ Committed(q)' = Counted(q)' + comingThen
    BY DEF Committed
  <2> HIDE DEF coming, comingThen
  <2> QED
    BY <2>1, <2>2, <2>3, <2>4, <2>5, <2>6, <2>7
<1>6. \A q \in Quantity : Committed(q) \in Nat /\ Coming(recording, q) \in Nat
  BY CommittedType, ComingType DEF CollectorIInv, CollectorInv
<1>7. Balanced'
  <2> DEFINE old == [q \in Quantity |-> Committed(q)]  add == [q \in Quantity |-> Coming(recording, q)]
  <2>1. \A q \in Quantity : old[q] \in Nat /\ add[q] \in Nat /\ Committed(q)' = old[q] + add[q]
    BY <1>5, <1>6
  <2>2. /\ old["total_requests"] = old["cache_hits"] + old["attempts"]
        /\ old["total_requests"] = old["methods"]
        /\ old["cache_hits"] = old["method_hits"]
        /\ old["attempts"] = old["method_misses"]
        /\ old["method_errors"] = old["failed_attempts"]
        /\ old["failed_attempts"] <= old["total_errors"]
    BY DEF CollectorIInv, CollectorInv, Balanced, Quantity
  <2>3. /\ add["total_requests"] = add["cache_hits"] + add["attempts"]
        /\ add["total_requests"] = add["methods"]
        /\ add["cache_hits"] = add["method_hits"]
        /\ add["attempts"] = add["method_misses"]
        /\ add["method_errors"] = add["failed_attempts"]
        /\ add["failed_attempts"] <= add["total_errors"]
    BY <1>1 DEF KeepsBalance, Quantity
  <2> HIDE DEF old, add
  <2> QED
    BY <2>1, <2>2, <2>3 DEF Balanced, Quantity
<1>8. Consistent(method_stats')
  BY <1>2 DEF CollectorIInv
<1> QED
  BY <1>3, <1>4, <1>7, <1>8 DEF CollectorIInv, CollectorInv

-----------------------------------------------------------------------------
LEMMA AtRest ==
  ASSUME CollectorIInv
  PROVE  CountersAgree
<1> SUFFICES ASSUME \A t \in Task : updates[t] = <<>>
             PROVE  /\ counter["total_requests"] = counter["cache_hits"] + ProviderSum(provider_usage, "request_count")
                    /\ counter["total_requests"] = MethodSum(method_stats, "total_requests")
                    /\ counter["cache_hits"] = MethodSum(method_stats, "hits")
                    /\ ProviderSum(provider_usage, "request_count") = MethodSum(method_stats, "misses")
                    /\ MethodSum(method_stats, "errors") = ProviderSum(provider_usage, "error_count")
                    /\ ProviderSum(provider_usage, "error_count") <= counter["total_errors"]
  BY DEF CountersAgree
<1>1. \A q \in Quantity : Committed(q) = Counted(q)
  <2> TAKE q \in Quantity
  <2>1. Counted(q) \in Nat
    BY CountedType DEF CollectorIInv, CollectorInv
  <2> QED
    BY <2>1, NothingComing DEF Committed
<1>2. /\ Counted("total_requests") = Counted("cache_hits") + Counted("attempts")
      /\ Counted("total_requests") = Counted("methods")
      /\ Counted("cache_hits") = Counted("method_hits")
      /\ Counted("attempts") = Counted("method_misses")
      /\ Counted("method_errors") = Counted("failed_attempts")
      /\ Counted("failed_attempts") <= Counted("total_errors")
  BY <1>1 DEF CollectorIInv, CollectorInv, Balanced, Quantity
<1> QED
  BY <1>2 DEF Counted, Counters

(* Of two quantities the one added to first is counted for at least as much. *)
LEMMA CountedFirst ==
  ASSUME CollectorType, NEW q \in Quantity, NEW r \in Quantity, Committed(q) = Committed(r),
         \A t \in Task : Precedes(updates[t], q, r)
  PROVE  Counted(r) <= Counted(q)
<1> DEFINE g == [t \in Task |-> Coming(updates[t], q)]
           k == [t \in Task |-> Coming(updates[t], r)]
<1>1. g \in [Task -> Nat] /\ k \in [Task -> Nat]
  BY ComingType
<1>2. \A t \in Task : g[t] <= k[t]
  BY DEF Coming, One, Precedes
<1>3. Committed(q) = Counted(q) + SumFunction(g) /\ Committed(r) = Counted(r) + SumFunction(k)
  BY DEF Committed
<1> HIDE DEF g, k
<1>4. SumFunction(g) <= SumFunction(k) /\ SumFunction(g) \in Nat /\ SumFunction(k) \in Nat
  BY <1>1, <1>2, SumAtMost, SumType, FiniteAssumption
<1>5. Counted(q) \in Nat /\ Counted(r) \in Nat
  BY CountedType
<1>6. Counted(q) + SumFunction(g) = Counted(r) + SumFunction(k)
  BY <1>3
<1> QED
  BY <1>4, <1>5, <1>6

LEMMA TotalIsSum ==
  ASSUME NEW stats \in Table, Consistent(stats)
  PROVE  MethodTotal(stats) = MethodSum(stats, "total_requests")
<1>1. [m \in MethodName |-> MethodRequests(stats, m)] = [m \in MethodName |-> stats[m]["total_requests"]]
  BY DEF Consistent, MethodRequests
<1> QED
  BY <1>1 DEF MethodTotal, MethodSum

LEMMA TableType ==
  ASSUME NEW stats \in Table, Consistent(stats)
  PROVE  MethodTotal(stats) \in Nat /\ MethodSum(stats, "hits") \in Nat
<1>1. ASSUME NEW f \in {"hits", "total_requests"} PROVE MethodSum(stats, f) \in Nat
  <2>1. [m \in MethodName |-> stats[m][f]] \in [MethodName -> Nat]
    BY DEF Table
  <2> QED
    BY <2>1, SumType, FiniteAssumption DEF MethodSum
<1> QED
  BY <1>1, TotalIsSum

(* At every moment. *)
LEMMA TotalsFirst ==
  ASSUME CollectorIInv
  PROVE  /\ MethodTotal(method_stats) <= counter["total_requests"]
         /\ MethodSum(method_stats, "hits") <= counter["cache_hits"]
<1>1. CollectorType /\ method_stats \in Table /\ Consistent(method_stats)
  BY DEF CollectorIInv, CollectorInv, CollectorType, Table
<1>2. Counted("methods") <= Counted("total_requests") /\ Counted("method_hits") <= Counted("cache_hits")
  BY <1>1, CountedFirst DEF CollectorIInv, CollectorInv, Ordered, Balanced, Quantity
<1> QED
  BY <1>1, <1>2, TotalIsSum DEF Counted, Counters

-----------------------------------------------------------------------------
(* What the reply of edb_cache_metrics read so far will be compared with: the
   totals read after the table, or their values now. *)
Requests(r, now) == IF Len(r) >= 2 THEN r[2] ELSE now["total_requests"]
Hits(r, now) == IF Len(r) >= 3 THEN r[3] ELSE now["cache_hits"]

Covered(r, now) ==
  r # <<>> => /\ r[1] \in Table /\ Consistent(r[1])
              /\ MethodTotal(r[1]) <= Requests(r, now) /\ MethodSum(r[1], "hits") <= Hits(r, now)

ReplyInv ==
  "edb_cache_metrics" \in Asked =>
    LET r == reply["edb_cache_metrics"]
        state == call["edb_cache_metrics"]
    IN
    /\ DOMAIN call = Asked /\ DOMAIN reply = Asked
    /\ r \in Seq(Nat \union Table)
    /\ state \in {"none", "sent", "replied", "failed"}
    /\ state \in {"none", "failed"} => r = <<>>
    /\ state = "replied" => Len(r) = 5
    /\ ~updating => state = "none"
    /\ Covered(r, counter)

ShownIInv == CollectorIInv /\ ReplyInv /\ MethodsWithinTotals

(* The totals only grow while the proxy runs. *)
LEMMA Grows ==
  ASSUME CollectorIInv, CollectorIInv', RequestStep \/ UNCHANGED metricsVars
  PROVE  counter'["total_requests"] >= counter["total_requests"] /\ counter'["cache_hits"] >= counter["cache_hits"]
<1>1. counter \in [Counters -> Nat]
  BY DEF CollectorIInv, CollectorInv, CollectorType
<1>2. ASSUME NEW t \in Task, Record(t)
      PROVE  \A c \in Counters : counter'[c] >= counter[c]
  <2>1. \/ counter' = counter
        \/ counter' = [counter EXCEPT ![Head(updates[t]).name] = @ + 1]
    BY <1>2 DEF Record
  <2> QED
    BY <1>1, <2>1
<1>3. RequestStep => (\E t \in Task : Record(t)) \/ counter' = counter
  BY DEF RequestStep, StartRecord, collector
<1>4. UNCHANGED metricsVars => counter' = counter
  BY DEF metricsVars, collector
<1> QED
  BY <1>1, <1>2, <1>3, <1>4 DEF Counters

LEMMA CoveredLater ==
  ASSUME CollectorIInv, CollectorIInv', RequestStep \/ UNCHANGED metricsVars, NEW r, Covered(r, counter)
  PROVE  Covered(r, counter')
<1>1. r = <<>> \/ (r[1] \in Table /\ Consistent(r[1]) /\ MethodTotal(r[1]) \in Nat /\ MethodSum(r[1], "hits") \in Nat)
  BY TableType DEF Covered
<1>2. /\ counter'["total_requests"] >= counter["total_requests"] /\ counter'["cache_hits"] >= counter["cache_hits"]
      /\ counter["total_requests"] \in Nat /\ counter["cache_hits"] \in Nat
      /\ counter'["total_requests"] \in Nat /\ counter'["cache_hits"] \in Nat
  BY Grows DEF CollectorIInv, CollectorInv, CollectorType, Counters
<1> QED
  BY <1>1, <1>2 DEF Covered, Requests, Hits

LEMMA ShownInit == MonitorInit => ShownIInv
<1> SUFFICES ASSUME MonitorInit PROVE ShownIInv
  OBVIOUS
<1>1. CollectorIInv
  BY FreshCollector DEF MonitorInit, MetricsInit
<1>2. ReplyInv
  BY DEF MonitorInit, ReplyInv, Covered
<1>3. MethodsWithinTotals
  BY DEF MonitorInit, MethodsWithinTotals, Absent
<1> QED
  BY <1>1, <1>2, <1>3 DEF ShownIInv

(* Reads of the call the theorem is about, one at a time. *)
LEMMA ServeMetrics ==
  ASSUME ShownIInv, "edb_cache_metrics" \in Asked, Serve("edb_cache_metrics")
  PROVE  ReplyInv'
<1> DEFINE M == "edb_cache_metrics"  r == reply[M]  rThen == reply'[M]
           v == Value(Reads[M][Len(r) + 1])
<1>1. /\ DOMAIN call = Asked /\ DOMAIN reply = Asked /\ r \in Seq(Nat \union Table) /\ Covered(r, counter)
      /\ (~updating => call[M] = "none")
  BY DEF ShownIInv, ReplyInv
<1>2. Len(Reads[M]) = 5
  BY DEF Reads
<1>3. /\ call[M] = "sent" /\ Len(r) < 5
      /\ rThen = Append(r, v)
      /\ DOMAIN reply' = Asked /\ DOMAIN call' = Asked
      /\ call'[M] = IF Len(rThen) = 5 THEN "replied" ELSE "sent"
      /\ UNCHANGED counter /\ UNCHANGED updating
  <2>1. /\ call[M] = "sent" /\ Len(r) < Len(Reads[M])
        /\ reply' = [reply EXCEPT ![M] = Append(@, Value(Reads[M][Len(@) + 1]))]
        /\ call' = [call EXCEPT ![M] = IF Len(reply'[M]) = Len(Reads[M]) THEN "replied" ELSE "sent"]
        /\ UNCHANGED counter /\ UNCHANGED updating
    BY DEF Serve, metricsVars, collector, appVars
  <2> QED
    BY <1>1, <1>2, <2>1
<1>4. Len(r) \in 0..4
  <2> HIDE DEF r
  <2>1. Len(r) \in Nat
    BY <1>1
  <2>2. Len(r) < 5
    BY <1>3, Zenon
  <2>3. \A n \in Nat : n < 5 => n \in 0..4
    OBVIOUS
  <2> QED
    BY <2>1, <2>2, <2>3, Zenon
<1>5. /\ Len(r) = 0 => v = method_stats
      /\ Len(r) = 1 => v = counter["total_requests"]
      /\ Len(r) = 2 => v = counter["cache_hits"]
      /\ Len(r) = 3 => v = counter["cache_misses"]
      /\ Len(r) = 4 => v = counter["total_errors"]
  <2>1. /\ Len(r) = 0 => v = Value("method_stats")
        /\ Len(r) = 1 => v = Value("total_requests")
        /\ Len(r) = 2 => v = Value("cache_hits")
        /\ Len(r) = 3 => v = Value("cache_misses")
        /\ Len(r) = 4 => v = Value("total_errors")
    <3>1. Reads[M] = <<"method_stats", "total_requests", "cache_hits", "cache_misses", "total_errors">>
      BY DEF Reads
    <3>2. /\ Reads[M][0 + 1] = "method_stats" /\ Reads[M][1 + 1] = "total_requests"
          /\ Reads[M][2 + 1] = "cache_hits" /\ Reads[M][3 + 1] = "cache_misses" /\ Reads[M][4 + 1] = "total_errors"
      BY <3>1
    <3> QED
      BY <3>2
  <2> QED
    BY <2>1 DEF Value, Counters
<1>6. counter \in [Counters -> Nat] /\ method_stats \in Table /\ Consistent(method_stats)
  BY DEF ShownIInv, CollectorIInv, CollectorInv, CollectorType, Table
<1>7. v \in Nat \union Table
  BY <1>4, <1>5, <1>6 DEF Counters
<1> HIDE DEF v
<1>8. /\ rThen \in Seq(Nat \union Table) /\ Len(rThen) = Len(r) + 1
      /\ rThen[Len(r) + 1] = v /\ \A i \in 1..Len(r) : rThen[i] = r[i]
  BY <1>1, <1>3, <1>7
<1>9. MethodTotal(method_stats) <= counter["total_requests"] /\ MethodSum(method_stats, "hits") <= counter["cache_hits"]
  BY TotalsFirst DEF ShownIInv
<1> HIDE DEF r, rThen, M
<1>10. Covered(rThen, counter')
  <2>1. CASE Len(r) = 0
    BY <1>3, <1>5, <1>6, <1>8, <1>9, <2>1 DEF Covered, Requests, Hits
  <2>2. CASE Len(r) # 0
    <3>1. r # <<>> /\ 1 \in 1..Len(r)
      BY <1>4, <2>2
    <3>2. rThen[1] = r[1] /\ r[1] \in Table /\ Consistent(r[1])
      BY <1>1, <1>8, <3>1 DEF Covered
    <3>3. MethodTotal(r[1]) <= Requests(r, counter) /\ MethodSum(r[1], "hits") <= Hits(r, counter)
      BY <1>1, <3>1 DEF Covered
    <3>4. Requests(rThen, counter') = Requests(r, counter) /\ Hits(rThen, counter') = Hits(r, counter)
      BY <1>3, <1>4, <1>5, <1>8, <2>2 DEF Requests, Hits
    <3> QED
      BY <3>2, <3>3, <3>4 DEF Covered
  <2> QED
    BY <2>1, <2>2
<1>11. Len(rThen) # 5 => Len(rThen) < 5
  BY <1>4, <1>8
<1>12. /\ DOMAIN call' = Asked /\ DOMAIN reply' = Asked
       /\ rThen \in Seq(Nat \union Table)
       /\ call'[M] \in {"sent", "replied"}
       /\ call'[M] = "replied" => Len(rThen) = 5
       /\ updating'
  BY <1>1, <1>3, <1>8 DEF M
<1> QED
  BY <1>10, <1>12 DEF ReplyInv, M, rThen

LEMMA FreshLater == NewCollector' /\ updates' = [t \in Task |-> <<>>] => CollectorIInv'
<1>1. NewCollector /\ updates = [t \in Task |-> <<>>] => CollectorIInv
  BY FreshCollector
<1>2. (NewCollector /\ updates = [t \in Task |-> <<>>])' => CollectorIInv'
  BY <1>1, PTL
<1> QED
  BY <1>2

LEMMA Unmoved ==
  ASSUME CollectorIInv, UNCHANGED metricsVars
  PROVE  CollectorIInv'
BY DEF metricsVars, collector, CollectorIInv, CollectorInv, CollectorType, Balanced, Committed, Counted

LEMMA RequestKeeps ==
  ASSUME CollectorIInv, RequestStep
  PROVE  CollectorIInv'
BY RecordStep, StartRecordStep DEF RequestStep

(* A step of the proxy's that the reply is not part of. *)
LEMMA ReplyKept ==
  ASSUME CollectorIInv, CollectorIInv', RequestStep \/ UNCHANGED metricsVars, ReplyInv,
         UNCHANGED updating,
         "edb_cache_metrics" \in Asked =>
           /\ DOMAIN call' = Asked /\ DOMAIN reply' = Asked
           /\ \/ UNCHANGED <<call["edb_cache_metrics"], reply["edb_cache_metrics"]>>
              \/ /\ updating
                 /\ call'["edb_cache_metrics"] = "failed" /\ reply'["edb_cache_metrics"] = <<>>
  PROVE  ReplyInv'
<1> DEFINE M == "edb_cache_metrics"
<1> SUFFICES ASSUME M \in Asked PROVE ReplyInv'
  BY DEF ReplyInv
<1>1. CASE UNCHANGED <<call[M], reply[M]>>
  <2>1. Covered(reply[M], counter')
    BY CoveredLater DEF ReplyInv
  <2> QED
    BY <1>1, <2>1 DEF ReplyInv
<1>2. CASE updating /\ call'[M] = "failed" /\ reply'[M] = <<>>
  <2>1. Covered(reply'[M], counter')
    BY <1>2 DEF Covered
  <2> QED
    BY <1>2, <2>1 DEF ReplyInv
<1> QED
  BY <1>1, <1>2

LEMMA ShownStep == ShownIInv /\ [MonitorNext]_allVars => ShownIInv'
<1> DEFINE M == "edb_cache_metrics"
<1> SUFFICES ASSUME ShownIInv, [MonitorNext]_allVars PROVE ShownIInv'
  OBVIOUS
<1>1. CollectorIInv /\ ReplyInv /\ MethodsWithinTotals
  BY DEF ShownIInv
<1>2. M \in Asked => /\ DOMAIN call = Asked /\ DOMAIN reply = Asked
                     /\ (~updating => call[M] = "none")
                     /\ (call[M] \in {"none", "failed"} => reply[M] = <<>>)
                     /\ (call[M] = "replied" => Len(reply[M]) = 5)
                     /\ call[M] \in {"none", "sent", "replied", "failed"}
                     /\ Covered(reply[M], counter) /\ reply[M] \in Seq(Nat \union Table)
  BY <1>1 DEF ReplyInv
<1>3. CASE RequestStep /\ UNCHANGED monitorVars
  <2>1. CollectorIInv'
    BY <1>1, <1>3, RequestKeeps
  <2>2. UNCHANGED <<call, reply, shown, updating>>
    BY <1>3 DEF monitorVars, callVars, appVars
  <2>3. ReplyInv'
    BY <1>1, <1>2, <1>3, <2>1, <2>2, ReplyKept
  <2> QED
    BY <1>1, <2>1, <2>2, <2>3 DEF ShownIInv, MethodsWithinTotals
<1>4. ASSUME NEW c \in Asked, Serve(c) PROVE ShownIInv'
  <2>1. UNCHANGED <<metricsVars, shown, updating>>
    BY <1>4 DEF Serve, appVars
  <2>2. CollectorIInv'
    BY <1>1, <2>1, Unmoved
  <2>3. ReplyInv'
    <3>1. CASE c = M
      BY <1>4, <3>1, ServeMetrics
    <3>2. CASE c # M
      <4>1. M \in Asked => /\ DOMAIN call' = Asked /\ DOMAIN reply' = Asked
                           /\ UNCHANGED <<call[M], reply[M]>>
        BY <1>2, <1>4, <3>2 DEF Serve
      <4> QED
        BY <1>1, <2>1, <2>2, <4>1, ReplyKept
    <3> QED
      BY <3>1, <3>2
  <2> QED
    BY <1>1, <2>1, <2>2, <2>3 DEF ShownIInv, MethodsWithinTotals
<1>5. ASSUME NEW cs \in SUBSET Asked, Failed(cs), \A c \in cs : call[c] = "sent"
      PROVE  M \in Asked => /\ DOMAIN call' = Asked /\ DOMAIN reply' = Asked
                            /\ \/ UNCHANGED <<call[M], reply[M]>>
                               \/ updating /\ call'[M] = "failed" /\ reply'[M] = <<>>
  BY <1>2, <1>5 DEF Failed
<1>6. ASSUME NEW c \in Asked, Lose(c) PROVE ShownIInv'
  <2>1. UNCHANGED <<metricsVars, shown, updating>> /\ Failed({c}) /\ call[c] = "sent"
    BY <1>6 DEF Lose, appVars
  <2>2. CollectorIInv'
    BY <1>1, <2>1, Unmoved
  <2>3. ReplyInv'
    <3>1. M \in Asked => /\ DOMAIN call' = Asked /\ DOMAIN reply' = Asked
                         /\ \/ UNCHANGED <<call[M], reply[M]>>
                            \/ updating /\ call'[M] = "failed" /\ reply'[M] = <<>>
      BY <1>5, <2>1
    <3> QED
      BY <1>1, <2>1, <2>2, <3>1, ReplyKept
  <2> QED
    BY <1>1, <2>1, <2>2, <2>3 DEF ShownIInv, MethodsWithinTotals
<1>7. CASE RestartProxy
  <2>1. UNCHANGED <<shown, updating>> /\ Failed({c \in Asked : call[c] = "sent"})
    BY <1>7 DEF RestartProxy, appVars
  <2>2. CollectorIInv'
    BY <1>7, FreshLater DEF RestartProxy, Restart, NewCollector
  <2>3. ReplyInv'
    <3> SUFFICES ASSUME M \in Asked PROVE ReplyInv'
      BY DEF ReplyInv
    <3>1. DOMAIN call' = Asked /\ DOMAIN reply' = Asked
      BY <2>1 DEF Failed
    <3>2. CASE call[M] = "sent"
      <4>1. call'[M] = "failed" /\ reply'[M] = <<>> /\ updating
        BY <1>2, <2>1, <3>2 DEF Failed
      <4> QED
        BY <2>1, <3>1, <4>1 DEF ReplyInv, Covered
    <3>3. CASE call[M] # "sent"
      <4>1. call'[M] = call[M] /\ reply'[M] = reply[M]
        BY <2>1, <3>3 DEF Failed
      <4>2. Covered(reply[M], counter')
        <5>1. CASE reply[M] = <<>>
          BY <5>1 DEF Covered
        <5>2. CASE Len(reply[M]) = 5
          <6>1. Requests(reply[M], counter') = Requests(reply[M], counter) /\ Hits(reply[M], counter') = Hits(reply[M], counter)
            BY <5>2 DEF Requests, Hits
          <6> QED
            BY <1>2, <6>1 DEF Covered
        <5> QED
          BY <1>2, <3>3, <5>1, <5>2
      <4> QED
        BY <1>2, <2>1, <3>1, <3>3, <4>1, <4>2 DEF ReplyInv
    <3> QED
      BY <3>2, <3>3
  <2> QED
    BY <1>1, <2>1, <2>2, <2>3 DEF ShownIInv, MethodsWithinTotals
<1>8. CASE StartUpdate
  <2>1. /\ ~updating /\ updating' = TRUE /\ call' = [c \in Asked |-> "sent"]
        /\ UNCHANGED <<metricsVars, reply, shown>>
    BY <1>8 DEF StartUpdate
  <2>2. CollectorIInv'
    BY <1>1, <2>1, Unmoved
  <2>3. ReplyInv'
    BY <1>2, <2>1 DEF ReplyInv, Covered
  <2> QED
    BY <1>1, <2>1, <2>2, <2>3 DEF ShownIInv, MethodsWithinTotals
<1>9. CASE FinishUpdate
  <2>1. /\ shown' = [c \in Asked |-> Fetched(c)]
        /\ call' = [c \in Asked |-> "none"] /\ reply' = [c \in Asked |-> <<>>]
        /\ UNCHANGED metricsVars
    BY <1>9 DEF FinishUpdate
  <2>2. CollectorIInv'
    BY <1>1, <2>1, Unmoved
  <2>3. ReplyInv'
    BY <2>1 DEF ReplyInv, Covered
  <2>4. MethodsWithinTotals'
    <3> SUFFICES ASSUME M \in Asked, shown'[M] # Absent
                 PROVE  /\ MethodTotal(shown'[M][1]) <= shown'[M][2]
                        /\ MethodSum(shown'[M][1], "hits") <= shown'[M][3]
      BY DEF MethodsWithinTotals
    <3>1. shown'[M] = reply[M] /\ call[M] = "replied"
      BY <2>1 DEF Fetched
    <3>2. Len(reply[M]) = 5 /\ reply[M] # <<>>
      BY <1>2, <3>1 DEF Absent
    <3>3. Requests(reply[M], counter) = reply[M][2] /\ Hits(reply[M], counter) = reply[M][3]
      BY <3>2 DEF Requests, Hits
    <3> QED
      BY <1>2, <3>1, <3>2, <3>3 DEF Covered
  <2> QED
    BY <2>2, <2>3, <2>4 DEF ShownIInv
<1>10. CASE UNCHANGED allVars
  <2>1. UNCHANGED <<metricsVars, call, reply, shown, updating>>
    BY <1>10 DEF allVars, monitorVars, callVars, appVars
  <2>2. CollectorIInv'
    BY <1>1, <2>1, Unmoved
  <2>3. ReplyInv'
    BY <1>1, <1>2, <2>1, <2>2, ReplyKept
  <2> QED
    BY <1>1, <2>1, <2>2, <2>3 DEF ShownIInv, MethodsWithinTotals
<1> QED
  BY <1>3, <1>4, <1>6, <1>7, <1>8, <1>9, <1>10 DEF MonitorNext

THEOREM NumbersAgree == MonitorSpec => []MetricsAgree
<1>1. ShownIInv => MetricsAgree
  BY AtRest DEF ShownIInv, MetricsAgree
<1> QED
  BY <1>1, ShownInit, ShownStep, PTL DEF MonitorSpec
-----------------------------------------------------------------------------
(* The registry *)
IInv == TypeOK /\ CancelledSinceCheck

USE PidAssumption, TimeoutAssumption, GraceAssumption, NoneAssumption
-----------------------------------------------------------------------------
(* Aging keeps what is absent absent, and what is present present and in
   range. *)
LEMMA OlderType ==
  ASSUME NEW cap \in Nat, NEW age \in (0..cap) \union {None}
  PROVE  /\ Older(age, cap) \in (0..cap) \union {None}
         /\ Older(age, cap) = None <=> age = None
  BY DEF Older

LEMMA InvInit == Init => IInv
  BY DEF Init, Fresh, IInv, TypeOK, CancelledSinceCheck, HeartbeatAges, GraceAges

(* A tick changes ages and nothing else. *)
LEMMA TickStep ==
  ASSUME IInv, Tick
  PROVE  IInv' /\ Instances' = Instances
<1> USE DEF IInv, TypeOK, HeartbeatAges, GraceAges
<1>1. \A p \in Pid : /\ last_heartbeat'[p] \in HeartbeatAges \union {None}
                     /\ last_heartbeat'[p] = None <=> last_heartbeat[p] = None
  <2>1. Timeout + 1 \in Nat
    OBVIOUS
  <2>2. \A p \in Pid : last_heartbeat'[p] = Older(last_heartbeat[p], Timeout + 1)
    BY DEF Tick
  <2> QED
    BY <2>1, <2>2, OlderType
<1>2. /\ grace_period_start' \in GraceAges \union {None}
      /\ grace_period_start = None => grace_period_start' = None
  BY OlderType DEF Tick
<1>3. last_heartbeat' \in [Pid -> HeartbeatAges \union {None}]
  BY <1>1 DEF Tick
<1>4. Instances' = Instances
  BY <1>1 DEF Instances
<1>5. TypeOK'
  BY <1>2, <1>3 DEF Tick
<1>6. CancelledSinceCheck'
  BY <1>2, <1>4 DEF Tick, CancelledSinceCheck
<1> QED
  BY <1>4, <1>5, <1>6

LEMMA InvStep == IInv /\ [Next]_vars => IInv'
<1> SUFFICES ASSUME IInv, [Next]_vars PROVE IInv'
  OBVIOUS
<1> USE DEF IInv, TypeOK, HeartbeatAges, GraceAges
<1>1. ASSUME NEW p \in Pid, RegisterInsert(p) PROVE IInv'
  <2>1. TypeOK'
    BY <1>1 DEF RegisterInsert
  <2>2. Instances' \ {registering'} \subseteq Instances \ {registering}
    BY <1>1 DEF RegisterInsert, Instances
  <2>3. CancelledSinceCheck'
    BY <1>1, <2>2 DEF RegisterInsert, CancelledSinceCheck
  <2> QED
    BY <2>1, <2>3
<1>2. ASSUME RegisterCancelsGrace PROVE IInv'
  BY <1>2 DEF RegisterCancelsGrace, CancelledSinceCheck
<1>3. ASSUME NEW p \in Pid, Heartbeat(p) PROVE IInv'
  <2>1. TypeOK'
    BY <1>3 DEF Heartbeat
  <2>2. Instances' = Instances
    BY <1>3 DEF Heartbeat, Instances
  <2>3. CancelledSinceCheck'
    BY <1>3, <2>2 DEF Heartbeat, CancelledSinceCheck
  <2> QED
    BY <2>1, <2>3
<1>4. ASSUME NEW seen \in ProcessChecks, MonitorSweep(seen) PROVE IInv'
  BY <1>4 DEF MonitorSweep, CancelledSinceCheck
<1>5. ASSUME MonitorCheck PROVE IInv'
  BY <1>5 DEF MonitorCheck, CancelledSinceCheck, instanceVars, Instances
<1>6. ASSUME MonitorGrace PROVE IInv'
  BY <1>6 DEF MonitorGrace, CancelledSinceCheck
<1>7. ASSUME Tick PROVE IInv'
  BY <1>7, TickStep
<1>8. ASSUME NEW p \in Pid, ProcessDies(p) PROVE IInv'
  BY <1>8 DEF ProcessDies, instanceVars, CancelledSinceCheck, Instances
<1>9. CASE UNCHANGED vars
  BY <1>9 DEF vars, CancelledSinceCheck, Instances
<1> QED
  BY <1>1, <1>2, <1>3, <1>4, <1>5, <1>6, <1>7, <1>8, <1>9 DEF Next, MonitorStep
-----------------------------------------------------------------------------
(* The inductive invariant of the registry and its monitor. *)
THEOREM Invariance == Spec => []IInv
  BY InvInit, InvStep, PTL DEF Spec

(* The registry's state keeps its types, for any pids and timeouts. *)
THEOREM TypeCorrect == Spec => []TypeOK
  BY Invariance, PTL DEF IInv

(* Between the monitor's look at the instances and its look at the grace
   period (registry.rs:203-209), an instance that registers has cancelled that
   grace period. *)
THEOREM CancelledInTime == Spec => []CancelledSinceCheck
  BY Invariance, PTL DEF IInv

(* The shutdown signal is a step of the monitor alone, and is sent only with a
   grace period that has run out. *)
LEMMA ShutdownStep ==
  ASSUME IInv, [Next]_vars, shutdown', ~shutdown
  PROVE  /\ monitor = "expiring"
         /\ grace_period_start # None
         /\ UNCHANGED <<last_heartbeat, registering>>
<1>1. MonitorGrace
  BY DEF Next, MonitorStep, RegisterInsert, RegisterCancelsGrace, Heartbeat,
         MonitorSweep, MonitorCheck, Tick, ProcessDies, vars, instanceVars
<1> QED
  BY <1>1 DEF MonitorGrace, IInv, TypeOK

(* rpc-proxy/README.md:348: no shutdown signal while an instance whose
   registration was answered is in the registry. *)
THEOREM NoShutdownUnderInstances == Spec => NoShutdownWhileRegistered
<1>1. IInv /\ [Next]_vars => [shutdown' /\ ~shutdown => Instances \subseteq {registering}]_vars
  BY ShutdownStep DEF IInv, CancelledSinceCheck
<1> QED
  BY <1>1, Invariance, PTL DEF Spec, NoShutdownWhileRegistered
-----------------------------------------------------------------------------
(* The registry among the processes that start and end around it. *)

(* Whoever is a member, or is about to become one, and was never taken for
   dead, was heard of in time. *)
HeardInTime ==
  \A p \in processes \ (late \union unseen) :
     p \in members \/ p = registering =>
        last_heartbeat[p] # None /\ last_heartbeat[p] <= Timeout

LifecycleInv == LifecycleTypeOK /\ IInv /\ HeardInTime

(* A step of the lifecycle is to the registry a step of its own, the start of
   a new proxy process, or nothing. *)
LEMMA RegistryStep ==
  ASSUME TypeOK, [LifecycleNext]_lifecycleVars
  PROVE  [Next \/ (Renew /\ UNCHANGED processes)]_vars
<1>1. ASSUME NEW p \in processes, HealthCheck(p) \/ Spawn(p) \/ Ready(p)
      PROVE  UNCHANGED vars
  BY <1>1 DEF HealthCheck, Spawn, Ready
<1>2. ASSUME NEW p \in processes, Register(p) \/ SendHeartbeat(p)
      PROVE  Next
  BY <1>2 DEF Register, SendHeartbeat, Next
<1>3. ASSUME NEW p \in processes, Exit(p) PROVE Next
  BY <1>3 DEF Exit, Next, TypeOK
<1>4. ASSUME NEW p \in Pid, Boot(p) PROVE UNCHANGED vars
  BY <1>4 DEF Boot
<1>5. RegisterAnswered => Next
  BY DEF RegisterAnswered, Next
<1>6. Monitor \/ TimePasses => Next
  BY DEF Monitor, MonitorStep, TimePasses, Next
<1>7. Stop \/ Terminate => Renew /\ UNCHANGED processes
  BY DEF Stop, Terminate, Down
<1>8. UNCHANGED lifecycleVars => UNCHANGED vars
  BY DEF lifecycleVars
<1> QED
  BY <1>1, <1>2, <1>3, <1>4, <1>5, <1>6, <1>7, <1>8 DEF LifecycleNext

LEMMA LifecycleInit_Inv == LifecycleInit => LifecycleInv
<1> SUFFICES ASSUME LifecycleInit PROVE LifecycleInv
  OBVIOUS
<1>1. IInv
  BY InvInit DEF LifecycleInit
<1>2. Fresh
  BY DEF LifecycleInit, Init
<1>3. LifecycleTypeOK
  BY <1>1, <1>2 DEF LifecycleInit, LifecycleTypeOK, Stages, IInv
<1>4. HeardInTime
  BY <1>2 DEF LifecycleInit, HeardInTime, Fresh, Init
<1> QED
  BY <1>1, <1>3, <1>4 DEF LifecycleInv

LEMMA LifecycleStep == LifecycleInv /\ [LifecycleNext]_lifecycleVars => LifecycleInv'
<1> SUFFICES ASSUME LifecycleInv, [LifecycleNext]_lifecycleVars PROVE LifecycleInv'
  OBVIOUS
<1> USE DEF LifecycleInv
<1>r. IInv'
  <2>1. CASE [Next]_vars
    BY <2>1, InvStep
  <2>2. CASE Renew /\ UNCHANGED processes
    BY <2>2 DEF Renew, IInv, TypeOK, CancelledSinceCheck, HeartbeatAges, GraceAges
  <2> QED
    BY <2>1, <2>2, RegistryStep DEF IInv
<1>t. TypeOK /\ TypeOK'
  BY <1>r DEF IInv
<1> USE DEF LifecycleTypeOK, Stages, Enter
<1>1. ASSUME NEW p \in processes, HealthCheck(p) \/ Spawn(p) \/ Ready(p)
      PROVE  LifecycleTypeOK' /\ HeardInTime'
  BY <1>1, <1>t DEF HealthCheck, Spawn, Ready, vars, Fresh, HeardInTime, TypeOK
<1>2. ASSUME NEW p \in processes, Register(p) PROVE LifecycleTypeOK' /\ HeardInTime'
  BY <1>2, <1>t DEF Register, RegisterInsert, HeardInTime, TypeOK
<1>3. ASSUME NEW p \in processes, SendHeartbeat(p) PROVE LifecycleTypeOK' /\ HeardInTime'
  BY <1>3, <1>t DEF SendHeartbeat, Heartbeat, Instances, HeardInTime, TypeOK
<1>4. ASSUME NEW p \in processes, Exit(p) PROVE LifecycleTypeOK' /\ HeardInTime'
  BY <1>4, <1>t DEF Exit, ProcessDies, instanceVars, Fresh, HeardInTime, TypeOK
<1>5. ASSUME NEW p \in Pid, Boot(p) PROVE LifecycleTypeOK' /\ HeardInTime'
  BY <1>5, <1>t DEF Boot, vars, HeardInTime
<1>6. ASSUME RegisterAnswered PROVE LifecycleTypeOK' /\ HeardInTime'
  <2>1. registering \in Pid /\ members' = members \union {registering}
    BY <1>6, <1>t DEF RegisterAnswered, RegisterCancelsGrace, TypeOK
  <2>2. up
    BY <1>6 DEF RegisterAnswered, RegisterCancelsGrace, Fresh
  <2>3. stage' \in [Pid -> Stages]
    BY <1>6 DEF RegisterAnswered
  <2>4. LifecycleTypeOK'
    BY <1>6, <1>t, <2>1, <2>2, <2>3 DEF RegisterAnswered
  <2>5. HeardInTime'
    BY <1>6, <1>t, <2>1 DEF RegisterAnswered, RegisterCancelsGrace, HeardInTime, TypeOK
  <2> QED
    BY <2>4, <2>5
<1>7. ASSUME Monitor PROVE LifecycleTypeOK' /\ HeardInTime'
  <2>1. LifecycleTypeOK'
    BY <1>7, <1>t DEF Monitor, Instances
  <2>2. UNCHANGED <<processes, registering, members, late>> /\ unseen \subseteq unseen'
    BY <1>7 DEF Monitor, MonitorSweep, MonitorCheck, MonitorGrace, instanceVars
  <2>3. ASSUME NEW p \in processes \ (late \union unseen'), p \in members \/ p = registering
        PROVE  last_heartbeat'[p] = last_heartbeat[p]
    <3>1. last_heartbeat[p] # None /\ last_heartbeat[p] <= Timeout /\ p \in Pid
      BY <2>2, <2>3, <1>t DEF HeardInTime, TypeOK
    <3>2. ASSUME NEW seen \in ProcessChecks, MonitorSweep(seen),
                 unseen' = unseen \union (Instances \ seen)
          PROVE  last_heartbeat'[p] = last_heartbeat[p]
      BY <2>3, <3>1, <3>2 DEF MonitorSweep, Instances, IsAlive
    <3> QED
      BY <1>7, <3>2 DEF Monitor, MonitorCheck, MonitorGrace, instanceVars
  <2>4. HeardInTime'
    BY <2>2, <2>3 DEF HeardInTime
  <2> QED
    BY <2>1, <2>4
<1>8. ASSUME TimePasses PROVE LifecycleTypeOK' /\ HeardInTime'
  <2>1. LifecycleTypeOK'
    BY <1>8, <1>t DEF TimePasses, Instances
  <2>2. ASSUME NEW p \in processes' \ (late' \union unseen'), p \in members' \/ p = registering'
        PROVE  last_heartbeat'[p] # None /\ last_heartbeat'[p] <= Timeout
    <3>1. p \in processes \ (late \union unseen) /\ (p \in members \/ p = registering) /\ p \in Pid
      BY <1>8, <1>t, <2>2 DEF TimePasses, Tick, TypeOK
    <3>2. last_heartbeat[p] \in Nat /\ last_heartbeat[p] <= Timeout
      BY <3>1, <1>t DEF HeardInTime, TypeOK, HeartbeatAges
    <3>3. last_heartbeat[p] # Timeout
      BY <1>8, <2>2, <3>1, <3>2 DEF TimePasses, Instances
    <3>4. last_heartbeat'[p] = last_heartbeat[p] + 1
      BY <1>8, <3>1, <3>2 DEF TimePasses, Tick, Older
    <3> QED
      BY <3>2, <3>3, <3>4
  <2>3. HeardInTime'
    BY <2>2 DEF HeardInTime
  <2> QED
    BY <1>r, <2>1, <2>3
<1>9. ASSUME Stop \/ Terminate PROVE LifecycleTypeOK' /\ HeardInTime'
  <2>1. Down
    BY <1>9 DEF Stop, Terminate
  <2>2. Fresh'
    BY <2>1 DEF Down, Renew, Fresh
  <2>3. LifecycleTypeOK'
    BY <2>1, <2>2, <1>t DEF Down
  <2>4. registering' = None /\ members' = {} /\ processes' \subseteq Pid
    BY <2>1, <1>t DEF Down, Renew, TypeOK
  <2>5. HeardInTime'
    BY <2>4 DEF HeardInTime
  <2> QED
    BY <2>3, <2>5
<1>10. CASE UNCHANGED lifecycleVars
  <2>1. LifecycleTypeOK'
    BY <1>10, <1>t DEF lifecycleVars, vars, Fresh
  <2>2. UNCHANGED <<processes, registering, members, late, unseen, last_heartbeat>>
    BY <1>10 DEF lifecycleVars, vars
  <2>3. HeardInTime'
    BY <2>2 DEF HeardInTime
  <2> QED
    BY <1>r, <2>1, <2>3
<1> QED
  BY <1>r, <1>1, <1>2, <1>3, <1>4, <1>5, <1>6, <1>7, <1>8, <1>9, <1>10 DEF LifecycleNext

(* The invariant of the registry, its processes and its proxies. *)
THEOREM LifecycleInvariance == LifecycleSpec => []LifecycleInv
  BY LifecycleInit_Inv, LifecycleStep, PTL DEF LifecycleSpec

(* The state of the processes and of the proxies keeps its types, and no state
   of a proxy that ended is left behind for the next. *)
THEOREM LifecycleTypes == LifecycleSpec => []LifecycleTypeOK
  BY LifecycleInvariance, PTL DEF LifecycleInv

(* A process whose registration was answered, whose heartbeats arrive in time
   and which the process check has seen each time is in the registry (registry.rs:160-209, proxy.rs of edb). *)
THEOREM MembersAreRegistered == LifecycleSpec => []MembersStayRegistered
<1>1. LifecycleInv => MembersStayRegistered
  BY DEF LifecycleInv, LifecycleTypeOK, HeardInTime, MembersStayRegistered, Instances
<1> QED
  BY <1>1, LifecycleInvariance, PTL

(* Also with proxies that end and start, and with the processes' own steps in
   between, no shutdown signal is sent under a registered instance. *)
THEOREM NoShutdownUnderMembers == LifecycleSpec => NoShutdownWhileRegistered
<1>1. LifecycleInv /\ [LifecycleNext]_lifecycleVars =>
        [shutdown' /\ ~shutdown => Instances \subseteq {registering}]_vars
  <2> SUFFICES ASSUME LifecycleInv, [LifecycleNext]_lifecycleVars, shutdown', ~shutdown
               PROVE  Instances \subseteq {registering}
    OBVIOUS
  <2>1. [Next]_vars
    BY RegistryStep DEF Renew, LifecycleInv, IInv
  <2> QED
    BY <2>1, ShutdownStep DEF LifecycleInv, IInv, CancelledSinceCheck
<1> QED
  BY <1>1, LifecycleInvariance, PTL DEF LifecycleSpec, NoShutdownWhileRegistered
=============================================================================
