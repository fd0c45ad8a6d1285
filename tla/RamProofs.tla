----------------------------- MODULE RamProofs ------------------------------
(***************************************************************************)
(* The RAM cache for every set of keys and documents, every budget, every  *)
(* table of sizes and every hash: its structures agree, its counters are   *)
(* exact, and it implements the abstract cache of RamCache.                *)
(***************************************************************************)
EXTENDS RamCacheLRU, InductionTheorems, SequenceTheorems

-----------------------------------------------------------------------------
(* The inductive invariant.                                                *)

Live == {e \in Slots : entry[e] # None}

Once(q) == \A i, j \in 1..Len(q) : q[i] = q[j] => i = j

(* The queue holds each entry in use once, ... *)
QueueInv == Elements(lru) = Live /\ Once(lru)

(* ... and so do the chains. *)
ChainInv ==
  /\ \A b \in DOMAIN bucket : bucket[b] = {e \in Live : Home(entry[e].key) = b}
  /\ \A e, f \in Live : entry[e].key = entry[f].key => e = f

IInv == TypeOK /\ QueueInv /\ ChainInv /\ AccountsExact

(* The weights of the entries of memory m. *)
Costs(m) == [e \in Slots |-> Cost(m[e].data)]

-----------------------------------------------------------------------------
USE SizeAssumption, HashAssumption, BucketAssumption, BudgetAssumption,
    NoneAssumption

(* Every entry is charged with more than the overhead.                     *)
LEMMA CostType ==
  ASSUME NEW d \in Data
  PROVE  Cost(d) \in Nat /\ Cost(d) >= Overhead + 1
BY DEF Cost

(* An entry in memory has a key, an auxiliary key and data.                *)
LEMMA EntryParts ==
  ASSUME NEW r \in Entries
  PROVE  /\ r.key \in Keys /\ r.aux \in Auxs /\ r.data \in Data /\ r # None
         /\ Cost(r.data) \in Nat /\ Cost(r.data) >= Overhead + 1
<1>1. r.key \in Keys /\ r.aux \in Auxs /\ r.data \in Data
  BY DEF Entries
<1> QED
  BY <1>1, CostType

(* Weight is the sum that the lemmas of InductionTheorems are about.       *)
LEMMA WeightIsTotal ==
  ASSUME NEW m, NEW S \in SUBSET Slots, IsFiniteSet(S), \A e \in S : m[e] \in Entries
  PROVE  Weight(m, S) = SumOver(Costs(m), S) /\ Weights(Costs(m), S)
<1> DEFINE w == Costs(m)
<1>1. \A e \in S : w[e] = Cost(m[e].data) /\ w[e] \in Nat
  BY EntryParts DEF Costs
<1> HIDE DEF w
<1>2. Weights(w, S)
  BY <1>1 DEF Weights
<1> DEFINE R(f) == [s \in SUBSET S |->
                      IF s = {} THEN 0 ELSE Cost(m[Pick(s)].data) + f[s \ {Pick(s)}]]
           g == CHOOSE f : f = R(f)
<1>3. Weight(m, S) = g[S]
  BY DEF Weight, MapThenSumSet, MapThenFoldSet, Pick
<1>4. ASSUME NEW f PROVE IsSum(f, w, S) <=> f = R(f)
  <2>1. \A s \in SUBSET S : s # {} => w[Pick(s)] = Cost(m[Pick(s)].data)
    BY <1>1, PickIn
  <2> QED
    BY <2>1 DEF IsSum
<1>5. IsSum(g, w, S)
  <2>1. \E f : f = R(f)
    BY <1>2, <1>4, SumExists
  <2>2. g = R(g)
    BY <2>1
  <2> QED
    BY <1>4, <2>2
<1> HIDE DEF g
<1>6. PICK h \in [SUBSET S -> Nat] : IsSum(h, w, S) /\ SumOver(w, S) = h[S]
  BY <1>2, SumOverIsSum
<1>7. g[S] = h[S]
  BY <1>5, <1>6, SumUnique
<1> QED
  BY <1>2, <1>3, <1>6, <1>7 DEF w

(* A new entry at the end of a queue.                                      *)
LEMMA AppendElement ==
  ASSUME NEW q \in Seq(Slots), NEW e \in Slots
  PROVE  /\ Append(q, e) \in Seq(Slots) /\ Len(Append(q, e)) = Len(q) + 1
         /\ Elements(Append(q, e)) = Elements(q) \cup {e}
         /\ Once(q) /\ e \notin Elements(q) => Once(Append(q, e))
         /\ Append(q, e)[Len(q) + 1] = e
<1> DEFINE r == Append(q, e)
<1>1. /\ r \in Seq(Slots) /\ Len(r) = Len(q) + 1
      /\ \A j \in 1..Len(q) : r[j] = q[j]
      /\ r[Len(q) + 1] = e
  BY AppendProperties
<1> HIDE DEF r
<1>2. \A j : j \in 1..(Len(q) + 1) <=> j \in 1..Len(q) \/ j = Len(q) + 1
  OBVIOUS
<1>3. DOMAIN q = 1..Len(q) /\ DOMAIN r = 1..(Len(q) + 1)
  BY <1>1
<1>4. Elements(r) = Elements(q) \cup {e}
  BY <1>1, <1>2, <1>3 DEF Elements
<1>5. ASSUME Once(q), e \notin Elements(q) PROVE Once(r)
  <2>1. \A j \in 1..Len(q) : q[j] # e
    BY <1>3, <1>5 DEF Elements
  <2> QED
    BY <1>1, <1>2, <1>5, <2>1 DEF Once
<1> QED
  BY <1>1, <1>4, <1>5 DEF r

(* Taking entries off a queue leaves the others, each as often as before.  *)
LEMMA DropProperties ==
  ASSUME NEW q \in Seq(Slots), NEW S
  PROVE  /\ Drop(q, S) \in Seq(Slots)
         /\ Elements(Drop(q, S)) = Elements(q) \ S
         /\ Once(q) => Once(Drop(q, S))
<1> DEFINE N == Len(q)
           R(f) == [i \in 0..N |->
                      IF i = 0 THEN <<>>
                      ELSE IF q[i] \in S THEN f[i - 1] ELSE Append(f[i - 1], q[i])]
           rest == CHOOSE f : f = R(f)
<1>1. N \in Nat /\ \A i \in 1..N : q[i] \in Slots
  OBVIOUS
<1>2. Drop(q, S) = rest[N]
  BY DEF Drop
<1>3. \E f \in [0..N -> Seq(Slots)] : f = R(f)
  <2> DEFINE step == [i \in 1..N |-> [t \in Seq(Slots) |->
                        IF q[i] \in S THEN t ELSE Append(t, q[i])]]
  <2>1. step \in [1..N -> [Seq(Slots) -> Seq(Slots)]]
    <3>1. ASSUME NEW i \in 1..N, NEW t \in Seq(Slots)
          PROVE  (IF q[i] \in S THEN t ELSE Append(t, q[i])) \in Seq(Slots)
      BY <1>1, AppendProperties
    <3> QED
      BY <3>1
  <2>2. <<>> \in Seq(Slots)
    OBVIOUS
  <2>3. \A i \in 1..N : \A t \in Seq(Slots) :
          step[i][t] = IF q[i] \in S THEN t ELSE Append(t, q[i])
    OBVIOUS
  <2> HIDE DEF step, N
  <2>4. PICK f \in [0..N -> Seq(Slots)] :
          \A i \in 0..N : f[i] = IF i = 0 THEN <<>> ELSE step[i][f[i - 1]]
    <3> DEFINE X == Seq(Slots)  base == <<>>
    <3>1. N \in Nat /\ base \in X /\ step \in [1..N -> [X -> X]]
      BY <1>1, <2>1, <2>2
    <3> HIDE DEF X, base
    <3>2. \E f : Recursion(f, N, X, base, step)
      BY <3>1, RecursionExists
    <3> QED
      BY <3>2 DEF X, base, Recursion
  <2>5. \A i \in 0..N : i # 0 => i \in 1..N /\ f[i - 1] \in Seq(Slots)
    BY <1>1, <2>4
  <2>6. f = R(f)
    BY <2>3, <2>4, <2>5
  <2> QED
    BY <2>6
<1>4. rest = R(rest)
  BY <1>3
<1> HIDE DEF rest
<1>5. /\ rest[0] = <<>>
      /\ \A i \in 1..N : rest[i] = IF q[i] \in S THEN rest[i - 1]
                                   ELSE Append(rest[i - 1], q[i])
  <2>1. \A i \in 0..N : rest[i] = IF i = 0 THEN <<>>
                                  ELSE IF q[i] \in S THEN rest[i - 1]
                                  ELSE Append(rest[i - 1], q[i])
    BY <1>4, Zenon
  <2>2. 0 \in 0..N /\ \A i \in 1..N : i \in 0..N /\ i # 0
    BY <1>1
  <2> QED
    BY <2>1, <2>2, Zenon
<1> DEFINE Good(i) ==
             /\ rest[i] \in Seq(Slots)
             /\ Elements(rest[i]) = {q[j] : j \in 1..i} \ S
             /\ Once(q) => Once(rest[i])
           B == {i \in Nat : i <= N => Good(i)}
<1>6. 0 \in B
  <2>1. Good(0)
    BY <1>5 DEF Elements, Once
  <2> QED
    BY <2>1
<1>7. ASSUME NEW i \in B PROVE i + 1 \in B
  <2>0. i \in Nat
    OBVIOUS
  <2> SUFFICES ASSUME i + 1 <= N PROVE Good(i + 1)
    BY <2>0
  <2>1. Good(i)
    BY <1>1, <2>0
  <2>2. i + 1 \in 1..N /\ (i + 1) - 1 = i
    BY <1>1, <2>0
  <2> HIDE DEF B
  <2> DEFINE t == rest[i]  e == q[i + 1]
  <2>3. t \in Seq(Slots) /\ e \in Slots
    BY <1>1, <2>1, <2>2
  <2>4. {q[j] : j \in 1..(i + 1)} = {q[j] : j \in 1..i} \cup {e}
    <3>1. \A j : j \in 1..(i + 1) <=> j \in 1..i \/ j = i + 1
      BY <2>0
    <3> QED
      BY <3>1
  <2>5. CASE e \in S
    <3>1. rest[i + 1] = t
      BY <1>5, <2>2, <2>5
    <3> QED
      BY <2>1, <2>4, <2>5, <3>1
  <2>6. CASE e \notin S
    <3>1. rest[i + 1] = Append(t, e)
      BY <1>5, <2>2, <2>6
    <3> HIDE DEF t
    <3>2. Append(t, e) \in Seq(Slots) /\ Elements(Append(t, e)) = Elements(t) \cup {e}
      BY <2>3, AppendElement
    <3>4. Once(q) => Once(Append(t, e))
      <4> SUFFICES ASSUME Once(q) PROVE Once(Append(t, e))
        OBVIOUS
      <4>1. Once(t)
        BY <2>1 DEF t
      <4>2. \A j \in 1..i : q[j] # e
        <5>1. \A j \in 1..i : j \in 1..Len(q) /\ j # i + 1 /\ i + 1 \in 1..Len(q)
          BY <1>1, <2>0, <2>2
        <5> QED
          BY <5>1 DEF Once
      <4>3. e \notin Elements(t)
        BY <2>1, <4>2 DEF t
      <4> QED
        BY <2>3, <4>1, <4>3, AppendElement
    <3>5. Elements(t) = {q[j] : j \in 1..i} \ S
      BY <2>1 DEF t
    <3>6. Elements(Append(t, e)) = {q[j] : j \in 1..(i + 1)} \ S
      <4> HIDE DEF e
      <4> QED
        BY <2>4, <2>6, <3>2, <3>5
    <3> QED
      BY <3>1, <3>2, <3>4, <3>6
  <2> QED
    BY <2>5, <2>6
<1>8. B = Nat
  <2> HIDE DEF B
  <2>1. B \in SUBSET Nat
    BY DEF B
  <2> QED
    BY <1>6, <1>7, <2>1, NaturalsByInduction
<1>9. Good(N)
  <2>1. N \in B /\ N <= N
    <3> HIDE DEF B
    <3> QED
      BY <1>1, <1>8
  <2> HIDE DEF Good, N
  <2> QED
    BY <2>1
<1>10. Elements(q) = {q[j] : j \in 1..N}
  <2>1. DOMAIN q = 1..N
    OBVIOUS
  <2> QED
    BY <2>1 DEF Elements
<1> QED
  BY <1>2, <1>9, <1>10

(* A queue without repetitions has as many entries as elements.            *)
LEMMA QueueSize ==
  ASSUME NEW q \in Seq(Slots), Once(q)
  PROVE  IsFiniteSet(Elements(q)) /\ Cardinality(Elements(q)) = Len(q)
<1>1. DOMAIN q = 1..Len(q) /\ Len(q) \in Nat
  OBVIOUS
<1>2. q \in [1..Len(q) -> Elements(q)]
  BY <1>1 DEF Elements
<1>3. q \in Bijection(1..Len(q), Elements(q))
  BY <1>1, <1>2 DEF Bijection, Injection, Surjection, IsInjective, Once, Elements
<1>4. ExistsBijection(1..Len(q), Elements(q))
  BY <1>3 DEF ExistsBijection
<1> QED
  BY <1>1, <1>4, FS_CountingElements, FS_NatBijection

(* A queue is cut in two.                                                  *)
LEMMA CutQueue ==
  ASSUME NEW q \in Seq(Slots), Once(q), NEW n \in 0..Len(q)
  PROVE  LET x == SubSeq(q, 1, n)
             y == SubSeq(q, n + 1, Len(q))
         IN  /\ x \in Seq(Slots) /\ Once(x) /\ Len(x) = n
             /\ y \in Seq(Slots) /\ Once(y) /\ Len(y) = Len(q) - n
             /\ Elements(x) = {q[i] : i \in 1..n}
             /\ Elements(y) = Elements(q) \ Elements(x)
             /\ Elements(x) \subseteq Elements(q)
<1> DEFINE x == SubSeq(q, 1, n)
           y == SubSeq(q, n + 1, Len(q))
           N == Len(q)
<1>0. N \in Nat /\ n \in Nat /\ n <= N /\ DOMAIN q = 1..N /\ \A i \in 1..N : q[i] \in Slots
  OBVIOUS
<1>1. x \in Seq(Slots) /\ Len(x) = n /\ \A i \in 1..n : x[i] = q[i]
  <2>1. \A i \in 1..n : q[i] \in Slots
    BY <1>0
  <2>2. /\ x \in Seq(Slots) /\ Len(x) = (IF 1 <= n THEN n - 1 + 1 ELSE 0)
        /\ \A i \in 1..(n - 1 + 1) : x[i] = q[1 + i - 1]
    BY <1>0, <2>1, SubSeqProperties
  <2> HIDE DEF x
  <2> QED
    BY <1>0, <2>2
<1>2. y \in Seq(Slots) /\ Len(y) = N - n /\ \A i \in 1..(N - n) : y[i] = q[n + i]
  <2> DEFINE m == n + 1
  <2>1. m \in Int /\ N \in Int /\ m = n + 1 /\ \A i \in m..N : q[i] \in Slots
    BY <1>0
  <2> HIDE DEF m, N
  <2> DEFINE z == SubSeq(q, m, N)
  <2>2. /\ z \in Seq(Slots) /\ Len(z) = (IF m <= N THEN N - m + 1 ELSE 0)
        /\ \A i \in 1..(N - m + 1) : z[i] = q[m + i - 1]
    <3>1. z \in Seq(Slots)
      BY <2>1, SubSeqProperties
    <3>2. Len(z) = (IF m <= N THEN N - m + 1 ELSE 0)
      BY <2>1, SubSeqProperties
    <3>3. \A i \in 1..(N - m + 1) : z[i] = q[m + i - 1]
      BY <2>1, SubSeqProperties
    <3> QED
      BY <3>1, <3>2, <3>3
  <2>3. y = z
    BY DEF m, N
  <2> HIDE DEF y, z
  <2>4. N - m + 1 = N - n /\ (IF m <= N THEN N - m + 1 ELSE 0) = N - n
    BY <1>0, <2>1
  <2>5. \A i \in 1..(N - n) : m + i - 1 = n + i
    BY <1>0, <2>1
  <2> QED
    BY <2>2, <2>3, <2>4, <2>5
<1> HIDE DEF x, y, N
<1>3. DOMAIN x = 1..n /\ DOMAIN y = 1..(N - n)
  BY <1>1, <1>2
<1>4. \A i, j \in 1..N : q[i] = q[j] => i = j
  BY DEF Once, N
<1>5. Once(x)
  <2>1. \A i \in 1..n : i \in 1..N
    BY <1>0
  <2> QED
    BY <1>1, <1>4, <2>1 DEF Once
<1>6. \A i \in 1..(N - n) : n + i \in 1..N /\ n + i \notin 1..n
  BY <1>0
<1>7. Once(y)
  <2>1. \A i, j \in 1..(N - n) : n + i = n + j => i = j
    BY <1>0
  <2>2. ASSUME NEW i \in 1..(N - n), NEW j \in 1..(N - n), y[i] = y[j] PROVE i = j
    <3>1. q[n + i] = q[n + j]
      BY <1>2, <2>2
    <3>2. n + i = n + j
      BY <1>4, <1>6, <3>1
    <3> QED
      BY <2>1, <3>2
  <2> QED
    BY <1>2, <2>2 DEF Once
<1>8. Elements(x) = {q[i] : i \in 1..n}
  BY <1>1, <1>3 DEF Elements
<1>9. \A i \in 1..n : i \in 1..N
  BY <1>0
<1>10. \A i \in 1..N : i \notin 1..n => i - n \in 1..(N - n) /\ n + (i - n) = i
  BY <1>0
<1>11. Elements(y) = Elements(q) \ Elements(x)
  <2>1. ASSUME NEW i \in 1..(N - n) PROVE y[i] \in Elements(q) \ Elements(x)
    <3>1. y[i] = q[n + i] /\ n + i \in 1..N /\ n + i \notin 1..n
      BY <1>2, <1>6
    <3>2. q[n + i] \in Elements(q)
      BY <1>0, <3>1 DEF Elements
    <3>3. \A j \in 1..n : q[j] # q[n + i]
      BY <1>4, <1>9, <3>1
    <3> QED
      BY <1>8, <3>1, <3>2, <3>3
  <2>2. ASSUME NEW e \in Elements(q) \ Elements(x) PROVE \E i \in 1..(N - n) : y[i] = e
    <3>1. PICK i \in 1..N : q[i] = e
      BY <1>0 DEF Elements
    <3>2. i \notin 1..n
      BY <1>8, <3>1
    <3>3. y[i - n] = q[n + (i - n)]
      BY <1>2, <1>10, <3>2
    <3> QED
      BY <1>10, <3>1, <3>2, <3>3
  <2>3. Elements(y) = {y[i] : i \in 1..(N - n)}
    BY <1>3 DEF Elements
  <2> QED
    BY <2>1, <2>2, <2>3
<1>12. Elements(x) \subseteq Elements(q)
  BY <1>0, <1>8, <1>9 DEF Elements
<1> QED
  BY <1>1, <1>2, <1>5, <1>7, <1>8, <1>11, <1>12 DEF x, y, N

-----------------------------------------------------------------------------
(* States of the cache.                                                    *)

(* A key has a bucket in a table of each size.                             *)
LEMMA HomeType ==
  ASSUME NEW k \in Keys, NEW i \in DOMAIN BucketSizes
  PROVE  HomeIn(i, k) \in Buckets(i) /\ BucketSizes[i] \in Nat \ {0}
<1>1. BucketSizes[i] \in Nat \ {0} /\ Slice[k] \in Nat
  OBVIOUS
<1>2. \A m \in Nat : \A z \in Nat \ {0} : m % z \in 0..(z - 1)
  OBVIOUS
<1> QED
  BY <1>1, <1>2 DEF HomeIn, Buckets

(* The entries in use are finitely many, and charged with all the bytes.   *)
LEMMA LiveFacts ==
  ASSUME IInv
  PROVE  /\ IsFiniteSet(Live) /\ Live \in SUBSET Slots /\ Cardinality(Live) = Len(lru)
         /\ \A e \in Live : entry[e] \in Entries
         /\ bytes = SumOver(Costs(entry), Live) /\ Weights(Costs(entry), Live)
         /\ (Overhead + 1) * Cardinality(Live) <= bytes
<1>1. \A e \in Live : entry[e] \in Entries
  BY DEF IInv, TypeOK, Live
<1>2. IsFiniteSet(Live) /\ Live \in SUBSET Slots /\ Cardinality(Live) = Len(lru)
  BY QueueSize DEF IInv, TypeOK, QueueInv, Live
<1>3. bytes = Weight(entry, Live)
  BY DEF IInv, AccountsExact, QueueInv
<1>4. bytes = SumOver(Costs(entry), Live) /\ Weights(Costs(entry), Live)
  BY <1>1, <1>2, <1>3, WeightIsTotal
<1>5. \A e \in Live : Costs(entry)[e] >= Overhead + 1
  BY <1>1, <1>2, EntryParts DEF Costs
<1>6. Overhead + 1 \in Nat
  OBVIOUS
<1>7. (Overhead + 1) * Cardinality(Live) <= SumOver(Costs(entry), Live)
  BY <1>2, <1>4, <1>5, <1>6, SumOverBound
<1> QED
  BY <1>1, <1>2, <1>4, <1>7

(* There is always memory for one more entry.                              *)
LEMMA FreeSlot ==
  ASSUME IInv
  PROVE  \E e \in Slots : entry[e] = None
<1> SUFFICES ASSUME Live = Slots PROVE FALSE
  BY DEF Live
<1>1. (Overhead + 1) * Cardinality(Slots) <= bytes
  BY LiveFacts
<1>2. bytes \in Nat /\ maxBytes \in Budgets /\ maxBytes \in Nat /\ bytes <= maxBytes
  BY DEF IInv, TypeOK, AccountsExact
<1>3. maxBytes < (Overhead + 1) * Cardinality(Slots)
  BY <1>2, MemoryAssumption
<1>4. (Overhead + 1) * Cardinality(Slots) \in Nat
  BY MemoryAssumption, FS_CardinalityType
<1> QED
  BY <1>1, <1>2, <1>3, <1>4

(* The chain of a key's bucket holds every entry of the key.               *)
LEMMA OfKeyIs ==
  ASSUME IInv, NEW k \in Keys
  PROVE  OfKey(k) = {e \in Live : entry[e].key = k}
<1>1. Home(k) \in DOMAIN bucket
  BY HomeType DEF IInv, TypeOK, Home
<1>2. bucket[Home(k)] = {e \in Live : Home(entry[e].key) = Home(k)}
  BY <1>1 DEF IInv, ChainInv
<1> QED
  BY <1>2 DEF OfKey

(* Moving an entry to the end of the queue keeps the elements.             *)
LEMMA TouchedQueue ==
  ASSUME IInv, NEW e \in Live
  PROVE  /\ Touched(e) \in Seq(Slots) /\ Elements(Touched(e)) = Live
         /\ Once(Touched(e)) /\ Len(Touched(e)) = Len(lru)
<1> DEFINE q == Drop(lru, {e})
<1>1. lru \in Seq(Slots) /\ e \in Slots /\ Elements(lru) = Live /\ Once(lru)
  BY DEF IInv, TypeOK, QueueInv, Live
<1>2. q \in Seq(Slots) /\ Elements(q) = Live \ {e} /\ Once(q)
  BY <1>1, DropProperties
<1>3. e \notin Elements(q)
  BY <1>2
<1>4. Touched(e) = Append(q, e)
  BY DEF Touched
<1> HIDE DEF q
<1>5. /\ Touched(e) \in Seq(Slots) /\ Elements(Touched(e)) = (Live \ {e}) \cup {e}
      /\ Once(Touched(e))
  BY <1>1, <1>2, <1>3, <1>4, AppendElement
<1>6. (Live \ {e}) \cup {e} = Live
  OBVIOUS
<1>7. Len(Touched(e)) = Cardinality(Live) /\ Len(lru) = Cardinality(Live)
  BY <1>1, <1>5, <1>6, QueueSize
<1> QED
  BY <1>5, <1>6, <1>7

-----------------------------------------------------------------------------
(* The cache is empty after init.                                          *)
LEMMA InitIInv == Init => IInv
<1> SUFFICES ASSUME Init PROVE IInv
  OBVIOUS
<1>1. 1 \in DOMAIN BucketSizes /\ BucketSizes[1] \in Nat
  OBVIOUS
<1>2. Live = {}
  BY DEF Init, Live
<1>3. Elements(lru) = {} /\ Once(lru) /\ Len(lru) = 0 /\ lru \in Seq(Slots)
  BY DEF Init, Elements, Once
<1>4. TypeOK
  <2>1. /\ maxBytes \in Budgets /\ bytes \in Nat /\ objects \in Nat
        /\ ibuckets \in DOMAIN BucketSizes
        /\ entry \in [Slots -> Entries \cup {None}] /\ answer = None
    BY <1>1 DEF Init
  <2>2. seen \in [Buckets(ibuckets) -> Nat] /\ bucket \in [Buckets(ibuckets) -> SUBSET Slots]
    BY DEF Init, FreshFilter
  <2>3. useSeen \in BOOLEAN
    BY DEF Init
  <2> QED
    BY <1>3, <2>1, <2>2, <2>3 DEF TypeOK
<1>5. QueueInv /\ ChainInv
  BY <1>2, <1>3 DEF QueueInv, ChainInv, Init
<1>6. AccountsExact
  <2>1. Weight(entry, {}) = 0
    <3>1. Weight(entry, {}) = SumOver(Costs(entry), {})
      BY FS_EmptySet, WeightIsTotal
    <3> QED
      BY <3>1, SumOverEmpty
  <2>2. maxBytes \in Nat /\ bytes = 0 /\ objects = 0
    BY DEF Init
  <2> QED
    BY <1>3, <2>1, <2>2 DEF AccountsExact
<1> QED
  BY <1>4, <1>5, <1>6 DEF IInv

(* A step that touches the queue at most, or the filter, or an answer.     *)
LEMMA QuietStep ==
  ASSUME IInv, UNCHANGED <<maxBytes, useSeen, bytes, objects, ibuckets, bucket, entry>>,
         lru' = lru \/ \E e \in Live : lru' = Touched(e),
         seen' \in [Buckets(ibuckets) -> Nat],
         answer' \in [key : Keys, aux : Auxs, data : Data \cup {None}] \cup {None}
  PROVE  IInv'
<1>1. lru' \in Seq(Slots) /\ Elements(lru') = Live /\ Once(lru') /\ Len(lru') = Len(lru)
  BY TouchedQueue DEF IInv, TypeOK, QueueInv
<1>2. Live' = Live
  BY DEF Live
<1>3. TypeOK'
  BY <1>1 DEF IInv, TypeOK, Buckets
<1>4. QueueInv'
  BY <1>1, <1>2 DEF QueueInv, Elements, Once
<1>5. ChainInv'
  BY <1>2 DEF IInv, ChainInv, Home, HomeIn
<1>6. AccountsExact'
  <2>1. Elements(lru') = Elements(lru) /\ Len(lru') = Len(lru)
    BY <1>1 DEF IInv, QueueInv
  <2>2. Weight(entry', Elements(lru')) = Weight(entry, Elements(lru))
    BY <2>1
  <2> QED
    BY <2>1, <2>2 DEF IInv, AccountsExact
<1> QED
  BY <1>3, <1>4, <1>5, <1>6 DEF IInv

(* get, and a put that declines the document or has it.                    *)
LEMMA GetStep ==
  ASSUME IInv, NEW k \in Keys, NEW a \in Auxs,
         GetHit(k, a) \/ GetMiss(k, a) \/ PutUnseen(k) \/ PutAgain(k, a)
  PROVE  IInv'
<1>1. \A e \in Match(k, a) : e \in Live /\ entry[e].data \in Data
  BY OfKeyIs, LiveFacts, EntryParts DEF Match
<1>2. UNCHANGED <<maxBytes, useSeen, bytes, objects, ibuckets, bucket, entry>>
  BY DEF GetHit, GetMiss, PutUnseen, PutAgain
<1>3. lru' = lru \/ \E e \in Live : lru' = Touched(e)
  BY <1>1 DEF GetHit, GetMiss, PutUnseen, PutAgain
<1>4. seen' \in [Buckets(ibuckets) -> Nat]
  <2>1. Tag(k) \in Nat
    <3>1. Slice[k] \in Nat
      OBVIOUS
    <3> QED
      BY <3>1, QuotientNatural DEF Tag
  <2> QED
    BY <2>1 DEF GetHit, GetMiss, PutUnseen, PutAgain, IInv, TypeOK
<1>5. answer' \in [key : Keys, aux : Auxs, data : Data \cup {None}] \cup {None}
  BY <1>1 DEF GetHit, GetMiss, PutUnseen, PutAgain, Reply
<1> QED
  BY <1>2, <1>3, <1>4, <1>5, QuietStep

(* fixup changes the auxiliary key of an entry, nothing that is counted.   *)
LEMMA FixupStep ==
  ASSUME IInv, NEW k \in Keys, NEW a \in Auxs, NEW b \in Auxs, Fixup(k, a, b)
  PROVE  IInv'
<1>1. PICK e \in Match(k, a) : entry' = [entry EXCEPT ![e].aux = b]
  BY DEF Fixup
<1>2. e \in Live /\ e \in Slots /\ entry[e] \in Entries
  BY OfKeyIs, LiveFacts DEF Match
<1>3. /\ entry \in [Slots -> Entries \cup {None}]
      /\ entry'[e] = [entry[e] EXCEPT !.aux = b]
      /\ \A f \in Slots : f # e => entry'[f] = entry[f]
  BY <1>1, <1>2 DEF IInv, TypeOK
<1>4. entry'[e] \in Entries /\ entry'[e].key = entry[e].key /\ entry'[e].data = entry[e].data
  BY <1>2, <1>3 DEF Entries
<1>5. entry' \in [Slots -> Entries \cup {None}]
  BY <1>1, <1>2, <1>3, <1>4
<1>6. Live' = Live
  BY <1>2, <1>3, <1>4 DEF Live
<1>7. \A f \in Live : entry'[f] \in Entries /\ entry'[f].key = entry[f].key
                       /\ entry'[f].data = entry[f].data
  BY <1>3, <1>4, LiveFacts
<1>8. Weight(entry', Live) = Weight(entry, Live)
  <2>1. /\ Weight(entry', Live) = SumOver(Costs(entry'), Live)
        /\ Weight(entry, Live) = SumOver(Costs(entry), Live)
        /\ Weights(Costs(entry), Live)
    BY <1>7, LiveFacts, WeightIsTotal
  <2>2. \A f \in Live : Costs(entry)[f] = Costs(entry')[f]
    BY <1>7, LiveFacts DEF Costs
  <2> QED
    BY <2>1, <2>2, LiveFacts, SumOverSame
<1>9. UNCHANGED <<maxBytes, useSeen, bytes, objects, ibuckets, seen, bucket, lru>> /\ answer' = None
  BY DEF Fixup
<1>10. TypeOK'
  <2>1. TypeOK
    BY DEF IInv
  <2> QED
    BY <1>5, <1>9, <2>1 DEF TypeOK, Buckets
<1>11. QueueInv'
  BY <1>6, <1>9 DEF IInv, QueueInv
<1>12. ChainInv'
  BY <1>6, <1>7, <1>9 DEF IInv, ChainInv, Home, HomeIn
<1>13. AccountsExact'
  BY <1>8, <1>9 DEF IInv, AccountsExact, QueueInv
<1> QED
  BY <1>10, <1>11, <1>12, <1>13 DEF IInv

-----------------------------------------------------------------------------
(* put of a new document.                                                  *)

New == CHOOSE e \in Slots : entry[e] = None
Content(k, a, d) == [entry EXCEPT ![New] = [key |-> k, aux |-> a, data |-> d]]
Queue(k) == Append(Drop(lru, Stale(k)), New)
Before(k, a, d) == bytes - Weight(Content(k, a, d), Stale(k)) + Cost(d)
Count(k, a, d) == Evictions(Content(k, a, d), Queue(k), Before(k, a, d))
Evicted(k, a, d) == Elements(SubSeq(Queue(k), 1, Count(k, a, d)))
Gone(k, a, d) == Stale(k) \cup Evicted(k, a, d)
Memory(k, a, d) ==
  [e \in Slots |-> IF e \in Gone(k, a, d) THEN None ELSE Content(k, a, d)[e]]
Chains(k, a, d) ==
  [b \in DOMAIN bucket |->
     (bucket[b] \cup (IF b = Home(k) THEN {New} ELSE {})) \ Gone(k, a, d)]
Number(k, a, d) == objects - Cardinality(Stale(k)) + 1 - Count(k, a, d)

(* The memory while put is under way: the new entry takes a free slot.     *)
LEMMA PutContent ==
  ASSUME IInv, NEW k \in Keys, NEW a \in Auxs, NEW d \in Data
  PROVE  /\ New \in Slots /\ New \notin Live
         /\ Content(k, a, d) \in [Slots -> Entries \cup {None}]
         /\ Content(k, a, d)[New] = [key |-> k, aux |-> a, data |-> d]
         /\ Content(k, a, d)[New] \in Entries
         /\ \A e \in Slots : e # New => Content(k, a, d)[e] = entry[e]
         /\ \A e \in Live \cup {New} : Content(k, a, d)[e] \in Entries
<1>1. New \in Slots /\ entry[New] = None
  BY FreeSlot DEF New
<1>2. entry \in [Slots -> Entries \cup {None}]
  BY DEF IInv, TypeOK
<1>3. [key |-> k, aux |-> a, data |-> d] \in Entries
  BY DEF Entries
<1> QED
  BY <1>1, <1>2, <1>3, LiveFacts DEF Content, Live

(* The queue once the stale entries are off and the new one is on it.      *)
LEMMA PutQueue ==
  ASSUME IInv, NEW k \in Keys, NEW a \in Auxs, NEW d \in Data
  PROVE  /\ Stale(k) = {e \in Live : entry[e].key = k}
         /\ Queue(k) \in Seq(Slots) /\ Once(Queue(k))
         /\ Elements(Queue(k)) = (Live \ Stale(k)) \cup {New}
         /\ Len(Queue(k)) >= 1 /\ Queue(k)[Len(Queue(k))] = New
         /\ Len(Queue(k)) = objects - Cardinality(Stale(k)) + 1
         /\ IsFiniteSet(Stale(k)) /\ Cardinality(Stale(k)) \in Nat
         /\ IsFiniteSet(Elements(Queue(k)))
<1> DEFINE q == Drop(lru, Stale(k))
<1>1. Stale(k) = {e \in Live : entry[e].key = k}
  BY OfKeyIs DEF Stale
<1>2. lru \in Seq(Slots) /\ Elements(lru) = Live /\ Once(lru) /\ New \in Slots /\ New \notin Live
  BY PutContent DEF IInv, TypeOK, QueueInv
<1>3. q \in Seq(Slots) /\ Elements(q) = Live \ Stale(k) /\ Once(q)
  BY <1>2, DropProperties
<1>4. Queue(k) = Append(q, New)
  BY DEF Queue
<1> HIDE DEF q
<1>5. /\ Queue(k) \in Seq(Slots) /\ Once(Queue(k)) /\ Len(Queue(k)) = Len(q) + 1
      /\ Elements(Queue(k)) = (Live \ Stale(k)) \cup {New}
      /\ Queue(k)[Len(q) + 1] = New
  BY <1>2, <1>3, <1>4, AppendElement
<1>6. IsFiniteSet(Stale(k)) /\ Cardinality(Stale(k)) \in Nat
  BY <1>1, LiveFacts, FS_Subset, FS_CardinalityType
<1>7. Len(q) = objects - Cardinality(Stale(k)) /\ Len(q) \in Nat
  <2>1. Len(q) = Cardinality(Live \ Stale(k)) /\ Len(q) \in Nat
    <3>1. Cardinality(Elements(q)) = Len(q)
      BY <1>3, QueueSize
    <3>2. Len(q) \in Nat
      BY <1>3
    <3> QED
      BY <1>3, <3>1, <3>2
  <2>2. (Live \ Stale(k)) \cup Stale(k) = Live /\ (Live \ Stale(k)) \cap Stale(k) = {}
    BY <1>1
  <2>3. IsFiniteSet(Live \ Stale(k))
    BY <1>3, QueueSize
  <2>4. Cardinality(Live) = Cardinality(Live \ Stale(k)) + Cardinality(Stale(k)) - 0
    BY <1>6, <2>2, <2>3, FS_Union, FS_EmptySet
  <2>5. objects = Cardinality(Live)
    BY LiveFacts DEF IInv, AccountsExact
  <2> QED
    BY <1>6, <2>1, <2>4, <2>5
<1>8. IsFiniteSet(Elements(Queue(k)))
  BY <1>5, QueueSize
<1> QED
  BY <1>1, <1>5, <1>6, <1>7, <1>8

(* What put charges before it evicts is the weight of that queue.          *)
LEMMA PutWeight ==
  ASSUME IInv, NEW k \in Keys, NEW a \in Auxs, NEW d \in Data
  PROVE  LET w == Costs(Content(k, a, d)) IN
           /\ Weights(w, Elements(Queue(k))) /\ w[New] = Cost(d)
           /\ Before(k, a, d) = SumOver(w, Elements(Queue(k)))
           /\ Before(k, a, d) \in Nat
<1> DEFINE w == Costs(Content(k, a, d))
           m == Content(k, a, d)
           S == Stale(k)
           E == Elements(Queue(k))
<1>1. /\ New \in Slots /\ New \notin Live /\ m[New].data = d
      /\ \A e \in Slots : e # New => m[e] = entry[e]
      /\ \A e \in Live \cup {New} : m[e] \in Entries
  <2>1. m[New] = [key |-> k, aux |-> a, data |-> d]
    BY PutContent
  <2>2. m[New].data = d
    BY <2>1
  <2>3. /\ New \in Slots /\ New \notin Live
        /\ \A e \in Slots : e # New => m[e] = entry[e]
        /\ \A e \in Live \cup {New} : m[e] \in Entries
    <3>1. New \in Slots /\ New \notin Live
      BY PutContent
    <3>2. ASSUME NEW e \in Slots, e # New PROVE m[e] = entry[e]
      BY <3>2 DEF Content, IInv, TypeOK
    <3>3. \A e \in Live \cup {New} : m[e] \in Entries
      BY PutContent
    <3> QED
      BY <3>1, <3>2, <3>3
  <2> HIDE DEF m
  <2> QED
    BY <2>2, <2>3
<1>2. /\ S \in SUBSET Live /\ E = (Live \ S) \cup {New} /\ IsFiniteSet(E) /\ IsFiniteSet(S)
  BY PutQueue
<1>3. Live \in SUBSET Slots /\ IsFiniteSet(Live)
  BY LiveFacts
<1> HIDE DEF m, S, E
<1>4. Weight(m, S) = SumOver(w, S) /\ Weights(w, S)
  BY <1>1, <1>2, <1>3, WeightIsTotal DEF m
<1>5. w[New] = Cost(d) /\ Cost(d) \in Nat
  BY <1>1, CostType DEF Costs, m
<1> HIDE DEF w
<1>6. \A e \in Live : Costs(entry)[e] = w[e]
  BY <1>1, <1>3 DEF Costs, w, m
<1>7. bytes = SumOver(w, Live) /\ Weights(w, Live)
  <2>1. Weights(Costs(entry), Live) /\ bytes = SumOver(Costs(entry), Live)
    BY LiveFacts
  <2> QED
    BY <1>3, <1>6, <2>1, SumOverSame DEF Weights
<1>8. IsFiniteSet(Live \ S) /\ Weights(w, Live \ S) /\ New \notin Live \ S
  BY <1>1, <1>3, <1>7, FS_Subset DEF Weights
<1>9. SumOver(w, Live) = SumOver(w, Live \ S) + SumOver(w, S) /\ SumOver(w, Live \ S) \in Nat
        /\ SumOver(w, S) \in Nat
  <2>1. (Live \ S) \cup S = Live /\ (Live \ S) \cap S = {}
    BY <1>2
  <2> QED
    BY <1>2, <1>7, <1>8, <2>1, SumOverUnion
<1>10. Weights(w, (Live \ S) \cup {New})
  BY <1>5, <1>8 DEF Weights
<1>11. SumOver(w, (Live \ S) \cup {New}) = w[New] + SumOver(w, Live \ S)
  BY <1>8, <1>10, SumOverAdd
<1>12. Before(k, a, d) = bytes - Weight(m, S) + Cost(d)
  BY DEF Before, m, S
<1>13. Before(k, a, d) = SumOver(w, E) /\ Before(k, a, d) \in Nat
  BY <1>2, <1>4, <1>5, <1>7, <1>9, <1>11, <1>12
<1> QED
  BY <1>2, <1>5, <1>10, <1>13 DEF w, E

(* Eviction takes no more entries than it must, and enough: it stops as    *)
(* soon as the rest fits, or when the queue is empty.                      *)
LEMMA PutEvicts ==
  ASSUME IInv, NEW k \in Keys, NEW a \in Auxs, NEW d \in Data
  PROVE  LET w == Costs(Content(k, a, d))
             q == Queue(k)
             n == Count(k, a, d)
             Front(i) == Elements(SubSeq(q, 1, i))
         IN  /\ n \in 0..Len(q)
             /\ n = Len(q) \/ Before(k, a, d) - SumOver(w, Front(n)) <= maxBytes
             /\ \A i \in 0..Len(q) : i < n => Before(k, a, d) - SumOver(w, Front(i)) > maxBytes
<1> DEFINE w == Costs(Content(k, a, d))
           m == Content(k, a, d)
           q == Queue(k)
           b == Before(k, a, d)
           n == Count(k, a, d)
           Front(i) == Elements(SubSeq(q, 1, i))
           A == {i \in 0..Len(q) : i = Len(q) \/ b - Weight(m, Front(i)) <= maxBytes}
<1>1. q \in Seq(Slots) /\ Once(q) /\ Elements(q) = (Live \ Stale(k)) \cup {New}
  BY PutQueue
<1>2. Len(q) \in Nat
  BY <1>1
<1>3. \A e \in Elements(q) : m[e] \in Entries
  BY <1>1, PutContent
<1>4. \A e \in Elements(q) : e \in Slots
  BY <1>1, LiveFacts, PutContent
<1>5. n = Min(A)
  BY DEF Count, Evictions
<1>6. b \in Nat /\ Weights(w, Elements(q)) /\ IsFiniteSet(Elements(q)) /\ maxBytes \in Nat
  BY PutWeight, PutQueue DEF IInv, TypeOK
<1>7. ASSUME NEW i \in 0..Len(q)
      PROVE  Weight(m, Front(i)) = SumOver(w, Front(i)) /\ SumOver(w, Front(i)) \in Nat
  <2>1. Front(i) \subseteq Elements(q)
    BY <1>1, CutQueue
  <2>2. IsFiniteSet(Front(i))
    BY <1>6, <2>1, FS_Subset
  <2> HIDE DEF Front, q
  <2>3. Front(i) \in SUBSET Slots /\ \A e \in Front(i) : m[e] \in Entries
    BY <1>3, <1>4, <2>1
  <2>4. Weight(m, Front(i)) = SumOver(w, Front(i)) /\ Weights(w, Front(i))
    BY <2>2, <2>3, WeightIsTotal
  <2> HIDE DEF w, m
  <2> QED
    BY <2>2, <2>4, SumOverSame
<1> HIDE DEF w, m, b, Front, q
<1>8. A \in SUBSET Nat /\ A # {}
  <2>1. Len(q) \in A
    BY <1>2
  <2> QED
    BY <2>1
<1>9. \E x \in A : \A y \in A : x <= y
  <2> HIDE DEF A
  <2> QED
    BY <1>8, LeastNatural
<1>10. n \in A /\ \A y \in A : n <= y
  <2> HIDE DEF A, n
  <2> QED
    BY <1>5, <1>9 DEF Min
<1> HIDE DEF n
<1>11. n \in 0..Len(q) /\ (n = Len(q) \/ b - SumOver(w, Front(n)) <= maxBytes)
  BY <1>7, <1>10
<1>12. ASSUME NEW i \in 0..Len(q), i < n PROVE b - SumOver(w, Front(i)) > maxBytes
  <2>1. i \notin A
    <3> HIDE DEF A
    <3> QED
      BY <1>2, <1>10, <1>11, <1>12
  <2>2. ~(b - Weight(m, Front(i)) <= maxBytes)
    BY <2>1
  <2>3. Weight(m, Front(i)) = SumOver(w, Front(i)) /\ SumOver(w, Front(i)) \in Nat
    BY <1>7
  <2> QED
    BY <1>6, <2>2, <2>3
<1> QED
  BY <1>11, <1>12 DEF w, q, n, b, Front

(* What put does, in the terms of these lemmas.                            *)
LEMMA PutUnfolded ==
  ASSUME NEW k, NEW a, NEW d, PutNew(k, a, d)
  PROVE  /\ Match(k, a) = {} /\ maxBytes > 0
         /\ lru' = SubSeq(Queue(k), Count(k, a, d) + 1, Len(Queue(k)))
         /\ bytes' = Before(k, a, d) - Weight(Content(k, a, d), Evicted(k, a, d))
         /\ objects' = Number(k, a, d)
         /\ entry' = Memory(k, a, d)
         /\ \/ /\ Number(k, a, d) > BucketSizes[ibuckets]
               /\ ibuckets' = ibuckets + 1
               /\ bucket' = Rehash(ibuckets + 1, Content(k, a, d),
                                   UNION {Chains(k, a, d)[b] : b \in DOMAIN Chains(k, a, d)})
               /\ seen' = FreshFilter(ibuckets + 1)
            \/ bucket' = Chains(k, a, d) /\ UNCHANGED <<ibuckets, seen>>
         /\ answer' = None
         /\ UNCHANGED <<maxBytes, useSeen>>
BY DEF PutNew, New, Content, Queue, Before, Count, Evicted, Gone, Memory, Chains, Number

(* The state that put leaves: the queue without its front, within budget.  *)
LEMMA PutAfter ==
  ASSUME IInv, NEW k \in Keys, NEW a \in Auxs, NEW d \in Data, PutNew(k, a, d)
  PROVE  /\ Evicted(k, a, d) \subseteq Elements(Queue(k))
         /\ Live' = Elements(Queue(k)) \ Evicted(k, a, d) /\ IsFiniteSet(Live')
         /\ lru' \in Seq(Slots) /\ Once(lru') /\ Elements(lru') = Live'
         /\ objects' = Len(lru') /\ objects' \in Nat
         /\ \A e \in Live' : entry'[e] = Content(k, a, d)[e] /\ entry'[e] \in Entries
         /\ entry' \in [Slots -> Entries \cup {None}]
         /\ bytes' = SumOver(Costs(entry'), Live') /\ bytes' \in Nat /\ bytes' <= maxBytes
         /\ Weights(Costs(entry'), Live')
<1> DEFINE m == Content(k, a, d)
           q == Queue(k)
           n == Count(k, a, d)
           X == Evicted(k, a, d)
           S == Stale(k)
           E == Elements(q)
           w == Costs(m)
<1>1. /\ q \in Seq(Slots) /\ Once(q) /\ E = (Live \ S) \cup {New} /\ IsFiniteSet(E)
      /\ S \subseteq Live /\ Len(q) = objects - Cardinality(S) + 1 /\ Len(q) \in Nat
      /\ Cardinality(S) \in Nat /\ objects \in Nat
  <2>1. S \subseteq Live
    BY PutQueue
  <2>2. objects \in Nat
    BY DEF IInv, TypeOK
  <2>3. q \in Seq(Slots)
    BY PutQueue
  <2>4. Len(q) \in Nat
    BY <2>3
  <2> QED
    BY <2>1, <2>2, <2>4, PutQueue
<1>2. n \in 0..Len(q) /\ X = Elements(SubSeq(q, 1, n))
  BY PutEvicts DEF Evicted
<1>3. /\ lru' = SubSeq(q, n + 1, Len(q))
      /\ objects' = objects - Cardinality(S) + 1 - n
      /\ entry' = [e \in Slots |-> IF e \in S \cup X THEN None ELSE m[e]]
      /\ bytes' = Before(k, a, d) - Weight(m, X)
      /\ maxBytes' = maxBytes
  <2>1. lru' = SubSeq(q, n + 1, Len(q)) /\ objects' = objects - Cardinality(S) + 1 - n
    BY PutUnfolded DEF Number
  <2>2. entry' = [e \in Slots |-> IF e \in S \cup X THEN None ELSE m[e]]
    <3>1. entry' = Memory(k, a, d)
      BY PutUnfolded
    <3> QED
      BY <3>1 DEF Memory, Gone
  <2>3. bytes' = Before(k, a, d) - Weight(m, X) /\ maxBytes' = maxBytes
    BY PutUnfolded
  <2> HIDE DEF q, n, S, X, m
  <2> QED
    BY <2>1, <2>2, <2>3
<1>4. m \in [Slots -> Entries \cup {None}] /\ New \in Slots /\ New \notin Live
  BY PutContent
<1>5. \A e \in E : m[e] \in Entries
  BY <1>1, PutContent
<1>6. \A e \in Slots : m[e] # None <=> e \in Live \cup {New}
  <2>1. ASSUME NEW e \in Slots, e # New PROVE m[e] = entry[e]
    BY <2>1 DEF Content, IInv, TypeOK
  <2>2. m[New] \in Entries
    BY PutContent
  <2> HIDE DEF m
  <2> QED
    BY <1>4, <2>1, <2>2 DEF Live
<1>7. Before(k, a, d) = SumOver(w, E) /\ Weights(w, E) /\ Before(k, a, d) \in Nat
  BY PutWeight
<1>8. n = Len(q) \/ Before(k, a, d) - SumOver(w, X) <= maxBytes
  BY <1>2, PutEvicts
<1>9. maxBytes \in Nat /\ Live \subseteq Slots
  BY DEF IInv, TypeOK, Live
<1> HIDE DEF m, q, n, X, S, w
<1>10. /\ lru' \in Seq(Slots) /\ Once(lru') /\ Len(lru') = Len(q) - n
       /\ Elements(lru') = E \ X /\ X \subseteq E
       /\ X = {q[i] : i \in 1..n}
  BY <1>1, <1>2, <1>3, CutQueue
<1> HIDE DEF E
<1>11. Live' = E \ X
  <2>1. \A e \in Slots : entry'[e] # None <=> e \in (Live \cup {New}) /\ e \notin S \cup X
    BY <1>3, <1>6
  <2>2. E \subseteq Slots
    BY <1>1, <1>4, <1>9
  <2>3. Live' = {e \in Slots : entry'[e] # None}
    BY DEF Live
  <2> QED
    BY <1>1, <1>4, <2>1, <2>2, <2>3
<1>12. \A e \in Live' : entry'[e] = m[e] /\ entry'[e] \in Entries
  BY <1>1, <1>3, <1>4, <1>5, <1>9, <1>11
<1>13. entry' \in [Slots -> Entries \cup {None}]
  BY <1>3, <1>4
<1>14. objects' = Len(lru') /\ objects' \in Nat
  <2>1. n \in Nat /\ n <= Len(q)
    BY <1>1, <1>2
  <2> DEFINE c == Cardinality(S)  l == Len(q)
  <2>2. /\ l = objects - c + 1 /\ l \in Nat /\ c \in Nat /\ objects \in Nat
        /\ objects' = objects - c + 1 - n /\ Len(lru') = l - n /\ n <= l
    BY <1>1, <1>3, <1>10, <2>1
  <2> HIDE DEF c, l
  <2> QED
    BY <2>1, <2>2
<1>15. /\ IsFiniteSet(X) /\ IsFiniteSet(E \ X) /\ Weights(w, X) /\ Weights(w, E \ X)
       /\ (E \ X) \cup X = E /\ (E \ X) \cap X = {}
  BY <1>1, <1>7, <1>10, FS_Subset DEF Weights
<1>16. /\ SumOver(w, E) = SumOver(w, E \ X) + SumOver(w, X)
       /\ SumOver(w, E \ X) \in Nat /\ SumOver(w, X) \in Nat
  BY <1>7, <1>15, SumOverUnion
<1>17. Weight(m, X) = SumOver(w, X)
  <2>1. X \in SUBSET Slots /\ \A e \in X : m[e] \in Entries
    BY <1>1, <1>4, <1>5, <1>9, <1>10
  <2> QED
    BY <1>15, <2>1, WeightIsTotal DEF w
<1>18. bytes' = SumOver(w, Live') /\ bytes' \in Nat
  BY <1>3, <1>7, <1>11, <1>16, <1>17
<1>19. bytes' <= maxBytes
  <2>1. CASE n = Len(q)
    <3>1. X = E
      <4>1. E = {q[i] : i \in 1..Len(q)}
        BY <1>1 DEF E, Elements
      <4> QED
        BY <1>10, <2>1, <4>1
    <3>2. Live' = {}
      BY <1>11, <3>1
    <3>3. bytes' = 0
      BY <1>18, <3>2, SumOverEmpty
    <3> QED
      BY <1>9, <3>3
  <2>2. CASE Before(k, a, d) - SumOver(w, X) <= maxBytes
    BY <1>3, <1>17, <2>2
  <2> QED
    BY <1>8, <2>1, <2>2
<1>20. Weights(Costs(entry'), Live') /\ SumOver(Costs(entry'), Live') = SumOver(w, Live')
  <2>1. \A e \in Live' : w[e] = Costs(entry')[e]
    BY <1>1, <1>4, <1>9, <1>11, <1>12 DEF w, Costs
  <2>2. IsFiniteSet(Live') /\ Weights(w, Live')
    BY <1>11, <1>15
  <2> QED
    BY <2>1, <2>2, SumOverSame DEF Weights
<1> QED
  BY <1>10, <1>11, <1>12, <1>13, <1>14, <1>15, <1>18, <1>19, <1>20 DEF X, E, q, m

(* After a put every entry is on the chain of its key, also when the table *)
(* was resized, and there was a size to go to.                             *)
LEMMA PutChains ==
  ASSUME IInv, NEW k \in Keys, NEW a \in Auxs, NEW d \in Data, PutNew(k, a, d)
  PROVE  /\ ibuckets' \in DOMAIN BucketSizes
         /\ seen' \in [Buckets(ibuckets') -> Nat]
         /\ bucket' \in [Buckets(ibuckets') -> SUBSET Slots]
         /\ \A b \in Buckets(ibuckets') :
              bucket'[b] = {e \in Live' : HomeIn(ibuckets', entry'[e].key) = b}
<1> DEFINE m == Content(k, a, d)
           gone == Gone(k, a, d)
           chains == Chains(k, a, d)
           number == Number(k, a, d)
<1>1. /\ ibuckets \in DOMAIN BucketSizes /\ seen \in [Buckets(ibuckets) -> Nat]
      /\ DOMAIN bucket = Buckets(ibuckets)
      /\ \A b \in Buckets(ibuckets) :
           bucket[b] = {e \in Live : HomeIn(ibuckets, entry[e].key) = b}
  BY DEF IInv, TypeOK, ChainInv, Home
<1>2. /\ Live' = ((Live \ Stale(k)) \cup {New}) \ Evicted(k, a, d)
      /\ \A e \in Live' : entry'[e] = m[e] /\ entry'[e] \in Entries
      /\ Stale(k) \subseteq Live /\ New \notin Live /\ New \in Slots
  <2>1. Stale(k) \subseteq Live
    BY PutQueue
  <2> QED
    BY <2>1, PutAfter, PutQueue, PutContent
<1>3. m[New].key = k /\ \A e \in Live : m[e] = entry[e]
  <2>1. m[New] = [key |-> k, aux |-> a, data |-> d]
    BY PutContent
  <2>2. ASSUME NEW e \in Live PROVE m[e] = entry[e]
    BY <1>2 DEF Content, IInv, TypeOK, Live
  <2> QED
    BY <2>1, <2>2
<1>4. Live' \subseteq Slots
  BY DEF Live
<1> HIDE DEF m
<1>5. \A e \in Live' : \A i \in DOMAIN BucketSizes : HomeIn(i, m[e].key) \in Buckets(i)
  BY <1>2, EntryParts, HomeType
<1>6. \A b \in Buckets(ibuckets) : chains[b] = {e \in Live' : HomeIn(ibuckets, m[e].key) = b}
  <2> SUFFICES ASSUME NEW b \in Buckets(ibuckets)
               PROVE  chains[b] = {e \in Live' : HomeIn(ibuckets, m[e].key) = b}
    OBVIOUS
  <2>1. chains[b] = (bucket[b] \cup (IF b = Home(k) THEN {New} ELSE {})) \ gone
    BY <1>1 DEF Chains
  <2>2. bucket[b] = {e \in Live : HomeIn(ibuckets, m[e].key) = b}
    BY <1>1, <1>3
  <2>3. HomeIn(ibuckets, m[New].key) = Home(k)
    BY <1>3 DEF Home
  <2>4. New \notin Stale(k)
    BY <1>2
  <2>5. gone = Stale(k) \cup Evicted(k, a, d)
    BY DEF Gone
  <2> HIDE DEF chains, gone
  <2> QED
    BY <1>2, <2>1, <2>2, <2>3, <2>4, <2>5
<1>7. /\ objects' = number
      /\ \/ /\ number > BucketSizes[ibuckets]
            /\ ibuckets' = ibuckets + 1
            /\ bucket' = Rehash(ibuckets + 1, m, UNION {chains[b] : b \in DOMAIN chains})
            /\ seen' = FreshFilter(ibuckets + 1)
         \/ /\ bucket' = chains /\ UNCHANGED <<ibuckets, seen>>
  BY PutUnfolded DEF m
<1>8. DOMAIN chains = Buckets(ibuckets)
  BY <1>1 DEF Chains
<1> HIDE DEF number, chains
<1>9. CASE bucket' = chains /\ UNCHANGED <<ibuckets, seen>>
  <2>1. \A b \in Buckets(ibuckets') :
          bucket'[b] = {e \in Live' : HomeIn(ibuckets', entry'[e].key) = b}
    BY <1>2, <1>6, <1>9
  <2>2. chains = [b \in Buckets(ibuckets) |-> chains[b]]
    BY <1>8 DEF chains, Chains
  <2>3. \A b \in Buckets(ibuckets) : chains[b] \in SUBSET Slots
    BY <1>4, <1>6
  <2>4. chains \in [Buckets(ibuckets) -> SUBSET Slots]
    BY <2>2, <2>3
  <2>5. Buckets(ibuckets') = Buckets(ibuckets)
    BY <1>9
  <2> QED
    BY <1>1, <1>9, <2>1, <2>4, <2>5
<1>10. CASE /\ number > BucketSizes[ibuckets]
            /\ ibuckets' = ibuckets + 1
            /\ bucket' = Rehash(ibuckets + 1, m, UNION {chains[b] : b \in DOMAIN chains})
            /\ seen' = FreshFilter(ibuckets + 1)
  <2>1. ibuckets + 1 \in DOMAIN BucketSizes
    <3> DEFINE L == Len(BucketSizes)  c == Overhead + 1
    <3>1. L \in Nat /\ L >= 1 /\ DOMAIN BucketSizes = 1..L /\ ibuckets \in 1..L
          /\ c \in Nat /\ c >= 1
      BY <1>1
    <3>2. BucketSizes[L] \in Nat /\ BucketSizes[ibuckets] \in Nat
      BY <3>1
    <3>3. c * Cardinality(Live') <= bytes'
      <4>1. \A e \in Live' : Costs(entry')[e] >= c
        BY <1>2, <1>4, EntryParts DEF Costs
      <4> QED
        BY <3>1, <4>1, PutAfter, SumOverBound
    <3>4. Cardinality(Live') = number /\ number \in Nat
      <4>1. lru' \in Seq(Slots) /\ Once(lru') /\ Elements(lru') = Live'
            /\ objects' = Len(lru') /\ objects' \in Nat
        BY PutAfter
      <4>2. Cardinality(Elements(lru')) = Len(lru')
        BY <4>1, QueueSize
      <4> QED
        BY <1>7, <4>1, <4>2
    <3>5. bytes' \in Nat /\ bytes' <= maxBytes /\ maxBytes \in Nat
      BY PutAfter DEF IInv, TypeOK
    <3>6. maxBytes < c * (BucketSizes[L] + 1)
      BY TableAssumption DEF IInv, TypeOK
    <3> DEFINE s == BucketSizes[L]
    <3>7. s \in Nat /\ c * number <= bytes' /\ maxBytes < c * (s + 1)
      BY <3>2, <3>3, <3>4, <3>6
    <3> HIDE DEF s, c, L
    <3>8. ~(number >= s + 1)
      <4> SUFFICES ASSUME number >= s + 1 PROVE FALSE
        OBVIOUS
      <4>1. c * number >= c * (s + 1) /\ c * number \in Nat /\ c * (s + 1) \in Nat
        <5>1. c \in Nat /\ s + 1 \in Nat /\ number \in Nat /\ s + 1 <= number
          BY <3>1, <3>4, <3>7
        <5>2. c * (s + 1) <= c * number /\ c * number \in Nat /\ c * (s + 1) \in Nat
          BY <5>1, ProductMonotonic
        <5> QED
          BY <5>2
      <4> QED
        BY <3>5, <3>7, <4>1
    <3>9. number > BucketSizes[ibuckets]
      BY <1>10
    <3>10. ibuckets # L
      BY <3>2, <3>4, <3>7, <3>8, <3>9 DEF s
    <3> QED
      BY <3>1, <3>10
  <2>2. UNION {chains[b] : b \in DOMAIN chains} = Live'
    <3>1. \A e \in Live' : e \in chains[HomeIn(ibuckets, m[e].key)]
      BY <1>1, <1>5, <1>6
    <3> QED
      BY <1>1, <1>5, <1>6, <1>8, <3>1
  <2>3. bucket' = [b \in Buckets(ibuckets') |->
                     {e \in Live' : HomeIn(ibuckets', m[e].key) = b}]
    BY <1>10, <2>2 DEF Rehash
  <2>4. seen' = [b \in Buckets(ibuckets') |-> 0]
    BY <1>10 DEF FreshFilter
  <2>5. \A b \in Buckets(ibuckets') :
          bucket'[b] = {e \in Live' : HomeIn(ibuckets', entry'[e].key) = b}
    BY <1>2, <2>3
  <2>6. bucket' \in [Buckets(ibuckets') -> SUBSET Slots]
    BY <1>4, <2>3
  <2>7. seen' \in [Buckets(ibuckets') -> Nat]
    BY <2>4
  <2> QED
    BY <1>10, <2>1, <2>5, <2>6, <2>7
<1> QED
  BY <1>7, <1>9, <1>10

(* put keeps the invariant.                                                *)
LEMMA PutStep ==
  ASSUME IInv, NEW k \in Keys, NEW a \in Auxs, NEW d \in Data, PutNew(k, a, d)
  PROVE  IInv'
<1>1. /\ maxBytes' = maxBytes /\ useSeen' = useSeen /\ answer' = None
      /\ maxBytes \in Budgets
  BY PutUnfolded DEF IInv, TypeOK
<1>2. useSeen \in BOOLEAN
  BY DEF IInv, TypeOK
<1>3. TypeOK'
  BY <1>1, <1>2, PutAfter, PutChains DEF TypeOK
<1>4. QueueInv'
  BY PutAfter DEF QueueInv
<1>5. ChainInv'
  <2>1. DOMAIN bucket' = Buckets(ibuckets')
    BY PutChains
  <2>2. \A b \in DOMAIN bucket' : bucket'[b] = {e \in Live' : HomeIn(ibuckets', entry'[e].key) = b}
    BY <2>1, PutChains
  <2>3. ASSUME NEW e \in Live', NEW f \in Live', entry'[e].key = entry'[f].key PROVE e = f
    <3> DEFINE m == Content(k, a, d)
    <3>1. /\ \A x \in Live' : entry'[x] = m[x] /\ x \in (Live \ Stale(k)) \cup {New}
          /\ New \notin Live
      <4>1. Live' = Elements(Queue(k)) \ Evicted(k, a, d)
        BY PutAfter
      <4>2. Elements(Queue(k)) = (Live \ Stale(k)) \cup {New}
        BY PutQueue
      <4>3. \A x \in Live' : entry'[x] = m[x]
        BY PutAfter
      <4>4. New \notin Live
        BY PutContent
      <4> HIDE DEF m
      <4> QED
        BY <4>1, <4>2, <4>3, <4>4
    <3>2. m[New].key = k
      <4>1. m[New] = [key |-> k, aux |-> a, data |-> d]
        BY PutContent
      <4> QED
        BY <4>1
    <3>3. \A x \in Live \ Stale(k) : m[x] = entry[x] /\ entry[x].key # k
      <4> SUFFICES ASSUME NEW x \in Live \ Stale(k) PROVE m[x] = entry[x] /\ entry[x].key # k
        OBVIOUS
      <4>1. entry[x].key # k
        BY PutQueue
      <4>2. m[x] = entry[x]
        BY <3>1 DEF Content, IInv, TypeOK, Live
      <4> QED
        BY <4>1, <4>2
    <3>4. \A x, y \in Live : entry[x].key = entry[y].key => x = y
      BY DEF IInv, ChainInv
    <3> HIDE DEF m
    <3> QED
      BY <2>3, <3>1, <3>2, <3>3, <3>4
  <2> QED
    BY <2>2, <2>3 DEF ChainInv, Home
<1>6. AccountsExact'
  <2>1. Elements(lru') = Live' /\ IsFiniteSet(Live') /\ Live' \in SUBSET Slots
        /\ \A e \in Live' : entry'[e] \in Entries
    BY PutAfter DEF Live
  <2>2. Weight(entry', Live') = SumOver(Costs(entry'), Live')
    BY <2>1, WeightIsTotal
  <2> QED
    BY <1>1, <2>1, <2>2, PutAfter DEF AccountsExact
<1> QED
  BY <1>3, <1>4, <1>5, <1>6 DEF IInv

(* Every step of the cache keeps the invariant.                            *)
LEMMA NextIInv == IInv /\ [Next]_vars => IInv'
<1> SUFFICES ASSUME IInv, [Next]_vars PROVE IInv'
  OBVIOUS
<1>1. CASE Next
  <2>1. PICK k \in Keys, a \in Auxs :
          \/ GetHit(k, a) \/ GetMiss(k, a) \/ PutUnseen(k) \/ PutAgain(k, a)
          \/ \E d \in Data : PutNew(k, a, d)
          \/ \E b \in Auxs : Fixup(k, a, b)
    BY <1>1 DEF Next
  <2> QED
    BY <2>1, GetStep, PutStep, FixupStep
<1>2. CASE UNCHANGED vars
  <2>1. UNCHANGED <<maxBytes, useSeen, bytes, objects, ibuckets, bucket, entry>>
          /\ lru' = lru /\ seen' = seen /\ answer' = answer
    BY <1>2 DEF vars
  <2> QED
    BY <2>1, QuietStep DEF IInv, TypeOK
<1> QED
  BY <1>1, <1>2

(* The invariant is one of the specification.                              *)
THEOREM Invariance == Spec => []IInv
BY InitIInv, NextIInv, PTL DEF Spec

-----------------------------------------------------------------------------
(* The variables of the RAM cache keep their types: the table finds a next *)
(* size whenever it grows, and the filter always fits it.                  *)
THEOREM TypeCorrect == Spec => []TypeOK
<1>1. IInv => TypeOK
  BY DEF IInv
<1> QED
  BY <1>1, Invariance, PTL

(* The queue and the chains always hold the same entries, one per key, on  *)
(* the chain where get and put look for it.                                *)
THEOREM StructuresAgree == Spec => []OneEntryPerKey
<1>1. IInv => OneEntryPerKey
  <2> SUFFICES ASSUME IInv PROVE OneEntryPerKey
    OBVIOUS
  <2>1. Len(lru) = Cardinality(Live) /\ Elements(lru) = Live
    BY LiveFacts DEF IInv, QueueInv
  <2> QED
    BY <2>1 DEF IInv, ChainInv, OneEntryPerKey, Live
<1> QED
  BY <1>1, Invariance, PTL

(* The counters of bytes and objects are exact, and the cache is within    *)
(* its budget between two calls.                                           *)
THEOREM AccountsAreExact == Spec => []AccountsExact
<1>1. IInv => AccountsExact
  BY DEF IInv
<1> QED
  BY <1>1, Invariance, PTL

-----------------------------------------------------------------------------
(* The refinement.                                                         *)

Document(r) == [aux |-> r.aux, data |-> r.data]

(* The documents of the entries in S when the memory is m. *)
Docs(m, S) == [k \in Keys |-> IF \E e \in S : m[e].key = k
                              THEN Document(m[CHOOSE e \in S : m[e].key = k])
                              ELSE None]

Keyed(m, S) ==
  /\ \A e \in S : m[e] \in Entries
  /\ \A e, f \in S : m[e].key = m[f].key => e = f

(* Each of them is kept under the key of its entry, and no other.          *)
LEMMA DocsAre ==
  ASSUME NEW m, NEW S, Keyed(m, S)
  PROVE  /\ \A e \in S : m[e].key \in Keys /\ Docs(m, S)[m[e].key] = Document(m[e])
         /\ \A e \in S : Document(m[e]) # None
         /\ \A k \in Keys : (\A e \in S : m[e].key # k) => Docs(m, S)[k] = None
<1>1. ASSUME NEW e \in S
      PROVE  /\ m[e].key \in Keys /\ Document(m[e]) # None
             /\ Docs(m, S)[m[e].key] = Document(m[e])
  <2> DEFINE k == m[e].key
             f == CHOOSE x \in S : m[x].key = k
  <2>1. m[e] \in Entries
    BY DEF Keyed
  <2>2. k \in Keys /\ Document(m[e]) \in [aux : Auxs, data : Data]
    BY <2>1, EntryParts DEF Document
  <2>3. f \in S /\ m[f].key = k
    OBVIOUS
  <2>4. f = e
    BY <2>3 DEF Keyed
  <2>5. Docs(m, S)[k] = Document(m[f])
    BY <2>2 DEF Docs
  <2>6. Document(m[e]) # None
    BY <2>2
  <2> QED
    BY <2>2, <2>4, <2>5, <2>6
<1>2. \A k \in Keys : (\A e \in S : m[e].key # k) => Docs(m, S)[k] = None
  BY DEF Docs
<1> QED
  BY <1>1, <1>2

(* The abstract cache keeps the documents of the entries in use.           *)
LEMMA KeptIs ==
  ASSUME IInv
  PROVE  kept = Docs(entry, Live) /\ Keyed(entry, Live)
<1>1. Elements(lru) = Live
  BY DEF IInv, QueueInv
<1>2. kept = Docs(entry, Live)
  BY <1>1 DEF kept, Docs, Document
<1> QED
  BY <1>2, LiveFacts DEF Keyed, IInv, ChainInv

(* The same in the next state.                                             *)
LEMMA KeptNext ==
  ASSUME IInv'
  PROVE  kept' = Docs(entry', Live') /\ Keyed(entry', Live')
<1>1. Elements(lru') = Live'
  BY DEF IInv, QueueInv, Elements
<1>2. kept' = Docs(entry', Live')
  BY <1>1 DEF kept, Docs, Document, Elements
<1>3. \A e \in Live' : entry'[e] \in Entries
  BY DEF IInv, TypeOK, Live
<1> QED
  BY <1>2, <1>3 DEF Keyed, IInv, ChainInv

(* The abstract cache is as full as the entries that stand for it weigh.   *)
LEMMA LoadIsTotal ==
  ASSUME NEW m, NEW S \in SUBSET Slots, IsFiniteSet(S), Keyed(m, S)
  PROVE  Abstract!Load(Docs(m, S)) = SumOver(Costs(m), S)
<1> DEFINE M == Docs(m, S)
<1>0. /\ \A e \in S : m[e] \in Entries
      /\ \A e, f \in S : m[e].key = m[f].key => e = f
      /\ \A e \in S : M[m[e].key] = Document(m[e]) /\ M[m[e].key] # None
      /\ \A k \in Keys : (\A e \in S : m[e].key # k) => M[k] = None
  BY DocsAre DEF Keyed
<1> HIDE DEF M
<1> DEFINE H == Abstract!Held(M)
           v == [k \in Keys |-> Cost(M[k].data)]
           w == Costs(m)
           key == [e \in S |-> m[e].key]
<1>1. /\ key \in [S -> Keys]
      /\ \A e, f \in S : key[e] = key[f] => e = f
  BY <1>0, EntryParts
<1>2. H = {key[e] : e \in S}
  <2>1. H = {k \in Keys : M[k] # None}
    BY DEF Abstract!Held
  <2>2. \A e \in S : key[e] = m[e].key /\ key[e] \in Keys
    BY <1>1
  <2> HIDE DEF H, key
  <2>3. \A e \in S : key[e] \in H
    BY <1>0, <2>1, <2>2
  <2>4. ASSUME NEW k \in H PROVE \E e \in S : key[e] = k
    BY <1>0, <2>1, <2>2
  <2> QED
    BY <2>3, <2>4
<1>3. Weights(w, S)
  BY <1>0, EntryParts DEF Costs, Weights
<1>4. \A e \in S : v[key[e]] = w[e]
  <2> SUFFICES ASSUME NEW e \in S PROVE v[key[e]] = w[e]
    OBVIOUS
  <2>1. m[e].key \in Keys /\ M[m[e].key] = Document(m[e])
    BY <1>0, EntryParts
  <2>2. M[m[e].key].data = m[e].data
    BY <2>1 DEF Document
  <2> QED
    BY <2>1, <2>2 DEF Costs
<1> HIDE DEF key, v, w, H
<1>5. SumOver(v, H) = SumOver(w, S) /\ IsFiniteSet(H)
  <2>1. Naming(key, S, H)
    BY <1>1, <1>2 DEF Naming
  <2> QED
    BY <1>3, <1>4, <2>1, SumOverRenamed
<1>6. H \in SUBSET Keys /\ \A k \in H : v[k] = Cost(M[k].data)
  BY <1>1, <1>2 DEF v
<1>7. Weights(v, H)
  BY <1>2, <1>3, <1>4 DEF Weights
<1> DEFINE R(f) == [s \in SUBSET H |->
                      IF s = {} THEN 0 ELSE Cost(M[Pick(s)].data) + f[s \ {Pick(s)}]]
           g == CHOOSE f : f = R(f)
<1>8. Abstract!Load(M) = g[H]
  BY DEF Abstract!Load, Abstract!MapThenSumSet, Abstract!MapThenFoldSet, Pick, H
<1>9. ASSUME NEW f PROVE IsSum(f, v, H) <=> f = R(f)
  <2>1. \A s \in SUBSET H : s # {} => v[Pick(s)] = Cost(M[Pick(s)].data)
    BY <1>6, PickIn
  <2> QED
    BY <2>1 DEF IsSum
<1>10. IsSum(g, v, H)
  <2>1. \E f : f = R(f)
    BY <1>5, <1>7, <1>9, SumExists
  <2>2. g = R(g)
    BY <2>1
  <2> QED
    BY <1>9, <2>2
<1> HIDE DEF g
<1>11. PICK h \in [SUBSET H -> Nat] : IsSum(h, v, H) /\ SumOver(v, H) = h[H]
  BY <1>5, <1>7, SumOverIsSum
<1>12. g[H] = h[H]
  BY <1>5, <1>10, <1>11, SumUnique
<1> QED
  BY <1>5, <1>8, <1>11, <1>12 DEF w, M

(* The cache begins empty.                                                 *)
LEMMA InitMaps == Init => Abstract!Init
<1> SUFFICES ASSUME Init PROVE Abstract!Init
  OBVIOUS
<1>1. Elements(lru) = {}
  BY DEF Init, Elements
<1>2. kept = [k \in Keys |-> None]
  BY <1>1 DEF kept
<1>3. maxBytes \in Nat /\ answer = None
  BY DEF Init
<1> QED
  BY <1>2, <1>3 DEF Abstract!Init

(* What get and put find is what the abstract cache keeps.                 *)
LEMMA MatchMaps ==
  ASSUME IInv, NEW k \in Keys, NEW a \in Auxs
  PROVE  /\ \A e \in Match(k, a) : e \in Live /\ entry[e].key = k /\ entry[e].aux = a
         /\ \A e \in Match(k, a) : kept[k].data = entry[e].data /\ Abstract!Matches(k, a)
         /\ Match(k, a) = {} => ~Abstract!Matches(k, a)
<1>1. OfKey(k) = {e \in Live : entry[e].key = k}
  BY OfKeyIs
<1>2. \A e \in Match(k, a) : e \in Live /\ entry[e].key = k /\ entry[e].aux = a
  BY <1>1 DEF Match
<1>3. ASSUME NEW e \in Match(k, a) PROVE kept[k].data = entry[e].data /\ Abstract!Matches(k, a)
  <2>1. kept[k] = Document(entry[e]) /\ kept[k] # None
    BY <1>2, KeptIs, DocsAre
  <2>2. kept[k].data = entry[e].data /\ kept[k].aux = a
    BY <1>2, <2>1 DEF Document
  <2> QED
    BY <2>1, <2>2 DEF Abstract!Matches
<1>4. ASSUME Abstract!Matches(k, a) PROVE Match(k, a) # {}
  <2>1. kept[k] # None /\ kept[k].aux = a
    BY <1>4 DEF Abstract!Matches
  <2>2. PICK e \in Live : entry[e].key = k
    BY <2>1, KeptIs, DocsAre
  <2>3. kept[k] = Document(entry[e])
    BY <2>2, KeptIs, DocsAre
  <2>4. entry[e].aux = a
    BY <2>1, <2>3 DEF Document
  <2> QED
    BY <1>1, <2>2, <2>4 DEF Match
<1> QED
  BY <1>2, <1>3, <1>4

(* A step that leaves the entries alone keeps the documents.               *)
LEMMA QuietMaps ==
  ASSUME IInv, IInv', entry' = entry
  PROVE  kept' = kept
<1>1. Elements(lru) = Live /\ Elements(lru') = Live'
  BY DEF IInv, QueueInv
<1>2. Live' = Live
  BY DEF Live
<1>3. Elements(lru)' = Elements(lru)
  BY <1>1, <1>2 DEF Elements
<1> QED
  BY <1>3 DEF kept

(* get is a get of the abstract cache; a put that finds its document, or   *)
(* that the filter stops, is declined.                                     *)
LEMMA GetMaps ==
  ASSUME IInv, IInv', NEW k \in Keys, NEW a \in Auxs,
         GetHit(k, a) \/ GetMiss(k, a) \/ PutUnseen(k) \/ PutAgain(k, a)
  PROVE  Abstract!Next
<1>1. maxBytes' = maxBytes /\ entry' = entry
  BY DEF GetHit, GetMiss, PutUnseen, PutAgain
<1>2. kept' = kept
  BY <1>1, QuietMaps
<1>3. CASE PutUnseen(k) \/ PutAgain(k, a)
  <2>1. Abstract!Decline
    BY <1>1, <1>2, <1>3 DEF PutUnseen, PutAgain, Abstract!Decline
  <2> QED
    BY <2>1 DEF Abstract!Next
<1>4. CASE GetHit(k, a)
  <2>1. PICK e \in Match(k, a) : answer' = Reply(k, a, entry[e].data)
    BY <1>4 DEF GetHit
  <2>2. kept[k].data = entry[e].data /\ Abstract!Matches(k, a)
    BY MatchMaps
  <2>3. Abstract!Get(k, a)
    BY <1>1, <1>2, <2>1, <2>2 DEF Abstract!Get, Reply
  <2> QED
    BY <2>3 DEF Abstract!Next
<1>5. CASE GetMiss(k, a)
  <2>1. Match(k, a) = {}
    <3>1. CASE maxBytes = 0
      <4>1. Live = {}
        <5>1. (Overhead + 1) * Cardinality(Live) <= 0 /\ IsFiniteSet(Live)
          BY <3>1, LiveFacts DEF IInv, TypeOK, AccountsExact
        <5>2. Cardinality(Live) \in Nat
          BY <5>1, FS_CardinalityType
        <5> DEFINE c == Cardinality(Live)
        <5>3. c = 0
          <6>1. c \in Nat /\ (Overhead + 1) * c <= 0 /\ Overhead + 1 \in Nat
            BY <5>1, <5>2
          <6> HIDE DEF c
          <6>2. 1 <= c => (Overhead + 1) * 1 <= (Overhead + 1) * c /\ (Overhead + 1) * c \in Nat
            BY <6>1, ProductMonotonic
          <6> QED
            BY <6>1, <6>2
        <5> QED
          BY <5>1, <5>3, FS_EmptySet
      <4> QED
        BY <4>1, MatchMaps
    <3> QED
      BY <1>5, <3>1 DEF GetMiss
  <2>2. ~Abstract!Matches(k, a)
    BY <2>1, MatchMaps
  <2>3. Abstract!Get(k, a)
    BY <1>1, <1>2, <1>5, <2>2 DEF Abstract!Get, Reply, GetMiss
  <2> QED
    BY <2>3 DEF Abstract!Next
<1> QED
  BY <1>3, <1>4, <1>5

(* fixup moves the document of its key.                                    *)
LEMMA FixupMaps ==
  ASSUME IInv, IInv', NEW k \in Keys, NEW a \in Auxs, NEW b \in Auxs, Fixup(k, a, b)
  PROVE  Abstract!Next
<1>1. PICK e \in Match(k, a) : entry' = [entry EXCEPT ![e].aux = b]
  BY DEF Fixup
<1>2. e \in Live /\ entry[e].key = k /\ entry[e] \in Entries /\ e \in Slots
  BY LiveFacts, MatchMaps
<1>3. /\ entry'[e] = [entry[e] EXCEPT !.aux = b]
      /\ \A f \in Slots : f # e => entry'[f] = entry[f]
  BY <1>1, <1>2 DEF IInv, TypeOK
<1>4. /\ entry'[e].key = k /\ entry'[e].data = entry[e].data /\ entry'[e].aux = b
      /\ entry'[e] \in Entries
  BY <1>2, <1>3 DEF Entries
<1>5. Live' = Live
  BY <1>2, <1>3, <1>4 DEF Live
<1>6. /\ \A f \in Live' : kept'[entry'[f].key] = Document(entry'[f])
      /\ \A j \in Keys : (\A f \in Live' : entry'[f].key # j) => kept'[j] = None
      /\ DOMAIN kept' = Keys
  <2>1. Keyed(entry', Live') /\ kept' = Docs(entry', Live')
    BY KeptNext
  <2>2. DOMAIN kept' = Keys
    BY <2>1 DEF Docs
  <2> DEFINE m == entry'  S == Live'
  <2>3. Keyed(m, S) /\ kept' = Docs(m, S)
    BY <2>1
  <2> HIDE DEF m, S
  <2>4. /\ \A f \in S : kept'[m[f].key] = Document(m[f])
        /\ \A j \in Keys : (\A f \in S : m[f].key # j) => kept'[j] = None
    BY <2>3, DocsAre
  <2> QED
    BY <2>2, <2>4 DEF m, S
<1>7. ASSUME NEW j \in Keys, j # k PROVE kept'[j] = kept[j]
  <2>1. CASE \A f \in Live : entry[f].key # j
    <3>1. kept[j] = None
      BY <2>1, KeptIs, DocsAre
    <3>2. \A f \in Live' : entry'[f].key # j
      BY <1>2, <1>3, <1>4, <1>5, <1>7, <2>1 DEF Live
    <3> QED
      BY <1>6, <3>1, <3>2
  <2>2. ASSUME NEW f \in Live, entry[f].key = j PROVE kept'[j] = kept[j]
    <3>1. f # e /\ f \in Slots
      BY <1>2, <1>7, <2>2 DEF Live
    <3>2. entry'[f] = entry[f]
      BY <1>3, <3>1
    <3>3. kept'[j] = Document(entry[f])
      BY <1>5, <1>6, <2>2, <3>2
    <3>4. kept[j] = Document(entry[f])
      BY <2>2, KeptIs, DocsAre
    <3> QED
      BY <3>3, <3>4
  <2> QED
    BY <2>1, <2>2
<1>8. kept[k] = Document(entry[e]) /\ DOMAIN kept = Keys
  BY <1>2, KeptIs, DocsAre DEF Docs
<1>9. kept'[k] = Document(entry'[e])
  BY <1>2, <1>4, <1>5, <1>6
<1>10. kept'[k] = [kept[k] EXCEPT !.aux = b]
  BY <1>4, <1>8, <1>9 DEF Document
<1>11. kept' = [kept EXCEPT ![k].aux = b]
  <2>1. kept' = [j \in Keys |-> kept'[j]] /\ kept = [j \in Keys |-> kept[j]]
    BY <1>6, <1>8 DEF kept
  <2> QED
    BY <1>7, <1>10, <2>1
<1>12. maxBytes' = maxBytes /\ answer' = None
  BY DEF Fixup
<1>13. Abstract!Matches(k, a)
  BY MatchMaps
<1>14. Abstract!Fixup(k, a, b)
  BY <1>11, <1>12, <1>13 DEF Abstract!Fixup
<1> QED
  BY <1>14 DEF Abstract!Next

(* The documents when the new entry is in and none is evicted: the one of  *)
(* its key is replaced.                                                    *)
LEMMA FullMaps ==
  ASSUME IInv, NEW k \in Keys, NEW a \in Auxs, NEW d \in Data
  PROVE  /\ Keyed(Content(k, a, d), Elements(Queue(k)))
         /\ Docs(Content(k, a, d), Elements(Queue(k)))
              = [kept EXCEPT ![k] = Abstract!Doc(a, d)]
<1> DEFINE m == Content(k, a, d)
           E == Elements(Queue(k))
<1>1. E = (Live \ Stale(k)) \cup {New} /\ Stale(k) = {e \in Live : entry[e].key = k}
  BY PutQueue
<1>2. New \in Slots /\ New \notin Live /\ m[New] = [key |-> k, aux |-> a, data |-> d]
  BY PutContent
<1>3. \A e \in Live : m[e] = entry[e]
  BY <1>2 DEF Content, IInv, TypeOK, Live
<1>4. \A e \in Live \cup {New} : m[e] \in Entries
  BY PutContent
<1>5. Keyed(entry, Live) /\ kept = Docs(entry, Live)
  BY KeptIs
<1> HIDE DEF m, E
<1>6. m[New].key = k /\ Document(m[New]) = Abstract!Doc(a, d)
  BY <1>2 DEF Document, Abstract!Doc
<1>7. \A e \in E : e # New => e \in Live /\ m[e] = entry[e] /\ m[e].key # k
  BY <1>1, <1>3
<1>8. Keyed(m, E)
  <2>1. \A e \in E : m[e] \in Entries
    BY <1>1, <1>4
  <2>2. ASSUME NEW e \in E, NEW f \in E, m[e].key = m[f].key PROVE e = f
    BY <1>5, <1>6, <1>7, <2>2 DEF Keyed
  <2> QED
    BY <2>1, <2>2 DEF Keyed
<1>9. New \in E
  BY <1>1
<1>10. Docs(m, E)[k] = Abstract!Doc(a, d)
  BY <1>6, <1>8, <1>9, DocsAre
<1>11. ASSUME NEW j \in Keys, j # k PROVE Docs(m, E)[j] = kept[j]
  <2>1. CASE \E f \in Live : entry[f].key = j
    <3>1. PICK f \in Live : entry[f].key = j
      BY <2>1
    <3>2. f \in E /\ m[f] = entry[f]
      BY <1>1, <1>3, <1>11, <3>1
    <3>3. kept[j] = Document(entry[f])
      BY <1>5, <3>1, DocsAre
    <3>4. Docs(m, E)[j] = Document(m[f])
      BY <1>8, <3>1, <3>2, DocsAre
    <3> QED
      BY <3>2, <3>3, <3>4
  <2>2. CASE \A f \in Live : entry[f].key # j
    <3>1. kept[j] = None
      BY <1>5, <2>2, DocsAre
    <3>2. \A e \in E : m[e].key # j
      BY <1>6, <1>7, <1>11, <2>2
    <3>3. Docs(m, E)[j] = None
      BY <1>8, <3>2, DocsAre
    <3> QED
      BY <3>1, <3>3
  <2> QED
    BY <2>1, <2>2
<1>12. Docs(m, E) = [j \in Keys |-> Docs(m, E)[j]] /\ kept = [j \in Keys |-> kept[j]]
  BY DEF Docs, kept
<1>13. Docs(m, E) = [kept EXCEPT ![k] = Abstract!Doc(a, d)]
  BY <1>10, <1>11, <1>12
<1> QED
  BY <1>8, <1>13 DEF m, E

KeysOf(m, X) == {m[e].key : e \in X}

(* The documents depend only on the memory of their entries.               *)
LEMMA SameDocs ==
  ASSUME NEW m, NEW u, NEW S, \A e \in S : u[e] = m[e], Keyed(m, S)
  PROVE  Docs(u, S) = Docs(m, S)
<1>1. Keyed(u, S)
  BY DEF Keyed
<1>2. ASSUME NEW k \in Keys PROVE Docs(u, S)[k] = Docs(m, S)[k]
  <2>1. CASE \A e \in S : m[e].key # k
    <3>1. Docs(m, S)[k] = None
      BY <2>1, DocsAre
    <3>2. Docs(u, S)[k] = None
      BY <1>1, <2>1, DocsAre
    <3> QED
      BY <3>1, <3>2
  <2>2. ASSUME NEW e \in S, m[e].key = k PROVE Docs(u, S)[k] = Docs(m, S)[k]
    <3>1. Docs(m, S)[k] = Document(m[e])
      BY <2>2, DocsAre
    <3>2. Docs(u, S)[u[e].key] = Document(u[e])
      BY <1>1, DocsAre
    <3> QED
      BY <2>2, <3>1, <3>2
  <2> QED
    BY <2>1, <2>2
<1>3. Docs(u, S) = [k \in Keys |-> Docs(u, S)[k]] /\ Docs(m, S) = [k \in Keys |-> Docs(m, S)[k]]
  BY DEF Docs
<1> QED
  BY <1>2, <1>3

(* Taking entries away forgets their documents, and no others.             *)
LEMMA LostMaps ==
  ASSUME NEW m, NEW E, Keyed(m, E), NEW X \in SUBSET E
  PROVE  Docs(m, E \ X) = Abstract!Without(Docs(m, E), KeysOf(m, X))
<1> DEFINE lost == KeysOf(m, X)
           F == Docs(m, E)
           G == Docs(m, E \ X)
<1>1. Keyed(m, E \ X)
  BY DEF Keyed
<1>2. /\ \A e \in E : m[e].key \in Keys /\ F[m[e].key] = Document(m[e])
      /\ \A k \in Keys : (\A e \in E : m[e].key # k) => F[k] = None
  BY DocsAre
<1>3. /\ \A e \in E \ X : G[m[e].key] = Document(m[e])
      /\ \A k \in Keys : (\A e \in E \ X : m[e].key # k) => G[k] = None
  <2> DEFINE Y == E \ X
  <2>1. Keyed(m, Y) /\ G = Docs(m, Y)
    BY <1>1
  <2> HIDE DEF Y, G
  <2>2. /\ \A e \in Y : G[m[e].key] = Document(m[e])
        /\ \A k \in Keys : (\A e \in Y : m[e].key # k) => G[k] = None
    BY <2>1, DocsAre
  <2> QED
    BY <2>2 DEF Y
<1>4. \A e, f \in E : m[e].key = m[f].key => e = f
  BY DEF Keyed
<1>5. G = [k \in Keys |-> G[k]]
  BY DEF Docs
<1> HIDE DEF F, G
<1>6. ASSUME NEW k \in Keys PROVE G[k] = IF k \in lost THEN None ELSE F[k]
  <2>1. CASE \A e \in E : m[e].key # k
    BY <1>2, <1>3, <2>1 DEF KeysOf
  <2>2. ASSUME NEW e \in X, m[e].key = k PROVE G[k] = None /\ k \in lost
    <3>1. \A f \in E \ X : m[f].key # k
      BY <1>4, <2>2
    <3>2. k \in lost
      BY <2>2 DEF KeysOf
    <3> QED
      BY <1>3, <2>2, <3>1, <3>2
  <2>3. ASSUME NEW e \in E \ X, m[e].key = k PROVE G[k] = F[k] /\ k \notin lost
    <3>1. k \notin lost
      BY <1>4, <2>3 DEF KeysOf
    <3> QED
      BY <1>2, <1>3, <2>3, <3>1
  <2> QED
    BY <2>1, <2>2, <2>3, <1>2, <1>3
<1>7. G = [k \in Keys |-> IF k \in lost THEN None ELSE F[k]]
  BY <1>5, <1>6
<1> QED
  BY <1>7 DEF Abstract!Without, F, G

(* What eviction means for the limit: entries go only when all of them are *)
(* too many, and the new one only when it is too large by itself.          *)
LEMMA EvictionNeeded ==
  ASSUME IInv, NEW k \in Keys, NEW a \in Auxs, NEW d \in Data
  PROVE  LET w == Costs(Content(k, a, d)) IN
           /\ Evicted(k, a, d) # {} => SumOver(w, Elements(Queue(k))) > maxBytes
           /\ New \in Evicted(k, a, d) => Cost(d) > maxBytes
<1> DEFINE w == Costs(Content(k, a, d))
           q == Queue(k)
           n == Count(k, a, d)
           Front(i) == Elements(SubSeq(q, 1, i))
           E == Elements(q)
           b == Before(k, a, d)
<1>1. q \in Seq(Slots) /\ Once(q) /\ Len(q) >= 1 /\ q[Len(q)] = New /\ IsFiniteSet(E)
  BY PutQueue
<1>2. Weights(w, E) /\ w[New] = Cost(d) /\ b = SumOver(w, E) /\ b \in Nat
  BY PutWeight
<1>3. n \in 0..Len(q) /\ \A i \in 0..Len(q) : i < n => b - SumOver(w, Front(i)) > maxBytes
  BY PutEvicts
<1>4. maxBytes \in Nat /\ Len(q) \in Nat /\ Cost(d) \in Nat
  BY <1>1, CostType DEF IInv, TypeOK
<1>5. Evicted(k, a, d) = Front(n)
  BY DEF Evicted
<1> HIDE DEF w, q, n, b, E
<1>6. \A i \in 0..Len(q) : Front(i) = {q[j] : j \in 1..i}
  BY <1>1, CutQueue
<1> HIDE DEF Front
<1>7. ASSUME Front(n) # {} PROVE b > maxBytes
  <2>1. 0 < n
    <3>1. n # 0
      BY <1>3, <1>6, <1>7
    <3> QED
      BY <1>3, <1>4, <3>1
  <2>2. Front(0) = {}
    BY <1>4, <1>6
  <2>3. 0 \in 0..Len(q)
    BY <1>4
  <2>4. b - SumOver(w, {}) > maxBytes
    BY <1>3, <2>1, <2>2, <2>3
  <2> QED
    BY <1>2, <2>4, SumOverEmpty
<1>8. ASSUME New \in Front(n) PROVE Cost(d) > maxBytes
  <2>0. Front(n) = {q[x] : x \in 1..n}
    BY <1>3, <1>6
  <2>1. PICK j \in 1..n : q[j] = New
    BY <1>8, <2>0
  <2>2. j = Len(q)
    <3>1. j \in 1..Len(q) /\ Len(q) \in 1..Len(q)
      BY <1>1, <1>3, <1>4
    <3> QED
      BY <1>1, <2>1, <3>1 DEF Once
  <2>3. n = Len(q)
    BY <1>3, <1>4, <2>1, <2>2
  <2> DEFINE i == Len(q) - 1
  <2>4. i \in 0..Len(q) /\ i < n
    BY <1>1, <1>4, <2>3
  <2>5. b - SumOver(w, Front(i)) > maxBytes
    BY <1>3, <2>4
  <2>6. Front(i) = E \ {New}
    <3>1. E = {q[x] : x \in 1..Len(q)}
      BY <1>1 DEF E, Elements
    <3>2. \A x : x \in 1..i <=> x \in 1..Len(q) /\ x # Len(q)
      BY <1>4
    <3>3. \A x \in 1..Len(q) : q[x] = New <=> x = Len(q)
      <4>1. Len(q) \in 1..Len(q)
        BY <1>1, <1>4
      <4> QED
        BY <1>1, <4>1 DEF Once
    <3>4. Front(i) = {q[x] : x \in 1..i}
      BY <1>6, <2>4
    <3> HIDE DEF i
    <3> QED
      BY <3>1, <3>2, <3>3, <3>4
  <2>7. New \in E
    BY <1>1, <1>4 DEF E, Elements
  <2>8. SumOver(w, E) = w[New] + SumOver(w, E \ {New})
    BY <1>1, <1>2, <2>7, SumOverRemove
  <2>9. IsFiniteSet(E \ {New}) /\ Weights(w, E \ {New})
    BY <1>1, <1>2, FS_Subset DEF Weights
  <2>10. SumOver(w, E \ {New}) \in Nat
    BY <2>9, SumOverSame
  <2> DEFINE c == Cost(d)  t == SumOver(w, E \ {New})
  <2>11. b = c + t /\ b - t > maxBytes /\ c \in Nat /\ t \in Nat
    BY <1>2, <1>4, <2>5, <2>6, <2>8, <2>10
  <2> HIDE DEF c, t
  <2>12. c > maxBytes
    BY <1>4, <2>11
  <2> QED
    BY <2>12 DEF c
<1> QED
  BY <1>2, <1>5, <1>7, <1>8 DEF w, E, q

(* put of a new document is a put of the abstract cache.                   *)
LEMMA PutMaps ==
  ASSUME IInv, IInv', NEW k \in Keys, NEW a \in Auxs, NEW d \in Data, PutNew(k, a, d)
  PROVE  Abstract!Next
<1> DEFINE m == Content(k, a, d)
           E == Elements(Queue(k))
           X == Evicted(k, a, d)
           full == [kept EXCEPT ![k] = Abstract!Doc(a, d)]
           lost == KeysOf(m, X)
<1>1. Keyed(m, E) /\ Docs(m, E) = full
  BY FullMaps
<1>2. /\ X \subseteq E /\ Live' = E \ X /\ IsFiniteSet(Live')
      /\ \A e \in Live' : entry'[e] = m[e]
      /\ bytes' = SumOver(Costs(entry'), Live') /\ bytes' <= maxBytes
  BY PutAfter
<1>3. kept' = Docs(entry', Live') /\ Keyed(entry', Live')
  BY KeptNext
<1>4. Live' \in SUBSET Slots
  BY DEF Live
<1>5. New \in E /\ E \in SUBSET Slots /\ IsFiniteSet(E)
  <2>1. E = (Live \ Stale(k)) \cup {New} /\ IsFiniteSet(E)
    BY PutQueue
  <2>2. New \in Slots
    BY PutContent
  <2> HIDE DEF E
  <2> QED
    BY <2>1, <2>2 DEF Live
<1>6. m[New].key = k
  <2>1. m[New] = [key |-> k, aux |-> a, data |-> d]
    BY PutContent
  <2> QED
    BY <2>1
<1>7. /\ X # {} => SumOver(Costs(m), E) > maxBytes
      /\ New \in X => Cost(d) > maxBytes
  BY EvictionNeeded
<1>8. maxBytes' = maxBytes /\ answer' = None /\ Match(k, a) = {}
  BY PutUnfolded
<1> HIDE DEF m, E, X
<1>9. kept' = Docs(m, E \ X)
  <2> DEFINE u == entry'  S == Live'
  <2>1. \A e \in S : u[e] = m[e]
    BY <1>2
  <2>2. Keyed(u, S) /\ kept' = Docs(u, S) /\ S = E \ X
    BY <1>2, <1>3
  <2> HIDE DEF u, S
  <2>3. Docs(m, S) = Docs(u, S)
    BY <2>1, <2>2, SameDocs
  <2> QED
    BY <2>2, <2>3
<1>10. kept' = Abstract!Without(full, lost)
  <2>1. Docs(m, E \ X) = Abstract!Without(Docs(m, E), lost)
    <3>1. X \in SUBSET E
      BY <1>2
    <3> QED
      BY <1>1, <3>1, LostMaps
  <2> QED
    BY <1>1, <1>9, <2>1
<1> HIDE DEF full
<1>11. Abstract!Load(kept') <= maxBytes
  <2>1. Abstract!Load(kept') = SumOver(Costs(entry'), Live')
    <3> DEFINE u == entry'  S == Live'
    <3>1. S \in SUBSET Slots /\ IsFiniteSet(S) /\ Keyed(u, S) /\ kept' = Docs(u, S)
      BY <1>2, <1>3, <1>4
    <3> HIDE DEF u, S
    <3>2. Abstract!Load(Docs(u, S)) = SumOver(Costs(u), S)
      BY <3>1, LoadIsTotal
    <3> QED
      BY <3>1, <3>2 DEF u, S
  <2> QED
    BY <1>2, <2>1
<1>12. lost # {} => Abstract!Load(full) > maxBytes
  <2>1. Abstract!Load(Docs(m, E)) = SumOver(Costs(m), E)
    BY <1>1, <1>5, LoadIsTotal
  <2>2. lost # {} => X # {}
    BY DEF KeysOf
  <2> QED
    BY <1>1, <1>7, <2>1, <2>2
<1>13. k \in lost => Cost(d) > maxBytes
  <2> SUFFICES ASSUME NEW e \in X, m[e].key = k PROVE New \in X
    BY <1>7 DEF KeysOf
  <2> QED
    BY <1>1, <1>2, <1>5, <1>6 DEF Keyed
<1>14. lost \in SUBSET Keys
  BY <1>1, <1>2, EntryParts DEF Keyed, KeysOf
<1>15. ~Abstract!Matches(k, a)
  BY <1>8, MatchMaps
<1> HIDE DEF lost
<1>16. Abstract!Put(k, a, d)
  BY <1>8, <1>10, <1>11, <1>12, <1>13, <1>14, <1>15 DEF Abstract!Put, full
<1> QED
  BY <1>16 DEF Abstract!Next

(* Every step of the LRU cache is a step of the abstract one, or none.     *)
LEMMA NextMaps == IInv /\ IInv' /\ [Next]_vars => [Abstract!Next]_(Abstract!vars)
<1> SUFFICES ASSUME IInv, IInv', [Next]_vars
             PROVE  Abstract!Next \/ UNCHANGED Abstract!vars
  BY DEF Abstract!vars
<1>1. CASE Next
  <2>1. PICK k \in Keys, a \in Auxs :
          \/ GetHit(k, a) \/ GetMiss(k, a) \/ PutUnseen(k) \/ PutAgain(k, a)
          \/ \E d \in Data : PutNew(k, a, d)
          \/ \E b \in Auxs : Fixup(k, a, b)
    BY <1>1 DEF Next
  <2> QED
    BY <2>1, GetMaps, PutMaps, FixupMaps
<1>2. CASE UNCHANGED vars
  <2>1. maxBytes' = maxBytes /\ entry' = entry /\ answer' = answer
    BY <1>2 DEF vars
  <2> QED
    BY <2>1, QuietMaps DEF Abstract!vars
<1> QED
  BY <1>1, <1>2

(* The LRU cache implements the RAM cache that the volume relies on: a get *)
(* returns what was put and not forgotten since, and documents are         *)
(* forgotten only when the budget asks for it.                             *)
THEOREM Refinement == Spec => ImplementsRamCache
BY InitMaps, NextMaps, Invariance, PTL DEF Spec, ImplementsRamCache, Abstract!Spec
=============================================================================
