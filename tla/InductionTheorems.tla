------------------------- MODULE InductionTheorems --------------------------
(***************************************************************************)
(* Induction over the naturals and over finite sets, stated for a set of   *)
(* numbers or of subsets instead of a predicate; that a recursive function *)
(* exists; and what MapThenSumSet computes for every finite set.  The      *)
(* other proofs use these facts for the queues that the code walks and for *)
(* the bytes that it accounts for.                                         *)
(***************************************************************************)
EXTENDS Integers, FiniteSetsExt, FiniteSetTheorems, WellFoundedInduction, TLAPS

(* The quotient of naturals is a natural.                                  *)
LEMMA QuotientNatural ==
  ASSUME NEW m \in Nat, NEW z \in Nat \ {0}
  PROVE  m \div z \in Nat
<1>1. m \div z >= 0
  OBVIOUS
<1> QED
  BY <1>1

(* Multiplication keeps the order.                                         *)
LEMMA ProductMonotonic ==
  ASSUME NEW c \in Nat, NEW x \in Nat, NEW y \in Nat, x <= y
  PROVE  c * x <= c * y /\ c * x \in Nat /\ c * y \in Nat
OBVIOUS

(* A number is its quotient times the divisor and the remainder.           *)
LEMMA DivisionParts ==
  ASSUME NEW m \in Nat, NEW z \in Nat \ {0}
  PROVE  m = z * (m \div z) + (m % z) /\ m % z \in 0 .. (z - 1)
<1>1. m % z \in 0 .. (z - 1)
  OBVIOUS
<1>2. m = z * (m \div z) + (m % z)
  OBVIOUS
<1> QED
  BY <1>1, <1>2

(* There are no other two.                                                 *)
LEMMA DivisionUnique ==
  ASSUME NEW z \in Nat \ {0}, NEW q \in Nat, NEW r \in 0 .. (z - 1),
         NEW p \in Nat, NEW s \in 0 .. (z - 1), z * q + r = z * p + s
  PROVE  q = p /\ r = s
<1> DEFINE a == z * q  b == z * p
<1>1. a \in Int /\ b \in Int /\ a + r = b + s
  OBVIOUS
<1>2. z * (q + 1) = a + z /\ z * (p + 1) = b + z
  OBVIOUS
<1>3. ASSUME q < p PROVE a + z <= b
  <2>1. q + 1 <= p /\ q + 1 \in Nat
    BY <1>3
  <2> QED
    BY <1>2, <2>1, ProductMonotonic
<1>4. ASSUME p < q PROVE b + z <= a
  <2>1. p + 1 <= q /\ p + 1 \in Nat
    BY <1>4
  <2> QED
    BY <1>2, <2>1, ProductMonotonic
<1>5. q = p => a = b
  OBVIOUS
<1> HIDE DEF a, b
<1>6. q = p
  BY <1>1, <1>3, <1>4
<1> QED
  BY <1>1, <1>5, <1>6

(* A set of naturals that is not empty has a least element.                *)
LEMMA LeastNatural ==
  ASSUME NEW T \in SUBSET Nat, T # {}
  PROVE  \E x \in T : \A y \in T : x <= y
<1> DEFINE R == OpToRel(<, Nat)
<1>1. IsWellFoundedOn(R, Nat)
  BY NatLessThanWellFounded
<1>2. \A x, y \in Nat : y < x => <<y, x>> \in R
  BY DEF OpToRel
<1> HIDE DEF R
<1>3. PICK x \in T : \A y \in T : ~(<<y, x>> \in R)
  BY <1>1, WFMin
<1>4. ASSUME NEW y \in T PROVE x <= y
  <2>1. y \in Nat /\ x \in Nat
    OBVIOUS
  <2>2. ~(y < x)
    BY <1>2, <1>3, <2>1
  <2> QED
    BY <2>1, <2>2
<1> QED
  BY <1>4

(* Induction: a set of naturals with 0 and every successor has them all.   *)
LEMMA NaturalsByInduction ==
  ASSUME NEW A \in SUBSET Nat, 0 \in A, \A n \in A : n + 1 \in A
  PROVE  A = Nat
<1> SUFFICES ASSUME Nat \ A # {} PROVE FALSE
  OBVIOUS
<1>1. PICK x \in Nat \ A : \A y \in Nat \ A : x <= y
  BY LeastNatural
<1>2. x # 0 /\ x - 1 \in Nat
  BY <1>1
<1>3. x - 1 \in A
  BY <1>1, <1>2
<1> QED
  BY <1>1, <1>2, <1>3

(* A set of subsets of a finite set S that has the empty set, and grows by *)
(* one element of S at a time, has S.                                      *)
LEMMA SubsetsByInduction ==
  ASSUME NEW S, IsFiniteSet(S), NEW A \in SUBSET (SUBSET S), {} \in A,
         \A T \in A : \A x \in S \ T : T \cup {x} \in A
  PROVE  S \in A
<1> DEFINE B == {n \in Nat : \A T \in SUBSET S : Cardinality(T) = n => T \in A}
<1>1. \A T \in SUBSET S : IsFiniteSet(T) /\ Cardinality(T) \in Nat
  BY FS_Subset, FS_CardinalityType
<1>2. 0 \in B
  BY <1>1, FS_EmptySet
<1>3. ASSUME NEW n \in B PROVE n + 1 \in B
  <2> SUFFICES ASSUME NEW T \in SUBSET S, Cardinality(T) = n + 1 PROVE T \in A
    OBVIOUS
  <2>0. n \in Nat
    OBVIOUS
  <2>1. T # {}
    <3>1. n + 1 # 0
      BY <2>0
    <3> HIDE DEF B
    <3> QED
      BY <3>1, FS_EmptySet, Zenon
  <2>2. PICK x \in T : TRUE
    BY <2>1
  <2>3. T \ {x} \in SUBSET S /\ Cardinality(T \ {x}) = n
    <3>1. Cardinality(T \ {x}) = Cardinality(T) - 1
      BY <1>1, <2>2, FS_RemoveElement
    <3> QED
      BY <3>1
  <2>4. T \ {x} \in A
    BY <2>3
  <2>5. x \in S \ (T \ {x}) /\ T = (T \ {x}) \cup {x}
    BY <2>2
  <2> QED
    BY <2>4, <2>5
<1>4. B = Nat
  <2> HIDE DEF B
  <2>1. B \in SUBSET Nat
    BY DEF B
  <2> QED
    BY <1>2, <1>3, <2>1, NaturalsByInduction
<1> QED
  BY <1>1, <1>4

(* f starts at base and takes the step numbered i from i - 1 to i.         *)
Recursion(f, N, X, base, step) ==
  /\ f \in [0..N -> X]
  /\ \A i \in 0..N : f[i] = IF i = 0 THEN base ELSE step[i][f[i - 1]]

(* A function given by its value at 0 and a step from each value to the    *)
(* next exists.                                                            *)
LEMMA RecursionExists ==
  ASSUME NEW N \in Nat, NEW X, NEW base \in X, NEW step \in [1..N -> [X -> X]]
  PROVE  \E f : Recursion(f, N, X, base, step)
<1> DEFINE Good(f, n) ==
             /\ f \in [0..n -> X]
             /\ \A i \in 0..n : f[i] = IF i = 0 THEN base ELSE step[i][f[i - 1]]
           B == {n \in Nat : n <= N => \E f \in [0..n -> X] : Good(f, n)}
<1>1. 0 \in B
  <2>1. Good([i \in 0..0 |-> base], 0)
    OBVIOUS
  <2> QED
    BY <2>1
<1>2. ASSUME NEW n \in B PROVE n + 1 \in B
  <2>0. n \in Nat
    OBVIOUS
  <2> SUFFICES ASSUME n + 1 <= N PROVE \E f \in [0..(n + 1) -> X] : Good(f, n + 1)
    BY <2>0
  <2>1. PICK f \in [0..n -> X] : Good(f, n)
    BY <2>0
  <2> HIDE DEF B
  <2> DEFINE g == [i \in 0..(n + 1) |-> IF i = n + 1 THEN step[n + 1][f[n]] ELSE f[i]]
  <2>2. f[n] \in X /\ n + 1 \in 1..N
    BY <2>0, <2>1
  <2>3. step[n + 1][f[n]] \in X
    BY <2>2
  <2>4. \A i \in 0..n : g[i] = f[i] /\ f[i] \in X
    BY <2>0, <2>1
  <2>5. \A i \in 0..(n + 1) : i = n + 1 \/ i \in 0..n
    BY <2>0
  <2>6. g[n + 1] = step[n + 1][f[n]] /\ (n + 1) - 1 = n /\ n \in 0..n /\ n + 1 # 0
    BY <2>0
  <2>7. g \in [0..(n + 1) -> X]
    BY <2>3, <2>4, <2>5
  <2>8. \A i \in 0..(n + 1) : g[i] = IF i = 0 THEN base ELSE step[i][g[i - 1]]
    <3> TAKE i \in 0..(n + 1)
    <3>1. CASE i = n + 1
      BY <2>4, <2>6, <3>1
    <3>2. CASE i \in 0..n
      <4>1. i # 0 => i - 1 \in 0..n
        BY <2>0, <3>2
      <4>2. f[i] = IF i = 0 THEN base ELSE step[i][f[i - 1]]
        BY <2>1, <3>2
      <4> HIDE DEF g
      <4> QED
        BY <2>4, <3>2, <4>1, <4>2
    <3> QED
      BY <2>5, <3>1, <3>2
  <2> HIDE DEF g
  <2> QED
    BY <2>7, <2>8
<1>3. B = Nat
  <2> HIDE DEF B
  <2>1. B \in SUBSET Nat
    BY DEF B
  <2> QED
    BY <1>1, <1>2, <2>1, NaturalsByInduction
<1>4. N \in B /\ N <= N
  <2> HIDE DEF B
  <2> QED
    BY <1>3
<1>5. \E f \in [0..N -> X] : Good(f, N)
  <2> HIDE DEF Good
  <2> QED
    BY <1>4
<1> QED
  BY <1>5 DEF Recursion

-----------------------------------------------------------------------------
Pick(s) == CHOOSE x \in s : TRUE

(* The sum of w[e] for the elements e of S.                                *)
SumOver(w, S) == MapThenSumSet(LAMBDA e : w[e], S)

(* g is the recursion that MapThenSumSet evaluates.                        *)
IsSum(g, w, S) ==
  g = [s \in SUBSET S |-> IF s = {} THEN 0 ELSE w[Pick(s)] + g[s \ {Pick(s)}]]

Weights(w, S) == \A e \in S : w[e] \in Nat

(* What is picked from a set is an element of it.                          *)
LEMMA PickIn == ASSUME NEW s, s # {} PROVE Pick(s) \in s
BY DEF Pick

(* The recursion has a solution on the subsets of a finite set.            *)
LEMMA SumExists ==
  ASSUME NEW S, IsFiniteSet(S), NEW w, Weights(w, S)
  PROVE  \E g \in [SUBSET S -> Nat] : IsSum(g, w, S)
<1> DEFINE D(n) == {s \in SUBSET S : Cardinality(s) <= n}
           Good(g, n) ==
             /\ g \in [D(n) -> Nat]
             /\ \A s \in D(n) :
                  g[s] = IF s = {} THEN 0 ELSE w[Pick(s)] + g[s \ {Pick(s)}]
           B == {n \in Nat : \E g \in [D(n) -> Nat] : Good(g, n)}
<1>1. \A T \in SUBSET S : IsFiniteSet(T) /\ Cardinality(T) \in Nat
  BY FS_Subset, FS_CardinalityType
<1>2. \A s \in SUBSET S : s # {} =>
        /\ Pick(s) \in s /\ w[Pick(s)] \in Nat
        /\ s \ {Pick(s)} \in SUBSET S /\ Cardinality(s \ {Pick(s)}) = Cardinality(s) - 1
  BY <1>1, PickIn, FS_RemoveElement DEF Weights
<1>3. 0 \in B
  <2>1. \A s \in D(0) : s = {}
    BY <1>1, FS_EmptySet
  <2>2. Good([s \in D(0) |-> 0], 0)
    BY <2>1
  <2> QED
    BY <2>2
<1>4. ASSUME NEW n \in B PROVE n + 1 \in B
  <2>1. PICK g \in [D(n) -> Nat] : Good(g, n)
    OBVIOUS
  <2> DEFINE h == [s \in D(n + 1) |->
                     IF s = {} THEN 0 ELSE w[Pick(s)] + g[s \ {Pick(s)}]]
  <2>2. \A s \in D(n + 1) : s # {} => s \ {Pick(s)} \in D(n) /\ s \ {Pick(s)} \in D(n + 1)
    BY <1>1, <1>2
  <2>3. \A s \in D(n) : s \in D(n + 1) /\ h[s] = g[s]
    BY <1>1, <2>1
  <2>4. \A s \in D(n + 1) : h[s] \in Nat
    BY <1>2, <2>1, <2>2
  <2>5. \A s \in D(n + 1) : h[s] = IF s = {} THEN 0 ELSE w[Pick(s)] + h[s \ {Pick(s)}]
    BY <2>2, <2>3
  <2>6. Good(h, n + 1)
    BY <2>4, <2>5
  <2>7. h \in [D(n + 1) -> Nat] /\ n + 1 \in Nat
    <3>1. n \in Nat
      OBVIOUS
    <3>2. h \in [D(n + 1) -> Nat]
      <4> DEFINE E == D(n + 1)
      <4>1. \A s \in E : h[s] \in Nat
        BY <2>4
      <4>2. h = [s \in E |-> h[s]]
        OBVIOUS
      <4> HIDE DEF E, h
      <4>3. h \in [E -> Nat]
        BY <4>1, <4>2
      <4> QED
        BY <4>3 DEF E
    <3> QED
      BY <3>1, <3>2
  <2> HIDE DEF h, Good, D
  <2> QED
    BY <2>6, <2>7
<1>5. B = Nat
  <2> HIDE DEF B
  <2>1. B \in SUBSET Nat
    BY DEF B
  <2> QED
    BY <1>3, <1>4, <2>1, NaturalsByInduction
<1>6. PICK g : Good(g, Cardinality(S))
  BY <1>1, <1>5
<1>7. D(Cardinality(S)) = SUBSET S
  BY <1>1, FS_Subset
<1> QED
  BY <1>6, <1>7 DEF IsSum

(* Two solutions agree on the subsets that they share.                     *)
LEMMA SumUnique ==
  ASSUME NEW S, IsFiniteSet(S), NEW T \in SUBSET S, NEW w, NEW v,
         \A e \in T : w[e] = v[e],
         NEW f, IsSum(f, w, S), NEW g, IsSum(g, v, T)
  PROVE  f[T] = g[T]
<1> DEFINE B == {n \in Nat : \A s \in SUBSET T : Cardinality(s) = n => f[s] = g[s]}
<1>1. \A s \in SUBSET T : IsFiniteSet(s) /\ Cardinality(s) \in Nat /\ s \in SUBSET S
  BY FS_Subset, FS_CardinalityType
<1>2. \A s \in SUBSET T :
        /\ f[s] = IF s = {} THEN 0 ELSE w[Pick(s)] + f[s \ {Pick(s)}]
        /\ g[s] = IF s = {} THEN 0 ELSE v[Pick(s)] + g[s \ {Pick(s)}]
  BY <1>1 DEF IsSum
<1>3. 0 \in B
  BY <1>1, <1>2, FS_EmptySet
<1>4. ASSUME NEW n \in B PROVE n + 1 \in B
  <2> SUFFICES ASSUME NEW s \in SUBSET T, Cardinality(s) = n + 1 PROVE f[s] = g[s]
    OBVIOUS
  <2>0. n \in Nat
    OBVIOUS
  <2>1. s # {}
    <3>1. n + 1 # 0
      BY <2>0
    <3> HIDE DEF B
    <3> QED
      BY <3>1, FS_EmptySet, Zenon
  <2>2. Pick(s) \in s
    BY <2>1, PickIn
  <2>3. s \ {Pick(s)} \in SUBSET T /\ Cardinality(s \ {Pick(s)}) = n
    <3>1. Cardinality(s \ {Pick(s)}) = Cardinality(s) - 1
      BY <1>1, <2>2, FS_RemoveElement
    <3> QED
      BY <3>1
  <2>4. f[s \ {Pick(s)}] = g[s \ {Pick(s)}]
    BY <2>3
  <2> QED
    BY <1>2, <2>1, <2>2, <2>4
<1>5. B = Nat
  <2> HIDE DEF B
  <2>1. B \in SUBSET Nat
    BY DEF B
  <2> QED
    BY <1>3, <1>4, <2>1, NaturalsByInduction
<1> QED
  BY <1>1, <1>5

(* SumOver evaluates the recursion, also when its weights are written as an*)
(* expression.                                                             *)
LEMMA SumOverIsSum ==
  ASSUME NEW S, IsFiniteSet(S), NEW w, Weights(w, S)
  PROVE  \E g \in [SUBSET S -> Nat] : IsSum(g, w, S) /\ SumOver(w, S) = g[S]
<1> DEFINE g == CHOOSE f : IsSum(f, w, S)
<1>1. SumOver(w, S) = (CHOOSE f : f = [s \in SUBSET S |->
                        IF s = {} THEN 0 ELSE w[Pick(s)] + f[s \ {Pick(s)}]])[S]
  BY DEF SumOver, MapThenSumSet, MapThenFoldSet, Pick
<1>2. SumOver(w, S) = g[S]
  BY <1>1 DEF IsSum
<1>3. IsSum(g, w, S)
  BY SumExists
<1> HIDE DEF g
<1>4. PICK h \in [SUBSET S -> Nat] : IsSum(h, w, S)
  BY SumExists
<1>5. ASSUME NEW T \in SUBSET S PROVE g[T] = h[T]
  <2>1. IsSum([s \in SUBSET T |-> h[s]], w, T)
    <3>1. \A s \in SUBSET T :
             h[s] = IF s = {} THEN 0 ELSE w[Pick(s)] + h[s \ {Pick(s)}]
      BY <1>4 DEF IsSum
    <3> QED
      BY <3>1 DEF IsSum
  <2>2. g[T] = [s \in SUBSET T |-> h[s]][T]
    BY <1>3, <2>1, SumUnique
  <2> QED
    BY <2>2
<1>6. g = h
  BY <1>3, <1>4, <1>5 DEF IsSum
<1> QED
  BY <1>2, <1>4, <1>6

(* A sum depends on the weights of the elements of its set only, and is a  *)
(* natural number.                                                         *)
LEMMA SumOverSame ==
  ASSUME NEW S, IsFiniteSet(S), NEW w, Weights(w, S), NEW v, \A e \in S : w[e] = v[e]
  PROVE  SumOver(w, S) = SumOver(v, S) /\ SumOver(w, S) \in Nat
<1>1. PICK f \in [SUBSET S -> Nat] : IsSum(f, w, S) /\ SumOver(w, S) = f[S]
  BY SumOverIsSum
<1>2. Weights(v, S)
  BY DEF Weights
<1>3. PICK g \in [SUBSET S -> Nat] : IsSum(g, v, S) /\ SumOver(v, S) = g[S]
  BY <1>2, SumOverIsSum
<1>4. f[S] = g[S]
  BY <1>1, <1>3, SumUnique
<1> QED
  BY <1>1, <1>3, <1>4

(* The sum over the empty set.                                             *)
LEMMA SumOverEmpty ==
  ASSUME NEW w
  PROVE  SumOver(w, {}) = 0
<1>1. IsFiniteSet({}) /\ Weights(w, {})
  BY FS_EmptySet DEF Weights
<1>2. PICK g \in [SUBSET {} -> Nat] : IsSum(g, w, {}) /\ SumOver(w, {}) = g[{}]
  BY <1>1, SumOverIsSum
<1> QED
  BY <1>2 DEF IsSum

(* The recursion takes off the element it picks...                         *)
LEMMA SumOverPick ==
  ASSUME NEW S, IsFiniteSet(S), NEW w, Weights(w, S), S # {}
  PROVE  SumOver(w, S) = w[Pick(S)] + SumOver(w, S \ {Pick(S)})
<1> DEFINE T == S \ {Pick(S)}
<1>1. T \in SUBSET S /\ IsFiniteSet(T) /\ Weights(w, T)
  BY FS_Subset DEF Weights
<1> HIDE DEF T
<1>2. PICK f \in [SUBSET S -> Nat] : IsSum(f, w, S) /\ SumOver(w, S) = f[S]
  BY SumOverIsSum
<1>3. PICK g \in [SUBSET T -> Nat] : IsSum(g, w, T) /\ SumOver(w, T) = g[T]
  BY <1>1, SumOverIsSum
<1>4. f[T] = g[T]
  BY <1>1, <1>2, <1>3, SumUnique
<1>5. f[S] = w[Pick(S)] + f[T]
  BY <1>2 DEF IsSum, T
<1> QED
  BY <1>2, <1>3, <1>4, <1>5 DEF T

(* ... and the order does not matter: the same holds of every element.     *)
LEMMA SumOverRemove ==
  ASSUME NEW S, IsFiniteSet(S), NEW w, Weights(w, S), NEW x \in S
  PROVE  SumOver(w, S) = w[x] + SumOver(w, S \ {x})
<1> DEFINE B == {n \in Nat :
                   \A T \in SUBSET S : Cardinality(T) = n =>
                     \A y \in T : SumOver(w, T) = w[y] + SumOver(w, T \ {y})}
<1>1. \A T \in SUBSET S :
        IsFiniteSet(T) /\ Cardinality(T) \in Nat /\ Weights(w, T) /\ SumOver(w, T) \in Nat
  BY FS_Subset, FS_CardinalityType, SumOverSame DEF Weights
<1>2. 0 \in B
  BY <1>1, FS_EmptySet
<1>3. ASSUME NEW n \in B PROVE n + 1 \in B
  <2>0. n \in Nat /\ \A T \in SUBSET S : Cardinality(T) = n =>
                      \A y \in T : SumOver(w, T) = w[y] + SumOver(w, T \ {y})
    OBVIOUS
  <2> SUFFICES ASSUME NEW T \in SUBSET S, Cardinality(T) = n + 1, NEW y \in T
               PROVE  SumOver(w, T) = w[y] + SumOver(w, T \ {y})
    BY <2>0
  <2> DEFINE c == Pick(T)
  <2>1. c \in T /\ SumOver(w, T) = w[c] + SumOver(w, T \ {c})
    BY <1>1, PickIn, SumOverPick
  <2> HIDE DEF B, c
  <2>2. /\ T \ {c} \in SUBSET S /\ Cardinality(T \ {c}) = n
        /\ T \ {y} \in SUBSET S /\ Cardinality(T \ {y}) = n
    <3>1. /\ Cardinality(T \ {c}) = Cardinality(T) - 1
          /\ Cardinality(T \ {y}) = Cardinality(T) - 1
      BY <1>1, <2>1, FS_RemoveElement
    <3> QED
      BY <2>0, <3>1
  <2>3. CASE y = c
    BY <2>1, <2>3
  <2>4. CASE y # c
    <3>1. SumOver(w, T \ {c}) = w[y] + SumOver(w, (T \ {c}) \ {y})
      BY <2>0, <2>2, <2>4
    <3>2. SumOver(w, T \ {y}) = w[c] + SumOver(w, (T \ {y}) \ {c})
      BY <2>0, <2>1, <2>2, <2>4
    <3>3. (T \ {c}) \ {y} = (T \ {y}) \ {c}
      OBVIOUS
    <3>4. w[y] \in Nat /\ w[c] \in Nat /\ SumOver(w, (T \ {y}) \ {c}) \in Nat
      <4>1. (T \ {y}) \ {c} \in SUBSET S
        OBVIOUS
      <4> QED
        BY <1>1, <2>1, <4>1 DEF Weights
    <3> QED
      BY <2>1, <3>1, <3>2, <3>3, <3>4
  <2> QED
    BY <2>3, <2>4
<1>4. B = Nat
  <2> HIDE DEF B
  <2>1. B \in SUBSET Nat
    BY DEF B
  <2> QED
    BY <1>2, <1>3, <2>1, NaturalsByInduction
<1> QED
  BY <1>1, <1>4

(* Adding an element adds its weight.                                      *)
LEMMA SumOverAdd ==
  ASSUME NEW S, IsFiniteSet(S), NEW w, NEW x, x \notin S, Weights(w, S \cup {x})
  PROVE  SumOver(w, S \cup {x}) = w[x] + SumOver(w, S)
<1>1. IsFiniteSet(S \cup {x}) /\ (S \cup {x}) \ {x} = S
  BY FS_AddElement
<1> QED
  BY <1>1, SumOverRemove

(* The sum over two disjoint sets.                                         *)
LEMMA SumOverUnion ==
  ASSUME NEW S, IsFiniteSet(S), NEW T, IsFiniteSet(T), S \cap T = {},
         NEW w, Weights(w, S \cup T)
  PROVE  /\ SumOver(w, S \cup T) = SumOver(w, S) + SumOver(w, T)
         /\ SumOver(w, S) \in Nat /\ SumOver(w, T) \in Nat
<1> DEFINE A == {U \in SUBSET T : SumOver(w, S \cup U) = SumOver(w, S) + SumOver(w, U)}
<1>1. Weights(w, S) /\ Weights(w, T)
  BY DEF Weights
<1>2. SumOver(w, S) \in Nat /\ SumOver(w, T) \in Nat
  BY <1>1, SumOverSame
<1>3. {} \in A
  <2>1. S \cup {} = S
    OBVIOUS
  <2> QED
    BY <1>2, <2>1, SumOverEmpty
<1>4. ASSUME NEW U \in A, NEW x \in T \ U PROVE U \cup {x} \in A
  <2>1. /\ IsFiniteSet(U) /\ IsFiniteSet(S \cup U)
        /\ Weights(w, U) /\ Weights(w, U \cup {x}) /\ Weights(w, (S \cup U) \cup {x})
        /\ w[x] \in Nat
    BY FS_Subset, FS_Union DEF Weights
  <2>2. SumOver(w, U \cup {x}) = w[x] + SumOver(w, U) /\ SumOver(w, U) \in Nat
    BY <2>1, SumOverAdd, SumOverSame
  <2>3. x \notin S \cup U
    OBVIOUS
  <2>4. SumOver(w, (S \cup U) \cup {x}) = w[x] + SumOver(w, S \cup U)
    BY <2>1, <2>3, SumOverAdd
  <2>5. S \cup (U \cup {x}) = (S \cup U) \cup {x}
    OBVIOUS
  <2>6. SumOver(w, S \cup U) = SumOver(w, S) + SumOver(w, U)
    OBVIOUS
  <2>7. SumOver(w, S \cup (U \cup {x})) = SumOver(w, S) + SumOver(w, U \cup {x})
    BY <1>2, <2>1, <2>2, <2>4, <2>5, <2>6
  <2> QED
    BY <2>7
<1>5. T \in A
  <2> HIDE DEF A
  <2>1. A \in SUBSET (SUBSET T)
    BY DEF A
  <2> QED
    BY <1>3, <1>4, <2>1, SubsetsByInduction
<1> QED
  BY <1>2, <1>5

(* When every weight is at least c, there are at most SumOver \div c elements. *)
LEMMA SumOverBound ==
  ASSUME NEW S, IsFiniteSet(S), NEW w, Weights(w, S), NEW c \in Nat,
         \A e \in S : w[e] >= c
  PROVE  c * Cardinality(S) <= SumOver(w, S)
<1> DEFINE A == {U \in SUBSET S : c * Cardinality(U) <= SumOver(w, U)}
<1>1. {} \in A
  BY FS_EmptySet, SumOverEmpty
<1>2. ASSUME NEW U \in A, NEW x \in S \ U PROVE U \cup {x} \in A
  <2>1. /\ IsFiniteSet(U) /\ Cardinality(U) \in Nat /\ Weights(w, U)
        /\ Weights(w, U \cup {x}) /\ w[x] \in Nat /\ w[x] >= c
    BY FS_Subset, FS_CardinalityType DEF Weights
  <2>2. SumOver(w, U \cup {x}) = w[x] + SumOver(w, U) /\ SumOver(w, U) \in Nat
    BY <2>1, SumOverAdd, SumOverSame
  <2>3. Cardinality(U \cup {x}) = Cardinality(U) + 1
    BY <2>1, FS_AddElement
  <2>4. c * Cardinality(U) <= SumOver(w, U)
    OBVIOUS
  <2> DEFINE n == Cardinality(U)  t == SumOver(w, U)
  <2>5. n \in Nat /\ t \in Nat /\ c * n <= t
    BY <2>1, <2>2, <2>4
  <2> HIDE DEF n, t
  <2>6. c * (n + 1) = c * n + c /\ c * n \in Nat
    BY <2>5
  <2>7. c * (n + 1) <= w[x] + t
    BY <2>1, <2>5, <2>6
  <2>8. c * Cardinality(U \cup {x}) <= SumOver(w, U \cup {x})
    BY <2>2, <2>3, <2>7 DEF n, t
  <2> QED
    BY <2>8
<1>3. S \in A
  <2> HIDE DEF A
  <2>1. A \in SUBSET (SUBSET S)
    BY DEF A
  <2> QED
    BY <1>1, <1>2, <2>1, SubsetsByInduction
<1> QED
  BY <1>3

(* f gives the elements of S their names, one to one. *)
Naming(f, S, Names) ==
  /\ \A x, y \in S : f[x] = f[y] => x = y
  /\ Names = {f[e] : e \in S}

(* A sum is the same when its elements are renamed one to one.             *)
LEMMA SumOverRenamed ==
  ASSUME NEW S, IsFiniteSet(S), NEW w, Weights(w, S), NEW f, NEW Names,
         Naming(f, S, Names), NEW v, \A e \in S : v[f[e]] = w[e]
  PROVE  SumOver(v, Names) = SumOver(w, S) /\ IsFiniteSet(Names)
<1> USE DEF Naming
<1> DEFINE Im(U) == {f[e] : e \in U}
           A == {U \in SUBSET S : IsFiniteSet(Im(U)) /\ SumOver(v, Im(U)) = SumOver(w, U)}
<1>1. {} \in A
  <2>1. Im({}) = {}
    OBVIOUS
  <2> QED
    BY <2>1, FS_EmptySet, SumOverEmpty
<1>2. ASSUME NEW U \in A, NEW x \in S \ U PROVE U \cup {x} \in A
  <2>1. IsFiniteSet(U) /\ Weights(w, U \cup {x})
    BY FS_Subset DEF Weights
  <2>2. SumOver(w, U \cup {x}) = w[x] + SumOver(w, U)
    BY <2>1, SumOverAdd
  <2>3. Im(U \cup {x}) = Im(U) \cup {f[x]} /\ f[x] \notin Im(U)
    OBVIOUS
  <2>4. IsFiniteSet(Im(U)) /\ SumOver(v, Im(U)) = SumOver(w, U)
    OBVIOUS
  <2>5. Weights(v, Im(U) \cup {f[x]})
    BY DEF Weights
  <2> DEFINE I == Im(U)
  <2> HIDE DEF A, Im
  <2>6. IsFiniteSet(I \cup {f[x]}) /\ SumOver(v, I \cup {f[x]}) = v[f[x]] + SumOver(v, I)
    BY <2>3, <2>4, <2>5, FS_AddElement, SumOverAdd
  <2>7. SumOver(v, Im(U \cup {x})) = SumOver(w, U \cup {x}) /\ IsFiniteSet(Im(U \cup {x}))
    BY <2>2, <2>3, <2>4, <2>6
  <2> QED
    BY <2>7 DEF A
<1>3. S \in A
  <2> HIDE DEF A
  <2>1. A \in SUBSET (SUBSET S)
    BY DEF A
  <2> QED
    BY <1>1, <1>2, <2>1, SubsetsByInduction
<1> QED
  BY <1>3
=============================================================================
