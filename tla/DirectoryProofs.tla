--------------------------- MODULE DirectoryProofs --------------------------
(***************************************************************************)
(* The segment for every number of buckets, rows and keys: after any       *)
(* sequence of insertions, deletions, probes and purges every entry is on  *)
(* one chain or on the free list, once.  The lemmas also say which entries *)
(* an operation takes from the chains and which it puts there.             *)
(***************************************************************************)
EXTENDS Directory, InductionTheorems, SequenceTheorems

USE ShapeAssumption, KeyAssumption

-----------------------------------------------------------------------------
(* Rows and buckets.                                                       *)

Firsts == {Row(b, 0) : b \in Buckets}

Rows == 0 .. (Depth - 1)

(* Every entry is one row of one bucket.                                   *)
LEMMA RowIsSlot ==
  ASSUME NEW b \in Buckets, NEW l \in Rows
  PROVE  Row(b, l) \in Slots
<1>1. b \in Nat /\ b + 1 <= NBuckets /\ b + 1 \in Nat /\ NBuckets \in Nat
  BY DEF Buckets
<1>2. Depth * (b + 1) <= Depth * NBuckets
  BY <1>1, ProductMonotonic
<1>3. Depth * (b + 1) = b * Depth + Depth /\ Depth * NBuckets = NBuckets * Depth
      /\ b * Depth >= 0
  BY <1>1, ProductMonotonic
<1> DEFINE x == b * Depth  y == NBuckets * Depth
<1>4. x \in Int /\ y \in Int /\ x >= 0 /\ x + Depth <= y
  BY <1>1, <1>2, <1>3
<1> HIDE DEF x, y
<1>5. x + l + 1 \in 1 .. y
  BY <1>4 DEF Rows
<1> QED
  BY <1>5 DEF x, y, Row, Slots

LEMMA RowsDiffer ==
  ASSUME NEW b \in Buckets, NEW l \in Rows, NEW c \in Buckets, NEW m \in Rows,
         Row(b, l) = Row(c, m)
  PROVE  b = c /\ l = m
<1>1. b \in Nat /\ c \in Nat
  BY DEF Buckets
<1>2. Depth * b + l = Depth * c + m
  <2> DEFINE x == b * Depth  y == c * Depth
  <2>1. x \in Int /\ y \in Int /\ x + l + 1 = y + m + 1
    BY <1>1 DEF Row
  <2> HIDE DEF x, y
  <2>2. x + l = y + m
    BY <2>1 DEF Rows
  <2> QED
    BY <1>1, <2>2 DEF x, y
<1> QED
  BY <1>1, <1>2, DivisionUnique DEF Rows

LEMMA DepthDivides ==
  ASSUME NEW n \in Nat
  PROVE  n = Depth * (n \div Depth) + (n % Depth) /\ n % Depth \in Rows /\ n \div Depth \in Nat
<1>1. Depth \in Nat \ {0}
  OBVIOUS
<1>2. n = Depth * (n \div Depth) + (n % Depth) /\ n % Depth \in 0 .. (Depth - 1)
  BY <1>1, DivisionParts
<1>3. n \div Depth \in Nat
  BY <1>1, QuotientNatural
<1> QED
  BY <1>2, <1>3 DEF Rows

LEMMA SlotIsRow ==
  ASSUME NEW s \in Slots
  PROVE  \E b \in Buckets : \E l \in Rows : s = Row(b, l)
<1> DEFINE b == (s - 1) \div Depth
           l == (s - 1) % Depth
<1>1. s - 1 \in Nat /\ s - 1 < NBuckets * Depth /\ s \in Int
  BY DEF Slots
<1>2. s - 1 = Depth * b + l /\ l \in Rows /\ b \in Nat
  BY <1>1, DepthDivides
<1> HIDE DEF b, l
<1>3. b < NBuckets
  <2> SUFFICES ASSUME NBuckets <= b PROVE FALSE
    BY <1>2
  <2>1. Depth * NBuckets <= Depth * b /\ Depth * NBuckets = NBuckets * Depth
    BY <1>2, ProductMonotonic
  <2> DEFINE x == Depth * b  y == NBuckets * Depth
  <2>2. x \in Int /\ y \in Int /\ y <= x /\ s - 1 = x + l /\ s - 1 < y
    BY <1>1, <1>2, <2>1
  <2> HIDE DEF x, y
  <2> QED
    BY <1>1, <1>2, <2>2 DEF Rows
<1>4. b \in Buckets
  BY <1>2, <1>3 DEF Buckets
<1>5. s = Row(b, l)
  <2>1. Depth * b = b * Depth
    BY <1>2
  <2> QED
    BY <1>1, <1>2, <2>1 DEF Row, Rows
<1> QED
  BY <1>2, <1>4, <1>5

LEMMA FirstIsRow0 ==
  ASSUME NEW b \in Buckets, NEW l \in Rows
  PROVE  IsRow0(Row(b, l)) <=> l = 0
<1> DEFINE m == b * Depth + l
<1>1. b \in Nat /\ m = Depth * b + l /\ m \in Nat /\ Row(b, l) - 1 = m
  <2>1. b \in Nat /\ b * Depth = Depth * b /\ b * Depth \in Nat
    BY ProductMonotonic DEF Buckets
  <2> QED
    BY <2>1 DEF Rows, Row
<1> DEFINE q == m \div Depth  r == m % Depth
<1>2. m = Depth * q + r /\ r \in Rows /\ q \in Nat
  <2> HIDE DEF m
  <2> QED
    BY <1>1, DepthDivides
<1>3. r = l
  <2>1. Depth * b + l = Depth * q + r
    BY <1>1, <1>2
  <2>2. Depth \in Nat \ {0} /\ b \in Nat /\ q \in Nat
    BY <1>1, <1>2
  <2>3. l \in 0 .. (Depth - 1) /\ r \in 0 .. (Depth - 1)
    BY <1>2 DEF Rows
  <2> HIDE DEF m, q, r
  <2> QED
    BY <2>1, <2>2, <2>3, DivisionUnique
<1> QED
  BY <1>1, <1>3 DEF IsRow0

LEMMA FirstsAre ==
  /\ Firsts \subseteq Slots
  /\ \A s \in Slots : s \in Firsts <=> IsRow0(s)
  /\ \A b \in Buckets : \A l \in Rows : Row(b, l) \in Firsts <=> l = 0
<1>1. 0 \in Rows
  BY DEF Rows
<1>2. Firsts \subseteq Slots
  BY <1>1, RowIsSlot DEF Firsts
<1>3. ASSUME NEW b \in Buckets, NEW l \in Rows PROVE Row(b, l) \in Firsts <=> l = 0
  BY <1>1, RowsDiffer DEF Firsts
<1>4. ASSUME NEW s \in Slots PROVE s \in Firsts <=> IsRow0(s)
  <2>1. PICK b \in Buckets, l \in Rows : s = Row(b, l)
    BY SlotIsRow
  <2> QED
    BY <1>3, <2>1, FirstIsRow0
<1> QED
  BY <1>2, <1>3, <1>4

LEMMA SlotsFinite == /\ IsFiniteSet(Slots) /\ Cardinality(Slots) \in Nat /\ Nil \notin Slots
                     /\ IsFiniteSet(Buckets)
<1>1. NBuckets * Depth \in Nat /\ NBuckets \in Nat
  BY ProductMonotonic
<1>2. IsFiniteSet(Slots) /\ IsFiniteSet(Buckets)
  BY <1>1, FS_Interval DEF Slots, Buckets
<1> QED
  BY <1>2, FS_CardinalityType DEF Slots, Nil

-----------------------------------------------------------------------------
(* Chains and the free list.  Each entry of D has a home, a bucket or the  *)
(* free list, and a rank; a list holds the entries of its home by rank.    *)

Spare == -1

Homes == Buckets \cup {Spare}

Pointers == Slots \cup {Nil}

LinkTypes(nx, fr, own, rank, D) ==
  /\ nx \in [Slots -> Pointers] /\ D \in SUBSET Slots /\ Firsts \subseteq D
  /\ own \in [Slots -> Homes] /\ rank \in [Slots -> Int]
  /\ \A b \in Buckets : own[Row(b, 0)] = b
  /\ fr \in D \cup {Nil}
  /\ fr # Nil => own[fr] = Spare
  /\ \A s \in D : nx[s] \in D \cup {Nil}

(* A list begins with the entry of the lowest rank.                        *)
Begins(fr, own, rank, D) ==
  \A s \in D : /\ own[s] = Spare => fr # Nil /\ rank[fr] <= rank[s]
               /\ own[s] # Spare => rank[Row(own[s], 0)] <= rank[s]

Ordered(own, rank, D) ==
  \A s, t \in D : own[s] = own[t] /\ rank[s] = rank[t] => s = t

(* The next entry is that of the next rank.                                *)
Follows(nx, own, rank, D) ==
  /\ \A s \in D : nx[s] # Nil => own[nx[s]] = own[s] /\ rank[s] < rank[nx[s]]
  /\ \A s, t \in D : nx[s] # Nil /\ own[t] = own[s] =>
                       rank[t] <= rank[s] \/ rank[nx[s]] <= rank[t]
  /\ \A s, t \in D : nx[s] = Nil /\ own[t] = own[s] => rank[t] <= rank[s]

Linked(nx, fr, own, rank, D) ==
  /\ LinkTypes(nx, fr, own, rank, D) /\ Begins(fr, own, rank, D)
  /\ Ordered(own, rank, D) /\ Follows(nx, own, rank, D)

With(f, e, v) == [f EXCEPT ![e] = v]

(* The entry after a first entry is not a first one.                       *)
LEMMA NextNotFirst ==
  ASSUME NEW nx, NEW fr, NEW own, NEW rank, NEW D, Linked(nx, fr, own, rank, D),
         NEW s \in D, nx[s] # Nil
  PROVE  nx[s] \notin Firsts /\ nx[s] # fr /\ nx[s] \in D /\ nx[s] # s
<1>1. nx[s] \in D /\ own[nx[s]] = own[s] /\ rank[s] < rank[nx[s]]
      /\ rank[s] \in Int /\ rank[nx[s]] \in Int
  BY DEF Linked, LinkTypes, Follows
<1>2. ASSUME NEW b \in Buckets, nx[s] = Row(b, 0) PROVE FALSE
  <2>1. own[s] = b /\ own[s] # Spare
    BY <1>1, <1>2 DEF Linked, LinkTypes, Buckets, Spare
  <2>2. rank[Row(b, 0)] <= rank[s]
    BY <2>1 DEF Linked, Begins
  <2> QED
    BY <1>1, <1>2, <2>2
<1>3. ASSUME nx[s] = fr PROVE FALSE
  <2>1. fr # Nil /\ own[s] = Spare
    BY <1>1, <1>3 DEF Linked, LinkTypes
  <2>2. rank[fr] <= rank[s]
    BY <2>1 DEF Linked, Begins
  <2> QED
    BY <1>1, <1>3, <2>2
<1> QED
  BY <1>1, <1>2, <1>3 DEF Firsts

(* An entry is put before the free list.                                   *)
FrontRank(fr, rank) == IF fr = Nil THEN 0 ELSE rank[fr] - 1

LEMMA PushLinks ==
  ASSUME NEW nx, NEW fr, NEW own, NEW rank, NEW D, Linked(nx, fr, own, rank, D),
         NEW e \in Slots \ D
  PROVE  Linked(With(nx, e, fr), e, With(own, e, Spare), With(rank, e, FrontRank(fr, rank)),
                D \cup {e})
<1> DEFINE n == With(nx, e, fr)
           o == With(own, e, Spare)
           r == With(rank, e, FrontRank(fr, rank))
           E == D \cup {e}
<1>0. /\ nx \in [Slots -> Pointers] /\ D \in SUBSET Slots /\ Firsts \subseteq D
      /\ own \in [Slots -> Homes] /\ rank \in [Slots -> Int]
      /\ \A b \in Buckets : own[Row(b, 0)] = b
      /\ fr \in D \cup {Nil} /\ (fr # Nil => own[fr] = Spare)
      /\ \A s \in D : nx[s] \in D \cup {Nil}
  BY DEF Linked, LinkTypes
<1>1. FrontRank(fr, rank) \in Int /\ fr \in Pointers /\ Spare \in Homes
  BY <1>0 DEF FrontRank, Pointers, Homes
<1>2. /\ n \in [Slots -> Pointers] /\ n[e] = fr /\ \A s \in Slots : s # e => n[s] = nx[s]
      /\ o \in [Slots -> Homes] /\ o[e] = Spare /\ \A s \in Slots : s # e => o[s] = own[s]
      /\ r \in [Slots -> Int] /\ r[e] = FrontRank(fr, rank)
      /\ \A s \in Slots : s # e => r[s] = rank[s]
  <2>1. n \in [Slots -> Pointers] /\ n[e] = fr /\ \A s \in Slots : s # e => n[s] = nx[s]
    BY <1>0, <1>1 DEF With
  <2>2. o \in [Slots -> Homes] /\ o[e] = Spare /\ \A s \in Slots : s # e => o[s] = own[s]
    BY <1>0, <1>1 DEF With
  <2>3. /\ r \in [Slots -> Int] /\ r[e] = FrontRank(fr, rank)
        /\ \A s \in Slots : s # e => r[s] = rank[s]
    BY <1>0, <1>1 DEF With
  <2> QED
    BY <2>1, <2>2, <2>3
<1>3. /\ e \in Slots /\ e # Nil /\ \A s \in D : s # e /\ s \in Slots /\ s # Nil
      /\ \A b \in Buckets : Row(b, 0) \in D
  BY <1>0, SlotsFinite DEF Firsts
<1> HIDE DEF n, o, r
<1>4. LinkTypes(n, e, o, r, E)
  BY <1>0, <1>2, <1>3 DEF LinkTypes
<1>5. \A s \in D : o[s] = own[s] /\ r[s] = rank[s] /\ n[s] = nx[s] /\ rank[s] \in Int
  BY <1>0, <1>2, <1>3
<1>6. \A s \in D : own[s] = Spare => r[e] < rank[s]
  <2> TAKE s \in D
  <2> HAVE own[s] = Spare
  <2>1. fr # Nil /\ rank[fr] <= rank[s] /\ fr \in D
    BY <1>0 DEF Linked, Begins
  <2> QED
    BY <1>2, <1>5, <2>1 DEF FrontRank
<1>7. r[e] \in Int /\ \A s \in D : own[s] # Spare => own[s] \in Buckets
  BY <1>0, <1>1, <1>2, <1>3 DEF Homes
<1>8. Begins(e, o, r, E)
  BY <1>2, <1>3, <1>5, <1>6, <1>7 DEF Begins, Linked
<1>9. Ordered(o, r, E)
  BY <1>2, <1>5, <1>6 DEF Ordered, Linked
<1>10. Follows(n, o, r, E)
  <2>1. ASSUME NEW s \in E, n[s] # Nil PROVE o[n[s]] = o[s] /\ r[s] < r[n[s]]
    BY <1>0, <1>2, <1>5, <1>6, <2>1 DEF Linked, Follows
  <2>2. ASSUME NEW s \in E, NEW t \in E, n[s] # Nil, o[t] = o[s]
        PROVE  r[t] <= r[s] \/ r[n[s]] <= r[t]
    <3>1. CASE s = e
      <4>1. CASE t = e
        BY <1>7, <3>1, <4>1
      <4>2. CASE t # e
        BY <1>0, <1>2, <1>5, <2>2, <3>1, <4>2 DEF Linked, Begins
      <4> QED
        BY <4>1, <4>2
    <3>2. CASE s # e
      <4>1. CASE t = e
        <5>1. own[s] = Spare
          BY <1>2, <1>5, <2>2, <3>2, <4>1
        <5> QED
          BY <1>5, <1>6, <1>7, <3>2, <4>1, <5>1
      <4>2. CASE t # e
        BY <1>0, <1>5, <2>2, <3>2, <4>2 DEF Linked, Follows
      <4> QED
        BY <4>1, <4>2
    <3> QED
      BY <3>1, <3>2
  <2>3. ASSUME NEW s \in E, NEW t \in E, n[s] = Nil, o[t] = o[s]
        PROVE  r[t] <= r[s]
    <3>1. CASE s = e
      BY <1>2, <1>5, <1>7, <2>3, <3>1 DEF Linked, Begins
    <3>2. CASE s # e
      BY <1>2, <1>5, <1>6, <1>7, <2>3, <3>2 DEF Linked, Follows
    <3> QED
      BY <3>1, <3>2
  <2> QED
    BY <2>1, <2>2, <2>3 DEF Follows
<1> QED
  BY <1>4, <1>8, <1>9, <1>10 DEF Linked, n, o, r

(* The entry e after p is taken out of its list.                           *)
LEMMA CutLinks ==
  ASSUME NEW nx, NEW fr, NEW own, NEW rank, NEW D, Linked(nx, fr, own, rank, D),
         NEW p \in D, NEW e \in D, nx[p] = e
  PROVE  Linked(With(nx, p, nx[e]), fr, own, rank, D \ {e})
<1> DEFINE n == With(nx, p, nx[e])
           E == D \ {e}
<1>0. /\ nx \in [Slots -> Pointers] /\ D \in SUBSET Slots /\ Firsts \subseteq D
      /\ own \in [Slots -> Homes] /\ rank \in [Slots -> Int]
      /\ \A b \in Buckets : own[Row(b, 0)] = b
      /\ fr \in D \cup {Nil} /\ (fr # Nil => own[fr] = Spare)
      /\ \A s \in D : nx[s] \in D \cup {Nil}
  BY DEF Linked, LinkTypes
<1>1. e # Nil /\ e \notin Firsts /\ e # fr /\ e # p /\ e \in Slots /\ p \in Slots
  BY <1>0, SlotsFinite, NextNotFirst
<1>2. n \in [Slots -> Pointers] /\ n[p] = nx[e] /\ \A s \in Slots : s # p => n[s] = nx[s]
  <2>1. nx[e] \in Pointers
    BY <1>0, <1>1
  <2> QED
    BY <1>0, <1>1, <2>1 DEF With
<1>3. \A s \in E : s \in D /\ s \in Slots /\ rank[s] \in Int
  BY <1>0
<1>4. own[p] = own[e] /\ rank[p] < rank[e] /\ rank[p] \in Int /\ rank[e] \in Int
  BY <1>0, <1>1 DEF Linked, Follows
<1>5. \A s \in D : nx[s] = e => s = p
  <2> TAKE s \in D
  <2> HAVE nx[s] = e
  <2>1. own[s] = own[e] /\ rank[s] < rank[e] /\ rank[s] \in Int
    BY <1>0, <1>1 DEF Linked, Follows
  <2>2. rank[s] <= rank[p] /\ rank[p] <= rank[s]
    BY <1>1, <1>4, <2>1 DEF Linked, Follows
  <2> QED
    BY <1>4, <2>1, <2>2 DEF Linked, Ordered
<1>6. nx[e] # e
  BY <1>1, NextNotFirst
<1> HIDE DEF n
<1>7. LinkTypes(n, fr, own, rank, E)
  <2>1. \A s \in E : n[s] \in E \cup {Nil}
    BY <1>0, <1>1, <1>2, <1>3, <1>5, <1>6
  <2> QED
    BY <1>0, <1>1, <1>2, <2>1 DEF LinkTypes
<1>8. Begins(fr, own, rank, E)
  BY DEF Linked, Begins
<1>9. Ordered(own, rank, E)
  BY DEF Linked, Ordered
<1>10. Follows(n, own, rank, E)
  <2>1. ASSUME NEW s \in E, n[s] # Nil PROVE own[n[s]] = own[s] /\ rank[s] < rank[n[s]]
    <3>1. CASE s = p
      <4>1. nx[e] # Nil /\ own[nx[e]] = own[e] /\ rank[e] < rank[nx[e]] /\ rank[nx[e]] \in Int
        BY <1>0, <1>2, <2>1, <3>1 DEF Linked, Follows
      <4> QED
        BY <1>2, <1>4, <3>1, <4>1
    <3>2. CASE s # p
      BY <1>2, <1>3, <2>1, <3>2 DEF Linked, Follows
    <3> QED
      BY <3>1, <3>2
  <2>2. ASSUME NEW s \in E, NEW t \in E, n[s] # Nil, own[t] = own[s]
        PROVE  rank[t] <= rank[s] \/ rank[n[s]] <= rank[t]
    <3>1. CASE s = p
      <4>1. nx[e] # Nil /\ (rank[t] <= rank[e] \/ rank[nx[e]] <= rank[t])
        BY <1>2, <1>3, <1>4, <2>2, <3>1 DEF Linked, Follows
      <4>2. rank[t] <= rank[p] \/ rank[e] <= rank[t]
        BY <1>1, <1>3, <2>2, <3>1 DEF Linked, Follows
      <4>3. rank[t] # rank[e]
        BY <1>3, <1>4, <2>2, <3>1 DEF Linked, Ordered
      <4> QED
        BY <1>2, <1>3, <1>4, <3>1, <4>1, <4>2, <4>3
    <3>2. CASE s # p
      BY <1>2, <1>3, <2>2, <3>2 DEF Linked, Follows
    <3> QED
      BY <3>1, <3>2
  <2>3. ASSUME NEW s \in E, NEW t \in E, n[s] = Nil, own[t] = own[s]
        PROVE  rank[t] <= rank[s]
    <3>1. CASE s = p
      <4>1. nx[e] = Nil /\ rank[t] <= rank[e]
        BY <1>2, <1>3, <1>4, <2>3, <3>1 DEF Linked, Follows
      <4>2. rank[t] <= rank[p] \/ rank[e] <= rank[t]
        BY <1>1, <1>3, <2>3, <3>1 DEF Linked, Follows
      <4>3. rank[t] # rank[e]
        BY <1>3, <1>4, <2>3, <3>1 DEF Linked, Ordered
      <4> QED
        BY <1>3, <1>4, <3>1, <4>1, <4>2, <4>3
    <3>2. CASE s # p
      BY <1>2, <1>3, <2>3, <3>2 DEF Linked, Follows
    <3> QED
      BY <3>1, <3>2
  <2> QED
    BY <2>1, <2>2, <2>3 DEF Follows
<1> QED
  BY <1>7, <1>8, <1>9, <1>10 DEF Linked, n

(* The first entry of the free list is taken out.                          *)
LEMMA FrontLinks ==
  ASSUME NEW nx, NEW fr, NEW own, NEW rank, NEW D, Linked(nx, fr, own, rank, D), fr # Nil
  PROVE  Linked(nx, nx[fr], own, rank, D \ {fr})
<1> DEFINE E == D \ {fr}
<1>0. /\ nx \in [Slots -> Pointers] /\ D \in SUBSET Slots /\ Firsts \subseteq D
      /\ own \in [Slots -> Homes] /\ rank \in [Slots -> Int]
      /\ \A b \in Buckets : own[Row(b, 0)] = b
      /\ fr \in D /\ own[fr] = Spare
      /\ \A s \in D : nx[s] \in D \cup {Nil}
  BY DEF Linked, LinkTypes
<1>1. \A s \in D : nx[s] # Nil => nx[s] # fr
  BY NextNotFirst
<1>2. \A b \in Buckets : Row(b, 0) # fr
  BY <1>0 DEF Spare, Buckets
<1>3. nx[fr] # Nil => own[nx[fr]] = Spare /\ rank[nx[fr]] \in Int
  BY <1>0 DEF Linked, Follows
<1>4. LinkTypes(nx, nx[fr], own, rank, E)
  <2>1. Firsts \subseteq E
    BY <1>0, <1>2 DEF Firsts
  <2>2. \A s \in E : nx[s] \in E \cup {Nil}
    BY <1>0, <1>1
  <2>3. nx[fr] \in E \cup {Nil}
    BY <1>0, <1>1
  <2> QED
    BY <1>0, <1>3, <2>1, <2>2, <2>3 DEF LinkTypes
<1>5. ASSUME NEW s \in E, own[s] = Spare PROVE nx[fr] # Nil /\ rank[nx[fr]] <= rank[s]
  <2>1. rank[fr] <= rank[s] /\ s \in D /\ rank[s] \in Int /\ rank[fr] \in Int
    BY <1>0, <1>5 DEF Linked, Begins
  <2>2. rank[fr] # rank[s]
    BY <1>0, <1>5, <2>1 DEF Linked, Ordered
  <2>3. nx[fr] # Nil
    <3> SUFFICES ASSUME nx[fr] = Nil PROVE FALSE
      OBVIOUS
    <3>1. rank[s] <= rank[fr]
      BY <1>0, <1>5, <2>1 DEF Linked, Follows
    <3> QED
      BY <2>1, <2>2, <3>1
  <2>4. rank[s] <= rank[fr] \/ rank[nx[fr]] <= rank[s]
    BY <1>0, <1>5, <2>1, <2>3 DEF Linked, Follows
  <2> QED
    BY <2>1, <2>2, <2>3, <2>4
<1>6. Begins(nx[fr], own, rank, E)
  BY <1>5 DEF Linked, Begins
<1>7. Ordered(own, rank, E) /\ Follows(nx, own, rank, E)
  BY DEF Linked, Ordered, Follows
<1> QED
  BY <1>4, <1>6, <1>7 DEF Linked

(* An entry is put into the chain of bucket b, after the first.            *)
SecondRank(rank, r, e) == With(With(rank, r, rank[r] - 1), e, rank[r])

LEMMA InsertLinks ==
  ASSUME NEW nx, NEW fr, NEW own, NEW rank, NEW D, Linked(nx, fr, own, rank, D),
         NEW e \in Slots \ D, NEW b \in Buckets
  PROVE  LET r == Row(b, 0) IN
         Linked(With(With(nx, e, nx[r]), r, e), fr, With(own, e, b), SecondRank(rank, r, e),
                D \cup {e})
<1> DEFINE f == Row(b, 0)
           n == With(With(nx, e, nx[f]), f, e)
           o == With(own, e, b)
           r == SecondRank(rank, f, e)
           E == D \cup {e}
<1>0. /\ nx \in [Slots -> Pointers] /\ D \in SUBSET Slots /\ Firsts \subseteq D
      /\ own \in [Slots -> Homes] /\ rank \in [Slots -> Int]
      /\ \A c \in Buckets : own[Row(c, 0)] = c
      /\ fr \in D \cup {Nil} /\ (fr # Nil => own[fr] = Spare)
      /\ \A s \in D : nx[s] \in D \cup {Nil}
  BY DEF Linked, LinkTypes
<1>1. f \in D /\ f \in Slots /\ own[f] = b /\ b \in Homes /\ b # Spare /\ f # e /\ e \in Slots
      /\ rank[f] \in Int /\ nx[f] \in D \cup {Nil} /\ nx[f] \in Pointers
      /\ e \in Pointers /\ e # Nil
  BY <1>0, SlotsFinite DEF Firsts, Homes, Spare, Buckets, Pointers
<1>2. /\ n \in [Slots -> Pointers] /\ n[e] = nx[f] /\ n[f] = e
      /\ \A s \in Slots : s # e /\ s # f => n[s] = nx[s]
  <2> DEFINE x == With(nx, e, nx[f])
  <2> HIDE DEF f
  <2>1. x \in [Slots -> Pointers] /\ x[e] = nx[f] /\ \A s \in Slots : s # e => x[s] = nx[s]
    BY <1>0, <1>1 DEF With
  <2> HIDE DEF x
  <2>2. /\ With(x, f, e) \in [Slots -> Pointers] /\ With(x, f, e)[f] = e
        /\ \A s \in Slots : s # f => With(x, f, e)[s] = x[s]
    BY <1>1, <2>1 DEF With
  <2> QED
    BY <1>1, <2>1, <2>2 DEF x
<1>3. o \in [Slots -> Homes] /\ o[e] = b /\ \A s \in Slots : s # e => o[s] = own[s]
  BY <1>0, <1>1 DEF With
<1>4. /\ r \in [Slots -> Int] /\ r[e] = rank[f] /\ r[f] = rank[f] - 1
      /\ \A s \in Slots : s # e /\ s # f => r[s] = rank[s]
  <2> DEFINE m == rank[f] - 1
             x == With(rank, f, m)
             y == rank[f]
  <2>0. m \in Int /\ y \in Int
    BY <1>1
  <2> HIDE DEF m, f, y
  <2>1. x \in [Slots -> Int] /\ x[f] = m /\ \A s \in Slots : s # f => x[s] = rank[s]
    BY <1>0, <1>1, <2>0 DEF With
  <2> HIDE DEF x
  <2>2. /\ With(x, e, y) \in [Slots -> Int] /\ With(x, e, y)[e] = y
        /\ \A s \in Slots : s # e => With(x, e, y)[s] = x[s]
    BY <1>1, <2>0, <2>1 DEF With
  <2> QED
    BY <1>1, <2>1, <2>2 DEF x, SecondRank, m, y
<1>5. \A s \in D : s # e /\ s \in Slots /\ o[s] = own[s] /\ rank[s] \in Int
  BY <1>0, <1>3
<1>6. \A s \in D : s # f => r[s] = rank[s] /\ n[s] = nx[s]
  BY <1>2, <1>4, <1>5
<1>7. \A s \in D : own[s] = b => rank[f] <= rank[s]
  BY <1>1 DEF Linked, Begins
<1>8. \A s \in D : own[s] = b /\ s # f => rank[f] < rank[s]
  BY <1>1, <1>5, <1>7 DEF Linked, Ordered
<1>9. \A s \in D : r[s] \in Int /\ r[s] <= rank[s]
  BY <1>4, <1>5, <1>6
<1>10. \A s \in D : nx[s] # f
  <2>1. f \in Firsts
    BY DEF Firsts
  <2> QED
    BY <1>0, <1>1, <2>1, SlotsFinite, NextNotFirst
<1>11. \A s \in D : own[s] # Spare => own[s] \in Buckets /\ Row(own[s], 0) \in D
                                   /\ own[Row(own[s], 0)] = own[s]
  BY <1>0 DEF Homes, Firsts
<1>12. \A c \in Buckets : Row(c, 0) \in D
  BY <1>0 DEF Firsts
<1> HIDE DEF n, o, r, f
<1>13. LinkTypes(n, fr, o, r, E)
  <2>1. \A s \in E : n[s] \in E \cup {Nil}
    BY <1>0, <1>1, <1>2, <1>5, <1>6
  <2>2. (\A c \in Buckets : o[Row(c, 0)] = c) /\ (fr # Nil => o[fr] = Spare)
    BY <1>0, <1>5, <1>12
  <2> QED
    BY <1>0, <1>1, <1>2, <1>3, <1>4, <2>1, <2>2 DEF LinkTypes
<1>14. Begins(fr, o, r, E)
  <2>1. ASSUME NEW s \in E, o[s] = Spare PROVE fr # Nil /\ r[fr] <= r[s]
    <3>1. s \in D /\ own[s] = Spare /\ s # f
      BY <1>1, <1>3, <1>5, <2>1
    <3>2. fr # Nil /\ rank[fr] <= rank[s] /\ fr \in D /\ fr # f
      BY <1>0, <1>1, <3>1 DEF Linked, Begins
    <3> QED
      BY <1>6, <3>1, <3>2
  <2>2. ASSUME NEW s \in E, o[s] # Spare PROVE r[Row(o[s], 0)] <= r[s]
    <3>1. CASE s = e
      <4>1. Row(o[s], 0) = f
        BY <1>3, <3>1 DEF f
      <4> QED
        BY <1>1, <1>4, <3>1, <4>1
    <3>2. CASE s # e
      <4> DEFINE h == Row(own[s], 0)
      <4>1. s \in D /\ own[s] = o[s] /\ h \in D /\ rank[h] <= rank[s] /\ own[h] = own[s]
        BY <1>5, <1>11, <2>2, <3>2 DEF Linked, Begins
      <4>2. CASE s = f
        <5>1. h = f
          BY <1>1, <4>1, <4>2 DEF f
        <5> QED
          BY <1>9, <4>1, <4>2, <5>1
      <4>3. CASE s # f
        <5>1. r[h] \in Int /\ r[h] <= rank[h] /\ r[s] = rank[s] /\ rank[h] \in Int
              /\ rank[s] \in Int
          BY <1>5, <1>6, <1>9, <4>1, <4>3
        <5> HIDE DEF h
        <5>2. r[h] <= r[s]
          BY <4>1, <5>1
        <5> QED
          BY <4>1, <5>2 DEF h
      <4> QED
        BY <4>2, <4>3
    <3> QED
      BY <3>1, <3>2
  <2> QED
    BY <2>1, <2>2 DEF Begins
<1>15. Ordered(o, r, E)
  <2> SUFFICES ASSUME NEW s \in E, NEW t \in E, o[s] = o[t], r[s] = r[t] PROVE s = t
    BY DEF Ordered
  <2>1. ASSUME NEW x \in D, o[x] = b PROVE r[x] # r[e] /\ (x # f => r[x] # r[f])
    BY <1>1, <1>4, <1>5, <1>6, <1>8, <2>1
  <2>2. CASE s = e \/ t = e
    BY <1>3, <1>5, <2>1, <2>2
  <2>3. CASE s \in D /\ t \in D
    <3>1. CASE s = f \/ t = f
      BY <1>1, <1>5, <2>1, <2>3, <3>1
    <3>2. CASE s # f /\ t # f
      BY <1>5, <1>6, <2>3, <3>2 DEF Linked, Ordered
    <3> QED
      BY <3>1, <3>2
  <2> QED
    BY <2>2, <2>3
<1>16. Follows(n, o, r, E)
  <2>1. ASSUME NEW s \in E, n[s] # Nil PROVE o[n[s]] = o[s] /\ r[s] < r[n[s]]
    <3>1. CASE s = e
      <4>1. nx[f] # Nil /\ nx[f] \in D /\ nx[f] # f /\ own[nx[f]] = b /\ rank[f] < rank[nx[f]]
        BY <1>1, <1>2, <1>10, <2>1, <3>1 DEF Linked, Follows
      <4> QED
        BY <1>2, <1>3, <1>4, <1>5, <1>6, <3>1, <4>1
    <3>2. CASE s = f
      BY <1>1, <1>2, <1>3, <1>4, <1>5, <3>2
    <3>3. CASE s # e /\ s # f
      <4>1. s \in D /\ n[s] = nx[s] /\ nx[s] \in D /\ nx[s] # f
            /\ own[nx[s]] = own[s] /\ rank[s] < rank[nx[s]]
        BY <1>0, <1>5, <1>6, <1>10, <2>1, <3>3 DEF Linked, Follows
      <4> QED
        BY <1>5, <1>6, <3>3, <4>1
    <3> QED
      BY <3>1, <3>2, <3>3
  <2>2. ASSUME NEW s \in E, NEW t \in E, n[s] # Nil, o[t] = o[s]
        PROVE  r[t] <= r[s] \/ r[n[s]] <= r[t]
    <3>1. CASE s = f
      <4>1. n[s] = e /\ r[e] = rank[f] /\ o[t] = b
        BY <1>1, <1>2, <1>4, <1>5, <2>2, <3>1
      <4>2. CASE t = e \/ t = f
        BY <1>1, <1>4, <3>1, <4>1, <4>2
      <4>3. CASE t # e /\ t # f
        BY <1>5, <1>6, <1>7, <4>1, <4>3
      <4> QED
        BY <4>2, <4>3
    <3>2. CASE s = e
      <4>1. n[s] = nx[f] /\ nx[f] # Nil /\ nx[f] \in D /\ nx[f] # f /\ o[t] = b
        BY <1>1, <1>2, <1>3, <1>10, <2>2, <3>2
      <4>2. CASE t = e \/ t = f
        BY <1>1, <1>4, <3>2, <4>1, <4>2
      <4>3. CASE t # e /\ t # f
        <5>1. t \in D /\ own[t] = own[f]
          BY <1>1, <1>5, <4>1, <4>3
        <5>2. rank[t] <= rank[f] \/ rank[nx[f]] <= rank[t]
          BY <1>1, <4>1, <5>1 DEF Linked, Follows
        <5> QED
          BY <1>4, <1>6, <3>2, <4>1, <4>3, <5>1, <5>2
      <4> QED
        BY <4>2, <4>3
    <3>3. CASE s # e /\ s # f
      <4>1. s \in D /\ n[s] = nx[s] /\ nx[s] # Nil /\ nx[s] \in D /\ nx[s] # f
            /\ r[s] = rank[s] /\ r[nx[s]] = rank[nx[s]] /\ rank[s] \in Int
        BY <1>0, <1>5, <1>6, <1>10, <2>2, <3>3
      <4>2. CASE t = e \/ t = f
        <5>1. own[s] = b
          BY <1>1, <1>3, <1>5, <2>2, <3>3, <4>1, <4>2
        <5> QED
          BY <1>1, <1>4, <1>8, <3>3, <4>1, <4>2, <5>1
      <4>3. CASE t # e /\ t # f
        <5>1. t \in D /\ own[t] = own[s] /\ r[t] = rank[t]
          BY <1>5, <1>6, <2>2, <4>1, <4>3
        <5> QED
          BY <4>1, <5>1 DEF Linked, Follows
      <4> QED
        BY <4>2, <4>3
    <3> QED
      BY <3>1, <3>2, <3>3
  <2>3. ASSUME NEW s \in E, NEW t \in E, n[s] = Nil, o[t] = o[s]
        PROVE  r[t] <= r[s]
    <3>1. s # f
      BY <1>1, <1>2, <2>3
    <3>2. CASE s = e
      <4>1. nx[f] = Nil /\ o[t] = b
        BY <1>2, <1>3, <2>3, <3>2
      <4>2. CASE t = e \/ t = f
        BY <1>1, <1>4, <3>2, <4>2
      <4>3. CASE t # e /\ t # f
        <5>1. t \in D /\ own[t] = own[f] /\ r[t] = rank[t]
          BY <1>1, <1>5, <1>6, <4>1, <4>3
        <5> QED
          BY <1>1, <1>4, <3>2, <4>1, <5>1 DEF Linked, Follows
      <4> QED
        BY <4>2, <4>3
    <3>3. CASE s # e
      <4>1. s \in D /\ nx[s] = Nil /\ r[s] = rank[s] /\ rank[s] \in Int
        BY <1>5, <1>6, <2>3, <3>1, <3>3
      <4>2. CASE t = e \/ t = f
        <5>1. own[s] = b
          BY <1>1, <1>3, <1>5, <2>3, <4>1, <4>2
        <5> QED
          BY <1>1, <1>4, <1>8, <3>1, <4>1, <4>2, <5>1
      <4>3. CASE t # e /\ t # f
        <5>1. t \in D /\ own[t] = own[s] /\ r[t] = rank[t]
          BY <1>5, <1>6, <2>3, <4>1, <4>3
        <5> QED
          BY <4>1, <5>1 DEF Linked, Follows
      <4> QED
        BY <4>2, <4>3
    <3> QED
      BY <3>2, <3>3
  <2> QED
    BY <2>1, <2>2, <2>3 DEF Follows
<1> QED
  BY <1>13, <1>14, <1>15, <1>16 DEF Linked, n, o, r, f

-----------------------------------------------------------------------------
(* The operations on a segment.                                            *)

Segments ==
  [ent : [Slots -> Dirs], next : [Slots -> Pointers], prev : [Slots -> Pointers],
   free : Pointers]

(* The free entries are unused, and their links back are those forward.    *)
Backed(g, own, D) ==
  \A s \in D : own[s] = Spare =>
    /\ g.ent[s].off = 0
    /\ s = g.free => g.prev[s] = Nil
    /\ s # g.free => g.prev[s] \in D /\ g.next[g.prev[s]] = s

Sound(g, own, rank, D) ==
  /\ g \in Segments
  /\ Linked(g.next, g.free, own, rank, D)
  /\ Backed(g, own, D)

(* An unused entry in one of the buckets B is blank and starts an empty    *)
(* chain.                                                                  *)
Tidy(g, own, B) ==
  \A s \in Slots : own[s] \in B /\ g.ent[s].off = 0 =>
                     s \in Firsts /\ g.next[s] = Nil /\ g.ent[s] = EmptyDir

Neat(g, B) == \E own, rank : Sound(g, own, rank, Slots) /\ Tidy(g, own, B)

LEMMA SegmentParts ==
  ASSUME NEW g \in Segments
  PROVE  /\ g.ent \in [Slots -> Dirs] /\ g.next \in [Slots -> Pointers]
         /\ g.prev \in [Slots -> Pointers] /\ g.free \in Pointers
BY DEF Segments

LEMMA LinkedParts ==
  ASSUME NEW nx, NEW fr, NEW own, NEW rank, NEW D, Linked(nx, fr, own, rank, D)
  PROVE  /\ nx \in [Slots -> Pointers] /\ D \in SUBSET Slots /\ Firsts \subseteq D
         /\ own \in [Slots -> Homes] /\ rank \in [Slots -> Int]
         /\ \A b \in Buckets : own[Row(b, 0)] = b
         /\ fr \in D \cup {Nil} /\ (fr # Nil => own[fr] = Spare)
         /\ \A s \in D : nx[s] \in D \cup {Nil}
         /\ \A s \in D : nx[s] # Nil => own[nx[s]] = own[s] /\ rank[s] < rank[nx[s]]
BY DEF Linked, LinkTypes, Follows

(* The predecessor of a free entry is free.                                *)
LEMMA FreeBefore ==
  ASSUME NEW g, NEW own, NEW rank, NEW D, Sound(g, own, rank, D),
         NEW s \in D, own[s] = Spare, s # g.free
  PROVE  g.prev[s] \in D /\ own[g.prev[s]] = Spare /\ g.next[g.prev[s]] = s /\ s # Nil
<1>1. g.prev[s] \in D /\ g.next[g.prev[s]] = s /\ s \in Slots
  BY LinkedParts DEF Sound, Backed
<1>2. s # Nil
  BY <1>1, SlotsFinite
<1> QED
  BY <1>1, <1>2, LinkedParts DEF Sound

LEMMA PushFreeIs ==
  ASSUME NEW g \in Segments, NEW e \in Slots
  PROVE  LET h == PushFree(g, e) IN
           /\ h \in Segments /\ h.ent = g.ent /\ h.next = With(g.next, e, g.free) /\ h.free = e
           /\ h.prev \in [Slots -> Pointers]
           /\ \A s \in Slots : h.prev[s] = IF s = g.free THEN e ELSE g.prev[s]
<1> DEFINE v == [s \in Slots |-> IF s = g.free THEN e ELSE g.prev[s]]
           n == With(g.next, e, g.free)
<1>1. /\ g.ent \in [Slots -> Dirs] /\ g.next \in [Slots -> Pointers]
      /\ g.prev \in [Slots -> Pointers] /\ g.free \in Pointers /\ e \in Pointers
  BY DEF Segments, Pointers
<1>2. v \in [Slots -> Pointers] /\ n \in [Slots -> Pointers]
  BY <1>1 DEF With
<1>3. PushFree(g, e) = [g EXCEPT !.next = n, !.prev = v, !.free = e]
  BY DEF PushFree, With, Segments
<1>4. \A s \in Slots : v[s] = IF s = g.free THEN e ELSE g.prev[s]
  OBVIOUS
<1> HIDE DEF v, n
<1>5. PushFree(g, e) \in Segments
  BY <1>1, <1>2, <1>3 DEF Segments
<1>6. /\ PushFree(g, e).ent = g.ent /\ PushFree(g, e).next = n /\ PushFree(g, e).free = e
      /\ PushFree(g, e).prev = v
  BY <1>3 DEF Segments
<1> QED
  BY <1>2, <1>4, <1>5, <1>6 DEF n

LEMMA PushSound ==
  ASSUME NEW g, NEW own, NEW rank, NEW D, Sound(g, own, rank, D), NEW e \in Slots \ D,
         g.prev[e] = Nil, g.ent[e].off = 0
  PROVE  Sound(PushFree(g, e), With(own, e, Spare), With(rank, e, FrontRank(g.free, rank)),
               D \cup {e})
<1> DEFINE h == PushFree(g, e)
           o == With(own, e, Spare)
           r == With(rank, e, FrontRank(g.free, rank))
<1>1. g \in Segments /\ Linked(g.next, g.free, own, rank, D)
  BY DEF Sound
<1>2. /\ h \in Segments /\ h.ent = g.ent /\ h.next = With(g.next, e, g.free) /\ h.free = e
      /\ \A s \in Slots : h.prev[s] = IF s = g.free THEN e ELSE g.prev[s]
  BY <1>1, PushFreeIs
<1>3. Linked(h.next, h.free, o, r, D \cup {e})
  BY <1>1, <1>2, PushLinks
<1>4. /\ D \in SUBSET Slots /\ own \in [Slots -> Homes] /\ g.free \in D \cup {Nil}
      /\ g.next \in [Slots -> Pointers] /\ e \notin D /\ e \in Slots
  BY <1>1, LinkedParts
<1>5. /\ \A s \in D : o[s] = own[s] /\ h.next[s] = g.next[s] /\ s # e /\ s \in Slots
      /\ h.next[e] = g.free /\ e # g.free
  BY <1>2, <1>4, SlotsFinite DEF With
<1> HIDE DEF h, o, r
<1>6. ASSUME NEW s \in D \cup {e}, o[s] = Spare
      PROVE  /\ h.ent[s].off = 0
             /\ s = h.free => h.prev[s] = Nil
             /\ s # h.free => h.prev[s] \in D \cup {e} /\ h.next[h.prev[s]] = s
  <2>1. CASE s = e
    BY <1>2, <1>5, <2>1
  <2>2. CASE s # e /\ s = g.free
    <3>1. g.ent[s].off = 0
      BY <1>5, <1>6, <2>2 DEF Sound, Backed
    <3> QED
      BY <1>2, <1>5, <1>6, <2>2, <3>1
  <2>3. CASE s # e /\ s # g.free
    <3>1. s \in D /\ own[s] = Spare
      BY <1>5, <1>6, <2>3
    <3>2. g.ent[s].off = 0 /\ g.prev[s] \in D /\ g.next[g.prev[s]] = s
      BY <2>3, <3>1 DEF Sound, Backed
    <3>3. h.prev[s] = g.prev[s]
      BY <1>2, <1>5, <2>3, <3>1
    <3> QED
      BY <1>2, <1>5, <2>3, <3>2, <3>3
  <2> QED
    BY <2>1, <2>2, <2>3
<1>7. Backed(h, o, D \cup {e})
  BY <1>6 DEF Backed
<1> QED
  BY <1>2, <1>3, <1>7 DEF Sound, h, o, r

LEMMA EmptyIsDir == EmptyDir \in Dirs /\ EmptyDir.off = 0
<1>1. 0 \in 0 .. Blocks
  OBVIOUS
<1> QED
  BY <1>1 DEF EmptyDir, Dirs

(* The first half of dir_delete_entry.                                     *)
CutAfter(g, e, p) == [g EXCEPT !.ent[e] = EmptyDir, !.prev[e] = Nil, !.next[p] = g.next[e]]

LEMMA CutAfterIs ==
  ASSUME NEW g \in Segments, NEW e \in Slots, NEW p \in Slots
  PROVE  LET h == CutAfter(g, e, p) IN
           /\ h \in Segments /\ h.ent = With(g.ent, e, EmptyDir)
           /\ h.next = With(g.next, p, g.next[e]) /\ h.prev = With(g.prev, e, Nil)
           /\ h.free = g.free
<1> DEFINE x == With(g.ent, e, EmptyDir)
           n == With(g.next, p, g.next[e])
           v == With(g.prev, e, Nil)
<1>1. /\ g.ent \in [Slots -> Dirs] /\ g.next \in [Slots -> Pointers]
      /\ g.prev \in [Slots -> Pointers] /\ g.free \in Pointers /\ Nil \in Pointers
  BY DEF Segments, Pointers
<1>2. x \in [Slots -> Dirs] /\ n \in [Slots -> Pointers] /\ v \in [Slots -> Pointers]
  BY <1>1, EmptyIsDir DEF With
<1>3. CutAfter(g, e, p) = [g EXCEPT !.ent = x, !.prev = v, !.next = n]
  BY DEF CutAfter, With, Segments
<1> HIDE DEF x, n, v
<1>4. CutAfter(g, e, p) \in Segments
  BY <1>1, <1>2, <1>3 DEF Segments
<1>5. /\ CutAfter(g, e, p).ent = x /\ CutAfter(g, e, p).next = n
      /\ CutAfter(g, e, p).prev = v /\ CutAfter(g, e, p).free = g.free
  BY <1>3 DEF Segments
<1> QED
  BY <1>4, <1>5 DEF x, n, v

LEMMA CutSound ==
  ASSUME NEW g, NEW own, NEW rank, Sound(g, own, rank, Slots),
         NEW e \in Slots, NEW p \in Slots, g.next[p] = e, own[p] # Spare
  PROVE  Sound(CutAfter(g, e, p), own, rank, Slots \ {e})
<1> DEFINE h == CutAfter(g, e, p)
           E == Slots \ {e}
<1>1. g \in Segments /\ Linked(g.next, g.free, own, rank, Slots)
  BY DEF Sound
<1>2. /\ h \in Segments /\ h.ent = With(g.ent, e, EmptyDir)
      /\ h.next = With(g.next, p, g.next[e]) /\ h.prev = With(g.prev, e, Nil)
      /\ h.free = g.free
  BY <1>1, CutAfterIs
<1>3. Linked(h.next, h.free, own, rank, E)
  BY <1>1, <1>2, CutLinks
<1>4. /\ g.ent \in [Slots -> Dirs] /\ g.next \in [Slots -> Pointers]
      /\ g.prev \in [Slots -> Pointers]
  BY <1>1, SegmentParts
<1>5. own[e] # Spare
  <2>1. e # Nil
    BY SlotsFinite
  <2> QED
    BY <1>1, <2>1, LinkedParts
<1>6. \A s \in E : /\ s \in Slots /\ h.ent[s] = g.ent[s] /\ h.prev[s] = g.prev[s]
                   /\ s # p => h.next[s] = g.next[s]
  BY <1>2, <1>4 DEF With
<1> HIDE DEF h
<1>7. ASSUME NEW s \in E, own[s] = Spare
      PROVE  /\ h.ent[s].off = 0
             /\ s = h.free => h.prev[s] = Nil
             /\ s # h.free => h.prev[s] \in E /\ h.next[h.prev[s]] = s
  <2>1. h.ent[s].off = 0 /\ (s = h.free => h.prev[s] = Nil)
    BY <1>2, <1>6, <1>7 DEF Sound, Backed
  <2>2. ASSUME s # h.free PROVE h.prev[s] \in E /\ h.next[h.prev[s]] = s
    <3>1. g.prev[s] \in Slots /\ own[g.prev[s]] = Spare /\ g.next[g.prev[s]] = s
      BY <1>2, <1>7, <2>2, FreeBefore
    <3>2. g.prev[s] # e /\ g.prev[s] # p
      BY <1>5, <3>1
    <3> QED
      BY <1>6, <3>1, <3>2
  <2> QED
    BY <2>1, <2>2
<1>8. Backed(h, own, E)
  BY <1>7 DEF Backed
<1> QED
  BY <1>2, <1>3, <1>8 DEF Sound, h

LEMMA DeleteAfterIs ==
  ASSUME NEW g \in Segments, NEW e \in Slots, NEW p \in Slots, e # p
  PROVE  LET h == DeleteAfter(g, e, p) IN
           /\ h \in Segments /\ h.free = e
           /\ \A s \in Slots : s # e => h.ent[s] = g.ent[s]
           /\ \A s \in Slots : s # e /\ s # p => h.next[s] = g.next[s]
           /\ h.ent[e] = EmptyDir /\ h.next[p] = g.next[e]
<1> DEFINE k == CutAfter(g, e, p)
           h == PushFree(k, e)
<1>1. /\ k \in Segments /\ k.ent = With(g.ent, e, EmptyDir)
      /\ k.next = With(g.next, p, g.next[e]) /\ k.free = g.free
  BY CutAfterIs
<1> HIDE DEF k
<1>2. h \in Segments /\ h.ent = k.ent /\ h.next = With(k.next, e, k.free) /\ h.free = e
  BY <1>1, PushFreeIs
<1>3. g.ent \in [Slots -> Dirs] /\ g.next \in [Slots -> Pointers] /\ k.next \in [Slots -> Pointers]
  BY <1>1, SegmentParts
<1> HIDE DEF h
<1>4. /\ \A s \in Slots : s # e => h.ent[s] = g.ent[s]
      /\ h.ent[e] = EmptyDir
  BY <1>1, <1>2, <1>3 DEF With
<1>5. /\ \A s \in Slots : s # e /\ s # p => h.next[s] = g.next[s]
      /\ h.next[p] = g.next[e]
  BY <1>1, <1>2, <1>3 DEF With
<1>6. DeleteAfter(g, e, p) = h
  BY DEF DeleteAfter, CutAfter, h, k
<1> QED
  BY <1>2, <1>4, <1>5, <1>6

FreedRank(g, rank, e) == With(rank, e, FrontRank(g.free, rank))

LEMMA DeleteAfterSound ==
  ASSUME NEW g, NEW own, NEW rank, Sound(g, own, rank, Slots),
         NEW e \in Slots, NEW p \in Slots, g.next[p] = e, own[p] # Spare
  PROVE  Sound(DeleteAfter(g, e, p), With(own, e, Spare), FreedRank(g, rank, e), Slots)
<1> DEFINE k == CutAfter(g, e, p)
           E == Slots \ {e}
<1>1. Sound(k, own, rank, E) /\ g \in Segments
  BY CutSound DEF Sound
<1>2. k.ent[e].off = 0 /\ k.prev[e] = Nil /\ k.free = g.free
  <2>1. k.ent = With(g.ent, e, EmptyDir) /\ k.prev = With(g.prev, e, Nil) /\ k.free = g.free
    BY <1>1, CutAfterIs
  <2>2. g.ent \in [Slots -> Dirs] /\ g.prev \in [Slots -> Pointers]
    BY <1>1, SegmentParts
  <2> QED
    BY <2>1, <2>2, EmptyIsDir DEF With
<1>3. DeleteAfter(g, e, p) = PushFree(k, e)
  BY DEF DeleteAfter, CutAfter
<1>4. e \in Slots \ E /\ E \cup {e} = Slots
  OBVIOUS
<1> HIDE DEF k, E
<1>5. Sound(PushFree(k, e), With(own, e, Spare), With(rank, e, FrontRank(k.free, rank)),
            E \cup {e})
  BY <1>1, <1>2, <1>4, PushSound
<1> QED
  BY <1>2, <1>3, <1>4, <1>5 DEF FreedRank

(* Entries are rewritten, the free ones not.                               *)
LEMMA Rewritten ==
  ASSUME NEW g, NEW own, NEW rank, Sound(g, own, rank, Slots), NEW x \in [Slots -> Dirs],
         \A s \in Slots : own[s] = Spare => x[s].off = 0
  PROVE  LET h == [g EXCEPT !.ent = x] IN
           /\ Sound(h, own, rank, Slots) /\ h.ent = x /\ h.next = g.next /\ h.free = g.free
           /\ h.prev = g.prev
<1> DEFINE h == [g EXCEPT !.ent = x]
<1>1. g \in Segments /\ Linked(g.next, g.free, own, rank, Slots)
  BY DEF Sound
<1>2. h \in Segments /\ h.ent = x /\ h.next = g.next /\ h.free = g.free /\ h.prev = g.prev
  BY <1>1 DEF Segments
<1> HIDE DEF h
<1>3. Backed(h, own, Slots)
  BY <1>2 DEF Sound, Backed
<1> QED
  BY <1>1, <1>2, <1>3 DEF Sound, h

-----------------------------------------------------------------------------
(* A position e in the chain of bucket b, with its predecessor p.          *)

Position(g, own, b, e, p) ==
  /\ e \in Pointers /\ p \in Pointers
  /\ e # Nil => own[e] = b
  /\ p = Nil /\ e # Nil => e = Row(b, 0)
  /\ p # Nil => own[p] = b /\ g.next[p] = e

(* What the deletion of the entry there does to homes and ranks: h, o and  *)
(* r are what g, own and rank become, and d is the position afterwards.    *)
Dropped(g, own, rank, b, e, p, h, o, r, d) ==
  /\ Sound(h, o, r, Slots) /\ Position(h, o, b, d, p)
  /\ \A s \in Slots : own[s] # b =>
       o[s] = own[s] /\ h.ent[s] = g.ent[s] /\ (own[s] # Spare => h.next[s] = g.next[s])
  /\ \A s \in Slots : o[s] = b =>
       /\ own[s] = b /\ r[s] = rank[s]
       /\ s # e => h.ent[s] = g.ent[s] /\ (s # p => h.next[s] = g.next[s])
  /\ \A s \in Slots : o[s] = own[s] \/ o[s] = Spare
  /\ o[e] = b => /\ e \in Firsts
                 /\ \/ d = Nil /\ h.next[e] = Nil /\ h.ent[e] = EmptyDir
                    \/ /\ d = e /\ g.next[e] # Nil /\ h.ent[e] = g.ent[g.next[e]]
                       /\ o[g.next[e]] = Spare
  /\ \A s \in Slots : own[s] = b /\ o[s] # b /\ s # e => h.ent[e] = g.ent[s] /\ o[e] = b
  /\ d # Nil => /\ rank[e] <= rank[d]
                /\ \E x \in Slots : own[x] = b /\ rank[e] <= rank[x] /\ o[x] # b
  /\ \A s \in Slots : o[s] = b /\ s # e /\ (d # Nil => rank[s] < rank[d]) => rank[s] < rank[e]

LEMMA PositionParts ==
  ASSUME NEW g, NEW own, NEW rank, Sound(g, own, rank, Slots), NEW b \in Buckets,
         NEW e, NEW p, Position(g, own, b, e, p), e # Nil
  PROVE  /\ e \in Slots /\ own[e] = b /\ b # Spare /\ p \in Pointers
         /\ p = Nil => e = Row(b, 0) /\ e \in Firsts
         /\ p # Nil => p \in Slots /\ p # e /\ own[p] = b /\ g.next[p] = e /\ e \notin Firsts
<1>1. e \in Slots /\ own[e] = b /\ b # Spare /\ p \in Pointers
  BY DEF Position, Pointers, Buckets, Spare
<1>2. p = Nil => e = Row(b, 0) /\ e \in Firsts
  BY DEF Position, Firsts
<1>3. ASSUME p # Nil PROVE p \in Slots /\ p # e /\ own[p] = b /\ g.next[p] = e /\ e \notin Firsts
  <2>1. p \in Slots /\ own[p] = b /\ g.next[p] = e
    BY <1>3 DEF Position, Pointers
  <2> QED
    BY <2>1, NextNotFirst DEF Sound
<1> QED
  BY <1>1, <1>2, <1>3

LEMMA ForwardPosition ==
  ASSUME NEW g, NEW own, NEW rank, Sound(g, own, rank, Slots), NEW b \in Buckets,
         NEW e, NEW p, Position(g, own, b, e, p), e # Nil
  PROVE  /\ Position(g, own, b, g.next[e], e)
         /\ g.next[e] # Nil => rank[e] < rank[g.next[e]]
<1>1. e \in Slots /\ own[e] = b
  BY PositionParts
<1>2. Linked(g.next, g.free, own, rank, Slots)
  BY DEF Sound
<1>3. g.next[e] \in Pointers /\ (g.next[e] # Nil => own[g.next[e]] = b /\ rank[e] < rank[g.next[e]])
  BY <1>1, <1>2, LinkedParts DEF Pointers
<1> QED
  BY <1>1, <1>3 DEF Position, Pointers

(* Of the entries in a chain, those before the one after e are those up to *)
(* e.                                                                      *)
LEMMA Before ==
  ASSUME NEW g, NEW own, NEW rank, Sound(g, own, rank, Slots), NEW e \in Slots, NEW s \in Slots,
         own[s] = own[e], s # e, g.next[e] # Nil => rank[s] < rank[g.next[e]]
  PROVE  rank[s] < rank[e]
<1>1. Linked(g.next, g.free, own, rank, Slots)
  BY DEF Sound
<1>2. rank[s] \in Int /\ rank[e] \in Int /\ rank[s] # rank[e]
  BY <1>1, LinkedParts DEF Linked, Ordered
<1>3. CASE g.next[e] = Nil
  BY <1>1, <1>2, <1>3 DEF Linked, Follows
<1>4. CASE g.next[e] # Nil
  <2>1. g.next[e] \in Slots
    BY <1>1, <1>4, LinkedParts
  <2>2. rank[g.next[e]] \in Int
    BY <1>1, <2>1, LinkedParts
  <2>3. rank[s] <= rank[e] \/ rank[g.next[e]] <= rank[s]
    BY <1>1, <1>4 DEF Linked, Follows
  <2> QED
    BY <1>2, <1>4, <2>2, <2>3
<1> QED
  BY <1>3, <1>4

LEMMA DropOnly ==
  ASSUME NEW g, NEW own, NEW rank, Sound(g, own, rank, Slots), NEW b \in Buckets,
         NEW e, Position(g, own, b, e, Nil), e # Nil, g.next[e] = Nil
  PROVE  Dropped(g, own, rank, b, e, Nil, DeleteEntry(g, e, Nil), own, rank, Nil)
<1> DEFINE x == With(g.ent, e, EmptyDir)
           h == [g EXCEPT !.ent = x]
<1>1. g \in Segments /\ e \in Slots /\ own[e] = b /\ e \in Firsts /\ b # Spare
  <2>1. g \in Segments
    BY DEF Sound
  <2>2. e \in Slots /\ own[e] = b /\ e \in Firsts /\ b # Spare
    BY PositionParts
  <2> QED
    BY <2>1, <2>2
<1>2. /\ g.ent \in [Slots -> Dirs] /\ x \in [Slots -> Dirs]
      /\ x[e] = EmptyDir /\ \A s \in Slots : s # e => x[s] = g.ent[s]
  BY <1>1, SegmentParts, EmptyIsDir DEF With
<1>3. DeleteEntry(g, e, Nil) = h
  BY <1>1 DEF DeleteEntry, DeleteFirst, With, Segments
<1> HIDE DEF x
<1>4. \A s \in Slots : own[s] = Spare => x[s].off = 0
  BY <1>1, <1>2 DEF Sound, Backed
<1>5. Sound(h, own, rank, Slots) /\ h.ent = x /\ h.next = g.next
  BY <1>2, <1>4, Rewritten
<1> HIDE DEF h
<1>6. Position(h, own, b, Nil, Nil)
  BY DEF Position, Pointers
<1>7. \A s \in Slots : own[s] = b /\ s # e => rank[s] < rank[e]
  BY <1>1, Before
<1> QED
  BY <1>1, <1>2, <1>3, <1>5, <1>6, <1>7 DEF Dropped

LEMMA DropFirst ==
  ASSUME NEW g, NEW own, NEW rank, Sound(g, own, rank, Slots), NEW b \in Buckets,
         NEW e, Position(g, own, b, e, Nil), e # Nil, g.next[e] # Nil
  PROVE  LET n == g.next[e] IN
         Dropped(g, own, rank, b, e, Nil, DeleteEntry(g, e, Nil), With(own, n, Spare),
                 FreedRank(g, rank, n), e)
<1> DEFINE n == g.next[e]
           x == With(g.ent, e, g.ent[n])
           k == [g EXCEPT !.ent = x]
           h == DeleteAfter(k, n, e)
           o == With(own, n, Spare)
           r == FreedRank(g, rank, n)
<1>1. g \in Segments /\ e \in Slots /\ own[e] = b /\ e \in Firsts /\ b # Spare
      /\ e = Row(b, 0)
  <2>1. g \in Segments
    BY DEF Sound
  <2>2. e \in Slots /\ own[e] = b /\ e \in Firsts /\ b # Spare /\ e = Row(b, 0)
    BY PositionParts
  <2> QED
    BY <2>1, <2>2
<1>2. /\ n \in Slots /\ n # e /\ n \notin Firsts /\ own[n] = b /\ rank[e] < rank[n]
      /\ rank[e] \in Int /\ rank[n] \in Int
  <2>1. Linked(g.next, g.free, own, rank, Slots)
    BY DEF Sound
  <2>2. n \in Slots /\ n # e /\ n \notin Firsts
    BY <1>1, <2>1, NextNotFirst
  <2>3. own[n] = b /\ rank[e] < rank[n]
    BY <1>1, <2>1, LinkedParts
  <2>4. rank \in [Slots -> Int]
    BY <2>1, LinkedParts
  <2> QED
    BY <1>1, <2>2, <2>3, <2>4
<1>3. /\ g.ent \in [Slots -> Dirs] /\ x \in [Slots -> Dirs]
      /\ x[e] = g.ent[n] /\ \A s \in Slots : s # e => x[s] = g.ent[s]
  BY <1>1, <1>2, SegmentParts DEF With
<1>4. DeleteEntry(g, e, Nil) = h
  <2>1. DeleteEntry(g, e, Nil) =
          PushFree(CutAfter([g EXCEPT !.ent[e] = g.ent[n], !.next[e] = g.next[n]], n, e), n)
    BY <1>1 DEF DeleteEntry, DeleteFirst, DeleteAfter, CutAfter
  <2>2. CutAfter([g EXCEPT !.ent[e] = g.ent[n], !.next[e] = g.next[n]], n, e)
          = CutAfter(k, n, e)
    <3> HIDE DEF n
    <3> QED
      BY <1>1, <1>2 DEF CutAfter, With, Segments
  <2> QED
    BY <2>1, <2>2 DEF DeleteAfter, CutAfter
<1> HIDE DEF x, n
<1>5. Sound(k, own, rank, Slots) /\ k.ent = x /\ k.next = g.next /\ k.free = g.free
  <2>1. \A s \in Slots : own[s] = Spare => x[s].off = 0
    BY <1>1, <1>3 DEF Sound, Backed
  <2> QED
    BY <1>3, <2>1, Rewritten
<1> HIDE DEF k
<1>6. Sound(h, o, r, Slots)
  <2>1. k.next[e] = n
    BY <1>5 DEF n
  <2>2. Sound(DeleteAfter(k, n, e), With(own, n, Spare), FreedRank(k, rank, n), Slots)
    BY <1>1, <1>2, <1>5, <2>1, DeleteAfterSound
  <2> QED
    BY <1>5, <2>2 DEF FreedRank
<1>7. /\ \A s \in Slots : s # n => h.ent[s] = x[s]
      /\ \A s \in Slots : s # n /\ s # e => h.next[s] = g.next[s]
  <2>1. k \in Segments /\ n \in Slots /\ e \in Slots /\ n # e
    BY <1>1, <1>2, <1>5 DEF Sound
  <2>2. /\ \A s \in Slots : s # n => h.ent[s] = k.ent[s]
        /\ \A s \in Slots : s # n /\ s # e => h.next[s] = k.next[s]
    BY <2>1, DeleteAfterIs
  <2> QED
    BY <1>5, <2>2
<1>8. /\ own \in [Slots -> Homes] /\ o[n] = Spare /\ \A s \in Slots : s # n => o[s] = own[s]
      /\ \A s \in Slots : s # n => r[s] = rank[s]
  <2>1. own \in [Slots -> Homes] /\ rank \in [Slots -> Int]
    BY LinkedParts DEF Sound
  <2> QED
    BY <1>2, <2>1 DEF With, FreedRank
<1> HIDE DEF h, o, r
<1>9. Position(h, o, b, e, Nil)
  BY <1>1, <1>2, <1>8 DEF Position, Pointers
<1>10. /\ \A s \in Slots : own[s] # b =>
            o[s] = own[s] /\ h.ent[s] = g.ent[s] /\ (own[s] # Spare => h.next[s] = g.next[s])
       /\ \A s \in Slots : o[s] = b =>
            /\ own[s] = b /\ r[s] = rank[s]
            /\ s # e => h.ent[s] = g.ent[s] /\ (s # Nil => h.next[s] = g.next[s])
       /\ \A s \in Slots : o[s] = own[s] \/ o[s] = Spare
  BY <1>1, <1>2, <1>3, <1>7, <1>8
<1>11. /\ h.ent[e] = g.ent[g.next[e]] /\ g.next[e] # Nil /\ o[g.next[e]] = Spare
       /\ \A s \in Slots : own[s] = b /\ o[s] # b /\ s # e => h.ent[e] = g.ent[s] /\ o[e] = b
  BY <1>1, <1>2, <1>3, <1>7, <1>8 DEF n
<1>12. \E y \in Slots : own[y] = b /\ rank[e] <= rank[y] /\ o[y] # b
  BY <1>1, <1>2, <1>8
<1>13. rank[e] <= rank[e]
  BY <1>2
<1>14. Dropped(g, own, rank, b, e, Nil, h, o, r, e)
  BY <1>1, <1>6, <1>9, <1>10, <1>11, <1>12, <1>13, SlotsFinite DEF Dropped
<1> QED
  BY <1>4, <1>14 DEF h, o, r, n

LEMMA DropLater ==
  ASSUME NEW g, NEW own, NEW rank, Sound(g, own, rank, Slots), NEW b \in Buckets,
         NEW e, NEW p, Position(g, own, b, e, p), e # Nil, p # Nil
  PROVE  Dropped(g, own, rank, b, e, p, DeleteEntry(g, e, p), With(own, e, Spare),
                 FreedRank(g, rank, e), g.next[e])
<1> DEFINE h == DeleteAfter(g, e, p)
           o == With(own, e, Spare)
           r == FreedRank(g, rank, e)
           d == g.next[e]
<1>1. /\ g \in Segments /\ e \in Slots /\ own[e] = b /\ b # Spare
      /\ p \in Slots /\ p # e /\ own[p] = b /\ g.next[p] = e
  <2>1. g \in Segments
    BY DEF Sound
  <2>2. /\ e \in Slots /\ own[e] = b /\ b # Spare
        /\ p \in Slots /\ p # e /\ own[p] = b /\ g.next[p] = e
    BY PositionParts
  <2> QED
    BY <2>1, <2>2
<1>2. DeleteEntry(g, e, p) = h
  BY DEF DeleteEntry
<1>3. Sound(h, o, r, Slots)
  BY <1>1, DeleteAfterSound
<1>4. /\ \A s \in Slots : s # e => h.ent[s] = g.ent[s]
      /\ \A s \in Slots : s # e /\ s # p => h.next[s] = g.next[s]
      /\ h.next[p] = d
  BY <1>1, DeleteAfterIs
<1>5. /\ own \in [Slots -> Homes] /\ o[e] = Spare /\ \A s \in Slots : s # e => o[s] = own[s]
      /\ \A s \in Slots : s # e => r[s] = rank[s] /\ rank[e] \in Int
  <2>1. own \in [Slots -> Homes] /\ rank \in [Slots -> Int]
    BY LinkedParts DEF Sound
  <2> QED
    BY <1>1, <2>1 DEF With, FreedRank
<1>6. d \in Pointers /\ (d # Nil => d \in Slots /\ d # e /\ own[d] = b /\ rank[e] < rank[d])
  <2>1. Linked(g.next, g.free, own, rank, Slots)
    BY DEF Sound
  <2>2. d \in Pointers /\ (d # Nil => d \in Slots /\ own[d] = b /\ rank[e] < rank[d])
    BY <1>1, <2>1, LinkedParts DEF Pointers
  <2>3. d # Nil => d # e
    BY <1>1, <2>1, NextNotFirst
  <2> QED
    BY <2>2, <2>3
<1>7. \A s \in Slots : own[s] = b /\ s # e /\ (d # Nil => rank[s] < rank[d]) => rank[s] < rank[e]
  BY <1>1, Before
<1>8. \A s \in Slots : rank[s] \in Int
  BY LinkedParts DEF Sound
<1> HIDE DEF h, o, r, d
<1>9. Position(h, o, b, d, p)
  BY <1>1, <1>4, <1>5, <1>6 DEF Position, Pointers
<1>10. /\ \A s \in Slots : own[s] # b =>
            o[s] = own[s] /\ h.ent[s] = g.ent[s] /\ (own[s] # Spare => h.next[s] = g.next[s])
       /\ \A s \in Slots : o[s] = b =>
            /\ own[s] = b /\ r[s] = rank[s]
            /\ s # e => h.ent[s] = g.ent[s] /\ (s # p => h.next[s] = g.next[s])
       /\ \A s \in Slots : o[s] = own[s] \/ o[s] = Spare
  BY <1>1, <1>4, <1>5
<1>11. d # Nil => /\ rank[e] <= rank[d]
                  /\ \E x \in Slots : own[x] = b /\ rank[e] <= rank[x] /\ o[x] # b
  BY <1>1, <1>5, <1>6, <1>8
<1>12. \A s \in Slots : o[s] = b /\ s # e /\ (d # Nil => rank[s] < rank[d]) => rank[s] < rank[e]
  BY <1>7, <1>10
<1>13. o[e] # b /\ \A s \in Slots : own[s] = b /\ s # e => o[s] = b
  BY <1>1, <1>5
<1>14. Dropped(g, own, rank, b, e, p, h, o, r, d)
  BY <1>3, <1>9, <1>10, <1>11, <1>12, <1>13 DEF Dropped
<1> QED
  BY <1>2, <1>14 DEF h, o, r, d

(* Deleting the entry at a position keeps the lists.                       *)
LEMMA DropSound ==
  ASSUME NEW g, NEW own, NEW rank, Sound(g, own, rank, Slots), NEW b \in Buckets,
         NEW e, NEW p, Position(g, own, b, e, p), e # Nil
  PROVE  \E o, r : Dropped(g, own, rank, b, e, p, DeleteEntry(g, e, p), o, r,
                           AfterDelete(g, e, p))
<1>1. CASE p = Nil /\ g.next[e] = Nil
  <2>1. AfterDelete(g, e, p) = Nil
    BY <1>1 DEF AfterDelete
  <2> QED
    BY <1>1, <2>1, DropOnly
<1>2. CASE p = Nil /\ g.next[e] # Nil
  <2>1. AfterDelete(g, e, p) = e
    BY <1>2 DEF AfterDelete
  <2> QED
    BY <1>2, <2>1, DropFirst
<1>3. CASE p # Nil
  <2>1. AfterDelete(g, e, p) = g.next[e]
    BY <1>3 DEF AfterDelete
  <2> QED
    BY <1>3, <2>1, DropLater
<1> QED
  BY <1>1, <1>2, <1>3

(* It also keeps a tidy segment tidy.                                      *)
LEMMA DropTidy ==
  ASSUME NEW g, NEW own, NEW rank, Sound(g, own, rank, Slots), NEW b \in Buckets,
         NEW e, NEW p, Position(g, own, b, e, p), e # Nil, NEW B \in SUBSET Buckets,
         Tidy(g, own, B), NEW h, NEW o, NEW r, NEW d,
         Dropped(g, own, rank, b, e, p, h, o, r, d)
  PROVE  Tidy(h, o, B)
<1> SUFFICES ASSUME NEW s \in Slots, o[s] \in B, h.ent[s].off = 0
             PROVE  s \in Firsts /\ h.next[s] = Nil /\ h.ent[s] = EmptyDir
  BY DEF Tidy
<1>0. o[s] # Spare /\ own[s] = o[s]
  BY DEF Dropped, Buckets, Spare
<1>1. CASE o[s] # b
  BY <1>0, <1>1 DEF Dropped, Tidy
<1>2. CASE o[s] = b /\ s # e
  <2>1. g.ent[s].off = 0
    BY <1>2 DEF Dropped
  <2>2. s \in Firsts /\ g.next[s] = Nil /\ g.ent[s] = EmptyDir
    BY <1>0, <2>1 DEF Tidy
  <2>3. s # p
    BY <2>2, SlotsFinite DEF Position
  <2> QED
    BY <1>2, <2>2, <2>3 DEF Dropped
<1>3. CASE o[s] = b /\ s = e
  <2>1. CASE d = Nil /\ h.next[e] = Nil /\ h.ent[e] = EmptyDir
    BY <1>3, <2>1 DEF Dropped
  <2>2. CASE g.next[e] # Nil /\ h.ent[e] = g.ent[g.next[e]]
    <3>1. Linked(g.next, g.free, own, rank, Slots)
      BY DEF Sound
    <3>2. g.next[e] \in Slots /\ own[g.next[e]] = own[e] /\ g.next[e] \notin Firsts
      BY <1>3, <2>2, <3>1, LinkedParts, NextNotFirst
    <3> QED
      BY <1>0, <1>3, <2>2, <3>2 DEF Tidy
  <2> QED
    BY <1>3, <2>1, <2>2 DEF Dropped
<1> QED
  BY <1>1, <1>2, <1>3

-----------------------------------------------------------------------------
(* An entry is taken from the free list and linked into a chain.           *)

Relinked(g, n, v, fr) == [g EXCEPT !.next = n, !.prev = v, !.free = fr]

LEMMA RelinkedIs ==
  ASSUME NEW g \in Segments, NEW n \in [Slots -> Pointers], NEW v \in [Slots -> Pointers],
         NEW fr \in Pointers
  PROVE  LET h == Relinked(g, n, v, fr) IN
           h \in Segments /\ h.ent = g.ent /\ h.next = n /\ h.prev = v /\ h.free = fr
BY DEF Relinked, Segments

BackLinks(g, e) == IF g.next[e] # Nil THEN With(g.prev, g.next[e], g.prev[e]) ELSE g.prev

(* Unlinking the head of the free list.                                    *)
LEMMA FrontUnlinkedIs ==
  ASSUME NEW g \in Segments, NEW e \in Slots, g.prev[e] = Nil
  PROVE  /\ Unlink(g, e) \in Segments
         /\ Unlink(g, e).ent = g.ent
         /\ Unlink(g, e).next = g.next
         /\ Unlink(g, e).prev = BackLinks(g, e)
         /\ Unlink(g, e).free = g.next[e]
<1>1. g.next \in [Slots -> Pointers] /\ g.prev \in [Slots -> Pointers] /\ g.next[e] \in Pointers
  BY SegmentParts
<1>2. BackLinks(g, e) \in [Slots -> Pointers]
  BY <1>1 DEF BackLinks, With
<1>3. Unlink(g, e) = Relinked(g, g.next, BackLinks(g, e), g.next[e])
  BY DEF Unlink, Relinked, BackLinks, With, Segments
<1> QED
  BY <1>1, <1>2, <1>3 DEF Relinked, Segments

LEMMA UnlinkSound ==
  ASSUME NEW g, NEW own, NEW rank, Sound(g, own, rank, Slots), NEW e \in Slots,
         own[e] = Spare
  PROVE  Sound(Unlink(g, e), own, rank, Slots \ {e}) /\ Unlink(g, e).ent = g.ent
<1> DEFINE E == Slots \ {e}
           n == g.next[e]
           p == g.prev[e]
           v == BackLinks(g, e)
<1>1. g \in Segments /\ Linked(g.next, g.free, own, rank, Slots)
  BY DEF Sound
<1>2. /\ g.next \in [Slots -> Pointers] /\ g.prev \in [Slots -> Pointers]
      /\ n \in Pointers /\ p \in Pointers /\ e # Nil
  BY <1>1, SegmentParts, SlotsFinite
<1>3. /\ v \in [Slots -> Pointers] /\ (n # Nil => v[n] = p)
      /\ \A s \in Slots : s # n => v[s] = g.prev[s]
  BY <1>2 DEF With, BackLinks, Pointers
<1>4. n # Nil => n \in Slots /\ n # e /\ n # g.free
  BY <1>1, NextNotFirst
<1>5. \A s \in Slots : g.next[s] = n /\ n # Nil => s = e
  <2> TAKE s \in Slots
  <2> HAVE g.next[s] = n /\ n # Nil
  <2>1. own[s] = own[e] /\ rank[s] < rank[n] /\ rank[e] < rank[n]
        /\ rank[s] \in Int /\ rank[e] \in Int /\ rank[n] \in Int
    <3>1. own[s] = own[n] /\ own[e] = own[n] /\ rank[s] < rank[n] /\ rank[e] < rank[n]
      BY <1>1, LinkedParts
    <3>2. rank \in [Slots -> Int]
      BY <1>1, LinkedParts
    <3> QED
      BY <1>4, <3>1, <3>2
  <2>2. rank[s] <= rank[e] /\ rank[e] <= rank[s]
    BY <1>1, <2>1 DEF Linked, Follows
  <2> QED
    BY <1>1, <2>1, <2>2 DEF Linked, Ordered
<1>6. CASE p # Nil
  <2> DEFINE h == Relinked(g, With(g.next, p, n), v, g.free)
  <2>1. Unlink(g, e) = h
    BY <1>1, <1>6 DEF Unlink, Relinked, BackLinks, With, Segments
  <2>2. e # g.free
    BY <1>6 DEF Sound, Backed
  <2>3. p \in Slots /\ g.next[p] = e /\ p # e /\ own[p] = Spare
    <3>1. p \in Slots /\ g.next[p] = e /\ own[p] = Spare
      BY <2>2, FreeBefore
    <3> QED
      BY <1>1, <1>2, <3>1, NextNotFirst
  <2>4. With(g.next, p, n) \in [Slots -> Pointers] /\ g.free \in Pointers
    BY <1>1, <1>2, <2>3, SegmentParts DEF With
  <2>5. /\ h \in Segments /\ h.ent = g.ent /\ h.next = With(g.next, p, n) /\ h.prev = v
        /\ h.free = g.free
    <3> HIDE DEF v, n
    <3> QED
      BY <1>1, <1>3, <2>4, RelinkedIs
  <2> HIDE DEF v, h
  <2>6. Linked(h.next, h.free, own, rank, E)
    BY <1>1, <2>3, <2>5, CutLinks
  <2>7. h.next[p] = n /\ \A s \in Slots : s # p => h.next[s] = g.next[s]
    BY <1>2, <2>3, <2>5 DEF With
  <2>8. ASSUME NEW s \in E, own[s] = Spare
        PROVE  /\ h.ent[s].off = 0
               /\ s = h.free => h.prev[s] = Nil
               /\ s # h.free => h.prev[s] \in E /\ h.next[h.prev[s]] = s
    <3>1. h.ent[s].off = 0
      BY <2>5, <2>8 DEF Sound, Backed
    <3>2. ASSUME s = h.free PROVE h.prev[s] = Nil
      <4>1. g.prev[s] = Nil
        BY <2>5, <2>8, <3>2 DEF Sound, Backed
      <4>2. s # n
        BY <1>4, <2>5, <3>2, SlotsFinite
      <4> QED
        BY <1>3, <2>5, <4>1, <4>2
    <3>3. ASSUME s # h.free PROVE h.prev[s] \in E /\ h.next[h.prev[s]] = s
      <4>1. CASE s = n
        BY <1>3, <2>3, <2>5, <2>7, <4>1, SlotsFinite
      <4>2. CASE s # n
        <5>1. g.prev[s] \in Slots /\ g.next[g.prev[s]] = s
          BY <2>5, <2>8, <3>3, FreeBefore
        <5>2. g.prev[s] # e /\ g.prev[s] # p
          BY <2>3, <2>8, <4>2, <5>1
        <5> QED
          BY <1>3, <2>5, <2>7, <4>2, <5>1, <5>2
      <4> QED
        BY <4>1, <4>2
    <3> QED
      BY <3>1, <3>2, <3>3
  <2>9. Backed(h, own, E)
    BY <2>8 DEF Backed
  <2> QED
    BY <2>1, <2>5, <2>6, <2>9 DEF Sound
<1>7. CASE p = Nil
  <2> DEFINE h == Unlink(g, e)
  <2>2. e = g.free
    <3> SUFFICES ASSUME e # g.free PROVE FALSE
      OBVIOUS
    <3>1. g.prev[e] \in Slots
      BY FreeBefore
    <3> QED
      BY <1>7, <3>1, SlotsFinite
  <2>3. /\ h \in Segments /\ h.ent = g.ent /\ h.next = g.next /\ h.prev = v
        /\ h.free = n
    BY <1>1, <1>7, FrontUnlinkedIs
  <2> HIDE DEF v, h
  <2>4. Linked(h.next, h.free, own, rank, E)
    BY <1>1, <1>2, <2>2, <2>3, FrontLinks
  <2>5. ASSUME NEW s \in E, own[s] = Spare
        PROVE  /\ h.ent[s].off = 0
               /\ s = h.free => h.prev[s] = Nil
               /\ s # h.free => h.prev[s] \in E /\ h.next[h.prev[s]] = s
    <3>1. h.ent[s].off = 0
      BY <2>3, <2>5 DEF Sound, Backed
    <3>2. s = h.free => h.prev[s] = Nil
      BY <1>3, <1>7, <2>3, SlotsFinite
    <3>3. ASSUME s # h.free PROVE h.prev[s] \in E /\ h.next[h.prev[s]] = s
      <4>1. g.prev[s] \in Slots /\ g.next[g.prev[s]] = s
        BY <2>2, <2>5, FreeBefore
      <4>2. g.prev[s] # e
        BY <2>3, <3>3, <4>1
      <4> QED
        BY <1>3, <2>3, <3>3, <4>1, <4>2
    <3> QED
      BY <3>1, <3>2, <3>3
  <2>6. Backed(h, own, E)
    BY <2>5 DEF Backed
  <2> QED
    BY <2>3, <2>4, <2>6 DEF Sound, h
<1> QED
  BY <1>6, <1>7

(* Only links of free entries change.                                      *)
LEMMA UnlinkKeeps ==
  ASSUME NEW g, NEW own, NEW rank, Sound(g, own, rank, Slots), NEW e \in Slots,
         own[e] = Spare
  PROVE  \A s \in Slots : own[s] # Spare => Unlink(g, e).next[s] = g.next[s]
<1>1. g \in Segments
  BY DEF Sound
<1>2. g.next \in [Slots -> Pointers] /\ g.prev \in [Slots -> Pointers]
  BY <1>1, SegmentParts
<1>3. CASE g.prev[e] = Nil
  BY <1>1, <1>3 DEF Unlink, Segments
<1>4. CASE g.prev[e] # Nil
  <2>1. e # g.free
    BY <1>4 DEF Sound, Backed
  <2>2. g.prev[e] \in Slots /\ own[g.prev[e]] = Spare
    BY <2>1, FreeBefore
  <2>3. Unlink(g, e).next = [g.next EXCEPT ![g.prev[e]] = g.next[e]]
    BY <1>1, <1>4 DEF Unlink, Segments
  <2> QED
    BY <1>2, <2>2, <2>3
<1> QED
  BY <1>3, <1>4

(* freelist_pop takes out the front.                                       *)
LEMMA PopIsUnlink ==
  ASSUME NEW g, NEW own, NEW rank, Sound(g, own, rank, Slots), g.free # Nil
  PROVE  Pop(g) = Unlink(g, g.free) /\ g.free \in Slots /\ own[g.free] = Spare
<1>1. g \in Segments /\ g.free \in Slots /\ own[g.free] = Spare
  BY LinkedParts DEF Sound
<1>2. g.prev[g.free] = Nil
  BY <1>1 DEF Sound, Backed
<1> DEFINE n == g.next[g.free]
           v == [s \in Slots |-> IF s = n THEN Nil ELSE g.prev[s]]
<1>3. v = IF n # Nil THEN [g.prev EXCEPT ![n] = Nil] ELSE g.prev
  <2>1. g.prev \in [Slots -> Pointers] /\ n \in Pointers
    BY <1>1, SegmentParts
  <2>2. Nil \notin Slots
    BY SlotsFinite
  <2> HIDE DEF n
  <2> QED
    BY <2>1, <2>2 DEF Pointers
<1>4. Pop(g) = [g EXCEPT !.free = n, !.prev = v]
  BY DEF Pop
<1>5. Unlink(g, g.free) = IF n # Nil THEN [g EXCEPT !.free = n, !.prev[n] = Nil]
                          ELSE [g EXCEPT !.free = n]
  BY <1>1, <1>2 DEF Unlink, Segments
<1>6. [g EXCEPT !.free = n, !.prev[n] = Nil] = [g EXCEPT !.free = n, !.prev = [g.prev EXCEPT ![n] = Nil]]
  BY <1>1 DEF Segments
<1>7. [g EXCEPT !.free = n] = [g EXCEPT !.free = n, !.prev = g.prev]
  BY <1>1 DEF Segments
<1> HIDE DEF v, n
<1> QED
  BY <1>1, <1>3, <1>4, <1>5, <1>6, <1>7

LEMMA LinkSound ==
  ASSUME NEW g, NEW own, NEW rank, NEW e \in Slots, Sound(g, own, rank, Slots \ {e}),
         NEW b \in Buckets, NEW x \in Dirs
  PROVE  LET h == Link(g, b, e, x)
             f == Row(b, 0)
         IN /\ Sound(h, With(own, e, b), SecondRank(rank, f, e), Slots)
            /\ h.ent = With(g.ent, e, x)
            /\ f \in Slots /\ f # e
            /\ h.next[e] = g.next[f] /\ h.next[f] = e
            /\ \A s \in Slots : s # e /\ s # f => h.next[s] = g.next[s]
<1> DEFINE f == Row(b, 0)
           E == Slots \ {e}
           n == With(With(g.next, e, g.next[f]), f, e)
           v == With(g.prev, e, Nil)
           y == With(g.ent, e, x)
           h == Link(g, b, e, x)
           o == With(own, e, b)
           r == SecondRank(rank, f, e)
<1>1. g \in Segments /\ Linked(g.next, g.free, own, rank, E)
  BY DEF Sound
<1>2. /\ f \in E /\ own[f] = b /\ b # Spare /\ b \in Homes /\ own \in [Slots -> Homes]
      /\ f \in Slots /\ f # e
  BY <1>1, LinkedParts DEF Firsts, Homes, Spare, Buckets
<1>3. /\ g.ent \in [Slots -> Dirs] /\ g.next \in [Slots -> Pointers]
      /\ g.prev \in [Slots -> Pointers] /\ g.free \in Pointers /\ Nil \in Pointers
      /\ e \in Pointers
  BY <1>1 DEF Segments, Pointers
<1> HIDE DEF f
<1>4. y \in [Slots -> Dirs] /\ n \in [Slots -> Pointers] /\ v \in [Slots -> Pointers]
  BY <1>2, <1>3 DEF With
<1>5. h = [g EXCEPT !.next = n, !.ent = y, !.prev = v]
  BY <1>1 DEF Link, With, Segments, f
<1>6. n[e] = g.next[f] /\ n[f] = e /\ \A s \in Slots : s # e /\ s # f => n[s] = g.next[s]
  BY <1>2, <1>3 DEF With
<1>7. \A s \in E : y[s] = g.ent[s] /\ v[s] = g.prev[s] /\ o[s] = own[s] /\ s \in Slots
  BY <1>2, <1>3 DEF With
<1>8. o[e] = b
  BY <1>2 DEF With
<1> HIDE DEF n, v, y, o
<1>9. h \in Segments
  BY <1>1, <1>3, <1>4, <1>5 DEF Segments
<1>10. h.next = n /\ h.ent = y /\ h.prev = v /\ h.free = g.free
  BY <1>1, <1>5 DEF Segments
<1> HIDE DEF h
<1>11. Linked(h.next, h.free, o, r, Slots)
  <2>1. E \cup {e} = Slots /\ e \in Slots \ E
    OBVIOUS
  <2> HIDE DEF E
  <2>2. Linked(With(With(g.next, e, g.next[Row(b, 0)]), Row(b, 0), e), g.free, With(own, e, b),
               SecondRank(rank, Row(b, 0), e), E \cup {e})
    BY <1>1, <2>1, InsertLinks
  <2> QED
    BY <1>10, <2>1, <2>2 DEF n, o, f
<1>12. ASSUME NEW s \in Slots, o[s] = Spare
       PROVE  /\ h.ent[s].off = 0
              /\ s = h.free => h.prev[s] = Nil
              /\ s # h.free => h.prev[s] \in Slots /\ h.next[h.prev[s]] = s
  <2>1. s \in E /\ own[s] = Spare
    BY <1>2, <1>7, <1>8, <1>12
  <2>2. h.ent[s].off = 0 /\ (s = h.free => h.prev[s] = Nil)
    BY <1>7, <1>10, <2>1 DEF Sound, Backed
  <2>3. ASSUME s # h.free PROVE h.prev[s] \in Slots /\ h.next[h.prev[s]] = s
    <3>1. g.prev[s] \in E /\ own[g.prev[s]] = Spare /\ g.next[g.prev[s]] = s
      BY <1>10, <2>1, <2>3, FreeBefore
    <3>2. g.prev[s] # e /\ g.prev[s] # f /\ g.prev[s] \in Slots
      BY <1>2, <3>1
    <3> QED
      BY <1>6, <1>7, <1>10, <2>1, <3>1, <3>2
  <2> QED
    BY <2>2, <2>3
<1>13. Backed(h, o, Slots)
  BY <1>12 DEF Backed
<1> QED
  BY <1>2, <1>6, <1>9, <1>10, <1>11, <1>13 DEF Sound, h, o, y, f

-----------------------------------------------------------------------------
(* Loops.                                                                  *)

Loop(f, N, X, base, step) ==
  /\ f \in [0 .. N -> X]
  /\ \A i \in 0 .. N : f[i] = IF i = 0 THEN base ELSE step[f[i - 1]]

LEMMA LoopExists ==
  ASSUME NEW N \in Nat, NEW X, NEW base \in X, NEW step \in [X -> X]
  PROVE  \E f : Loop(f, N, X, base, step)
<1> DEFINE S == [i \in 1 .. N |-> step]
<1>1. S \in [1 .. N -> [X -> X]] /\ \A i \in 1 .. N : S[i] = step
  OBVIOUS
<1> HIDE DEF S
<1>2. PICK f : Recursion(f, N, X, base, S)
  BY <1>1, RecursionExists
<1>3. f \in [0 .. N -> X] /\ \A i \in 0 .. N : f[i] = IF i = 0 THEN base ELSE S[i][f[i - 1]]
  BY <1>2 DEF Recursion
<1>4. \A i \in 0 .. N : i # 0 => i \in 1 .. N
  OBVIOUS
<1> QED
  BY <1>1, <1>3, <1>4 DEF Loop

(* After i steps the state is in Y[i].                                     *)
LEMMA StepByStep ==
  ASSUME NEW N \in Nat, NEW g, NEW Y, g[0] \in Y[0],
         \A i \in 1 .. N : g[i - 1] \in Y[i - 1] => g[i] \in Y[i]
  PROVE  g[N] \in Y[N]
<1> DEFINE B == {i \in Nat : i <= N => g[i] \in Y[i]}
<1>1. 0 \in B
  OBVIOUS
<1>2. ASSUME NEW i \in B PROVE i + 1 \in B
  <2>0. i \in Nat
    OBVIOUS
  <2> SUFFICES ASSUME i + 1 <= N PROVE g[i + 1] \in Y[i + 1]
    BY <2>0
  <2>1. i + 1 \in 1 .. N /\ (i + 1) - 1 = i /\ g[i] \in Y[i]
    BY <2>0
  <2> QED
    BY <2>1
<1>3. B \in SUBSET Nat
  OBVIOUS
<1> HIDE DEF B
<1>4. B = Nat
  BY <1>1, <1>2, <1>3, NaturalsByInduction
<1> QED
  BY <1>4 DEF B

-----------------------------------------------------------------------------
(* dir_init_segment frees every row but the first of each bucket.          *)

NthRow(i) == Row((i - 1) % NBuckets, 1 + ((i - 1) \div NBuckets))

Spares == NBuckets * (Depth - 1)

LEMMA NthRowIs ==
  ASSUME NEW i \in Nat \ {0}
  PROVE  \E b \in Buckets : \E q \in Nat :
           /\ b = (i - 1) % NBuckets /\ q = (i - 1) \div NBuckets
           /\ NthRow(i) = Row(b, 1 + q) /\ i - 1 = NBuckets * q + b
           /\ i <= Spares => 1 + q \in Rows
<1> DEFINE b == (i - 1) % NBuckets
           q == (i - 1) \div NBuckets
<1>1. i - 1 \in Nat /\ NBuckets \in Nat \ {0}
  OBVIOUS
<1>2. i - 1 = NBuckets * q + b /\ b \in 0 .. (NBuckets - 1)
  BY <1>1, DivisionParts
<1>3. q \in Nat
  BY <1>1, QuotientNatural
<1>4. NthRow(i) = Row(b, 1 + q)
  BY DEF NthRow
<1> HIDE DEF b, q
<1>5. ASSUME i <= Spares PROVE 1 + q \in Rows
  <2> SUFFICES ASSUME Depth - 1 <= q PROVE FALSE
    BY <1>3 DEF Rows
  <2>1. NBuckets * (Depth - 1) <= NBuckets * q
    BY <1>3, ProductMonotonic
  <2> DEFINE x == NBuckets * q  y == NBuckets * (Depth - 1)
  <2>2. x \in Int /\ y \in Int /\ y <= x /\ i - 1 = x + b /\ i <= y
    BY <1>2, <1>3, <1>5, <2>1 DEF Spares
  <2> HIDE DEF x, y
  <2> QED
    BY <1>2, <2>2
<1> QED
  BY <1>2, <1>3, <1>4, <1>5 DEF b, q, Buckets

LEMMA RowsNumbered ==
  /\ Spares \in Nat
  /\ \A i \in 1 .. Spares : NthRow(i) \in Slots /\ NthRow(i) \notin Firsts
  /\ \A i, j \in 1 .. Spares : NthRow(i) = NthRow(j) => i = j
  /\ \A s \in Slots : s \notin Firsts => \E i \in 1 .. Spares : s = NthRow(i)
<1>0. Depth - 1 \in Nat /\ NBuckets \in Nat
  OBVIOUS
<1>1. Spares \in Nat
  BY <1>0, ProductMonotonic DEF Spares
<1>2. ASSUME NEW i \in 1 .. Spares PROVE NthRow(i) \in Slots /\ NthRow(i) \notin Firsts
  <2>1. i \in Nat \ {0} /\ i <= Spares
    BY <1>1
  <2>2. PICK b \in Buckets, q \in Nat : NthRow(i) = Row(b, 1 + q) /\ 1 + q \in Rows
    BY <2>1, NthRowIs
  <2>3. 1 + q # 0
    OBVIOUS
  <2> QED
    BY <2>2, <2>3, RowIsSlot, FirstsAre
<1>3. ASSUME NEW i \in 1 .. Spares, NEW j \in 1 .. Spares, NthRow(i) = NthRow(j) PROVE i = j
  <2>1. i \in Nat \ {0} /\ i <= Spares /\ j \in Nat \ {0} /\ j <= Spares
    BY <1>1
  <2>2. PICK b \in Buckets, q \in Nat : NthRow(i) = Row(b, 1 + q) /\ 1 + q \in Rows
                                        /\ i - 1 = NBuckets * q + b
    BY <2>1, NthRowIs
  <2>3. PICK c \in Buckets, p \in Nat : NthRow(j) = Row(c, 1 + p) /\ 1 + p \in Rows
                                        /\ j - 1 = NBuckets * p + c
    BY <2>1, NthRowIs
  <2>4. b = c /\ 1 + q = 1 + p
    <3> DEFINE l == 1 + q  m == 1 + p
    <3>1. l \in Rows /\ m \in Rows /\ Row(b, l) = Row(c, m)
      BY <1>3, <2>2, <2>3
    <3> HIDE DEF l, m
    <3>2. b = c /\ l = m
      BY <3>1, RowsDiffer
    <3> QED
      BY <3>2 DEF l, m
  <2>5. q = p
    BY <2>4
  <2>6. i - 1 = j - 1
    BY <2>2, <2>3, <2>4, <2>5
  <2> QED
    BY <2>1, <2>6
<1>4. ASSUME NEW s \in Slots, s \notin Firsts PROVE \E i \in 1 .. Spares : s = NthRow(i)
  <2>1. PICK b \in Buckets, l \in Rows : s = Row(b, l)
    BY SlotIsRow
  <2>2. l # 0
    BY <1>4, <2>1 DEF Firsts
  <2> DEFINE x == NBuckets * (l - 1)
             i == x + b + 1
  <2>3. l - 1 \in Nat /\ l - 1 <= Depth - 2 /\ Depth - 2 \in Nat /\ b \in Nat
        /\ b \in 0 .. (NBuckets - 1)
    BY <2>2 DEF Rows, Buckets
  <2>4. x \in Nat /\ x <= NBuckets * (Depth - 2)
    BY <1>0, <2>3, ProductMonotonic
  <2>5. NBuckets * (Depth - 1) = NBuckets * (Depth - 2) + NBuckets /\ NBuckets * (Depth - 2) \in Nat
    BY <1>0, <2>3
  <2>6. i \in 1 .. Spares
    <3> DEFINE y == NBuckets * (Depth - 2)
    <3>1. y \in Nat /\ x <= y /\ Spares = y + NBuckets
      BY <2>4, <2>5 DEF Spares
    <3> HIDE DEF x, y
    <3> QED
      BY <2>3, <2>4, <3>1
  <2>7. i \in Nat \ {0} /\ i - 1 = x + b
    BY <2>3, <2>4
  <2> HIDE DEF i
  <2>8. PICK c \in Buckets, q \in Nat : NthRow(i) = Row(c, 1 + q) /\ i - 1 = NBuckets * q + c
    BY <2>7, NthRowIs
  <2>9. NBuckets * (l - 1) + b = NBuckets * q + c /\ c \in 0 .. (NBuckets - 1)
    BY <2>7, <2>8 DEF Buckets
  <2>10. l - 1 = q /\ b = c
    BY <2>3, <2>9, DivisionUnique
  <2>11. l = 1 + q
    BY <2>10 DEF Rows
  <2> QED
    BY <2>1, <2>6, <2>8, <2>10, <2>11
<1> QED
  BY <1>1, <1>2, <1>3, <1>4

Blank == [ent  |-> [s \in Slots |-> EmptyDir], next |-> [s \in Slots |-> Nil],
          prev |-> [s \in Slots |-> Nil], free |-> Nil]

(* What is not freed yet is as it was.                                     *)
Raw(g, own, D) ==
  /\ \A s \in Slots : g.ent[s] = EmptyDir
  /\ \A s \in Slots \ D : g.prev[s] = Nil
  /\ \A s \in Firsts : g.next[s] = Nil
  /\ \A s \in Slots \ Firsts : own[s] = Spare

Freed(i) == Firsts \cup {NthRow(k) : k \in 1 .. i}

LEMMA BlankSound == \E own, rank : Sound(Blank, own, rank, Firsts) /\ Raw(Blank, own, Firsts)
<1> DEFINE own == [s \in Slots |-> IF s \in Firsts THEN CHOOSE b \in Buckets : s = Row(b, 0)
                                   ELSE Spare]
           rank == [s \in Slots |-> 0]
<1>1. /\ Blank \in Segments /\ Blank.free = Nil
      /\ \A s \in Slots : Blank.ent[s] = EmptyDir /\ Blank.next[s] = Nil /\ Blank.prev[s] = Nil
  BY EmptyIsDir DEF Blank, Segments, Pointers
<1>2. /\ 0 \in Rows /\ Firsts \in SUBSET Slots /\ Nil \notin Slots
      /\ \A b \in Buckets : Row(b, 0) \in Firsts
  BY SlotsFinite, FirstsAre DEF Rows, Firsts
<1>3. ASSUME NEW b \in Buckets PROVE own[Row(b, 0)] = b
  <2>1. \A c \in Buckets : Row(b, 0) = Row(c, 0) => b = c
    BY <1>2, RowsDiffer
  <2>2. (CHOOSE c \in Buckets : Row(b, 0) = Row(c, 0)) = b
    BY <2>1
  <2> QED
    BY <1>2, <2>2
<1>4. own \in [Slots -> Homes] /\ \A s \in Slots \ Firsts : own[s] = Spare
  <2>1. ASSUME NEW s \in Firsts PROVE (CHOOSE b \in Buckets : s = Row(b, 0)) \in Buckets
    BY DEF Firsts
  <2> QED
    BY <2>1 DEF Homes
<1>5. rank \in [Slots -> Int] /\ \A s \in Slots : rank[s] = 0
  OBVIOUS
<1> HIDE DEF own, rank
<1>6. \A s \in Firsts : \E b \in Buckets : s = Row(b, 0) /\ own[s] = b /\ b # Spare
  BY <1>3 DEF Firsts, Buckets, Spare
<1>7. LinkTypes(Blank.next, Blank.free, own, rank, Firsts)
  <2>1. Blank.next \in [Slots -> Pointers]
    BY <1>1, SegmentParts
  <2> QED
    BY <1>1, <1>2, <1>3, <1>4, <1>5, <2>1 DEF LinkTypes
<1>8. Begins(Blank.free, own, rank, Firsts)
  BY <1>2, <1>5, <1>6 DEF Begins
<1>9. Ordered(own, rank, Firsts)
  BY <1>6 DEF Ordered
<1>10. Follows(Blank.next, own, rank, Firsts)
  BY <1>1, <1>2, <1>5 DEF Follows
<1>11. Backed(Blank, own, Firsts)
  BY <1>6 DEF Backed
<1>12. Raw(Blank, own, Firsts)
  BY <1>1, <1>2, <1>4 DEF Raw
<1> QED
  BY <1>1, <1>7, <1>8, <1>9, <1>10, <1>11, <1>12 DEF Sound, Linked

LEMMA RowFreed ==
  ASSUME NEW g, NEW own, NEW rank, NEW D, Sound(g, own, rank, D), Raw(g, own, D),
         NEW e \in Slots \ D
  PROVE  \E o, r : Sound(PushFree(g, e), o, r, D \cup {e}) /\ Raw(PushFree(g, e), o, D \cup {e})
<1> DEFINE h == PushFree(g, e)
           o == With(own, e, Spare)
           r == With(rank, e, FrontRank(g.free, rank))
<1>1. g \in Segments /\ Linked(g.next, g.free, own, rank, D)
  BY DEF Sound
<1>2. /\ h \in Segments /\ h.ent = g.ent /\ h.next = With(g.next, e, g.free)
      /\ \A s \in Slots : h.prev[s] = IF s = g.free THEN e ELSE g.prev[s]
  BY <1>1, PushFreeIs
<1>3. Sound(h, o, r, D \cup {e})
  BY PushSound, EmptyIsDir DEF Raw
<1>4. /\ Firsts \subseteq D /\ D \in SUBSET Slots /\ g.free \in D \cup {Nil}
      /\ own \in [Slots -> Homes] /\ g.next \in [Slots -> Pointers]
  BY <1>1, LinkedParts
<1>5. \A s \in Slots : s # e => o[s] = own[s] /\ h.next[s] = g.next[s]
  BY <1>2, <1>4 DEF With
<1>6. o[e] = Spare
  BY <1>4 DEF With
<1> HIDE DEF h, o, r
<1>7. Raw(h, o, D \cup {e})
  BY <1>2, <1>4, <1>5, <1>6, SlotsFinite DEF Raw
<1> QED
  BY <1>3, <1>7 DEF h

FreeStep(c) == [i |-> c.i + 1, g |-> PushFree(c.g, NthRow(c.i))]

LEMMA InitNeat == Neat(InitSegment, Buckets) /\ \A s \in Slots : InitSegment.ent[s] = EmptyDir
<1> DEFINE L == [ent : [Slots -> Dirs], next : [Slots -> Int], prev : [Slots -> Int], free : Int]
           X == [i : Nat \ {0}, g : L]
           base == [i |-> 1, g |-> Blank]
           N == NBuckets * (Depth - 1)
           R(f) == [j \in 0 .. N |-> IF j = 0 THEN base ELSE FreeStep(f[j - 1])]
           after == CHOOSE f : f = R(f)
<1>1. InitSegment = after[N].g
  BY DEF InitSegment, Run, FreeStep, NthRow, Blank
<1>2. N \in Nat /\ N = Spares
  BY RowsNumbered DEF Spares
<1> HIDE DEF N
<1>3. base \in X
  <2>1. Slots \subseteq Int
    BY DEF Slots
  <2> QED
    BY <2>1, EmptyIsDir DEF Blank, Nil
<1>4. ASSUME NEW c \in X PROVE FreeStep(c) \in X
  <2>1. PICK i \in Nat \ {0}, g \in L : c = [i |-> i, g |-> g]
    BY <1>4
  <2>2. NthRow(i) \in Int
    <3>1. PICK b \in Buckets, q \in Nat : NthRow(i) = Row(b, 1 + q)
      BY NthRowIs
    <3>2. b \in Int /\ b * Depth \in Int
      BY DEF Buckets
    <3> QED
      BY <3>1, <3>2 DEF Row
  <2>3. PushFree(g, NthRow(i)) \in L
    <3> DEFINE e == NthRow(i)
               n == [g.next EXCEPT ![e] = g.free]
               v == [s \in Slots |-> IF s = g.free THEN e ELSE g.prev[s]]
    <3>1. PushFree(g, e) = [g EXCEPT !.next = n, !.prev = v, !.free = e]
      BY DEF PushFree
    <3> HIDE DEF e
    <3>2. n \in [Slots -> Int] /\ v \in [Slots -> Int]
      BY <2>2 DEF e
    <3> HIDE DEF n, v
    <3> QED
      BY <2>2, <3>1, <3>2 DEF e
  <2>4. i + 1 \in Nat \ {0}
    OBVIOUS
  <2> HIDE DEF L
  <2> QED
    BY <2>1, <2>3, <2>4 DEF FreeStep
<1> HIDE DEF X, base
<1>5. \E f : f = R(f)
  <2> DEFINE step == [c \in X |-> FreeStep(c)]
  <2>1. step \in [X -> X] /\ \A c \in X : step[c] = FreeStep(c)
    BY <1>4
  <2> HIDE DEF step
  <2>2. PICK f : Loop(f, N, X, base, step)
    BY <1>2, <1>3, <2>1, LoopExists
  <2>3. /\ f \in [0 .. N -> X]
        /\ \A j \in 0 .. N : f[j] = IF j = 0 THEN base ELSE step[f[j - 1]]
    BY <2>2 DEF Loop
  <2>4. \A j \in 0 .. N : j # 0 => f[j - 1] \in X
    BY <1>2, <2>3
  <2>5. f = R(f)
    BY <2>1, <2>3, <2>4
  <2> QED
    BY <2>5
<1>6. after = R(after)
  BY <1>5
<1> HIDE DEF after
<1>7. \A j \in 0 .. N : after[j] = IF j = 0 THEN base ELSE FreeStep(after[j - 1])
  BY <1>6, Zenon
<1> DEFINE Good(c, j) == /\ c.i = j + 1
                         /\ \E own, rank : Sound(c.g, own, rank, Freed(j)) /\ Raw(c.g, own, Freed(j))
           Y == [j \in 0 .. N |-> {c \in X : Good(c, j)}]
<1>8. after[0] \in Y[0]
  <2>1. after[0] = base
    BY <1>2, <1>7
  <2>2. Freed(0) = Firsts
    BY DEF Freed
  <2>3. Good(base, 0)
    BY <2>2, BlankSound DEF base
  <2> QED
    BY <1>2, <1>3, <2>1, <2>3
<1>9. ASSUME NEW j \in 1 .. N, after[j - 1] \in Y[j - 1] PROVE after[j] \in Y[j]
  <2> DEFINE c == after[j - 1]
             e == NthRow(j)
             D == Freed(j - 1)
  <2>1. j - 1 \in 0 .. N /\ j \in 0 .. N /\ j # 0 /\ (j - 1) + 1 = j
    BY <1>2
  <2>2. c \in X /\ Good(c, j - 1)
    BY <1>9, <2>1
  <2>3. after[j] = FreeStep(c)
    BY <1>7, <2>1
  <2> HIDE DEF c
  <2>4. PICK own, rank : Sound(c.g, own, rank, D) /\ Raw(c.g, own, D)
    BY <2>2
  <2>5. e \in Slots \ D
    <3>1. e \in Slots /\ e \notin Firsts
      BY <1>2, RowsNumbered
    <3>2. ASSUME NEW k \in 1 .. (j - 1), e = NthRow(k) PROVE FALSE
      <4>1. k \in 1 .. Spares /\ j \in 1 .. Spares /\ k # j
        BY <1>2
      <4> QED
        BY <3>2, <4>1, RowsNumbered
    <3> QED
      BY <3>1, <3>2 DEF Freed
  <2>6. D \cup {e} = Freed(j)
    <3>1. 1 .. j = (1 .. (j - 1)) \cup {j}
      BY <1>2
    <3> QED
      BY <3>1 DEF Freed
  <2> HIDE DEF e, D
  <2>7. \E o, r : Sound(PushFree(c.g, e), o, r, D \cup {e}) /\ Raw(PushFree(c.g, e), o, D \cup {e})
    BY <2>4, <2>5, RowFreed
  <2>8. FreeStep(c).i = j + 1 /\ FreeStep(c).g = PushFree(c.g, e)
    BY <2>1, <2>2 DEF FreeStep, e
  <2>9. Good(FreeStep(c), j)
    BY <2>6, <2>7, <2>8
  <2> QED
    BY <1>4, <2>1, <2>2, <2>3, <2>9
<1>10. after[N] \in Y[N]
  <2> HIDE DEF Y
  <2> QED
    BY <1>2, <1>8, <1>9, StepByStep
<1>11. PICK own, rank : Sound(after[N].g, own, rank, Freed(N)) /\ Raw(after[N].g, own, Freed(N))
  BY <1>2, <1>10
<1>12. Freed(N) = Slots
  <2>1. Firsts \subseteq Slots
    BY FirstsAre
  <2> QED
    BY <1>2, <2>1, RowsNumbered DEF Freed
<1>13. Tidy(after[N].g, own, Buckets)
  BY <1>11, <1>12 DEF Tidy, Raw, Buckets, Spare
<1>14. \A s \in Slots : after[N].g.ent[s] = EmptyDir
  BY <1>11 DEF Raw
<1> QED
  BY <1>1, <1>11, <1>12, <1>13, <1>14 DEF Neat

-----------------------------------------------------------------------------
(* The lists that ListFrom collects: every entry of a home, once, in the   *)
(* order of the ranks.                                                     *)

(* s is the entry of the lowest rank of the home h.                        *)
Lowest(own, rank, h, s) ==
  /\ s \in Pointers
  /\ s # Nil => own[s] = h
  /\ \A t \in Slots : own[t] = h => s # Nil /\ rank[s] <= rank[t]

Path(q, g, own, rank, h, s) ==
  /\ q \in Seq(Slots)
  /\ q # <<>> => q[1] = s
  /\ \A i \in 1 .. Len(q) : own[q[i]] = h
  /\ \A i \in 1 .. Len(q) : i > 1 => g.next[q[i - 1]] = q[i]
  /\ \A i, j \in 1 .. Len(q) : i < j => rank[q[i]] < rank[q[j]]
  /\ \A t \in Slots : own[t] = h => \/ q = <<>>
                                    \/ \E i \in 1 .. Len(q) : q[i] = t
                                    \/ rank[q[Len(q)]] < rank[t]

Ended(q, g, s) == IF q = <<>> THEN s = Nil ELSE g.next[q[Len(q)]] = Nil

PathStep(q, g, s) ==
  IF q = <<>> THEN IF s = Nil THEN q ELSE <<s>>
  ELSE IF g.next[q[Len(q)]] = Nil THEN q
  ELSE Append(q, g.next[q[Len(q)]])

LEMMA PathDistinct ==
  ASSUME NEW g, NEW own, NEW rank, Sound(g, own, rank, Slots), NEW h, NEW s,
         NEW q, Path(q, g, own, rank, h, s)
  PROVE  /\ \A i, j \in 1 .. Len(q) : q[i] = q[j] => i = j
         /\ Cardinality(Members(q)) = Len(q) /\ Len(q) <= Cardinality(Slots)
<1> DEFINE S == 1 .. Len(q)
           T == Members(q)
<1>1. Len(q) \in Nat /\ DOMAIN q = S /\ q \in [S -> Slots] /\ \A i \in S : q[i] \in Slots
  BY DEF Path
<1>2. T \in SUBSET Slots /\ q \in [S -> T] /\ \A t \in T : \E i \in S : q[i] = t
  BY <1>1 DEF Members
<1>3. rank \in [Slots -> Int]
  BY LinkedParts DEF Sound
<1>4. ASSUME NEW i \in S, NEW j \in S, q[i] = q[j] PROVE i = j
  <2>1. rank[q[i]] \in Int /\ i \in Int /\ j \in Int
    BY <1>1, <1>3
  <2>2. ~(i < j) /\ ~(j < i)
    BY <1>4, <2>1 DEF Path
  <2> QED
    BY <2>1, <2>2
<1> HIDE DEF T
<1>5. q \in Bijection(S, T)
  BY <1>1, <1>2, <1>4 DEF Bijection, Injection, Surjection, IsInjective
<1>6. IsFiniteSet(S) /\ Cardinality(S) = Len(q)
  <2> DEFINE m == Len(q)
  <2>1. m \in Nat /\ m \in Int /\ 1 \in Int
    BY <1>1
  <2> HIDE DEF m
  <2>2. IsFiniteSet(1 .. m) /\ Cardinality(1 .. m) = IF 1 > m THEN 0 ELSE m - 1 + 1
    BY <2>1, FS_Interval
  <2>3. IsFiniteSet(1 .. m) /\ Cardinality(1 .. m) = m
    BY <2>1, <2>2
  <2> QED
    BY <2>3 DEF m
<1>7. Cardinality(T) = Cardinality(S)
  BY <1>5, <1>6, FS_Bijection DEF ExistsBijection
<1>8. Cardinality(T) <= Cardinality(Slots)
  BY <1>2, SlotsFinite, FS_Subset
<1> QED
  BY <1>4, <1>6, <1>7, <1>8 DEF T

LEMMA PathGrows ==
  ASSUME NEW g, NEW own, NEW rank, Sound(g, own, rank, Slots), NEW h, NEW s,
         Lowest(own, rank, h, s), NEW q, Path(q, g, own, rank, h, s)
  PROVE  /\ Path(PathStep(q, g, s), g, own, rank, h, s)
         /\ Ended(q, g, s) => PathStep(q, g, s) = q
         /\ ~Ended(q, g, s) => Len(PathStep(q, g, s)) = Len(q) + 1
<1>0. Linked(g.next, g.free, own, rank, Slots)
  BY DEF Sound
<1>1. /\ rank \in [Slots -> Int] /\ q \in Seq(Slots) /\ Len(q) \in Nat
      /\ \A i \in 1 .. Len(q) : q[i] \in Slots
  BY <1>0, LinkedParts DEF Path
<1>2. CASE Ended(q, g, s)
  BY <1>2 DEF Ended, PathStep
<1>3. CASE ~Ended(q, g, s) /\ q = <<>>
  <2> DEFINE r == <<s>>
  <2>1. PathStep(q, g, s) = r /\ s # Nil
    BY <1>3 DEF Ended, PathStep
  <2>2. s \in Slots /\ own[s] = h
    BY <2>1 DEF Lowest, Pointers
  <2>3. r \in Seq(Slots) /\ Len(r) = 1 /\ r[1] = s /\ r # <<>> /\ Len(q) = 0
    BY <1>3, <2>2
  <2> HIDE DEF r
  <2>4. \A i \in 1 .. Len(r) : i = 1
    BY <2>3
  <2>5. ASSUME NEW t \in Slots, own[t] = h
        PROVE  (\E i \in 1 .. Len(r) : r[i] = t) \/ rank[r[Len(r)]] < rank[t]
    <3>1. rank[s] <= rank[t] /\ rank[s] \in Int /\ rank[t] \in Int
      BY <1>1, <2>2, <2>5 DEF Lowest
    <3>2. CASE rank[s] = rank[t]
      <4>1. s = t
        BY <1>0, <2>2, <2>5, <3>2 DEF Linked, Ordered
      <4>2. 1 \in 1 .. Len(r)
        BY <2>3
      <4> QED
        BY <2>3, <4>1, <4>2
    <3>3. CASE rank[s] # rank[t]
      BY <2>3, <3>1, <3>3
    <3> QED
      BY <3>2, <3>3
  <2>6. Path(r, g, own, rank, h, s)
    BY <2>2, <2>3, <2>4, <2>5 DEF Path
  <2> QED
    BY <1>3, <2>1, <2>3, <2>6
<1>4. CASE ~Ended(q, g, s) /\ q # <<>>
  <2> DEFINE l == q[Len(q)]
             n == g.next[l]
             r == Append(q, n)
  <2>1. PathStep(q, g, s) = r /\ n # Nil
    BY <1>4 DEF Ended, PathStep
  <2>2. Len(q) \in 1 .. Len(q)
    BY <1>1, <1>4, EmptySeq
  <2>3. l \in Slots /\ own[l] = h
    BY <1>1, <2>2 DEF Path
  <2>4. n \in Slots /\ own[n] = h /\ rank[l] < rank[n]
    BY <1>0, <2>1, <2>3, LinkedParts
  <2> HIDE DEF l, n
  <2>5. /\ r \in Seq(Slots) /\ Len(r) = Len(q) + 1 /\ r # <<>> /\ r[Len(q) + 1] = n
        /\ \A i \in 1 .. Len(q) : r[i] = q[i]
    BY <1>1, <2>4, AppendProperties
  <2> HIDE DEF r
  <2>6. \A i \in 1 .. Len(r) : i \in 1 .. Len(q) \/ i = Len(q) + 1
    BY <1>1, <2>5
  <2>7. \A i \in 1 .. Len(r) : own[r[i]] = h
    BY <2>4, <2>5, <2>6 DEF Path
  <2>8. ASSUME NEW i \in 1 .. Len(r), i > 1 PROVE g.next[r[i - 1]] = r[i]
    <3>1. CASE i \in 1 .. Len(q)
      <4>1. i - 1 \in 1 .. Len(q)
        BY <1>1, <2>8, <3>1
      <4> QED
        BY <2>5, <2>8, <3>1, <4>1 DEF Path
    <3>2. CASE i = Len(q) + 1
      <4>1. i - 1 = Len(q)
        BY <1>1, <3>2
      <4> QED
        BY <2>2, <2>5, <3>2, <4>1 DEF n, l
    <3> QED
      BY <2>6, <3>1, <3>2
  <2>9. ASSUME NEW i \in 1 .. Len(r), NEW j \in 1 .. Len(r), i < j
        PROVE  rank[r[i]] < rank[r[j]]
    <3>1. i \in 1 .. Len(q)
      BY <1>1, <2>5, <2>9
    <3>2. CASE j \in 1 .. Len(q)
      BY <2>5, <2>9, <3>1, <3>2 DEF Path
    <3>3. CASE j = Len(q) + 1
      <4>1. q[i] = l \/ rank[q[i]] < rank[l]
        <5>1. CASE i = Len(q)
          BY <5>1 DEF l
        <5>2. CASE i # Len(q)
          <6>1. i < Len(q)
            BY <1>1, <3>1, <5>2
          <6> QED
            BY <2>2, <3>1, <6>1 DEF Path, l
        <5> QED
          BY <5>1, <5>2
      <4>2. rank[q[i]] \in Int /\ rank[l] \in Int /\ rank[n] \in Int
        BY <1>1, <2>3, <2>4, <3>1
      <4>3. rank[q[i]] < rank[n]
        BY <2>4, <4>1, <4>2
      <4> QED
        BY <2>5, <3>1, <3>3, <4>3
    <3> QED
      BY <2>6, <3>2, <3>3
  <2>10. ASSUME NEW t \in Slots, own[t] = h
         PROVE  (\E i \in 1 .. Len(r) : r[i] = t) \/ rank[r[Len(r)]] < rank[t]
    <3>1. Len(q) + 1 \in 1 .. Len(r) /\ r[Len(r)] = n /\ 1 .. Len(q) \subseteq 1 .. Len(r)
      BY <1>1, <2>5
    <3>2. CASE \E i \in 1 .. Len(q) : q[i] = t
      BY <2>5, <3>1, <3>2
    <3>3. CASE rank[l] < rank[t]
      <4>1. rank[t] \in Int /\ rank[l] \in Int /\ rank[n] \in Int
        BY <1>1, <2>3, <2>4
      <4>2. rank[t] <= rank[l] \/ rank[n] <= rank[t]
        BY <1>0, <2>1, <2>3, <2>10 DEF Linked, Follows, n
      <4>3. CASE rank[n] = rank[t]
        <5>1. n = t
          BY <1>0, <2>4, <2>10, <4>3 DEF Linked, Ordered
        <5> QED
          BY <2>5, <3>1, <5>1
      <4>4. CASE rank[n] # rank[t]
        BY <3>1, <3>3, <4>1, <4>2, <4>4
      <4> QED
        BY <4>3, <4>4
    <3> QED
      BY <1>4, <2>10, <3>2, <3>3 DEF Path, l
  <2>11. r[1] = s
    <3>1. 1 \in 1 .. Len(q)
      BY <1>1, <2>2
    <3> QED
      BY <1>4, <2>5, <3>1 DEF Path
  <2>12. Path(r, g, own, rank, h, s)
    BY <2>5, <2>7, <2>8, <2>9, <2>10, <2>11 DEF Path
  <2> QED
    BY <1>4, <2>1, <2>5, <2>12
<1> QED
  BY <1>2, <1>3, <1>4

LEMMA ListFromIs ==
  ASSUME NEW g, NEW own, NEW rank, Sound(g, own, rank, Slots), NEW h, NEW s,
         Lowest(own, rank, h, s)
  PROVE  Path(ListFrom(g, s), g, own, rank, h, s) /\ Ended(ListFrom(g, s), g, s)
<1> DEFINE X == {q \in Seq(Slots) : Path(q, g, own, rank, h, s)}
           base == <<>>
           N == Cardinality(Slots) + 1
           R(f) == [j \in 0 .. N |-> IF j = 0 THEN base ELSE PathStep(f[j - 1], g, s)]
           after == CHOOSE f : f = R(f)
<1>1. ListFrom(g, s) = after[N]
  BY DEF ListFrom, Run, PathStep
<1>2. N \in Nat /\ Cardinality(Slots) \in Nat /\ N > Cardinality(Slots)
  BY SlotsFinite
<1> HIDE DEF N
<1>3. base \in X
  <2>1. base \in Seq(Slots) /\ Len(base) = 0 /\ \A i \in 1 .. Len(base) : FALSE
    OBVIOUS
  <2>2. Path(base, g, own, rank, h, s)
    <3> HIDE DEF base
    <3> QED
      BY <2>1 DEF Path, base
  <2> QED
    BY <2>1, <2>2
<1>4. ASSUME NEW q \in X PROVE PathStep(q, g, s) \in X
  <2>1. Path(PathStep(q, g, s), g, own, rank, h, s)
    BY PathGrows
  <2> QED
    BY <2>1 DEF Path
<1>5. Len(base) = 0
  OBVIOUS
<1> HIDE DEF X, base
<1>6. \E f : f = R(f)
  <2> DEFINE step == [q \in X |-> PathStep(q, g, s)]
  <2>1. step \in [X -> X] /\ \A q \in X : step[q] = PathStep(q, g, s)
    BY <1>4
  <2> HIDE DEF step
  <2>2. PICK f : Loop(f, N, X, base, step)
    BY <1>2, <1>3, <2>1, LoopExists
  <2>3. /\ f \in [0 .. N -> X]
        /\ \A j \in 0 .. N : f[j] = IF j = 0 THEN base ELSE step[f[j - 1]]
    BY <2>2 DEF Loop
  <2>4. \A j \in 0 .. N : j # 0 => f[j - 1] \in X
    <3>1. \A j \in 0 .. N : j # 0 => j - 1 \in 0 .. N
      BY <1>2
    <3> QED
      BY <2>3, <3>1
  <2>5. f = R(f)
    BY <2>1, <2>3, <2>4
  <2> QED
    BY <2>5
<1>7. after = R(after)
  BY <1>6
<1> HIDE DEF after
<1>8. \A j \in 0 .. N : after[j] = IF j = 0 THEN base ELSE PathStep(after[j - 1], g, s)
  BY <1>7, Zenon
<1> DEFINE Y == [j \in 0 .. N |-> {q \in X : Ended(q, g, s) \/ Len(q) = j}]
<1>9. after[0] \in Y[0]
  <2>1. after[0] = base
    BY <1>2, <1>8
  <2> QED
    BY <1>2, <1>3, <1>5, <2>1
<1>10. ASSUME NEW j \in 1 .. N, after[j - 1] \in Y[j - 1] PROVE after[j] \in Y[j]
  <2> DEFINE q == after[j - 1]
             r == PathStep(q, g, s)
  <2>1. j - 1 \in 0 .. N /\ j \in 0 .. N /\ j # 0 /\ (j - 1) + 1 = j
    BY <1>2
  <2>2. q \in X /\ (Ended(q, g, s) \/ Len(q) = j - 1)
    BY <1>10, <2>1
  <2>3. after[j] = r
    BY <1>8, <2>1
  <2> HIDE DEF q
  <2>4. Path(q, g, own, rank, h, s)
    BY <2>2 DEF X
  <2>5. (Ended(q, g, s) => r = q) /\ (~Ended(q, g, s) => Len(r) = Len(q) + 1)
    BY <2>4, PathGrows
  <2>6. r \in X
    BY <1>4, <2>2
  <2> HIDE DEF r
  <2>7. Ended(r, g, s) \/ Len(r) = j
    BY <2>1, <2>2, <2>5
  <2> QED
    BY <2>1, <2>3, <2>6, <2>7
<1>11. after[N] \in Y[N]
  <2> HIDE DEF Y
  <2> QED
    BY <1>2, <1>9, <1>10, StepByStep
<1> DEFINE q == after[N]
<1>12. q \in X /\ (Ended(q, g, s) \/ Len(q) = N)
  BY <1>2, <1>11
<1> HIDE DEF q
<1>13. Path(q, g, own, rank, h, s)
  BY <1>12 DEF X
<1>14. Len(q) <= Cardinality(Slots) /\ Len(q) \in Nat
  <2>1. Len(q) <= Cardinality(Slots)
    BY <1>13, PathDistinct
  <2>2. Len(q) \in Nat
    BY <1>13 DEF Path
  <2> QED
    BY <2>1, <2>2
<1>15. Ended(q, g, s)
  BY <1>2, <1>12, <1>14
<1> QED
  BY <1>1, <1>13, <1>15 DEF q

(* The list of a home is all of it.                                        *)
LEMMA ListIsHome ==
  ASSUME NEW g, NEW own, NEW rank, Sound(g, own, rank, Slots), NEW h, NEW s,
         Lowest(own, rank, h, s), NEW q, q = ListFrom(g, s)
  PROVE  /\ Path(q, g, own, rank, h, s) /\ Cardinality(Members(q)) = Len(q)
         /\ Members(q) = {t \in Slots : own[t] = h}
         /\ \A i, j \in 1 .. Len(q) : q[i] = q[j] => i = j
         /\ DOMAIN q = 1 .. Len(q) /\ Len(q) \in Nat
<1>1. Path(q, g, own, rank, h, s) /\ Ended(q, g, s)
  BY ListFromIs
<1>2. /\ Cardinality(Members(q)) = Len(q)
      /\ \A i, j \in 1 .. Len(q) : q[i] = q[j] => i = j
  BY <1>1, PathDistinct
<1>3. Len(q) \in Nat /\ DOMAIN q = 1 .. Len(q) /\ q \in Seq(Slots)
  BY <1>1 DEF Path
<1>4. \A t \in Members(q) : t \in Slots /\ own[t] = h
  BY <1>1, <1>3 DEF Members, Path
<1>5. ASSUME NEW t \in Slots, own[t] = h PROVE t \in Members(q)
  <2>1. CASE q = <<>>
    BY <1>1, <1>5, <2>1 DEF Ended, Lowest
  <2>2. CASE q # <<>>
    <3> DEFINE l == q[Len(q)]
    <3>1. Len(q) \in 1 .. Len(q)
      BY <1>3, <2>2, EmptySeq
    <3>2. l \in Slots /\ own[l] = h /\ g.next[l] = Nil
      BY <1>1, <1>3, <2>2, <3>1 DEF Path, Ended
    <3>3. Linked(g.next, g.free, own, rank, Slots)
      BY DEF Sound
    <3>4. rank[t] \in Int /\ rank[l] \in Int /\ rank[t] <= rank[l]
      BY <1>5, <3>2, <3>3, LinkedParts DEF Linked, Follows
    <3>5. ~(rank[l] < rank[t])
      BY <3>4
    <3>6. \E i \in 1 .. Len(q) : q[i] = t
      BY <1>1, <1>5, <2>2, <3>5 DEF Path
    <3> QED
      BY <1>3, <3>6 DEF Members
  <2> QED
    BY <2>1, <2>2
<1> QED
  BY <1>1, <1>2, <1>3, <1>4, <1>5

LEMMA Starts ==
  ASSUME NEW g, NEW own, NEW rank, Sound(g, own, rank, Slots)
  PROVE  /\ \A b \in Buckets : Lowest(own, rank, b, Row(b, 0))
         /\ Lowest(own, rank, Spare, g.free)
<1>1. Linked(g.next, g.free, own, rank, Slots)
  BY DEF Sound
<1>2. /\ \A b \in Buckets : Row(b, 0) \in Slots /\ own[Row(b, 0)] = b /\ b # Spare
      /\ g.free \in Slots \cup {Nil} /\ (g.free # Nil => own[g.free] = Spare)
  BY <1>1, LinkedParts DEF Firsts, Buckets, Spare
<1>3. ASSUME NEW b \in Buckets PROVE Lowest(own, rank, b, Row(b, 0))
  BY <1>1, <1>2, SlotsFinite DEF Lowest, Pointers, Linked, Begins
<1>4. Lowest(own, rank, Spare, g.free)
  BY <1>1, <1>2 DEF Lowest, Pointers, Linked, Begins
<1> QED
  BY <1>3, <1>4

-----------------------------------------------------------------------------
(* What a segment holds, and how it changes.                               *)

Items == [bucket : Buckets, tag : Tags \cup {0}, off : 0 .. Blocks, phase : BOOLEAN,
          head : BOOLEAN]

Used(g) == {s \in Slots : g.ent[s].off # 0}

Stock(g, own) == {Item(own[s], g.ent[s]) : s \in Used(g)}

(* The entries on the chains are those in use.                             *)
LEMMA ContentsAre ==
  ASSUME NEW g, NEW own, NEW rank, Sound(g, own, rank, Slots)
  PROVE  /\ Contents(g) = Stock(g, own)
         /\ \A s \in Used(g) : s \in Slots /\ own[s] \in Buckets /\ own[s] # Spare
                               /\ Item(own[s], g.ent[s]) \in Items
         /\ Contents(g) \subseteq Items
<1>1. own \in [Slots -> Homes] /\ g.ent \in [Slots -> Dirs]
  BY LinkedParts, SegmentParts DEF Sound
<1>2. ASSUME NEW s \in Used(g)
      PROVE  s \in Slots /\ own[s] \in Buckets /\ own[s] # Spare /\ Item(own[s], g.ent[s]) \in Items
  <2>1. s \in Slots /\ own[s] # Spare
    BY DEF Used, Sound, Backed
  <2>2. own[s] \in Buckets
    BY <1>1, <2>1 DEF Homes
  <2>3. g.ent[s] \in Dirs
    BY <1>1, <2>1
  <2>4. Item(own[s], g.ent[s]) \in Items
    BY <2>2, <2>3 DEF Item, Items, Dirs
  <2> QED
    BY <2>1, <2>2, <2>4
<1>3. ASSUME NEW b \in Buckets PROVE Members(Chain(g, b)) = {t \in Slots : own[t] = b}
  <2>1. Lowest(own, rank, b, Row(b, 0))
    BY Starts
  <2> QED
    BY <2>1, ListIsHome DEF Chain
<1>4. ASSUME NEW x PROVE x \in Contents(g) <=> x \in Stock(g, own)
  <2>1. x \in Contents(g) <=>
          \E b \in Buckets : \E t \in Members(Chain(g, b)) : g.ent[t].off # 0 /\ x = Item(b, g.ent[t])
    BY DEF Contents, Item
  <2>2. x \in Contents(g) <=>
          \E b \in Buckets : \E t \in Slots : own[t] = b /\ g.ent[t].off # 0 /\ x = Item(b, g.ent[t])
    BY <1>3, <2>1
  <2>3. x \in Stock(g, own) <=> \E t \in Slots : g.ent[t].off # 0 /\ x = Item(own[t], g.ent[t])
    BY DEF Stock, Used
  <2> QED
    BY <1>2, <2>2, <2>3 DEF Used
<1>5. Contents(g) = Stock(g, own)
  BY <1>4
<1>6. Stock(g, own) \subseteq Items
  BY <1>2 DEF Stock
<1> QED
  BY <1>2, <1>5, <1>6

LEMMA StockHas ==
  ASSUME NEW g, NEW own, NEW x
  PROVE  x \in Stock(g, own) <=> \E s \in Used(g) : x = Item(own[s], g.ent[s])
BY DEF Stock

LEMMA ContentsFinite ==
  ASSUME NEW g, NEW own, NEW rank, Sound(g, own, rank, Slots)
  PROVE  IsFiniteSet(Contents(g))
<1> DEFINE C == Contents(g)
           G == [s \in Used(g) |-> Item(own[s], g.ent[s])]
<1>1. C = Stock(g, own)
  BY ContentsAre
<1>2. IsFiniteSet(Used(g))
  <2>1. Used(g) \in SUBSET Slots
    BY DEF Used
  <2> QED
    BY <2>1, SlotsFinite, FS_Subset
<1>3. G \in Surjection(Used(g), C)
  <2>1. \A x \in C : \E s \in Used(g) : x = Item(own[s], g.ent[s])
    BY <1>1, StockHas
  <2>2. \A s \in Used(g) : Item(own[s], g.ent[s]) \in C
    BY <1>1, StockHas
  <2> QED
    BY <2>1, <2>2 DEF Surjection
<1> HIDE DEF C, G
<1>4. IsFiniteSet(C)
  BY <1>2, <1>3, FS_Surjection
<1> QED
  BY <1>4 DEF C

(* No two entries in use are for the same block.                           *)
Distinct(g) ==
  \A s, t \in Used(g) : s # t => g.ent[s].off # g.ent[t].off \/ g.ent[s].phase # g.ent[t].phase

(* From g to h only entries in W were lost, and none was made.             *)
Sheds(g, h, W) ==
  /\ Contents(h) \subseteq Contents(g)
  /\ Contents(g) \ Contents(h) \subseteq W
  /\ Distinct(g) => Distinct(h)

LEMMA ShedsSame == ASSUME NEW g, NEW W PROVE Sheds(g, g, W)
BY DEF Sheds

LEMMA ShedsAgain ==
  ASSUME NEW g, NEW h, NEW k, NEW W, Sheds(g, h, W), Sheds(h, k, W)
  PROVE  Sheds(g, k, W)
BY DEF Sheds

(* The deletion of an entry.                                               *)
LEMMA DropSheds ==
  ASSUME NEW g, NEW own, NEW rank, Sound(g, own, rank, Slots), NEW b \in Buckets,
         NEW e, NEW p, Position(g, own, b, e, p), e # Nil, NEW h, NEW o, NEW r, NEW d,
         Dropped(g, own, rank, b, e, p, h, o, r, d), NEW W,
         g.ent[e].off # 0 => Item(b, g.ent[e]) \in W
  PROVE  /\ Sheds(g, h, W)
         /\ Distinct(g) /\ g.ent[e].off # 0 => Item(b, g.ent[e]) \notin Contents(h)
<1>0. e \in Slots /\ own[e] = b /\ b # Spare /\ Sound(h, o, r, Slots)
  <2>1. e \in Slots /\ own[e] = b /\ b # Spare
    BY PositionParts
  <2> QED
    BY <2>1 DEF Dropped
<1>1. /\ Contents(g) = Stock(g, own) /\ Contents(h) = Stock(h, o)
      /\ \A s \in Used(h) : s \in Slots /\ o[s] # Spare
      /\ \A s \in Used(g) : s \in Slots /\ own[s] # Spare
  BY <1>0, ContentsAre
<1>2. EmptyDir.off = 0
  BY EmptyIsDir
<1>3. ASSUME NEW s \in Used(h), s # e
      PROVE  s \in Used(g) /\ h.ent[s] = g.ent[s] /\ o[s] = own[s]
  <2>1. s \in Slots /\ o[s] # Spare /\ h.ent[s].off # 0
    BY <1>1 DEF Used
  <2>2. o[s] = own[s]
    BY <2>1 DEF Dropped
  <2>3. h.ent[s] = g.ent[s]
    BY <1>3, <2>1, <2>2 DEF Dropped
  <2> QED
    BY <2>1, <2>2, <2>3 DEF Used
<1>4. ASSUME e \in Used(h)
      PROVE  /\ o[e] = own[e] /\ g.next[e] \in Used(g) /\ h.ent[e] = g.ent[g.next[e]]
             /\ own[g.next[e]] = own[e] /\ g.next[e] \notin Used(h)
  <2>1. o[e] = b /\ h.ent[e] # EmptyDir /\ h.ent[e].off # 0
    <3>1. o[e] # Spare /\ h.ent[e].off # 0
      BY <1>1, <1>4 DEF Used
    <3> QED
      BY <1>0, <1>2, <3>1 DEF Dropped
  <2>2. g.next[e] # Nil /\ h.ent[e] = g.ent[g.next[e]] /\ o[g.next[e]] = Spare
    BY <2>1 DEF Dropped
  <2>3. g.next[e] \in Slots /\ own[g.next[e]] = own[e]
    BY <1>0, <2>2, LinkedParts DEF Sound
  <2> QED
    BY <1>0, <1>1, <2>1, <2>2, <2>3 DEF Used
<1>5. ASSUME NEW x \in Stock(h, o) PROVE x \in Stock(g, own)
  <2>1. PICK s \in Used(h) : x = Item(o[s], h.ent[s])
    BY <1>5, StockHas
  <2>2. CASE s # e
    BY <1>3, <2>1, <2>2, StockHas
  <2>3. CASE s = e
    BY <1>4, <2>1, <2>3, StockHas
  <2> QED
    BY <2>2, <2>3
<1>6. ASSUME NEW x \in Stock(g, own), x \notin W PROVE x \in Stock(h, o)
  <2>1. PICK s \in Used(g) : x = Item(own[s], g.ent[s])
    BY <1>6, StockHas
  <2>2. s # e
    BY <1>0, <1>6, <2>1 DEF Used
  <2>3. CASE own[s] # b
    <3>1. o[s] = own[s] /\ h.ent[s] = g.ent[s] /\ s \in Used(h)
      BY <1>1, <2>3 DEF Dropped, Used
    <3> QED
      BY <2>1, <3>1, StockHas
  <2>4. CASE own[s] = b /\ o[s] = b
    <3>1. h.ent[s] = g.ent[s] /\ s \in Used(h)
      BY <1>1, <2>2, <2>4 DEF Dropped, Used
    <3> QED
      BY <2>1, <2>4, <3>1, StockHas
  <2>5. CASE own[s] = b /\ o[s] # b
    <3>1. h.ent[e] = g.ent[s] /\ o[e] = b /\ e \in Used(h)
      BY <1>0, <1>1, <2>2, <2>5 DEF Dropped, Used
    <3> QED
      BY <2>1, <2>5, <3>1, StockHas
  <2> QED
    BY <2>3, <2>4, <2>5
<1>7. ASSUME Distinct(g) PROVE Distinct(h)
  <2> SUFFICES ASSUME NEW s \in Used(h), NEW t \in Used(h), s # t
               PROVE  h.ent[s].off # h.ent[t].off \/ h.ent[s].phase # h.ent[t].phase
    BY DEF Distinct
  <2>1. CASE s # e /\ t # e
    BY <1>3, <1>7, <2>1 DEF Distinct
  <2>2. CASE s = e
    <3>1. t # e /\ t # g.next[e]
      BY <1>4, <2>2
    <3> QED
      BY <1>3, <1>4, <1>7, <2>2, <3>1 DEF Distinct
  <2>3. CASE t = e
    <3>1. s # e /\ s # g.next[e]
      BY <1>4, <2>3
    <3> QED
      BY <1>3, <1>4, <1>7, <2>3, <3>1 DEF Distinct
  <2> QED
    BY <2>1, <2>2, <2>3
<1>8. ASSUME Distinct(g), g.ent[e].off # 0, Item(b, g.ent[e]) \in Stock(h, o) PROVE FALSE
  <2>1. PICK s \in Used(h) : Item(b, g.ent[e]) = Item(o[s], h.ent[s])
    BY <1>8, StockHas
  <2>2. h.ent[s].off = g.ent[e].off /\ h.ent[s].phase = g.ent[e].phase
    BY <2>1 DEF Item
  <2>3. e \in Used(g)
    BY <1>0, <1>8 DEF Used
  <2>4. CASE s # e
    BY <1>3, <1>8, <2>2, <2>3, <2>4 DEF Distinct
  <2>5. CASE s = e
    <3>1. g.next[e] # e /\ g.next[e] \in Used(g) /\ h.ent[e] = g.ent[g.next[e]]
      BY <1>4, <2>5
    <3> QED
      BY <1>8, <2>2, <2>3, <2>5, <3>1 DEF Distinct
  <2> QED
    BY <2>4, <2>5
<1> QED
  BY <1>1, <1>5, <1>6, <1>7, <1>8 DEF Sheds

(* From g to h the entry x was put in, in the place of what is in L.       *)
Puts(g, h, x, L) ==
  /\ Contents(h) \subseteq Contents(g) \cup {x} /\ x \in Contents(h)
  /\ Contents(g) \ Contents(h) \subseteq L
  /\ Distinct(g) /\ (\A y \in Contents(g) : y.off # x.off \/ y.phase # x.phase) => Distinct(h)

(* An entry is written in one place and no other changes its home.         *)
LEMMA PutContents ==
  ASSUME NEW g, NEW own, NEW rank, Sound(g, own, rank, Slots),
         NEW h, NEW o, NEW r, Sound(h, o, r, Slots), NEW e \in Slots, NEW x,
         h.ent[e] = x, x.off # 0,
         \A s \in Slots : s # e => h.ent[s] = g.ent[s] /\ o[s] = own[s],
         NEW L, g.ent[e].off # 0 => Item(own[e], g.ent[e]) \in L
  PROVE  Puts(g, h, Item(o[e], x), L)
<1>1. /\ Contents(g) = Stock(g, own) /\ Contents(h) = Stock(h, o)
      /\ \A s \in Used(h) : s \in Slots
      /\ \A s \in Used(g) : s \in Slots
  BY ContentsAre
<1>2. e \in Used(h) /\ \A s \in Slots : s # e => (s \in Used(h) <=> s \in Used(g))
  BY DEF Used
<1>3. Item(o[e], x) \in Stock(h, o)
  BY <1>2, StockHas
<1>4. ASSUME NEW y \in Stock(h, o), y # Item(o[e], x) PROVE y \in Stock(g, own)
  <2>1. PICK s \in Used(h) : y = Item(o[s], h.ent[s])
    BY <1>4, StockHas
  <2>2. s # e
    BY <1>4, <2>1
  <2> QED
    BY <1>1, <1>2, <2>1, <2>2, StockHas
<1>5. ASSUME NEW y \in Stock(g, own), y \notin L PROVE y \in Stock(h, o)
  <2>1. PICK s \in Used(g) : y = Item(own[s], g.ent[s])
    BY <1>5, StockHas
  <2>2. s # e
    BY <1>5, <2>1 DEF Used
  <2> QED
    BY <1>1, <1>2, <2>1, <2>2, StockHas
<1>6. ASSUME Distinct(g), \A y \in Contents(g) : y.off # x.off \/ y.phase # x.phase
      PROVE  Distinct(h)
  <2>1. ASSUME NEW s \in Used(h), s # e
        PROVE  /\ s \in Used(g) /\ h.ent[s] = g.ent[s]
               /\ h.ent[s].off # x.off \/ h.ent[s].phase # x.phase
    <3>1. s \in Used(g) /\ h.ent[s] = g.ent[s]
      BY <1>1, <1>2, <2>1
    <3>2. Item(own[s], g.ent[s]) \in Contents(g)
      BY <1>1, <3>1, StockHas
    <3>3. g.ent[s].off # x.off \/ g.ent[s].phase # x.phase
      BY <1>6, <3>2 DEF Item
    <3> QED
      BY <3>1, <3>3
  <2> QED
    BY <1>6, <2>1 DEF Distinct
<1>7. Item(o[e], x).off = x.off /\ Item(o[e], x).phase = x.phase
  BY DEF Item
<1> QED
  BY <1>1, <1>3, <1>4, <1>5, <1>6, <1>7 DEF Puts

(* A free entry goes into a chain that is not empty.                       *)
LEMMA TakenNeat ==
  ASSUME NEW g, NEW own, NEW rank, Sound(g, own, rank, Slots), Tidy(g, own, Buckets),
         NEW e \in Slots, own[e] = Spare, NEW b \in Buckets, NEW x \in Dirs, x.off # 0,
         g.ent[Row(b, 0)].off # 0
  PROVE  /\ Neat(Link(Unlink(g, e), b, e, x), Buckets)
         /\ Puts(g, Link(Unlink(g, e), b, e, x), Item(b, x), {})
<1> DEFINE k == Unlink(g, e)
           f == Row(b, 0)
           h == Link(k, b, e, x)
           o == With(own, e, b)
           r == SecondRank(rank, f, e)
<1>1. Sound(k, own, rank, Slots \ {e}) /\ k.ent = g.ent
  BY UnlinkSound
<1> HIDE DEF k
<1>2. /\ Sound(h, o, r, Slots) /\ h.ent = With(g.ent, e, x)
      /\ f \in Slots /\ f # e
      /\ h.next[e] = k.next[f] /\ h.next[f] = e
      /\ \A s \in Slots : s # e /\ s # f => h.next[s] = k.next[s]
  BY <1>1, LinkSound
<1>3. g.ent \in [Slots -> Dirs] /\ own \in [Slots -> Homes]
  BY SegmentParts, LinkedParts DEF Sound
<1>4. /\ h.ent[e] = x /\ \A s \in Slots : s # e => h.ent[s] = g.ent[s] /\ o[s] = own[s]
      /\ o[e] = b /\ g.ent[e].off = 0
  BY <1>2, <1>3 DEF With, Sound, Backed
<1> HIDE DEF h, o, r
<1>5. \A s \in Slots : own[s] # Spare /\ s # e => k.next[s] = g.next[s]
  BY UnlinkKeeps DEF k
<1>6. Tidy(h, o, Buckets)
  <2> SUFFICES ASSUME NEW s \in Slots, o[s] \in Buckets, h.ent[s].off = 0
               PROVE  s \in Firsts /\ h.next[s] = Nil /\ h.ent[s] = EmptyDir
    BY DEF Tidy
  <2>1. s # e /\ s # f
    BY <1>2, <1>4 DEF f
  <2>2. own[s] \in Buckets /\ g.ent[s].off = 0 /\ own[s] # Spare
    BY <1>4, <2>1 DEF Buckets, Spare
  <2>3. s \in Firsts /\ g.next[s] = Nil /\ g.ent[s] = EmptyDir
    BY <2>2 DEF Tidy
  <2> QED
    BY <1>2, <1>4, <1>5, <2>1, <2>2, <2>3
<1>7. Puts(g, h, Item(b, x), {})
  <2>1. Sound(h, o, r, Slots) /\ h.ent[e] = x /\ o[e] = b /\ g.ent[e].off = 0
    BY <1>2, <1>4
  <2>2. \A s \in Slots : s # e => h.ent[s] = g.ent[s] /\ o[s] = own[s]
    BY <1>4
  <2>3. Puts(g, h, Item(o[e], x), {})
    BY <2>1, <2>2, PutContents
  <2> QED
    BY <2>1, <2>3
<1> QED
  BY <1>2, <1>6, <1>7 DEF Neat, h, k

(* What dir_insert and dir_overwrite do with a new entry when there is     *)
(* room for it.                                                            *)
LEMMA PlacedNeat ==
  ASSUME NEW g, Neat(g, Buckets), NEW b \in Buckets, HasRoom(g, b), NEW x \in Dirs, x.off # 0
  PROVE  Neat(Placed(g, b, x), Buckets) /\ Puts(g, Placed(g, b, x), Item(b, x), {})
<1> DEFINE f == Row(b, 0)
           l == CHOOSE m \in EmptyRows(g, b) : \A n \in EmptyRows(g, b) : m <= n
<1>1. PICK own, rank : Sound(g, own, rank, Slots) /\ Tidy(g, own, Buckets)
  BY DEF Neat
<1>2. g \in Segments /\ Linked(g.next, g.free, own, rank, Slots)
  BY <1>1 DEF Sound
<1>3. f \in Slots /\ own[f] = b /\ own \in [Slots -> Homes] /\ b # Spare /\ 0 \in Rows
  BY <1>2, LinkedParts DEF Firsts, Buckets, Spare, Rows
<1>4. \A m \in Rows : m \in EmptyRows(g, b) <=> g.ent[Row(b, m)].off = 0
  BY DEF EmptyRows, Rows
<1>5. CASE EmptyRows(g, b) = {}
  <2>1. g.ent[f].off # 0 /\ g.free # Nil
    BY <1>3, <1>4, <1>5 DEF HasRoom
  <2>2. Pop(g) = Unlink(g, g.free) /\ g.free \in Slots /\ own[g.free] = Spare
    BY <1>1, <2>1, PopIsUnlink
  <2>3. Placed(g, b, x) = Link(Unlink(g, g.free), b, g.free, x)
    BY <1>5, <2>2 DEF Placed
  <2> QED
    BY <1>1, <2>1, <2>2, <2>3, TakenNeat
<1>6. CASE EmptyRows(g, b) # {}
  <2>1. l \in EmptyRows(g, b) /\ \A n \in EmptyRows(g, b) : l <= n
    <3>1. EmptyRows(g, b) \in SUBSET Nat
      BY DEF EmptyRows
    <3>2. \E m \in EmptyRows(g, b) : \A n \in EmptyRows(g, b) : m <= n
      BY <1>6, <3>1, LeastNatural
    <3> QED
      BY <3>2
  <2>2. l \in Rows
    BY <2>1 DEF EmptyRows, Rows
  <2>3. Placed(g, b, x) = IF l = 0 THEN [g EXCEPT !.ent[f] = x]
                          ELSE Link(Unlink(g, Row(b, l)), b, Row(b, l), x)
    BY <1>6 DEF Placed
  <2> HIDE DEF l
  <2>4. CASE l = 0
    <3> DEFINE y == With(g.ent, f, x)
               h == [g EXCEPT !.ent = y]
    <3>1. g.ent \in [Slots -> Dirs]
      BY <1>2, SegmentParts
    <3>2. y \in [Slots -> Dirs] /\ y[f] = x /\ \A s \in Slots : s # f => y[s] = g.ent[s]
      BY <1>3, <3>1 DEF With
    <3>3. Placed(g, b, x) = h
      BY <1>2, <2>3, <2>4 DEF With, Segments
    <3> HIDE DEF y, f
    <3>4. \A s \in Slots : own[s] = Spare => y[s].off = 0
      BY <1>1, <1>3, <3>2 DEF Sound, Backed
    <3>5. Sound(h, own, rank, Slots) /\ h.ent = y /\ h.next = g.next
      BY <1>1, <3>2, <3>4, Rewritten
    <3> HIDE DEF h
    <3>6. Tidy(h, own, Buckets)
      BY <1>1, <3>2, <3>5 DEF Tidy
    <3>7. g.ent[f].off = 0
      BY <1>3, <1>4, <2>1, <2>4 DEF f
    <3>8. Puts(g, h, Item(b, x), {})
      BY <1>1, <1>3, <3>2, <3>5, <3>7, PutContents
    <3> QED
      BY <3>3, <3>5, <3>6, <3>8 DEF Neat
  <2>5. CASE l # 0
    <3>1. g.ent[f].off # 0
      <4> SUFFICES ASSUME g.ent[f].off = 0 PROVE FALSE
        OBVIOUS
      <4>1. l <= 0
        BY <1>3, <1>4, <2>1
      <4> QED
        BY <2>2, <2>5, <4>1 DEF Rows
    <3>2. Row(b, l) \in Slots /\ Row(b, l) \notin Firsts /\ g.ent[Row(b, l)].off = 0
      BY <1>4, <2>1, <2>2, <2>5, RowIsSlot, FirstsAre
    <3>3. own[Row(b, l)] = Spare
      BY <1>1, <1>3, <3>2 DEF Tidy, Homes
    <3> HIDE DEF f
    <3>4. /\ Neat(Link(Unlink(g, Row(b, l)), b, Row(b, l), x), Buckets)
          /\ Puts(g, Link(Unlink(g, Row(b, l)), b, Row(b, l), x), Item(b, x), {})
      BY <1>1, <3>1, <3>2, <3>3, TakenNeat DEF f
    <3> QED
      BY <2>3, <2>5, <3>4
  <2> QED
    BY <2>4, <2>5
<1> QED
  BY <1>5, <1>6

-----------------------------------------------------------------------------
(* dir_clean_bucket leaves no unused entry but the start of an empty       *)
(* chain, whatever was in the bucket.                                      *)

Cursors == [g : Segments, e : Pointers, p : Pointers]

CleanStep(c, at, ph) ==
  IF c.e = Nil THEN c
  ELSE IF c.g.ent[c.e].off = 0 \/ ~ValidAt(c.g.ent[c.e], at, ph) THEN DropAt(c)
  ELSE Forward(c)

(* The entries that the cursor has passed are in use.                      *)
Passed(c, own, rank, b) ==
  \A s \in Slots :
    own[s] = b /\ c.g.ent[s].off = 0 /\ (c.e # Nil => rank[s] < rank[c.e]) =>
      s \in Firsts /\ c.g.next[s] = Nil /\ c.g.ent[s] = EmptyDir

(* ... and they are valid.                                                 *)
Checked(c, own, rank, b, at, ph) ==
  \A s \in Slots :
    own[s] = b /\ c.g.ent[s].off # 0 /\ (c.e # Nil => rank[s] < rank[c.e]) =>
      ValidAt(c.g.ent[s], at, ph)

Invalid(at, ph) == {x \in Items : ~ValidAt(x, at, ph)}

AllValid(g, B, at, ph) == \A x \in Contents(g) : x.bucket \in B => ValidAt(x, at, ph)

Cleaning(c, own, rank, b, B, at, ph) ==
  /\ c \in Cursors
  /\ Sound(c.g, own, rank, Slots) /\ Tidy(c.g, own, B)
  /\ Position(c.g, own, b, c.e, c.p)
  /\ Passed(c, own, rank, b) /\ Checked(c, own, rank, b, at, ph)

(* The rest of the chain is in D.                                          *)
Ahead(c, own, rank, b, D) ==
  D \in SUBSET Slots /\ \A s \in Slots : own[s] = b /\ rank[c.e] <= rank[s] => s \in D

(* From g to h an entry was freed, or else entries became blank and none   *)
(* moved.                                                                  *)
Shrunk(g, h) ==
  h.free # Nil \/ (g.free = Nil /\ \A s \in Slots : h.ent[s] \in {g.ent[s], EmptyDir})

LEMMA ShrunkSame == ASSUME NEW g PROVE Shrunk(g, g)
BY DEF Shrunk

LEMMA ShrunkAgain ==
  ASSUME NEW g, NEW h, NEW k, Shrunk(g, h), Shrunk(h, k)
  PROVE  Shrunk(g, k)
BY DEF Shrunk

LEMMA DropShrinks ==
  ASSUME NEW g \in Segments, NEW e \in Slots, NEW p \in Pointers, p # e
  PROVE  Shrunk(g, DeleteEntry(g, e, p))
<1>0. Nil \notin Slots /\ g.next[e] \in Pointers /\ \A h, x, y : x # Nil => DeleteAfter(h, x, y).free # Nil
  BY SlotsFinite DEF Segments, DeleteAfter, PushFree
<1>1. CASE p # Nil
  <2>1. DeleteEntry(g, e, p) = DeleteAfter(g, e, p)
    BY <1>1 DEF DeleteEntry
  <2> QED
    BY <1>0, <2>1 DEF Shrunk
<1>2. CASE p = Nil /\ g.next[e] # Nil
  <2>1. DeleteEntry(g, e, p).free # Nil
    BY <1>0, <1>2 DEF DeleteEntry, DeleteFirst
  <2> QED
    BY <2>1 DEF Shrunk
<1>3. CASE p = Nil /\ g.next[e] = Nil
  <2> DEFINE h == [g EXCEPT !.ent[e] = EmptyDir]
  <2>1. DeleteEntry(g, e, p) = h
    BY <1>3 DEF DeleteEntry, DeleteFirst
  <2>2. h.free = g.free /\ \A s \in Slots : h.ent[s] \in {g.ent[s], EmptyDir}
    BY DEF Segments
  <2> HIDE DEF h
  <2> QED
    BY <2>1, <2>2 DEF Shrunk
<1> QED
  BY <1>1, <1>2, <1>3

(* A step from c to d: the rest of the chain loses an entry.               *)
Nearer(c, own, rank, d, o, r, b, B, at, ph) ==
  /\ Cleaning(d, o, r, b, B, at, ph)
  /\ Shrunk(c.g, d.g) /\ Sheds(c.g, d.g, Invalid(at, ph))
  /\ \A D : Ahead(c, own, rank, b, D) /\ d.e # Nil => \E x \in D : Ahead(d, o, r, b, D \ {x})

LEMMA CursorParts ==
  ASSUME NEW c \in Cursors, c.e # Nil
  PROVE  /\ Forward(c).g = c.g /\ Forward(c).e = c.g.next[c.e] /\ Forward(c).p = c.e
         /\ DropAt(c).g = DeleteEntry(c.g, c.e, c.p) /\ DropAt(c).p = c.p
         /\ DropAt(c).e = AfterDelete(c.g, c.e, c.p)
         /\ Forward(c) \in Cursors
         /\ DropAt(c).g \in Segments /\ DropAt(c).e \in Pointers => DropAt(c) \in Cursors
<1>1. c.e \in Slots /\ c.e \in Pointers /\ c.g.next \in [Slots -> Pointers]
  BY DEF Cursors, Segments, Pointers
<1>2. Forward(c).g = c.g /\ Forward(c).e = c.g.next[c.e] /\ Forward(c).p = c.e
  BY DEF Cursors, Forward
<1>3. /\ DropAt(c).g = DeleteEntry(c.g, c.e, c.p) /\ DropAt(c).p = c.p
      /\ DropAt(c).e = AfterDelete(c.g, c.e, c.p)
  BY DEF Cursors, DropAt
<1>4. Forward(c) \in Cursors
  BY <1>1 DEF Cursors, Forward
<1>5. ASSUME DropAt(c).g \in Segments, DropAt(c).e \in Pointers PROVE DropAt(c) \in Cursors
  BY <1>3, <1>5 DEF Cursors, DropAt
<1> QED
  BY <1>2, <1>3, <1>4, <1>5

LEMMA ForwardCleaning ==
  ASSUME NEW c, NEW own, NEW rank, NEW b \in Buckets, NEW B \in SUBSET Buckets,
         NEW at, NEW ph, Cleaning(c, own, rank, b, B, at, ph), c.e # Nil,
         c.g.ent[c.e].off # 0, ValidAt(c.g.ent[c.e], at, ph)
  PROVE  Nearer(c, own, rank, Forward(c), own, rank, b, B, at, ph)
<1> DEFINE d == Forward(c)
<1>0. /\ c \in Cursors /\ Sound(c.g, own, rank, Slots) /\ Tidy(c.g, own, B)
      /\ Position(c.g, own, b, c.e, c.p)
  BY DEF Cleaning
<1>1. d.g = c.g /\ d.e = c.g.next[c.e] /\ d.p = c.e /\ d \in Cursors
  BY <1>0, CursorParts
<1>2. c.e \in Slots /\ own[c.e] = b
  BY <1>0, PositionParts
<1>3. Position(d.g, own, b, d.e, d.p) /\ (d.e # Nil => rank[c.e] < rank[d.e])
  BY <1>0, <1>1, ForwardPosition
<1>4. Linked(c.g.next, c.g.free, own, rank, Slots)
  BY <1>0 DEF Sound
<1>5. rank \in [Slots -> Int] /\ d.e \in Pointers
  BY <1>1, <1>4, LinkedParts DEF Cursors
<1> HIDE DEF d
<1>6. ASSUME NEW s \in Slots, own[s] = b, d.g.ent[s].off = 0, d.e # Nil => rank[s] < rank[d.e]
      PROVE  s \in Firsts /\ d.g.next[s] = Nil /\ d.g.ent[s] = EmptyDir
  <2>1. s # c.e
    BY <1>1, <1>6
  <2>2. rank[s] < rank[c.e]
    BY <1>0, <1>1, <1>2, <1>6, <2>1, Before
  <2> QED
    BY <1>1, <1>6, <2>2 DEF Cleaning, Passed
<1>9. ASSUME NEW s \in Slots, own[s] = b, d.g.ent[s].off # 0, d.e # Nil => rank[s] < rank[d.e]
      PROVE  ValidAt(d.g.ent[s], at, ph)
  <2>1. CASE s = c.e
    BY <1>1, <2>1
  <2>2. CASE s # c.e
    <3>1. rank[s] < rank[c.e]
      BY <1>0, <1>1, <1>2, <1>9, <2>2, Before
    <3> QED
      BY <1>1, <1>9, <3>1 DEF Cleaning, Checked
  <2> QED
    BY <2>1, <2>2
<1>7. Cleaning(d, own, rank, b, B, at, ph)
  BY <1>0, <1>1, <1>3, <1>6, <1>9 DEF Cleaning, Passed, Checked
<1>8. ASSUME NEW D, Ahead(c, own, rank, b, D), d.e # Nil
      PROVE  \E x \in D : Ahead(d, own, rank, b, D \ {x})
  <2>1. c.e \in D
    BY <1>2, <1>5, <1>8 DEF Ahead
  <2>2. d.e \in Slots
    BY <1>5, <1>8 DEF Pointers
  <2>3. ASSUME NEW s \in Slots, own[s] = b, rank[d.e] <= rank[s] PROVE s \in D \ {c.e}
    <3>1. rank[c.e] \in Int /\ rank[s] \in Int /\ rank[d.e] \in Int /\ rank[c.e] < rank[d.e]
      BY <1>2, <1>3, <1>5, <1>8, <2>2
    <3>2. rank[c.e] <= rank[s] /\ s # c.e
      BY <2>3, <3>1
    <3> QED
      BY <1>8, <2>3, <3>2 DEF Ahead
  <2> QED
    BY <1>8, <2>1, <2>3 DEF Ahead
<1> QED
  <2>1. Shrunk(c.g, Forward(c).g) /\ Sheds(c.g, Forward(c).g, Invalid(at, ph))
    BY <1>1, ShrunkSame, ShedsSame DEF d
  <2> QED
    BY <1>7, <1>8, <2>1 DEF d, Nearer

(* A deletion passes nothing.                                              *)
LEMMA DropPasses ==
  ASSUME NEW g, NEW own, NEW rank, Sound(g, own, rank, Slots), NEW b \in Buckets,
         NEW e, NEW p, Position(g, own, b, e, p), e # Nil, NEW h, NEW o, NEW r, NEW d,
         Dropped(g, own, rank, b, e, p, h, o, r, d),
         NEW s \in Slots, o[s] = b, h.ent[s].off # 0, d # Nil => r[s] < r[d]
  PROVE  own[s] = b /\ h.ent[s] = g.ent[s] /\ rank[s] < rank[e]
<1>1. Sound(h, o, r, Slots) /\ Position(h, o, b, d, p)
  BY DEF Dropped
<1>2. e \in Slots /\ own[e] = b /\ rank \in [Slots -> Int] /\ r \in [Slots -> Int]
  <2>1. Linked(g.next, g.free, own, rank, Slots) /\ Linked(h.next, h.free, o, r, Slots)
    BY <1>1 DEF Sound
  <2>2. e \in Slots /\ own[e] = b
    BY PositionParts
  <2> QED
    BY <2>1, <2>2, LinkedParts
<1>3. d # Nil => d \in Slots /\ o[d] = b /\ r[d] = rank[d] /\ rank[e] <= rank[d]
  BY <1>1 DEF Dropped, Position, Pointers
<1>4. s # e
  <2> SUFFICES ASSUME s = e PROVE FALSE
    OBVIOUS
  <2>1. d = Nil => h.ent[s] = EmptyDir
    BY <1>2 DEF Dropped
  <2>2. d # Nil => ~(r[s] < r[d])
    BY <1>2, <1>3 DEF Dropped
  <2> QED
    BY <2>1, <2>2, EmptyIsDir
<1>5. own[s] = b /\ r[s] = rank[s] /\ h.ent[s] = g.ent[s]
  BY <1>4 DEF Dropped
<1>6. rank[s] < rank[e]
  BY <1>3, <1>4, <1>5 DEF Dropped
<1> QED
  BY <1>5, <1>6

(* ... and leaves less ahead.                                              *)
LEMMA DropAhead ==
  ASSUME NEW c, NEW d, NEW own, NEW rank, NEW o, NEW r, NEW b \in Buckets,
         Sound(c.g, own, rank, Slots), Position(c.g, own, b, c.e, c.p), c.e # Nil,
         Dropped(c.g, own, rank, b, c.e, c.p, d.g, o, r, d.e)
  PROVE  \A D : Ahead(c, own, rank, b, D) /\ d.e # Nil => \E x \in D : Ahead(d, o, r, b, D \ {x})
<1>1. Sound(d.g, o, r, Slots) /\ Position(d.g, o, b, d.e, c.p)
  BY DEF Dropped
<1>2. c.e \in Slots /\ own[c.e] = b /\ rank \in [Slots -> Int] /\ r \in [Slots -> Int]
  <2>1. Linked(c.g.next, c.g.free, own, rank, Slots) /\ Linked(d.g.next, d.g.free, o, r, Slots)
    BY <1>1 DEF Sound
  <2>2. c.e \in Slots /\ own[c.e] = b
    BY PositionParts
  <2> QED
    BY <2>1, <2>2, LinkedParts
<1>3. d.e # Nil => d.e \in Slots /\ o[d.e] = b /\ r[d.e] = rank[d.e] /\ rank[c.e] <= rank[d.e]
  BY <1>1 DEF Dropped, Position, Pointers
<1>4. ASSUME NEW D, Ahead(c, own, rank, b, D), d.e # Nil
      PROVE  \E x \in D : Ahead(d, o, r, b, D \ {x})
  <2>1. PICK x \in Slots : own[x] = b /\ rank[c.e] <= rank[x] /\ o[x] # b
    BY <1>4 DEF Dropped
  <2>2. x \in D
    BY <1>4, <2>1 DEF Ahead
  <2>3. ASSUME NEW s \in Slots, o[s] = b, r[d.e] <= r[s] PROVE s \in D \ {x}
    <3>1. own[s] = b /\ r[s] = rank[s]
      BY <2>3 DEF Dropped
    <3>2. rank[c.e] <= rank[s]
      BY <1>2, <1>3, <1>4, <2>3, <3>1
    <3> QED
      BY <1>4, <2>1, <2>3, <3>1, <3>2 DEF Ahead
  <2> QED
    BY <1>4, <2>2, <2>3 DEF Ahead
<1> QED
  BY <1>4

LEMMA DropCleaning ==
  ASSUME NEW c, NEW own, NEW rank, NEW b \in Buckets, NEW B \in SUBSET Buckets,
         NEW at, NEW ph, Cleaning(c, own, rank, b, B, at, ph), c.e # Nil,
         c.g.ent[c.e].off = 0 \/ ~ValidAt(c.g.ent[c.e], at, ph)
  PROVE  \E o, r : Nearer(c, own, rank, DropAt(c), o, r, b, B, at, ph)
<1> DEFINE d == DropAt(c)
<1>0. /\ c \in Cursors /\ Sound(c.g, own, rank, Slots) /\ Tidy(c.g, own, B)
      /\ Position(c.g, own, b, c.e, c.p)
  BY DEF Cleaning
<1>1. /\ d.g = DeleteEntry(c.g, c.e, c.p) /\ d.p = c.p /\ d.e = AfterDelete(c.g, c.e, c.p)
      /\ d.g \in Segments /\ d.e \in Pointers => d \in Cursors
  BY <1>0, CursorParts
<1> HIDE DEF d
<1>2. PICK o, r : Dropped(c.g, own, rank, b, c.e, c.p, d.g, o, r, d.e)
  BY <1>0, <1>1, DropSound
<1>3. Tidy(d.g, o, B)
  BY <1>0, <1>2, DropTidy
<1>4. Sound(d.g, o, r, Slots) /\ Position(d.g, o, b, d.e, d.p)
  BY <1>1, <1>2 DEF Dropped
<1>5. d.g \in Segments /\ d.e \in Pointers /\ d \in Cursors
  BY <1>1, <1>4 DEF Sound, Position
<1>6. /\ c.e \in Slots /\ own[c.e] = b /\ rank \in [Slots -> Int] /\ r \in [Slots -> Int]
      /\ (c.p # Nil => c.g.next[c.p] = c.e)
  <2>1. Linked(c.g.next, c.g.free, own, rank, Slots) /\ Linked(d.g.next, d.g.free, o, r, Slots)
    BY <1>0, <1>4 DEF Sound
  <2>2. c.e \in Slots /\ own[c.e] = b /\ (c.p # Nil => c.g.next[c.p] = c.e)
    BY <1>0, PositionParts
  <2> QED
    BY <2>1, <2>2, LinkedParts
<1>7. d.e # Nil => d.e \in Slots /\ o[d.e] = b /\ r[d.e] = rank[d.e] /\ rank[c.e] <= rank[d.e]
  BY <1>2, <1>4, <1>5 DEF Dropped, Position, Pointers
<1>8. ASSUME NEW s \in Slots, o[s] = b, d.g.ent[s].off = 0, d.e # Nil => r[s] < r[d.e]
      PROVE  s \in Firsts /\ d.g.next[s] = Nil /\ d.g.ent[s] = EmptyDir
  <2>1. CASE s = c.e
    BY <1>2, <1>6, <1>8, <2>1 DEF Dropped
  <2>2. CASE s # c.e
    <3>1. own[s] = b /\ r[s] = rank[s] /\ d.g.ent[s] = c.g.ent[s]
          /\ (s # c.p => d.g.next[s] = c.g.next[s])
      BY <1>2, <1>8, <2>2 DEF Dropped
    <3>2. rank[s] < rank[c.e]
      BY <1>2, <1>7, <1>8, <2>2, <3>1 DEF Dropped
    <3>3. s \in Firsts /\ c.g.next[s] = Nil /\ c.g.ent[s] = EmptyDir
      BY <1>8, <3>1, <3>2 DEF Cleaning, Passed
    <3>4. s # c.p
      BY <1>6, <3>3, SlotsFinite
    <3> QED
      BY <3>1, <3>3, <3>4
  <2> QED
    BY <2>1, <2>2
<1>11. ASSUME NEW s \in Slots, o[s] = b, d.g.ent[s].off # 0, d.e # Nil => r[s] < r[d.e]
       PROVE  ValidAt(d.g.ent[s], at, ph)
  <2>1. own[s] = b /\ d.g.ent[s] = c.g.ent[s] /\ rank[s] < rank[c.e]
    BY <1>0, <1>2, <1>11, DropPasses
  <2> QED
    BY <1>11, <2>1 DEF Cleaning, Checked
<1>9. Cleaning(d, o, r, b, B, at, ph)
  BY <1>3, <1>4, <1>5, <1>8, <1>11 DEF Cleaning, Passed, Checked
<1>12. Sheds(c.g, d.g, Invalid(at, ph))
  <2>1. ASSUME c.g.ent[c.e].off # 0 PROVE Item(b, c.g.ent[c.e]) \in Invalid(at, ph)
    <3>1. Item(b, c.g.ent[c.e]) \in Items
      BY <1>0, <1>6, <2>1, ContentsAre DEF Used
    <3>2. ~ValidAt(Item(b, c.g.ent[c.e]), at, ph)
      BY <2>1 DEF ValidAt, Item
    <3> QED
      BY <3>1, <3>2 DEF Invalid
  <2> DEFINE W == Invalid(at, ph)
  <2> HIDE DEF W
  <2>2. c.g.ent[c.e].off # 0 => Item(b, c.g.ent[c.e]) \in W
    BY <2>1 DEF W
  <2>3. Sheds(c.g, d.g, W)
    BY <1>0, <1>2, <2>2, DropSheds
  <2> QED
    BY <2>3 DEF W
<1>10. \A D : Ahead(c, own, rank, b, D) /\ d.e # Nil => \E x \in D : Ahead(d, o, r, b, D \ {x})
  BY <1>0, <1>2, DropAhead
<1> QED
  <2>1. c.g \in Segments /\ c.p \in Pointers /\ c.p # c.e
    <3>1. c.g \in Segments
      BY <1>0 DEF Sound
    <3>2. c.p \in Pointers /\ (c.p # Nil => c.p # c.e) /\ c.e # Nil
      BY <1>0, PositionParts
    <3> QED
      BY <3>1, <3>2
  <2>2. Shrunk(c.g, d.g)
    BY <1>1, <1>6, <2>1, DropShrinks
  <2> QED
    BY <1>9, <1>10, <1>12, <2>2 DEF d, Nearer

(* One step of the loop.                                                   *)
LEMMA CleanStepOK ==
  ASSUME NEW c, NEW own, NEW rank, NEW b \in Buckets, NEW B \in SUBSET Buckets,
         NEW at, NEW ph, Cleaning(c, own, rank, b, B, at, ph), c.e # Nil
  PROVE  \E o, r : Nearer(c, own, rank, CleanStep(c, at, ph), o, r, b, B, at, ph)
<1>1. CASE c.g.ent[c.e].off = 0 \/ ~ValidAt(c.g.ent[c.e], at, ph)
  <2>1. CleanStep(c, at, ph) = DropAt(c)
    BY <1>1 DEF CleanStep
  <2> QED
    BY <1>1, <2>1, DropCleaning
<1>2. CASE ~(c.g.ent[c.e].off = 0 \/ ~ValidAt(c.g.ent[c.e], at, ph))
  <2>1. /\ CleanStep(c, at, ph) = Forward(c) /\ c.g.ent[c.e].off # 0
        /\ ValidAt(c.g.ent[c.e], at, ph)
    BY <1>2 DEF CleanStep
  <2> QED
    BY <2>1, ForwardCleaning
<1> QED
  BY <1>1, <1>2

LEMMA CleanBucketNeat ==
  ASSUME NEW g, NEW B \in SUBSET Buckets, Neat(g, B), NEW b \in Buckets, NEW at, NEW ph
  PROVE  LET h == CleanBucket(g, b, at, ph) IN
         /\ Neat(h, B \cup {b}) /\ Shrunk(g, h)
         /\ Sheds(g, h, Invalid(at, ph)) /\ AllValid(h, {b}, at, ph)
<1> DEFINE W == Invalid(at, ph)
           X == {c \in Cursors : /\ Shrunk(g, c.g) /\ Sheds(g, c.g, W)
                                 /\ \E own, rank : Cleaning(c, own, rank, b, B, at, ph)}
           base == [g |-> g, e |-> Row(b, 0), p |-> Nil]
           N == Scan
           K == Cardinality(Slots)
           R(f) == [j \in 0 .. N |-> IF j = 0 THEN base ELSE CleanStep(f[j - 1], at, ph)]
           after == CHOOSE f : f = R(f)
<1>1. CleanBucket(g, b, at, ph) = after[N].g
  BY DEF CleanBucket, Run, CleanStep
<1>2. K \in Nat /\ N \in Nat /\ N = 2 * K
  BY SlotsFinite DEF Scan
<1> HIDE DEF N, K
<1>3. PICK own0, rank0 : Sound(g, own0, rank0, Slots) /\ Tidy(g, own0, B)
  BY DEF Neat
<1>4. /\ base.g = g /\ base.e = Row(b, 0) /\ base.p = Nil
      /\ base \in Cursors /\ base.e # Nil /\ Cleaning(base, own0, rank0, b, B, at, ph)
  <2>1. g \in Segments /\ Linked(g.next, g.free, own0, rank0, Slots)
    BY <1>3 DEF Sound
  <2>2. Row(b, 0) \in Slots /\ own0[Row(b, 0)] = b /\ rank0 \in [Slots -> Int] /\ b # Spare
    BY <2>1, LinkedParts DEF Firsts, Buckets, Spare
  <2>3. base \in Cursors /\ base.g = g /\ base.e = Row(b, 0) /\ base.p = Nil
    BY <2>1, <2>2 DEF Cursors, Pointers
  <2> HIDE DEF base
  <2>4. Position(base.g, own0, b, base.e, base.p) /\ base.e # Nil
    BY <2>2, <2>3, SlotsFinite DEF Position, Pointers
  <2>5. \A s \in Slots : own0[s] = b => ~(rank0[s] < rank0[base.e])
    BY <2>1, <2>2, <2>3 DEF Linked, Begins
  <2> QED
    BY <1>3, <2>3, <2>4, <2>5 DEF Cleaning, Passed, Checked
<1> HIDE DEF W
<1>5. base \in X
  BY <1>4, ShrunkSame, ShedsSame
<1>6. ASSUME NEW c \in X PROVE CleanStep(c, at, ph) \in X
  <2>1. CASE c.e = Nil
    BY <2>1 DEF CleanStep
  <2>2. CASE c.e # Nil
    <3>1. PICK own, rank : Cleaning(c, own, rank, b, B, at, ph)
      OBVIOUS
    <3>2. PICK o, r : Nearer(c, own, rank, CleanStep(c, at, ph), o, r, b, B, at, ph)
      BY <2>2, <3>1, CleanStepOK
    <3>3. Shrunk(g, CleanStep(c, at, ph).g)
      BY <3>2, ShrunkAgain DEF Nearer
    <3>4. Sheds(g, CleanStep(c, at, ph).g, W)
      BY <3>2, ShedsAgain DEF Nearer, W
    <3> QED
      BY <3>2, <3>3, <3>4 DEF Nearer, Cleaning
  <2> QED
    BY <2>1, <2>2
<1> HIDE DEF X, base
<1>7. \E f : f = R(f)
  <2> DEFINE step == [c \in X |-> CleanStep(c, at, ph)]
  <2>1. step \in [X -> X] /\ \A c \in X : step[c] = CleanStep(c, at, ph)
    BY <1>6
  <2> HIDE DEF step
  <2>2. PICK f : Loop(f, N, X, base, step)
    BY <1>2, <1>5, <2>1, LoopExists
  <2>3. /\ f \in [0 .. N -> X]
        /\ \A j \in 0 .. N : f[j] = IF j = 0 THEN base ELSE step[f[j - 1]]
    BY <2>2 DEF Loop
  <2>4. \A j \in 0 .. N : j # 0 => f[j - 1] \in X
    <3>1. \A j \in 0 .. N : j # 0 => j - 1 \in 0 .. N
      BY <1>2
    <3> QED
      BY <2>3, <3>1
  <2>5. f = R(f)
    BY <2>1, <2>3, <2>4
  <2> QED
    BY <2>5
<1>8. after = R(after)
  BY <1>7
<1> HIDE DEF after
<1>9. \A j \in 0 .. N : after[j] = IF j = 0 THEN base ELSE CleanStep(after[j - 1], at, ph)
  BY <1>8, Zenon
<1> DEFINE Left(c, j) == \E own, rank, D : /\ Cleaning(c, own, rank, b, B, at, ph)
                                           /\ Ahead(c, own, rank, b, D)
                                           /\ Cardinality(D) + j <= K
           Y == [j \in 0 .. N |-> {c \in X : c.e = Nil \/ Left(c, j)}]
<1>10. after[0] \in Y[0]
  <2>1. after[0] = base
    BY <1>2, <1>9
  <2>2. Ahead(base, own0, rank0, b, Slots) /\ Cardinality(Slots) + 0 <= K
    BY <1>2 DEF Ahead, K
  <2>3. Left(base, 0)
    BY <1>4, <2>2
  <2> HIDE DEF Left
  <2> QED
    BY <1>2, <1>5, <2>1, <2>3
<1>11. ASSUME NEW j \in 1 .. N, after[j - 1] \in Y[j - 1] PROVE after[j] \in Y[j]
  <2> DEFINE c == after[j - 1]
             d == CleanStep(c, at, ph)
  <2>1. j - 1 \in 0 .. N /\ j \in 0 .. N /\ j # 0 /\ j - 1 \in Int
    BY <1>2
  <2>2. c \in X /\ (c.e = Nil \/ Left(c, j - 1))
    BY <1>11, <2>1
  <2>3. after[j] = d
    BY <1>9, <2>1
  <2> HIDE DEF c
  <2>4. CASE c.e = Nil
    BY <2>1, <2>2, <2>3, <2>4 DEF CleanStep
  <2>5. CASE c.e # Nil
    <3>1. PICK own, rank, D : /\ Cleaning(c, own, rank, b, B, at, ph) /\ Ahead(c, own, rank, b, D)
                              /\ Cardinality(D) + (j - 1) <= K
      BY <2>2, <2>5
    <3>2. PICK o, r : Nearer(c, own, rank, d, o, r, b, B, at, ph)
      BY <2>5, <3>1, CleanStepOK
    <3> HIDE DEF d
    <3>3. ASSUME d.e # Nil PROVE Left(d, j)
      <4>1. PICK x \in D : Ahead(d, o, r, b, D \ {x})
        BY <3>1, <3>2, <3>3 DEF Nearer
      <4>2. IsFiniteSet(D)
        BY <3>1, SlotsFinite, FS_Subset DEF Ahead
      <4>3. Cardinality(D \ {x}) = Cardinality(D) - 1 /\ Cardinality(D) \in Nat
        BY <4>1, <4>2, FS_RemoveElement, FS_CardinalityType
      <4>4. Cardinality(D \ {x}) + j <= K
        BY <1>2, <2>1, <3>1, <4>3
      <4>5. Cleaning(d, o, r, b, B, at, ph)
        BY <3>2 DEF Nearer
      <4> QED
        BY <4>1, <4>4, <4>5
    <3>4. d \in X
      BY <1>6, <2>2 DEF d
    <3> HIDE DEF Left
    <3> QED
      BY <2>1, <2>3, <3>3, <3>4
  <2> QED
    BY <2>4, <2>5
<1>12. after[N] \in Y[N]
  <2> HIDE DEF Y
  <2> QED
    BY <1>2, <1>10, <1>11, StepByStep
<1> DEFINE c == after[N]
<1>13. c \in X /\ (c.e = Nil \/ Left(c, N))
  <2>1. N \in 0 .. N
    BY <1>2
  <2> HIDE DEF Left
  <2> QED
    BY <1>12, <2>1
<1> HIDE DEF c
<1>14. c.e = Nil
  <2> SUFFICES ASSUME c.e # Nil PROVE FALSE
    OBVIOUS
  <2>1. PICK own, rank, D : /\ Cleaning(c, own, rank, b, B, at, ph) /\ Ahead(c, own, rank, b, D)
                            /\ Cardinality(D) + N <= K
    BY <1>13
  <2>2. IsFiniteSet(D)
    BY <2>1, SlotsFinite, FS_Subset DEF Ahead
  <2>3. c.e \in Slots /\ own[c.e] = b /\ rank[c.e] \in Int
    <3>1. Sound(c.g, own, rank, Slots) /\ Position(c.g, own, b, c.e, c.p)
      BY <2>1 DEF Cleaning
    <3>2. c.e \in Slots /\ own[c.e] = b
      BY <3>1, PositionParts
    <3>3. Linked(c.g.next, c.g.free, own, rank, Slots)
      BY <3>1 DEF Sound
    <3> QED
      BY <3>2, <3>3, LinkedParts
  <2>4. c.e \in D
    BY <2>1, <2>3 DEF Ahead
  <2>5. Cardinality(D) \in Nat /\ Cardinality(D) # 0
    BY <2>2, <2>4, FS_CardinalityType, FS_EmptySet
  <2> QED
    BY <1>2, <2>1, <2>5
<1>15. PICK own, rank : Cleaning(c, own, rank, b, B, at, ph)
  BY <1>13 DEF X
<1>16. Tidy(c.g, own, B \cup {b})
  BY <1>14, <1>15 DEF Cleaning, Passed, Tidy
<1>17. Sound(c.g, own, rank, Slots)
  BY <1>15 DEF Cleaning
<1>18. Shrunk(g, c.g) /\ Sheds(g, c.g, W)
  BY <1>13 DEF X
<1>19. AllValid(c.g, {b}, at, ph)
  <2> SUFFICES ASSUME NEW x \in Contents(c.g), x.bucket = b PROVE ValidAt(x, at, ph)
    BY DEF AllValid
  <2>1. PICK s \in Used(c.g) : x = Item(own[s], c.g.ent[s])
    BY <1>17, ContentsAre, StockHas
  <2>2. s \in Slots /\ own[s] = b /\ c.g.ent[s].off # 0
    BY <2>1 DEF Used, Item
  <2>3. ValidAt(c.g.ent[s], at, ph)
    BY <1>14, <1>15, <2>2 DEF Cleaning, Checked
  <2> QED
    BY <2>1, <2>3 DEF ValidAt, Item
<1> QED
  BY <1>1, <1>16, <1>17, <1>18, <1>19 DEF Neat, c, W

LEMMA NeatParts ==
  ASSUME NEW g, NEW B, Neat(g, B)
  PROVE  g \in Segments /\ Neat(g, {})
BY DEF Neat, Sound, Tidy

BucketStep(c, at, ph) == [b |-> c.b + 1, g |-> CleanBucket(c.g, c.b, at, ph)]

(* dir_clean_segment cleans every bucket.                                  *)
LEMMA CleanSegmentNeat ==
  ASSUME NEW g, Neat(g, {}), NEW at, NEW ph
  PROVE  LET h == CleanSegment(g, at, ph) IN
         /\ Neat(h, Buckets) /\ Shrunk(g, h)
         /\ Sheds(g, h, Invalid(at, ph)) /\ AllValid(h, Buckets, at, ph)
<1> DEFINE W == Invalid(at, ph)
           X == {h \in Segments : Neat(h, {})}
           base == [b |-> 0, g |-> g]
           N == NBuckets
           R(f) == [j \in 0 .. N |-> IF j = 0 THEN base ELSE BucketStep(f[j - 1], at, ph)]
           after == CHOOSE f : f = R(f)
<1>1. CleanSegment(g, at, ph) = after[N].g
  BY DEF CleanSegment, Run, BucketStep
<1>2. N \in Nat /\ \A j \in 1 .. N : j - 1 \in Buckets
  BY DEF Buckets
<1> HIDE DEF N
<1>3. g \in X
  BY NeatParts
<1>4. ASSUME NEW b \in Buckets, NEW h \in X PROVE CleanBucket(h, b, at, ph) \in X
  <2>1. {} \in SUBSET Buckets /\ Neat(h, {})
    OBVIOUS
  <2>2. Neat(CleanBucket(h, b, at, ph), {} \cup {b})
    BY <2>1, CleanBucketNeat
  <2> QED
    BY <2>2, NeatParts
<1> HIDE DEF X
<1>5. \E f : f = R(f)
  <2> DEFINE step == [j \in 1 .. N |-> [h \in X |-> CleanBucket(h, j - 1, at, ph)]]
  <2>1. step \in [1 .. N -> [X -> X]]
    BY <1>2, <1>4
  <2>2. \A j \in 1 .. N : \A h \in X : step[j][h] = CleanBucket(h, j - 1, at, ph)
    OBVIOUS
  <2> HIDE DEF step
  <2>3. PICK f : Recursion(f, N, X, g, step)
    BY <1>2, <1>3, <2>1, RecursionExists
  <2>4. /\ f \in [0 .. N -> X]
        /\ \A j \in 0 .. N : f[j] = IF j = 0 THEN g ELSE step[j][f[j - 1]]
    BY <2>3 DEF Recursion
  <2>5. \A j \in 0 .. N : j # 0 => j \in 1 .. N /\ j - 1 \in 0 .. N /\ (j - 1) + 1 = j
    BY <1>2
  <2> DEFINE F == [j \in 0 .. N |-> [b |-> j, g |-> f[j]]]
  <2>6. ASSUME NEW j \in 0 .. N
        PROVE  F[j] = IF j = 0 THEN base ELSE BucketStep(F[j - 1], at, ph)
    <3>1. CASE j = 0
      BY <2>4, <3>1
    <3>2. CASE j # 0
      <4>1. F[j - 1] = [b |-> j - 1, g |-> f[j - 1]] /\ f[j - 1] \in X
        BY <2>4, <2>5, <3>2
      <4>2. F[j] = [b |-> j, g |-> CleanBucket(f[j - 1], j - 1, at, ph)]
        BY <2>2, <2>4, <2>5, <3>2, <4>1
      <4> QED
        BY <2>5, <3>2, <4>1, <4>2 DEF BucketStep
    <3> QED
      BY <3>1, <3>2
  <2>7. F = R(F)
    BY <2>6
  <2> QED
    BY <2>7
<1>6. after = R(after)
  BY <1>5
<1> HIDE DEF after
<1>7. \A j \in 0 .. N : after[j] = IF j = 0 THEN base ELSE BucketStep(after[j - 1], at, ph)
  BY <1>6, Zenon
<1> DEFINE Done(h, B) == /\ Neat(h, B) /\ Shrunk(g, h) /\ Sheds(g, h, W)
                         /\ AllValid(h, B, at, ph)
           Y == [j \in 0 .. N |->
                   {c \in [b : Int, g : Segments] : c.b = j /\ Done(c.g, 0 .. (j - 1))}]
<1> HIDE DEF W
<1>8. after[0] \in Y[0]
  <2>1. after[0] = base
    BY <1>2, <1>7
  <2>2. 0 .. (0 - 1) = {}
    OBVIOUS
  <2>3. Neat(g, 0 .. (0 - 1)) /\ g \in Segments /\ Shrunk(g, g) /\ Sheds(g, g, W)
    BY <2>2, NeatParts, ShrunkSame, ShedsSame
  <2>4. AllValid(g, 0 .. (0 - 1), at, ph)
    BY <2>2 DEF AllValid
  <2>5. Done(g, 0 .. (0 - 1))
    BY <2>3, <2>4
  <2> HIDE DEF Done
  <2> QED
    BY <1>2, <2>1, <2>3, <2>5
<1>9. ASSUME NEW j \in 1 .. N, after[j - 1] \in Y[j - 1] PROVE after[j] \in Y[j]
  <2> DEFINE c == after[j - 1]
             d == BucketStep(c, at, ph)
             h == CleanBucket(c.g, j - 1, at, ph)
             B == 0 .. ((j - 1) - 1)
  <2>1. j - 1 \in 0 .. N /\ j \in 0 .. N /\ j # 0 /\ (j - 1) + 1 = j /\ j \in Int
    BY <1>2
  <2>2. c.b = j - 1 /\ Done(c.g, B)
    <3> HIDE DEF Done
    <3> QED
      BY <1>9, <2>1
  <2>3. after[j] = d
    BY <1>7, <2>1
  <2> HIDE DEF c
  <2>4. d.b = j /\ d.g = h /\ d = [b |-> j, g |-> h]
    BY <2>1, <2>2 DEF BucketStep
  <2>5. B \in SUBSET Buckets /\ j - 1 \in Buckets /\ B \cup {j - 1} = 0 .. (j - 1)
    BY <1>2 DEF Buckets, N
  <2> HIDE DEF B, d
  <2>6. /\ Neat(h, B \cup {j - 1}) /\ Shrunk(c.g, h)
        /\ Sheds(c.g, h, W) /\ AllValid(h, {j - 1}, at, ph)
    BY <2>2, <2>5, CleanBucketNeat DEF W
  <2> HIDE DEF h
  <2>7. Neat(h, 0 .. (j - 1)) /\ h \in Segments /\ Shrunk(g, h)
    BY <2>2, <2>5, <2>6, NeatParts, ShrunkAgain
  <2>8. Sheds(g, h, W)
    BY <2>2, <2>6, ShedsAgain
  <2>9. AllValid(h, B \cup {j - 1}, at, ph)
    BY <2>2, <2>6 DEF AllValid, Sheds
  <2>10. Done(h, 0 .. (j - 1))
    BY <2>5, <2>7, <2>8, <2>9
  <2> HIDE DEF Done
  <2> QED
    BY <2>1, <2>3, <2>4, <2>7, <2>10
<1>10. after[N] \in Y[N]
  <2> HIDE DEF Y
  <2> QED
    BY <1>2, <1>8, <1>9, StepByStep
<1>11. Done(after[N].g, 0 .. (N - 1))
  <2> HIDE DEF Done
  <2> QED
    BY <1>2, <1>10
<1> QED
  BY <1>1, <1>11 DEF Buckets, N, W

HeadItems == {x \in Items : x.head}

(* Some head entries are marked as unused.                                 *)
LEMMA MarkSheds ==
  ASSUME NEW g, NEW own, NEW rank, Sound(g, own, rank, Slots),
         NEW h, Sound(h, own, rank, Slots),
         \A s \in Slots : h.ent[s] = g.ent[s] \/ (g.ent[s].head /\ h.ent[s].off = 0)
  PROVE  Sheds(g, h, HeadItems)
<1>1. /\ Contents(g) = Stock(g, own) /\ Contents(h) = Stock(h, own)
      /\ \A s \in Used(h) : s \in Slots
      /\ \A s \in Used(g) : s \in Slots /\ Item(own[s], g.ent[s]) \in Items
  BY ContentsAre
<1>2. \A s \in Used(h) : s \in Used(g) /\ h.ent[s] = g.ent[s]
  BY DEF Used
<1>3. \A x \in Stock(h, own) : x \in Stock(g, own)
  BY <1>2, StockHas
<1>4. ASSUME NEW x \in Stock(g, own), x \notin Stock(h, own) PROVE x \in HeadItems
  <2>1. PICK s \in Used(g) : x = Item(own[s], g.ent[s])
    BY <1>4, StockHas
  <2>2. s \in Slots /\ x \in Items /\ g.ent[s].off # 0
    BY <1>1, <2>1 DEF Used
  <2>3. ~(s \in Used(h) /\ h.ent[s] = g.ent[s])
    BY <1>4, <2>1, StockHas
  <2>4. g.ent[s].head
    BY <2>2, <2>3 DEF Used
  <2> QED
    BY <2>1, <2>2, <2>4 DEF HeadItems, Item
<1>5. Distinct(g) => Distinct(h)
  BY <1>2 DEF Distinct
<1> QED
  BY <1>1, <1>3, <1>4, <1>5 DEF Sheds

(* A segment without a free entry: every row but the first of a bucket is  *)
(* in use, and one of those.                                               *)
LEMMA FullSegment ==
  ASSUME NEW g, Neat(g, Buckets), g.free = Nil, Distinct(g)
  PROVE  IsFiniteSet(Contents(g)) /\ Cardinality(Contents(g)) > Spares
<1>1. PICK own, rank : Sound(g, own, rank, Slots) /\ Tidy(g, own, Buckets)
  BY DEF Neat
<1>2. Linked(g.next, g.free, own, rank, Slots)
  BY <1>1 DEF Sound
<1>3. \A s \in Slots : own[s] \in Buckets
  <2>1. own \in [Slots -> Homes] /\ \A s \in Slots : own[s] # Spare
    BY <1>2, LinkedParts DEF Linked, Begins
  <2> QED
    BY <2>1 DEF Homes
<1>4. \A s \in Slots : s \notin Firsts => s \in Used(g)
  BY <1>1, <1>3 DEF Tidy, Used
<1>5. Spares \in Nat /\ Spares # 0
  <2>1. Depth - 1 \in Nat \ {0} /\ NBuckets \in Nat \ {0}
    OBVIOUS
  <2>2. \A m, n \in Nat \ {0} : m * n \in Nat \ {0}
    BY SMT
  <2> QED
    BY <2>1, <2>2 DEF Spares
<1> DEFINE t == NthRow(1)
           f == Row(own[t], 0)
<1>6. t \in Slots /\ t \notin Firsts
  BY <1>5, RowsNumbered
<1> HIDE DEF t
<1>7. f \in Firsts /\ f \in Slots /\ own[f] = own[t]
  BY <1>2, <1>3, <1>6, LinkedParts DEF Firsts
<1>8. f \in Used(g)
  <2> SUFFICES ASSUME g.ent[f].off = 0 PROVE FALSE
    BY <1>7 DEF Used
  <2>1. g.next[f] = Nil
    BY <1>1, <1>3, <1>7 DEF Tidy
  <2>2. rank[t] <= rank[f]
    BY <1>2, <1>6, <1>7, <2>1 DEF Linked, Follows
  <2>3. rank[f] <= rank[t]
    BY <1>2, <1>3, <1>6 DEF Linked, Begins, Buckets, Spare
  <2>4. rank[t] \in Int /\ rank[f] \in Int
    BY <1>2, <1>6, <1>7, LinkedParts
  <2>5. t = f
    BY <1>2, <1>6, <1>7, <2>2, <2>3, <2>4 DEF Linked, Ordered
  <2> QED
    BY <1>6, <1>7, <2>5
<1> HIDE DEF f
<1> DEFINE N == Spares
           S == 0 .. N
           at(i) == IF i = 0 THEN f ELSE NthRow(i)
           F == [i \in S |-> Item(own[at(i)], g.ent[at(i)])]
           C == Contents(g)
<1>9. \A i \in S : at(i) \in Used(g)
  BY <1>4, <1>5, <1>8, RowsNumbered
<1>10. \A i, j \in S : at(i) = at(j) => i = j
  BY <1>5, <1>7, RowsNumbered
<1>11. C = Stock(g, own)
  BY <1>1, ContentsAre
<1> HIDE DEF at
<1>12. F \in [S -> C]
  BY <1>9, <1>11, StockHas
<1>13. ASSUME NEW i \in S, NEW j \in S, F[i] = F[j] PROVE i = j
  <2>1. Item(own[at(i)], g.ent[at(i)]) = Item(own[at(j)], g.ent[at(j)])
    BY <1>13
  <2>2. g.ent[at(i)].off = g.ent[at(j)].off /\ g.ent[at(i)].phase = g.ent[at(j)].phase
    BY <2>1 DEF Item
  <2>3. at(i) = at(j)
    BY <1>9, <2>2 DEF Distinct
  <2> QED
    BY <1>10, <2>3
<1>14. IsFiniteSet(C)
  BY <1>1, ContentsFinite
<1> HIDE DEF C, F
<1>15. F \in Injection(S, C)
  <2>1. DOMAIN F = S
    BY <1>12
  <2> HIDE DEF S
  <2> QED
    BY <1>12, <1>13, <2>1 DEF Injection, IsInjective
<1>16. Cardinality(S) = N + 1
  <2>1. 0 \in Int /\ N \in Int /\ N >= 0
    BY <1>5
  <2> HIDE DEF N
  <2> QED
    BY <2>1, FS_Interval
<1>17. Cardinality(S) <= Cardinality(C)
  BY <1>14, <1>15, FS_Injection
<1>18. Cardinality(C) \in Nat
  BY <1>14, FS_CardinalityType
<1> QED
  BY <1>5, <1>14, <1>16, <1>17, <1>18 DEF C

(* More valid entries than fit without the first rows.                     *)
Crowded(g) == Cardinality(Contents(g) \ Invalid(pos, phase)) > Spares

(* To make room only invalid entries are dropped, and when the segment is  *)
(* crowded those of first fragments too.                                   *)
Pressed(g, h) ==
  /\ Sheds(g, h, Invalid(pos, phase) \cup HeadItems)
  /\ Distinct(g) => Sheds(g, h, Invalid(pos, phase)) \/ Crowded(g)

LEMMA PressedSame == ASSUME NEW g PROVE Pressed(g, g)
BY ShedsSame DEF Pressed

LEMMA PressedAgain ==
  ASSUME NEW g, NEW h, NEW k, Pressed(g, h), Pressed(h, k)
  PROVE  Pressed(g, k)
<1> DEFINE V == Invalid(pos, phase)
<1>1. Sheds(g, k, V \cup HeadItems)
  BY ShedsAgain DEF Pressed
<1>2. ASSUME Distinct(g), ~Crowded(g) PROVE Sheds(g, k, V)
  <2>1. Sheds(g, h, V) /\ Distinct(h)
    BY <1>2 DEF Pressed, Sheds
  <2>2. Contents(g) \ V = Contents(h) \ V
    BY <2>1 DEF Sheds
  <2>3. ~Crowded(h)
    BY <1>2, <2>2 DEF Crowded
  <2>4. Sheds(h, k, V)
    BY <2>1, <2>3 DEF Pressed
  <2> HIDE DEF V
  <2> QED
    BY <2>1, <2>4, ShedsAgain
<1> QED
  BY <1>1, <1>2 DEF Pressed

(* freelist_clean: a purge marks entries as unused, and cleaning removes   *)
(* them.                                                                   *)
LEMMA FreelistCleanNeat ==
  ASSUME NEW g, Neat(g, {})
  PROVE  LET r == FreelistClean(g) IN
         Neat(r, Buckets) /\ AllValid(r, Buckets, pos, phase) /\ Pressed(g, r)
<1> DEFINE k == CleanSegment(g, pos, phase)
           x == [s \in Slots |-> IF s \in Purged(k) THEN [k.ent[s] EXCEPT !.off = 0] ELSE k.ent[s]]
           h == [k EXCEPT !.ent = x]
           V == Invalid(pos, phase)
<1>1. FreelistClean(g) = IF k.free # Nil THEN k ELSE CleanSegment(h, pos, phase)
  BY DEF FreelistClean
<1>2. Neat(k, Buckets) /\ Sheds(g, k, V) /\ AllValid(k, Buckets, pos, phase)
  BY CleanSegmentNeat
<1> HIDE DEF k
<1>3. PICK own, rank : Sound(k, own, rank, Slots)
  BY <1>2 DEF Neat
<1>4. k.ent \in [Slots -> Dirs] /\ k \in Segments
  BY <1>3, SegmentParts DEF Sound
<1>5. x \in [Slots -> Dirs]
  <2>1. ASSUME NEW y \in Dirs PROVE [y EXCEPT !.off = 0] \in Dirs
    <3>1. 0 \in 0 .. Blocks
      OBVIOUS
    <3> QED
      BY <3>1 DEF Dirs
  <2> QED
    BY <1>4, <2>1
<1>6. /\ \A s \in Slots : own[s] = Spare => x[s].off = 0
      /\ \A s \in Slots : x[s] = k.ent[s] \/ (k.ent[s].head /\ x[s].off = 0)
  <2>1. \A y \in Dirs : [y EXCEPT !.off = 0].off = 0
    BY DEF Dirs
  <2>2. \A s \in Purged(k) : k.ent[s].head
    BY DEF Purged
  <2> QED
    BY <1>3, <1>4, <2>1, <2>2 DEF Sound, Backed
<1> HIDE DEF x
<1>7. Sound(h, own, rank, Slots) /\ h.ent = x
  BY <1>3, <1>5, <1>6, Rewritten
<1> HIDE DEF h, V
<1>8. Neat(h, {})
  BY <1>7 DEF Neat, Tidy
<1>9. Sheds(k, h, HeadItems)
  BY <1>3, <1>6, <1>7, MarkSheds
<1>10. CASE k.free # Nil
  <2>1. FreelistClean(g) = k
    BY <1>1, <1>10
  <2>2. Pressed(g, k)
    BY <1>2 DEF Pressed, Sheds, V
  <2> QED
    BY <1>2, <2>1, <2>2
<1>11. CASE k.free = Nil
  <2> DEFINE r == CleanSegment(h, pos, phase)
  <2>1. FreelistClean(g) = r
    BY <1>1, <1>11
  <2>2. Neat(r, Buckets) /\ Sheds(h, r, V) /\ AllValid(r, Buckets, pos, phase)
    BY <1>8, CleanSegmentNeat DEF V
  <2> HIDE DEF r
  <2>3. Sheds(g, r, V \cup HeadItems)
    BY <1>2, <1>9, <2>2 DEF Sheds
  <2>4. ASSUME Distinct(g) PROVE Crowded(g)
    <3>1. Cardinality(Contents(k)) > Spares
      BY <1>2, <1>11, <2>4, FullSegment DEF Sheds
    <3>2. \A y \in Contents(k) : y \notin V
      <4>1. Contents(k) \subseteq Items
        BY <1>3, ContentsAre
      <4>2. \A y \in Items : y.bucket \in Buckets
        BY DEF Items
      <4> QED
        BY <1>2, <4>1, <4>2 DEF AllValid, V, Invalid
    <3>3. Contents(g) \ V = Contents(k)
      BY <1>2, <3>2 DEF Sheds
    <3> QED
      BY <3>1, <3>3 DEF Crowded, V
  <2> QED
    BY <2>1, <2>2, <2>3, <2>4 DEF Pressed, V
<1> QED
  BY <1>10, <1>11

Heads(g) == {s \in Slots : g.ent[s].head}

(* The first head entry is always among those purged.                      *)
LEMMA FirstPurged ==
  ASSUME NEW g, Heads(g) # {}
  PROVE  \E s \in Heads(g) : s \in Purged(g)
<1>1. Heads(g) \in SUBSET Nat
  BY DEF Heads, Slots
<1>2. PICK s \in Heads(g) : \A t \in Heads(g) : s <= t
  BY <1>1, LeastNatural
<1>3. s \in Slots /\ g.ent[s].head
  BY DEF Heads
<1> DEFINE T == {t \in 1 .. (s - 1) : g.ent[t].head}
<1>4. ASSUME NEW t \in T PROVE FALSE
  <2> DEFINE n == NBuckets * Depth
  <2>1. n \in Int /\ s \in 1 .. n /\ t \in 1 .. (s - 1) /\ g.ent[t].head
    BY <1>3 DEF Slots
  <2> HIDE DEF n
  <2>2. t \in 1 .. n /\ ~(s <= t)
    BY <2>1
  <2> QED
    BY <1>2, <2>1, <2>2 DEF Heads, Slots, n
<1>5. T = {}
  BY <1>4
<1>6. Cardinality(T) = 0
  BY <1>5, FS_EmptySet
<1>7. 0 % PurgeEvery = 0
  OBVIOUS
<1> HIDE DEF T
<1>8. Cardinality(T) % PurgeEvery = 0
  BY <1>6, <1>7
<1> QED
  BY <1>3, <1>8 DEF Purged, T

(* When freelist_clean frees nothing, a head entry has gone.               *)
LEMMA FewerHeads ==
  ASSUME NEW g, Neat(g, Buckets), FreelistClean(g).free = Nil
  PROVE  /\ Heads(FreelistClean(g)) \subseteq Heads(g)
         /\ Heads(g) = {} \/ \E s \in Heads(g) : s \notin Heads(FreelistClean(g))
<1> DEFINE k == CleanSegment(g, pos, phase)
           x == [s \in Slots |-> IF s \in Purged(k) THEN [k.ent[s] EXCEPT !.off = 0] ELSE k.ent[s]]
           h == [k EXCEPT !.ent = x]
           r == FreelistClean(g)
<1>1. r = IF k.free # Nil THEN k ELSE CleanSegment(h, pos, phase)
  BY DEF FreelistClean
<1>2. Neat(k, Buckets) /\ Shrunk(g, k)
  BY NeatParts, CleanSegmentNeat
<1>3. Neat(r, Buckets)
  BY NeatParts, FreelistCleanNeat
<1> HIDE DEF k, r
<1>4. k.free = Nil /\ r = CleanSegment(h, pos, phase) /\ r.free = Nil
  BY <1>1 DEF r
<1>5. PICK own0, rank0 : Sound(k, own0, rank0, Slots)
  BY <1>2 DEF Neat
<1>6. k.ent \in [Slots -> Dirs] /\ k \in Segments
  BY <1>5, SegmentParts DEF Sound
<1>7. x \in [Slots -> Dirs] /\ \A s \in Slots : x[s].head = k.ent[s].head
                            /\ (s \in Purged(k) => x[s].off = 0)
  <2>1. ASSUME NEW y \in Dirs
        PROVE  [y EXCEPT !.off = 0] \in Dirs /\ [y EXCEPT !.off = 0].head = y.head
               /\ [y EXCEPT !.off = 0].off = 0
    <3>1. 0 \in 0 .. Blocks
      OBVIOUS
    <3> QED
      BY <3>1 DEF Dirs
  <2> QED
    BY <1>6, <2>1
<1>8. \A s \in Slots : own0[s] = Spare => x[s].off = 0
  <2>1. \A y \in Dirs : [y EXCEPT !.off = 0].off = 0
    BY DEF Dirs
  <2> QED
    BY <1>5, <1>6, <2>1 DEF Sound, Backed
<1> HIDE DEF x
<1>9. Sound(h, own0, rank0, Slots) /\ h.ent = x
  BY <1>5, <1>7, <1>8, Rewritten
<1> HIDE DEF h
<1>10. Neat(h, {})
  BY <1>9 DEF Neat, Tidy
<1>11. Shrunk(h, r)
  BY <1>4, <1>10, CleanSegmentNeat
<1>12. /\ \A s \in Slots : k.ent[s] \in {g.ent[s], EmptyDir}
       /\ \A s \in Slots : r.ent[s] \in {x[s], EmptyDir}
       /\ ~EmptyDir.head /\ EmptyDir.off = 0
  BY <1>2, <1>4, <1>9, <1>11 DEF Shrunk, EmptyDir
<1>13. PICK own, rank : Sound(r, own, rank, Slots) /\ Tidy(r, own, Buckets)
  BY <1>3 DEF Neat
<1>14. \A s \in Slots : own[s] \in Buckets
  <2>1. Linked(r.next, r.free, own, rank, Slots)
    BY <1>13 DEF Sound
  <2>2. own \in [Slots -> Homes] /\ \A s \in Slots : own[s] # Spare
    BY <1>4, <2>1, LinkedParts DEF Linked, Begins
  <2> QED
    BY <2>2 DEF Homes
<1>15. \A s \in Purged(k) : s \notin Heads(r)
  <2> SUFFICES ASSUME NEW s \in Slots, s \in Purged(k) PROVE ~r.ent[s].head
    BY DEF Heads, Purged
  <2>1. r.ent[s].off = 0
    BY <1>7, <1>12
  <2>2. r.ent[s] = EmptyDir
    BY <1>13, <1>14, <2>1 DEF Tidy
  <2> QED
    BY <1>12, <2>2
<1>16. Heads(k) \subseteq Heads(g) /\ Heads(r) \subseteq Heads(k)
  BY <1>7, <1>12 DEF Heads
<1>17. CASE Heads(k) = {}
  BY <1>16, <1>17 DEF r
<1>18. CASE Heads(k) # {}
  <2>1. PICK s \in Heads(k) : s \in Purged(k)
    BY <1>18, FirstPurged
  <2> QED
    BY <1>15, <1>16, <2>1 DEF r
<1> QED
  BY <1>17, <1>18

RoomStep(h, b) == IF HasRoom(h, b) THEN h ELSE FreelistClean(h)

LEMMA MadeRoomNeat ==
  ASSUME NEW g, Neat(g, Buckets), NEW b
  PROVE  LET h == MadeRoom(g, b) IN
         /\ Neat(h, Buckets) /\ Pressed(g, h)
         /\ HasRoom(h, b) \/ (Heads(h) = {} /\ AllValid(h, Buckets, pos, phase))
<1> DEFINE X == {h \in Segments : Neat(h, Buckets) /\ Pressed(g, h)}
           N == Cardinality(Slots) + 1
           R(f) == [j \in 0 .. N |-> IF j = 0 THEN g ELSE RoomStep(f[j - 1], b)]
           after == CHOOSE f : f = R(f)
<1>1. MadeRoom(g, b) = after[N]
  BY DEF MadeRoom, Run, RoomStep
<1> DEFINE K == Cardinality(Slots)
<1>2. N \in Nat /\ K \in Nat /\ N = K + 1
  BY SlotsFinite
<1> HIDE DEF N, K
<1>3. g \in X
  BY NeatParts, PressedSame
<1>4. ASSUME NEW h \in X PROVE RoomStep(h, b) \in X
  <2>1. Neat(FreelistClean(h), Buckets) /\ Pressed(h, FreelistClean(h))
    BY NeatParts, FreelistCleanNeat
  <2>2. Pressed(g, FreelistClean(h))
    BY <2>1, PressedAgain
  <2> QED
    BY <2>1, <2>2, NeatParts DEF RoomStep
<1>5. \A h \in X : Neat(h, Buckets) /\ Pressed(g, h)
  OBVIOUS
<1> HIDE DEF X
<1>6. \E f : f = R(f)
  <2> DEFINE step == [h \in X |-> RoomStep(h, b)]
  <2>1. step \in [X -> X] /\ \A h \in X : step[h] = RoomStep(h, b)
    BY <1>4
  <2> HIDE DEF step
  <2>2. PICK f : Loop(f, N, X, g, step)
    BY <1>2, <1>3, <2>1, LoopExists
  <2>3. /\ f \in [0 .. N -> X]
        /\ \A j \in 0 .. N : f[j] = IF j = 0 THEN g ELSE step[f[j - 1]]
    BY <2>2 DEF Loop
  <2>4. \A j \in 0 .. N : j # 0 => f[j - 1] \in X
    BY <1>2, <2>3
  <2>5. f = R(f)
    BY <2>1, <2>3, <2>4
  <2> QED
    BY <2>5
<1>7. after = R(after)
  BY <1>6
<1> HIDE DEF after
<1>8. \A j \in 0 .. N : after[j] = IF j = 0 THEN g ELSE RoomStep(after[j - 1], b)
  BY <1>7, Zenon
(* Each attempt that leaves no room takes a head entry.                    *)
<1> DEFINE Tried(h, j) ==
             \/ HasRoom(h, b)
             \/ /\ j # 0 => AllValid(h, Buckets, pos, phase)
                /\ Heads(h) = {} \/ Cardinality(Heads(h)) + j <= K
           Y == [j \in 0 .. N |-> {h \in X : Tried(h, j)}]
<1>9. \A h : Heads(h) \in SUBSET Slots /\ IsFiniteSet(Heads(h)) /\ Cardinality(Heads(h)) \in Nat
             /\ Cardinality(Heads(h)) <= K
  <2> TAKE h
  <2>1. Heads(h) \in SUBSET Slots
    BY DEF Heads
  <2> DEFINE H == Heads(h)
  <2> HIDE DEF H
  <2>2. H \in SUBSET Slots
    BY <2>1 DEF H
  <2>3. IsFiniteSet(H) /\ Cardinality(H) <= Cardinality(Slots)
    BY <2>2, SlotsFinite, FS_Subset
  <2>4. Cardinality(H) \in Nat
    BY <2>3, FS_CardinalityType
  <2> QED
    BY <2>2, <2>3, <2>4 DEF H, K
<1>10. after[0] \in Y[0]
  <2>1. after[0] = g
    BY <1>2, <1>8
  <2>2. Cardinality(Heads(g)) + 0 <= K
    BY <1>2, <1>9
  <2> QED
    BY <1>2, <1>3, <2>1, <2>2
<1>11. ASSUME NEW j \in 1 .. N, after[j - 1] \in Y[j - 1] PROVE after[j] \in Y[j]
  <2> DEFINE h == after[j - 1]
             r == RoomStep(h, b)
  <2>1. j - 1 \in 0 .. N /\ j \in 0 .. N /\ j # 0 /\ j \in Int
    BY <1>2
  <2>2. h \in X /\ Tried(h, j - 1)
    BY <1>11, <2>1
  <2>3. after[j] = r
    BY <1>8, <2>1
  <2> HIDE DEF h
  <2>4. r \in X
    BY <1>4, <2>2
  <2>5. Tried(r, j)
    <3>1. CASE HasRoom(h, b)
      BY <3>1 DEF RoomStep
    <3>2. CASE ~HasRoom(h, b) /\ FreelistClean(h).free # Nil
      BY <3>2 DEF RoomStep, HasRoom
    <3>3. CASE ~HasRoom(h, b) /\ FreelistClean(h).free = Nil
      <4>1. r = FreelistClean(h) /\ Neat(h, Buckets)
        BY <1>5, <2>2, <3>3 DEF RoomStep
      <4>0. AllValid(r, Buckets, pos, phase)
        BY <4>1, NeatParts, FreelistCleanNeat
      <4>2. /\ Heads(r) \subseteq Heads(h)
            /\ Heads(h) = {} \/ \E s \in Heads(h) : s \notin Heads(r)
        BY <3>3, <4>1, FewerHeads
      <4> HIDE DEF r
      <4>3. CASE Heads(h) = {}
        BY <4>0, <4>2, <4>3
      <4>4. CASE Heads(h) # {}
        <5>1. PICK s \in Heads(h) : s \notin Heads(r)
          BY <4>2, <4>4
        <5>2. Cardinality(Heads(h) \ {s}) = Cardinality(Heads(h)) - 1 /\ IsFiniteSet(Heads(h) \ {s})
          BY <1>9, <5>1, FS_RemoveElement
        <5>3. Heads(r) \in SUBSET (Heads(h) \ {s})
          BY <4>2, <5>1
        <5>4. Cardinality(Heads(r)) <= Cardinality(Heads(h) \ {s})
          BY <5>2, <5>3, FS_Subset
        <5>5. Cardinality(Heads(h)) + (j - 1) <= K
          BY <2>2, <3>3, <4>4
        <5>6. Cardinality(Heads(r)) + j <= K
          BY <1>2, <1>9, <2>1, <5>2, <5>4, <5>5
        <5> QED
          BY <4>0, <5>6
      <4> QED
        BY <4>3, <4>4
    <3> QED
      BY <3>1, <3>2, <3>3
  <2> HIDE DEF r, Tried
  <2> QED
    BY <2>1, <2>3, <2>4, <2>5
<1>12. after[N] \in Y[N]
  <2> HIDE DEF Y
  <2> QED
    BY <1>2, <1>10, <1>11, StepByStep
<1>13. after[N] \in X /\ Tried(after[N], N)
  BY <1>2, <1>12
<1>14. \/ HasRoom(after[N], b)
       \/ Heads(after[N]) = {} /\ AllValid(after[N], Buckets, pos, phase)
  <2>1. N # 0 /\ ~(Cardinality(Heads(after[N])) + N <= K)
    BY <1>2, <1>9
  <2> QED
    BY <1>13, <2>1
<1> QED
  BY <1>1, <1>5, <1>13, <1>14

-----------------------------------------------------------------------------
(* The searches in a chain.                                                *)

LEMMA StartPosition ==
  ASSUME NEW g, NEW own, NEW rank, Sound(g, own, rank, Slots), NEW b \in Buckets
  PROVE  /\ Position(g, own, b, Row(b, 0), Nil) /\ Position(g, own, b, Nil, Nil)
         /\ Row(b, 0) \in Pointers /\ Nil \in Pointers
<1>1. Linked(g.next, g.free, own, rank, Slots)
  BY DEF Sound
<1>2. Row(b, 0) \in Slots /\ own[Row(b, 0)] = b
  BY <1>1, LinkedParts DEF Firsts
<1> QED
  BY <1>2 DEF Position, Pointers

Matches(g, k, off, e) == g.ent[e].tag = TagOf[k] /\ g.ent[e].off = off

LookupStep(c, g, k, off) == IF c.e = Nil \/ Matches(g, k, off, c.e) THEN c ELSE Forward(c)

(* A step along the chain leaves less ahead.                               *)
LEMMA ForwardAhead ==
  ASSUME NEW g, NEW own, NEW rank, Sound(g, own, rank, Slots), NEW b \in Buckets,
         NEW c, NEW d, Position(g, own, b, c.e, c.p), c.e # Nil, d.e = g.next[c.e], d.e # Nil,
         NEW D, Ahead(c, own, rank, b, D)
  PROVE  \E x \in D : Ahead(d, own, rank, b, D \ {x})
<1>1. Linked(g.next, g.free, own, rank, Slots)
  BY DEF Sound
<1>2. c.e \in Slots /\ own[c.e] = b
  BY PositionParts
<1>3. Position(g, own, b, d.e, c.e) /\ rank[c.e] < rank[d.e]
  BY ForwardPosition
<1>4. d.e \in Slots /\ rank \in [Slots -> Int]
  BY <1>1, <1>3, LinkedParts DEF Position, Pointers
<1>5. c.e \in D
  BY <1>2, <1>4 DEF Ahead
<1>6. ASSUME NEW s \in Slots, own[s] = b, rank[d.e] <= rank[s] PROVE s \in D \ {c.e}
  <2>1. rank[c.e] \in Int /\ rank[s] \in Int /\ rank[d.e] \in Int
    BY <1>2, <1>4
  <2>2. rank[c.e] <= rank[s] /\ s # c.e
    BY <1>3, <1>6, <2>1
  <2> QED
    BY <1>6, <2>2 DEF Ahead
<1> QED
  BY <1>5, <1>6 DEF Ahead

(* A chain starts at row 0, and is empty if that is.                       *)
LEMMA ChainStarts ==
  ASSUME NEW g, NEW own, NEW rank, Sound(g, own, rank, Slots), NEW b \in Buckets,
         NEW s \in Slots, own[s] = b
  PROVE  /\ ~(rank[s] < rank[Row(b, 0)])
         /\ Tidy(g, own, Buckets) /\ g.ent[Row(b, 0)].off = 0 => g.ent[s].off = 0
<1> DEFINE a == Row(b, 0)
<1>1. Linked(g.next, g.free, own, rank, Slots) /\ b # Spare
  BY DEF Sound, Buckets, Spare
<1>2. a \in Slots /\ own[a] = b
  BY <1>1, LinkedParts DEF Firsts
<1> HIDE DEF a
<1>3. rank[a] <= rank[s] /\ rank[a] \in Int /\ rank[s] \in Int
  BY <1>1, <1>2, LinkedParts DEF Linked, Begins, a
<1>4. ASSUME Tidy(g, own, Buckets), g.ent[a].off = 0 PROVE g.ent[s].off = 0
  <2>1. g.next[a] = Nil
    BY <1>2, <1>4 DEF Tidy
  <2>2. rank[s] <= rank[a]
    BY <1>1, <1>2, <2>1 DEF Linked, Follows
  <2>3. rank[s] = rank[a]
    BY <1>3, <2>2
  <2>4. s = a
    BY <1>1, <1>2, <2>3 DEF Linked, Ordered
  <2> QED
    BY <1>4, <2>4
<1> QED
  BY <1>3, <1>4 DEF a

(* What dir_delete and dir_overwrite find is a position in the chain, and  *)
(* an entry with the tag and the offset: the scan reaches the end before,  *)
(* and when it finds nothing there is no such entry.                       *)
LEMMA LookupPosition ==
  ASSUME NEW g, NEW own, NEW rank, Sound(g, own, rank, Slots), Tidy(g, own, Buckets),
         NEW k \in Keys, NEW off
  PROVE  LET c == Lookup(g, k, off) IN
         /\ Position(g, own, BucketOf[k], c.e, c.p)
         /\ c.e = Nil \/ Matches(g, k, off, c.e)
         /\ c.e = Nil => \A s \in Used(g) : own[s] = BucketOf[k] => ~Matches(g, k, off, s)
<1> DEFINE b == BucketOf[k]
           Missed(c) == \A s \in Slots :
                          own[s] = b /\ (c.e # Nil => rank[s] < rank[c.e]) => ~Matches(g, k, off, s)
           X == {c \in Cursors : c.g = g /\ Position(g, own, b, c.e, c.p) /\ Missed(c)}
           base == [g |-> g, e |-> Row(b, 0), p |-> Nil]
           N == Scan
           K == Cardinality(Slots)
           R(f) == [j \in 0 .. N |-> IF j = 0 THEN base ELSE LookupStep(f[j - 1], g, k, off)]
           after == CHOOSE f : f = R(f)
<1>0. b \in Buckets /\ g \in Segments
  BY DEF Sound
<1>1. Lookup(g, k, off) = IF g.ent[Row(b, 0)].off = 0 THEN [g |-> g, e |-> Nil, p |-> Nil]
                          ELSE after[N]
  BY DEF Lookup, Run, LookupStep, Matches
<1>2. N \in Nat /\ K \in Nat /\ N = 2 * K
  BY SlotsFinite DEF Scan
<1> HIDE DEF N, K, b
<1>3. base \in X
  <2>1. \A s \in Slots : own[s] = b => ~(rank[s] < rank[Row(b, 0)])
    BY <1>0, ChainStarts
  <2>2. Row(b, 0) # Nil
    <3>1. Linked(g.next, g.free, own, rank, Slots)
      BY DEF Sound
    <3> QED
      BY <1>0, <3>1, LinkedParts, SlotsFinite DEF Firsts
  <2>3. Missed(base)
    BY <2>1, <2>2
  <2> HIDE DEF Missed
  <2> QED
    BY <1>0, <2>3, StartPosition DEF Cursors
<1>4. ASSUME NEW c \in X PROVE LookupStep(c, g, k, off) \in X
  <2>1. CASE c.e = Nil \/ Matches(g, k, off, c.e)
    BY <2>1 DEF LookupStep
  <2>2. CASE ~(c.e = Nil \/ Matches(g, k, off, c.e))
    <3>1. c \in Cursors /\ c.e # Nil /\ c.g = g /\ Position(g, own, b, c.e, c.p)
      BY <2>2
    <3>2. Forward(c).g = g /\ Forward(c).e = g.next[c.e] /\ Forward(c).p = c.e /\ Forward(c) \in Cursors
      BY <3>1, CursorParts
    <3>3. Position(g, own, b, g.next[c.e], c.e)
      BY <1>0, <3>1, ForwardPosition
    <3>4. LookupStep(c, g, k, off) = Forward(c)
      BY <2>2 DEF LookupStep
    <3>5. c.e \in Slots /\ own[c.e] = b /\ Missed(c)
      BY <1>0, <3>1, PositionParts
    <3>6. ASSUME NEW s \in Slots, own[s] = b, g.next[c.e] # Nil => rank[s] < rank[g.next[c.e]]
          PROVE  ~Matches(g, k, off, s)
      <4>1. CASE s = c.e
        BY <2>2, <4>1
      <4>2. CASE s # c.e
        <5>1. rank[s] < rank[c.e]
          BY <3>5, <3>6, <4>2, Before
        <5> QED
          BY <3>5, <3>6, <5>1
      <4> QED
        BY <4>1, <4>2
    <3>7. Missed(Forward(c))
      BY <3>2, <3>6
    <3> HIDE DEF Missed
    <3> QED
      BY <3>2, <3>3, <3>4, <3>7
  <2> QED
    BY <2>1, <2>2
<1> HIDE DEF X, base
<1>5. \E f : f = R(f)
  <2> DEFINE step == [c \in X |-> LookupStep(c, g, k, off)]
  <2>1. step \in [X -> X] /\ \A c \in X : step[c] = LookupStep(c, g, k, off)
    BY <1>4
  <2> HIDE DEF step
  <2>2. PICK f : Loop(f, N, X, base, step)
    BY <1>2, <1>3, <2>1, LoopExists
  <2>3. /\ f \in [0 .. N -> X]
        /\ \A j \in 0 .. N : f[j] = IF j = 0 THEN base ELSE step[f[j - 1]]
    BY <2>2 DEF Loop
  <2>4. \A j \in 0 .. N : j # 0 => f[j - 1] \in X
    BY <1>2, <2>3
  <2>5. f = R(f)
    BY <2>1, <2>3, <2>4
  <2> QED
    BY <2>5
<1>6. after = R(after)
  BY <1>5
<1> HIDE DEF after
<1>7. \A j \in 0 .. N : after[j] = IF j = 0 THEN base ELSE LookupStep(after[j - 1], g, k, off)
  BY <1>6, Zenon
<1> DEFINE Ends(c) == c.e = Nil \/ Matches(g, k, off, c.e)
           Left(c, j) == \E D : Ahead(c, own, rank, b, D) /\ Cardinality(D) + j <= K
           Y == [j \in 0 .. N |-> {c \in X : Ends(c) \/ Left(c, j)}]
<1>8. after[0] \in Y[0]
  <2>1. after[0] = base
    BY <1>2, <1>7
  <2>2. Ahead(base, own, rank, b, Slots) /\ Cardinality(Slots) + 0 <= K
    BY <1>2 DEF Ahead, K
  <2>3. Left(base, 0)
    BY <2>2
  <2> HIDE DEF Left, Ends
  <2> QED
    BY <1>2, <1>3, <2>1, <2>3
<1>9. ASSUME NEW j \in 1 .. N, after[j - 1] \in Y[j - 1] PROVE after[j] \in Y[j]
  <2> DEFINE c == after[j - 1]
             d == LookupStep(c, g, k, off)
  <2>1. j - 1 \in 0 .. N /\ j \in 0 .. N /\ j # 0 /\ j - 1 \in Int
    BY <1>2
  <2>2. c \in X /\ (Ends(c) \/ Left(c, j - 1))
    <3> HIDE DEF Left, Ends
    <3> QED
      BY <1>9, <2>1
  <2>3. after[j] = d /\ d \in X
    BY <1>4, <1>7, <2>1, <2>2
  <2> HIDE DEF c
  <2>4. CASE Ends(c)
    <3>1. d = c
      BY <2>4 DEF LookupStep
    <3> HIDE DEF Left, Ends
    <3> QED
      BY <2>1, <2>2, <2>3, <2>4, <3>1
  <2>5. CASE ~Ends(c)
    <3>1. PICK D : Ahead(c, own, rank, b, D) /\ Cardinality(D) + (j - 1) <= K
      BY <2>2, <2>5
    <3>2. d = Forward(c)
      BY <2>5 DEF LookupStep
    <3>3. c \in Cursors /\ c.e # Nil /\ c.g = g /\ Position(g, own, b, c.e, c.p)
      BY <2>2, <2>5 DEF X
    <3>4. d.e = g.next[c.e]
      BY <3>2, <3>3, CursorParts
    <3> HIDE DEF d
    <3>5. ASSUME d.e # Nil PROVE Left(d, j)
      <4>1. PICK x \in D : Ahead(d, own, rank, b, D \ {x})
        BY <1>0, <3>1, <3>3, <3>4, <3>5, ForwardAhead
      <4>2. IsFiniteSet(D)
        BY <3>1, SlotsFinite, FS_Subset DEF Ahead
      <4>3. Cardinality(D \ {x}) = Cardinality(D) - 1 /\ Cardinality(D) \in Nat
        BY <4>1, <4>2, FS_RemoveElement, FS_CardinalityType
      <4>4. Cardinality(D \ {x}) + j <= K
        BY <1>2, <2>1, <3>1, <4>3
      <4> QED
        BY <4>1, <4>4
    <3>6. Ends(d) \/ Left(d, j)
      BY <3>5
    <3> HIDE DEF Left, Ends
    <3> QED
      BY <2>1, <2>3, <3>6
  <2> QED
    BY <2>4, <2>5
<1>10. after[N] \in Y[N]
  <2> HIDE DEF Y
  <2> QED
    BY <1>2, <1>8, <1>9, StepByStep
<1> DEFINE c == after[N]
<1>14. c \in X /\ (Ends(c) \/ Left(c, N))
  <2>1. N \in 0 .. N
    BY <1>2
  <2> HIDE DEF Left, Ends
  <2> QED
    BY <1>10, <2>1
<1> HIDE DEF c
<1>11. Position(g, own, b, c.e, c.p) /\ Missed(c)
  BY <1>14 DEF X
<1>15. Ends(c)
  <2> SUFFICES ASSUME ~Ends(c) PROVE FALSE
    OBVIOUS
  <2>1. PICK D : Ahead(c, own, rank, b, D) /\ Cardinality(D) + N <= K
    BY <1>14
  <2>2. IsFiniteSet(D)
    BY <2>1, SlotsFinite, FS_Subset DEF Ahead
  <2>3. c.e \in Slots /\ own[c.e] = b /\ rank[c.e] \in Int
    <3>1. c.e \in Slots /\ own[c.e] = b
      BY <1>0, <1>11, PositionParts
    <3>2. Linked(g.next, g.free, own, rank, Slots)
      BY DEF Sound
    <3> QED
      BY <3>1, <3>2, LinkedParts
  <2>4. c.e \in D
    BY <2>1, <2>3 DEF Ahead
  <2>5. Cardinality(D) \in Nat /\ Cardinality(D) # 0
    BY <2>2, <2>4, FS_CardinalityType, FS_EmptySet
  <2> QED
    BY <1>2, <2>1, <2>5
<1>12. CASE g.ent[Row(b, 0)].off = 0
  <2>1. Lookup(g, k, off).e = Nil /\ Lookup(g, k, off).p = Nil
    BY <1>1, <1>12
  <2>2. Position(g, own, b, Nil, Nil)
    BY <1>0, StartPosition
  <2>3. \A s \in Used(g) : own[s] # b
    BY <1>0, <1>12, ChainStarts DEF Used
  <2> QED
    BY <2>1, <2>2, <2>3 DEF b
<1>13. CASE g.ent[Row(b, 0)].off # 0
  <2>1. Lookup(g, k, off) = c
    BY <1>1, <1>13 DEF c
  <2>2. c.e = Nil => \A s \in Used(g) : own[s] = b => ~Matches(g, k, off, s)
    BY <1>11 DEF Used
  <2> QED
    BY <1>11, <1>15, <2>1, <2>2 DEF b
<1> QED
  BY <1>12, <1>13

Probes == [g : Segments, e : Pointers, p : Pointers, col : Pointers, hit : BOOLEAN]

ProbeStart(g, k, col) ==
  [g |-> g, e |-> IF g.ent[Row(BucketOf[k], 0)].off = 0 THEN Nil ELSE Row(BucketOf[k], 0),
   p |-> Nil, col |-> col, hit |-> FALSE]

ProbeStep(c, k) ==
  IF c.hit THEN c
  ELSE IF c.e = Nil THEN IF c.col = Nil THEN c ELSE ProbeStart(c.g, k, Nil)
  ELSE IF c.g.ent[c.e].tag # TagOf[k] THEN Forward(c)
  ELSE IF c.col # Nil THEN [Forward(c) EXCEPT !.col = IF c.col = c.e THEN Nil ELSE @]
  ELSE IF Valid(c.g.ent[c.e]) THEN [c EXCEPT !.hit = TRUE]
  ELSE DropAt(c)

(* The entries of the key that the cursor has passed.                      *)
NonePassed(c, own, rank, k) ==
  \A s \in Slots :
    own[s] = BucketOf[k] /\ c.g.ent[s].off # 0 /\ (c.e # Nil => rank[s] < rank[c.e]) =>
      c.g.ent[s].tag # TagOf[k]

(* There is less ahead.                                                    *)
Closer(c, own, rank, d, o, r, b) ==
  \A D : Ahead(c, own, rank, b, D) /\ d.e # Nil => \E x \in D : Ahead(d, o, r, b, D \ {x})

(* A probe, which is a first one or goes on from an earlier result.        *)
Probing(c, own, rank, k, first) ==
  /\ c \in Probes
  /\ Sound(c.g, own, rank, Slots) /\ Tidy(c.g, own, Buckets)
  /\ Position(c.g, own, BucketOf[k], c.e, c.p)
  /\ c.e # Nil => c.g.ent[c.e].off # 0
  /\ c.hit => c.e # Nil /\ c.g.ent[c.e].tag = TagOf[k] /\ Valid(c.g.ent[c.e])
  /\ first => c.col = Nil /\ NonePassed(c, own, rank, k)

Outdated == Invalid(pos, phase)

(* What a probe may drop.                                                  *)
OutdatedOf(k) == {x \in Outdated : x.bucket = BucketOf[k] /\ x.tag = TagOf[k]}

(* In a tidy segment the next entry is in use.                             *)
LEMMA NextUsed ==
  ASSUME NEW g, NEW own, NEW rank, Sound(g, own, rank, Slots), Tidy(g, own, Buckets),
         NEW b \in Buckets, NEW s \in Slots, own[s] = b, g.next[s] # Nil
  PROVE  g.next[s] \in Slots /\ own[g.next[s]] = b /\ g.ent[g.next[s]].off # 0
<1>1. Linked(g.next, g.free, own, rank, Slots)
  BY DEF Sound
<1>2. g.next[s] \in Slots /\ own[g.next[s]] = b /\ g.next[s] \notin Firsts
  BY <1>1, LinkedParts, NextNotFirst
<1> QED
  BY <1>2 DEF Tidy

LEMMA ProbeStarts ==
  ASSUME NEW g, NEW own, NEW rank, Sound(g, own, rank, Slots), Tidy(g, own, Buckets),
         NEW k \in Keys, NEW col \in Pointers, NEW first \in BOOLEAN, first => col = Nil
  PROVE  /\ Probing(ProbeStart(g, k, col), own, rank, k, first)
         /\ ProbeStart(g, k, col).g = g
<1> DEFINE c == ProbeStart(g, k, col)
           b == BucketOf[k]
<1>1. b \in Buckets /\ g \in Segments
  BY DEF Sound
<1> HIDE DEF b
<1>2. /\ Position(g, own, b, Row(b, 0), Nil) /\ Position(g, own, b, Nil, Nil)
      /\ Row(b, 0) \in Pointers /\ Nil \in Pointers
  BY <1>1, StartPosition
<1>3. /\ c.g = g /\ c.p = Nil /\ ~c.hit /\ c.col = col
      /\ c.e = IF g.ent[Row(b, 0)].off = 0 THEN Nil ELSE Row(b, 0)
  BY DEF ProbeStart, b
<1>4. c \in Probes
  BY <1>1, <1>2 DEF ProbeStart, Probes, b
<1> HIDE DEF c
<1>5. ASSUME NEW s \in Slots, own[s] = b, g.ent[s].off # 0, c.e # Nil => rank[s] < rank[c.e]
      PROVE  FALSE
  <2>1. g.ent[Row(b, 0)].off # 0 /\ ~(rank[s] < rank[Row(b, 0)])
    BY <1>1, <1>5, ChainStarts
  <2>2. Row(b, 0) # Nil
    <3>1. Linked(g.next, g.free, own, rank, Slots)
      BY DEF Sound
    <3> QED
      BY <1>1, <3>1, LinkedParts, SlotsFinite DEF Firsts
  <2> QED
    BY <1>3, <1>5, <2>1, <2>2
<1>6. NonePassed(c, own, rank, k)
  BY <1>3, <1>5 DEF NonePassed, b
<1>7. Position(g, own, b, c.e, Nil) /\ (c.e # Nil => g.ent[c.e].off # 0)
  BY <1>2, <1>3
<1>8. Probing(c, own, rank, k, first)
  BY <1>3, <1>4, <1>6, <1>7 DEF Probing, b
<1> QED
  BY <1>3, <1>8 DEF c

(* The probe goes on to the next entry.                                    *)
LEMMA ForwardProbing ==
  ASSUME NEW c, NEW own, NEW rank, NEW k \in Keys, NEW first \in BOOLEAN,
         Probing(c, own, rank, k, first), c.e # Nil,
         NEW d \in Probes, d.g = c.g, d.e = c.g.next[c.e], d.p = c.e, ~d.hit,
         first => d.col = Nil /\ c.g.ent[c.e].tag # TagOf[k]
  PROVE  /\ Probing(d, own, rank, k, first)
         /\ Closer(c, own, rank, d, own, rank, BucketOf[k])
<1> DEFINE b == BucketOf[k]
<1>0. /\ c \in Probes /\ Sound(c.g, own, rank, Slots) /\ Tidy(c.g, own, Buckets)
      /\ Position(c.g, own, b, c.e, c.p) /\ b \in Buckets
      /\ first => NonePassed(c, own, rank, k)
  BY DEF Probing
<1> HIDE DEF b
<1>1. Position(c.g, own, b, c.g.next[c.e], c.e) /\ c.e \in Slots /\ own[c.e] = b
  BY <1>0, ForwardPosition, PositionParts
<1>2. d.e # Nil => d.g.ent[d.e].off # 0
  BY <1>0, <1>1, NextUsed
<1>3. ASSUME first, NEW s \in Slots, own[s] = b, c.g.ent[s].off # 0,
             c.g.next[c.e] # Nil => rank[s] < rank[c.g.next[c.e]]
      PROVE  c.g.ent[s].tag # TagOf[k]
  <2>1. CASE s = c.e
    BY <1>3, <2>1
  <2>2. CASE s # c.e
    <3>1. rank[s] < rank[c.e]
      BY <1>0, <1>1, <1>3, <2>2, Before
    <3> QED
      BY <1>0, <1>3, <3>1 DEF NonePassed, b
  <2> QED
    BY <2>1, <2>2
<1>4. first => NonePassed(d, own, rank, k)
  BY <1>3 DEF NonePassed, b
<1>5. Probing(d, own, rank, k, first)
  BY <1>0, <1>1, <1>2, <1>4 DEF Probing, b
<1>6. ASSUME NEW D, Ahead(c, own, rank, b, D), d.e # Nil
      PROVE  \E x \in D : Ahead(d, own, rank, b, D \ {x})
  BY <1>0, <1>6, ForwardAhead
<1> QED
  BY <1>5, <1>6 DEF b, Closer

(* The probe drops an entry.                                               *)
LEMMA DropProbing ==
  ASSUME NEW c, NEW own, NEW rank, NEW k \in Keys, NEW first \in BOOLEAN,
         Probing(c, own, rank, k, first), ~c.hit, c.e # Nil, c.g.ent[c.e].tag = TagOf[k],
         ~Valid(c.g.ent[c.e]), NEW d, d = DropAt(c)
  PROVE  /\ Sheds(c.g, d.g, OutdatedOf(k))
         /\ \E o, r : Probing(d, o, r, k, first) /\ Closer(c, own, rank, d, o, r, BucketOf[k])
<1> DEFINE b == BucketOf[k]
           h == DeleteEntry(c.g, c.e, c.p)
           n == AfterDelete(c.g, c.e, c.p)
<1>0. /\ c \in Probes /\ Sound(c.g, own, rank, Slots) /\ Tidy(c.g, own, Buckets)
      /\ Position(c.g, own, b, c.e, c.p) /\ b \in Buckets /\ c.g.ent[c.e].off # 0
      /\ first => c.col = Nil /\ NonePassed(c, own, rank, k)
  BY DEF Probing
<1> HIDE DEF b
<1>1. c.e \in Slots /\ own[c.e] = b
  BY <1>0, PositionParts
<1>2. d = [c EXCEPT !.g = h, !.e = n]
  BY DEF DropAt
<1>3. PICK o, r : Dropped(c.g, own, rank, b, c.e, c.p, h, o, r, n)
  BY <1>0, DropSound
<1>4. n # Nil => h.ent[n].off # 0
  <2> SUFFICES ASSUME n # Nil PROVE h.ent[n].off # 0
    OBVIOUS
  <2>1. CASE c.p = Nil
    <3>1. n = c.e /\ c.g.next[c.e] # Nil
      BY <2>1 DEF AfterDelete
    <3> HIDE DEF h, n
    <3>2. o[c.e] = b
      BY <1>3, <3>1 DEF Dropped, Position
    <3>3. h.ent[c.e] = c.g.ent[c.g.next[c.e]]
      BY <1>3, <3>1, <3>2 DEF Dropped
    <3>4. c.g.ent[c.g.next[c.e]].off # 0
      BY <1>0, <1>1, <3>1, NextUsed
    <3> QED
      BY <3>1, <3>3, <3>4
  <2>2. CASE c.p # Nil
    <3>1. n = c.g.next[c.e]
      BY <2>2 DEF AfterDelete
    <3> HIDE DEF h, n
    <3>2. n \in Slots /\ c.g.ent[n].off # 0
      BY <1>0, <1>1, <3>1, NextUsed
    <3>3. n # c.e
      <4>1. Linked(c.g.next, c.g.free, own, rank, Slots)
        BY <1>0 DEF Sound
      <4> QED
        BY <1>1, <3>1, <4>1, NextNotFirst
    <3>4. o[n] = b
      BY <1>3 DEF Dropped, Position
    <3>5. h.ent[n] = c.g.ent[n]
      BY <1>3, <3>2, <3>3, <3>4 DEF Dropped
    <3> QED
      BY <3>2, <3>5
  <2> QED
    BY <2>1, <2>2
<1> HIDE DEF h, n
<1>5. Tidy(h, o, Buckets)
  <2>1. Buckets \in SUBSET Buckets
    OBVIOUS
  <2> QED
    BY <1>0, <1>3, <2>1, DropTidy
<1>6. Sound(h, o, r, Slots) /\ Position(h, o, b, n, c.p)
  BY <1>3 DEF Dropped
<1>7. h \in Segments /\ n \in Pointers
  BY <1>6 DEF Sound, Position
<1>8. d.g = h /\ d.e = n /\ d.p = c.p /\ d.hit = c.hit /\ d.col = c.col /\ d \in Probes
  BY <1>0, <1>2, <1>7 DEF Probes
<1>9. ASSUME first, NEW s \in Slots, o[s] = b, h.ent[s].off # 0, n # Nil => r[s] < r[n]
      PROVE  h.ent[s].tag # TagOf[k]
  <2>1. own[s] = b /\ h.ent[s] = c.g.ent[s] /\ rank[s] < rank[c.e]
    BY <1>0, <1>3, <1>9, DropPasses
  <2> QED
    BY <1>0, <1>9, <2>1 DEF NonePassed, b
<1>10. first => NonePassed(d, o, r, k)
  BY <1>8, <1>9 DEF NonePassed, b
<1>11. Probing(d, o, r, k, first)
  BY <1>0, <1>4, <1>5, <1>6, <1>8, <1>10 DEF Probing, b
<1>12. Item(b, c.g.ent[c.e]) \in OutdatedOf(k)
  <2>1. Item(b, c.g.ent[c.e]) \in Items
    BY <1>0, <1>1, ContentsAre DEF Used
  <2>2. ~ValidAt(Item(b, c.g.ent[c.e]), pos, phase)
    BY DEF Valid, ValidAt, Item
  <2>3. Item(b, c.g.ent[c.e]).bucket = b /\ Item(b, c.g.ent[c.e]).tag = TagOf[k]
    BY DEF Item
  <2> QED
    BY <2>1, <2>2, <2>3 DEF Invalid, Outdated, OutdatedOf, b
<1>13. Sheds(c.g, h, OutdatedOf(k))
  <2> DEFINE W == OutdatedOf(k)
  <2> HIDE DEF W
  <2>1. c.g.ent[c.e].off # 0 => Item(b, c.g.ent[c.e]) \in W
    BY <1>12 DEF W
  <2>2. Sheds(c.g, h, W)
    BY <1>0, <1>3, <2>1, DropSheds
  <2> QED
    BY <2>2 DEF W
<1>14. Closer(c, own, rank, d, o, r, b)
  <2>1. Dropped(c.g, own, rank, b, c.e, c.p, d.g, o, r, d.e)
    BY <1>3, <1>8
  <2> QED
    BY <1>0, <2>1, DropAhead DEF Closer
<1> QED
  BY <1>8, <1>11, <1>13, <1>14 DEF b

(* One step of the loop.                                                   *)
LEMMA ProbeStepOK ==
  ASSUME NEW c, NEW own, NEW rank, NEW k \in Keys, NEW first \in BOOLEAN,
         Probing(c, own, rank, k, first)
  PROVE  /\ Sheds(c.g, ProbeStep(c, k).g, OutdatedOf(k))
         /\ \E o, r :
              /\ Probing(ProbeStep(c, k), o, r, k, first)
              /\ c.hit \/ c.e = Nil \/ ProbeStep(c, k).hit
                 \/ Closer(c, own, rank, ProbeStep(c, k), o, r, BucketOf[k])
<1> DEFINE d == ProbeStep(c, k)
<1>0. c \in Probes /\ Sound(c.g, own, rank, Slots) /\ Tidy(c.g, own, Buckets)
  BY DEF Probing
<1>1. CASE c.hit \/ (c.e = Nil /\ c.col = Nil)
  <2>1. d = c
    BY <1>1 DEF ProbeStep
  <2> QED
    BY <1>1, <2>1, ShedsSame
<1>2. CASE ~c.hit /\ c.e = Nil /\ c.col # Nil
  <2>1. d = ProbeStart(c.g, k, Nil)
    BY <1>2 DEF ProbeStep
  <2>2. Nil \in Pointers
    BY DEF Pointers
  <2>3. Probing(d, own, rank, k, first) /\ d.g = c.g
    BY <1>0, <2>1, <2>2, ProbeStarts
  <2> QED
    BY <1>2, <2>3, ShedsSame
<1>3. CASE /\ ~c.hit /\ c.e # Nil
           /\ c.g.ent[c.e].tag # TagOf[k] \/ c.col # Nil
  <2>1. /\ d.g = c.g /\ d.e = c.g.next[c.e] /\ d.p = c.e /\ ~d.hit /\ d \in Probes
        /\ c.col = Nil => d.col = Nil
    <3>1. c.e \in Pointers /\ c.g.next[c.e] \in Pointers /\ Nil \in Pointers
      BY <1>0, <1>3 DEF Probes, Segments, Pointers
    <3>2. CASE c.g.ent[c.e].tag # TagOf[k]
      BY <1>0, <1>3, <3>1, <3>2 DEF ProbeStep, Forward, Probes
    <3>3. CASE c.g.ent[c.e].tag = TagOf[k]
      <4> DEFINE col == IF c.col = c.e THEN Nil ELSE c.col
      <4>1. d = [c EXCEPT !.p = c.e, !.e = c.g.next[c.e], !.col = col]
        BY <1>0, <1>3, <3>3 DEF ProbeStep, Forward, Probes
      <4>2. col \in Pointers
        BY <1>0, <3>1 DEF Probes
      <4> HIDE DEF col, d
      <4> QED
        BY <1>0, <1>3, <3>1, <3>3, <4>1, <4>2 DEF Probes
    <3> QED
      BY <3>2, <3>3
  <2> HIDE DEF d
  <2>2. first => d.col = Nil /\ c.g.ent[c.e].tag # TagOf[k]
    BY <1>3, <2>1 DEF Probing
  <2>3. Probing(d, own, rank, k, first) /\ Closer(c, own, rank, d, own, rank, BucketOf[k])
    BY <1>3, <2>1, <2>2, ForwardProbing
  <2> QED
    BY <2>1, <2>3, ShedsSame DEF d
<1>4. CASE /\ ~c.hit /\ c.e # Nil /\ c.g.ent[c.e].tag = TagOf[k] /\ c.col = Nil
           /\ Valid(c.g.ent[c.e])
  <2>1. d = [c EXCEPT !.hit = TRUE]
    BY <1>4 DEF ProbeStep
  <2>2. d.g = c.g /\ d.e = c.e /\ d.p = c.p /\ d.col = c.col /\ d.hit /\ d \in Probes
    BY <1>0, <2>1 DEF Probes
  <2> HIDE DEF d
  <2>3. Probing(d, own, rank, k, first)
    BY <1>4, <2>2 DEF Probing, NonePassed
  <2> QED
    BY <2>2, <2>3, ShedsSame DEF d
<1>5. CASE /\ ~c.hit /\ c.e # Nil /\ c.g.ent[c.e].tag = TagOf[k] /\ c.col = Nil
           /\ ~Valid(c.g.ent[c.e])
  <2>1. d = DropAt(c)
    BY <1>5 DEF ProbeStep
  <2> HIDE DEF d
  <2>2. PICK o, r : Probing(d, o, r, k, first) /\ Closer(c, own, rank, d, o, r, BucketOf[k])
    BY <1>5, <2>1, DropProbing
  <2>3. Sheds(c.g, d.g, OutdatedOf(k))
    BY <1>5, <2>1, DropProbing
  <2> QED
    BY <2>2, <2>3 DEF d
<1> QED
  BY <1>1, <1>2, <1>3, <1>4, <1>5

(* dir_probe: what it drops is invalid and of the key; what it finds is    *)
(* valid; and when a first probe finds nothing, it has passed every entry  *)
(* of the key.                                                             *)
LEMMA ProbedNeat ==
  ASSUME Neat(seg, Buckets), NEW k \in Keys, NEW collision \in Pointers,
         NEW first \in BOOLEAN, first => collision = Nil
  PROVE  /\ Sheds(seg, Probed(k, collision).g, OutdatedOf(k))
         /\ \E own, rank : Probing(Probed(k, collision), own, rank, k, first)
         /\ first => Probed(k, collision).hit \/ Probed(k, collision).e = Nil
<1> DEFINE b == BucketOf[k]
           X == {c \in Probes : /\ \E own, rank : Probing(c, own, rank, k, first)
                                /\ Sheds(seg, c.g, OutdatedOf(k))}
           base == ProbeStart(seg, k, collision)
           N == 2 * Scan
           K == Cardinality(Slots)
           R(f) == [j \in 0 .. N |-> IF j = 0 THEN base ELSE ProbeStep(f[j - 1], k)]
           after == CHOOSE f : f = R(f)
<1>1. Probed(k, collision) = after[N]
  BY DEF Probed, Run, ProbeStart, ProbeStep
<1>2. N \in Nat /\ K \in Nat /\ N = 4 * K
  BY SlotsFinite DEF Scan
<1> HIDE DEF N, K
<1>3. /\ Sheds(seg, base.g, OutdatedOf(k))
      /\ \E own, rank : Probing(base, own, rank, k, first)
      /\ base \in X
  <2>1. PICK own, rank : Sound(seg, own, rank, Slots) /\ Tidy(seg, own, Buckets)
    BY DEF Neat
  <2>2. Probing(base, own, rank, k, first)
    BY <2>1, ProbeStarts
  <2>3. Sheds(seg, base.g, OutdatedOf(k))
    BY <2>1, ProbeStarts, ShedsSame
  <2> HIDE DEF base
  <2> QED
    BY <2>2, <2>3 DEF Probing
<1>4. ASSUME NEW c \in X PROVE ProbeStep(c, k) \in X
  <2>1. PICK own, rank : Probing(c, own, rank, k, first)
    OBVIOUS
  <2>2. PICK o, r : Probing(ProbeStep(c, k), o, r, k, first)
    BY <2>1, ProbeStepOK
  <2>3. Sheds(c.g, ProbeStep(c, k).g, OutdatedOf(k))
    BY <2>1, ProbeStepOK
  <2>4. Sheds(seg, ProbeStep(c, k).g, OutdatedOf(k))
    BY <2>3, ShedsAgain
  <2> QED
    BY <2>2, <2>4 DEF Probing
<1> HIDE DEF X, base
<1>5. \E f : f = R(f)
  <2> DEFINE step == [c \in X |-> ProbeStep(c, k)]
  <2>1. step \in [X -> X] /\ \A c \in X : step[c] = ProbeStep(c, k)
    BY <1>4
  <2> HIDE DEF step
  <2>2. PICK f : Loop(f, N, X, base, step)
    BY <1>2, <1>3, <2>1, LoopExists
  <2>3. /\ f \in [0 .. N -> X]
        /\ \A j \in 0 .. N : f[j] = IF j = 0 THEN base ELSE step[f[j - 1]]
    BY <2>2 DEF Loop
  <2>4. \A j \in 0 .. N : j # 0 => f[j - 1] \in X
    BY <1>2, <2>3
  <2>5. f = R(f)
    BY <2>1, <2>3, <2>4
  <2> QED
    BY <2>5
<1>6. after = R(after)
  BY <1>5
<1> HIDE DEF after
<1>7. \A j \in 0 .. N : after[j] = IF j = 0 THEN base ELSE ProbeStep(after[j - 1], k)
  BY <1>6, Zenon
<1> DEFINE Ends(c) == c.hit \/ c.e = Nil
           Left(c, own, rank, j) == \E D : Ahead(c, own, rank, b, D) /\ Cardinality(D) + j <= K
           Going(c, j) == \E own, rank : /\ Probing(c, own, rank, k, first)
                                         /\ first => Ends(c) \/ Left(c, own, rank, j)
           Y == [j \in 0 .. N |-> {c \in X : Going(c, j)}]
<1>8. after[0] \in Y[0]
  <2>1. after[0] = base
    BY <1>2, <1>7
  <2>2. PICK own, rank : Probing(base, own, rank, k, first)
    BY <1>3
  <2>3. Ahead(base, own, rank, b, Slots) /\ Cardinality(Slots) + 0 <= K
    BY <1>2 DEF Ahead, K
  <2>4. Left(base, own, rank, 0)
    BY <2>3
  <2>5. Going(base, 0)
    <3> HIDE DEF Left, Ends
    <3> QED
      BY <2>2, <2>4
  <2> HIDE DEF Going
  <2> QED
    BY <1>2, <1>3, <2>1, <2>5
<1>9. ASSUME NEW j \in 1 .. N, after[j - 1] \in Y[j - 1] PROVE after[j] \in Y[j]
  <2> DEFINE c == after[j - 1]
             d == ProbeStep(c, k)
  <2>1. j - 1 \in 0 .. N /\ j \in 0 .. N /\ j # 0 /\ j - 1 \in Int
    BY <1>2
  <2>2. c \in X /\ Going(c, j - 1)
    <3> HIDE DEF Going
    <3> QED
      BY <1>9, <2>1
  <2>3. after[j] = d /\ d \in X
    BY <1>4, <1>7, <2>1, <2>2
  <2> HIDE DEF c
  <2>4. PICK own, rank : /\ Probing(c, own, rank, k, first)
                         /\ first => Ends(c) \/ Left(c, own, rank, j - 1)
    BY <2>2
  <2>5. PICK o, r : /\ Probing(d, o, r, k, first)
                    /\ c.hit \/ c.e = Nil \/ d.hit \/ Closer(c, own, rank, d, o, r, b)
    BY <2>4, ProbeStepOK
  <2>6. ASSUME first PROVE Ends(d) \/ Left(d, o, r, j)
    <3>1. CASE Ends(c)
      <4>1. c.col = Nil
        BY <2>4, <2>6 DEF Probing
      <4>2. d = c
        BY <3>1, <4>1 DEF ProbeStep
      <4> QED
        BY <3>1, <4>2
    <3>2. CASE ~Ends(c) /\ ~Ends(d)
      <4>1. PICK D : Ahead(c, own, rank, b, D) /\ Cardinality(D) + (j - 1) <= K
        BY <2>4, <2>6, <3>2
      <4> HIDE DEF d
      <4>2. PICK x \in D : Ahead(d, o, r, b, D \ {x})
        BY <2>5, <3>2, <4>1 DEF Closer
      <4>3. IsFiniteSet(D)
        BY <4>1, SlotsFinite, FS_Subset DEF Ahead
      <4>4. Cardinality(D \ {x}) = Cardinality(D) - 1 /\ Cardinality(D) \in Nat
        BY <4>2, <4>3, FS_RemoveElement, FS_CardinalityType
      <4>5. Cardinality(D \ {x}) + j <= K
        BY <1>2, <2>1, <4>1, <4>4
      <4> QED
        BY <4>2, <4>5
    <3> QED
      BY <3>1, <3>2
  <2> HIDE DEF d
  <2>7. Going(d, j)
    <3> HIDE DEF Left, Ends
    <3> QED
      BY <2>5, <2>6
  <2> HIDE DEF Going
  <2> QED
    BY <2>1, <2>3, <2>7
<1>10. after[N] \in Y[N]
  <2> HIDE DEF Y
  <2> QED
    BY <1>2, <1>8, <1>9, StepByStep
<1> DEFINE c == after[N]
<1>11. c \in X /\ Going(c, N)
  <2>1. N \in 0 .. N
    BY <1>2
  <2> HIDE DEF Going
  <2> QED
    BY <1>10, <2>1
<1> HIDE DEF c
<1>12. PICK own, rank : /\ Probing(c, own, rank, k, first)
                        /\ first => Ends(c) \/ Left(c, own, rank, N)
  BY <1>11
<1>13. ASSUME first PROVE Ends(c)
  <2> SUFFICES ASSUME ~Ends(c) PROVE FALSE
    OBVIOUS
  <2>1. PICK D : Ahead(c, own, rank, b, D) /\ Cardinality(D) + N <= K
    BY <1>12, <1>13
  <2>2. IsFiniteSet(D)
    BY <2>1, SlotsFinite, FS_Subset DEF Ahead
  <2>3. Sound(c.g, own, rank, Slots) /\ Position(c.g, own, b, c.e, c.p) /\ b \in Buckets
    BY <1>12 DEF Probing
  <2> HIDE DEF b
  <2>4. c.e \in Slots /\ own[c.e] = b /\ rank[c.e] \in Int
    <3>1. c.e \in Slots /\ own[c.e] = b
      BY <2>3, PositionParts
    <3>2. Linked(c.g.next, c.g.free, own, rank, Slots)
      BY <2>3 DEF Sound
    <3> QED
      BY <3>1, <3>2, LinkedParts
  <2>5. c.e \in D
    BY <2>1, <2>4 DEF Ahead
  <2>6. Cardinality(D) \in Nat /\ Cardinality(D) # 0
    BY <2>2, <2>5, FS_CardinalityType, FS_EmptySet
  <2> QED
    BY <1>2, <2>1, <2>6
<1>14. Probed(k, collision) = c
  BY <1>1 DEF c
<1> QED
  BY <1>11, <1>12, <1>13, <1>14 DEF X

-----------------------------------------------------------------------------
(* The inductive invariant: the segment is neat, an entry is inserted only *)
(* for a block that has been written, and an insertion that never ends has *)
(* purged all head entries.                                                *)

Findings == [key : Keys \cup {Nil}, dir : Dirs, last : Pointers]

PlaceInv ==
  /\ pos \in 0 .. Blocks /\ phase \in BOOLEAN
  /\ fresh \in BOOLEAN /\ stuck \in BOOLEAN
  /\ writes \in 0 .. MaxWrites
  /\ fresh => pos # 0

FoundInv ==
  /\ found \in Findings
  /\ found # None =>
       found.key \in Keys /\ found.dir.tag = TagOf[found.key] /\ found.dir.off # 0

StuckInv == stuck => Heads(seg) = {}

IInv == Neat(seg, Buckets) /\ PlaceInv /\ FoundInv /\ StuckInv

LEMMA NoneFound == None \in Findings
BY EmptyIsDir DEF None, Findings, Pointers

LEMMA InitOK == Init => IInv
<1> SUFFICES ASSUME Init PROVE IInv
  OBVIOUS
<1>1. Neat(seg, Buckets)
  BY InitNeat DEF Init
<1>2. PlaceInv
  <2>1. 0 \in 0 .. Blocks /\ 0 \in 0 .. MaxWrites
    OBVIOUS
  <2> QED
    BY <2>1 DEF Init, PlaceInv
<1>3. FoundInv
  BY NoneFound DEF Init, FoundInv
<1>4. StuckInv
  BY DEF Init, StuckInv
<1> QED
  BY <1>1, <1>2, <1>3, <1>4 DEF IInv

LEMMA NewDirIs ==
  ASSUME PlaceInv, fresh, NEW k \in Keys
  PROVE  NewDir(k) \in Dirs /\ NewDir(k).off # 0
<1>1. TagOf[k] \in Tags \cup {0} /\ pos \in 0 .. Blocks /\ pos # 0
  BY DEF PlaceInv, Tags
<1>2. phase \in BOOLEAN /\ HeadOf[k] \in BOOLEAN
  BY DEF PlaceInv
<1> QED
  BY <1>1, <1>2 DEF NewDir, Dirs

LEMMA EnterOK ==
  ASSUME Neat(seg, Buckets), NEW k \in Keys, NEW x \in Dirs, x.off # 0, Enter(k, x),
         stuck \in BOOLEAN
  PROVE  Neat(seg', Buckets) /\ stuck' \in BOOLEAN /\ (stuck' => stuck \/ Heads(seg') = {})
<1> DEFINE b == BucketOf[k]
           g == MadeRoom(seg, b)
<1>1. Neat(g, Buckets) /\ b \in Buckets /\ (HasRoom(g, b) \/ Heads(g) = {})
  BY MadeRoomNeat
<1>2. CASE HasRoom(g, b)
  <2>1. seg' = Placed(g, b, x) /\ stuck' = stuck
    BY <1>2 DEF Enter
  <2> HIDE DEF g, b
  <2>2. Neat(Placed(g, b, x), Buckets)
    BY <1>1, <1>2, PlacedNeat
  <2> QED
    BY <2>1, <2>2
<1>3. CASE ~HasRoom(g, b)
  BY <1>1, <1>3 DEF Enter
<1> QED
  BY <1>2, <1>3

LEMMA AdvanceOK == ASSUME IInv, Advance PROVE IInv'
<1>0. Neat(seg, Buckets) /\ PlaceInv /\ FoundInv
  BY DEF IInv
<1>1. Neat(seg, {})
  BY <1>0, NeatParts
<1>2. Neat(seg', Buckets)
  <2>1. CASE pos = Blocks
    <3>1. seg' = CleanSegment(seg, 0, ~phase)
      BY <2>1 DEF Advance
    <3> QED
      BY <1>1, <3>1, CleanSegmentNeat
  <2>2. CASE pos # Blocks
    BY <1>0, <2>2 DEF Advance
  <2> QED
    BY <2>1, <2>2
<1>3. PlaceInv'
  <2>1. pos' \in 0 .. Blocks /\ pos' # 0
    BY <1>0 DEF Advance, PlaceInv
  <2>2. writes' \in 0 .. MaxWrites
    BY <1>0 DEF Advance, PlaceInv
  <2>3. phase' \in BOOLEAN /\ fresh' \in BOOLEAN /\ stuck' \in BOOLEAN
    BY <1>0 DEF Advance, PlaceInv
  <2> QED
    BY <2>1, <2>2, <2>3 DEF PlaceInv
<1>4. FoundInv'
  BY <1>0 DEF Advance, FoundInv
<1>5. StuckInv'
  BY DEF Advance, StuckInv
<1> QED
  BY <1>2, <1>3, <1>4, <1>5 DEF IInv

LEMMA InsertOK == ASSUME IInv, NEW k \in Keys, Insert(k) PROVE IInv'
<1>0. Neat(seg, Buckets) /\ PlaceInv /\ FoundInv
  BY DEF IInv
<1>1. NewDir(k) \in Dirs /\ NewDir(k).off # 0
  BY <1>0, NewDirIs DEF Insert
<1>2. Neat(seg', Buckets) /\ stuck' \in BOOLEAN /\ (stuck' => stuck \/ Heads(seg') = {})
  BY <1>0, <1>1, EnterOK DEF Insert, PlaceInv
<1>3. PlaceInv' /\ FoundInv'
  BY <1>0, <1>2 DEF Insert, PlaceInv, FoundInv
<1>4. StuckInv'
  BY <1>2 DEF Insert, StuckInv
<1> QED
  BY <1>2, <1>3, <1>4 DEF IInv

LEMMA ProbeOK ==
  ASSUME IInv, NEW k \in Keys, NEW collision \in Pointers, Probe(k, collision)
  PROVE  IInv'
<1> DEFINE c == Probed(k, collision)
<1>0. Neat(seg, Buckets) /\ PlaceInv /\ FoundInv
  BY DEF IInv
<1>1. PICK own, rank : Probing(c, own, rank, k, FALSE)
  BY <1>0, ProbedNeat
<1>2. /\ seg' = c.g
      /\ found' = IF c.hit THEN [key |-> k, dir |-> c.g.ent[c.e], last |-> c.e] ELSE None
      /\ UNCHANGED <<pos, phase, writes, fresh, stuck>>
  BY DEF Probe
<1> HIDE DEF c
<1>3. Neat(seg', Buckets)
  BY <1>1, <1>2 DEF Probing, Neat
<1>4. PlaceInv'
  BY <1>0, <1>2 DEF PlaceInv
<1>5. FoundInv'
  <2>1. CASE c.hit
    <3>1. c \in Probes /\ c.e # Nil /\ c.g.ent[c.e].tag = TagOf[k] /\ c.g.ent[c.e].off # 0
      BY <1>1, <2>1 DEF Probing
    <3>2. c.e \in Slots /\ c.e \in Pointers /\ c.g.ent[c.e] \in Dirs
      BY <3>1 DEF Probes, Pointers, Segments
    <3>3. found' = [key |-> k, dir |-> c.g.ent[c.e], last |-> c.e]
      BY <1>2, <2>1
    <3> QED
      BY <3>1, <3>2, <3>3 DEF FoundInv, Findings
  <2>2. CASE ~c.hit
    BY <1>2, <2>2, NoneFound DEF FoundInv
  <2> QED
    BY <2>1, <2>2
<1>6. StuckInv'
  BY DEF Probe, StuckInv
<1> QED
  BY <1>3, <1>4, <1>5, <1>6 DEF IInv

LEMMA DeleteOK == ASSUME IInv, Delete PROVE IInv'
<1> DEFINE k == found.key
           c == Lookup(seg, k, found.dir.off)
<1>0. Neat(seg, Buckets) /\ PlaceInv /\ FoundInv
  BY DEF IInv
<1>1. k \in Keys
  BY <1>0 DEF Delete, FoundInv
<1>2. /\ seg' = IF c.e = Nil THEN seg ELSE DeleteEntry(seg, c.e, c.p)
      /\ found' = None /\ UNCHANGED <<pos, phase, writes, fresh, stuck>>
  BY DEF Delete
<1>3. PICK own, rank : Sound(seg, own, rank, Slots) /\ Tidy(seg, own, Buckets)
  BY <1>0 DEF Neat
<1> DEFINE b == BucketOf[k]
<1>4. b \in Buckets
  BY <1>1
<1>5. Position(seg, own, b, c.e, c.p)
  <2> DEFINE off == found.dir.off
  <2> HIDE DEF k, off
  <2> QED
    BY <1>1, <1>3, LookupPosition DEF off
<1> HIDE DEF c, b
<1>6. Neat(seg', Buckets)
  <2>1. CASE c.e = Nil
    BY <1>0, <1>2, <2>1
  <2>2. CASE c.e # Nil
    <3>1. PICK o, r : Dropped(seg, own, rank, b, c.e, c.p, DeleteEntry(seg, c.e, c.p), o, r,
                              AfterDelete(seg, c.e, c.p))
      BY <1>3, <1>4, <1>5, <2>2, DropSound
    <3>2. Buckets \in SUBSET Buckets
      OBVIOUS
    <3>3. Tidy(DeleteEntry(seg, c.e, c.p), o, Buckets)
      BY <1>3, <1>4, <1>5, <2>2, <3>1, <3>2, DropTidy
    <3>4. Sound(DeleteEntry(seg, c.e, c.p), o, r, Slots)
      BY <3>1 DEF Dropped
    <3> QED
      BY <1>2, <2>2, <3>3, <3>4 DEF Neat
  <2> QED
    BY <2>1, <2>2
<1>7. PlaceInv' /\ FoundInv'
  BY <1>0, <1>2, NoneFound DEF PlaceInv, FoundInv
<1>8. StuckInv'
  BY DEF Delete, StuckInv
<1> QED
  BY <1>6, <1>7, <1>8 DEF IInv

LEMMA OverwriteOK == ASSUME IInv, NEW must \in BOOLEAN, Overwrite(must) PROVE IInv'
<1> DEFINE k == found.key
           c == Lookup(seg, k, found.dir.off)
           x == NewDir(k)
<1>0. Neat(seg, Buckets) /\ PlaceInv /\ FoundInv
  BY DEF IInv
<1>1. k \in Keys /\ fresh
  BY <1>0 DEF Overwrite, FoundInv
<1>2. /\ found' = None /\ fresh' = FALSE /\ UNCHANGED <<pos, phase, writes>> /\ ~stuck
      /\ \/ c.e # Nil /\ seg' = [seg EXCEPT !.ent[c.e] = x] /\ UNCHANGED stuck
         \/ UNCHANGED <<seg, stuck>>
         \/ Enter(k, x)
  BY DEF Overwrite
<1>3. x \in Dirs /\ x.off # 0
  <2> HIDE DEF k
  <2> QED
    BY <1>0, <1>1, NewDirIs
<1>4. PICK own, rank : Sound(seg, own, rank, Slots) /\ Tidy(seg, own, Buckets)
  BY <1>0 DEF Neat
<1> DEFINE b == BucketOf[k]
<1>5. b \in Buckets
  BY <1>1
<1>6. Position(seg, own, b, c.e, c.p)
  <2> DEFINE off == found.dir.off
  <2> HIDE DEF k, off
  <2> QED
    BY <1>1, <1>4, LookupPosition DEF off
<1> HIDE DEF c, b, x
<1>7. Neat(seg', Buckets) /\ stuck' \in BOOLEAN /\ (stuck' => stuck \/ Heads(seg') = {})
  <2>1. CASE c.e # Nil /\ seg' = [seg EXCEPT !.ent[c.e] = x] /\ UNCHANGED stuck
    <3> DEFINE y == With(seg.ent, c.e, x)
               h == [seg EXCEPT !.ent = y]
    <3>1. c.e \in Slots /\ own[c.e] = b /\ b # Spare
      BY <1>4, <1>5, <1>6, <2>1, PositionParts
    <3>2. seg.ent \in [Slots -> Dirs] /\ seg \in Segments
      BY <1>4, SegmentParts DEF Sound
    <3>3. y \in [Slots -> Dirs] /\ y[c.e] = x /\ \A s \in Slots : s # c.e => y[s] = seg.ent[s]
      BY <1>3, <3>1, <3>2 DEF With
    <3>4. seg' = h
      BY <2>1, <3>2 DEF With, Segments
    <3> HIDE DEF y
    <3>5. \A s \in Slots : own[s] = Spare => y[s].off = 0
      BY <1>4, <3>1, <3>3 DEF Sound, Backed
    <3>6. Sound(h, own, rank, Slots) /\ h.ent = y /\ h.next = seg.next
      BY <1>4, <3>3, <3>5, Rewritten
    <3> HIDE DEF h
    <3>7. Tidy(h, own, Buckets)
      BY <1>3, <1>4, <3>3, <3>6 DEF Tidy
    <3>8. stuck' \in BOOLEAN /\ stuck' = stuck
      BY <1>0, <2>1 DEF PlaceInv
    <3> QED
      BY <3>4, <3>6, <3>7, <3>8 DEF Neat
  <2>2. CASE UNCHANGED <<seg, stuck>>
    BY <1>0, <2>2 DEF PlaceInv
  <2>3. CASE Enter(k, x)
    <3>1. stuck \in BOOLEAN
      BY <1>0 DEF PlaceInv
    <3> HIDE DEF k
    <3> QED
      BY <1>0, <1>1, <1>3, <2>3, <3>1, EnterOK
  <2> QED
    BY <1>2, <2>1, <2>2, <2>3
<1>8. PlaceInv' /\ FoundInv'
  BY <1>0, <1>2, <1>7, NoneFound DEF PlaceInv, FoundInv
<1>9. StuckInv'
  BY <1>2, <1>7 DEF StuckInv
<1> QED
  BY <1>7, <1>8, <1>9 DEF IInv

(* Every reachable segment is neat.                                        *)
THEOREM Invariance == Spec => []IInv
<1>1. Init => IInv
  BY InitOK
<1>2. IInv /\ [Next]_vars => IInv'
  <2> SUFFICES ASSUME IInv, [Next]_vars PROVE IInv'
    OBVIOUS
  <2>1. CASE Advance
    BY <2>1, AdvanceOK
  <2>2. CASE Delete
    BY <2>2, DeleteOK
  <2>3. CASE ProbeAgain
    <3>1. found.key \in Keys /\ found.last \in Pointers
      BY <2>3 DEF ProbeAgain, IInv, FoundInv, Findings
    <3>2. Probe(found.key, found.last)
      BY <2>3 DEF ProbeAgain
    <3> QED
      BY <3>1, <3>2, ProbeOK
  <2>4. CASE \E k \in Keys : Insert(k) \/ Probe(k, Nil)
    <3>1. Nil \in Pointers
      BY DEF Pointers
    <3> QED
      BY <2>4, <3>1, InsertOK, ProbeOK
  <2>5. CASE \E must \in BOOLEAN : Overwrite(must)
    BY <2>5, OverwriteOK
  <2>6. CASE UNCHANGED vars
    BY <2>6 DEF vars, IInv, PlaceInv, FoundInv, StuckInv
  <2> QED
    BY <2>1, <2>2, <2>3, <2>4, <2>5, <2>6 DEF Next
<1> QED
  BY <1>1, <1>2, PTL DEF Spec

(* The variables keep their types: no link leads out of the segment.       *)
THEOREM TypeCorrect == Spec => []TypeOK
<1>1. IInv => TypeOK
  <2> SUFFICES ASSUME IInv PROVE TypeOK
    OBVIOUS
  <2>1. seg \in Segments
    BY NeatParts DEF IInv
  <2>2. /\ seg.ent \in [Slots -> Dirs] /\ seg.next \in [Slots -> Slots \cup {Nil}]
        /\ seg.prev \in [Slots -> Slots \cup {Nil}] /\ seg.free \in Slots \cup {Nil}
    BY <2>1, SegmentParts DEF Pointers
  <2>3. found \in [key : Keys \cup {Nil}, dir : Dirs, last : Slots \cup {Nil}]
    BY DEF IInv, FoundInv, Findings, Pointers
  <2> QED
    BY <2>2, <2>3 DEF TypeOK, IInv, PlaceInv
<1> QED
  BY <1>1, Invariance, PTL

-----------------------------------------------------------------------------
LEMMA NextInjective ==
  ASSUME NEW g, NEW own, NEW rank, Sound(g, own, rank, Slots),
         NEW s \in Slots, NEW t \in Slots, g.next[s] = g.next[t], g.next[s] # Nil
  PROVE  s = t
<1>1. Linked(g.next, g.free, own, rank, Slots)
  BY DEF Sound
<1> DEFINE n == g.next[s]
<1>2. /\ n \in Slots /\ own[s] = own[n] /\ own[t] = own[n] /\ rank[s] < rank[n] /\ rank[t] < rank[n]
      /\ rank[s] \in Int /\ rank[t] \in Int /\ rank[n] \in Int
  BY <1>1, LinkedParts
<1>3. rank[t] <= rank[s] \/ rank[n] <= rank[t]
  BY <1>1, <1>2 DEF Linked, Follows
<1>4. rank[s] <= rank[t] \/ rank[n] <= rank[s]
  BY <1>1, <1>2 DEF Linked, Follows
<1>5. rank[s] = rank[t]
  BY <1>2, <1>3, <1>4
<1> QED
  BY <1>1, <1>2, <1>5 DEF Linked, Ordered

(* Every entry is on one chain or on the free list, once; the links back   *)
(* on the free list are those forward; a used entry is on a chain, and an  *)
(* unused one starts an empty chain or is free.                            *)
THEOREM EntriesAccounted == Spec => []Accounted
<1>1. IInv => Accounted
  <2> SUFFICES ASSUME IInv PROVE Accounted
    OBVIOUS
  <2>1. PICK own, rank : Sound(seg, own, rank, Slots) /\ Tidy(seg, own, Buckets)
    BY DEF IInv, Neat
  <2>2. Linked(seg.next, seg.free, own, rank, Slots)
    BY <2>1 DEF Sound
  <2>3. /\ own \in [Slots -> Homes] /\ Spare \notin Buckets /\ Nil \notin Slots
        /\ \A b \in Buckets : own[Row(b, 0)] = b
    BY <2>2, LinkedParts, SlotsFinite DEF Buckets, Spare
  <2> DEFINE FirstOf(h) == IF h = Spare THEN seg.free ELSE Row(h, 0)
             List(h) == ListFrom(seg, FirstOf(h))
  <2>4. \A h \in Homes : Lowest(own, rank, h, FirstOf(h))
    BY <2>1, <2>3, Starts DEF Homes
  <2>5. ASSUME NEW h \in Homes
        PROVE  /\ Path(List(h), seg, own, rank, h, FirstOf(h))
               /\ Cardinality(Members(List(h))) = Len(List(h))
               /\ Members(List(h)) = {t \in Slots : own[t] = h}
               /\ \A i, j \in 1 .. Len(List(h)) : List(h)[i] = List(h)[j] => i = j
               /\ DOMAIN List(h) = 1 .. Len(List(h)) /\ Len(List(h)) \in Nat
    <3> DEFINE s == FirstOf(h)
    <3>1. Lowest(own, rank, h, s)
      BY <2>4
    <3> HIDE DEF s
    <3> QED
      BY <2>1, <3>1, ListIsHome DEF s
  <2> DEFINE free  == FreeList(seg)
             lists == {Chain(seg, b) : b \in Buckets} \cup {free}
  <2>6. /\ lists = {List(h) : h \in Homes} /\ free = List(Spare)
        /\ lists \ {free} \subseteq {List(b) : b \in Buckets}
    BY <2>3 DEF Homes, Chain, FreeList
  <2> HIDE DEF free, lists, List, FirstOf
  <2>7. \A q \in lists : Cardinality(Members(q)) = Len(q)
    BY <2>5, <2>6
  <2>8. \A q, r \in lists : q = r \/ Members(q) \cap Members(r) = {}
    <3> SUFFICES ASSUME NEW h \in Homes, NEW k \in Homes, List(h) # List(k)
                 PROVE  Members(List(h)) \cap Members(List(k)) = {}
      BY <2>6
    <3>1. h # k
      OBVIOUS
    <3> QED
      BY <2>5, <3>1
  <2>9. UNION {Members(q) : q \in lists} = Slots
    <3>1. \A s \in Slots : own[s] \in Homes /\ s \in Members(List(own[s]))
      BY <2>3, <2>5
    <3> QED
      BY <2>5, <2>6, <3>1
  <2>10. ASSUME NEW i \in DOMAIN free
         PROVE  /\ seg.ent[free[i]].off = 0 /\ ~IsRow0(free[i])
                /\ seg.prev[free[i]] = IF i = 1 THEN Nil ELSE free[i - 1]
    <3>0. Spare \in Homes
      BY DEF Homes
    <3>1. /\ Path(free, seg, own, rank, Spare, FirstOf(Spare)) /\ FirstOf(Spare) = seg.free
          /\ i \in 1 .. Len(free) /\ Len(free) \in Nat
          /\ \A j, k \in 1 .. Len(free) : free[j] = free[k] => j = k
      BY <2>5, <2>6, <2>10, <3>0 DEF FirstOf
    <3> DEFINE s == free[i]
    <3>2. s \in Slots /\ own[s] = Spare /\ free \in Seq(Slots)
      BY <3>1 DEF Path
    <3>3. seg.ent[s].off = 0
      BY <2>1, <3>2 DEF Sound, Backed
    <3>4. ~IsRow0(s)
      BY <2>3, <3>2, FirstsAre DEF Firsts
    <3>5. 1 \in 1 .. Len(free) /\ free[1] = seg.free
      <4>1. free # <<>> /\ 1 \in 1 .. Len(free)
        BY <3>1
      <4> QED
        BY <3>1, <4>1 DEF Path
    <3>6. CASE i = 1
      <4>1. seg.prev[s] = Nil
        BY <2>1, <3>2, <3>5, <3>6 DEF Sound, Backed
      <4> QED
        BY <3>3, <3>4, <3>6, <4>1
    <3>7. CASE i # 1
      <4>1. i - 1 \in 1 .. Len(free) /\ i > 1
        BY <3>1, <3>7
      <4> DEFINE t == free[i - 1]
                 u == seg.prev[s]
      <4>2. seg.next[t] = s /\ t \in Slots
        BY <3>1, <3>2, <4>1 DEF Path
      <4>3. s # seg.free
        BY <3>1, <3>5, <3>7
      <4>4. u \in Slots /\ seg.next[u] = s
        BY <2>1, <3>2, <4>3, FreeBefore
      <4>5. s # Nil
        BY <2>3, <3>2
      <4> HIDE DEF s, t, u
      <4>6. t = u
        BY <2>1, <4>2, <4>4, <4>5, NextInjective
      <4> QED
        BY <3>3, <3>4, <3>7, <4>6 DEF s, t, u
    <3> QED
      BY <3>6, <3>7
  <2>11. ASSUME NEW q \in lists \ {free}, NEW i \in DOMAIN q, seg.ent[q[i]].off = 0
         PROVE  i = 1 /\ Len(q) = 1
    <3>1. PICK b \in Buckets : q = List(b)
      BY <2>6
    <3>2. /\ Path(q, seg, own, rank, b, Row(b, 0)) /\ i \in 1 .. Len(q) /\ Len(q) \in Nat
          /\ \A j, k \in 1 .. Len(q) : q[j] = q[k] => j = k
      BY <2>3, <2>5, <2>11, <3>1 DEF FirstOf, Homes
    <3>3. q[i] \in Slots /\ own[q[i]] = b
      BY <3>2 DEF Path
    <3>4. q[i] \in Firsts /\ seg.next[q[i]] = Nil
      BY <2>1, <2>11, <3>3 DEF Tidy
    <3>5. q[i] = Row(b, 0)
      BY <2>3, <3>3, <3>4 DEF Firsts
    <3>6. 1 \in 1 .. Len(q) /\ q[1] = Row(b, 0)
      <4>1. q # <<>> /\ 1 \in 1 .. Len(q)
        BY <3>2
      <4> QED
        BY <3>2, <4>1 DEF Path
    <3>7. i = 1
      BY <3>2, <3>5, <3>6
    <3>8. ASSUME Len(q) # 1 PROVE FALSE
      <4>1. 2 \in 1 .. Len(q) /\ 2 > 1 /\ 2 - 1 = 1
        <5> DEFINE m == Len(q)
        <5>1. m \in Nat /\ 1 \in 1 .. m /\ m # 1
          BY <3>2, <3>6, <3>8
        <5> HIDE DEF m
        <5>2. 2 \in 1 .. m
          BY <5>1
        <5> QED
          BY <5>2 DEF m
      <4>2. seg.next[q[1]] = q[2] /\ q[2] \in Slots
        BY <3>2, <4>1 DEF Path
      <4> QED
        BY <2>3, <3>4, <3>7, <4>2
    <3> QED
      BY <3>7, <3>8
  <2> QED
    BY <2>7, <2>8, <2>9, <2>10, <2>11 DEF Accounted, free, lists
<1> QED
  BY <1>1, Invariance, PTL

(* The loop from Lagain ends as long as the segment holds the entry of a   *)
(* first fragment.                                                         *)
THEOREM StuckWithoutHeads == Spec => []StuckOnlyWithoutHeads
<1>1. IInv => StuckOnlyWithoutHeads
  BY DEF IInv, StuckInv, StuckOnlyWithoutHeads, Heads
<1> QED
  BY <1>1, Invariance, PTL
=============================================================================
