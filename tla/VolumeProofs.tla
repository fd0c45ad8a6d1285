---------------------------- MODULE VolumeProofs ----------------------------
(***************************************************************************)
(* The volume for every aggregation buffer and every order of writes,      *)
(* syncs, failures and crashes: documents have their place inside the      *)
(* volume, no writer and no sync is forgotten, a crash always finds a whole*)
(* copy of the directory, and an entry leads to its document, before the   *)
(* first crash and, in a volume with room for five buffers, after the      *)
(* recovery from it.                                                       *)
(*                                                                         *)
(* In this order: the inductive invariant and the steps that keep it; where*)
(* the documents of the entries are; the scan of a recovery over a log that*)
(* is in order; what the steps before the crash do to the log; the crash.  *)
(***************************************************************************)
EXTENDS Volume, InductionTheorems, SequenceTheorems

-----------------------------------------------------------------------------
(* The inductive invariant.                                                *)

(* A document inside the volume's data. *)
Docs ==
  {d \in [id : 1 .. MaxDocs, pos : Blocks, len : Lengths, phase : BOOLEAN,
          sync : Nat, ser : Nat] : d.pos + d.len <= End}

Volumes ==
  [hdr : Header, dir : SUBSET Docs, queue : Seq(Lengths), buf : Seq(Docs),
   io : BOOLEAN, pend : SUBSET Docs, waiting : BOOLEAN, made : 0 .. MaxDocs]

(* What the buffer holds fits into it, and before the end of the volume. *)
Room(m) ==
  /\ BufLen(m) <= AggSize
  /\ m.hdr.writePos + BufLen(m) <= End
  /\ m.made + Len(m.queue) <= MaxDocs

VolOK(m) == m \in Volumes /\ Room(m)

Images == [hdr : Header, dir : SUBSET Docs]

Copies == [hdr : Header, dir : SUBSET Docs, foot : Nat, whole : BOOLEAN]

IsMap(D) == D = [b \in Blocks |-> D[b]]

DiskOK ==
  /\ DOMAIN disk = Blocks /\ IsMap(disk)
  /\ \A b \in Blocks : disk[b] # Blank =>
       LET d == disk[b][1]
       IN d \in Docs /\ b \in BlocksOf(d) /\ disk[b] = <<d, b - d.pos>>

(* What the history may mark. *)
Marks == {"round", "torn", "skipped", "cleared", "sync error", "late", "set back"}

TypeInv ==
  /\ mode \in {"up", "down", "storing", "clearing", "endless"}
  /\ stage \in {"idle", "header", "body", "footer", "clear A", "clear B"}
  /\ VolOK(vol)
  /\ DiskOK
  /\ snap \in Images
  /\ copies \in [{0, 1} -> Copies]
  /\ seen \subseteq Marks

(* What is done when.  A sync that waits has not begun to write. *)
ModeInv ==
  /\ mode = "up" => stage \in {"idle", "header", "body", "footer"}
  /\ mode = "up" /\ vol.waiting => stage = "idle"
  /\ mode \in {"down", "endless"} => stage = "idle"
  /\ mode = "storing" => stage \in {"header", "body", "footer"}
  /\ mode = "clearing" \/ stage \in {"clear A", "clear B"} => "cleared" \in seen
  /\ mode # "up" => ~vol.io /\ ~vol.waiting /\ vol.queue = <<>> /\ vol.buf = <<>>

Undisturbed == seen \cap {"sync error", "cleared"} = {}

(* The copy c is complete, and what the other place holds at its end is    *)
(* older.                                                                  *)
Base(c) ==
  /\ Good(c) /\ copies[c].whole /\ copies[c].hdr.sync % 2 = c
  /\ copies[1 - c].foot <= copies[c].hdr.sync
  /\ c = 1 => copies[0].foot # copies[1].hdr.sync

(* A copy to start from, and what is being written to the other place. *)
Writes(c) ==
  /\ stage = "idle" /\ mode = "up" => vol.hdr.sync = copies[c].hdr.sync
  /\ stage \in {"header", "body", "footer"} =>
       /\ vol.hdr.sync = snap.hdr.sync
       /\ snap.hdr.sync > copies[c].hdr.sync
       /\ snap.hdr.sync % 2 = 1 - c
  /\ stage \in {"idle", "header"} => (Good(1 - c) => copies[1 - c].whole)
  /\ stage \in {"body", "footer"} => copies[1 - c].hdr = snap.hdr
  /\ stage = "footer" => copies[1 - c].whole

CopyInv == Undisturbed => \E c \in {0, 1} : Base(c) /\ Writes(c)

IInv == TypeInv /\ ModeInv /\ NothingForgotten /\ CopyInv

-----------------------------------------------------------------------------
(* Sums of lengths.                                                        *)

USE SizeAssumption, BoundAssumption

(* A function on the first n numbers is a sequence.                        *)
LEMMA FunctionIsSeq ==
  ASSUME NEW n \in Nat, NEW S, NEW f \in [1 .. n -> S]
  PROVE  f \in Seq(S) /\ Len(f) = n
OBVIOUS

(* Total is the sum that the lemmas of InductionTheorems are about.        *)
LEMMA TotalIs ==
  ASSUME NEW q \in Seq(Nat)
  PROVE  /\ Total(q) = SumOver(q, 1 .. Len(q)) /\ Weights(q, 1 .. Len(q))
         /\ IsFiniteSet(1 .. Len(q)) /\ Total(q) \in Nat
<1>1. DOMAIN q = 1 .. Len(q) /\ Len(q) \in Nat /\ \A i \in 1 .. Len(q) : q[i] \in Nat
  OBVIOUS
<1>2. Total(q) = SumOver(q, DOMAIN q)
  BY DEF Total, FoldSeq, FoldFunction, FoldFunctionOnSet, SumOver, MapThenSumSet,
         MapThenFoldSet
<1>3. Weights(q, 1 .. Len(q)) /\ IsFiniteSet(1 .. Len(q))
  BY <1>1, FS_Interval DEF Weights
<1>4. SumOver(q, 1 .. Len(q)) \in Nat
  BY <1>3, SumOverSame
<1> QED
  BY <1>1, <1>2, <1>3, <1>4

(* The sum of the first i elements of a sequence.                          *)
Prefix(q, i) == SumOver(q, 1 .. i)

LEMMA PrefixType ==
  ASSUME NEW q \in Seq(Nat), NEW i \in 0 .. Len(q)
  PROVE  Prefix(q, i) \in Nat /\ Weights(q, 1 .. i) /\ IsFiniteSet(1 .. i)
<1>1. Len(q) \in Nat /\ \A j \in 1 .. i : q[j] \in Nat
  OBVIOUS
<1>2. Weights(q, 1 .. i) /\ IsFiniteSet(1 .. i)
  BY <1>1, FS_Interval DEF Weights
<1> QED
  BY <1>2, SumOverSame DEF Prefix

LEMMA TotalOfPrefix ==
  ASSUME NEW q \in Seq(Nat), NEW i \in 0 .. Len(q)
  PROVE  Total(SubSeq(q, 1, i)) = Prefix(q, i)
<1> DEFINE r == SubSeq(q, 1, i)
<1>1. r \in Seq(Nat) /\ Len(r) = i /\ \A j \in 1 .. i : r[j] = q[j]
  BY SubSeqProperties
<1> HIDE DEF r
<1>2. Total(r) = SumOver(r, 1 .. i) /\ Weights(r, 1 .. i) /\ IsFiniteSet(1 .. i)
  BY <1>1, TotalIs
<1>3. SumOver(r, 1 .. i) = SumOver(q, 1 .. i)
  BY <1>1, <1>2, SumOverSame
<1> QED
  BY <1>2, <1>3 DEF r, Prefix

LEMMA PrefixStep ==
  ASSUME NEW q \in Seq(Nat), NEW i \in 1 .. Len(q)
  PROVE  Prefix(q, i) = Prefix(q, i - 1) + q[i] /\ Prefix(q, i - 1) \in Nat /\ q[i] \in Nat
<1>1. i - 1 \in 0 .. Len(q) /\ i \in 0 .. Len(q) /\ q[i] \in Nat
  OBVIOUS
<1>2. /\ Prefix(q, i - 1) \in Nat /\ IsFiniteSet(1 .. (i - 1))
      /\ Weights(q, 1 .. i)
  BY <1>1, PrefixType
<1>3. i \notin 1 .. (i - 1) /\ 1 .. i = (1 .. (i - 1)) \cup {i}
  OBVIOUS
<1>4. SumOver(q, (1 .. (i - 1)) \cup {i}) = q[i] + SumOver(q, 1 .. (i - 1))
  <2> DEFINE S == 1 .. (i - 1)
  <2>1. IsFiniteSet(S) /\ i \notin S /\ Weights(q, S \cup {i})
    BY <1>2, <1>3
  <2> HIDE DEF S
  <2>2. SumOver(q, S \cup {i}) = q[i] + SumOver(q, S)
    BY <2>1, SumOverAdd
  <2> QED
    BY <2>2 DEF S
<1>5. Prefix(q, i) = q[i] + Prefix(q, i - 1)
  BY <1>3, <1>4 DEF Prefix
<1> QED
  BY <1>1, <1>2, <1>5

LEMMA PrefixGrows ==
  ASSUME NEW q \in Seq(Nat), NEW j \in 0 .. Len(q), NEW i \in 0 .. j
  PROVE  Prefix(q, i) <= Prefix(q, j)
<1>1. i \in 0 .. Len(q) /\ (1 .. i) \cup ((i + 1) .. j) = 1 .. j
      /\ (1 .. i) \cap ((i + 1) .. j) = {} /\ i \in Nat /\ j \in Nat
  OBVIOUS
<1> DEFINE A == 1 .. i  B == (i + 1) .. j
<1>2. Weights(q, 1 .. j) /\ Prefix(q, i) \in Nat /\ Prefix(q, j) \in Nat
  BY <1>1, PrefixType
<1>3. IsFiniteSet(A) /\ IsFiniteSet(B) /\ Weights(q, A \cup B)
      /\ A \cup B = 1 .. j /\ A \cap B = {}
  <2>1. IsFiniteSet(A) /\ IsFiniteSet(B)
    BY <1>1, FS_Interval
  <2>2. A \cup B = 1 .. j /\ A \cap B = {}
    BY <1>1
  <2> QED
    BY <1>2, <2>1, <2>2
<1> HIDE DEF A, B
<1>4. SumOver(q, A \cup B) = SumOver(q, A) + SumOver(q, B) /\ SumOver(q, B) \in Nat
  BY <1>3, SumOverUnion
<1>5. SumOver(q, A) = Prefix(q, i) /\ SumOver(q, A \cup B) = Prefix(q, j)
  BY <1>3 DEF A, Prefix
<1> QED
  BY <1>2, <1>4, <1>5

(* The bytes of the documents in a buffer.                                 *)
LensOf(b) == [i \in 1 .. Len(b) |-> b[i].len]

Bytes(b) == Total(LensOf(b))

LEMMA DocParts ==
  ASSUME NEW d \in Docs
  PROVE  /\ d.id \in 1 .. MaxDocs /\ d.pos \in Blocks /\ d.len \in Lengths
         /\ d.phase \in BOOLEAN /\ d.sync \in Nat /\ d.ser \in Nat
         /\ d.pos \in Nat /\ d.len \in Nat /\ d.len >= 1 /\ d.pos + d.len <= End
         /\ IsDoc(d)
<1>1. /\ d.id \in 1 .. MaxDocs /\ d.pos \in Blocks /\ d.len \in Lengths
      /\ d.phase \in BOOLEAN /\ d.sync \in Nat /\ d.ser \in Nat /\ d.pos + d.len <= End
  BY DEF Docs
<1>2. d.pos \in Nat /\ d.pos >= Start /\ d.len \in Nat /\ d.len >= 1
  BY <1>1 DEF Blocks, Lengths
<1>3. BlocksOf(d) \subseteq Blocks
  <2> DEFINE p == d.pos  l == d.len
  <2>1. p \in Nat /\ p >= Start /\ l \in Nat /\ p + l <= End
    BY <1>1, <1>2
  <2> HIDE DEF p, l
  <2>2. p .. p + l - 1 \subseteq Start .. End - 1
    BY <2>1
  <2> QED
    BY <2>2 DEF p, l, BlocksOf, Blocks
<1> QED
  BY <1>1, <1>2, <1>3 DEF IsDoc

LEMMA LensType ==
  ASSUME NEW b \in Seq(Docs)
  PROVE  LensOf(b) \in Seq(Nat) /\ Len(LensOf(b)) = Len(b) /\ Bytes(b) \in Nat
<1>1. Len(b) \in Nat /\ \A i \in 1 .. Len(b) : b[i] \in Docs
  OBVIOUS
<1>2. \A i \in 1 .. Len(b) : b[i].len \in Nat
  BY <1>1, DocParts
<1>3. LensOf(b) \in Seq(Nat) /\ Len(LensOf(b)) = Len(b)
  <2>1. LensOf(b) \in [1 .. Len(b) -> Nat]
    BY <1>2 DEF LensOf
  <2> QED
    BY <1>1, <2>1, FunctionIsSeq
<1> QED
  BY <1>3, TotalIs DEF Bytes

(* BufLen counts them.                                                     *)
LEMMA BufLenIs ==
  ASSUME NEW m, m.buf \in Seq(Docs)
  PROVE  BufLen(m) = Bytes(m.buf) /\ BufLen(m) \in Nat
<1> DEFINE b == m.buf
           w == LensOf(b)
           S == 1 .. Len(b)
           R(f) == [s \in SUBSET S |-> IF s = {} THEN 0 ELSE b[Pick(s)].len + f[s \ {Pick(s)}]]
           g == CHOOSE f : f = R(f)
<1>1. DOMAIN b = S
  OBVIOUS
<1>2. BufLen(m) = g[S]
  <2>1. BufLen(m) = (CHOOSE f : f = [s \in SUBSET DOMAIN b |->
                        IF s = {} THEN 0 ELSE b[Pick(s)].len + f[s \ {Pick(s)}]])[DOMAIN b]
    BY DEF BufLen, FoldSeq, FoldFunction, FoldFunctionOnSet, MapThenFoldSet, Pick
  <2> QED
    BY <1>1, <2>1
<1>3. w \in Seq(Nat) /\ Len(w) = Len(b) /\ Bytes(b) \in Nat
  BY LensType
<1>4. Bytes(b) = SumOver(w, S) /\ Weights(w, S) /\ IsFiniteSet(S)
  BY <1>3, TotalIs DEF Bytes
<1>5. \A i \in S : w[i] = b[i].len
  BY DEF LensOf
<1> HIDE DEF b, w, S
<1>6. ASSUME NEW f PROVE IsSum(f, w, S) <=> f = R(f)
  <2>1. \A s \in SUBSET S : s # {} => w[Pick(s)] = b[Pick(s)].len
    BY <1>5, PickIn
  <2> QED
    BY <2>1 DEF IsSum
<1>7. IsSum(g, w, S)
  <2>1. \E f : f = R(f)
    BY <1>4, <1>6, SumExists
  <2>2. g = R(g)
    BY <2>1
  <2> QED
    BY <1>6, <2>2
<1> HIDE DEF g
<1>8. PICK h \in [SUBSET S -> Nat] : IsSum(h, w, S) /\ SumOver(w, S) = h[S]
  BY <1>4, SumOverIsSum
<1>9. g[S] = h[S]
  BY <1>4, <1>7, <1>8, SumUnique
<1> QED
  BY <1>2, <1>3, <1>4, <1>8, <1>9 DEF b

LEMMA BytesOfNone == Bytes(<<>>) = 0
<1>0. <<>> \in Seq(Docs) /\ Len(<<>>) = 0
  OBVIOUS
<1>1. LensOf(<<>>) \in Seq(Nat) /\ Len(LensOf(<<>>)) = 0
  BY <1>0, LensType
<1>2. Total(LensOf(<<>>)) = SumOver(LensOf(<<>>), 1 .. 0)
  BY <1>1, TotalIs
<1>3. 1 .. 0 = {}
  OBVIOUS
<1> QED
  BY <1>2, <1>3, SumOverEmpty DEF Bytes

(* Lengths add up when documents are appended.                             *)
LEMMA BytesConcat ==
  ASSUME NEW b \in Seq(Docs), NEW c \in Seq(Docs)
  PROVE  b \o c \in Seq(Docs) /\ Bytes(b \o c) = Bytes(b) + Bytes(c)
<1> DEFINE s == b \o c
           B == Len(b)
           C == Len(c)
           w == LensOf(s)
           S == 1 .. B
           T == (B + 1) .. (B + C)
<1>1. s \in Seq(Docs) /\ Len(s) = B + C /\ B \in Nat /\ C \in Nat
      /\ (\A i \in 1 .. B : s[i] = b[i]) /\ (\A i \in 1 .. C : s[B + i] = c[i])
  BY ConcatProperties
<1>2. /\ w \in Seq(Nat) /\ Len(w) = B + C
      /\ LensOf(b) \in Seq(Nat) /\ Len(LensOf(b)) = B
      /\ LensOf(c) \in Seq(Nat) /\ Len(LensOf(c)) = C
  BY <1>1, LensType
<1>3. /\ \A i \in 1 .. B : w[i] = LensOf(b)[i]
      /\ \A i \in 1 .. C : w[B + i] = LensOf(c)[i]
  <2>1. \A i \in 1 .. (B + C) : w[i] = s[i].len
    BY <1>1 DEF LensOf
  <2>2. \A i \in 1 .. B : i \in 1 .. (B + C)
    BY <1>1
  <2>3. \A i \in 1 .. C : B + i \in 1 .. (B + C)
    BY <1>1
  <2>4. /\ \A i \in 1 .. B : LensOf(b)[i] = b[i].len
        /\ \A i \in 1 .. C : LensOf(c)[i] = c[i].len
    BY DEF LensOf
  <2> HIDE DEF w, s, B, C
  <2> QED
    BY <1>1, <2>1, <2>2, <2>3, <2>4
<1> HIDE DEF s, B, C, w
<1>4. /\ Total(w) = SumOver(w, 1 .. (B + C)) /\ Weights(w, 1 .. (B + C))
      /\ Bytes(b) = SumOver(LensOf(b), 1 .. B) /\ Weights(LensOf(b), 1 .. B)
      /\ Bytes(c) = SumOver(LensOf(c), 1 .. C) /\ Weights(LensOf(c), 1 .. C)
      /\ Bytes(b) \in Nat /\ Bytes(c) \in Nat
  BY <1>2, TotalIs DEF Bytes
<1>5. 1 .. (B + C) = S \cup T /\ S \cap T = {}
  BY <1>1
<1>6. IsFiniteSet(S) /\ IsFiniteSet(T) /\ IsFiniteSet(1 .. C)
  <2>1. 1 \in Int /\ B \in Int /\ C \in Int /\ B + 1 \in Int /\ B + C \in Int
    BY <1>1
  <2> QED
    BY <2>1, FS_Interval
<1>7. SumOver(w, S \cup T) = SumOver(w, S) + SumOver(w, T)
  <2>1. Weights(w, S \cup T)
    BY <1>4, <1>5
  <2> HIDE DEF S, T
  <2> QED
    BY <1>5, <1>6, <2>1, SumOverUnion
<1>8. SumOver(w, S) = Bytes(b)
  BY <1>3, <1>4, <1>6, SumOverSame
<1>9. SumOver(w, T) = Bytes(c)
  <2> DEFINE f == [i \in 1 .. C |-> B + i]
             v == LensOf(c)
             U == 1 .. C
  <2>1. \A i \in U : f[i] = B + i /\ i \in Int
    OBVIOUS
  <2>2. T = {f[i] : i \in U}
    <3>1. \A i \in U : f[i] \in T
      BY <1>1
    <3>2. ASSUME NEW t \in T PROVE t - B \in U /\ f[t - B] = t
      BY <1>1
    <3> HIDE DEF T, U, f
    <3> QED
      BY <3>1, <3>2
  <2>3. \A x, y \in U : f[x] = f[y] => x = y
    BY <1>1
  <2>4. Naming(f, U, T)
    <3> HIDE DEF T, U, f
    <3> QED
      BY <2>2, <2>3 DEF Naming
  <2>5. \A i \in U : w[f[i]] = v[i]
    BY <1>3
  <2>6. IsFiniteSet(U) /\ Weights(v, U) /\ Bytes(c) = SumOver(v, U)
    BY <1>4, <1>6
  <2> HIDE DEF T, U, f, v
  <2> QED
    BY <2>4, <2>5, <2>6, SumOverRenamed
<1> QED
  BY <1>1, <1>4, <1>5, <1>7, <1>8, <1>9 DEF s, w, Bytes

-----------------------------------------------------------------------------
(* The volume's operators.                                                 *)

(* The documents that move into the buffer.                                *)
Moves(m) == CHOOSE k \in Fits(m) : \A j \in Fits(m) : j <= k

At(m, i) == m.hdr.writePos + BufLen(m) + Total(SubSeq(m.queue, 1, i - 1))

Moved(m) ==
  [i \in 1 .. Moves(m) |-> [id |-> m.made + i, pos |-> At(m, i), len |-> m.queue[i],
                            phase |-> m.hdr.phase, sync |-> m.hdr.sync, ser |-> m.hdr.ser]]

LEMMA BufferedDocs ==
  ASSUME NEW b \in Seq(Docs)
  PROVE  ToSet(b) \in SUBSET Docs
BY DEF ToSet

LEMMA CopiedUnfolded ==
  ASSUME NEW m
  PROVE  Copied(m) = [m EXCEPT !.queue = SubSeq(@, Moves(m) + 1, Len(@)),
                               !.buf = @ \o Moved(m), !.pend = @ \cup ToSet(Moved(m)),
                               !.made = @ + Moves(m)]
BY DEF Copied, Moves, Moved, At

LEMMA VolumeParts ==
  ASSUME NEW m, VolOK(m)
  PROVE  /\ m.hdr \in Header /\ m.dir \in SUBSET Docs /\ m.queue \in Seq(Lengths)
         /\ m.buf \in Seq(Docs) /\ m.io \in BOOLEAN /\ m.pend \in SUBSET Docs
         /\ m.waiting \in BOOLEAN /\ m.made \in 0 .. MaxDocs
         /\ BufLen(m) = Bytes(m.buf) /\ BufLen(m) \in Nat
         /\ BufLen(m) <= AggSize /\ m.hdr.writePos + BufLen(m) <= End
         /\ m.made + Len(m.queue) <= MaxDocs
         /\ m.queue \in Seq(Nat) /\ Len(m.queue) \in Nat
<1>1. /\ m.hdr \in Header /\ m.dir \in SUBSET Docs /\ m.queue \in Seq(Lengths)
      /\ m.buf \in Seq(Docs) /\ m.io \in BOOLEAN /\ m.pend \in SUBSET Docs
      /\ m.waiting \in BOOLEAN /\ m.made \in 0 .. MaxDocs
  BY DEF VolOK, Volumes
<1>2. BufLen(m) = Bytes(m.buf) /\ BufLen(m) \in Nat
  BY <1>1, BufLenIs
<1>3. /\ BufLen(m) <= AggSize /\ m.hdr.writePos + BufLen(m) <= End
      /\ m.made + Len(m.queue) <= MaxDocs
  BY DEF VolOK, Room
<1>4. Lengths \subseteq Nat
  BY DEF Lengths
<1>5. m.queue \in Seq(Nat) /\ Len(m.queue) \in Nat
  <2> DEFINE q == m.queue
  <2>1. q \in Seq(Lengths)
    BY <1>1
  <2> HIDE DEF q
  <2>2. Len(q) \in Nat /\ q = [i \in 1 .. Len(q) |-> q[i]]
    BY <2>1
  <2>3. \A i \in 1 .. Len(q) : q[i] \in Lengths
    BY <2>1
  <2>4. q \in [1 .. Len(q) -> Nat]
    BY <1>4, <2>2, <2>3
  <2>5. q \in Seq(Nat)
    BY <2>2, <2>4, FunctionIsSeq
  <2> QED
    BY <2>2, <2>5 DEF q
<1> QED
  BY <1>1, <1>2, <1>3, <1>5

LEMMA HeaderParts ==
  ASSUME NEW h \in Header
  PROVE  /\ h.writePos \in Start .. End /\ h.lastWritePos \in Start .. End
         /\ h.aggPos \in Start .. End /\ h.phase \in BOOLEAN /\ h.sync \in Nat
         /\ h.ser \in Nat /\ h.dirty \in BOOLEAN /\ h.writePos \in Nat
         /\ Start <= h.writePos /\ h.writePos <= End
<1>1. /\ h.writePos \in Start .. End /\ h.lastWritePos \in Start .. End
      /\ h.aggPos \in Start .. End /\ h.phase \in BOOLEAN /\ h.sync \in Nat
      /\ h.ser \in Nat /\ h.dirty \in BOOLEAN
  BY DEF Header
<1> QED
  BY <1>1

LEMMA WriteEnds ==
  ASSUME NEW m, VolOK(m)
  PROVE  /\ m.hdr.writePos \in Start .. End /\ m.hdr.writePos + BufLen(m) \in Start .. End
         /\ m.hdr.ser + 1 \in Nat
<1> DEFINE w == m.hdr.writePos
           b == BufLen(m)
<1>1. w \in Start .. End /\ b \in Nat /\ w + b <= End /\ m.hdr.ser \in Nat
  BY VolumeParts, HeaderParts
<1> HIDE DEF w, b
<1>2. w \in Start .. End /\ w + b \in Start .. End /\ m.hdr.ser + 1 \in Nat
  BY <1>1
<1> QED
  BY <1>2 DEF w, b

(* A document that is queued is moved if it fits, and no more of them than *)
(* fit.                                                                    *)
LEMMA MovesIs ==
  ASSUME NEW m, VolOK(m)
  PROVE  /\ Moves(m) \in 0 .. Len(m.queue)
         /\ BufLen(m) + Prefix(m.queue, Moves(m)) <= AggSize
         /\ m.hdr.writePos + BufLen(m) + Prefix(m.queue, Moves(m)) <= End
         /\ m.queue # <<>> /\ m.buf = <<>> /\ m.hdr.writePos + AggSize <= End => Moves(m) >= 1
<1> DEFINE q == m.queue
           L == Len(q)
           b == BufLen(m)
           p == m.hdr.writePos
           F == Fits(m)
<1>1. /\ q \in Seq(Nat) /\ q \in Seq(Lengths) /\ L \in Nat /\ b \in Nat
      /\ b <= AggSize /\ p + b <= End /\ b = Bytes(m.buf)
  BY VolumeParts
<1>2. p \in Nat
  BY VolumeParts, HeaderParts
<1>3. \A n \in 0 .. L : Total(SubSeq(q, 1, n)) = Prefix(q, n) /\ Prefix(q, n) \in Nat
  BY <1>1, TotalOfPrefix, PrefixType
<1>4. F = {n \in 0 .. L : b + Prefix(q, n) <= AggSize /\ p + (b + Prefix(q, n)) <= End}
  BY <1>3 DEF Fits
<1>5. Prefix(q, 0) = 0
  <2>1. 1 .. 0 = {}
    OBVIOUS
  <2> QED
    BY <2>1, SumOverEmpty DEF Prefix
<1>6. 0 \in F
  BY <1>1, <1>2, <1>4, <1>5
<1> HIDE DEF F
<1>7. \E k \in F : \A j \in F : j <= k
  <2> DEFINE T == {L - n : n \in F}
  <2>1. F \subseteq 0 .. L
    BY <1>4
  <2>2. \A n \in F : L - n \in Nat /\ n \in Nat
    BY <1>1, <2>1
  <2>3. T \in SUBSET Nat /\ T # {}
    BY <1>6, <2>2
  <2> HIDE DEF T
  <2>4. PICK x \in T : \A y \in T : x <= y
    BY <2>3, LeastNatural
  <2>5. PICK k \in F : x = L - k
    BY <2>4 DEF T
  <2>6. ASSUME NEW j \in F PROVE j <= k
    <3>1. L - j \in T
      BY DEF T
    <3>2. L - k <= L - j
      BY <2>4, <2>5, <3>1
    <3> QED
      BY <1>1, <2>2, <3>2
  <2> QED
    BY <2>6
<1>8. Moves(m) \in F /\ \A j \in F : j <= Moves(m)
  BY <1>7 DEF Moves, F
<1>9. ASSUME q # <<>>, m.buf = <<>>, p + AggSize <= End PROVE Moves(m) >= 1
  <2>1. L >= 1 /\ 1 \in 1 .. L /\ q[1] \in Lengths
    BY <1>1, <1>9
  <2>2. Prefix(q, 1) = Prefix(q, 1 - 1) + q[1]
    BY <1>1, <2>1, PrefixStep
  <2>3. Prefix(q, 1) = q[1] /\ q[1] \in Nat /\ q[1] <= AggSize
    BY <1>5, <2>1, <2>2 DEF Lengths
  <2>4. b = 0
    BY <1>1, <1>9, BytesOfNone
  <2>5. 1 \in F
    <3>1. p + (b + Prefix(q, 1)) <= End /\ b + Prefix(q, 1) <= AggSize
      BY <1>2, <1>9, <2>3, <2>4
    <3> QED
      BY <1>4, <2>1, <3>1
  <2> QED
    BY <1>8, <2>5
<1>10. /\ Moves(m) \in 0 .. L /\ b + Prefix(q, Moves(m)) <= AggSize
       /\ p + (b + Prefix(q, Moves(m))) <= End
  BY <1>4, <1>8
<1>11. p + b + Prefix(q, Moves(m)) <= End
  <2> DEFINE x == Prefix(q, Moves(m))
  <2>1. x \in Nat /\ b \in Nat /\ p \in Nat /\ p + (b + x) <= End
    BY <1>1, <1>2, <1>3, <1>10
  <2> HIDE DEF x, b, p
  <2>2. p + b + x <= End
    BY <2>1
  <2> QED
    BY <2>2 DEF x
<1> QED
  BY <1>9, <1>10, <1>11

(* They are documents inside the volume, as long as what was queued.       *)
LEMMA MovedOK ==
  ASSUME NEW m, VolOK(m)
  PROVE  /\ Moved(m) \in Seq(Docs) /\ Len(Moved(m)) = Moves(m)
         /\ Bytes(Moved(m)) = Prefix(m.queue, Moves(m))
<1> DEFINE q == m.queue
           L == Len(q)
           n == Moves(m)
           b == BufLen(m)
           p == m.hdr.writePos
           new == Moved(m)
<1>1. /\ q \in Seq(Nat) /\ q \in Seq(Lengths) /\ L \in Nat /\ b \in Nat
      /\ m.hdr \in Header /\ m.made \in 0 .. MaxDocs /\ m.made + L <= MaxDocs
  BY VolumeParts
<1>2. p \in Nat /\ Start <= p /\ m.hdr.phase \in BOOLEAN /\ m.hdr.sync \in Nat /\ m.hdr.ser \in Nat
  BY <1>1, HeaderParts
<1>3. n \in 0 .. L /\ p + b + Prefix(q, n) <= End
  BY MovesIs
<1> HIDE DEF n, b, p
<1>4. ASSUME NEW i \in 1 .. n
      PROVE  /\ new[i] \in Docs /\ new[i].len = q[i]
  <2>1. i \in 1 .. L /\ i - 1 \in 0 .. L /\ i \in 0 .. n
    BY <1>1, <1>3
  <2>2. /\ Prefix(q, i) = Prefix(q, i - 1) + q[i]
        /\ Prefix(q, i - 1) \in Nat /\ q[i] \in Nat
    BY <1>1, <2>1, PrefixStep
  <2>3. Prefix(q, i) <= Prefix(q, n) /\ Prefix(q, n) \in Nat
    BY <1>1, <1>3, <2>1, PrefixGrows, PrefixType
  <2>4. At(m, i) = p + b + Prefix(q, i - 1)
    BY <1>1, <2>1, TotalOfPrefix DEF At, p, b
  <2> DEFINE a == At(m, i)  l == q[i]
  <2>5. l \in Lengths /\ l >= 1 /\ l \in Nat
    BY <1>1, <2>1, SMTT(20) DEF Lengths
  <2> HIDE DEF a, l
  <2>6. a \in Nat /\ Start <= a /\ a + l <= End
    <3> DEFINE x == Prefix(q, i - 1)  y == Prefix(q, i)  z == Prefix(q, n)
    <3>1. /\ a = p + b + x /\ y = x + l /\ y <= z /\ x \in Nat /\ z \in Nat
          /\ p + b + z <= End /\ p \in Nat /\ b \in Nat /\ Start <= p
      BY <1>1, <1>2, <1>3, <2>2, <2>3, <2>4 DEF a, l
    <3> HIDE DEF x, y, z
    <3> QED
      BY <2>5, <3>1
  <2>7. a \in Blocks
    BY <2>5, <2>6 DEF Blocks
  <2>8. m.made + i \in 1 .. MaxDocs
    BY <1>1, <2>1
  <2>9. new[i] = [id |-> m.made + i, pos |-> a, len |-> l, phase |-> m.hdr.phase,
                  sync |-> m.hdr.sync, ser |-> m.hdr.ser]
    BY DEF Moved, a, l, n
  <2> HIDE DEF new
  <2> QED
    BY <1>2, <2>5, <2>6, <2>7, <2>8, <2>9 DEF Docs, l
<1>5. n \in Nat /\ new = [i \in 1 .. n |-> new[i]]
  BY <1>3 DEF Moved, n
<1> HIDE DEF new
<1>6. new \in Seq(Docs) /\ Len(new) = n
  <2>1. \A i \in 1 .. n : new[i] \in Docs
    BY <1>4
  <2> QED
    BY <1>5, <2>1, FunctionIsSeq
<1>7. Bytes(new) = Prefix(q, n)
  <2> DEFINE w == LensOf(new)
  <2>1. w \in Seq(Nat) /\ Len(w) = n
    BY <1>6, LensType
  <2>2. Total(w) = SumOver(w, 1 .. n) /\ Weights(w, 1 .. n) /\ IsFiniteSet(1 .. n)
    BY <2>1, TotalIs
  <2>3. \A i \in 1 .. n : w[i] = q[i]
    BY <1>4, <1>6 DEF LensOf
  <2> HIDE DEF w
  <2>4. SumOver(w, 1 .. n) = SumOver(q, 1 .. n)
    BY <2>2, <2>3, SumOverSame
  <2> QED
    BY <2>2, <2>4 DEF w, Bytes, Prefix
<1> QED
  BY <1>6, <1>7 DEF new, n

(* agg_copy keeps the volume in order, and empties the queue or not.       *)
LEMMA CopiedOK ==
  ASSUME NEW m, VolOK(m)
  PROVE  LET c == Copied(m) IN
           /\ VolOK(c) /\ c.hdr = m.hdr /\ c.io = m.io /\ c.waiting = m.waiting
           /\ m.buf # <<>> => c.buf # <<>>
           /\ m.queue # <<>> /\ m.buf = <<>> /\ m.hdr.writePos + AggSize <= End => c.buf # <<>>
           /\ c.queue # <<>> => m.queue # <<>>
<1> DEFINE c == Copied(m)
           n == Moves(m)
           new == Moved(m)
           q == m.queue
<1>1. m \in Volumes
  BY DEF VolOK
<1>2. /\ m.hdr \in Header /\ m.buf \in Seq(Docs) /\ m.pend \in SUBSET Docs
      /\ q \in Seq(Lengths) /\ m.made \in 0 .. MaxDocs /\ Len(q) \in Nat
      /\ m.made + Len(q) <= MaxDocs /\ BufLen(m) = Bytes(m.buf) /\ BufLen(m) \in Nat
      /\ q \in Seq(Nat)
  BY VolumeParts
<1>3. /\ n \in 0 .. Len(q)
      /\ BufLen(m) + Prefix(q, n) <= AggSize
      /\ m.hdr.writePos + BufLen(m) + Prefix(q, n) <= End
      /\ q # <<>> /\ m.buf = <<>> /\ m.hdr.writePos + AggSize <= End => n >= 1
  BY MovesIs
<1>4. new \in Seq(Docs) /\ Len(new) = n /\ Bytes(new) = Prefix(q, n)
  BY MovedOK
<1>5. c = [m EXCEPT !.queue = SubSeq(q, n + 1, Len(q)), !.buf = m.buf \o new,
                    !.pend = m.pend \cup ToSet(new), !.made = m.made + n]
  BY CopiedUnfolded
<1> HIDE DEF c, n, new
<1>6. /\ c.hdr = m.hdr /\ c.dir = m.dir /\ c.io = m.io /\ c.waiting = m.waiting
      /\ c.queue = SubSeq(q, n + 1, Len(q)) /\ c.buf = m.buf \o new
      /\ c.pend = m.pend \cup ToSet(new) /\ c.made = m.made + n
  BY <1>1, <1>5 DEF Volumes
<1>7. /\ m.buf \o new \in Seq(Docs) /\ Bytes(m.buf \o new) = Bytes(m.buf) + Bytes(new)
      /\ m.pend \cup ToSet(new) \in SUBSET Docs
  BY <1>2, <1>4, BytesConcat, BufferedDocs
<1>8. SubSeq(q, n + 1, Len(q)) \in Seq(Lengths) /\ Len(SubSeq(q, n + 1, Len(q))) = Len(q) - n
  BY <1>2, <1>3, SubSeqProperties
<1>9. c \in Volumes
  <2>1. m.made + n \in 0 .. MaxDocs
    BY <1>2, <1>3, SMTT(20)
  <2> QED
    BY <1>1, <1>5, <1>7, <1>8, <2>1 DEF Volumes
<1>10. Room(c)
  <2>1. BufLen(c) = Bytes(m.buf) + Bytes(new)
    BY <1>6, <1>7, BufLenIs
  <2>2. Prefix(q, n) \in Nat /\ m.hdr.writePos \in Nat
    BY <1>2, <1>3, PrefixType, HeaderParts
  <2>3. c.made + Len(c.queue) <= MaxDocs
    BY <1>2, <1>3, <1>6, <1>8, SMTT(20)
  <2>4. BufLen(c) <= AggSize /\ c.hdr.writePos + BufLen(c) <= End
    <3> DEFINE x == BufLen(m)  y == Prefix(q, n)  z == BufLen(c)  w == m.hdr.writePos
    <3>1. z = x + y /\ x + y <= AggSize /\ w + x + y <= End /\ c.hdr.writePos = w
          /\ x \in Nat /\ y \in Nat /\ w \in Nat
      BY <1>2, <1>3, <1>4, <1>6, <2>1, <2>2
    <3> HIDE DEF x, y, z, w
    <3>2. z <= AggSize /\ c.hdr.writePos + z <= End
      BY <3>1
    <3> QED
      BY <3>2 DEF z
  <2> QED
    BY <2>3, <2>4 DEF Room
<1>11. Len(c.buf) = Len(m.buf) + n
  <2>1. m.buf \in Seq(Docs) /\ new \in Seq(Docs) /\ Len(new) = n /\ c.buf = m.buf \o new
    BY <1>2, <1>4, <1>6
  <2> HIDE DEF new, c
  <2>2. Len(m.buf \o new) = Len(m.buf) + Len(new)
    BY <2>1, ConcatProperties
  <2> QED
    BY <2>1, <2>2
<1>12. m.buf # <<>> => c.buf # <<>>
  <2> SUFFICES ASSUME m.buf # <<>> PROVE c.buf # <<>>
    OBVIOUS
  <2>1. Len(m.buf) \in Nat /\ Len(m.buf) > 0
    BY <1>2
  <2>2. Len(c.buf) > 0
    BY <1>2, <1>3, <1>11, <2>1
  <2> QED
    BY <2>2
<1>13. q # <<>> /\ m.buf = <<>> /\ m.hdr.writePos + AggSize <= End => c.buf # <<>>
  <2> SUFFICES ASSUME q # <<>>, m.buf = <<>>, m.hdr.writePos + AggSize <= End PROVE c.buf # <<>>
    OBVIOUS
  <2>1. Len(c.buf) > 0
    BY <1>2, <1>3, <1>11
  <2> QED
    BY <2>1
<1>14. c.queue # <<>> => q # <<>>
  <2> SUFFICES ASSUME q = <<>> PROVE c.queue = <<>>
    OBVIOUS
  <2>1. Len(c.queue) = 0
    BY <1>2, <1>3, <1>6, <1>8
  <2> QED
    BY <1>6, <1>8, <2>1
<1> QED
  BY <1>6, <1>9, <1>10, <1>12, <1>13, <1>14 DEF VolOK, c

(* The header of a volume changes to another one.                          *)
LEMMA HeaderOK ==
  ASSUME NEW m, VolOK(m), NEW h \in Header, NEW d \in SUBSET Docs,
         h.writePos + BufLen(m) <= End
  PROVE  VolOK([m EXCEPT !.hdr = h, !.dir = d])
<1> DEFINE c == [m EXCEPT !.hdr = h, !.dir = d]
<1>1. m \in Volumes /\ Room(m)
  BY DEF VolOK
<1>2. c \in Volumes /\ c.buf = m.buf /\ c.hdr = h /\ c.made = m.made /\ c.queue = m.queue
  BY <1>1 DEF Volumes
<1> HIDE DEF c
<1>3. m.buf \in Seq(Docs)
  BY VolumeParts
<1>4. BufLen(c) = BufLen(m)
  BY <1>2, <1>3, BufLenIs
<1>5. Room(c)
  BY <1>1, <1>2, <1>4 DEF Room
<1> QED
  BY <1>2, <1>5 DEF VolOK, c

(* agg_wrap is called with an empty buffer.                                *)
LEMMA WrappedOK ==
  ASSUME NEW m, VolOK(m), m.buf = <<>>
  PROVE  LET c == Wrapped(m) IN
           /\ VolOK(c) /\ c.io = m.io /\ c.waiting = m.waiting /\ c.queue = m.queue
           /\ c.buf = <<>> /\ c.hdr.writePos = Start /\ c.hdr.sync = m.hdr.sync
<1> DEFINE h == [m.hdr EXCEPT !.writePos = Start, !.aggPos = Start, !.phase = ~@, !.dirty = TRUE]
           d == {e \in m.dir : Valid(e, h, 0)}
           c == [m EXCEPT !.hdr = h, !.dir = d]
<1>1. Wrapped(m) = c
  BY DEF Wrapped
<1>2. m \in Volumes /\ m.hdr \in Header /\ m.dir \in SUBSET Docs
  BY VolumeParts DEF VolOK
<1>3. Start \in Start .. End
  BY DEF EvacSize
<1>4. h \in Header /\ h.writePos = Start /\ h.sync = m.hdr.sync
  BY <1>2, <1>3 DEF Header
<1>5. d \in SUBSET Docs
  BY <1>2
<1> HIDE DEF h, d
<1>6. BufLen(m) = 0
  BY VolumeParts, BytesOfNone
<1>7. VolOK(c)
  <2>1. h.writePos + BufLen(m) <= End
    BY <1>3, <1>4, <1>6
  <2> QED
    BY <1>4, <1>5, <2>1, HeaderOK
<1>8. c.io = m.io /\ c.waiting = m.waiting /\ c.queue = m.queue /\ c.buf = m.buf /\ c.hdr = h
  BY <1>2 DEF Volumes
<1> QED
  BY <1>1, <1>4, <1>7, <1>8

(* The write of the buffer is started or not; if it is not, no sync waits  *)
(* for it and no document is queued.                                       *)
LEMMA IssuedOK ==
  ASSUME NEW m, VolOK(m), ~m.io, m.waiting \/ m.queue # <<>> => m.buf # <<>>
  PROVE  LET c == Issued(m) IN
           /\ VolOK(c) /\ c.waiting = m.waiting /\ c.hdr.sync = m.hdr.sync
           /\ ~c.io => ~c.waiting /\ c.queue = <<>>
<1> DEFINE c == [m EXCEPT !.hdr.aggPos = m.hdr.writePos + BufLen(m), !.io = TRUE]
<1>1. m \in Volumes /\ Room(m) /\ m.hdr \in Header /\ m.buf \in Seq(Docs) /\ BufLen(m) \in Nat
      /\ m.hdr.writePos + BufLen(m) <= End /\ m.waiting \in BOOLEAN
  BY VolumeParts DEF VolOK
<1>2. CASE m.buf # <<>> /\ (BufLen(m) >= HighWater \/ m.queue # <<>> \/ m.waiting)
  <2>1. Issued(m) = c
    BY <1>2 DEF Issued
  <2>2. m.hdr.writePos + BufLen(m) \in Start .. End
    BY <1>1, HeaderParts
  <2>3. c \in Volumes
    BY <1>1, <2>2 DEF Volumes, Header
  <2>4. /\ c.buf = m.buf /\ c.queue = m.queue /\ c.made = m.made /\ c.io = TRUE
        /\ c.waiting = m.waiting /\ c.hdr.sync = m.hdr.sync
        /\ c.hdr.writePos = m.hdr.writePos
    BY <1>1 DEF Volumes, Header
  <2> HIDE DEF c
  <2>5. BufLen(c) = BufLen(m)
    BY <1>1, <2>4, BufLenIs
  <2>6. Room(c)
    BY <1>1, <2>4, <2>5 DEF Room
  <2> QED
    BY <2>1, <2>3, <2>4, <2>6 DEF VolOK
<1>3. CASE ~(m.buf # <<>> /\ (BufLen(m) >= HighWater \/ m.queue # <<>> \/ m.waiting))
  <2>1. Issued(m) = m
    BY <1>3 DEF Issued
  <2>2. ~m.waiting /\ m.queue = <<>>
    BY <1>3
  <2> QED
    BY <2>1, <2>2
<1> QED
  BY <1>2, <1>3

(* Vol::aggWrite keeps the volume in order and forgets nobody.             *)
LEMMA AggWriteOK ==
  ASSUME NEW m, VolOK(m), ~m.io, m.waiting => m.buf # <<>>
  PROVE  LET c == AggWrite(m) IN
           /\ VolOK(c) /\ c.waiting = m.waiting /\ c.hdr.sync = m.hdr.sync
           /\ ~c.io => ~c.waiting /\ c.queue = <<>>
<1> DEFINE c == Copied(m)
           w == Wrapped(c)
           x == Copied(w)
<1>1. /\ VolOK(c) /\ c.hdr = m.hdr /\ c.io = m.io /\ c.waiting = m.waiting
      /\ m.buf # <<>> => c.buf # <<>>
  BY CopiedOK
<1>2. CASE c.buf = <<>> /\ c.queue # <<>>
  <2>1. /\ VolOK(w) /\ w.io = c.io /\ w.waiting = c.waiting /\ w.queue = c.queue
        /\ w.buf = <<>> /\ w.hdr.writePos = Start /\ w.hdr.sync = c.hdr.sync
    <3> HIDE DEF c
    <3> QED
      BY <1>1, <1>2, WrappedOK
  <2>2. /\ VolOK(x) /\ x.hdr = w.hdr /\ x.io = w.io /\ x.waiting = w.waiting
        /\ x.buf # <<>>
    <3> HIDE DEF w
    <3>1. w.hdr.writePos + AggSize <= End
      BY <2>1 DEF EvacSize
    <3> QED
      BY <1>2, <2>1, <3>1, CopiedOK
  <2>3. AggWrite(m) = Issued(x)
    BY <1>2 DEF AggWrite
  <2> HIDE DEF x, w, c
  <2>4. /\ VolOK(Issued(x)) /\ Issued(x).waiting = x.waiting
        /\ Issued(x).hdr.sync = x.hdr.sync
        /\ ~Issued(x).io => ~Issued(x).waiting /\ Issued(x).queue = <<>>
    BY <1>1, <2>1, <2>2, IssuedOK
  <2> QED
    BY <1>1, <2>1, <2>2, <2>3, <2>4
<1>3. CASE ~(c.buf = <<>> /\ c.queue # <<>>)
  <2>1. AggWrite(m) = Issued(c)
    BY <1>3 DEF AggWrite
  <2> HIDE DEF c
  <2>2. /\ VolOK(Issued(c)) /\ Issued(c).waiting = c.waiting
        /\ Issued(c).hdr.sync = c.hdr.sync
        /\ ~Issued(c).io => ~Issued(c).waiting /\ Issued(c).queue = <<>>
    BY <1>1, <1>3, IssuedOK
  <2> QED
    BY <1>1, <2>1, <2>2
<1> QED
  BY <1>2, <1>3

-----------------------------------------------------------------------------
(* The scan of a recovery.                                                 *)

Serials(h) == {n \in Nat : n >= h.sync}

Cursors(h) ==
  [state : {"check", "scan", "past", "clear", "done"}, base : Int, end : Int, pos : Int,
   at : Int, sync : Int, ser : Int, max : Serials(h), wrapped : BOOLEAN]

LEMMA FoundOK ==
  ASSUME DiskOK, NEW p, NEW d \in Found(p)
  PROVE  d \in Docs
<1>1. p \in Blocks /\ disk[p][1] # NoDoc /\ d = disk[p][1]
  BY DEF Found
<1>2. disk[p] # Blank
  BY <1>1 DEF Blank
<1> QED
  BY <1>1, <1>2 DEF DiskOK

LEMMA NextPartOK ==
  ASSUME NEW h \in Header, NEW c \in Cursors(h), NEW p \in Int
  PROVE  NextPart(c, h, p) \in Cursors(h)
<1>1. h.sync \in Serials(h)
  BY HeaderParts DEF Serials
<1>2. Smaller(p + EvacSize, End) \in Int
  BY DEF Smaller, EvacSize
<1> QED
  BY <1>1, <1>2 DEF NextPart, Cursors

LEMMA TurnOK ==
  ASSUME NEW h \in Header, NEW c \in Cursors(h)
  PROVE  NextPart([c EXCEPT !.wrapped = TRUE], h, Start) \in Cursors(h)
<1>1. [c EXCEPT !.wrapped = TRUE] \in Cursors(h)
  BY DEF Cursors
<1> QED
  BY <1>1, NextPartOK

LEMMA NotSinceOK ==
  ASSUME NEW h \in Header, NEW c \in Cursors(h)
  PROVE  NotSince(c, h) \in Cursors(h)
<1>1. [c EXCEPT !.state = "done"] \in Cursors(h)
  BY DEF Cursors
<1> QED
  BY <1>1, TurnOK DEF NotSince

LEMMA CheckStepOK ==
  ASSUME DiskOK, NEW h \in Header, NEW c \in Cursors(h)
  PROVE  CheckStep(c, h) \in Cursors(h)
<1> DEFINE ds == Found(c.pos)
           d == CHOOSE x \in ds : TRUE
           n == [c EXCEPT !.pos = @ + d.len, !.sync = IF d.sync > c.ser THEN d.sync ELSE @]
<1>1. /\ [c EXCEPT !.state = "clear"] \in Cursors(h)
      /\ [c EXCEPT !.state = "past"] \in Cursors(h)
      /\ [c EXCEPT !.state = "scan"] \in Cursors(h)
  BY DEF Cursors
<1>2. [c EXCEPT !.pos = End - EvacSize, !.state = "done"] \in Cursors(h)
  <2>1. End - EvacSize \in Int
    BY DEF EvacSize
  <2> QED
    BY <2>1 DEF Cursors
<1>3. ASSUME ds # {} PROVE n \in Cursors(h)
  <2>1. d \in ds
    BY <1>3
  <2>2. d.len \in Int /\ d.sync \in Int
    BY <2>1, FoundOK, DocParts
  <2>3. c.pos \in Int /\ c.sync \in Int
    BY DEF Cursors
  <2> HIDE DEF d
  <2>4. c.pos + d.len \in Int /\ (IF d.sync > c.ser THEN d.sync ELSE c.sync) \in Int
    BY <2>2, <2>3
  <2> QED
    BY <2>4 DEF Cursors
<1>4. \/ CheckStep(c, h) = [c EXCEPT !.state = "clear"]
      \/ ds # {} /\ CheckStep(c, h) = n
      \/ CheckStep(c, h) = [c EXCEPT !.state = "past"]
      \/ CheckStep(c, h) = [c EXCEPT !.state = "scan"]
      \/ CheckStep(c, h) = [c EXCEPT !.pos = End - EvacSize, !.state = "done"]
  BY DEF CheckStep
<1> HIDE DEF ds, d, n
<1> QED
  BY <1>1, <1>2, <1>3, <1>4

LEMMA ScanStepOK ==
  ASSUME DiskOK, NEW h \in Header, NEW c \in Cursors(h)
  PROVE  ScanStep(c, h) \in Cursors(h)
<1> DEFINE ds == Found(c.pos)
           d == CHOOSE x \in ds : TRUE
           n == [c EXCEPT !.at = c.pos, !.pos = @ + d.len]
           x == IF d.sync > h.sync THEN d.sync ELSE c.max
<1>1. CASE c.pos >= c.end
  <2>1. ScanStep(c, h) = EndOfPart(c, h)
    BY <1>1 DEF ScanStep
  <2> DEFINE p == IF c.pos > c.end THEN c.at ELSE c.pos
  <2>2. p \in Int
    BY DEF Cursors
  <2> HIDE DEF p
  <2>3. NextPart(c, h, p) \in Cursors(h)
    BY <2>2, NextPartOK
  <2> QED
    BY <2>1, <2>3, TurnOK DEF EndOfPart, p
<1>2. CASE ~(c.pos >= c.end) /\ ds = {}
  BY <1>2, NotSinceOK DEF ScanStep
<1>3. CASE ~(c.pos >= c.end) /\ ds # {}
  <2>1. d \in ds
    BY <1>3
  <2>2. d.len \in Int /\ d.sync \in Nat /\ d.ser \in Int
    BY <2>1, FoundOK, DocParts
  <2>3. c.pos \in Int /\ c.max \in Serials(h)
    BY DEF Cursors
  <2>4. /\ ScanStep(c, h) = IF d.sync = c.sync THEN [n EXCEPT !.ser = d.ser]
                            ELSE IF d.sync > c.sync /\ d.sync <= h.sync + 1
                            THEN [n EXCEPT !.sync = d.sync, !.max = x]
                            ELSE NotSince([c EXCEPT !.max = x], h)
    BY <1>3 DEF ScanStep
  <2> HIDE DEF d, ds
  <2>5. x \in Serials(h)
    BY <2>2, <2>3, HeaderParts DEF Serials
  <2>6. c.pos + d.len \in Int
    BY <2>2, <2>3
  <2>7. n \in Cursors(h)
    BY <2>3, <2>6 DEF Cursors
  <2> HIDE DEF x, n
  <2>8. [n EXCEPT !.ser = d.ser] \in Cursors(h)
    BY <2>2, <2>7 DEF Cursors
  <2>9. [n EXCEPT !.sync = d.sync, !.max = x] \in Cursors(h)
    <3>1. d.sync \in Int
      BY <2>2
    <3> QED
      BY <2>5, <2>7, <3>1 DEF Cursors
  <2>10. [c EXCEPT !.max = x] \in Cursors(h)
    BY <2>5 DEF Cursors
  <2> QED
    BY <2>4, <2>8, <2>9, <2>10, NotSinceOK
<1> QED
  BY <1>1, <1>2, <1>3

(* The steps of Scanned. *)
Past(h, c) == {[c EXCEPT !.state = "clear"],
               NextPart([c EXCEPT !.wrapped = TRUE, !.base = End], h, Start)}

Step(h, c) == CASE c.state = "check" -> CheckStep(c, h)
                [] c.state = "scan" -> ScanStep(c, h)
                [] OTHER -> c

Steps(h, cs) == UNION {IF c.state = "past" THEN Past(h, c) ELSE {Step(h, c)} : c \in cs}

LEMMA PastOK ==
  ASSUME NEW h \in Header, NEW c \in Cursors(h)
  PROVE  Past(h, c) \subseteq Cursors(h)
<1>1. [c EXCEPT !.state = "clear"] \in Cursors(h)
  BY DEF Cursors
<1>2. [c EXCEPT !.wrapped = TRUE, !.base = End] \in Cursors(h)
  <2>1. End \in Int /\ c \in Cursors(h)
    OBVIOUS
  <2> QED
    BY <2>1 DEF Cursors
<1>3. NextPart([c EXCEPT !.wrapped = TRUE, !.base = End], h, Start) \in Cursors(h)
  BY <1>2, NextPartOK
<1> QED
  BY <1>1, <1>3 DEF Past

LEMMA StepOK ==
  ASSUME DiskOK, NEW h \in Header, NEW c \in Cursors(h)
  PROVE  Step(h, c) \in Cursors(h)
BY CheckStepOK, ScanStepOK DEF Step

(* The serial number that a scan returns is not below that of the copy it  *)
(* began with.                                                             *)
LEMMA ScanStartOK ==
  ASSUME NEW h \in Header
  PROVE  ScanStart(h) \in Cursors(h)
<1>1. h.sync \in Serials(h) /\ h.lastWritePos \in Int
  BY HeaderParts DEF Serials
<1>2. Smaller(h.lastWritePos + EvacSize, End) \in Int
  BY <1>1 DEF Smaller, EvacSize
<1> QED
  BY <1>1, <1>2 DEF ScanStart, Cursors

(* A set of cursors that no step leaves holds what the scan returns.       *)
LEMMA ScannedIn ==
  ASSUME NEW h \in Header, NEW C, ScanStart(h) \in C,
         \A c \in C : IF c.state = "past" THEN Past(h, c) \subseteq C ELSE Step(h, c) \in C
  PROVE  h.lastWritePos > h.writePos \/ Scanned(h) \subseteq C
<1> DEFINE X == SUBSET C
           base == {ScanStart(h)}
           N == Fuel
           R(f) == [i \in 0 .. N |-> IF i = 0 THEN base ELSE Steps(h, f[i - 1])]
           g == CHOOSE f : f = R(f)
<1>1. \A t \in X : Steps(h, t) \in X
  BY DEF Steps
<1>2. N \in Nat
  <2>1. End - Start \in Nat
    BY DEF EvacSize
  <2> QED
    BY <2>1 DEF Fuel
<1>3. h.lastWritePos > h.writePos \/ Scanned(h) = g[N]
  BY DEF Scanned, Run, Steps, Past, Step
<1> HIDE DEF N
<1>4. \E f \in [0 .. N -> X] : f = R(f)
  <2> DEFINE step == [i \in 1 .. N |-> [t \in X |-> Steps(h, t)]]
  <2>1. base \in X
    OBVIOUS
  <2> HIDE DEF X, base
  <2>2. step \in [1 .. N -> [X -> X]]
    BY <1>1
  <2>3. \A i \in 1 .. N : \A t \in X : step[i][t] = Steps(h, t)
    OBVIOUS
  <2> HIDE DEF step
  <2>4. PICK f : Recursion(f, N, X, base, step)
    BY <1>2, <2>1, <2>2, RecursionExists
  <2>5. /\ f \in [0 .. N -> X]
        /\ \A i \in 0 .. N : f[i] = IF i = 0 THEN base ELSE step[i][f[i - 1]]
    BY <2>4 DEF Recursion
  <2>6. \A i \in 0 .. N : i # 0 => i \in 1 .. N /\ f[i - 1] \in X
    BY <1>2, <2>5
  <2>7. f = R(f)
    BY <2>3, <2>5, <2>6
  <2> QED
    BY <2>5, <2>7
<1>5. g = R(g)
  BY <1>4
<1> HIDE DEF g, X, base
<1>6. \A i \in 0 .. N : g[i] = IF i = 0 THEN base ELSE Steps(h, g[i - 1])
  BY <1>5, Zenon
<1> DEFINE B == {i \in Nat : i <= N => g[i] \in X}
<1>7. 0 \in B
  <2>1. g[0] = base
    BY <1>2, <1>6
  <2>2. base \in X
    BY DEF X, base
  <2> QED
    BY <2>1, <2>2
<1>8. ASSUME NEW i \in B PROVE i + 1 \in B
  <2>0. i \in Nat
    OBVIOUS
  <2> SUFFICES ASSUME i + 1 <= N PROVE g[i + 1] \in X
    BY <2>0
  <2>1. g[i] \in X
    BY <1>2, <2>0
  <2>2. i + 1 \in 0 .. N /\ i + 1 # 0 /\ (i + 1) - 1 = i
    BY <1>2, <2>0
  <2>3. g[i + 1] = Steps(h, g[i])
    BY <1>6, <2>2
  <2> QED
    BY <1>1, <2>1, <2>3
<1>9. g[N] \in X
  <2> HIDE DEF B
  <2>1. B \in SUBSET Nat
    BY DEF B
  <2>2. B = Nat
    BY <1>7, <1>8, <2>1, NaturalsByInduction
  <2> QED
    BY <1>2, <2>2 DEF B
<1> QED
  BY <1>3, <1>9 DEF X

LEMMA ScannedOK ==
  ASSUME DiskOK, NEW h \in Header
  PROVE  Scanned(h) \in SUBSET Cursors(h)
<1> DEFINE C == Cursors(h)
<1>1. ScanStart(h) \in C
  BY ScanStartOK
<1>2. \A c \in C : IF c.state = "past" THEN Past(h, c) \subseteq C ELSE Step(h, c) \in C
  BY PastOK, StepOK
<1> HIDE DEF C
<1>3. h.lastWritePos > h.writePos \/ Scanned(h) \subseteq C
  BY <1>1, <1>2, ScannedIn
<1>4. CASE h.lastWritePos > h.writePos
  <2>1. Scanned(h) = {[ScanStart(h) EXCEPT !.state = "clear"]}
    BY <1>4 DEF Scanned
  <2> QED
    BY <1>1, <2>1 DEF Cursors, C
<1> QED
  BY <1>3, <1>4 DEF C

-----------------------------------------------------------------------------
(* The invariant holds initially and after every step.                     *)

LEMMA ClearedOK == ClearedHeader \in Header /\ NoSnapshot \in Images
<1>1. Start \in Start .. End
  BY DEF EvacSize
<1>2. ClearedHeader \in Header
  BY <1>1 DEF ClearedHeader, Header
<1> QED
  BY <1>2 DEF NoSnapshot, Images

(* A volume that starts has an empty buffer.                               *)
LEMMA StartedOK ==
  ASSUME NEW h \in Header, NEW d \in SUBSET Docs, NEW n \in 0 .. MaxDocs
  PROVE  LET m == Started(h, d, n) IN
           /\ VolOK(m) /\ ~m.io /\ ~m.waiting /\ m.queue = <<>> /\ m.buf = <<>>
           /\ m.hdr = h /\ m.dir = d
<1> DEFINE m == Started(h, d, n)
<1>1. m = [hdr |-> h, dir |-> d, queue |-> <<>>, buf |-> <<>>, io |-> FALSE,
           pend |-> {}, waiting |-> FALSE, made |-> n]
  BY DEF Started
<1> HIDE DEF m
<1>2. m \in Volumes
  BY <1>1 DEF Volumes
<1>3. /\ ~m.io /\ ~m.waiting /\ m.queue = <<>> /\ m.buf = <<>>
      /\ m.hdr = h /\ m.dir = d /\ m.made = n
  BY <1>1
<1>4. BufLen(m) = 0
  <2>1. m.buf \in Seq(Docs)
    BY <1>3
  <2> QED
    BY <1>3, <2>1, BufLenIs, BytesOfNone
<1>5. Room(m)
  BY <1>3, <1>4, HeaderParts DEF Room
<1> QED
  BY <1>2, <1>3, <1>5 DEF VolOK, m

LEMMA StartedAs ==
  ASSUME NEW h \in Header, NEW d \in SUBSET Docs, NEW n \in 0 .. MaxDocs, NEW v,
         v = Started(h, d, n)
  PROVE  /\ VolOK(v) /\ ~v.io /\ ~v.waiting /\ v.queue = <<>> /\ v.buf = <<>>
         /\ v.hdr = h /\ v.dir = d
BY StartedOK

LEMMA EmptyStarted ==
  ASSUME NEW n \in 0 .. MaxDocs, NEW v, v = Started(ClearedHeader, {}, n)
  PROVE  /\ VolOK(v) /\ ~v.io /\ ~v.waiting /\ v.queue = <<>> /\ v.buf = <<>>
<1>1. {} \in SUBSET Docs /\ ClearedHeader \in Header
  BY ClearedOK
<1> QED
  BY <1>1, StartedOK

LEMMA InitIInv == Init => IInv
<1> SUFFICES ASSUME Init PROVE IInv
  OBVIOUS
<1> DEFINE x == [hdr |-> ClearedHeader, dir |-> {}, foot |-> 0, whole |-> TRUE]
<1>1. /\ VolOK(vol) /\ ~vol.io /\ ~vol.waiting /\ vol.queue = <<>> /\ vol.buf = <<>>
      /\ vol.hdr = ClearedHeader
  <2>1. vol = Started(ClearedHeader, {}, 0) /\ 0 \in 0 .. MaxDocs
    BY DEF Init
  <2> QED
    BY <2>1, ClearedOK, StartedOK
<1>2. DiskOK
  BY DEF Init, DiskOK, IsMap
<1>3. x \in Copies
  BY ClearedOK DEF Copies
<1>4. copies \in [{0, 1} -> Copies] /\ \A c \in {0, 1} : copies[c] = x
  BY <1>3 DEF Init
<1>5. TypeInv
  BY <1>1, <1>2, <1>4, ClearedOK DEF Init, TypeInv
<1>6. ModeInv /\ NothingForgotten
  BY <1>1 DEF Init, ModeInv, NothingForgotten
<1>7. \A c \in {0, 1} : copies[c].hdr.sync = 0 /\ copies[c].foot = 0 /\ copies[c].whole
  BY <1>4 DEF ClearedHeader
<1>8. Base(0)
  BY <1>7 DEF Base, Good
<1>9. Writes(0)
  BY <1>1, <1>7 DEF Writes, Init, ClearedHeader
<1> QED
  BY <1>5, <1>6, <1>8, <1>9 DEF IInv, CopyInv

(* What a write stores are documents at their places.                      *)
LEMMA StoredOK ==
  ASSUME DiskOK, NEW ds \in SUBSET Docs, NEW S, disk' = Stored(ds, S)
  PROVE  DiskOK'
<1>1. DOMAIN disk' = Blocks /\ IsMap(disk')
  BY DEF Stored, IsMap
<1>2. ASSUME NEW b \in Blocks, disk'[b] # Blank
      PROVE  LET d == disk'[b][1]
             IN d \in Docs /\ b \in BlocksOf(d) /\ disk'[b] = <<d, b - d.pos>>
  <2>1. CASE b \in S /\ \E d \in ds : b \in BlocksOf(d)
    <3> DEFINE d == CHOOSE x \in ds : b \in BlocksOf(x)
    <3>1. d \in ds /\ b \in BlocksOf(d)
      BY <2>1
    <3>2. disk'[b] = <<d, b - d.pos>>
      BY <2>1 DEF Stored
    <3> HIDE DEF d
    <3> QED
      BY <3>1, <3>2
  <2>2. CASE ~(b \in S /\ \E d \in ds : b \in BlocksOf(d))
    <3>1. disk'[b] = disk[b]
      BY <2>2 DEF Stored
    <3> QED
      BY <1>2, <3>1 DEF DiskOK
  <2> QED
    BY <2>1, <2>2
<1> QED
  BY <1>1, <1>2 DEF DiskOK

(* Steps that touch neither the copies nor a sync.                         *)
LEMMA CopiesLeft ==
  ASSUME CopyInv, UNCHANGED <<mode, copies, stage, snap>>, vol'.hdr.sync = vol.hdr.sync,
         seen \subseteq seen'
  PROVE  CopyInv'
<1> SUFFICES ASSUME Undisturbed' PROVE \E c \in {0, 1} : (Base(c) /\ Writes(c))'
  BY DEF CopyInv
<1>1. Undisturbed
  BY DEF Undisturbed
<1>2. PICK c \in {0, 1} : Base(c) /\ Writes(c)
  BY <1>1 DEF CopyInv
<1>3. Base(c)'
  BY <1>2 DEF Base, Good
<1>4. Writes(c)'
  BY <1>2 DEF Writes, Good
<1> QED
  BY <1>3, <1>4

(* A sync begins.                                                          *)
LEMMA SyncBegins ==
  ASSUME TypeInv, CopyInv, mode = "up", stage = "idle", mode' = "up", stage' = "header",
         copies' = copies, vol'.hdr.sync = vol.hdr.sync + 1, snap'.hdr.sync = vol'.hdr.sync,
         seen \subseteq seen'
  PROVE  CopyInv'
<1> SUFFICES ASSUME Undisturbed' PROVE \E c \in {0, 1} : (Base(c) /\ Writes(c))'
  BY DEF CopyInv
<1>1. Undisturbed
  BY DEF Undisturbed
<1>2. PICK c \in {0, 1} : Base(c) /\ Writes(c)
  BY <1>1 DEF CopyInv
<1>3. Base(c)'
  BY <1>2 DEF Base, Good
<1>4. copies[c].hdr.sync \in Nat
  BY HeaderParts DEF TypeInv, Copies
<1>5. vol.hdr.sync = copies[c].hdr.sync /\ copies[c].hdr.sync % 2 = c
  BY <1>2 DEF Writes, Base
<1>6. vol'.hdr.sync > copies[c].hdr.sync /\ vol'.hdr.sync % 2 = 1 - c
  <2> DEFINE n == copies[c].hdr.sync
  <2>1. n \in Nat /\ n % 2 = c /\ vol'.hdr.sync = n + 1
    BY <1>4, <1>5
  <2> HIDE DEF n
  <2>2. (n + 1) % 2 = 1 - c /\ n + 1 > n
    BY <2>1
  <2> QED
    BY <2>1, <2>2 DEF n
<1>7. Good(1 - c) => copies[1 - c].whole
  BY <1>2 DEF Writes
<1>8. Writes(c)'
  BY <1>6, <1>7 DEF Writes, Good
<1> QED
  BY <1>3, <1>8

LEMMA SetBackOK == ASSUME NEW m PROVE SetBack(m) \subseteq {"set back"}
BY DEF SetBack

(* A step of a running volume that only changes it.                        *)
LEMMA VolumeStep ==
  ASSUME IInv, mode = "up", UNCHANGED <<mode, disk, copies, stage, snap>>,
         seen \subseteq seen', seen' \subseteq seen \cup {"late", "set back"},
         VolOK(vol'), vol'.hdr.sync = vol.hdr.sync,
         vol'.waiting => stage = "idle",
         ~vol'.io => ~vol'.waiting /\ vol'.queue = <<>>
  PROVE  IInv'
<1>0. seen' \subseteq Marks
  BY DEF IInv, TypeInv, Marks
<1>1. TypeInv'
  BY <1>0 DEF IInv, TypeInv, DiskOK
<1>2. ModeInv'
  BY DEF IInv, ModeInv
<1>3. NothingForgotten'
  BY DEF NothingForgotten
<1>4. CopyInv'
  BY CopiesLeft DEF IInv
<1> QED
  BY <1>1, <1>2, <1>3, <1>4 DEF IInv

LEMMA WriteStep ==
  ASSUME IInv, NEW l \in Lengths, Write(l)
  PROVE  IInv'
<1> DEFINE m == [vol EXCEPT !.queue = Append(@, l)]
<1>1. VolOK(vol) /\ mode = "up" /\ vol.made + Len(vol.queue) < MaxDocs
  BY DEF IInv, TypeInv, Write
<1>2. /\ vol \in Volumes /\ vol.queue \in Seq(Lengths) /\ vol.buf \in Seq(Docs)
      /\ vol.made \in 0 .. MaxDocs /\ Len(vol.queue) \in Nat
      /\ vol.io \in BOOLEAN /\ vol.waiting \in BOOLEAN
  BY <1>1, VolumeParts DEF VolOK
<1>3. Append(vol.queue, l) \in Seq(Lengths) /\ Len(Append(vol.queue, l)) = Len(vol.queue) + 1
  BY <1>2, AppendProperties
<1>4. m \in Volumes
  BY <1>2, <1>3 DEF Volumes
<1>5. /\ m.hdr = vol.hdr /\ m.buf = vol.buf /\ m.io = vol.io /\ m.waiting = vol.waiting
      /\ m.made = vol.made /\ m.queue = Append(vol.queue, l)
  BY <1>2 DEF Volumes
<1>6. vol' = IF vol.io THEN m ELSE AggWrite(m)
  BY DEF Write
<1> HIDE DEF m
<1>7. VolOK(m)
  <2>1. BufLen(m) = BufLen(vol)
    BY <1>2, <1>5, BufLenIs
  <2>2. m.made + Len(m.queue) <= MaxDocs
    BY <1>1, <1>2, <1>3, <1>5
  <2> QED
    BY <1>1, <1>4, <1>5, <2>1, <2>2 DEF VolOK, Room
<1>8. /\ VolOK(vol') /\ vol'.hdr.sync = vol.hdr.sync /\ vol'.waiting = vol.waiting
      /\ ~vol'.io => ~vol'.waiting /\ vol'.queue = <<>>
  <2>1. CASE vol.io
    BY <1>5, <1>6, <1>7, <2>1
  <2>2. CASE ~vol.io
    <3>1. ~m.waiting
      BY <1>1, <1>5, <2>2 DEF IInv, NothingForgotten
    <3> QED
      BY <1>5, <1>6, <1>7, <2>2, <3>1, AggWriteOK
  <2> QED
    BY <2>1, <2>2
<1>9. /\ UNCHANGED <<mode, disk, copies, stage, snap>>
      /\ seen \subseteq seen' /\ seen' \subseteq seen \cup {"late", "set back"}
  BY SetBackOK DEF Write
<1>10. vol'.waiting => stage = "idle"
  BY <1>1, <1>8 DEF IInv, ModeInv
<1> QED
  BY <1>1, <1>8, <1>9, <1>10, VolumeStep

LEMMA InsertStep ==
  ASSUME IInv, NEW x \in vol.pend, Insert(x)
  PROVE  IInv'
<1> DEFINE h == [vol.hdr EXCEPT !.dirty = TRUE]
           d == vol.dir \cup {x}
           m == [vol EXCEPT !.pend = @ \ {x}]
<1>1. VolOK(vol) /\ mode = "up"
  BY DEF IInv, TypeInv, Insert
<1>2. /\ vol \in Volumes /\ vol.pend \in SUBSET Docs /\ vol.hdr \in Header
      /\ vol.dir \in SUBSET Docs /\ vol.buf \in Seq(Docs) /\ BufLen(vol) \in Nat
      /\ vol.hdr.writePos + BufLen(vol) <= End
  BY <1>1, VolumeParts DEF VolOK
<1>3. x \in Docs /\ vol.pend \ {x} \in SUBSET Docs
  BY <1>2
<1>4. h \in Header /\ h.writePos = vol.hdr.writePos /\ h.sync = vol.hdr.sync
  BY <1>2 DEF Header
<1>5. m \in Volumes /\ m.buf = vol.buf /\ m.queue = vol.queue /\ m.made = vol.made
      /\ m.hdr = vol.hdr /\ m.io = vol.io /\ m.waiting = vol.waiting
  BY <1>2, <1>3 DEF Volumes
<1>6. d \in SUBSET Docs
  BY <1>2, <1>3
<1>7. vol' = [m EXCEPT !.hdr = h, !.dir = d]
  <2>1. vol' = [vol EXCEPT !.pend = @ \ {x}, !.dir = d, !.hdr = h]
    BY <1>2 DEF Insert, Volumes
  <2> HIDE DEF d, h
  <2> QED
    BY <1>2, <2>1 DEF Volumes
<1> HIDE DEF h, d, m
<1>8. VolOK(m)
  <2>1. BufLen(m) = BufLen(vol)
    BY <1>2, <1>5, BufLenIs
  <2> QED
    BY <1>1, <1>5, <2>1 DEF VolOK, Room
<1>9. VolOK(vol')
  <2>1. h.writePos + BufLen(m) <= End
    BY <1>2, <1>4, <1>5, BufLenIs
  <2> QED
    BY <1>4, <1>6, <1>7, <1>8, <2>1, HeaderOK
<1>10. /\ vol'.hdr = h /\ vol'.io = vol.io /\ vol'.waiting = vol.waiting
       /\ vol'.queue = vol.queue
  BY <1>5, <1>7 DEF Volumes
<1>11. /\ UNCHANGED <<mode, disk, copies, stage, snap>>
       /\ seen \subseteq seen' /\ seen' \subseteq seen \cup {"late", "set back"}
  BY DEF Insert
<1>12. ~vol'.io => ~vol'.waiting /\ vol'.queue = <<>>
  BY <1>1, <1>10 DEF IInv, NothingForgotten
<1>13. vol'.waiting => stage = "idle"
  BY <1>1, <1>10 DEF IInv, ModeInv
<1> QED
  BY <1>1, <1>4, <1>9, <1>10, <1>11, <1>12, <1>13, VolumeStep

(* A sync raises the serial number.                                        *)
LEMMA SyncStartedOK ==
  ASSUME NEW m, VolOK(m)
  PROVE  LET s == SyncStarted(m) IN
           /\ VolOK(s) /\ s.hdr.sync = m.hdr.sync + 1 /\ s.io = m.io /\ s.buf = m.buf
           /\ s.queue = m.queue /\ s.waiting = m.waiting /\ Snapshot(s) \in Images
           /\ Snapshot(s).hdr.sync = s.hdr.sync
<1> DEFINE h == [m.hdr EXCEPT !.dirty = FALSE, !.sync = @ + 1]
           d == m.dir
           s == SyncStarted(m)
<1>1. m \in Volumes /\ m.hdr \in Header /\ d \in SUBSET Docs /\ m.hdr.writePos + BufLen(m) <= End
  BY VolumeParts DEF VolOK
<1>2. h \in Header /\ h.writePos = m.hdr.writePos /\ h.sync = m.hdr.sync + 1
  <2>1. m.hdr.sync + 1 \in Nat
    BY <1>1, HeaderParts
  <2> QED
    BY <1>1, <2>1 DEF Header
<1>3. s = [m EXCEPT !.hdr = h, !.dir = d]
  BY <1>1 DEF SyncStarted, Volumes, Header
<1> HIDE DEF h, d, s
<1>4. VolOK(s)
  BY <1>1, <1>2, <1>3, HeaderOK
<1>5. s.io = m.io /\ s.buf = m.buf /\ s.queue = m.queue /\ s.waiting = m.waiting /\ s.hdr = h
      /\ s.dir = d
  BY <1>1, <1>3 DEF Volumes
<1>6. Snapshot(s) \in Images /\ Snapshot(s).hdr.sync = s.hdr.sync
  BY <1>1, <1>2, <1>5 DEF Snapshot, Images
<1> QED
  BY <1>2, <1>4, <1>5, <1>6 DEF s

(* The end of aggWriteDone: the sync that waits begins, and nobody waits   *)
(* any more.                                                               *)
LEMMA AfterWriteStep ==
  ASSUME IInv, mode = "up", NEW m, VolOK(m), ~m.io, m.buf = <<>>,
         m.hdr.sync = vol.hdr.sync, m.waiting = vol.waiting, AfterWrite(m),
         UNCHANGED <<mode, copies>>, DiskOK', seen \subseteq seen',
         seen' \subseteq Marks
  PROVE  IInv'
<1> DEFINE begins == m.waiting /\ m.hdr.dirty
           s == IF begins THEN SyncStarted(m) ELSE m
           f == [s EXCEPT !.waiting = FALSE]
<1>1. VolOK(s) /\ ~s.io /\ s.buf = <<>>
  BY SyncStartedOK
<1>2. s \in Volumes /\ Room(s) /\ s.buf \in Seq(Docs)
  BY <1>1, VolumeParts DEF VolOK
<1>3. /\ vol' = AggWrite(f)
      /\ begins => stage' = "header" /\ snap' = Snapshot(s)
      /\ ~begins => UNCHANGED <<stage, snap>>
  BY DEF AfterWrite
<1> HIDE DEF s
<1>4. f \in Volumes /\ ~f.io /\ ~f.waiting /\ f.buf = s.buf /\ f.hdr = s.hdr
      /\ f.queue = s.queue /\ f.made = s.made
  BY <1>1, <1>2 DEF Volumes
<1> HIDE DEF f
<1>5. VolOK(f)
  <2>1. BufLen(f) = BufLen(s)
    BY <1>2, <1>4, BufLenIs
  <2> QED
    BY <1>2, <1>4, <2>1 DEF VolOK, Room
<1>6. /\ VolOK(vol') /\ ~vol'.waiting /\ vol'.hdr.sync = s.hdr.sync
      /\ ~vol'.io => vol'.queue = <<>>
  BY <1>3, <1>4, <1>5, AggWriteOK
<1>7. NothingForgotten'
  BY <1>6 DEF NothingForgotten
<1>8. /\ mode \in {"up", "down", "storing", "clearing", "endless"}
      /\ stage \in {"idle", "header", "body", "footer", "clear A", "clear B"}
      /\ snap \in Images /\ copies \in [{0, 1} -> Copies]
      /\ stage \in {"idle", "header", "body", "footer"}
      /\ vol.waiting => stage = "idle"
  BY DEF IInv, TypeInv, ModeInv
<1>9. CASE begins
  <2>1. s = SyncStarted(m)
    BY <1>9 DEF s
  <2>2. s.hdr.sync = vol.hdr.sync + 1 /\ snap' \in Images /\ snap'.hdr.sync = s.hdr.sync
    BY <1>3, <1>9, <2>1, SyncStartedOK
  <2>3. stage = "idle" /\ stage' = "header"
    BY <1>3, <1>8, <1>9
  <2>4. TypeInv'
    BY <1>6, <1>8, <2>2, <2>3 DEF TypeInv
  <2>5. ModeInv'
    BY <1>6, <2>3 DEF ModeInv
  <2>6. CopyInv'
    BY <1>6, <2>2, <2>3, SyncBegins DEF IInv
  <2> QED
    BY <1>7, <2>4, <2>5, <2>6 DEF IInv
<1>10. CASE ~begins
  <2>1. s = m
    BY <1>10 DEF s
  <2>2. UNCHANGED <<stage, snap>>
    BY <1>3, <1>10
  <2>3. TypeInv'
    BY <1>6, <1>8, <2>2 DEF TypeInv
  <2>4. ModeInv'
    BY <1>6, <1>8, <2>2 DEF ModeInv
  <2>5. CopyInv'
    BY <1>6, <2>1, <2>2, CopiesLeft DEF IInv
  <2> QED
    BY <1>7, <2>3, <2>4, <2>5 DEF IInv
<1> QED
  BY <1>9, <1>10

LEMMA SeenOK ==
  /\ Rounds \subseteq Marks
  /\ TornTurns \subseteq Marks
BY DEF Rounds, TornTurns, Marks

LEMMA WriteDoneStep ==
  ASSUME IInv, WriteDone
  PROVE  IInv'
<1> DEFINE h == [vol.hdr EXCEPT !.lastWritePos = vol.hdr.writePos,
                                !.writePos = @ + BufLen(vol), !.ser = @ + 1]
           m == [vol EXCEPT !.hdr = h, !.buf = <<>>, !.io = FALSE]
<1>1. VolOK(vol) /\ mode = "up" /\ DiskOK
  BY DEF IInv, TypeInv, WriteDone
<1>2. /\ vol \in Volumes /\ vol.hdr \in Header /\ vol.buf \in Seq(Docs) /\ BufLen(vol) \in Nat
      /\ vol.hdr.writePos + BufLen(vol) <= End /\ vol.made + Len(vol.queue) <= MaxDocs
  BY <1>1, VolumeParts DEF VolOK
<1>3. h \in Header /\ h.writePos = vol.hdr.writePos + BufLen(vol) /\ h.sync = vol.hdr.sync
  <2>1. vol.hdr.writePos + BufLen(vol) \in Start .. End /\ vol.hdr.ser + 1 \in Nat
        /\ vol.hdr.writePos \in Start .. End
    BY <1>1, WriteEnds
  <2> QED
    BY <1>2, <2>1 DEF Header
<1>4. [vol EXCEPT !.hdr.lastWritePos = vol.hdr.writePos,
                  !.hdr.writePos = @ + BufLen(vol), !.hdr.ser = @ + 1,
                  !.buf = <<>>, !.io = FALSE] = m
  BY <1>2 DEF Volumes, Header
<1>5. AfterWrite(m) /\ UNCHANGED <<mode, copies>>
      /\ disk' = Stored(ToSet(vol.buf), Blocks) /\ seen' = seen \cup Rounds
  <2>1. /\ AfterWrite([vol EXCEPT !.hdr.lastWritePos = vol.hdr.writePos,
                            !.hdr.writePos = @ + BufLen(vol), !.hdr.ser = @ + 1,
                            !.buf = <<>>, !.io = FALSE])
        /\ UNCHANGED <<mode, copies>>
        /\ disk' = Stored(ToSet(vol.buf), Blocks) /\ seen' = seen \cup Rounds
    BY DEF WriteDone
  <2> QED
    BY <1>4, <2>1
<1> HIDE DEF h
<1>6. m \in Volumes /\ m.hdr = h /\ m.buf = <<>> /\ ~m.io /\ m.waiting = vol.waiting
      /\ m.made = vol.made /\ m.queue = vol.queue
  <2>1. <<>> \in Seq(Docs)
    OBVIOUS
  <2>2. m \in Volumes
    BY <1>2, <1>3, <2>1 DEF Volumes
  <2> QED
    BY <1>2, <2>2 DEF Volumes
<1> HIDE DEF m
<1>7. VolOK(m)
  <2>1. BufLen(m) = 0
    <3>1. m.buf \in Seq(Docs)
      BY <1>6
    <3> QED
      BY <1>6, <3>1, BufLenIs, BytesOfNone
  <2> QED
    BY <1>2, <1>3, <1>6, <2>1, HeaderParts DEF VolOK, Room
<1>8. DiskOK'
  BY <1>1, <1>2, <1>5, BufferedDocs, StoredOK
<1>9. seen \subseteq seen' /\ seen' \subseteq Marks
  BY <1>5, SeenOK DEF IInv, TypeInv
<1> QED
  BY <1>1, <1>3, <1>5, <1>6, <1>7, <1>8, <1>9, AfterWriteStep

LEMMA WriteFailStep ==
  ASSUME IInv, WriteFail
  PROVE  IInv'
<1> DEFINE ds == ToSet(vol.buf)
           d == {e \in vol.dir : e \notin ds \/ VolOffset(e.pos) # DeletedOffset(e.pos)}
           m == [vol EXCEPT !.dir = d, !.buf = <<>>, !.io = FALSE]
<1>1. VolOK(vol) /\ mode = "up" /\ DiskOK
  BY DEF IInv, TypeInv, WriteFail
<1>2. /\ vol \in Volumes /\ vol.hdr \in Header /\ vol.buf \in Seq(Docs)
      /\ vol.dir \in SUBSET Docs /\ vol.made + Len(vol.queue) <= MaxDocs
  BY <1>1, VolumeParts DEF VolOK
<1>3. d \in SUBSET Docs
  BY <1>2
<1>4. /\ \E S : disk' = Stored(ds, S)
      /\ AfterWrite(m) /\ UNCHANGED <<mode, copies>>
      /\ seen' = seen \cup Rounds \cup TornTurns \cup SetBack(vol')
  BY DEF WriteFail
<1>5. ds \in SUBSET Docs
  BY <1>2, BufferedDocs
<1> HIDE DEF d, ds
<1>6. m \in Volumes /\ m.hdr = vol.hdr /\ m.buf = <<>> /\ ~m.io /\ m.waiting = vol.waiting
      /\ m.made = vol.made /\ m.queue = vol.queue
  <2>1. <<>> \in Seq(Docs)
    OBVIOUS
  <2>2. m \in Volumes
    BY <1>2, <1>3, <2>1 DEF Volumes
  <2> QED
    BY <1>2, <2>2 DEF Volumes
<1> HIDE DEF m
<1>7. VolOK(m)
  <2>1. BufLen(m) = 0
    <3>1. m.buf \in Seq(Docs)
      BY <1>6
    <3> QED
      BY <1>6, <3>1, BufLenIs, BytesOfNone
  <2> QED
    BY <1>2, <1>6, <2>1, HeaderParts DEF VolOK, Room
<1>8. DiskOK'
  BY <1>1, <1>4, <1>5, StoredOK
<1>9. seen \subseteq seen' /\ seen' \subseteq Marks
  <2>1. SetBack(vol') \subseteq Marks
    BY SetBackOK DEF Marks
  <2> QED
    BY <1>4, <2>1, SeenOK DEF IInv, TypeInv
<1> QED
  BY <1>1, <1>4, <1>6, <1>7, <1>8, <1>9, AfterWriteStep

LEMMA SyncEventStep ==
  ASSUME IInv, SyncEvent
  PROVE  IInv'
<1>1. VolOK(vol) /\ mode = "up" /\ stage = "idle"
  BY DEF IInv, TypeInv, SyncEvent
<1>2. vol \in Volumes /\ vol.buf \in Seq(Docs) /\ Room(vol)
  BY <1>1, VolumeParts DEF VolOK
<1>3. CASE vol.io \/ vol.buf # <<>>
  <2> DEFINE m == [vol EXCEPT !.waiting = TRUE]
  <2>1. vol' = IF vol.io THEN m ELSE AggWrite(m)
    BY <1>3 DEF SyncEvent
  <2>2. /\ UNCHANGED <<mode, disk, copies, stage, snap>>
        /\ seen \subseteq seen' /\ seen' \subseteq seen \cup {"late", "set back"}
    BY <1>3, SetBackOK DEF SyncEvent
  <2>3. m \in Volumes /\ m.buf = vol.buf /\ m.hdr = vol.hdr /\ m.io = vol.io
        /\ m.queue = vol.queue /\ m.made = vol.made
    BY <1>2 DEF Volumes
  <2> HIDE DEF m
  <2>4. VolOK(m)
    <3>1. BufLen(m) = BufLen(vol)
      BY <1>2, <2>3, BufLenIs
    <3> QED
      BY <1>2, <2>3, <3>1 DEF VolOK, Room
  <2>5. /\ VolOK(vol') /\ vol'.hdr.sync = vol.hdr.sync
        /\ ~vol'.io => ~vol'.waiting /\ vol'.queue = <<>>
    <3>1. CASE vol.io
      BY <2>1, <2>3, <2>4, <3>1
    <3>2. CASE ~vol.io
      <4>1. m.buf # <<>>
        BY <1>3, <2>3, <3>2
      <4> QED
        BY <2>1, <2>3, <2>4, <3>2, <4>1, AggWriteOK
    <3> QED
      BY <3>1, <3>2
  <2> QED
    BY <1>1, <2>2, <2>5, VolumeStep
<1>4. CASE ~(vol.io \/ vol.buf # <<>>)
  <2>1. /\ vol' = SyncStarted(vol) /\ stage' = "header" /\ snap' = Snapshot(vol')
        /\ UNCHANGED <<mode, disk, copies>>
        /\ seen \subseteq seen' /\ seen' \subseteq Marks
    <3>1. SetBack(vol') \subseteq Marks
      BY SetBackOK DEF Marks
    <3> QED
      BY <1>4, <3>1 DEF SyncEvent, IInv, TypeInv
  <2>2. /\ VolOK(vol') /\ vol'.hdr.sync = vol.hdr.sync + 1 /\ snap' \in Images
        /\ snap'.hdr.sync = vol'.hdr.sync /\ vol'.waiting = vol.waiting
        /\ vol'.queue = vol.queue
    BY <1>1, <2>1, SyncStartedOK
  <2>3. ~vol.waiting /\ vol.queue = <<>>
    BY <1>1, <1>4 DEF IInv, NothingForgotten
  <2>4. TypeInv'
    BY <2>1, <2>2 DEF IInv, TypeInv, DiskOK
  <2>5. ModeInv' /\ NothingForgotten'
    BY <1>1, <2>1, <2>2, <2>3 DEF IInv, ModeInv, NothingForgotten
  <2>6. CopyInv'
    BY <1>1, <2>1, <2>2, SyncBegins DEF IInv
  <2> QED
    BY <2>4, <2>5, <2>6 DEF IInv
<1> QED
  BY <1>3, <1>4

(* The three writes of a copy.                                             *)
LEMMA StoreHeaderStep ==
  ASSUME IInv, StoreHeader
  PROVE  IInv'
<1>1. /\ mode \in {"up", "storing"} /\ stage = "header" /\ stage' = "body"
      /\ copies' = [copies EXCEPT ![Target].hdr = snap.hdr, ![Target].whole = FALSE]
      /\ UNCHANGED <<mode, vol, disk, snap, seen>>
  BY DEF StoreHeader
<1>2. copies \in [{0, 1} -> Copies] /\ snap \in Images /\ snap.hdr \in Header
  BY DEF IInv, TypeInv, Images
<1>3. Target \in {0, 1}
  BY <1>2, HeaderParts DEF Target
<1>4. copies' \in [{0, 1} -> Copies]
  BY <1>1, <1>2, <1>3 DEF Copies
<1>5. TypeInv'
  BY <1>1, <1>4 DEF IInv, TypeInv, DiskOK
<1>6. ModeInv' /\ NothingForgotten'
  BY <1>1 DEF IInv, ModeInv, NothingForgotten
<1>7. CopyInv'
  <2> SUFFICES ASSUME Undisturbed' PROVE \E c \in {0, 1} : (Base(c) /\ Writes(c))'
    BY DEF CopyInv
  <2>1. PICK c \in {0, 1} : Base(c) /\ Writes(c)
    BY <1>1 DEF CopyInv, IInv, Undisturbed
  <2>2. Target = 1 - c
    BY <1>1, <2>1 DEF Writes, Target
  <2>3. 1 - c \in {0, 1} /\ 1 - c # c
    OBVIOUS
  <2>4. /\ copies'[c] = copies[c]
        /\ copies'[1 - c].hdr = snap.hdr /\ copies'[1 - c].foot = copies[1 - c].foot
    BY <1>1, <1>2, <2>2, <2>3 DEF Copies
  <2>5. Base(c)'
    BY <2>1, <2>4 DEF Base, Good
  <2>6. Writes(c)'
    BY <1>1, <2>1, <2>4 DEF Writes
  <2> QED
    BY <2>5, <2>6
<1> QED
  BY <1>5, <1>6, <1>7 DEF IInv

LEMMA StoreBodyStep ==
  ASSUME IInv, StoreBody
  PROVE  IInv'
<1>1. /\ mode \in {"up", "storing"} /\ stage = "body" /\ stage' = "footer"
      /\ copies' = [copies EXCEPT ![Target].dir = snap.dir, ![Target].whole = TRUE]
      /\ UNCHANGED <<mode, vol, disk, snap, seen>>
  BY DEF StoreBody
<1>2. copies \in [{0, 1} -> Copies] /\ snap \in Images /\ snap.hdr \in Header
      /\ snap.dir \in SUBSET Docs
  BY DEF IInv, TypeInv, Images
<1>3. Target \in {0, 1}
  BY <1>2, HeaderParts DEF Target
<1>4. copies' \in [{0, 1} -> Copies]
  BY <1>1, <1>2, <1>3 DEF Copies
<1>5. TypeInv'
  BY <1>1, <1>4 DEF IInv, TypeInv, DiskOK
<1>6. ModeInv' /\ NothingForgotten'
  BY <1>1 DEF IInv, ModeInv, NothingForgotten
<1>7. CopyInv'
  <2> SUFFICES ASSUME Undisturbed' PROVE \E c \in {0, 1} : (Base(c) /\ Writes(c))'
    BY DEF CopyInv
  <2>1. PICK c \in {0, 1} : Base(c) /\ Writes(c)
    BY <1>1 DEF CopyInv, IInv, Undisturbed
  <2>2. Target = 1 - c
    BY <1>1, <2>1 DEF Writes, Target
  <2>3. 1 - c \in {0, 1} /\ 1 - c # c
    OBVIOUS
  <2>4. /\ copies'[c] = copies[c]
        /\ copies'[1 - c].hdr = copies[1 - c].hdr /\ copies'[1 - c].foot = copies[1 - c].foot
        /\ copies'[1 - c].whole
    BY <1>1, <1>2, <2>2, <2>3 DEF Copies
  <2>5. Base(c)'
    BY <2>1, <2>4 DEF Base, Good
  <2>6. Writes(c)'
    BY <1>1, <2>1, <2>4 DEF Writes
  <2> QED
    BY <2>5, <2>6
<1> QED
  BY <1>5, <1>6, <1>7 DEF IInv

(* With its footer the new copy is the one to start from.                  *)
LEMMA StoreFooterStep ==
  ASSUME IInv, StoreFooter
  PROVE  IInv'
<1>1. /\ mode \in {"up", "storing"} /\ stage = "footer" /\ stage' = "idle"
      /\ copies' = [copies EXCEPT ![Target].foot = snap.hdr.sync]
      /\ mode' = "up" /\ snap' = NoSnapshot
      /\ UNCHANGED <<vol, disk, seen>>
  BY DEF StoreFooter
<1>2. copies \in [{0, 1} -> Copies] /\ snap \in Images /\ snap.hdr \in Header
      /\ snap.hdr.sync \in Nat
  BY HeaderParts DEF IInv, TypeInv, Images
<1>3. Target \in {0, 1}
  BY <1>2 DEF Target
<1>4. copies' \in [{0, 1} -> Copies]
  BY <1>1, <1>2, <1>3 DEF Copies
<1>5. TypeInv'
  BY <1>1, <1>4, ClearedOK DEF IInv, TypeInv, DiskOK
<1>6. ModeInv'
  BY <1>1 DEF IInv, ModeInv
<1>7. NothingForgotten'
  BY <1>1 DEF IInv, ModeInv, NothingForgotten
<1>8. CopyInv'
  <2> SUFFICES ASSUME Undisturbed' PROVE \E c \in {0, 1} : (Base(c) /\ Writes(c))'
    BY DEF CopyInv
  <2>1. PICK c \in {0, 1} : Base(c) /\ Writes(c)
    BY <1>1 DEF CopyInv, IInv, Undisturbed
  <2>2. /\ vol.hdr.sync = snap.hdr.sync /\ snap.hdr.sync > copies[c].hdr.sync
        /\ snap.hdr.sync % 2 = 1 - c /\ copies[1 - c].hdr = snap.hdr /\ copies[1 - c].whole
    BY <1>1, <2>1 DEF Writes
  <2>3. Target = 1 - c
    BY <2>2 DEF Target
  <2> DEFINE n == 1 - c
  <2>4. n \in {0, 1} /\ n # c /\ 1 - n = c
    OBVIOUS
  <2>5. /\ copies'[c] = copies[c]
        /\ copies'[n].hdr = snap.hdr /\ copies'[n].foot = snap.hdr.sync /\ copies'[n].whole
    BY <1>1, <1>2, <2>2, <2>3, <2>4 DEF Copies
  <2>6. /\ copies[c].whole /\ copies[c].hdr.sync = copies[c].foot
        /\ copies[c].hdr.sync \in Nat
    BY <1>2, <2>1, HeaderParts DEF Base, Good, Copies
  <2> HIDE DEF n
  <2>7. copies'[c].foot < copies'[n].hdr.sync
    BY <1>2, <2>2, <2>5, <2>6
  <2>8. Base(n)'
    <3>1. Good(n)' /\ copies'[n].whole /\ copies'[n].hdr.sync % 2 = n
      BY <2>2, <2>5 DEF Good, n
    <3>2. copies'[1 - n].foot <= copies'[n].hdr.sync
      BY <1>2, <2>4, <2>5, <2>6, <2>7
    <3>3. n = 1 => copies'[0].foot # copies'[1].hdr.sync
      BY <1>2, <2>4, <2>5, <2>6, <2>7
    <3> QED
      BY <3>1, <3>2, <3>3 DEF Base
  <2>9. Writes(n)'
    BY <1>1, <2>2, <2>4, <2>5, <2>6 DEF Writes, Good
  <2> QED
    BY <2>4, <2>8, <2>9
<1> QED
  BY <1>5, <1>6, <1>7, <1>8 DEF IInv

LEMMA SyncFailStep ==
  ASSUME IInv, SyncFail
  PROVE  IInv'
<1>1. /\ mode = "up" /\ stage' = "idle" /\ seen' = seen \cup {"sync error"}
      /\ snap' = NoSnapshot /\ UNCHANGED <<mode, vol, disk, copies>>
  BY DEF SyncFail
<1>2. TypeInv'
  BY <1>1, ClearedOK DEF IInv, TypeInv, DiskOK, Marks
<1>3. ModeInv' /\ NothingForgotten'
  BY <1>1 DEF IInv, ModeInv, NothingForgotten
<1>4. CopyInv'
  BY <1>1 DEF CopyInv, Undisturbed
<1> QED
  BY <1>2, <1>3, <1>4 DEF IInv

(* While a copy is being written it cannot be taken for a whole one.       *)
LEMMA OtherCopy ==
  ASSUME IInv, Undisturbed, NEW c \in {0, 1}, Base(c), Writes(c)
  PROVE  Good(1 - c) => copies[1 - c].whole
<1>1. CASE stage \in {"idle", "header"}
  BY <1>1 DEF Writes
<1>2. CASE stage \in {"body", "footer"}
  <2>1. /\ copies[1 - c].hdr = snap.hdr /\ snap.hdr.sync > copies[c].hdr.sync
        /\ copies[1 - c].foot <= copies[c].hdr.sync
    BY <1>2 DEF Writes, Base
  <2>2. 1 - c \in {0, 1} /\ c \in {0, 1}
    OBVIOUS
  <2>3. copies[1 - c].foot \in Nat /\ copies[c].hdr \in Header /\ copies[1 - c].hdr \in Header
    BY <2>2 DEF IInv, TypeInv, Copies
  <2>4. copies[c].hdr.sync \in Nat /\ copies[1 - c].hdr.sync \in Nat
    BY <2>3, HeaderParts
  <2>5. copies[1 - c].hdr.sync # copies[1 - c].foot
    BY <2>1, <2>3, <2>4
  <2> QED
    BY <2>5 DEF Good
<1>3. CASE stage \in {"clear A", "clear B"}
  BY <1>3 DEF IInv, ModeInv, Undisturbed
<1> QED
  BY <1>1, <1>2, <1>3 DEF IInv, TypeInv

(* A crash leaves a copy to start from.                                    *)
LEMMA CrashStep ==
  ASSUME IInv, Crash
  PROVE  IInv'
<1> DEFINE ds == IF vol.io THEN ToSet(vol.buf) ELSE {}
<1>1. /\ mode' = "down" /\ stage' = "idle"
      /\ \E S : disk' = Stored(ds, S)
      /\ copies' \in {copies} \cup (IF stage = "clear A" THEN TornClear ELSE {})
      /\ vol' = Started(ClearedHeader, {}, vol.made)
      /\ seen' = seen \cup Rounds \cup TornTurns
      /\ snap' = NoSnapshot
  BY DEF Crash
<1>2. VolOK(vol) /\ DiskOK /\ copies \in [{0, 1} -> Copies]
  BY DEF IInv, TypeInv
<1>3. vol.buf \in Seq(Docs) /\ vol.made \in 0 .. MaxDocs
  BY <1>2, VolumeParts
<1>4. ds \in SUBSET Docs
  BY <1>3, BufferedDocs
<1> HIDE DEF ds
<1>5. DiskOK'
  BY <1>1, <1>2, <1>4, StoredOK
<1>6. /\ VolOK(vol') /\ ~vol'.io /\ ~vol'.waiting /\ vol'.queue = <<>> /\ vol'.buf = <<>>
  <2>1. vol' = Started(ClearedHeader, {}, vol.made)
    BY <1>1
  <2> QED
    BY <1>3, <2>1, EmptyStarted
<1>7. copies' \in [{0, 1} -> Copies]
  <2>1. ASSUME NEW x \in TornClear PROVE x \in [{0, 1} -> Copies]
    <3>1. PICK h \in {copies[0].hdr, ClearedHeader}, d \in {copies[0].dir, {}},
               f \in {copies[0].foot, 0} :
            x = [copies EXCEPT ![0] = [hdr |-> h, dir |-> d, foot |-> f, whole |-> FALSE]]
      BY DEF TornClear
    <3>2. h \in Header /\ d \in SUBSET Docs /\ f \in Nat
      BY <1>2, ClearedOK DEF Copies
    <3>3. [hdr |-> h, dir |-> d, foot |-> f, whole |-> FALSE] \in Copies
      BY <3>2 DEF Copies
    <3> QED
      BY <1>2, <3>1, <3>3
  <2> QED
    BY <1>1, <1>2, <2>1
<1>8. seen \subseteq seen' /\ seen' \subseteq Marks
  BY <1>1, SeenOK DEF IInv, TypeInv
<1>9. TypeInv'
  BY <1>1, <1>5, <1>6, <1>7, <1>8, ClearedOK DEF TypeInv
<1>10. ModeInv' /\ NothingForgotten'
  BY <1>1, <1>6 DEF ModeInv, NothingForgotten
<1>11. CopyInv'
  <2> SUFFICES ASSUME Undisturbed' PROVE \E c \in {0, 1} : (Base(c) /\ Writes(c))'
    BY DEF CopyInv
  <2>1. Undisturbed
    BY <1>8 DEF Undisturbed
  <2>2. PICK c \in {0, 1} : Base(c) /\ Writes(c)
    BY <2>1 DEF CopyInv, IInv
  <2>3. copies' = copies
    <3>1. "cleared" \notin seen
      BY <2>1 DEF Undisturbed
    <3>2. stage # "clear A"
      BY <3>1 DEF IInv, ModeInv
    <3> QED
      BY <1>1, <3>2
  <2>4. Base(c)'
    BY <2>2, <2>3 DEF Base, Good
  <2>5. Good(1 - c) => copies[1 - c].whole
    BY <2>1, <2>2, OtherCopy
  <2>6. Writes(c)'
    BY <1>1, <2>3, <2>5 DEF Writes, Good
  <2> QED
    BY <2>4, <2>6
<1> QED
  BY <1>9, <1>10, <1>11 DEF IInv

-----------------------------------------------------------------------------
(* A volume starts.                                                        *)

LEMMA CopyParts ==
  ASSUME IInv, NEW c \in {0, 1}
  PROVE  /\ copies[c] \in Copies /\ copies[c].hdr \in Header /\ copies[c].dir \in SUBSET Docs
         /\ copies[c].foot \in Nat /\ copies[c].hdr.sync \in Nat
<1>1. copies[c] \in Copies
  BY DEF IInv, TypeInv
<1>2. copies[c].hdr \in Header /\ copies[c].dir \in SUBSET Docs /\ copies[c].foot \in Nat
  BY <1>1 DEF Copies
<1> QED
  BY <1>1, <1>2, HeaderParts

(* The copy that is read is the one that was complete at the crash, unless *)
(* a sync failed or the directory was cleared.                             *)
LEMMA UsableCopy ==
  ASSUME IInv, mode = "down", NEW c \in Usable
  PROVE  c \in {0, 1} /\ (Undisturbed => Base(c) /\ Writes(c))
<1>1. c \in {0, 1} /\ Good(c)
  BY DEF Usable
<1>2. ASSUME Undisturbed PROVE Base(c) /\ Writes(c)
  <2>1. PICK b \in {0, 1} : Base(b) /\ Writes(b)
    BY <1>2 DEF IInv, CopyInv
  <2>2. /\ copies[0].foot \in Nat /\ copies[1].foot \in Nat
        /\ copies[0].hdr.sync \in Nat /\ copies[1].hdr.sync \in Nat
    BY CopyParts
  <2>3. CASE b = 0
    <3>1. Good(0) /\ copies[1].foot <= copies[0].hdr.sync
      BY <2>1, <2>3 DEF Base
    <3>2. Good(1) => copies[0].hdr.sync >= copies[1].hdr.sync
      BY <2>2, <3>1 DEF Good
    <3>3. Usable = {0}
      BY <3>1, <3>2 DEF Usable
    <3> QED
      BY <2>1, <2>3, <3>3
  <2>4. CASE b = 1
    <3>1. Good(1) /\ copies[0].foot <= copies[1].hdr.sync /\ copies[0].foot # copies[1].hdr.sync
      BY <2>1, <2>4 DEF Base
    <3>2. Good(0) => ~(copies[0].hdr.sync >= copies[1].hdr.sync)
      BY <2>2, <3>1 DEF Good
    <3>3. Usable = {1}
      BY <3>1, <3>2 DEF Usable
    <3> QED
      BY <2>1, <2>4, <3>3
  <2> QED
    BY <2>3, <2>4
<1> QED
  BY <1>1, <1>2

(* The serial number after a recovery is higher than that of the copy that *)
(* was read, and belongs to the other place.                               *)
LEMMA NextSyncOK ==
  ASSUME NEW h \in Header, NEW max \in Serials(h)
  PROVE  /\ NextSync(h, max) \in Nat /\ NextSync(h, max) > h.sync
         /\ NextSync(h, max) % 2 = 1 - (h.sync % 2)
<1> DEFINE n == h.sync
<1>1. n \in Nat /\ max \in Nat /\ max >= n
  BY HeaderParts DEF Serials
<1>2. NextSync(h, max) = IF (max + 1) % 2 = n % 2 THEN max + 2 ELSE max + 1
  BY DEF NextSync
<1> HIDE DEF n
<1>3. CASE (max + 1) % 2 = n % 2
  <2>1. NextSync(h, max) = max + 2
    BY <1>2, <1>3
  <2>2. max + 2 > n /\ max + 2 \in Nat
    BY <1>1
  <2>3. (max + 2) % 2 = 1 - (n % 2)
    BY <1>1, <1>3
  <2> QED
    BY <2>1, <2>2, <2>3 DEF n
<1>4. CASE (max + 1) % 2 # n % 2
  <2>1. NextSync(h, max) = max + 1
    BY <1>2, <1>4
  <2>2. max + 1 > n /\ max + 1 \in Nat
    BY <1>1
  <2>3. (max + 1) % 2 = 1 - (n % 2)
    BY <1>1, <1>4
  <2> QED
    BY <2>1, <2>2, <2>3 DEF n
<1> QED
  BY <1>3, <1>4

LEMMA ClearDirStep ==
  ASSUME IInv, mode = "down", ClearDir(vol.made), UNCHANGED <<disk, copies>>
  PROVE  IInv'
<1>1. /\ mode' = "clearing" /\ stage' = "clear A" /\ seen' = seen \cup {"cleared"}
      /\ vol' = Started(ClearedHeader, {}, vol.made) /\ snap' = snap
  BY DEF ClearDir
<1>2. vol.made \in 0 .. MaxDocs
  BY VolumeParts DEF IInv, TypeInv
<1>3. VolOK(vol') /\ ~vol'.io /\ ~vol'.waiting /\ vol'.queue = <<>> /\ vol'.buf = <<>>
  BY <1>1, <1>2, EmptyStarted
<1>4. TypeInv'
  BY <1>1, <1>3 DEF IInv, TypeInv, DiskOK, Marks
<1>5. ModeInv' /\ NothingForgotten'
  BY <1>1, <1>3 DEF ModeInv, NothingForgotten
<1>6. CopyInv'
  BY <1>1 DEF CopyInv, Undisturbed
<1> QED
  BY <1>4, <1>5, <1>6 DEF IInv

(* The directory is used as it was read.                                   *)
LEMMA ReadyStep ==
  ASSUME IInv, mode = "down", NEW c \in Usable, NEW h \in Header, NEW d \in SUBSET Docs,
         h.sync = copies[c].hdr.sync, mode' = "up", vol' = Started(h, d, vol.made),
         UNCHANGED <<stage, snap, disk, copies>>, seen \subseteq seen',
         seen' \subseteq Marks
  PROVE  IInv'
<1>1. c \in {0, 1} /\ vol.made \in 0 .. MaxDocs /\ stage = "idle"
  BY UsableCopy, VolumeParts DEF IInv, TypeInv, ModeInv
<1>2. /\ VolOK(vol') /\ ~vol'.io /\ ~vol'.waiting /\ vol'.queue = <<>> /\ vol'.buf = <<>>
      /\ vol'.hdr = h
  BY <1>1, StartedOK
<1>3. TypeInv'
  BY <1>2 DEF IInv, TypeInv, DiskOK, Marks
<1>4. ModeInv' /\ NothingForgotten'
  BY <1>1, <1>2 DEF ModeInv, NothingForgotten
<1>5. CopyInv'
  <2> SUFFICES ASSUME Undisturbed' PROVE \E b \in {0, 1} : (Base(b) /\ Writes(b))'
    BY DEF CopyInv
  <2>1. Base(c) /\ Writes(c)
    BY UsableCopy DEF Undisturbed
  <2>2. Base(c)'
    BY <2>1 DEF Base, Good
  <2>3. Writes(c)'
    BY <1>1, <1>2, <2>1 DEF Writes, Good
  <2> QED
    BY <1>1, <2>2, <2>3
<1> QED
  BY <1>3, <1>4, <1>5 DEF IInv

(* The directory is stored, in the place that was not read.                *)
LEMMA StoringStep ==
  ASSUME IInv, mode = "down", NEW c \in Usable, NEW h \in Header, NEW d \in SUBSET Docs,
         h.sync > copies[c].hdr.sync, h.sync % 2 = 1 - (copies[c].hdr.sync % 2),
         mode' = "storing", stage' = "header", vol' = Started(h, d, vol.made),
         snap' = Snapshot(vol'), UNCHANGED <<disk, copies, seen>>
  PROVE  IInv'
<1>1. c \in {0, 1} /\ vol.made \in 0 .. MaxDocs /\ stage = "idle"
  BY UsableCopy, VolumeParts DEF IInv, TypeInv, ModeInv
<1>2. /\ VolOK(vol') /\ ~vol'.io /\ ~vol'.waiting /\ vol'.queue = <<>> /\ vol'.buf = <<>>
      /\ vol'.hdr = h /\ vol'.dir = d
  BY <1>1, StartedOK
<1>3. snap' \in Images /\ snap'.hdr = h
  BY <1>2 DEF Snapshot, Images
<1>4. TypeInv'
  BY <1>2, <1>3 DEF IInv, TypeInv, DiskOK
<1>5. ModeInv' /\ NothingForgotten'
  BY <1>1, <1>2 DEF ModeInv, NothingForgotten
<1>6. CopyInv'
  <2> SUFFICES ASSUME Undisturbed' PROVE \E b \in {0, 1} : (Base(b) /\ Writes(b))'
    BY DEF CopyInv
  <2>1. Base(c) /\ Writes(c)
    BY UsableCopy DEF Undisturbed
  <2>2. Base(c)'
    BY <2>1 DEF Base, Good
  <2>3. h.sync % 2 = 1 - c /\ (Good(1 - c) => copies[1 - c].whole)
    BY <1>1, <2>1 DEF Base, Writes
  <2>4. Writes(c)'
    BY <1>2, <1>3, <2>3 DEF Writes, Good
  <2> QED
    BY <1>1, <2>2, <2>4
<1> QED
  BY <1>4, <1>5, <1>6 DEF IInv

LEMMA EndlessStep ==
  ASSUME IInv, mode = "down", mode' = "endless",
         UNCHANGED <<vol, stage, snap, seen, disk, copies>>
  PROVE  IInv'
<1>1. TypeInv'
  BY DEF IInv, TypeInv, DiskOK
<1>2. ModeInv' /\ NothingForgotten'
  BY DEF IInv, ModeInv, NothingForgotten
<1>3. CopyInv'
  <2> SUFFICES ASSUME Undisturbed' PROVE \E c \in {0, 1} : (Base(c) /\ Writes(c))'
    BY DEF CopyInv
  <2>1. PICK c \in {0, 1} : Base(c) /\ Writes(c)
    BY DEF CopyInv, IInv, Undisturbed
  <2>2. Base(c)'
    BY <2>1 DEF Base, Good
  <2>3. Writes(c)'
    BY <2>1 DEF Writes, Good, IInv, ModeInv
  <2> QED
    BY <2>2, <2>3
<1> QED
  BY <1>1, <1>2, <1>3 DEF IInv

LEMMA StartUpStep ==
  ASSUME IInv, StartUp
  PROVE  IInv'
<1>1. mode = "down" /\ UNCHANGED <<disk, copies>>
  BY DEF StartUp
<1>2. CASE Usable = {}
  <2>1. ClearDir(vol.made)
    BY <1>2 DEF StartUp
  <2> QED
    BY <1>1, <2>1, ClearDirStep
<1>3. CASE Usable # {}
  <2>1. PICK c \in Usable : Recover(c)
    BY <1>3 DEF StartUp
  <2> DEFINE h == copies[c].hdr
             d == copies[c].dir
  <2>2. c \in {0, 1}
    BY <1>1, UsableCopy
  <2>3. h \in Header /\ d \in SUBSET Docs /\ h.sync \in Nat
    BY <2>2, CopyParts
  <2>4. seen \subseteq Marks /\ DiskOK
    BY DEF IInv, TypeInv, Marks
  <2>5. CASE h.sync = 0
    <3>1. mode' = "up" /\ vol' = Started(h, d, vol.made) /\ UNCHANGED <<stage, snap, seen>>
      BY <2>1, <2>5 DEF Recover
    <3> QED
      BY <1>1, <2>3, <2>4, <3>1, ReadyStep
  <2>6. CASE h.sync # 0
    <3>1. PICK r \in Scanned(h) :
            CASE r.state = "clear" -> ClearDir(vol.made)
              [] r.state = "done" -> ScanDone(h, d, r)
              [] OTHER -> mode' = "endless" /\ UNCHANGED <<vol, stage, snap, seen>>
      BY <2>1, <2>6 DEF Recover
    <3>2. r.max \in Serials(h)
      <4>1. r \in Cursors(h)
        BY <2>3, <2>4, ScannedOK
      <4> QED
        BY <4>1 DEF Cursors
    <3>3. CASE r.state = "clear"
      <4>1. ClearDir(vol.made)
        BY <3>1, <3>3
      <4> QED
        BY <1>1, <4>1, ClearDirStep
    <3>4. CASE r.state = "done"
      <4> DEFINE p == r.pos + EvacSize
                 next == [h EXCEPT !.sync = NextSync(h, r.max), !.dirty = TRUE]
                 kept == {e \in d : VolOffset(e.pos) \notin Cleared(h, p) /\ Valid(e, h, 0)}
      <4>1. ScanDone(h, d, r)
        BY <3>1, <3>4
      <4>2. \/ /\ mode' = "up" /\ vol' = Started(h, d, vol.made)
               /\ seen' = seen \cup {"skipped"} /\ UNCHANGED <<stage, snap>>
            \/ ClearDir(vol.made)
            \/ /\ mode' = "storing" /\ stage' = "header"
               /\ vol' = Started(next, kept, vol.made) /\ snap' = Snapshot(vol')
               /\ UNCHANGED seen
        <5> HIDE DEF h, d
        <5> QED
          BY <4>1 DEF ScanDone
      <4>3. CASE /\ mode' = "up" /\ vol' = Started(h, d, vol.made)
                 /\ seen' = seen \cup {"skipped"} /\ UNCHANGED <<stage, snap>>
        <5>1. seen \subseteq seen' /\ seen' \subseteq Marks
          BY <2>4, <4>3 DEF Marks
        <5> QED
          BY <1>1, <2>3, <4>3, <5>1, ReadyStep
      <4>4. CASE ClearDir(vol.made)
        BY <1>1, <4>4, ClearDirStep
      <4>5. CASE /\ mode' = "storing" /\ stage' = "header"
                 /\ vol' = Started(next, kept, vol.made) /\ snap' = Snapshot(vol')
                 /\ UNCHANGED seen
        <5>1. /\ NextSync(h, r.max) \in Nat /\ NextSync(h, r.max) > h.sync
              /\ NextSync(h, r.max) % 2 = 1 - (h.sync % 2)
          BY <2>3, <3>2, NextSyncOK
        <5>2. next \in Header /\ next.sync = NextSync(h, r.max)
          <6> HIDE DEF h
          <6> QED
            BY <2>3, <5>1 DEF Header
        <5>3. kept \in SUBSET Docs
          BY <2>3
        <5>4. next.sync > h.sync /\ next.sync % 2 = 1 - (h.sync % 2)
          BY <5>1, <5>2
        <5> HIDE DEF next, kept
        <5> QED
          BY <1>1, <4>5, <5>2, <5>3, <5>4, StoringStep
      <4> QED
        BY <4>2, <4>3, <4>4, <4>5
    <3>5. CASE ~(r.state = "clear") /\ ~(r.state = "done")
      <4>1. mode' = "endless" /\ UNCHANGED <<vol, stage, snap, seen>>
        BY <3>1, <3>5
      <4> QED
        BY <1>1, <4>1, EndlessStep
    <3> QED
      BY <3>3, <3>4, <3>5
  <2> QED
    BY <2>5, <2>6
<1> QED
  BY <1>2, <1>3

(* The two writes that clear the copies.                                   *)
LEMMA ClearAStep ==
  ASSUME IInv, ClearA
  PROVE  IInv'
<1> DEFINE x == [hdr |-> ClearedHeader, dir |-> {}, foot |-> 0, whole |-> TRUE]
<1>1. /\ mode = "clearing" /\ stage' = "clear B" /\ copies' = [copies EXCEPT ![0] = x]
      /\ UNCHANGED <<mode, vol, disk, snap, seen>>
  BY DEF ClearA
<1>2. "cleared" \in seen
  BY <1>1 DEF IInv, ModeInv
<1>3. copies' \in [{0, 1} -> Copies]
  <2>1. x \in Copies
    BY ClearedOK DEF Copies
  <2> HIDE DEF x
  <2> QED
    BY <1>1, <2>1 DEF IInv, TypeInv
<1>4. TypeInv'
  BY <1>1, <1>3 DEF IInv, TypeInv, DiskOK
<1>5. ModeInv' /\ NothingForgotten'
  BY <1>1, <1>2 DEF IInv, ModeInv, NothingForgotten
<1>6. CopyInv'
  BY <1>1, <1>2 DEF CopyInv, Undisturbed
<1> QED
  BY <1>4, <1>5, <1>6 DEF IInv

LEMMA ClearBStep ==
  ASSUME IInv, ClearB
  PROVE  IInv'
<1>1. /\ mode = "clearing" /\ stage' = "idle" /\ mode' = "up"
      /\ copies' = [copies EXCEPT ![1].hdr = ClearedHeader, ![1].whole = FALSE]
      /\ UNCHANGED <<vol, disk, snap, seen>>
  BY DEF ClearB
<1>2. "cleared" \in seen
  BY <1>1 DEF IInv, ModeInv
<1>3. copies' \in [{0, 1} -> Copies]
  <2>1. copies \in [{0, 1} -> Copies]
    BY DEF IInv, TypeInv
  <2> QED
    BY <1>1, <2>1, ClearedOK DEF Copies
<1>4. TypeInv'
  BY <1>1, <1>3 DEF IInv, TypeInv, DiskOK
<1>5. ModeInv' /\ NothingForgotten'
  BY <1>1, <1>2 DEF IInv, ModeInv, NothingForgotten
<1>6. CopyInv'
  BY <1>1, <1>2 DEF CopyInv, Undisturbed
<1> QED
  BY <1>4, <1>5, <1>6 DEF IInv

LEMMA NextIInv == IInv /\ [Next]_vars => IInv'
<1> SUFFICES ASSUME IInv, [Next]_vars PROVE IInv'
  OBVIOUS
<1>1. CASE UNCHANGED vars
  <2>1. /\ UNCHANGED <<mode, vol, disk, copies, stage, snap, seen>>
    BY <1>1 DEF vars
  <2>2. TypeInv' /\ ModeInv' /\ NothingForgotten'
    BY <2>1 DEF IInv, TypeInv, DiskOK, ModeInv, NothingForgotten
  <2>3. CopyInv'
    BY <2>1, CopiesLeft DEF IInv
  <2> QED
    BY <2>2, <2>3 DEF IInv
<1>2. CASE \E l \in Lengths : Write(l)
  BY <1>2, WriteStep
<1>3. CASE \E x \in vol.pend : Insert(x)
  BY <1>3, InsertStep
<1>4. CASE WriteDone
  BY <1>4, WriteDoneStep
<1>5. CASE WriteFail
  BY <1>5, WriteFailStep
<1>6. CASE SyncEvent
  BY <1>6, SyncEventStep
<1>7. CASE StoreHeader
  BY <1>7, StoreHeaderStep
<1>8. CASE StoreBody
  BY <1>8, StoreBodyStep
<1>9. CASE StoreFooter
  BY <1>9, StoreFooterStep
<1>10. CASE SyncFail
  BY <1>10, SyncFailStep
<1>11. CASE Crash
  BY <1>11, CrashStep
<1>12. CASE StartUp
  BY <1>12, StartUpStep
<1>13. CASE ClearA
  BY <1>13, ClearAStep
<1>14. CASE ClearB
  BY <1>14, ClearBStep
<1> QED
  BY <1>1, <1>2, <1>3, <1>4, <1>5, <1>6, <1>7, <1>8, <1>9, <1>10, <1>11, <1>12, <1>13,
     <1>14 DEF Next

-----------------------------------------------------------------------------
(* The inductive invariant holds in every state of the volume, whatever    *)
(* its size, its documents and the order of writes, syncs, failures and    *)
(* crashes.                                                                *)
THEOREM Invariance == Spec => []IInv
BY InitIInv, NextIInv, PTL DEF Spec

(* Documents have their place inside the volume's data and the scan of a   *)
(* recovery keeps serial numbers and positions in their ranges (aggWrite,  *)
(* handle_recover_from_data).                                              *)
THEOREM TypeCorrect == Spec => []TypeOK
<1>1. IInv => TypeOK
  <2> SUFFICES ASSUME IInv PROVE TypeOK
    OBVIOUS
  <2>1. VolOK(vol) /\ DiskOK /\ snap \in Images
    BY DEF IInv, TypeInv
  <2>2. \A d \in vol.dir \cup ToSet(vol.buf) \cup vol.pend : IsDoc(d)
    <3>1. vol.dir \in SUBSET Docs /\ ToSet(vol.buf) \in SUBSET Docs
          /\ vol.pend \in SUBSET Docs
      BY <2>1, VolumeParts, BufferedDocs
    <3> QED
      BY <3>1, DocParts
  <2>3. /\ vol.hdr \in Header /\ vol.queue \in Seq(Lengths) /\ vol.made \in 0 .. MaxDocs
        /\ vol.io \in BOOLEAN /\ vol.waiting \in BOOLEAN
    BY <2>1, VolumeParts
  <2>4. ASSUME NEW b \in Blocks, disk[b] # Blank
        PROVE  IsDoc(disk[b][1]) /\ b = disk[b][1].pos + disk[b][2]
    <3> DEFINE d == disk[b][1]
    <3>1. d \in Docs /\ disk[b] = <<d, b - d.pos>>
      BY <2>1, <2>4 DEF DiskOK
    <3>2. d.pos \in Nat /\ IsDoc(d) /\ b \in Int
      BY <3>1, DocParts DEF Blocks
    <3>3. disk[b][2] = b - d.pos
      BY <3>1
    <3> HIDE DEF d
    <3>4. b = d.pos + disk[b][2]
      BY <3>2, <3>3
    <3> QED
      BY <3>2, <3>4 DEF d
  <2>5. snap.hdr \in Header /\ DOMAIN disk = Blocks
    BY <2>1 DEF Images, DiskOK
  <2>6. \A c \in {0, 1} : /\ copies[c].hdr \in Header /\ copies[c].foot \in Nat
                          /\ copies[c].whole \in BOOLEAN
    BY DEF IInv, TypeInv, Copies
  <2> QED
    BY <2>2, <2>3, <2>4, <2>5, <2>6 DEF IInv, TypeInv, TypeOK, Marks
<1> QED
  BY <1>1, Invariance, PTL

(* No wake-up is lost between the writes of the buffer and the sync        *)
(* (aggWrite, aggWriteDone, CacheSync::mainEvent).                         *)
THEOREM NobodyForgotten == Spec => []NothingForgotten
<1>1. IInv => NothingForgotten
  BY DEF IInv
<1> QED
  BY <1>1, Invariance, PTL

(* A crash at any moment finds a whole copy of the directory, and takes no *)
(* other for one (CacheSync, handle_header_read).                          *)
THEOREM CopyToStartFrom == Spec => []CopyAlwaysGood
<1>1. IInv => CopyAlwaysGood
  <2> SUFFICES ASSUME IInv, Undisturbed
               PROVE  (Good(0) \/ Good(1)) /\ \A c \in {0, 1} : Good(c) => copies[c].whole
    BY DEF CopyAlwaysGood, Undisturbed
  <2>1. PICK c \in {0, 1} : Base(c) /\ Writes(c)
    BY DEF CopyInv, IInv
  <2>2. Good(c) /\ copies[c].whole
    BY <2>1 DEF Base
  <2>3. Good(1 - c) => copies[1 - c].whole
    BY <2>1, OtherCopy
  <2> QED
    BY <2>2, <2>3
<1> QED
  BY <1>1, Invariance, PTL

-----------------------------------------------------------------------------
(* Where the buffer's documents are.                                       *)

(* The documents of the set ds lie in p .. q - 1, without gap or overlap. *)
Paved(ds, p, q) ==
  /\ \A d \in ds : p <= d.pos /\ d.pos + d.len <= q
  /\ \A d, f \in ds : d = f \/ d.pos + d.len <= f.pos \/ f.pos + f.len <= d.pos
  /\ \A x \in p .. (q - 1) : \E d \in ds : x \in BlocksOf(d)

(* The documents of the set ds are of the log as the header h has it. *)
Stamped(ds, h) == \A d \in ds : d.phase = h.phase /\ d.sync = h.sync /\ d.ser = h.ser

Placed(m) ==
  /\ Paved(ToSet(m.buf), m.hdr.writePos, m.hdr.writePos + BufLen(m))
  /\ Stamped(ToSet(m.buf), m.hdr)

LEMMA PrefixOfNone == ASSUME NEW q PROVE Prefix(q, 0) = 0
<1>1. 1 .. 0 = {}
  OBVIOUS
<1> QED
  BY <1>1, SumOverEmpty DEF Prefix

(* A place inside a sequence of lengths is inside one of them.             *)
LEMMA InsideOne ==
  ASSUME NEW q \in Seq(Nat), NEW n \in 0 .. Len(q), NEW x \in Nat, x < Prefix(q, n)
  PROVE  \E i \in 1 .. n : Prefix(q, i - 1) <= x /\ x < Prefix(q, i)
<1> DEFINE S == {i \in 0 .. n : x < Prefix(q, i)}
<1>1. S \in SUBSET Nat /\ n \in S /\ n \in Nat /\ Len(q) \in Nat
  OBVIOUS
<1>2. PICK i \in S : \A j \in S : i <= j
  BY <1>1, LeastNatural
<1>3. Prefix(q, 0) = 0
  BY PrefixOfNone
<1>4. i \in 1 .. n /\ i - 1 \in 0 .. n /\ i - 1 \notin S
  BY <1>1, <1>2, <1>3
<1>5. Prefix(q, i - 1) \in Nat
  BY <1>1, <1>4, PrefixType
<1>6. Prefix(q, i - 1) <= x /\ x < Prefix(q, i)
  BY <1>2, <1>4, <1>5
<1> QED
  BY <1>4, <1>6

LEMMA ToSetIs == ASSUME NEW s PROVE ToSet(s) = {s[i] : i \in DOMAIN s}
BY DEF ToSet

LEMMA MovedPlaced ==
  ASSUME NEW m, VolOK(m)
  PROVE  LET b == m.hdr.writePos + BufLen(m)
         IN /\ Paved(ToSet(Moved(m)), b, b + Prefix(m.queue, Moves(m)))
            /\ Stamped(ToSet(Moved(m)), m.hdr)
<1> DEFINE q == m.queue
           n == Moves(m)
           b == m.hdr.writePos + BufLen(m)
           new == Moved(m)
           t == Prefix(q, n)
<1>1. q \in Seq(Nat) /\ Len(q) \in Nat /\ BufLen(m) \in Nat /\ m.hdr.writePos \in Nat
  BY VolumeParts, HeaderParts
<1>2. n \in 0 .. Len(q) /\ n \in Nat
  BY MovesIs
<1>3. b \in Nat /\ t \in Nat
  BY <1>1, <1>2, PrefixType
<1>4. new \in Seq(Docs) /\ Len(new) = n
  BY MovedOK
<1>5. ASSUME NEW i \in 1 .. n
      PROVE  /\ new[i].pos = b + Prefix(q, i - 1) /\ new[i].len = q[i]
             /\ new[i].phase = m.hdr.phase /\ new[i].sync = m.hdr.sync
             /\ new[i].ser = m.hdr.ser /\ Prefix(q, i - 1) \in Nat /\ q[i] \in Nat
             /\ Prefix(q, i) = Prefix(q, i - 1) + q[i] /\ Prefix(q, i) <= t
  <2>1. i \in 1 .. Len(q) /\ i - 1 \in 0 .. Len(q) /\ i \in 0 .. n
    BY <1>1, <1>2
  <2>2. /\ Prefix(q, i) = Prefix(q, i - 1) + q[i]
        /\ Prefix(q, i - 1) \in Nat /\ q[i] \in Nat
    BY <1>1, <2>1, PrefixStep
  <2>3. Prefix(q, i) <= t
    BY <1>1, <1>2, <2>1, PrefixGrows
  <2>4. At(m, i) = b + Prefix(q, i - 1)
    BY <1>1, <2>1, TotalOfPrefix DEF At
  <2>5. new[i] = [id |-> m.made + i, pos |-> At(m, i), len |-> m.queue[i],
                  phase |-> m.hdr.phase, sync |-> m.hdr.sync, ser |-> m.hdr.ser]
    BY DEF Moved
  <2> HIDE DEF b, t, new
  <2> QED
    BY <2>2, <2>3, <2>4, <2>5
<1>6. \A d \in ToSet(new) : \E i \in 1 .. n : d = new[i]
  BY <1>4 DEF ToSet
<1>7. \A i \in 1 .. n : new[i] \in ToSet(new)
  BY <1>4 DEF ToSet
<1> HIDE DEF q, n, b, new, t
<1>8. Stamped(ToSet(new), m.hdr)
  BY <1>5, <1>6 DEF Stamped
<1>9. ASSUME NEW d \in ToSet(new) PROVE b <= d.pos /\ d.pos + d.len <= b + t
  <2>1. PICK i \in 1 .. n : d = new[i]
    BY <1>6
  <2> DEFINE x == Prefix(q, i - 1)  y == Prefix(q, i)
  <2>2. /\ d.pos = b + x /\ d.len = q[i] /\ x \in Nat /\ q[i] \in Nat /\ y = x + q[i] /\ y <= t
    BY <1>5, <2>1
  <2> HIDE DEF x, y
  <2> QED
    BY <1>3, <2>2
<1>10. ASSUME NEW d \in ToSet(new), NEW f \in ToSet(new)
       PROVE  d = f \/ d.pos + d.len <= f.pos \/ f.pos + f.len <= d.pos
  <2>1. PICK i \in 1 .. n : d = new[i]
    BY <1>6
  <2>2. PICK j \in 1 .. n : f = new[j]
    BY <1>6
  <2>3. ASSUME NEW k \in 1 .. n, NEW l \in 1 .. n, k < l
        PROVE  new[k].pos + new[k].len <= new[l].pos
    <3>1. k \in 0 .. (l - 1) /\ l - 1 \in 0 .. Len(q)
      <4> DEFINE N == Len(q)
      <4>1. N \in Nat /\ n \in 0 .. N
        BY <1>1, <1>2
      <4> HIDE DEF N
      <4>2. k \in 0 .. (l - 1) /\ l - 1 \in 0 .. N
        BY <2>3, <4>1
      <4> QED
        BY <4>2 DEF N
    <3>2. Prefix(q, k) <= Prefix(q, l - 1)
      BY <1>1, <3>1, PrefixGrows
    <3> DEFINE x == Prefix(q, k - 1)  y == Prefix(q, k)  z == Prefix(q, l - 1)
    <3>3. /\ new[k].pos = b + x /\ new[k].len = q[k] /\ y = x + q[k] /\ x \in Nat
          /\ q[k] \in Nat /\ new[l].pos = b + z /\ z \in Nat /\ y <= z
      BY <1>5, <3>2
    <3> HIDE DEF x, y, z
    <3> QED
      BY <1>3, <3>3, SMTT(20)
  <2>4. i < j \/ j < i \/ i = j
    BY <1>2
  <2> QED
    BY <2>1, <2>2, <2>3, <2>4
<1>11. ASSUME NEW x \in b .. ((b + t) - 1) PROVE \E d \in ToSet(new) : x \in BlocksOf(d)
  <2> DEFINE y == x - b
  <2>1. y \in Nat /\ y < t /\ x = b + y
    BY <1>3
  <2> HIDE DEF y
  <2>2. PICK i \in 1 .. n : Prefix(q, i - 1) <= y /\ y < Prefix(q, i)
    BY <1>1, <1>2, <2>1, InsideOne DEF t
  <2> DEFINE u == Prefix(q, i - 1)  v == Prefix(q, i)  d == new[i]
  <2>3. /\ u <= y /\ y < v /\ v = u + q[i] /\ u \in Nat /\ q[i] \in Nat
        /\ d.pos = b + u /\ d.len = q[i]
    BY <1>5, <2>2
  <2> HIDE DEF u, v, d
  <2>4. x \in BlocksOf(d)
    BY <1>3, <2>1, <2>3 DEF BlocksOf
  <2> QED
    BY <1>7, <2>4 DEF d
<1>12. Paved(ToSet(new), b, b + t)
  BY <1>9, <1>10, <1>11 DEF Paved
<1> QED
  BY <1>8, <1>12 DEF b, new, t, q, n

LEMMA PavedJoin ==
  ASSUME NEW ds \in SUBSET Docs, NEW fs \in SUBSET Docs,
         NEW p \in Nat, NEW q \in Nat, NEW r \in Nat, p <= q, q <= r,
         Paved(ds, p, q), Paved(fs, q, r)
  PROVE  Paved(ds \cup fs, p, r)
<1>1. \A d \in ds \cup fs : d.pos \in Nat /\ d.len \in Nat
  BY DocParts
<1>2. \A d \in ds : p <= d.pos /\ d.pos + d.len <= q
  BY DEF Paved
<1>3. \A d \in fs : q <= d.pos /\ d.pos + d.len <= r
  BY DEF Paved
<1>4. \A d \in ds \cup fs : p <= d.pos /\ d.pos + d.len <= r
  BY <1>1, <1>2, <1>3
<1>5. ASSUME NEW d \in ds \cup fs, NEW f \in ds \cup fs
      PROVE  d = f \/ d.pos + d.len <= f.pos \/ f.pos + f.len <= d.pos
  <2>1. CASE d \in ds /\ f \in ds
    BY <2>1 DEF Paved
  <2>2. CASE d \in fs /\ f \in fs
    BY <2>2 DEF Paved
  <2>3. CASE (d \in ds /\ f \in fs) \/ (d \in fs /\ f \in ds)
    BY <1>1, <1>2, <1>3, <2>3
  <2> QED
    BY <2>1, <2>2, <2>3
<1>6. ASSUME NEW x \in p .. (r - 1) PROVE \E d \in ds \cup fs : x \in BlocksOf(d)
  <2>1. CASE x < q
    <3>1. x \in p .. (q - 1)
      BY <2>1
    <3>2. PICK d \in ds : x \in BlocksOf(d)
      BY <3>1 DEF Paved
    <3> QED
      BY <3>2
  <2>2. CASE x >= q
    <3>1. x \in q .. (r - 1)
      BY <2>2
    <3>2. PICK d \in fs : x \in BlocksOf(d)
      BY <3>1 DEF Paved
    <3> QED
      BY <3>2
  <2> QED
    BY <2>1, <2>2
<1> QED
  BY <1>4, <1>5, <1>6 DEF Paved

LEMMA SetOfBoth ==
  ASSUME NEW s \in Seq(Docs), NEW t \in Seq(Docs)
  PROVE  ToSet(s \o t) = ToSet(s) \cup ToSet(t)
<1>1. /\ Len(s \o t) = Len(s) + Len(t) /\ s \o t \in Seq(Docs)
      /\ \A i \in 1 .. Len(s) + Len(t) : (s \o t)[i] = IF i <= Len(s) THEN s[i] ELSE t[i - Len(s)]
  BY ConcatProperties
<1>2. Len(s) \in Nat /\ Len(t) \in Nat
  OBVIOUS
<1> DEFINE u == s \o t
<1>3. /\ \A x : x \in ToSet(u) <=> \E i \in 1 .. Len(u) : x = u[i]
      /\ \A x : x \in ToSet(s) <=> \E i \in 1 .. Len(s) : x = s[i]
      /\ \A x : x \in ToSet(t) <=> \E i \in 1 .. Len(t) : x = t[i]
  BY <1>1, SMTT(20) DEF ToSet
<1>4. /\ Len(u) = Len(s) + Len(t)
      /\ \A i \in 1 .. Len(s) + Len(t) : u[i] = IF i <= Len(s) THEN s[i] ELSE t[i - Len(s)]
  BY <1>1
<1> HIDE DEF u
<1>5. ASSUME NEW x \in ToSet(u) PROVE x \in ToSet(s) \cup ToSet(t)
  <2>1. PICK i \in 1 .. Len(u) : x = u[i]
    BY <1>3
  <2>2. CASE i <= Len(s)
    <3>1. i \in 1 .. Len(s) /\ x = s[i]
      BY <1>2, <1>4, <2>1, <2>2
    <3> QED
      BY <1>3, <3>1
  <2>3. CASE ~(i <= Len(s))
    <3>1. i - Len(s) \in 1 .. Len(t) /\ x = t[i - Len(s)]
      BY <1>2, <1>4, <2>1, <2>3
    <3> QED
      BY <1>3, <3>1
  <2> QED
    BY <2>2, <2>3
<1>6. ASSUME NEW x \in ToSet(s) PROVE x \in ToSet(u)
  <2>1. PICK i \in 1 .. Len(s) : x = s[i]
    BY <1>3
  <2>2. i \in 1 .. Len(u) /\ u[i] = x
    BY <1>2, <1>4, <2>1
  <2> QED
    BY <1>3, <2>2
<1>7. ASSUME NEW x \in ToSet(t) PROVE x \in ToSet(u)
  <2>1. PICK i \in 1 .. Len(t) : x = t[i]
    BY <1>3
  <2>2. i + Len(s) \in 1 .. Len(u) /\ u[i + Len(s)] = x
    BY <1>2, <1>4, <2>1
  <2> QED
    BY <1>3, <2>2
<1> QED
  BY <1>5, <1>6, <1>7 DEF u

(* agg_copy puts the documents behind those of the buffer.                 *)
LEMMA CopiedPlaced ==
  ASSUME NEW m, VolOK(m), Placed(m)
  PROVE  LET c == Copied(m) IN
           /\ Placed(c) /\ c.dir = m.dir /\ ToSet(m.buf) \subseteq ToSet(c.buf)
<1> DEFINE c == Copied(m)
           n == Moves(m)
           new == Moved(m)
           t == Prefix(m.queue, n)
           w == m.hdr.writePos
           b == w + BufLen(m)
<1>1. /\ m \in Volumes /\ m.buf \in Seq(Docs) /\ BufLen(m) = Bytes(m.buf) /\ BufLen(m) \in Nat
      /\ m.queue \in Seq(Nat) /\ w \in Nat
  BY VolumeParts, HeaderParts DEF VolOK
<1>2. new \in Seq(Docs) /\ Bytes(new) = t /\ t \in Nat
  BY <1>1, MovedOK, MovesIs, PrefixType
<1>3. Paved(ToSet(new), b, b + t) /\ Stamped(ToSet(new), m.hdr)
  BY MovedPlaced
<1>4. c.hdr = m.hdr /\ c.dir = m.dir /\ c.buf = m.buf \o new
  BY <1>1, CopiedUnfolded DEF Volumes
<1>5. c.buf \in Seq(Docs) /\ Bytes(c.buf) = Bytes(m.buf) + t
  BY <1>1, <1>2, <1>4, BytesConcat
<1>6. BufLen(c) = BufLen(m) + t
  BY <1>1, <1>5, BufLenIs
<1>7. ToSet(c.buf) = ToSet(m.buf) \cup ToSet(new)
  BY <1>1, <1>2, <1>4, SetOfBoth
<1>8. ToSet(m.buf) \in SUBSET Docs /\ ToSet(new) \in SUBSET Docs
  BY <1>1, <1>2, BufferedDocs
<1>9. Paved(ToSet(m.buf), w, b) /\ Stamped(ToSet(m.buf), m.hdr)
  BY DEF Placed
<1> HIDE DEF c, n, new, t
<1>10. w + BufLen(c) = b + t /\ b \in Nat /\ b + t \in Nat /\ w <= b /\ b <= b + t
  BY <1>1, <1>2, <1>6, SMTT(20)
<1> HIDE DEF b, w
<1>11. Paved(ToSet(c.buf), w, b + t)
  <2> DEFINE r == b + t  ds == ToSet(m.buf)  fs == ToSet(new)
  <2>1. /\ ds \in SUBSET Docs /\ fs \in SUBSET Docs /\ w \in Nat /\ b \in Nat /\ r \in Nat
        /\ w <= b /\ b <= r /\ Paved(ds, w, b) /\ Paved(fs, b, r)
    BY <1>1, <1>3, <1>8, <1>9, <1>10
  <2> HIDE DEF r, ds, fs
  <2>2. Paved(ds \cup fs, w, r)
    BY <2>1, PavedJoin
  <2> QED
    BY <1>7, <2>2 DEF r, ds, fs
<1>12. Stamped(ToSet(c.buf), c.hdr)
  BY <1>3, <1>4, <1>7, <1>9 DEF Stamped
<1>13. Placed(c)
  BY <1>4, <1>10, <1>11, <1>12 DEF Placed, w
<1> QED
  BY <1>4, <1>7, <1>13 DEF c

LEMMA PlacedEmpty ==
  ASSUME NEW m, VolOK(m), m.buf = <<>>
  PROVE  Placed(m) /\ BufLen(m) = 0 /\ ToSet(m.buf) = {}
<1>1. BufLen(m) = 0 /\ m.hdr.writePos \in Nat
  BY VolumeParts, HeaderParts, BytesOfNone
<1>2. ToSet(m.buf) = {}
  BY DEF ToSet
<1>3. m.hdr.writePos .. ((m.hdr.writePos + BufLen(m)) - 1) = {}
  BY <1>1
<1>4. Paved(ToSet(m.buf), m.hdr.writePos, m.hdr.writePos + BufLen(m))
  BY <1>2, <1>3 DEF Paved
<1> QED
  BY <1>1, <1>2, <1>4 DEF Placed, Stamped

-----------------------------------------------------------------------------
(* Where the entries' documents are.                                       *)

(* The blocks of e are on the disk D. *)
Held(e, D) == \A b \in BlocksOf(e) : D[b] = <<e, b - e.pos>>

(* An entry of the log's current turn before the write position is on the  *)
(* disk and ends there; one behind it is in the buffer; and one of the turn*)
(* before is on the disk until the write limit has reached it.             *)
EntriesAt(m, D, L) ==
  \A e \in m.dir \ L :
    /\ e.phase = m.hdr.phase /\ e.pos < m.hdr.writePos =>
         e.pos + e.len <= m.hdr.writePos /\ Held(e, D)
    /\ e.phase = m.hdr.phase /\ e.pos >= m.hdr.writePos => e \in ToSet(m.buf)
    /\ e.phase # m.hdr.phase /\ e.pos >= m.hdr.aggPos => Held(e, D)

(* The write limit is at most a buffer after the write position.           *)
Limited(h) == h.writePos <= h.aggPos /\ h.aggPos <= h.writePos + AggSize

(* What is being written ends at the write limit, from which entries of the*)
(* turn before are valid.                                                  *)
Limits(m) ==
  /\ Limited(m.hdr)
  /\ m.io => m.hdr.aggPos = m.hdr.writePos + BufLen(m)

(* The log of c has turned since m, or its write limit is not before m's.  *)
Onward(m, c) == c.hdr.phase = m.hdr.phase => m.hdr.aggPos <= c.hdr.aggPos

LEMMA NotSetBack ==
  ASSUME VolOK(vol), NEW m, m.hdr \in Header, SetBack(m) = {}
  PROVE  Onward(vol, m)
<1>1. vol.hdr \in Header
  BY VolumeParts
<1>2. vol.hdr.aggPos \in Start .. End /\ m.hdr.aggPos \in Start .. End
  BY <1>1, HeaderParts
<1>3. vol.hdr.aggPos \in Int /\ m.hdr.aggPos \in Int
  BY <1>2
<1>4. ~(m.hdr.phase = vol.hdr.phase /\ m.hdr.aggPos < vol.hdr.aggPos)
  BY Zenon DEF SetBack
<1> QED
  BY <1>3, <1>4 DEF Onward

LEMMA CopiedEntries ==
  ASSUME NEW m, VolOK(m), Placed(m), NEW D, NEW L, EntriesAt(m, D, L)
  PROVE  EntriesAt(Copied(m), D, L)
<1> DEFINE c == Copied(m)
<1>1. c.hdr = m.hdr /\ c.dir = m.dir /\ ToSet(m.buf) \subseteq ToSet(c.buf)
  BY CopiedOK, CopiedPlaced
<1> HIDE DEF c
<1>2. EntriesAt(c, D, L)
  BY <1>1 DEF EntriesAt
<1> QED
  BY <1>2 DEF c

(* dir_clean_vol leaves the entries of the turn that has ended: all of them*)
(* are on the disk, as nothing was in the buffer.                          *)
LEMMA WrappedEntries ==
  ASSUME NEW m, VolOK(m), m.buf = <<>>, NEW D, NEW L, EntriesAt(m, D, L)
  PROVE  EntriesAt(Wrapped(m), D, L)
<1> DEFINE h == [m.hdr EXCEPT !.writePos = Start, !.aggPos = Start, !.phase = ~@, !.dirty = TRUE]
           d == {e \in m.dir : Valid(e, h, 0)}
           c == Wrapped(m)
<1>1. m \in Volumes /\ m.hdr \in Header /\ m.dir \in SUBSET Docs
  BY VolumeParts DEF VolOK
<1>2. c.hdr = h /\ c.dir = d
  BY <1>1 DEF Wrapped, Volumes
<1>3. h.phase = ~m.hdr.phase /\ h.writePos = Start /\ h.aggPos = Start /\ m.hdr.phase \in BOOLEAN
  BY <1>1 DEF Header
<1> HIDE DEF h, c
<1>4. ASSUME NEW e \in d \ L
      PROVE  e.phase # h.phase /\ Held(e, D)
  <2>1. e \in Docs /\ e.phase \in BOOLEAN /\ e.pos \in Blocks
    BY <1>1, DocParts
  <2>2. Valid(e, h, 0) /\ e \in m.dir \ L
    OBVIOUS
  <2>3. e.phase # h.phase
    <3> SUFFICES ASSUME e.phase = h.phase PROVE FALSE
      OBVIOUS
    <3>1. e.pos < Start + 0
      BY <1>3, <2>2 DEF Valid
    <3> QED
      BY <2>1, <3>1 DEF Blocks
  <2>4. e.phase = m.hdr.phase
    BY <1>3, <2>1, <2>3
  <2>5. ToSet(m.buf) = {}
    BY PlacedEmpty
  <2>6. m.hdr.writePos \in Nat /\ e.pos \in Nat
    BY <1>1, <2>1, HeaderParts DEF Blocks
  <2>7. e.pos < m.hdr.writePos
    BY <2>2, <2>4, <2>5, <2>6 DEF EntriesAt
  <2>8. Held(e, D)
    BY <2>2, <2>4, <2>7 DEF EntriesAt
  <2> QED
    BY <2>3, <2>8
<1> HIDE DEF d
<1>5. EntriesAt(c, D, L)
  BY <1>2, <1>4 DEF EntriesAt
<1> QED
  BY <1>5 DEF c

LEMMA WrappedLimits ==
  ASSUME NEW m, VolOK(m)
  PROVE  /\ Wrapped(m).hdr.writePos = Start /\ Wrapped(m).hdr.aggPos = Start
         /\ Wrapped(m).hdr.phase # m.hdr.phase
<1>1. m \in Volumes /\ m.hdr \in Header
  BY VolumeParts DEF VolOK
<1> QED
  BY <1>1 DEF Wrapped, Volumes, Header

LEMMA IssuedEntries ==
  ASSUME NEW m, VolOK(m), ~m.io, Placed(m), Limited(m.hdr), NEW D, NEW L
  PROVE  LET c == Issued(m) IN
           /\ Placed(c) /\ Limits(c)
           /\ c.hdr.phase = m.hdr.phase /\ c.hdr.writePos = m.hdr.writePos
           /\ EntriesAt(m, D, L) /\ m.hdr.aggPos <= c.hdr.aggPos => EntriesAt(c, D, L)
<1> DEFINE c == [m EXCEPT !.hdr.aggPos = m.hdr.writePos + BufLen(m), !.io = TRUE]
<1>1. /\ m \in Volumes /\ m.hdr \in Header /\ m.buf \in Seq(Docs) /\ BufLen(m) \in Nat
      /\ BufLen(m) <= AggSize /\ m.dir \in SUBSET Docs
  BY VolumeParts DEF VolOK, Room
<1>2. CASE Issued(m) = m
  BY <1>2 DEF Limits
<1>3. CASE Issued(m) = c
  <2>1. /\ c.buf = m.buf /\ c.dir = m.dir /\ c.hdr.writePos = m.hdr.writePos
        /\ c.hdr.phase = m.hdr.phase /\ c.hdr.sync = m.hdr.sync /\ c.hdr.ser = m.hdr.ser
        /\ c.hdr.aggPos = m.hdr.writePos + BufLen(m)
    BY <1>1 DEF Volumes, Header
  <2> HIDE DEF c
  <2>2. BufLen(c) = BufLen(m)
    BY <1>1, <2>1, BufLenIs
  <2>3. Placed(c)
    BY <2>1, <2>2 DEF Placed, Stamped
  <2>4. Limits(c)
    <3>1. m.hdr.writePos \in Nat /\ AggSize \in Nat
      BY <1>1, HeaderParts
    <3> QED
      BY <1>1, <2>1, <2>2, <3>1 DEF Limits, Limited
  <2>5. ASSUME EntriesAt(m, D, L), m.hdr.aggPos <= c.hdr.aggPos PROVE EntriesAt(c, D, L)
    <3>1. m.hdr.aggPos \in Nat /\ c.hdr.aggPos \in Nat
      BY <1>1, <2>1, HeaderParts
    <3>2. ASSUME NEW e \in m.dir, e.pos >= c.hdr.aggPos PROVE e.pos >= m.hdr.aggPos
      <4>1. e.pos \in Nat
        BY <1>1, DocParts
      <4> QED
        BY <2>5, <3>1, <3>2, <4>1
    <3> QED
      BY <2>1, <2>5, <3>2 DEF EntriesAt
  <2> QED
    BY <1>3, <2>1, <2>3, <2>4, <2>5
<1>4. Issued(m) = m \/ Issued(m) = c
  BY DEF Issued
<1> QED
  BY <1>2, <1>3, <1>4

(* Vol::aggWrite leaves every entry leading to its document, if it does not*)
(* set the write limit back; it does not if no write has failed.           *)
LEMMA AggWriteEntries ==
  ASSUME NEW m, VolOK(m), ~m.io, m.waiting => m.buf # <<>>, Placed(m), Limited(m.hdr),
         NEW D, NEW L
  PROVE  LET c == AggWrite(m) IN
           /\ Placed(c) /\ Limits(c)
           /\ m.hdr.aggPos = m.hdr.writePos => Onward(m, c)
           /\ EntriesAt(m, D, L) /\ Onward(m, c) => EntriesAt(c, D, L)
<1> DEFINE c == Copied(m)
           w == Wrapped(c)
           x == Copied(w)
<1>1. VolOK(c) /\ c.hdr = m.hdr /\ c.io = m.io /\ Placed(c)
  BY CopiedOK, CopiedPlaced
<1>2. EntriesAt(m, D, L) => EntriesAt(c, D, L)
  BY CopiedEntries
<1> HIDE DEF c
<1>3. CASE c.buf = <<>> /\ c.queue # <<>>
  <2>1. VolOK(w) /\ w.io = c.io /\ w.buf = <<>>
    BY <1>1, <1>3, WrappedOK
  <2>2. EntriesAt(c, D, L) => EntriesAt(w, D, L)
    BY <1>1, <1>3, WrappedEntries
  <2>3. /\ w.hdr.writePos = Start /\ w.hdr.aggPos = Start /\ w.hdr.phase # m.hdr.phase
        /\ Start \in Nat /\ AggSize \in Nat
    BY <1>1, WrappedLimits, VolumeParts, HeaderParts
  <2> HIDE DEF w
  <2>4. Placed(w)
    BY <2>1, PlacedEmpty
  <2>5. VolOK(x) /\ x.hdr = w.hdr /\ x.io = w.io /\ Placed(x)
    BY <2>1, <2>4, CopiedOK, CopiedPlaced
  <2>6. EntriesAt(w, D, L) => EntriesAt(x, D, L)
    BY <2>1, <2>4, CopiedEntries
  <2>7. AggWrite(m) = Issued(x)
    BY <1>3 DEF AggWrite, c, w
  <2> HIDE DEF x
  <2>8. ~x.io /\ Limited(x.hdr)
    BY <1>1, <2>1, <2>3, <2>5 DEF Limited
  <2>9. /\ Placed(Issued(x)) /\ Limits(Issued(x))
        /\ Issued(x).hdr.phase = x.hdr.phase /\ Issued(x).hdr.writePos = x.hdr.writePos
        /\ EntriesAt(x, D, L) /\ x.hdr.aggPos <= Issued(x).hdr.aggPos => EntriesAt(Issued(x), D, L)
    BY <2>5, <2>8, IssuedEntries
  <2>10. x.hdr.aggPos <= Issued(x).hdr.aggPos
    BY <2>3, <2>5, <2>9 DEF Limits, Limited
  <2>11. Onward(m, Issued(x))
    BY <2>3, <2>5, <2>9 DEF Onward
  <2> QED
    BY <1>2, <2>2, <2>6, <2>7, <2>9, <2>10, <2>11
<1>4. CASE ~(c.buf = <<>> /\ c.queue # <<>>)
  <2>1. AggWrite(m) = Issued(c)
    BY <1>4 DEF AggWrite, c
  <2>2. /\ Placed(Issued(c)) /\ Limits(Issued(c))
        /\ Issued(c).hdr.phase = c.hdr.phase /\ Issued(c).hdr.writePos = c.hdr.writePos
        /\ EntriesAt(c, D, L) /\ c.hdr.aggPos <= Issued(c).hdr.aggPos => EntriesAt(Issued(c), D, L)
    BY <1>1, IssuedEntries
  <2>3. m.hdr.aggPos = m.hdr.writePos => Onward(m, Issued(c))
    BY <1>1, <2>2 DEF Limits, Limited, Onward
  <2>4. Onward(m, Issued(c)) => c.hdr.aggPos <= Issued(c).hdr.aggPos
    BY <1>1, <2>2 DEF Onward
  <2> QED
    BY <1>2, <2>1, <2>2, <2>3, <2>4
<1> QED
  BY <1>3, <1>4

-----------------------------------------------------------------------------
(* The invariant for entries, until the first crash.                       *)

(* No writer was late and no write shorter than a failed one before it.    *)
Plain == seen \cap {"late", "set back"} = {}

EntriesOK ==
  /\ Placed(vol) /\ Limits(vol)
  /\ Plain => EntriesAt(vol, disk, lost)

EntryInv ==
  /\ crashes \in Nat
  /\ crashes = 0 => mode = "up" /\ EntriesOK

LEMMA BlockPlaces ==
  ASSUME NEW d \in Docs, NEW b \in BlocksOf(d)
  PROVE  b \in Blocks /\ b \in Nat /\ d.pos <= b /\ b < d.pos + d.len
<1>1. /\ d.pos \in Blocks /\ d.len \in Nat /\ d.pos + d.len <= End
  BY DocParts DEF Docs
<1> QED
  BY <1>1 DEF BlocksOf, Blocks

(* What a write that succeeds stores.                                      *)
LEMMA StoredWhole ==
  ASSUME NEW ds \in SUBSET Docs, NEW p, NEW q, Paved(ds, p, q),
         NEW d \in ds, NEW b \in BlocksOf(d)
  PROVE  Stored(ds, Blocks)[b] = <<d, b - d.pos>>
<1>1. b \in Blocks /\ b \in Nat /\ d.pos <= b /\ b < d.pos + d.len
  BY BlockPlaces
<1> DEFINE f == CHOOSE x \in ds : b \in BlocksOf(x)
<1>2. f \in ds /\ b \in BlocksOf(f)
  OBVIOUS
<1>3. Stored(ds, Blocks)[b] = <<f, b - f.pos>>
  BY <1>1 DEF Stored
<1> HIDE DEF f
<1>4. f.pos <= b /\ b < f.pos + f.len
  BY <1>2, BlockPlaces
<1>5. /\ d.pos \in Nat /\ d.len \in Nat /\ f.pos \in Nat /\ f.len \in Nat
  BY <1>2, DocParts
<1>6. d = f
  BY <1>1, <1>2, <1>4, <1>5 DEF Paved
<1> QED
  BY <1>3, <1>6

(* What a write leaves.                                                    *)
LEMMA StoredElsewhere ==
  ASSUME NEW ds, NEW S, NEW b \in Blocks, \A d \in ds : b \notin BlocksOf(d)
  PROVE  Stored(ds, S)[b] = disk[b]
BY DEF Stored

LEMMA StoredSome ==
  ASSUME NEW ds, NEW S, NEW b \in Blocks
  PROVE  Stored(ds, S)[b] = disk[b] \/ Stored(ds, S)[b][1] \in ds
<1>1. CASE b \in S /\ \E d \in ds : b \in BlocksOf(d)
  <2> DEFINE d == CHOOSE x \in ds : b \in BlocksOf(x)
  <2>1. d \in ds
    BY <1>1
  <2>2. Stored(ds, S)[b] = <<d, b - d.pos>>
    BY <1>1 DEF Stored
  <2> HIDE DEF d
  <2> QED
    BY <2>1, <2>2
<1>2. CASE ~(b \in S /\ \E d \in ds : b \in BlocksOf(d))
  BY <1>2 DEF Stored
<1> QED
  BY <1>1, <1>2

LEMMA StoredBeyond ==
  ASSUME NEW ds \in SUBSET Docs, NEW w \in Nat, NEW n \in Nat, Paved(ds, w, n), NEW S,
         disk' = Stored(ds, S), NEW e \in Docs, e.pos + e.len <= w \/ e.pos >= n, Held(e, disk)
  PROVE  Held(e, disk')
<1> SUFFICES ASSUME NEW b \in BlocksOf(e) PROVE disk'[b] = disk[b]
  BY DEF Held
<1>1. b \in Blocks /\ b \in Nat /\ e.pos <= b /\ b < e.pos + e.len
  BY BlockPlaces
<1>2. ASSUME NEW d \in ds PROVE b \notin BlocksOf(d)
  <2>1. /\ w <= d.pos /\ d.pos + d.len <= n /\ d.pos \in Nat /\ d.len \in Nat
        /\ e.pos \in Nat /\ e.len \in Nat
    BY DocParts DEF Paved
  <2>2. ASSUME b \in BlocksOf(d) PROVE FALSE
    <3>1. d.pos <= b /\ b < d.pos + d.len
      BY <2>2, BlockPlaces
    <3> QED
      BY <1>1, <2>1, <3>1, SMTT(20)
  <2> QED
    BY <2>2
<1> QED
  BY <1>1, <1>2, StoredElsewhere

LEMMA SyncStartedEntries ==
  ASSUME NEW m, VolOK(m), NEW D, NEW L
  PROVE  LET s == SyncStarted(m) IN
           /\ s.hdr.writePos = m.hdr.writePos /\ s.hdr.aggPos = m.hdr.aggPos
           /\ s.hdr.phase = m.hdr.phase
           /\ EntriesAt(m, D, L) => EntriesAt(s, D, L)
<1> DEFINE s == SyncStarted(m)
<1>1. m \in Volumes /\ m.hdr \in Header
  BY VolumeParts DEF VolOK
<1>2. /\ s.hdr.writePos = m.hdr.writePos /\ s.hdr.aggPos = m.hdr.aggPos
      /\ s.hdr.phase = m.hdr.phase /\ s.dir = m.dir /\ s.buf = m.buf
  BY <1>1 DEF SyncStarted, Volumes, Header
<1> HIDE DEF s
<1>3. EntriesAt(m, D, L) => EntriesAt(s, D, L)
  BY <1>2 DEF EntriesAt
<1> QED
  BY <1>2, <1>3 DEF s

(* The end of aggWriteDone.                                                *)
LEMMA AfterWriteEntries ==
  ASSUME NEW m, VolOK(m), ~m.io, m.buf = <<>>, Limited(m.hdr), AfterWrite(m), NEW D, NEW L
  PROVE  /\ Placed(vol') /\ Limits(vol')
         /\ m.hdr.aggPos = m.hdr.writePos => Onward(m, vol')
         /\ EntriesAt(m, D, L) /\ Onward(m, vol') => EntriesAt(vol', D, L)
<1> DEFINE begins == m.waiting /\ m.hdr.dirty
           s == IF begins THEN SyncStarted(m) ELSE m
           f == [s EXCEPT !.waiting = FALSE]
<1>1. VolOK(s) /\ ~s.io /\ s.buf = <<>>
  BY SyncStartedOK
<1>2. /\ s.hdr.writePos = m.hdr.writePos /\ s.hdr.aggPos = m.hdr.aggPos
      /\ s.hdr.phase = m.hdr.phase
      /\ EntriesAt(m, D, L) => EntriesAt(s, D, L)
  BY SyncStartedEntries
<1>3. vol' = AggWrite(f)
  BY DEF AfterWrite
<1> HIDE DEF s
<1>4. s \in Volumes /\ Room(s) /\ s.buf \in Seq(Docs)
  BY <1>1, VolumeParts DEF VolOK
<1>5. /\ f \in Volumes /\ ~f.io /\ ~f.waiting /\ f.buf = s.buf /\ f.hdr = s.hdr
      /\ f.queue = s.queue /\ f.made = s.made /\ f.dir = s.dir
  BY <1>1, <1>4 DEF Volumes
<1> HIDE DEF f
<1>6. VolOK(f)
  <2>1. BufLen(f) = BufLen(s)
    BY <1>4, <1>5, BufLenIs
  <2> QED
    BY <1>4, <1>5, <2>1 DEF VolOK, Room
<1>7. Placed(f) /\ Limited(f.hdr)
  BY <1>1, <1>2, <1>5, <1>6, PlacedEmpty DEF Limited
<1>8. EntriesAt(s, D, L) => EntriesAt(f, D, L)
  BY <1>5 DEF EntriesAt
<1>9. /\ Placed(vol') /\ Limits(vol')
      /\ f.hdr.aggPos = f.hdr.writePos => Onward(f, vol')
      /\ EntriesAt(f, D, L) /\ Onward(f, vol') => EntriesAt(vol', D, L)
  BY <1>3, <1>5, <1>6, <1>7, AggWriteEntries
<1>10. Onward(f, vol') <=> Onward(m, vol')
  BY <1>2, <1>5 DEF Onward
<1> QED
  BY <1>2, <1>5, <1>8, <1>9, <1>10

(* A write that succeeds: what was in the buffer is on the disk, before the*)
(* new write position, and the entries behind that are not touched.        *)
LEMMA WriteDoneFirst ==
  ASSUME IInv, EntriesOK, WriteDone
  PROVE  \E m : /\ VolOK(m) /\ ~m.io /\ m.buf = <<>> /\ m.waiting = vol.waiting
                /\ Limited(m.hdr) /\ AfterWrite(m)
                /\ m.hdr.writePos = vol.hdr.writePos + BufLen(vol)
                /\ m.hdr.aggPos = m.hdr.writePos
                /\ m.hdr.lastWritePos = vol.hdr.writePos /\ m.hdr.phase = vol.hdr.phase
                /\ m.hdr.sync = vol.hdr.sync /\ m.hdr.ser = vol.hdr.ser + 1
                /\ Plain => EntriesAt(m, disk', lost')
<1> DEFINE h == [vol.hdr EXCEPT !.lastWritePos = vol.hdr.writePos,
                                !.writePos = @ + BufLen(vol), !.ser = @ + 1]
           m == [vol EXCEPT !.hdr = h, !.buf = <<>>, !.io = FALSE]
           ds == ToSet(vol.buf)
           w == vol.hdr.writePos
           n == w + BufLen(vol)
<1>1. VolOK(vol) /\ mode = "up" /\ vol.io /\ UNCHANGED <<mode, crashes, lost>>
      /\ disk' = Stored(ds, Blocks)
  BY DEF IInv, TypeInv, WriteDone
<1>3. /\ vol \in Volumes /\ vol.hdr \in Header /\ vol.buf \in Seq(Docs) /\ BufLen(vol) \in Nat
      /\ vol.hdr.writePos + BufLen(vol) <= End /\ vol.dir \in SUBSET Docs
      /\ vol.made + Len(vol.queue) <= MaxDocs
  BY <1>1, VolumeParts DEF VolOK
<1>4. /\ h \in Header /\ h.writePos = n /\ h.phase = vol.hdr.phase /\ h.aggPos = vol.hdr.aggPos
      /\ h.lastWritePos = w /\ h.sync = vol.hdr.sync /\ h.ser = vol.hdr.ser + 1
      /\ w \in Nat /\ n \in Nat
  <2>1. vol.hdr.writePos + BufLen(vol) \in Start .. End /\ vol.hdr.ser + 1 \in Nat
        /\ vol.hdr.writePos \in Start .. End
    BY <1>1, WriteEnds
  <2>2. w \in Nat /\ n \in Nat
    BY <1>3, HeaderParts
  <2>3. /\ h \in Header /\ h.writePos = n /\ h.phase = vol.hdr.phase
        /\ h.aggPos = vol.hdr.aggPos /\ h.lastWritePos = w /\ h.sync = vol.hdr.sync
        /\ h.ser = vol.hdr.ser + 1
    BY <1>3, <2>1 DEF Header
  <2> QED
    BY <2>2, <2>3
<1>5. [vol EXCEPT !.hdr.lastWritePos = vol.hdr.writePos,
                  !.hdr.writePos = @ + BufLen(vol), !.hdr.ser = @ + 1,
                  !.buf = <<>>, !.io = FALSE] = m
  BY <1>3 DEF Volumes, Header
<1>6. AfterWrite(m)
  <2>1. AfterWrite([vol EXCEPT !.hdr.lastWritePos = vol.hdr.writePos,
                            !.hdr.writePos = @ + BufLen(vol), !.hdr.ser = @ + 1,
                            !.buf = <<>>, !.io = FALSE])
    BY DEF WriteDone
  <2> QED
    BY <1>5, <2>1
<1> HIDE DEF h
<1>7. /\ m \in Volumes /\ m.hdr = h /\ m.buf = <<>> /\ ~m.io /\ m.dir = vol.dir
      /\ m.made = vol.made /\ m.queue = vol.queue /\ m.waiting = vol.waiting
  <2>1. <<>> \in Seq(Docs)
    OBVIOUS
  <2>2. m \in Volumes
    BY <1>3, <1>4, <2>1 DEF Volumes
  <2> QED
    BY <1>3, <2>2 DEF Volumes
<1> HIDE DEF m
<1>8. VolOK(m)
  <2>1. BufLen(m) = 0
    <3>1. m.buf \in Seq(Docs)
      BY <1>7
    <3> QED
      BY <1>7, <3>1, BufLenIs, BytesOfNone
  <2> QED
    BY <1>3, <1>4, <1>7, <2>1, HeaderParts DEF VolOK, Room
<1>9. Placed(vol) /\ Limits(vol) /\ (Plain => EntriesAt(vol, disk, lost))
  BY DEF EntriesOK
<1>10. Limited(m.hdr) /\ m.hdr.aggPos = m.hdr.writePos /\ vol.hdr.aggPos = n
  <2>1. vol.hdr.aggPos = n /\ AggSize \in Nat
    BY <1>1, <1>3, <1>9, HeaderParts DEF Limits
  <2> QED
    BY <1>4, <1>7, <2>1 DEF Limited
<1>11. Paved(ds, w, n) /\ ds \in SUBSET Docs
  BY <1>3, <1>9, BufferedDocs DEF Placed
<1> HIDE DEF ds, n, w
<1>12. ASSUME NEW e \in Docs, e.pos + e.len <= w \/ e.pos >= n, Held(e, disk)
       PROVE  Held(e, disk')
  BY <1>1, <1>4, <1>11, <1>12, StoredBeyond
<1>13. ASSUME NEW e \in ds PROVE Held(e, disk') /\ e.pos + e.len <= n /\ e.pos < n
  <2>1. \A b \in BlocksOf(e) : disk'[b] = <<e, b - e.pos>>
    BY <1>1, <1>11, StoredWhole
  <2>2. e.pos + e.len <= n /\ e.pos \in Nat /\ e.len \in Nat /\ e.len > 0
    BY <1>11, DocParts DEF Paved, Docs, Lengths
  <2> QED
    BY <1>4, <2>1, <2>2 DEF Held
<1>14. EntriesAt(vol, disk, lost) => EntriesAt(m, disk', lost)
  <2> SUFFICES ASSUME EntriesAt(vol, disk, lost), NEW e \in vol.dir \ lost
               PROVE  /\ e.phase = vol.hdr.phase /\ e.pos < n =>
                           e.pos + e.len <= n /\ Held(e, disk')
                      /\ ~(e.phase = vol.hdr.phase /\ e.pos >= n)
                      /\ e.phase # vol.hdr.phase /\ e.pos >= n => Held(e, disk')
    BY <1>4, <1>7, <1>10 DEF EntriesAt
  <2>1. e \in Docs /\ e.pos \in Nat /\ e.len \in Nat
    BY <1>3, DocParts
  <2>2. w <= n
    BY <1>3, <1>4 DEF w, n
  <2>3. CASE e.phase = vol.hdr.phase /\ e.pos < w
    <3>1. e.pos + e.len <= w /\ Held(e, disk)
      BY <2>3 DEF EntriesAt, w
    <3>2. Held(e, disk')
      BY <1>12, <2>1, <3>1
    <3> QED
      BY <1>4, <2>1, <2>2, <2>3, <3>1, <3>2
  <2>4. CASE e.phase = vol.hdr.phase /\ e.pos >= w
    <3>1. e \in ds
      BY <2>4 DEF EntriesAt, w, ds
    <3> QED
      BY <1>4, <1>13, <2>1, <3>1
  <2>5. CASE e.phase # vol.hdr.phase
    <3> SUFFICES ASSUME e.pos >= n PROVE Held(e, disk')
      BY <2>5
    <3>2. Held(e, disk)
      BY <1>10, <2>5 DEF EntriesAt
    <3> QED
      BY <1>12, <2>1, <3>2
  <2> QED
    BY <1>4, <2>1, <2>3, <2>4, <2>5
<1>15. m.hdr.writePos = n /\ m.hdr.lastWritePos = w
  BY <1>4, <1>7
<1> QED
  BY <1>1, <1>4, <1>6, <1>7, <1>8, <1>9, <1>10, <1>14, <1>15 DEF n, w

LEMMA WriteDoneEntries ==
  ASSUME IInv, EntriesOK, WriteDone
  PROVE  EntriesOK'
<1>1. PICK m : /\ VolOK(m) /\ ~m.io /\ m.buf = <<>> /\ Limited(m.hdr)
               /\ m.hdr.aggPos = m.hdr.writePos
               /\ AfterWrite(m) /\ (Plain => EntriesAt(m, disk', lost'))
  BY WriteDoneFirst
<1>2. Plain' => Plain
  BY DEF WriteDone, Plain
<1>3. /\ Placed(vol') /\ Limits(vol')
      /\ EntriesAt(m, disk', lost') => EntriesAt(vol', disk', lost')
  BY <1>1, AfterWriteEntries
<1> QED
  BY <1>1, <1>2, <1>3 DEF EntriesOK

(* A write that fails: its documents are lost, and what it may have changed*)
(* is between the write position and the limit.                            *)
LEMMA WriteFailFirst ==
  ASSUME IInv, EntriesOK, WriteFail
  PROVE  \E m : /\ VolOK(m) /\ ~m.io /\ m.buf = <<>> /\ m.waiting = vol.waiting
                /\ m.hdr = vol.hdr /\ Limited(m.hdr) /\ AfterWrite(m)
                /\ Plain => EntriesAt(m, disk', lost')
<1> DEFINE ds == ToSet(vol.buf)
           d == {e \in vol.dir : e \notin ds \/ VolOffset(e.pos) # DeletedOffset(e.pos)}
           m == [vol EXCEPT !.dir = d, !.buf = <<>>, !.io = FALSE]
<1>1. VolOK(vol) /\ mode = "up" /\ vol.io /\ UNCHANGED <<mode, crashes>> /\ lost' = lost \cup ds
  BY DEF IInv, TypeInv, WriteFail
<1>3. /\ vol \in Volumes /\ vol.hdr \in Header /\ vol.buf \in Seq(Docs)
      /\ vol.dir \in SUBSET Docs /\ vol.made + Len(vol.queue) <= MaxDocs
  BY <1>1, VolumeParts DEF VolOK
<1>4. d \in SUBSET Docs /\ d \subseteq vol.dir
  BY <1>3
<1>5. AfterWrite(m) /\ \E S : disk' = Stored(ds, S)
  BY DEF WriteFail
<1>6. PICK S : disk' = Stored(ds, S)
  BY <1>5
<1> HIDE DEF d
<1>7. /\ m \in Volumes /\ m.hdr = vol.hdr /\ m.buf = <<>> /\ ~m.io /\ m.dir = d
      /\ m.made = vol.made /\ m.queue = vol.queue /\ m.waiting = vol.waiting
  <2>1. <<>> \in Seq(Docs)
    OBVIOUS
  <2>2. m \in Volumes
    BY <1>3, <1>4, <2>1 DEF Volumes
  <2> QED
    BY <1>3, <2>2 DEF Volumes
<1> HIDE DEF m
<1>8. VolOK(m)
  <2>1. BufLen(m) = 0
    <3>1. m.buf \in Seq(Docs)
      BY <1>7
    <3> QED
      BY <1>7, <3>1, BufLenIs, BytesOfNone
  <2> QED
    BY <1>3, <1>7, <2>1, HeaderParts DEF VolOK, Room
<1>9. Placed(vol) /\ Limits(vol) /\ (Plain => EntriesAt(vol, disk, lost))
  BY DEF EntriesOK
<1>10. Limited(m.hdr)
  BY <1>7, <1>9 DEF Limits
<1> DEFINE w == vol.hdr.writePos
           n == vol.hdr.aggPos
<1>11. Paved(ds, w, n) /\ ds \in SUBSET Docs /\ w \in Nat /\ n \in Nat /\ w <= n
  <2>1. n = w + BufLen(vol) /\ w <= n
    BY <1>1, <1>9 DEF Limits, Limited
  <2> QED
    BY <1>3, <1>9, <2>1, BufferedDocs, HeaderParts DEF Placed
<1> HIDE DEF ds, w, n
<1>12. ASSUME NEW e \in Docs, e.pos + e.len <= w \/ e.pos >= n, Held(e, disk)
       PROVE  Held(e, disk')
  BY <1>6, <1>11, <1>12, StoredBeyond
<1>13. EntriesAt(vol, disk, lost) => EntriesAt(m, disk', lost')
  <2> SUFFICES ASSUME EntriesAt(vol, disk, lost), NEW e \in m.dir \ lost'
               PROVE  /\ e.phase = vol.hdr.phase /\ e.pos < w => e.pos + e.len <= w /\ Held(e, disk')
                      /\ ~(e.phase = vol.hdr.phase /\ e.pos >= w)
                      /\ e.phase # vol.hdr.phase /\ e.pos >= n => Held(e, disk')
    BY <1>7 DEF EntriesAt, w, n
  <2>1. e \in Docs /\ e \in vol.dir \ lost /\ e \notin ds
    BY <1>1, <1>3, <1>4, <1>7
  <2>2. /\ e.phase = vol.hdr.phase /\ e.pos < w => e.pos + e.len <= w /\ Held(e, disk)
        /\ e.phase = vol.hdr.phase /\ e.pos >= w => e \in ds
        /\ e.phase # vol.hdr.phase /\ e.pos >= n => Held(e, disk)
    BY <2>1 DEF EntriesAt, w, n, ds
  <2> QED
    BY <1>12, <2>1, <2>2
<1> QED
  BY <1>5, <1>7, <1>8, <1>9, <1>10, <1>13

LEMMA WriteFailEntries ==
  ASSUME IInv, EntriesOK, WriteFail
  PROVE  EntriesOK'
<1>1. PICK m : /\ VolOK(m) /\ ~m.io /\ m.buf = <<>> /\ Limited(m.hdr) /\ m.hdr = vol.hdr
               /\ AfterWrite(m) /\ (Plain => EntriesAt(m, disk', lost'))
  BY WriteFailFirst
<1>2. Plain' => Plain /\ Onward(m, vol')
  <2> SUFFICES ASSUME Plain' PROVE Plain /\ Onward(m, vol')
    OBVIOUS
  <2>1. seen' = seen \cup Rounds \cup TornTurns \cup SetBack(vol')
    BY DEF WriteFail
  <2>2. Plain /\ SetBack(vol') = {}
    BY <2>1, SetBackOK DEF Plain
  <2>3. VolOK(vol) /\ VolOK(vol')
    BY WriteFailStep DEF IInv, TypeInv
  <2>4. Onward(vol, vol')
    BY <2>2, <2>3, NotSetBack, VolumeParts
  <2> QED
    BY <1>1, <2>2, <2>4 DEF Onward
<1>3. /\ Placed(vol') /\ Limits(vol')
      /\ EntriesAt(m, disk', lost') /\ Onward(m, vol') => EntriesAt(vol', disk', lost')
  BY <1>1, AfterWriteEntries
<1> QED
  BY <1>1, <1>2, <1>3 DEF EntriesOK

(* A document is queued, and maybe written.                                *)
LEMMA WriteEntries ==
  ASSUME IInv, EntriesOK, NEW l \in Lengths, Write(l)
  PROVE  EntriesOK'
<1> DEFINE m == [vol EXCEPT !.queue = Append(@, l)]
<1>1. VolOK(vol) /\ mode = "up" /\ vol.made + Len(vol.queue) < MaxDocs
      /\ UNCHANGED <<mode, disk, crashes, lost>> /\ seen' = seen \cup SetBack(vol')
  BY DEF IInv, TypeInv, Write
<1>2. /\ vol \in Volumes /\ vol.queue \in Seq(Lengths) /\ vol.buf \in Seq(Docs)
      /\ vol.made \in 0 .. MaxDocs /\ Len(vol.queue) \in Nat
      /\ vol.io \in BOOLEAN /\ vol.waiting \in BOOLEAN
  BY <1>1, VolumeParts DEF VolOK
<1>3. Append(vol.queue, l) \in Seq(Lengths) /\ Len(Append(vol.queue, l)) = Len(vol.queue) + 1
  BY <1>2, AppendProperties
<1>4. m \in Volumes
  BY <1>2, <1>3 DEF Volumes
<1>5. /\ m.hdr = vol.hdr /\ m.buf = vol.buf /\ m.io = vol.io /\ m.waiting = vol.waiting
      /\ m.made = vol.made /\ m.queue = Append(vol.queue, l) /\ m.dir = vol.dir
  BY <1>2 DEF Volumes
<1>6. vol' = IF vol.io THEN m ELSE AggWrite(m)
  BY DEF Write
<1> HIDE DEF m
<1>7. BufLen(m) = BufLen(vol)
  BY <1>2, <1>5, BufLenIs
<1>8. VolOK(m)
  <2>1. m.made + Len(m.queue) <= MaxDocs
    BY <1>1, <1>2, <1>3, <1>5
  <2> QED
    BY <1>1, <1>4, <1>5, <1>7, <2>1 DEF VolOK, Room
<1>0. Plain' => Plain /\ Onward(vol, vol')
  <2>1. Plain' => Plain /\ SetBack(vol') = {}
    BY <1>1, SetBackOK DEF Plain
  <2>2. vol'.hdr \in Header
    BY WriteStep, VolumeParts DEF IInv, TypeInv
  <2> QED
    BY <1>1, <2>1, <2>2, NotSetBack
<1> SUFFICES /\ Placed(vol') /\ Limits(vol')
             /\ Plain /\ Onward(vol, vol') => EntriesAt(vol', disk, lost)
  BY <1>0, <1>1 DEF EntriesOK
<1>9. Placed(vol) /\ Limits(vol) /\ (Plain => EntriesAt(vol, disk, lost))
  BY DEF EntriesOK
<1>10. Placed(m) /\ Limits(m) /\ (EntriesAt(vol, disk, lost) => EntriesAt(m, disk, lost))
  BY <1>5, <1>7, <1>9 DEF Placed, Limits, EntriesAt
<1>11. CASE vol.io
  BY <1>6, <1>9, <1>10, <1>11
<1>12. CASE ~vol.io
  <2>1. ~m.waiting /\ ~m.io /\ vol' = AggWrite(m)
    BY <1>1, <1>5, <1>6, <1>12 DEF IInv, NothingForgotten
  <2>2. Limited(m.hdr)
    BY <1>10 DEF Limits
  <2>3. /\ Placed(vol') /\ Limits(vol')
        /\ EntriesAt(m, disk, lost) /\ Onward(m, vol') => EntriesAt(vol', disk, lost)
    BY <1>8, <1>10, <2>1, <2>2, AggWriteEntries
  <2>4. Onward(vol, vol') => Onward(m, vol')
    BY <1>5 DEF Onward
  <2> QED
    BY <1>9, <1>10, <2>3, <2>4
<1> QED
  BY <1>11, <1>12

(* A sync begins, or asks for the buffer to be written first.              *)
LEMMA SyncEventEntries ==
  ASSUME IInv, EntriesOK, SyncEvent
  PROVE  EntriesOK'
<1>1. VolOK(vol) /\ mode = "up" /\ UNCHANGED <<mode, disk, crashes, lost>>
      /\ seen' = seen \cup SetBack(vol')
  BY DEF IInv, TypeInv, SyncEvent
<1>2. vol \in Volumes /\ vol.buf \in Seq(Docs) /\ Room(vol)
  BY <1>1, VolumeParts DEF VolOK
<1>0. Plain' => Plain /\ Onward(vol, vol')
  <2>1. Plain' => Plain /\ SetBack(vol') = {}
    BY <1>1, SetBackOK DEF Plain
  <2>2. vol'.hdr \in Header
    BY SyncEventStep, VolumeParts DEF IInv, TypeInv
  <2> QED
    BY <1>1, <2>1, <2>2, NotSetBack
<1> SUFFICES /\ Placed(vol') /\ Limits(vol')
             /\ Plain /\ Onward(vol, vol') => EntriesAt(vol', disk, lost)
  BY <1>0, <1>1 DEF EntriesOK
<1>3. Placed(vol) /\ Limits(vol) /\ (Plain => EntriesAt(vol, disk, lost))
  BY DEF EntriesOK
<1>4. CASE vol.io \/ vol.buf # <<>>
  <2> DEFINE m == [vol EXCEPT !.waiting = TRUE]
  <2>1. vol' = IF vol.io THEN m ELSE AggWrite(m)
    BY <1>4 DEF SyncEvent
  <2>2. /\ m \in Volumes /\ m.hdr = vol.hdr /\ m.buf = vol.buf /\ m.io = vol.io
        /\ m.made = vol.made /\ m.queue = vol.queue /\ m.dir = vol.dir
    BY <1>2 DEF Volumes
  <2> HIDE DEF m
  <2>3. BufLen(m) = BufLen(vol)
    BY <1>2, <2>2, BufLenIs
  <2>4. VolOK(m)
    BY <1>2, <2>2, <2>3 DEF VolOK, Room
  <2>5. Placed(m) /\ Limits(m) /\ (EntriesAt(vol, disk, lost) => EntriesAt(m, disk, lost))
    BY <1>3, <2>2, <2>3 DEF Placed, Limits, EntriesAt
  <2>6. CASE vol.io
    BY <1>3, <2>1, <2>5, <2>6
  <2>7. CASE ~vol.io
    <3>1. ~m.io /\ m.buf # <<>> /\ vol' = AggWrite(m)
      BY <1>4, <2>1, <2>2, <2>7
    <3>2. Limited(m.hdr)
      BY <2>5 DEF Limits
    <3>3. /\ Placed(vol') /\ Limits(vol')
          /\ EntriesAt(m, disk, lost) /\ Onward(m, vol') => EntriesAt(vol', disk, lost)
      BY <2>4, <2>5, <3>1, <3>2, AggWriteEntries
    <3>4. Onward(vol, vol') => Onward(m, vol')
      BY <2>2 DEF Onward
    <3> QED
      BY <1>3, <2>5, <3>3, <3>4
  <2> QED
    BY <2>6, <2>7
<1>5. CASE ~(vol.io \/ vol.buf # <<>>)
  <2>1. vol' = SyncStarted(vol)
    BY <1>5 DEF SyncEvent
  <2>2. VolOK(vol') /\ vol'.buf = <<>> /\ ~vol'.io
    BY <1>1, <1>5, <2>1, SyncStartedOK
  <2>3. /\ vol'.hdr.writePos = vol.hdr.writePos /\ vol'.hdr.aggPos = vol.hdr.aggPos
        /\ EntriesAt(vol, disk, lost) => EntriesAt(vol', disk, lost)
    BY <1>1, <2>1, SyncStartedEntries
  <2>4. Placed(vol')
    BY <2>2, PlacedEmpty
  <2>5. Limits(vol')
    BY <1>3, <2>2, <2>3 DEF Limits, Limited
  <2> QED
    BY <1>3, <2>3, <2>4, <2>5
<1> QED
  BY <1>4, <1>5

(* A writer enters its document, which is in the buffer or on the disk     *)
(* unless the log has come round to it.                                    *)
LEMMA InsertEntries ==
  ASSUME IInv, EntriesOK, NEW d \in vol.pend, Insert(d)
  PROVE  EntriesOK'
<1>1. /\ VolOK(vol) /\ mode = "up"
      /\ UNCHANGED <<mode, disk, crashes, lost>>
      /\ seen' = IF Late(d) THEN seen \cup {"late"} ELSE seen
  BY DEF IInv, TypeInv, Insert
<1>2. /\ vol \in Volumes /\ vol.pend \in SUBSET Docs /\ vol.hdr \in Header
      /\ vol.dir \in SUBSET Docs /\ vol.buf \in Seq(Docs)
  BY <1>1, VolumeParts DEF VolOK
<1>3. d \in Docs
  BY <1>2
<1>4. vol' = [vol EXCEPT !.pend = @ \ {d}, !.dir = @ \cup {d}, !.hdr.dirty = TRUE]
  BY DEF Insert
<1>5. /\ vol'.dir = vol.dir \cup {d} /\ vol'.buf = vol.buf /\ vol'.io = vol.io
      /\ vol'.hdr.writePos = vol.hdr.writePos /\ vol'.hdr.phase = vol.hdr.phase
      /\ vol'.hdr.aggPos = vol.hdr.aggPos /\ vol'.hdr.sync = vol.hdr.sync
      /\ vol'.hdr.ser = vol.hdr.ser
  BY <1>2, <1>4 DEF Volumes, Header
<1>6. BufLen(vol') = BufLen(vol)
  BY <1>2, <1>5, BufLenIs
<1> SUFFICES /\ Placed(vol') /\ Limits(vol')
             /\ Plain' => EntriesAt(vol', disk, lost)
  BY <1>1 DEF EntriesOK
<1>7. Placed(vol) /\ Limits(vol) /\ (Plain => EntriesAt(vol, disk, lost))
  BY DEF EntriesOK
<1>8. Placed(vol') /\ Limits(vol')
  BY <1>5, <1>6, <1>7 DEF Placed, Limits, Limited, Stamped
<1> SUFFICES ASSUME Plain' PROVE EntriesAt(vol', disk, lost)
  BY <1>8
<1>9. ~Late(d) /\ EntriesAt(vol, disk, lost)
  BY <1>1, <1>7 DEF Plain
<1>10. ASSUME d \notin lost
       PROVE  /\ d.phase = vol.hdr.phase /\ d.pos < vol.hdr.writePos =>
                   d.pos + d.len <= vol.hdr.writePos /\ Held(d, disk)
              /\ d.phase = vol.hdr.phase /\ d.pos >= vol.hdr.writePos => d \in ToSet(vol.buf)
              /\ d.phase # vol.hdr.phase /\ d.pos >= vol.hdr.aggPos => Held(d, disk)
  <2>1. /\ d.pos \in Nat /\ d.len \in Nat /\ d.len > 0 /\ d.phase \in BOOLEAN
        /\ vol.hdr.writePos \in Nat
    BY <1>2, <1>3, DocParts, HeaderParts DEF Docs, Lengths
  <2>2. CASE d \in ToSet(vol.buf)
    <3>1. d.phase = vol.hdr.phase /\ vol.hdr.writePos <= d.pos
      BY <1>7, <2>2 DEF Placed, Paved, Stamped
    <3> QED
      BY <2>1, <2>2, <3>1
  <2>3. CASE d \notin ToSet(vol.buf)
    <3>1. Intact(d) /\ ~(d.phase = vol.hdr.phase /\ d.pos + d.len > vol.hdr.writePos)
      BY <1>9, <1>10, <2>3 DEF Late
    <3>2. Held(d, disk)
      BY <3>1 DEF Intact, Held
    <3>3. d.phase = vol.hdr.phase => d.pos + d.len <= vol.hdr.writePos
      BY <2>1, <3>1
    <3> QED
      BY <2>1, <3>2, <3>3
  <2> QED
    BY <2>2, <2>3
<1> QED
  BY <1>5, <1>9, <1>10 DEF EntriesAt

LEMMA InitEntries == Init => EntryInv
<1> SUFFICES ASSUME Init PROVE EntryInv
  OBVIOUS
<1>1. /\ VolOK(vol) /\ ~vol.io /\ vol.buf = <<>> /\ vol.hdr = ClearedHeader /\ vol.dir = {}
  <2>1. vol = Started(ClearedHeader, {}, 0) /\ 0 \in 0 .. MaxDocs
    BY DEF Init
  <2> QED
    BY <2>1, ClearedOK, StartedOK
<1>2. Placed(vol)
  BY <1>1, PlacedEmpty
<1>3. Limits(vol)
  <2>1. Start \in Nat /\ AggSize \in Nat
    OBVIOUS
  <2> QED
    BY <1>1, <2>1 DEF Limits, Limited, ClearedHeader
<1>4. EntriesAt(vol, disk, lost)
  BY <1>1 DEF EntriesAt
<1> QED
  BY <1>2, <1>3, <1>4 DEF EntryInv, EntriesOK, Init

LEMMA UnchangedEntries ==
  ASSUME EntriesOK, UNCHANGED <<vol, disk, lost>>, seen \subseteq seen'
  PROVE  EntriesOK'
BY DEF EntriesOK, Plain

LEMMA NextEntries == IInv /\ EntryInv /\ [Next]_vars => EntryInv'
<1> SUFFICES ASSUME IInv, EntryInv, [Next]_vars PROVE EntryInv'
  OBVIOUS
<1>1. CASE crashes = 0
  <2>0. mode = "up" /\ EntriesOK
    BY <1>1 DEF EntryInv
  <2>1. ASSUME mode' = "up", EntriesOK', crashes' = crashes PROVE EntryInv'
    BY <1>1, <2>1 DEF EntryInv
  <2>2. ASSUME NEW l \in Lengths, Write(l) PROVE EntryInv'
    <3>1. EntriesOK' /\ mode' = "up" /\ crashes' = crashes
      BY <2>0, <2>2, WriteEntries DEF Write
    <3> QED
      BY <2>1, <3>1
  <2>3. ASSUME NEW d \in vol.pend, Insert(d) PROVE EntryInv'
    <3>1. EntriesOK' /\ mode' = "up" /\ crashes' = crashes
      BY <2>0, <2>3, InsertEntries DEF Insert
    <3> QED
      BY <2>1, <3>1
  <2>4. CASE WriteDone
    <3>1. EntriesOK' /\ mode' = "up" /\ crashes' = crashes
      BY <2>0, <2>4, WriteDoneEntries DEF WriteDone
    <3> QED
      BY <2>1, <3>1
  <2>5. CASE WriteFail
    <3>1. EntriesOK' /\ mode' = "up" /\ crashes' = crashes
      BY <2>0, <2>5, WriteFailEntries DEF WriteFail
    <3> QED
      BY <2>1, <3>1
  <2>6. CASE SyncEvent
    <3>1. EntriesOK' /\ mode' = "up" /\ crashes' = crashes
      BY <2>0, <2>6, SyncEventEntries DEF SyncEvent
    <3> QED
      BY <2>1, <3>1
  <2>7. CASE StoreHeader \/ StoreBody \/ StoreFooter \/ SyncFail
    <3>1. UNCHANGED <<vol, disk, crashes, lost>> /\ mode' = "up" /\ seen \subseteq seen'
      BY <2>0, <2>7 DEF StoreHeader, StoreBody, StoreFooter, SyncFail
    <3> QED
      BY <2>0, <2>1, <3>1, UnchangedEntries
  <2>8. CASE Crash
    <3>1. crashes' = crashes + 1
      BY <2>8 DEF Crash
    <3>2. crashes' \in Nat /\ crashes' # 0
      BY <3>1 DEF EntryInv
    <3> QED
      BY <3>2 DEF EntryInv
  <2>9. CASE StartUp \/ ClearA \/ ClearB
    BY <2>0, <2>9 DEF StartUp, ClearA, ClearB
  <2>10. CASE UNCHANGED vars
    <3>1. UNCHANGED <<vol, disk, crashes, lost, mode, seen>>
      BY <2>10 DEF vars
    <3> QED
      BY <2>0, <2>1, <3>1, UnchangedEntries
  <2> QED
    BY <2>2, <2>3, <2>4, <2>5, <2>6, <2>7, <2>8, <2>9, <2>10 DEF Next
<1>2. CASE crashes # 0
  <2>1. crashes' \in {crashes, crashes + 1} /\ crashes \in Nat
    BY DEF Next, vars, Write, Insert, WriteDone, WriteFail, SyncEvent, StoreHeader, StoreBody,
           StoreFooter, SyncFail, Crash, StartUp, ClearA, ClearB, EntryInv
  <2>2. crashes' \in Nat /\ crashes' # 0
    BY <1>2, <2>1
  <2> QED
    BY <2>2 DEF EntryInv
<1> QED
  BY <1>1, <1>2

LEMMA EntriesLead ==
  ASSUME IInv, EntriesOK, Plain
  PROVE  ValidExact
<1> SUFFICES ASSUME NEW e \in vol.dir \ lost, Valid(e, vol.hdr, BufLen(vol))
             PROVE  Exact(e)
  BY DEF ValidExact
<1>1. VolOK(vol) /\ Placed(vol) /\ Limits(vol) /\ EntriesAt(vol, disk, lost)
  BY DEF IInv, TypeInv, EntriesOK
<1> DEFINE w == vol.hdr.writePos
           n == w + BufLen(vol)
           ds == ToSet(vol.buf)
<1>2. /\ e \in Docs /\ e.pos \in Nat /\ e.len \in Nat /\ BufLen(vol) \in Nat /\ w \in Nat
      /\ vol.hdr.aggPos \in Nat /\ ds \in SUBSET Docs
  BY <1>1, VolumeParts, HeaderParts, DocParts, BufferedDocs
<1>3. /\ w <= vol.hdr.aggPos
      /\ vol.io => vol.hdr.aggPos = n
  BY <1>1 DEF Limits, Limited
<1>4. n \in Nat /\ w <= n
  BY <1>2
<1>5. \A d \in ds : w <= d.pos /\ d.pos + d.len <= n /\ d.pos \in Nat /\ d.len \in Nat
  BY <1>1, <1>2, DocParts DEF Placed, Paved
<1>6. e.phase = vol.hdr.phase /\ e.pos < w =>
        e.pos + e.len <= w /\ Held(e, disk)
  BY <1>1 DEF EntriesAt
<1>7. e.phase = vol.hdr.phase /\ e.pos >= w => e \in ds
  BY <1>1 DEF EntriesAt
<1>8. e.phase # vol.hdr.phase /\ e.pos >= vol.hdr.aggPos => Held(e, disk)
  BY <1>1 DEF EntriesAt
<1>9. e.phase # vol.hdr.phase => e.pos >= vol.hdr.aggPos
  BY DEF Valid
<1>10. ASSUME e.pos + e.len <= w \/ e.pos >= n, NEW d \in ds
       PROVE  BlocksOf(d) \cap BlocksOf(e) = {}
  <2>1. ASSUME NEW b \in BlocksOf(d), b \in BlocksOf(e) PROVE FALSE
    <3>1. d.pos <= b /\ b < d.pos + d.len /\ b \in Nat /\ e.pos <= b /\ b < e.pos + e.len
      BY <1>2, <2>1, BlockPlaces
    <3> HIDE DEF w, n, ds
    <3> QED
      BY <1>2, <1>4, <1>5, <1>10, <3>1, SMTT(20)
  <2> QED
    BY <2>1
<1> HIDE DEF w, n, ds
<1>11. CASE e.phase = vol.hdr.phase /\ e.pos < w
  BY <1>6, <1>10, <1>11 DEF Exact, Intact, Held, ds
<1>12. CASE e.phase = vol.hdr.phase /\ e.pos >= w
  BY <1>7, <1>12 DEF Exact, ds
<1>13. CASE e.phase # vol.hdr.phase
  <2>1. vol.io => e.pos >= n
    BY <1>3, <1>9, <1>13
  <2> QED
    BY <1>8, <1>9, <1>10, <1>13, <2>1 DEF Exact, Intact, Held, ds
<1> QED
  BY <1>2, <1>11, <1>12, <1>13

(* Until the first crash an entry that dir_valid accepts leads to its      *)
(* document, whole and untouched by any write, through the writes of the   *)
(* log, round and round the volume, failed writes and syncs.  The          *)
(* exceptions: the documents whose own write failed (aggWriteDone leaves   *)
(* their entries); and all once a writer was called back too late to enter *)
(* its document, or a write after a failed one was shorter and set the     *)
(* write limit back.                                                       *)
THEOREM EntriesLeadToDocuments == Spec => []EntriesExact
<1>1. Init => IInv /\ EntryInv
  BY InitIInv, InitEntries
<1>2. IInv /\ EntryInv /\ [Next]_vars => IInv' /\ EntryInv'
  BY NextIInv, NextEntries
<1>3. IInv /\ EntryInv => EntriesExact
  BY EntriesLead DEF EntryInv, EntriesExact, Plain
<1> QED
  BY <1>1, <1>2, <1>3, PTL DEF Spec

-----------------------------------------------------------------------------
(* The steps of a scan, by what they change.                               *)

(* The cursor n of the scan reads on from position p, or gives up. *)
Reads(c, n, p, wrapped) ==
  \/ n.state = "clear"
  \/ /\ n.state = "check" /\ n.base = p /\ n.pos = p /\ n.end = Smaller(p + EvacSize, End)
     /\ n.sync = c.sync /\ n.ser = c.ser /\ n.wrapped = wrapped

(* The cursor n of the scan has ended where c is, or is at the start of the*)
(* volume if c is close to the end.                                        *)
Stops(c, n) ==
  IF c.pos > End - AggSize THEN Reads(c, n, Start, TRUE)
  ELSE n.state = "done" /\ n.pos = c.pos /\ n.wrapped = c.wrapped

(* The scan goes on over a document of serial number x. *)
Accepts(c, h, x) == x = c.sync \/ (x > c.sync /\ x <= h.sync + 1)

LEMMA NextPartIs ==
  ASSUME NEW h \in Header, NEW c \in Cursors(h), NEW p \in Int
  PROVE  Reads(c, NextPart(c, h, p), p, c.wrapped)
BY DEF NextPart, Reads, Cursors

LEMMA TurnIs ==
  ASSUME NEW h \in Header, NEW c \in Cursors(h)
  PROVE  Reads(c, NextPart([c EXCEPT !.wrapped = TRUE], h, Start), Start, TRUE)
<1> DEFINE w == [c EXCEPT !.wrapped = TRUE]
<1>1. w \in Cursors(h) /\ w.wrapped = TRUE /\ w.sync = c.sync /\ w.ser = c.ser
  BY DEF Cursors
<1> HIDE DEF w
<1>2. Reads(w, NextPart(w, h, Start), Start, w.wrapped)
  BY <1>1, NextPartIs
<1> QED
  BY <1>1, <1>2 DEF Reads, w

LEMMA NotSinceIs ==
  ASSUME NEW h \in Header, NEW c \in Cursors(h)
  PROVE  Stops(c, NotSince(c, h))
<1>1. CASE c.pos > End - AggSize
  BY <1>1, TurnIs DEF Stops, NotSince
<1>2. CASE ~(c.pos > End - AggSize)
  BY <1>2 DEF Stops, NotSince, Cursors
<1> QED
  BY <1>1, <1>2

LEMMA FoundIs ==
  ASSUME DiskOK, NEW p, Found(p) # {}
  PROVE  /\ p \in Blocks /\ Found(p) = {disk[p][1]} /\ disk[p][1] \in Docs
         /\ disk[p][1].pos = p /\ (CHOOSE x \in Found(p) : TRUE) = disk[p][1]
<1>1. p \in Blocks /\ disk[p][1] # NoDoc /\ disk[p][2] = 0 /\ Found(p) = {disk[p][1]}
  BY DEF Found
<1> DEFINE d == disk[p][1]
<1>2. d \in Docs /\ disk[p] = <<d, p - d.pos>>
  BY <1>1 DEF DiskOK, Blank
<1>3. d.pos \in Nat /\ p \in Int
  BY <1>1, <1>2, DocParts DEF Blocks
<1> HIDE DEF d
<1>4. p - d.pos = 0
  BY <1>1, <1>2
<1>5. d.pos = p
  BY <1>3, <1>4
<1> QED
  BY <1>1, <1>2, <1>5 DEF d

(* What a step of the scan over documents does. *)
ScanMoves(c, n, h) ==
  \/ /\ c.pos >= c.end
     /\ LET p == IF c.pos > c.end THEN c.at ELSE c.pos
        IN IF p >= End THEN Reads(c, n, Start, TRUE) ELSE Reads(c, n, p, c.wrapped)
  \/ /\ c.pos < c.end
     /\ Found(c.pos) # {} => ~Accepts(c, h, disk[c.pos][1].sync)
     /\ Stops(c, n)
  \/ /\ c.pos < c.end /\ Found(c.pos) # {} /\ Accepts(c, h, disk[c.pos][1].sync)
     /\ n.state = "scan" /\ n.base = c.base /\ n.end = c.end /\ n.wrapped = c.wrapped
     /\ n.at = c.pos /\ n.pos = c.pos + disk[c.pos][1].len /\ n.sync = disk[c.pos][1].sync
     /\ n.ser = IF disk[c.pos][1].sync = c.sync THEN disk[c.pos][1].ser ELSE c.ser

LEMMA ScanStepIs ==
  ASSUME DiskOK, NEW h \in Header, NEW c \in Cursors(h), c.state = "scan"
  PROVE  ScanMoves(c, ScanStep(c, h), h)
<1> DEFINE d == CHOOSE y \in Found(c.pos) : TRUE
           n == [c EXCEPT !.at = c.pos, !.pos = @ + d.len]
           x == IF d.sync > h.sync THEN d.sync ELSE c.max
           r == ScanStep(c, h)
<1>0. c.pos \in Int /\ c.end \in Int /\ c.at \in Int /\ c.max \in Serials(h) /\ c.sync \in Int
  BY DEF Cursors
<1>1. CASE c.pos >= c.end
  <2>1. r = EndOfPart(c, h)
    BY <1>1 DEF ScanStep
  <2> DEFINE p == IF c.pos > c.end THEN c.at ELSE c.pos
  <2>2. p \in Int
    BY <1>0
  <2>3. r = IF p >= End THEN NextPart([c EXCEPT !.wrapped = TRUE], h, Start)
            ELSE NextPart(c, h, p)
    BY <2>1 DEF EndOfPart
  <2> HIDE DEF p, r
  <2>4. IF p >= End THEN Reads(c, r, Start, TRUE) ELSE Reads(c, r, p, c.wrapped)
    BY <2>2, <2>3, NextPartIs, TurnIs
  <2> QED
    BY <1>1, <2>4 DEF ScanMoves, p, r
<1>2. CASE c.pos < c.end /\ Found(c.pos) = {}
  <2>1. r = NotSince(c, h)
    BY <1>0, <1>2 DEF ScanStep
  <2>2. Stops(c, r)
    BY <2>1, NotSinceIs
  <2> QED
    BY <1>2, <2>2 DEF ScanMoves
<1>3. CASE c.pos < c.end /\ Found(c.pos) # {}
  <2>1. d \in Docs /\ d = disk[c.pos][1]
    BY <1>3, FoundIs
  <2>2. d.len \in Int /\ d.sync \in Nat /\ d.ser \in Int
    BY <2>1, DocParts
  <2>3. r = IF d.sync = c.sync THEN [n EXCEPT !.ser = d.ser]
            ELSE IF d.sync > c.sync /\ d.sync <= h.sync + 1
            THEN [n EXCEPT !.sync = d.sync, !.max = x]
            ELSE NotSince([c EXCEPT !.max = x], h)
    BY <1>0, <1>3 DEF ScanStep
  <2> HIDE DEF d
  <2>4. x \in Serials(h)
    BY <1>0, <2>2, HeaderParts DEF Serials
  <2>5. CASE Accepts(c, h, d.sync)
    <3>1. r = IF d.sync = c.sync THEN [n EXCEPT !.ser = d.ser]
              ELSE [n EXCEPT !.sync = d.sync, !.max = x]
      BY <2>3, <2>5 DEF Accepts
    <3> HIDE DEF x, r
    <3>2. /\ r.state = c.state /\ r.base = c.base /\ r.end = c.end /\ r.wrapped = c.wrapped
          /\ r.at = c.pos /\ r.pos = c.pos + d.len /\ r.sync = d.sync
          /\ r.ser = IF d.sync = c.sync THEN d.ser ELSE c.ser
      <4>1. CASE d.sync = c.sync
        BY <3>1, <4>1 DEF Cursors
      <4>2. CASE d.sync # c.sync
        BY <3>1, <4>2 DEF Cursors
      <4> QED
        BY <4>1, <4>2
    <3> QED
      BY <1>3, <2>1, <2>5, <3>2 DEF ScanMoves, r
  <2>6. CASE ~Accepts(c, h, d.sync)
    <3> DEFINE m == [c EXCEPT !.max = x]
    <3>1. r = NotSince(m, h)
      BY <2>3, <2>6 DEF Accepts
    <3>2. /\ m \in Cursors(h) /\ m.pos = c.pos /\ m.sync = c.sync /\ m.ser = c.ser
          /\ m.wrapped = c.wrapped
      BY <2>4 DEF Cursors
    <3> HIDE DEF m, r
    <3>3. Stops(m, r)
      BY <3>1, <3>2, NotSinceIs
    <3>4. Stops(c, r)
      BY <3>2, <3>3 DEF Stops, Reads
    <3> QED
      BY <1>3, <2>1, <2>6, <3>4 DEF ScanMoves, r
  <2> QED
    BY <2>5, <2>6
<1> QED
  BY <1>0, <1>1, <1>2, <1>3

(* What a step of the check of a part does. *)
CheckMoves(c, n, h) ==
  \/ n.state = "clear"
  \/ /\ c.base = h.lastWritePos /\ c.pos < h.writePos
     /\ Found(c.pos) # {} /\ disk[c.pos][1].ser <= h.ser
     /\ n.state = "check" /\ n.base = c.base /\ n.end = c.end /\ n.wrapped = c.wrapped
     /\ n.at = c.at /\ n.pos = c.pos + disk[c.pos][1].len /\ n.ser = c.ser
     /\ n.sync \in {c.sync, disk[c.pos][1].sync}
  \/ /\ ~(c.base = h.lastWritePos /\ c.pos < h.writePos)
     /\ \/ c.pos >= c.end /\ n.state = "past" /\ n.sync = c.sync /\ n.ser = c.ser
        \/ /\ c.pos < c.end /\ c.wrapped /\ c.base = Start
           /\ Found(c.pos) = {} \/ disk[c.pos][1].ser < c.ser
           /\ n.state = "done" /\ n.pos = End - EvacSize
        \/ /\ c.pos < c.end
           /\ c.wrapped /\ c.base = Start =>
                Found(c.pos) # {} /\ ~(disk[c.pos][1].ser < c.ser)
           /\ n.state = "scan" /\ n.base = c.base /\ n.end = c.end /\ n.wrapped = c.wrapped
           /\ n.at = c.at /\ n.pos = c.pos /\ n.sync = c.sync /\ n.ser = c.ser

LEMMA CheckStepIs ==
  ASSUME DiskOK, NEW h \in Header, NEW c \in Cursors(h), c.state = "check"
  PROVE  CheckMoves(c, CheckStep(c, h), h)
<1> DEFINE ds == Found(c.pos)
           d == CHOOSE x \in ds : TRUE
           r == CheckStep(c, h)
           n == [c EXCEPT !.pos = @ + d.len, !.sync = IF d.sync > c.ser THEN d.sync ELSE @]
<1>0. c.pos \in Int /\ c.end \in Int /\ h.ser \in Nat
  BY HeaderParts DEF Cursors
<1>1. ds # {} => /\ ds = {disk[c.pos][1]} /\ d = disk[c.pos][1] /\ d.ser \in Nat
  BY FoundIs, DocParts
<1>2. CASE c.base = h.lastWritePos /\ c.pos < h.writePos
  <2>1. CASE ds = {} \/ \E e \in ds : e.ser > h.ser
    <3>1. r = [c EXCEPT !.state = "clear"]
      BY <1>2, <2>1 DEF CheckStep
    <3> HIDE DEF r
    <3>2. r.state = "clear"
      BY <3>1 DEF Cursors
    <3> QED
      BY <3>2 DEF CheckMoves, r
  <2>2. CASE ~(ds = {} \/ \E e \in ds : e.ser > h.ser)
    <3>1. r = n
      BY <1>2, <2>2 DEF CheckStep
    <3>2. ds # {} /\ d.ser <= h.ser /\ d = disk[c.pos][1]
      BY <1>0, <1>1, <2>2
    <3> HIDE DEF d, r, ds
    <3>3. /\ r.state = "check" /\ r.base = c.base /\ r.end = c.end /\ r.wrapped = c.wrapped
          /\ r.at = c.at /\ r.pos = c.pos + d.len /\ r.ser = c.ser
          /\ r.sync \in {c.sync, d.sync}
      BY <3>1 DEF Cursors
    <3> QED
      BY <1>2, <3>2, <3>3 DEF CheckMoves, r, ds
  <2> QED
    BY <2>1, <2>2
<1>3. CASE ~(c.base = h.lastWritePos /\ c.pos < h.writePos)
  <2>1. r = IF c.pos >= c.end THEN [c EXCEPT !.state = "past"]
            ELSE IF c.wrapped /\ c.base = Start /\ (ds = {} \/ \E e \in ds : e.ser < c.ser)
                 THEN [c EXCEPT !.pos = End - EvacSize, !.state = "done"]
            ELSE [c EXCEPT !.state = "scan"]
    BY <1>3 DEF CheckStep
  <2> HIDE DEF r
  <2>2. CASE c.pos >= c.end
    <3>1. r.state = "past" /\ r.sync = c.sync /\ r.ser = c.ser
      BY <2>1, <2>2 DEF Cursors
    <3> QED
      BY <1>3, <2>2, <3>1 DEF CheckMoves, r
  <2>3. CASE c.pos < c.end /\ c.wrapped /\ c.base = Start /\ (ds = {} \/ \E e \in ds : e.ser < c.ser)
    <3>1. r.state = "done" /\ r.pos = End - EvacSize
      <4>1. r = [c EXCEPT !.pos = End - EvacSize, !.state = "done"]
        BY <1>0, <2>1, <2>3
      <4> QED
        BY <4>1 DEF Cursors
    <3>2. ds = {} \/ disk[c.pos][1].ser < c.ser
      BY <1>1, <2>3
    <3> QED
      BY <1>3, <2>3, <3>1, <3>2 DEF CheckMoves, r
  <2>4. CASE c.pos < c.end /\ ~(c.wrapped /\ c.base = Start /\ (ds = {} \/ \E e \in ds : e.ser < c.ser))
    <3>1. /\ r.state = "scan" /\ r.base = c.base /\ r.end = c.end /\ r.wrapped = c.wrapped
          /\ r.at = c.at /\ r.pos = c.pos /\ r.sync = c.sync /\ r.ser = c.ser
      <4>1. r = [c EXCEPT !.state = "scan"]
        BY <1>0, <2>1, <2>4
      <4> QED
        BY <4>1 DEF Cursors
    <3>2. c.wrapped /\ c.base = Start => ds # {} /\ ~(disk[c.pos][1].ser < c.ser)
      BY <1>1, <2>4
    <3> QED
      BY <1>3, <2>4, <3>1, <3>2 DEF CheckMoves, r
  <2> QED
    BY <1>0, <2>2, <2>3, <2>4
<1> QED
  BY <1>2, <1>3

LEMMA PastIs ==
  ASSUME NEW h \in Header, NEW c \in Cursors(h), NEW n \in Past(h, c)
  PROVE  Reads(c, n, Start, TRUE)
<1> DEFINE w == [c EXCEPT !.wrapped = TRUE, !.base = End]
<1>1. CASE n = [c EXCEPT !.state = "clear"]
  BY <1>1 DEF Reads, Cursors
<1>2. CASE n = NextPart(w, h, Start)
  <2>1. w \in Cursors(h) /\ w.wrapped = TRUE /\ w.sync = c.sync /\ w.ser = c.ser
    <3>1. End \in Int
      OBVIOUS
    <3> QED
      BY <3>1 DEF Cursors
  <2> HIDE DEF w
  <2>2. Reads(w, n, Start, w.wrapped)
    BY <1>2, <2>1, NextPartIs
  <2> QED
    BY <2>1, <2>2 DEF Reads
<1> QED
  BY <1>1, <1>2 DEF Past

-----------------------------------------------------------------------------
(* The log on the disk D.                                                  *)

(* The blocks p .. q - 1 hold whole documents and nothing else. *)
Whole(D, p, q) ==
  \A b \in p .. (q - 1) :
    LET d == D[b][1]
    IN /\ d \in Docs /\ b \in BlocksOf(d) /\ p <= d.pos /\ d.pos + d.len <= q
       /\ \A x \in BlocksOf(d) : D[x] = <<d, x - d.pos>>

(* They are in the order in which they were written. *)
Ordered(D, p, q) ==
  \A b, c \in p .. (q - 1) :
    b <= c => D[b][1].sync <= D[c][1].sync /\ D[b][1].ser <= D[c][1].ser

(* The document d was written after the copy with header h was made, and   *)
(* before the second sync after it.                                        *)
Since(d, h) == h.sync <= d.sync /\ d.sync <= h.sync + 1 /\ h.ser <= d.ser

(* The last write before the copy with header h was made. *)
LastWrite(h, D) ==
  IF h.lastWritePos <= h.writePos
  THEN h.writePos <= h.lastWritePos + AggSize /\ Whole(D, h.lastWritePos, h.writePos)
  ELSE h.writePos = Start

(* The log has gone on from the write position of h to E.  Behind E there  *)
(* may be parts of writes that failed or were torn, of this turn and before*)
(* or after the copy; everything else is of the turn before.               *)
Straight(h, E, D) ==
  /\ h.writePos <= E /\ LastWrite(h, D)
  /\ Whole(D, Start, h.writePos) /\ Whole(D, h.writePos, E) /\ Ordered(D, Start, E)
  /\ \A b \in Start .. (h.writePos - 1) : D[b][1].sync < h.sync /\ D[b][1].ser < h.ser
  /\ \A b \in h.writePos .. (E - 1) : Since(D[b][1], h)
  /\ \A b \in E .. (End - 1) :
       LET d == D[b][1]
       IN \/ Since(d, h) /\ d.pos + d.len <= E + AggSize
          \/ /\ d.sync < h.sync
             /\ \/ d.pos + d.len <= h.writePos + AggSize
                \/ h.writePos = Start
                \/ d.sync <= D[Start][1].sync

LEMMA InBlocks ==
  ASSUME NEW d, d.pos \in Int, d.len \in Int, NEW b \in Int, d.pos <= b, b < d.pos + d.len
  PROVE  b \in BlocksOf(d)
<1> DEFINE p == d.pos  l == d.len
<1>1. p \in Int /\ l \in Int /\ p <= b /\ b < p + l
  OBVIOUS
<1> HIDE DEF p, l
<1>2. b \in p .. p + l - 1
  BY <1>1
<1> QED
  BY <1>2 DEF p, l, BlocksOf

LEMMA WholeNext ==
  ASSUME NEW D, NEW p \in Int, NEW q \in Int, Whole(D, p, q), NEW x \in p .. (q - 1),
         NEW d, d = D[x][1], d.pos = x, NEW n, n = x + d.len
  PROVE  /\ d \in Docs /\ D[x] = <<d, 0>> /\ x < n /\ n <= q /\ n \in Int
         /\ n < q => D[n][1].pos = n
<1>1. /\ d \in Docs /\ x \in BlocksOf(d) /\ d.pos + d.len <= q
      /\ \A y \in BlocksOf(d) : D[y] = <<d, y - d.pos>>
  BY DEF Whole
<1>2. d.len \in Nat /\ d.len >= 1
  BY <1>1, DocParts
<1>3. D[x] = <<d, 0>>
  <2>1. D[x] = <<d, x - d.pos>> /\ x - d.pos = 0
    BY <1>1
  <2> QED
    BY <2>1
<1>4. x < n /\ n <= q /\ n \in Int
  BY <1>1, <1>2
<1>5. ASSUME NEW f, f = D[n][1], n < q PROVE f.pos = n
  <2>1. n \in p .. (q - 1)
    BY <1>4, <1>5
  <2>2. /\ f \in Docs /\ n \in BlocksOf(f) /\ \A y \in BlocksOf(f) : D[y] = <<f, y - f.pos>>
    BY <1>5, <2>1 DEF Whole
  <2>3. f.pos \in Nat /\ f.len \in Nat
    BY <2>2, DocParts
  <2>4. f.pos <= n /\ n < f.pos + f.len
    BY <2>2, BlockPlaces
  <2> SUFFICES ASSUME f.pos < n PROVE FALSE
    BY <1>4, <2>3, <2>4
  <2>5. PICK m \in Int : m < n /\ f.pos <= m /\ x <= m
    <3>1. n - 1 \in Int /\ n - 1 < n /\ f.pos <= n - 1 /\ x <= n - 1
      BY <1>4, <2>3, SMTT(20)
    <3> QED
      BY <3>1
  <2>6. m < f.pos + f.len /\ d.pos <= m /\ m < d.pos + d.len /\ d.pos \in Int
    BY <1>2, <1>4, <2>3, <2>4, <2>5, SMTT(20)
  <2>7. D[m] = <<f, m - f.pos>>
    <3>1. m \in BlocksOf(f)
      BY <2>3, <2>5, <2>6, InBlocks
    <3> QED
      BY <2>2, <3>1
  <2>8. D[m] = <<d, m - d.pos>>
    <3>1. m \in BlocksOf(d)
      BY <1>2, <2>5, <2>6, InBlocks, SMTT(20)
    <3> QED
      BY <1>1, <3>1
  <2>9. f = d
    BY <2>7, <2>8
  <2> QED
    BY <1>2, <2>4, <2>9
<1> QED
  BY <1>1, <1>3, <1>4, <1>5

LEMMA WholeFirst ==
  ASSUME NEW D, NEW p \in Int, NEW q \in Int, Whole(D, p, q), p < q
  PROVE  D[p][1].pos = p
<1> DEFINE d == D[p][1]
<1>1. p \in p .. (q - 1)
  OBVIOUS
<1>2. d \in Docs /\ p \in BlocksOf(d) /\ p <= d.pos
  BY <1>1 DEF Whole
<1>3. d.pos <= p /\ d.pos \in Nat
  BY <1>2, BlockPlaces, DocParts
<1> QED
  BY <1>2, <1>3

LEMMA FoundFirst ==
  ASSUME NEW x \in Blocks, NEW d \in Docs, disk[x] = <<d, 0>>
  PROVE  Found(x) # {}
<1>1. d # NoDoc
  <2>1. d.id >= 1
    BY DEF Docs
  <2> QED
    BY <2>1 DEF NoDoc
<1> QED
  BY <1>1 DEF Found

-----------------------------------------------------------------------------
(* The scan when the log has not turned since the copy.                    *)

(* The sizes for which a recovery is safe: the data does not begin within  *)
(* the first AggSize blocks of the disk, and there is room for five        *)
(* buffers.                                                                *)
Roomy == Start > AggSize /\ End >= Start + 5 * AggSize

LEMMA SizeFacts ==
  ASSUME Roomy
  PROVE  /\ Start \in Nat /\ End \in Nat /\ AggSize \in Nat /\ AggSize >= 1 /\ Start > AggSize
         /\ EvacSize = AggSize + AggSize /\ EvacSize \in Nat
         /\ End - AggSize >= Start + EvacSize + EvacSize
BY DEF Roomy, EvacSize

(* A document of the log, and the next one.                                *)
LEMMA StraightDoc ==
  ASSUME NEW h \in Header, NEW E \in Start .. End, Straight(h, E, disk),
         NEW p \in Start .. (E - 1), NEW d \in Docs, d = disk[p][1], d.pos = p,
         NEW n \in Int, n = p + d.len
  PROVE  /\ d \in Docs /\ Found(p) # {} /\ n \in Int /\ p < n /\ n <= E /\ d.sync <= h.sync + 1
         /\ n <= p + AggSize
         /\ p < h.writePos => n <= h.writePos /\ d.sync < h.sync /\ d.ser < h.ser
         /\ p >= h.writePos => Since(d, h)
         /\ n < E => disk[n][1].pos = n /\ d.sync <= disk[n][1].sync
<1>1. /\ h.writePos \in Start .. End /\ h.writePos <= E /\ Whole(disk, Start, h.writePos)
      /\ Whole(disk, h.writePos, E) /\ Ordered(disk, Start, E) /\ h.sync \in Nat
  BY HeaderParts DEF Straight
<1>2. p \in Blocks
  BY DEF Blocks
<1> DEFINE w == h.writePos
<1>3. w \in Int /\ Start \in Int /\ E \in Int
  BY <1>1
<1>4. \A b \in Start .. (w - 1) : disk[b][1].sync < h.sync /\ disk[b][1].ser < h.ser
  BY DEF Straight
<1>5. \A b \in w .. (E - 1) : Since(disk[b][1], h)
  BY DEF Straight
<1> HIDE DEF w
<1>6. /\ d \in Docs /\ disk[p] = <<d, 0>> /\ p < n /\ n <= E /\ n \in Int
      /\ p < w => n <= w
      /\ n < E => disk[n][1].pos = n
  <2>1. CASE p < w
    <3>1. p \in Start .. (w - 1) /\ Whole(disk, Start, w)
      BY <1>1, <1>3, <2>1 DEF w
    <3>2. /\ d \in Docs /\ disk[p] = <<d, 0>> /\ p < n /\ n <= w /\ n \in Int
          /\ n < w => disk[n][1].pos = n
      BY <1>3, <3>1, WholeNext
    <3>3. ASSUME n = w, w < E PROVE disk[n][1].pos = n
      <4>1. Whole(disk, w, E)
        BY <1>1 DEF w
      <4> QED
        BY <1>3, <3>3, <4>1, WholeFirst
    <3>4. w <= E
      BY <1>1 DEF w
    <3> QED
      BY <1>3, <3>2, <3>3, <3>4
  <2>2. CASE p >= w
    <3>1. p \in w .. (E - 1) /\ Whole(disk, w, E)
      BY <1>1, <1>3, <2>2 DEF w
    <3>2. /\ d \in Docs /\ disk[p] = <<d, 0>> /\ p < n /\ n <= E /\ n \in Int
          /\ n < E => disk[n][1].pos = n
      BY <1>3, <3>1, WholeNext
    <3> QED
      BY <1>3, <2>2, <3>2
  <2> QED
    BY <1>3, <2>1, <2>2
<1>7. Found(p) # {}
  BY <1>2, <1>6, FoundFirst
<1>8. d.len \in Nat /\ d.len <= AggSize /\ d.sync \in Nat /\ d.ser \in Nat
  BY <1>6, DocParts DEF Lengths
<1>9. p < w => d.sync < h.sync /\ d.ser < h.ser
  BY <1>3, <1>4
<1>10. p >= w => Since(d, h)
  BY <1>3, <1>5
<1>11. d.sync <= h.sync + 1
  <2>1. CASE p < w
    BY <1>1, <1>8, <1>9, <2>1, SMTT(20)
  <2>2. CASE p >= w
    BY <1>10, <2>2 DEF Since
  <2> QED
    BY <1>3, <2>1, <2>2
<1>12. ASSUME n < E PROVE d.sync <= disk[n][1].sync
  <2>1. n \in Start .. (E - 1) /\ p <= n
    BY <1>6, <1>12
  <2> QED
    BY <1>1, <2>1 DEF Ordered
<1>13. n <= p + AggSize
  <2> DEFINE l == d.len
  <2>1. l \in Nat /\ l <= AggSize /\ n = p + l
    BY <1>8
  <2> HIDE DEF l
  <2> QED
    BY <1>3, <2>1
<1> QED
  BY <1>6, <1>7, <1>9, <1>10, <1>11, <1>12, <1>13 DEF w

LEMMA StraightIn ==
  ASSUME NEW h \in Header, NEW E \in Start .. End, Straight(h, E, disk), NEW p \in Start .. (E - 1)
  PROVE  disk[p][1] \in Docs
<1>1. h.writePos \in Int
  BY HeaderParts
<1>2. CASE p < h.writePos
  <2>1. p \in Start .. (h.writePos - 1) /\ Whole(disk, Start, h.writePos)
    BY <1>1, <1>2 DEF Straight
  <2> QED
    BY <2>1 DEF Whole
<1>3. CASE p >= h.writePos
  <2>1. p \in h.writePos .. (E - 1) /\ Whole(disk, h.writePos, E)
    BY <1>1, <1>3 DEF Straight
  <2> QED
    BY <2>1 DEF Whole
<1> QED
  BY <1>1, <1>2, <1>3

(* What the scan may find behind the end of the log.                       *)
LEMMA LeftDoc ==
  ASSUME DiskOK, NEW h \in Header, NEW E \in Start .. End, Straight(h, E, disk),
         NEW p \in Int, p >= E, Found(p) # {}, NEW d, d = disk[p][1], NEW n, n = p + d.len
  PROVE  /\ d \in Docs /\ d.pos = p /\ n \in Int /\ p < n /\ n <= End /\ n <= p + AggSize
         /\ \/ Since(d, h) /\ n <= E + AggSize
            \/ /\ d.sync < h.sync
               /\ n <= h.writePos + AggSize \/ h.writePos = Start \/ d.sync <= disk[Start][1].sync
<1>1. p \in Blocks /\ d \in Docs /\ d.pos = p
  BY FoundIs
<1>2. d.len \in Nat /\ d.len >= 1 /\ d.len <= AggSize /\ d.pos + d.len <= End
  BY <1>1, DocParts DEF Lengths
<1>3. p \in E .. (End - 1)
  BY <1>1 DEF Blocks
<1>4. d.pos + d.len = n
  BY <1>1
<1>5. \/ Since(d, h) /\ n <= E + AggSize
      \/ /\ d.sync < h.sync
         /\ n <= h.writePos + AggSize \/ h.writePos = Start \/ d.sync <= disk[Start][1].sync
  BY <1>3, <1>4 DEF Straight
<1>6. n \in Int /\ p < n /\ n <= End /\ n <= p + AggSize
  BY <1>2, <1>4, SMTT(20)
<1> QED
  BY <1>1, <1>5, <1>6

(* The scan is at position p of the log or behind it, with the serial      *)
(* numbers y (of a sync) and r: what it has seen is not younger than what  *)
(* is at p, after the write position it is of the copy's time or younger,  *)
(* and only behind a log that is as long as at the time of the copy can it *)
(* be older.                                                               *)
WalkAt(h, E, p, y, r) ==
  /\ p \in Start .. End /\ y <= h.sync + 1
  /\ p < E => disk[p][1].pos = p /\ y <= disk[p][1].sync
  /\ h.writePos < p /\ p <= E => y >= h.sync
  /\ y >= h.sync =>
       \/ r >= h.ser
       \/ p <= h.writePos + AggSize
       \/ y > h.sync /\ p <= h.writePos + EvacSize
  /\ p >= E /\ y < h.sync =>
       /\ E = h.writePos
       /\ p <= h.writePos + AggSize \/ h.writePos = Start \/ y <= disk[Start][1].sync

(* What the serial numbers are after a document, for positions p < n, a    *)
(* document of serial numbers z and k, and a log w .. E - 1 since a copy of *)
(* serial numbers s and t.                                                  *)
LEMMA WalkSums ==
  ASSUME NEW p \in Int, NEW n \in Int, NEW y \in Int, NEW r \in Int, NEW z \in Int, NEW k \in Int,
         NEW x \in Int, NEW w \in Int, NEW E \in Int, NEW s \in Int, NEW t \in Int, NEW A \in Int,
         A >= 1, w <= E, p < n, n <= p + A, z <= s + 1,
         w < p /\ p <= E => y >= s,
         y >= s => r >= t \/ p <= w + A \/ (y > s /\ p <= w + A + A),
         z = y \/ z > y, x \in {k, r}, z = y => x = k,
         z >= s => k >= t,
         p < E => n <= E /\ (p < w => n <= w /\ z < s) /\ (p >= w => z >= s),
         p >= E => (y < s => E = w) /\ (z >= s => n <= E + A)
  PROVE  /\ w < n /\ n <= E => z >= s
         /\ z >= s => x >= t \/ n <= w + A \/ (z > s /\ n <= w + A + A)
         /\ w < p /\ p <= E => z >= s
         /\ z >= s => x >= t \/ p <= w + A \/ (z > s /\ p <= w + A + A)
         /\ p < E /\ n >= E /\ z < s => E = w /\ n <= w + A
<1>1. w < n /\ n <= E => z >= s
  OBVIOUS
<1>2. z >= s => x >= t \/ n <= w + A \/ (z > s /\ n <= w + A + A)
  <2> SUFFICES ASSUME z >= s, ~(x >= t) PROVE n <= w + A \/ (z > s /\ n <= w + A + A)
    OBVIOUS
  <2>1. z > y /\ x = r /\ ~(r >= t)
    OBVIOUS
  <2>2. CASE y >= s
    BY <2>1, <2>2
  <2>3. CASE y < s
    <3>1. CASE p < E
      BY <2>1, <2>3, <3>1
    <3>2. CASE p >= E
      BY <2>3, <3>2
    <3> QED
      BY <3>1, <3>2
  <2> QED
    BY <2>2, <2>3
<1>3. w < p /\ p <= E => z >= s
  OBVIOUS
<1>4. z >= s => x >= t \/ p <= w + A \/ (z > s /\ p <= w + A + A)
  BY <1>2
<1>5. p < E /\ n >= E /\ z < s => E = w /\ n <= w + A
  OBVIOUS
<1> QED
  BY <1>1, <1>2, <1>3, <1>4, <1>5

(* It goes on to the next document, also if it has to read that one again. *)
LEMMA WalkOn ==
  ASSUME DiskOK, Roomy, NEW h \in Header, NEW E \in Start .. End, Straight(h, E, disk),
         NEW p \in Int, NEW y \in Int, NEW r \in Int, WalkAt(h, E, p, y, r), Found(p) # {},
         NEW d \in Docs, d = disk[p][1], d.sync = y \/ (d.sync > y /\ d.sync <= h.sync + 1),
         NEW n \in Int, n = p + d.len, NEW x \in Int, x \in {d.ser, r}, d.sync = y => x = d.ser
  PROVE  WalkAt(h, E, n, d.sync, x) /\ WalkAt(h, E, p, d.sync, x)
<1>1. /\ h.writePos \in Start .. End /\ h.writePos <= E /\ h.sync \in Nat /\ h.ser \in Nat
      /\ p \in Start .. End
  BY HeaderParts DEF Straight, WalkAt
<1>2. d.pos = p
  BY FoundIs
<1>3. d.sync \in Nat /\ d.ser \in Nat /\ d.len \in Nat
  BY DocParts
<1> DEFINE w == h.writePos
           s == h.sync
           t == h.ser
           ds == disk[Start][1].sync
           z == d.sync
           k == d.ser
           A == AggSize
<1>4. /\ w \in Int /\ s \in Int /\ t \in Int /\ z \in Int /\ k \in Int /\ E \in Int
      /\ A \in Int /\ A >= 1 /\ EvacSize = A + A /\ Start <= w /\ w <= E
      /\ Start \in Int /\ End \in Int /\ E <= End /\ Start <= p /\ p <= End
  <2>1. /\ A \in Int /\ A >= 1 /\ EvacSize = A + A
        /\ Start \in Int /\ End \in Int
    BY SizeFacts
  <2>2. w \in Int /\ Start <= w /\ w <= E /\ E \in Int /\ E <= End /\ Start <= p /\ p <= End
    BY <1>1, <2>1
  <2>3. s \in Nat /\ t \in Nat /\ z \in Nat /\ k \in Nat
    BY <1>1, <1>3
  <2> HIDE DEF s, t, z, k, w, A
  <2> QED
    BY <2>1, <2>2, <2>3
<1>5. /\ w < p /\ p <= E => y >= s
      /\ y >= s => r >= t \/ p <= w + A \/ (y > s /\ p <= w + EvacSize)
      /\ p >= E /\ y < s => /\ E = w
                            /\ p <= w + A \/ w = Start \/ y <= ds
  BY DEF WalkAt
<1>6. z = y \/ (z > y /\ z <= s + 1)
  OBVIOUS
<1>7. x \in {k, r} /\ (z = y => x = k)
  OBVIOUS
<1>8. CASE p < E
  <2>1. p \in Start .. (E - 1)
    BY <1>4, <1>8
  <2>2. /\ d \in Docs /\ Found(p) # {} /\ n \in Int /\ p < n /\ n <= E /\ z <= s + 1
        /\ n <= p + A
        /\ p < w => n <= w /\ z < s /\ k < t
        /\ p >= w => Since(d, h)
        /\ n < E => disk[n][1].pos = n /\ z <= disk[n][1].sync
    BY <1>2, <2>1, StraightDoc, SMTT(60)
  <2>3. p >= w => s <= z /\ t <= k
    BY <2>2 DEF Since
  <2> HIDE DEF w, s, t, k, z, ds, A
  <2>a. (p < w => n <= w /\ z < s) /\ n <= E /\ p < n /\ n <= p + A /\ z <= s + 1
    BY <2>2
  <2>4. z >= s => k >= t
    BY <1>4, <2>a, <2>3
  <2>5. /\ w < n /\ n <= E => z >= s
        /\ z >= s => x >= t \/ n <= w + A \/ (z > s /\ n <= w + A + A)
        /\ w < p /\ p <= E => z >= s
        /\ z >= s => x >= t \/ p <= w + A \/ (z > s /\ p <= w + A + A)
        /\ p < E /\ n >= E /\ z < s => E = w /\ n <= w + A
    <3>1. y >= s => r >= t \/ p <= w + A \/ (y > s /\ p <= w + A + A)
      BY <1>4, <1>5
    <3>2. p < E => n <= E /\ (p < w => n <= w /\ z < s) /\ (p >= w => z >= s)
      BY <1>4, <2>a, <2>3
    <3>3. p >= E => (y < s => E = w) /\ (z >= s => n <= E + A)
      BY <1>4, <1>8
    <3>4. w < p /\ p <= E => y >= s
      BY <1>5
    <3>5. A >= 1 /\ w <= E /\ p < n /\ n <= p + A /\ z <= s + 1 /\ (z = y \/ z > y)
      BY <1>4, <1>6, <2>a
    <3>6. /\ w \in Int /\ s \in Int /\ t \in Int /\ z \in Int /\ k \in Int /\ E \in Int /\ A \in Int
      BY <1>4
    <3>7. x \in {k, r} /\ (z = y => x = k)
      BY <1>7
    <3>8. (w < n /\ n <= E => z >= s) /\ (w < p /\ p <= E => z >= s)
      BY <1>8, <3>2, <3>4, <3>5, <3>6
    <3>9. p < E /\ n >= E /\ z < s => E = w /\ n <= w + A
      BY <3>2, <3>5, <3>6
    <3>10. z >= s => x >= t \/ n <= w + A \/ (z > s /\ n <= w + A + A)
      BY <2>4, <3>1, <3>2, <3>3, <3>4, <3>5, <3>6, <3>7, WalkSums, SMTT(20)
    <3>11. z >= s => x >= t \/ p <= w + A \/ (z > s /\ p <= w + A + A)
      BY <3>5, <3>6, <3>10
    <3> QED
      BY <3>8, <3>9, <3>10, <3>11
  <2>6. n \in Start .. End
    BY <1>4, <2>2
  <2>7. WalkAt(h, E, n, d.sync, x)
    BY <1>4, <1>8, <2>2, <2>5, <2>6 DEF WalkAt, w, s, z, t, A
  <2>8. WalkAt(h, E, p, d.sync, x)
    <3>0. ~(p >= E) /\ z <= z
      BY <1>4, <1>8
    <3>1. p \in Start .. End /\ disk[p][1].pos = p /\ z <= disk[p][1].sync /\ ~(p >= E)
      BY <1>1, <1>2, <3>0 DEF z
    <3>2. z <= s + 1
      BY <2>a
    <3> QED
      BY <1>4, <2>5, <3>1, <3>2 DEF WalkAt, w, s, z, t, A
  <2> QED
    BY <2>7, <2>8
<1>9. CASE p >= E
  <2>1. /\ d \in Docs /\ d.pos = p /\ n \in Int /\ p < n /\ n <= End /\ n <= p + AggSize
        /\ \/ Since(d, h) /\ n <= E + AggSize
           \/ /\ z < s
              /\ n <= w + AggSize \/ w = Start \/ z <= ds
    BY <1>9, LeftDoc, SMTT(20)
  <2>2. \/ s <= z /\ t <= k /\ n <= E + A
        \/ z < s /\ (n <= w + A \/ w = Start \/ z <= ds)
    BY <2>1 DEF Since
  <2>3. z <= s + 1 \/ z < s
    BY <2>1 DEF Since
  <2> HIDE DEF w, s, t, k, z, ds, A
  <2>4. z <= s + 1
    BY <1>4, <2>3
  <2>5. z >= s => k >= t /\ n <= E + A
    BY <1>4, <2>2
  <2>6. /\ w < n /\ n <= E => z >= s
        /\ z >= s => x >= t \/ n <= w + A \/ (z > s /\ n <= w + A + A)
        /\ w < p /\ p <= E => z >= s
        /\ z >= s => x >= t \/ p <= w + A \/ (z > s /\ p <= w + A + A)
        /\ p < E /\ n >= E /\ z < s => E = w /\ n <= w + A
    <3>1. y >= s => r >= t \/ p <= w + A \/ (y > s /\ p <= w + A + A)
      BY <1>4, <1>5
    <3>2. p < E => n <= E /\ (p < w => n <= w /\ z < s) /\ (p >= w => z >= s)
      BY <1>4, <1>9
    <3>3. p >= E => (y < s => E = w) /\ (z >= s => n <= E + A)
      BY <1>5, <2>5
    <3>4. w < p /\ p <= E => y >= s
      BY <1>5
    <3>5. A >= 1 /\ w <= E /\ p < n /\ n <= p + A /\ z <= s + 1 /\ (z = y \/ z > y)
      BY <1>4, <1>6, <2>1, <2>4 DEF A
    <3> QED
      BY <1>4, <1>7, <2>5, <3>1, <3>2, <3>3, <3>4, <3>5, WalkSums, SMTT(20)
  <2>7. z < s => E = w /\ (n <= w + A \/ w = Start \/ z <= ds)
    <3>1. z < s => y < s
      BY <1>4, <1>6
    <3> QED
      BY <1>4, <1>5, <1>9, <2>2, <3>1
  <2>8. z < s => E = w /\ (p <= w + A \/ w = Start \/ z <= ds)
    <3>1. n <= w + A => p <= w + A
      BY <1>4, <2>1
    <3> QED
      BY <2>7, <3>1
  <2>9. n \in Start .. End /\ ~(n < E)
    BY <1>4, <1>9, <2>1
  <2>10. WalkAt(h, E, n, d.sync, x)
    BY <1>4, <2>4, <2>6, <2>7, <2>9 DEF WalkAt, w, s, z, t, ds, A
  <2>11. WalkAt(h, E, p, d.sync, x)
    BY <1>1, <1>4, <1>9, <2>4, <2>6, <2>8 DEF WalkAt, w, s, z, t, ds, A
  <2> QED
    BY <2>10, <2>11
<1> QED
  BY <1>4, <1>8, <1>9

(* The scan has turned back to the start although the log has not, and is  *)
(* where it will end soon: it is going to see that it should not have      *)
(* turned; or it is far before the write position; or it is at it.         *)
Loose(h, c) ==
  /\ c.wrapped /\ c.sync <= h.sync + 1 /\ c.pos < c.end
  /\ \/ /\ c.pos = Start /\ c.base = Start /\ c.state = "check" /\ Start < h.writePos
        /\ h.lastWritePos # Start /\ disk[Start][1].ser < c.ser
     \/ c.pos = Start /\ c.base = Start /\ h.writePos > Start + EvacSize
     \/ c.pos = h.writePos /\ h.writePos <= End - AggSize
     \/ /\ c.state = "check" /\ c.base = Start /\ h.lastWritePos = Start
        /\ Start <= c.pos /\ c.pos < h.writePos /\ disk[c.pos][1].pos = c.pos

(* Where the scan is when the log goes on from the copy to E. *)
Walking(h, E, c) ==
  /\ c.state = "check" =>
       /\ c.end = Smaller(c.base + EvacSize, End) /\ c.base \in Start .. End
       /\ c.base < End \/ c.base = h.lastWritePos
       /\ \/ c.pos = c.base
          \/ c.base = h.lastWritePos /\ h.lastWritePos <= c.pos /\ c.pos <= h.writePos
       /\ WalkAt(h, E, c.pos, c.sync, c.ser) \/ Loose(h, c)
  /\ c.state = "scan" =>
       /\ WalkAt(h, E, c.pos, c.sync, c.ser) \/ Loose(h, c)
       /\ c.pos > c.end => WalkAt(h, E, c.at, c.sync, c.ser)
  /\ c.state = "past" => h.writePos = End /\ c.sync <= h.sync + 1
  /\ c.state = "done" =>
       /\ Start <= c.pos /\ c.pos <= End - AggSize
       /\ \/ c.pos >= E
          \/ c.pos = End - EvacSize
          \/ c.pos = Start /\ h.writePos > Start + EvacSize
          \/ c.pos = h.writePos /\ c.wrapped

LEMMA SmallerIs ==
  ASSUME NEW a \in Int, NEW b \in Int
  PROVE  /\ Smaller(a, b) \in Int /\ Smaller(a, b) <= a /\ Smaller(a, b) <= b
         /\ Smaller(a, b) \in {a, b}
BY DEF Smaller

(* The next part is read, from a position inside the log.                  *)
LEMMA ReadsOn ==
  ASSUME Roomy, NEW h \in Header, NEW E, NEW c \in Cursors(h), NEW n \in Cursors(h), NEW p \in Int, p < End,
         WalkAt(h, E, p, c.sync, c.ser), Reads(c, n, p, c.wrapped)
  PROVE  Walking(h, E, n)
<1>1. CASE n.state = "clear"
  BY <1>1 DEF Walking
<1>2. CASE n.state # "clear"
  <2>1. /\ n.state = "check" /\ n.base = p /\ n.pos = p /\ n.end = Smaller(p + EvacSize, End)
        /\ n.sync = c.sync /\ n.ser = c.ser
    BY <1>2 DEF Reads
  <2>2. p \in Start .. End
    BY DEF WalkAt
  <2> QED
    BY <2>1, <2>2 DEF Walking
<1> QED
  BY <1>1, <1>2

(* The start of the volume is read, far before the write position.         *)
LEMMA ReadsFar ==
  ASSUME Roomy, NEW h \in Header, NEW E, NEW c \in Cursors(h), NEW n \in Cursors(h),
         h.writePos > Start + EvacSize, c.sync <= h.sync + 1, Reads(c, n, Start, TRUE)
  PROVE  Walking(h, E, n)
<1>1. CASE n.state = "clear"
  BY <1>1 DEF Walking
<1>2. CASE n.state # "clear"
  <2>1. /\ n.state = "check" /\ n.base = Start /\ n.pos = Start
        /\ n.end = Smaller(Start + EvacSize, End)
        /\ n.sync = c.sync /\ n.ser = c.ser /\ n.wrapped = TRUE
    BY <1>2 DEF Reads
  <2>2. Start + EvacSize \in Int /\ Start < Start + EvacSize /\ Start < End /\ Start \in Start .. End
    BY SizeFacts
  <2>3. n.pos < n.end
    <3>1. Smaller(Start + EvacSize, End) \in {Start + EvacSize, End}
      BY <2>2, SmallerIs
    <3> QED
      BY <2>1, <2>2, <3>1
  <2>4. Loose(h, n)
    BY <2>1, <2>3 DEF Loose
  <2> QED
    BY <2>1, <2>2, <2>4 DEF Walking
<1> QED
  BY <1>1, <1>2

(* The start of the volume is read after the end of the log.               *)
LEMMA ReadsStart ==
  ASSUME Roomy, NEW h \in Header, NEW E \in Start .. End, Straight(h, E, disk),
         h.lastWritePos <= h.writePos, NEW c \in Cursors(h), NEW n \in Cursors(h), NEW p \in Int,
         WalkAt(h, E, p, c.sync, c.ser), p >= E, p > End - AggSize, Reads(c, n, Start, TRUE)
  PROVE  Walking(h, E, n)
<1>1. CASE n.state = "clear"
  BY <1>1 DEF Walking
<1>2. CASE n.state # "clear" /\ h.writePos > Start + EvacSize
  <2>1. c.sync <= h.sync + 1
    BY DEF WalkAt
  <2> QED
    BY <1>2, <2>1, ReadsFar
<1>3. CASE n.state # "clear" /\ ~(h.writePos > Start + EvacSize)
  <2> DEFINE w == h.writePos
             y == c.sync
             r == c.ser
  <2>1. /\ n.state = "check" /\ n.base = Start /\ n.pos = Start
        /\ n.end = Smaller(Start + EvacSize, End)
        /\ n.sync = y /\ n.ser = r /\ n.wrapped = TRUE
    BY <1>3 DEF Reads
  <2>2. /\ Start + EvacSize \in Int /\ Start < Start + EvacSize /\ Start < End
        /\ Start \in Start .. End /\ AggSize \in Nat /\ AggSize >= 1 /\ EvacSize = AggSize + AggSize
        /\ Start + EvacSize <= End /\ Start + AggSize <= End - AggSize
        /\ Start + EvacSize + EvacSize <= End - AggSize /\ Start \in Int /\ End \in Int
    BY SizeFacts
  <2>3. n.end = Start + EvacSize
    BY <2>1, <2>2 DEF Smaller
  <2>4. w \in Int /\ Start <= w /\ w <= End /\ h.sync \in Int /\ h.ser \in Int /\ y \in Int /\ r \in Int
    <3>1. w \in Int /\ Start <= w /\ w <= End /\ h.sync \in Int /\ h.ser \in Int
      BY HeaderParts
    <3>2. y \in Int /\ r \in Int
      BY DEF Cursors
    <3> QED
      BY <3>1, <3>2
  <2>5. /\ y <= h.sync + 1
        /\ y >= h.sync => r >= h.ser \/ p <= w + AggSize \/ (y > h.sync /\ p <= w + EvacSize)
        /\ y < h.sync => E = w /\ (p <= w + AggSize \/ w = Start \/ y <= disk[Start][1].sync)
    BY DEF WalkAt
  <2>6. w <= Start + EvacSize
    BY <1>3, <2>2, <2>4
  <2>7. p \in Int /\ p > End - AggSize
    OBVIOUS
  <2> HIDE DEF w, y, r
  <2>8. ~(p <= w + AggSize) /\ ~(p <= w + EvacSize)
    BY <2>2, <2>4, <2>6, <2>7
  <2>9. CASE w = Start
    <3>1. Loose(h, n)
      BY <2>1, <2>2, <2>3, <2>5, <2>9 DEF Loose, w
    <3> QED
      BY <2>1, <2>2, <3>1 DEF Walking
  <2>10. CASE w > Start
    <3>1. Whole(disk, Start, w) /\ w <= E /\ Start \in Start .. (w - 1)
      BY <2>2, <2>4, <2>10 DEF Straight, w
    <3>2. disk[Start][1].pos = Start
      BY <2>2, <2>4, <2>10, <3>1, WholeFirst
    <3>3. disk[Start][1].ser < h.ser
      BY <3>1 DEF Straight, w
    <3>4. disk[Start][1] \in Docs
      BY <3>1 DEF Whole
    <3>5. disk[Start][1].ser \in Nat
      BY <3>4, DocParts
    <3>6. CASE y >= h.sync
      <4>1. r >= h.ser
        BY <2>5, <2>8, <3>6
      <4>2. disk[Start][1].ser < r
        BY <2>4, <3>3, <3>5, <4>1
      <4>3. n.pos < n.end
        BY <2>1, <2>2, <2>3
      <4>4. n.sync <= h.sync + 1
        BY <2>1, <2>5
      <4>5. CASE h.lastWritePos = Start
        <5>1. Start <= n.pos /\ n.pos < h.writePos /\ disk[n.pos][1].pos = n.pos
          BY <2>1, <2>2, <2>10, <3>2 DEF w
        <5>2. Loose(h, n)
          BY <2>1, <4>3, <4>4, <4>5, <5>1 DEF Loose
        <5> QED
          BY <2>1, <2>2, <5>2 DEF Walking
      <4>6. CASE h.lastWritePos # Start
        <5>1. Loose(h, n)
          BY <2>1, <2>10, <4>2, <4>3, <4>4, <4>6 DEF Loose, w
        <5> QED
          BY <2>1, <2>2, <5>1 DEF Walking
      <4> QED
        BY <4>5, <4>6
    <3>7. CASE y < h.sync
      <4>1. E = w /\ y <= disk[Start][1].sync
        BY <2>4, <2>5, <2>8, <2>10, <3>7
      <4>2. ~(w < Start) /\ ~(Start >= E) /\ ~(y >= h.sync)
        BY <2>2, <2>4, <2>10, <3>7, <4>1
      <4>3. WalkAt(h, E, Start, y, r)
        BY <2>2, <2>5, <3>2, <4>1, <4>2 DEF WalkAt, w
      <4> QED
        BY <2>1, <2>2, <4>3 DEF Walking
    <3> QED
      BY <2>4, <3>6, <3>7
  <2> QED
    BY <2>2, <2>4, <2>9, <2>10
<1> QED
  BY <1>1, <1>2, <1>3

LEMMA CursorParts ==
  ASSUME NEW h \in Header, NEW c \in Cursors(h)
  PROVE  /\ c.state \in {"check", "scan", "past", "clear", "done"} /\ c.base \in Int /\ c.end \in Int
         /\ c.pos \in Int /\ c.at \in Int /\ c.sync \in Int /\ c.ser \in Int /\ c.wrapped \in BOOLEAN
BY DEF Cursors

(* Inside the log the scan accepts every document.                         *)
LEMMA WalkAccepts ==
  ASSUME DiskOK, NEW h \in Header, NEW E \in Start .. End, Straight(h, E, disk),
         NEW c \in Cursors(h), WalkAt(h, E, c.pos, c.sync, c.ser), c.pos < E
  PROVE  Found(c.pos) # {} /\ Accepts(c, h, disk[c.pos][1].sync)
<1>1. PICK p \in Int : p = c.pos
  BY CursorParts
<1>2. c.sync \in Int
  BY CursorParts
<1>3. p \in Start .. (E - 1) /\ disk[p][1].pos = p /\ c.sync <= disk[p][1].sync
  BY <1>1 DEF WalkAt
<1>4. PICK d \in Docs : d = disk[p][1]
  BY <1>3, StraightIn
<1>5. d.sync \in Int /\ d.len \in Int
  BY DocParts
<1>6. PICK n \in Int : n = p + d.len
  BY <1>5
<1>7. Found(p) # {} /\ d.sync <= h.sync + 1
  BY <1>3, <1>4, <1>6, StraightDoc
<1>8. c.sync <= d.sync
  BY <1>3, <1>4
<1> QED
  BY <1>1, <1>2, <1>4, <1>5, <1>7, <1>8 DEF Accepts

(* A scan that has turned back too early and goes on is in the log again.  *)
LEMMA LooseAccepts ==
  ASSUME DiskOK, Roomy, NEW h \in Header, NEW E \in Start .. End, Straight(h, E, disk),
         NEW c \in Cursors(h), c.state = "scan", Loose(h, c),
         Found(c.pos) # {}, Accepts(c, h, disk[c.pos][1].sync)
  PROVE  WalkAt(h, E, c.pos, c.sync, c.ser)
<1>1. /\ c.sync \in Int /\ c.pos \in Int
  BY CursorParts
<1>2. PICK d \in Docs : d = disk[c.pos][1] /\ d.pos = c.pos
  BY FoundIs
<1>3. d.sync \in Int
  BY DocParts
<1>4. /\ h.writePos \in Start .. End /\ h.writePos \in Int /\ h.writePos <= E /\ h.sync \in Int
  BY HeaderParts DEF Straight
<1>5. c.sync <= d.sync /\ c.sync <= h.sync + 1
  BY <1>1, <1>2, <1>3, <1>4 DEF Accepts, Loose
<1>6. /\ Start \in Nat /\ End \in Nat /\ AggSize \in Nat /\ AggSize >= 1 /\ EvacSize \in Nat
  BY SizeFacts
<1>7. CASE c.pos = Start /\ h.writePos > Start + EvacSize
  <2>1. Start \in Start .. (h.writePos - 1) /\ Start \in Start .. End
    BY <1>4, <1>6, <1>7
  <2>2. d.sync < h.sync
    BY <1>2, <1>7, <2>1 DEF Straight
  <2>3. ~(c.sync >= h.sync) /\ ~(h.writePos < Start) /\ ~(Start >= E)
    BY <1>1, <1>3, <1>4, <1>5, <1>6, <1>7, <2>2, SMTT(20)
  <2> QED
    BY <1>2, <1>5, <1>7, <2>1, <2>3 DEF WalkAt
<1>8. CASE c.pos = h.writePos
  <2>1. ~(h.writePos < h.writePos) /\ h.writePos <= h.writePos + AggSize
    BY <1>4, <1>6
  <2>2. h.writePos >= E => E = h.writePos
    BY <1>4
  <2> QED
    BY <1>2, <1>4, <1>5, <1>8, <2>1, <2>2 DEF WalkAt
<1> QED
  BY <1>7, <1>8 DEF Loose

(* A step over the documents of a part.                                    *)
LEMMA WalkScan ==
  ASSUME DiskOK, Roomy, NEW h \in Header, NEW E \in Start .. End, Straight(h, E, disk),
         h.lastWritePos <= h.writePos, NEW c \in Cursors(h), NEW n \in Cursors(h),
         c.state = "scan", Walking(h, E, c), ScanMoves(c, n, h)
  PROVE  Walking(h, E, n)
<1>0. /\ c.base \in Int /\ c.end \in Int /\ c.pos \in Int /\ c.at \in Int /\ c.sync \in Int
      /\ c.ser \in Int /\ c.wrapped \in BOOLEAN /\ n.ser \in Int
  BY CursorParts
<1>1. /\ WalkAt(h, E, c.pos, c.sync, c.ser) \/ Loose(h, c)
      /\ c.pos > c.end => WalkAt(h, E, c.at, c.sync, c.ser)
  BY DEF Walking
<1>2. /\ Start \in Nat /\ End \in Nat /\ AggSize \in Nat /\ AggSize >= 1
      /\ EvacSize = AggSize + AggSize /\ End - AggSize >= Start + EvacSize + EvacSize
  BY SizeFacts
<1>3. CASE c.pos >= c.end
  <2> DEFINE p == IF c.pos > c.end THEN c.at ELSE c.pos
  <2>1. IF p >= End THEN Reads(c, n, Start, TRUE) ELSE Reads(c, n, p, c.wrapped)
    <3>1. ~(c.pos < c.end)
      BY <1>0, <1>3
    <3> QED
      BY <3>1, Zenon DEF ScanMoves
  <2>2. ~Loose(h, c)
    BY <1>0, <1>3 DEF Loose
  <2>3. WalkAt(h, E, p, c.sync, c.ser) /\ p \in Int
    BY <1>0, <1>1, <2>2
  <2> HIDE DEF p
  <2>4. CASE p >= End
    <3>1. p >= E /\ p > End - AggSize
      BY <1>2, <2>3, <2>4
    <3> QED
      BY <2>1, <2>3, <2>4, <3>1, ReadsStart
  <2>5. CASE p < End
    <3>1. Reads(c, n, p, c.wrapped)
      <4>1. ~(p >= End)
        BY <1>2, <2>3, <2>5
      <4> QED
        BY <2>1, <4>1
    <3> QED
      BY <2>3, <2>5, <3>1, ReadsOn
  <2> QED
    BY <1>2, <2>3, <2>4, <2>5
<1>4. CASE /\ c.pos < c.end
           /\ Found(c.pos) # {} => ~Accepts(c, h, disk[c.pos][1].sync)
           /\ Stops(c, n)
  <2>1. CASE c.pos > End - AggSize
    <3>1. Reads(c, n, Start, TRUE)
      BY <1>4, <2>1 DEF Stops
    <3>2. ~Loose(h, c)
      BY <1>0, <1>2, <2>1 DEF Loose
    <3>3. WalkAt(h, E, c.pos, c.sync, c.ser)
      BY <1>1, <3>2
    <3>4. c.pos >= E
      BY <1>0, <1>4, <3>3, WalkAccepts
    <3> QED
      BY <1>0, <2>1, <3>1, <3>3, <3>4, ReadsStart
  <2>2. CASE ~(c.pos > End - AggSize)
    <3>1. n.state = "done" /\ n.pos = c.pos /\ n.wrapped = c.wrapped
      BY <2>2, <1>4 DEF Stops
    <3>2. c.pos <= End - AggSize
      BY <1>0, <1>2, <2>2
    <3>3. CASE WalkAt(h, E, c.pos, c.sync, c.ser)
      <4>1. c.pos >= E
        BY <1>0, <1>4, <3>3, WalkAccepts
      <4>2. Start <= c.pos
        BY <1>0, <1>2, <4>1
      <4> QED
        BY <3>1, <3>2, <4>1, <4>2 DEF Walking
    <3>4. CASE Loose(h, c)
      <4>1. \/ c.pos = Start /\ h.writePos > Start + EvacSize
            \/ c.pos = h.writePos /\ c.wrapped
        BY <3>4 DEF Loose
      <4>2. Start <= c.pos
        BY <1>0, <1>2, <4>1, HeaderParts
      <4> QED
        BY <3>1, <3>2, <4>1, <4>2 DEF Walking
    <3> QED
      BY <1>1, <3>3, <3>4
  <2> QED
    BY <2>1, <2>2
<1>5. CASE /\ Found(c.pos) # {} /\ Accepts(c, h, disk[c.pos][1].sync)
           /\ n.state = "scan" /\ n.at = c.pos /\ n.pos = c.pos + disk[c.pos][1].len
           /\ n.sync = disk[c.pos][1].sync
           /\ n.ser = IF disk[c.pos][1].sync = c.sync THEN disk[c.pos][1].ser ELSE c.ser
  <2>1. WalkAt(h, E, c.pos, c.sync, c.ser)
    BY <1>1, <1>5, LooseAccepts
  <2>2. PICK d \in Docs : d = disk[c.pos][1]
    BY <1>5, FoundIs
  <2>3. d.sync = c.sync \/ (d.sync > c.sync /\ d.sync <= h.sync + 1)
    BY <1>5, <2>2 DEF Accepts
  <2>4. n.pos = c.pos + d.len /\ n.pos \in Int
    BY <1>5, <2>2, CursorParts
  <2>5. n.ser \in {d.ser, c.ser} /\ (d.sync = c.sync => n.ser = d.ser)
    BY <1>5, <2>2
  <2>6. Found(c.pos) # {} /\ n.sync = d.sync
    BY <1>5, <2>2
  <2>7. WalkAt(h, E, n.pos, n.sync, n.ser) /\ WalkAt(h, E, c.pos, n.sync, n.ser)
    <3>1. PICK p \in Int, y \in Int, r \in Int, m \in Int, x \in Int :
            p = c.pos /\ y = c.sync /\ r = c.ser /\ m = n.pos /\ x = n.ser
      BY <1>0, <2>4
    <3>2. /\ WalkAt(h, E, p, y, r) /\ Found(p) # {} /\ d = disk[p][1]
          /\ d.sync = y \/ (d.sync > y /\ d.sync <= h.sync + 1)
          /\ m = p + d.len /\ x \in {d.ser, r} /\ (d.sync = y => x = d.ser)
      BY <2>1, <2>2, <2>3, <2>4, <2>5, <2>6, <3>1
    <3>3. WalkAt(h, E, m, d.sync, x) /\ WalkAt(h, E, p, d.sync, x)
      BY <3>2, WalkOn, SMTT(20)
    <3> QED
      BY <2>6, <3>1, <3>3
  <2> QED
    BY <1>5, <2>7 DEF Walking
<1> QED
  BY <1>3, <1>4, <1>5 DEF ScanMoves

(* A step of the check of the last write before the copy.                  *)
LEMMA WalkLast ==
  ASSUME DiskOK, Roomy, NEW h \in Header, NEW E \in Start .. End, Straight(h, E, disk),
         h.lastWritePos <= h.writePos, NEW c \in Cursors(h), NEW n \in Cursors(h),
         c.state = "check", Walking(h, E, c), c.base = h.lastWritePos, c.pos < h.writePos,
         Found(c.pos) # {}, n.state = "check", n.base = c.base, n.end = c.end, n.wrapped = c.wrapped,
         n.pos = c.pos + disk[c.pos][1].len, n.ser = c.ser, n.sync \in {c.sync, disk[c.pos][1].sync}
  PROVE  Walking(h, E, n)
<1>1. PICK p \in Int, m \in Int, y \in Int, z \in Int :
        p = c.pos /\ m = n.pos /\ y = c.sync /\ z = n.sync
  BY CursorParts
<1>2. PICK d \in Docs : d = disk[p][1] /\ d.pos = p
  BY <1>1, FoundIs
<1>3. d.sync \in Int /\ d.len \in Int
  BY DocParts
<1>4. PICK w \in Int, l \in Int, s \in Int :
        /\ w = h.writePos /\ l = h.lastWritePos /\ s = h.sync /\ Start <= w /\ w <= End
        /\ Start <= l /\ l <= w
  BY HeaderParts
<1>5. w <= E /\ w <= l + AggSize
  BY <1>4 DEF Straight, LastWrite
<1>6. /\ Start \in Nat /\ End \in Nat /\ AggSize \in Nat /\ AggSize >= 1
      /\ EvacSize = AggSize + AggSize /\ End - AggSize >= Start + EvacSize + EvacSize
  BY SizeFacts
<1>7. /\ c.end = Smaller(c.base + EvacSize, End) /\ c.base \in Start .. End
      /\ \/ p = c.base
         \/ c.base = l /\ l <= p /\ p <= w
      /\ WalkAt(h, E, p, y, c.ser) \/ Loose(h, c)
  BY <1>1, <1>4 DEF Walking
<1>8. l <= p /\ p < w
  BY <1>1, <1>4, <1>7
<1>9. p \in Start .. (E - 1) /\ m = p + d.len /\ z \in {y, d.sync}
  BY <1>1, <1>2, <1>4, <1>5, <1>8
<1>10. /\ p < m /\ m <= w /\ d.sync < s
       /\ m < E => disk[m][1].pos = m /\ d.sync <= disk[m][1].sync
  <2>1. /\ p < m /\ (p < h.writePos => m <= h.writePos /\ d.sync < h.sync)
        /\ m < E => disk[m][1].pos = m /\ d.sync <= disk[m][1].sync
    BY <1>2, <1>9, StraightDoc, SMTT(20)
  <2> QED
    BY <1>4, <1>8, <2>1
<1>11. CASE WalkAt(h, E, p, y, c.ser)
  <2>1. y <= d.sync
    BY <1>2, <1>9, <1>11 DEF WalkAt
  <2>2. z <= d.sync /\ z < s
    BY <1>3, <1>9, <1>10, <2>1
  <2>3. m \in Start .. End /\ z <= s + 1 /\ ~(w < m) /\ ~(z >= s)
    BY <1>4, <1>8, <1>10, <2>2
  <2>4. m < E => disk[m][1].pos = m /\ z <= disk[m][1].sync
    <3> SUFFICES ASSUME m < E PROVE z <= disk[m][1].sync
      BY <1>10
    <3>1. m \in Start .. (E - 1)
      BY <2>3
    <3>2. PICK f \in Docs : f = disk[m][1]
      BY <3>1, StraightIn
    <3>3. f.sync \in Int
      BY DocParts
    <3> QED
      BY <1>3, <1>10, <2>2, <3>2, <3>3
  <2>5. m >= E => E = w /\ m <= w + AggSize
    BY <1>5, <1>6, <1>10
  <2>6. WalkAt(h, E, m, z, c.ser)
    BY <1>4, <2>3, <2>4, <2>5 DEF WalkAt
  <2>7. l <= m /\ m <= w
    BY <1>8, <1>10
  <2> QED
    BY <1>1, <1>4, <1>7, <2>6, <2>7 DEF Walking
<1>12. CASE Loose(h, c)
  <2>1. l = Start
    <3>1. ~(h.writePos > Start + EvacSize /\ c.base = Start)
      BY <1>4, <1>5, <1>6
    <3>2. ~(c.pos = h.writePos) /\ ~(c.base = Start /\ h.lastWritePos # Start)
      BY <1>1, <1>4, <1>8
    <3> QED
      BY <1>4, <1>12, <3>1, <3>2 DEF Loose
  <2>2. c.base = Start /\ n.end = Start + EvacSize
    BY <1>4, <1>6, <1>7, <2>1 DEF Smaller
  <2>3. n.pos < n.end
    BY <1>1, <1>5, <1>6, <1>10, <2>1, <2>2
  <2>4. z <= s + 1 /\ n.wrapped
    <3>1. y <= s + 1 /\ n.wrapped
      BY <1>1, <1>4, <1>12 DEF Loose
    <3>2. d.sync <= s + 1
      BY <1>3, <1>10
    <3> QED
      BY <1>9, <3>1, <3>2
  <2>5. Loose(h, n)
    <3>1. CASE m < w
      <4>1. disk[m][1].pos = m /\ Start <= m
        BY <1>4, <1>5, <1>8, <1>10, <3>1
      <4> QED
        BY <1>1, <1>4, <2>1, <2>2, <2>3, <2>4, <3>1, <4>1 DEF Loose
    <3>2. CASE m = w
      <4>1. w <= End - AggSize
        BY <1>4, <1>5, <1>6, <2>1, SMTT(20)
      <4> QED
        BY <1>1, <1>4, <2>3, <2>4, <3>2, <4>1 DEF Loose
    <3> QED
      BY <1>10, <3>1, <3>2
  <2>6. l <= m /\ m <= w
    BY <1>8, <1>10
  <2> QED
    BY <1>1, <1>4, <1>7, <2>5, <2>6 DEF Walking
<1> QED
  BY <1>7, <1>11, <1>12

LEMMA WalkCheck ==
  ASSUME DiskOK, Roomy, NEW h \in Header, NEW E \in Start .. End, Straight(h, E, disk),
         h.lastWritePos <= h.writePos, NEW c \in Cursors(h), NEW n \in Cursors(h),
         c.state = "check", Walking(h, E, c), CheckMoves(c, n, h)
  PROVE  Walking(h, E, n)
<1>1. CASE n.state = "clear"
  BY <1>1 DEF Walking
<1>2. CASE /\ c.base = h.lastWritePos /\ c.pos < h.writePos
           /\ Found(c.pos) # {}
           /\ n.state = "check" /\ n.base = c.base /\ n.end = c.end /\ n.wrapped = c.wrapped
           /\ n.pos = c.pos + disk[c.pos][1].len /\ n.ser = c.ser
           /\ n.sync \in {c.sync, disk[c.pos][1].sync}
  BY <1>2, WalkLast
<1>3. /\ c.end = Smaller(c.base + EvacSize, End) /\ c.base \in Start .. End
      /\ c.base < End \/ c.base = h.lastWritePos
      /\ \/ c.pos = c.base
         \/ c.base = h.lastWritePos /\ h.lastWritePos <= c.pos /\ c.pos <= h.writePos
      /\ WalkAt(h, E, c.pos, c.sync, c.ser) \/ Loose(h, c)
  BY DEF Walking
<1>4. /\ Start \in Nat /\ End \in Nat /\ AggSize \in Nat /\ AggSize >= 1
      /\ EvacSize = AggSize + AggSize /\ End - AggSize >= Start + EvacSize + EvacSize
  BY SizeFacts
<1>5. CASE c.pos >= c.end /\ n.state = "past" /\ n.sync = c.sync
  <2>1. PICK p \in Int, e \in Int, b \in Int : p = c.pos /\ e = c.end /\ b = c.base
    BY CursorParts
  <2>2. ~Loose(h, c)
    BY <1>5, <2>1 DEF Loose
  <2>3. c.sync <= h.sync + 1
    BY <1>3, <2>2 DEF WalkAt
  <2>4. PICK w \in Int, l \in Int :
        /\ w = h.writePos /\ l = h.lastWritePos /\ Start <= w /\ w <= End
        /\ Start <= l /\ l <= w
    BY HeaderParts
  <2>5. w <= l + AggSize
    BY <2>4 DEF Straight, LastWrite
  <2>6. e \in {b + EvacSize, End} /\ p >= e
    <3>1. e = Smaller(b + EvacSize, End) /\ p >= e
      BY <1>3, <1>5, <2>1
    <3>2. b + EvacSize \in Int /\ End \in Int
      BY <1>4, <2>1
    <3> QED
      BY <3>1, <3>2, SmallerIs
  <2>7. /\ b < End \/ b = l
        /\ b <= End
        /\ p = b \/ (b = l /\ l <= p /\ p <= w)
    BY <1>3, <2>1, <2>4
  <2>8. w = End
    <3> QED
      BY <1>4, <2>4, <2>5, <2>6, <2>7
  <2> QED
    BY <1>5, <2>3, <2>4, <2>8 DEF Walking
<1>6. CASE n.state = "done" /\ n.pos = End - EvacSize
  <2>1. Start <= End - EvacSize /\ End - EvacSize <= End - AggSize
    BY <1>4
  <2> QED
    BY <1>6, <2>1 DEF Walking
<1>7. CASE /\ ~(c.base = h.lastWritePos /\ c.pos < h.writePos) /\ c.pos < c.end
           /\ c.wrapped /\ c.base = Start => ~(disk[c.pos][1].ser < c.ser)
           /\ n.state = "scan" /\ n.base = c.base /\ n.end = c.end /\ n.wrapped = c.wrapped
           /\ n.at = c.at /\ n.pos = c.pos /\ n.sync = c.sync /\ n.ser = c.ser
  <2>1. ~(n.pos > n.end)
    BY <1>7, CursorParts
  <2>2. Loose(h, c) => Loose(h, n)
    BY <1>7 DEF Loose
  <2> QED
    BY <1>3, <1>7, <2>1, <2>2 DEF Walking
<1> QED
  BY <1>1, <1>2, <1>5, <1>6, <1>7 DEF CheckMoves

(* A scan that ends does so behind the log, or where everything is going to*)
(* be cleared, or where nothing is going to be done.                       *)
LEMMA StraightScan ==
  ASSUME DiskOK, Roomy, NEW h \in Header, NEW E \in Start .. End, Straight(h, E, disk),
         NEW r \in Scanned(h), r.state = "done"
  PROVE  /\ r \in Cursors(h) /\ Start <= r.pos /\ r.pos <= End - AggSize
         /\ \/ r.pos >= E
            \/ r.pos = End - EvacSize
            \/ r.pos = Start /\ h.writePos > Start + EvacSize
            \/ r.pos = h.writePos /\ r.wrapped
<1> DEFINE C == {c \in Cursors(h) : Walking(h, E, c)}
<1>1. h.writePos \in Int /\ h.lastWritePos \in Int
  BY HeaderParts
<1>2. CASE h.lastWritePos > h.writePos
  <2>1. Scanned(h) = {[ScanStart(h) EXCEPT !.state = "clear"]}
    BY <1>2 DEF Scanned
  <2>2. r.state = "clear"
    BY <2>1, ScanStartOK DEF Cursors
  <2> QED
    BY <2>2
<1>3. CASE h.lastWritePos <= h.writePos
  <2>1. ScanStart(h) \in C
    <3> DEFINE c == ScanStart(h)
               l == h.lastWritePos
    <3>1. /\ c \in Cursors(h) /\ c.state = "check" /\ c.base = l /\ c.pos = l /\ c.sync = 0 /\ c.ser = 0
          /\ c.end = Smaller(l + EvacSize, End)
      BY ScanStartOK DEF ScanStart
    <3> HIDE DEF c
    <3>2. l \in Start .. End /\ h.sync \in Nat /\ h.writePos <= E /\ AggSize \in Nat
      BY HeaderParts DEF Straight
    <3>3. l < E => disk[l][1].pos = l /\ 0 <= disk[l][1].sync
      <4> SUFFICES ASSUME l < E PROVE disk[l][1].pos = l /\ 0 <= disk[l][1].sync
        OBVIOUS
      <4>1. l \in Start .. (E - 1) /\ l \in Int /\ E \in Int
        BY <3>2
      <4>2. disk[l][1] \in Docs
        BY <4>1, StraightIn
      <4>3. disk[l][1].sync \in Nat
        BY <4>2, DocParts
      <4>4. CASE l < h.writePos
        <5>1. Whole(disk, l, h.writePos)
          BY <1>3 DEF Straight, LastWrite
        <5> HIDE DEF l
        <5>2. disk[l][1].pos = l
          BY <1>1, <4>1, <4>4, <5>1, WholeFirst
        <5> QED
          BY <4>3, <5>2
      <4>5. CASE l = h.writePos
        <5>1. Whole(disk, l, E)
          BY <4>5 DEF Straight
        <5> HIDE DEF l
        <5>2. disk[l][1].pos = l
          BY <4>1, <5>1, WholeFirst
        <5> QED
          BY <4>3, <5>2
      <4> QED
        BY <1>1, <1>3, <4>4, <4>5
    <3>4. ~(h.writePos < l) /\ l <= h.writePos + AggSize
      BY <1>1, <1>3, <3>2
    <3>5. l >= E => E = h.writePos
      BY <1>1, <1>3, <3>2
    <3>6. WalkAt(h, E, l, 0, 0)
      BY <3>2, <3>3, <3>4, <3>5 DEF WalkAt
    <3>7. Walking(h, E, c)
      BY <3>1, <3>2, <3>6 DEF Walking
    <3> QED
      BY <3>1, <3>7 DEF c
  <2>2. ASSUME NEW c \in C
        PROVE  IF c.state = "past" THEN Past(h, c) \subseteq C ELSE Step(h, c) \in C
    <3>0. c \in Cursors(h) /\ Walking(h, E, c)
      OBVIOUS
    <3> HIDE DEF C
    <3>1. CASE c.state = "check"
      <4>1. Step(h, c) = CheckStep(c, h)
        BY <3>1 DEF Step
      <4>2. CheckStep(c, h) \in Cursors(h) /\ CheckMoves(c, CheckStep(c, h), h)
        BY <3>0, <3>1, <4>1, StepOK, CheckStepIs
      <4>3. Walking(h, E, CheckStep(c, h))
        BY <1>3, <3>0, <3>1, <4>2, WalkCheck
      <4> QED
        BY <3>1, <4>1, <4>2, <4>3 DEF C
    <3>2. CASE c.state = "scan"
      <4>1. Step(h, c) = ScanStep(c, h)
        BY <3>2 DEF Step
      <4>2. ScanStep(c, h) \in Cursors(h) /\ ScanMoves(c, ScanStep(c, h), h)
        BY <3>0, <3>2, <4>1, StepOK, ScanStepIs
      <4>3. Walking(h, E, ScanStep(c, h))
        BY <1>3, <3>0, <3>2, <4>2, WalkScan
      <4> QED
        BY <3>2, <4>1, <4>2, <4>3 DEF C
    <3>3. CASE c.state = "past"
      <4> SUFFICES ASSUME NEW n \in Past(h, c) PROVE n \in C
        BY <3>3
      <4>1. n \in Cursors(h) /\ Reads(c, n, Start, TRUE)
        BY <3>0, PastOK, PastIs
      <4>2. h.writePos = End /\ c.sync <= h.sync + 1
        BY <3>0, <3>3 DEF Walking
      <4>3. h.writePos > Start + EvacSize
        BY <4>2, SizeFacts
      <4>4. Walking(h, E, n)
        BY <3>0, <4>1, <4>2, <4>3, ReadsFar
      <4> QED
        BY <4>1, <4>4 DEF C
    <3>4. CASE c.state \notin {"check", "scan", "past"}
      <4>1. Step(h, c) = c
        BY <3>4 DEF Step
      <4> QED
        BY <3>4, <4>1
    <3> QED
      BY <3>1, <3>2, <3>3, <3>4
  <2> HIDE DEF C
  <2>3. Scanned(h) \subseteq C
    <3>1. ~(h.lastWritePos > h.writePos)
      BY <1>1, <1>3
    <3> QED
      BY <2>1, <2>2, <3>1, ScannedIn
  <2>4. r \in Cursors(h) /\ Walking(h, E, r)
    BY <2>3 DEF C
  <2> QED
    BY <2>4 DEF Walking
<1> QED
  BY <1>1, <1>2, <1>3

-----------------------------------------------------------------------------
(* The scan when the log has turned since the copy.                        *)

(* The log has gone on from the write position of h to T, close to the end *)
(* of the volume, and from the start to E, which is far before the write   *)
(* position of h.                                                          *)
TurnedLog(h, T, E, D) ==
  /\ h.writePos <= T /\ End - AggSize < T /\ Start < E /\ E + EvacSize < h.writePos
  /\ LastWrite(h, D) /\ Whole(D, h.writePos, T) /\ Whole(D, Start, E)
  /\ Ordered(D, h.lastWritePos, T) /\ Ordered(D, Start, E)
  /\ \A b \in h.lastWritePos .. (h.writePos - 1) : D[b][1].sync < h.sync
  /\ \A b \in h.writePos .. (T - 1) : Since(D[b][1], h)
  /\ \A b \in Start .. (E - 1) : Since(D[b][1], h)
  /\ \A b \in h.lastWritePos .. (End - 1) :
       D[b][1].sync <= D[Start][1].sync /\ D[b][1].ser <= D[Start][1].ser
  /\ \A b \in E .. (h.writePos - 1) :
       LET d == D[b][1]
       IN (Since(d, h) /\ d.pos + d.len + EvacSize < h.writePos) \/ d.sync < h.sync

(* The scan is before the turn, at position p. *)
Fore(h, T, p, y, r) ==
  /\ h.lastWritePos <= p /\ p <= End
  /\ p < T => disk[p][1].pos = p /\ y <= disk[p][1].sync
  /\ y <= disk[Start][1].sync /\ r <= disk[Start][1].ser

(* The scan is after the turn. *)
Back(h, E, p, y, r) ==
  /\ Start <= p /\ p + EvacSize < h.writePos
  /\ p < E => disk[p][1].pos = p /\ y <= disk[p][1].sync
  /\ p >= E => y >= h.sync
  /\ p = Start => r <= disk[Start][1].ser

Turning(h, T, E, c) ==
  /\ c.state = "check" /\ ~c.wrapped => Fore(h, T, c.pos, c.sync, c.ser)
  /\ c.state = "check" /\ c.wrapped =>
       /\ c.end = Smaller(c.base + EvacSize, End) /\ c.pos = c.base
       /\ Back(h, E, c.pos, c.sync, c.ser)
  /\ c.state = "scan" /\ ~c.wrapped =>
       /\ Fore(h, T, c.pos, c.sync, c.ser)
       /\ c.pos > c.end => Fore(h, T, c.at, c.sync, c.ser)
  /\ c.state = "scan" /\ c.wrapped =>
       /\ Back(h, E, c.pos, c.sync, c.ser)
       /\ c.pos > c.end => Back(h, E, c.at, c.sync, c.ser)
  /\ c.state = "past" => c.sync <= disk[Start][1].sync /\ c.ser <= disk[Start][1].ser
  /\ c.state = "done" => c.wrapped /\ Start <= c.pos /\ c.pos + EvacSize < h.writePos

LEMMA TurnedFacts ==
  ASSUME Roomy, NEW h \in Header, NEW T \in Start .. End, NEW E \in Start .. End,
         TurnedLog(h, T, E, disk)
  PROVE  /\ h.lastWritePos \in Start .. End /\ h.writePos \in Start .. End
         /\ h.lastWritePos <= h.writePos /\ h.writePos <= h.lastWritePos + AggSize
         /\ Whole(disk, h.lastWritePos, h.writePos) /\ h.sync \in Nat
         /\ disk[Start][1].pos = Start /\ disk[Start][1] \in Docs
<1>1. /\ h.lastWritePos \in Start .. End /\ h.writePos \in Start .. End /\ h.sync \in Nat
  BY HeaderParts
<1>2. Start < E /\ E + EvacSize < h.writePos /\ EvacSize \in Nat
  BY SizeFacts DEF TurnedLog
<1>3. h.writePos # Start
  BY <1>1, <1>2
<1>4. /\ h.lastWritePos <= h.writePos /\ h.writePos <= h.lastWritePos + AggSize
      /\ Whole(disk, h.lastWritePos, h.writePos)
  BY <1>3 DEF TurnedLog, LastWrite
<1>5. Whole(disk, Start, E) /\ Start \in Int /\ E \in Int /\ Start \in Start .. (E - 1)
  BY <1>2 DEF TurnedLog
<1>6. disk[Start][1] \in Docs
  BY <1>5 DEF Whole
<1>7. disk[Start][1].pos = Start
  BY <1>2, <1>5, WholeFirst
<1> QED
  BY <1>1, <1>4, <1>6, <1>7

(* A document before the turn, and the next one.                           *)
LEMMA ForeDoc ==
  ASSUME Roomy, NEW h \in Header, NEW T \in Start .. End, NEW E \in Start .. End,
         TurnedLog(h, T, E, disk), NEW p \in Int, h.lastWritePos <= p, p < T, disk[p][1].pos = p
  PROVE  \E d \in Docs, n \in Int :
           /\ d = disk[p][1] /\ n = p + d.len /\ Found(p) # {} /\ d.sync <= h.sync + 1
           /\ p < n /\ n <= End
           /\ n < T => disk[n][1].pos = n /\ d.sync <= disk[n][1].sync
<1>a. PICK w \in Int, l \in Int : w = h.writePos /\ l = h.lastWritePos
  BY HeaderParts
<1>b. /\ Whole(disk, l, w) /\ Whole(disk, w, T) /\ Ordered(disk, l, T)
      /\ \A b \in l .. (w - 1) : disk[b][1].sync < h.sync
      /\ \A b \in w .. (T - 1) : Since(disk[b][1], h)
  BY <1>a, TurnedFacts DEF TurnedLog
<1>c. Start <= l /\ l <= w /\ w <= T /\ h.sync \in Int /\ l <= p
  <2>1. /\ h.lastWritePos \in Start .. End /\ h.lastWritePos <= h.writePos /\ h.sync \in Nat
    BY TurnedFacts
  <2>2. h.writePos <= T
    BY DEF TurnedLog
  <2> QED
    BY <1>a, <2>1, <2>2
<1>1. /\ Start <= l /\ l <= w /\ w <= T /\ h.sync \in Int /\ l <= p
      /\ Whole(disk, l, w) /\ Whole(disk, w, T) /\ Ordered(disk, l, T)
      /\ \A b \in l .. (w - 1) : disk[b][1].sync < h.sync
      /\ \A b \in w .. (T - 1) : Since(disk[b][1], h)
  BY <1>b, <1>c
<1>d. T \in Int /\ Whole(disk, l, w) /\ Whole(disk, w, T)
  BY <1>b
<1>2. PICK d : d = disk[p][1] /\ d.pos = p
  OBVIOUS
<1>3. p \in Blocks
  BY <1>1 DEF Blocks
<1>4. CASE p < w
  <2>1. p \in l .. (w - 1)
    BY <1>1, <1>4
  <2>2. d \in Docs
    BY <1>1, <1>2, <2>1 DEF Whole
  <2>3. d.len \in Nat /\ d.sync \in Int
    BY <2>2, DocParts
  <2>4. PICK n \in Int : n = p + d.len
    BY <2>3
  <2>5. disk[p] = <<d, 0>> /\ p < n /\ n <= w /\ (n < w => disk[n][1].pos = n)
    BY <1>d, <1>2, <2>1, <2>4, WholeNext
  <2>6. Found(p) # {}
    BY <1>3, <2>2, <2>5, FoundFirst
  <2>7. d.sync <= h.sync + 1
    BY <1>1, <1>2, <2>1, <2>3
  <2>8. n = w /\ w < T => disk[n][1].pos = n
    BY <1>1, WholeFirst
  <2>9. n < T => disk[n][1].pos = n
    BY <1>1, <2>5, <2>8
  <2>10. ASSUME n < T PROVE d.sync <= disk[n][1].sync
    <3>1. n \in l .. (T - 1) /\ p \in l .. (T - 1) /\ p <= n
      BY <1>1, <2>1, <2>5, <2>10
    <3> QED
      BY <1>1, <1>2, <3>1 DEF Ordered
  <2>11. n <= End
    BY <1>1, <2>5
  <2> QED
    BY <1>2, <2>2, <2>4, <2>5, <2>6, <2>7, <2>9, <2>10, <2>11
<1>5. CASE p >= w
  <2>1. p \in w .. (T - 1)
    BY <1>1, <1>5
  <2>2. d \in Docs
    BY <1>1, <1>2, <2>1 DEF Whole
  <2>3. d.len \in Nat /\ d.sync \in Int
    BY <2>2, DocParts
  <2>4. PICK n \in Int : n = p + d.len
    BY <2>3
  <2>5. disk[p] = <<d, 0>> /\ p < n /\ n <= T /\ (n < T => disk[n][1].pos = n)
    BY <1>d, <1>2, <2>1, <2>4, WholeNext
  <2>6. Found(p) # {}
    BY <1>3, <2>2, <2>5, FoundFirst
  <2>7. d.sync <= h.sync + 1
    BY <1>1, <1>2, <2>1 DEF Since
  <2>8. ASSUME n < T PROVE d.sync <= disk[n][1].sync
    <3>1. n \in l .. (T - 1) /\ p \in l .. (T - 1) /\ p <= n
      BY <1>1, <2>1, <2>5, <2>8
    <3> QED
      BY <1>1, <1>2, <3>1 DEF Ordered
  <2>9. n <= End
    BY <1>1, <2>5
  <2> QED
    BY <1>2, <2>2, <2>4, <2>5, <2>6, <2>7, <2>8, <2>9
<1> QED
  BY <1>1, <1>4, <1>5, SMTT(20)

(* A document after the turn, and the next one.                            *)
LEMMA BackDoc ==
  ASSUME Roomy, NEW h \in Header, NEW T \in Start .. End, NEW E \in Start .. End,
         TurnedLog(h, T, E, disk), NEW p \in Int, Start <= p, p < E, disk[p][1].pos = p
  PROVE  \E d \in Docs, n \in Int :
           /\ d = disk[p][1] /\ n = p + d.len /\ Found(p) # {} /\ Since(d, h) /\ p < n /\ n <= E
           /\ n < E => disk[n][1].pos = n /\ d.sync <= disk[n][1].sync
<1>1. /\ Whole(disk, Start, E) /\ Ordered(disk, Start, E) /\ p \in Start .. (E - 1)
      /\ Start \in Int /\ E \in Int /\ p \in Blocks
  BY DEF TurnedLog, Blocks
<1>2. PICK d : d = disk[p][1] /\ d.pos = p
  OBVIOUS
<1>3. d \in Docs
  BY <1>1, <1>2 DEF Whole
<1>4. d.len \in Nat
  BY <1>3, DocParts
<1>5. PICK n \in Int : n = p + d.len
  BY <1>4
<1>6. disk[p] = <<d, 0>> /\ p < n /\ n <= E /\ (n < E => disk[n][1].pos = n)
  BY <1>1, <1>2, <1>5, WholeNext
<1>7. Found(p) # {}
  BY <1>1, <1>3, <1>6, FoundFirst
<1>8. Since(d, h)
  BY <1>1, <1>2 DEF TurnedLog
<1>9. ASSUME n < E PROVE d.sync <= disk[n][1].sync
  <2>1. n \in Start .. (E - 1) /\ p <= n
    BY <1>1, <1>6, <1>9
  <2> QED
    BY <1>1, <1>2, <2>1 DEF Ordered
<1> QED
  BY <1>2, <1>3, <1>5, <1>6, <1>7, <1>8, <1>9

(* The scan goes on before the turn.                                       *)
LEMMA ForeOn ==
  ASSUME DiskOK, Roomy, NEW h \in Header, NEW T \in Start .. End, NEW E \in Start .. End,
         TurnedLog(h, T, E, disk), NEW p \in Int, NEW y \in Int, NEW r \in Int, Fore(h, T, p, y, r),
         Found(p) # {}, NEW d \in Docs, d = disk[p][1], NEW n \in Int, n = p + d.len,
         NEW x \in Int, x = d.ser \/ x = r
  PROVE  Fore(h, T, n, d.sync, x) /\ Fore(h, T, p, d.sync, x)
<1>1. p \in Blocks /\ d \in Docs /\ d.pos = p
  BY FoundIs
<1>2. d.len \in Nat /\ d.len >= 1 /\ d.pos + d.len <= End /\ d.sync \in Nat
  BY <1>1, DocParts
<1>3. n \in Int /\ p < n /\ n <= End
  <2> DEFINE l == d.len
  <2>1. l \in Nat /\ l >= 1 /\ n = p + l /\ p + l <= End
    BY <1>1, <1>2
  <2> HIDE DEF l
  <2> QED
    BY <2>1
<1>4. h.lastWritePos \in Int /\ h.lastWritePos <= p /\ r <= disk[Start][1].ser
  BY HeaderParts DEF Fore
<1>5. p \in h.lastWritePos .. (End - 1)
  BY <1>1, <1>4 DEF Blocks
<1>6. d.sync <= disk[Start][1].sync /\ d.ser <= disk[Start][1].ser
  BY <1>5 DEF TurnedLog
<1>7. x <= disk[Start][1].ser
  BY <1>4, <1>6
<1>8. n < T => disk[n][1].pos = n /\ d.sync <= disk[n][1].sync
  <2> SUFFICES ASSUME n < T PROVE disk[n][1].pos = n /\ d.sync <= disk[n][1].sync
    OBVIOUS
  <2>1. p < T /\ disk[p][1].pos = p
    BY <1>1, <1>3
  <2>2. PICK f \in Docs, m \in Int :
           /\ f = disk[p][1] /\ m = p + f.len
           /\ m < T => disk[m][1].pos = m /\ f.sync <= disk[m][1].sync
    BY <1>4, <2>1, ForeDoc, SMTT(20)
  <2> QED
    BY <2>2
<1>9. Fore(h, T, n, d.sync, x)
  <2>1. h.lastWritePos <= n
    BY <1>3, <1>4
  <2> QED
    BY <1>3, <1>6, <1>7, <1>8, <2>1 DEF Fore
<1>10. Fore(h, T, p, d.sync, x)
  <2>1. disk[p][1].pos = p /\ d.sync <= disk[p][1].sync /\ p <= End
    <3> DEFINE z == d.sync
    <3>1. z \in Nat
      BY <1>2
    <3> HIDE DEF z
    <3>2. z <= z /\ p <= End
      BY <1>3, <3>1
    <3> QED
      BY <1>1, <3>2 DEF z
  <2> QED
    BY <1>4, <1>6, <1>7, <2>1 DEF Fore
<1> QED
  BY <1>9, <1>10

LEMMA SumBelow ==
  ASSUME NEW n \in Int, NEW m \in Int, NEW v \in Int, NEW w \in Int, n <= m, m + v < w
  PROVE  n + v < w
OBVIOUS

(* The scan goes on after the turn.                                        *)
LEMMA BackOn ==
  ASSUME DiskOK, Roomy, NEW h \in Header, NEW T \in Start .. End, NEW E \in Start .. End,
         TurnedLog(h, T, E, disk), NEW p \in Int, NEW y \in Int, NEW r \in Int, Back(h, E, p, y, r),
         Found(p) # {}, NEW d \in Docs, d = disk[p][1], d.sync >= y, NEW n \in Int, n = p + d.len,
         NEW x \in Int, x = d.ser \/ x = r
  PROVE  Back(h, E, n, d.sync, x) /\ Back(h, E, p, d.sync, x)
<1>1. p \in Blocks /\ d \in Docs /\ d.pos = p
  BY FoundIs
<1>2. d.len \in Nat /\ d.len >= 1 /\ d.sync \in Nat /\ d.ser \in Nat
  BY <1>1, DocParts
<1>3. n \in Int /\ p < n
  <2> DEFINE l == d.len
  <2>1. l \in Nat /\ l >= 1 /\ n = p + l
    BY <1>2
  <2> HIDE DEF l
  <2> QED
    BY <2>1
<1>4. PICK w \in Int, s \in Int : w = h.writePos /\ s = h.sync
  BY HeaderParts
<1>5. Start <= p /\ p + EvacSize < w /\ (p >= E => y >= s) /\ (p = Start => r <= disk[Start][1].ser)
  BY <1>4 DEF Back
<1>6. EvacSize \in Nat /\ Start \in Int /\ E \in Int
  BY SizeFacts
<1>7. E + EvacSize < w
  BY <1>4 DEF TurnedLog
<1>8. /\ n + EvacSize < w /\ (p >= E => d.sync >= s)
      /\ n < E => disk[n][1].pos = n /\ d.sync <= disk[n][1].sync
      /\ n >= E => d.sync >= s
  <2>1. CASE p < E
    <3>1. disk[p][1].pos = p
      BY <1>1
    <3>2. PICK f \in Docs, m \in Int :
           /\ f = disk[p][1] /\ m = p + f.len /\ Since(f, h) /\ m <= E
           /\ m < E => disk[m][1].pos = m /\ f.sync <= disk[m][1].sync
      BY <1>5, <2>1, <3>1, BackDoc
    <3>3. d.sync >= s /\ n <= E
      BY <1>4, <1>2, <3>2 DEF Since
    <3>4. n + EvacSize < w
      <4>1. PICK v \in Int : v = EvacSize
        BY <1>6
      <4>2. n <= E /\ E \in Int /\ E + v < w
        BY <1>6, <1>7, <3>3, <4>1
      <4>3. n + v < w
        BY <4>2, SumBelow, Zenon
      <4> QED
        BY <4>1, <4>3
    <3> QED
      BY <3>2, <3>3, <3>4
  <2>2. CASE p >= E
    <3>1. p \in E .. (w - 1)
      BY <1>5, <1>6, <2>2
    <3>2. (Since(d, h) /\ d.pos + d.len + EvacSize < w) \/ d.sync < s
      BY <1>4, <3>1 DEF TurnedLog
    <3>3. d.sync >= s
      <4> DEFINE z == d.sync
      <4>1. z \in Int /\ z >= y
        BY <1>2
      <4> HIDE DEF z
      <4>2. z >= s
        BY <1>5, <2>2, <4>1
      <4> QED
        BY <4>2 DEF z
    <3>4. d.pos + d.len + EvacSize < w
      BY <1>2, <3>2, <3>3
    <3>5. n + EvacSize < w
      BY <1>1, <3>4
    <3>6. ~(n < E)
      BY <1>3, <1>6, <2>2
    <3> QED
      BY <3>3, <3>5, <3>6
  <2> QED
    BY <1>6, <2>1, <2>2
<1>9. Start <= n /\ n # Start
  BY <1>3, <1>5, <1>6
<1>10. Back(h, E, n, d.sync, x)
  BY <1>4, <1>8, <1>9 DEF Back
<1>11. p = Start => x <= disk[Start][1].ser
  BY <1>2, <1>5, SMTT(20)
<1>12. disk[p][1].pos = p /\ d.sync <= disk[p][1].sync
  BY <1>1, <1>2
<1>13. Back(h, E, p, d.sync, x)
  BY <1>4, <1>5, <1>8, <1>11, <1>12 DEF Back
<1> QED
  BY <1>10, <1>13

(* The scan turns.                                                         *)
LEMMA TurnsRight ==
  ASSUME DiskOK, Roomy, NEW h \in Header, NEW T \in Start .. End, NEW E \in Start .. End,
         TurnedLog(h, T, E, disk), NEW c \in Cursors(h), NEW n \in Cursors(h),
         c.sync <= disk[Start][1].sync, c.ser <= disk[Start][1].ser, Reads(c, n, Start, TRUE)
  PROVE  Turning(h, T, E, n)
<1>1. CASE n.state = "clear"
  BY <1>1 DEF Turning
<1>2. CASE n.state # "clear"
  <2>1. /\ n.state = "check" /\ n.base = Start /\ n.pos = Start
        /\ n.end = Smaller(Start + EvacSize, End)
        /\ n.sync = c.sync /\ n.ser = c.ser /\ n.wrapped = TRUE
    BY <1>2 DEF Reads
  <2>2. disk[Start][1].pos = Start /\ Start < E /\ E + EvacSize < h.writePos /\ h.writePos \in Int
    BY TurnedFacts DEF TurnedLog
  <2>3. Start <= Start /\ Start + EvacSize < h.writePos /\ ~(Start >= E)
    BY <2>2, SizeFacts
  <2>4. Back(h, E, Start, c.sync, c.ser)
    BY <2>2, <2>3 DEF Back
  <2> QED
    BY <2>1, <2>4 DEF Turning
<1> QED
  BY <1>1, <1>2

LEMMA ReadsFore ==
  ASSUME NEW h \in Header, NEW T, NEW E, NEW c \in Cursors(h), NEW n \in Cursors(h), NEW p,
         Fore(h, T, p, c.sync, c.ser), ~c.wrapped, Reads(c, n, p, c.wrapped)
  PROVE  Turning(h, T, E, n)
<1>1. CASE n.state = "clear"
  BY <1>1 DEF Turning
<1>2. CASE n.state # "clear"
  <2>1. /\ n.state = "check" /\ n.pos = p /\ n.sync = c.sync /\ n.ser = c.ser /\ n.wrapped = c.wrapped
    BY <1>2 DEF Reads
  <2> QED
    BY <2>1 DEF Turning
<1> QED
  BY <1>1, <1>2

LEMMA ReadsBack ==
  ASSUME NEW h \in Header, NEW T, NEW E, NEW c \in Cursors(h), NEW n \in Cursors(h), NEW p,
         Back(h, E, p, c.sync, c.ser), c.wrapped, Reads(c, n, p, c.wrapped)
  PROVE  Turning(h, T, E, n)
<1>1. CASE n.state = "clear"
  BY <1>1 DEF Turning
<1>2. CASE n.state # "clear"
  <2>1. /\ n.state = "check" /\ n.base = p /\ n.pos = p /\ n.end = Smaller(p + EvacSize, End)
        /\ n.sync = c.sync /\ n.ser = c.ser /\ n.wrapped = c.wrapped
    BY <1>2 DEF Reads
  <2> QED
    BY <2>1 DEF Turning
<1> QED
  BY <1>1, <1>2

LEMMA TurnScan ==
  ASSUME DiskOK, Roomy, NEW h \in Header, NEW T \in Start .. End, NEW E \in Start .. End,
         TurnedLog(h, T, E, disk), NEW c \in Cursors(h), NEW n \in Cursors(h),
         c.state = "scan", Turning(h, T, E, c), ScanMoves(c, n, h)
  PROVE  Turning(h, T, E, n)
<1>0. /\ c.end \in Int /\ c.pos \in Int /\ c.at \in Int /\ c.sync \in Int /\ c.ser \in Int
      /\ c.wrapped \in BOOLEAN /\ n.pos \in Int
  BY CursorParts
<1>1. /\ Start \in Int /\ End \in Int /\ AggSize \in Nat /\ AggSize >= 1 /\ EvacSize \in Nat
      /\ EvacSize = AggSize + AggSize
  BY SizeFacts
<1>2. PICK w \in Int : w = h.writePos /\ w <= End /\ End - AggSize < T
  BY HeaderParts DEF TurnedLog
<1>3. CASE c.pos >= c.end
  <2>0. ~(c.pos < c.end)
    BY <1>0, <1>3
  <2> DEFINE p == IF c.pos > c.end THEN c.at ELSE c.pos
  <2>1. IF p >= End THEN Reads(c, n, Start, TRUE) ELSE Reads(c, n, p, c.wrapped)
    BY <2>0, Zenon DEF ScanMoves
  <2>2. p \in Int
    BY <1>0
  <2>3. CASE ~c.wrapped
    <3>1. Fore(h, T, p, c.sync, c.ser)
      BY <2>3 DEF Turning
    <3> HIDE DEF p
    <3>2. c.sync <= disk[Start][1].sync /\ c.ser <= disk[Start][1].ser
      BY <3>1 DEF Fore
    <3>3. Reads(c, n, Start, TRUE) \/ Reads(c, n, p, c.wrapped)
      BY <2>1
    <3> QED
      BY <2>3, <3>1, <3>2, <3>3, TurnsRight, ReadsFore
  <2>4. CASE c.wrapped
    <3>1. Back(h, E, p, c.sync, c.ser)
      BY <2>4 DEF Turning
    <3> HIDE DEF p
    <3>2. p + EvacSize < w
      BY <1>2, <3>1 DEF Back
    <3>3. ~(p >= End)
      BY <1>1, <1>2, <2>2, <3>2
    <3> QED
      BY <2>1, <2>4, <3>1, <3>3, ReadsBack
  <2> QED
    BY <2>3, <2>4
<1>4. CASE /\ c.pos < c.end
           /\ Found(c.pos) # {} => ~Accepts(c, h, disk[c.pos][1].sync)
           /\ Stops(c, n)
  <2>1. CASE ~c.wrapped
    <3>1. Fore(h, T, c.pos, c.sync, c.ser)
      BY <2>1 DEF Turning
    <3>2. c.sync <= disk[Start][1].sync /\ c.ser <= disk[Start][1].ser /\ h.lastWritePos <= c.pos
      BY <3>1 DEF Fore
    <3>3. c.pos >= T
      <4> SUFFICES ASSUME c.pos < T PROVE FALSE
        BY <1>0
      <4>1. disk[c.pos][1].pos = c.pos /\ c.sync <= disk[c.pos][1].sync
        BY <3>1 DEF Fore
      <4>2. PICK d \in Docs, m \in Int : d = disk[c.pos][1] /\ Found(c.pos) # {} /\ d.sync <= h.sync + 1
        BY <1>0, <3>2, <4>1, ForeDoc
      <4>3. d.sync \in Int /\ c.sync <= d.sync
        BY <4>1, <4>2, DocParts
      <4>4. Accepts(c, h, d.sync)
        BY <1>0, <4>2, <4>3 DEF Accepts
      <4> QED
        BY <1>4, <4>2, <4>4
    <3>4. c.pos > End - AggSize
      BY <1>0, <1>1, <1>2, <3>3
    <3>5. Reads(c, n, Start, TRUE)
      BY <1>4, <3>4 DEF Stops
    <3> QED
      BY <3>2, <3>5, TurnsRight
  <2>2. CASE c.wrapped
    <3>1. Back(h, E, c.pos, c.sync, c.ser)
      BY <2>2 DEF Turning
    <3>2. Start <= c.pos /\ c.pos + EvacSize < w
      BY <1>2, <3>1 DEF Back
    <3>3. ~(c.pos > End - AggSize)
      BY <1>0, <1>1, <1>2, <3>2
    <3>4. n.state = "done" /\ n.pos = c.pos /\ n.wrapped = c.wrapped
      BY <1>4, <3>3 DEF Stops
    <3> QED
      BY <1>2, <2>2, <3>2, <3>4 DEF Turning
  <2> QED
    BY <2>1, <2>2
<1>5. CASE /\ Found(c.pos) # {} /\ Accepts(c, h, disk[c.pos][1].sync)
           /\ n.state = "scan" /\ n.wrapped = c.wrapped /\ n.at = c.pos
           /\ n.pos = c.pos + disk[c.pos][1].len
           /\ n.sync = disk[c.pos][1].sync
           /\ n.ser = IF disk[c.pos][1].sync = c.sync THEN disk[c.pos][1].ser ELSE c.ser
  <2>1. PICK d \in Docs : d = disk[c.pos][1]
    BY <1>5, FoundIs
  <2>2. d.sync \in Int
    BY DocParts
  <2>3. PICK p \in Int, y \in Int, r \in Int, m \in Int, x \in Int :
          p = c.pos /\ y = c.sync /\ r = c.ser /\ m = n.pos /\ x = n.ser
    BY CursorParts
  <2>4. /\ Found(p) # {} /\ d = disk[p][1] /\ m = p + d.len /\ (x = d.ser \/ x = r)
        /\ n.sync = d.sync
    BY <1>5, <2>1, <2>3
  <2>5. d.sync >= y
    BY <1>5, <2>1, <2>2, <2>3 DEF Accepts
  <2>6. CASE ~c.wrapped
    <3>1. Fore(h, T, p, y, r)
      BY <2>3, <2>6 DEF Turning
    <3>2. Fore(h, T, m, d.sync, x) /\ Fore(h, T, p, d.sync, x)
      BY <2>4, <3>1, ForeOn, SMTT(20)
    <3> QED
      BY <1>5, <2>3, <2>4, <2>6, <3>2 DEF Turning
  <2>7. CASE c.wrapped
    <3>1. Back(h, E, p, y, r)
      BY <2>3, <2>7 DEF Turning
    <3>2. Back(h, E, m, d.sync, x) /\ Back(h, E, p, d.sync, x)
      BY <2>4, <2>5, <3>1, BackOn
    <3> QED
      BY <1>5, <2>3, <2>4, <2>7, <3>2 DEF Turning
  <2> QED
    BY <2>6, <2>7
<1> QED
  BY <1>3, <1>4, <1>5 DEF ScanMoves

LEMMA TurnCheck ==
  ASSUME DiskOK, Roomy, NEW h \in Header, NEW T \in Start .. End, NEW E \in Start .. End,
         TurnedLog(h, T, E, disk), NEW c \in Cursors(h), NEW n \in Cursors(h),
         c.state = "check", Turning(h, T, E, c), CheckMoves(c, n, h)
  PROVE  Turning(h, T, E, n)
<1>0. /\ c.end \in Int /\ c.pos \in Int /\ c.base \in Int /\ c.sync \in Int /\ c.ser \in Int
      /\ c.wrapped \in BOOLEAN /\ n.pos \in Int
  BY CursorParts
<1>1. /\ Start \in Int /\ End \in Int /\ AggSize \in Nat /\ AggSize >= 1 /\ EvacSize \in Nat
      /\ EvacSize = AggSize + AggSize
  BY SizeFacts
<1>2. PICK w \in Int, l \in Int :
        w = h.writePos /\ l = h.lastWritePos /\ w <= End /\ w <= l + AggSize /\ w <= T
  BY TurnedFacts DEF TurnedLog
<1>3. CASE ~c.wrapped
  <2>1. Fore(h, T, c.pos, c.sync, c.ser)
    BY <1>3 DEF Turning
  <2>2. CASE n.state = "clear"
    BY <2>2 DEF Turning
  <2>3. CASE /\ c.pos < h.writePos /\ Found(c.pos) # {}
             /\ n.state = "check" /\ n.wrapped = c.wrapped
             /\ n.pos = c.pos + disk[c.pos][1].len /\ n.ser = c.ser
             /\ n.sync \in {c.sync, disk[c.pos][1].sync}
    <3>1. PICK p \in Int, y \in Int, r \in Int, m \in Int :
            p = c.pos /\ y = c.sync /\ r = c.ser /\ m = n.pos
      BY CursorParts
    <3>2. PICK d \in Docs : d = disk[p][1] /\ d.pos = p
      BY <2>3, <3>1, FoundIs
    <3>3. Fore(h, T, p, y, r) /\ Found(p) # {} /\ m = p + d.len
      BY <2>1, <2>3, <3>1, <3>2
    <3>4. Fore(h, T, m, d.sync, r)
      BY <3>2, <3>3, ForeOn
    <3>5. Fore(h, T, m, y, r)
      <4>1. p < T
        BY <1>2, <2>3, <3>1
      <4>2. y <= d.sync
        BY <3>2, <3>3, <4>1 DEF Fore
      <4>3. ASSUME m < T PROVE y <= disk[m][1].sync
        <5>1. h.lastWritePos <= m /\ disk[m][1].pos = m /\ d.sync <= disk[m][1].sync
          BY <3>4, <4>3 DEF Fore
        <5>2. PICK f \in Docs, k \in Int : f = disk[m][1]
          BY <4>3, <5>1, ForeDoc
        <5>3. f.sync \in Int /\ d.sync \in Int
          BY DocParts
        <5> QED
          BY <4>2, <5>1, <5>2, <5>3
      <4>4. y <= disk[Start][1].sync
        BY <3>3 DEF Fore
      <4> QED
        BY <3>4, <4>3, <4>4 DEF Fore
    <3>6. Fore(h, T, n.pos, n.sync, n.ser)
      BY <2>3, <3>1, <3>2, <3>4, <3>5
    <3> QED
      BY <1>3, <2>3, <3>6 DEF Turning
  <2>4. CASE n.state = "past" /\ n.sync = c.sync /\ n.ser = c.ser
    BY <2>1, <2>4 DEF Turning, Fore
  <2>5. CASE /\ c.pos < c.end
             /\ n.state = "scan" /\ n.end = c.end /\ n.wrapped = c.wrapped
             /\ n.pos = c.pos /\ n.sync = c.sync /\ n.ser = c.ser
    <3>1. ~(n.pos > n.end)
      BY <1>0, <2>5
    <3> QED
      BY <1>3, <2>1, <2>5, <3>1 DEF Turning
  <2> QED
    BY <1>3, <2>2, <2>3, <2>4, <2>5 DEF CheckMoves
<1>4. CASE c.wrapped
  <2>1. c.end = Smaller(c.base + EvacSize, End) /\ c.pos = c.base /\ Back(h, E, c.pos, c.sync, c.ser)
    BY <1>4 DEF Turning
  <2>2. c.pos + EvacSize < w
    BY <1>2, <2>1 DEF Back
  <2>3. c.base # h.lastWritePos
    BY <1>0, <1>1, <1>2, <2>1, <2>2, SMTT(20)
  <2>4. ~(c.pos >= c.end)
    <3>1. PICK b \in Int, e \in Int : b = c.base /\ e = c.end
      BY <1>0
    <3>2. e = Smaller(b + EvacSize, End) /\ b + EvacSize \in Int /\ b + EvacSize < w
      BY <1>1, <2>1, <2>2, <3>1
    <3>3. e = b + EvacSize \/ e = End
      BY <1>1, <3>2, SmallerIs
    <3>4. b < e
      BY <1>1, <1>2, <3>2, <3>3
    <3> QED
      BY <2>1, <3>1, <3>4
  <2>5. c.base = Start => Found(c.pos) # {} /\ ~(disk[c.pos][1].ser < c.ser)
    <3> SUFFICES ASSUME c.base = Start PROVE Found(c.pos) # {} /\ ~(disk[c.pos][1].ser < c.ser)
      OBVIOUS
    <3>1. c.pos = Start /\ c.ser <= disk[Start][1].ser
      BY <2>1 DEF Back
    <3>2. disk[Start][1].pos = Start /\ disk[Start][1] \in Docs /\ Start < E
      BY TurnedFacts DEF TurnedLog
    <3>3. PICK d \in Docs, m \in Int : d = disk[Start][1] /\ Found(Start) # {}
      BY <1>1, <3>2, BackDoc
    <3>4. d.ser \in Int
      BY DocParts
    <3> QED
      BY <1>0, <3>1, <3>3, <3>4
  <2>6. CASE n.state = "clear"
    BY <2>6 DEF Turning
  <2>7. CASE /\ n.state = "scan" /\ n.end = c.end /\ n.wrapped = c.wrapped
             /\ n.pos = c.pos /\ n.sync = c.sync /\ n.ser = c.ser
    <3>1. ~(n.pos > n.end)
      BY <1>0, <2>4, <2>7
    <3> QED
      BY <1>4, <2>1, <2>7, <3>1 DEF Turning
  <2> QED
    BY <2>3, <2>4, <2>5, <2>6, <2>7 DEF CheckMoves
<1> QED
  BY <1>3, <1>4

(* A scan that ends after a turn does so far before the write position of  *)
(* the copy: the whole directory is going to be cleared.                   *)
LEMMA TurnedScan ==
  ASSUME DiskOK, Roomy, NEW h \in Header, NEW T \in Start .. End, NEW E \in Start .. End,
         TurnedLog(h, T, E, disk), NEW r \in Scanned(h), r.state = "done"
  PROVE  r \in Cursors(h) /\ Start <= r.pos /\ r.pos + EvacSize < h.writePos
<1> DEFINE C == {c \in Cursors(h) : Turning(h, T, E, c)}
<1>1. /\ h.writePos \in Int /\ h.lastWritePos \in Int /\ h.lastWritePos <= h.writePos
      /\ Whole(disk, h.lastWritePos, h.writePos)
      /\ disk[Start][1] \in Docs
  BY TurnedFacts
<1>2. disk[Start][1].sync \in Nat /\ disk[Start][1].ser \in Nat
  BY <1>1, DocParts
<1>3. ScanStart(h) \in C
  <2> DEFINE c == ScanStart(h)
             l == h.lastWritePos
  <2>1. /\ c \in Cursors(h) /\ c.state = "check" /\ c.pos = l /\ c.sync = 0 /\ c.ser = 0 /\ ~c.wrapped
    BY ScanStartOK DEF ScanStart
  <2> HIDE DEF c
  <2>2. l \in Int /\ l <= End /\ h.writePos <= T
    BY HeaderParts DEF TurnedLog
  <2>3. ASSUME l < T PROVE disk[l][1].pos = l
    <3>1. CASE l < h.writePos
      <4> HIDE DEF l
      <4>1. Whole(disk, l, h.writePos)
        BY <1>1 DEF l
      <4> QED
        BY <1>1, <2>2, <3>1, <4>1, WholeFirst
    <3>2. CASE l = h.writePos
      <4>1. Whole(disk, l, T)
        BY <3>2 DEF TurnedLog
      <4> HIDE DEF l
      <4> QED
        BY <2>2, <2>3, <4>1, WholeFirst
    <3> QED
      BY <1>1, <3>1, <3>2
  <2>4. ASSUME l < T PROVE 0 <= disk[l][1].sync
    <3>1. PICK d \in Docs, n \in Int : d = disk[l][1]
      <4>1. l <= l /\ disk[l][1].pos = l
        BY <2>2, <2>3, <2>4
      <4>2. l = h.lastWritePos
        OBVIOUS
      <4> HIDE DEF l
      <4> QED
        BY <2>2, <2>4, <4>1, <4>2, ForeDoc
    <3>2. d.sync \in Nat
      BY DocParts
    <3> QED
      BY <3>1, <3>2
  <2>5. Fore(h, T, l, 0, 0)
    <3>1. l <= l /\ 0 <= disk[Start][1].sync /\ 0 <= disk[Start][1].ser
      BY <1>2, <2>2
    <3> QED
      BY <2>2, <2>3, <2>4, <3>1 DEF Fore
  <2>6. Turning(h, T, E, c)
    BY <2>1, <2>5 DEF Turning
  <2> QED
    BY <2>1, <2>6 DEF c
<1>4. ASSUME NEW c \in C
      PROVE  IF c.state = "past" THEN Past(h, c) \subseteq C ELSE Step(h, c) \in C
  <2>0. c \in Cursors(h) /\ Turning(h, T, E, c)
    OBVIOUS
  <2> HIDE DEF C
  <2>1. CASE c.state = "check"
    <3>1. Step(h, c) = CheckStep(c, h)
      BY <2>1 DEF Step
    <3>2. CheckStep(c, h) \in Cursors(h) /\ CheckMoves(c, CheckStep(c, h), h)
      BY <2>0, <2>1, <3>1, StepOK, CheckStepIs
    <3>3. Turning(h, T, E, CheckStep(c, h))
      BY <2>0, <2>1, <3>2, TurnCheck
    <3> QED
      BY <2>1, <3>1, <3>2, <3>3 DEF C
  <2>2. CASE c.state = "scan"
    <3>1. Step(h, c) = ScanStep(c, h)
      BY <2>2 DEF Step
    <3>2. ScanStep(c, h) \in Cursors(h) /\ ScanMoves(c, ScanStep(c, h), h)
      BY <2>0, <2>2, <3>1, StepOK, ScanStepIs
    <3>3. Turning(h, T, E, ScanStep(c, h))
      BY <2>0, <2>2, <3>2, TurnScan
    <3> QED
      BY <2>2, <3>1, <3>2, <3>3 DEF C
  <2>3. CASE c.state = "past"
    <3> SUFFICES ASSUME NEW n \in Past(h, c) PROVE n \in C
      BY <2>3
    <3>1. n \in Cursors(h) /\ Reads(c, n, Start, TRUE)
      BY <2>0, PastOK, PastIs
    <3>2. c.sync <= disk[Start][1].sync /\ c.ser <= disk[Start][1].ser
      BY <2>0, <2>3 DEF Turning
    <3>3. Turning(h, T, E, n)
      BY <2>0, <3>1, <3>2, TurnsRight
    <3> QED
      BY <3>1, <3>3 DEF C
  <2>4. CASE c.state \notin {"check", "scan", "past"}
    <3>1. Step(h, c) = c
      BY <2>4 DEF Step
    <3> QED
      BY <2>4, <3>1
  <2> QED
    BY <2>1, <2>2, <2>3, <2>4
<1> HIDE DEF C
<1>5. Scanned(h) \subseteq C
  <2>1. ~(h.lastWritePos > h.writePos)
    BY <1>1
  <2> QED
    BY <1>3, <1>4, <2>1, ScannedIn
<1>6. r \in Cursors(h) /\ Turning(h, T, E, r)
  BY <1>5 DEF C
<1> QED
  BY <1>6 DEF Turning

-----------------------------------------------------------------------------
(* The directory after a recovery.                                         *)

(* The entries ds of a copy with header h, when the log has come to E: those*)
(* of the copy's turn before its write position, and those of the turn     *)
(* before that the log has not come near to.                               *)
EntriesOf(h, ds, E, D, L) ==
  \A e \in ds \ L :
    /\ e.phase = h.phase /\ e.pos < h.writePos => e.pos + e.len <= h.writePos /\ Held(e, D)
    /\ e.phase # h.phase /\ e.pos >= E + AggSize => Held(e, D)

(* What a recovery clears, after a scan to q.                              *)
LEMMA ClearedIs ==
  ASSUME Roomy, NEW h \in Header, NEW q \in Int, Start <= q, q <= End - AggSize,
         NEW x \in Blocks, VolOffset(x) \notin Cleared(h, q + EvacSize)
  PROVE  /\ q + EvacSize >= h.writePos
         /\ x < h.writePos \/ x >= q + EvacSize
<1> DEFINE w == h.writePos
           p == q + EvacSize
<1>1. w \in Int /\ Start <= w /\ w <= End
  BY HeaderParts
<1>2. /\ Start \in Nat /\ End \in Nat /\ AggSize \in Nat /\ Start > AggSize
      /\ EvacSize = AggSize + AggSize /\ p \in Int /\ p = q + AggSize + AggSize
  BY SizeFacts
<1>3. x \in Int /\ Start <= x /\ x <= End - 1
  BY DEF Blocks
<1> DEFINE from == w - Start + 1
           to == (IF p > End THEN p - End ELSE p) - Start + 1
           o == x - Start + 1
           offs == 1 .. (End - 1 - Start + 1)
<1>4. o \in offs /\ o \in Int /\ from \in Int /\ to \in Int
  BY <1>1, <1>2, <1>3
<1>5. o \notin IF from <= to THEN {i \in offs : from <= i /\ i < to}
               ELSE {i \in offs : i >= to} \cup {i \in offs : i < from}
  BY DEF Cleared, VolOffset
<1> HIDE DEF from, to, o, offs
<1>6. from <= to /\ ~(from <= o /\ o < to)
  BY <1>4, <1>5
<1> HIDE DEF w, p
<1>7. p <= End
  <2> SUFFICES ASSUME p > End PROVE FALSE
    BY <1>2
  <2>1. to = p - End - Start + 1
    BY <1>2 DEF to
  <2>2. p - End <= AggSize
    BY <1>2
  <2>3. to <= 0 /\ from >= 1
    BY <1>1, <1>2, <2>1, <2>2 DEF from
  <2> QED
    BY <1>4, <1>6, <2>3
<1>8. to = p - Start + 1
  BY <1>2, <1>7 DEF to
<1>9. p >= w /\ (x < w \/ x >= p)
  BY <1>1, <1>2, <1>3, <1>6, <1>8 DEF from, o
<1> QED
  BY <1>9 DEF w, p

(* A volume that starts with the header h2 and the entries ds.             *)
LEMMA StartedEntries ==
  ASSUME NEW h \in Header, NEW ds \in SUBSET Docs, NEW k \in 0 .. MaxDocs, Limited(h),
         \A e \in ds \ lost :
            /\ e.phase = h.phase => e.pos < h.writePos /\ e.pos + e.len <= h.writePos
            /\ e.phase = h.phase \/ e.pos >= h.writePos => Held(e, disk),
         vol' = Started(h, ds, k), UNCHANGED <<disk, lost>>
  PROVE  EntriesOK'
<1>1. /\ VolOK(vol') /\ vol'.hdr = h /\ vol'.dir = ds /\ vol'.buf = <<>> /\ ~vol'.io
  BY StartedOK, StartedAs
<1>2. Placed(vol')
  BY <1>1, PlacedEmpty
<1>3. Limits(vol')
  BY <1>1 DEF Limits
<1>4. EntriesAt(vol', disk', lost')
  <2> SUFFICES ASSUME NEW e \in ds \ lost
               PROVE  /\ e.phase = h.phase /\ e.pos < h.writePos =>
                           e.pos + e.len <= h.writePos /\ Held(e, disk)
                      /\ e.phase = h.phase /\ e.pos >= h.writePos => e \in ToSet(vol'.buf)
                      /\ e.phase # h.phase /\ e.pos >= h.aggPos => Held(e, disk)
    BY <1>1 DEF EntriesAt
  <2>1. e.pos \in Nat /\ h.writePos \in Nat /\ h.aggPos \in Nat /\ h.writePos <= h.aggPos
    BY DocParts, HeaderParts DEF Limited
  <2>2. ~(e.pos < h.writePos /\ e.pos >= h.writePos) /\ (e.pos >= h.aggPos => e.pos >= h.writePos)
    BY <2>1
  <2> QED
    BY <2>2
<1> QED
  BY <1>2, <1>3, <1>4 DEF EntriesOK

(* The entries that the scan of a copy keeps lead to their documents.      *)
KeptOK(h, ds) ==
  \A e \in ds \ lost :
    /\ e.phase = h.phase => e.pos < h.writePos /\ e.pos + e.len <= h.writePos
    /\ e.phase = h.phase \/ e.pos >= h.writePos => Held(e, disk)

LEMMA StraightKept ==
  ASSUME DiskOK, Roomy, NEW h \in Header, NEW ds \in SUBSET Docs, Limited(h),
         NEW E \in Start .. End, Straight(h, E, disk), EntriesOf(h, ds, E, disk, lost),
         NEW r \in Scanned(h), r.state = "done", ~(r.pos = h.writePos /\ r.wrapped)
  PROVE  KeptOK(h, {e \in ds : VolOffset(e.pos) \notin Cleared(h, r.pos + EvacSize)
                                 /\ Valid(e, h, 0)})
<1> SUFFICES ASSUME NEW e \in ds, e \notin lost, Valid(e, h, 0),
                    VolOffset(e.pos) \notin Cleared(h, r.pos + EvacSize)
             PROVE  /\ e.phase = h.phase => e.pos < h.writePos /\ e.pos + e.len <= h.writePos
                    /\ e.phase = h.phase \/ e.pos >= h.writePos => Held(e, disk)
  BY DEF KeptOK
<1>1. /\ r \in Cursors(h) /\ Start <= r.pos /\ r.pos <= End - AggSize
      /\ \/ r.pos >= E
         \/ r.pos = End - EvacSize
         \/ r.pos = Start /\ h.writePos > Start + EvacSize
  BY StraightScan
<1>2. r.pos \in Int
  BY <1>1, CursorParts
<1>3. PICK q \in Int : q = r.pos
  BY <1>2
<1>4. PICK x \in Blocks : x = e.pos
  BY DocParts
<1>5. q + EvacSize >= h.writePos /\ (x < h.writePos \/ x >= q + EvacSize)
  <2>1. Start <= q /\ q <= End - AggSize /\ VolOffset(x) \notin Cleared(h, q + EvacSize)
    BY <1>1, <1>3, <1>4
  <2> QED
    BY <2>1, ClearedIs
<1>6. /\ h.writePos \in Nat /\ h.aggPos \in Nat /\ x \in Nat /\ E \in Int /\ x < End
      /\ EvacSize = AggSize + AggSize /\ AggSize \in Nat /\ End \in Nat /\ Start \in Nat
  BY <1>4, HeaderParts, SizeFacts DEF Blocks
<1>7. q >= E \/ q = End - EvacSize
  BY <1>1, <1>3, <1>5, <1>6
<1>8. CASE e.phase = h.phase
  <2>1. x < h.writePos
    BY <1>4, <1>6, <1>8 DEF Valid
  <2> QED
    BY <1>4, <1>8, <2>1 DEF EntriesOf
<1>9. CASE e.phase # h.phase
  <2>1. x >= h.aggPos
    BY <1>4, <1>9 DEF Valid
  <2>2. x >= q + EvacSize
    BY <1>5, <1>6, <2>1 DEF Limited
  <2>3. x >= E + AggSize
    BY <1>6, <1>7, <2>2
  <2> QED
    BY <1>4, <1>9, <2>3 DEF EntriesOf
<1> QED
  BY <1>8, <1>9

LEMMA TurnedKept ==
  ASSUME DiskOK, Roomy, NEW h \in Header, NEW ds \in SUBSET Docs,
         NEW T \in Start .. End, NEW E \in Start .. End, TurnedLog(h, T, E, disk),
         NEW r \in Scanned(h), r.state = "done"
  PROVE  KeptOK(h, {e \in ds : VolOffset(e.pos) \notin Cleared(h, r.pos + EvacSize)
                                 /\ Valid(e, h, 0)})
<1> SUFFICES ASSUME NEW e \in ds, VolOffset(e.pos) \notin Cleared(h, r.pos + EvacSize)
             PROVE  FALSE
  BY DEF KeptOK
<1>1. r \in Cursors(h) /\ Start <= r.pos /\ r.pos + EvacSize < h.writePos
  BY TurnedScan
<1>2. PICK q \in Int : q = r.pos
  BY <1>1, CursorParts
<1>3. PICK x \in Blocks : x = e.pos
  BY DocParts
<1>4. /\ h.writePos \in Nat /\ h.writePos <= End
      /\ EvacSize = AggSize + AggSize /\ AggSize \in Nat /\ End \in Nat /\ Start \in Nat
  BY HeaderParts, SizeFacts
<1>5. q <= End - AggSize
  BY <1>1, <1>2, <1>4
<1>6. q + EvacSize >= h.writePos
  BY <1>1, <1>2, <1>3, <1>5, ClearedIs
<1> QED
  BY <1>1, <1>2, <1>4, <1>6

(* What a crash leaves of the log.                                         *)
Left(h, ds, D, L) ==
  /\ Limited(h) /\ (h.sync = 0 => ds = {})
  /\ \/ \E E \in Start .. End : Straight(h, E, D) /\ EntriesOf(h, ds, E, D, L)
     \/ \E T, E \in Start .. End : TurnedLog(h, T, E, D)

LEMMA RecoverEntries ==
  ASSUME IInv, Roomy, StartUp, seen = {}, seen' = {}, mode' # "endless",
         \A c \in Usable : Left(copies[c].hdr, copies[c].dir, disk, lost)
  PROVE  EntriesOK'
<1>1. mode = "down" /\ UNCHANGED <<disk, lost>> /\ vol.made \in 0 .. MaxDocs
  BY VolumeParts DEF StartUp, IInv, TypeInv
<1>2. ~ClearDir(vol.made)
  BY DEF ClearDir
<1>3. PICK c \in Usable : Recover(c)
  BY <1>2 DEF StartUp
<1> DEFINE h == copies[c].hdr
           d == copies[c].dir
<1>4. c \in {0, 1}
  BY <1>1, UsableCopy
<1>5. h \in Header /\ d \in SUBSET Docs /\ DiskOK
  BY <1>4, CopyParts DEF IInv, TypeInv
<1>6. Left(h, d, disk, lost)
  OBVIOUS
<1>7. Limited(h)
  BY <1>6 DEF Left
<1>8. CASE h.sync = 0
  <2>1. vol' = Started(h, d, vol.made)
    BY <1>3, <1>8 DEF Recover
  <2>2. d = {}
    BY <1>6, <1>8 DEF Left
  <2> HIDE DEF h, d
  <2> QED
    BY <1>1, <1>5, <1>7, <2>1, <2>2, StartedEntries
<1>9. CASE h.sync # 0
  <2>1. PICK r \in Scanned(h) :
          CASE r.state = "clear" -> ClearDir(vol.made)
            [] r.state = "done" -> ScanDone(h, d, r)
            [] OTHER -> mode' = "endless" /\ UNCHANGED <<vol, stage, snap, seen>>
    BY <1>3, <1>9 DEF Recover
  <2>2. r.state = "done" /\ ScanDone(h, d, r)
    BY <1>2, <2>1
  <2> DEFINE next == [h EXCEPT !.sync = NextSync(h, r.max), !.dirty = TRUE]
             kept == {e \in d : VolOffset(e.pos) \notin Cleared(h, r.pos + EvacSize)
                                  /\ Valid(e, h, 0)}
  <2> HIDE DEF h, d
  <2>3. ~(r.pos = h.writePos /\ r.wrapped) /\ vol' = Started(next, kept, vol.made)
    <3>1. seen' # seen \cup {"skipped"}
      OBVIOUS
    <3> QED
      BY <1>2, <2>2, <3>1 DEF ScanDone
  <2>4. r.max \in Serials(h)
    <3>1. r \in Cursors(h)
      BY <1>5, ScannedOK
    <3> QED
      BY <3>1 DEF Cursors
  <2>5. NextSync(h, r.max) \in Nat
    BY <1>5, <2>4, NextSyncOK
  <2>6. /\ next \in Header /\ next.writePos = h.writePos /\ next.aggPos = h.aggPos
        /\ next.phase = h.phase
    BY <1>5, <2>5 DEF Header
  <2>7. kept \in SUBSET Docs
    BY <1>5
  <2>8. KeptOK(h, kept)
    <3>1. CASE \E E \in Start .. End : Straight(h, E, disk) /\ EntriesOf(h, d, E, disk, lost)
      BY <1>5, <1>7, <2>2, <2>3, <3>1, StraightKept
    <3>2. CASE \E T, E \in Start .. End : TurnedLog(h, T, E, disk)
      BY <1>5, <2>2, <3>2, TurnedKept
    <3> QED
      BY <1>6, <3>1, <3>2 DEF Left
  <2> HIDE DEF kept, next
  <2>9. Limited(next)
    BY <1>7, <2>6 DEF Limited
  <2>10. KeptOK(next, kept)
    BY <2>6, <2>8 DEF KeptOK
  <2> QED
    BY <1>1, <2>3, <2>6, <2>7, <2>9, <2>10, StartedEntries DEF KeptOK
<1> QED
  BY <1>8, <1>9

-----------------------------------------------------------------------------
(* The log until the crash.                                                *)

(* What the disk D holds of the turn of the log that the header H is in.   *)
Lap(H, D) ==
  /\ Whole(D, Start, H.writePos) /\ Ordered(D, Start, H.writePos) /\ LastWrite(H, D)
  /\ \A b \in Blocks : D[b][1].sync <= H.sync /\ D[b][1].ser <= H.ser
  /\ \A b \in Start .. (H.writePos - 1) : D[b][1].ser < H.ser
  /\ \A b \in H.writePos .. (End - 1) :
       \/ D[b][1].pos + D[b][1].len <= H.writePos + AggSize
       \/ H.writePos = Start
       \/ D[b][1].sync <= D[Start][1].sync

(* What it holds since a copy of the directory with the header h and the   *)
(* entries ds was made.                                                    *)
LogOf(h, ds, H, D, L) ==
  /\ Limited(h) /\ (H.sync = h.sync \/ H.sync = h.sync + 1) /\ h.ser <= H.ser
  /\ H.phase = h.phase => Straight(h, H.writePos, D) /\ EntriesOf(h, ds, H.writePos, D, L)
  /\ H.phase # h.phase /\ H.writePos = Start =>
       \E T \in Start .. End : End - AggSize < T /\ Straight(h, T, D) /\ EntriesOf(h, ds, T, D, L)
  /\ H.phase # h.phase /\ H.writePos # Start =>
       \E T \in Start .. End : TurnedLog(h, T, H.writePos, D)

Numbered(D) ==
  \A b \in Blocks : /\ D[b][1].sync \in Nat /\ D[b][1].ser \in Nat
                    /\ D[b][1].pos \in Nat /\ D[b][1].len \in Nat

(* The disks D and D2 differ in p .. q - 1 at most. *)
Agree(D, D2, p, q) == \A b \in Blocks : b < p \/ b >= q => D2[b] = D[b]

LEMMA WholeKept ==
  ASSUME NEW D, NEW D2, NEW p \in Int, NEW q \in Int, Agree(D, D2, p, q),
         NEW x \in Int, NEW y \in Int, Start <= x, y <= End, Whole(D, x, y), y <= p \/ x >= q
  PROVE  Whole(D2, x, y)
<1> SUFFICES ASSUME NEW b \in x .. (y - 1), NEW d, d = D2[b][1]
             PROVE  /\ d \in Docs /\ b \in BlocksOf(d) /\ x <= d.pos /\ d.pos + d.len <= y
                    /\ \A z \in BlocksOf(d) : D2[z] = <<d, z - d.pos>>
  BY DEF Whole
<1>1. ASSUME NEW z \in Int, x <= z, z < y PROVE D2[z] = D[z]
  BY <1>1 DEF Agree, Blocks
<1>2. D2[b] = D[b]
  BY <1>1
<1>3. /\ d \in Docs /\ b \in BlocksOf(d) /\ x <= d.pos /\ d.pos + d.len <= y
      /\ \A z \in BlocksOf(d) : D[z] = <<d, z - d.pos>>
  BY <1>2 DEF Whole
<1>4. ASSUME NEW z \in BlocksOf(d) PROVE D2[z] = <<d, z - d.pos>>
  <2>1. z \in Nat /\ d.pos <= z /\ z < d.pos + d.len /\ d.pos \in Nat /\ d.len \in Nat
    BY <1>3, BlockPlaces, DocParts
  <2>2. PICK i \in Int, l \in Int : i = d.pos /\ l = d.len
    BY <2>1
  <2>3. z \in Int /\ i <= z /\ z < i + l /\ x <= i /\ i + l <= y
    BY <1>3, <2>1, <2>2
  <2>4. z \in Int /\ x <= z /\ z < y
    BY <2>3
  <2>5. D2[z] = D[z]
    BY <1>1, <2>4
  <2> QED
    BY <1>3, <2>5
<1> QED
  BY <1>3, <1>4

LEMMA WholeJoin ==
  ASSUME NEW D, NEW x \in Int, NEW y \in Int, NEW z \in Int, x <= y, y <= z,
         Whole(D, x, y), Whole(D, y, z)
  PROVE  Whole(D, x, z)
<1> SUFFICES ASSUME NEW b \in x .. (z - 1), NEW d, d = D[b][1]
             PROVE  /\ d \in Docs /\ b \in BlocksOf(d) /\ x <= d.pos /\ d.pos + d.len <= z
                    /\ \A a \in BlocksOf(d) : D[a] = <<d, a - d.pos>>
  BY DEF Whole
<1>1. CASE b < y
  <2>1. b \in x .. (y - 1)
    BY <1>1
  <2>2. /\ d \in Docs /\ b \in BlocksOf(d) /\ x <= d.pos /\ d.pos + d.len <= y
        /\ \A a \in BlocksOf(d) : D[a] = <<d, a - d.pos>>
    BY <2>1 DEF Whole
  <2>3. d.pos \in Nat /\ d.len \in Nat
    BY <2>2, DocParts
  <2>4. d.pos + d.len <= z
    BY <2>2, <2>3
  <2> QED
    BY <2>2, <2>4
<1>2. CASE b >= y
  <2>1. b \in y .. (z - 1)
    BY <1>2
  <2>2. /\ d \in Docs /\ b \in BlocksOf(d) /\ y <= d.pos /\ d.pos + d.len <= z
        /\ \A a \in BlocksOf(d) : D[a] = <<d, a - d.pos>>
    BY <2>1 DEF Whole
  <2>3. d.pos \in Nat
    BY <2>2, DocParts
  <2>4. x <= d.pos
    BY <2>2, <2>3
  <2> QED
    BY <2>2, <2>4
<1> QED
  BY <1>1, <1>2

LEMMA WholeNone == ASSUME NEW D, NEW x \in Int PROVE Whole(D, x, x) /\ Ordered(D, x, x)
<1>1. x .. (x - 1) = {}
  OBVIOUS
<1> QED
  BY <1>1 DEF Whole, Ordered

LEMMA OrderedKept ==
  ASSUME NEW D, NEW D2, NEW p \in Int, NEW q \in Int, Agree(D, D2, p, q),
         NEW x \in Int, NEW y \in Int, Start <= x, y <= End, Ordered(D, x, y), y <= p \/ x >= q
  PROVE  Ordered(D2, x, y)
<1>1. ASSUME NEW z \in x .. (y - 1) PROVE D2[z] = D[z]
  <2>1. z \in Blocks /\ (z < p \/ z >= q)
    BY DEF Blocks
  <2> QED
    BY <2>1 DEF Agree
<1> QED
  BY <1>1 DEF Ordered

LEMMA HeldKept ==
  ASSUME NEW D, NEW D2, NEW p \in Int, NEW q \in Int, Agree(D, D2, p, q),
         NEW e \in Docs, Held(e, D), e.pos + e.len <= p \/ e.pos >= q
  PROVE  Held(e, D2)
<1> SUFFICES ASSUME NEW b \in BlocksOf(e) PROVE D2[b] = <<e, b - e.pos>>
  BY DEF Held
<1>1. b \in Blocks /\ b \in Nat /\ e.pos <= b /\ b < e.pos + e.len
      /\ e.pos \in Nat /\ e.len \in Nat
  BY BlockPlaces, DocParts
<1>2. D2[b] = D[b]
  <2>1. b < p \/ b >= q
    BY <1>1
  <2> QED
    BY <1>1, <2>1 DEF Agree
<1> QED
  BY <1>2 DEF Held

LEMMA LastWriteKept ==
  ASSUME NEW D, NEW D2, NEW p \in Int, NEW q \in Int, Agree(D, D2, p, q), NEW h \in Header,
         LastWrite(h, D), h.writePos <= p \/ (h.lastWritePos >= q /\ h.writePos >= q)
  PROVE  LastWrite(h, D2)
<1>1. /\ h.writePos \in Int /\ h.lastWritePos \in Int /\ Start <= h.lastWritePos
      /\ h.writePos <= End
  BY HeaderParts
<1>2. ASSUME h.lastWritePos <= h.writePos PROVE Whole(D2, h.lastWritePos, h.writePos)
  <2>1. Whole(D, h.lastWritePos, h.writePos)
    BY <1>2 DEF LastWrite
  <2> QED
    BY <1>1, <2>1, WholeKept
<1> QED
  BY <1>2 DEF LastWrite

(* A write from the write position of H to q, on the disk D2: some of its  *)
(* blocks, or all of them.                                                 *)
Some(H, D, D2, q) ==
  /\ H.writePos < q /\ q <= H.writePos + AggSize /\ Agree(D, D2, H.writePos, q)
  /\ \A b \in H.writePos .. (q - 1) :
       \/ D2[b] = D[b]
       \/ /\ D2[b][1].sync = H.sync /\ D2[b][1].ser = H.ser
          /\ D2[b][1].pos + D2[b][1].len <= q

All(H, D, D2, q) ==
  /\ H.writePos < q /\ q <= H.writePos + AggSize /\ Agree(D, D2, H.writePos, q)
  /\ Whole(D2, H.writePos, q)
  /\ \A b \in H.writePos .. (q - 1) : D2[b][1].sync = H.sync /\ D2[b][1].ser = H.ser

(* The header after a write that succeeded. *)
Advanced(H, H2, q) ==
  /\ H2.writePos = q /\ H2.lastWritePos = H.writePos /\ H2.phase = H.phase
  /\ H2.sync = H.sync /\ H2.ser = H.ser + 1

LEMMA LapAdvance ==
  ASSUME NEW H \in Header, NEW H2 \in Header, NEW D, NEW D2, Numbered(D), Numbered(D2),
         NEW q \in Start .. End, All(H, D, D2, q), Advanced(H, H2, q), Lap(H, D)
  PROVE  Lap(H2, D2)
<1> DEFINE w == H.writePos
           y == H.sync
           s == H.ser
<1>1. w \in Int /\ Start <= w /\ w <= End /\ y \in Nat /\ s \in Nat /\ q \in Int /\ q <= End
      /\ AggSize \in Nat /\ Start \in Nat /\ End \in Nat
  BY HeaderParts
<1>2. w < q /\ q <= w + AggSize /\ Agree(D, D2, w, q) /\ Whole(D2, w, q)
  BY DEF All
<1>3. \A b \in w .. (q - 1) : D2[b][1].sync = y /\ D2[b][1].ser = s
  BY DEF All
<1>4. H2.writePos = q /\ H2.lastWritePos = w /\ H2.sync = y /\ H2.ser = s + 1
  BY DEF Advanced
<1>5. \A b \in Blocks : D[b][1].sync <= y /\ D[b][1].ser <= s
  BY DEF Lap
<1>6. \A b \in Start .. (w - 1) : D[b][1].ser < s
  BY DEF Lap
<1>7. Whole(D, Start, w) /\ Ordered(D, Start, w)
  BY DEF Lap
<1>8. \A b \in w .. (End - 1) :
        \/ D[b][1].pos + D[b][1].len <= w + AggSize \/ w = Start \/ D[b][1].sync <= D[Start][1].sync
  BY DEF Lap
<1> HIDE DEF w, y, s
<1>9. Whole(D2, Start, q)
  <2>1. Whole(D2, Start, w)
    BY <1>1, <1>2, <1>7, WholeKept
  <2> QED
    BY <1>1, <1>2, <2>1, WholeJoin
<1>10. ASSUME NEW b \in Start .. (w - 1) PROVE D2[b] = D[b] /\ b \in Blocks
  BY <1>1, <1>2 DEF Agree, Blocks
<1>11. ASSUME NEW b \in q .. (End - 1) PROVE D2[b] = D[b] /\ b \in Blocks /\ b \in w .. (End - 1)
  BY <1>1, <1>2 DEF Agree, Blocks
<1>12. ASSUME NEW b \in Start .. (q - 1)
       PROVE  /\ D2[b][1].sync <= y /\ D2[b][1].ser <= s /\ D2[b][1].sync \in Nat
              /\ D2[b][1].ser \in Nat
  <2>1. b \in Blocks
    BY <1>1 DEF Blocks
  <2>2. D2[b][1].sync \in Nat /\ D2[b][1].ser \in Nat
    BY <2>1 DEF Numbered
  <2>3. b \in Start .. (w - 1) \/ b \in w .. (q - 1)
    BY <1>1
  <2> QED
    BY <1>1, <1>3, <1>5, <1>10, <2>1, <2>2, <2>3
<1>13. Ordered(D2, Start, q)
  <2> SUFFICES ASSUME NEW b \in Start .. (q - 1), NEW c \in Start .. (q - 1), b <= c
               PROVE  D2[b][1].sync <= D2[c][1].sync /\ D2[b][1].ser <= D2[c][1].ser
    BY DEF Ordered
  <2>1. CASE c \in w .. (q - 1)
    BY <1>3, <1>12, <2>1
  <2>2. CASE c \notin w .. (q - 1)
    <3>1. b \in Start .. (w - 1) /\ c \in Start .. (w - 1)
      BY <1>1, <2>2
    <3>2. D[b][1].sync <= D[c][1].sync /\ D[b][1].ser <= D[c][1].ser
      BY <1>7, <3>1 DEF Ordered
    <3> QED
      BY <1>10, <3>1, <3>2
  <2> QED
    BY <2>1, <2>2
<1>14. LastWrite(H2, D2)
  BY <1>1, <1>2, <1>4 DEF LastWrite
<1>15. ASSUME NEW b \in Blocks PROVE D2[b][1].sync <= y /\ D2[b][1].ser <= s + 1
  <2>1. CASE b \in Start .. (q - 1)
    BY <1>1, <1>12, <2>1
  <2>2. CASE b \notin Start .. (q - 1)
    <3>1. b \in q .. (End - 1)
      BY <1>1, <2>2 DEF Blocks
    <3>2. D[b][1].sync <= y /\ D[b][1].ser <= s /\ D[b][1].ser \in Nat
      BY <1>5 DEF Numbered
    <3> QED
      BY <1>1, <1>11, <3>1, <3>2
  <2> QED
    BY <2>1, <2>2
<1>16. \A b \in Start .. (q - 1) : D2[b][1].ser < s + 1
  BY <1>1, <1>12
<1>17. ASSUME NEW b \in q .. (End - 1)
       PROVE  \/ D2[b][1].pos + D2[b][1].len <= q + AggSize \/ q = Start
              \/ D2[b][1].sync <= D2[Start][1].sync
  <2>1. D2[b] = D[b] /\ b \in w .. (End - 1) /\ b \in Blocks
    BY <1>11
  <2>2. D[b][1].pos \in Nat /\ D[b][1].len \in Nat
    BY <2>1 DEF Numbered
  <2>3. CASE w = Start
    <3>1. Start \in w .. (q - 1)
      BY <1>1, <1>2, <2>3
    <3> QED
      BY <1>3, <1>15, <2>1, <3>1
  <2>4. CASE w # Start
    <3>1. Start \in Start .. (w - 1)
      BY <1>1, <2>4
    <3>2. D2[Start] = D[Start]
      BY <1>10, <3>1
    <3>3. PICK k \in Int : k = D[b][1].pos + D[b][1].len
      BY <2>2
    <3>4. k <= w + AggSize \/ D[b][1].sync <= D[Start][1].sync
      BY <1>8, <2>1, <2>4, <3>3
    <3>5. k <= w + AggSize => k <= q + AggSize
      BY <1>1, <1>2
    <3> QED
      BY <2>1, <3>2, <3>3, <3>4, <3>5
  <2> QED
    BY <2>3, <2>4
<1> QED
  BY <1>4, <1>9, <1>13, <1>14, <1>15, <1>16, <1>17 DEF Lap

LEMMA LapFail ==
  ASSUME NEW H \in Header, NEW D, NEW D2, Numbered(D), Numbered(D2),
         NEW q \in Start .. End, Some(H, D, D2, q), Lap(H, D)
  PROVE  Lap(H, D2)
<1> DEFINE w == H.writePos
           y == H.sync
           s == H.ser
<1>1. w \in Int /\ Start <= w /\ w <= End /\ y \in Nat /\ s \in Nat /\ q \in Int /\ q <= End
      /\ AggSize \in Nat /\ Start \in Nat /\ End \in Nat
  BY HeaderParts
<1>2. w < q /\ q <= w + AggSize /\ Agree(D, D2, w, q)
  BY DEF Some
<1>3. \A b \in w .. (q - 1) :
        D2[b] = D[b] \/ (D2[b][1].sync = y /\ D2[b][1].ser = s /\ D2[b][1].pos + D2[b][1].len <= q)
  BY DEF Some
<1>4. \A b \in Blocks : D[b][1].sync <= y /\ D[b][1].ser <= s
  BY DEF Lap
<1>5. \A b \in Start .. (w - 1) : D[b][1].ser < s
  BY DEF Lap
<1>6. Whole(D, Start, w) /\ Ordered(D, Start, w) /\ LastWrite(H, D)
  BY DEF Lap
<1>7. \A b \in w .. (End - 1) :
        \/ D[b][1].pos + D[b][1].len <= w + AggSize \/ w = Start \/ D[b][1].sync <= D[Start][1].sync
  BY DEF Lap
<1>8. LastWrite(H, D2)
  BY <1>1, <1>2, <1>6, LastWriteKept
<1> HIDE DEF w, y, s
<1>9. Whole(D2, Start, w) /\ Ordered(D2, Start, w)
  BY <1>1, <1>2, <1>6, WholeKept, OrderedKept
<1>10. ASSUME NEW b \in Start .. (w - 1) PROVE D2[b] = D[b] /\ b \in Blocks
  BY <1>1, <1>2 DEF Agree, Blocks
<1>11. ASSUME NEW b \in Blocks
       PROVE  \/ D2[b] = D[b]
              \/ (D2[b][1].sync = y /\ D2[b][1].ser = s /\ D2[b][1].pos + D2[b][1].len <= q)
  <2>1. b \in w .. (q - 1) \/ b < w \/ b >= q
    BY <1>1 DEF Blocks
  <2> QED
    BY <1>2, <1>3, <2>1 DEF Agree
<1>12. \A b \in Blocks : D2[b][1].sync <= y /\ D2[b][1].ser <= s
  BY <1>1, <1>4, <1>11
<1>13. \A b \in Start .. (w - 1) : D2[b][1].ser < s
  BY <1>5, <1>10
<1>14. ASSUME NEW b \in w .. (End - 1), w # Start
       PROVE  \/ D2[b][1].pos + D2[b][1].len <= w + AggSize
              \/ D2[b][1].sync <= D2[Start][1].sync
  <2>1. b \in Blocks
    BY <1>1 DEF Blocks
  <2>2. D2[b][1].pos \in Nat /\ D2[b][1].len \in Nat
    BY <2>1 DEF Numbered
  <2>3. Start \in Start .. (w - 1)
    BY <1>1, <1>14
  <2>4. D2[Start] = D[Start]
    BY <1>10, <2>3
  <2>5. CASE D2[b] = D[b]
    BY <1>7, <1>14, <2>4, <2>5
  <2>6. CASE D2[b][1].pos + D2[b][1].len <= q
    BY <1>1, <1>2, <2>2, <2>6
  <2> QED
    BY <1>11, <2>1, <2>5, <2>6
<1> QED
  BY <1>8, <1>9, <1>12, <1>13, <1>14 DEF Lap, w, y, s

-----------------------------------------------------------------------------
(* What a write does to the log since a copy.                              *)

(* What lies before the write position of the copy.                        *)
LEMMA BeforeKept ==
  ASSUME NEW h \in Header, NEW D, NEW D2, NEW p \in Start .. End, NEW q \in Start .. End, p < q,
         Agree(D, D2, p, q), NEW E \in Start .. End, Straight(h, E, D), h.writePos <= p
  PROVE  /\ LastWrite(h, D2) /\ Whole(D2, Start, h.writePos)
         /\ \A b \in Start .. (h.writePos - 1) : D2[b][1].sync < h.sync /\ D2[b][1].ser < h.ser
         /\ h.writePos = Start \/ D2[Start] = D[Start]
<1>1. h.writePos \in Int /\ Start <= h.writePos /\ h.writePos <= End /\ Start \in Int /\ End \in Int
      /\ p \in Int /\ q \in Int
  BY HeaderParts
<1>2. LastWrite(h, D) /\ Whole(D, Start, h.writePos)
  BY DEF Straight
<1>3. LastWrite(h, D2)
  BY <1>1, <1>2, LastWriteKept
<1>4. Whole(D2, Start, h.writePos)
  BY <1>1, <1>2, WholeKept
<1>5. PICK w \in Int : w = h.writePos
  BY <1>1
<1>6. ASSUME NEW b \in Start .. (w - 1) PROVE D2[b] = D[b]
  <2>1. b \in Blocks /\ b < p
    BY <1>1, <1>5 DEF Blocks
  <2> QED
    BY <2>1 DEF Agree
<1>7. \A b \in Start .. (w - 1) : D2[b][1].sync < h.sync /\ D2[b][1].ser < h.ser
  BY <1>5, <1>6 DEF Straight
<1>8. w = Start \/ D2[Start] = D[Start]
  <2>1. w # Start => Start \in Start .. (w - 1)
    BY <1>1, <1>5
  <2> QED
    BY <1>6, <2>1
<1> QED
  BY <1>3, <1>4, <1>5, <1>7, <1>8

LEMMA StraightAdvance ==
  ASSUME NEW h \in Header, NEW H \in Header, NEW H2 \in Header, NEW D, NEW D2, Numbered(D),
         NEW q \in Start .. End, All(H, D, D2, q), Advanced(H, H2, q), Lap(H2, D2),
         Straight(h, H.writePos, D), H.sync = h.sync \/ H.sync = h.sync + 1, h.ser <= H.ser
  PROVE  Straight(h, q, D2)
<1>1. /\ h.writePos \in Int /\ Start <= h.writePos /\ H.writePos \in Start .. End
      /\ h.sync \in Nat /\ h.ser \in Nat /\ H.sync \in Nat /\ H.ser \in Nat
      /\ Start \in Int /\ End \in Int /\ AggSize \in Nat /\ q \in Int /\ q <= End
  BY HeaderParts
<1>2. PICK p \in Start .. End, w \in Int : p = H.writePos /\ w = h.writePos
  BY <1>1
<1>3. p < q /\ q <= p + AggSize /\ Agree(D, D2, p, q) /\ Whole(D2, p, q)
  BY <1>2 DEF All
<1>4. \A b \in p .. (q - 1) : D2[b][1].sync = H.sync /\ D2[b][1].ser = H.ser
  BY <1>2 DEF All
<1>5. Straight(h, p, D) /\ w <= p /\ Start <= w
  BY <1>1, <1>2 DEF Straight
<1>6. /\ LastWrite(h, D2) /\ Whole(D2, Start, w)
      /\ \A b \in Start .. (w - 1) : D2[b][1].sync < h.sync /\ D2[b][1].ser < h.ser
      /\ w = Start \/ D2[Start] = D[Start]
  <2>1. h.writePos <= p
    BY <1>2, <1>5
  <2> QED
    BY <1>2, <1>3, <1>5, <2>1, BeforeKept
<1>7. Whole(D2, w, q)
  <2>1. Whole(D, w, p)
    BY <1>2, <1>5 DEF Straight
  <2>2. Whole(D2, w, p)
    BY <1>1, <1>3, <1>5, <2>1, WholeKept
  <2> QED
    BY <1>1, <1>3, <1>5, <2>2, WholeJoin
<1>8. Ordered(D2, Start, q)
  BY DEF Lap, Advanced
<1>9. ASSUME NEW b \in w .. (q - 1) PROVE Since(D2[b][1], h)
  <2>1. CASE b < p
    <3>1. b \in w .. (p - 1) /\ b \in Blocks
      BY <1>1, <1>5, <2>1 DEF Blocks
    <3>2. D2[b] = D[b] /\ Since(D[b][1], h)
      BY <1>2, <1>3, <1>5, <2>1, <3>1 DEF Agree, Straight
    <3> QED
      BY <3>2
  <2>2. CASE b >= p
    <3>1. b \in p .. (q - 1)
      BY <2>2
    <3>2. D2[b][1].sync = H.sync /\ D2[b][1].ser = H.ser
      BY <1>4, <3>1
    <3> QED
      BY <1>1, <3>2, SMTT(20) DEF Since
  <2> QED
    BY <2>1, <2>2
<1>10. ASSUME NEW b \in q .. (End - 1), NEW d, d = D2[b][1]
       PROVE  \/ Since(d, h) /\ d.pos + d.len <= q + AggSize
              \/ /\ d.sync < h.sync
                 /\ \/ d.pos + d.len <= w + AggSize \/ w = Start \/ d.sync <= D2[Start][1].sync
  <2>1. b \in Blocks /\ b >= q /\ b \in p .. (End - 1)
    BY <1>1, <1>3 DEF Blocks
  <2>2. D2[b] = D[b]
    BY <1>3, <2>1 DEF Agree
  <2>3. d = D[b][1] /\ d.pos \in Nat /\ d.len \in Nat
    BY <1>10, <2>1, <2>2 DEF Numbered
  <2>4. \/ Since(d, h) /\ d.pos + d.len <= p + AggSize
        \/ /\ d.sync < h.sync
           /\ \/ d.pos + d.len <= w + AggSize \/ w = Start \/ d.sync <= D[Start][1].sync
    BY <1>2, <1>5, <2>1, <2>3 DEF Straight
  <2>5. d.pos + d.len <= p + AggSize => d.pos + d.len <= q + AggSize
    <3>1. PICK n \in Int : n = d.pos + d.len
      BY <2>3
    <3>2. n <= p + AggSize => n <= q + AggSize
      BY <1>1, <1>3
    <3> QED
      BY <3>1, <3>2
  <2> QED
    BY <1>6, <2>4, <2>5
<1>11. w <= q
  BY <1>1, <1>3, <1>5
<1> QED
  BY <1>2, <1>6, <1>7, <1>8, <1>9, <1>10, <1>11 DEF Straight

LEMMA StraightFail ==
  ASSUME NEW h \in Header, NEW H \in Header, NEW D, NEW D2, Numbered(D2),
         NEW q \in Start .. End, Some(H, D, D2, q),
         Straight(h, H.writePos, D), H.sync = h.sync \/ H.sync = h.sync + 1, h.ser <= H.ser
  PROVE  Straight(h, H.writePos, D2)
<1>1. /\ h.writePos \in Int /\ Start <= h.writePos /\ H.writePos \in Start .. End
      /\ h.sync \in Nat /\ h.ser \in Nat /\ H.sync \in Nat /\ H.ser \in Nat
      /\ Start \in Int /\ End \in Int /\ AggSize \in Nat /\ q \in Int /\ q <= End
  BY HeaderParts
<1>2. PICK p \in Start .. End, w \in Int : p = H.writePos /\ w = h.writePos
  BY <1>1
<1>3. p < q /\ q <= p + AggSize /\ Agree(D, D2, p, q)
  BY <1>2 DEF Some
<1>4. \A b \in p .. (q - 1) :
        \/ D2[b] = D[b]
        \/ /\ D2[b][1].sync = H.sync /\ D2[b][1].ser = H.ser
           /\ D2[b][1].pos + D2[b][1].len <= q
  BY <1>2 DEF Some
<1>5. Straight(h, p, D) /\ w <= p /\ Start <= w
  BY <1>1, <1>2 DEF Straight
<1>6. /\ LastWrite(h, D2) /\ Whole(D2, Start, w)
      /\ \A b \in Start .. (w - 1) : D2[b][1].sync < h.sync /\ D2[b][1].ser < h.ser
      /\ w = Start \/ D2[Start] = D[Start]
  <2>1. h.writePos <= p
    BY <1>2, <1>5
  <2> QED
    BY <1>2, <1>3, <1>5, <2>1, BeforeKept
<1>7. Whole(D2, w, p)
  <2>1. Whole(D, w, p)
    BY <1>2, <1>5 DEF Straight
  <2> QED
    BY <1>1, <1>3, <1>5, <2>1, WholeKept
<1>8. Ordered(D2, Start, p)
  <2>1. Ordered(D, Start, p)
    BY <1>5 DEF Straight
  <2> QED
    BY <1>1, <1>3, <2>1, OrderedKept
<1>9. ASSUME NEW b \in w .. (p - 1) PROVE Since(D2[b][1], h)
  <2>1. b \in Blocks /\ b < p
    BY <1>1, <1>5 DEF Blocks
  <2>2. D2[b] = D[b] /\ Since(D[b][1], h)
    BY <1>2, <1>3, <1>5, <2>1 DEF Agree, Straight
  <2> QED
    BY <2>2
<1>10. ASSUME NEW b \in p .. (End - 1), NEW d, d = D2[b][1]
       PROVE  \/ Since(d, h) /\ d.pos + d.len <= p + AggSize
              \/ /\ d.sync < h.sync
                 /\ \/ d.pos + d.len <= w + AggSize \/ w = Start \/ d.sync <= D2[Start][1].sync
  <2>1. b \in Blocks
    BY <1>1 DEF Blocks
  <2>2. d.pos \in Nat /\ d.len \in Nat
    BY <1>10, <2>1 DEF Numbered
  <2>3. CASE D2[b] = D[b]
    <3>1. \/ Since(d, h) /\ d.pos + d.len <= p + AggSize
          \/ /\ d.sync < h.sync
             /\ \/ d.pos + d.len <= w + AggSize \/ w = Start \/ d.sync <= D[Start][1].sync
      BY <1>2, <1>5, <1>10, <2>3 DEF Straight
    <3> QED
      BY <1>6, <3>1
  <2>4. CASE D2[b] # D[b]
    <3>1. b \in p .. (q - 1)
      <4>1. b >= q => D2[b] = D[b]
        BY <1>3, <2>1 DEF Agree
      <4> QED
        BY <1>1, <2>4, <4>1
    <3>2. d.sync = H.sync /\ d.ser = H.ser /\ d.pos + d.len <= q
      BY <1>4, <1>10, <2>4, <3>1
    <3>3. Since(d, h)
      BY <1>1, <3>2 DEF Since
    <3>4. d.pos + d.len <= p + AggSize
      BY <1>1, <1>3, <2>2, <3>2
    <3> QED
      BY <3>3, <3>4
  <2> QED
    BY <2>3, <2>4
<1> QED
  BY <1>2, <1>5, <1>6, <1>7, <1>8, <1>9, <1>10 DEF Straight

LEMMA OrderedPart ==
  ASSUME NEW D, NEW x \in Int, NEW y \in Int, NEW u \in Int, x <= u, Ordered(D, x, y)
  PROVE  Ordered(D, u, y)
<1>1. \A b \in u .. (y - 1) : b \in x .. (y - 1)
  OBVIOUS
<1> QED
  BY <1>1 DEF Ordered

(* The part of the log before its turn.                                    *)
Ahead(h, T, D) ==
  /\ LastWrite(h, D) /\ Whole(D, h.writePos, T) /\ Ordered(D, h.lastWritePos, T)
  /\ \A b \in h.lastWritePos .. (h.writePos - 1) : D[b][1].sync < h.sync
  /\ \A b \in h.writePos .. (T - 1) : Since(D[b][1], h)

LEMMA FarBefore ==
  ASSUME Roomy, NEW h \in Header, NEW D, LastWrite(h, D), NEW q \in Start .. End,
         q + EvacSize < h.writePos
  PROVE  h.lastWritePos <= h.writePos /\ q < h.lastWritePos /\ h.lastWritePos \in Int
<1>1. /\ h.writePos \in Int /\ h.lastWritePos \in Int /\ Start \in Int /\ AggSize \in Nat
      /\ EvacSize = AggSize + AggSize /\ AggSize >= 1 /\ q \in Int /\ Start <= q
  BY HeaderParts, SizeFacts
<1>2. h.writePos # Start
  BY <1>1
<1>3. h.lastWritePos <= h.writePos /\ h.writePos <= h.lastWritePos + AggSize
  BY <1>2 DEF LastWrite
<1> QED
  BY <1>1, <1>3

LEMMA AheadKept ==
  ASSUME Roomy, NEW h \in Header, NEW D, NEW D2, NEW p \in Start .. End, NEW q \in Start .. End,
         Agree(D, D2, p, q), NEW T \in Start .. End, Ahead(h, T, D), q + EvacSize < h.writePos
  PROVE  /\ Ahead(h, T, D2)
         /\ \A b \in h.lastWritePos .. (End - 1) : D2[b] = D[b] /\ b \in Blocks
         /\ \A b \in q .. (h.writePos - 1) : D2[b] = D[b] /\ b \in Blocks
<1>1. LastWrite(h, D)
  BY DEF Ahead
<1>2. /\ h.writePos \in Int /\ h.lastWritePos \in Int /\ Start \in Int /\ End \in Int
      /\ EvacSize \in Nat /\ q \in Int /\ p \in Int /\ Start <= q /\ T \in Int /\ T <= End
      /\ h.writePos <= End
  BY HeaderParts, SizeFacts
<1>3. h.lastWritePos <= h.writePos /\ q < h.lastWritePos
  BY <1>1, FarBefore
<1>4. PICK l \in Int, w \in Int : l = h.lastWritePos /\ w = h.writePos
  BY <1>2
<1>5. ASSUME NEW b \in Int, q <= b, b < End PROVE D2[b] = D[b] /\ b \in Blocks
  <2>1. b \in Blocks
    BY <1>2, <1>5 DEF Blocks
  <2> QED
    BY <1>5, <2>1 DEF Agree
<1>6. \A b \in l .. (End - 1) : D2[b] = D[b] /\ b \in Blocks
  BY <1>2, <1>3, <1>4, <1>5
<1>7. \A b \in q .. (w - 1) : D2[b] = D[b] /\ b \in Blocks
  BY <1>2, <1>4, <1>5
<1>8. LastWrite(h, D2)
  BY <1>1, <1>2, <1>3, LastWriteKept
<1>9. Whole(D2, w, T)
  <2>1. Whole(D, w, T) /\ Start <= w /\ w >= q
    BY <1>2, <1>3, <1>4 DEF Ahead
  <2> QED
    BY <1>2, <2>1, WholeKept
<1>10. Ordered(D2, l, T)
  <2>1. Ordered(D, l, T) /\ Start <= l /\ l >= q
    BY <1>2, <1>3, <1>4 DEF Ahead
  <2> QED
    BY <1>2, <2>1, OrderedKept
<1>11. ASSUME NEW b \in l .. (w - 1) PROVE D2[b][1].sync < h.sync
  <2>1. b \in l .. (End - 1)
    BY <1>2, <1>4
  <2> QED
    BY <1>4, <1>6, <2>1 DEF Ahead
<1>12. ASSUME NEW b \in w .. (T - 1) PROVE Since(D2[b][1], h)
  <2>1. b \in l .. (End - 1)
    BY <1>2, <1>3, <1>4
  <2>2. D2[b] = D[b] /\ Since(D[b][1], h)
    BY <1>4, <1>6, <2>1 DEF Ahead
  <2> QED
    BY <2>2
<1>13. Ahead(h, T, D2)
  BY <1>4, <1>8, <1>9, <1>10, <1>11, <1>12 DEF Ahead
<1> QED
  BY <1>4, <1>6, <1>7, <1>13

LEMMA TurnedParts ==
  ASSUME NEW h, NEW T, NEW E, NEW D
  PROVE  TurnedLog(h, T, E, D) <=>
         /\ h.writePos <= T /\ End - AggSize < T /\ Start < E /\ E + EvacSize < h.writePos
         /\ Ahead(h, T, D) /\ Whole(D, Start, E) /\ Ordered(D, Start, E)
         /\ \A b \in Start .. (E - 1) : Since(D[b][1], h)
         /\ \A b \in h.lastWritePos .. (End - 1) :
              D[b][1].sync <= D[Start][1].sync /\ D[b][1].ser <= D[Start][1].ser
         /\ \A b \in E .. (h.writePos - 1) :
              LET d == D[b][1]
              IN (Since(d, h) /\ d.pos + d.len + EvacSize < h.writePos) \/ d.sync < h.sync
BY Zenon DEF TurnedLog, Ahead

LEMMA StraightAhead ==
  ASSUME Roomy, NEW h \in Header, NEW T \in Start .. End, NEW D, Straight(h, T, D),
         NEW q \in Start .. End, q + EvacSize < h.writePos
  PROVE  Ahead(h, T, D)
<1>1. LastWrite(h, D)
  BY DEF Straight
<1>2. /\ h.writePos \in Int /\ h.lastWritePos \in Int /\ Start <= h.lastWritePos /\ Start \in Int
      /\ T \in Int
  BY HeaderParts
<1>3. PICK l \in Int, w \in Int : l = h.lastWritePos /\ w = h.writePos
  BY <1>2
<1>4. Start <= l /\ l <= w
  BY <1>1, <1>2, <1>3, FarBefore
<1>5. Whole(D, w, T) /\ Ordered(D, Start, T)
  BY <1>3 DEF Straight
<1>6. Ordered(D, l, T)
  BY <1>2, <1>4, <1>5, OrderedPart
<1>7. \A b \in l .. (w - 1) : b \in Start .. (w - 1)
  BY <1>2, <1>4
<1>8. \A b \in l .. (w - 1) : D[b][1].sync < h.sync
  BY <1>3, <1>7 DEF Straight
<1>9. \A b \in w .. (T - 1) : Since(D[b][1], h)
  BY <1>3 DEF Straight
<1> QED
  BY <1>1, <1>3, <1>5, <1>6, <1>8, <1>9 DEF Ahead

(* The first write after the turn.                                         *)
LEMMA TurnAdvance ==
  ASSUME Roomy, NEW h \in Header, NEW H \in Header, NEW H2 \in Header, NEW D, NEW D2,
         NEW q \in Start .. End, All(H, D, D2, q), Advanced(H, H2, q), Lap(H, D), Lap(H2, D2),
         H.writePos = Start, NEW T \in Start .. End, End - AggSize < T, Straight(h, T, D),
         H.sync = h.sync \/ H.sync = h.sync + 1, h.ser <= H.ser, q + EvacSize < h.writePos
  PROVE  TurnedLog(h, T, q, D2)
<1>1. /\ h.writePos \in Int /\ h.lastWritePos \in Int /\ Start \in Int /\ End \in Int
      /\ h.sync \in Nat /\ h.ser \in Nat /\ H.sync \in Nat /\ H.ser \in Nat /\ q \in Int
      /\ Start <= q /\ EvacSize \in Nat /\ h.writePos <= End
  BY HeaderParts, SizeFacts
<1>2. Start < q /\ Agree(D, D2, Start, q) /\ Whole(D2, Start, q) /\ Start \in Start .. End
  BY <1>1, SMTT(20) DEF All
<1>3. \A b \in Start .. (q - 1) : D2[b][1].sync = H.sync /\ D2[b][1].ser = H.ser
  BY DEF All
<1>4. Ahead(h, T, D)
  BY StraightAhead
<1>5. /\ Ahead(h, T, D2)
      /\ \A b \in h.lastWritePos .. (End - 1) : D2[b] = D[b] /\ b \in Blocks
      /\ \A b \in q .. (h.writePos - 1) : D2[b] = D[b] /\ b \in Blocks
  BY <1>2, <1>4, AheadKept
<1>6. Ordered(D2, Start, q)
  BY DEF Lap, Advanced
<1>7. D2[Start][1].sync = H.sync /\ D2[Start][1].ser = H.ser
  <2>1. Start \in Start .. (q - 1)
    BY <1>1, <1>2
  <2> QED
    BY <1>3, <2>1
<1>8. \A b \in Start .. (q - 1) : Since(D2[b][1], h)
  <2> SUFFICES ASSUME NEW b \in Start .. (q - 1) PROVE Since(D2[b][1], h)
    OBVIOUS
  <2>1. D2[b][1].sync = H.sync /\ D2[b][1].ser = H.ser
    BY <1>3
  <2>2. h.sync <= H.sync /\ H.sync <= h.sync + 1 /\ h.ser <= H.ser
    BY <1>1
  <2> QED
    BY <2>1, <2>2 DEF Since
<1>9. \A b \in Blocks : D[b][1].sync <= H.sync /\ D[b][1].ser <= H.ser
  BY DEF Lap
<1>10. \A b \in h.lastWritePos .. (End - 1) :
         D2[b][1].sync <= D2[Start][1].sync /\ D2[b][1].ser <= D2[Start][1].ser
  BY <1>5, <1>7, <1>9
<1>11. ASSUME NEW b \in q .. (h.writePos - 1) PROVE D2[b][1].sync < h.sync
  <2>1. b \in Start .. (h.writePos - 1)
    BY <1>1
  <2>2. D[b][1].sync < h.sync
    BY <2>1 DEF Straight
  <2> QED
    BY <1>5, <2>2
<1>12. h.writePos <= T
  BY DEF Straight
<1> QED
  BY <1>2, <1>5, <1>6, <1>8, <1>10, <1>11, <1>12, TurnedParts

(* The writes after it.                                                    *)
LEMMA TurnedAdvance ==
  ASSUME Roomy, NEW h \in Header, NEW H \in Header, NEW H2 \in Header, NEW D, NEW D2,
         NEW q \in Start .. End, All(H, D, D2, q), Advanced(H, H2, q), Lap(H2, D2),
         NEW T \in Start .. End, TurnedLog(h, T, H.writePos, D),
         H.sync = h.sync \/ H.sync = h.sync + 1, h.ser <= H.ser, q + EvacSize < h.writePos
  PROVE  TurnedLog(h, T, q, D2)
<1>1. /\ h.writePos \in Int /\ h.lastWritePos \in Int /\ Start \in Int /\ End \in Int
      /\ h.sync \in Nat /\ h.ser \in Nat /\ H.sync \in Nat /\ H.ser \in Nat /\ q \in Int
      /\ Start <= q /\ EvacSize \in Nat /\ h.writePos <= End /\ H.writePos \in Start .. End
  BY HeaderParts, SizeFacts
<1>2. PICK p \in Start .. End : p = H.writePos
  BY <1>1
<1>3. p < q /\ Agree(D, D2, p, q) /\ Whole(D2, p, q)
  BY <1>2 DEF All
<1>4. \A b \in p .. (q - 1) : D2[b][1].sync = H.sync /\ D2[b][1].ser = H.ser
  BY <1>2 DEF All
<1>5. /\ h.writePos <= T /\ End - AggSize < T /\ Start < p /\ Ahead(h, T, D)
      /\ Whole(D, Start, p)
      /\ \A b \in Start .. (p - 1) : Since(D[b][1], h)
      /\ \A b \in h.lastWritePos .. (End - 1) :
           D[b][1].sync <= D[Start][1].sync /\ D[b][1].ser <= D[Start][1].ser
      /\ \A b \in p .. (h.writePos - 1) :
           LET d == D[b][1]
           IN (Since(d, h) /\ d.pos + d.len + EvacSize < h.writePos) \/ d.sync < h.sync
  BY <1>2, TurnedParts
<1>6. /\ Ahead(h, T, D2)
      /\ \A b \in h.lastWritePos .. (End - 1) : D2[b] = D[b] /\ b \in Blocks
      /\ \A b \in q .. (h.writePos - 1) : D2[b] = D[b] /\ b \in Blocks
  BY <1>3, <1>5, AheadKept
<1>7. Ordered(D2, Start, q)
  BY DEF Lap, Advanced
<1>8. ASSUME NEW b \in Start .. (p - 1) PROVE D2[b] = D[b]
  <2>1. b \in Blocks /\ b < p
    BY <1>1 DEF Blocks
  <2> QED
    BY <1>3, <2>1 DEF Agree
<1>9. Whole(D2, Start, q)
  <2>1. Whole(D2, Start, p)
    BY <1>1, <1>3, <1>5, WholeKept
  <2> QED
    BY <1>1, <1>3, <2>1, WholeJoin
<1>10. ASSUME NEW b \in Start .. (q - 1) PROVE Since(D2[b][1], h)
  <2>1. CASE b < p
    <3>1. b \in Start .. (p - 1)
      BY <1>1, <2>1
    <3> QED
      BY <1>5, <1>8, <3>1
  <2>2. CASE b >= p
    <3>1. b \in p .. (q - 1)
      BY <1>1, <2>2
    <3>2. D2[b][1].sync = H.sync /\ D2[b][1].ser = H.ser
      BY <1>4, <3>1
    <3> QED
      BY <1>1, <3>2 DEF Since
  <2> QED
    BY <2>1, <2>2
<1>11. D2[Start] = D[Start]
  <2>1. Start \in Start .. (p - 1)
    BY <1>1, <1>5, SMTT(20)
  <2> QED
    BY <1>8, <2>1
<1>12. \A b \in h.lastWritePos .. (End - 1) :
         D2[b][1].sync <= D2[Start][1].sync /\ D2[b][1].ser <= D2[Start][1].ser
  BY <1>5, <1>6, <1>11
<1>13. ASSUME NEW b \in q .. (h.writePos - 1), NEW d, d = D2[b][1]
       PROVE  (Since(d, h) /\ d.pos + d.len + EvacSize < h.writePos) \/ d.sync < h.sync
  <2>1. b \in p .. (h.writePos - 1)
    BY <1>1, <1>3
  <2>2. d = D[b][1]
    BY <1>6, <1>13
  <2> QED
    BY <1>5, <2>1, <2>2
<1>14. Start < q
  BY <1>1, <1>3
<1> QED
  BY <1>5, <1>6, <1>7, <1>9, <1>10, <1>12, <1>13, <1>14, TurnedParts

LEMMA TurnedFail ==
  ASSUME Roomy, NEW h \in Header, NEW H \in Header, NEW D, NEW D2, Numbered(D2),
         NEW q \in Start .. End, Some(H, D, D2, q),
         NEW T \in Start .. End, TurnedLog(h, T, H.writePos, D),
         H.sync = h.sync \/ H.sync = h.sync + 1, h.ser <= H.ser, q + EvacSize < h.writePos
  PROVE  TurnedLog(h, T, H.writePos, D2)
<1>1. /\ h.writePos \in Int /\ h.lastWritePos \in Int /\ Start \in Int /\ End \in Int
      /\ h.sync \in Nat /\ h.ser \in Nat /\ H.sync \in Nat /\ H.ser \in Nat /\ q \in Int
      /\ Start <= q /\ EvacSize \in Nat /\ h.writePos <= End /\ H.writePos \in Start .. End
  BY HeaderParts, SizeFacts
<1>2. PICK p \in Start .. End : p = H.writePos
  BY <1>1
<1>3. p < q /\ Agree(D, D2, p, q)
  BY <1>2 DEF Some
<1>4. \A b \in p .. (q - 1) :
        \/ D2[b] = D[b]
        \/ /\ D2[b][1].sync = H.sync /\ D2[b][1].ser = H.ser
           /\ D2[b][1].pos + D2[b][1].len <= q
  BY <1>2 DEF Some
<1>5. /\ h.writePos <= T /\ End - AggSize < T /\ Start < p /\ p + EvacSize < h.writePos
      /\ Ahead(h, T, D) /\ Whole(D, Start, p) /\ Ordered(D, Start, p)
      /\ \A b \in Start .. (p - 1) : Since(D[b][1], h)
      /\ \A b \in h.lastWritePos .. (End - 1) :
           D[b][1].sync <= D[Start][1].sync /\ D[b][1].ser <= D[Start][1].ser
      /\ \A b \in p .. (h.writePos - 1) :
           LET d == D[b][1]
           IN (Since(d, h) /\ d.pos + d.len + EvacSize < h.writePos) \/ d.sync < h.sync
  BY <1>2, TurnedParts
<1>6. /\ Ahead(h, T, D2)
      /\ \A b \in h.lastWritePos .. (End - 1) : D2[b] = D[b] /\ b \in Blocks
      /\ \A b \in q .. (h.writePos - 1) : D2[b] = D[b] /\ b \in Blocks
  BY <1>3, <1>5, AheadKept
<1>7. Ordered(D2, Start, p) /\ Whole(D2, Start, p)
  BY <1>1, <1>3, <1>5, OrderedKept, WholeKept
<1>8. ASSUME NEW b \in Start .. (p - 1) PROVE D2[b] = D[b]
  <2>1. b \in Blocks /\ b < p
    BY <1>1 DEF Blocks
  <2> QED
    BY <1>3, <2>1 DEF Agree
<1>9. \A b \in Start .. (p - 1) : Since(D2[b][1], h)
  BY <1>5, <1>8
<1>10. D2[Start] = D[Start]
  <2>1. Start \in Start .. (p - 1)
    BY <1>1, <1>5, SMTT(20)
  <2> QED
    BY <1>8, <2>1
<1>11. \A b \in h.lastWritePos .. (End - 1) :
         D2[b][1].sync <= D2[Start][1].sync /\ D2[b][1].ser <= D2[Start][1].ser
  BY <1>5, <1>6, <1>10
<1>12. ASSUME NEW b \in p .. (h.writePos - 1), NEW d, d = D2[b][1]
       PROVE  (Since(d, h) /\ d.pos + d.len + EvacSize < h.writePos) \/ d.sync < h.sync
  <2>1. b \in Blocks
    BY <1>1 DEF Blocks
  <2>2. d.pos \in Nat /\ d.len \in Nat
    BY <1>12, <2>1 DEF Numbered
  <2>3. CASE D2[b] = D[b]
    <3>1. d = D[b][1]
      BY <1>12, <2>3
    <3> QED
      BY <1>5, <3>1
  <2>4. CASE D2[b] # D[b]
    <3>1. b \in p .. (q - 1)
      <4>1. b >= q => D2[b] = D[b]
        BY <1>3, <2>1 DEF Agree
      <4> QED
        BY <1>1, <2>4, <4>1
    <3>2. d.sync = H.sync /\ d.ser = H.ser /\ d.pos + d.len <= q
      BY <1>4, <1>12, <2>4, <3>1
    <3>3. Since(d, h)
      BY <1>1, <3>2, SMTT(20) DEF Since
    <3>4. d.pos + d.len + EvacSize < h.writePos
      <4>1. PICK n \in Int : n = d.pos + d.len
        BY <2>2
      <4>2. n + EvacSize < h.writePos
        BY <1>1, <3>2, <4>1
      <4> QED
        BY <4>1, <4>2
    <3> QED
      BY <3>3, <3>4
  <2> QED
    BY <2>3, <2>4
<1> QED
  BY <1>2, <1>5, <1>6, <1>7, <1>9, <1>11, <1>12, TurnedParts

LEMMA EntriesKept ==
  ASSUME NEW h \in Header, NEW ds \in SUBSET Docs, NEW E \in Start .. End, NEW E2 \in Start .. End,
         E <= E2, NEW q \in Start .. End, q <= E2 + AggSize, h.writePos <= E,
         NEW D, NEW D2, Agree(D, D2, E, q), NEW L, NEW L2, L \subseteq L2,
         EntriesOf(h, ds, E, D, L)
  PROVE  EntriesOf(h, ds, E2, D2, L2)
<1> SUFFICES ASSUME NEW e \in ds, e \notin L2
             PROVE  /\ e.phase = h.phase /\ e.pos < h.writePos =>
                         e.pos + e.len <= h.writePos /\ Held(e, D2)
                    /\ e.phase # h.phase /\ e.pos >= E2 + AggSize => Held(e, D2)
  BY DEF EntriesOf
<1>1. /\ e \in Docs /\ e \notin L /\ e.pos \in Nat /\ e.len \in Nat /\ h.writePos \in Nat
      /\ E \in Int /\ E2 \in Int /\ q \in Int /\ AggSize \in Nat
  BY DocParts, HeaderParts
<1>2. ASSUME e.phase = h.phase, e.pos < h.writePos
      PROVE  e.pos + e.len <= h.writePos /\ Held(e, D2)
  <2>1. e.pos + e.len <= h.writePos /\ Held(e, D)
    BY <1>1, <1>2 DEF EntriesOf
  <2>2. e.pos + e.len <= E
    BY <1>1, <2>1
  <2> QED
    BY <1>1, <2>1, <2>2, HeldKept
<1>3. ASSUME e.phase # h.phase, e.pos >= E2 + AggSize PROVE Held(e, D2)
  <2>1. e.pos >= E + AggSize /\ e.pos >= q
    BY <1>1, <1>3
  <2>2. Held(e, D)
    BY <1>1, <1>3, <2>1 DEF EntriesOf
  <2> QED
    BY <1>1, <2>1, <2>2, HeldKept
<1> QED
  BY <1>2, <1>3

(* A write that succeeds, unless it comes close to where the log was when  *)
(* the copy was made.                                                      *)
LEMMA LogAdvance ==
  ASSUME Roomy, NEW h \in Header, NEW ds \in SUBSET Docs, NEW H \in Header, NEW H2 \in Header,
         NEW D, NEW D2, Numbered(D), NEW L, NEW q \in Start .. End, All(H, D, D2, q),
         Advanced(H, H2, q), Lap(H, D), Lap(H2, D2), LogOf(h, ds, H, D, L),
         H.phase # h.phase => q + EvacSize < h.writePos
  PROVE  LogOf(h, ds, H2, D2, L)
<1>1. /\ Limited(h) /\ (H.sync = h.sync \/ H.sync = h.sync + 1) /\ h.ser <= H.ser
  BY DEF LogOf
<1>2. /\ H2.writePos = q /\ H2.phase = H.phase /\ H2.sync = H.sync /\ H2.ser = H.ser + 1
  BY DEF Advanced
<1>3. /\ H.ser \in Nat /\ h.ser \in Nat /\ H.writePos \in Start .. End /\ Start \in Int
      /\ AggSize \in Nat
  BY HeaderParts
<1>4. h.ser <= H2.ser
  BY <1>1, <1>2, <1>3
<1>5. H.writePos < q /\ q <= H.writePos + AggSize /\ Agree(D, D2, H.writePos, q)
  BY DEF All
<1>6. q # Start
  BY <1>3, <1>5
<1>7. ASSUME H.phase = h.phase PROVE Straight(h, q, D2) /\ EntriesOf(h, ds, q, D2, L)
  <2>1. Straight(h, H.writePos, D) /\ EntriesOf(h, ds, H.writePos, D, L)
    BY <1>7 DEF LogOf
  <2>2. Straight(h, q, D2)
    BY <1>1, <2>1, StraightAdvance
  <2>3. H.writePos <= q /\ q <= q + AggSize /\ h.writePos <= H.writePos
    BY <1>3, <1>5, <2>1 DEF Straight
  <2>4. EntriesOf(h, ds, q, D2, L)
    BY <1>3, <1>5, <2>1, <2>3, EntriesKept
  <2> QED
    BY <2>2, <2>4
<1>8. ASSUME H.phase # h.phase PROVE \E T \in Start .. End : TurnedLog(h, T, q, D2)
  <2>1. CASE H.writePos = Start
    <3>1. PICK T \in Start .. End : End - AggSize < T /\ Straight(h, T, D)
      BY <1>8, <2>1 DEF LogOf
    <3> QED
      BY <1>1, <1>8, <2>1, <3>1, TurnAdvance
  <2>2. CASE H.writePos # Start
    <3>1. PICK T \in Start .. End : TurnedLog(h, T, H.writePos, D)
      BY <1>8, <2>2 DEF LogOf
    <3> QED
      BY <1>1, <1>8, <3>1, TurnedAdvance
  <2> QED
    BY <2>1, <2>2
<1> QED
  BY <1>1, <1>2, <1>4, <1>6, <1>7, <1>8 DEF LogOf

(* A write that fails or is torn, unless it is the first after a turn.     *)
LEMMA LogFail ==
  ASSUME Roomy, NEW h \in Header, NEW ds \in SUBSET Docs, NEW H \in Header,
         NEW D, NEW D2, Numbered(D2), NEW L, NEW L2, L \subseteq L2,
         NEW q \in Start .. End, Some(H, D, D2, q), LogOf(h, ds, H, D, L),
         H.phase # h.phase => q + EvacSize < h.writePos /\ H.writePos # Start
  PROVE  LogOf(h, ds, H, D2, L2)
<1>1. /\ Limited(h) /\ (H.sync = h.sync \/ H.sync = h.sync + 1) /\ h.ser <= H.ser
  BY DEF LogOf
<1>2. H.writePos \in Start .. End /\ H.writePos \in Int /\ AggSize \in Nat
  BY HeaderParts
<1>3. H.writePos < q /\ q <= H.writePos + AggSize /\ Agree(D, D2, H.writePos, q)
  BY DEF Some
<1>4. ASSUME H.phase = h.phase
      PROVE  Straight(h, H.writePos, D2) /\ EntriesOf(h, ds, H.writePos, D2, L2)
  <2>1. Straight(h, H.writePos, D) /\ EntriesOf(h, ds, H.writePos, D, L)
    BY <1>4 DEF LogOf
  <2>2. Straight(h, H.writePos, D2)
    BY <1>1, <2>1, StraightFail
  <2>3. h.writePos <= H.writePos /\ H.writePos <= H.writePos
    BY <1>2, <2>1 DEF Straight
  <2>4. EntriesOf(h, ds, H.writePos, D2, L2)
    BY <1>2, <1>3, <2>1, <2>3, EntriesKept
  <2> QED
    BY <2>2, <2>4
<1>5. ASSUME H.phase # h.phase PROVE \E T \in Start .. End : TurnedLog(h, T, H.writePos, D2)
  <2>1. PICK T \in Start .. End : TurnedLog(h, T, H.writePos, D)
    BY <1>5 DEF LogOf
  <2> QED
    BY <1>1, <1>5, <2>1, TurnedFail
<1> QED
  BY <1>1, <1>4, <1>5 DEF LogOf

-----------------------------------------------------------------------------
(* Turns and syncs.                                                        *)

(* The log has turned back to the start. *)
TurnedBack(H, H2) ==
  /\ H.writePos > End - AggSize /\ H2.writePos = Start /\ H2.phase # H.phase
  /\ H2.lastWritePos = H.lastWritePos /\ H2.sync = H.sync /\ H2.ser = H.ser

(* It is where it was. *)
SamePlace(H, H2) ==
  /\ H2.writePos = H.writePos /\ H2.phase = H.phase /\ H2.lastWritePos = H.lastWritePos
  /\ H2.ser = H.ser

LEMMA LapTurn ==
  ASSUME NEW H \in Header, NEW H2 \in Header, NEW D, TurnedBack(H, H2), Lap(H, D)
  PROVE  Lap(H2, D)
<1>1. /\ H2.writePos = Start /\ H2.lastWritePos = H.lastWritePos /\ H2.sync = H.sync
      /\ H2.ser = H.ser
  BY DEF TurnedBack
<1>2. Start \in Int /\ AggSize \in Nat /\ H2.lastWritePos \in Int /\ Start <= H2.lastWritePos
  BY HeaderParts
<1>3. Whole(D, Start, Start) /\ Ordered(D, Start, Start)
  BY <1>2, WholeNone
<1>4. LastWrite(H2, D)
  <2>1. CASE H2.lastWritePos <= H2.writePos
    <3>1. H2.lastWritePos = Start
      BY <1>1, <1>2, <2>1
    <3>2. Start <= Start + AggSize
      BY <1>2
    <3> QED
      BY <1>1, <1>3, <3>1, <3>2 DEF LastWrite
  <2>2. CASE ~(H2.lastWritePos <= H2.writePos)
    BY <1>1, <2>2 DEF LastWrite
  <2> QED
    BY <2>1, <2>2
<1>5. Start .. (Start - 1) = {}
  BY <1>2
<1> QED
  BY <1>1, <1>3, <1>4, <1>5 DEF Lap

(* A log that has turned since a copy is far from the end.                 *)
LEMMA TurnsOnce ==
  ASSUME Roomy, NEW h \in Header, NEW ds, NEW H \in Header, NEW D, NEW L,
         LogOf(h, ds, H, D, L), H.writePos > End - AggSize
  PROVE  H.phase = h.phase
<1> SUFFICES ASSUME H.phase # h.phase PROVE FALSE
  OBVIOUS
<1>1. /\ H.writePos \in Int /\ h.writePos \in Int /\ h.writePos <= End /\ Start \in Nat
      /\ End \in Nat /\ AggSize \in Nat /\ EvacSize = AggSize + AggSize
      /\ End - AggSize >= Start + EvacSize + EvacSize
  BY HeaderParts, SizeFacts
<1>2. H.writePos # Start
  BY <1>1
<1>3. PICK T \in Start .. End : TurnedLog(h, T, H.writePos, D)
  BY <1>2 DEF LogOf
<1>4. H.writePos + EvacSize < h.writePos
  BY <1>3 DEF TurnedLog
<1> QED
  BY <1>1, <1>4

LEMMA LogTurn ==
  ASSUME Roomy, NEW h \in Header, NEW ds, NEW H \in Header, NEW H2 \in Header, NEW D, NEW L,
         TurnedBack(H, H2), LogOf(h, ds, H, D, L)
  PROVE  LogOf(h, ds, H2, D, L)
<1>1. /\ H.writePos > End - AggSize /\ H2.writePos = Start /\ H2.phase # H.phase
      /\ H2.sync = H.sync /\ H2.ser = H.ser
  BY DEF TurnedBack
<1>2. H.phase = h.phase
  BY <1>1, TurnsOnce
<1>3. Straight(h, H.writePos, D) /\ EntriesOf(h, ds, H.writePos, D, L)
  BY <1>2 DEF LogOf
<1>4. H.writePos \in Start .. End /\ End - AggSize < H.writePos
  <2>1. H.writePos \in Start .. End /\ End \in Nat /\ AggSize \in Nat
    BY HeaderParts
  <2> QED
    BY <1>1, <2>1
<1>5. \E T \in Start .. End : End - AggSize < T /\ Straight(h, T, D) /\ EntriesOf(h, ds, T, D, L)
  BY <1>3, <1>4
<1> QED
  BY <1>1, <1>2, <1>5 DEF LogOf

LEMMA LapSame ==
  ASSUME NEW H \in Header, NEW H2 \in Header, NEW D, Numbered(D), SamePlace(H, H2),
         H2.sync = H.sync \/ H2.sync = H.sync + 1, Lap(H, D)
  PROVE  Lap(H2, D)
<1>1. /\ H2.writePos = H.writePos /\ H2.lastWritePos = H.lastWritePos /\ H2.ser = H.ser
  BY DEF SamePlace
<1>2. \A b \in Blocks : D[b][1].sync <= H2.sync
  <2> SUFFICES ASSUME NEW b \in Blocks PROVE D[b][1].sync <= H2.sync
    OBVIOUS
  <2>1. D[b][1].sync <= H.sync /\ D[b][1].sync \in Nat /\ H.sync \in Nat
    BY HeaderParts DEF Lap, Numbered
  <2> QED
    BY <2>1
<1>3. LastWrite(H2, D)
  BY <1>1 DEF Lap, LastWrite
<1> QED
  BY <1>1, <1>2, <1>3 DEF Lap

LEMMA LogSame ==
  ASSUME NEW h, NEW ds, NEW H, NEW H2, NEW D, NEW L, SamePlace(H, H2),
         H2.sync = h.sync \/ H2.sync = h.sync + 1, LogOf(h, ds, H, D, L)
  PROVE  LogOf(h, ds, H2, D, L)
BY DEF SamePlace, LogOf

(* A sync copies the directory as it is.                                   *)
LEMMA LogSnap ==
  ASSUME NEW m, VolOK(m), Limited(m.hdr), NEW n \in Nat, n < m.hdr.sync,
         NEW D, Numbered(D), NEW L, Lap(m.hdr, D), EntriesAt(m, D, L),
         \A b \in Blocks : D[b][1].sync <= n
  PROVE  LogOf(m.hdr, m.dir, m.hdr, D, L)
<1> DEFINE h == m.hdr
<1>1. /\ h \in Header /\ m.dir \in SUBSET Docs
  BY VolumeParts
<1>2. /\ h.writePos \in Int /\ Start <= h.writePos /\ h.writePos <= End /\ h.sync \in Nat
      /\ Start \in Int /\ End \in Int /\ AggSize \in Nat
  BY <1>1, HeaderParts
<1>3. PICK w \in Int : w = h.writePos
  BY <1>2
<1>4. Lap(h, D) /\ n < h.sync
  OBVIOUS
<1> HIDE DEF h
<1>5. Whole(D, w, w) /\ w .. (w - 1) = {} /\ w <= w
  BY WholeNone
<1>6. ASSUME NEW b \in Blocks PROVE D[b][1].sync < h.sync
  <2>1. D[b][1].sync <= n /\ D[b][1].sync \in Nat
    BY DEF Numbered
  <2> QED
    BY <1>2, <1>4, <2>1
<1>7. \A b \in Start .. (w - 1) : b \in Blocks
  BY <1>2, <1>3 DEF Blocks
<1>8. \A b \in w .. (End - 1) : b \in Blocks
  BY <1>2, <1>3 DEF Blocks
<1>9. \A b \in Start .. (w - 1) : D[b][1].sync < h.sync /\ D[b][1].ser < h.ser
  BY <1>3, <1>4, <1>6, <1>7 DEF Lap
<1>10. \A b \in w .. (End - 1) :
         /\ D[b][1].sync < h.sync
         /\ \/ D[b][1].pos + D[b][1].len <= w + AggSize
            \/ w = Start
            \/ D[b][1].sync <= D[Start][1].sync
  BY <1>3, <1>4, <1>6, <1>8 DEF Lap
<1>11. LastWrite(h, D) /\ Whole(D, Start, w) /\ Ordered(D, Start, w)
  BY <1>3, <1>4 DEF Lap
<1>12. Straight(h, w, D)
  BY <1>3, <1>5, <1>9, <1>10, <1>11 DEF Straight
<1>13. EntriesOf(h, m.dir, w, D, L)
  <2> SUFFICES ASSUME NEW e \in m.dir \ L
               PROVE  /\ e.phase = h.phase /\ e.pos < w => e.pos + e.len <= w /\ Held(e, D)
                      /\ e.phase # h.phase /\ e.pos >= w + AggSize => Held(e, D)
    BY <1>3 DEF EntriesOf
  <2>1. e.pos \in Nat /\ h.aggPos \in Nat /\ h.aggPos <= w + AggSize
    BY <1>1, <1>3, DocParts, HeaderParts DEF Limited, h
  <2>2. e.pos >= w + AggSize => e.pos >= h.aggPos
    BY <1>2, <2>1
  <2> QED
    BY <1>3, <2>2 DEF EntriesAt, h
<1>14. Limited(h) /\ h.ser <= h.ser
  BY <1>1, HeaderParts DEF h
<1>15. LogOf(h, m.dir, h, D, L)
  BY <1>3, <1>12, <1>13, <1>14 DEF LogOf
<1> QED
  BY <1>15 DEF h

-----------------------------------------------------------------------------
(* The log since the usable copy, and since the one that is being written. *)

(* The copy with header g was made after the one with header h, and the log*)
(* has turned at most once since the latter. *)
Later(h, g, H) ==
  IF h.phase = g.phase THEN h.writePos <= g.writePos ELSE H.phase = g.phase

Log(H, D, L, st, sn) ==
  /\ Lap(H, D)
  /\ \A c \in Usable : LogOf(copies[c].hdr, copies[c].dir, H, D, L)
  /\ st # "idle" => /\ LogOf(sn.hdr, sn.dir, H, D, L)
                    /\ \A c \in Usable : Later(copies[c].hdr, sn.hdr, H)

LogNow ==
  /\ vol.io => vol.buf # <<>>
  /\ Log(vol.hdr, disk, lost, stage, snap)
  /\ \A c \in Usable : copies[c].hdr.sync = 0 => copies[c].dir = {}
  /\ stage = "footer" => copies[Target].dir = snap.dir

UsableIn(C) ==
  IF C[0].hdr.sync = C[0].foot /\ (C[0].hdr.sync >= C[1].hdr.sync \/ ~(C[1].hdr.sync = C[1].foot))
  THEN {0} ELSE IF C[1].hdr.sync = C[1].foot THEN {1} ELSE {}

LEMMA WhichUsable ==
  ASSUME NEW C \in [{0, 1} -> Copies], NEW c \in {0, 1}, C[c].hdr.sync = C[c].foot,
         C[1 - c].foot <= C[c].hdr.sync, c = 1 => C[0].foot # C[1].hdr.sync
  PROVE  UsableIn(C) = {c}
<1>1. /\ C[0].foot \in Nat /\ C[1].foot \in Nat /\ C[0].hdr.sync \in Nat /\ C[1].hdr.sync \in Nat
  <2>1. C[0] \in Copies /\ C[1] \in Copies
    OBVIOUS
  <2>2. C[0].hdr \in Header /\ C[1].hdr \in Header /\ C[0].foot \in Nat /\ C[1].foot \in Nat
    BY <2>1 DEF Copies
  <2> QED
    BY <2>2, HeaderParts
<1>2. CASE c = 0
  <2>1. C[1].hdr.sync = C[1].foot => C[0].hdr.sync >= C[1].hdr.sync
    BY <1>1, <1>2
  <2> QED
    BY <1>2, <2>1 DEF UsableIn
<1>3. CASE c = 1
  <2>1. C[0].hdr.sync = C[0].foot => ~(C[0].hdr.sync >= C[1].hdr.sync)
    BY <1>1, <1>3
  <2> QED
    BY <1>3, <2>1 DEF UsableIn
<1> QED
  BY <1>2, <1>3

LEMMA UsableIs ==
  ASSUME IInv, Undisturbed
  PROVE  \E c \in {0, 1} : Usable = {c} /\ Base(c) /\ Writes(c)
<1>1. PICK c \in {0, 1} : Base(c) /\ Writes(c)
  BY DEF IInv, CopyInv
<1>2. copies \in [{0, 1} -> Copies]
  BY DEF IInv, TypeInv
<1>3. UsableIn(copies) = {c}
  BY <1>1, <1>2, WhichUsable DEF Base, Good
<1>4. Usable = UsableIn(copies)
  BY DEF Usable, UsableIn, Good
<1> QED
  BY <1>1, <1>3, <1>4

LEMMA NumberedIs ==
  ASSUME NEW D, \A b \in Blocks : D[b] # Blank => D[b][1] \in Docs
  PROVE  Numbered(D)
<1> SUFFICES ASSUME NEW b \in Blocks
             PROVE  /\ D[b][1].sync \in Nat /\ D[b][1].ser \in Nat
                    /\ D[b][1].pos \in Nat /\ D[b][1].len \in Nat
  BY DEF Numbered
<1>1. CASE D[b] = Blank
  BY <1>1 DEF Blank, NoDoc
<1>2. CASE D[b] # Blank
  BY <1>2, DocParts
<1> QED
  BY <1>1, <1>2

(* The copies that the log is compared with.                               *)
LEMMA UsableParts ==
  ASSUME IInv, Undisturbed
  PROVE  /\ \E c \in {0, 1} : Usable = {c}
         /\ \A c \in Usable : copies[c].hdr \in Header /\ copies[c].dir \in SUBSET Docs
         /\ stage = "idle" /\ mode = "up" => \A c \in Usable : copies[c].hdr.sync = vol.hdr.sync
<1>1. PICK c \in {0, 1} : Usable = {c} /\ Base(c) /\ Writes(c)
  BY UsableIs
<1>2. copies[c].hdr \in Header /\ copies[c].dir \in SUBSET Docs
  BY CopyParts
<1> QED
  BY <1>1, <1>2 DEF Writes

(* A write does not come close to the copy being written if it does not    *)
(* come close to the usable one.                                           *)
LEMMA NotRound ==
  ASSUME IInv, Undisturbed, NEW H \in Header, NEW g \in Header, NEW q \in Start .. End,
         \A c \in Usable : Later(copies[c].hdr, g, H),
         \A c \in Usable : H.phase # copies[c].hdr.phase => q + EvacSize < copies[c].hdr.writePos,
         H.phase # g.phase
  PROVE  q + EvacSize < g.writePos /\ \E c \in Usable : H.phase # copies[c].hdr.phase
<1>1. PICK c \in Usable : copies[c].hdr \in Header
  BY UsableParts
<1>2. PICK h \in Header : h = copies[c].hdr
  BY <1>1
<1>3. h.phase = g.phase /\ h.writePos <= g.writePos
  BY <1>2 DEF Later
<1>4. q + EvacSize < h.writePos
  BY <1>2, <1>3
<1>5. q \in Int /\ EvacSize \in Int /\ h.writePos \in Int /\ g.writePos \in Int
  BY HeaderParts DEF EvacSize
<1>6. q + EvacSize < g.writePos
  BY <1>3, <1>4, <1>5
<1> QED
  BY <1>2, <1>3, <1>6

LEMMA AdvanceLog ==
  ASSUME IInv, Undisturbed, Roomy, NEW H \in Header, NEW H2 \in Header, NEW D, NEW D2,
         Numbered(D), Numbered(D2), NEW L, NEW st, NEW sn \in Images, NEW q \in Start .. End,
         All(H, D, D2, q), Advanced(H, H2, q), Log(H, D, L, st, sn),
         \A c \in Usable : H.phase # copies[c].hdr.phase => q + EvacSize < copies[c].hdr.writePos
  PROVE  Log(H2, D2, L, st, sn)
<1>1. Lap(H, D) /\ \A c \in Usable : LogOf(copies[c].hdr, copies[c].dir, H, D, L)
  BY DEF Log
<1>2. Lap(H2, D2)
  BY <1>1, LapAdvance
<1>3. \A c \in Usable : copies[c].hdr \in Header /\ copies[c].dir \in SUBSET Docs
  BY UsableParts
<1>4. ASSUME NEW c \in Usable PROVE LogOf(copies[c].hdr, copies[c].dir, H2, D2, L)
  BY <1>1, <1>2, <1>3, LogAdvance
<1>5. ASSUME st # "idle"
      PROVE  /\ LogOf(sn.hdr, sn.dir, H2, D2, L)
             /\ \A c \in Usable : Later(copies[c].hdr, sn.hdr, H2)
  <2>1. sn.hdr \in Header /\ sn.dir \in SUBSET Docs
    BY DEF Images
  <2>2. LogOf(sn.hdr, sn.dir, H, D, L) /\ \A c \in Usable : Later(copies[c].hdr, sn.hdr, H)
    BY <1>5 DEF Log
  <2>3. H.phase # sn.hdr.phase => q + EvacSize < sn.hdr.writePos
    BY <2>1, <2>2, NotRound
  <2>4. LogOf(sn.hdr, sn.dir, H2, D2, L)
    BY <1>1, <1>2, <2>1, <2>2, <2>3, LogAdvance
  <2> QED
    BY <2>2, <2>4 DEF Later, Advanced
<1> QED
  BY <1>2, <1>4, <1>5 DEF Log

LEMMA FailLog ==
  ASSUME IInv, Undisturbed, Roomy, NEW H \in Header, NEW D, NEW D2,
         Numbered(D), Numbered(D2), NEW L, NEW L2, L \subseteq L2, NEW st, NEW sn \in Images,
         NEW q \in Start .. End, Some(H, D, D2, q), Log(H, D, L, st, sn),
         \A c \in Usable : H.phase # copies[c].hdr.phase =>
           q + EvacSize < copies[c].hdr.writePos /\ H.writePos # Start
  PROVE  Log(H, D2, L2, st, sn)
<1>1. Lap(H, D) /\ \A c \in Usable : LogOf(copies[c].hdr, copies[c].dir, H, D, L)
  BY DEF Log
<1>2. Lap(H, D2)
  BY <1>1, LapFail
<1>3. \A c \in Usable : copies[c].hdr \in Header /\ copies[c].dir \in SUBSET Docs
  BY UsableParts
<1>4. ASSUME NEW c \in Usable PROVE LogOf(copies[c].hdr, copies[c].dir, H, D2, L2)
  BY <1>1, <1>3, LogFail
<1>5. ASSUME st # "idle"
      PROVE  /\ LogOf(sn.hdr, sn.dir, H, D2, L2)
             /\ \A c \in Usable : Later(copies[c].hdr, sn.hdr, H)
  <2>1. sn.hdr \in Header /\ sn.dir \in SUBSET Docs
    BY DEF Images
  <2>2. LogOf(sn.hdr, sn.dir, H, D, L) /\ \A c \in Usable : Later(copies[c].hdr, sn.hdr, H)
    BY <1>5 DEF Log
  <2>3. H.phase # sn.hdr.phase => q + EvacSize < sn.hdr.writePos /\ H.writePos # Start
    BY <2>1, <2>2, NotRound
  <2>4. LogOf(sn.hdr, sn.dir, H, D2, L2)
    BY <2>1, <2>2, <2>3, LogFail
  <2> QED
    BY <2>2, <2>4
<1> QED
  BY <1>2, <1>4, <1>5 DEF Log

LEMMA TurnLog ==
  ASSUME IInv, Undisturbed, Roomy, NEW H \in Header, NEW H2 \in Header, NEW D, NEW L,
         NEW st, NEW sn \in Images, TurnedBack(H, H2), Log(H, D, L, st, sn)
  PROVE  Log(H2, D, L, st, sn)
<1>1. Lap(H, D) /\ \A c \in Usable : LogOf(copies[c].hdr, copies[c].dir, H, D, L)
  BY DEF Log
<1>2. Lap(H2, D)
  BY <1>1, LapTurn
<1>3. \A c \in Usable : copies[c].hdr \in Header
  BY UsableParts
<1>4. ASSUME NEW c \in Usable PROVE LogOf(copies[c].hdr, copies[c].dir, H2, D, L)
  BY <1>1, <1>3, LogTurn
<1>5. ASSUME st # "idle"
      PROVE  /\ LogOf(sn.hdr, sn.dir, H2, D, L)
             /\ \A c \in Usable : Later(copies[c].hdr, sn.hdr, H2)
  <2>1. sn.hdr \in Header
    BY DEF Images
  <2>2. LogOf(sn.hdr, sn.dir, H, D, L) /\ \A c \in Usable : Later(copies[c].hdr, sn.hdr, H)
    BY <1>5 DEF Log
  <2>3. LogOf(sn.hdr, sn.dir, H2, D, L)
    BY <2>1, <2>2, LogTurn
  <2>4. ASSUME NEW c \in Usable PROVE Later(copies[c].hdr, sn.hdr, H2)
    <3>1. H.writePos > End - AggSize
      BY DEF TurnedBack
    <3>2. H.phase = copies[c].hdr.phase
      BY <1>1, <1>3, <3>1, TurnsOnce
    <3>3. H.phase = sn.hdr.phase
      BY <2>1, <2>2, <3>1, TurnsOnce
    <3> QED
      BY <2>2, <3>2, <3>3 DEF Later
  <2> QED
    BY <2>3, <2>4
<1> QED
  BY <1>2, <1>4, <1>5 DEF Log

LEMMA SameLog ==
  ASSUME NEW H \in Header, NEW H2 \in Header, NEW D, Numbered(D), NEW L,
         NEW st, NEW sn, SamePlace(H, H2), H2.sync = H.sync, Log(H, D, L, st, sn)
  PROVE  Log(H2, D, L, st, sn)
<1>1. Lap(H, D) /\ \A c \in Usable : LogOf(copies[c].hdr, copies[c].dir, H, D, L)
  BY DEF Log
<1>2. Lap(H2, D)
  BY <1>1, LapSame
<1>3. ASSUME NEW c \in Usable PROVE LogOf(copies[c].hdr, copies[c].dir, H2, D, L)
  <2>1. H2.sync = copies[c].hdr.sync \/ H2.sync = copies[c].hdr.sync + 1
    BY <1>1 DEF LogOf
  <2> QED
    BY <1>1, <2>1, LogSame
<1>4. ASSUME st # "idle"
      PROVE  /\ LogOf(sn.hdr, sn.dir, H2, D, L)
             /\ \A c \in Usable : Later(copies[c].hdr, sn.hdr, H2)
  <2>1. LogOf(sn.hdr, sn.dir, H, D, L) /\ \A c \in Usable : Later(copies[c].hdr, sn.hdr, H)
    BY <1>4 DEF Log
  <2>2. H2.sync = sn.hdr.sync \/ H2.sync = sn.hdr.sync + 1
    BY <2>1 DEF LogOf
  <2>3. LogOf(sn.hdr, sn.dir, H2, D, L)
    BY <2>1, <2>2, LogSame
  <2> QED
    BY <2>1, <2>3 DEF Later, SamePlace
<1> QED
  BY <1>2, <1>3, <1>4 DEF Log

(* A sync begins: the usable copy is of the number before.                 *)
LEMMA SyncLog ==
  ASSUME IInv, Undisturbed, NEW m, VolOK(m), Limited(m.hdr),
         NEW D, Numbered(D), NEW L, NEW sn, Log(m.hdr, D, L, "idle", sn), EntriesAt(m, D, L),
         \A c \in Usable : copies[c].hdr.sync = m.hdr.sync
  PROVE  Log(SyncStarted(m).hdr, D, L, "header", Snapshot(SyncStarted(m)))
<1> DEFINE s == SyncStarted(m)
<1>1. VolOK(s) /\ s.hdr.sync = m.hdr.sync + 1
  BY SyncStartedOK
<1>2. /\ s.hdr.writePos = m.hdr.writePos /\ s.hdr.aggPos = m.hdr.aggPos
      /\ s.hdr.phase = m.hdr.phase /\ EntriesAt(s, D, L)
  BY SyncStartedEntries
<1>3. m \in Volumes /\ m.hdr \in Header /\ s.hdr \in Header
  BY <1>1, VolumeParts DEF VolOK
<1>4. s.hdr.lastWritePos = m.hdr.lastWritePos /\ s.hdr.ser = m.hdr.ser
  BY <1>3 DEF SyncStarted, Volumes, Header
<1>5. Snapshot(s).hdr = s.hdr /\ Snapshot(s).dir = s.dir
  BY DEF Snapshot
<1> HIDE DEF s
<1>6. SamePlace(m.hdr, s.hdr)
  BY <1>2, <1>4 DEF SamePlace
<1>7. Lap(m.hdr, D) /\ \A c \in Usable : LogOf(copies[c].hdr, copies[c].dir, m.hdr, D, L)
  BY DEF Log
<1>8. Lap(s.hdr, D)
  BY <1>1, <1>3, <1>6, <1>7, LapSame
<1>9. ASSUME NEW c \in Usable PROVE LogOf(copies[c].hdr, copies[c].dir, s.hdr, D, L)
  BY <1>1, <1>6, <1>7, LogSame
<1>10. LogOf(s.hdr, s.dir, s.hdr, D, L)
  <2>1. m.hdr.sync \in Nat /\ m.hdr.sync < s.hdr.sync
    BY <1>1, <1>3, HeaderParts
  <2>2. \A b \in Blocks : D[b][1].sync <= m.hdr.sync
    BY <1>7 DEF Lap
  <2>3. Limited(s.hdr)
    BY <1>2 DEF Limited
  <2> QED
    BY <1>1, <1>2, <1>8, <2>1, <2>2, <2>3, LogSnap
<1>11. ASSUME NEW c \in Usable PROVE Later(copies[c].hdr, s.hdr, s.hdr)
  <2>1. CASE copies[c].hdr.phase = s.hdr.phase
    <3>1. Straight(copies[c].hdr, s.hdr.writePos, D)
      BY <1>9, <2>1 DEF LogOf
    <3> QED
      BY <2>1, <3>1 DEF Later, Straight
  <2>2. CASE copies[c].hdr.phase # s.hdr.phase
    BY <2>2 DEF Later
  <2> QED
    BY <2>1, <2>2
<1>12. Log(s.hdr, D, L, "header", Snapshot(s))
  BY <1>5, <1>8, <1>9, <1>10, <1>11 DEF Log
<1> QED
  BY <1>12 DEF s

(* Vol::aggWrite turns the log back only close to the end.                 *)
LEMMA AggWriteTurns ==
  ASSUME NEW m, VolOK(m), ~m.io
  PROVE  LET c == AggWrite(m) IN
           /\ c.io => c.buf # <<>>
           /\ \/ SamePlace(m.hdr, c.hdr) /\ c.hdr.sync = m.hdr.sync
              \/ TurnedBack(m.hdr, c.hdr)
<1> DEFINE c == Copied(m)
           w == Wrapped(c)
           x == Copied(w)
<1>1. /\ VolOK(c) /\ c.hdr = m.hdr /\ c.io = m.io
      /\ m.buf # <<>> => c.buf # <<>>
      /\ m.queue # <<>> /\ m.buf = <<>> /\ m.hdr.writePos + AggSize <= End => c.buf # <<>>
      /\ c.queue # <<>> => m.queue # <<>>
  BY CopiedOK
<1>2. ASSUME NEW v, VolOK(v), ~v.io
      PROVE  /\ Issued(v).io => Issued(v).buf # <<>>
             /\ SamePlace(v.hdr, Issued(v).hdr) /\ Issued(v).hdr.sync = v.hdr.sync
  <2> DEFINE u == [v EXCEPT !.hdr.aggPos = v.hdr.writePos + BufLen(v), !.io = TRUE]
  <2>1. v \in Volumes /\ v.hdr \in Header
    BY <1>2, VolumeParts DEF VolOK
  <2>2. CASE Issued(v) = v
    BY <1>2, <2>2 DEF SamePlace
  <2>3. CASE Issued(v) = u /\ v.buf # <<>>
    <3>1. /\ u.buf = v.buf /\ u.hdr.writePos = v.hdr.writePos /\ u.hdr.phase = v.hdr.phase
          /\ u.hdr.lastWritePos = v.hdr.lastWritePos /\ u.hdr.sync = v.hdr.sync
          /\ u.hdr.ser = v.hdr.ser
      BY <2>1 DEF Volumes, Header
    <3> HIDE DEF u
    <3> QED
      BY <2>3, <3>1 DEF SamePlace
  <2>4. Issued(v) = v \/ (Issued(v) = u /\ v.buf # <<>>)
    BY DEF Issued
  <2> QED
    BY <2>2, <2>3, <2>4
<1> HIDE DEF c
<1>3. CASE c.buf = <<>> /\ c.queue # <<>>
  <2>1. VolOK(w) /\ w.io = c.io
    BY <1>1, <1>3, WrappedOK
  <2>2. c \in Volumes /\ c.hdr \in Header /\ m.hdr.writePos \in Nat /\ m.hdr.phase \in BOOLEAN
    BY <1>1, VolumeParts, HeaderParts DEF VolOK
  <2>3. /\ w.hdr.writePos = Start /\ w.hdr.phase = ~c.hdr.phase
        /\ w.hdr.lastWritePos = c.hdr.lastWritePos /\ w.hdr.sync = c.hdr.sync
        /\ w.hdr.ser = c.hdr.ser
    BY <2>2 DEF Wrapped, Volumes, Header
  <2> HIDE DEF w
  <2>4. VolOK(x) /\ x.hdr = w.hdr /\ x.io = w.io
    BY <2>1, CopiedOK
  <2>5. AggWrite(m) = Issued(x)
    BY <1>3 DEF AggWrite, c, w
  <2> HIDE DEF x
  <2>6. /\ Issued(x).io => Issued(x).buf # <<>>
        /\ SamePlace(x.hdr, Issued(x).hdr) /\ Issued(x).hdr.sync = x.hdr.sync
    BY <1>1, <1>2, <2>1, <2>4
  <2>7. m.hdr.writePos > End - AggSize
    <3>1. ~(m.hdr.writePos + AggSize <= End)
      BY <1>1, <1>3
    <3> QED
      BY <2>2, <3>1
  <2>8. w.hdr.phase # m.hdr.phase
    BY <1>1, <2>2, <2>3
  <2>9. TurnedBack(m.hdr, Issued(x).hdr)
    BY <1>1, <2>3, <2>4, <2>6, <2>7, <2>8 DEF TurnedBack, SamePlace
  <2> QED
    BY <2>5, <2>6, <2>9
<1>4. CASE ~(c.buf = <<>> /\ c.queue # <<>>)
  <2>1. AggWrite(m) = Issued(c)
    BY <1>4 DEF AggWrite, c
  <2> QED
    BY <1>1, <1>2, <2>1
<1> QED
  BY <1>3, <1>4

LEMMA AggWriteLog ==
  ASSUME IInv, Undisturbed, Roomy, NEW m, VolOK(m), ~m.io, m.waiting => m.buf # <<>>,
         NEW D, Numbered(D), NEW L, NEW st, NEW sn \in Images, Log(m.hdr, D, L, st, sn)
  PROVE  /\ Log(AggWrite(m).hdr, D, L, st, sn)
         /\ AggWrite(m).io => AggWrite(m).buf # <<>>
<1> DEFINE c == AggWrite(m)
<1>1. VolOK(c)
  BY AggWriteOK
<1>2. /\ c.io => c.buf # <<>>
      /\ (SamePlace(m.hdr, c.hdr) /\ c.hdr.sync = m.hdr.sync) \/ TurnedBack(m.hdr, c.hdr)
  BY AggWriteTurns
<1>3. m.hdr \in Header /\ c.hdr \in Header
  BY <1>1, VolumeParts
<1> HIDE DEF c
<1>4. CASE SamePlace(m.hdr, c.hdr) /\ c.hdr.sync = m.hdr.sync
  BY <1>2, <1>3, <1>4, SameLog DEF c
<1>5. CASE TurnedBack(m.hdr, c.hdr)
  BY <1>2, <1>3, <1>5, TurnLog DEF c
<1> QED
  BY <1>2, <1>4, <1>5

(* The end of aggWriteDone.                                                *)
LEMMA AfterWriteLog ==
  ASSUME IInv, Undisturbed, Roomy, NEW m, VolOK(m), ~m.io, m.buf = <<>>,
         Limited(m.hdr), AfterWrite(m), m.waiting => stage = "idle",
         NEW D, Numbered(D), NEW L, Log(m.hdr, D, L, stage, snap), EntriesAt(m, D, L),
         stage = "idle" => \A c \in Usable : copies[c].hdr.sync = m.hdr.sync
  PROVE  /\ Log(vol'.hdr, D, L, stage', snap') /\ (vol'.io => vol'.buf # <<>>)
         /\ stage' \in {stage, "header"}
         /\ stage' = stage => snap' = snap \/ stage = "header"
<1> DEFINE begins == m.waiting /\ m.hdr.dirty
           s == IF begins THEN SyncStarted(m) ELSE m
           f == [s EXCEPT !.waiting = FALSE]
<1>1. VolOK(s) /\ ~s.io /\ s.buf = <<>>
  BY SyncStartedOK
<1>2. s \in Volumes /\ Room(s) /\ s.buf \in Seq(Docs)
  BY <1>1, VolumeParts DEF VolOK
<1>3. /\ vol' = AggWrite(f)
      /\ begins => stage' = "header" /\ snap' = Snapshot(s)
      /\ ~begins => UNCHANGED <<stage, snap>>
  BY DEF AfterWrite
<1>4. snap \in Images
  BY DEF IInv, TypeInv
<1>5. Log(s.hdr, D, L, stage', snap') /\ snap' \in Images
  <2>1. CASE begins
    <3>1. s = SyncStarted(m) /\ stage = "idle" /\ stage' = "header" /\ snap' = Snapshot(s)
      BY <1>3, <2>1
    <3>2. Snapshot(SyncStarted(m)) \in Images
      BY SyncStartedOK
    <3>3. Log(SyncStarted(m).hdr, D, L, "header", Snapshot(SyncStarted(m)))
      <4>1. Log(m.hdr, D, L, "idle", snap) /\ \A c \in Usable : copies[c].hdr.sync = m.hdr.sync
        BY <3>1
      <4> QED
        BY <4>1, SyncLog
    <3> HIDE DEF s
    <3> QED
      BY <3>1, <3>2, <3>3
  <2>2. CASE ~begins
    BY <1>3, <1>4, <2>2
  <2> QED
    BY <2>1, <2>2
<1> HIDE DEF s
<1>6. f \in Volumes /\ ~f.io /\ ~f.waiting /\ f.buf = s.buf /\ f.hdr = s.hdr
      /\ f.queue = s.queue /\ f.made = s.made
  BY <1>1, <1>2 DEF Volumes
<1> HIDE DEF f
<1>7. VolOK(f)
  <2>1. BufLen(f) = BufLen(s)
    BY <1>2, <1>6, BufLenIs
  <2> QED
    BY <1>2, <1>6, <2>1 DEF VolOK, Room
<1>8. Log(f.hdr, D, L, stage', snap')
  BY <1>5, <1>6
<1>9. Log(vol'.hdr, D, L, stage', snap') /\ (vol'.io => vol'.buf # <<>>)
  BY <1>3, <1>5, <1>6, <1>7, <1>8, AggWriteLog
<1> QED
  BY <1>3, <1>9

(* What a write stores.                                                    *)
LEMMA BufferSize ==
  ASSUME NEW m, VolOK(m), Placed(m), m.buf # <<>>
  PROVE  /\ m.hdr.writePos < m.hdr.writePos + BufLen(m)
         /\ m.hdr.writePos + BufLen(m) <= m.hdr.writePos + AggSize
         /\ m.hdr.writePos + BufLen(m) \in Start .. End
<1>1. /\ m.buf \in Seq(Docs) /\ BufLen(m) \in Nat /\ BufLen(m) <= AggSize
      /\ m.hdr.writePos \in Start .. End /\ m.hdr.writePos + BufLen(m) \in Start .. End
  BY VolumeParts, WriteEnds
<1>2. PICK d \in Docs : d \in ToSet(m.buf)
  <2>1. 1 \in DOMAIN m.buf /\ m.buf[1] \in Docs
    BY <1>1
  <2> QED
    BY <2>1 DEF ToSet
<1> DEFINE w == m.hdr.writePos
           n == m.hdr.writePos + BufLen(m)
<1>3. w <= d.pos /\ d.pos + d.len <= n /\ d.pos \in Nat /\ d.len \in Nat /\ d.len >= 1
  BY <1>2, DocParts DEF Placed, Paved
<1>4. w \in Int /\ n \in Int /\ n <= w + AggSize
  BY <1>1
<1> HIDE DEF w, n
<1>5. w < n
  BY <1>3, <1>4
<1> QED
  BY <1>1, <1>4, <1>5 DEF w, n

LEMMA StoredAll ==
  ASSUME NEW m, VolOK(m), Placed(m), m.buf # <<>>, NEW q, q = m.hdr.writePos + BufLen(m)
  PROVE  All(m.hdr, disk, Stored(ToSet(m.buf), Blocks), q)
<1> DEFINE ds == ToSet(m.buf)
           D2 == Stored(ds, Blocks)
<1>1. ds \in SUBSET Docs /\ m.hdr.writePos \in Nat /\ BufLen(m) \in Nat
  BY VolumeParts, BufferedDocs, HeaderParts
<1>2. PICK p \in Nat : p = m.hdr.writePos
  BY <1>1
<1>3. p < q /\ q <= p + AggSize /\ q \in Start .. End
  BY <1>2, BufferSize
<1>4. Paved(ds, p, q) /\ Stamped(ds, m.hdr)
  BY <1>2 DEF Placed
<1> HIDE DEF ds
<1>5. \A d \in ds : \A b \in BlocksOf(d) : D2[b] = <<d, b - d.pos>>
  BY <1>1, <1>4, StoredWhole
<1>6. ASSUME NEW b \in Blocks, b < p \/ b >= q PROVE D2[b] = disk[b]
  <2>1. ASSUME NEW d \in ds, b \in BlocksOf(d) PROVE FALSE
    <3>1. p <= d.pos /\ d.pos + d.len <= q /\ d.pos \in Nat /\ d.len \in Nat
      BY <1>1, <1>4, DocParts DEF Paved
    <3>2. d.pos <= b /\ b < d.pos + d.len /\ b \in Nat
      BY <1>1, <2>1, BlockPlaces
    <3> QED
      BY <1>3, <1>6, <3>1, <3>2
  <2> QED
    BY <2>1, StoredElsewhere
<1> HIDE DEF D2
<1>7. ASSUME NEW b \in p .. (q - 1)
      PROVE  \E d \in ds : b \in BlocksOf(d) /\ D2[b][1] = d
  <2>1. PICK d \in ds : b \in BlocksOf(d)
    BY <1>4 DEF Paved
  <2>2. D2[b] = <<d, b - d.pos>>
    BY <1>5, <2>1
  <2> QED
    BY <2>1, <2>2
<1>8. Whole(D2, p, q)
  <2> SUFFICES ASSUME NEW b \in p .. (q - 1), NEW d, d = D2[b][1]
               PROVE  /\ d \in Docs /\ b \in BlocksOf(d) /\ p <= d.pos /\ d.pos + d.len <= q
                      /\ \A x \in BlocksOf(d) : D2[x] = <<d, x - d.pos>>
    BY DEF Whole
  <2>1. d \in ds /\ b \in BlocksOf(d)
    BY <1>7
  <2> QED
    BY <1>1, <1>4, <1>5, <2>1 DEF Paved
<1>9. \A b \in p .. (q - 1) : D2[b][1].sync = m.hdr.sync /\ D2[b][1].ser = m.hdr.ser
  BY <1>4, <1>7 DEF Stamped
<1>10. All(m.hdr, disk, D2, q)
  BY <1>2, <1>3, <1>6, <1>8, <1>9 DEF All, Agree
<1> QED
  BY <1>10 DEF D2, ds

LEMMA StoredPart ==
  ASSUME NEW m, VolOK(m), Placed(m), m.buf # <<>>, NEW q, q = m.hdr.writePos + BufLen(m), NEW S
  PROVE  Some(m.hdr, disk, Stored(ToSet(m.buf), S), q)
<1> DEFINE ds == ToSet(m.buf)
           D2 == Stored(ds, S)
<1>1. ds \in SUBSET Docs /\ m.hdr.writePos \in Nat /\ BufLen(m) \in Nat
      /\ m.hdr.writePos + BufLen(m) <= End /\ Start <= m.hdr.writePos
  BY VolumeParts, BufferedDocs, HeaderParts
<1>2. PICK p \in Nat : p = m.hdr.writePos
  BY <1>1
<1>3. p < q /\ q <= p + AggSize /\ q \in Start .. End
  BY <1>2, BufferSize
<1>4. Paved(ds, p, q) /\ Stamped(ds, m.hdr)
  BY <1>2 DEF Placed
<1> HIDE DEF ds
<1>5. \A b \in Blocks : D2[b] = disk[b] \/ D2[b][1] \in ds
  BY StoredSome
<1>6. ASSUME NEW b \in Blocks, b < p \/ b >= q PROVE D2[b] = disk[b]
  <2>1. ASSUME NEW d \in ds, b \in BlocksOf(d) PROVE FALSE
    <3>1. p <= d.pos /\ d.pos + d.len <= q /\ d.pos \in Nat /\ d.len \in Nat
      BY <1>1, <1>4, DocParts DEF Paved
    <3>2. d.pos <= b /\ b < d.pos + d.len /\ b \in Nat
      BY <1>1, <2>1, BlockPlaces
    <3> QED
      BY <1>3, <1>6, <3>1, <3>2
  <2> QED
    BY <2>1, StoredElsewhere
<1> HIDE DEF D2
<1>7. ASSUME NEW b \in p .. (q - 1)
      PROVE  \/ D2[b] = disk[b]
             \/ /\ D2[b][1].sync = m.hdr.sync /\ D2[b][1].ser = m.hdr.ser
                /\ D2[b][1].pos + D2[b][1].len <= q
  <2>1. b \in Blocks
    <3>1. Start <= p /\ q <= End /\ Start \in Nat /\ End \in Nat /\ q \in Int
      BY <1>1, <1>2, <1>3
    <3> QED
      BY <3>1 DEF Blocks
  <2> QED
    BY <1>4, <1>5, <2>1 DEF Paved, Stamped
<1>8. Some(m.hdr, disk, D2, q)
  BY <1>2, <1>3, <1>6, <1>7 DEF Some, Agree
<1> QED
  BY <1>8 DEF D2, ds

-----------------------------------------------------------------------------
(* The log before the first crash, step by step.                           *)

(* A step that leaves the copies of the directory.                         *)
LEMMA LogStep ==
  ASSUME LogNow, UNCHANGED copies, vol'.io => vol'.buf # <<>>,
         Log(vol'.hdr, disk', lost', stage', snap'),
         stage' = "footer" => stage = "footer" /\ snap' = snap
  PROVE  LogNow'
<1>1. Usable' = Usable
  BY DEF Usable, Good
<1>2. /\ Lap(vol'.hdr, disk')
      /\ \A c \in Usable' : LogOf(copies'[c].hdr, copies'[c].dir, vol'.hdr, disk', lost')
      /\ stage' # "idle" => /\ LogOf(snap'.hdr, snap'.dir, vol'.hdr, disk', lost')
                            /\ \A c \in Usable' : Later(copies'[c].hdr, snap'.hdr, vol'.hdr)
  BY <1>1 DEF Log
<1>3. \A c \in Usable' : copies'[c].hdr.sync = 0 => copies'[c].dir = {}
  BY <1>1 DEF LogNow
<1>4. stage' = "footer" => copies'[Target'].dir = snap'.dir
  BY DEF LogNow, Target
<1> QED
  BY <1>2, <1>3, <1>4 DEF LogNow, Log

LEMMA DiskNumbered ==
  ASSUME IInv
  PROVE  Numbered(disk)
BY NumberedIs DEF IInv, TypeInv, DiskOK

LEMMA Quiet ==
  ASSUME seen = {}
  PROVE  Undisturbed /\ Plain
BY DEF Undisturbed, Plain

LEMMA InsertLog ==
  ASSUME IInv, LogNow, NEW d \in vol.pend, Insert(d)
  PROVE  LogNow'
<1>1. VolOK(vol) /\ UNCHANGED <<disk, copies, stage, snap, lost>>
  BY DEF IInv, TypeInv, Insert
<1>2. vol \in Volumes /\ vol.hdr \in Header
  BY <1>1, VolumeParts DEF VolOK
<1>3. vol' = [vol EXCEPT !.pend = @ \ {d}, !.dir = @ \cup {d}, !.hdr.dirty = TRUE]
  BY DEF Insert
<1>4. /\ vol'.buf = vol.buf /\ vol'.io = vol.io
      /\ vol'.hdr = [vol.hdr EXCEPT !.dirty = TRUE]
  BY <1>2, <1>3 DEF Volumes
<1>5. /\ vol'.hdr \in Header /\ vol'.hdr.writePos = vol.hdr.writePos
      /\ vol'.hdr.phase = vol.hdr.phase /\ vol'.hdr.lastWritePos = vol.hdr.lastWritePos
      /\ vol'.hdr.sync = vol.hdr.sync /\ vol'.hdr.ser = vol.hdr.ser
  BY <1>2, <1>4 DEF Header
<1>6. Log(vol.hdr, disk, lost, stage, snap) /\ (vol.io => vol.buf # <<>>)
  BY DEF LogNow
<1>7. Log(vol'.hdr, disk, lost, stage, snap)
  <2>1. SamePlace(vol.hdr, vol'.hdr) /\ Numbered(disk)
    BY <1>5, DiskNumbered DEF SamePlace
  <2> QED
    BY <1>2, <1>5, <1>6, <2>1, SameLog
<1> QED
  BY <1>1, <1>4, <1>6, <1>7, LogStep

LEMMA WriteLog ==
  ASSUME IInv, LogNow, Roomy, seen = {}, NEW l \in Lengths, Write(l)
  PROVE  LogNow'
<1> DEFINE m == [vol EXCEPT !.queue = Append(@, l)]
<1>1. VolOK(vol) /\ mode = "up" /\ vol.made + Len(vol.queue) < MaxDocs
      /\ UNCHANGED <<disk, copies, stage, snap, lost>> /\ snap \in Images
  BY DEF IInv, TypeInv, Write
<1>2. /\ vol \in Volumes /\ vol.queue \in Seq(Lengths) /\ vol.buf \in Seq(Docs)
      /\ vol.made \in 0 .. MaxDocs /\ Len(vol.queue) \in Nat
      /\ vol.io \in BOOLEAN /\ vol.waiting \in BOOLEAN
  BY <1>1, VolumeParts DEF VolOK
<1>3. Append(vol.queue, l) \in Seq(Lengths) /\ Len(Append(vol.queue, l)) = Len(vol.queue) + 1
  BY <1>2, AppendProperties
<1>4. m \in Volumes
  BY <1>2, <1>3 DEF Volumes
<1>5. /\ m.hdr = vol.hdr /\ m.buf = vol.buf /\ m.io = vol.io /\ m.waiting = vol.waiting
      /\ m.made = vol.made /\ m.queue = Append(vol.queue, l)
  BY <1>2 DEF Volumes
<1>6. vol' = IF vol.io THEN m ELSE AggWrite(m)
  BY DEF Write
<1> HIDE DEF m
<1>7. Log(vol.hdr, disk, lost, stage, snap) /\ (vol.io => vol.buf # <<>>)
  BY DEF LogNow
<1>8. Log(vol'.hdr, disk, lost, stage, snap) /\ (vol'.io => vol'.buf # <<>>)
  <2>1. CASE vol.io
    BY <1>5, <1>6, <1>7, <2>1
  <2>2. CASE ~vol.io
    <3>1. ~m.waiting /\ ~m.io /\ vol' = AggWrite(m)
      BY <1>1, <1>5, <1>6, <2>2 DEF IInv, NothingForgotten
    <3>2. VolOK(m)
      <4>1. BufLen(m) = BufLen(vol)
        BY <1>2, <1>5, BufLenIs
      <4>2. m.made + Len(m.queue) <= MaxDocs
        BY <1>1, <1>2, <1>3, <1>5
      <4> QED
        BY <1>1, <1>4, <1>5, <4>1, <4>2 DEF VolOK, Room
    <3>3. Log(m.hdr, disk, lost, stage, snap)
      BY <1>5, <1>7
    <3> QED
      BY <1>1, <3>1, <3>2, <3>3, Quiet, DiskNumbered, AggWriteLog
  <2> QED
    BY <2>1, <2>2
<1> QED
  BY <1>1, <1>8, LogStep

(* What a write may not come close to, if the history is not to mark it.   *)
LEMMA NoRounds ==
  ASSUME IInv, Undisturbed, Rounds = {}, NEW q, q = vol.hdr.writePos + BufLen(vol), q \in Int
  PROVE  \A c \in Usable : vol.hdr.phase # copies[c].hdr.phase => q + EvacSize < copies[c].hdr.writePos
<1> SUFFICES ASSUME NEW c \in Usable, vol.hdr.phase # copies[c].hdr.phase
             PROVE  q + EvacSize < copies[c].hdr.writePos
  OBVIOUS
<1>1. ~(q + EvacSize >= copies[c].hdr.writePos)
  BY DEF Rounds, TurnedSinceCopy
<1>2. copies[c].hdr.writePos \in Int /\ EvacSize \in Int
  BY UsableParts, HeaderParts DEF EvacSize
<1> QED
  BY <1>1, <1>2

LEMMA NotTorn ==
  ASSUME TornTurns = {}, vol.io
  PROVE  \A c \in Usable : vol.hdr.phase # copies[c].hdr.phase => vol.hdr.writePos # Start
BY DEF TornTurns, TurnedSinceCopy

LEMMA WriteDoneLog ==
  ASSUME IInv, IInv', EntriesOK, LogNow, Roomy, seen = {}, seen' = {}, WriteDone
  PROVE  LogNow'
<1>1. /\ VolOK(vol) /\ mode = "up" /\ vol.io /\ UNCHANGED <<copies, lost>>
      /\ disk' = Stored(ToSet(vol.buf), Blocks) /\ snap \in Images
  BY DEF IInv, TypeInv, WriteDone
<1>2. Undisturbed /\ Plain /\ Rounds = {}
  BY Quiet DEF WriteDone
<1>3. PICK m : /\ VolOK(m) /\ ~m.io /\ m.buf = <<>> /\ m.waiting = vol.waiting
               /\ Limited(m.hdr) /\ AfterWrite(m)
               /\ m.hdr.writePos = vol.hdr.writePos + BufLen(vol)
               /\ m.hdr.lastWritePos = vol.hdr.writePos /\ m.hdr.phase = vol.hdr.phase
               /\ m.hdr.sync = vol.hdr.sync /\ m.hdr.ser = vol.hdr.ser + 1
               /\ EntriesAt(m, disk', lost')
  BY <1>2, WriteDoneFirst
<1>4. Log(vol.hdr, disk, lost, stage, snap) /\ vol.buf # <<>>
  BY <1>1 DEF LogNow
<1>5. Placed(vol)
  BY DEF EntriesOK
<1>6. PICK q \in Start .. End : q = vol.hdr.writePos + BufLen(vol)
  BY <1>1, <1>4, <1>5, BufferSize
<1>7. All(vol.hdr, disk, disk', q)
  BY <1>1, <1>4, <1>5, <1>6, StoredAll
<1>8. Advanced(vol.hdr, m.hdr, q)
  BY <1>3, <1>6 DEF Advanced
<1>9. Numbered(disk) /\ Numbered(disk')
  BY DiskNumbered, NumberedIs DEF IInv, TypeInv, DiskOK
<1>10. \A c \in Usable : vol.hdr.phase # copies[c].hdr.phase => q + EvacSize < copies[c].hdr.writePos
  BY <1>2, <1>6, NoRounds
<1>11. vol.hdr \in Header /\ m.hdr \in Header
  BY <1>1, <1>3, VolumeParts
<1>12. Log(m.hdr, disk', lost, stage, snap)
  BY <1>1, <1>2, <1>4, <1>7, <1>8, <1>9, <1>10, <1>11, AdvanceLog
<1>13. stage = "idle" => \A c \in Usable : copies[c].hdr.sync = m.hdr.sync
  BY <1>1, <1>2, <1>3, UsableParts
<1>14. m.waiting => stage = "idle"
  BY <1>1, <1>3 DEF IInv, ModeInv
<1>15. /\ Log(vol'.hdr, disk', lost, stage', snap') /\ (vol'.io => vol'.buf # <<>>)
       /\ stage' \in {stage, "header"}
       /\ stage' = stage => snap' = snap \/ stage = "header"
  BY <1>1, <1>2, <1>3, <1>9, <1>12, <1>13, <1>14, AfterWriteLog
<1>16. stage' = "footer" => stage = "footer" /\ snap' = snap
  BY <1>15
<1> QED
  BY <1>1, <1>15, <1>16, LogStep

LEMMA WriteFailLog ==
  ASSUME IInv, IInv', EntriesOK, LogNow, Roomy, seen = {}, seen' = {}, WriteFail
  PROVE  LogNow'
<1>1. /\ VolOK(vol) /\ mode = "up" /\ vol.io /\ UNCHANGED copies /\ lost \subseteq lost'
      /\ snap \in Images
  BY DEF IInv, TypeInv, WriteFail
<1>2. Undisturbed /\ Plain /\ Rounds = {} /\ TornTurns = {}
  BY Quiet DEF WriteFail
<1>3. PICK m : /\ VolOK(m) /\ ~m.io /\ m.buf = <<>> /\ m.waiting = vol.waiting
               /\ m.hdr = vol.hdr /\ Limited(m.hdr) /\ AfterWrite(m)
               /\ EntriesAt(m, disk', lost')
  BY <1>2, WriteFailFirst
<1>4. Log(vol.hdr, disk, lost, stage, snap) /\ vol.buf # <<>>
  BY <1>1 DEF LogNow
<1>5. Placed(vol)
  BY DEF EntriesOK
<1>6. PICK q \in Start .. End : q = vol.hdr.writePos + BufLen(vol)
  BY <1>1, <1>4, <1>5, BufferSize
<1>7. PICK S : disk' = Stored(ToSet(vol.buf), S)
  BY DEF WriteFail
<1>8. Some(vol.hdr, disk, disk', q)
  BY <1>1, <1>4, <1>5, <1>6, <1>7, StoredPart
<1>9. Numbered(disk) /\ Numbered(disk')
  BY DiskNumbered, NumberedIs DEF IInv, TypeInv, DiskOK
<1>10. \A c \in Usable : vol.hdr.phase # copies[c].hdr.phase =>
         q + EvacSize < copies[c].hdr.writePos /\ vol.hdr.writePos # Start
  BY <1>1, <1>2, <1>6, NoRounds, NotTorn
<1>11. vol.hdr \in Header /\ m.hdr \in Header
  BY <1>1, <1>3, VolumeParts
<1>12. Log(vol.hdr, disk', lost', stage, snap)
  BY <1>1, <1>2, <1>4, <1>8, <1>9, <1>10, <1>11, FailLog
<1>13. stage = "idle" => \A c \in Usable : copies[c].hdr.sync = m.hdr.sync
  BY <1>1, <1>2, <1>3, UsableParts
<1>14. m.waiting => stage = "idle"
  BY <1>1, <1>3 DEF IInv, ModeInv
<1>15. Log(m.hdr, disk', lost', stage, snap)
  BY <1>3, <1>12
<1>16. /\ Log(vol'.hdr, disk', lost', stage', snap') /\ (vol'.io => vol'.buf # <<>>)
       /\ stage' \in {stage, "header"}
       /\ stage' = stage => snap' = snap \/ stage = "header"
  BY <1>2, <1>3, <1>9, <1>13, <1>14, <1>15, AfterWriteLog
<1>17. stage' = "footer" => stage = "footer" /\ snap' = snap
  BY <1>16
<1> QED
  BY <1>1, <1>16, <1>17, LogStep

LEMMA SyncEventLog ==
  ASSUME IInv, EntriesOK, LogNow, Roomy, seen = {}, SyncEvent
  PROVE  LogNow'
<1>1. VolOK(vol) /\ mode = "up" /\ stage = "idle" /\ UNCHANGED <<disk, copies, lost>>
      /\ snap \in Images
  BY DEF IInv, TypeInv, SyncEvent
<1>2. Undisturbed /\ Plain /\ Numbered(disk)
  BY Quiet, DiskNumbered
<1>3. Log(vol.hdr, disk, lost, stage, snap) /\ (vol.io => vol.buf # <<>>)
  BY DEF LogNow
<1>4. vol \in Volumes /\ vol.buf \in Seq(Docs) /\ Room(vol)
  BY <1>1, VolumeParts DEF VolOK
<1>5. CASE vol.io \/ vol.buf # <<>>
  <2> DEFINE m == [vol EXCEPT !.waiting = TRUE]
  <2>1. vol' = (IF vol.io THEN m ELSE AggWrite(m)) /\ UNCHANGED <<stage, snap>>
    BY <1>5 DEF SyncEvent
  <2>2. /\ m \in Volumes /\ m.hdr = vol.hdr /\ m.buf = vol.buf /\ m.io = vol.io
        /\ m.made = vol.made /\ m.queue = vol.queue
    BY <1>4 DEF Volumes
  <2> HIDE DEF m
  <2>3. Log(vol'.hdr, disk, lost, stage, snap) /\ (vol'.io => vol'.buf # <<>>)
    <3>1. CASE vol.io
      BY <1>3, <2>1, <2>2, <3>1
    <3>2. CASE ~vol.io
      <4>1. ~m.io /\ m.buf # <<>> /\ vol' = AggWrite(m)
        BY <1>5, <2>1, <2>2, <3>2
      <4>2. BufLen(m) = BufLen(vol)
        BY <1>4, <2>2, BufLenIs
      <4>3. VolOK(m)
        BY <1>4, <2>2, <4>2 DEF VolOK, Room
      <4>4. Log(m.hdr, disk, lost, stage, snap)
        BY <1>3, <2>2
      <4> QED
        BY <1>1, <1>2, <4>1, <4>3, <4>4, AggWriteLog
    <3> QED
      BY <3>1, <3>2
  <2> QED
    BY <1>1, <2>1, <2>3, LogStep
<1>6. CASE ~(vol.io \/ vol.buf # <<>>)
  <2>1. vol' = SyncStarted(vol) /\ stage' = "header" /\ snap' = Snapshot(SyncStarted(vol))
    BY <1>6 DEF SyncEvent
  <2>2. ~vol'.io
    BY <1>1, <1>6, <2>1, SyncStartedOK
  <2>3. Limited(vol.hdr) /\ EntriesAt(vol, disk, lost)
    BY <1>2 DEF EntriesOK, Limits
  <2>4. \A c \in Usable : copies[c].hdr.sync = vol.hdr.sync
    BY <1>1, <1>2, UsableParts
  <2>5. Log(SyncStarted(vol).hdr, disk, lost, "header", Snapshot(SyncStarted(vol)))
    BY <1>1, <1>2, <1>3, <2>3, <2>4, SyncLog
  <2> QED
    BY <1>1, <2>1, <2>2, <2>5, LogStep
<1> QED
  BY <1>5, <1>6

(* The header and the directory of the next copy are stored: the usable one*)
(* is as before.                                                           *)
LEMMA StoreLog ==
  ASSUME IInv, Undisturbed, LogNow, UNCHANGED <<vol, disk, snap, lost>>,
         copies' \in [{0, 1} -> Copies], NEW c \in {0, 1}, Usable = {c}, Base(c),
         copies'[c] = copies[c], copies'[1 - c].foot = copies[1 - c].foot,
         stage # "idle", stage' # "idle",
         stage' = "footer" => copies'[Target].dir = snap.dir
  PROVE  LogNow'
<1>1. UsableIn(copies') = {c}
  <2>1. copies'[c].hdr.sync = copies'[c].foot /\ copies'[1 - c].foot <= copies'[c].hdr.sync
    BY DEF Base, Good
  <2>2. c = 1 => copies'[0].foot # copies'[1].hdr.sync
    BY DEF Base
  <2> QED
    BY <2>1, <2>2, WhichUsable
<1>2. Usable' = {c}
  BY <1>1 DEF Usable, UsableIn, Good
<1>3. /\ Lap(vol'.hdr, disk')
      /\ \A x \in Usable' : LogOf(copies'[x].hdr, copies'[x].dir, vol'.hdr, disk', lost')
      /\ LogOf(snap'.hdr, snap'.dir, vol'.hdr, disk', lost')
      /\ \A x \in Usable' : Later(copies'[x].hdr, snap'.hdr, vol'.hdr)
  BY <1>2 DEF LogNow, Log
<1>4. \A x \in Usable' : copies'[x].hdr.sync = 0 => copies'[x].dir = {}
  BY <1>2 DEF LogNow
<1>5. stage' = "footer" => copies'[Target'].dir = snap'.dir
  BY DEF Target
<1>6. vol'.io => vol'.buf # <<>>
  BY DEF LogNow
<1> QED
  BY <1>3, <1>4, <1>5, <1>6 DEF LogNow, Log

LEMMA StoreHeaderLog ==
  ASSUME IInv, IInv', LogNow, seen = {}, mode = "up", StoreHeader
  PROVE  LogNow'
<1>1. PICK c \in {0, 1} : Usable = {c} /\ Base(c) /\ Writes(c)
  BY Quiet, UsableIs
<1>2. /\ stage = "header" /\ stage' = "body" /\ UNCHANGED <<vol, disk, snap, lost>>
      /\ copies' = [copies EXCEPT ![Target].hdr = snap.hdr, ![Target].whole = FALSE]
  BY DEF StoreHeader
<1>3. copies \in [{0, 1} -> Copies] /\ copies' \in [{0, 1} -> Copies]
  BY DEF IInv, TypeInv
<1>4. Target = 1 - c
  BY <1>1, <1>2 DEF Writes, Target
<1>5. copies'[c] = copies[c] /\ copies'[1 - c].foot = copies[1 - c].foot
  BY <1>2, <1>3, <1>4 DEF Copies
<1> QED
  BY <1>1, <1>2, <1>3, <1>5, Quiet, StoreLog

LEMMA StoreBodyLog ==
  ASSUME IInv, IInv', LogNow, seen = {}, mode = "up", StoreBody
  PROVE  LogNow'
<1>1. PICK c \in {0, 1} : Usable = {c} /\ Base(c) /\ Writes(c)
  BY Quiet, UsableIs
<1>2. /\ stage = "body" /\ stage' = "footer" /\ UNCHANGED <<vol, disk, snap, lost>>
      /\ copies' = [copies EXCEPT ![Target].dir = snap.dir, ![Target].whole = TRUE]
  BY DEF StoreBody
<1>3. copies \in [{0, 1} -> Copies] /\ copies' \in [{0, 1} -> Copies]
  BY DEF IInv, TypeInv
<1>4. Target = 1 - c
  BY <1>1, <1>2 DEF Writes, Target
<1>5. /\ copies'[c] = copies[c] /\ copies'[1 - c].foot = copies[1 - c].foot
      /\ copies'[1 - c].dir = snap.dir
  BY <1>2, <1>3, <1>4 DEF Copies
<1> QED
  BY <1>1, <1>2, <1>3, <1>4, <1>5, Quiet, StoreLog

(* The footer is stored: the next copy is the usable one.                  *)
LEMMA StoreFooterLog ==
  ASSUME IInv, IInv', LogNow, seen = {}, mode = "up", StoreFooter
  PROVE  LogNow'
<1>1. PICK c \in {0, 1} : Usable = {c} /\ Base(c) /\ Writes(c)
  BY Quiet, UsableIs
<1>2. /\ stage = "footer" /\ stage' = "idle" /\ UNCHANGED <<vol, disk, lost>>
      /\ copies' = [copies EXCEPT ![Target].foot = snap.hdr.sync]
  BY DEF StoreFooter
<1>3. copies \in [{0, 1} -> Copies] /\ copies' \in [{0, 1} -> Copies] /\ snap.hdr \in Header
  BY DEF IInv, TypeInv, Images
<1>4. /\ snap.hdr.sync > copies[c].hdr.sync /\ snap.hdr.sync % 2 = 1 - c
      /\ copies[1 - c].hdr = snap.hdr /\ snap.hdr.sync \in Nat /\ copies[c].hdr.sync \in Nat
  BY <1>1, <1>2, <1>3, HeaderParts, CopyParts DEF Writes
<1>5. PICK n \in {0, 1} : n = 1 - c /\ n # c /\ 1 - n = c
  OBVIOUS
<1>6. Target = n /\ copies[n].dir = snap.dir
  BY <1>2, <1>4, <1>5 DEF Target, LogNow
<1>7. /\ copies'[c] = copies[c] /\ copies'[n].foot = snap.hdr.sync
      /\ copies'[n].hdr = snap.hdr /\ copies'[n].dir = snap.dir
  BY <1>2, <1>3, <1>4, <1>5, <1>6 DEF Copies
<1>8. copies[c].foot = copies[c].hdr.sync
  BY <1>1 DEF Base, Good
<1>9. UsableIn(copies') = {n}
  <2>1. copies'[n].hdr.sync = copies'[n].foot /\ copies'[1 - n].foot <= copies'[n].hdr.sync
    BY <1>4, <1>5, <1>7, <1>8
  <2>2. n = 1 => copies'[0].foot # copies'[1].hdr.sync
    BY <1>4, <1>5, <1>7, <1>8
  <2> QED
    BY <1>3, <2>1, <2>2, WhichUsable
<1>10. Usable' = {n}
  BY <1>9 DEF Usable, UsableIn, Good
<1>11. /\ Lap(vol'.hdr, disk')
       /\ \A x \in Usable' : LogOf(copies'[x].hdr, copies'[x].dir, vol'.hdr, disk', lost')
  BY <1>2, <1>7, <1>10 DEF LogNow, Log
<1>12. \A x \in Usable' : copies'[x].hdr.sync = 0 => copies'[x].dir = {}
  BY <1>4, <1>7, <1>10, SMTT(20)
<1>13. vol'.io => vol'.buf # <<>>
  BY <1>2 DEF LogNow
<1> QED
  BY <1>2, <1>11, <1>12, <1>13 DEF LogNow, Log

-----------------------------------------------------------------------------
(* The crash.                                                              *)

LEMMA LogLeft ==
  ASSUME NEW h, NEW ds, NEW H \in Header, NEW D, NEW L, LogOf(h, ds, H, D, L),
         h.sync = 0 => ds = {}
  PROVE  Left(h, ds, D, L)
<1>1. H.writePos \in Start .. End
  BY HeaderParts
<1>2. CASE H.phase = h.phase
  BY <1>1, <1>2 DEF LogOf, Left
<1>3. CASE H.phase # h.phase /\ H.writePos = Start
  BY <1>3 DEF LogOf, Left
<1>4. CASE H.phase # h.phase /\ H.writePos # Start
  BY <1>1, <1>4 DEF LogOf, Left
<1> QED
  BY <1>2, <1>3, <1>4

LEMMA CrashLeft ==
  ASSUME IInv, IInv', EntriesOK, LogNow, Roomy, seen = {}, seen' = {}, mode = "up", Crash
  PROVE  \A c \in Usable' : Left(copies'[c].hdr, copies'[c].dir, disk', lost')
<1>1. VolOK(vol) /\ UNCHANGED lost /\ snap \in Images
  BY DEF IInv, TypeInv, Crash
<1>2. UNCHANGED copies
  <2>1. stage # "clear A"
    BY DEF IInv, ModeInv
  <2> QED
    BY <2>1 DEF Crash
<1>3. Undisturbed /\ Rounds = {} /\ TornTurns = {}
  BY Quiet DEF Crash
<1>4. Log(vol.hdr, disk, lost, stage, snap)
  BY DEF LogNow
<1>5. vol.hdr \in Header
  BY <1>1, VolumeParts
<1>6. Log(vol.hdr, disk', lost, stage, snap)
  <2>1. CASE vol.io
    <3>1. PICK S : disk' = Stored(ToSet(vol.buf), S)
      BY <2>1 DEF Crash
    <3>2. vol.buf # <<>> /\ Placed(vol)
      BY <2>1 DEF LogNow, EntriesOK
    <3>3. PICK q \in Start .. End : q = vol.hdr.writePos + BufLen(vol)
      BY <1>1, <3>2, BufferSize
    <3>4. Some(vol.hdr, disk, disk', q)
      BY <1>1, <3>1, <3>2, <3>3, StoredPart
    <3>5. Numbered(disk) /\ Numbered(disk')
      BY DiskNumbered, NumberedIs DEF IInv, TypeInv, DiskOK
    <3>6. \A c \in Usable : vol.hdr.phase # copies[c].hdr.phase =>
            q + EvacSize < copies[c].hdr.writePos /\ vol.hdr.writePos # Start
      BY <1>3, <2>1, <3>3, NoRounds, NotTorn
    <3> QED
      BY <1>1, <1>3, <1>4, <1>5, <3>4, <3>5, <3>6, FailLog
  <2>2. CASE ~vol.io
    <3>1. PICK S : disk' = Stored({}, S)
      BY <2>2 DEF Crash
    <3>2. disk = [b \in Blocks |-> disk[b]]
      BY DEF IInv, TypeInv, DiskOK, IsMap
    <3>3. disk' = disk
      BY <3>1, <3>2 DEF Stored
    <3> QED
      BY <1>4, <3>3
  <2> QED
    BY <2>1, <2>2
<1>7. Usable' = Usable
  BY <1>2 DEF Usable, Good
<1> SUFFICES ASSUME NEW c \in Usable
             PROVE  Left(copies[c].hdr, copies[c].dir, disk', lost)
  BY <1>1, <1>2, <1>7
<1>8. LogOf(copies[c].hdr, copies[c].dir, vol.hdr, disk', lost)
  BY <1>6 DEF Log
<1>9. copies[c].hdr.sync = 0 => copies[c].dir = {}
  BY DEF LogNow
<1> QED
  BY <1>5, <1>8, <1>9, LogLeft

-----------------------------------------------------------------------------
(* The invariant for the first recovery, on a history without marks: until *)
(* the crash the log is in order since the copies of the directory, the    *)
(* crash leaves what a recovery needs, and after it the entries are as     *)
(* before.                                                                 *)

RecoveryInv ==
  /\ crashes = 0 /\ seen = {} => LogNow
  /\ crashes = 1 /\ mode = "down" /\ seen = {} =>
       \A c \in Usable : Left(copies[c].hdr, copies[c].dir, disk, lost)
  /\ crashes = 1 /\ mode \in {"up", "storing"} /\ seen = {} => EntriesOK

LEMMA InitRecovery == Init => RecoveryInv
<1> SUFFICES ASSUME Init PROVE LogNow
  BY DEF Init, RecoveryInv
<1>1. IInv /\ Undisturbed
  BY InitIInv, Quiet DEF Init
<1>2. /\ vol = Started(ClearedHeader, {}, 0) /\ disk = [b \in Blocks |-> Blank] /\ stage = "idle"
      /\ copies = [c \in {0, 1} |-> [hdr |-> ClearedHeader, dir |-> {}, foot |-> 0, whole |-> TRUE]]
  BY DEF Init
<1>3. vol.hdr = ClearedHeader /\ ~vol.io
  BY <1>2 DEF Started
<1>4. PICK h \in Header : h = ClearedHeader
  BY ClearedOK
<1>5. /\ h.writePos = Start /\ h.lastWritePos = Start /\ h.aggPos = Start /\ h.sync = 0 /\ h.ser = 0
  BY <1>4 DEF ClearedHeader
<1>6. \A c \in Usable : copies[c].hdr = h /\ copies[c].dir = {}
  <2>1. \A c \in {0, 1} : copies[c].hdr = h /\ copies[c].dir = {}
    BY <1>2, <1>4
  <2> QED
    BY <2>1 DEF Usable
<1>7. Start \in Nat /\ End \in Nat /\ AggSize \in Nat
  BY <1>4, HeaderParts
<1>8. /\ Whole(disk, Start, Start) /\ Ordered(disk, Start, Start) /\ Start .. (Start - 1) = {}
      /\ Start <= Start /\ Start <= Start + AggSize
  BY <1>7, WholeNone
<1>9. ASSUME NEW b \in Blocks
      PROVE  disk[b][1].sync = 0 /\ disk[b][1].ser = 0 /\ disk[b][1].pos = 0 /\ disk[b][1].len = 0
  BY <1>2 DEF Blank, NoDoc
<1>10. \A b \in Start .. (End - 1) : b \in Blocks
  BY DEF Blocks
<1>11. LastWrite(h, disk)
  BY <1>5, <1>8 DEF LastWrite
<1>12. Lap(h, disk)
  BY <1>5, <1>8, <1>9, <1>10, <1>11 DEF Lap
<1>13. Straight(h, Start, disk)
  <2>1. \A b \in Start .. (End - 1) :
          Since(disk[b][1], h) /\ disk[b][1].pos + disk[b][1].len <= Start + AggSize
    BY <1>5, <1>7, <1>9, <1>10 DEF Since
  <2> QED
    BY <1>5, <1>8, <1>11, <2>1 DEF Straight
<1>14. LogOf(h, {}, h, disk, lost)
  <2>1. EntriesOf(h, {}, Start, disk, lost)
    BY DEF EntriesOf
  <2> QED
    BY <1>5, <1>8, <1>13, <2>1 DEF LogOf, Limited
<1>15. Log(vol.hdr, disk, lost, stage, snap)
  BY <1>2, <1>3, <1>4, <1>6, <1>12, <1>14 DEF Log
<1> QED
  BY <1>2, <1>3, <1>6, <1>15 DEF LogNow

LEMMA SeenGrows ==
  ASSUME [Next]_vars
  PROVE  seen \subseteq seen' /\ crashes' \in {crashes, crashes + 1}
BY DEF Next, vars, Write, Insert, WriteDone, WriteFail, AfterWrite, SyncEvent, StoreHeader,
       StoreBody, StoreFooter, SyncFail, Crash, StartUp, Recover, ScanDone, ClearDir, ClearA, ClearB

(* Before the crash.                                                       *)
LEMMA LogNext ==
  ASSUME IInv, IInv', EntriesOK, LogNow, Roomy, mode = "up", seen = {}, seen' = {},
         [Next]_vars, ~Crash
  PROVE  LogNow'
<1>1. ASSUME NEW l \in Lengths, Write(l) PROVE LogNow'
  BY <1>1, WriteLog
<1>2. ASSUME NEW d \in vol.pend, Insert(d) PROVE LogNow'
  BY <1>2, InsertLog
<1>3. CASE WriteDone
  BY <1>3, WriteDoneLog
<1>4. CASE WriteFail
  BY <1>4, WriteFailLog
<1>5. CASE SyncEvent
  BY <1>5, SyncEventLog
<1>6. CASE StoreHeader
  BY <1>6, StoreHeaderLog
<1>7. CASE StoreBody
  BY <1>7, StoreBodyLog
<1>8. CASE StoreFooter
  BY <1>8, StoreFooterLog
<1>9. ~(SyncFail \/ StartUp \/ ClearA \/ ClearB)
  BY DEF SyncFail, StartUp, ClearA, ClearB
<1>10. CASE UNCHANGED vars
  <2>1. UNCHANGED <<vol, disk, copies, stage, snap, lost>>
    BY <1>10 DEF vars
  <2>2. Log(vol.hdr, disk, lost, stage, snap) /\ (vol.io => vol.buf # <<>>)
    BY DEF LogNow
  <2> QED
    BY <2>1, <2>2, LogStep
<1> QED
  BY <1>1, <1>2, <1>3, <1>4, <1>5, <1>6, <1>7, <1>8, <1>9, <1>10 DEF Next

(* After the recovery.                                                     *)
LEMMA EntriesNext ==
  ASSUME IInv, EntriesOK, mode \in {"up", "storing"}, seen = {}, seen' = {},
         [Next]_vars, ~Crash
  PROVE  EntriesOK'
<1>1. ASSUME NEW l \in Lengths, Write(l) PROVE EntriesOK'
  BY <1>1, WriteEntries
<1>2. ASSUME NEW d \in vol.pend, Insert(d) PROVE EntriesOK'
  BY <1>2, InsertEntries
<1>3. CASE WriteDone
  BY <1>3, WriteDoneEntries
<1>4. CASE WriteFail
  BY <1>4, WriteFailEntries
<1>5. CASE SyncEvent
  BY <1>5, SyncEventEntries
<1>6. CASE StoreHeader \/ StoreBody \/ StoreFooter \/ UNCHANGED vars
  <2>1. UNCHANGED <<vol, disk, lost>> /\ seen \subseteq seen'
    BY <1>6 DEF StoreHeader, StoreBody, StoreFooter, vars
  <2> QED
    BY <2>1, UnchangedEntries
<1>7. ~(SyncFail \/ StartUp \/ ClearA \/ ClearB)
  BY DEF SyncFail, StartUp, ClearA, ClearB
<1> QED
  BY <1>1, <1>2, <1>3, <1>4, <1>5, <1>6, <1>7 DEF Next

LEMMA NextRecovery ==
  ASSUME Roomy
  PROVE  IInv /\ IInv' /\ EntryInv /\ RecoveryInv /\ [Next]_vars => RecoveryInv'
<1> SUFFICES ASSUME IInv, IInv', EntryInv, RecoveryInv, [Next]_vars, seen' = {}
             PROVE  RecoveryInv'
  BY DEF RecoveryInv
<1>1. seen = {} /\ crashes' \in {crashes, crashes + 1} /\ crashes \in Nat
  BY SeenGrows DEF EntryInv
<1>2. CASE crashes = 0
  <2>1. mode = "up" /\ EntriesOK /\ LogNow
    BY <1>1, <1>2 DEF EntryInv, RecoveryInv
  <2>2. CASE Crash
    <3>0. crashes' = crashes + 1 /\ mode' = "down"
      BY <2>2 DEF Crash
    <3>1. crashes' = 1 /\ mode' = "down"
      BY <1>2, <3>0
    <3>2. \A c \in Usable' : Left(copies'[c].hdr, copies'[c].dir, disk', lost')
      BY <1>1, <2>1, <2>2, CrashLeft
    <3> QED
      BY <3>1, <3>2 DEF RecoveryInv
  <2>3. CASE ~Crash
    <3>1. LogNow'
      BY <1>1, <2>1, <2>3, LogNext
    <3>2. crashes' = 0
      BY <1>2, <2>3 DEF Next, vars, Write, Insert, WriteDone, WriteFail, SyncEvent, StoreHeader,
                        StoreBody, StoreFooter, SyncFail, StartUp, ClearA, ClearB
    <3> QED
      BY <3>1, <3>2 DEF RecoveryInv
  <2> QED
    BY <2>2, <2>3
<1>3. CASE crashes = 1
  <2>1. CASE Crash
    <3>0. crashes' = crashes + 1
      BY <2>1 DEF Crash
    <3>1. crashes' # 0 /\ crashes' # 1
      BY <1>3, <3>0
    <3> QED
      BY <3>1 DEF RecoveryInv
  <2>2. CASE ~Crash
    <3>1. crashes' # 0
      BY <1>1, <1>3
    <3>2. CASE mode = "down"
      <4>1. CASE StartUp
        <5>1. mode' # "down"
          BY <1>1, <4>1 DEF StartUp, Recover, ScanDone, ClearDir
        <5>2. ASSUME mode' \in {"up", "storing"} PROVE EntriesOK'
          <6>1. \A c \in Usable : Left(copies[c].hdr, copies[c].dir, disk, lost)
            BY <1>1, <1>3, <3>2 DEF RecoveryInv
          <6> QED
            BY <1>1, <4>1, <5>2, <6>1, RecoverEntries
        <5> QED
          BY <3>1, <5>1, <5>2 DEF RecoveryInv
      <4>2. CASE UNCHANGED vars
        <5>1. UNCHANGED <<mode, copies, disk, lost, crashes, seen>>
          BY <4>2 DEF vars
        <5>2. Usable' = Usable
          BY <5>1 DEF Usable, Good
        <5>3. \A c \in Usable' : Left(copies'[c].hdr, copies'[c].dir, disk', lost')
          BY <1>1, <1>3, <3>2, <5>1, <5>2 DEF RecoveryInv
        <5> QED
          BY <3>1, <3>2, <5>1, <5>3 DEF RecoveryInv
      <4>3. StartUp \/ UNCHANGED vars
        BY <2>2, <3>2 DEF Next, Write, Insert, WriteDone, WriteFail, SyncEvent, StoreHeader,
                          StoreBody, StoreFooter, SyncFail, ClearA, ClearB
      <4> QED
        BY <4>1, <4>2, <4>3
    <3>3. CASE mode \in {"up", "storing"}
      <4>1. EntriesOK
        BY <1>1, <1>3, <3>3 DEF RecoveryInv
      <4>2. EntriesOK'
        BY <1>1, <2>2, <3>3, <4>1, EntriesNext
      <4>3. mode' # "down"
        BY <2>2, <3>3 DEF Next, vars, Write, Insert, WriteDone, WriteFail, SyncEvent, StoreHeader,
                          StoreBody, StoreFooter, SyncFail, StartUp, ClearA, ClearB
      <4> QED
        BY <3>1, <4>2, <4>3 DEF RecoveryInv
    <3>4. CASE mode \notin {"down", "up", "storing"}
      <4>1. mode = "endless"
        BY <1>1, <3>4 DEF IInv, TypeInv, ModeInv
      <4>2. mode' = "endless"
        BY <2>2, <4>1 DEF Next, vars, Write, Insert, WriteDone, WriteFail, SyncEvent, StoreHeader,
                          StoreBody, StoreFooter, SyncFail, StartUp, ClearA, ClearB
      <4> QED
        BY <3>1, <4>2 DEF RecoveryInv
    <3> QED
      BY <3>2, <3>3, <3>4
  <2> QED
    BY <2>1, <2>2
<1>4. CASE crashes # 0 /\ crashes # 1
  <2>1. crashes' # 0 /\ crashes' # 1
    BY <1>1, <1>4
  <2> QED
    BY <2>1 DEF RecoveryInv
<1> QED
  BY <1>2, <1>3, <1>4

(* After a crash in the middle of writes and syncs, and the recovery from  *)
(* it, an entry that dir_valid accepts leads to its document, whatever the *)
(* crash tore: handle_recover_from_data finds the end of the log and       *)
(* forgets enough.  The volume has room for five buffers and its data does *)
(* not begin within the first AggSize blocks; exempt are the histories that*)
(* are marked, and every recovery but the first.                           *)
THEOREM RecoveryForgets == Roomy => (Spec => []RecoveredExact)
<1> SUFFICES ASSUME Roomy PROVE Spec => []RecoveredExact
  OBVIOUS
<1>1. Init => IInv /\ EntryInv /\ RecoveryInv
  BY InitIInv, InitEntries, InitRecovery
<1>2. IInv /\ EntryInv /\ RecoveryInv /\ [Next]_vars => IInv' /\ EntryInv' /\ RecoveryInv'
  BY NextIInv, NextEntries, NextRecovery
<1>3. IInv /\ EntryInv /\ RecoveryInv => RecoveredExact
  <2> SUFFICES ASSUME IInv, RecoveryInv, mode = "up", crashes = 1, seen = {} PROVE ValidExact
    BY DEF RecoveredExact
  <2>1. EntriesOK /\ Plain
    BY DEF RecoveryInv, Plain
  <2> QED
    BY <2>1, EntriesLead
<1> QED
  BY <1>1, <1>2, <1>3, PTL DEF Spec
=============================================================================
