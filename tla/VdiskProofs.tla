----------------------------- MODULE VdiskProofs -----------------------------
(***************************************************************************)
(* The safety properties of a volume for any set of keys, any number of    *)
(* connections, any sizes and any limits.                                  *)
(***************************************************************************)
EXTENDS VdiskCache, FiniteSetTheorems, SequenceTheorems, TLAPS

-----------------------------------------------------------------------------
(* The inductive invariant.                                                *)

(* A connection in use has a key.                                          *)
KeyInv ==
  /\ \A w \in Writers : wpc[w] # "idle" => wkey[w] \in Keys
  /\ \A r \in Readers : rpc[r] # "idle" => rkey[r] \in Keys

Holds(w) == wpc[w] \notin {"idle", "wait"}

OpenInv ==
  \A k \in Keys, w \in Writers : w \in od[k] <=> wkey[w] = k /\ Holds(w)

Limit == IF MaxAlts > 1 THEN MaxAlts ELSE 1
CardInv == \A k \in Keys : Cardinality(od[k]) <= Limit

FlagInv ==
  \A k \in Keys :
    /\ readingVec[k] <=> \E w \in Writers : wkey[w] = k /\ wpc[w] = "vecio"
    /\ writingVec[k] <=> \E w \in Writers : wkey[w] = k /\ wpc[w] = "headio"

(* A writer past the unlocked test of updateVector excludes a reader of    *)
(* the vector: only the first writer of a key reads it, and the others     *)
(* come after it.                                                          *)
ExclInv ==
  \A v, w \in Writers :
    wkey[v] = wkey[w] =>
      /\ wpc[v] = "vecio" => wpc[w] \notin {"locked", "headio"}
      /\ wpc[v] = "vecio" /\ wpc[w] = "vecio" => v = w
      /\ wpc[v] = "headio" /\ wpc[w] = "headio" => v = w

VectorInv == OpenInv /\ FlagInv /\ ExclInv

(* Every length kept anywhere is one the origin gave for that key.         *)
StoreSizes ==
  /\ \A k \in Keys : policy[k] \in SizesOf[k] \cup {0}
  /\ \A k \in Keys : ram[k] \in SizesOf[k] \cup {0}
  /\ ffKey \in Keys => ffLen \in SizesOf[ffKey]

WriterSizes ==
  \A w \in Writers :
    /\ alt[w] => wpc[w] \notin {"idle", "wait", "vecio"} /\ nbytes[w] \in SizesOf[wkey[w]]
    /\ ~alt[w] => total[w] = 0
    /\ closed[w] = 1 => alt[w] /\ total[w] = nbytes[w]

ReaderSizes ==
  \A r \in Readers :
    /\ rpc[r] = "io" => rlen[r] \in SizesOf[rkey[r]]
    /\ rpc[r] \in {"head", "open"} => rdoc[r] \in SizesOf[rkey[r]]

SizeInv == StoreSizes /\ WriterSizes /\ ReaderSizes

IInv == TypeOK /\ KeyInv /\ VectorInv /\ CardInv /\ SizeInv

-----------------------------------------------------------------------------
USE KeyAssumption, WriterAssumption, SizeAssumption, NumberAssumption

(* The inductive invariant holds in an empty volume.                       *)
LEMMA InitIInv == Init => IInv
<1> SUFFICES ASSUME Init PROVE IInv
  OBVIOUS
<1>1. TypeOK
  BY EmptySeq DEF Init, TypeOK, VolTypeOK, ReaderTypeOK, WriterTypeOK, ReaderStates,
     WriterStates, Old
<1>2. KeyInv /\ VectorInv
  BY DEF Init, KeyInv, VectorInv, OpenInv, FlagInv, ExclInv, Holds
<1>3. CardInv
  BY FS_EmptySet DEF Init, CardInv, Limit
<1>4. SizeInv
  BY DEF Init, SizeInv, StoreSizes, WriterSizes, ReaderSizes
<1> QED
  BY <1>1, <1>2, <1>3, <1>4 DEF IInv

-----------------------------------------------------------------------------
(* Readers.                                                                *)

(* A step of a reader changes nothing of the writers and the volume, and   *)
(* of the RAM cache only what it read itself.                              *)
LEMMA ReaderFrame ==
  ASSUME NEW r \in Readers, Reader(r)
  PROVE  UNCHANGED <<volVars, writerVars>>
BY DEF Reader, OpenRead, OpenReadMissedLock, OpenReadFails, ReadDone, StartHead,
   StartOver, RestartClock, ChooseWriter, ReadFromWriter, CloseRead

(* The connection of a reader that is freed is idle and well-typed.        *)
LEMMA FreeReaderStep ==
  ASSUME ReaderTypeOK, NEW r \in Readers, FreeReader(r)
  PROVE  /\ ReaderTypeOK'
         /\ rpc'[r] = "idle"
         /\ \A s \in Readers : s # r => /\ rpc'[s] = rpc[s] /\ rkey'[s] = rkey[s]
                                        /\ rlen'[s] = rlen[s] /\ rdoc'[s] = rdoc[s]
BY DEF ReaderTypeOK, FreeReader, ReaderStates

(* What handleRead finds for a key the policy knows has a length of that   *)
(* key.                                                                    *)
LEMMA HandleReadStep ==
  ASSUME TypeOK, StoreSizes, NEW r \in Readers, NEW k \in Keys,
         policy[k] # 0, HandleRead(r, k, policy[k])
  PROVE  /\ rlen' \in [Readers -> Nat] /\ rdoc' \in [Readers -> Nat]
         /\ rpc' \in [Readers -> ReaderStates]
         /\ \A s \in Readers : s # r => /\ rpc'[s] = rpc[s]
                                        /\ rlen'[s] = rlen[s] /\ rdoc'[s] = rdoc[s]
         /\ \/ rpc'[r] = "io" /\ rlen'[r] \in SizesOf[k]
            \/ rpc'[r] = "head" /\ rdoc'[r] \in SizesOf[k]
<1> USE DEF TypeOK, VolTypeOK, ReaderTypeOK
<1>1. rlen' = [rlen EXCEPT ![r] = policy[k]]
  BY DEF HandleRead
<1>2. CASE ram[k] # 0 /\ rdoc' = [rdoc EXCEPT ![r] = ram[k]] /\ rpc' = [rpc EXCEPT ![r] = "head"]
  BY <1>1, <1>2 DEF StoreSizes, ReaderStates
<1>3. CASE ffKey = k /\ rdoc' = [rdoc EXCEPT ![r] = ffLen] /\ rpc' = [rpc EXCEPT ![r] = "head"]
  BY <1>1, <1>3 DEF StoreSizes, ReaderStates
<1>4. CASE rdoc' = [rdoc EXCEPT ![r] = 0] /\ rpc' = [rpc EXCEPT ![r] = "io"]
  BY <1>1, <1>4 DEF StoreSizes, ReaderStates
<1> QED
  BY <1>2, <1>3, <1>4 DEF HandleRead, InMemory

(* What a step of a reader leaves alone keeps its part of the invariant.   *)
LEMMA ReaderKeepsWriters ==
  ASSUME IInv, UNCHANGED <<volVars, writerVars>>
  PROVE  /\ VectorInv' /\ CardInv' /\ WriterSizes'
         /\ \A w \in Writers : wpc'[w] # "idle" => wkey'[w] \in Keys
<1> USE DEF volVars, writerVars
<1>1. OpenInv' /\ FlagInv' /\ ExclInv'
  BY DEF IInv, VectorInv, OpenInv, FlagInv, ExclInv, Holds
<1>2. CardInv' /\ WriterSizes'
  BY DEF IInv, CardInv, SizeInv, WriterSizes
<1> QED
  BY <1>1, <1>2 DEF IInv, KeyInv, VectorInv

(* An open of a reader: OpenRead takes what handleRead found.              *)
LEMMA OpenReadStep ==
  ASSUME IInv, NEW r \in Readers, NEW k \in Keys,
         OpenRead(r, k) \/ OpenReadMissedLock(r, k)
  PROVE  IInv'
<1> USE DEF IInv, TypeOK, SizeInv
<1>1. UNCHANGED <<volVars, ramVars, older, writerVars>> /\ opens' = opens + 1 /\ opens < MaxOpens
  BY DEF OpenRead, OpenReadMissedLock
<1>2. /\ rkey' = [rkey EXCEPT ![r] = k]
      /\ called' = [called EXCEPT ![r] = FALSE]
      /\ writeVc' = [writeVc EXCEPT ![r] = NoWriter]
  BY DEF OpenRead, OpenReadMissedLock
<1>3. /\ rlen' \in [Readers -> Nat] /\ rdoc' \in [Readers -> Nat]
      /\ rpc' \in [Readers -> ReaderStates]
      /\ \A s \in Readers : s # r => /\ rpc'[s] = rpc[s]
                                     /\ rlen'[s] = rlen[s] /\ rdoc'[s] = rdoc[s]
      /\ \/ rpc'[r] = "io" /\ rlen'[r] \in SizesOf[k]
         \/ rpc'[r] = "head" /\ rdoc'[r] \in SizesOf[k]
         \/ rpc'[r] = "start"
  <2>1. CASE OpenRead(r, k)
    BY <2>1, HandleReadStep DEF OpenRead
  <2>2. CASE OpenReadMissedLock(r, k)
    BY <2>2 DEF OpenReadMissedLock, ReaderTypeOK, ReaderStates
  <2> QED
    BY <2>1, <2>2
<1>4. rkey'[r] = k /\ \A s \in Readers : s # r => rkey'[s] = rkey[s]
  BY <1>2 DEF ReaderTypeOK
<1>5. VolTypeOK' /\ StoreSizes'
  BY <1>1 DEF VolTypeOK, StoreSizes, volVars, ramVars
<1>6. WriterTypeOK'
  BY <1>1 DEF WriterTypeOK, writerVars
<1>7. ReaderTypeOK'
  BY <1>1, <1>2, <1>3 DEF ReaderTypeOK
<1>8. ReaderSizes' /\ \A s \in Readers : rpc'[s] # "idle" => rkey'[s] \in Keys
  BY <1>3, <1>4 DEF ReaderSizes, KeyInv
<1> QED
  BY <1>1, <1>5, <1>6, <1>7, <1>8, ReaderKeepsWriters DEF KeyInv

(* The steps after which the connection is free, or in which it moves on   *)
(* without touching a length.                                              *)
LEMMA ReaderMoves ==
  ASSUME IInv, NEW r \in Readers,
         UNCHANGED <<volVars, ramVars, writerVars, opens>>,
         ReaderTypeOK',
         \A s \in Readers : s # r => /\ rpc'[s] = rpc[s] /\ rkey'[s] = rkey[s]
                                     /\ rlen'[s] = rlen[s] /\ rdoc'[s] = rdoc[s],
         \/ rpc'[r] = "idle"
         \/ /\ rpc[r] # "idle" /\ rkey'[r] = rkey[r]
            /\ rpc'[r] = "io" => rlen'[r] \in SizesOf[rkey[r]]
            /\ rpc'[r] \in {"head", "open"} => rdoc'[r] \in SizesOf[rkey[r]]
  PROVE  IInv'
<1> USE DEF IInv, TypeOK, SizeInv
<1>1. VolTypeOK' /\ StoreSizes'
  BY DEF VolTypeOK, StoreSizes, volVars, ramVars
<1>2. WriterTypeOK'
  BY DEF WriterTypeOK, writerVars
<1>3. ReaderSizes' /\ \A s \in Readers : rpc'[s] # "idle" => rkey'[s] \in Keys
  BY DEF ReaderSizes, KeyInv
<1> QED
  BY <1>1, <1>2, <1>3, ReaderKeepsWriters DEF KeyInv

(* The reader goes back to openReadStartHead.                              *)
LEMMA BackToStartStep ==
  ASSUME IInv, NEW r \in Readers, rpc[r] # "idle", BackToStart(r),
         UNCHANGED <<volVars, ramVars, writerVars, opens>>
  PROVE  IInv'
<1>1. ReaderTypeOK' /\ rpc'[r] = "start" /\ \A s \in Readers : s # r => rpc'[s] = rpc[s]
  BY DEF IInv, TypeOK, ReaderTypeOK, BackToStart, ReaderStates
<1> QED
  BY <1>1, ReaderMoves DEF BackToStart

(* The connection is freed.                                                *)
LEMMA FreedStep ==
  ASSUME IInv, NEW r \in Readers, FreeReader(r),
         UNCHANGED <<volVars, ramVars, writerVars, opens>>
  PROVE  IInv'
BY FreeReaderStep, ReaderMoves DEF IInv, TypeOK

(* handleReadDone: the faked document has the policy's length, and so have *)
(* its copies in the RAM cache and as the last document read.              *)
LEMMA ReadDoneStep ==
  ASSUME IInv, NEW r \in Readers, ReadDone(r)
  PROVE  IInv'
<1> USE DEF IInv, TypeOK, SizeInv
<1> DEFINE k == rkey[r]
<1> DEFINE n == rlen[r]
<1>1. /\ rpc[r] = "io" /\ k \in Keys /\ n \in SizesOf[k] /\ n \in Nat
  BY DEF ReadDone, KeyInv, ReaderSizes, ReaderTypeOK
<1>2. /\ UNCHANGED <<volVars, rkey, rlen, called, writeVc, older, writerVars, opens>>
      /\ ffKey' = k /\ ffLen' = n
      /\ rdoc' = [rdoc EXCEPT ![r] = n] /\ rpc' = [rpc EXCEPT ![r] = "head"]
  BY DEF ReadDone
<1>3. ram' = ram \/ \E out \in SUBSET Keys :
                      ram' = [j \in Keys |-> IF j \in out THEN 0
                                             ELSE IF j = k THEN n ELSE ram[j]]
  BY DEF ReadDone, RamPut
<1> HIDE DEF k, n
<1>4. ram' \in [Keys -> Nat] /\ \A j \in Keys : ram'[j] \in SizesOf[j] \cup {0}
  <2>1. CASE ram' = ram
    BY <2>1 DEF VolTypeOK, StoreSizes
  <2>2. ASSUME NEW out \in SUBSET Keys,
               ram' = [j \in Keys |-> IF j \in out THEN 0
                                      ELSE IF j = k THEN n ELSE ram[j]]
        PROVE  ram' \in [Keys -> Nat] /\ \A j \in Keys : ram'[j] \in SizesOf[j] \cup {0}
    <3>1. \A j \in Keys : ram'[j] = IF j \in out THEN 0 ELSE IF j = k THEN n ELSE ram[j]
      BY <2>2
    <3>2. \A j \in Keys : ram'[j] \in SizesOf[j] \cup {0}
      BY <1>1, <3>1 DEF StoreSizes
    <3>3. \A j \in Keys : ram[j] \in Nat
      BY DEF VolTypeOK
    <3> QED
      BY <1>1, <2>2, <3>2, <3>3
  <2> QED
    BY <1>3, <2>1, <2>2
<1>5. VolTypeOK' /\ StoreSizes'
  BY <1>1, <1>2, <1>4 DEF VolTypeOK, StoreSizes, volVars
<1>6. WriterTypeOK'
  BY <1>2 DEF WriterTypeOK, writerVars
<1>7. ReaderTypeOK'
  BY <1>1, <1>2 DEF ReaderTypeOK, ReaderStates
<1>8. /\ rdoc'[r] = n /\ rpc'[r] = "head"
      /\ \A s \in Readers : s # r => rdoc'[s] = rdoc[s] /\ rpc'[s] = rpc[s]
  BY <1>2 DEF ReaderTypeOK
<1>9. ReaderSizes' /\ \A s \in Readers : rpc'[s] # "idle" => rkey'[s] \in Keys
  BY <1>1, <1>2, <1>8 DEF ReaderSizes, KeyInv, k
<1> QED
  BY <1>2, <1>5, <1>6, <1>7, <1>9, ReaderKeepsWriters DEF KeyInv

(* openReadFromWriter: the writer that is read holds the reader's key, so  *)
(* what it has written is the whole object of that key.                    *)
LEMMA ReadWriterStep ==
  ASSUME IInv, NEW r \in Readers, rpc[r] = "writer", NEW w \in od[rkey[r]],
         ReadWriter(r, w), UNCHANGED <<volVars, ramVars, writerVars, opens>>
  PROVE  IInv'
<1>1. CASE closed[w] = 2
  BY <1>1, BackToStartStep DEF ReadWriter
<1>2. CASE closed[w] # 2 /\ (closed[w] = 0 \/ failed[w] \/ ~alt[w])
  BY <1>2, FreedStep DEF ReadWriter
<1>3. CASE closed[w] # 2 /\ ~(closed[w] = 0 \/ failed[w] \/ ~alt[w])
  <2>1. /\ rdoc' = [rdoc EXCEPT ![r] = total[w]]
        /\ rpc' = [rpc EXCEPT ![r] = "open"]
        /\ writeVc' = [writeVc EXCEPT ![r] = w]
        /\ UNCHANGED <<rkey, rlen, called, older>>
    BY <1>3 DEF ReadWriter
  <2>2. rkey[r] \in Keys /\ w \in Writers
    BY DEF IInv, KeyInv, TypeOK, VolTypeOK
  <2>3. wkey[w] = rkey[r] /\ closed[w] = 1 /\ alt[w]
    BY <1>3, <2>2 DEF IInv, VectorInv, OpenInv, TypeOK, WriterTypeOK
  <2>4. total[w] \in SizesOf[rkey[r]] /\ total[w] \in Nat
    BY <2>2, <2>3 DEF IInv, SizeInv, WriterSizes, TypeOK, WriterTypeOK
  <2>5. ReaderTypeOK'
    BY <2>1, <2>2, <2>4 DEF IInv, TypeOK, ReaderTypeOK, ReaderStates
  <2>6. /\ rdoc'[r] = total[w] /\ rpc'[r] = "open"
        /\ \A s \in Readers : s # r => rdoc'[s] = rdoc[s] /\ rpc'[s] = rpc[s]
    BY <2>1 DEF IInv, TypeOK, ReaderTypeOK
  <2> QED
    BY <2>1, <2>4, <2>5, <2>6, ReaderMoves
<1> QED
  BY <1>1, <1>2, <1>3

(* Every step of a reader preserves the inductive invariant.               *)
LEMMA ReaderStep ==
  ASSUME IInv, NEW r \in Readers, Reader(r)
  PROVE  IInv'
<1> USE DEF IInv, TypeOK
<1>1. CASE \E k \in Keys : OpenRead(r, k) \/ OpenReadMissedLock(r, k)
  BY <1>1, OpenReadStep
<1>2. CASE OpenReadFails(r) \/ CloseRead(r)
  BY <1>2, FreedStep DEF OpenReadFails, CloseRead
<1>3. CASE ReadDone(r)
  BY <1>3, ReadDoneStep
<1>4. CASE StartHead(r)
  <2>1. ReaderTypeOK' /\ rpc'[r] = "open" /\ \A s \in Readers : s # r => rpc'[s] = rpc[s]
    BY <1>4 DEF StartHead, ReaderTypeOK, ReaderStates
  <2>2. rdoc[r] \in SizesOf[rkey[r]]
    BY <1>4 DEF StartHead, SizeInv, ReaderSizes
  <2> QED
    BY <1>4, <2>1, <2>2, ReaderMoves DEF StartHead
<1>5. CASE StartOver(r)
  <2>1. rpc[r] = "start" /\ rkey[r] \in Keys /\ UNCHANGED <<volVars, ramVars, writerVars, opens>>
    BY <1>5 DEF StartOver, KeyInv
  <2>2. CASE FreeReader(r)
    BY <2>1, <2>2, FreedStep
  <2>3. CASE rpc' = [rpc EXCEPT ![r] = "writer"] /\ UNCHANGED <<rkey, rlen, rdoc, called, writeVc, older>>
    <3>1. ReaderTypeOK' /\ rpc'[r] = "writer" /\ \A s \in Readers : s # r => rpc'[s] = rpc[s]
      BY <2>3 DEF ReaderTypeOK, ReaderStates
    <3> QED
      BY <2>1, <2>3, <3>1, ReaderMoves
  <2>4. CASE /\ policy[rkey[r]] # 0 /\ HandleRead(r, rkey[r], policy[rkey[r]])
             /\ UNCHANGED <<rkey, called, writeVc, older>>
    <3>1. /\ rlen' \in [Readers -> Nat] /\ rdoc' \in [Readers -> Nat]
          /\ rpc' \in [Readers -> ReaderStates]
          /\ \A s \in Readers : s # r => /\ rpc'[s] = rpc[s]
                                         /\ rlen'[s] = rlen[s] /\ rdoc'[s] = rdoc[s]
          /\ \/ rpc'[r] = "io" /\ rlen'[r] \in SizesOf[rkey[r]]
             \/ rpc'[r] = "head" /\ rdoc'[r] \in SizesOf[rkey[r]]
      BY <2>1, <2>4, HandleReadStep DEF SizeInv
    <3>2. ReaderTypeOK'
      BY <2>4, <3>1 DEF ReaderTypeOK
    <3> QED
      BY <2>1, <2>4, <3>1, <3>2, ReaderMoves
  <2> QED
    BY <1>5, <2>2, <2>3, <2>4 DEF StartOver
<1>6. CASE RestartClock(r)
  <2>1. ReaderTypeOK'
    BY <1>6 DEF RestartClock, ReaderTypeOK
  <2> QED
    BY <1>6, <2>1, ReaderMoves DEF RestartClock, SizeInv, ReaderSizes
<1>7. CASE ChooseWriter(r)
  <2>1. rpc[r] = "writer" /\ UNCHANGED <<volVars, ramVars, writerVars, opens>>
    BY <1>7 DEF ChooseWriter
  <2>2. CASE BackToStart(r)
    BY <2>1, <2>2, BackToStartStep
  <2>3. CASE FreeReader(r)
    BY <2>1, <2>3, FreedStep
  <2>4. CASE \E a \in od[rkey[r]] : /\ writeVc' = [writeVc EXCEPT ![r] = a]
                                    /\ UNCHANGED <<rpc, rkey, rlen, rdoc, called, older>>
    <3>1. ReaderTypeOK'
      BY <2>1, <2>4 DEF ReaderTypeOK, VolTypeOK, KeyInv
    <3> QED
      BY <2>1, <2>4, <3>1, ReaderMoves
  <2>5. CASE \E a \in od[rkey[r]] : ReadWriter(r, a)
    BY <2>1, <2>5, ReadWriterStep
  <2> QED
    BY <1>7, <2>2, <2>3, <2>4, <2>5 DEF ChooseWriter
<1>8. CASE ReadFromWriter(r)
  <2>1. rpc[r] = "writer" /\ UNCHANGED <<volVars, ramVars, writerVars, opens>>
    BY <1>8 DEF ReadFromWriter
  <2>2. CASE WriterDone(r)
    BY <1>8, <2>1, <2>2, BackToStartStep DEF ReadFromWriter
  <2>3. CASE ~WriterDone(r)
    BY <1>8, <2>1, <2>3, ReadWriterStep DEF ReadFromWriter, WriterDone
  <2> QED
    BY <2>2, <2>3
<1> QED
  BY <1>1, <1>2, <1>3, <1>4, <1>5, <1>6, <1>7, <1>8 DEF Reader

-----------------------------------------------------------------------------
(* Writers.                                                                *)

(* The parts of the invariant that a step of a writer has to show.         *)
LEMMA WriterParts ==
  ASSUME IInv, UNCHANGED <<ramVars, readerVars>>,
         older' \in [Readers -> SUBSET Writers],
         VolTypeOK', WriterTypeOK', VectorInv', CardInv', WriterSizes',
         \A k \in Keys : policy'[k] \in SizesOf[k] \cup {0},
         \A w \in Writers : wpc'[w] # "idle" => wkey'[w] \in Keys
  PROVE  IInv'
<1> USE DEF IInv, TypeOK, SizeInv, ramVars, readerVars
<1>1. ReaderTypeOK'
  BY DEF ReaderTypeOK
<1>2. ReaderSizes' /\ StoreSizes' /\ KeyInv'
  BY DEF ReaderSizes, StoreSizes, KeyInv
<1> QED
  BY <1>1, <1>2

(* A writer moves between places where it holds its key and neither reads  *)
(* nor writes the vector.                                                  *)
LEMMA MoveKeepsVector ==
  ASSUME IInv, NEW w \in Writers,
         UNCHANGED <<od, readingVec, writingVec, wkey>>,
         \A v \in Writers : v # w => wpc'[v] = wpc[v],
         wpc[w] \notin {"idle", "wait", "vecio", "headio"},
         wpc'[w] \notin {"idle", "wait", "vecio", "headio"},
         wpc'[w] = "locked" => ~readingVec[wkey[w]]
  PROVE  /\ VectorInv' /\ CardInv'
         /\ \A v \in Writers : wpc'[v] # "idle" => wkey'[v] \in Keys
<1> USE DEF IInv, VectorInv
<1>1. OpenInv'
  BY DEF OpenInv, Holds
<1>2. FlagInv'
  BY DEF FlagInv
<1>3. wkey[w] \in Keys
  BY DEF KeyInv
<1>4. wpc'[w] = "locked" => \A v \in Writers : wkey[v] = wkey[w] => wpc[v] # "vecio"
  BY <1>3 DEF FlagInv
<1>5. ExclInv'
  BY <1>4 DEF ExclInv
<1>6. CardInv'
  BY DEF CardInv
<1> QED
  BY <1>1, <1>2, <1>5, <1>6 DEF KeyInv

(* The steps between open and close: data arrives, the caller closes or    *)
(* aborts, the flags are tested.                                           *)
LEMMA MainStep ==
  ASSUME IInv, NEW w \in Writers,
         DoIoWrite(w) \/ WriteMain(w) \/ CloseWrite(w) \/ AbortWrite(w) \/ TestVector(w)
  PROVE  IInv'
<1> USE DEF IInv, TypeOK, SizeInv
<1>1. UNCHANGED <<volVars, ramVars, readerVars, older, wkey, opens>>
  BY DEF DoIoWrite, WriteMain, CloseWrite, AbortWrite, TestVector
<1>2. VolTypeOK' /\ older' \in [Readers -> SUBSET Writers]
  BY <1>1 DEF VolTypeOK, ReaderTypeOK, volVars, ramVars
<1>3. \A k \in Keys : policy'[k] \in SizesOf[k] \cup {0}
  BY <1>1 DEF StoreSizes, volVars
<1>4. wpc[w] \in {"main", "vector"} /\ wkey[w] \in Keys
  BY DEF DoIoWrite, WriteMain, CloseWrite, AbortWrite, TestVector, KeyInv
<1>5. /\ wpc'[w] \in {"main", "vector", "closedir", "locked"}
      /\ wpc'[w] = "locked" => ~readingVec[wkey[w]]
      /\ \A v \in Writers : v # w => wpc'[v] = wpc[v]
  BY <1>4 DEF DoIoWrite, WriteMain, CloseWrite, AbortWrite, TestVector, WriterTypeOK
<1>6. /\ VectorInv' /\ CardInv'
      /\ \A v \in Writers : wpc'[v] # "idle" => wkey'[v] \in Keys
  BY <1>1, <1>4, <1>5, MoveKeepsVector DEF volVars
<1>7. WriterTypeOK' /\ WriterSizes'
  <2>1. CASE DoIoWrite(w)
    <3>1. PICK n \in SizesOf[wkey[w]] : nbytes' = [nbytes EXCEPT ![w] = n]
      BY <2>1 DEF DoIoWrite
    <3>2. n \in Nat /\ ~alt[w] /\ closed[w] # 1 /\ alt' = [alt EXCEPT ![w] = TRUE]
          /\ UNCHANGED <<wpc, wkey, multi, total, closed, failed, opens>>
      BY <1>4, <2>1, <3>1 DEF DoIoWrite, WriterSizes
    <3>3. nbytes' \in [Writers -> Nat] /\ alt' \in [Writers -> BOOLEAN]
      BY <3>1, <3>2 DEF WriterTypeOK
    <3>4. /\ nbytes'[w] = n /\ alt'[w]
          /\ \A v \in Writers : v # w => nbytes'[v] = nbytes[v] /\ alt'[v] = alt[v]
      BY <3>1, <3>2 DEF WriterTypeOK
    <3>5. total[w] = 0 /\ total[w] <= n
      BY <3>2 DEF WriterSizes
    <3>6. WriterTypeOK'
      BY <3>2, <3>3, <3>4, <3>5 DEF WriterTypeOK
    <3>7. WriterSizes'
      BY <1>4, <2>1, <3>2, <3>4 DEF WriterSizes, DoIoWrite
    <3> QED
      BY <3>6, <3>7
  <2>2. CASE WriteMain(w)
    <3>1. /\ total' = [total EXCEPT ![w] = @ + 1] /\ total[w] < nbytes[w] /\ alt[w]
          /\ UNCHANGED <<wpc, wkey, multi, alt, nbytes, closed, failed, opens>>
      BY <2>2 DEF WriteMain, MoreToWrite
    <3>2. /\ total'[w] = total[w] + 1 /\ total' \in [Writers -> Nat]
          /\ \A v \in Writers : v # w => total'[v] = total[v]
      BY <3>1 DEF WriterTypeOK
    <3>3. total'[w] <= nbytes'[w] /\ closed[w] # 1
      BY <3>1, <3>2 DEF WriterTypeOK, WriterSizes
    <3>4. WriterTypeOK'
      BY <3>1, <3>2, <3>3 DEF WriterTypeOK
    <3>5. WriterSizes'
      BY <3>1, <3>2, <3>3 DEF WriterSizes
    <3> QED
      BY <3>4, <3>5
  <2>3. CASE CloseWrite(w)
    BY <1>5, <2>3 DEF CloseWrite, WriterTypeOK, WriterSizes, WriterStates
  <2>4. CASE AbortWrite(w)
    BY <1>5, <2>4 DEF AbortWrite, WriterTypeOK, WriterSizes, WriterStates
  <2>5. CASE TestVector(w)
    BY <1>5, <2>5 DEF TestVector, WriterTypeOK, WriterSizes, WriterStates
  <2> QED
    BY <2>1, <2>2, <2>3, <2>4, <2>5
<1> QED
  BY <1>1, <1>2, <1>3, <1>6, <1>7, WriterParts

(* The vector of a key keeps its type whatever a writer does to it.        *)
LEMMA VectorTypes ==
  ASSUME VolTypeOK, NEW k \in Keys, NEW w \in Writers
  PROVE  /\ Loaded(k) \subseteq [Keys -> Seq(Writers \cup {Old})]
         /\ [vec EXCEPT ![k] = Append(Trimmed(@), w)] \in [Keys -> Seq(Writers \cup {Old})]
         /\ [vec EXCEPT ![k] = IF od[k] = {w} THEN <<>>
                               ELSE [i \in DOMAIN @ |-> IF @[i] = w THEN Old ELSE @[i]]]
              \in [Keys -> Seq(Writers \cup {Old})]
<1> DEFINE S == Writers \cup {Old}
<1>1. vec \in [Keys -> Seq(S)] /\ vec[k] \in Seq(S)
  BY DEF VolTypeOK
<1>2. Append(vec[k], Old) \in Seq(S)
  BY <1>1, AppendProperties
<1>3. Trimmed(vec[k]) \in Seq(S)
  <2>1. CASE MaxAlts > 1 /\ Len(vec[k]) >= MaxAlts
    <3>1. vec[k] # <<>>
      BY <1>1, <2>1
    <3> QED
      BY <1>1, <2>1, <3>1, HeadTailProperties DEF Trimmed
  <2>2. CASE ~(MaxAlts > 1 /\ Len(vec[k]) >= MaxAlts)
    BY <1>1, <2>2 DEF Trimmed
  <2> QED
    BY <2>1, <2>2
<1>4. Append(Trimmed(vec[k]), w) \in Seq(S)
  BY <1>3, AppendProperties
<1>5. [i \in DOMAIN vec[k] |-> IF vec[k][i] = w THEN Old ELSE vec[k][i]] \in Seq(S)
  <2>1. DOMAIN vec[k] = 1..Len(vec[k]) /\ Len(vec[k]) \in Nat
    BY <1>1, LenProperties
  <2>2. \A i \in 1..Len(vec[k]) : vec[k][i] \in S
    BY <1>1, ElementOfSeq
  <2> HIDE DEF S
  <2>3. Old \in S
    BY DEF S
  <2>4. [i \in 1..Len(vec[k]) |-> IF vec[k][i] = w THEN Old ELSE vec[k][i]]
          \in [1..Len(vec[k]) -> S]
    BY <2>2, <2>3
  <2> QED
    BY <2>1, <2>4, SeqDef
<1>6. <<>> \in Seq(S)
  BY EmptySeq
<1> HIDE DEF S
<1>7. Loaded(k) \subseteq [Keys -> Seq(S)]
  BY <1>1, <1>2 DEF Loaded
<1>8. [vec EXCEPT ![k] = Append(Trimmed(@), w)] \in [Keys -> Seq(S)]
  BY <1>1, <1>4
<1>9. [vec EXCEPT ![k] = IF od[k] = {w} THEN <<>>
                         ELSE [i \in DOMAIN @ |-> IF @[i] = w THEN Old ELSE @[i]]]
        \in [Keys -> Seq(S)]
  <2>1. CASE od[k] = {w}
    BY <1>1, <1>6, <2>1
  <2>2. CASE od[k] # {w}
    BY <1>1, <1>5, <2>2
  <2> QED
    BY <2>1, <2>2
<1> QED
  BY <1>7, <1>8, <1>9 DEF S

(* A step of w that moves it among the places where it holds its key and   *)
(* changes at most the vector, the flags, dir and failed.                  *)
LEMMA FlagParts ==
  ASSUME IInv, NEW w \in Writers, NEW p \in WriterStates \ {"idle", "wait", "vecio"},
         Holds(w), wpc' = [wpc EXCEPT ![w] = p],
         UNCHANGED <<policy, od, ramVars, readerVars, older, wkey, multi, alt, nbytes,
                     total, closed, opens>>,
         failed' \in [Writers -> BOOLEAN], dir' \in SUBSET Keys,
         vec' \in [Keys -> Seq(Writers \cup {Old})],
         readingVec' \in [Keys -> BOOLEAN], writingVec' \in [Keys -> BOOLEAN],
         FlagInv', ExclInv'
  PROVE  IInv'
<1> USE DEF IInv, TypeOK, SizeInv
<1>1. /\ wpc'[w] = p /\ \A v \in Writers : v # w => wpc'[v] = wpc[v]
      /\ wpc' \in [Writers -> WriterStates]
  BY DEF WriterTypeOK
<1>2. OpenInv' /\ CardInv'
  BY <1>1 DEF VectorInv, OpenInv, CardInv, Holds
<1>3. VolTypeOK' /\ older' \in [Readers -> SUBSET Writers]
  BY DEF VolTypeOK, ReaderTypeOK, ramVars
<1>4. WriterTypeOK'
  BY <1>1 DEF WriterTypeOK
<1>5. WriterSizes'
  BY <1>1 DEF WriterSizes, Holds
<1>6. \A v \in Writers : wpc'[v] # "idle" => wkey'[v] \in Keys
  BY <1>1 DEF KeyInv, Holds
<1>7. \A k \in Keys : policy'[k] \in SizesOf[k] \cup {0}
  BY DEF StoreSizes
<1> QED
  BY <1>2, <1>3, <1>4, <1>5, <1>6, <1>7, WriterParts DEF VectorInv

(* openWriteStartDone after the read of the vector.                        *)
LEMMA VectorReadStep ==
  ASSUME IInv, NEW w \in Writers, VectorRead(w) \/ VectorReadFails(w)
  PROVE  IInv'
<1> USE DEF IInv, TypeOK, VectorInv
<1> DEFINE k == wkey[w]
<1>1. PICK p \in {"main", "closedir"} :
        /\ wpc' = [wpc EXCEPT ![w] = p]
        /\ readingVec' = [readingVec EXCEPT ![k] = FALSE]
        /\ UNCHANGED <<policy, od, writingVec, dir, ramVars, readerVars, older,
                       wkey, multi, alt, nbytes, total, closed, failed, opens>>
  BY DEF VectorRead, VectorReadFails
<1>2. wpc[w] = "vecio" /\ k \in Keys /\ Holds(w)
  BY DEF VectorRead, VectorReadFails, KeyInv, Holds
<1>3. vec' \in [Keys -> Seq(Writers \cup {Old})]
  BY <1>2, VectorTypes DEF VectorRead, VectorReadFails, VolTypeOK
<1>4. wpc'[w] = p /\ \A v \in Writers : v # w => wpc'[v] = wpc[v]
  BY <1>1 DEF WriterTypeOK
<1>5. \A v \in Writers : wkey[v] = k /\ wpc[v] = "vecio" => v = w
  BY <1>2 DEF ExclInv
<1>6. /\ readingVec' \in [Keys -> BOOLEAN]
      /\ \A j \in Keys : readingVec'[j] = IF j = k THEN FALSE ELSE readingVec[j]
  BY <1>1, <1>2 DEF VolTypeOK
<1> HIDE DEF k
<1>7. FlagInv'
  <2> SUFFICES ASSUME NEW j \in Keys
               PROVE  /\ readingVec'[j] <=> \E v \in Writers : wkey'[v] = j /\ wpc'[v] = "vecio"
                      /\ writingVec'[j] <=> \E v \in Writers : wkey'[v] = j /\ wpc'[v] = "headio"
    BY DEF FlagInv
  <2>1. CASE j = k
    BY <2>1, <1>1, <1>2, <1>4, <1>5, <1>6 DEF FlagInv
  <2>2. CASE j # k
    BY <2>2, <1>1, <1>2, <1>4, <1>6 DEF FlagInv, k
  <2> QED
    BY <2>1, <2>2
<1>8. ExclInv'
  BY <1>1, <1>4 DEF ExclInv
<1>9. writingVec' \in [Keys -> BOOLEAN] /\ dir' \in SUBSET Keys /\ failed' \in [Writers -> BOOLEAN]
  BY <1>1 DEF VolTypeOK, WriterTypeOK
<1>10. p \in WriterStates \ {"idle", "wait", "vecio"}
  BY DEF WriterStates
<1> QED
  BY <1>1, <1>2, <1>3, <1>6, <1>7, <1>8, <1>9, <1>10, FlagParts

(* updateVector under the lock.                                            *)
LEMMA UpdateVectorStep ==
  ASSUME IInv, NEW w \in Writers, UpdateVector(w)
  PROVE  IInv'
<1> USE DEF IInv, TypeOK, VectorInv
<1> DEFINE k == wkey[w]
<1>1. wpc[w] = "locked" /\ k \in Keys /\ Holds(w)
  BY DEF UpdateVector, KeyInv, Holds
<1>2. UNCHANGED <<policy, od, readingVec, dir, ramVars, readerVars, older,
                  wkey, multi, alt, nbytes, total, closed, failed, opens>>
  BY DEF UpdateVector
<1>3. /\ readingVec' \in [Keys -> BOOLEAN] /\ dir' \in SUBSET Keys
      /\ failed' \in [Writers -> BOOLEAN]
  BY <1>2 DEF VolTypeOK, WriterTypeOK
<1>4. CASE ~writingVec[k] /\ vec' = [vec EXCEPT ![k] = Append(Trimmed(@), w)]
           /\ writingVec' = [writingVec EXCEPT ![k] = TRUE]
           /\ wpc' = [wpc EXCEPT ![w] = "headio"]
  <2>1. vec' \in [Keys -> Seq(Writers \cup {Old})]
    BY <1>1, <1>4, VectorTypes
  <2>2. wpc'[w] = "headio" /\ \A v \in Writers : v # w => wpc'[v] = wpc[v]
    BY <1>4 DEF WriterTypeOK
  <2>3. /\ writingVec' \in [Keys -> BOOLEAN]
        /\ \A j \in Keys : writingVec'[j] = IF j = k THEN TRUE ELSE writingVec[j]
    BY <1>1, <1>4 DEF VolTypeOK
  <2>4. \A v \in Writers : wkey[v] = k => wpc[v] \notin {"headio", "vecio"}
    BY <1>1, <1>4 DEF FlagInv, ExclInv
  <2> HIDE DEF k
  <2>5. FlagInv'
    <3> SUFFICES ASSUME NEW j \in Keys
                 PROVE  /\ readingVec'[j] <=> \E v \in Writers : wkey'[v] = j /\ wpc'[v] = "vecio"
                        /\ writingVec'[j] <=> \E v \in Writers : wkey'[v] = j /\ wpc'[v] = "headio"
      BY DEF FlagInv
    <3>1. CASE j = k
      <4>1. ~readingVec'[j] /\ writingVec'[j]
        BY <3>1, <1>1, <1>2, <2>3, <2>4 DEF FlagInv
      <4>2. \A v \in Writers : wkey'[v] = j => wpc'[v] # "vecio"
        BY <3>1, <1>2, <2>2, <2>4
      <4>3. wkey'[w] = j /\ wpc'[w] = "headio"
        BY <3>1, <1>2, <2>2 DEF k
      <4> QED
        BY <4>1, <4>2, <4>3
    <3>2. CASE j # k
      <4>1. readingVec'[j] = readingVec[j] /\ writingVec'[j] = writingVec[j]
        BY <3>2, <1>2, <2>3
      <4>2. \A v \in Writers : wkey'[v] = j => wkey[v] = j /\ wpc'[v] = wpc[v]
        BY <3>2, <1>2, <2>2 DEF k
      <4>3. \A v \in Writers : wkey[v] = j => wkey'[v] = j /\ wpc'[v] = wpc[v]
        BY <3>2, <1>2, <2>2 DEF k
      <4> QED
        BY <4>1, <4>2, <4>3 DEF FlagInv
    <3> QED
      BY <3>1, <3>2
  <2>6. ExclInv'
    BY <1>2, <2>2, <2>4 DEF ExclInv, k
  <2>7. "headio" \in WriterStates \ {"idle", "wait", "vecio"}
    BY DEF WriterStates
  <2> QED
    BY <1>1, <1>2, <1>3, <1>4, <2>1, <2>3, <2>5, <2>6, <2>7, FlagParts
<1>5. CASE wpc' = [wpc EXCEPT ![w] = "vector"] /\ UNCHANGED <<vec, writingVec>>
  <2>1. wpc'[w] = "vector" /\ \A v \in Writers : v # w => wpc'[v] = wpc[v]
    BY <1>5 DEF WriterTypeOK
  <2>2. FlagInv' /\ ExclInv'
    BY <1>1, <1>2, <1>5, <2>1, MoveKeepsVector
  <2>3. vec' \in [Keys -> Seq(Writers \cup {Old})] /\ writingVec' \in [Keys -> BOOLEAN]
    BY <1>5 DEF VolTypeOK
  <2>4. "vector" \in WriterStates \ {"idle", "wait", "vecio"}
    BY DEF WriterStates
  <2> QED
    BY <1>1, <1>2, <1>3, <1>5, <2>2, <2>3, <2>4, FlagParts
<1> QED
  BY <1>4, <1>5 DEF UpdateVector, WritesVector

(* openWriteCloseHeadDone resets the flag of the one writer of the vector. *)
LEMMA HeadDoneStep ==
  ASSUME IInv, NEW w \in Writers, HeadDone(w)
  PROVE  IInv'
<1> USE DEF IInv, TypeOK, VectorInv
<1> DEFINE k == wkey[w]
<1>1. /\ wpc' = [wpc EXCEPT ![w] = "closedir"]
      /\ writingVec' = [writingVec EXCEPT ![k] = FALSE]
      /\ UNCHANGED <<policy, od, vec, readingVec, ramVars, readerVars, older, wkey,
                     multi, alt, nbytes, total, closed, opens>>
  BY DEF HeadDone, WritingDone
<1>2. wpc[w] = "headio" /\ k \in Keys /\ Holds(w)
  BY DEF HeadDone, KeyInv, Holds
<1>3. failed' \in [Writers -> BOOLEAN] /\ dir' \in SUBSET Keys
  BY <1>2 DEF HeadDone, WriterTypeOK, VolTypeOK
<1>4. wpc'[w] = "closedir" /\ \A v \in Writers : v # w => wpc'[v] = wpc[v]
  BY <1>1 DEF WriterTypeOK
<1>5. \A v \in Writers : wkey[v] = k /\ wpc[v] = "headio" => v = w
  BY <1>2 DEF ExclInv
<1>6. /\ writingVec' \in [Keys -> BOOLEAN]
      /\ \A j \in Keys : writingVec'[j] = IF j = k THEN FALSE ELSE writingVec[j]
  BY <1>1, <1>2 DEF VolTypeOK
<1> HIDE DEF k
<1>7. FlagInv'
  <2> SUFFICES ASSUME NEW j \in Keys
               PROVE  /\ readingVec'[j] <=> \E v \in Writers : wkey'[v] = j /\ wpc'[v] = "vecio"
                      /\ writingVec'[j] <=> \E v \in Writers : wkey'[v] = j /\ wpc'[v] = "headio"
    BY DEF FlagInv
  <2>1. CASE j = k
    BY <2>1, <1>1, <1>2, <1>4, <1>5, <1>6 DEF FlagInv
  <2>2. CASE j # k
    BY <2>2, <1>1, <1>2, <1>4, <1>6 DEF FlagInv, k
  <2> QED
    BY <2>1, <2>2
<1>8. ExclInv'
  BY <1>1, <1>4 DEF ExclInv
<1>9. readingVec' \in [Keys -> BOOLEAN] /\ vec' \in [Keys -> Seq(Writers \cup {Old})]
  BY <1>1 DEF VolTypeOK
<1>10. "closedir" \in WriterStates \ {"idle", "wait", "vecio"}
  BY DEF WriterStates
<1> QED
  BY <1>1, <1>2, <1>3, <1>6, <1>7, <1>8, <1>9, <1>10, FlagParts

(* A freed write connection keeps its type.                                *)
LEMMA FreeWriterStep ==
  ASSUME WriterTypeOK, NEW w \in Writers, FreeWriter(w), UNCHANGED opens
  PROVE  /\ WriterTypeOK'
         /\ wpc'[w] = "idle" /\ wkey'[w] = NoKey /\ ~alt'[w] /\ total'[w] = 0 /\ closed'[w] = 0
         /\ \A v \in Writers : v # w =>
              /\ wpc'[v] = wpc[v] /\ wkey'[v] = wkey[v] /\ alt'[v] = alt[v]
              /\ nbytes'[v] = nbytes[v] /\ total'[v] = total[v] /\ closed'[v] = closed[v]
<1>1. /\ wpc' \in [Writers -> WriterStates] /\ wkey' \in [Writers -> Keys \cup {NoKey}]
      /\ multi' \in [Writers -> BOOLEAN] /\ alt' \in [Writers -> BOOLEAN]
      /\ nbytes' \in [Writers -> Nat] /\ total' \in [Writers -> Nat]
      /\ closed' \in [Writers -> 0..2] /\ failed' \in [Writers -> BOOLEAN]
  BY DEF WriterTypeOK, FreeWriter, WriterStates
<1>2. /\ wpc'[w] = "idle" /\ wkey'[w] = NoKey /\ ~alt'[w] /\ nbytes'[w] = 0
      /\ total'[w] = 0 /\ closed'[w] = 0
  BY DEF WriterTypeOK, FreeWriter
<1>3. \A v \in Writers : v # w =>
              /\ wpc'[v] = wpc[v] /\ wkey'[v] = wkey[v] /\ alt'[v] = alt[v]
              /\ nbytes'[v] = nbytes[v] /\ total'[v] = total[v] /\ closed'[v] = closed[v]
  BY DEF WriterTypeOK, FreeWriter
<1>4. WriterTypeOK'
  BY <1>1, <1>2, <1>3 DEF WriterTypeOK
<1> QED
  BY <1>2, <1>3, <1>4

(* A writer enters the entry of its key, which has room for it.            *)
LEMMA EntryGrows ==
  ASSUME IInv, NEW w \in Writers, NEW k \in Keys, NEW m \in BOOLEAN,
         Admissible(k, m), od' = [od EXCEPT ![k] = @ \cup {w}]
  PROVE  CardInv'
<1> SUFFICES ASSUME NEW j \in Keys PROVE Cardinality(od'[j]) <= Limit
  BY DEF CardInv
<1>1. od \in [Keys -> SUBSET Writers] /\ Cardinality(od[j]) <= Limit
  BY DEF IInv, TypeOK, VolTypeOK, CardInv
<1>2. CASE j # k
  BY <1>1, <1>2
<1>3. CASE j = k
  <2>1. od'[j] = od[k] \cup {w} /\ IsFiniteSet(od[k]) /\ Cardinality(od[k]) \in Nat
    BY <1>1, <1>3, FS_Subset, FS_CardinalityType
  <2>2. Cardinality(od[k] \cup {w}) \in {Cardinality(od[k]), Cardinality(od[k]) + 1}
    BY <2>1, FS_AddElement, Zenon
  <2>3. Cardinality(od[k]) + 1 <= Limit
    <3>1. CASE od[k] = {}
      <4>1. Cardinality(od[k]) = 0
        BY <3>1, FS_EmptySet
      <4> QED
        BY <4>1 DEF Limit
    <3>2. CASE MayJoin(k, m)
      BY <2>1, <3>2 DEF MayJoin, Limit
    <3> QED
      BY <3>1, <3>2 DEF Admissible
  <2>4. Limit \in Nat
    BY DEF Limit
  <2>5. \A c, n \in Nat : n \in {c, c + 1} /\ c + 1 <= Limit => n <= Limit
    BY <2>4
  <2>6. Cardinality(od[k] \cup {w}) \in Nat
    BY <2>1, <2>2
  <2>7. Cardinality(od[k] \cup {w}) <= Limit
    BY <2>1, <2>2, <2>3, <2>5, <2>6
  <2> QED
    BY <2>1, <2>7
<1> QED
  BY <1>2, <1>3

(* open_write, with the lock or without it.                                *)
LEMMA OpenWriteStep ==
  ASSUME IInv, NEW w \in Writers, NEW k \in Keys, NEW m \in BOOLEAN,
         OpenWrite(w, k, m) \/ OpenWriteMissedLock(w, k, m)
  PROVE  IInv'
<1> USE DEF IInv, TypeOK, VectorInv, SizeInv
<1>1. /\ wpc[w] = "idle" /\ opens < MaxOpens /\ opens' = opens + 1
      /\ wkey' = [wkey EXCEPT ![w] = k] /\ multi' = [multi EXCEPT ![w] = m]
      /\ older' = [r \in Readers |-> older[r] \ {w}]
      /\ UNCHANGED <<policy, vec, readingVec, writingVec, dir, ramVars, readerVars,
                     alt, nbytes, total, closed, failed>>
  BY DEF OpenWrite, OpenWriteMissedLock, volVars
<1>2. PICK p \in {"main", "wait"} :
        /\ wpc' = [wpc EXCEPT ![w] = p]
        /\ \/ p = "main" /\ od' = [od EXCEPT ![k] = @ \cup {w}] /\ CardInv'
           \/ p = "wait" /\ od' = od
  BY EntryGrows DEF OpenWrite, OpenWriteMissedLock, volVars
<1>3. /\ wpc'[w] = p /\ wkey'[w] = k
      /\ \A v \in Writers : v # w => wpc'[v] = wpc[v] /\ wkey'[v] = wkey[v]
  BY <1>1, <1>2 DEF WriterTypeOK
<1>4. older' \in [Readers -> SUBSET Writers]
  BY <1>1 DEF ReaderTypeOK
<1>5. VolTypeOK'
  <2>1. CASE od' = od
    BY <1>1, <2>1 DEF VolTypeOK, ramVars
  <2>2. CASE od' = [od EXCEPT ![k] = @ \cup {w}]
    <3>1. od' \in [Keys -> SUBSET Writers]
      BY <2>2 DEF VolTypeOK
    <3> QED
      BY <1>1, <3>1 DEF VolTypeOK, ramVars
  <2> QED
    BY <1>2, <2>1, <2>2
<1>6. WriterTypeOK'
  BY <1>1, <1>2 DEF WriterTypeOK, WriterStates
<1>7. OpenInv'
  <2> SUFFICES ASSUME NEW j \in Keys, NEW v \in Writers
               PROVE  v \in od'[j] <=> wkey'[v] = j /\ wpc'[v] \notin {"idle", "wait"}
    BY DEF OpenInv, Holds
  <2>1. v \in od[j] <=> wkey[v] = j /\ wpc[v] \notin {"idle", "wait"}
    BY DEF OpenInv, Holds
  <2>2. v \in od'[j] <=> v \in od[j] \/ (p = "main" /\ j = k /\ v = w)
    BY <1>2 DEF VolTypeOK
  <2> QED
    BY <1>1, <1>3, <2>1, <2>2
<1>8. FlagInv'
  <2>1. \A v \in Writers : \A j \in Keys : \A q \in {"vecio", "headio"} :
          wkey'[v] = j /\ wpc'[v] = q <=> wkey[v] = j /\ wpc[v] = q
    BY <1>1, <1>2, <1>3
  <2> QED
    BY <1>1, <2>1 DEF FlagInv
<1>9. ExclInv'
  BY <1>1, <1>2, <1>3 DEF ExclInv
<1>10. WriterSizes'
  BY <1>1, <1>3 DEF WriterSizes
<1>11. \A v \in Writers : wpc'[v] # "idle" => wkey'[v] \in Keys
  BY <1>3 DEF KeyInv
<1>12. CardInv'
  BY <1>2 DEF CardInv
<1>13. \A j \in Keys : policy'[j] \in SizesOf[j] \cup {0}
  BY <1>1 DEF StoreSizes
<1> QED
  BY <1>1, <1>4, <1>5, <1>6, <1>7, <1>8, <1>9, <1>10, <1>11, <1>12, <1>13, WriterParts

(* openWriteStartDone: the first writer of a key may read its vector.      *)
LEMMA StartDoneStep ==
  ASSUME IInv, NEW w \in Writers, StartDone(w)
  PROVE  IInv'
<1> USE DEF IInv, TypeOK, VectorInv, SizeInv
<1> DEFINE k == wkey[w]
<1>1. /\ wpc[w] = "wait" /\ k \in Keys /\ Admissible(k, multi[w])
      /\ multi[w] \in BOOLEAN
      /\ od' = [od EXCEPT ![k] = @ \cup {w}]
      /\ UNCHANGED <<policy, vec, writingVec, dir, ramVars, readerVars, older,
                     wkey, multi, alt, nbytes, total, closed, failed, opens>>
  BY DEF StartDone, KeyInv, WriterTypeOK
<1>2. PICK p \in {"main", "vecio"} :
        /\ wpc' = [wpc EXCEPT ![w] = p]
        /\ \/ p = "main" /\ readingVec' = readingVec
           \/ /\ p = "vecio" /\ od[k] = {}
              /\ readingVec' = [readingVec EXCEPT ![k] = TRUE]
  BY DEF StartDone
<1>3. wpc'[w] = p /\ \A v \in Writers : v # w => wpc'[v] = wpc[v]
  BY <1>2 DEF WriterTypeOK
<1>4. CardInv'
  BY <1>1, EntryGrows
<1>5. p = "vecio" => \A v \in Writers : wkey[v] = k => wpc[v] \in {"idle", "wait"}
  BY <1>1, <1>2 DEF OpenInv, Holds
<1>6. /\ readingVec' \in [Keys -> BOOLEAN]
      /\ \A j \in Keys : readingVec'[j] = IF j = k /\ p = "vecio" THEN TRUE ELSE readingVec[j]
  BY <1>1, <1>2 DEF VolTypeOK
<1>7. \A j \in Keys, v \in Writers : v \in od'[j] <=> v \in od[j] \/ (j = k /\ v = w)
  BY <1>1 DEF VolTypeOK
<1>8. VolTypeOK'
  <2>1. od' \in [Keys -> SUBSET Writers]
    BY <1>1 DEF VolTypeOK
  <2> QED
    BY <1>1, <1>6, <2>1 DEF VolTypeOK, ramVars
<1>9. WriterTypeOK' /\ older' \in [Readers -> SUBSET Writers]
  BY <1>1, <1>2 DEF WriterTypeOK, WriterStates, ReaderTypeOK
<1> HIDE DEF k
<1>10. OpenInv'
  BY <1>1, <1>3, <1>7 DEF OpenInv, Holds, k
<1>11. FlagInv'
  <2> SUFFICES ASSUME NEW j \in Keys
               PROVE  /\ readingVec'[j] <=> \E v \in Writers : wkey'[v] = j /\ wpc'[v] = "vecio"
                      /\ writingVec'[j] <=> \E v \in Writers : wkey'[v] = j /\ wpc'[v] = "headio"
    BY DEF FlagInv
  <2>1. writingVec'[j] <=> \E v \in Writers : wkey'[v] = j /\ wpc'[v] = "headio"
    <3>1. \A v \in Writers : wpc'[v] = "headio" <=> wpc[v] = "headio"
      BY <1>1, <1>3
    <3> QED
      BY <1>1, <3>1 DEF FlagInv
  <2>2. CASE j = k /\ p = "vecio"
    <3>1. wkey'[w] = j /\ wpc'[w] = "vecio"
      BY <2>2, <1>1, <1>3 DEF k
    <3> QED
      BY <2>1, <2>2, <1>6, <3>1
  <2>3. CASE ~(j = k /\ p = "vecio")
    <3>1. \A v \in Writers : wkey'[v] = j /\ wpc'[v] = "vecio" <=> wkey[v] = j /\ wpc[v] = "vecio"
      BY <2>3, <1>1, <1>3 DEF k
    <3>2. readingVec'[j] = readingVec[j]
      BY <2>3, <1>6
    <3>3. readingVec[j] <=> \E v \in Writers : wkey[v] = j /\ wpc[v] = "vecio"
      BY DEF FlagInv
    <3>4. readingVec'[j] <=> \E v \in Writers : wkey'[v] = j /\ wpc'[v] = "vecio"
      BY <3>1, <3>2, <3>3, Zenon
    <3> QED
      BY <2>1, <3>4
  <2> QED
    BY <2>2, <2>3
<1>12. ExclInv'
  BY <1>1, <1>3, <1>5 DEF ExclInv, k
<1>13. WriterSizes'
  BY <1>1, <1>3 DEF WriterSizes
<1>14. \A v \in Writers : wpc'[v] # "idle" => wkey'[v] \in Keys
  BY <1>1, <1>3 DEF KeyInv
<1>15. \A j \in Keys : policy'[j] \in SizesOf[j] \cup {0}
  BY <1>1 DEF StoreSizes
<1> QED
  BY <1>1, <1>4, <1>8, <1>9, <1>10, <1>11, <1>12, <1>13, <1>14, <1>15, WriterParts

(* openWriteStartDone gives up before it entered the open directory.       *)
LEMMA OpenWriteFailsStep ==
  ASSUME IInv, NEW w \in Writers, OpenWriteFails(w)
  PROVE  IInv'
<1> USE DEF IInv, TypeOK, VectorInv, SizeInv
<1>1. /\ wpc[w] = "wait" /\ FreeWriter(w)
      /\ UNCHANGED <<volVars, ramVars, readerVars, older, opens>>
  BY DEF OpenWriteFails
<1>2. /\ WriterTypeOK'
      /\ wpc'[w] = "idle" /\ wkey'[w] = NoKey /\ ~alt'[w] /\ total'[w] = 0 /\ closed'[w] = 0
      /\ \A v \in Writers : v # w =>
           /\ wpc'[v] = wpc[v] /\ wkey'[v] = wkey[v] /\ alt'[v] = alt[v]
           /\ nbytes'[v] = nbytes[v] /\ total'[v] = total[v] /\ closed'[v] = closed[v]
  BY <1>1, FreeWriterStep
<1>3. VolTypeOK' /\ older' \in [Readers -> SUBSET Writers] /\ CardInv'
  BY <1>1 DEF VolTypeOK, ReaderTypeOK, CardInv, volVars, ramVars
<1>4. OpenInv'
  BY <1>1, <1>2 DEF OpenInv, Holds, volVars
<1>5. FlagInv'
  <2>1. \A v \in Writers : \A j \in Keys : \A q \in {"vecio", "headio"} :
          wkey'[v] = j /\ wpc'[v] = q <=> wkey[v] = j /\ wpc[v] = q
    BY <1>1, <1>2
  <2> QED
    BY <1>1, <2>1 DEF FlagInv, volVars
<1>6. ExclInv'
  BY <1>1, <1>2 DEF ExclInv
<1>7. WriterSizes'
  BY <1>2 DEF WriterSizes
<1>8. \A v \in Writers : wpc'[v] # "idle" => wkey'[v] \in Keys
  BY <1>2 DEF KeyInv
<1>9. \A j \in Keys : policy'[j] \in SizesOf[j] \cup {0}
  BY <1>1 DEF StoreSizes, volVars
<1> QED
  BY <1>1, <1>2, <1>3, <1>4, <1>5, <1>6, <1>7, <1>8, <1>9, WriterParts

(* openWriteCloseDir: the writer leaves the entry of its key, and what it  *)
(* offers to the policy is an object of that key.                          *)
LEMMA CloseDirStep ==
  ASSUME IInv, NEW w \in Writers, CloseDir(w)
  PROVE  IInv'
<1> USE DEF IInv, TypeOK, VectorInv, SizeInv
<1> DEFINE k == wkey[w]
<1>1. /\ wpc[w] = "closedir" /\ FreeWriter(w) /\ k \in Keys
      /\ od' = [od EXCEPT ![k] = od[k] \ {w}]
      /\ UNCHANGED <<readingVec, writingVec, dir, ramVars, readerVars, older, opens>>
  BY DEF CloseDir, KeyInv, Left
<1>2. /\ WriterTypeOK'
      /\ wpc'[w] = "idle" /\ wkey'[w] = NoKey /\ ~alt'[w] /\ total'[w] = 0 /\ closed'[w] = 0
      /\ \A v \in Writers : v # w =>
           /\ wpc'[v] = wpc[v] /\ wkey'[v] = wkey[v] /\ alt'[v] = alt[v]
           /\ nbytes'[v] = nbytes[v] /\ total'[v] = total[v] /\ closed'[v] = closed[v]
  BY <1>1, FreeWriterStep
<1>3. policy' \in [Keys -> Nat] /\ \A j \in Keys : policy'[j] \in SizesOf[j] \cup {0}
  <2>1. CASE policy' = policy
    BY <2>1 DEF VolTypeOK, StoreSizes
  <2>2. CASE alt[w] /\ Admit(k, nbytes[w])
    <3>1. PICK evicted \in SUBSET Keys, admitted \in BOOLEAN :
            policy' = [j \in Keys |-> IF j \in evicted THEN 0
                                      ELSE IF j = k /\ admitted THEN nbytes[w] ELSE policy[j]]
      BY <2>2 DEF Admit
    <3>2. nbytes[w] \in SizesOf[k] /\ nbytes[w] \in Nat
      BY <2>2 DEF WriterSizes, WriterTypeOK
    <3>3. \A j \in Keys : policy'[j] = 0 \/ (j = k /\ policy'[j] = nbytes[w]) \/ policy'[j] = policy[j]
      BY <3>1
    <3>4. \A j \in Keys : policy[j] \in SizesOf[j] \cup {0} /\ policy[j] \in Nat
      BY DEF StoreSizes, VolTypeOK
    <3>5. \A j \in Keys : policy'[j] \in SizesOf[j] \cup {0}
      BY <3>2, <3>3, <3>4
    <3> QED
      BY <3>1, <3>2, <3>4, <3>5
  <2> QED
    BY <2>1, <2>2 DEF CloseDir
<1>4. vec' \in [Keys -> Seq(Writers \cup {Old})]
  BY <1>1, VectorTypes DEF CloseDir
<1>5. /\ od' \in [Keys -> SUBSET Writers]
      /\ \A j \in Keys, v \in Writers : v \in od'[j] <=> v \in od[j] /\ ~(j = k /\ v = w)
  BY <1>1 DEF VolTypeOK
<1>6. VolTypeOK' /\ older' \in [Readers -> SUBSET Writers]
  BY <1>1, <1>3, <1>4, <1>5 DEF VolTypeOK, ReaderTypeOK, ramVars
<1>7. CardInv'
  <2> SUFFICES ASSUME NEW j \in Keys PROVE Cardinality(od'[j]) <= Limit
    BY DEF CardInv
  <2>1. od'[j] \subseteq od[j] /\ IsFiniteSet(od[j]) /\ Cardinality(od[j]) <= Limit
    BY <1>5, FS_Subset DEF CardInv, VolTypeOK
  <2>2. Cardinality(od'[j]) <= Cardinality(od[j])
    BY <2>1, FS_Subset
  <2>3. Cardinality(od'[j]) \in Nat /\ Cardinality(od[j]) \in Nat
    BY <2>1, FS_Subset, FS_CardinalityType
  <2> QED
    BY <2>1, <2>2, <2>3 DEF Limit
<1>8. OpenInv'
  BY <1>1, <1>2, <1>5 DEF OpenInv, Holds
<1>9. FlagInv'
  <2>1. \A v \in Writers : \A j \in Keys : \A q \in {"vecio", "headio"} :
          wkey'[v] = j /\ wpc'[v] = q <=> wkey[v] = j /\ wpc[v] = q
    BY <1>1, <1>2
  <2> QED
    BY <1>1, <2>1 DEF FlagInv
<1>10. ExclInv'
  BY <1>1, <1>2 DEF ExclInv
<1>11. WriterSizes'
  BY <1>2 DEF WriterSizes
<1>12. \A v \in Writers : wpc'[v] # "idle" => wkey'[v] \in Keys
  BY <1>2 DEF KeyInv
<1> QED
  BY <1>1, <1>2, <1>3, <1>6, <1>7, <1>8, <1>9, <1>10, <1>11, <1>12, WriterParts

-----------------------------------------------------------------------------
(* Every step of a writer keeps the invariant.                             *)
LEMMA WriterStep ==
  ASSUME IInv, NEW w \in Writers, Writer(w)
  PROVE  IInv'
<1>1. CASE \E k \in Keys, m \in BOOLEAN : OpenWrite(w, k, m) \/ OpenWriteMissedLock(w, k, m)
  BY <1>1, OpenWriteStep
<1>2. CASE StartDone(w)
  BY <1>2, StartDoneStep
<1>3. CASE OpenWriteFails(w)
  BY <1>3, OpenWriteFailsStep
<1>4. CASE VectorRead(w) \/ VectorReadFails(w)
  BY <1>4, VectorReadStep
<1>5. CASE DoIoWrite(w) \/ WriteMain(w) \/ CloseWrite(w) \/ AbortWrite(w) \/ TestVector(w)
  BY <1>5, MainStep
<1>6. CASE UpdateVector(w)
  BY <1>6, UpdateVectorStep
<1>7. CASE HeadDone(w)
  BY <1>7, HeadDoneStep
<1>8. CASE CloseDir(w)
  BY <1>8, CloseDirStep
<1> QED
  BY <1>1, <1>2, <1>3, <1>4, <1>5, <1>6, <1>7, <1>8 DEF Writer

(* A step that changes nothing keeps the invariant.                        *)
LEMMA StutterStep ==
  ASSUME IInv, UNCHANGED vars
  PROVE  IInv'
<1> USE DEF vars, volVars, ramVars, readerVars, writerVars
<1>1. TypeOK'
  BY DEF IInv, TypeOK, VolTypeOK, ReaderTypeOK, WriterTypeOK
<1>2. KeyInv'
  BY DEF IInv, KeyInv
<1>3. VectorInv'
  BY DEF IInv, VectorInv, OpenInv, FlagInv, ExclInv, Holds
<1>4. CardInv'
  BY DEF IInv, CardInv
<1>5. SizeInv'
  BY DEF IInv, SizeInv, StoreSizes, WriterSizes, ReaderSizes
<1> QED
  BY <1>1, <1>2, <1>3, <1>4, <1>5 DEF IInv

(* The invariant holds in every state a volume reaches.                    *)
THEOREM Invariance == Spec => []IInv
<1>1. IInv /\ [Next]_vars => IInv'
  BY ReaderStep, WriterStep, StutterStep DEF Next, Done
<1> QED
  BY <1>1, InitIInv, PTL DEF Spec

(* Every variable keeps its type, and no connection writes more than its   *)
(* caller asked for.                                                       *)
THEOREM TypeCorrect == Spec => []TypeOK
<1>1. IInv => TypeOK
  BY DEF IInv
<1> QED
  BY <1>1, Invariance, PTL

(* For any number of connections, the open directory entry of a key lists  *)
(* exactly the writers that hold it open, at most max_writers of them,     *)
(* however their opens and closes fail.                                    *)
THEOREM OpenDirIsExact == Spec => []OpenDirExact
<1>1. IInv => OpenDirExact
  <2> SUFFICES ASSUME IInv, NEW k \in Keys
               PROVE  od[k] = Holding(k) /\ Cardinality(od[k]) <= Limit
    BY DEF OpenDirExact, Limit
  <2>1. od[k] \subseteq Writers
    BY DEF IInv, TypeOK, VolTypeOK
  <2>2. \A w \in Writers : w \in od[k] <=> w \in Holding(k)
    BY DEF IInv, VectorInv, OpenInv, Holds, Holding
  <2>3. Holding(k) \subseteq Writers
    BY DEF Holding
  <2>4. od[k] = Holding(k)
    BY <2>1, <2>2, <2>3, Zenon
  <2> QED
    BY <2>4 DEF IInv, CardInv
<1> QED
  BY <1>1, Invariance, PTL

(* For any number of writers of a key, at most one writes its vector, and  *)
(* nobody reads the vector meanwhile, although updateVector tests          *)
(* reading_vec before it takes the lock and not again.                     *)
THEOREM VectorIsExclusive == Spec => []VectorExclusive
<1>1. IInv => VectorExclusive
  <2> SUFFICES ASSUME IInv, NEW k \in Keys
               PROVE  LET reading == {w \in Holding(k) : wpc[w] = "vecio"}
                          writing == {w \in Holding(k) : wpc[w] = "headio"}
                      IN  /\ \A v, w \in writing : v = w
                          /\ writingVec[k] <=> writing # {}
                          /\ readingVec[k] <=> reading # {}
                          /\ ~(readingVec[k] /\ writingVec[k])
    BY DEF VectorExclusive
  <2> DEFINE reading == {w \in Holding(k) : wpc[w] = "vecio"}
             writing == {w \in Holding(k) : wpc[w] = "headio"}
  <2>1. \A w : w \in reading <=> w \in Writers /\ wkey[w] = k /\ wpc[w] = "vecio"
    BY DEF Holding
  <2>2. \A w : w \in writing <=> w \in Writers /\ wkey[w] = k /\ wpc[w] = "headio"
    BY DEF Holding
  <2> HIDE DEF reading, writing
  <2>3. \A v, w \in writing : v = w
    BY <2>2 DEF IInv, VectorInv, ExclInv
  <2>4. (writingVec[k] <=> writing # {}) /\ (readingVec[k] <=> reading # {})
    <3>1. /\ writingVec[k] <=> \E w \in Writers : wkey[w] = k /\ wpc[w] = "headio"
          /\ readingVec[k] <=> \E w \in Writers : wkey[w] = k /\ wpc[w] = "vecio"
      BY DEF IInv, VectorInv, FlagInv
    <3> QED
      BY <2>1, <2>2, <3>1, Zenon
  <2>5. reading = {} \/ writing = {}
    BY <2>1, <2>2 DEF IInv, VectorInv, ExclInv
  <2>6. ~(readingVec[k] /\ writingVec[k])
    BY <2>4, <2>5, Zenon
  <2> QED
    BY <2>3, <2>4, <2>6 DEF reading, writing
<1> QED
  BY <1>1, Invariance, PTL

(* A document that is served has a length the origin gave for its key,     *)
(* whether it came from the disk, the RAM cache, the last document read or *)
(* a writer: for any keys and sizes and any interleaving.                  *)
THEOREM ServedIsComplete == Spec => []ServedComplete
<1>1. IInv => ServedComplete
  BY DEF IInv, SizeInv, ReaderSizes, ServedComplete
<1> QED
  BY <1>1, Invariance, PTL
=============================================================================
