----------------------------- MODULE VdiskCache -----------------------------
(***************************************************************************)
(* One volume of the proxy's cache when a learned or heuristic policy      *)
(* decides what is cached (proxy.config.cache.vdisk_cache.algorithm): the  *)
(* cache connections (CacheVC) that read and write objects, and what they  *)
(* share under the volume's mutex.                                         *)
(*                                                                         *)
(* The policy replaces the directory on the read path: an object is a hit  *)
(* when the policy knows its length, and the bytes that are served for it  *)
(* are read from an arbitrary place of the disk and given a header that    *)
(* announces that length.  The write path still keeps the table of open    *)
(* writers (OpenDir) and the directory.  A hit may also come from the RAM  *)
(* cache or from the last document read on the volume.                     *)
(*                                                                         *)
(* An object has one fragment (below the target fragment size), is not     *)
(* empty, and is not an update of a cached one; read_while_writer is off,  *)
(* as in tsconfig/records.config.  Each step holds the volume's mutex from *)
(* its CACHE_TRY_LOCK on; a missed lock only repeats the step, except in   *)
(* open_read and open_write, where it takes the other path below.          *)
(***************************************************************************)
EXTENDS Naturals, Sequences, FiniteSets

CONSTANTS Keys, Readers, Writers,
          NoKey, NoWriter,  \* none of the above
          SizesOf,          \* the lengths the origin may answer with, per key
          Cutoff,           \* ram_cache_cutoff: only shorter documents go to RAM
          MaxAlts,          \* cache_config_http_max_alts
          MaxOpens          \* bound: opens in a behaviour

ASSUME KeyAssumption    == NoKey \notin Keys
ASSUME WriterAssumption == NoWriter \notin Writers /\ IsFiniteSet(Writers)
ASSUME SizeAssumption   == SizesOf \in [Keys -> SUBSET (Nat \ {0})]
ASSUME NumberAssumption ==
  Cutoff \in Nat /\ MaxAlts \in Nat /\ MaxOpens \in Nat

VARIABLES
  (* the volume *)
  policy,      \* vdisk_cache: the length of each cached object, 0 if not cached
  od,          \* open_dir: the open writers of each key
  vec,         \* OpenDirEntry::vector: whose alternates it holds
  readingVec, writingVec,  \* OpenDirEntry::reading_vec, writing_vec
  dir,         \* the keys with an entry in the directory
  ram,         \* ram_cache: the length of the document kept for each key, or 0
  ffKey, ffLen,  \* first_fragment_key, first_fragment_data
  (* readers *)
  rpc, rkey,
  rlen,        \* first_key_value_len
  rdoc,        \* the length in the document read; once open, doc_len
  called,      \* f.read_from_writer_called
  older,       \* the writers that started before the reader's clock
  writeVc,     \* write_vc
  (* writers *)
  wpc, wkey,
  multi,       \* CACHE_ALLOW_MULTIPLE_WRITES
  alt,         \* alternate.valid(): set_http_info was called
  nbytes,      \* vio.nbytes
  total,       \* total_len
  closed,      \* 0 open, 1 closed, 2 aborted (-1 in the code)
  failed,      \* the write of the head failed: !io.ok()
  opens        \* history: opens so far

volVars    == <<policy, od, vec, readingVec, writingVec, dir>>
ramVars    == <<ram, ffKey, ffLen>>
readerVars == <<rpc, rkey, rlen, rdoc, called, writeVc>>
writerVars == <<wpc, wkey, multi, alt, nbytes, total, closed, failed>>
vars == <<volVars, ramVars, readerVars, older, writerVars, opens>>

(* An alternate of a writer that has left, or that was read from disk.     *)
Old == NoWriter

Init ==
  /\ policy = [k \in Keys |-> 0]
  /\ od = [k \in Keys |-> {}]
  /\ vec = [k \in Keys |-> <<>>]
  /\ readingVec = [k \in Keys |-> FALSE]
  /\ writingVec = [k \in Keys |-> FALSE]
  /\ dir = {}
  /\ ram = [k \in Keys |-> 0] /\ ffKey = NoKey /\ ffLen = 0
  /\ rpc = [r \in Readers |-> "idle"]
  /\ rkey = [r \in Readers |-> NoKey]
  /\ rlen = [r \in Readers |-> 0]
  /\ rdoc = [r \in Readers |-> 0]
  /\ called = [r \in Readers |-> FALSE]
  /\ older = [r \in Readers |-> {}]
  /\ writeVc = [r \in Readers |-> NoWriter]
  /\ wpc = [w \in Writers |-> "idle"]
  /\ wkey = [w \in Writers |-> NoKey]
  /\ multi = [w \in Writers |-> FALSE]
  /\ alt = [w \in Writers |-> FALSE]
  /\ nbytes = [w \in Writers |-> 0]
  /\ total = [w \in Writers |-> 0]
  /\ closed = [w \in Writers |-> 0]
  /\ failed = [w \in Writers |-> FALSE]
  /\ opens = 0

-----------------------------------------------------------------------------
(* Reading.                                                                *)

(* Line 2481: it is the document that was read last.  The offset compared  *)
(* as well is computed from the key.                                       *)
InMemory(k) == ffKey = k

(* CacheVC::handleRead for a reader of k that got `len' from the policy:   *)
(* the RAM cache, the last document read, or else the disk.  The auxiliary *)
(* keys of the RAM cache are the offset, again computed from the key, so   *)
(* they never tell an old entry from a current one.                        *)
HandleRead(r, k, len) ==
  /\ rlen' = [rlen EXCEPT ![r] = len]
  /\ \/ /\ ram[k] # 0
        /\ rdoc' = [rdoc EXCEPT ![r] = ram[k]]
        /\ rpc' = [rpc EXCEPT ![r] = "head"]
     \/ /\ ram[k] = 0 /\ InMemory(k)
        /\ rdoc' = [rdoc EXCEPT ![r] = ffLen]
        /\ rpc' = [rpc EXCEPT ![r] = "head"]
     \/ /\ ram[k] = 0 /\ ~InMemory(k)
        /\ rdoc' = [rdoc EXCEPT ![r] = 0]
        /\ rpc' = [rpc EXCEPT ![r] = "io"]

(* Cache::open_read, the lock held.  A key the policy does not know is a   *)
(* miss: the caller is told at once and nothing changes.  OpenDir is not   *)
(* consulted.                                                              *)
OpenRead(r, k) ==
  /\ rpc[r] = "idle"
  /\ opens < MaxOpens
  /\ policy[k] # 0
  /\ HandleRead(r, k, policy[k])
  /\ rkey' = [rkey EXCEPT ![r] = k]
  /\ called' = [called EXCEPT ![r] = FALSE]
  /\ writeVc' = [writeVc EXCEPT ![r] = NoWriter]
  /\ opens' = opens + 1
  /\ UNCHANGED <<volVars, ramVars, older, writerVars>>

(* Cache::open_read, the lock missed: openReadStartHead starts over.       *)
OpenReadMissedLock(r, k) ==
  /\ rpc[r] = "idle"
  /\ opens < MaxOpens
  /\ rpc' = [rpc EXCEPT ![r] = "start"]
  /\ rkey' = [rkey EXCEPT ![r] = k]
  /\ rlen' = [rlen EXCEPT ![r] = 0]
  /\ rdoc' = [rdoc EXCEPT ![r] = 0]
  /\ called' = [called EXCEPT ![r] = FALSE]
  /\ writeVc' = [writeVc EXCEPT ![r] = NoWriter]
  /\ opens' = opens + 1
  /\ UNCHANGED <<volVars, ramVars, older, writerVars>>

(* The connection is freed, after the caller was told (or had cancelled).  *)
FreeReader(r) ==
  /\ rpc' = [rpc EXCEPT ![r] = "idle"]
  /\ rkey' = [rkey EXCEPT ![r] = NoKey]
  /\ rlen' = [rlen EXCEPT ![r] = 0]
  /\ rdoc' = [rdoc EXCEPT ![r] = 0]
  /\ called' = [called EXCEPT ![r] = FALSE]
  /\ writeVc' = [writeVc EXCEPT ![r] = NoWriter]
  /\ older' = [older EXCEPT ![r] = {}]

(* The caller cancels the open, or the disk read fails, or no alternate    *)
(* fits the request.                                                       *)
OpenReadFails(r) ==
  /\ rpc[r] \in {"start", "io", "head", "writer"}
  /\ FreeReader(r)
  /\ UNCHANGED <<volVars, ramVars, writerVars, opens>>

(* RamCacheLRU::put: the filter may turn the document away; an entry of    *)
(* the key is kept as it is; a new entry may push any others (or itself,   *)
(* when it is too large) out.                                              *)
RamPut(k, len) ==
  \/ UNCHANGED ram
  \/ /\ ram[k] = 0
     /\ \E out \in SUBSET Keys :
          ram' = [j \in Keys |-> IF j \in out THEN 0
                                 ELSE IF j = k THEN len ELSE ram[j]]

(* CacheVC::handleReadDone after a successful read: what was read gets a   *)
(* header that announces the policy's length (lines 2298-2323).            *)
ReadDone(r) ==
  /\ rpc[r] = "io"
  /\ rdoc' = [rdoc EXCEPT ![r] = rlen[r]]
  /\ rpc' = [rpc EXCEPT ![r] = "head"]
  /\ IF rlen[r] < Cutoff \/ Cutoff = 0
     THEN RamPut(rkey[r], rlen[r])
     ELSE UNCHANGED ram
  /\ ffKey' = rkey[r]
  /\ ffLen' = rlen[r]
  /\ UNCHANGED <<volVars, rkey, rlen, called, writeVc, older, writerVars, opens>>

(* openReadStartHead with a document: CACHE_EVENT_OPEN_READ.               *)
StartHead(r) ==
  /\ rpc[r] = "head"
  /\ rpc' = [rpc EXCEPT ![r] = "open"]
  /\ UNCHANGED <<volVars, ramVars, rkey, rlen, rdoc, called, writeVc, older,
                 writerVars, opens>>

(* mutant: f.read_from_writer_called is not tested *)
AsksWriter_Mutant(r) == od[rkey[r]] # {}

(* Line 1238: a writer is asked once.                                      *)
AsksWriter(r) == od[rkey[r]] # {} /\ ~called[r]

(* openReadStartHead without one (from Lread on).                          *)
StartOver(r) ==
  LET k == rkey[r]
  IN  /\ rpc[r] = "start"
      /\ \/ /\ AsksWriter(r)
            /\ rpc' = [rpc EXCEPT ![r] = "writer"]
            /\ UNCHANGED <<rkey, rlen, rdoc, called, writeVc, older>>
         \/ /\ ~AsksWriter(r)
            /\ policy[k] # 0
            /\ HandleRead(r, k, policy[k])
            /\ UNCHANGED <<rkey, called, writeVc, older>>
         \/ /\ ~AsksWriter(r)
            /\ policy[k] = 0
            /\ FreeReader(r)
      /\ UNCHANGED <<volVars, ramVars, writerVars, opens>>

(* openReadFromWriter, lines 353-364, before the lock: the reader's clock  *)
(* starts again.                                                           *)
RestartClock(r) ==
  /\ rpc[r] = "writer" /\ ~called[r]
  /\ called' = [called EXCEPT ![r] = TRUE]
  /\ older' = [older EXCEPT ![r] = {w \in Writers : wpc[w] # "idle"}]
  /\ UNCHANGED <<volVars, ramVars, rpc, rkey, rlen, rdoc, writeVc, writerVars,
                 opens>>

(* The reader goes back to openReadStartHead without a writer.             *)
BackToStart(r) ==
  /\ rpc' = [rpc EXCEPT ![r] = "start"]
  /\ writeVc' = [writeVc EXCEPT ![r] = NoWriter]
  /\ UNCHANGED <<rkey, rlen, rdoc, called, older>>

(* mutant: the writer is taken to be where it was left *)
WriterDone_Mutant(r) == FALSE

(* CacheVC::writer_done.                                                   *)
WriterDone(r) == writeVc[r] \notin od[rkey[r]] \cap older[r]

(* The writers openReadChooseWriter looks at, and the alternates it then   *)
(* chooses from: those of the vector, and of the writers that have not yet *)
(* put theirs there (alternate_index is still CACHE_ALT_INDEX_DEFAULT).    *)
Eligible(r) == {w \in od[rkey[r]] \cap older[r] : closed[w] # 2}
Candidates(r) ==
  {vec[rkey[r]][i] : i \in 1..Len(vec[rkey[r]])}
    \cup {w \in Eligible(r) : alt[w] /\ wpc[w] \notin {"headio", "closedir"}}

(* Line 281: with read_while_writer off a document still being written is  *)
(* not read.                                                               *)
Busy(r) == \E w \in Eligible(r) : closed[w] = 0

(* Lines 407-527, with a writer w: an aborted one is as none, one that is  *)
(* not closed has no fragment to read yet; the document is taken from the  *)
(* buffers of any other.                                                   *)
ReadWriter(r, w) ==
  IF closed[w] = 2 THEN BackToStart(r)
  ELSE IF closed[w] = 0 \/ failed[w] \/ ~alt[w] THEN FreeReader(r)
  ELSE /\ rdoc' = [rdoc EXCEPT ![r] = total[w]]
       /\ rpc' = [rpc EXCEPT ![r] = "open"]
       /\ writeVc' = [writeVc EXCEPT ![r] = w]
       /\ UNCHANGED <<rkey, rlen, called, older>>

(* openReadFromWriter from the lock on, with openReadChooseWriter.  The    *)
(* request may match none of the candidates (ECACHE_ALT_MISS).  The writer *)
(* that was chosen is read at once, or its mutex is missed (line 430) and  *)
(* the handler called again.                                               *)
ChooseWriter(r) ==
  LET k == rkey[r]
  IN  /\ rpc[r] = "writer" /\ called[r] /\ writeVc[r] = NoWriter
      /\ \/ /\ od[k] = {}
            /\ BackToStart(r)
         \/ /\ od[k] # {} /\ Busy(r)
            /\ FreeReader(r)
         \/ /\ od[k] # {} /\ ~Busy(r) /\ Candidates(r) = {}
            /\ IF readingVec[k] THEN BackToStart(r) ELSE FreeReader(r)
         \/ /\ od[k] # {} /\ ~Busy(r)
            /\ \E a \in Candidates(r) \ od[k] : BackToStart(r)
         \/ /\ od[k] # {} /\ ~Busy(r)
            /\ \E a \in Candidates(r) \cap od[k] : ReadWriter(r, a)
         \/ /\ od[k] # {} /\ ~Busy(r)
            /\ \E a \in Candidates(r) \cap od[k] :
                 /\ closed[a] = 1
                 /\ writeVc' = [writeVc EXCEPT ![r] = a]
                 /\ UNCHANGED <<rpc, rkey, rlen, rdoc, called, older>>
      /\ UNCHANGED <<volVars, ramVars, writerVars, opens>>

(* openReadFromWriter called again after it missed the mutex of the writer *)
(* it had chosen: only now does it ask whether that one is still there.    *)
(* (Missing the mutex once more changes nothing.)                          *)
ReadFromWriter(r) ==
  /\ rpc[r] = "writer" /\ called[r] /\ writeVc[r] # NoWriter
  /\ IF WriterDone(r) THEN BackToStart(r) ELSE ReadWriter(r, writeVc[r])
  /\ UNCHANGED <<volVars, ramVars, writerVars, opens>>

(* do_io_close and openReadClose.                                          *)
CloseRead(r) ==
  /\ rpc[r] = "open"
  /\ FreeReader(r)
  /\ UNCHANGED <<volVars, ramVars, writerVars, opens>>

Reader(r) ==
  \/ \E k \in Keys : OpenRead(r, k) \/ OpenReadMissedLock(r, k)
  \/ OpenReadFails(r) \/ ReadDone(r) \/ StartHead(r) \/ StartOver(r)
  \/ RestartClock(r) \/ ChooseWriter(r) \/ ReadFromWriter(r) \/ CloseRead(r)

-----------------------------------------------------------------------------
(* Writing.                                                                *)

(* The write connection is freed.                                          *)
FreeWriter(w) ==
  /\ wpc' = [wpc EXCEPT ![w] = "idle"]
  /\ wkey' = [wkey EXCEPT ![w] = NoKey]
  /\ multi' = [multi EXCEPT ![w] = FALSE]
  /\ alt' = [alt EXCEPT ![w] = FALSE]
  /\ nbytes' = [nbytes EXCEPT ![w] = 0]
  /\ total' = [total EXCEPT ![w] = 0]
  /\ closed' = [closed EXCEPT ![w] = 0]
  /\ failed' = [failed EXCEPT ![w] = FALSE]

(* OpenDir::open_write when the key is being written: the first writer's   *)
(* max_writers is the same for all (CacheWrite.cc:1603, 1820).             *)
MayJoin(k, m) == m /\ Cardinality(od[k]) < (IF MaxAlts > 1 THEN MaxAlts ELSE 0)

(* Vol::open_write succeeds.  A full backlog or a busy key is a failure    *)
(* the caller is told of, without a connection.                            *)
Admissible(k, m) == od[k] = {} \/ MayJoin(k, m)

(* Cache::open_write, the lock held.  The directory is not probed.         *)
OpenWrite(w, k, m) ==
  /\ wpc[w] = "idle"
  /\ opens < MaxOpens
  /\ Admissible(k, m)
  /\ od' = [od EXCEPT ![k] = @ \cup {w}]
  /\ wpc' = [wpc EXCEPT ![w] = "main"]
  /\ wkey' = [wkey EXCEPT ![w] = k]
  /\ multi' = [multi EXCEPT ![w] = m]
  /\ older' = [r \in Readers |-> older[r] \ {w}]
  /\ opens' = opens + 1
  /\ UNCHANGED <<policy, vec, readingVec, writingVec, dir, ramVars, readerVars,
                 alt, nbytes, total, closed, failed>>

(* Cache::open_write, the lock missed: openWriteStartDone tries again.     *)
OpenWriteMissedLock(w, k, m) ==
  /\ wpc[w] = "idle"
  /\ opens < MaxOpens
  /\ wpc' = [wpc EXCEPT ![w] = "wait"]
  /\ wkey' = [wkey EXCEPT ![w] = k]
  /\ multi' = [multi EXCEPT ![w] = m]
  /\ older' = [r \in Readers |-> older[r] \ {w}]
  /\ opens' = opens + 1
  /\ UNCHANGED <<volVars, ramVars, readerVars, alt, nbytes, total, closed, failed>>

(* openWriteStartDone after the missed lock.  Unlike Cache::open_write it  *)
(* probes the directory, and reads the vector of an entry it finds there.  *)
(* An entry may have been overwritten in the meantime; that the entry of   *)
(* another key is found (same tag) is left out.                            *)
StartDone(w) ==
  LET k == wkey[w]
  IN  /\ wpc[w] = "wait"
      /\ Admissible(k, multi[w])
      /\ od' = [od EXCEPT ![k] = @ \cup {w}]
      /\ \/ /\ od[k] = {} /\ k \in dir
            /\ readingVec' = [readingVec EXCEPT ![k] = TRUE]
            /\ wpc' = [wpc EXCEPT ![w] = "vecio"]
         \/ /\ UNCHANGED readingVec
            /\ wpc' = [wpc EXCEPT ![w] = "main"]
      /\ UNCHANGED <<policy, vec, writingVec, dir, ramVars, readerVars, older,
                     wkey, multi, alt, nbytes, total, closed, failed, opens>>

(* openWriteStartDone fails: the key is busy, the backlog is full, or the  *)
(* caller has cancelled.                                                   *)
OpenWriteFails(w) ==
  /\ wpc[w] = "wait"
  /\ FreeWriter(w)
  /\ UNCHANGED <<volVars, ramVars, readerVars, older, opens>>

(* The vector as it is, or with the alternates of the document that was    *)
(* read, which one stands for.                                             *)
Loaded(k) == {vec, [vec EXCEPT ![k] = Append(@, Old)]}

(* openWriteStartDone after the vector was read: its alternates join the   *)
(* entry's vector.  (The entry may have become invalid, and no other one   *)
(* be found: then none do.)                                                *)
VectorRead(w) ==
  LET k == wkey[w]
  IN  /\ wpc[w] = "vecio"
      /\ readingVec' = [readingVec EXCEPT ![k] = FALSE]
      /\ wpc' = [wpc EXCEPT ![w] = "main"]
      /\ vec' \in Loaded(k)
      /\ UNCHANGED <<policy, od, writingVec, dir, ramVars, readerVars, older,
                     wkey, multi, alt, nbytes, total, closed, failed, opens>>

(* The read failed, or the caller has cancelled (lines 1634-1640): while   *)
(* there are other writers the vector is loaded even then (line 1556).     *)
VectorReadFails(w) ==
  LET k == wkey[w]
  IN  /\ wpc[w] = "vecio"
      /\ readingVec' = [readingVec EXCEPT ![k] = FALSE]
      /\ wpc' = [wpc EXCEPT ![w] = "closedir"]
      /\ vec' \in IF od[k] = {w} THEN {vec} ELSE Loaded(k)
      /\ UNCHANGED <<policy, od, writingVec, dir, ramVars, readerVars, older,
                     wkey, multi, alt, nbytes, total, closed, failed, opens>>

(* set_http_info, then do_io_write for the length the origin announced:    *)
(* the caller makes both calls in one handler.                             *)
DoIoWrite(w) ==
  /\ wpc[w] = "main" /\ ~alt[w]
  /\ alt' = [alt EXCEPT ![w] = TRUE]
  /\ \E n \in SizesOf[wkey[w]] : nbytes' = [nbytes EXCEPT ![w] = n]
  /\ UNCHANGED <<volVars, ramVars, readerVars, older, wpc, wkey, multi, total,
                 closed, failed, opens>>

(* mutant: one byte too many *)
MoreToWrite_Mutant(w) == total[w] <= nbytes[w]

(* vio.ntodo() > 0                                                         *)
MoreToWrite(w) == total[w] < nbytes[w]

(* openWriteMain: more of the document has arrived.                        *)
WriteMain(w) ==
  /\ wpc[w] = "main" /\ alt[w]
  /\ MoreToWrite(w)
  /\ total' = [total EXCEPT ![w] = @ + 1]
  /\ UNCHANGED <<volVars, ramVars, readerVars, older, wpc, wkey, multi, alt,
                 nbytes, closed, failed, opens>>

(* do_io_close of the whole document: openWriteClose, openWriteCloseHead.  *)
CloseWrite(w) ==
  /\ wpc[w] = "main" /\ alt[w] /\ total[w] = nbytes[w]
  /\ closed' = [closed EXCEPT ![w] = 1]
  /\ wpc' = [wpc EXCEPT ![w] = "vector"]
  /\ UNCHANGED <<volVars, ramVars, readerVars, older, wkey, multi, alt, nbytes,
                 total, failed, opens>>

(* do_io_close with an error at any moment, or of a connection nothing was *)
(* written to, which openWriteClose turns into an abort (lines 1338-1341). *)
AbortWrite(w) ==
  /\ wpc[w] = "main"
  /\ closed' = [closed EXCEPT ![w] = 2]
  /\ wpc' = [wpc EXCEPT ![w] = "closedir"]
  /\ UNCHANGED <<volVars, ramVars, readerVars, older, wkey, multi, alt, nbytes,
                 total, failed, opens>>

(* updateVector, line 62, before the lock.                                 *)
TestVector(w) ==
  /\ wpc[w] = "vector"
  /\ ~readingVec[wkey[w]] /\ ~writingVec[wkey[w]]
  /\ wpc' = [wpc EXCEPT ![w] = "locked"]
  /\ UNCHANGED <<volVars, ramVars, readerVars, older, wkey, multi, alt, nbytes,
                 total, closed, failed, opens>>

(* mutant: writing_vec is not tested again under the lock *)
WritesVector_Mutant(w) == TRUE

(* Line 68: only writing_vec is tested again under the lock.               *)
WritesVector(w) == ~writingVec[wkey[w]]

(* Lines 99-104: at max_alts the first alternate makes room.               *)
Trimmed(v) == IF MaxAlts > 1 /\ Len(v) >= MaxAlts THEN Tail(v) ELSE v

(* updateVector under the lock, and handleWrite of the vector.             *)
UpdateVector(w) ==
  LET k == wkey[w]
  IN  /\ wpc[w] = "locked"
      /\ IF WritesVector(w)
         THEN /\ vec' = [vec EXCEPT ![k] = Append(Trimmed(@), w)]
              /\ writingVec' = [writingVec EXCEPT ![k] = TRUE]
              /\ wpc' = [wpc EXCEPT ![w] = "headio"]
         ELSE /\ wpc' = [wpc EXCEPT ![w] = "vector"]
              /\ UNCHANGED <<vec, writingVec>>
      /\ UNCHANGED <<policy, od, readingVec, dir, ramVars, readerVars, older,
                     wkey, multi, alt, nbytes, total, closed, failed, opens>>

(* mutant: the flag is reset only when the write succeeded *)
WritingDone_Mutant(w, ok) == ~ok

(* Line 1209: writing_vec is reset in either case.                         *)
WritingDone(w, ok) == FALSE

(* openWriteCloseHeadDone, after the write succeeded or failed (a write    *)
(* beyond the backlog is a failure too).                                   *)
HeadDone(w) ==
  /\ wpc[w] = "headio"
  /\ \E ok \in BOOLEAN :
       /\ writingVec' = [writingVec EXCEPT ![wkey[w]] = WritingDone(w, ok)]
       /\ failed' = [failed EXCEPT ![w] = ~ok]
       /\ dir' = IF ok THEN dir \cup {wkey[w]} ELSE dir
  /\ wpc' = [wpc EXCEPT ![w] = "closedir"]
  /\ UNCHANGED <<policy, od, vec, readingVec, ramVars, readerVars, older, wkey,
                 multi, alt, nbytes, total, closed, opens>>

(* vdisk_cache->admit(k, n): the policy may cache the object, or not; it   *)
(* may evict anything.                                                     *)
Admit(k, n) ==
  \E evicted \in SUBSET Keys, admitted \in BOOLEAN :
    policy' = [j \in Keys |-> IF j \in evicted THEN 0
                              ELSE IF j = k /\ admitted THEN n ELSE policy[j]]

(* mutant: the writer stays in the open directory entry of its key *)
Left_Mutant(w) == IF od[wkey[w]] = {w} THEN {} ELSE od[wkey[w]]

(* OpenDir::close_write, lines 138-139.                                    *)
Left(w) == od[wkey[w]] \ {w}

(* openWriteCloseDir: whatever became of the transfer, the object is       *)
(* offered to the policy when there was an answer from the origin; then    *)
(* the writer leaves, and the last one frees the entry of the key.         *)
CloseDir(w) ==
  LET k == wkey[w]
  IN  /\ wpc[w] = "closedir"
      /\ IF alt[w] THEN Admit(k, nbytes[w]) ELSE UNCHANGED policy
      /\ od' = [od EXCEPT ![k] = Left(w)]
      /\ vec' = [vec EXCEPT ![k] =
                   IF od[k] = {w} THEN <<>>
                   ELSE [i \in DOMAIN @ |-> IF @[i] = w THEN Old ELSE @[i]]]
      /\ FreeWriter(w)
      /\ UNCHANGED <<readingVec, writingVec, dir, ramVars, readerVars, older, opens>>

Writer(w) ==
  \/ \E k \in Keys, m \in BOOLEAN : OpenWrite(w, k, m) \/ OpenWriteMissedLock(w, k, m)
  \/ StartDone(w) \/ OpenWriteFails(w) \/ VectorRead(w) \/ VectorReadFails(w)
  \/ DoIoWrite(w) \/ WriteMain(w) \/ CloseWrite(w) \/ AbortWrite(w)
  \/ TestVector(w) \/ UpdateVector(w) \/ HeadDone(w) \/ CloseDir(w)

(* All connections are free, and the bound on opens is reached.            *)
Done ==
  /\ opens = MaxOpens
  /\ \A r \in Readers : rpc[r] = "idle"
  /\ \A w \in Writers : wpc[w] = "idle"
  /\ UNCHANGED vars

Next == (\E r \in Readers : Reader(r)) \/ (\E w \in Writers : Writer(w)) \/ Done

(* The event system runs a scheduled handler, a missed lock is free some   *)
(* time later, and a disk operation ends.  Nothing obliges the caller to   *)
(* open, to cancel, to deliver data or to close.                           *)
ReaderSteps(r) ==
  ReadDone(r) \/ StartHead(r) \/ StartOver(r) \/ RestartClock(r)
    \/ ChooseWriter(r) \/ ReadFromWriter(r)
WriterSteps(w) ==
  StartDone(w) \/ OpenWriteFails(w) \/ VectorRead(w) \/ VectorReadFails(w)
    \/ TestVector(w) \/ UpdateVector(w) \/ HeadDone(w) \/ CloseDir(w)

Fairness ==
  /\ \A r \in Readers : WF_vars(ReaderSteps(r))
  /\ \A w \in Writers : WF_vars(WriterSteps(w))

Spec == Init /\ [][Next]_vars
FairSpec == Spec /\ Fairness

-----------------------------------------------------------------------------
(* Properties.                                                             *)

ReaderStates == {"idle", "start", "io", "head", "writer", "open"}
WriterStates == {"idle", "wait", "vecio", "main", "vector", "locked", "headio",
                 "closedir"}

VolTypeOK ==
  /\ policy \in [Keys -> Nat]
  /\ od \in [Keys -> SUBSET Writers]
  /\ vec \in [Keys -> Seq(Writers \cup {Old})]
  /\ readingVec \in [Keys -> BOOLEAN] /\ writingVec \in [Keys -> BOOLEAN]
  /\ dir \in SUBSET Keys
  /\ ram \in [Keys -> Nat]
  /\ ffKey \in Keys \cup {NoKey} /\ ffLen \in Nat

ReaderTypeOK ==
  /\ rpc \in [Readers -> ReaderStates]
  /\ rkey \in [Readers -> Keys \cup {NoKey}]
  /\ rlen \in [Readers -> Nat] /\ rdoc \in [Readers -> Nat]
  /\ called \in [Readers -> BOOLEAN]
  /\ older \in [Readers -> SUBSET Writers]
  /\ writeVc \in [Readers -> Writers \cup {NoWriter}]

WriterTypeOK ==
  /\ wpc \in [Writers -> WriterStates]
  /\ wkey \in [Writers -> Keys \cup {NoKey}]
  /\ multi \in [Writers -> BOOLEAN] /\ alt \in [Writers -> BOOLEAN]
  /\ nbytes \in [Writers -> Nat] /\ total \in [Writers -> Nat]
  /\ \A w \in Writers : total[w] <= nbytes[w]
  /\ closed \in [Writers -> 0..2] /\ failed \in [Writers -> BOOLEAN]
  /\ opens \in 0..MaxOpens

(* Every variable holds a value of its type, and no more is written than   *)
(* the caller asked for.                                                   *)
TypeOK == VolTypeOK /\ ReaderTypeOK /\ WriterTypeOK

(* The writers that hold k open.                                           *)
Holding(k) ==
  {w \in Writers : wkey[w] = k /\ wpc[w] \notin {"idle", "wait"}}

(* The open directory entry of a key lists exactly the connections that    *)
(* hold the key open: whichever way an open or a close fails, no writer    *)
(* leaves its entry behind (which would make the key busy for ever) and    *)
(* none is used after it was taken out; and max_writers is respected.      *)
OpenDirExact ==
  \A k \in Keys :
    /\ od[k] = Holding(k)
    /\ Cardinality(od[k]) <= (IF MaxAlts > 1 THEN MaxAlts ELSE 1)

(* The vector of a key is written by one writer at a time, and not while   *)
(* it is read, although updateVector tests reading_vec without the lock;   *)
(* the two flags are set exactly while somebody does so.                   *)
VectorExclusive ==
  \A k \in Keys :
    LET reading == {w \in Holding(k) : wpc[w] = "vecio"}
        writing == {w \in Holding(k) : wpc[w] = "headio"}
    IN  /\ \A v, w \in writing : v = w
        /\ writingVec[k] <=> writing # {}
        /\ readingVec[k] <=> reading # {}
        /\ ~(readingVec[k] /\ writingVec[k])

(* A document is served in full: whether it comes from the disk, the RAM   *)
(* cache, the last document read, or a writer that is about to leave, its  *)
(* length is one the origin gave for that key, and never a part of it or   *)
(* the length of another object.                                           *)
ServedComplete ==
  \A r \in Readers : rpc[r] = "open" => rdoc[r] \in SizesOf[rkey[r]]

(* Every open_read is answered: the caller gets a document or a failure,   *)
(* even when the reader waits for a writer.                                *)
ReadersAnswered ==
  \A r \in Readers :
    rpc[r] \notin {"idle", "open"} ~> rpc[r] \in {"idle", "open"}

(* A writer that was closed leaves: it does not wait for ever for others   *)
(* that read or write the vector.                                          *)
WritersLeave ==
  \A w \in Writers : closed[w] # 0 ~> wpc[w] = "idle"

(* doc/developer-guide/cache-architecture/ram-cache.en.rst:66 `When the    *)
(* version of an object changes old entries are purged from the cache':    *)
(* what is served has the length of the object the policy has.             *)
ServedCurrent ==
  \A r \in Readers :
    rpc[r] = "open" /\ writeVc[r] = NoWriter => rdoc[r] = rlen[r]

(* One step changes the length of a cached object only at the end of a     *)
(* transfer that was complete.                                             *)
AdmitsFinished ==
  \A k \in Keys :
    policy'[k] \notin {0, policy[k]} =>
      \E w \in Writers : /\ wpc[w] = "closedir" /\ wkey[w] = k
                         /\ closed[w] = 1 /\ total[w] = nbytes[w]

(* CacheWrite.cc:1143 `transfer is finished. Admit the object'.            *)
AdmittedWhenFinished == [][AdmitsFinished]_vars
=============================================================================
