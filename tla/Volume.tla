------------------------------- MODULE Volume -------------------------------
(***************************************************************************)
(* A cache volume as a log on a disk: documents are collected in the       *)
(* aggregation buffer and written round and round the volume               *)
(* (Vol::aggWrite, aggWriteDone), the directory is copied to the disk from *)
(* time to time, to the places A and B in turn (CacheSync), and after a    *)
(* crash the younger complete copy is read and the documents written since *)
(* then are found by their serial numbers, so that the entries of what     *)
(* they replaced can be dropped (Vol::handle_header_read,                  *)
(* handle_recover_from_data).                                              *)
(*                                                                         *)
(* Positions count blocks; the volume's data is Start .. End - 1.  The     *)
(* disk writes whole blocks, those of one request in any order.  The       *)
(* directory is the set of its entries (the module Directory refines such  *)
(* a set), and an entry is the document it was made for.  Left out:        *)
(* evacuation (no document is pinned and hit evacuation is off), writes    *)
(* with the sync option, read errors and failing writes of a starting      *)
(* volume.                                                                 *)
(***************************************************************************)
EXTENDS Integers, Sequences, FiniteSets, SequencesExt

CONSTANTS Start, End,       \* Vol::start, and skip + len
          AggSize,          \* AGG_SIZE
          HighWater,        \* AGG_HIGH_WATER
          BlockSize,        \* CACHE_BLOCK_SIZE, the bytes of a block
          LengthsOf,        \* the lengths that the n-th document may have
          Backlog,          \* cache_config_agg_write_backlog
          MaxDocs, MaxSyncs, MaxCrashes, MaxFails   \* bounds of a behaviour

EvacSize == 2 * AggSize     \* EVACUATION_SIZE, and RECOVERY_SIZE

ASSUME SizeAssumption ==
  /\ Start \in Nat \ {0} /\ End \in Nat /\ AggSize \in Nat /\ HighWater \in 1 .. AggSize
  /\ Start + EvacSize <= End
  /\ LengthsOf \in [1 .. MaxDocs -> SUBSET (1 .. AggSize)]
  /\ BlockSize \in Nat /\ BlockSize > 1 /\ Backlog \in Nat
ASSUME BoundAssumption ==
  MaxDocs \in Nat /\ MaxSyncs \in Nat /\ MaxCrashes \in Nat /\ MaxFails \in Nat

VARIABLES
  mode,      \* "up", "down", or what a starting volume writes: "storing", "clearing"
  vol,       \* the volume in memory
  disk,      \* its blocks
  copies,    \* the copies A (0) and B (1) of the directory on the disk
  stage,     \* CacheSync::writepos: what is being written of a copy
  snap,      \* CacheSync::buf: the header and the directory that are written
  crashes, fails,
  lost,      \* history: documents whose write failed
  orphans,   \* history: those of them that had an entry when it failed
  seen       \* history: what happened in recoveries and syncs

vars == <<mode, vol, disk, copies, stage, snap, crashes, fails, lost, orphans, seen>>

Blocks  == Start .. End - 1
Lengths == 1 .. AggSize

NoDoc == [id |-> 0, pos |-> 0, len |-> 0, phase |-> FALSE, sync |-> 0, ser |-> 0]
Blank == <<NoDoc, 0>>

BlocksOf(d) == d.pos .. d.pos + d.len - 1

(* The blocks S of a request that stores the documents ds are written. *)
Stored(ds, S) ==
  [b \in Blocks |->
     IF b \in S /\ \E d \in ds : b \in BlocksOf(d)
     THEN LET d == CHOOSE d \in ds : b \in BlocksOf(d) IN <<d, b - d.pos>>
     ELSE disk[b]]

Intact(d) == \A b \in BlocksOf(d) : disk[b] = <<d, b - d.pos>>

Total(q) == FoldSeq(LAMBDA l, n : l + n, 0, q)

BufLen(m) == FoldSeq(LAMBDA d, n : d.len + n, 0, m.buf)

-----------------------------------------------------------------------------
(* The header after vol_clear_init, and the volume with a header h and a   *)
(* directory d when it starts.                                             *)
ClearedHeader ==
  [writePos |-> Start, lastWritePos |-> Start, aggPos |-> Start, phase |-> FALSE,
   sync |-> 0, ser |-> 0, dirty |-> FALSE]

Started(h, d, n) ==
  [hdr |-> h, dir |-> d, queue |-> <<>>, buf |-> <<>>, io |-> FALSE, pend |-> {},
   waiting |-> FALSE, made |-> n]

(* mutant: the blocks about to be overwritten are not excluded *)
Valid_Mutant(e, h, n) ==
  IF e.phase = h.phase THEN e.pos < h.writePos + n ELSE e.pos >= h.writePos

(* dir_valid: vol_in_phase_valid and vol_out_of_phase_valid *)
Valid(e, h, n) ==
  IF e.phase = h.phase THEN e.pos < h.writePos + n ELSE e.pos >= h.aggPos

-----------------------------------------------------------------------------
(* mutant: the end of the volume is not considered *)
Fits_Mutant(m) ==
  {n \in 0 .. Len(m.queue) : BufLen(m) + Total(SubSeq(m.queue, 1, n)) <= AggSize}

(* The loop of aggWrite with agg_copy: as many documents as fit move into  *)
(* the buffer.  Their writers will be called back.                         *)
Fits(m) ==
  {n \in 0 .. Len(m.queue) :
     LET t == BufLen(m) + Total(SubSeq(m.queue, 1, n))
     IN t <= AggSize /\ m.hdr.writePos + t <= End}

Copied(m) ==
  LET n   == CHOOSE k \in Fits(m) : \A j \in Fits(m) : j <= k
      at(i)  == m.hdr.writePos + BufLen(m) + Total(SubSeq(m.queue, 1, i - 1))
      new == [i \in 1 .. n |-> [id |-> m.made + i, pos |-> at(i), len |-> m.queue[i],
                                phase |-> m.hdr.phase, sync |-> m.hdr.sync, ser |-> m.hdr.ser]]
  IN [m EXCEPT !.queue = SubSeq(@, n + 1, Len(@)), !.buf = @ \o new,
               !.pend = @ \cup ToSet(new), !.made = @ + n]

(* agg_wrap, with dir_clean_vol *)
Wrapped(m) ==
  LET h == [m.hdr EXCEPT !.writePos = Start, !.aggPos = Start, !.phase = ~@, !.dirty = TRUE]
  IN [m EXCEPT !.hdr = h, !.dir = {e \in @ : Valid(e, h, 0)}]

(* mutant: a waiting sync does not start the write *)
Issued_Mutant(m) ==
  IF m.buf # <<>> /\ (BufLen(m) >= HighWater \/ m.queue # <<>>)
  THEN [m EXCEPT !.hdr.aggPos = m.hdr.writePos + BufLen(m), !.io = TRUE]
  ELSE m

(* The write limit is set and the buffer's write started. *)
Issued(m) ==
  IF m.buf # <<>> /\ (BufLen(m) >= HighWater \/ m.queue # <<>> \/ m.waiting)
  THEN [m EXCEPT !.hdr.aggPos = m.hdr.writePos + BufLen(m), !.io = TRUE]
  ELSE m

(* Vol::aggWrite *)
AggWrite(m) ==
  LET c == Copied(m)
  IN Issued(IF c.buf = <<>> /\ c.queue # <<>> THEN Copied(Wrapped(c)) ELSE c)

(* History: a shorter write follows one that failed, and the blocks after  *)
(* it that the failed one may have written count as the last round's again.*)
SetBack(m) ==
  IF m.hdr.phase = vol.hdr.phase /\ m.hdr.aggPos < vol.hdr.aggPos THEN {"set back"} ELSE {}

(* CacheVC::handleWrite, which refuses a document when too many wait. *)
Write(l) ==
  /\ mode = "up" /\ vol.made + Len(vol.queue) < MaxDocs
  /\ l \in LengthsOf[vol.made + Len(vol.queue) + 1]
  /\ Total(vol.queue) + l <= Backlog + AggSize
  /\ LET m == [vol EXCEPT !.queue = Append(@, l)]
     IN vol' = IF vol.io THEN m ELSE AggWrite(m)
  /\ seen' = seen \cup SetBack(vol')
  /\ UNCHANGED <<mode, disk, copies, stage, snap, crashes, fails, lost, orphans>>

(* History: the log has come round to a document before its writer was     *)
(* called back.                                                            *)
Late(d) ==
  /\ d \notin lost \cup ToSet(vol.buf)
  /\ \/ ~Intact(d)
     \/ d.phase = vol.hdr.phase /\ d.pos + d.len > vol.hdr.writePos

(* A writer that was called back enters its document (dir_insert); each is *)
(* called back on its own thread.                                          *)
Insert(d) ==
  /\ mode = "up" /\ d \in vol.pend
  /\ vol' = [vol EXCEPT !.pend = @ \ {d}, !.dir = @ \cup {d}, !.hdr.dirty = TRUE]
  /\ seen' = IF Late(d) THEN seen \cup {"late"} ELSE seen
  /\ UNCHANGED <<mode, disk, copies, stage, snap, crashes, fails, lost, orphans>>

-----------------------------------------------------------------------------
(* CacheSync::mainEvent at writepos 0 with nothing in the buffer: the      *)
(* serial number rises, and header and directory are copied.               *)
SyncStarted(m) == [m EXCEPT !.hdr.dirty = FALSE, !.hdr.sync = @ + 1]

NoSnapshot == [hdr |-> ClearedHeader, dir |-> {}]

Snapshot(m) == [hdr |-> m.hdr, dir |-> m.dir]

(* The sync's turn for this volume.  It waits for the buffer's write, which*)
(* it starts if necessary.                                                 *)
SyncEvent ==
  /\ mode = "up" /\ stage = "idle" /\ ~vol.waiting
  /\ vol.hdr.dirty /\ vol.hdr.sync < MaxSyncs
  /\ IF vol.io \/ vol.buf # <<>>
     THEN /\ LET m == [vol EXCEPT !.waiting = TRUE]
             IN vol' = IF vol.io THEN m ELSE AggWrite(m)
          /\ UNCHANGED <<stage, snap>>
     ELSE /\ vol' = SyncStarted(vol)
          /\ stage' = "header" /\ snap' = Snapshot(vol')
  /\ seen' = seen \cup SetBack(vol')
  /\ UNCHANGED <<mode, disk, copies, crashes, fails, lost, orphans>>

(* The end of aggWriteDone, from a volume m whose buffer is free: a sync   *)
(* that waits is started, and what is queued goes on.                      *)
AfterWrite(m) ==
  LET s == IF m.waiting /\ m.hdr.dirty THEN SyncStarted(m) ELSE m
  IN /\ vol' = AggWrite([s EXCEPT !.waiting = FALSE])
     /\ IF m.waiting /\ m.hdr.dirty
        THEN stage' = "header" /\ snap' = Snapshot(s)
        ELSE UNCHANGED <<stage, snap>>

(* handle_header_read: the copy with equal serial numbers at both ends, the*)
(* younger one if both have them.                                          *)
Good(c) == copies[c].hdr.sync = copies[c].foot

Usable ==
  IF Good(0) /\ (copies[0].hdr.sync >= copies[1].hdr.sync \/ ~Good(1)) THEN {0}
  ELSE IF Good(1) THEN {1} ELSE {}

(* The log has turned back to the start since the usable copy was made. *)
TurnedSinceCopy == \E c \in Usable : vol.hdr.phase # copies[c].hdr.phase

(* History, when a write ends: "round", it came close to where the log was *)
(* when the usable copy was made, and "torn", it was the first after a turn*)
(* and may have been stored in part.                                       *)
Rounds ==
  IF TurnedSinceCopy /\ \E c \in Usable :
       vol.hdr.writePos + BufLen(vol) + EvacSize >= copies[c].hdr.writePos
  THEN {"round"} ELSE {}

TornTurns ==
  IF vol.io /\ vol.hdr.writePos = Start /\ TurnedSinceCopy THEN {"torn"} ELSE {}

(* aggWriteDone after a write that succeeded *)
WriteDone ==
  /\ mode = "up" /\ vol.io
  /\ disk' = Stored(ToSet(vol.buf), Blocks)
  /\ AfterWrite([vol EXCEPT !.hdr.lastWritePos = vol.hdr.writePos,
                            !.hdr.writePos = @ + BufLen(vol), !.hdr.ser = @ + 1,
                            !.buf = <<>>, !.io = FALSE])
  /\ seen' = seen \cup Rounds
  /\ UNCHANGED <<mode, copies, crashes, fails, lost, orphans>>

(* The offset that an entry holds for a position (offset_to_vol_offset),   *)
(* and the one that aggWriteDone looks for: a position in bytes.           *)
VolOffset(p) == p - Start + 1

DeletedOffset(p) == p * BlockSize

(* aggWriteDone after a write that failed: some of its blocks may have been*)
(* written, and the entries of its documents are to be deleted.            *)
WriteFail ==
  /\ mode = "up" /\ vol.io /\ fails < MaxFails
  /\ LET ds == ToSet(vol.buf)
     IN /\ \E S \in SUBSET UNION {BlocksOf(d) : d \in ds} : disk' = Stored(ds, S)
        /\ AfterWrite([vol EXCEPT !.dir = {e \in @ : e \notin ds \/ VolOffset(e.pos) # DeletedOffset(e.pos)},
                                  !.buf = <<>>, !.io = FALSE])
        /\ lost' = lost \cup ds
        /\ orphans' = orphans \cup (ds \cap vol.dir)
  /\ fails' = fails + 1 /\ seen' = seen \cup Rounds \cup TornTurns \cup SetBack(vol')
  /\ UNCHANGED <<mode, copies, crashes>>

(* The copy that is being written: a sync and a recovery write to A and B  *)
(* in turn.                                                                *)
Target == snap.hdr.sync % 2

StoreHeader ==
  /\ mode \in {"up", "storing"} /\ stage = "header" /\ stage' = "body"
  /\ copies' = [copies EXCEPT ![Target].hdr = snap.hdr, ![Target].whole = FALSE]
  /\ UNCHANGED <<mode, vol, disk, snap, crashes, fails, lost, orphans, seen>>

StoreBody ==
  /\ mode \in {"up", "storing"} /\ stage = "body" /\ stage' = "footer"
  /\ copies' = [copies EXCEPT ![Target].dir = snap.dir, ![Target].whole = TRUE]
  /\ UNCHANGED <<mode, vol, disk, snap, crashes, fails, lost, orphans, seen>>

(* The footer ends it; a starting volume is ready then                     *)
(* (handle_recover_write_dir).                                             *)
StoreFooter ==
  /\ mode \in {"up", "storing"} /\ stage = "footer" /\ stage' = "idle"
  /\ copies' = [copies EXCEPT ![Target].foot = snap.hdr.sync]
  /\ mode' = "up" /\ snap' = NoSnapshot
  /\ UNCHANGED <<vol, disk, crashes, fails, lost, orphans, seen>>

(* A write of the sync fails, and it goes on to the next volume. *)
SyncFail ==
  /\ mode = "up" /\ stage # "idle" /\ fails < MaxFails
  /\ stage' = "idle" /\ fails' = fails + 1 /\ seen' = seen \cup {"sync error"}
  /\ snap' = NoSnapshot
  /\ UNCHANGED <<mode, vol, disk, copies, crashes, lost, orphans>>

-----------------------------------------------------------------------------
(* A crash: of the write in progress any blocks may have been stored.  The *)
(* clearing of copy A is one request for header, directory and footer.     *)
TornClear ==
  {[copies EXCEPT ![0] = [hdr |-> h, dir |-> d, foot |-> f, whole |-> FALSE]] :
     h \in {copies[0].hdr, ClearedHeader}, d \in {copies[0].dir, {}}, f \in {copies[0].foot, 0}}

Crash ==
  /\ mode # "down" /\ crashes < MaxCrashes
  /\ mode' = "down" /\ stage' = "idle" /\ crashes' = crashes + 1
  /\ LET ds == IF vol.io THEN ToSet(vol.buf) ELSE {}
     IN \E S \in SUBSET UNION {BlocksOf(d) : d \in ds} : disk' = Stored(ds, S)
  /\ copies' \in {copies} \cup (IF stage = "clear A" THEN TornClear ELSE {})
  /\ vol' = Started(ClearedHeader, {}, vol.made)
  /\ seen' = seen \cup Rounds \cup TornTurns
  /\ snap' = NoSnapshot
  /\ UNCHANGED <<fails, lost, orphans>>

(* The document whose first block is at position p. *)
Found(p) == IF p \in Blocks /\ disk[p][1] # NoDoc /\ disk[p][2] = 0 THEN {disk[p][1]} ELSE {}

Run(step(_), start, n) ==
  LET after[i \in 0 .. n] == IF i = 0 THEN start ELSE step(after[i - 1]) IN after[n]

Smaller(a, b) == IF a < b THEN a ELSE b

(* What handle_recover_from_data knows: the part base .. end - 1 that it   *)
(* has read, the position in it and that of the last document, the last    *)
(* serial numbers seen (max is a local variable and starts anew with every *)
(* part), and whether it has come to the end of the volume.                *)
ScanStart(h) ==
  [state |-> "check", base |-> h.lastWritePos,
   end |-> Smaller(h.lastWritePos + EvacSize, End), pos |-> h.lastWritePos,
   at |-> h.lastWritePos, sync |-> 0, ser |-> 0, max |-> h.sync, wrapped |-> FALSE]

(* A part has been read.  In the one that starts with the last write before*)
(* the sync, that write's documents must still be there.  The first        *)
(* document after a turn must not be older than the last one before it.    *)
CheckStep(c, h) ==
  LET ds == Found(c.pos)
  IN IF c.base = h.lastWritePos /\ c.pos < h.writePos
     THEN IF ds = {} \/ \E d \in ds : d.ser > h.ser
          THEN [c EXCEPT !.state = "clear"]
          ELSE LET d == CHOOSE d \in ds : TRUE
               IN [c EXCEPT !.pos = @ + d.len, !.sync = IF d.sync > c.ser THEN d.sync ELSE @]
     ELSE IF c.pos >= c.end THEN [c EXCEPT !.state = "past"]
     ELSE IF c.wrapped /\ c.base = Start /\ (ds = {} \/ \E d \in ds : d.ser < c.ser)
          THEN [c EXCEPT !.pos = End - EvacSize, !.state = "done"]
     ELSE [c EXCEPT !.state = "scan"]

(* mutant: the position is not compared, and the part not checked *)
NextPart_Mutant(c, h, p) ==
  [c EXCEPT !.base = p, !.end = Smaller(p + EvacSize, End), !.pos = p, !.at = p,
            !.max = h.sync, !.state = "scan"]

(* The next part is read, from position p on. *)
NextPart(c, h, p) ==
  IF p = c.base THEN [c EXCEPT !.state = "clear"]
  ELSE [c EXCEPT !.base = p, !.end = Smaller(p + EvacSize, End), !.pos = p, !.at = p,
                 !.max = h.sync, !.state = "check"]

EndOfPart(c, h) ==
  LET p == IF c.pos > c.end THEN c.at ELSE c.pos
  IN IF p >= End THEN NextPart([c EXCEPT !.wrapped = TRUE], h, Start) ELSE NextPart(c, h, p)

(* Not a document written since the sync: the end of the log, or, close to *)
(* the end of the volume, the place where it turned back to the start.     *)
NotSince(c, h) ==
  IF c.pos > End - AggSize THEN NextPart([c EXCEPT !.wrapped = TRUE], h, Start)
  ELSE [c EXCEPT !.state = "done"]

ScanStep(c, h) ==
  IF c.pos >= c.end THEN EndOfPart(c, h)
  ELSE IF Found(c.pos) = {} THEN NotSince(c, h)
  ELSE LET d == CHOOSE d \in Found(c.pos) : TRUE
           n == [c EXCEPT !.at = c.pos, !.pos = @ + d.len]
       IN IF d.sync = c.sync THEN [n EXCEPT !.ser = d.ser]
          ELSE LET x == IF d.sync > h.sync THEN d.sync ELSE c.max
               IN IF d.sync > c.sync /\ d.sync <= h.sync + 1
                  THEN [n EXCEPT !.sync = d.sync, !.max = x]
                  ELSE NotSince([c EXCEPT !.max = x], h)

Fuel == 4 * (End - Start)

(* The outcomes of the scan.  When the last write ended at the end of the  *)
(* volume the code reads on after it: the read fails, or finds no document *)
(* and turns back to the start.  When the last write position is after the *)
(* write position (a failed write after a turn) it checks until there is no*)
(* document any more.                                                      *)
Scanned(h) ==
  LET past(c) == {[c EXCEPT !.state = "clear"],
                  NextPart([c EXCEPT !.wrapped = TRUE, !.base = End], h, Start)}
      step(c) == CASE c.state = "check" -> CheckStep(c, h)
                   [] c.state = "scan" -> ScanStep(c, h)
                   [] OTHER -> c
      steps(cs) == UNION {IF c.state = "past" THEN past(c) ELSE {step(c)} : c \in cs}
  IN IF h.lastWritePos > h.writePos THEN {[ScanStart(h) EXCEPT !.state = "clear"]}
     ELSE Run(steps, {ScanStart(h)}, Fuel)

(* Vol::clear_dir: header, directory and footer of A, then the header of B *)
(* (handle_dir_clear).                                                     *)
ClearDir(n) ==
  /\ mode' = "clearing" /\ stage' = "clear A"
  /\ vol' = Started(ClearedHeader, {}, n)
  /\ seen' = seen \cup {"cleared"}
  /\ UNCHANGED snap

ClearA ==
  /\ mode = "clearing" /\ stage = "clear A" /\ stage' = "clear B"
  /\ copies' = [copies EXCEPT ![0] = [hdr |-> ClearedHeader, dir |-> {}, foot |-> 0, whole |-> TRUE]]
  /\ UNCHANGED <<mode, vol, disk, snap, crashes, fails, lost, orphans, seen>>

ClearB ==
  /\ mode = "clearing" /\ stage = "clear B" /\ stage' = "idle" /\ mode' = "up"
  /\ copies' = [copies EXCEPT ![1].hdr = ClearedHeader, ![1].whole = FALSE]
  /\ UNCHANGED <<vol, disk, snap, crashes, fails, lost, orphans, seen>>

(* mutant: the parity of the copy that was read is not considered *)
NextSync_Mutant(h, max) == max + 1

(* The serial number for the directory after a recovery: another one than  *)
(* those of the documents, and not of the copy that was read.              *)
NextSync(h, max) == IF (max + 1) % 2 = h.sync % 2 THEN max + 2 ELSE max + 1

(* mutant: what may have been written after the scan's end is kept *)
Cleared_Mutant(h, p) ==
  {o \in 1 .. VolOffset(End - 1) : VolOffset(h.writePos) <= o /\ o < VolOffset(p - EvacSize)}

(* The offsets that are cleared after a scan up to position p, which is    *)
(* after End when the log turned back.                                     *)
Cleared(h, p) ==
  LET from == VolOffset(h.writePos)
      to   == VolOffset(IF p > End THEN p - End ELSE p)
      offs == 1 .. VolOffset(End - 1)
  IN IF from <= to THEN {o \in offs : from <= o /\ o < to}
     ELSE {o \in offs : o >= to} \cup {o \in offs : o < from}

(* Ldone of handle_recover_from_data, after a scan r from header h. *)
ScanDone(h, d, r) ==
  LET p    == r.pos + EvacSize
      next == [h EXCEPT !.sync = NextSync(h, r.max), !.dirty = TRUE]
      kept == {e \in d : VolOffset(e.pos) \notin Cleared(h, p) /\ Valid(e, h, 0)}
  IN IF r.pos = h.writePos /\ r.wrapped
     THEN /\ mode' = "up" /\ vol' = Started(h, d, vol.made)
          /\ seen' = seen \cup {"skipped"}
          /\ UNCHANGED <<stage, snap>>
     ELSE IF p < h.writePos /\ p + EvacSize >= h.writePos THEN ClearDir(vol.made)
     ELSE /\ mode' = "storing" /\ stage' = "header"
          /\ vol' = Started(next, kept, vol.made) /\ snap' = Snapshot(vol')
          /\ UNCHANGED seen

(* A volume starts: handle_header_read, handle_dir_read, recover_data. *)
Recover(c) ==
  LET h == copies[c].hdr
      d == copies[c].dir
  IN IF h.sync = 0
     THEN mode' = "up" /\ vol' = Started(h, d, vol.made) /\ UNCHANGED <<stage, snap, seen>>
     ELSE \E r \in Scanned(h) :
            CASE r.state = "clear" -> ClearDir(vol.made)
              [] r.state = "done" -> ScanDone(h, d, r)
              [] OTHER -> mode' = "endless" /\ UNCHANGED <<vol, stage, snap, seen>>

StartUp ==
  /\ mode = "down"
  /\ IF Usable = {} THEN ClearDir(vol.made) ELSE \E c \in Usable : Recover(c)
  /\ UNCHANGED <<disk, copies, crashes, fails, lost, orphans>>

Init ==
  /\ mode = "up" /\ stage = "idle" /\ snap = NoSnapshot
  /\ vol = Started(ClearedHeader, {}, 0)
  /\ disk = [b \in Blocks |-> Blank]
  /\ copies = [c \in {0, 1} |-> [hdr |-> ClearedHeader, dir |-> {}, foot |-> 0, whole |-> TRUE]]
  /\ crashes = 0 /\ fails = 0 /\ lost = {} /\ orphans = {} /\ seen = {}

Next ==
  \/ \E l \in Lengths : Write(l)
  \/ \E d \in vol.pend : Insert(d)
  \/ WriteDone \/ WriteFail
  \/ SyncEvent \/ StoreHeader \/ StoreBody \/ StoreFooter \/ SyncFail
  \/ Crash \/ StartUp \/ ClearA \/ ClearB

Spec == Init /\ [][Next]_vars

-----------------------------------------------------------------------------
Header ==
  [writePos : Start .. End, lastWritePos : Start .. End, aggPos : Start .. End,
   phase : BOOLEAN, sync : Nat, ser : Nat, dirty : BOOLEAN]

IsDoc(d) ==
  /\ d.id \in 1 .. MaxDocs /\ d.len \in Lengths /\ d.phase \in BOOLEAN
  /\ d.sync \in Nat /\ d.ser \in Nat /\ BlocksOf(d) \subseteq Blocks

(* Every document has its place inside the volume's data, whatever the     *)
(* buffer holds when the end comes near (the second condition of aggWrite's*)
(* loop), and positions, serial numbers and stages are what they should be.*)
TypeOK ==
  /\ mode \in {"up", "down", "storing", "clearing", "endless"}
  /\ stage \in {"idle", "header", "body", "footer", "clear A", "clear B"}
  /\ vol.hdr \in Header /\ \A d \in vol.dir \cup ToSet(vol.buf) \cup vol.pend : IsDoc(d)
  /\ vol.queue \in Seq(Lengths) /\ vol.made \in 0 .. MaxDocs
  /\ vol.io \in BOOLEAN /\ vol.waiting \in BOOLEAN
  /\ DOMAIN disk = Blocks
  /\ \A b \in Blocks : disk[b] # Blank => IsDoc(disk[b][1]) /\ b = disk[b][1].pos + disk[b][2]
  /\ snap.hdr \in Header
  /\ \A c \in {0, 1} : /\ copies[c].hdr \in Header /\ copies[c].foot \in Nat
                       /\ copies[c].whole \in BOOLEAN
  /\ seen \subseteq {"round", "torn", "skipped", "cleared", "sync error", "late", "set back"}

(* The document of the entry e is in the buffer, or on the disk where no   *)
(* write in progress touches it.                                           *)
Exact(e) ==
  \/ e \in ToSet(vol.buf)
  \/ /\ Intact(e)
     /\ vol.io => \A d \in ToSet(vol.buf) : BlocksOf(d) \cap BlocksOf(e) = {}

ValidExact == \A e \in vol.dir \ lost : Valid(e, vol.hdr, BufLen(vol)) => Exact(e)

(* An entry that dir_valid accepts leads to its document, whole and where  *)
(* no write touches it, through turns of the log, failed writes and syncs. *)
(* The exceptions: the documents whose own write failed; and all once a    *)
(* writer was called back too late to enter its document, or a write after *)
(* a failed one was shorter.                                               *)
EntriesExact ==
  mode = "up" /\ crashes = 0 /\ seen \cap {"late", "set back"} = {} => ValidExact

(* So it is after a crash in the middle of writes and syncs: the recovery  *)
(* has dropped the entries of what was overwritten since the copy that it  *)
(* read.  Exempt are the behaviours the history marks: the log came round  *)
(* to the last copy, the first write of a turn was torn, the recovery found*)
(* that nothing was to be done, a sync failed or the directory was cleared *)
(* before, a writer was called back too late, or a write after a failed one*)
(* was shorter.                                                            *)
RecoveredExact == mode = "up" /\ crashes = 1 /\ seen = {} => ValidExact

(* What handle_recover_from_data says of every recovery, not only of the   *)
(* first: "find the region of disk that could be inconsistent and remove   *)
(* all directory entries pointing to that potentially inconsistent region".*)
InconsistentForgotten == mode = "up" /\ seen = {} => ValidExact

(* No wake-up is lost between the buffer's writes and the sync: when no    *)
(* write is in progress no sync waits for one and no document is queued.   *)
NothingForgotten == mode = "up" /\ ~vol.io => ~vol.waiting /\ vol.queue = <<>>

(* At every moment a crash finds a copy of the directory to start from, and*)
(* equal serial numbers at both ends mean that it is whole, although A and *)
(* B are overwritten in turn and recoveries write copies too.  It fails    *)
(* once a sync could not be written or the directory has been cleared.     *)
CopyAlwaysGood ==
  seen \cap {"sync error", "cleared"} = {} =>
    /\ Good(0) \/ Good(1)
    /\ \A c \in {0, 1} : Good(c) => copies[c].whole

(* The scan of a recovery comes to an end if the directory is synced at    *)
(* least once while the log goes round the volume.                         *)
EndsWhenSynced == "round" \notin seen => mode # "endless"

(* What handle_recover_from_data says of a directory that was not synced   *)
(* for a round ("we need to clear the cache"), and of a position that comes*)
(* again ("if it does break the loop"): every recovery ends.               *)
RecoveryEnds == mode # "endless"

(* What aggWriteDone says it does when a write fails: "delete all the      *)
(* directory entries that we inserted for fragments is this aggregation    *)
(* buffer".                                                                *)
FailedWriteForgotten == vol.dir \cap orphans = {}
=============================================================================
