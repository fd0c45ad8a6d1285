# A verification project for lrb-prototype

lrb-prototype measures cache-admission and eviction policies inside a real
proxy. A *client* replays a trace against the proxy (Apache Traffic Server
8.0.3 with a patched cache), and the proxy fetches misses from an *origin*
behind nginx. The patch lets a policy of the webcachesim library decide what is
cached (`proxy.config.cache.vdisk_cache.algorithm`): a hit is an object whose
length the policy knows, its bytes are read from an arbitrary place of the disk,
and its header is made up to announce that length.

This directory holds TLA+ models of those programs and of the proxy's cache
below them, TLC configurations
that check them on small instances, and proofs that TLAPS checks for every
instance.

## Inventory

| component | source | state | operations | what is hard |
| --- | --- | --- | --- | --- |
| client | `client/client.cpp` | `urlQueue`, `queueFull`, `running`, `is_stop`, two atomic counters, two histograms | `requestCreate`, `measureThread` (N threads), `output`, `signalHandler`, `main` | a loop condition read without the mutex, counters loaded and reset in separate steps, retries, a signal at any moment, joins |
| origin | `origin/origin.cpp` | `feature_map`, `running`, two atomic counters | `main` (load, start, join), `serverThread` (N), `output` | response framing, 16-bit features, the block arithmetic of the body, exit |
| cache volume | `iocore/cache/CacheRead.cc`, `CacheWrite.cc`, `Cache.cc`, `P_CacheInternal.h` | the policy, the open directory, the directory, the last document read, one `CacheVC` per reader or writer | `open_read`, `openReadStartHead`, `openReadFromWriter`, `handleRead(Done)`, `open_write`, `openWriteStartDone`, `openWriteMain`, `updateVector`, `openWriteClose*`, `do_io_close` | try-locks that take other paths when missed, flags tested before the lock, writers that leave while a reader looks at them, aborts and failed writes |
| open directory | `CacheDir.cc` (1-170) | the writers of a key, their vector, `reading_vec`, `writing_vec` | `open_write`, `close_write`, `open_read` | no entry may stay behind |
| RAM cache | `RamCacheLRU.cc` | LRU queue, hash table, seen filter, byte and object counters | `get`, `put`, `fixup`, `resize_hashtable` | two structures changed separately, entries that outlive their object |
| directory segment | `CacheDir.cc` (170-770) | rows of entries in chains, a doubly linked free list | `dir_probe`, `dir_insert`, `dir_overwrite`, `dir_delete`, `dir_clean_*`, `freelist_clean` | long sequences of operations, results of probes used after the lock was given up, overflow |
| volume on disk | `CacheWrite.cc` (aggWrite), `CacheDir.cc` (CacheSync), `Cache.cc` (recovery) | write position, phase, serial numbers, aggregation buffer, copies A and B of the directory | `handleWrite`, `aggWrite`, `aggWriteDone`, `CacheSync::mainEvent`, `handle_header_read`, `handle_recover_from_data`, `clear_dir` | crashes between any two block writes, failed writes, a log that turns, wake-ups between sync and writes |
| policies | webcachesim (not in the repository) | lengths of the cached objects | `lookup`, `admit` | external |
| scripts, nginx, tsconfig | `scripts/`, `server/`, `tsconfig/` | none | start the parts | not modelled |

They interact as follows. The client asks the proxy for `/<id>`. The proxy calls
`open_read`; on a miss or a failure it calls `open_write` and fetches `/<id>`
from nginx, which passes it to a `serverThread`. The response carries the
object's features in `X-extra-fields`; `openWriteCloseDir` parses them and calls
`admit`. All cache connections of a volume share the volume's mutex, which they
only ever try to take. A write hands its document to the aggregation buffer;
when the document has its place the writer is called back and enters it in the
directory; a periodic sync copies the directory to the disk, after the buffer
was written. After a restart the copy is read back and brought in line with what
the log holds.

The properties that make each part correct:

* client: every record of the trace is fetched exactly once, in order; latency.log
  holds each success once, the samples of throughput.log are disjoint; a signal is
  prompt; the program ends.
* origin: an id is answered with the size and features of the database, framed so
  that the reader finds as many bytes as were announced; the program ends.
* volume: what is served is a complete object of the key asked for; nobody stays
  in the open directory; the vector is read or written by one at a time; every
  reader is answered and every writer leaves.
* RAM cache: a get returns what was put under the same key and auxiliary key;
  queue, table and counters agree; the budget is kept.
* directory: it is a set of entries; none is lost or shared among its lists.
* volume on disk: an entry that counts as valid leads to a whole document,
  through turns, failures and crashes; a copy of the directory is always
  readable; the sync and the writes never wait for each other for ever.

## Modules

### `Client`
One variable per shared variable of `client.cpp`, a program counter for `main`,
each thread and `output`. A record is its position in the trace and has only a
length. Everything under a mutex is one step; every other access to a shared
variable is a step of its own. Line 75 reads `queueFull` and `urlQueue.empty()`
without the mutex, a data race. The build's outcomes are the values of the
moment: the two reads happen in that order (short-circuit evaluation, x86), and
once `queueFull` has been read as true nobody pushes any more, so `empty()`
compares a pointer that only pops move with one that is fixed. `Perform`
is one turn of the retry loop. Pacing (`real_time`), the courtesy sleep at a
million entries and the latencies themselves are left out: they are delays
between two steps. A trace or log file that cannot be opened (`abort()`) is left
out. `output` prints a row of throughput.log every 100 ms and takes a new sample only
on every `Period`-th turn, so each sample stands on `Period` rows: the history
`takenReqs`, `takenBytes` sums what was taken from the counters, not the rows, and
`rows` counts the rows of the present sample.

| action | code |
| --- | --- |
| `ReadRecord`, `PushRecord` | `requestCreate`, 138-189 |
| `SetQueueFull`, `JoinWorkers`, `WriteHistograms` | `main`, 259-282 |
| `TestQueueFull`, `TestEmpty`, `CheckStop`, `PopRequest` | `measureThread`, 75-93 |
| `Perform`, `AddBytes`, `AddReqs`, `Histogram` | `measureThread`, 95-128 and `histogram` |
| `TestRunning`, `Sleep`, `LoadReqs`, `LoadBytes`, `StoreReqs`, `StoreBytes`, `PrintRow` | `output`, 191-211 |
| `Signal` | `signalHandler` |

### `Origin`
`main` loads a row at a time, starts the threads and joins them. The conversions
are modelled by what they do: extraction into a `uint16_t` (saturating, with
failbit ending the load), `%04x`, the four loops that write the body, the header
as a sequence of lines and CRLFs. What reads a response is modelled too: the
header ends with the first empty line (nginx, external), and the features are
parsed as `CacheWrite.cc:1135-1142` does it, with the proxy's own number of features:
one that is set to read n gets the first n. A proxy set to read more features than
the origin sends reads past the field, and is not covered.

### `VdiskCache`
A reader and a writer are connections (`CacheVC`) with a program counter; the
volume's variables are what they share under its mutex. Each handler is one step
from the moment it has the lock; what it reads before it (`RestartClock`,
`TestVector`) is a step of its own. `OpenReadMissedLock` and
`OpenWriteMissedLock` are the paths after a missed lock, which differ from the
direct ones: after it a reader looks for open writers and a writer probes the
directory. A reader reads the writer it has chosen in the step of the choice
(`ChooseWriter`, `ReadWriter`), or misses its mutex; only when it comes back
(`ReadFromWriter`) does it ask whether that writer has left. `Admit` is the policy: it may admit or refuse, and evict anything.
`RamPut` is the RAM cache as far as a volume can tell. Objects have one fragment
and are not updates; read-while-writer is off; two keys do not collide in the
directory; the caller stores complete objects of known length and may abort or
cancel at any time.

### `RamCacheLRU`, implementing `RamCache`
`RamCache` says what users of a RAM cache may rely on: what is kept for each key,
and that a get answers from it, a put takes the whole document or nothing, and
documents are forgotten only when the budget is exceeded. `RamCacheLRU` has the
code's structures: entries are slots of memory, on the chain of a bucket and on
the queue; the filter, the eviction loop (which may evict the new entry itself)
and the growth of the table are all part of `PutNew`. The refinement mapping
reads the kept documents off the queue. `RamPut` and `HandleRead` of `VdiskCache`
are the same promise, reduced to lengths.

### `Directory`, implementing `DirectoryMap`
`Directory` is one segment with its links: row 0 starts a bucket's chain, other
rows are lent to any chain, unused ones are on the free list. Each operation of
`CacheDir.cc` runs under the volume's mutex and is one action; a client keeps the
result of a probe (with `last_collision`) while others change the segment, so
`Delete`, `Overwrite` and `ProbeAgain` act on stale results. `Advance` is the
volume writing a block, with `agg_wrap` and the cleaning at its end, which decides
which entries are valid. Loops of the code are iterations with a bound that
suffices; the loop from `Lagain` that would go on for ever sets `stuck`.
`DirectoryMap` is a set of entries with a reserve, and the entry that the client's
probe returned (`sought`). A probe drops only invalid entries of its key and returns
a valid one; a deletion or an overwriting takes one entry with the tag and offset of
the one that was returned, or none if there is none any more; valid entries go
otherwise only when an insertion finds the segment full. `ImplementsMap` is the
refinement; `OperationsMap` says besides that each operation of the code is the one
of that name on the map, so that a probe may not pass for a deletion. The branch of
`freelist_pop` for a damaged free list is unreachable (`Accounted`) and left out.

### `Volume`
Positions count blocks and the directory is a set of entries (which `Directory`
justifies). `vol` is the volume in memory with its header; `disk` its blocks, each
holding a part of a document; `copies` the two copies of the directory with header
and footer serials; `stage` and `snap` what a sync or a recovery is writing.

| action | code |
| --- | --- |
| `Write` | `CacheVC::handleWrite` and, when no write is in progress, all of `aggWrite` |
| `Insert` | the writer's `dir_insert` when it is called back, in any order |
| `WriteDone`, `WriteFail` | `aggWriteDone`, with the sync it wakes and the next `aggWrite` |
| `SyncEvent`, `StoreHeader`, `StoreBody`, `StoreFooter`, `SyncFail` | `CacheSync::mainEvent` |
| `Crash` | power loss: any blocks of the write in progress are stored |
| `StartUp` | `handle_header_read`, `handle_dir_read`, the whole scan of `handle_recover_from_data` |
| `ClearA`, `ClearB` | the two writes of `clear_dir` |

The scan is a function of the header and the disk (`Scanned`, a set because a read
past the volume's end has two outcomes); it reads the volume in parts as the code
does, since the test against `prev_recover_pos` and `max_sync_serial` are per part.
Each writer is called back on its own thread (`CacheWrite.cc:1105-1112`), so `pend`
is a set and they enter in any order. The history `seen` names what a recovery or a sync met, for
the exceptions below.

## Runs

| run | configuration | shows |
| --- | --- | --- |
| `client` | 2 records (one of length 0), 2 threads, 2 tries, period 2 | all safety properties of the client, and `Terminates` |
| `origin` | 5 rows, 2 features, 2 threads, 2 requests | answers, framing, counters, exit |
| `origin_plain` | no features | finding: two bytes too many |
| `vdisk` | 2 keys of different size, 1 reader, 2 writers, 3 opens | all safety properties of the volume; readers are answered, writers leave |
| `vdisk_stale` | 1 key whose size changes | finding: the RAM cache serves the old size |
| `vdisk_admit` | 1 key, 1 writer | finding: aborted transfers are admitted |
| `ram` | 3 keys, 2 sizes, budgets 0, 3, 5, a table of 1 or 2 buckets | structures, counters, refinement of `RamCache` |
| `directory` | 3 keys, 2 buckets of 2 rows, 4 blocks, 7 writes | accounting, purging, refinement of `DirectoryMap`, operation by operation |
| `volume` | 10 blocks, buffer of 2, 7 documents, 2 syncs, 1 failure, 1 crash | entries before and after the crash, wake-ups, copies, end of recovery |
| `volume_fail` | no crash, 1 failure | finding: entries of a failed write stay |
| `volume_endless` | no failure, 1 crash, documents of buffer size | finding: a recovery without end |
| `volume_twice` | 15 blocks, buffer of 3, 8 documents, 1 sync, 2 crashes | finding: the second recovery is deceived by what the first one left |

Why the bounds are enough. Client: two threads race for the last record and for
an empty queue, the second record exercises the zero length, two tries have a
last and a not-last one, and period 2 has sampling and non-sampling sleeps;
counters are bounded by the trace. Its safety is proved for every instance as
well. Origin: threads share only counters, and the rows hold the boundary cases
(0, 63, 64, 2048, 34945 bytes, a repeated id, a feature above 65535 with a row
behind it). `vdisk`: three opens let an object be written, its connection be used
again for another key, and a reader that chose it meet the change; the sizes 1
and 2 with cutoff 2 put one object in the RAM cache and not the other, and tell a
part of an object and the object of another key apart. The safety part is proved
for every instance. `ram`: the large document exceeds the smaller budget (so the new
entry is evicted itself), two keys share a tag and a chain, and the table grows
from one bucket to two; the state space is finite without a bound. `directory`:
k1 and k2 share the bucket, k1 and k3 the tag, the segment overflows, and seven
writes turn the volume once and go on. `volume`: the log turns and goes on over
old documents, with buffers that a sync or the end of the volume makes half or
entirely filled; the last document is short, so that a write after a failed one can
be shorter than it, in the round after a turn; two syncs
write both copies, and the recovery writes a third; the failure and the crash come
at any moment. The directory is longer than `EvacSize`, as `Start` = 5 says, and the
volume has room for five buffers, so that it is an instance of the theorem about
recoveries (`Roomy`, below).
`MaxOpens`, `MaxRequests`, `MaxTries`, `Period`, `MaxAlts`, `MaxWrites`, `MaxDocs`,
`MaxSyncs`, `MaxCrashes` and `MaxFails` are the named bounds. In `volume` and
`volume_twice` at most two writers are outstanding, and one after a crash
(constraint `FewPending`), and what follows a recovery that `RecoveredExact` exempts
is cut: the recovery itself, scan and clearing, is executed and its result checked,
and the behaviour ends when the volume is up (constraint `Followed`). `volume` and
`directory` end when their bounds are used up, so deadlock is not checked there.

Refinement. `ImplementsRamCache`, `ImplementsMap` and `OperationsMap` are the abstract
specifications, instantiated with the detailed state, as properties of the `ram`
and `directory` runs. They catch what the structural invariants do not: an answer
for another version of the document, an entry that vanishes without a reason, or a
deletion that takes another entry than the one looked for.

What `Volume` exempts. TLC reaches recoveries in which valid-looking entries lead
to overwritten blocks, and states without a good copy. Each is named by a mark in
`seen`; the properties hold outside of them. `EntriesExact` is about the time before
the first crash and exempts `late` and `set back`; `RecoveredExact` is about the first
recovery and what follows it, and exempts every mark; `CopyAlwaysGood` exempts the
last two; `EndsWhenSynced` exempts `round`.
The entries of documents whose own write failed are left out of both (`lost`): finding
4 is about them. Every other document must be whole, also where a failed write was.

* `late`: the log came round to a document before its writer was called back; the
  writer enters it all the same (`dir_insert` does not look).
* `set back`: a write failed and the next one is shorter, so that `agg_pos`
  (`CacheWrite.cc:1087`) is set back: entries of the last round in blocks that the
  failed write may have stored are valid again. The run reaches it, and documents that
  did not fail are found overwritten.
* `round`: the log came within `EVACUATION_SIZE` of the write position of the last
  copy; the test at `Cache.cc:1636` looks only ahead of the scan's end.
* `torn`: the first write after a turn was stored in part; `Cache.cc:1517` then
  clears from the end of the volume only.
* `skipped`: the scan stops exactly at `write_pos` after a turn and clears nothing
  (`Cache.cc:1627`).
* `cleared`: `handle_dir_clear` resets only the header of copy B.
* `sync error`: after a failed sync the serial number has risen, so that the next
  sync overwrites the only good copy (`CacheDir.cc:1068`).

A second crash is not covered by `RecoveredExact` (finding 6).

Also seen while modelling, without a property: a recovery that turned clears the
whole directory (`Cache.cc:1657`: the complement of the range that was written);
`recover_pos -= skip + len` (1643) brings the end of the region to clear back as if
the data began at position 0, so that, if `start` is at most `AGG_SIZE` (the first
volume of a disk, below about 1.5 GB), it can come to lie just behind the write
position of the copy, and a few blocks are cleared instead of almost all (TLC finds
`InconsistentForgotten` violated by one crash with `Start` = 1, `End` = 8, `AggSize`
= 2, `HighWater` = 1, two syncs and documents of 2, 2, 2, 1, 1, 2 and 2 blocks);
`max_sync_serial` starts anew with each part (1448), so the serial number chosen at
1646 may occur in documents; when the last write ended at the end of the volume the
scan reads past it; after a failed write that follows a turn `last_write_pos` is
after `write_pos` and `to_check` (1482) wraps.

Fairness. Client and origin: the operating system runs every thread again and
again (weak fairness of `main`, each thread and `output`), and a fetch ends
because of `CURLOPT_TIMEOUT`. No signal, request or failing accept is assumed.
`VdiskCache`: the event system runs a scheduled handler, tries a missed lock again, and
a disk operation ends; nothing obliges the caller to open, deliver data, cancel
or close. `RamCacheLRU`, `Directory` and `Volume` state no fairness: their liveness
questions (an insertion that repeats, a scan that goes round) are about one call
and are stated of the state it would leave (`stuck`, `endless`).

## Findings

1. `origin.cpp:68`: without extra features a response has two bytes more than
   announced.
2. `Cache.cc:2471`: the RAM cache's auxiliary keys are computed from the key, so
   an entry of an earlier version is served and kept.
3. `CacheWrite.cc:1144`: aborted and failed transfers are admitted with their
   full length.
4. `CacheWrite.cc:353`: after a failed write the entries to delete are looked up by
   a byte position, while entries hold block offsets: none is found, and they lead
   to what was on the disk before.
5. `Cache.cc:1617`: when the log came round to the position of the last sync, the
   scan of the recovery reads the same parts again and again; the test that should
   break the loop compares with the previous part only.
6. `Cache.cc:1517`: a recovery goes on with the serial numbers of the copy, and the
   documents written after that copy stay on the disk with higher ones. When the log
   turns before it has overwritten those near the end, a second recovery takes them
   for the end of the log and the documents after the turn for old ones: entries of
   what the log overwrote at the start stay. The volume of the run is `Roomy` and its
   history bears no mark, so the second crash is the cause.

## Proofs

`ClientProofs` proves, for every trace, set of threads, retry bound and sampling
period, the type invariant and every safety property of the `client` run. The
properties are not inductive by themselves. The inductive invariant `IInv` adds:

* `QueueInv`: the queue holds consecutive records that end just before `next`,
  and these and the unread ones are exactly the unsent ones;
* `MainInv`, `WorkerInv`: what is known at each program counter; the heart is
  that `testEmpty` implies `queueFull`, and that a thread that is done without a
  signal saw a full and empty queue, which cannot change any more;
* `OwnerInv`: two busy threads hold different records;
* `RecordInv`, `StopInv`, `CounterInv`: samples against outcomes, late starts and
  pushes against program counters, what was taken against the counters;
* `RowInv`: how many rows the present sample stands on, at each turn of `output`.

There is a lemma per action or group of actions (`OutputStep`, `MainStep`,
`ControlStep`, `PopStep`, `PerformStep`, `AddStep`, `HistogramStep`,
`SignalStep`), combined in `NextIInv`. The assumptions are the `ASSUME`s of
`Client`, which TLC evaluates on each run.

`VdiskProofs` proves the type invariant and the safety properties of the `vdisk`
run for every set of keys and sizes, every finite set of writers and every set
of readers. Its invariant `IInv` adds:

* `OpenInv`, `CardInv`: a writer is in the entry of a key exactly when it holds
  that key, and an entry never outgrows its limit, which rests on the test of
  `Admissible` at both places a writer enters;
* `FlagInv`, `ExclInv`: each flag of the vector is set exactly while a writer of
  the key is in that I/O; and while one reads the vector no other is past the
  unlocked test of `updateVector`. The second part is why that test needs no
  lock: only the first writer of a key reads the vector, so the others have
  entered after it and find the flag set;
* `StoreSizes`, `WriterSizes`, `ReaderSizes`: a length in the policy, the RAM
  cache, the last document read or a connection is one the origin gave for that
  key, and a writer that was closed (not aborted) has written all of it.

The lemmas are again one per action or group of actions (`OpenReadStep`,
`ReadDoneStep`, `ReadFromWriterStep`, ..., `StartDoneStep`, `UpdateVectorStep`,
`CloseDirStep`), with helpers for what a step leaves alone (`ReaderFrame`,
`WriterParts`, `MoveKeepsVector`). The assumptions are the `ASSUME`s of
`VdiskCache`. TLC found no violation of either `IInv` on the bounds of the `client`
and `vdisk` runs; the runs check the properties that follow from it.

`OriginProofs` proves the type invariant, `AnsweredFromFile`,
`ContentLengthMatchesBody` and `ReportedAtMostCounted` for every database, set of
threads and sequence of requests. `FileInv` and `MapInv` say how far the file has
been read and that the map holds the entry of an id's last row so far; after the
load the two say that the map is what the file gives, up to the row whose failbit
ended it. `ThreadInv` says that a thread has written nothing or the answer to its
request, and `CountInv` what the counters hold between their reset and their load.
`FieldsRoundTrip` is the lemma behind the answers: the features written with `%04x`
and parsed again are the features, as many as the proxy is set to read. `BodyBytesExact` sums the four loops for every
size. `LengthMatchesBody` needs `NExtra # 0`, its hypothesis: without features it is
false, which is finding 1.

`RamProofs` proves the type invariant, `OneEntryPerKey`, `AccountsExact` and the
refinement `ImplementsRamCache`. Its invariant is `TypeOK`, `QueueInv` (the queue
holds every entry in use, once), `ChainInv` (each bucket holds the entries whose key
it is the home of, one per key) and `AccountsExact`. The hard step is `PutStep`: the
eviction loop is a recursive function over the queue, `DropProperties` says by
induction that it removes a prefix and exactly its weight, `PutEvicts` that it stops
within the budget and `PutChains` that the table is right after growing. For the
refinement `EvictionNeeded` shows that the budget is really exceeded whenever a
document goes. `MemoryAssumption` and `TableAssumption` say that a `put` finds memory
for one entry more than the budget has room for, and that the last table size has a
bucket for each entry of the budget: the code allocates without a test, and its last
size is 536870909.

`VolumeProofs` proves the type invariant, `NothingForgotten`, `CopyAlwaysGood`,
`EntriesExact` and `RecoveredExact` for every volume, buffer and directory size and
any number of documents, syncs, failures and crashes; the last of them for a volume
that is `Roomy`. `TypeInv` adds to the types that what the buffer holds fits into it
and before the volume's end (`Room`), which `CopiedOK` establishes for the loop of
`aggWrite`, and that a block on the disk belongs to a document that covers it, which
the scan of a recovery relies on (`ScannedOK`). `ModeInv` says what is done in which
mode. `CopyInv` names the copy to start from: it is whole, its serial number has its
parity, the footer at the other place is older, and what is being written has a
larger number and goes to the other place. The parity step of `NextSync` is what
keeps it through a recovery.

For `EntriesExact` the invariant `EntryInv` says that the documents in the buffer lie
without gaps behind the write position and bear its serial numbers (`Placed`), that a
write in progress ends where entries of the turn before become valid (`Limits`), and
where the document of an entry is (`EntriesAt`): on the disk, whole and before the
write position (`Held`), in the buffer, or on the disk and of the turn before. Failed
writes are what makes this hard: they leave blocks behind `write_pos` that are not
theirs to keep. `Limited` says that `agg_pos` is at most a buffer ahead of `write_pos`,
and `Onward` that a write not marked `set back` leaves it where it was or moves it on, so
that the entries of the turn before that are still valid lie behind everything a
failed write can have touched (`NotSetBack`, `StoredBeyond`). At a turn
(`WrappedEntries`) the buffer is empty, so that the entries `dir_clean_vol` leaves are
those of the turn that ended, and all of them are on the disk.

`RecoveredExact` (`RecoveryForgets`) is about a scan that meets the remains of up to
three turns of the log. Its invariant `RecoveryInv` has a part for each time:

* until the crash (`LogNow`): `Lap` says what the disk holds of this turn of the log,
  with serial numbers that never fall along it, and `LogOf` what it holds since a
  copy of the directory was made, for the copy a recovery would read and for the
  one that a sync is writing. Either the log has gone on from the copy's write
  position (`Straight`), and behind its end are only torn or failed writes and
  documents of the turn before; or it has turned (`TurnedLog`). There is a lemma for
  every action that changes the log or the copies;
* after the crash (`Left`): the same of the usable copy, after any part of the write
  in progress was stored;
* after the recovery: `EntriesOK` again, so that the proof for the time before the
  crash serves for the time after it.

The scan is a recursive function of its step count, and `Walking` and `Turning` say
where it can be at every step: at the start of a document of the log that it has
read up to, with the serial numbers found so far, or at a place it re-reads from the
last write. `StraightScan` concludes that, when the log has not turned, the scan stops
at or behind the end of the log, or at a place from which the whole directory is
cleared, or does nothing (mark `skipped`); `TurnedScan` that, when it has turned, the
scan stops so far before the copy's write position that the whole directory is
cleared. `ClearedIs` computes the region that is forgotten, and
`RecoverEntries` shows that every entry outside it has its document. The numbers a
document is compared with are those of the part just read, and the scan may read a
document twice: `WalkOn` and the lemmas around it exclude that it takes an old
document for the next one.

The hypothesis `Roomy` is `Start > AggSize /\ End >= Start + 5 * AggSize`. The first
part is needed: without it the property can fail, as described above. The second is
what the argument needs: with room for four buffers only, it does not exclude that a
scan comes to the end of the volume with numbers of two syncs and then stops at the
start, where the log has gone on. Volumes have at least 128 MB
(`STORE_BLOCKS_PER_VOL`) and `AGG_SIZE` is 4 MB, so every volume satisfies it. The
other exemptions are those of the property itself: the marks, and the recoveries
after the first, which finding 6 shows to be different.

`DirectoryProofs` proves the type invariant, `Accounted` and `StuckOnlyWithoutHeads`
for every number of buckets and rows and every sequence of operations. The invariant
`Neat` says that each entry can be given a home (a bucket or the free list) and a
rank such that the links lead through the entries of one home in the order of ranks,
first entries are the lowest, links back on the free list are those forward
(`Sound`), and an unused entry in a bucket is blank and starts an empty chain
(`Tidy`). Homes and ranks are existential: every operation (`PushSound`,
`DropSound`, `UnlinkSound`, `LinkSound`) is proved by giving the new ones. A loop is
a recursive function of its step count (`StepByStep`); that the bounds in the model
suffice is part of what is proved: a scan ends because what lies ahead shrinks
(`CleanBucketNeat`, `LookupPosition`, `ProbedNeat`), and the loop from `Lagain` ends
because an attempt that makes no room takes an entry of a first fragment away
(`FewerHeads`, `MadeRoomNeat`). `ListFromIs` and `ListIsHome` lead from ranks back to
the lists of `Accounted`.

`DirectoryRefinement` proves `ImplementsMap` and `OperationsMap`: for every segment the
operations on links are those of `DirectoryMap`, name by name, on a set of entries. The lemmas of
`DirectoryProofs` also say what an operation does to the entries on the chains
(`Contents`): a deletion, a probe or a cleaning sheds entries it may shed and makes
none (`Sheds`, `DropSheds`, `CleanSegmentNeat`, `ProbedNeat`), an insertion puts in
one (`Puts`, `PutContents`, `PlacedNeat`), and making room takes valid entries only
of first fragments and only when no row is left (`Pressed`, `FullSegment`, which
counts the rows of a segment with an empty free list). The invariant `RInv` adds that
no two entries are for the same block (`Distinct`) and that entries of this round are
for blocks already written (`RoundInv`). Without it an insertion could put in an
entry that is there already, or an overwriting hit one of two equal entries, and the
set would not show it. One lemma per action gives the abstract step (`InsertMaps`,
`ProbeMaps`, `DeleteMaps`, `OverwriteMaps`, `AdvanceMaps`); that the cleaning of a
turn leaves exactly the entries of the last round is the case `Wrap` of the last.
That a deletion takes the entry looked for, and finds it if it is there, rests on
`LookupPosition`; that a first probe finds a valid entry of its key if there is one,
on `ProbedNeat`, which says what the entries it has passed are.

`InductionTheorems` holds what several of these proofs need and the library does
not give in a form the provers can use: induction over the naturals and over finite
sets with the set of good values as the parameter, the existence of recursively
defined functions, sums over finite sets, and division.

Only model-checked: liveness (`Terminates`, `ExitsWhenAcceptFails`,
`ReadersAnswered`, `WritersLeave`), which the proof system does not cover, and
`EndsWhenSynced` of `Volume`. The invariants of the scan say what it has read when it
stops, not that it stops: that needs a count of its steps against the bound of the
model (`Fuel`) for every part it reads or re-reads. And the property is stated for
every history without `round`, also those after a clearing, a torn turn or several
crashes, in which the log is not in the order that those invariants rest on. The run
executes the recoveries of torn turns and skipped scans too, with one crash.

## Not modelled

* Evacuation of pinned or popular documents: off by default, and
  `tsconfig/records.config` does not turn it on.
  Writes with the sync option and the sync at shutdown: not used by the HTTP
  caller, and a last sync without a crash.
* Updates of a cached object and objects of several fragments. With a policy the
  entry found by `openWriteStartDone` never decides what is served.
* `Cache::remove` and the scanner: with a policy, reads do not consult the
  directory; what removal does to it is `Directory`'s `Delete`.
* The place of the faked entry (`CacheRead.cc:158`) and the pacing of the client
  (`client.cpp:149`): arithmetic on one number, without state.
* A response without `X-extra-fields`, whose parsing (`CacheWrite.cc:1139`) then reads
  something else: the origin always sends the header when it has features.
* The comment "fail and don't try again" (`client.cpp:105`) stands at a `continue` that
  does try again; the model follows the code.
* The first row of throughput.log covers 100 ms (`client.cpp:199`): visible in the
  code, with no effect on what is counted.
* `RamCacheCLFUS` (not configured), the rest of Traffic Server, nginx, scripts.

## Plan

1. Done: `Client`, `Origin`, `VdiskCache`, `RamCacheLRU`, `Directory` and `Volume`
   with their runs; all their safety invariants proved, but for one of `Volume`, and
   the refinements of `RamCache` and `DirectoryMap`.
2. Left: `EndsWhenSynced`, first for the histories that `RecoveredExact` covers, where
   `Walking` and `Turning` give the order in which the scan advances.
