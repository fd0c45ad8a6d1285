---------------------------- MODULE RamCacheLRU -----------------------------
(***************************************************************************)
(* The RAM cache of a volume (RamCacheLRU.cc): a hash table of entries, a  *)
(* queue of the same entries in the order of their last use, the bytes and *)
(* the number of the entries, and a filter that takes a document only when *)
(* its key was the last one seen on its bucket.  The table grows when it   *)
(* has more entries than buckets.  Every call holds the volume's mutex.    *)
(*                                                                         *)
(* The order within a chain is left out: OneEntryPerKey makes it           *)
(* immaterial.  An entry is a slot of memory, taken by THREAD_ALLOC and    *)
(* given back by THREAD_FREE.  Both auxiliary keys are one value.          *)
(***************************************************************************)
EXTENDS Integers, Sequences, FiniteSets, FiniteSetsExt

CONSTANTS Keys, Auxs, Data,
          None,         \* no data, and the content of a free slot
          Slots,        \* memory for entries
          SizeOf,       \* block_size() of the data
          Overhead,     \* ENTRY_OVERHEAD
          Slice,        \* key.slice32(3)
          TagUnit,      \* the part of it above 2^16 is the filter's tag
          BucketSizes,  \* bucket_sizes
          Budgets       \* the max_bytes that init may be given

ASSUME SizeAssumption   == SizeOf \in [Data -> Nat \ {0}] /\ Overhead \in Nat
ASSUME HashAssumption   == Slice \in [Keys -> Nat] /\ TagUnit \in Nat \ {0}
ASSUME BucketAssumption == BucketSizes \in Seq(Nat \ {0}) /\ Len(BucketSizes) > 0
ASSUME BudgetAssumption == Budgets \subseteq Nat

VARIABLES maxBytes,  \* max_bytes
          useSeen,   \* cache_config_ram_cache_use_seen_filter
          bytes, objects,
          ibuckets,  \* which of bucket_sizes is in use
          seen,      \* the filter: the last tag put on each bucket
          bucket,    \* the entries on the chain of each bucket
          lru,       \* the entries, least recently used first
          entry,     \* the memory
          answer     \* if the last call was a get: what it asked for and was given

vars == <<maxBytes, useSeen, bytes, objects, ibuckets, seen, bucket, lru,
          entry, answer>>

Entries == [key : Keys, aux : Auxs, data : Data]

ASSUME NoneAssumption ==
  None \notin Data \cup Entries \cup [aux : Auxs, data : Data]

(* An entry is charged with more than Overhead bytes, so there are at most *)
(* b \div (Overhead + 1) entries in a budget of b bytes.  There is memory  *)
(* for one more (put allocates before it evicts), and the last size of the *)
(* table has a bucket for each (536870909 in the code, whose overhead is   *)
(* 128 bytes: enough for every budget up to 64 GB).                        *)
ASSUME MemoryAssumption ==
  /\ IsFiniteSet(Slots)
  /\ \A b \in Budgets : b < (Overhead + 1) * Cardinality(Slots)
ASSUME TableAssumption ==
  \A b \in Budgets : b < (Overhead + 1) * (BucketSizes[Len(BucketSizes)] + 1)

Buckets(i) == 0 .. BucketSizes[i] - 1

HomeIn(i, k) == Slice[k] % BucketSizes[i]

Home(k) == HomeIn(ibuckets, k)

Tag(k) == Slice[k] \div TagUnit

Cost(d) == Overhead + SizeOf[d]

(* The weight of the entries in S when the memory is m. *)
Weight(m, S) == MapThenSumSet(LAMBDA e : Cost(m[e].data), S)

(* The queue q when the entries in S are taken off it. *)
Drop(q, S) ==
  LET rest[i \in 0 .. Len(q)] ==
        IF i = 0 THEN <<>>
        ELSE IF q[i] \in S THEN rest[i - 1] ELSE Append(rest[i - 1], q[i])
  IN rest[Len(q)]

Elements(q) == {q[i] : i \in DOMAIN q}

-----------------------------------------------------------------------------
(* mutant: the filter keeps its size *)
FreshFilter_Mutant(i) == [b \in Buckets(1) |-> 0]
FreshFilter(i) == [b \in Buckets(i) |-> 0]

Init ==
  /\ maxBytes \in Budgets
  /\ useSeen \in BOOLEAN
  /\ bytes = 0 /\ objects = 0
  /\ ibuckets = 1
  /\ seen = FreshFilter(1)
  /\ bucket = [b \in Buckets(1) |-> {}]
  /\ lru = <<>>
  /\ entry = [e \in Slots |-> None]
  /\ answer = None

OfKey(k) == {e \in bucket[Home(k)] : entry[e].key = k}

(* mutant: the auxiliary key is not compared *)
Match_Mutant(k, a) == OfKey(k)
Match(k, a) == {e \in OfKey(k) : entry[e].aux = a}

Touched(e) == Append(Drop(lru, {e}), e)

Reply(k, a, d) == [key |-> k, aux |-> a, data |-> d]

GetHit(k, a) ==
  /\ maxBytes > 0
  /\ \E e \in Match(k, a) : lru' = Touched(e) /\ answer' = Reply(k, a, entry[e].data)
  /\ UNCHANGED <<maxBytes, useSeen, bytes, objects, ibuckets, seen, bucket, entry>>

GetMiss(k, a) ==
  /\ maxBytes = 0 \/ Match(k, a) = {}
  /\ answer' = Reply(k, a, None)
  /\ UNCHANGED <<maxBytes, useSeen, bytes, objects, ibuckets, seen, bucket, lru, entry>>

-----------------------------------------------------------------------------
(* put.  The filter replaces the tag of the bucket, and declines the       *)
(* document if it was another.                                             *)
Seen(k) == useSeen => seen[Home(k)] = Tag(k)

PutUnseen(k) ==
  /\ maxBytes > 0
  /\ ~Seen(k)
  /\ seen' = [seen EXCEPT ![Home(k)] = Tag(k)]
  /\ answer' = None
  /\ UNCHANGED <<maxBytes, useSeen, bytes, objects, ibuckets, bucket, lru, entry>>

(* The cache keeps the data it has. *)
PutAgain(k, a) ==
  /\ maxBytes > 0
  /\ Seen(k)
  /\ \E e \in Match(k, a) : lru' = Touched(e)
  /\ answer' = None
  /\ UNCHANGED <<maxBytes, useSeen, bytes, objects, ibuckets, seen, bucket, entry>>

(* How many entries go from the front of queue q, which weighs w, until it *)
(* fits (the memory is m).                                                 *)
(* mutant: one eviction is taken to be enough *)
Evictions_Mutant(m, q, w) == IF w > maxBytes THEN 1 ELSE 0
Evictions(m, q, w) ==
  Min({n \in 0 .. Len(q) :
         n = Len(q) \/ w - Weight(m, Elements(SubSeq(q, 1, n))) <= maxBytes})

(* resize_hashtable: each entry goes to the bucket of the new size, and    *)
(* the filter starts again.                                                *)
Rehash(i, m, S) == [b \in Buckets(i) |-> {e \in S : HomeIn(i, m[e].key) = b}]

(* The entries that the new one replaces. *)
(* mutant: conflicting entries stay *)
Stale_Mutant(k) == {}
Stale(k) == OfKey(k)

(* Entries of the key with another auxiliary key go, the document is put   *)
(* at the end of the queue, entries at its front are evicted (the new one  *)
(* too if nothing else is left), and the table may be resized, which also  *)
(* clears the filter.                                                      *)
PutNew(k, a, d) ==
  LET new      == CHOOSE e \in Slots : entry[e] = None
      stale    == Stale(k)
      content  == [entry EXCEPT ![new] = [key |-> k, aux |-> a, data |-> d]]
      queue    == Append(Drop(lru, stale), new)
      load     == bytes - Weight(content, stale) + Cost(d)
      n        == Evictions(content, queue, load)
      evicted  == Elements(SubSeq(queue, 1, n))
      gone     == stale \cup evicted
      chains   == [b \in DOMAIN bucket |->
                     (bucket[b] \cup (IF b = Home(k) THEN {new} ELSE {})) \ gone]
      number   == objects - Cardinality(stale) + 1 - n
      grows    == number > BucketSizes[ibuckets]
  IN /\ maxBytes > 0
     /\ Seen(k)
     /\ Match(k, a) = {}
     /\ lru' = SubSeq(queue, n + 1, Len(queue))
     /\ bytes' = load - Weight(content, evicted)
     /\ objects' = number
     /\ entry' = [e \in Slots |-> IF e \in gone THEN None ELSE content[e]]
     /\ IF grows
        THEN /\ ibuckets' = ibuckets + 1
             /\ bucket' = Rehash(ibuckets + 1, content,
                                 UNION {chains[b] : b \in DOMAIN chains})
             /\ seen' = FreshFilter(ibuckets + 1)
        ELSE bucket' = chains /\ UNCHANGED <<ibuckets, seen>>
     /\ answer' = None
     /\ UNCHANGED <<maxBytes, useSeen>>

(* fixup: evacuation moved the document. *)
Fixup(k, a, b) ==
  /\ maxBytes > 0
  /\ \E e \in Match(k, a) : entry' = [entry EXCEPT ![e].aux = b]
  /\ answer' = None
  /\ UNCHANGED <<maxBytes, useSeen, bytes, objects, ibuckets, seen, bucket, lru>>

-----------------------------------------------------------------------------
Next ==
  \E k \in Keys, a \in Auxs :
    \/ GetHit(k, a)
    \/ GetMiss(k, a)
    \/ PutUnseen(k)
    \/ PutAgain(k, a)
    \/ \E d \in Data : PutNew(k, a, d)
    \/ \E b \in Auxs : Fixup(k, a, b)

Spec == Init /\ [][Next]_vars

-----------------------------------------------------------------------------
(* The variables have their types: in particular the table never needs a   *)
(* size beyond the last of bucket_sizes, and the filter has one tag per    *)
(* bucket also after resize_hashtable.                                     *)
TypeOK ==
  /\ maxBytes \in Budgets /\ useSeen \in BOOLEAN
  /\ bytes \in Nat /\ objects \in Nat
  /\ ibuckets \in DOMAIN BucketSizes
  /\ seen \in [Buckets(ibuckets) -> Nat]
  /\ bucket \in [Buckets(ibuckets) -> SUBSET Slots]
  /\ lru \in Seq(Slots)
  /\ entry \in [Slots -> Entries \cup {None}]
  /\ answer \in [key : Keys, aux : Auxs, data : Data \cup {None}] \cup {None}

(* Two structures, one content: the entries on the queue are the ones on   *)
(* the chains and the ones in use, each queued once and on the chain where *)
(* get and put look for its key, and no key has two entries (put drops the *)
(* entries whose auxiliary keys conflict).  Eviction, resize_hashtable and *)
(* fixup change the two structures separately.                             *)
OneEntryPerKey ==
  LET live == {e \in Slots : entry[e] # None}
  IN /\ Elements(lru) = live
     /\ Len(lru) = Cardinality(live)
     /\ \A b \in DOMAIN bucket :
          bucket[b] = {e \in live : Home(entry[e].key) = b}
     /\ \A e, f \in live : entry[e].key = entry[f].key => e = f

(* The counters that put and remove adjust step by step agree with the     *)
(* entries, and the cache is never over its budget between two calls.      *)
AccountsExact ==
  /\ bytes = Weight(entry, Elements(lru))
  /\ objects = Len(lru)
  /\ bytes <= maxBytes

kept == [k \in Keys |->
           IF \E e \in Elements(lru) : entry[e].key = k
           THEN LET e == CHOOSE e \in Elements(lru) : entry[e].key = k
                IN [aux |-> entry[e].aux, data |-> entry[e].data]
           ELSE None]

Abstract == INSTANCE RamCache WITH limit <- maxBytes

(* The LRU cache keeps the promise of a RAM cache: a get returns the data  *)
(* that was put under its key and auxiliary key and was not forgotten      *)
(* since, a put takes the whole document or nothing, and no document is    *)
(* lost when there is room for all.                                        *)
ImplementsRamCache == Abstract!Spec

=============================================================================
