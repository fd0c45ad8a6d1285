----------------------------- MODULE Directory ------------------------------
(***************************************************************************)
(* One segment of a volume's directory (CacheDir.cc): rows of entries in   *)
(* buckets.  Row 0 of a bucket is the start of its chain; the other rows   *)
(* of all buckets are lent to any chain, and those that no chain uses are  *)
(* on a doubly linked free list.  An offset of 0 marks an unused entry.    *)
(*                                                                         *)
(* Entries are numbered from 1, bucket by bucket, and Nil is the null      *)
(* pointer (the code numbers from 0, and never points to entry 0).  The    *)
(* word that holds the tag, the phase and the head bit holds the link prev *)
(* of an entry on the free list: here they are two fields.  An operation   *)
(* runs under the volume's mutex.                                          *)
(*                                                                         *)
(* Which entries are valid depends on the position of the volume's writes, *)
(* reduced here to one block per document.  One client keeps the result of *)
(* a probe while others change the segment, as readers and removers do     *)
(* while they wait for the disk; new entries are for the block just        *)
(* written.                                                                *)
(***************************************************************************)
EXTENDS Integers, Sequences, FiniteSets

CONSTANTS Keys,
          BucketOf, TagOf,   \* the parts of a key that the segment uses
          HeadOf,            \* whether it is the key of a first fragment
          NBuckets,          \* Vol::buckets
          Depth,             \* DIR_DEPTH
          PurgeEvery,        \* freelist_clean drops one head entry in so many (10)
          Blocks,            \* blocks of the volume
          MaxWrites          \* bound: blocks written in a behaviour

Nil     == 0
Slots   == 1 .. NBuckets * Depth
Buckets == 0 .. NBuckets - 1

ASSUME ShapeAssumption ==
  /\ NBuckets \in Nat \ {0} /\ Depth \in Nat /\ Depth > 1
  /\ PurgeEvery \in Nat \ {0} /\ Blocks \in Nat \ {0} /\ MaxWrites \in Nat
ASSUME KeyAssumption == /\ BucketOf \in [Keys -> Buckets] /\ TagOf \in [Keys -> Nat]
                        /\ HeadOf \in [Keys -> BOOLEAN]

VARIABLES seg,         \* the segment and its free list
          pos, phase,  \* the position and the phase of the volume
          writes,      \* history: blocks written so far
          fresh,       \* the last block written has no entry yet
          found,       \* the client's probe: key, entry and last_collision
          stuck,       \* an insertion repeats from Lagain without end
          entries      \* derived from seg: the entries on its chains

vars == <<seg, pos, phase, writes, fresh, found, stuck, entries>>

Tags == {TagOf[k] : k \in Keys}

EmptyDir == [tag |-> 0, off |-> 0, phase |-> FALSE, head |-> FALSE]

None == [key |-> Nil, dir |-> EmptyDir, last |-> Nil]

Row(b, l) == b * Depth + l + 1

IsRow0(s) == (s - 1) % Depth = 0

Run(step(_), start, n) ==
  LET after[i \in 0 .. n] == IF i = 0 THEN start ELSE step(after[i - 1]) IN after[n]

-----------------------------------------------------------------------------
(* mutant: the block just written is not valid yet *)
ValidAt_Mutant(x, p, f) == IF x.phase = f THEN x.off < p ELSE x.off > p

(* dir_valid *)
ValidAt(x, p, f) == IF x.phase = f THEN x.off <= p ELSE x.off > p

Valid(x) == ValidAt(x, pos, phase)

(* dir_free_entry, and the last lines of dir_delete_entry. *)
PushFree(g, e) ==
  [g EXCEPT !.next[e] = g.free,
            !.prev = [s \in Slots |-> IF s = g.free THEN e ELSE @[s]],
            !.free = e]

(* dir_init_segment: row by row onto the free list. *)
InitSegment ==
  LET row(i)  == Row((i - 1) % NBuckets, 1 + ((i - 1) \div NBuckets))
      push(c) == [i |-> c.i + 1, g |-> PushFree(c.g, row(c.i))]
      blank   == [ent  |-> [s \in Slots |-> EmptyDir],
                  next |-> [s \in Slots |-> Nil],
                  prev |-> [s \in Slots |-> Nil],
                  free |-> Nil]
  IN Run(push, [i |-> 1, g |-> blank], NBuckets * (Depth - 1)).g

(* mutant: the link back is not set *)
Unlink_Mutant(g, e) ==
  IF g.prev[e] # Nil THEN [g EXCEPT !.next[g.prev[e]] = g.next[e]]
  ELSE [g EXCEPT !.free = g.next[e]]

(* unlink_from_freelist *)
Unlink(g, e) ==
  LET before == IF g.prev[e] # Nil THEN [g EXCEPT !.next[g.prev[e]] = g.next[e]]
                ELSE [g EXCEPT !.free = g.next[e]]
  IN IF g.next[e] # Nil THEN [before EXCEPT !.prev[g.next[e]] = g.prev[e]] ELSE before

(* dir_delete_entry with a predecessor p in the chain. *)
DeleteAfter(g, e, p) ==
  PushFree([g EXCEPT !.ent[e] = EmptyDir, !.prev[e] = Nil, !.next[p] = g.next[e]], e)

(* dir_delete_entry for the first entry of a chain: the second is moved to *)
(* its place.                                                              *)
DeleteFirst(g, e) ==
  LET n == g.next[e]
  IN IF n = Nil THEN [g EXCEPT !.ent[e] = EmptyDir]
     ELSE DeleteAfter([g EXCEPT !.ent[e] = g.ent[n], !.next[e] = g.next[n]], n, e)

DeleteEntry(g, e, p) == IF p = Nil THEN DeleteFirst(g, e) ELSE DeleteAfter(g, e, p)

(* The entry that follows the deleted one. *)
AfterDelete(g, e, p) ==
  IF p = Nil /\ g.next[e] # Nil THEN e
  ELSE IF p = Nil THEN Nil ELSE g.next[e]

(* A position e in a chain, with its predecessor p. *)
Forward(c) == [c EXCEPT !.p = c.e, !.e = c.g.next[c.e]]

DropAt(c) == [c EXCEPT !.g = DeleteEntry(c.g, c.e, c.p), !.e = AfterDelete(c.g, c.e, c.p)]

Scan == 2 * Cardinality(Slots)   \* steps that suffice for a chain

(* dir_clean_bucket, dir_clean_segment: what is not valid any more goes. *)
CleanBucket(g, b, p, f) ==
  LET step(c) == IF c.e = Nil THEN c
                 ELSE IF c.g.ent[c.e].off = 0 \/ ~ValidAt(c.g.ent[c.e], p, f) THEN DropAt(c)
                 ELSE Forward(c)
  IN Run(step, [g |-> g, e |-> Row(b, 0), p |-> Nil], Scan).g

CleanSegment(g, p, f) ==
  LET step(c) == [b |-> c.b + 1, g |-> CleanBucket(c.g, c.b, p, f)]
  IN Run(step, [b |-> 0, g |-> g], NBuckets).g

(* mutant: the count starts at one *)
Purged_Mutant(g) ==
  {s \in Slots : /\ g.ent[s].head
                 /\ Cardinality({t \in 1 .. s : g.ent[t].head}) % PurgeEvery = 0}

(* The entries that freelist_clean drops when cleaning was not enough. *)
Purged(g) ==
  {s \in Slots : /\ g.ent[s].head
                 /\ Cardinality({t \in 1 .. s - 1 : g.ent[t].head}) % PurgeEvery = 0}

FreelistClean(g) ==
  LET clean == CleanSegment(g, pos, phase)
  IN IF clean.free # Nil THEN clean
     ELSE CleanSegment([clean EXCEPT !.ent = [s \in Slots |->
                          IF s \in Purged(clean) THEN [@[s] EXCEPT !.off = 0] ELSE @[s]]],
                       pos, phase)

-----------------------------------------------------------------------------
(* Where dir_insert and dir_overwrite put a new entry of bucket b: row 0,  *)
(* another row of the bucket, or the front of the free list.               *)
EmptyRows(g, b) == {l \in 0 .. Depth - 1 : g.ent[Row(b, l)].off = 0}

HasRoom(g, b) == EmptyRows(g, b) # {} \/ g.free # Nil

(* freelist_pop *)
Pop(g) ==
  [g EXCEPT !.free = g.next[g.free],
            !.prev = [s \in Slots |-> IF s = g.next[g.free] THEN Nil ELSE @[s]]]

(* Llink and Lfill; dir_assign_data keeps the link. *)
Link(g, b, e, x) ==
  [g EXCEPT !.next[e] = g.next[Row(b, 0)], !.next[Row(b, 0)] = e,
            !.ent[e] = x, !.prev[e] = Nil]

Placed(g, b, x) ==
  LET l == CHOOSE l \in EmptyRows(g, b) : \A m \in EmptyRows(g, b) : l <= m
  IN IF EmptyRows(g, b) = {} THEN Link(Pop(g), b, g.free, x)
     ELSE IF l = 0 THEN [g EXCEPT !.ent[Row(b, 0)] = x]
     ELSE Link(Unlink(g, Row(b, l)), b, Row(b, l), x)

(* The segment when the loop from Lagain finds room, or goes on for ever. *)
MadeRoom(g, b) ==
  LET step(h) == IF HasRoom(h, b) THEN h ELSE FreelistClean(h)
  IN Run(step, g, Cardinality(Slots) + 1)

Enter(k, x) ==
  LET g == MadeRoom(seg, BucketOf[k])
  IN IF HasRoom(g, BucketOf[k])
     THEN seg' = Placed(g, BucketOf[k], x) /\ UNCHANGED stuck
     ELSE seg' = g /\ stuck' = TRUE

(* mutant: the offset is not compared *)
Lookup_Mutant(g, k, off) ==
  LET matches(e) == g.ent[e].tag = TagOf[k]
      step(c) == IF c.e = Nil \/ matches(c.e) THEN c ELSE Forward(c)
  IN IF g.ent[Row(BucketOf[k], 0)].off = 0 THEN [g |-> g, e |-> Nil, p |-> Nil]
     ELSE Run(step, [g |-> g, e |-> Row(BucketOf[k], 0), p |-> Nil], Scan)

(* The first entry of the chain with this tag and offset, or Nil; its      *)
(* phase is not compared.                                                  *)
Lookup(g, k, off) ==
  LET matches(e) == g.ent[e].tag = TagOf[k] /\ g.ent[e].off = off
      step(c) == IF c.e = Nil \/ matches(c.e) THEN c ELSE Forward(c)
  IN IF g.ent[Row(BucketOf[k], 0)].off = 0 THEN [g |-> g, e |-> Nil, p |-> Nil]
     ELSE Run(step, [g |-> g, e |-> Row(BucketOf[k], 0), p |-> Nil], Scan)

(* dir_probe from the last collision: entries with the tag are passed over *)
(* until that one, then the first valid one is the result, and invalid     *)
(* ones are deleted.  If the collision has gone, the scan starts again.    *)
Probed(k, collision) ==
  LET b == Row(BucketOf[k], 0)
      start(g, col) == [g |-> g, e |-> IF g.ent[b].off = 0 THEN Nil ELSE b,
                        p |-> Nil, col |-> col, hit |-> FALSE]
      step(c) ==
        IF c.hit THEN c
        ELSE IF c.e = Nil THEN IF c.col = Nil THEN c ELSE start(c.g, Nil)
        ELSE IF c.g.ent[c.e].tag # TagOf[k] THEN Forward(c)
        ELSE IF c.col # Nil
             THEN [Forward(c) EXCEPT !.col = IF c.col = c.e THEN Nil ELSE @]
        ELSE IF Valid(c.g.ent[c.e]) THEN [c EXCEPT !.hit = TRUE]
        ELSE DropAt(c)
  IN Run(step, start(seg, collision), 2 * Scan)

-----------------------------------------------------------------------------
(* The entries of g reached from s by next; longer than Slots if there is  *)
(* a loop.                                                                 *)
ListFrom(g, s) ==
  LET step(q) == IF q = <<>> THEN IF s = Nil THEN q ELSE <<s>>
                 ELSE IF g.next[q[Len(q)]] = Nil THEN q
                 ELSE Append(q, g.next[q[Len(q)]])
  IN Run(step, <<>>, Cardinality(Slots) + 1)

Members(q) == {q[i] : i \in DOMAIN q}

Chain(g, b) == ListFrom(g, Row(b, 0))

FreeList(g) == ListFrom(g, g.free)

(* An entry x on the chain of bucket b. *)
Item(b, x) == [bucket |-> b, tag |-> x.tag, off |-> x.off, phase |-> x.phase, head |-> x.head]

Contents(g) ==
  UNION {{Item(b, g.ent[s]) : s \in {t \in Members(Chain(g, b)) : g.ent[t].off # 0}} :
           b \in Buckets}

Init ==
  /\ seg = InitSegment
  /\ pos = 0 /\ phase = FALSE /\ writes = 0
  /\ fresh = FALSE
  /\ found = None
  /\ stuck = FALSE
  /\ entries = {}

(* mutant: the offset is one too far *)
NewDir_Mutant(k) ==
  [tag |-> TagOf[k], off |-> pos + 1, phase |-> phase, head |-> HeadOf[k]]

(* dir_set_offset, dir_set_phase and dir_set_head of agg_copy. *)
NewDir(k) == [tag |-> TagOf[k], off |-> pos, phase |-> phase, head |-> HeadOf[k]]

(* dir_insert *)
Insert(k) ==
  /\ ~stuck /\ fresh
  /\ Enter(k, NewDir(k))
  /\ fresh' = FALSE
  /\ UNCHANGED <<pos, phase, writes, found>>

Probe(k, collision) ==
  LET c == Probed(k, collision)
  IN /\ ~stuck
     /\ seg' = c.g
     /\ found' = IF c.hit THEN [key |-> k, dir |-> c.g.ent[c.e], last |-> c.e] ELSE None
     /\ UNCHANGED <<pos, phase, writes, fresh, stuck>>

(* A client whose document turned out to be of another key asks again. *)
ProbeAgain == found # None /\ Probe(found.key, found.last)

(* dir_delete of the entry that the probe returned. *)
Delete ==
  LET c == Lookup(seg, found.key, found.dir.off)
  IN /\ ~stuck /\ found # None
     /\ seg' = IF c.e = Nil THEN seg ELSE DeleteEntry(seg, c.e, c.p)
     /\ found' = None
     /\ UNCHANGED <<pos, phase, writes, fresh, stuck>>

(* dir_overwrite of the entry that the probe returned by a new one. *)
Overwrite(must) ==
  LET c == Lookup(seg, found.key, found.dir.off)
      x == NewDir(found.key)
  IN /\ ~stuck /\ found # None /\ fresh
     /\ \/ c.e # Nil /\ seg' = [seg EXCEPT !.ent[c.e] = x] /\ UNCHANGED stuck
        \/ c.e = Nil /\ must /\ UNCHANGED <<seg, stuck>>
        \/ c.e = Nil /\ ~must /\ Enter(found.key, x)
     /\ fresh' = FALSE
     /\ found' = None
     /\ UNCHANGED <<pos, phase, writes>>

(* The volume writes a block; at its end agg_wrap starts again and cleans  *)
(* the directory.                                                          *)
Advance ==
  /\ ~stuck /\ writes < MaxWrites
  /\ writes' = writes + 1
  /\ IF pos = Blocks
     THEN pos' = 1 /\ phase' = ~phase /\ seg' = CleanSegment(seg, 0, ~phase)
     ELSE pos' = pos + 1 /\ UNCHANGED <<phase, seg>>
  /\ fresh' = TRUE
  /\ UNCHANGED <<found, stuck>>

Next ==
  /\ \/ Advance \/ Delete \/ ProbeAgain
     \/ \E k \in Keys : Insert(k) \/ Probe(k, Nil)
     \/ \E must \in BOOLEAN : Overwrite(must)
  /\ entries' = Contents(seg')

Spec == Init /\ [][Next]_vars

-----------------------------------------------------------------------------
Dirs == [tag : Tags \cup {0}, off : 0 .. Blocks, phase : BOOLEAN, head : BOOLEAN]

(* The variables have their types. *)
TypeOK ==
  /\ seg.ent \in [Slots -> Dirs]
  /\ seg.next \in [Slots -> Slots \cup {Nil}]
  /\ seg.prev \in [Slots -> Slots \cup {Nil}]
  /\ seg.free \in Slots \cup {Nil}
  /\ pos \in 0 .. Blocks /\ phase \in BOOLEAN /\ fresh \in BOOLEAN /\ stuck \in BOOLEAN
  /\ writes \in 0 .. MaxWrites
  /\ found \in [key : Keys \cup {Nil}, dir : Dirs, last : Slots \cup {Nil}]

(* After any sequence of insertions, deletions, probes and purges the      *)
(* entries are accounted for: each is on one chain or on the free list,    *)
(* once; links back on the free list are those forward; a used entry is on *)
(* the chain of a bucket, and an unused one starts an empty chain or is    *)
(* free (what check_dir and dir_segment_accounted test in a debug build).  *)
Accounted ==
  LET free  == FreeList(seg)
      lists == {Chain(seg, b) : b \in Buckets} \cup {free}
  IN /\ \A q \in lists : Cardinality(Members(q)) = Len(q)
     /\ \A q, r \in lists : q = r \/ Members(q) \cap Members(r) = {}
     /\ UNION {Members(q) : q \in lists} = Slots
     /\ \A i \in DOMAIN free :
          /\ seg.ent[free[i]].off = 0
          /\ ~IsRow0(free[i])
          /\ seg.prev[free[i]] = IF i = 1 THEN Nil ELSE free[i - 1]
     /\ \A q \in lists \ {free} : \A i \in DOMAIN q :
          seg.ent[q[i]].off = 0 => i = 1 /\ Len(q) = 1

(* The loop from Lagain in dir_insert and dir_overwrite ends as long as    *)
(* the segment holds the entry of a first fragment: freelist_clean then    *)
(* frees something, in the end also for another bucket than the one it     *)
(* cleaned.                                                                *)
StuckOnlyWithoutHeads == stuck => \A s \in Slots : ~seg.ent[s].head

(* The entry that the client's probe returned. *)
Sought == IF found = None THEN {} ELSE {Item(BucketOf[found.key], found.dir)}

Map == INSTANCE DirectoryMap WITH Reserve <- NBuckets * (Depth - 1), sought <- Sought

(* The segment is a set of entries, whatever the links do: no valid entry  *)
(* vanishes but by a deletion or overwriting that looks for it, or when    *)
(* the segment is full, and none appears that was not inserted.            *)
ImplementsMap == Map!Spec

(* Each operation is the one of its name on the set of entries. *)
OperationMaps ==
  /\ Advance => Map!Advance
  /\ Delete => Map!Delete
  /\ \A k \in Keys : /\ Insert(k) => Map!Insert(k)
                     /\ Probe(k, Nil) => Map!Probe(k, TRUE)
  /\ ProbeAgain => Map!Probe(found.key, FALSE)
  /\ \A must \in BOOLEAN : Overwrite(must) => Map!Overwrite(found.key, must)

(* Operation by operation: dir_probe drops only invalid entries of its     *)
(* key, returns a valid one and, if it is not the continuation of an       *)
(* earlier one, finds one if there is any; dir_delete removes one entry    *)
(* with the tag and the offset that were probed for, and nothing only when *)
(* there is none; dir_overwrite replaces such an entry and touches no      *)
(* other.                                                                  *)
OperationsMap == [][OperationMaps]_vars
=============================================================================
