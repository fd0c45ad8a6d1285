------------------------ MODULE DirectoryRefinement -------------------------
(***************************************************************************)
(* A directory segment is a set of entries: every operation on the links   *)
(* of Directory is the operation of that name of DirectoryMap.             *)
(* What each operation does to the set is known from the lemmas of         *)
(* DirectoryProofs (Sheds, Puts and Pressed); what is added here is that   *)
(* no two entries are for the same block, so that the one just written has *)
(* no entry yet.                                                           *)
(***************************************************************************)
EXTENDS DirectoryProofs

USE ShapeAssumption, KeyAssumption

(* The entries of this round are for blocks already written.               *)
RoundInv ==
  \A x \in Contents(seg) : x.phase = phase => x.off <= pos /\ (fresh => x.off # pos)

BlocksInv == Distinct(seg) /\ RoundInv

RInv == IInv /\ entries = Contents(seg) /\ BlocksInv

NewItem(k) == Item(BucketOf[k], NewDir(k))

-----------------------------------------------------------------------------
LEMMA ItemsOf ==
  ASSUME NEW g, Neat(g, Buckets)
  PROVE  /\ Contents(g) \subseteq Items /\ IsFiniteSet(Contents(g))
         /\ \A x \in Contents(g) : x.off # 0 /\ x.off > 0
         /\ \A x \in Contents(g) : x.bucket \in Buckets /\ x.phase \in BOOLEAN /\ x.off \in 0 .. Blocks
         /\ \A x \in Contents(g) : x.head => Heads(g) # {}
<1>1. PICK own, rank : Sound(g, own, rank, Slots)
  BY DEF Neat
<1>2. Contents(g) \subseteq Items /\ IsFiniteSet(Contents(g))
  BY <1>1, ContentsAre, ContentsFinite
<1>3. ASSUME NEW x \in Contents(g) PROVE x.off # 0 /\ (x.head => Heads(g) # {})
  <2>1. PICK s \in Used(g) : x = Item(own[s], g.ent[s])
    BY <1>1, ContentsAre, StockHas
  <2>2. s \in Slots /\ g.ent[s].off # 0 /\ x.off = g.ent[s].off /\ x.head = g.ent[s].head
    BY <2>1 DEF Used, Item
  <2> QED
    BY <2>2 DEF Heads
<1>4. \A x \in Items : x.bucket \in Buckets /\ x.phase \in BOOLEAN /\ x.off \in 0 .. Blocks
  BY DEF Items
<1>5. \A n \in 0 .. Blocks : n # 0 => n > 0
  OBVIOUS
<1> QED
  BY <1>2, <1>3, <1>4, <1>5

(* The abstract specification counts as this one does.                     *)
LEMMA SameCount == ASSUME NEW S PROVE Map!Cardinality(S) = Cardinality(S)
BY DEF Map!Cardinality, Cardinality

(* The terms of the abstract specification.                                *)
LEMMA MapTerms ==
  ASSUME RInv
  PROVE  /\ Map!Stale = Contents(seg) \cap Outdated
         /\ Map!Heads = Contents(seg) \cap HeadItems
         /\ Map!Full <=> Crowded(seg)
<1>1. Neat(seg, Buckets) /\ entries = Contents(seg)
  BY DEF RInv, IInv
<1>2. Contents(seg) \subseteq Items
  BY <1>1, ItemsOf
<1>3. \A x : Map!Valid(x) <=> ValidAt(x, pos, phase)
  BY DEF Map!Valid, ValidAt
<1>4. Map!Stale = Contents(seg) \cap Outdated
  BY <1>1, <1>2, <1>3 DEF Map!Stale, Outdated, Invalid
<1>5. Map!Heads = Contents(seg) \cap HeadItems
  BY <1>1, <1>2 DEF Map!Heads, HeadItems
<1>6. entries \ Map!Stale = Contents(seg) \ Outdated
  BY <1>1, <1>4
<1>7. Map!Full <=> Crowded(seg)
  BY <1>6, SameCount DEF Map!Full, Crowded, Outdated, Spares
<1> QED
  BY <1>4, <1>5, <1>7

LEMMA MapItems ==
  ASSUME RInv, NEW k \in Keys
  PROVE  /\ Map!New(k) = NewItem(k)
         /\ Map!OfKey(k) = {x \in Contents(seg) : x.bucket = BucketOf[k] /\ x.tag = TagOf[k]}
<1>1. Map!New(k) = NewItem(k)
  BY DEF Map!New, NewItem, Item, NewDir
<1>2. entries = Contents(seg)
  BY DEF RInv
<1> QED
  BY <1>1, <1>2 DEF Map!OfKey

(* What a probe returned stays what is sought.                             *)
LEMMA SoughtIs ==
  ASSUME FoundInv
  PROVE  /\ found = None => Sought = {}
         /\ found # None => /\ Sought = {Item(BucketOf[found.key], found.dir)}
                            /\ Sought # {}
                            /\ Item(BucketOf[found.key], found.dir).bucket = BucketOf[found.key]
                            /\ Item(BucketOf[found.key], found.dir).tag = TagOf[found.key]
                            /\ Item(BucketOf[found.key], found.dir).off = found.dir.off
<1>1. ASSUME found # None PROVE Sought = {Item(BucketOf[found.key], found.dir)}
  BY <1>1 DEF Sought
<1>2. ASSUME found # None PROVE Item(BucketOf[found.key], found.dir).tag = TagOf[found.key]
  BY <1>2 DEF Item, FoundInv
<1> QED
  BY <1>1, <1>2 DEF Sought, Item

(* The block just written has no entry.                                    *)
LEMMA NewIsNew ==
  ASSUME RInv, fresh, NEW k \in Keys
  PROVE  /\ \A y \in Contents(seg) : y.off # NewItem(k).off \/ y.phase # NewItem(k).phase
         /\ NewItem(k) \notin Contents(seg)
         /\ NewItem(k).off = pos /\ NewItem(k).tag = TagOf[k] /\ NewItem(k).bucket = BucketOf[k]
<1>1. /\ NewItem(k).off = pos /\ NewItem(k).phase = phase
      /\ NewItem(k).tag = TagOf[k] /\ NewItem(k).bucket = BucketOf[k]
  BY DEF NewItem, Item, NewDir
<1>2. \A y \in Contents(seg) : y.phase = phase => y.off # pos
  BY DEF RInv, BlocksInv, RoundInv
<1> QED
  BY <1>1, <1>2

(* Nothing was made, or only the entry of the block just written.          *)
LEMMA RoundKept ==
  ASSUME RInv, pos' = pos, phase' = phase, NEW k \in Keys,
         \/ Contents(seg') \subseteq Contents(seg) /\ fresh' = fresh
         \/ Contents(seg') \subseteq Contents(seg) \cup {NewItem(k)} /\ fresh' = FALSE
  PROVE  RoundInv'
<1>1. RoundInv /\ pos \in Int
  BY DEF RInv, BlocksInv, IInv, PlaceInv
<1>2. NewItem(k).off = pos
  BY DEF NewItem, Item, NewDir
<1> QED
  BY <1>1, <1>2 DEF RoundInv

-----------------------------------------------------------------------------
(* A new entry, after room was made for it, or the loop without end.       *)
LEMMA EnterMaps ==
  ASSUME RInv, fresh, NEW k \in Keys, Enter(k, NewDir(k)), entries' = Contents(seg'),
         UNCHANGED <<pos, phase>>, fresh' = FALSE
  PROVE  (Map!Enter(k) \/ Map!Overflow) /\ BlocksInv'
<1> DEFINE b == BucketOf[k]
           x == NewDir(k)
           n == NewItem(k)
           g == MadeRoom(seg, b)
<1>1. Neat(seg, Buckets) /\ PlaceInv /\ entries = Contents(seg) /\ Distinct(seg) /\ b \in Buckets
  BY DEF RInv, IInv, BlocksInv
<1>2. x \in Dirs /\ x.off # 0
  BY <1>1, NewDirIs
<1>3. /\ n \notin Contents(seg) /\ n = Item(b, x)
      /\ \A y \in Contents(seg) : y.off # n.off \/ y.phase # n.phase
  BY NewIsNew DEF NewItem
<1>4. /\ Neat(g, Buckets) /\ Pressed(seg, g)
      /\ HasRoom(g, b) \/ (Heads(g) = {} /\ AllValid(g, Buckets, pos, phase))
  BY <1>1, MadeRoomNeat
<1>5. /\ HasRoom(g, b) => seg' = Placed(g, b, x)
      /\ ~HasRoom(g, b) => seg' = g
  BY DEF Enter
<1> HIDE DEF g, b, x, n
<1>6. /\ Contents(g) \subseteq Contents(seg) /\ Distinct(g)
      /\ Contents(seg) \ Contents(g) \subseteq Outdated \cup HeadItems
  BY <1>1, <1>4 DEF Pressed, Sheds, Outdated
<1>7. Crowded(seg) \/ Contents(seg) \ Contents(g) \subseteq Outdated
  BY <1>1, <1>4 DEF Pressed, Sheds, Outdated
<1>8. /\ Map!Stale = Contents(seg) \cap Outdated
      /\ Map!Heads = Contents(seg) \cap HeadItems
      /\ Map!Full <=> Crowded(seg)
  BY MapTerms
<1>11. n = Map!New(k)
  BY MapItems DEF n
<1>9. CASE HasRoom(g, b)
  <2>1. Puts(g, seg', n, {})
    BY <1>1, <1>2, <1>3, <1>4, <1>5, <1>9, PlacedNeat
  <2>2. /\ Contents(seg') \subseteq Contents(g) \cup {n} /\ n \in Contents(seg')
        /\ Contents(g) \subseteq Contents(seg')
    BY <2>1 DEF Puts
  <2>3. entries' \ entries = {n}
    BY <1>1, <1>3, <1>6, <2>2
  <2>5. entries \ entries' \subseteq Contents(seg) \ Contents(g)
    BY <1>1, <2>2
  <2>6. entries \ entries' \subseteq IF Map!Full THEN Map!Stale \cup Map!Heads ELSE Map!Stale
    BY <1>6, <1>7, <1>8, <2>5
  <2>7. Map!Enter(k)
    BY <1>11, <2>3, <2>6 DEF Map!Enter
  <2>8. Distinct(seg')
    BY <1>3, <1>6, <2>1 DEF Puts
  <2>9. RoundInv'
    BY <1>6, <2>2, RoundKept DEF n
  <2> QED
    BY <2>7, <2>8, <2>9 DEF BlocksInv
<1>10. CASE ~HasRoom(g, b)
  <2>1. seg' = g /\ Heads(g) = {} /\ AllValid(g, Buckets, pos, phase) /\ g.free = Nil
    BY <1>4, <1>5, <1>10 DEF HasRoom
  <2>2. \A y \in Contents(g) : y \notin Outdated
    BY <1>4, <2>1, ItemsOf DEF AllValid, Outdated, Invalid
  <2>3. \A y \in Contents(g) : y \notin HeadItems
    BY <1>4, <2>1, ItemsOf DEF HeadItems
  <2>4. Contents(g) = Contents(seg) \ (Outdated \cup HeadItems)
    BY <1>6, <2>2, <2>3
  <2>5. entries' = entries \ (Map!Stale \cup Map!Heads)
    BY <1>1, <1>8, <2>1, <2>4
  <2>6. Crowded(seg)
    <3> DEFINE C == Contents(seg) \ Outdated
    <3>1. IsFiniteSet(C)
      BY <1>1, ItemsOf, FS_Subset
    <3>2. Contents(g) \subseteq C
      BY <1>6, <2>2
    <3>3. Cardinality(Contents(g)) > Spares
      BY <1>4, <1>6, <2>1, FullSegment
    <3> HIDE DEF C
    <3>4. /\ Cardinality(Contents(g)) <= Cardinality(C)
          /\ Cardinality(C) \in Nat /\ Cardinality(Contents(g)) \in Nat
      BY <3>1, <3>2, FS_Subset, FS_CardinalityType
    <3>5. Spares \in Int
      BY DEF Spares
    <3>6. Cardinality(C) > Spares
      BY <3>3, <3>4, <3>5
    <3> QED
      BY <3>6 DEF C, Crowded, Outdated
  <2>7. Map!Overflow
    BY <1>8, <2>5, <2>6 DEF Map!Overflow
  <2>8. RoundInv'
    BY <1>6, <2>1, RoundKept
  <2> QED
    BY <1>6, <2>1, <2>7, <2>8 DEF BlocksInv
<1> QED
  BY <1>9, <1>10

LEMMA InsertMaps ==
  ASSUME RInv, NEW k \in Keys, Insert(k), entries' = Contents(seg')
  PROVE  Map!Insert(k) /\ BlocksInv'
<1>1. (Map!Enter(k) \/ Map!Overflow) /\ BlocksInv'
  BY EnterMaps DEF Insert
<1>2. UNCHANGED Sought
  BY DEF Insert, Sought
<1> QED
  BY <1>1, <1>2 DEF Map!Insert

(* dir_probe, a first one or one that goes on.                             *)
LEMMA ProbeMaps ==
  ASSUME RInv, NEW k \in Keys, NEW collision \in Pointers, Probe(k, collision),
         entries' = Contents(seg'), NEW first \in BOOLEAN, first => collision = Nil
  PROVE  Map!Probe(k, first) /\ BlocksInv'
<1> DEFINE c == Probed(k, collision)
           b == BucketOf[k]
           x == Item(b, c.g.ent[c.e])
<1>1. Neat(seg, Buckets) /\ entries = Contents(seg) /\ Distinct(seg) /\ b \in Buckets
  BY DEF RInv, IInv, BlocksInv
<1>2. /\ seg' = c.g
      /\ found' = IF c.hit THEN [key |-> k, dir |-> c.g.ent[c.e], last |-> c.e] ELSE None
      /\ UNCHANGED <<pos, phase, fresh>>
  BY DEF Probe
<1>3. Sheds(seg, c.g, OutdatedOf(k)) /\ (first => c.hit \/ c.e = Nil)
  BY <1>1, ProbedNeat
<1>4. PICK own, rank : Probing(c, own, rank, k, first)
  BY <1>1, ProbedNeat
<1> HIDE DEF c
<1>5. /\ c.g \in Segments /\ Sound(c.g, own, rank, Slots) /\ Position(c.g, own, b, c.e, c.p)
      /\ c.hit \in BOOLEAN
      /\ c.e # Nil => c.g.ent[c.e].off # 0
      /\ c.hit => c.e # Nil /\ c.g.ent[c.e].tag = TagOf[k] /\ Valid(c.g.ent[c.e])
      /\ first => NonePassed(c, own, rank, k)
  BY <1>4 DEF Probing, Probes
<1>6. Map!Stale = Contents(seg) \cap Outdated
  BY MapTerms
<1>7. Map!OfKey(k) = {y \in Contents(seg) : y.bucket = b /\ y.tag = TagOf[k]}
  BY MapItems
<1> HIDE DEF b
<1>8. /\ Contents(c.g) \subseteq Contents(seg)
      /\ Contents(seg) \ Contents(c.g) \subseteq Map!OfKey(k) \cap Map!Stale
      /\ Distinct(c.g)
  BY <1>1, <1>3, <1>6, <1>7 DEF Sheds, OutdatedOf, b
<1>9. ASSUME c.hit PROVE Map!Probe(k, first)
  <2>1. c.e \in Slots /\ own[c.e] = b
    BY <1>1, <1>5, <1>9, PositionParts
  <2>2. x \in Contents(c.g)
    <3>1. c.e \in Used(c.g)
      BY <1>5, <1>9, <2>1 DEF Used
    <3> QED
      BY <1>5, <2>1, <3>1, ContentsAre, StockHas
  <2>3. x.bucket = b /\ x.tag = TagOf[k] /\ ~(x \in Outdated)
    <3>1. x.bucket = b /\ x.tag = TagOf[k]
      BY <1>5, <1>9 DEF Item
    <3>2. ValidAt(x, pos, phase)
      BY <1>5, <1>9 DEF Item, Valid, ValidAt
    <3> QED
      BY <3>1, <3>2 DEF Outdated, Invalid
  <2>4. x \in Map!OfKey(k) \ Map!Stale
    BY <1>6, <1>7, <1>8, <2>2, <2>3
  <2>5. Sought' = {x}
    <3>1. found' = [key |-> k, dir |-> c.g.ent[c.e], last |-> c.e]
      BY <1>2, <1>9
    <3>2. found'.key = k /\ found'.dir = c.g.ent[c.e]
      BY <3>1
    <3>3. found' # None
      BY <1>5, <1>9, <3>2, EmptyIsDir DEF None
    <3> QED
      BY <3>2, <3>3 DEF Sought, b
  <2> HIDE DEF x
  <2> QED
    BY <1>1, <1>2, <1>8, <2>4, <2>5 DEF Map!Probe
<1>10. ASSUME ~c.hit PROVE Map!Probe(k, first)
  <2>1. Sought' = {}
    BY <1>2, <1>10 DEF Sought
  <2>2. ASSUME first PROVE Map!OfKey(k) \subseteq Map!Stale
    <3>1. c.e = Nil
      BY <1>3, <1>10, <2>2
    <3>2. ASSUME NEW y \in Contents(c.g), y.bucket = b, y.tag = TagOf[k] PROVE FALSE
      <4>1. PICK s \in Used(c.g) : y = Item(own[s], c.g.ent[s])
        BY <1>5, ContentsAre, StockHas
      <4>2. own[s] = b /\ c.g.ent[s].tag = TagOf[k] /\ s \in Slots /\ c.g.ent[s].off # 0
        BY <3>2, <4>1 DEF Item, Used
      <4> QED
        BY <1>5, <2>2, <3>1, <4>2 DEF NonePassed, b
    <3> QED
      BY <1>7, <1>8, <3>2
  <2> QED
    BY <1>1, <1>2, <1>8, <2>1, <2>2 DEF Map!Probe
<1>11. RoundInv'
  BY <1>2, <1>8, RoundKept
<1> QED
  BY <1>2, <1>5, <1>8, <1>9, <1>10, <1>11 DEF BlocksInv

(* What dir_delete and dir_overwrite look for, in the set.                 *)
LEMMA LikeSought ==
  ASSUME RInv, found # None, NEW own, NEW rank, Sound(seg, own, rank, Slots),
         Tidy(seg, own, Buckets), NEW c, c = Lookup(seg, found.key, found.dir.off)
  PROVE  LET b == BucketOf[found.key]
             x == Item(b, found.dir) IN
         /\ b \in Buckets /\ found.key \in Keys
         /\ Position(seg, own, b, c.e, c.p)
         /\ c.e = Nil => Map!Like(x) = {}
         /\ c.e # Nil => /\ seg.ent[c.e].off # 0 /\ seg.ent[c.e].tag = TagOf[found.key]
                         /\ Item(b, seg.ent[c.e]) \in Map!Like(x)
<1> DEFINE k == found.key
           off == found.dir.off
           b == BucketOf[k]
           x == Item(b, found.dir)
<1>1. entries = Contents(seg) /\ FoundInv
  BY DEF RInv, IInv
<1>2. k \in Keys /\ off # 0
  BY <1>1 DEF FoundInv
<1>3. x.bucket = b /\ x.tag = TagOf[k] /\ x.off = off
  BY <1>1, SoughtIs
<1> HIDE DEF k, off
<1>4. /\ Position(seg, own, b, c.e, c.p) /\ b \in Buckets
      /\ c.e = Nil \/ Matches(seg, k, off, c.e)
      /\ c.e = Nil => \A s \in Used(seg) : own[s] = b => ~Matches(seg, k, off, s)
  BY <1>2, LookupPosition DEF k, off
<1> HIDE DEF x, b
<1>5. Map!Like(x) = {y \in Contents(seg) : y.bucket = b /\ y.tag = TagOf[k] /\ y.off = off}
  BY <1>1, <1>3 DEF Map!Like
<1>6. ASSUME c.e = Nil, NEW y \in Contents(seg), y.bucket = b, y.tag = TagOf[k], y.off = off
      PROVE  FALSE
  <2>1. PICK s \in Used(seg) : y = Item(own[s], seg.ent[s])
    BY ContentsAre, StockHas
  <2>2. own[s] = b /\ Matches(seg, k, off, s)
    BY <1>6, <2>1 DEF Item, Matches
  <2> QED
    BY <1>4, <1>6, <2>2
<1>7. ASSUME c.e # Nil
      PROVE  /\ seg.ent[c.e].off # 0 /\ seg.ent[c.e].tag = TagOf[k]
             /\ Item(b, seg.ent[c.e]) \in Map!Like(x)
  <2>1. seg.ent[c.e].off = off /\ seg.ent[c.e].tag = TagOf[k]
    BY <1>4, <1>7 DEF Matches
  <2>2. c.e \in Slots /\ own[c.e] = b
    BY <1>4, <1>7, PositionParts
  <2>3. c.e \in Used(seg)
    BY <1>2, <2>1, <2>2 DEF Used
  <2>4. Item(b, seg.ent[c.e]) \in Contents(seg)
    BY <2>2, <2>3, ContentsAre, StockHas
  <2>5. /\ Item(b, seg.ent[c.e]).bucket = b /\ Item(b, seg.ent[c.e]).tag = TagOf[k]
        /\ Item(b, seg.ent[c.e]).off = off
    BY <2>1 DEF Item
  <2> QED
    BY <1>2, <1>5, <2>1, <2>4, <2>5
<1> QED
  BY <1>2, <1>4, <1>5, <1>6, <1>7 DEF k, b, x

LEMMA DeleteMaps ==
  ASSUME RInv, Delete, entries' = Contents(seg')
  PROVE  Map!Delete /\ BlocksInv'
<1> DEFINE k == found.key
           c == Lookup(seg, k, found.dir.off)
           b == BucketOf[k]
           x == Item(b, found.dir)
           y == Item(b, seg.ent[c.e])
<1>1. /\ Neat(seg, Buckets) /\ FoundInv /\ entries = Contents(seg) /\ Distinct(seg)
      /\ found # None
  BY DEF RInv, IInv, BlocksInv, Delete
<1>2. /\ seg' = IF c.e = Nil THEN seg ELSE DeleteEntry(seg, c.e, c.p)
      /\ found' = None /\ UNCHANGED <<pos, phase, fresh>>
  BY DEF Delete
<1>3. PICK own, rank : Sound(seg, own, rank, Slots) /\ Tidy(seg, own, Buckets)
  BY <1>1 DEF Neat
<1> HIDE DEF c
<1>4. c = Lookup(seg, found.key, found.dir.off)
  BY DEF c
<1>5. /\ b \in Buckets /\ k \in Keys /\ Position(seg, own, b, c.e, c.p)
      /\ c.e = Nil => Map!Like(x) = {}
      /\ c.e # Nil => seg.ent[c.e].off # 0 /\ y \in Map!Like(x)
  BY <1>1, <1>3, <1>4, LikeSought
<1>6. Sought = {x} /\ Sought # {} /\ Sought' = {}
  BY <1>1, <1>2, SoughtIs DEF Sought
<1> HIDE DEF k, b, x
<1>7. CASE c.e = Nil
  <2>1. entries' = entries /\ seg' = seg
    BY <1>1, <1>2, <1>7
  <2>2. Map!Like(x) = {}
    BY <1>5, <1>7
  <2>3. Map!Delete
    BY <1>2, <1>6, <2>1, <2>2 DEF Map!Delete
  <2>4. RoundInv'
    BY <1>2, <1>5, <2>1, RoundKept
  <2> QED
    BY <1>1, <2>1, <2>3, <2>4 DEF BlocksInv
<1>8. CASE c.e # Nil
  <2> DEFINE h == DeleteEntry(seg, c.e, c.p)
             W == {y}
  <2>1. PICK o, r : Dropped(seg, own, rank, b, c.e, c.p, h, o, r, AfterDelete(seg, c.e, c.p))
    BY <1>3, <1>5, <1>8, DropSound
  <2> HIDE DEF h
  <2>2. Item(b, seg.ent[c.e]) \in W /\ seg.ent[c.e].off # 0
    BY <1>5, <1>8
  <2> HIDE DEF W
  <2>3. Sheds(seg, h, W)
    BY <1>3, <1>5, <1>8, <2>1, <2>2, DropSheds
  <2>4. y \notin Contents(h)
    BY <1>1, <1>3, <1>5, <1>8, <2>1, <2>2, DropSheds
  <2>5. seg' = h
    BY <1>2, <1>8 DEF h
  <2> HIDE DEF y
  <2>6. entries' = entries \ {y} /\ Distinct(seg') /\ Contents(seg') \subseteq Contents(seg)
    BY <1>1, <2>3, <2>4, <2>5 DEF Sheds, W
  <2>7. y \in Map!Like(x)
    BY <1>5, <1>8
  <2>8. Map!Delete
    BY <1>2, <1>6, <2>6, <2>7 DEF Map!Delete
  <2>9. RoundInv'
    BY <1>2, <1>5, <2>6, RoundKept
  <2> QED
    BY <2>6, <2>8, <2>9 DEF BlocksInv
<1> QED
  BY <1>7, <1>8

(* dir_overwrite where it finds the entry.                                 *)
LEMMA ReplaceMaps ==
  ASSUME RInv, fresh, NEW k \in Keys, NEW e \in Slots, NEW own, NEW rank,
         Sound(seg, own, rank, Slots), own[e] = BucketOf[k], seg.ent[e].off # 0,
         seg' = [seg EXCEPT !.ent[e] = NewDir(k)], UNCHANGED <<pos, phase>>, fresh' = FALSE,
         entries' = Contents(seg')
  PROVE  /\ entries' = (entries \ {Item(BucketOf[k], seg.ent[e])}) \cup {Map!New(k)}
         /\ BlocksInv'
<1> DEFINE b == BucketOf[k]
           x == NewDir(k)
           n == NewItem(k)
           y == Item(b, seg.ent[e])
           f == With(seg.ent, e, x)
           h == [seg EXCEPT !.ent = f]
<1>1. PlaceInv /\ entries = Contents(seg) /\ Distinct(seg) /\ b \in Buckets /\ b # Spare
  BY DEF RInv, IInv, BlocksInv, Buckets, Spare
<1>2. x \in Dirs /\ x.off # 0
  BY <1>1, NewDirIs
<1>3. /\ n \notin Contents(seg) /\ n = Item(b, x) /\ n.bucket = b /\ n.tag = TagOf[k]
      /\ \A z \in Contents(seg) : z.off # n.off \/ z.phase # n.phase
  BY NewIsNew DEF NewItem
<1>4. n = Map!New(k)
  BY MapItems
<1> HIDE DEF b, x, n, y
<1>9. /\ Sound(seg', own, rank, Slots) /\ seg'.ent[e] = x
      /\ \A s \in Slots : s # e => seg'.ent[s] = seg.ent[s]
  <2>1. seg.ent \in [Slots -> Dirs] /\ seg \in Segments
    BY SegmentParts DEF Sound
  <2>2. f \in [Slots -> Dirs] /\ f[e] = x /\ \A s \in Slots : s # e => f[s] = seg.ent[s]
    BY <1>2, <2>1 DEF With
  <2>3. seg' = h
    BY <2>1 DEF With, Segments, x
  <2> HIDE DEF f
  <2>4. \A s \in Slots : own[s] = Spare => f[s].off = 0
    BY <1>1, <2>2 DEF Sound, Backed, b
  <2>5. Sound(h, own, rank, Slots) /\ h.ent = f
    BY <2>2, <2>4, Rewritten
  <2> HIDE DEF h
  <2>6. h.ent[e] = x /\ \A s \in Slots : s # e => h.ent[s] = seg.ent[s] /\ own[s] = own[s]
    BY <2>2, <2>5
  <2> QED
    BY <2>3, <2>5, <2>6
<1>5. Puts(seg, seg', n, {y})
  <2>7. Item(own[e], seg.ent[e]) \in {y}
    BY DEF y, b
  <2> DEFINE L == {y}
  <2> HIDE DEF L
  <2>8. Item(own[e], seg.ent[e]) \in L
    BY <2>7 DEF L
  <2>9. Puts(seg, seg', Item(own[e], x), L)
    BY <1>2, <1>9, <2>8, PutContents
  <2> QED
    BY <1>3, <2>9 DEF L, b
<1>6. /\ Contents(seg') \subseteq Contents(seg) \cup {n} /\ n \in Contents(seg')
      /\ Contents(seg) \ Contents(seg') \subseteq {y} /\ Distinct(seg')
  BY <1>1, <1>3, <1>5 DEF Puts
<1>7. RoundInv'
  BY <1>6, RoundKept DEF n
<1>8. y \notin Contents(seg')
  <2> SUFFICES ASSUME y \in Contents(seg') PROVE FALSE
    OBVIOUS
  <2>1. e \in Used(seg) /\ y \in Contents(seg)
    BY ContentsAre, StockHas DEF Used, y, b
  <2>2. y # n
    BY <1>3, <2>1
  <2> DEFINE q == seg'
  <2>6. /\ Sound(q, own, rank, Slots) /\ q.ent[e] = x /\ y \in Contents(q)
        /\ \A s \in Slots : s # e => q.ent[s] = seg.ent[s]
    BY <1>9
  <2> HIDE DEF q
  <2>3. PICK s \in Used(q) : y = Item(own[s], q.ent[s])
    BY <2>6, ContentsAre, StockHas
  <2>4. CASE s = e
    BY <1>3, <2>2, <2>3, <2>4, <2>6 DEF b
  <2>5. CASE s # e
    <3>1. s \in Used(seg) /\ y = Item(own[s], seg.ent[s])
      BY <2>3, <2>5, <2>6 DEF Used
    <3>2. seg.ent[s].off = seg.ent[e].off /\ seg.ent[s].phase = seg.ent[e].phase
      BY <3>1 DEF y, Item
    <3> QED
      BY <1>1, <2>1, <2>5, <3>1, <3>2 DEF Distinct
  <2> QED
    BY <2>4, <2>5
<1> QED
  BY <1>1, <1>4, <1>6, <1>7, <1>8 DEF BlocksInv, y, b

LEMMA OverwriteMaps ==
  ASSUME RInv, NEW must \in BOOLEAN, Overwrite(must), entries' = Contents(seg')
  PROVE  Map!Overwrite(found.key, must) /\ BlocksInv'
<1> DEFINE k == found.key
           c == Lookup(seg, k, found.dir.off)
           b == BucketOf[k]
           x == Item(b, found.dir)
           y == Item(b, seg.ent[c.e])
<1>1. /\ Neat(seg, Buckets) /\ FoundInv /\ entries = Contents(seg) /\ BlocksInv
      /\ found # None /\ fresh
  BY DEF RInv, IInv, Overwrite
<1>2. /\ UNCHANGED <<pos, phase>> /\ fresh' = FALSE /\ found' = None
      /\ \/ c.e # Nil /\ seg' = [seg EXCEPT !.ent[c.e] = NewDir(k)]
         \/ c.e = Nil /\ must /\ seg' = seg
         \/ c.e = Nil /\ ~must /\ Enter(k, NewDir(k))
  BY DEF Overwrite
<1>3. PICK own, rank : Sound(seg, own, rank, Slots) /\ Tidy(seg, own, Buckets)
  BY <1>1 DEF Neat
<1> HIDE DEF c
<1>4. c = Lookup(seg, found.key, found.dir.off)
  BY DEF c
<1>5. /\ b \in Buckets /\ k \in Keys /\ Position(seg, own, b, c.e, c.p)
      /\ c.e = Nil => Map!Like(x) = {}
      /\ c.e # Nil => seg.ent[c.e].off # 0 /\ y \in Map!Like(x)
  BY <1>1, <1>3, <1>4, LikeSought
<1>6. Sought = {x} /\ Sought # {} /\ Sought' = {} /\ x.bucket = BucketOf[k] /\ x.tag = TagOf[k]
  BY <1>1, <1>2, SoughtIs DEF Sought
<1> HIDE DEF k, b, x
<1>7. CASE c.e # Nil /\ seg' = [seg EXCEPT !.ent[c.e] = NewDir(k)]
  <2>1. c.e \in Slots /\ own[c.e] = BucketOf[k]
    BY <1>3, <1>5, <1>7, PositionParts DEF b
  <2>2. entries' = (entries \ {Item(BucketOf[k], seg.ent[c.e])}) \cup {Map!New(k)} /\ BlocksInv'
    BY <1>1, <1>2, <1>3, <1>5, <1>7, <2>1, ReplaceMaps
  <2>3. y \in Map!Like(x) /\ entries' = (entries \ {y}) \cup {Map!New(k)}
    BY <1>5, <1>7, <2>2 DEF b
  <2> HIDE DEF y
  <2>4. Map!Overwrite(k, must)
    BY <1>2, <1>6, <2>3 DEF Map!Overwrite
  <2> QED
    BY <2>2, <2>4 DEF k
<1>8. CASE c.e = Nil /\ must /\ seg' = seg
  <2>1. entries' = entries /\ Map!Like(x) = {}
    BY <1>1, <1>5, <1>8
  <2>2. Map!Overwrite(k, must)
    BY <1>2, <1>6, <1>8, <2>1 DEF Map!Overwrite
  <2>3. RoundInv'
    BY <1>2, <1>5, <1>8, RoundKept
  <2> QED
    BY <1>1, <1>8, <2>2, <2>3 DEF BlocksInv, k
<1>9. CASE c.e = Nil /\ ~must /\ Enter(k, NewDir(k))
  <2>1. (Map!Enter(k) \/ Map!Overflow) /\ BlocksInv'
    BY <1>1, <1>2, <1>5, <1>9, EnterMaps
  <2>2. Map!Like(x) = {}
    BY <1>5, <1>9
  <2>3. Map!Overwrite(k, must)
    BY <1>2, <1>6, <1>9, <2>1, <2>2 DEF Map!Overwrite
  <2> QED
    BY <2>1, <2>3 DEF k
<1> QED
  BY <1>2, <1>7, <1>8, <1>9

(* The volume moves on: at its end what was not written in the last round  *)
(* goes.                                                                   *)
LEMMA AdvanceMaps ==
  ASSUME RInv, Advance, entries' = Contents(seg')
  PROVE  Map!Advance /\ BlocksInv'
<1>1. Neat(seg, Buckets) /\ PlaceInv /\ entries = Contents(seg) /\ Distinct(seg) /\ RoundInv
  BY DEF RInv, IInv, BlocksInv
<1>2. pos \in 0 .. Blocks /\ phase \in BOOLEAN /\ fresh' = TRUE /\ UNCHANGED Sought
  BY <1>1 DEF PlaceInv, Advance, Sought
<1>3. CASE pos = Blocks
  <2> DEFINE q == ~phase
             W == Invalid(0, q)
  <2>1. pos' = 1 /\ phase' = q /\ seg' = CleanSegment(seg, 0, q)
    BY <1>3 DEF Advance
  <2>2. Neat(seg, {})
    BY <1>1, NeatParts
  <2> HIDE DEF q
  <2>3. Sheds(seg, seg', W) /\ AllValid(seg', Buckets, 0, q)
    BY <2>1, <2>2, CleanSegmentNeat
  <2>4. /\ Contents(seg) \subseteq Items
        /\ \A x \in Contents(seg) : x.off > 0 /\ x.bucket \in Buckets /\ x.phase \in BOOLEAN
        /\ \A x \in Contents(seg) : x.off \in 0 .. Blocks
    BY <1>1, ItemsOf
  <2>5. Contents(seg') \subseteq Contents(seg) /\ Contents(seg) \ Contents(seg') \subseteq W /\ Distinct(seg')
    BY <1>1, <2>3 DEF Sheds
  <2>6. ASSUME NEW x \in Contents(seg) PROVE ValidAt(x, 0, q) <=> x.phase # q
    <3>1. x.off > 0 /\ ~(x.off <= 0)
      BY <2>4
    <3> QED
      BY <3>1 DEF ValidAt
  <2>7. ASSUME NEW x \in Contents(seg) PROVE x.phase # q <=> x.phase = phase
    <3>1. x.phase \in BOOLEAN
      BY <2>4
    <3> QED
      BY <1>2, <3>1 DEF q
  <2>8. \A x \in Contents(seg') : x.phase # q
    BY <2>3, <2>4, <2>5, <2>6 DEF AllValid
  <2>9. \A x \in Contents(seg) : x.phase # q => x \in Contents(seg')
    BY <2>5, <2>6 DEF Invalid
  <2>10. Contents(seg') = {x \in Contents(seg) : x.phase = phase}
    BY <2>5, <2>7, <2>8, <2>9
  <2>11. phase' = ~phase
    BY <2>1 DEF q
  <2>12. Map!Advance
    BY <1>1, <1>2, <1>3, <2>1, <2>10, <2>11 DEF Map!Advance
  <2>13. RoundInv'
    BY <2>1, <2>8 DEF RoundInv
  <2> QED
    BY <2>5, <2>12, <2>13 DEF BlocksInv
<1>4. CASE pos # Blocks
  <2>1. pos' = pos + 1 /\ phase' = phase /\ seg' = seg
    BY <1>4 DEF Advance
  <2>2. Map!Advance
    <3>1. pos < Blocks
      BY <1>2, <1>4
    <3> QED
      BY <1>1, <1>2, <2>1, <3>1 DEF Map!Advance
  <2>3. \A x \in Contents(seg) : x.off \in Int
    BY <1>1, ItemsOf
  <2>4. RoundInv'
    BY <1>1, <1>2, <2>1, <2>3 DEF RoundInv
  <2> QED
    BY <1>1, <2>1, <2>2, <2>4 DEF BlocksInv
<1> QED
  BY <1>3, <1>4

-----------------------------------------------------------------------------
LEMMA InitMaps == Init => RInv /\ Map!Init
<1> SUFFICES ASSUME Init PROVE RInv /\ Map!Init
  OBVIOUS
<1>1. IInv
  BY InitOK
<1>2. seg = InitSegment /\ entries = {} /\ pos = 0 /\ phase = FALSE /\ Sought = {}
  BY DEF Init, Sought
<1>3. Used(seg) = {}
  BY <1>2, InitNeat, EmptyIsDir DEF Used
<1>4. PICK own, rank : Sound(seg, own, rank, Slots)
  BY <1>1 DEF IInv, Neat
<1>5. Contents(seg) = {}
  BY <1>3, <1>4, ContentsAre DEF Stock
<1>6. Distinct(seg) /\ RoundInv
  BY <1>3, <1>5 DEF Distinct, RoundInv
<1> QED
  BY <1>1, <1>2, <1>5, <1>6 DEF RInv, BlocksInv, Map!Init

LEMMA NextMaps ==
  ASSUME RInv, [Next]_vars, IInv'
  PROVE  RInv' /\ [Map!Next]_(Map!vars) /\ [OperationMaps]_vars
<1>1. ASSUME Next PROVE RInv' /\ Map!Next /\ OperationMaps
  <2>1. entries' = Contents(seg')
    BY <1>1 DEF Next
  <2>2. ASSUME Advance PROVE Map!Advance /\ BlocksInv'
    BY <2>1, <2>2, AdvanceMaps
  <2>3. ASSUME Delete PROVE Map!Delete /\ BlocksInv'
    BY <2>1, <2>3, DeleteMaps
  <2>4. ASSUME ProbeAgain PROVE found.key \in Keys /\ Map!Probe(found.key, FALSE) /\ BlocksInv'
    <3>1. found.key \in Keys /\ found.last \in Pointers /\ Probe(found.key, found.last)
      BY <2>4 DEF ProbeAgain, RInv, IInv, FoundInv, Findings
    <3> QED
      BY <2>1, <3>1, ProbeMaps
  <2>5. ASSUME NEW k \in Keys, Insert(k) PROVE Map!Insert(k) /\ BlocksInv'
    BY <2>1, <2>5, InsertMaps
  <2>6. ASSUME NEW k \in Keys, Probe(k, Nil) PROVE Map!Probe(k, TRUE) /\ BlocksInv'
    <3>1. Nil \in Pointers
      BY DEF Pointers
    <3> QED
      BY <2>1, <2>6, <3>1, ProbeMaps
  <2>7. ASSUME NEW must \in BOOLEAN, Overwrite(must)
        PROVE  found.key \in Keys /\ Map!Overwrite(found.key, must) /\ BlocksInv'
    <3>1. found.key \in Keys
      BY <2>7 DEF Overwrite, RInv, IInv, FoundInv
    <3> QED
      BY <2>1, <2>7, <3>1, OverwriteMaps
  <2>8. OperationMaps
    BY <2>2, <2>3, <2>4, <2>5, <2>6, <2>7 DEF OperationMaps
  <2>9. Map!Next /\ BlocksInv'
    <3>1. CASE Advance
      BY <2>2, <3>1 DEF Map!Next
    <3>2. CASE Delete
      BY <2>3, <3>2 DEF Map!Next
    <3>3. CASE ProbeAgain
      BY <2>4, <3>3 DEF Map!Next
    <3>4. CASE \E k \in Keys : Insert(k) \/ Probe(k, Nil)
      BY <2>5, <2>6, <3>4 DEF Map!Next
    <3>5. CASE \E must \in BOOLEAN : Overwrite(must)
      BY <2>7, <3>5 DEF Map!Next
    <3> QED
      BY <1>1, <3>1, <3>2, <3>3, <3>4, <3>5 DEF Next
  <2> QED
    BY <2>1, <2>8, <2>9 DEF RInv
<1>2. CASE UNCHANGED vars
  BY <1>2 DEF vars, RInv, BlocksInv, RoundInv, Map!vars, Sought
<1> QED
  BY <1>1, <1>2

(* The segment is the set of entries that the cache takes it for, whatever *)
(* dir_insert, dir_probe, dir_delete, dir_overwrite and the cleaning do    *)
(* with its links: a valid entry goes only by a deletion or overwriting    *)
(* that looks for its tag and offset, or by an insertion into a segment    *)
(* that is full, and none appears that was not inserted.                   *)
THEOREM Refinement == Spec => ImplementsMap
<1>1. RInv /\ IInv' /\ [Next]_vars => RInv' /\ [Map!Next]_(Map!vars)
  BY NextMaps
<1> QED
  BY <1>1, InitMaps, Invariance, PTL DEF Spec, ImplementsMap, Map!Spec

(* Each of them does what the operation of its name does to the set:       *)
(* dir_probe drops only invalid entries of its key, returns a valid one    *)
(* and, on a first call, finds one if there is any; dir_delete removes one *)
(* entry with the tag and the offset that were probed for, and nothing     *)
(* only if there is none; dir_overwrite replaces such an entry and touches *)
(* no other.                                                               *)
THEOREM OperationsMatchMap == Spec => OperationsMap
<1>1. RInv /\ IInv' /\ [Next]_vars => RInv' /\ [OperationMaps]_vars
  BY NextMaps
<1> QED
  BY <1>1, InitMaps, Invariance, PTL DEF Spec, OperationsMap
=============================================================================
