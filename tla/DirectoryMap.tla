---------------------------- MODULE DirectoryMap ----------------------------
(***************************************************************************)
(* What the cache expects of one segment of its directory: a set of        *)
(* entries (where a document is, and a few bits of its key), each in a     *)
(* bucket.  An entry is valid until the write position passes over its     *)
(* document.  A probe looks for a valid entry of a key, and may drop       *)
(* invalid ones of that key; the entry it returned is what a deletion or   *)
(* an overwriting later looks for.  Other invalid entries may be dropped   *)
(* by an insertion, valid ones only when it finds all memory in use, and   *)
(* then only those of the first fragments of documents.                    *)
(***************************************************************************)
EXTENDS Integers, FiniteSets

CONSTANTS Keys, BucketOf, TagOf, HeadOf,
          Blocks,     \* the length of the volume
          Reserve     \* the number of entries there is always room for

VARIABLES entries,    \* the entries
          pos, phase, \* the write position, and the parity of its round
          sought      \* the entry that the client's probe returned, if any

vars == <<entries, pos, phase, sought>>

Valid(x) == IF x.phase = phase THEN x.off <= pos ELSE x.off > pos

(* The entries that memory may be taken from. *)
Stale == {x \in entries : ~Valid(x)}
Heads == {x \in entries : x.head}
Full  == Cardinality(entries \ Stale) > Reserve

(* The entries that a key, and the result of a probe, cannot be told from. *)
OfKey(k) == {x \in entries : x.bucket = BucketOf[k] /\ x.tag = TagOf[k]}
Like(x)  == {y \in entries : y.bucket = x.bucket /\ y.tag = x.tag /\ y.off = x.off}

(* The entry of a document with key k that was just written. *)
New(k) == [bucket |-> BucketOf[k], tag |-> TagOf[k], off |-> pos, phase |-> phase,
           head |-> HeadOf[k]]

Init ==
  /\ entries = {}
  /\ pos = 0 /\ phase = FALSE
  /\ sought = {}

(* Only invalid entries of the key go.  The result is a valid one; a first *)
(* probe (not one that goes on from an earlier result) finds one if there  *)
(* is any.                                                                 *)
Probe(k, first) ==
  /\ entries' \subseteq entries
  /\ entries \ entries' \subseteq OfKey(k) \cap Stale
  /\ \/ sought' = {} /\ (first => OfKey(k) \subseteq Stale)
     \/ \E x \in OfKey(k) \ Stale : sought' = {x}
  /\ UNCHANGED <<pos, phase>>

(* There is room for the new entry, or it is made. *)
Enter(k) ==
  /\ entries' \ entries = {New(k)}
  /\ entries \ entries' \subseteq IF Full THEN Stale \cup Heads ELSE Stale
  /\ UNCHANGED <<pos, phase>>

(* The insertion that finds no room, and nothing to drop. *)
Overflow ==
  /\ Full
  /\ entries' = entries \ (Stale \cup Heads)
  /\ UNCHANGED <<pos, phase>>

Insert(k) == (Enter(k) \/ Overflow) /\ UNCHANGED sought

(* One entry like the one the probe returned goes, and no other. *)
Delete ==
  /\ sought # {} /\ sought' = {}
  /\ \A x \in sought :
       IF Like(x) = {} THEN UNCHANGED entries
       ELSE \E y \in Like(x) : entries' = entries \ {y}
  /\ UNCHANGED <<pos, phase>>

(* The new entry takes the place of one like the one the probe returned,   *)
(* or is inserted if there is none any more and it need not be.            *)
Overwrite(k, must) ==
  /\ sought # {} /\ sought' = {}
  /\ \A x \in sought :
       /\ x.bucket = BucketOf[k] /\ x.tag = TagOf[k]
       /\ \/ \E y \in Like(x) : entries' = (entries \ {y}) \cup {New(k)}
          \/ Like(x) = {} /\ must /\ UNCHANGED entries
          \/ Like(x) = {} /\ ~must /\ (Enter(k) \/ Overflow)
  /\ UNCHANGED <<pos, phase>>

(* The volume moves on, or starts again: then the entries of the round     *)
(* before last go.                                                         *)
Advance ==
  /\ \/ /\ pos < Blocks
        /\ pos' = pos + 1
        /\ UNCHANGED <<entries, phase>>
     \/ /\ pos = Blocks
        /\ pos' = 1 /\ phase' = ~phase
        /\ entries' = {x \in entries : x.phase = phase}
  /\ UNCHANGED sought

Next ==
  \/ Advance \/ Delete
  \/ \E k \in Keys : Insert(k)
  \/ \E k \in Keys, first \in BOOLEAN : Probe(k, first)
  \/ \E k \in Keys, must \in BOOLEAN : Overwrite(k, must)

Spec == Init /\ [][Next]_vars
=============================================================================
