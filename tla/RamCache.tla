------------------------------ MODULE RamCache ------------------------------
(***************************************************************************)
(* What the volume expects of a RAM cache (the class RamCache): a map from *)
(* keys to one document each, qualified by an auxiliary key (the place of  *)
(* the document on the disk), that may decline a document, and forgets     *)
(* others only to make room for the one it takes.                          *)
(***************************************************************************)
EXTENDS Integers, FiniteSetsExt

CONSTANTS Keys, Auxs, Data,
          None,     \* no document
          Cost(_)   \* the bytes that a document is charged with

VARIABLES limit,    \* the bytes the cache may hold
          kept,     \* the document kept under each key, or None
          answer    \* if the last call was a get: what it asked for and was given

vars == <<limit, kept, answer>>

Doc(a, d) == [aux |-> a, data |-> d]

Held(m) == {k \in Keys : m[k] # None}

Load(m) == MapThenSumSet(LAMBDA k : Cost(m[k].data), Held(m))

Without(m, lost) == [k \in Keys |-> IF k \in lost THEN None ELSE m[k]]

Matches(k, a) == kept[k] # None /\ kept[k].aux = a

Init ==
  /\ limit \in Nat
  /\ kept = [k \in Keys |-> None]
  /\ answer = None

Get(k, a) ==
  /\ answer' = [key |-> k, aux |-> a,
                data |-> IF Matches(k, a) THEN kept[k].data ELSE None]
  /\ UNCHANGED <<limit, kept>>

(* The document takes the place of an older one with its key.  Others are  *)
(* forgotten only if the limit asks for it, and the new one goes only if   *)
(* it is too large by itself.                                              *)
Put(k, a, d) ==
  LET full == [kept EXCEPT ![k] = Doc(a, d)]
  IN /\ ~Matches(k, a)
     /\ \E lost \in SUBSET Keys :
          /\ kept' = Without(full, lost)
          /\ Load(kept') <= limit
          /\ lost # {} => Load(full) > limit
          /\ k \in lost => Cost(d) > limit
     /\ answer' = None
     /\ UNCHANGED limit

(* The cache declines the document, or has it. *)
Decline ==
  /\ answer' = None
  /\ UNCHANGED <<limit, kept>>

(* The document moved from a to b on the disk. *)
Fixup(k, a, b) ==
  /\ Matches(k, a)
  /\ kept' = [kept EXCEPT ![k].aux = b]
  /\ answer' = None
  /\ UNCHANGED limit

Next ==
  \/ Decline
  \/ \E k \in Keys, a \in Auxs :
       \/ Get(k, a)
       \/ \E d \in Data : Put(k, a, d)
       \/ \E b \in Auxs : Fixup(k, a, b)

Spec == Init /\ [][Next]_vars
=============================================================================
