------------------------------ MODULE MCVolume ------------------------------
(* Volumes of a few buffers behind a directory longer than EvacSize.        *)
EXTENDS Volume

(* Enough for the log to turn and go on over documents that do not start   *)
(* where the old ones did; a sync writes the last one alone.                *)
MCLengthsOf == <<{1}, {2}, {2}, {2}, {2}, {2}, {1}>>

MCAligned   == [i \in 1 .. 6 |-> {2}]

(* Two documents near the end, to be left by a first crash, and one that    *)
(* makes the log turn before a second one.                                  *)
MCTwice     == <<{3}, {3}, {3}, {3}, {1}, {1}, {1}, {3}>>

(* A recovery that RecoveredExact exempts is executed, and the behaviour is *)
(* not followed after it.                                                   *)
Followed == crashes > 0 /\ mode = "up" => seen \cap {"round", "torn", "skipped"} = {}

(* At most two writers that are to be called back have not entered their    *)
(* documents, and one after a crash.                                        *)
FewPending == Cardinality(vol.pend) <= IF crashes = 0 THEN 2 ELSE 1
=============================================================================
