---------------------------- MODULE MCVdiskCache ----------------------------
(* The cache on two keys of different sizes, or on one.                    *)
EXTENDS VdiskCache, TLC

CONSTANTS k1, k2
MCSizes == (k1 :> {1}) @@ (k2 :> {2})
MCOneSize == k1 :> {1}
MCChangingSize == k1 :> {1, 2}
=============================================================================
