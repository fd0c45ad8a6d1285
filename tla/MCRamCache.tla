----------------------------- MODULE MCRamCache -----------------------------
(* Three keys, of which two share a tag, in a table that grows; the large   *)
(* document is larger than the smaller budget.                             *)
EXTENDS RamCacheLRU, TLC

CONSTANTS k1, k2, k3, small, large

MCSize    == (small :> 1) @@ (large :> 3)
MCSlice   == (k1 :> 4) @@ (k2 :> 5) @@ (k3 :> 2)
MCBuckets == <<1, 2>>
MCBudgets == {0, 3, 5}
=============================================================================
