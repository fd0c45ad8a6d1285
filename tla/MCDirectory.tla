---------------------------- MODULE MCDirectory -----------------------------
(* Three keys: k1 and k2 share the bucket, k1 and k3 the tag.               *)
EXTENDS Directory, TLC

CONSTANTS k1, k2, k3

MCBucketOf == (k1 :> 0) @@ (k2 :> 0) @@ (k3 :> 1)
MCHeadOf   == (k1 :> TRUE) @@ (k2 :> FALSE) @@ (k3 :> TRUE)
MCTagOf    == (k1 :> 1) @@ (k2 :> 2) @@ (k3 :> 1)
=============================================================================
