------------------------------ MODULE MCOrigin ------------------------------
(* The origin on small databases: one that repeats an id, has a zero size, *)
(* sizes on the block boundaries, and a feature too large for 16 bits; and *)
(* one without extra features.                                             *)
EXTENDS Origin

MCRows == << [id |-> 1, size |-> 63, feats |-> <<0, 15>>],
             [id |-> 2, size |-> 0, feats |-> <<65535, 256>>],
             [id |-> 1, size |-> 34945, feats |-> <<4096, 40961>>],
             [id |-> 3, size |-> 2048, feats |-> <<70000, 7>>],
             [id |-> 4, size |-> 64, feats |-> <<1, 1>>] >>
MCUris == {1, 2, 3, 4, NoId}

MCPlainRows == << [id |-> 1, size |-> 64, feats |-> <<>>] >>
MCPlainUris == {1, NoId}
=============================================================================
