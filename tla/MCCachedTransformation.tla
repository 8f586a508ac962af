------------------------ MODULE MCCachedTransformation ------------------------
(* Model values for the requests of CachedTransformation, which are alike. *)
EXTENDS CachedTransformation, TLC

CONSTANTS r1, r2, r3, r4

Alike == Permutations(Req)
=============================================================================
