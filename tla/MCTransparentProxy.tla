------------------------- MODULE MCTransparentProxy -------------------------
(***************************************************************************)
(* TransparentProxy for TLC.  MAX_UDP_ASSOCIATIONS is below the number of  *)
(* keys and of associations, so that the limit is met and a reader of an   *)
(* evicted association still runs when its key has a new one.              *)
(***************************************************************************)
EXTENDS TransparentProxy, TLC

Symmetry == Permutations(Keys) \cup Permutations(Assocs)
=============================================================================
