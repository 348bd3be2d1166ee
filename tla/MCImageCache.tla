---------------------------- MODULE MCImageCache ----------------------------
(***************************************************************************)
(* Small instances of ImageCache.  The addresses and the rows of the list  *)
(* are interchangeable: nothing orders them.                               *)
(***************************************************************************)
EXTENDS ImageCache, TLC

CONSTANTS p1, p2, l1, l2, r1

Symmetry == Permutations(PlaceImg) \cup Permutations(ListImg) \cup Permutations(RowView)
=============================================================================
