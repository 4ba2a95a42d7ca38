-------------------------------- MODULE MCPlaces --------------------------------
(* Places for TLC: places and deletions are interchangeable.                  *)
EXTENDS Places, TLC

Symmetry ==
  Permutations(PlaceIds) \cup Permutations(Deletions)
===============================================================================
