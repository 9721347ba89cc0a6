---------------------------- MODULE MCTimingWheel ----------------------------
(* A wheel of two buckets a level: the three levels cover eight time units,  *)
(* the same geometry as 256^3, and every boundary is met within one run.     *)
EXTENDS TimingWheel, TLC

Symmetry == Permutations(Event)
=============================================================================
