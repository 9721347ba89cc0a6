------------------------------ MODULE MCUvmSync -------------------------------
(* A small instance of UvmSync for TLC: four processes, two items.         *)
EXTENDS UvmSync

CONSTANTS p, q, r, d, a, b, x, y

ProcessSet == {p, q, r, d}
ItemSet == {a, b}
Paths == {x, y}
SizesGiven == {0, 1, 2}
ThresholdsGiven == {0, 1, 2, 3}
=============================================================================
