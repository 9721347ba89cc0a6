---------------------------- MODULE MCDistributed -----------------------------
(* A small instance of Distributed for TLC.                                 *)
EXTENDS Distributed

CONSTANTS a, b, c

SlaveSet == {a, b, c}
=============================================================================
