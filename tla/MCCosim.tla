------------------------------- MODULE MCCosim --------------------------------
(* A small instance of Cosim for TLC.                                       *)
EXTENDS Cosim

CONSTANTS a, b

InputSet == {a, b}
=============================================================================
