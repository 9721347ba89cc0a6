---------------------------- MODULE MCForkGroups -----------------------------
(* Small instances of ForkGroups for TLC.                                   *)
EXTENDS ForkGroups, TLC

CONSTANTS p, q

ProcessSet == {p, q}
Symmetry == Permutations(ProcessSet)

\* Delays with wait fork and disable fork; @ and wait in the processes.
JoinDesigns ==
  {[top |-> {"delay", "fork", "wait fork", "disable fork"}, branch |-> {"delay"}],
   [top |-> {"at", "wait", "fork"}, branch |-> {"delay", "at"}]}

\* A fork in a branch of a fork.
NestedDesigns == {[top |-> {"fork"}, branch |-> {"fork", "delay"}]}
=============================================================================
