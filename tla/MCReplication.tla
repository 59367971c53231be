--------------------------- MODULE MCReplication ---------------------------
(* Model-checking instances of Replication.                                 *)
EXTENDS Replication, TLC

Symmetry == Permutations(Nodes)

\* The properties say nothing of what follows a fault: such states are found
\* and not explored further.
NoFaultYet == faults = {}

=============================================================================
