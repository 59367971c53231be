-------------------------- MODULE MCWriteAheadLog --------------------------
(* Model-checking instances of WriteAheadLog.                               *)
EXTENDS WriteAheadLog, TLC

CONSTANTS
    MaxUnits,   \* the longest file that is explored
    MaxUndo     \* the largest number of renames that are not durable yet

Symmetry == Permutations(Mutations)

Bounded ==
    /\ Len(file.units) =< MaxUnits
    /\ Cardinality(undo) =< MaxUndo

\* The properties say nothing of a damaged log: its states are found and not
\* explored further.
Undamaged == Bounded /\ fault # "damaged"
=============================================================================
