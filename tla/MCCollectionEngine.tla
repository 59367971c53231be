------------------------- MODULE MCCollectionEngine -------------------------
(* Model-checking instances of CollectionEngine.                            *)
EXTENDS CollectionEngine, TLC

CONSTANT MaxUnits   \* the longest log file that is explored

MCMutations == [id : Ids, body : Bodies \union {Absent}]
Symmetry == Permutations(Ids)

Bounded == Len(file.units) =< MaxUnits

\* The states of a damaged log are found and not explored further.
Undamaged == Bounded /\ fault # "damaged"
=============================================================================
