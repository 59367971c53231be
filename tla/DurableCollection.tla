------------------------- MODULE DurableCollection -------------------------
(***************************************************************************)
(* What a search node's collection promises its clients, whatever crashes  *)
(* happen: an acknowledged write is visible at once and for ever, until a  *)
(* later write to the same document.  A write that was not acknowledged    *)
(* (it failed, or the process died first) may show up after a restart, but *)
(* never in place of a later acknowledged write to the same document.      *)
(***************************************************************************)
CONSTANTS Ids, Values, Absent   \* Absent \in Values: no document under that ID

VARIABLES
    running,    \* the node serves requests
    view,       \* what it answers for each ID while it runs
    saved,      \* the last acknowledged value of each ID
    unknown     \* values of later writes that were not acknowledged

collectionVars == <<running, view, saved, unknown>>

CollectionInit ==
    /\ running = FALSE
    /\ view = [id \in Ids |-> Absent]
    /\ saved = [id \in Ids |-> Absent]
    /\ unknown = [id \in Ids |-> {}]

Submit(id, v) ==
    /\ running
    /\ unknown' = [unknown EXCEPT ![id] = @ \union {v}]
    /\ UNCHANGED <<running, view, saved>>

Acknowledge(id, v) ==
    /\ running
    /\ v \in unknown[id]
    /\ view' = [view EXCEPT ![id] = v]
    /\ saved' = [saved EXCEPT ![id] = v]
    /\ unknown' = [unknown EXCEPT ![id] = {}]
    /\ UNCHANGED running

Start ==
    /\ ~ running
    /\ running' = TRUE
    /\ view' \in [Ids -> Values]
    /\ \A id \in Ids : view'[id] \in {saved[id]} \union unknown[id]
    /\ UNCHANGED <<saved, unknown>>

Stop ==
    /\ running' = FALSE
    /\ view' = [id \in Ids |-> Absent]
    /\ UNCHANGED <<saved, unknown>>

CollectionNext ==
    \/ \E id \in Ids, v \in Values : Submit(id, v) \/ Acknowledge(id, v)
    \/ Start
    \/ Stop

CollectionSpec == CollectionInit /\ [][CollectionNext]_collectionVars
=============================================================================
