--------------------------- MODULE MCSegmentStore ---------------------------
(* A model-checking instance of SegmentStore.  The decoder allows two      *)
(* records, so a batch of three documents, or a compaction of them, leaves *)
(* a segment that cannot be read, as a document with a long string would.  *)
EXTENDS SegmentStore, TLC

Symmetry == Permutations(Ids)

\* Bound: a batch of several records has no deletion among them.
PlainBatches ==
    call # Idle /\ call.op = "publish" =>
        \/ Cardinality(DOMAIN call.records) = 1
        \/ \A id \in DOMAIN call.records : call.records[id] # Deleted
=============================================================================
