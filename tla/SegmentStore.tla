---------------------------- MODULE SegmentStore ----------------------------
(***************************************************************************)
(* The store of immutable segments, internal/segment/store.go.  A segment  *)
(* file holds at most one record per document and carries a checksum over  *)
(* all of them (codec.go), so a file under a segment name is whole: it is  *)
(* written and synced under a temporary name and then renamed.  Whole does *)
(* not mean readable: the decoder has limits that the encoder has not, and *)
(* every method reads all the segments before it does anything.            *)
(*                                                                         *)
(* Every method holds s.mu.  Publish and Compact are sequences of steps,   *)
(* because a crash may fall between any two of them.  A rename or a        *)
(* removal takes effect at once for the running system and is durable      *)
(* once the directory is synced; a power loss keeps some of those that     *)
(* were not synced: the first of them if the file system orders directory  *)
(* updates, any of them if it does not.                                    *)
(***************************************************************************)
EXTENDS Integers, FiniteSets, FiniteSetsExt

CONSTANTS
    Ids,                \* document IDs
    Values,             \* title and body of a document
    Deleted,            \* the record of a deletion; also: no document
    TooLong,            \* IDs and values with a string of more than maxStringSize bytes
    MaxRecordCount,     \* maxRecordCount: the records that a readable segment may have
    MaxGeneration,      \* ^uint64(0)
    MaxSegments,        \* the argument of Compact
    OrderedDirectory    \* the file system keeps directory updates in order

ASSUME StoreAssumption ==
    /\ Deleted \notin Values \union TooLong
    /\ MaxRecordCount \in Nat
    /\ MaxGeneration \in Nat \ {0}
    /\ MaxSegments \in Nat \ {0}
    /\ OrderedDirectory \in BOOLEAN

VARIABLES
    segments,   \* the segment files in the directory, by generation
    images,     \* the directories that a power loss may leave
    temporary,  \* a temporary file is in the directory
    running,    \* the Store exists
    call,       \* the Publish or Compact that holds s.mu
    possible    \* history: what Documents may return, given the answers so far

vars == <<segments, images, temporary, running, call, possible>>

-----------------------------------------------------------------------------
(* Segments.                                                               *)

\* The records of one segment: a value or a deletion for some of the IDs.
Records == UNION {[S -> Values \union {Deleted}] : S \in SUBSET Ids}
Batches == {r \in Records : DOMAIN r # {}}
Generations == 1..MaxGeneration
Directory == UNION {[S -> Records] : S \in SUBSET Generations}

\* The largest generation plus one, in 64 bits.
nextGeneration(dir) ==
    IF DOMAIN dir = {} THEN 1 ELSE (Max(DOMAIN dir) + 1) % (MaxGeneration + 1)

\* Mutant: a segment may have generation zero.
WritesAnyGeneration(generation) == TRUE

\* writeSegment refuses generation zero; the size of the payload may be another reason
\* for an error.
writeSegment(generation) == generation # 0

\* decodePayload refuses long strings and too many records, which encodePayload does
\* not look at.
decodePayload(records) ==
    /\ Cardinality(DOMAIN records) =< MaxRecordCount
    /\ \A id \in DOMAIN records : id \notin TooLong /\ records[id] \notin TooLong

\* readSegment refuses generation zero and what decodePayload refuses.
readSegment(generation, records) == generation # 0 /\ decodePayload(records)

\* The documents of the newest record of each ID.
Documents(dir) ==
    [id \in Ids |->
        LET with == {g \in DOMAIN dir : id \in DOMAIN dir[g]}
        IN  IF with = {} THEN Deleted ELSE dir[Max(with)][id]]

\* Mutant: the oldest record of each ID.
MergedOldest(dir) ==
    [id \in {i \in Ids : Documents(dir)[i] # Deleted} |->
        dir[Min({g \in DOMAIN dir : id \in DOMAIN dir[g]})][id]]

\* The segment Compact writes: no record of a deleted document.
Merged(dir) ==
    [id \in {i \in Ids : Documents(dir)[i] # Deleted} |-> Documents(dir)[id]]

\* Documents after a batch.
Applied(docs, batch) == [id \in Ids |-> IF id \in DOMAIN batch THEN batch[id] ELSE docs[id]]

Idle == [op |-> "none"]

-----------------------------------------------------------------------------
(* The directory.                                                          *)

\* listLocked reads all the segments, and one that is refused fails it.
Listed(dir) == \A g \in DOMAIN dir : readSegment(g, dir[g])

\* What the method Documents may return: an error is no answer.
Answer(dir) == {d \in {Documents(dir)} : Listed(dir)}

Updated(dir, update) ==
    IF update.kind = "rename"
        THEN [g \in DOMAIN dir \union {update.generation} |->
                 IF g = update.generation THEN update.records ELSE dir[g]]
        ELSE [g \in DOMAIN dir \ {update.generation} |-> dir[g]]

\* An update is seen at once.  A power loss finds it done, or done without some
\* of those before it if the file system does not order them, or not done.
Update(update) ==
    /\ segments' = Updated(segments, update)
    /\ images' = images \union (IF OrderedDirectory THEN {Updated(segments, update)}
                                ELSE {Updated(dir, update) : dir \in images})

\* syncDirectory: what is in the directory stays.
Sync ==
    /\ images' = {segments}
    /\ UNCHANGED segments

Rename == [kind |-> "rename", generation |-> call.generation, records |-> call.records]
Removal(g) == [kind |-> "remove", generation |-> g]

-----------------------------------------------------------------------------
Init ==
    /\ segments = [g \in {} |-> {}]
    /\ images = {segments}
    /\ temporary = FALSE
    /\ running = FALSE
    /\ call = Idle
    /\ possible = {[id \in Ids |-> Deleted]}

\* NewStore removes the temporary files that it finds.
NewStore ==
    /\ ~ running
    /\ running' = TRUE
    /\ temporary' = FALSE
    /\ UNCHANGED <<segments, images, call, possible>>

\* Mutant: the error of listLocked is forgotten.
BeginUnlisted(op, records, old) ==
    /\ running
    /\ call = Idle
    /\ writeSegment(nextGeneration(segments))
    /\ call' = [op |-> op, pc |-> "written", generation |-> nextGeneration(segments),
                records |-> records, old |-> old]
    /\ temporary' = TRUE
    /\ UNCHANGED <<segments, images, running, possible>>

\* After listLocked, publishLocked creates, writes and syncs the temporary file.
Begin(op, records, old) ==
    /\ running
    /\ call = Idle
    /\ Listed(segments)
    /\ writeSegment(nextGeneration(segments))
    /\ call' = [op |-> op, pc |-> "written", generation |-> nextGeneration(segments),
                records |-> records, old |-> old]
    /\ temporary' = TRUE
    /\ UNCHANGED <<segments, images, running, possible>>

Publish(batch) == Begin("publish", batch, {})

\* The segments there are will be removed, in the order of their generations.
Compact ==
    /\ Cardinality(DOMAIN segments) > MaxSegments
    /\ Begin("compact", Merged(segments), DOMAIN segments)

\* An error before the rename: the temporary file is removed.
PublishFails ==
    /\ call # Idle /\ call.pc = "written"
    /\ call' = Idle
    /\ temporary' = FALSE
    /\ UNCHANGED <<segments, images, running, possible>>

Renames ==
    /\ call # Idle /\ call.pc = "written"
    /\ Update(Rename)
    /\ temporary' = FALSE
    /\ call' = [call EXCEPT !.pc = "renamed"]
    /\ possible' = IF call.op = "publish"
                      THEN possible \union {Applied(d, call.records) : d \in possible}
                      ELSE possible
    /\ UNCHANGED running

\* syncDirectory at the end of publishLocked.
PublishSyncs ==
    /\ call # Idle /\ call.pc = "renamed"
    /\ Sync
    /\ IF call.op = "publish"
          THEN /\ call' = Idle
               /\ possible' = {Applied(d, call.records) : d \in possible}
          ELSE /\ call' = [call EXCEPT !.pc = "removing"]
               /\ UNCHANGED possible
    /\ UNCHANGED <<temporary, running>>

\* Mutant: the newest of the old segments is removed first.
RemovesNewestFirst ==
    /\ call # Idle /\ call.pc = "removing" /\ call.old # {}
    /\ Update(Removal(Max(call.old)))
    /\ call' = [call EXCEPT !.old = @ \ {Max(call.old)}]
    /\ UNCHANGED <<temporary, running, possible>>

\* The oldest of the segments that are left to remove.
Removes ==
    /\ call # Idle /\ call.pc = "removing" /\ call.old # {}
    /\ Update(Removal(Min(call.old)))
    /\ call' = [call EXCEPT !.old = @ \ {Min(call.old)}]
    /\ UNCHANGED <<temporary, running, possible>>

\* The syncDirectory at the end of Compact.
CompactSyncs ==
    /\ call # Idle /\ call.pc = "removing" /\ call.old = {}
    /\ Sync
    /\ call' = Idle
    /\ UNCHANGED <<temporary, running, possible>>

\* os.Remove or a syncDirectory returned an error, and with it the call.
CallFails ==
    /\ call # Idle /\ call.pc \in {"renamed", "removing"}
    /\ call' = Idle
    /\ UNCHANGED <<segments, images, temporary, running, possible>>

ProcessEnds ==
    /\ running
    /\ running' = FALSE
    /\ call' = Idle
    /\ UNCHANGED <<segments, images, temporary, possible>>

PowerLoss ==
    /\ running' = FALSE
    /\ call' = Idle
    /\ segments' \in images
    /\ images' = {segments'}
    /\ temporary' \in {temporary, FALSE}
    /\ UNCHANGED possible

Next ==
    \/ NewStore
    \/ \E batch \in Batches : Publish(batch)
    \/ Compact
    \/ PublishFails
    \/ Renames
    \/ PublishSyncs
    \/ Removes
    \/ CompactSyncs
    \/ CallFails
    \/ ProcessEnds
    \/ PowerLoss

Spec == Init /\ [][Next]_vars

-----------------------------------------------------------------------------
(* Properties.                                                             *)

Calls == [op : {"publish", "compact"}, pc : {"written", "renamed", "removing"},
          generation : Generations, records : Records, old : SUBSET Generations]

\* Every variable has its type: in particular no call writes generation zero, at
\* the end of the generations either.
TypeOK ==
    /\ segments \in images
    /\ images \subseteq Directory
    /\ temporary \in BOOLEAN
    /\ running \in BOOLEAN
    /\ call \in {Idle} \union Calls
    /\ possible \subseteq [Ids -> Values \union {Deleted}]

\* What Documents returns, if it returns documents, is the latest: of every batch that
\* was acknowledged and, as a whole, of some of those that were not, whether or not
\* a power loss comes first.  In particular a crash in the middle of Compact
\* brings no deleted document back.  (Documents, Publish and Compact of store.go.)
DocumentsAreLatest == \A dir \in images \union {segments} : Answer(dir) \subseteq possible

\* Readers do not notice a compaction, a restart or an error: only a Publish changes what
\* Documents returns, in one step, or a power loss that undoes one.  The exception
\* is a merged segment with more records than the decoder allows: from its rename
\* on Documents fails.
OnlyPublishChangesDocuments ==
    [][Answer(segments') # Answer(segments) =>
          \/ call # Idle /\ call.op = "publish" /\ call.pc = "written"
          \/ call # Idle /\ call.op = "compact" /\ call.pc = "written"
             /\ ~ decodePayload(call.records) /\ Answer(segments') = {}
          \/ PowerLoss /\ possible # Answer(segments)]_vars

\* "Documents returns the latest visible version of every stored document": it does not
\* fail for what Publish and Compact stored themselves (store.go, listLocked).  The code
\* keeps this only within the limits of the decoder (README, section 4).
DocumentsReturns == Listed(segments)

=============================================================================
