-------------------------- MODULE CollectionEngine --------------------------
(***************************************************************************)
(* The document engine of a search node, internal/searchnode/engine.go, on *)
(* top of its write-ahead log.  A write holds e.mu from Append to the      *)
(* update of the indexes, in three steps that a crash, an error or a Close *)
(* (which does not take e.mu) may fall between.  Search and Get hold e.mu  *)
(* for reading: they see the engine only while no write is under way.      *)
(*                                                                         *)
(* documents is the documents map, which Get answers from; the indexes are *)
(* in module HybridIndex.  The map is the last that applyDocument changes, *)
(* so whatever fails before it leaves it alone: the embedder, when the     *)
(* context is done, or the vector index, which takes no zero vector.  The  *)
(* mutation is committed by then, and Open applies it again.               *)
(***************************************************************************)
EXTENDS WriteAheadLog

CONSTANTS
    Ids,            \* document IDs, trimmed and not empty
    Bodies,         \* title and content of a document
    Directionless,  \* those that the embedder gives the zero vector
    MediaTypes,
    DefaultMedia,   \* "text/plain; charset=utf-8"
    Absent          \* no document

ASSUME EngineAssumption ==
    /\ DefaultMedia \in MediaTypes
    /\ Absent \notin Bodies
    /\ Directionless \subseteq Bodies
    /\ Mutations = [id : Ids, body : Bodies \union {Absent}]

VARIABLES
    running,        \* the engine exists
    documents,      \* e.documents
    offset,         \* e.offset
    writer,         \* the write that holds e.mu
    \* history variables
    saved,          \* the last acknowledged document of each ID
    unknown         \* bodies of later writes to it that reached the log unacknowledged

engineVars == <<running, documents, offset, writer>>
clientVars == <<saved, unknown>>
vars == <<logVars, engineVars, clientVars>>

Document == [body : Bodies \union {Absent}, media : MediaTypes]
NoDocument == [body |-> Absent, media |-> DefaultMedia]
Idle == [pc |-> "idle"]
Writing == [pc : {"appended", "committed"}, id : Ids, doc : Document, seq : Sequence]

Bodies_(docs) == [id \in Ids |-> docs[id].body]

\* Mutant: an entry does not replace what an earlier one left.
RecoveredFirst(entries) ==
    [id \in Ids |->
        LET mine == {e \in entries : e[2].id = id}
            first == CHOOSE e \in mine : \A f \in mine : e[1] =< f[1]
        IN  IF mine = {} THEN NoDocument
            ELSE [body |-> first[2].body, media |-> DefaultMedia]]

\* The documents that Open makes of the entries of Replay, applied in sequence
\* order.  The log does not hold the media type.
Recovered(entries) ==
    [id \in Ids |->
        LET mine == {e \in entries : e[2].id = id}
            latest == CHOOSE e \in mine : \A f \in mine : f[1] =< e[1]
        IN  IF mine = {} THEN NoDocument
            ELSE [body |-> latest[2].body, media |-> DefaultMedia]]

\* Every entry can be applied, also one that a later entry replaces.
Recoverable(entries) == \A e \in entries : e[2].body \notin Directionless

LatestOffset(entries) == Max({0} \union {e[1] : e \in entries})

Stopped ==
    /\ running' = FALSE
    /\ documents' = [id \in Ids |-> NoDocument]
    /\ offset' = 0
    /\ writer' = Idle

-----------------------------------------------------------------------------
Init ==
    /\ LogInit
    /\ running = FALSE
    /\ documents = [id \in Ids |-> NoDocument]
    /\ offset = 0
    /\ writer = Idle
    /\ saved = [id \in Ids |-> NoDocument]
    /\ unknown = [id \in Ids |-> {}]

\* wal.Open, Replay, and the replayed entries applied in order.
Open ==
    /\ ~ running
    /\ OpenNew \/ OpenExisting
    /\ LET entries == Replay(file'.units, Len(file'.units))
       IN  /\ Recoverable(entries)
           /\ documents' = Recovered(entries)
           /\ offset' = LatestOffset(entries)
    /\ running' = TRUE
    /\ writer' = Idle
    /\ UNCHANGED clientVars

OpenFails ==
    /\ ~ running
    /\ OpenNewFails
    /\ UNCHANGED <<engineVars, clientVars>>

\* Replay or an entry fails, because of a zero vector or the end of the context: Open will
\* return an error, and the log it has opened is still to be closed.
OpenRefused ==
    /\ ~ running
    /\ OpenNew \/ OpenExisting
    /\ UNCHANGED <<engineVars, clientVars>>

\* Open closes that log and returns, or the process ends first.
OpenGivesUp ==
    /\ ~ running
    /\ LogClose
    /\ UNCHANGED <<engineVars, clientVars>>

\* The first step of Upsert and Delete, with e.mu taken: e.log.Append.
Begin(id, doc) ==
    /\ running
    /\ writer = Idle
    /\ LogAppend([id |-> id, body |-> doc.body])
    /\ writer' = [pc |-> "appended", id |-> id, doc |-> doc, seq |-> lastSequence']
    /\ unknown' = [unknown EXCEPT ![id] = @ \union {doc.body}]
    /\ UNCHANGED <<running, documents, offset, saved>>

BeginFails ==
    /\ running
    /\ writer = Idle
    /\ LogAppendFails
    /\ UNCHANGED <<engineVars, clientVars>>

Upsert == \E id \in Ids, body \in Bodies, media \in MediaTypes :
             Begin(id, [body |-> body, media |-> media])
Delete == \E id \in Ids : Begin(id, NoDocument)

\* The second step: e.log.Commit of the sequence that Append returned.
Commit ==
    /\ writer # Idle /\ writer.pc = "appended"
    /\ LogCommit(writer.seq)
    /\ writer' = [writer EXCEPT !.pc = "committed"]
    /\ UNCHANGED <<running, documents, offset, clientVars>>

\* Commit fails, on the file or because Close came first: the write ends with
\* an error and its mutation stays in the log.
CommitFails ==
    /\ writer # Idle /\ writer.pc = "appended"
    /\ \/ LogCommitFails(writer.seq)
       \/ handle # "open" /\ UNCHANGED logVars
    /\ writer' = Idle
    /\ UNCHANGED <<running, documents, offset, clientVars>>

\* The last step: applyDocument, or the deletions of Delete, and the answer.
Apply ==
    /\ writer # Idle /\ writer.pc = "committed"
    /\ writer.doc.body \notin Directionless
    /\ documents' = [documents EXCEPT ![writer.id] = writer.doc]
    /\ offset' = writer.seq
    /\ writer' = Idle
    /\ saved' = [saved EXCEPT ![writer.id] = writer.doc]
    /\ unknown' = [unknown EXCEPT ![writer.id] = {}]
    /\ UNCHANGED <<logVars, running>>

\* Embed returns the error of a context that was cancelled meanwhile, or the vector index
\* refuses the zero vector.
ApplyFails ==
    /\ writer # Idle /\ writer.pc = "committed"
    /\ writer.doc.body # Absent
    /\ writer' = Idle
    /\ UNCHANGED <<logVars, running, documents, offset, clientVars>>

Close ==
    /\ running
    /\ LogClose
    /\ UNCHANGED <<engineVars, clientVars>>

ProcessEnds ==
    /\ running
    /\ Kill \/ (handle = "nil" /\ UNCHANGED logVars)
    /\ Stopped
    /\ UNCHANGED clientVars

MachineEnds ==
    /\ PowerLoss
    /\ Stopped
    /\ UNCHANGED clientVars

Next ==
    \/ Open
    \/ OpenFails
    \/ OpenRefused
    \/ OpenGivesUp
    \/ Upsert
    \/ Delete
    \/ BeginFails
    \/ Commit
    \/ CommitFails
    \/ Apply
    \/ ApplyFails
    \/ Close
    \/ ProcessEnds
    \/ MachineEnds

Spec == Init /\ [][Next]_vars

-----------------------------------------------------------------------------
(* Properties.                                                             *)

\* Every variable has its type.
TypeOK ==
    /\ LogTypeOK
    /\ running \in BOOLEAN
    /\ documents \in [Ids -> Document]
    /\ offset \in Sequence
    /\ writer = Idle \/ writer \in Writing
    /\ saved \in [Ids -> Document]
    /\ unknown \in [Ids -> SUBSET (Bodies \union {Absent})]

\* The engine is a durable collection: what it answers after any sequence of
\* failed writes, crashes and restarts is what was acknowledged, or a later
\* write that ended without an answer.
Collection == INSTANCE DurableCollection WITH
    Values <- Bodies \union {Absent},
    view <- Bodies_(documents),
    saved <- Bodies_(saved)
ImplementsCollection == Collection!CollectionSpec

\* "Open recovers a collection from its write-ahead log": no log that the engine wrote itself
\* makes every Open fail, between two writes (Open and applyDocument of engine.go).
\* The code does not keep this: a body without a direction is committed before
\* it is refused (README, section 4).
LogIsRecovered ==
    fault = "no" /\ writer = Idle => \A n \in scanLog(file.units) : Recoverable(Replay(file.units, n))

=============================================================================
