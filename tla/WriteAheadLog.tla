--------------------------- MODULE WriteAheadLog ---------------------------
(***************************************************************************)
(* The write-ahead log of a search node, internal/wal/log.go.              *)
(*                                                                         *)
(* A log file is a sequence of units: a header that carries the base       *)
(* sequence, then mutation and commit records.  A write that stopped half  *)
(* way leaves a "fragment" unit.  The bytes inside a unit are abstracted;  *)
(* what scanLog concludes from them is not.                                *)
(*                                                                         *)
(* Every method of Log runs under l.mu, so one action is one call.  A call *)
(* that fails half way is an action of its own, and a process that dies    *)
(* inside a call is that action followed by Kill or PowerLoss.             *)
(*                                                                         *)
(* File system: a completed fsync makes the units written so far and the   *)
(* directory entry of the file durable; a power loss keeps a prefix of the *)
(* units that no fsync covered, cut anywhere, and may undo a rename that   *)
(* no fsync covered; an fsync that failed may be tried again.              *)
(***************************************************************************)
EXTENDS Integers, Sequences, FiniteSets, FiniteSetsExt

CONSTANTS
    Mutations,      \* what a record may carry (segment.Mutation)
    NoMutation,     \* what the other units carry
    MaxSequence     \* ^uint64(0): the last sequence number there is

ASSUME LogAssumption ==
    /\ MaxSequence \in Nat
    /\ NoMutation \notin Mutations

VARIABLES
    file,               \* the image under l.path, as the running system reads it
    undo,               \* images a power loss may bring back: renames not yet durable
    handle,             \* l.file: "nil", "open", or "stale" (closed by a failed rewrite)
    baseSequence,       \* l.baseSequence
    lastSequence,       \* l.lastSequence
    committedSequence,  \* l.committedSequence
    \* history variables
    history,            \* the mutation last written under each sequence number
    acked,              \* the largest sequence a successful Commit was called with
    floor,              \* the largest checkpoint given to Truncate
    checkpoint,         \* the largest checkpoint a Truncate returned nil for
    fault               \* "no"; "torn" once a write of this process failed half way;
                        \* "damaged" once a record was written behind such a fragment,
                        \* or a commit record behind one with a larger sequence

disk == <<file, undo>>
memory == <<handle, baseSequence, lastSequence, committedSequence>>
ghosts == <<history, acked, floor, checkpoint, fault>>
logVars == <<disk, memory, ghosts>>

-----------------------------------------------------------------------------
(* The file format.                                                        *)

Sequence == 0..MaxSequence
Unit == [kind : {"header", "mutation", "commit", "fragment"},
         seq : Sequence, mut : Mutations \union {NoMutation}]
Image == [units : Seq(Unit), synced : Nat]

Header(base) == [kind |-> "header", seq |-> base, mut |-> NoMutation]
encodeMutation(seq, m) == [kind |-> "mutation", seq |-> seq, mut |-> m]
encodeCommit(seq) == [kind |-> "commit", seq |-> seq, mut |-> NoMutation]
Fragment == [kind |-> "fragment", seq |-> 0, mut |-> NoMutation]

\* result.lastSequence and result.committedSequence start at the header's base.
Numbers(u, i) == u[i].kind \in {"header", "mutation"}
Commits(u, i) == u[i].kind \in {"header", "commit"}

-----------------------------------------------------------------------------
(* scanLog reads units in order until the end of the file or a fragment.   *)

\* result.lastSequence and result.committedSequence after n units.
ScanLast(u, n) == Max({u[j].seq : j \in {k \in 1..n : Numbers(u, k)}})
ScanCommitted(u, n) == Max({u[j].seq : j \in {k \in 1..n : Commits(u, k)}})

\* The checks scanLog makes of record i, given that it accepted those before.
Accepts(u, i) ==
    \/ /\ u[i].kind = "mutation"
       /\ \E j \in 1..(i - 1) :
             /\ Numbers(u, j)
             /\ u[i].seq = u[j].seq + 1
             /\ \A k \in (j + 1)..(i - 1) : ~ Numbers(u, k)
    \/ /\ u[i].kind = "commit"
       /\ u[i].seq > 0
       /\ \E j \in 1..(i - 1) : Numbers(u, j) /\ u[i].seq =< u[j].seq
       /\ \A j \in 1..(i - 1) : Commits(u, j) => u[j].seq =< u[i].seq

\* The number of units a successful scan accepts (validOffset), if there is
\* one.  Units behind a fragment are read as part of the fragment's record, so
\* the scan fails or ends there, depending on their lengths.
scanLog(u) ==
    {n \in 1..Len(u) : /\ u[1].kind = "header"
                       /\ \A i \in 2..n : Accepts(u, i)
                       /\ n = Len(u) \/ u[n + 1].kind = "fragment"}

\* The entries Replay returns, as pairs of a sequence and a mutation.
Entries(u, n) ==
    {<<u[i].seq, u[i].mut>> : i \in {k \in 1..n : u[k].kind = "mutation"}}
Replay(u, n) == {e \in Entries(u, n) : e[1] =< ScanCommitted(u, n)}

Write(unit) == [file EXCEPT !.units = Append(@, unit)]
Synced(image) == [image EXCEPT !.synced = Len(image.units)]

\* A record went in completely, or up to a point inside it.  A record behind
\* a fragment of the same process damages the log.
Wrote == fault' = IF fault = "no" THEN "no" ELSE "damaged"
Tore == /\ file' = Write(Fragment)
        /\ fault' = IF fault = "no" THEN "torn" ELSE "damaged"

-----------------------------------------------------------------------------
LogInit ==
    /\ file = [units |-> << >>, synced |-> 0]
    /\ undo = {}
    /\ handle = "nil"
    /\ baseSequence = 0
    /\ lastSequence = 0
    /\ committedSequence = 0
    /\ history = [s \in 1..MaxSequence |-> NoMutation]
    /\ acked = 0
    /\ floor = 0
    /\ checkpoint = 0
    /\ fault = "no"

\* Open of an empty file writes the header and syncs it.
OpenNew ==
    /\ handle = "nil"
    /\ file.units = << >>
    /\ file' = [units |-> <<Header(0)>>, synced |-> 1]
    /\ undo' = {}
    /\ handle' = "open"
    /\ baseSequence' = 0
    /\ lastSequence' = 0
    /\ committedSequence' = 0
    /\ fault' = IF fault = "torn" THEN "no" ELSE fault
    /\ UNCHANGED <<history, acked, floor, checkpoint>>

\* The same, stopped before the sync: by an error or with the process.
OpenNewFails ==
    /\ handle = "nil"
    /\ file.units = << >>
    /\ \E unit \in {Header(0), Fragment} : file' = Write(unit)
    /\ UNCHANGED <<undo, memory, ghosts>>

\* Mutant: Append goes on from the committed sequence, not from the last one.
OpenExistingAtCommitted ==
    /\ handle = "nil"
    /\ \E n \in scanLog(file.units) :
          /\ IF n < Len(file.units)
                THEN /\ file' = [units |-> SubSeq(file.units, 1, n), synced |-> n]
                     /\ undo' = {}
                ELSE UNCHANGED disk
          /\ baseSequence' = file.units[1].seq
          /\ lastSequence' = ScanCommitted(file.units, n)
          /\ committedSequence' = ScanCommitted(file.units, n)
    /\ handle' = "open"
    /\ fault' = IF fault = "torn" THEN "no" ELSE fault
    /\ UNCHANGED <<history, acked, floor, checkpoint>>

\* Open of a file with content: scan it, cut off an incomplete tail.
OpenExisting ==
    /\ handle = "nil"
    /\ \E n \in scanLog(file.units) :
          /\ IF n < Len(file.units)
                THEN /\ file' = [units |-> SubSeq(file.units, 1, n), synced |-> n]
                     /\ undo' = {}
                ELSE UNCHANGED disk
          /\ baseSequence' = file.units[1].seq
          /\ lastSequence' = ScanLast(file.units, n)
          /\ committedSequence' = ScanCommitted(file.units, n)
    /\ handle' = "open"
    /\ fault' = IF fault = "torn" THEN "no" ELSE fault
    /\ UNCHANGED <<history, acked, floor, checkpoint>>

\* Mutant: no check for the last sequence number.
LogAppendUnchecked(m) ==
    /\ handle = "open"
    /\ file' = Write(encodeMutation(lastSequence + 1, m))
    /\ Wrote
    /\ lastSequence' = lastSequence + 1
    /\ history' = [s \in DOMAIN history |-> IF s = lastSequence + 1 THEN m ELSE history[s]]
    /\ UNCHANGED <<undo, handle, baseSequence, committedSequence, acked, floor, checkpoint>>

LogAppend(m) ==
    /\ handle = "open"
    /\ lastSequence # MaxSequence
    /\ file' = Write(encodeMutation(lastSequence + 1, m))
    /\ Wrote
    /\ lastSequence' = lastSequence + 1
    /\ history' = [history EXCEPT ![lastSequence + 1] = m]
    /\ UNCHANGED <<undo, handle, baseSequence, committedSequence, acked, floor, checkpoint>>

\* appendRecord returned an error after part of the record was written.
LogAppendFails ==
    /\ handle = "open"
    /\ lastSequence # MaxSequence
    /\ Tore
    /\ UNCHANGED <<undo, memory, history, acked, floor, checkpoint>>

InCommitRange(seq) ==
    /\ handle = "open"
    /\ seq >= committedSequence
    /\ seq =< lastSequence

\* Commit compares its argument with the last commit that succeeded, not with
\* the commit records whose sync failed.
WroteCommit(seq) ==
    fault' = IF /\ fault = "no"
                /\ \A i \in 1..Len(file.units) :
                      Commits(file.units, i) => file.units[i].seq =< seq
             THEN "no" ELSE "damaged"

\* Mutant: the commit record is not synced.
LogCommitUnsynced(seq) ==
    /\ InCommitRange(seq)
    /\ IF seq = committedSequence
          THEN UNCHANGED <<file, fault>>
          ELSE file' = Write(encodeCommit(seq)) /\ WroteCommit(seq)
    /\ committedSequence' = seq
    /\ acked' = IF seq > acked THEN seq ELSE acked
    /\ UNCHANGED <<undo, handle, baseSequence, lastSequence, history, floor, checkpoint>>

\* A successful Commit: the record, unless there is nothing new to commit,
\* and the fsync.
LogCommit(seq) ==
    /\ InCommitRange(seq)
    /\ IF seq = committedSequence
          THEN file' = Synced(file) /\ UNCHANGED fault
          ELSE file' = Synced(Write(encodeCommit(seq))) /\ WroteCommit(seq)
    /\ undo' = {}
    /\ committedSequence' = seq
    /\ acked' = IF seq > acked THEN seq ELSE acked
    /\ UNCHANGED <<handle, baseSequence, lastSequence, history, floor, checkpoint>>

\* The record was written in part, or completely and its fsync failed.
LogCommitFails(seq) ==
    /\ InCommitRange(seq)
    /\ seq # committedSequence
    /\ \/ Tore
       \/ file' = Write(encodeCommit(seq)) /\ WroteCommit(seq)
    /\ UNCHANGED <<undo, memory, history, acked, floor, checkpoint>>

-----------------------------------------------------------------------------
(* Truncate writes what remains to a new file and renames it over the old. *)

MutationAt(u, n, seq) ==
    LET i == CHOOSE k \in 1..n : u[k].kind = "mutation" /\ u[k].seq = seq
    IN  u[i].mut

\* Mutant: a file without remaining mutations starts at zero again.
RewrittenFromZero(u, n, base) ==
    LET last == ScanLast(u, n)
        committed == ScanCommitted(u, n)
        remaining == IF last > base THEN last - base ELSE 0
        tail == IF committed > base THEN 1 ELSE 0
    IN  [i \in 1..(1 + remaining + tail) |->
            IF i = 1 THEN Header(IF remaining = 0 THEN 0 ELSE base)
            ELSE IF i =< 1 + remaining
                    THEN encodeMutation(base + i - 1, MutationAt(u, n, base + i - 1))
                    ELSE encodeCommit(committed)]

Rewritten(u, n, base) ==
    LET last == ScanLast(u, n)
        committed == ScanCommitted(u, n)
        remaining == IF last > base THEN last - base ELSE 0
        tail == IF committed > base THEN 1 ELSE 0
    IN  [i \in 1..(1 + remaining + tail) |->
            IF i = 1 THEN Header(base)
            ELSE IF i =< 1 + remaining
                    THEN encodeMutation(base + i - 1, MutationAt(u, n, base + i - 1))
                    ELSE encodeCommit(committed)]

\* Mutant: the temporary file is renamed without a sync.
NewFileUnsynced(n, base) == [units |-> Rewritten(file.units, n, base), synced |-> 0]

\* The temporary file is synced before it is renamed.
NewFile(n, base) == Synced([units |-> Rewritten(file.units, n, base), synced |-> 0])

InTruncateRange(seq) ==
    /\ handle = "open"
    /\ baseSequence =< seq
    /\ seq =< committedSequence

\* Mutant: the directory is not synced.
NoDirectorySync == undo \union {file}

\* The images a power loss may bring back once syncDirectory succeeded.
syncDirectory == {}

LogTruncate(seq) ==
    /\ InTruncateRange(seq)
    /\ \E n \in scanLog(file.units) :
          /\ file' = NewFile(n, seq)
          /\ lastSequence' = ScanLast(file.units, n)
          /\ committedSequence' = ScanCommitted(file.units, n)
    /\ undo' = syncDirectory
    /\ baseSequence' = seq
    /\ floor' = IF seq > floor THEN seq ELSE floor
    /\ checkpoint' = IF seq > checkpoint THEN seq ELSE checkpoint
    /\ fault' = IF fault = "torn" THEN "no" ELSE fault
    /\ UNCHANGED <<handle, history, acked>>

\* rewrite fails after it closed l.file, which stays a closed file and fails
\* every later call: the rename failed, or it happened and the directory could
\* not be synced or the new file not opened.
LogTruncateFails(seq) ==
    /\ InTruncateRange(seq)
    /\ \E n \in scanLog(file.units) :
          \/ UNCHANGED <<disk, ghosts>>
          \/ /\ file' = NewFile(n, seq)
             /\ undo' \in {undo \union {file}, syncDirectory}
             /\ floor' = IF seq > floor THEN seq ELSE floor
             /\ fault' = IF fault = "torn" THEN "no" ELSE fault
             /\ UNCHANGED <<history, acked, checkpoint>>
    /\ handle' = "stale"
    /\ UNCHANGED <<baseSequence, lastSequence, committedSequence>>

-----------------------------------------------------------------------------
\* No method reads the fields once l.file is nil or the process is gone.
Forget ==
    /\ handle' = "nil"
    /\ baseSequence' = 0
    /\ lastSequence' = 0
    /\ committedSequence' = 0

\* Close returns an error, and changes nothing, when the file is closed already.
LogClose ==
    /\ handle = "open"
    /\ Forget
    /\ UNCHANGED <<disk, ghosts>>

\* The process ends; what it wrote is still in the operating system's hands.
Kill ==
    /\ handle # "nil"
    /\ Forget
    /\ UNCHANGED <<disk, ghosts>>

\* What a power loss may leave of an image.
Survivors(image) ==
    LET u == image.units
        cut == {SubSeq(u, 1, n) : n \in image.synced..Len(u)}
        torn == {Append(SubSeq(u, 1, n), Fragment) : n \in image.synced..(Len(u) - 1)}
    IN  {[units |-> v, synced |-> Len(v)] : v \in cut \union torn}

PowerLoss ==
    /\ \E image \in {file} \union undo : file' \in Survivors(image)
    /\ undo' = {}
    /\ Forget
    /\ UNCHANGED ghosts

LogNext ==
    \/ OpenNew
    \/ OpenNewFails
    \/ OpenExisting
    \/ \E m \in Mutations : LogAppend(m)
    \/ LogAppendFails
    \/ \E seq \in Sequence : LogCommit(seq)
    \/ \E seq \in Sequence : LogCommitFails(seq)
    \/ \E seq \in Sequence : LogTruncate(seq)
    \/ \E seq \in Sequence : LogTruncateFails(seq)
    \/ LogClose
    \/ Kill
    \/ PowerLoss

LogSpec == LogInit /\ [][LogNext]_logVars

-----------------------------------------------------------------------------
(* Properties.                                                             *)

\* Every variable has its type.
LogTypeOK ==
    /\ file \in Image
    /\ file.synced =< Len(file.units)
    /\ undo \subseteq Image
    /\ handle \in {"nil", "open", "stale"}
    /\ baseSequence \in Sequence
    /\ lastSequence \in Sequence
    /\ committedSequence \in Sequence
    /\ history \in [1..MaxSequence -> Mutations \union {NoMutation}]
    /\ acked \in Sequence
    /\ floor \in Sequence
    /\ checkpoint \in Sequence
    /\ fault \in {"no", "torn", "damaged"}

\* Commit "makes every mutation through sequence durable": whatever crashes
\* happen, the file can be scanned and Replay returns every mutation of a
\* successful Commit that no Truncate was allowed to discard, as it was
\* written.  It holds as long as no process goes on writing behind a record
\* whose write failed half way, or commits less after a Commit that failed.
AckedIsReplayed ==
    acked > 0 => \E n \in scanLog(file.units) :
                    /\ file.units[1].seq =< floor
                    /\ \A s \in (file.units[1].seq + 1)..acked :
                          <<s, history[s]>> \in Replay(file.units, n)
AckedDurable == fault # "damaged" => AckedIsReplayed

\* Replay returns nothing that was not given to Append under that sequence.
ReplayIsHistory ==
    fault # "damaged" =>
        \A n \in scanLog(file.units) : \A e \in Entries(file.units, n) : e[2] = history[e[1]]

\* The sequence number of a committed mutation is never given to another one,
\* through any number of crashes, reopenings and truncations.
NoSequenceReuse ==
    [][fault # "damaged" => \A s \in 1..acked : history'[s] = history[s]]_logVars

\* Once Truncate returned, no crash brings back what it discarded.
TruncatedStaysGone ==
    checkpoint > 0 => file.units # << >> /\ file.units[1].seq >= checkpoint

\* The fields of an open Log are those a scan of its file would give; only the
\* committed sequence may lag behind, after a commit record whose sync failed.
FieldsMatchFile ==
    handle = "open" /\ fault = "no" =>
        \E n \in scanLog(file.units) :
            /\ n = Len(file.units)
            /\ baseSequence = file.units[1].seq
            /\ lastSequence = ScanLast(file.units, n)
            /\ committedSequence =< ScanCommitted(file.units, n)

-----------------------------------------------------------------------------
(* The inductive invariant behind these properties.                        *)

\* A scan of u accepts n units, which are all of them but a last fragment.
Readable(u, n) ==
    /\ n \in 1..Len(u)
    /\ u[1].kind = "header"
    /\ \A i \in 2..n : Accepts(u, i)
    /\ n = Len(u) \/ (n = Len(u) - 1 /\ u[n + 1].kind = "fragment")

\* An image that holds what was acknowledged, in the part that is synced.
Sound(image) ==
    LET u == image.units
    IN  \/ acked = 0 /\ u \in {<< >>, <<Fragment>>}
        \/ \E n \in 1..Len(u) :
              /\ Readable(u, n)
              /\ u[1].seq =< floor
              /\ \A i \in 1..n : u[i].kind = "mutation" => u[i].mut = history[u[i].seq]
              /\ acked > 0 => \E c \in 1..n : /\ c =< image.synced
                                            /\ Commits(u, c)
                                            /\ acked =< u[c].seq

\* No image that a power loss may bring back is ahead of the file.
Behind(image) ==
    \A i \in 1..Len(image.units) : Numbers(image.units, i) =>
        \E j \in 1..Len(file.units) :
            Numbers(file.units, j) /\ image.units[i].seq =< file.units[j].seq

\* The fields of an open log, also while a fragment ends its file.
FieldsInv ==
    \E n \in 1..Len(file.units) :
        /\ Readable(file.units, n)
        /\ lastSequence = ScanLast(file.units, n)
        /\ committedSequence =< ScanCommitted(file.units, n)
        /\ fault = "no" => n = Len(file.units)

HeaderInv ==
    handle = "open" => /\ file.units # << >>
                       /\ file.units[1].kind = "header"
                       /\ file.units[1].seq = baseSequence

KeepsCheckpoint(image) ==
    checkpoint > 0 => /\ image.synced >= 1
                      /\ image.units # << >>
                      /\ image.units[1].seq >= checkpoint

\* Every image that a crash may leave is sound, and the fields match the file.
LogInv ==
    /\ HeaderInv
    /\ \A image \in {file} \union undo : KeepsCheckpoint(image)
    /\ fault # "damaged" =>
          /\ \A image \in {file} \union undo : Sound(image)
          /\ \A image \in undo : Behind(image)
          /\ handle = "open" => FieldsInv

\* Crashes and failed calls leave a log that the next Open accepts.  The one
\* exception is a header of which only a part reached the disk: Open reads it as a
\* corrupt log, although nothing was ever stored in it (log.go, initialize).
OpensAgain ==
    fault # "damaged" => \/ file.units = << >> \/ file.units = <<Fragment>>
                         \/ scanLog(file.units) # {}

=============================================================================
