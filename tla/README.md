# PrivateMesh: TLA+ specifications

PrivateMesh is a distributed search service written in Go.  A coordinator keeps
a registry of search nodes and fans a query out to those that hold the requested
collections; each search node keeps its documents in memory and in a write-ahead
log.  The packages `segment` and `replication` are libraries for immutable
segments and replicated writes; no process of the repository calls them yet,
but their tests and documentation state what they promise.

This directory holds TLA+ models of the parts that keep state or run
concurrently, the TLC configurations that check them, and TLAPS proofs about
each of them.  All paths below are relative to `src/internal/`.

## 1. Inventory

| Component | State | Operations | Interacts with |
|---|---|---|---|
| Write-ahead log, `wal/log.go` | a file; `baseSequence`, `lastSequence`, `committedSequence` | Open, Append, Commit, Replay, Truncate, Close | file system; called by the engine |
| Collection engine, `searchnode/engine.go` | documents map, lexical and vector index, offset | Open, Upsert, Delete, Search, Get, Close | log, indexes, embedder |
| Segment store, `segment/store.go`, `segment/codec.go` | a directory of segment files | NewStore, Publish, Documents, Compact | file system |
| Node registry, `registry/registry.go` behind `controlplane/service.go` | leases by node ID, a revision | Register, Heartbeat, Deregister, Nodes, Revision | search nodes by RPC; executor and API |
| Registration loop, `searchnode/runtime.go` | lease ID, ticker | maintainRegistration | registry by RPC |
| Query executor, `distributed/executor.go` | merge state, two channels, one goroutine per node | Execute | registry, search nodes, API |
| Coordinator API, `coordinator/api.go` | none of its own | search, document handlers | identity, registry, planner, executor |
| Planner, `planner/planner.go` | baselines of the strategies | Select, Snapshot, Record | API |
| RPC client, `rpcclient/client.go` | pool of connections | Search, document calls, Close | search nodes, identity |
| Replication, `replication/protocol.go`, `election.go` | the lease, each replica's log | Campaign, Renew, Validate, Write, CatchUp | replicas |
| Authorization, `authorization/policy.go` | policies by collection and document | SetCollectionPolicy, SetDocumentPolicy, Authorize, Filter | engine, audit sink |
| Search node service, `searchnode/service.go` | none | Search, GetDocument, UpsertDocument, DeleteDocument | engine, identity |
| Lexical index, `search/` | documents, postings, lengths, totals | Upsert, Delete, Search | engine |
| Vector index, `vector/` | vectors and a proximity graph | Upsert, Delete, Search | engine |
| Identity, `identity/` | cached signing keys | DiscoverProvider, PublicKey, Verify, Sign | OpenID provider; API, service |
| Process lifecycle, `searchnode/runtime.go`, `coordinator/runtime.go`, `httpserver/server.go` | goroutines, a channel of results, servers | Run | all of the above |

The rest (embedding, configuration, telemetry, generated messages) is input, output
or pure conversion; `PROJECT.json` lists every component.

What is hard in this code, and what makes each part correct:

* **Log.**  A write may stop half way, a sync may fail, the process or the
  machine may end between any two writes, and a rename is durable only after a
  sync of the directory.  Correct: a committed mutation is replayed, unchanged
  and under its own number, after any of these; what Truncate dropped stays
  dropped.
* **Engine.**  A write is three steps (append, commit, index), and Close, an
  error or a crash may fall between them.  Correct: what is served is what was
  acknowledged or a later write whose outcome is unknown.
* **Segment store.**  Publish and Compact are sequences of file-system calls.
  Correct: readers never notice a compaction, and a crash in it neither loses a
  batch nor revives a deleted document.  What was written has to be readable, too.
* **Registry and its clients.**  Calls time out and arrive late, handlers read
  the clock before the lock, either side restarts.  Correct: a healthy node keeps
  its place, and after faults the list becomes right.
* **Executor.**  Goroutines, two channels and a context race.  Correct: the
  answer accounts for every shard, does not depend on the order of arrival, and
  nothing blocks or leaks.
* **Planner.**  A choice by estimates, with a fallback.  Correct: more time or more
  capacity is never answered with a worse choice.
* **Authorization and service.**  Two policies are read at two times for each of
  many candidates, an audit record may fail in between, and writes wait for the
  engine's lock.  Correct: nothing is disclosed that was not allowed and recorded,
  nothing is withheld that was allowed throughout, and nobody is left waiting.
* **Indexes.**  Totals and links are changed by differences, and a write may fail
  between the two indexes.  Correct: they are those of the documents there are,
  whatever was stored before.
* **Identity.**  Keys are cached and fetched under a mutex, and the clocks of two
  machines meet whole seconds in a token.  Correct: a withdrawn key is used for a
  bounded time, a good token is not refused, every request is answered.
* **Lifecycle.**  Goroutines report to a channel that is read once.  Correct: none
  waits for ever, calls are drained before the engine closes, the process ends.
* **Replication.**  Leaders change in the middle of writes, and each call on a
  replica may fail.  Correct: replicas agree on what is committed.

`PROJECT.json` lists these as hazards, each at its line, with the properties
about it.

## 2. Modules

| Module | Models | Extends |
|---|---|---|
| `WriteAheadLog` | the log and the file system under it | |
| `DurableCollection` | abstract: what a collection promises its clients | |
| `CollectionEngine` | the engine on top of the log; implements `DurableCollection` | `WriteAheadLog` |
| `SegmentStore` | the segment store and its directory | |
| `CollectionEngineProofs` | the theorems about the log, the engine and the refinement | `CollectionEngine` |
| `SearchProofs` | the theorems about the executor, the planner and the indexes | `QueryExecutor`, `HybridIndex` |
| `SegmentStoreProofs`, `NodeRegistryProofs`, `AccessControlProofs`, `IdentityProofs`, `LifecycleProofs`, `ReplicationProofs` | the theorems about a component | the module of that name |
| `NodeRegistry` | registry, control-plane service, registration loop, network, clock | |
| `Planner` | the choice of a retrieval strategy | |
| `QueryExecutor` | search handler, executor, goroutines and node calls of one request | `Planner` |
| `AccessControl` | handlers of a search node, engine lock, policies, audit | |
| `HybridIndex` | lexical index, vector index with its graph, fusion | |
| `Identity` | provider, key cache, tokens of coordinator and node | |
| `Lifecycle` | start, servers, signal and end of a process | |
| `Replication` | election, Primary, CatchUp, replicas | |
| `MC...` | constants, symmetry and constraints of the TLC runs | the module of that name |

Operators behind a comment `\* Mutant:` are plausible mistakes in the
operator that follows them.  No specification uses them; substituting one for
the original makes the property named in `PROJECT.json` fail, which shows that
the property depends on that code.

### WriteAheadLog

A file is a sequence of units: a header with the base sequence, mutation records,
commit records, and at most the rest of a write that stopped half way
(`Fragment`).  `synced` is the length of the part that an fsync covered.  `undo`
holds the images that a power loss may bring back because the directory was not
synced after a rename.  The methods of `Log` hold `l.mu`, so each is one action
(`LogAppend` = Append, and so on); each failure half way is an action of its own
(`LogAppendFails`, ...), and a process that dies inside a call is that failure
followed by `Kill` or `PowerLoss`.  `scanLog` keeps the control of the code: it
accepts a header, contiguous mutation numbers and commit numbers that do not
fall, stops at an incomplete last record and refuses the rest.  What a scan finds
behind a fragment is a nondeterministic choice, as it depends on bytes.

The history variables record what callers were told: `acked`, the largest
committed sequence; `history`, the mutation of each number; `floor` and
`checkpoint`, the checkpoints given to and acknowledged by Truncate; and `fault`,
which becomes `"damaged"` when the process goes on to write behind its own
fragment, or behind a larger commit record whose sync failed.  These are the two
cases in which the code does lose acknowledged writes (section 4).

### CollectionEngine and DurableCollection

`writer` is the write that holds `e.mu`, at `"appended"` or `"committed"`.  Upsert
and Delete begin with `LogAppend`, go on with `Commit` and end with `Apply`; each
may fail.  `Close` does not take `e.mu` in the code and is enabled between them.
`documents` is the map that Get answers from, the last that `applyDocument` changes;
`HybridIndex` has the indexes.  Behind the commit a write fails when the context is
cancelled during the embedding, or when the vector index refuses the vector
(`ApplyFails`).  The latter is the case of `Directionless` bodies: the hash embedder adds
and subtracts features, a text whose features cancel each other has the zero vector, and
`normalize` refuses that.  Such a body can never be applied, so `Apply` excludes it and
`Open` needs a log without it (`Recoverable`).  An Open that fails behind `wal.Open`
leaves its log open for a moment (`OpenRefused`) and closes it (`OpenGivesUp`).

`DurableCollection` has four actions: Submit, Acknowledge, Start and Stop.  A
start shows, for each document, the last acknowledged value or one of a later
write that got no answer.  The refinement maps `view` to the bodies of
`documents`.

### SegmentStore

A directory maps generations to records: `segments` is the one the process sees, and
`images` holds those that a power loss may leave.  Publish and Compact are sequences:
`Begin` (create, write and sync the temporary file), `Renames`, `PublishSyncs`,
and for Compact `Removes` per old segment and `CompactSyncs`.  Errors between the
steps are `PublishFails` and `CallFails`.  `OrderedDirectory` says whether a
power loss keeps a prefix of the directory updates or any subset.  A segment file
under its final name is whole, as it was synced before the rename and carries a
checksum.

Whole is not readable.  `writeSegment` refuses generation zero, and the encoder limits
only the size of the payload, which is one of the errors of `PublishFails`; the decoder
(`decodePayload`) also refuses strings of more than 16 MiB (`TooLong` has the IDs and
values with one) and more than ten million records (`MaxRecordCount`).  Every method first
reads all the segments, so one that is refused makes it fail: `Listed` is the guard of
`Begin`, and `Answer` is what Documents returns, which is nothing then.

### NodeRegistry

Time is discrete and relative.  A request is on its way (`lag = -1`), then in its
handler, which has read the clock `lag` ago and waits for `r.mu` (`Execute`).
When a caller gives up, its request is lost or becomes `late` and may still be
handled.  The client follows `maintainRegistration`: register, then on each tick
of the interval a heartbeat, or a registration if it has no lease; `NotFound` and
`PermissionDenied` cause a new registration at once, other errors wait for the
next tick; a shutdown releases the lease, in a call that may take as long as the others here
and 2 s in the code.  `calm` ends faults, starts and stops,
and `valid` is the set of leases not yet replaced, released or forgotten.

### QueryExecutor

`Refuse` and `Plan` are what `search` does before it calls the executor: the checks
of the input, the look at the registry and `selectMode`.  The executor looks at the
registry again (`Execute`).  Each node has a goroutine, whose call of
`rpcclient.Search` is a stream: `Recv` is a message, whose hits replace those before;
`Respond` is the end of the stream, `RespondError` any error before that, and
`GiveUp` the end of the context.  The executor's select is `Receive` or `Stop`, and
the handler reads updates until the channel is closed.  `merge`, `Ranked` and
`shardIDs` are the functions of `executor.go`; scores are `1/(60 + position)` in units
that keep sums exact.

`Planner` has no state: the tracker's baselines are the priors of `defaultPlanner`,
as nothing in the program calls `Record`.  Qualities and latencies are cross-multiplied
integers, so comparisons are those of the real numbers.

### AccessControl

One handler runs one call of `service.go` at a time: checks (`Call`, `Refuse`),
`e.mu` (`RLock`, `Write`, with the preference of Go's RWMutex for a waiting writer),
the ranking or the lookup (`Retrieve`), and then for each candidate the two reads of
the policy store (`ReadCollectionPolicy`, `ReadDocumentPolicy`) and the audit record
with the use of the decision (`Authorize`, `AuditFails`).  Policies change between any
two steps.  `Filter` is the same loop without the engine.  The history variable
`grants` collects, for the call a handler is in, the values that each half of the
decision had since the call began; `audited` what was recorded as allowed.

There is one map of documents here.  In the code the lexical index may rank by a text
that the vector index refused; a candidate that is not in the map is skipped then, and
one that is there is returned as the map has it, ranked by the refused text.
`HitsAreWhatMatched` is about writes between ranking and copying, not about this.

### HybridIndex

A write changes the documents map and both indexes in one step, under `e.mu`;
searches are operators on a state.  An upsert fails before it changes anything, when the
embedder does (`UpsertFails`), or behind the lexical index, when the vector is zero
(`UpsertRefused`): the lexical index has the new text from then on, the vector index and
the map what they had.  A query whose vector is zero is answered in no mode (`Answered`).
The lexical index keeps all its fields, so that
`deleteLocked` can forget one.  The graph is that of `hnsw.go`: levels, greedy descent,
the breadth-limited search of a layer, connection and pruning; `HNSWIndex` rebuilds it
in the order of the IDs on every write.  Points on a half circle stand for vectors,
the score of a term is a parameter, and an ID's level, a hash in the code, is a
parameter too.  Each loop of the code is a recursive function: of the rounds done
(`Descend`, `VisitAll`, `ConnectAll`, `rebuildHNSW`), or of the place the loop has come
to (`greedySearch`, `Explore`), so that the proofs can reason about it.  A sorted list
has at each index the element with that many before it (`Sorted`).

### Identity

Requests verify a token of the provider, sign one of the coordinator's and have a node
verify it, on a clock that may differ (`Drifts`).  `PublicKey` holds its mutex during a
fetch, which has two moments: the provider answers (`Serve`) and the answer arrives
(`Receive`).  The provider publishes and withdraws keys at any time.  A second has two
ticks, so that the whole seconds of claims lose something.

### Lifecycle

`main` is where `Run` is, of a coordinator or of a search node; a goroutine per server
and one for the registration end with `Send`.  `GracefulStop` drains; the coordinator
gives it five seconds, a search node does not.  The deferred calls are `Close`, and
`Exit` cuts whatever is still under way.

### Replication

Every call on a replica is a step.  The replicas are those of
`replication_test.go`, the only implementation of the interface.  `Faults` names
the faults that an instance allows and the variable `faults` those that happened;
an ordinary refused call is not one of them.  A node has one Primary at a time; the code
lets a second be made during a Write of the first, and two Writes at once are a fault
that the runs exclude (`overtaken`).

## 3. Runs

| Run | Instance | Distinct states | Shows |
|---|---|---|---|
| `log` | 2 mutations, sequences to 3, files of 5 units, 1 undone rename | 475,407 | the log's guarantees and `LogInv` |
| `engine` | 2 documents, 2 bodies, one of them without a vector, 3 mutations, files of 7 units | 1,303,687 | `ImplementsCollection` |
| `segments` | 3 documents, 2 records in a readable segment, 4 generations, compaction to 1 segment | 408,638 | crashes in Publish and Compact, unreadable segments |
| `registry` | 1 process; 15 s, 4 s, 3 s; a stall of 1 s; 1 late request | 1,717,262 | a node survives two failed heartbeats |
| `registry_takeover` | 2 processes under one ID; 4, 2, 1 | 582,414 | the list becomes right |
| `query` | 3 nodes (2 ready for vectors), 2 collections with copies, 2 hits, limit 1, 30 combinations of mode, timeout and features | 100,724 | the answer, the plan, and that requests end |
| `replication` | 3 replicas, 2 terms, 3 writes | 708,884 | agreement up to the first fault |
| `access` | 2 handlers, 2 documents, 2 principals, 1 policy change | 139,831 | disclosure, audit and the engine's lock |
| `identity` | 2 requests, 2 keys, 2 ticks a second, time to 4 | 307,563 | key rotation, tokens on two clocks |
| `lifecycle` | both programs, 2 calls, 2 HTTP requests | 27,864 | start, drain and end |
| `retrieval` | 4 documents, 5 contents, one of them without a vector, 2 connections a node | 10,000 | indexes, graph and fusion |
| `log_torn_record` | as `log` | | section 4 |

Properties, by run:

* `log`: `LogTypeOK`; `AckedDurable`, a committed mutation is replayed;
  `ReplayIsHistory`, under its own number; `NoSequenceReuse`, whose number is never
  given away; `TruncatedStaysGone`; `OpensAgain`, a crash leaves a log that the next
  Open accepts; `LogInv`, the inductive invariant, which has the agreement of memory and
  file.
* `engine`: `ImplementsCollection`, the refinement of `DurableCollection`.
* `segments`: `TypeOK`, no segment of generation zero is written, at the wrap of
  generations either; `DocumentsAreLatest`, what Documents returns, now or after a power
  loss, is every acknowledged batch and some whole unacknowledged ones;
  `OnlyPublishChangesDocuments`: of a compaction, only one that merges more records than
  the decoder allows is noticed.
* `registry`: `LeaseOutlivesMisses`, with the code's own times; `RevisionShowsChange`,
  any change of the list shows in the revision.
* `registry_takeover`: `ListBecomesRight` (liveness).
* `query`: `ChannelsHaveRoom`, no send ever blocks; `AnswerCoversSelection`, every shard
  is searched or unavailable, and a broken stream is unavailable; `PlanImproves`, more
  time or capacity gives no worse mode; `ResultsAreOrderFree`, the merge against a
  definition that does not know the order; `EveryRequestEnds` (liveness).
* `replication`: `OneLeaderPerTerm`; `CommittedAgree`; `AckedOnMajority`;
  `RefusedNotCommitted`; `CommittedIsKept`.
* `access`: `AnswersWereAllowed`, each half of the decision on a disclosed document was
  positive at some time of the call; `NothingWithheld`, a candidate allowed throughout
  is there unless the answer is full of better ones; `AnswersAreAudited`;
  `HitsAreWhatMatched`, no write between ranking and copy; `EveryCallEnds` (liveness).
  That the two halves were positive at one time does not hold: a change between the two
  reads combines an old policy with a new one.
* `identity`: `KeysAreFresh`, a withdrawn key is used no longer than the life of the
  cache; `RefusedForACause`, a new key works at once and a failed fetch takes none away;
  `TokenLivesAsSigned`, a node accepts a token neither too long nor too short;
  `EveryRequestEnds` (liveness).
* `lifecycle`: `SendsNeverWait`; `CallsAreAnswered`, after a signal calls under way are
  drained while the engine is open; `ProcessEnds` (liveness).
* `retrieval`: `IndexIsOfTheDocuments`, the vector index is a function of the map of
  documents, the lexical index of its own documents, and these are those of the map but
  for documents that the vector index refused; `GraphIsSound`; `SmallGraphIsExact`, the
  graph against the exact index; `FusionKeepsAgreement`.

`TypeOK` of the other modules documents the sets the variables are in, and is where
proofs about them start.  It holds on the instances above and is left out of the
runs, which are about more.

Why the bounds are enough.  `log`: three sequence numbers and five units allow a
truncation with records on both sides of it, a commit that fails and one that succeeds
behind it, and the last sequence number; one undone rename is what a Truncate leaves,
and a second one before a sync only adds an older image. `engine`: three mutations of
two documents give an unacknowledged write between two acknowledged ones, and one that
cannot be applied before one that can.  `segments`: four generations give two batches
and two compactions, or three batches and one, and the wrap of the last generation; with
two records in a readable segment, three documents are too many for a batch and for a
merged segment, and for what follows it makes no difference whether the decoder refuses
a count or a long string.  A batch of several records has no deletion among them there
(`PlainBatches`), which keeps the run short; the proofs have no such bound. `registry`:
the times of the code in seconds, so that the margin is the real one; the registry drops
nothing but by time, so one process suffices for its lease, and late requests of its own
are more dangerous to it than those of others.  The liveness run scales the times down
to keep two processes within reach.  `query`: three nodes with overlapping collections
have copies, ties and different orders; a limit of one cuts.  `replication`: three
replicas are the smallest majority that can miss one; three writes give a refused one
between two others.  The run stops at states after a fault, as its properties say
nothing about them.  `access`: two handlers are a reader and a writer that wait for each
other, or two readers and a policy change; two documents and limits of one and two give
an answer that is full and one that is not; one change separates the two reads of a
decision, and a second would only restore what was.  `identity`: two keys are an old and
a new one; the time covers the life of a cache and of a token with the skew.
`lifecycle`: two calls are one that ends before the drain and one that does not.
`retrieval`: with two connections a node, four documents are the first number at which a
list is pruned; one node is two levels up and one a level.

`LeaseIds`, `MaxLate`, `MaxStall`, `MaxTerm`, `MaxWrites`, `MaxHits`, `MaxUnits`
and `MaxUndo` are bounds of the instances, `MaxSequence`, `MaxGeneration` and
`RevisionLimit` stand for the width of the code's integers.

`MaxTime` and `MaxChanges` bound `identity` and `access`.

Deadlock is checked except in `query`, where the request ends, and in `identity`, where
the clock does.

### Fairness

`NodeRegistry`: time passes; a process that can go on does; every call ends (the
client gives it a timeout); the coordinator handles a request that reaches it.
The ticker of Go and the deadline of each gRPC call justify this.  Restarts,
losses and shutdowns have no fairness and end with `calm`.

`QueryExecutor`: the context of a request ends (the handler passes a positive timeout, and
`Execute` wraps the context in it), a
search returns once its context ended (gRPC does), and goroutines that can go on
do.  No fairness is assumed of the answers.

`AccessControl`: a handler that can go on does; callers and policy changes have no
fairness.  `Identity`: the same, and strong fairness for the mutex, as Go's
`sync.Mutex` lets no waiter starve; a fetch ends, if only by the timeout of its client
or of its request.  `Lifecycle`: goroutines are scheduled, gRPC handlers end, servers
return when they are stopped; failures, the signal and HTTP requests have no fairness.

## 4. Where code and documentation disagree

One run expects a violation, `log_torn_record`, a finding in `PROJECT.json`: after a
write that failed half way (a full disk, say), later appends and commits land behind
the fragment, succeed, and are lost at the next Open.

Met while modelling, reached by the models and not kept as runs.  The first two are
violations of `DocumentsReturns` and `LogIsRecovered`, which TLC finds within seconds as
invariants of `MCSegmentStore.cfg` and `MCCollectionEngine.cfg`:

* `segment/store.go:70`, "Documents returns the latest visible version of every stored
  document": a Publish of a document with a string of more than 16 MiB succeeds, and so
  does a Compact that merges more than ten million documents; the decoder
  (`segment/codec.go:206` and `378`) refuses the segment, and every later Documents,
  Publish and Compact returns an error.
* `searchnode/engine.go:73`, "Open recovers a collection from its write-ahead log": a
  document whose vector is zero is committed before the vector index refuses it
  (`engine.go:313`).  Its client gets an error, but every later Open applies it again and
  fails, also when a later write has replaced it.
* `wal/log.go:59`, "Open creates or recovers a write-ahead log at path": a crash while
  the header of a new log is written leaves a file that every later Open refuses.
  `OpensAgain` names this as the one exception.
* `searchnode/engine.go:131`, "Upsert durably adds or replaces a document": the log has
  no media type, and after a restart every document is `text/plain; charset=utf-8`.
* `docs/architecture.md:31`, "The final response lists both searched and unavailable
  collections": a requested collection that has no node at the executor's look at the
  registry is on neither list.
* `replication/election.go:21`, "monotonically fenced leadership": Append, Commit and
  Rollback carry no term, so an unfinished Write of a former leader leaves an entry
  that its successor commits on one replica only.
* `searchnode/engine.go:313`: an upsert that the vector index refuses has changed the
  lexical index, so until the next write of that ID or the end of the process a search
  ranks by a text that the client was told had failed.  The hits show the stored
  document, or leave it out if there is none.
* `vector/hnsw_index.go:11`, "Implementations must make a successful Upsert visible to
  subsequent Search calls": `prune` drops the link back to a new node when its
  neighbors have closer ones, and with more than `MaxConnections + 1` documents the new
  one may have no link that leads to it (four equal vectors and two connections; the
  same with 18 near-duplicates and the 16 connections of the code).  Hybrid search
  still finds it by its terms.
* `httpserver/server.go:82`, "Run serves requests until the context is canceled, then
  performs a graceful shutdown": the process ends with the first result after the
  signal, which is usually that of the gRPC server, and cuts off HTTP requests that
  Shutdown would have waited for, and the release of the lease.
* `identity/oidc.go`: an issuer that ends in "/" passes discovery, as both sides are
  trimmed, and then every token is refused, as the verifier compares the trimmed name
  with the claim.
* The mode of a search is chosen for the nodes at the first look at the registry and
  sent to those at the second.
* A `Commit(2)` whose sync fails followed by a successful `Commit(1)` writes a
  smaller commit record behind a larger one, and `scanLog` refuses the file.  The
  engine never does this; a direct user of the log can.
* After a failed write, the live index and what a restart would rebuild differ
  until the restart, and `Engine.Offset` may be smaller than the committed
  sequence.  `DurableCollection` permits this: the caller got an error.
* A restart serves mutations whose commit record was read back but never synced;
  a power loss may take them away.  They were never acknowledged.
* With `OrderedDirectory = FALSE`, a power loss during Compact can keep an old
  segment with a document and lose the newer one with its deletion:
  `DocumentsAreLatest` fails.
* A heartbeat that read the clock before another one and got the lock after it
  shortens the lease, by at most the stall.
* Replication: which faults break which property, with three writes
  (x = broken):

  | fault | agree | acked on majority | refused stays out | committed is kept |
  |---|---|---|---|---|
  | lostAck: a peer appended, its answer was lost | x | x | x | x |
  | rollback: a Rollback did not arrive | x | x | x | x |
  | commit: the primary's own Commit failed | | | | |
  | crash: the primary ended inside a Write | x | x | not settled | x |
  | catchUp: CatchUp failed behind its rollback | x | x | | x |
  | lagging: CatchUp from a replica that is behind | x | x | | |
  | overlap: CatchUp beside a Write | x | x | not settled | x |
  | overtaken: a new leader writes during an old Write | x | x | x | x |

  Replicas compare offsets only, so a single entry left behind lines up with a
  later entry of another write.  This is why the properties of `replication` are
  about behaviours without faults.

## 5. Proofs

TLAPS checks the theorems below for every value of the constants.  Each component's
proof has the same shape: an inductive invariant, one lemma per action that keeps it,
and a theorem per property that follows.  The invariants were first checked by TLC on
the instances of section 3 (of `IndexInv`, which quantifies over all levels, what
`IndexIsOfTheDocuments` and `GraphIsSound` say).  The only hypotheses, besides those the
table names, are the named assumptions of the modules, which say that constants have the
types the code gives them, that the sets of nodes and documents are finite, and that
marker values differ from real ones.

| Theorem | Statement | Of |
|---|---|---|
| `LogTypeCorrect` | `LogSpec => []LogTypeOK` | `WriteAheadLog` |
| `LogInvariant` | `LogSpec => []LogInv` | |
| `CommitIsDurable` | `LogSpec => []AckedDurable` | |
| `ReplayIsFaithful` | `LogSpec => []ReplayIsHistory` | |
| `CheckpointIsKept` | `LogSpec => []TruncatedStaysGone` | |
| `CrashedLogOpens` | `LogSpec => []OpensAgain` | |
| `FieldsAgree` | `LogSpec => []FieldsMatchFile` (in no run) | |
| `SequenceIsNotReused` | `LogSpec => NoSequenceReuse` | |
| `EngineTypeCorrect` | `Spec => []TypeOK` | `CollectionEngine` |
| `EngineInvariant` | `Spec => [](LogInv /\ EngineInv)` | |
| `EngineKeepsLog` | `Spec => LogSpec` | |
| `EngineServesCollection` | `Spec =>` the first state, and every step from an undamaged log, are those of `DurableCollection` | |
| `EngineIsDurable` | `Spec /\ [](fault # "damaged") => ImplementsCollection` | |
| `SegmentTypes` | `Spec => []TypeOK` | `SegmentStore` |
| `LatestDocuments` | `OrderedDirectory => (Spec => []DocumentsAreLatest)` | |
| `OnlyPublishChanges` | `OrderedDirectory => (Spec => OnlyPublishChangesDocuments)` | |
| `WithinLimits` | `Spec => []DocumentsReturns`, if `TooLong = {}` and there are at most `MaxRecordCount` IDs | |
| `RegistryInvariant` | `Spec => []RegistryInv` | `NodeRegistry` |
| `LeaseOutlives` | `Spec => []LeaseOutlivesMisses`, if `TTL >= (Tolerated + 1) * Interval + Timeout` and `MaxStall < Timeout` | |
| `ChangeShows` | `Spec => RevisionShowsChange`, if `Cardinality(NodeIds) + 1 < RevisionLimit` | |
| `OneLeader` | `Spec => []OneLeaderPerTerm` | `Replication` |
| `ReplicationInvariant` | `Spec => []ReplicationInv` | |
| `ReplicasAgree` | `Spec => []CommittedAgree` | |
| `AcknowledgedIsOnMajority` | `Spec => []AckedOnMajority` | |
| `RefusedIsNotCommitted` | `Spec => []RefusedNotCommitted` | |
| `CommitsStay` | `Spec => CommittedIsKept` | |
| `QueryInvariant` | `Spec => []QueryInv` | `QueryExecutor` |
| `ChannelRoom` | `Spec => []ChannelsHaveRoom` | |
| `AnswerCovers` | `Spec => []AnswerCoversSelection` | |
| `MergeInvariant` | `Spec => []MergeInv` | |
| `ResultsOrderFree` | `Spec => []ResultsAreOrderFree` | |
| `PlanOnlyImproves` | `Spec => []PlanImproves` | |
| `IndexInvariant` | `IndexSpec => []IndexInv` | `HybridIndex` |
| `IndexMatchesDocuments` | `IndexSpec => []IndexIsOfTheDocuments` | |
| `GraphStaysSound` | `IndexSpec => []GraphIsSound` | |
| `SmallGraphExact` | `IndexSpec => []SmallGraphIsExact`, if `EFSearch >= 2` | |
| `FusionKeeps` | `IndexSpec => []FusionKeepsAgreement`, if there are at most 1000 IDs and the score of a term is a natural number | |
| `AccessInvariant` | `Spec => []AccessInv` | `AccessControl` |
| `AnswersAllowed` | `Spec => []AnswersWereAllowed` | |
| `AnswersAudited` | `Spec => []AnswersAreAudited` | |
| `HitsMatched` | `Spec => []HitsAreWhatMatched` | |
| `CandidatesKept` | `Spec => []NothingWithheld` | |
| `IdentityInvariant` | `Spec => []IdentityInv` | `Identity` |
| `FreshKeys` | `Spec => KeysAreFresh` | |
| `CauseOfRefusal` | `Spec => RefusedForACause` | |
| `TokensLive` | `Spec => TokenLivesAsSigned` | |
| `LifecycleInvariant` | `Spec => []LifecycleInv` | `Lifecycle` |
| `SendersNeverWait` | `Spec => []SendsNeverWait` | |
| `SignalDrainsCalls` | `Spec => []CallsAreAnswered` | |

### The log

`AckedDurable` is not inductive: it speaks of the file as it is now, while a power
loss replaces it by a prefix or by an older image.  `LogInv` therefore says of
*every* image a crash may leave (`Sound`): a scan accepts it but for a last
fragment, its mutations are those of `history`, its base is at most `floor`, and a
commit record that covers `acked` lies in its *synced* part, where no power loss
reaches it.  To keep this through an Append it also needs that no older image is
ahead of the file (`Behind`), or a number could be given to a second mutation
while an image with the first may come back, and that the fields of an open log
match its file (`FieldsInv`, `HeaderInv`).  `KeepsCheckpoint` is the corresponding
statement for Truncate.

The facts about files come first: numbers in an accepted file increase
and are contiguous, a scan has one result, an accepted file stays accepted under a
further record, a cut (`SoundSurvives`) and a rewrite (`RewrittenAccepted`).
One lemma per action follows, and `LogInvNext` combines them.

### The collection engine

What a restart shows is computed from the log, while `DurableCollection` speaks of
what clients were told.  `EngineInv` connects the two: for each document there is an
acknowledged number (or zero, for none) under which the log has the acknowledged
value, and every record of the document behind it is a write whose outcome no client
knows (`Explained`).  The write under way is the last record of the log and its value
is among the unknown ones (`WriterInv`), so a crash at any point, and a Commit that
covers an earlier failed write, keep this.  Two facts of the log carry the crash
steps: a power loss keeps a prefix that has everything acknowledged (`LogInv`), and
the records of an accepted file have increasing numbers, so the last one of a
document decides what Replay leaves of it (`Recovered`).  `EngineServesCollection`
is then one lemma per action.  It includes the step that damages the log; what
follows that step is the finding of section 4.  `EngineKeepsLog` makes the theorems about the log
theorems about the engine's log.

### The segment store

`DocumentsAreLatest` speaks of what Documents returns, if it does; `LatestInv` says the
same of the records of every image a power loss may leave, readable or not.  The
strengthening `StoreInv` adds the call that is under way: between the rename and the
last removal of a Compact, the new segment is newer than all the others, and what it
does not name is deleted in them (`Covered`).  Removals go from the oldest on, so no
record comes to light that a deletion hid, here and in every image.  The argument needs
the order of the directory updates: without it an image may lack a deletion and have the
older record it deleted.  The theorems have `OrderedDirectory` as their hypothesis for
that reason; `SegmentTypes` does not need it.

For `OnlyPublishChanges` a second invariant, `ReadableInv`, is needed: a step that takes
a segment away must not make readable what was not.  Compact begins when all the
segments are readable, so those that it removes are, and a power loss that goes back to
an older image finds one that was readable if the directory is.  `WithinLimits` says
that the limits on strings and records, as modelled, are the only causes of the finding
of section 4.

### The registry

`LeaseOutlivesMisses` bounds a lease by the phases of the client's loop.  `Spent` is the
longest time that can have passed since the call that renewed the lease *began*: whole
intervals for the misses, less what the ticker still waits, plus the age of a call
under way.  `RegistryInv` says that a process whose lease is not replaced and that has
not used up its time is listed under it, with at least `TTL - MaxStall - Spent` left
(`Backs`): the handler of a renewal may have read the clock `MaxStall` before it took
the lock and put its older reading over a newer one.  It also needs that a request
somebody waits for is the only one of that call (`Awaits`), so that a late request
renews nothing but its own lease, and that few requests are late (`Few`), so that a
fresh lease ID is one nobody holds.  The hypothesis of `LeaseOutlives` holds with equality
for the code's 15, 4 and 3 seconds and two misses: an interval more would not fit.

`ChangeShows` counts: one step adds to the revision at most one for each expired
node and one for the request, so it cannot come round to the same value.

### Replication

The election needs only that the latest term belongs to the current node
(`ElectionInv`), so `OneLeader` holds with every fault.

The rest holds until the first fault (section 4 shows what each fault breaks).  A
replica's log may end with the entry of a Write that is not decided; `settled` is the
length without it.  `LogInv` says that settled entries are the same on all replicas
(`Agreed`), are on a majority if the target of a running CatchUp is counted in
(`Backed`), are committed somewhere and contain all that is committed (`Committal`),
were not refused (`Unrefused`), and include all that was acknowledged (`Recorded`).
`WriteInv` and `CatchUpInv` say where a running call is, and `Exclusive` that there is
one at a time.  The central lemma, `QuorumIsFirst`, is about the moment a Write has
its majority: two majorities meet, a replica that acknowledged was exactly as long as
the entry's offset requires, so nobody has settled anything there.

### The executor and the planner

`QueryInv` follows each selected node through its goroutine, the channel of answers and
the merge: it is in one of them, once (`Goroutines`, `Answers`, `Accounted`), so the
channels need no more room than they have (`Counted`, for any number of nodes), and when
Execute returns nothing is left out (`Concluded`).  `MergeInv` says that the state of
the merge is a function of the *set* of answers received: the sum of the scores over the
nodes that have a document, and the smallest such node.  Sums and sorted sequences are
those of the community modules (`FoldSet`, `SetToSeqs`); the library's induction
theorems cannot be used, so each of their lemmas is proved by a smallest counterexample
among the finite subsets of a set (`AddsAnyOrder`: a sum does not depend on the order of
its terms).  `PlanImproves` compares the choice with the one for a longer timeout or
more nodes; its proof is a case analysis of `Select` with the baselines of
`defaultPlanner`, in exact arithmetic, for all timeouts and numbers of nodes.

### The indexes

`IndexInv` says that the lexical index is a function of its own documents
(`LexicalIs`), that the graph is sound and has the vectors of the map (`GraphOf`), and
that the two agree on every document whose text has a vector (`Agree`).  For the
first, taking a document away and adding one are shown to turn the postings, the
lengths and the totals of one map of documents into those of the other
(`DeletePostings`, `AddPostings`, `TotalsGrow`); that the totals are sums uses
`AddsAnyOrder` again.

The second follows a graph through its loops.  That a recursive function exists at all
is proved from a measure: the greedy walk moves to a node with fewer nodes before it,
and each expansion of a layer search takes a candidate away or visits a node
(`WalkExists`, `WalkEnds`).  While a node is being added it is on no list of the levels
that are not connected yet, so the search of such a level does not meet it
(`Linking`); afterwards every list names other nodes of its level, each once.  With at
most `MaxConnections + 1` nodes `prune` drops nothing, so a level is a complete graph
(`Complete`).  There the first expansion of a search sees every node, and what it keeps
are the nearest ones (`Top`): the answer is a beginning of the exact one.  The hypothesis
`EFSearch >= 2` is needed for that: a search that keeps one node has as many as
it may keep when it starts, and stops at its entry.  The code allows one, and uses
forty.

For the fusion, both rankings are shown to have each ID once (`WordsRanked`,
`NearRanked`), and `RankScore` to fall with the position (`RankScoreFalls`).  It is a
whole number here, and up to position 1000 the quotients differ; hence the bound.
That scores of terms are numbers makes the lexical order a total one; in the code
they are products of logarithms and ratios that are never negative.

### Authorization and the search node

`HitsAreWhatMatched` needs that a reader holds the lock from the ranking to the end and
that its snapshot is still the map (`Locked`); `AnswersWereAllowed` needs that the
values both halves of the decision have now are among those they have had during the
call, and that a decision half made is from these values (`GrantInv`).
`NothingWithheld` is about candidates that are *not* in the answer: `WithheldInv` says
that each candidate before the next one was denied some time or is a hit.

### Identity

The cached keys are those the provider published at some moment after `loaded.start`,
the time that PublicKey read before it asked, and expire `CacheTTL` after that
(`CacheInv`); the request that holds the mutex is the one that asks (`MutexInv`), it
asks for a key that the cache could not provide, and what it brings was published since
(`LookupInv`).  `TokensLive` is
arithmetic on whole seconds, for every length of a second in ticks and every drift.

### Lifecycle

Each goroutine sends once (`SentInv`); what has ended the wait of Run decides where
Run can be (`CauseInv`) and that calls have been drained (`DrainInv`).

### Checked by TLC only

* Liveness (`ListBecomesRight`, `EveryRequestEnds`, `EveryCallEnds`, `ProcessEnds`):
  liveness under fairness is outside what the prover handles.

## 6. Abstractions and assumptions

* File system: a completed fsync of a file also makes its directory entry durable; a
  power loss keeps a prefix of what was not synced, cut anywhere, with no holes; a
  failed fsync may be tried again.
* Log: records are whole or fragments; checksums detect what they should.  A cancelled
  Replay leaves the file offset inside the file, but its caller closes the log, so there
  is no file offset in the model.  An Open that returns `ErrCorruptLog` changes nothing
  and is a stutter.
* Segment store: a batch with a duplicate ID is refused before it changes anything; a
  failing `os.Remove` of a temporary file after another error is left to the next
  NewStore, as a crash at that point is.
* Registry: the code draws lease IDs at random from 2^128; here there are more of them
  than nodes, late requests and two for each process, and a new one is any that nobody
  uses (`RegistryAssumption`).  Addresses, labels and the applied offset are left out.
  Two late requests with the same content are one, as they have the same effect.
* Executor: floating-point sums are exact; the code's sums may differ in the last bit
  between orders of arrival.
* Segment store: the decoder also limits the number of terms of a segment, to five times
  that of records; a value with too many terms counts as one with too long a string
  (`TooLong`), and the sum over the documents of a segment is left out.
* Indexes: distances and scores are exact; the vector of a text is zero exactly or not
  at all (`IsZero`).  `IndexAssumption` has the conditions under which `NewHNSW` accepts
  its options.
* Planner: exact arithmetic; with up to three nodes no two qualities are equal, so
  rounding decides nothing.
* Access: rules and their lists are sets; a document too large for the service is
  refused as one for another collection is.
* Identity: tokens that fail before the lookup of their key, or whose signature is
  wrong, leave no trace and are left out; the provider does not reuse key IDs.
* Lifecycle: what start reads from the environment either is right or ends the start.
* Replication: one CatchUp at a time; time is whether the lease is live.

## 7. Not modelled, and the plan

Modelled: log, engine with its abstract specification, segment store,
registry with its clients, search handler with planner and node calls, executor,
replication, authorization and search node service, both indexes, identity, lifecycle.

Not modelled:

* the document handlers of the coordinator: each forwards one call to the first node
  that owns the collection, and keeps nothing;
* `Tracker.Record` of the planner: nothing but tests and the evaluation calls it;
* relevance formulas, similarities and recall (floating point, statistical), the
  tokenizer and the embedding (pure functions of text);
* cryptography, JSON, configuration, telemetry, routes, generated messages.
