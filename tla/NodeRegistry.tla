---------------------------- MODULE NodeRegistry ----------------------------
(***************************************************************************)
(* The registration of search nodes with the coordinator: the registry     *)
(* (internal/registry/registry.go) behind the control-plane service        *)
(* (internal/controlplane/service.go), and the loop that every search node *)
(* runs against it (maintainRegistration, internal/searchnode/runtime.go). *)
(*                                                                         *)
(* A call is a request that may arrive late, after its caller gave up, or  *)
(* never.  A handler reads the clock when the request arrives and takes    *)
(* r.mu later, at most MaxStall time units later.  The registry lives in   *)
(* memory: a restart of the coordinator empties it.  Two processes may run *)
(* under one node ID, for example while one replaces the other.            *)
(*                                                                         *)
(* Time is discrete and relative: a lease holds the time it has left, a    *)
(* call its age.  A tick waits for what a running process does at once.    *)
(* "calm" marks the end of faults, starts and stops, for the liveness      *)
(* property.                                                               *)
(***************************************************************************)
EXTENDS Integers, FiniteSets, FiniteSetsExt, Functions

CONSTANTS
    Processes,      \* search node processes
    Node(_),        \* the node ID of a process
    LeaseIds,       \* of randomLeaseID: numbers, so that one can be chosen
    TTL,            \* coordinator/runtime.go: 15 s
    Interval,       \* of the ticker: 4 s
    Timeout,        \* of a call: 3 s (of the release, 2 s in the code, as long here)
    MaxStall,       \* the longest time from r.now() to r.mu.Lock()
    MaxLate,        \* bound on the requests whose caller gave up
    RevisionLimit,  \* 2^64
    Tolerated       \* failed heartbeats in a row that a lease outlives

None == 0                   \* leaseID == ""
NodeIds == {Node(p) : p \in Processes}

\* There is a lease for every node, process and answer, and for every late request,
\* and one more.
ASSUME RegistryAssumption ==
    /\ IsFiniteSet(Processes) /\ IsFiniteSet(LeaseIds) /\ LeaseIds \subseteq Nat \ {0}
    /\ Cardinality(LeaseIds) > Cardinality(NodeIds) + 2 * Cardinality(Processes) + MaxLate
    /\ {TTL, Interval, Timeout, RevisionLimit} \subseteq Nat \ {0}
    /\ {MaxStall, MaxLate, Tolerated} \subseteq Nat
    /\ Timeout < Interval /\ Interval < TTL

VARIABLES
    nodes,      \* r.nodes: for some node IDs, the lease and the time it has left
    revision,   \* r.revision
    client,     \* the state of each process's loop
    requests,   \* requests on their way, or stalled in their handler
    calm,       \* no more faults
    valid       \* history: leases not replaced, released or lost with the coordinator

vars == <<nodes, revision, client, requests, calm, valid>>

-----------------------------------------------------------------------------
(* The registry.                                                           *)

\* A handler that read the clock lag time units ago.
Expired(id, lag) == nodes[id].left + lag =< 0

\* r.nodes after removeExpiredLocked, and how much it adds to r.revision.
removeExpiredLocked(lag) == Restrict(nodes, {id \in DOMAIN nodes : ~ Expired(id, lag)})
\* Mutant: expired nodes leave without a new revision.
RemovedUncounted(lag) == 0

Removed(lag) == Cardinality({id \in DOMAIN nodes : Expired(id, lag)})

Bump(n) == revision' = (revision + n) % RevisionLimit

Put(map, id, entry) == [i \in DOMAIN map \union {id} |-> IF i = id THEN entry ELSE map[i]]

Listed(id) == id \in DOMAIN nodes /\ ~ Expired(id, 0)

\* randomLeaseID: an ID that nothing refers to.
UsedLeases ==
    {nodes[id].lease : id \in DOMAIN nodes} \union {client[p].lease : p \in Processes}
    \union {r.lease : r \in requests}
    \union {client[p].reply.lease : p \in {q \in Processes : client[q].reply.code = "ok"}}
FreshLease == Min(LeaseIds \ UsedLeases)

Reply(code, lease) == [code |-> code, lease |-> lease]
NoReply == Reply("none", None)

\* What the caller of r learns, if it still waits.
Answer(r, reply) ==
    client' = IF r.late THEN client ELSE [client EXCEPT ![r.proc].reply = reply]
Register(r) ==
    LET id == Node(r.proc)
        lease == FreshLease
        kept == removeExpiredLocked(r.lag)
        old == {nodes[i].lease : i \in DOMAIN nodes \intersect {id}}
    IN  /\ nodes' = Put(kept, id, [lease |-> lease, left |-> TTL - r.lag])
        /\ Bump(Removed(r.lag) + 1)
        /\ valid' = ((valid \ old) \intersect UsedLeases) \union {lease}
        /\ Answer(r, Reply("ok", lease))

Heartbeat(r) ==
    LET id == Node(r.proc)
        kept == removeExpiredLocked(r.lag)
    IN  /\ Bump(Removed(r.lag))
        /\ UNCHANGED valid
        /\ IF id \notin DOMAIN kept
              THEN nodes' = kept /\ Answer(r, Reply("NotFound", None))
           ELSE IF kept[id].lease # r.lease
              THEN nodes' = kept /\ Answer(r, Reply("PermissionDenied", None))
           ELSE /\ nodes' = Put(kept, id, [lease |-> r.lease, left |-> TTL - r.lag])
                /\ Answer(r, Reply("ok", r.lease))

\* Mutant: any lease releases the node.
DeregisterUnchecked(r) ==
    LET id == Node(r.proc)
        kept == removeExpiredLocked(r.lag)
    IN  /\ nodes' = Restrict(kept, DOMAIN kept \ {id})
        /\ Bump(Removed(r.lag) + 1)
        /\ valid' = valid \ {r.lease}
        /\ Answer(r, Reply("ok", r.lease))

Deregister(r) ==
    LET id == Node(r.proc)
        kept == removeExpiredLocked(r.lag)
    IN  IF id \in DOMAIN kept /\ kept[id].lease = r.lease
            THEN /\ nodes' = Restrict(kept, DOMAIN kept \ {id})
                 /\ Bump(Removed(r.lag) + 1)
                 /\ valid' = valid \ {r.lease}
                 /\ Answer(r, Reply("ok", r.lease))
            ELSE /\ nodes' = kept
                 /\ Bump(Removed(r.lag))
                 /\ UNCHANGED valid
                 /\ Answer(r, Reply("refused", None))

\* A handler starts: it reads the clock.
Arrive(r) ==
    /\ r.lag < 0
    /\ requests' = (requests \ {r}) \union {[r EXCEPT !.lag = 0]}
    /\ UNCHANGED <<nodes, revision, client, calm, valid>>

\* It has r.mu.
Execute(r) ==
    /\ r.lag >= 0
    /\ \/ r.kind = "register" /\ Register(r)
       \/ r.kind = "heartbeat" /\ Heartbeat(r)
       \/ r.kind = "deregister" /\ Deregister(r)
    /\ requests' = requests \ {r}
    /\ UNCHANGED calm

\* Nodes and Revision, called by the coordinator's own API.
Nodes ==
    /\ nodes' = removeExpiredLocked(0)
    /\ Bump(Removed(0))
    /\ UNCHANGED <<client, requests, calm, valid>>

CoordinatorRestarts ==
    /\ ~ calm
    /\ nodes' = << >>
    /\ revision' = 0
    /\ requests' = {}
    /\ valid' = {}
    /\ UNCHANGED <<client, calm>>

-----------------------------------------------------------------------------
(* The loop of a search node.                                              *)

Down == [pc |-> "down", lease |-> None, age |-> 0, due |-> 0, fired |-> FALSE,
         misses |-> 0, reply |-> NoReply]

Calling(p) == client[p].pc \in {"register", "heartbeat", "deregister"}
Running(p) == client[p].pc \in {"register", "heartbeat", "waiting"}

Request(p, kind, lease) == [kind |-> kind, proc |-> p, lease |-> lease, lag |-> -1, late |-> FALSE]

\* The next call of p, in a state c of its loop.
Call(p, c, kind) ==
    /\ client' = [client EXCEPT ![p] = [c EXCEPT !.pc = kind, !.age = 0, !.reply = NoReply]]
    /\ requests' = requests \union {Request(p, kind, c.lease)}

Waits(p, c) ==
    /\ client' = [client EXCEPT ![p] = [c EXCEPT !.pc = "waiting", !.age = 0, !.reply = NoReply]]
    /\ UNCHANGED requests

\* The requests that p waits for, and what may become of them when it gives up.
Awaited(p) == {r \in requests : r.proc = p /\ ~ r.late}
Late == {r \in requests : r.late}
Abandoned(p) ==
    {requests \ Awaited(p)} \union
    (IF Cardinality(Late) < MaxLate
        THEN {(requests \ Awaited(p)) \union {[r EXCEPT !.late = TRUE] : r \in Awaited(p)}}
        ELSE {})

Start(p) ==
    /\ ~ calm
    /\ client[p].pc = "down"
    /\ Call(p, [Down EXCEPT !.due = Interval], "register")
    /\ UNCHANGED <<nodes, revision, calm, valid>>

\* Mutant: the ticker renews a lease but does not retry a registration.
TickFiresRenewsOnly(p) ==
    /\ client[p].pc = "waiting"
    /\ client[p].fired
    /\ LET c == [client[p] EXCEPT !.fired = FALSE]
       IN  IF c.lease = None THEN Waits(p, c) ELSE Call(p, c, "heartbeat")
    /\ UNCHANGED <<nodes, revision, calm, valid>>

TickFires(p) ==
    /\ client[p].pc = "waiting"
    /\ client[p].fired
    /\ LET c == [client[p] EXCEPT !.fired = FALSE]
       IN  Call(p, c, IF c.lease = None THEN "register" ELSE "heartbeat")
    /\ UNCHANGED <<nodes, revision, calm, valid>>

\* The call returned a response, or one of the two errors that end a lease.
Receive(p) ==
    LET c == client[p]
    IN  /\ Calling(p)
        /\ c.reply # NoReply
        /\ \/ c.pc = "register" /\ Waits(p, [c EXCEPT !.lease = c.reply.lease, !.misses = 0])
           \/ c.pc = "heartbeat" /\ c.reply.code = "ok" /\ Waits(p, [c EXCEPT !.misses = 0])
           \/ /\ c.pc = "heartbeat" /\ c.reply.code # "ok"
              /\ Call(p, [c EXCEPT !.lease = None, !.misses = 0], "register")
           \/ /\ c.pc = "deregister"
              /\ client' = [client EXCEPT ![p] = Down]
              /\ UNCHANGED requests
        /\ UNCHANGED <<nodes, revision, calm, valid>>

\* The call returned another error: its time is over or the connection failed.
\* Without faults, it does so only if an earlier fault lost the request.
CallFails(p) ==
    LET c == client[p]
    IN  /\ Calling(p)
        /\ ~ calm \/ (Awaited(p) = {} /\ c.reply = NoReply)
        /\ requests' \in Abandoned(p)
        /\ client' = [client EXCEPT ![p] =
              IF c.pc = "deregister" THEN Down
              ELSE [c EXCEPT !.pc = "waiting", !.age = 0, !.reply = NoReply,
                             !.misses = IF c.pc = "heartbeat" /\ @ =< Tolerated THEN @ + 1 ELSE @]]
        /\ UNCHANGED <<nodes, revision, calm, valid>>

\* ctx.Done(): a call under way is cancelled; a known lease is released.
Shutdown(p) ==
    LET c == client[p]
    IN  /\ ~ calm
        /\ Running(p)
        /\ \E rest \in Abandoned(p) :
              IF c.lease = None
                  THEN /\ client' = [client EXCEPT ![p] = Down]
                       /\ requests' = rest
                  ELSE /\ client' = [client EXCEPT ![p] = [c EXCEPT !.pc = "deregister", !.age = 0,
                                                                   !.reply = NoReply]]
                       /\ requests' = rest \union {Request(p, "deregister", c.lease)}
        /\ UNCHANGED <<nodes, revision, calm, valid>>

ProcessEnds(p) ==
    /\ ~ calm
    /\ client[p].pc # "down"
    /\ requests' \in Abandoned(p)
    /\ client' = [client EXCEPT ![p] = Down]
    /\ UNCHANGED <<nodes, revision, calm, valid>>

\* A request whose caller gave up does not reach its handler.
Lose(r) ==
    /\ r.late
    /\ requests' = requests \ {r}
    /\ UNCHANGED <<nodes, revision, client, calm, valid>>

-----------------------------------------------------------------------------
(* Time.                                                                   *)

\* Nothing that happens at once is left to do, and no handler stalls too long.
MayTick ==
    /\ \A p \in Processes : /\ ~ (client[p].pc = "waiting" /\ client[p].fired)
                            /\ Calling(p) => client[p].age < Timeout
    /\ \A r \in requests : r.lag < MaxStall

Aged(c) ==
    IF c.pc = "down" THEN c
    ELSE [c EXCEPT !.age = IF c.pc = "waiting" THEN 0 ELSE @ + 1,
                   !.due = IF @ = 1 THEN Interval ELSE @ - 1,
                   !.fired = @ \/ c.due = 1]

Tick ==
    /\ MayTick
    /\ nodes' = [id \in DOMAIN nodes |->
                    [nodes[id] EXCEPT !.left = IF @ > -MaxStall THEN @ - 1 ELSE @]]
    /\ client' = [p \in Processes |-> Aged(client[p])]
    /\ requests' = {[r EXCEPT !.lag = IF @ >= 0 THEN @ + 1 ELSE @] : r \in requests}
    /\ UNCHANGED <<revision, calm, valid>>

Settle == ~ calm /\ calm' = TRUE /\ UNCHANGED <<nodes, revision, client, requests, valid>>

-----------------------------------------------------------------------------
Init ==
    /\ nodes = << >>
    /\ revision = 0
    /\ client = [p \in Processes |-> Down]
    /\ requests = {}
    /\ calm = FALSE
    /\ valid = {}

Next ==
    \/ \E r \in requests : Arrive(r) \/ Execute(r) \/ Lose(r)
    \/ \E p \in Processes : \/ Start(p) \/ TickFires(p) \/ Receive(p) \/ CallFails(p)
                            \/ Shutdown(p) \/ ProcessEnds(p)
    \/ Nodes
    \/ CoordinatorRestarts
    \/ Tick
    \/ Settle

Handles(p) == \E r \in requests : r.proc = p /\ (Arrive(r) \/ Execute(r))

\* Time passes, a process that can go on does, every call ends, and the
\* coordinator handles every request that reaches it.
Fairness ==
    /\ WF_vars(Tick)
    /\ \A p \in Processes : /\ WF_vars(Receive(p))
                            /\ WF_vars(CallFails(p))
                            /\ WF_vars(TickFires(p))
                            /\ WF_vars(Handles(p))

Spec == Init /\ [][Next]_vars /\ Fairness

-----------------------------------------------------------------------------
(* Properties.                                                             *)

\* Every variable has its type.
TypeOK ==
    /\ DOMAIN nodes \subseteq NodeIds
    /\ \A id \in DOMAIN nodes : nodes[id].lease \in LeaseIds /\ nodes[id].left \in -MaxStall..TTL
    /\ revision \in 0..(RevisionLimit - 1)
    /\ client \in [Processes ->
          [pc : {"down", "register", "heartbeat", "deregister", "waiting"},
           lease : LeaseIds \union {None}, age : 0..Timeout, due : 0..Interval, fired : BOOLEAN,
           misses : 0..(Tolerated + 1),
           reply : [code : {"none", "ok", "NotFound", "PermissionDenied", "refused"},
                    lease : LeaseIds \union {None}]]]
    /\ requests \subseteq [kind : {"register", "heartbeat", "deregister"}, proc : Processes,
                           lease : LeaseIds \union {None}, lag : -1..MaxStall, late : BOOLEAN]
    /\ calm \in BOOLEAN
    /\ valid \subseteq LeaseIds

\* The time to live leaves room for Tolerated heartbeats in a row that fail:
\* a running process keeps its place in the list unless another registration
\* took it, or the coordinator forgot it, until the next heartbeat is about to
\* fail too.  Late requests, of its own or of another process with an older
\* lease, do not cost it that place.
LeaseOutlivesMisses ==
    \A p \in Processes :
        /\ Running(p)
        /\ client[p].lease \in valid
        /\ client[p].misses =< Tolerated
        /\ client[p].pc = "heartbeat" => client[p].age + MaxStall < Timeout
        => Listed(Node(p)) /\ nodes[Node(p)].lease = client[p].lease

\* Every change of who is registered shows in the revision, unless the
\* coordinator starts again from zero.
Registered(n) == [id \in DOMAIN n |-> n[id].lease]
RevisionShowsChange ==
    [][Registered(nodes') # Registered(nodes) /\ ~ CoordinatorRestarts => revision' # revision]_vars

\* Once faults end, the list of nodes becomes right and stays right: a node is
\* listed exactly when a process runs under its ID, and a process that is the
\* only one holds the listed lease.
Alone(p) == Running(p) /\ \A q \in Processes : Running(q) /\ Node(q) = Node(p) => q = p
ListIsRight ==
    /\ \A id \in NodeIds : Listed(id) <=> \E p \in Processes : Running(p) /\ Node(p) = id
    /\ \A p \in Processes : Alone(p) => nodes[Node(p)].lease = client[p].lease
ListBecomesRight == calm ~> []ListIsRight

=============================================================================
