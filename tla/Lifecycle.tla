------------------------------ MODULE Lifecycle ------------------------------
(***************************************************************************)
(* How a coordinator or a search node starts, serves and ends: Run and     *)
(* serveNode of internal/searchnode/runtime.go, Run and serveCoordinator   *)
(* of internal/coordinator/runtime.go, and Run of                          *)
(* internal/httpserver/server.go.                                          *)
(*                                                                         *)
(* Run starts a goroutine for each server, and on a search node one for    *)
(* the registration; each sends its result to one channel when it ends.    *)
(* Run itself waits for the first result or for the signal.  What it holds *)
(* (the engine of a search node, the connections of a coordinator) is      *)
(* closed by its deferred calls, and when it returns the process ends,     *)
(* whatever the goroutines are doing.                                      *)
(***************************************************************************)
EXTENDS Naturals, FiniteSets

CONSTANTS
    Rpcs,           \* gRPC calls that may be under way at once
    WebRequests     \* HTTP requests that may be under way at once

VARIABLES
    kind,           \* which of the two programs this is
    main,           \* where Run is
    signalled,      \* the context is done
    goroutine,      \* the goroutines of serveNode or serveCoordinator
    results,        \* results in errorsChannel
    grpc,           \* the gRPC server
    web,            \* the HTTP server
    rpc,            \* the gRPC calls
    request,        \* the HTTP requests
    store,          \* the engine, or the pool of connections
    \* history variable
    cause           \* what ended the wait of Run

serverVars == <<grpc, web>>
callVars == <<rpc, request>>
vars == <<kind, main, signalled, goroutine, results, serverVars, callVars, store, cause>>

Goroutines ==
    IF kind = "search-node" THEN {"grpc", "http", "registration"} ELSE {"grpc", "http"}

\* Mutant: the channel has room for the result that is waited for only.
CapacityOne == 1

\* The capacity of errorsChannel.
Capacity == IF kind = "search-node" THEN 3 ELSE 2

-----------------------------------------------------------------------------
(* Startup.                                                                *)

Init ==
    /\ kind \in {"search-node", "coordinator"}
    /\ main = "starting"
    /\ signalled = FALSE
    /\ goroutine = [g \in {"grpc", "http", "registration"} |-> "none"]
    /\ results = 0
    /\ grpc = "none" /\ web = "none"
    /\ rpc = [c \in Rpcs |-> "none"]
    /\ request = [c \in WebRequests |-> "none"]
    /\ store = "none"
    /\ cause = "none"

\* Configuration, keys and policies are read, and the engine or the pool made.
Open ==
    /\ main = "starting"
    /\ \/ main' = "open" /\ store' = "open"
       \/ main' = "exited" /\ UNCHANGED store
    /\ UNCHANGED <<kind, signalled, goroutine, results, serverVars, callVars, cause>>

\* The demonstration documents cannot be written, or the address is in use.
StartFails ==
    /\ main = "open"
    /\ main' = "returning"
    /\ UNCHANGED <<kind, signalled, goroutine, results, serverVars, callVars, store, cause>>

Serve ==
    /\ main = "open"
    /\ main' = "select"
    /\ goroutine' = [g \in DOMAIN goroutine |-> IF g \in Goroutines THEN "running" ELSE "none"]
    /\ grpc' = "serving" /\ web' = "serving"
    /\ UNCHANGED <<kind, signalled, results, callVars, store, cause>>

-----------------------------------------------------------------------------
(* Results, the signal and the wait of Run.                                *)

\* A goroutine sends its result; a Run that waits takes it.
Send(g) ==
    /\ goroutine[g] = "running"
    /\ goroutine' = [goroutine EXCEPT ![g] = "ended"]
    /\ IF main = "parked"
       THEN main' = "stopping" /\ cause' = "result" /\ UNCHANGED results
       ELSE results < Capacity /\ results' = results + 1 /\ UNCHANGED <<main, cause>>

Signal ==
    /\ ~signalled
    /\ signalled' = TRUE
    /\ IF main = "parked"
       THEN main' = "graceful" /\ cause' = "signal"
       ELSE UNCHANGED <<main, cause>>
    /\ UNCHANGED <<kind, goroutine, results, serverVars, callVars, store>>

\* Run comes to its select.  If both cases are ready either may be taken.
Select ==
    /\ main = "select"
    /\ \/ results > 0 /\ results' = results - 1 /\ main' = "stopping" /\ cause' = "result"
       \/ signalled /\ main' = "graceful" /\ cause' = "signal" /\ UNCHANGED results
       \/ results = 0 /\ ~signalled /\ main' = "parked" /\ UNCHANGED <<results, cause>>
    /\ UNCHANGED <<kind, signalled, goroutine, serverVars, callVars, store>>

\* Stop does not wait for the handlers: their callers get an error, and they go on.
Stopped ==
    /\ grpc' = "stopped"
    /\ rpc' = [c \in Rpcs |-> IF rpc[c] = "running" THEN "orphan" ELSE rpc[c]]

Stop ==
    /\ main = "stopping"
    /\ Stopped
    /\ main' = "returning"
    /\ UNCHANGED <<kind, signalled, goroutine, results, web, request, store, cause>>

\* Mutant: after a signal the gRPC server is stopped at once.
GracefulStopAtOnce ==
    /\ main = "graceful" /\ grpc = "serving"
    /\ Stopped
    /\ UNCHANGED <<kind, main, signalled, goroutine, results, web, request, store, cause>>

\* GracefulStop takes no new calls ...
GracefulStop ==
    /\ main = "graceful" /\ grpc = "serving"
    /\ grpc' = "draining"
    /\ UNCHANGED <<kind, main, signalled, goroutine, results, web, callVars, store, cause>>

\* ... and returns once the calls under way have ended.
GracefulStopReturns ==
    /\ main = "graceful" /\ grpc = "draining"
    /\ \A c \in Rpcs : rpc[c] # "running"
    /\ grpc' = "stopped"
    /\ UNCHANGED <<kind, main, signalled, goroutine, results, web, callVars, store, cause>>

\* The coordinator waits five seconds for that.
GracefulStopTimesOut ==
    /\ kind = "coordinator"
    /\ main = "graceful" /\ grpc = "draining"
    /\ Stopped
    /\ UNCHANGED <<kind, main, signalled, goroutine, results, web, request, store, cause>>

\* The first result ends Run.
ReceiveResult ==
    /\ main = "graceful" /\ grpc = "stopped"
    /\ results > 0
    /\ results' = results - 1
    /\ main' = "returning"
    /\ UNCHANGED <<kind, signalled, goroutine, serverVars, callVars, store, cause>>

\* The deferred calls of Run.
Close ==
    /\ main = "returning" /\ store = "open"
    /\ store' = "closed"
    /\ UNCHANGED <<kind, main, signalled, goroutine, results, serverVars, callVars, cause>>

\* The process ends, and with it all that is under way.
Exit ==
    /\ main = "returning" /\ store # "open"
    /\ main' = "exited"
    /\ rpc' = [c \in Rpcs |-> IF rpc[c] \in {"running", "orphan"} THEN "cut" ELSE rpc[c]]
    /\ request' = [c \in WebRequests |-> IF request[c] = "running" THEN "cut" ELSE request[c]]
    /\ UNCHANGED <<kind, signalled, goroutine, results, serverVars, store, cause>>

-----------------------------------------------------------------------------
(* The goroutines.                                                         *)

Alive == main # "exited"

\* Accept fails: Serve returns, while calls go on over the connections there are.
GrpcFails ==
    /\ Alive
    /\ grpc = "serving"
    /\ Send("grpc")
    /\ UNCHANGED <<kind, signalled, serverVars, callVars, store>>

\* Serve returns because the server was stopped, not before Stop or GracefulStop does.
GrpcEnds ==
    /\ Alive
    /\ grpc = "stopped"
    /\ Send("grpc")
    /\ UNCHANGED <<kind, signalled, serverVars, callVars, store>>

\* Mutant: the goroutine of the HTTP server reports its failure to the log only.
HttpFailsSilently ==
    /\ Alive
    /\ web = "serving" /\ goroutine["http"] = "running"
    /\ goroutine' = [goroutine EXCEPT !["http"] = "ended"]
    /\ web' = "failed"
    /\ UNCHANGED <<kind, main, signalled, results, grpc, callVars, store, cause>>

\* ListenAndServe fails.
HttpFails ==
    /\ Alive
    /\ web = "serving"
    /\ Send("http")
    /\ web' = "failed"
    /\ UNCHANGED <<kind, signalled, grpc, callVars, store>>

\* The context is done: Shutdown takes no new requests ...
HttpShutdown ==
    /\ Alive
    /\ signalled /\ web = "serving"
    /\ web' = "draining"
    /\ UNCHANGED <<kind, main, signalled, goroutine, results, grpc, callVars, store, cause>>

\* ... and returns when there are none left, or with an error when its time is up.
HttpEnds ==
    /\ Alive
    /\ web = "draining"
    /\ Send("http")
    /\ \/ web' = "closed" /\ \A c \in WebRequests : request[c] # "running"
       \/ web' = "late" /\ \E c \in WebRequests : request[c] = "running"
    /\ UNCHANGED <<kind, signalled, grpc, callVars, store>>

\* The client cannot be made, or the context is done and the lease, if any, has
\* been given back or could not be.  (The loop itself is in NodeRegistry.)
RegistrationEnds ==
    /\ Alive
    /\ Send("registration")
    /\ UNCHANGED <<kind, signalled, serverVars, callVars, store>>

-----------------------------------------------------------------------------
(* Calls and requests.                                                     *)

RpcArrives(c) ==
    /\ Alive /\ grpc = "serving" /\ rpc[c] = "none"
    /\ rpc' = [rpc EXCEPT ![c] = "running"]
    /\ UNCHANGED <<kind, main, signalled, goroutine, results, serverVars, request, store, cause>>

RpcEnds(c) ==
    /\ Alive /\ rpc[c] \in {"running", "orphan"}
    /\ rpc' = [rpc EXCEPT ![c] = IF @ = "running" THEN "answered" ELSE "cut"]
    /\ UNCHANGED <<kind, main, signalled, goroutine, results, serverVars, request, store, cause>>

RequestArrives(c) ==
    /\ Alive /\ web = "serving" /\ request[c] = "none"
    /\ request' = [request EXCEPT ![c] = "running"]
    /\ UNCHANGED <<kind, main, signalled, goroutine, results, serverVars, rpc, store, cause>>

RequestEnds(c) ==
    /\ Alive /\ request[c] = "running"
    /\ request' = [request EXCEPT ![c] = "answered"]
    /\ UNCHANGED <<kind, main, signalled, goroutine, results, serverVars, rpc, store, cause>>

-----------------------------------------------------------------------------
\* The steps of Run, of the goroutines once the context is done, and of calls.
Run ==
    \/ Open \/ StartFails \/ Serve \/ Select \/ Stop
    \/ GracefulStop \/ GracefulStopReturns \/ GracefulStopTimesOut
    \/ ReceiveResult \/ Close \/ Exit

Ends == GrpcEnds \/ HttpShutdown \/ HttpEnds \/ (signalled /\ RegistrationEnds)

Finished == main = "exited" /\ UNCHANGED vars

Next ==
    \/ Run \/ Signal \/ GrpcFails \/ GrpcEnds \/ HttpFails \/ HttpShutdown \/ HttpEnds
    \/ RegistrationEnds
    \/ \E c \in Rpcs : RpcArrives(c) \/ RpcEnds(c)
    \/ \E c \in WebRequests : RequestArrives(c) \/ RequestEnds(c)
    \/ Finished

\* Goroutines are scheduled, and handlers end.
Spec ==
    /\ Init /\ [][Next]_vars
    /\ WF_vars(Run) /\ WF_vars(Ends)
    /\ \A c \in Rpcs : WF_vars(RpcEnds(c))

-----------------------------------------------------------------------------
(* Properties.                                                             *)

\* Every variable is in its set, and goroutines exist while Run serves.
TypeOK ==
    /\ kind \in {"search-node", "coordinator"}
    /\ main \in {"starting", "open", "select", "parked", "stopping", "graceful", "returning", "exited"}
    /\ goroutine \in [{"grpc", "http", "registration"} -> {"none", "running", "ended"}]
    /\ results \in 0..Capacity
    /\ grpc \in {"none", "serving", "draining", "stopped"}
    /\ web \in {"none", "serving", "draining", "closed", "late", "failed"}
    /\ rpc \in [Rpcs -> {"none", "running", "orphan", "answered", "cut"}]
    /\ request \in [WebRequests -> {"none", "running", "answered", "cut"}]
    /\ store \in {"none", "open", "closed"}
    /\ main \in {"select", "parked", "stopping", "graceful"} => store = "open"

\* No goroutine waits for room in errorsChannel, also when Run has taken its one
\* result and takes no other (serveNode and serveCoordinator).
SendsNeverWait ==
    \A g \in DOMAIN goroutine : goroutine[g] = "running" => results < Capacity

\* On a signal a search node answers every call it has taken, and only then are
\* its engine and log closed (serveNode: GracefulStop before the deferred Close).
CallsAreAnswered ==
    kind = "search-node" /\ cause = "signal" =>
        \A c \in Rpcs : /\ rpc[c] \notin {"orphan", "cut"}
                        /\ store = "closed" => rpc[c] # "running"

\* A signal, and the end of any of the goroutines, end the process.
ProcessEnds ==
    (signalled \/ \E g \in DOMAIN goroutine : goroutine[g] = "ended") ~> main = "exited"

=============================================================================
