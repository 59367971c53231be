--------------------------- MODULE LifecycleProofs ---------------------------
(***************************************************************************)
(* Proofs about module Lifecycle, for any number of calls and requests.    *)
(***************************************************************************)
EXTENDS Lifecycle, TLAPS

-----------------------------------------------------------------------------
(* The inductive invariant.                                                *)

\* How many results each goroutine has sent.
Sent(g) == IF goroutine[g] = "ended" THEN 1 ELSE 0

\* The results in the channel are some of those that were sent, and a coordinator
\* has no registration loop.
SentInv ==
    /\ results =< Sent("grpc") + Sent("http") + Sent("registration")
    /\ kind = "coordinator" => goroutine["registration"] = "none"

\* Before Run serves there is nothing to end; until it has an answer its server serves.
StartInv ==
    /\ main \in {"starting", "open"} =>
        /\ \A g \in DOMAIN goroutine : goroutine[g] = "none"
        /\ grpc = "none" /\ results = 0
    /\ main = "open" => store = "open"
    /\ main \in {"select", "parked"} => grpc = "serving"
    /\ grpc = "none" => \A c \in Rpcs : rpc[c] = "none"

\* Where Run can be, by what ended its wait, and when the engine is closed.
CauseInv ==
    /\ cause \in {"none", "result", "signal"}
    /\ main \in {"starting", "open", "select", "parked"} => cause = "none"
    /\ main = "stopping" => cause = "result"
    /\ main = "graceful" => cause = "signal"
    /\ cause = "none" /\ main \in {"returning", "exited"} => grpc = "none"
    /\ store = "closed" => main \in {"returning", "exited"}

\* A search node that ends for a signal leaves its wait with the server stopped and
\* no call under way; until then no call has been cut.
DrainInv ==
    kind = "search-node" /\ cause # "result" =>
        /\ \A c \in Rpcs : rpc[c] \notin {"orphan", "cut"}
        /\ cause = "signal" /\ main # "graceful" => grpc = "stopped"
        /\ cause = "signal" /\ grpc = "stopped" => \A c \in Rpcs : rpc[c] # "running"

LifecycleInv == TypeOK /\ SentInv /\ StartInv /\ CauseInv /\ DrainInv

-----------------------------------------------------------------------------
\* The process begins in the invariant.
LEMMA LifecycleInit == Init => LifecycleInv
  BY DEF Init, LifecycleInv, TypeOK, SentInv, Sent, StartInv, CauseInv, DrainInv, Capacity

-----------------------------------------------------------------------------
(* The steps.                                                              *)

\* Every step of Run, of the goroutines, of calls and of requests keeps the
\* invariant.
LEMMA LifecycleNext == LifecycleInv /\ [Next]_vars => LifecycleInv'
<1> SUFFICES ASSUME LifecycleInv, [Next]_vars PROVE LifecycleInv'
  OBVIOUS
<1> USE DEF LifecycleInv, TypeOK, SentInv, Sent, StartInv, CauseInv, DrainInv, Capacity,
            serverVars, callVars
<1>1. CASE Open
  BY <1>1 DEF Open
<1>2. CASE StartFails
  BY <1>2 DEF StartFails
<1>3. CASE Serve
  BY <1>3 DEF Serve, Goroutines
<1>4. CASE Select
  BY <1>4 DEF Select
<1>5. CASE Stop
  BY <1>5 DEF Stop, Stopped
<1>6. CASE GracefulStop
  BY <1>6 DEF GracefulStop
<1>7. CASE GracefulStopReturns
  BY <1>7 DEF GracefulStopReturns
<1>8. CASE GracefulStopTimesOut
  BY <1>8 DEF GracefulStopTimesOut, Stopped
<1>9. CASE ReceiveResult
  BY <1>9 DEF ReceiveResult
<1>10. CASE Close
  BY <1>10 DEF Close
<1>11. CASE Exit
  BY <1>11 DEF Exit
<1>12. CASE Signal
  BY <1>12 DEF Signal
<1>13. CASE GrpcFails
  BY <1>13 DEF GrpcFails, Send, Alive
<1>14. CASE GrpcEnds
  BY <1>14 DEF GrpcEnds, Send, Alive
<1>15. CASE HttpFails
  BY <1>15 DEF HttpFails, Send, Alive
<1>16. CASE HttpShutdown
  BY <1>16 DEF HttpShutdown, Alive
<1>17. CASE HttpEnds
  BY <1>17 DEF HttpEnds, Send, Alive
<1>18. CASE RegistrationEnds
  BY <1>18 DEF RegistrationEnds, Send, Alive
<1>19. ASSUME NEW c \in Rpcs, RpcArrives(c) PROVE LifecycleInv'
  BY <1>19 DEF RpcArrives, Alive
<1>20. ASSUME NEW c \in Rpcs, RpcEnds(c) PROVE LifecycleInv'
  BY <1>20 DEF RpcEnds, Alive
<1>21. ASSUME NEW c \in WebRequests, RequestArrives(c) PROVE LifecycleInv'
  BY <1>21 DEF RequestArrives, Alive
<1>22. ASSUME NEW c \in WebRequests, RequestEnds(c) PROVE LifecycleInv'
  BY <1>22 DEF RequestEnds, Alive
<1>23. CASE UNCHANGED vars
  BY <1>23 DEF vars
<1> QED
  BY <1>1, <1>2, <1>3, <1>4, <1>5, <1>6, <1>7, <1>8, <1>9, <1>10, <1>11, <1>12, <1>13, <1>14, <1>15, <1>16, <1>17, <1>18, <1>19, <1>20, <1>21, <1>22, <1>23 DEF Next, Run, Finished

\* Every reachable state of a process satisfies the invariant.
THEOREM LifecycleInvariant == Spec => []LifecycleInv
  BY LifecycleInit, LifecycleNext, PTL DEF Spec

-----------------------------------------------------------------------------
(* What follows.                                                           *)

\* No goroutine waits for room in errorsChannel, whatever Run has read
\* (serveNode and serveCoordinator).
THEOREM SendersNeverWait == Spec => []SendsNeverWait
<1>1. LifecycleInv => SendsNeverWait
  BY DEF LifecycleInv, TypeOK, SentInv, Sent, Capacity, SendsNeverWait
<1> QED
  BY <1>1, LifecycleInvariant, PTL

\* On a signal a search node answers every call it has taken before its engine is
\* closed (serveNode).
THEOREM SignalDrainsCalls == Spec => []CallsAreAnswered
<1>1. LifecycleInv => CallsAreAnswered
  BY DEF LifecycleInv, TypeOK, CauseInv, DrainInv, CallsAreAnswered
<1> QED
  BY <1>1, LifecycleInvariant, PTL

=============================================================================
