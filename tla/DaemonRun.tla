----------------------------- MODULE DaemonRun -----------------------------
(***************************************************************************)
(* The daemon's life, Run of internal/daemon/daemon.go, with the edges it  *)
(* starts on the listeners it was given: LocalPortEdge of                  *)
(* internal/edge/edge.go and HostEdge of internal/edge/http.go. Every      *)
(* listener has an accept loop, a goroutine that closes it when the        *)
(* context ends, and a handler per connection; the edge's wait group       *)
(* counts them all. A HostEdge first reads where a connection wants to go, *)
(* and bounds its handlers with sem. On shutdown Run closes the IPC        *)
(* server, the responder for names, the session pool and the edges, in     *)
(* this order, and waits a bounded time for the IPC server.                *)
(*                                                                         *)
(* The IPC server is IpcServer, the pool DialEntry and ListenEntry, the    *)
(* splice Splice; here they are the steps Run and a handler wait for.      *)
(***************************************************************************)
EXTENDS Naturals, Sequences, FiniteSets

CONSTANTS
    Order,          \* the edges in the order Run closes them, each the set of its listeners
    NameRouted,     \* the listeners of a HostEdge
    MaxInFlight,    \* maxInFlightPeeks
    MaxConns        \* bound on the connections accepted

Listeners == UNION {Order[i] : i \in DOMAIN Order}
EdgeConns == 1..MaxConns

ASSUME OrderAssumption ==
    /\ Order \in Seq(SUBSET Listeners)
    /\ \A i, j \in 1..Len(Order) : i # j => Order[i] \cap Order[j] = {}
ASSUME RoutedAssumption == NameRouted \subseteq Listeners
ASSUME BoundsAssumption == MaxInFlight \in Nat \ {0} /\ MaxConns \in Nat

VARIABLES
    rpc,        \* where Run is
    at,         \* the edge Run is closing
    ctxDone,    \* the root context is done
    poolOpen,   \* the session pool has not been closed
    lnOpen,     \* the listeners that are open
    loop,       \* where each accept loop is
    watcher,    \* the goroutine that closes each listener with the context
    accepted,   \* connections accepted so far
    via,        \* the listener each connection came in by
    hpc,        \* where each connection's handler is
    sem         \* slots of e.sem that are taken, for the listeners of a HostEdge

run == <<rpc, at, ctxDone, poolOpen>>
edges == <<lnOpen, loop, watcher>>
handlers == <<accepted, via, hpc, sem>>
runVars == <<run, edges, handlers>>

\* Deciding where to go, and being served.
Deciding == {"peek", "session"}
Serving == {"attach", "splice", "wedged"}

RunTypeOK ==
    /\ rpc \in {"start", "up", "names", "pool", "close", "join", "drain", "exit"}
    /\ at \in 1..Len(Order) + 1
    /\ ctxDone \in BOOLEAN /\ poolOpen \in BOOLEAN
    /\ lnOpen \subseteq Listeners
    /\ loop \in [Listeners -> {"none", "new", "accept", "done"}]
    /\ watcher \in [Listeners -> {"none", "wait", "done"}]
    /\ accepted \in 0..MaxConns
    /\ via \in [1..accepted -> Listeners]
    /\ hpc \in [EdgeConns -> {"none", "finish", "done"} \cup Deciding \cup Serving]
    /\ sem \in [NameRouted -> 0..MaxInFlight]

\* The listeners are bound by the caller of Run.
RunInit ==
    /\ rpc = "start" /\ at = 1 /\ ctxDone = FALSE /\ poolOpen = TRUE
    /\ lnOpen = Listeners
    /\ loop = [l \in Listeners |-> "none"] /\ watcher = [l \in Listeners |-> "none"]
    /\ accepted = 0 /\ via = <<>> /\ hpc = [c \in EdgeConns |-> "none"]
    /\ sem = [l \in NameRouted |-> 0]

Active(l) == {c \in 1..accepted : via[c] = l /\ hpc[c] # "done"}

-----------------------------------------------------------------------------
(* Run *)

\* A signal, or the caller.
Cancel ==
    /\ ~ctxDone /\ ctxDone' = TRUE
    /\ UNCHANGED <<rpc, at, poolOpen, edges, handlers>>

RunStarts ==
    /\ rpc = "start" /\ rpc' = "up"
    /\ loop' = [l \in Listeners |-> "new"]
    /\ UNCHANGED <<at, ctxDone, poolOpen, lnOpen, watcher, handlers>>

\* The socket cannot be bound or its mode set: Run has started nothing.
StartFails ==
    /\ rpc = "start" /\ rpc' = "exit"
    /\ UNCHANGED <<at, ctxDone, poolOpen, edges, handlers>>

\* <-ctx.Done(); srv.Close()
CloseServer ==
    /\ rpc = "up" /\ ctxDone /\ rpc' = "names"
    /\ UNCHANGED <<at, ctxDone, poolOpen, edges, handlers>>

\* resolver.Close(): every exchange of the responder has a deadline.
CloseResolver ==
    /\ rpc = "names" /\ rpc' = "pool"
    /\ UNCHANGED <<at, ctxDone, poolOpen, edges, handlers>>

\* The pool is left for the end, as it once was.
ClosePool_Last ==
    /\ rpc = "pool" /\ rpc' = IF Order = <<>> THEN "drain" ELSE "close"
    /\ UNCHANGED <<at, ctxDone, poolOpen, edges, handlers>>

\* pool.Close(): every session ends.
ClosePool ==
    /\ rpc = "pool" /\ rpc' = IF Order = <<>> THEN "drain" ELSE "close"
    /\ poolOpen' = FALSE
    /\ UNCHANGED <<at, ctxDone, edges, handlers>>

\* e.Close() closes the edge's listeners ...
CloseEdge ==
    /\ rpc = "close" /\ rpc' = "join"
    /\ lnOpen' = lnOpen \ Order[at]
    /\ UNCHANGED <<at, ctxDone, poolOpen, loop, watcher, handlers>>

NextEdge ==
    /\ at' = at + 1
    /\ rpc' = IF at = Len(Order) THEN "drain" ELSE "close"
    /\ UNCHANGED <<ctxDone, poolOpen, edges, handlers>>

\* A wait group that counts the handlers only.
JoinEdge_HandlersOnly ==
    /\ rpc = "join"
    /\ \A l \in Order[at] : Active(l) = {}
    /\ NextEdge

\* ... and e.wg.Wait() joins its loops, watchers and handlers.
JoinEdge ==
    /\ rpc = "join"
    /\ \A l \in Order[at] : loop[l] = "done" /\ watcher[l] = "done" /\ Active(l) = {}
    /\ NextEdge

\* Run returns when srv.Serve has returned (IpcServer), or shutdownDeadline has
\* passed; the socket is removed either way.
Exit ==
    /\ rpc = "drain" /\ rpc' = "exit"
    /\ UNCHANGED <<at, ctxDone, poolOpen, edges, handlers>>

-----------------------------------------------------------------------------
(* acceptLoop *)

LoopStarts(l) ==
    /\ loop[l] = "new"
    /\ loop' = [loop EXCEPT ![l] = "accept"] /\ watcher' = [watcher EXCEPT ![l] = "wait"]
    /\ UNCHANGED <<run, lnOpen, handlers>>

WatcherEnds(l) ==
    /\ watcher[l] = "wait" /\ (ctxDone \/ loop[l] = "done")
    /\ watcher' = [watcher EXCEPT ![l] = "done"]
    /\ \/ ctxDone /\ lnOpen' = lnOpen \ {l}
       \/ loop[l] = "done" /\ UNCHANGED lnOpen
    /\ UNCHANGED <<run, loop, handlers>>

\* The connection is accepted and its handler started.
StartHandler(l, pc) ==
    /\ loop[l] = "accept" /\ l \in lnOpen /\ accepted < MaxConns
    /\ accepted' = accepted + 1
    /\ via' = Append(via, l) /\ hpc' = [hpc EXCEPT ![accepted + 1] = pc]
    /\ UNCHANGED <<run, edges>>

AcceptLocal(l) ==
    /\ l \notin NameRouted
    /\ StartHandler(l, "session")
    /\ UNCHANGED sem

AcceptNamed(l) ==
    /\ l \in NameRouted /\ sem[l] < MaxInFlight
    /\ StartHandler(l, "peek")
    /\ sem' = [sem EXCEPT ![l] = @ + 1]

\* All slots are taken: the connection is closed at once.
RefuseConn(l) ==
    /\ l \in NameRouted /\ sem[l] = MaxInFlight
    /\ StartHandler(l, "done")
    /\ UNCHANGED sem

\* Any failure of Accept ends the loop, a fault as well as a closed listener.
AcceptFails(l) ==
    /\ loop[l] = "accept"
    /\ loop' = [loop EXCEPT ![l] = "done"]
    /\ UNCHANGED <<run, lnOpen, watcher, handlers>>

-----------------------------------------------------------------------------
(* handle, splice *)

Goes(c, pc) ==
    /\ hpc' = [hpc EXCEPT ![c] = pc]
    /\ UNCHANGED <<run, edges, accepted, via>>

\* The request names a host that zone.Route knows.
PeekRoutes(c) == hpc[c] = "peek" /\ Goes(c, "session") /\ UNCHANGED sem

\* A peek without a deadline.
PeekFails_Waits(c) == hpc[c] = "peek" /\ ctxDone /\ Goes(c, "finish") /\ UNCHANGED sem

\* peekDeadline has passed, the request is malformed, or nobody serves the host.
PeekFails(c) == hpc[c] = "peek" /\ Goes(c, "finish") /\ UNCHANGED sem

SessionReady(c) == hpc[c] = "session" /\ poolOpen /\ Goes(c, "attach") /\ UNCHANGED sem

\* No session within openConnReadyTimeout.
SessionNotReady(c) == hpc[c] = "session" /\ Goes(c, "finish") /\ UNCHANGED sem

\* attachWithHeader has opened a stream, the agent has agreed, and what was read
\* of the request has been replayed ...
AttachOk(c) == hpc[c] = "attach" /\ poolOpen /\ Goes(c, "splice") /\ UNCHANGED sem

\* ... or one of these steps failed.
AttachFails(c) == hpc[c] = "attach" /\ Goes(c, "finish") /\ UNCHANGED sem

\* No direction is left that reads from the stream: Splice.
SpliceWedges(c) == hpc[c] = "splice" /\ poolOpen /\ Goes(c, "wedged") /\ UNCHANGED sem

SpliceResumes(c) == hpc[c] = "wedged" /\ Goes(c, "splice") /\ UNCHANGED sem

SpliceEnds(c) == hpc[c] \in {"splice", "wedged"} /\ Goes(c, "finish") /\ UNCHANGED sem

\* The connection is closed and, on a HostEdge, the slot given back.
Finish(c) ==
    /\ hpc[c] = "finish"
    /\ Goes(c, "done")
    /\ sem' = [l \in NameRouted |-> IF l = via[c] THEN sem[l] - 1 ELSE sem[l]]

-----------------------------------------------------------------------------
RunSteps ==
    \/ RunStarts \/ StartFails \/ CloseServer \/ CloseResolver \/ ClosePool
    \/ CloseEdge \/ JoinEdge \/ Exit

Handler(c) ==
    \/ PeekRoutes(c) \/ PeekFails(c) \/ SessionReady(c) \/ SessionNotReady(c)
    \/ AttachOk(c) \/ AttachFails(c)
    \/ SpliceWedges(c) \/ SpliceResumes(c) \/ SpliceEnds(c) \/ Finish(c)

RunNext == \/ Cancel \/ RunSteps
           \/ \E l \in Listeners : \/ LoopStarts(l) \/ WatcherEnds(l) \/ AcceptFails(l)
                                   \/ AcceptLocal(l) \/ AcceptNamed(l) \/ RefuseConn(l)
           \/ \E c \in EdgeConns : Handler(c)

RunSpec == RunInit /\ [][RunNext]_runVars

(* Goroutines run and deadlines pass. An attach waits for the agent, and a      *)
(* splice for both its ends: they are sure to end once the pool is closed, the  *)
(* splice only if a direction of it reads from the stream. The pool closes;     *)
(* dial_close_hang is the exception to that.                                    *)
RunFairness ==
    /\ WF_runVars(RunSteps)
    /\ \A l \in Listeners : /\ WF_runVars(LoopStarts(l)) /\ WF_runVars(WatcherEnds(l))
                            /\ WF_runVars(l \notin lnOpen /\ AcceptFails(l))
    /\ \A c \in EdgeConns :
          /\ WF_runVars(PeekFails(c)) /\ WF_runVars(SessionReady(c) \/ SessionNotReady(c))
          /\ WF_runVars(~poolOpen /\ AttachFails(c))
          /\ WF_runVars(~poolOpen /\ hpc[c] = "splice" /\ SpliceEnds(c))
          /\ WF_runVars(Finish(c))

RunFairSpec == RunSpec /\ RunFairness

-----------------------------------------------------------------------------
(* Safety *)

\* Once Close of an edge has returned, nothing of that edge runs or starts: no
\* connection is accepted at the last moment and handled behind Close's back,
\* and, as all along, the slots taken are those of the handlers there are.
ClosedEdgesAreQuiet ==
    /\ \A l \in NameRouted : sem[l] = Cardinality(Active(l))
    /\ \A i \in 1..at - 1 : \A l \in Order[i] :
        l \notin lnOpen /\ loop[l] = "done" /\ watcher[l] = "done" /\ Active(l) = {}

-----------------------------------------------------------------------------
(* Liveness *)

\* A HostEdge whose slots are all taken has one to give again, or serves
\* somebody: clients that never say where they want to go do not fill it.
FullMeansServing ==
    \A l \in NameRouted :
        sem[l] = MaxInFlight ~> \/ sem[l] < MaxInFlight
                               \/ \E c \in Active(l) : hpc[c] \in Serving

\* A daemon that is told to stop does, although no client closes its connection,
\* unless a splice is left waiting for its client.
ShutdownEnds ==
    <>[](\A c \in EdgeConns : hpc[c] # "wedged") => (ctxDone ~> rpc = "exit")

-----------------------------------------------------------------------------
(* What the comments say and the code does not do *)

\* "it exists so shutdown itself never hangs waiting for one to unwind": a live
\* splice does not keep Run from returning.
ShutdownNeverHangs == ctxDone ~> rpc = "exit"
=============================================================================
