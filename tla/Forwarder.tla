----------------------------- MODULE Forwarder -----------------------------
(***************************************************************************)
(* One "fwd" instance: Forwarder of internal/fwd/fwd.go with its registry  *)
(* (registry.go). The accept loop hands every local connection to a        *)
(* handler of its own, which registers it, attaches to the daemon and      *)
(* splices the two legs. A watcher waits for ctx: it resets whatever the   *)
(* registry holds, then closes the listener. Run returns when the accept   *)
(* loop, the watcher and every handler have.                               *)
(*                                                                         *)
(* A goroutine that is blocked in a select takes the first event that      *)
(* happens; one that only arrives at the select may find several events    *)
(* and takes any of them. The watcher is therefore "starting" until it     *)
(* has reached its select.                                                 *)
(***************************************************************************)
EXTENDS Naturals, FiniteSets

CONSTANTS
    MaxConcurrent,  \* cap(f.sem)
    MaxConns        \* bound on the local connections accepted

ASSUME CapAssumption == MaxConcurrent \in Nat \ {0}
ASSUME ConnsAssumption == MaxConns \in Nat

Conns == 1..MaxConns

VARIABLES
    apc,        \* where the accept loop is
    accepted,   \* connections accepted so far
    watcher,    \* where the goroutine that watches ctx is
    lnOpen,     \* the local listener is open
    sem,        \* slots of f.sem that are taken
    hpc,        \* where each connection's handler is
    entries,    \* r.entries: the registered connections
    withRemote, \* the entries whose remote leg has been recorded
    closed,     \* r.closed
    local,      \* the local leg of each connection
    remote,     \* the remote leg of each connection
    ctxDone,    \* ctx is cancelled
    returned    \* Run has returned

legs == <<local, remote>>
registry == <<entries, withRemote, closed>>
vars == <<apc, accepted, watcher, lnOpen, sem, hpc, registry, legs, ctxDone, returned>>

Leg == {"none", "open", "down"}

TypeOK ==
    /\ apc \in {"accept", "leaving", "done"}
    /\ accepted \in 0..MaxConns
    /\ watcher \in {"starting", "waiting", "sweep", "swept", "done"}
    /\ lnOpen \in BOOLEAN
    /\ sem \in 0..MaxConcurrent
    /\ hpc \in [Conns -> {"none", "register", "attach", "setRemote", "pipe",
                          "deregister", "release", "done"}]
    /\ entries \subseteq 1..accepted /\ withRemote \subseteq entries
    /\ closed \in BOOLEAN
    /\ local \in [Conns -> Leg] /\ remote \in [Conns -> Leg]
    /\ ctxDone \in BOOLEAN /\ returned \in BOOLEAN

Init ==
    /\ apc = "accept" /\ accepted = 0
    /\ watcher = "starting" /\ lnOpen = TRUE /\ sem = 0
    /\ hpc = [c \in Conns |-> "none"]
    /\ entries = {} /\ withRemote = {} /\ closed = FALSE
    /\ local = [c \in Conns |-> "none"] /\ remote = [c \in Conns |-> "none"]
    /\ ctxDone = FALSE /\ returned = FALSE

-----------------------------------------------------------------------------
(* The watcher *)

\* A goroutine blocked in the watcher's select is woken by the event that
\* happens; ctx and done are closed once each.
WakeWatcher(pc) == watcher' = IF watcher = "waiting" THEN pc ELSE watcher

Cancel ==
    /\ ~ctxDone /\ ctxDone' = TRUE
    /\ WakeWatcher("sweep")
    /\ UNCHANGED <<apc, accepted, lnOpen, sem, hpc, registry, legs, returned>>

WatcherArrives ==
    /\ watcher = "starting"
    /\ \/ ctxDone /\ watcher' = "sweep"
       \/ apc = "done" /\ watcher' = "done"
       \/ ~ctxDone /\ apc # "done" /\ watcher' = "waiting"
    /\ UNCHANGED <<apc, accepted, lnOpen, sem, hpc, registry, legs, ctxDone, returned>>

\* The entries' legs go down.
Reset(leg, conns) == [c \in Conns |-> IF c \in conns THEN "down" ELSE leg[c]]

\* registry.closeAll, under r.mu
closeAll ==
    /\ watcher = "sweep" /\ watcher' = "swept"
    /\ closed' = TRUE
    /\ local' = Reset(local, entries) /\ remote' = Reset(remote, withRemote)
    /\ UNCHANGED <<apc, accepted, lnOpen, sem, hpc, entries, withRemote, ctxDone, returned>>

\* A watcher that resets the forwards and leaves the listener alone.
WatcherClosesListener_Forgets ==
    /\ watcher = "swept" /\ watcher' = "done"
    /\ UNCHANGED <<apc, accepted, lnOpen, sem, hpc, registry, legs, ctxDone, returned>>

WatcherClosesListener ==
    /\ watcher = "swept" /\ watcher' = "done"
    /\ lnOpen' = FALSE
    /\ UNCHANGED <<apc, accepted, sem, hpc, registry, legs, ctxDone, returned>>

-----------------------------------------------------------------------------
(* acceptLoop *)

\* A slot is free: the connection gets a handler.
AcceptConn ==
    /\ apc = "accept" /\ lnOpen /\ accepted < MaxConns
    /\ sem < MaxConcurrent /\ sem' = sem + 1
    /\ accepted' = accepted + 1
    /\ hpc' = [hpc EXCEPT ![accepted + 1] = "register"]
    /\ local' = [local EXCEPT ![accepted + 1] = "open"]
    /\ UNCHANGED <<apc, watcher, lnOpen, registry, remote, ctxDone, returned>>

\* No slot is free: the connection is reset on the spot.
RefuseConn ==
    /\ apc = "accept" /\ lnOpen /\ accepted < MaxConns
    /\ sem = MaxConcurrent
    /\ accepted' = accepted + 1
    /\ hpc' = [hpc EXCEPT ![accepted + 1] = "done"]
    /\ local' = [local EXCEPT ![accepted + 1] = "down"]
    /\ UNCHANGED <<apc, watcher, lnOpen, sem, registry, remote, ctxDone, returned>>

\* Accept fails: the listener was closed, or there is a fault of its own. With
\* ctx cancelled the closing of the listener is left to the watcher.
AcceptFails ==
    /\ apc = "accept" /\ apc' = "leaving"
    /\ lnOpen' = (lnOpen /\ ctxDone)
    /\ UNCHANGED <<accepted, watcher, sem, hpc, registry, legs, ctxDone, returned>>

\* close(done)
AcceptLoopEnds ==
    /\ apc = "leaving" /\ apc' = "done"
    /\ WakeWatcher("done")
    /\ UNCHANGED <<accepted, lnOpen, sem, hpc, registry, legs, ctxDone, returned>>

-----------------------------------------------------------------------------
(* handleConn *)

Goes(c, pc) == hpc' = [hpc EXCEPT ![c] = pc]
Unchanged(rest) == UNCHANGED <<apc, accepted, watcher, lnOpen, ctxDone, returned, rest>>

\* A connection that is registered whether or not the sweep has run.
register_Late(c) ==
    /\ hpc[c] = "register"
    /\ entries' = entries \cup {c}
    /\ Goes(c, "attach")
    /\ Unchanged(<<sem, withRemote, closed, legs>>)

\* registry.register, under r.mu; too late a connection is reset.
register(c) ==
    /\ hpc[c] = "register"
    /\ IF closed
       THEN /\ local' = [local EXCEPT ![c] = "down"]
            /\ Goes(c, "release") /\ UNCHANGED entries
       ELSE /\ entries' = entries \cup {c}
            /\ Goes(c, "attach") /\ UNCHANGED local
    /\ Unchanged(<<sem, withRemote, closed, remote>>)

AttachOk(c) ==
    /\ hpc[c] = "attach"
    /\ remote' = [remote EXCEPT ![c] = "open"]
    /\ Goes(c, "setRemote")
    /\ Unchanged(<<sem, registry, local>>)

AttachFails(c) ==
    /\ hpc[c] = "attach"
    /\ local' = [local EXCEPT ![c] = "down"]
    /\ Goes(c, "deregister")
    /\ Unchanged(<<sem, registry, remote>>)

\* registry.setRemote, under r.mu: after the sweep both legs are reset here.
setRemote(c) ==
    /\ hpc[c] = "setRemote"
    /\ IF closed \/ c \notin entries
       THEN /\ local' = [local EXCEPT ![c] = "down"]
            /\ remote' = [remote EXCEPT ![c] = "down"]
            /\ Goes(c, "deregister") /\ UNCHANGED withRemote
       ELSE /\ withRemote' = withRemote \cup {c}
            /\ Goes(c, "pipe") /\ UNCHANGED legs
    /\ Unchanged(<<sem, entries, closed>>)

\* tunnel.Pipe returns and has closed both legs.
PipeEnds(c) ==
    /\ hpc[c] = "pipe"
    /\ local' = [local EXCEPT ![c] = "down"]
    /\ remote' = [remote EXCEPT ![c] = "down"]
    /\ Goes(c, "deregister")
    /\ Unchanged(<<sem, registry>>)

\* An entry that is left to the sweep once the sweep has begun.
deregister_UnlessClosed(c) ==
    /\ hpc[c] = "deregister"
    /\ entries' = IF closed THEN entries ELSE entries \ {c}
    /\ withRemote' = IF closed THEN withRemote ELSE withRemote \ {c}
    /\ Goes(c, "release")
    /\ Unchanged(<<sem, closed, legs>>)

deregister(c) ==
    /\ hpc[c] = "deregister"
    /\ entries' = entries \ {c} /\ withRemote' = withRemote \ {c}
    /\ Goes(c, "release")
    /\ Unchanged(<<sem, closed, legs>>)

\* <-f.sem and f.wg.Done()
Release(c) ==
    /\ hpc[c] = "release"
    /\ sem' = sem - 1
    /\ Goes(c, "done")
    /\ Unchanged(<<registry, legs>>)

\* What a handler does by itself. Attach has timeouts of its own.
Handler(c) == \/ register(c) \/ AttachOk(c) \/ AttachFails(c) \/ setRemote(c)
              \/ deregister(c) \/ Release(c)

-----------------------------------------------------------------------------
Quiet == \A c \in Conns : hpc[c] \in {"none", "done"}

\* f.wg.Wait()
RunReturns ==
    /\ ~returned /\ apc = "done" /\ watcher = "done" /\ Quiet
    /\ returned' = TRUE
    /\ UNCHANGED <<apc, accepted, watcher, lnOpen, sem, hpc, registry, legs, ctxDone>>

Watcher == WatcherArrives \/ closeAll \/ WatcherClosesListener

Next == \/ Cancel \/ Watcher
        \/ AcceptConn \/ RefuseConn \/ AcceptFails \/ AcceptLoopEnds
        \/ \E c \in Conns : Handler(c) \/ PipeEnds(c)
        \/ RunReturns

Spec == Init /\ [][Next]_vars

(* Goroutines run, and Accept fails once its listener is closed. A splice is  *)
(* only sure to end when both its legs are down.                              *)
Fairness ==
    /\ WF_vars(Watcher)
    /\ WF_vars(~lnOpen /\ AcceptFails) /\ WF_vars(AcceptLoopEnds)
    /\ \A c \in Conns : /\ WF_vars(Handler(c))
                        /\ WF_vars(local[c] = "down" /\ remote[c] = "down" /\ PipeEnds(c))
    /\ WF_vars(RunReturns)

FairSpec == Spec /\ Fairness

-----------------------------------------------------------------------------
(* Safety *)

\* No forward slips past the sweep, however its registration, its attach and
\* the sweep interleave: once the registry is closed every registered local leg
\* is down, and an open remote leg belongs to a handler about to reset it.
SweepMissesNothing ==
    closed => \A c \in entries :
                  /\ local[c] = "down"
                  /\ remote[c] = "open" => hpc[c] = "setRemote"

\* The cap is exact: a slot is taken for as long as a handler runs and for no
\* longer, so that finished forwards never use up the cap.
SlotsMatchHandlers == sem = Cardinality({c \in Conns : hpc[c] \notin {"none", "done"}})

\* An open leg always belongs to a handler that will close it.
LegsAreOwned ==
    \A c \in Conns :
        /\ local[c] = "open" => hpc[c] \in {"register", "attach", "setRemote", "pipe"}
        /\ remote[c] = "open" => hpc[c] \in {"setRemote", "pipe"}

\* The accept loop has stopped without a sweep: the watcher left with it.
LeftBehind == watcher = "done" /\ ~closed

\* Once Run has returned RegistrySize is zero, no leg is open and every slot has
\* been given back, whichever way each handler left. The listener is closed too,
\* unless an accept fault after the cancellation ended the watcher first.
NothingLeft ==
    returned => /\ entries = {} /\ sem = 0
                /\ \A c \in Conns : local[c] # "open" /\ remote[c] # "open"
                /\ lnOpen => ctxDone /\ LeftBehind

-----------------------------------------------------------------------------
(* Liveness *)

\* After cancellation Run returns, although nobody at either end of a splice does
\* anything, unless the accept loop had already stopped by itself.
CancelEndsRun == ctxDone ~> returned \/ LeftBehind
=============================================================================
