---------------------------- MODULE ListenEntry ----------------------------
(***************************************************************************)
(* The pool entry of a server the daemon waits for: listenEntry of         *)
(* internal/daemon/listen_entry.go. The agent opens the transport; the     *)
(* accept loop (runLoop) vets each arrival, opens the control stream on it *)
(* and, if that works, makes it the current session (promote), displacing  *)
(* the previous one. Every session has a watcher goroutine                 *)
(* (serveUntilDrop) with a liveness probe. Get callers wait on the channel *)
(* `waiting`; Close shuts everything down.                                 *)
(*                                                                         *)
(* Connections are numbered in the order they are accepted; the control    *)
(* client opened on connection c is also called c. Channel `waiting` is    *)
(* named by a number as well: it is closed and replaced in one locked      *)
(* section, so every channel but the newest is closed. Whatever is done    *)
(* under e.mu is one step.                                                 *)
(***************************************************************************)
EXTENDS Naturals

CONSTANTS
    Callers,        \* goroutines that call Get
    FailThreshold,  \* LivenessPolicy.FailThreshold()
    MaxConns,       \* bound on the connections that arrive
    MaxFaults       \* bound on what the environment may break

ASSUME ThresholdAssumption == FailThreshold \in Nat \ {0}
ASSUME ConnsAssumption == MaxConns \in Nat
ASSUME FaultsAssumption == MaxFaults \in Nat

Conns == 1..MaxConns

VARIABLES
    apc,            \* where the accept loop is
    n,              \* connections accepted so far; n is the one being promoted
    previous,       \* what promote found in the slot: <<conn, control client>>
    intState, current, controlClient, waiting, waitErr,   \* guarded by e.mu
    wpc,            \* where the watcher of each connection is
    ppc, pfails,    \* each watcher's probe and its consecutiveFailures
    waitOn,         \* the channel each Get caller waits on, 0 outside Get
    ctxDone,        \* the entry's context is cancelled
    cpc,            \* where the caller of Close is
    taken,          \* what Close took from the entry: <<conn, control client>>
    lnOpen,         \* the listener accepts
    sockOpen,       \* the transport's socket is open
    openConns,      \* connections that have not ended
    openClients,    \* control clients that have not been closed
    silent,         \* connections whose peer has stopped answering
    faults          \* how much the environment has broken so far

avars == <<apc, n, previous>>
mvars == <<intState, current, controlClient, waiting, waitErr>>
wvars == <<wpc, ppc, pfails>>
cvars == <<ctxDone, cpc, taken, lnOpen, sockOpen>>
nvars == <<openConns, openClients, silent, faults>>
vars == <<avars, mvars, wvars, waitOn, cvars, nvars>>

None == 0

TypeOK ==
    /\ apc \in {"top", "accept", "retry", "vet", "open", "check", "install",
                "displace", "done"}
    /\ n \in 0..MaxConns
    /\ previous \in (0..MaxConns) \X (0..MaxConns)
    /\ intState \in {"connecting", "connected"}
    /\ current \in 0..MaxConns
    /\ controlClient \in 0..MaxConns
    /\ waiting \in Nat \ {0}
    /\ waitErr \in BOOLEAN
    /\ wpc \in [Conns -> {"none", "start", "watch", "join", "lost", "release", "done"}]
    /\ ppc \in [Conns -> {"off", "on", "done"}]
    /\ pfails \in [Conns -> 0..FailThreshold]
    /\ waitOn \in [Callers -> 0..waiting]
    /\ ctxDone \in BOOLEAN
    /\ cpc \in {"idle", "take", "shut", "await", "join", "done"}
    /\ taken \in (0..MaxConns) \X (0..MaxConns)
    /\ lnOpen \in BOOLEAN
    /\ sockOpen \in BOOLEAN
    /\ openConns \subseteq Conns
    /\ openClients \subseteq Conns
    /\ silent \subseteq Conns
    /\ faults \in 0..MaxFaults

Init ==
    /\ apc = "top" /\ n = 0 /\ previous = <<None, None>>
    /\ intState = "connecting" /\ current = None /\ controlClient = None
    /\ waiting = 1 /\ waitErr = FALSE
    /\ wpc = [c \in Conns |-> "none"]
    /\ ppc = [c \in Conns |-> "off"]
    /\ pfails = [c \in Conns |-> 0]
    /\ waitOn = [g \in Callers |-> None]
    /\ ctxDone = FALSE /\ cpc = "idle" /\ taken = <<None, None>>
    /\ lnOpen = TRUE /\ sockOpen = TRUE
    /\ openConns = {} /\ openClients = {} /\ silent = {} /\ faults = 0

-----------------------------------------------------------------------------
(* The environment *)

Fault == faults < MaxFaults /\ faults' = faults + 1

ConnDrops ==
    /\ Fault
    /\ \E c \in openConns : openConns' = openConns \ {c}
    /\ UNCHANGED <<avars, mvars, wvars, waitOn, cvars, openClients, silent>>

\* The agent restarts or loses its network: this side has not noticed.
PeerGoesSilent ==
    /\ Fault
    /\ \E c \in openConns \ silent : silent' = silent \cup {c}
    /\ UNCHANGED <<avars, mvars, wvars, waitOn, cvars, openConns, openClients>>

ParentCancelled ==
    /\ ~ctxDone /\ ctxDone' = TRUE
    /\ UNCHANGED <<avars, mvars, wvars, waitOn, cpc, taken, lnOpen, sockOpen, nvars>>

Environment == ConnDrops \/ PeerGoesSilent \/ ParentCancelled

-----------------------------------------------------------------------------
(* The accept loop *)

\* failWaiters that records the reason and forgets to wake anyone.
failWaiters_Silent == waitErr' = TRUE /\ UNCHANGED waiting

\* failWaiters: record why, close the channel and replace it.
failWaiters == waitErr' = TRUE /\ waiting' = waiting + 1

\* Wherever the loop notices the cancelled context it fails the waiters and
\* returns: at the head of the loop, after a failed Accept, or in the pause.
LoopStops ==
    /\ apc \in {"top", "accept", "retry"} /\ ctxDone
    /\ failWaiters
    /\ apc' = "done"
    /\ UNCHANGED <<n, previous, intState, current, controlClient, wvars, waitOn,
                   cvars, nvars>>

LoopGoesOn ==
    /\ apc = "top" /\ ~ctxDone
    /\ apc' = "accept"
    /\ UNCHANGED <<n, previous, mvars, wvars, waitOn, cvars, nvars>>

\* An agent connects. Its key was checked during the handshake.
AcceptConn ==
    /\ apc = "accept" /\ lnOpen /\ n < MaxConns
    /\ n' = n + 1
    /\ openConns' = openConns \cup {n + 1}
    /\ apc' = "vet"
    /\ UNCHANGED <<previous, mvars, wvars, waitOn, cvars, openClients, silent, faults>>

\* Accept fails without a shutdown; the loop pauses and goes on.
AcceptFails ==
    /\ apc = "accept" /\ ~ctxDone
    /\ Fault
    /\ apc' = "retry"
    /\ UNCHANGED <<n, previous, mvars, wvars, waitOn, cvars, openConns,
                   openClients, silent>>

RetryElapsed ==
    /\ apc = "retry"
    /\ apc' = "top"
    /\ UNCHANGED <<n, previous, mvars, wvars, waitOn, cvars, nvars>>

\* promote: a peer that uses our own identity is refused.
RefuseOwnIdentity ==
    /\ apc = "vet"
    /\ openConns' = openConns \ {n}
    /\ apc' = "top"
    /\ UNCHANGED <<n, previous, mvars, wvars, waitOn, cvars, openClients, silent,
                   faults>>

PeerIsVetted ==
    /\ apc = "vet"
    /\ apc' = "open"
    /\ UNCHANGED <<n, previous, mvars, wvars, waitOn, cvars, nvars>>

\* openControlStream succeeds, if the peer answers before the context ends.
OpenControlOk ==
    /\ apc = "open" /\ ~ctxDone /\ n \in openConns \ silent
    /\ openClients' = openClients \cup {n}
    /\ apc' = "check"
    /\ UNCHANGED <<n, previous, mvars, wvars, waitOn, cvars, openConns, silent, faults>>

\* ... or it fails: timeout, drop, shutdown.
OpenControlFails ==
    /\ apc = "open"
    /\ \/ (ctxDone \/ n \notin openConns \/ n \in silent) /\ UNCHANGED faults
       \/ Fault
    /\ apc' = "check"
    /\ UNCHANGED <<n, previous, mvars, wvars, waitOn, cvars, openConns,
                   openClients, silent>>

\* A shutdown in progress wins, whether the control stream opened or not; else
\* a failed open only costs the newcomer.
PromoteRefuses ==
    /\ apc = "check"
    /\ ctxDone \/ n \notin openClients
    /\ openConns' = openConns \ {n}
    /\ openClients' = openClients \ {n}
    /\ apc' = "top"
    /\ UNCHANGED <<n, previous, mvars, wvars, waitOn, cvars, silent, faults>>

PromoteDecides ==
    /\ apc = "check" /\ ~ctxDone /\ n \in openClients
    /\ apc' = "install"
    /\ UNCHANGED <<n, previous, mvars, wvars, waitOn, cvars, nvars>>

\* The locked section of promote.
PromoteInstalls ==
    /\ apc = "install"
    /\ previous' = <<current, controlClient>>
    /\ current' = n /\ controlClient' = n
    /\ intState' = "connected"
    /\ waitErr' = FALSE /\ waiting' = waiting + 1
    /\ apc' = "displace"
    /\ UNCHANGED <<n, wvars, waitOn, cvars, nvars>>

\* The displaced session is closed, and the loop starts a watcher for the new
\* one.
PromoteDisplaces ==
    /\ apc = "displace"
    /\ openConns' = openConns \ {previous[1]}
    /\ openClients' = openClients \ {previous[2]}
    /\ wpc' = [wpc EXCEPT ![n] = "start"]
    /\ previous' = <<None, None>>
    /\ apc' = "top"
    /\ UNCHANGED <<n, mvars, ppc, pfails, waitOn, cvars, silent, faults>>

AcceptLoop == \/ LoopStops \/ LoopGoesOn \/ RetryElapsed
              \/ RefuseOwnIdentity \/ PeerIsVetted \/ OpenControlOk
              \/ OpenControlFails \/ PromoteRefuses \/ PromoteDecides
              \/ PromoteInstalls \/ PromoteDisplaces

Arrivals == AcceptConn \/ AcceptFails

-----------------------------------------------------------------------------
(* Watchers: serveUntilDrop, one goroutine per installed connection *)

WatcherStarts(c) ==
    /\ wpc[c] = "start"
    /\ IF current = c
       THEN /\ wpc' = [wpc EXCEPT ![c] = "watch"]
            /\ ppc' = [ppc EXCEPT ![c] = "on"]
       ELSE /\ wpc' = [wpc EXCEPT ![c] = "done"]
            /\ UNCHANGED ppc
    /\ UNCHANGED <<avars, mvars, pfails, waitOn, cvars, nvars>>

\* <-conn.Context().Done(), then probeCancel().
WatcherSeesEnd(c) ==
    /\ wpc[c] = "watch" /\ c \notin openConns
    /\ wpc' = [wpc EXCEPT ![c] = "join"]
    /\ UNCHANGED <<avars, mvars, ppc, pfails, waitOn, cvars, nvars>>

\* <-probeDone; during a shutdown the rest is left to Close.
WatcherJoins(c) ==
    /\ wpc[c] = "join" /\ ppc[c] = "done"
    /\ wpc' = [wpc EXCEPT ![c] = IF ctxDone THEN "done" ELSE "lost"]
    /\ UNCHANGED <<avars, mvars, ppc, pfails, waitOn, cvars, nvars>>

\* A watcher that clears the slot without looking whose it is.
WatcherClears_Always(c) ==
    /\ wpc[c] = "lost"
    /\ intState' = "connecting" /\ current' = None /\ controlClient' = None
    /\ wpc' = [wpc EXCEPT ![c] = "release"]
    /\ UNCHANGED <<avars, waiting, waitErr, ppc, pfails, waitOn, cvars, nvars>>

\* Only the connection that is still current is cleared.
WatcherClears(c) ==
    /\ wpc[c] = "lost"
    /\ IF current = c
       THEN /\ intState' = "connecting" /\ current' = None /\ controlClient' = None
            /\ wpc' = [wpc EXCEPT ![c] = "release"]
       ELSE /\ wpc' = [wpc EXCEPT ![c] = "done"]
            /\ UNCHANGED <<intState, current, controlClient>>
    /\ UNCHANGED <<avars, waiting, waitErr, ppc, pfails, waitOn, cvars, nvars>>

\* The control client of a session that ended on its own is closed here.
WatcherReleases(c) ==
    /\ wpc[c] = "release"
    /\ openClients' = openClients \ {c}
    /\ wpc' = [wpc EXCEPT ![c] = "done"]
    /\ UNCHANGED <<avars, mvars, ppc, pfails, waitOn, cvars, openConns, silent, faults>>

ProbeCancelled(c) == ctxDone \/ wpc[c] = "join"

ProbeStops(c) ==
    /\ ppc[c] = "on" /\ ProbeCancelled(c)
    /\ ppc' = [ppc EXCEPT ![c] = "done"]
    /\ UNCHANGED <<avars, mvars, wpc, pfails, waitOn, cvars, nvars>>

PingAnswered(c) ==
    /\ ppc[c] = "on" /\ c \in (openConns \cap openClients) \ silent
    /\ pfails' = [pfails EXCEPT ![c] = 0]
    /\ UNCHANGED <<avars, mvars, wpc, ppc, waitOn, cvars, nvars>>

\* A probe that gives up watching instead of ending the connection.
PingFails_StopsOnly(c) ==
    /\ ppc[c] = "on" /\ ~ProbeCancelled(c)
    /\ \/ /\ c \notin openConns \/ c \in silent \/ c \notin openClients
          /\ UNCHANGED faults
       \/ Fault
    /\ pfails' = [pfails EXCEPT ![c] = @ + 1]
    /\ ppc' = IF pfails'[c] >= FailThreshold THEN [ppc EXCEPT ![c] = "done"] ELSE ppc
    /\ UNCHANGED <<avars, mvars, wpc, waitOn, cvars, openConns, openClients, silent>>

\* runLivenessProbeOn, shared with the dialing entry: the wait for the next tick
\* and the ping are one step here.
PingFails(c) ==
    /\ ppc[c] = "on" /\ ~ProbeCancelled(c)
    /\ \/ /\ c \notin openConns \/ c \in silent \/ c \notin openClients
          /\ UNCHANGED faults
       \/ Fault
    /\ pfails' = [pfails EXCEPT ![c] = @ + 1]
    /\ IF pfails[c] + 1 >= FailThreshold
       THEN /\ ppc' = [ppc EXCEPT ![c] = "done"]
            /\ openConns' = openConns \ {c}
       ELSE UNCHANGED <<ppc, openConns>>
    /\ UNCHANGED <<avars, mvars, wpc, waitOn, cvars, openClients, silent>>

Probe(c) == ProbeStops(c) \/ PingAnswered(c) \/ PingFails(c)

Watcher(c) == \/ WatcherStarts(c) \/ WatcherSeesEnd(c) \/ WatcherJoins(c)
              \/ WatcherClears(c) \/ WatcherReleases(c)

-----------------------------------------------------------------------------
(* Get *)

GetLooks(g) ==
    waitOn' = [waitOn EXCEPT ![g] = IF current # None \/ waitErr THEN None ELSE waiting]

GetEnters(g) ==
    /\ waitOn[g] = None /\ GetLooks(g)
    /\ UNCHANGED <<avars, mvars, wvars, cvars, nvars>>

GetWakes(g) ==
    /\ waitOn[g] # None /\ waitOn[g] < waiting /\ GetLooks(g)
    /\ UNCHANGED <<avars, mvars, wvars, cvars, nvars>>

\* The caller's own context ends.
GetGivesUp(g) ==
    /\ waitOn[g] # None
    /\ waitOn' = [waitOn EXCEPT ![g] = None]
    /\ UNCHANGED <<avars, mvars, wvars, cvars, nvars>>

-----------------------------------------------------------------------------
(* Close *)

CloseCancels ==
    /\ cpc = "idle"
    /\ ctxDone' = TRUE /\ cpc' = "take"
    /\ UNCHANGED <<avars, mvars, wvars, waitOn, taken, lnOpen, sockOpen, nvars>>

CloseTakes ==
    /\ cpc = "take"
    /\ taken' = <<current, controlClient>>
    /\ current' = None /\ controlClient' = None
    /\ cpc' = "shut"
    /\ UNCHANGED <<avars, intState, waiting, waitErr, wvars, waitOn, ctxDone,
                   lnOpen, sockOpen, nvars>>

\* The session is ended, its client closed and the listener shut.
CloseShuts ==
    /\ cpc = "shut"
    /\ openConns' = openConns \ {taken[1]}
    /\ openClients' = openClients \ {taken[2]}
    /\ lnOpen' = FALSE
    /\ taken' = <<None, None>>
    /\ cpc' = "await"
    /\ UNCHANGED <<avars, mvars, wvars, waitOn, ctxDone, sockOpen, silent,
                   faults>>

\* <-e.runDone
CloseAwaitsLoop ==
    /\ cpc = "await" /\ apc = "done"
    /\ cpc' = "join"
    /\ UNCHANGED <<avars, mvars, wvars, waitOn, ctxDone, taken, lnOpen, sockOpen, nvars>>

\* e.watchers.Wait(), then the socket is released.
CloseReturns ==
    /\ cpc = "join" /\ \A c \in Conns : wpc[c] \in {"none", "done"}
    /\ sockOpen' = FALSE
    /\ cpc' = "done"
    /\ UNCHANGED <<avars, mvars, wvars, waitOn, ctxDone, taken, lnOpen, nvars>>

Close == \/ CloseCancels \/ CloseTakes \/ CloseShuts \/ CloseAwaitsLoop
         \/ CloseReturns

-----------------------------------------------------------------------------
Next == \/ Environment \/ AcceptLoop \/ Arrivals \/ Close
        \/ \E c \in Conns : Watcher(c) \/ Probe(c)
        \/ \E g \in Callers : GetEnters(g) \/ GetWakes(g) \/ GetGivesUp(g)

Spec == Init /\ [][Next]_vars

(* Goroutines that can run are scheduled and the control open is bounded by    *)
(* controlOpenTimeout, so the accept loop, watchers, probes, woken callers and *)
(* a Close under way make progress. Nothing makes an agent connect.            *)
Fairness ==
    /\ WF_vars(AcceptLoop)
    /\ \A c \in Conns : WF_vars(Watcher(c)) /\ WF_vars(Probe(c))
    /\ \A g \in Callers : WF_vars(GetWakes(g))
    /\ WF_vars(CloseTakes \/ CloseShuts \/ CloseAwaitsLoop \/ CloseReturns)

FairSpec == Spec /\ Fairness

-----------------------------------------------------------------------------
(* Safety *)

\* Who is responsible for closing control client c, in each role there is.
Owns(role, c) ==
    CASE role = "slot" -> controlClient = c
      [] role = "promoter" -> n = c /\ apc \in {"check", "install"} /\ c \in openClients
      [] role = "displacer" -> previous[2] = c /\ apc = "displace"
      [] role = "watcher" -> wpc[c] = "release"
      [] role = "closer" -> taken[2] = c /\ cpc = "shut"
Roles == {"slot", "promoter", "displacer", "watcher", "closer"}

\* Ownership of control clients never overlaps and is never dropped: whatever
\* displaces, drops and shuts down a session concurrently, each open client has
\* exactly one goroutine (or the slot) that will close it, a closed one none.
ClientOwnership ==
    \A c \in Conns :
        /\ c \in openClients <=> \E role \in Roles : Owns(role, c)
        /\ \A r1, r2 \in Roles : Owns(r1, c) /\ Owns(r2, c) => r1 = r2

\* No connection is silently dropped: one that is still up is the current
\* session, or about to be installed, refused, displaced or shut.
NoOrphanConnection ==
    \A c \in openConns :
        \/ c = current
        \/ c = n /\ apc \in {"vet", "open", "check", "install"}
        \/ c = previous[1] /\ apc = "displace"
        \/ c = taken[1] /\ cpc = "shut"

\* No wake-up is lost: while there is a session, nobody waits on a channel that
\* has not been closed.
NoLostWakeup == current # None => \A g \in Callers : waitOn[g] # waiting

\* The socket is released only when nothing can touch it any more: the accept
\* loop and every watcher are gone, and so is every connection.
QuietAtTheEnd ==
    ~sockOpen => /\ apc = "done"
                 /\ \A c \in Conns : wpc[c] \in {"none", "done"}
                 /\ openConns = {}

\* The entry implements the session slot: a late watcher never empties the slot
\* of a newer session, and only newer connections are installed.
Slot == INSTANCE SessionSlot WITH
            slot <- current,
            high <- IF apc \in {"vet", "open", "check", "install"} THEN n - 1 ELSE n,
            open <- openConns,
            stopping <- ctxDone
SlotSpec == Slot!Spec

-----------------------------------------------------------------------------
(* Liveness *)

\* Shutdown lets everyone go. Whoever waits in Get is woken, and Close returns
\* wherever it finds the accept loop, except between promote's look at the
\* context and its locked section.
ShutdownCompletes ==
    /\ \A g \in Callers : waitOn[g] # None /\ ctxDone ~> waitOn[g] = None
    /\ cpc = "take" /\ apc # "install" ~> cpc = "done"

\* A peer that has gone silent does not keep the slot.
SilentPeerLosesSlot ==
    \A c \in Conns : current = c /\ c \in silent ~> current # c \/ ctxDone
=============================================================================
