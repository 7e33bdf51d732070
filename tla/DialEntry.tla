----------------------------- MODULE DialEntry -----------------------------
(***************************************************************************)
(* The pool entry of a server the daemon dials: dialEntry of               *)
(* internal/daemon/pool.go. Four kinds of goroutine share it:              *)
(*                                                                         *)
(*   - the run loop (runLoop), which dials, opens the control stream,      *)
(*     publishes the connection, waits for it to end and dials again;      *)
(*   - the liveness probe of the connection it holds                       *)
(*     (runLivenessProbeOn);                                               *)
(*   - callers of Get, who wait on the dialDone channel of the dial that   *)
(*     was under way when they looked;                                     *)
(*   - the caller of Close.                                                *)
(*                                                                         *)
(* Everything done under e.mu is one step; close(done), which the code     *)
(* does after unlocking, is another. Dial attempts are numbered: attempt n *)
(* has channel n, and the connection and control client it produced are    *)
(* also called n. The network is an environment that may fail a dial, drop *)
(* a connection, silence a peer, lose a ping or poison the UDP path of the *)
(* current socket, MaxFaults times in all; a shutdown may come at any time.*)
(***************************************************************************)
EXTENDS Naturals

CONSTANTS
    Callers,        \* goroutines that call Get
    RebindAfter,    \* transportRebindAfter
    FailThreshold,  \* LivenessPolicy.FailThreshold()
    MaxFaults       \* bound on what the environment may break

ASSUME RebindAssumption == RebindAfter \in Nat \ {0}
ASSUME ThresholdAssumption == FailThreshold \in Nat \ {0}
ASSUME FaultsAssumption == MaxFaults \in Nat

VARIABLES
    rpc,            \* where the run loop is
    gen,            \* number of the current dial attempt (names dialDone)
    closed,         \* the dialDone channels that have been closed
    intState, current, controlClient, dialing, dialErr,   \* guarded by e.mu
    fails,          \* consecutiveFails
    attempt,        \* the backoff attempt counter
    stable,         \* the session has been up for longer than StableAfter
    runErr,         \* the error of the dial that just failed
    ppc,            \* where the probe goroutine is
    pfails,         \* its consecutiveFailures
    waitOn,         \* the channel each Get caller waits on, 0 outside Get
    ctxDone,        \* the entry's context is cancelled
    cpc,            \* where the caller of Close is
    taken,          \* what Close took from the entry: <<conn, control client>>
    t,              \* the transport in use, by number
    sockets,        \* transports whose socket is open
    poisoned,       \* transports no dial can succeed on any more
    openConns,      \* connections that have not ended
    openClients,    \* control clients that have not been closed
    silent,         \* connections whose peer has stopped answering
    faults          \* how much the environment has broken so far

mvars == <<intState, current, controlClient, dialing, dialErr>>
rvars == <<rpc, gen, closed, fails, attempt, stable, runErr>>
pvars == <<ppc, pfails>>
cvars == <<ctxDone, cpc, taken>>
tvars == <<t, sockets, poisoned>>
nvars == <<openConns, openClients, silent, faults>>
vars == <<mvars, rvars, pvars, waitOn, cvars, tvars, nvars>>

None == 0
NoErr == "nil"

\* Run-loop locations at which it has unlocked e.mu and is about to close the
\* dialDone channel of this attempt, and where it goes from there.
AfterWake == [wake_stop |-> "done", wake_auth |-> "done",
              wake_fail |-> "rebind", wake_live |-> "live"]
RunPCs == {"top", "dial", "open", "record", "failed", "rebind", "backoff",
           "live", "join", "lost", "done"} \cup DOMAIN AfterWake

TypeOK ==
    /\ rpc \in RunPCs
    /\ gen \in Nat \ {0}
    /\ closed \subseteq 1..gen
    /\ intState \in {"connecting", "connected", "reconnecting", "authFailed"}
    /\ current \in 0..gen
    /\ controlClient \in 0..gen
    /\ dialing \in BOOLEAN
    /\ dialErr \in {NoErr, "dial", "auth", "ctx"}
    /\ fails \in Nat
    /\ attempt \in Nat
    /\ stable \in BOOLEAN
    /\ runErr \in {NoErr, "dial", "auth"}
    /\ ppc \in {"off", "wait", "ping", "done"}
    /\ pfails \in 0..FailThreshold
    /\ waitOn \in [Callers -> 0..gen]
    /\ ctxDone \in BOOLEAN
    /\ cpc \in {"idle", "take", "shut", "await", "done"}
    /\ taken \in (0..gen) \X (0..gen)
    /\ t \in Nat \ {0}
    /\ sockets \subseteq 1..t
    /\ poisoned \subseteq 1..t
    /\ openConns \subseteq 1..gen
    /\ openClients \subseteq 1..gen
    /\ silent \subseteq 1..gen
    /\ faults \in 0..MaxFaults

\* newDialEntry: a dial is under way from the start.
Init ==
    /\ rpc = "top" /\ gen = 1 /\ closed = {}
    /\ intState = "connecting" /\ current = None /\ controlClient = None
    /\ dialing = TRUE /\ dialErr = NoErr
    /\ fails = 0 /\ attempt = 0 /\ stable = FALSE /\ runErr = NoErr
    /\ ppc = "off" /\ pfails = 0
    /\ waitOn = [c \in Callers |-> None]
    /\ ctxDone = FALSE /\ cpc = "idle" /\ taken = <<None, None>>
    /\ t = 1 /\ sockets = {1} /\ poisoned = {}
    /\ openConns = {} /\ openClients = {} /\ silent = {} /\ faults = 0

-----------------------------------------------------------------------------
(* The environment *)

\* Something breaks, if the bound allows one more fault.
Fault == faults < MaxFaults /\ faults' = faults + 1

\* The connection drops: NAT timeout, agent restart, idle timeout.
ConnDrops ==
    /\ openConns # {}
    /\ Fault
    /\ \E c \in openConns : openConns' = openConns \ {c}
    /\ UNCHANGED <<mvars, rvars, pvars, waitOn, cvars, tvars, openClients, silent>>

\* The agent dies without a word: the connection stays up, nothing answers.
PeerGoesSilent ==
    /\ Fault
    /\ \E c \in openConns \ silent : silent' = silent \cup {c}
    /\ UNCHANGED <<mvars, rvars, pvars, waitOn, cvars, tvars, openConns, openClients>>

\* NAT poisoning: no dial from this socket will ever succeed again.
PathIsPoisoned ==
    /\ Fault
    /\ t \notin poisoned
    /\ poisoned' = poisoned \cup {t}
    /\ UNCHANGED <<mvars, rvars, pvars, waitOn, cvars, t, sockets,
                   openConns, openClients, silent>>

\* The session has now been up for longer than policy.StableAfter().
SessionBecomesStable ==
    /\ rpc = "live" /\ ~stable /\ stable' = TRUE
    /\ UNCHANGED <<mvars, rpc, gen, closed, fails, attempt, runErr, pvars,
                   waitOn, cvars, tvars, nvars>>

\* The daemon's root context, the parent of the entry's, is cancelled.
ParentCancelled ==
    /\ ~ctxDone /\ ctxDone' = TRUE
    /\ UNCHANGED <<mvars, rvars, pvars, waitOn, cpc, taken, tvars, nvars>>

Environment == \/ ConnDrops \/ PeerGoesSilent \/ PathIsPoisoned
               \/ SessionBecomesStable \/ ParentCancelled

-----------------------------------------------------------------------------
(* The run loop *)

\* The head of the loop finds the context cancelled and records why.
TopCancelled ==
    /\ rpc = "top" /\ ctxDone
    /\ dialErr' = "ctx" /\ dialing' = FALSE
    /\ rpc' = "wake_stop"
    /\ UNCHANGED <<intState, current, controlClient, gen, closed, fails, attempt,
                   stable, runErr, pvars, waitOn, cvars, tvars, nvars>>

TopDials ==
    /\ rpc = "top" /\ ~ctxDone
    /\ rpc' = "dial"
    /\ UNCHANGED <<mvars, gen, closed, fails, attempt, stable, runErr, pvars,
                   waitOn, cvars, tvars, nvars>>

\* e.t.Dial succeeds. A cancelled context does not exclude it.
DialOk ==
    /\ rpc = "dial" /\ t \in sockets \ poisoned
    /\ openConns' = openConns \cup {gen}
    /\ rpc' = "open"
    /\ UNCHANGED <<mvars, gen, closed, fails, attempt, stable, runErr, pvars,
                   waitOn, cvars, tvars, openClients, silent, faults>>

\* e.t.Dial fails: a poisoned path, a cancelled context, or a fault, which may
\* be the peer refusing our key.
DialFails ==
    /\ rpc = "dial"
    /\ \/ /\ ctxDone \/ t \notin sockets \/ t \in poisoned
          /\ runErr' = "dial" /\ UNCHANGED faults
       \/ /\ Fault
          /\ runErr' \in {"dial", "auth"}
    /\ rpc' = "failed"
    /\ UNCHANGED <<mvars, gen, closed, fails, attempt, stable, pvars, waitOn,
                   cvars, tvars, openConns, openClients, silent>>

\* openControlStream succeeds: the far end answered on a live connection, and
\* the last call of the handshake finished before the context was cancelled.
OpenControlOk ==
    /\ rpc = "open" /\ ~ctxDone /\ gen \in openConns \ silent
    /\ openClients' = openClients \cup {gen}
    /\ rpc' = "record"
    /\ UNCHANGED <<mvars, gen, closed, fails, attempt, stable, runErr, pvars,
                   waitOn, cvars, tvars, openConns, silent, faults>>

\* A slip of the kind OpenControlFails guards against: the connection is left open.
OpenControlFails_LeavesConn ==
    /\ rpc = "open"
    /\ \/ /\ ctxDone \/ gen \notin openConns \/ gen \in silent
          /\ runErr' = "dial" /\ UNCHANGED faults
       \/ /\ Fault
          /\ runErr' \in {"dial", "auth"}
    /\ rpc' = "failed"
    /\ UNCHANGED <<mvars, gen, closed, fails, attempt, stable, pvars, waitOn,
                   cvars, tvars, openConns, openClients, silent>>

\* openControlStream fails and dialAndOpen closes the connection (0x03). The
\* rejection of our key by the agent surfaces here, as the close cause.
OpenControlFails ==
    /\ rpc = "open"
    /\ \/ /\ ctxDone \/ gen \notin openConns \/ gen \in silent
          /\ runErr' = "dial" /\ UNCHANGED faults
       \/ /\ Fault
          /\ runErr' \in {"dial", "auth"}
    /\ openConns' = openConns \ {gen}
    /\ rpc' = "failed"
    /\ UNCHANGED <<mvars, gen, closed, fails, attempt, stable, pvars, waitOn,
                   cvars, tvars, openClients, silent>>

\* dialAndOpen records the live connection under the lock.
RecordConnection ==
    /\ rpc = "record"
    /\ intState' = "connected"
    /\ current' = gen /\ controlClient' = gen
    /\ dialErr' = NoErr /\ dialing' = FALSE
    /\ rpc' = "wake_live"
    /\ UNCHANGED <<gen, closed, fails, attempt, stable, runErr, pvars, waitOn,
                   cvars, tvars, nvars>>

\* The dial failed, and the context was cancelled meanwhile: runLoop returns
\* at once.
FailedCancelled ==
    /\ rpc = "failed" /\ ctxDone
    /\ rpc' = "done"
    /\ UNCHANGED <<mvars, gen, closed, fails, attempt, stable, runErr, pvars,
                   waitOn, cvars, tvars, nvars>>

\* An authentication failure is permanent.
FailedAuth ==
    /\ rpc = "failed" /\ ~ctxDone /\ runErr = "auth"
    /\ intState' = "authFailed"
    /\ dialErr' = runErr /\ dialing' = FALSE
    /\ rpc' = "wake_auth"
    /\ UNCHANGED <<current, controlClient, gen, closed, fails, attempt, stable,
                   runErr, pvars, waitOn, cvars, tvars, nvars>>

\* Any other failure is counted and recorded for Get.
FailedTransient ==
    /\ rpc = "failed" /\ ~ctxDone /\ runErr = "dial"
    /\ fails' = fails + 1 /\ attempt' = attempt + 1
    /\ dialErr' = runErr /\ dialing' = FALSE
    /\ rpc' = "wake_fail"
    /\ UNCHANGED <<intState, current, controlClient, gen, closed, stable, runErr,
                   pvars, waitOn, cvars, tvars, nvars>>

\* close(done), after the lock has been released. On success the loop then
\* resets its counters and starts the probe goroutine.
CloseDialDone ==
    /\ rpc \in DOMAIN AfterWake
    /\ closed' = closed \cup {gen}
    /\ rpc' = AfterWake[rpc]
    /\ IF rpc = "wake_live"
       THEN /\ fails' = 0 /\ attempt' = 0 /\ stable' = FALSE
            /\ ppc' = "wait" /\ pfails' = 0
       ELSE UNCHANGED <<fails, attempt, stable, pvars>>
    /\ UNCHANGED <<mvars, gen, runErr, waitOn, cvars, tvars, nvars>>

\* At every multiple of RebindAfter failures the socket is replaced, unless
\* the factory fails, in which case the old one stays.
Rebind ==
    /\ rpc = "rebind" /\ rpc' = "backoff"
    /\ IF fails % RebindAfter = 0
       THEN \/ /\ t' = t + 1
               /\ sockets' = (sockets \ {t}) \cup {t + 1}
               /\ UNCHANGED faults
            \/ Fault /\ UNCHANGED <<t, sockets>>
       ELSE UNCHANGED <<t, sockets, faults>>
    /\ UNCHANGED <<mvars, gen, closed, fails, attempt, stable, runErr, pvars,
                   waitOn, cvars, poisoned, openConns, openClients, silent>>

\* The wait for the backoff delay is cut short by the context.
BackoffCancelled ==
    /\ rpc = "backoff" /\ ctxDone
    /\ rpc' = "done"
    /\ UNCHANGED <<mvars, gen, closed, fails, attempt, stable, runErr, pvars,
                   waitOn, cvars, tvars, nvars>>

\* The delay is over: a new attempt with a new channel. The reason of the last
\* failure is kept.
BackoffElapsed ==
    /\ rpc = "backoff"
    /\ dialing' = TRUE /\ gen' = gen + 1
    /\ rpc' = "top"
    /\ UNCHANGED <<intState, current, controlClient, dialErr, closed, fails,
                   attempt, stable, runErr, pvars, waitOn, cvars, tvars, nvars>>

\* Declaring the session over when its probe has seen one failure.
ConnDone_OnFirstMiss ==
    /\ rpc = "live" /\ (gen \notin openConns \/ pfails > 0)
    /\ rpc' = "join"
    /\ UNCHANGED <<mvars, gen, closed, fails, attempt, stable, runErr, pvars,
                   waitOn, cvars, tvars, nvars>>

\* <-conn.Context().Done(), then probeCancel().
ConnDone ==
    /\ rpc = "live" /\ gen \notin openConns
    /\ rpc' = "join"
    /\ UNCHANGED <<mvars, gen, closed, fails, attempt, stable, runErr, pvars,
                   waitOn, cvars, tvars, nvars>>

\* <-probeDone. During a shutdown the loop returns, leaving the rest to Close.
ProbeJoined ==
    /\ rpc = "join" /\ ppc = "done"
    /\ ppc' = "off"
    /\ rpc' = IF ctxDone THEN "done" ELSE "lost"
    /\ attempt' = IF ~ctxDone /\ stable THEN 0 ELSE attempt
    /\ UNCHANGED <<mvars, gen, closed, fails, stable, runErr, pfails, waitOn,
                   cvars, tvars, nvars>>

\* A transition that leaves the ended session's control client in place.
SessionLost_KeepsClient ==
    /\ rpc = "lost"
    /\ intState' = "reconnecting"
    /\ current' = None
    /\ openClients' = openClients \ {gen}
    /\ dialing' = TRUE /\ gen' = gen + 1 /\ dialErr' = NoErr
    /\ rpc' = "top"
    /\ UNCHANGED <<controlClient, closed, fails, attempt, stable, runErr, pvars,
                   waitOn, cvars, tvars, openConns, silent, faults>>

\* The transition to reconnecting, with a fresh dial slot.
SessionLost ==
    /\ rpc = "lost"
    /\ intState' = "reconnecting"
    /\ current' = None /\ controlClient' = None
    /\ openClients' = openClients \ {gen}
    /\ dialing' = TRUE /\ gen' = gen + 1 /\ dialErr' = NoErr
    /\ rpc' = "top"
    /\ UNCHANGED <<closed, fails, attempt, stable, runErr, pvars, waitOn, cvars,
                   tvars, openConns, silent, faults>>

RunLoop == \/ TopCancelled \/ TopDials \/ DialOk \/ DialFails \/ OpenControlOk
           \/ OpenControlFails \/ RecordConnection \/ FailedCancelled
           \/ FailedAuth \/ FailedTransient \/ CloseDialDone \/ Rebind
           \/ BackoffCancelled \/ BackoffElapsed \/ ConnDone \/ ProbeJoined
           \/ SessionLost

-----------------------------------------------------------------------------
(* The liveness probe *)

\* probeCtx is a child of the entry's context; runLoop cancels it once the
\* connection has ended.
ProbeCancelled == ctxDone \/ rpc = "join"

ProbeStops ==
    /\ ppc \in {"wait", "ping"} /\ ProbeCancelled
    /\ ppc' = "done"
    /\ UNCHANGED <<mvars, rvars, pfails, waitOn, cvars, tvars, nvars>>

ProbeTick ==
    /\ ppc = "wait" /\ ~ProbeCancelled
    /\ ppc' = "ping"
    /\ UNCHANGED <<mvars, rvars, pfails, waitOn, cvars, tvars, nvars>>

PingAnswered ==
    /\ ppc = "ping" /\ gen \in (openConns \cap openClients) \ silent
    /\ ppc' = "wait" /\ pfails' = 0
    /\ UNCHANGED <<mvars, rvars, waitOn, cvars, tvars, nvars>>

\* A probe that counts its failures and never acts on them.
PingFails_NeverCloses ==
    /\ ppc = "ping" /\ ~ProbeCancelled
    /\ \/ gen \notin openConns \/ gen \in silent
       \/ gen \notin openClients
    /\ UNCHANGED <<pfails, faults>>
    /\ ppc' = "wait"
    /\ UNCHANGED <<mvars, rvars, waitOn, cvars, tvars, openConns, openClients,
                   silent>>

\* A ping goes unanswered. After FailThreshold in a row the probe closes the
\* connection, which is what the run loop is waiting for.
PingFails ==
    /\ ppc = "ping" /\ ~ProbeCancelled
    /\ \/ /\ gen \notin openConns \/ gen \in silent \/ gen \notin openClients
          /\ UNCHANGED faults
       \/ Fault
    /\ pfails' = pfails + 1
    /\ IF pfails' >= FailThreshold
       THEN ppc' = "done" /\ openConns' = openConns \ {gen}
       ELSE ppc' = "wait" /\ UNCHANGED openConns
    /\ UNCHANGED <<mvars, rvars, waitOn, cvars, tvars, openClients, silent>>

Probe == ProbeStops \/ ProbeTick \/ PingAnswered \/ PingFails

-----------------------------------------------------------------------------
(* Get *)

\* What Get decides under the lock: an answer, or the channel to wait on.
GetLooks(c) ==
    waitOn' = [waitOn EXCEPT ![c] = IF current # None \/ ~dialing THEN None ELSE gen]

GetEnters(c) ==
    /\ waitOn[c] = None /\ GetLooks(c)
    /\ UNCHANGED <<mvars, rvars, pvars, cvars, tvars, nvars>>

\* The channel was closed: Get goes round again.
GetWakes(c) ==
    /\ waitOn[c] \in closed /\ GetLooks(c)
    /\ UNCHANGED <<mvars, rvars, pvars, cvars, tvars, nvars>>

\* The caller's own context ends.
GetGivesUp(c) ==
    /\ waitOn[c] # None
    /\ waitOn' = [waitOn EXCEPT ![c] = None]
    /\ UNCHANGED <<mvars, rvars, pvars, cvars, tvars, nvars>>

-----------------------------------------------------------------------------
(* Close *)

CloseCancels ==
    /\ cpc = "idle"
    /\ ctxDone' = TRUE /\ cpc' = "take"
    /\ UNCHANGED <<mvars, rvars, pvars, waitOn, taken, tvars, nvars>>

CloseTakes ==
    /\ cpc = "take"
    /\ taken' = <<current, controlClient>>
    /\ current' = None /\ controlClient' = None
    /\ cpc' = "shut"
    /\ UNCHANGED <<intState, dialing, dialErr, rvars, pvars, waitOn, ctxDone,
                   tvars, nvars>>

\* A Close that relies on the run loop to end the connection.
CloseShuts_ClientOnly ==
    /\ cpc = "shut"
    /\ openClients' = openClients \ {taken[2]}
    /\ cpc' = "await"
    /\ UNCHANGED <<mvars, rvars, pvars, waitOn, ctxDone, taken, tvars, openConns,
                   silent, faults>>

CloseShuts ==
    /\ cpc = "shut"
    /\ openConns' = openConns \ {taken[1]}
    /\ openClients' = openClients \ {taken[2]}
    /\ cpc' = "await"
    /\ UNCHANGED <<mvars, rvars, pvars, waitOn, ctxDone, taken, tvars, silent,
                   faults>>

\* <-e.runDone, then the socket is released.
CloseReturns ==
    /\ cpc = "await" /\ rpc = "done"
    /\ sockets' = sockets \ {t}
    /\ cpc' = "done"
    /\ UNCHANGED <<mvars, rvars, pvars, waitOn, ctxDone, taken, t, poisoned, nvars>>

Close == CloseCancels \/ CloseTakes \/ CloseShuts \/ CloseReturns

-----------------------------------------------------------------------------
Next == \/ Environment \/ RunLoop \/ Probe \/ Close
        \/ \E c \in Callers : GetEnters(c) \/ GetWakes(c) \/ GetGivesUp(c)

Spec == Init /\ [][Next]_vars

(* Goroutines that can run are scheduled; timers fire and every network call  *)
(* of the entry has a deadline, so run loop and probe always make progress.   *)
(* Close, once called, runs. Nothing is assumed of the environment or of the  *)
(* callers' contexts.                                                         *)
Fairness ==
    /\ WF_vars(RunLoop)
    /\ WF_vars(Probe)
    /\ \A c \in Callers : WF_vars(GetWakes(c))
    /\ WF_vars(CloseTakes \/ CloseShuts \/ CloseReturns)

FairSpec == Spec /\ Fairness

-----------------------------------------------------------------------------
(* What callers see *)

\* dialStateLabel: the state reported by status.
dialStateLabel == CASE intState = "connected" -> "connected"
                    [] intState = "authFailed" -> "auth_failed"
                    [] OTHER -> "connecting"

-----------------------------------------------------------------------------
(* Safety *)

\* close(done) never panics: whenever the run loop is about to close a dialDone
\* channel, that channel is still open, on every path through the loop.
NoDoubleClose == rpc \in DOMAIN AfterWake => gen \notin closed

InFlight == {"top", "dial", "open", "record", "failed"} \cup DOMAIN AfterWake

\* No wake-up is lost: a Get caller that waits on a channel that is still open
\* waits on that of the attempt in flight, whose end the run loop has yet to
\* announce. The only exception is a loop that a shutdown ended.
NoLostWakeup ==
    \A c \in Callers : waitOn[c] \notin closed \cup {None} =>
        /\ waitOn[c] = gen
        /\ rpc \in InFlight \/ (ctxDone /\ rpc = "done")

\* Until shutdown, Get always has an answer: with no connection and no dial
\* under way there is a recorded reason, so its generic "no connection
\* available" error is never what a caller sees.
GetHasReason == ~ctxDone /\ current = None /\ ~dialing => dialErr # NoErr

\* The fields guarded by e.mu agree in every state another goroutine can see:
\* the control client belongs to the connection handed out, both are those of
\* the latest attempt, status says "connected" exactly while they are there, and
\* without them there is a reason to give.
SessionConsistent ==
    /\ GetHasReason
    /\ controlClient = current
    /\ current # None => current = gen /\ dialStateLabel = "connected" /\ ~dialing
    /\ ~ctxDone /\ dialStateLabel = "connected" => current = gen

\* The entry owns exactly one socket, through rebinds and failed rebinds, until
\* Close returns; then the socket is released and no connection is left open.
SocketOwned == IF cpc = "done" THEN sockets = {} /\ openConns = {}
                               ELSE sockets = {t}

\* No reconnect leaks what the previous session held: every connection and
\* control client still open belongs to the latest attempt, and there is one
\* socket, however many rebinds there were.
NothingLeaksAcrossReconnects ==
    /\ openConns \cup openClients \subseteq {gen}
    /\ SocketOwned

\* A rejected key is final: after auth_failed the entry neither changes its
\* mind nor dials again.
AuthFailedIsFinal ==
    [][dialStateLabel = "auth_failed" =>
           dialStateLabel' = "auth_failed" /\ gen' = gen /\ openConns' \subseteq openConns]_vars

\* The entry implements the session slot: newer connections only, emptied only
\* when the connection has ended or the entry is shutting down.
Slot == INSTANCE SessionSlot WITH
            slot <- current,
            high <- IF intState = "connected" THEN gen ELSE gen - 1,
            open <- openConns,
            stopping <- ctxDone
SlotSpec == Slot!Spec

-----------------------------------------------------------------------------
(* Liveness *)

\* Once the environment stops breaking things the session comes back, and stays:
\* a silent peer is found by the probe, a poisoned path is left by the rebind.
Recovers == <>[](\/ ctxDone \/ intState = "authFailed"
                 \/ current \in openConns \ silent)

\* Whoever waits on the entry is let go. A Get caller is answered, even if its
\* own context never ends, unless the entry shuts down; Close returns wherever
\* it finds the run loop, except between the end of the control handshake and
\* the lock that records the connection.
CallersReturn ==
    /\ \A c \in Callers : waitOn[c] # None ~> waitOn[c] = None \/ ctxDone
    /\ cpc = "take" /\ rpc # "record" ~> cpc = "done"

-----------------------------------------------------------------------------
(* What the comments of pool.go promise and the code does not keep *)

\* "Close cancels the entry's run-loop and closes the live connection", and the
\* loop "exits when ctx is cancelled": a Close that was called returns.
CloseAlwaysReturns == cpc # "idle" ~> cpc = "done"
=============================================================================
