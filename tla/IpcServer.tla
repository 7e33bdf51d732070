----------------------------- MODULE IpcServer -----------------------------
(***************************************************************************)
(* The daemon's local socket: Server of internal/ipc/server.go, with       *)
(* DoAttach of internal/tunnel/attach.go. The accept loop takes a slot of  *)
(* connSem before it accepts; a handler per connection reads one request   *)
(* and answers it. A call (rpc) is answered with one response. An attach   *)
(* is counted against attachCap, waits for the server's session, opens a   *)
(* stream, relays the agent's answer and becomes a splice, which gives its *)
(* slot back early: releaseConn runs its release once, whoever calls it.   *)
(***************************************************************************)
EXTENDS Naturals, FiniteSets

CONSTANTS
    ConnCap,    \* ServerOpts.ConnCap
    AttachCap,  \* ServerOpts.AttachCap
    AgentStreams,   \* streams the agent lets the daemon have open at a time
    MaxConns    \* bound on the connections accepted

ASSUME CapsAssumption == ConnCap \in Nat \ {0} /\ AttachCap \in Nat \ {0}
ASSUME AgentAssumption == AgentStreams \in Nat \ {0}
ASSUME ConnsAssumption == MaxConns \in Nat

Conns == 1..MaxConns

VARIABLES
    apc,        \* where the accept loop is
    accepted,   \* connections accepted so far
    connSem,    \* slots of s.connSem that are taken
    closed,     \* s.closed
    lnOpen,     \* the socket is open
    hpc,        \* where each connection's handler is
    once,       \* the handlers whose releaseConn has run
    answers,    \* responses written to each connection
    inFlight,   \* s.inFlightAttaches
    streams,    \* the attaches whose stream is open
    poolOpen,   \* the session pool has not been closed
    ctxDone,    \* the daemon is shutting down
    returned    \* Serve has returned

loop == <<apc, accepted, closed, lnOpen>>
handlers == <<hpc, once, answers>>
outside == <<poolOpen, ctxDone, returned>>
vars == <<loop, connSem, handlers, inFlight, streams, outside>>

\* Counted attaches: those the cap admitted, and those about to be turned away.
Admitted == {"session", "open", "header", "await", "splice", "wedged", "uncount"}

TypeOK ==
    /\ apc \in {"acquire", "accept", "done"}
    /\ accepted \in 0..MaxConns
    /\ connSem \in 0..ConnCap
    /\ closed \in BOOLEAN /\ lnOpen \in BOOLEAN
    /\ hpc \in [Conns -> {"none", "read", "rpc", "attach", "over", "finish", "done"} \cup Admitted]
    /\ once \subseteq Conns
    /\ answers \in [Conns -> Nat]
    /\ inFlight \in Nat
    /\ streams \subseteq Conns
    /\ poolOpen \in BOOLEAN /\ ctxDone \in BOOLEAN /\ returned \in BOOLEAN

Init ==
    /\ apc = "acquire" /\ accepted = 0 /\ connSem = 0
    /\ closed = FALSE /\ lnOpen = TRUE
    /\ hpc = [c \in Conns |-> "none"]
    /\ once = {} /\ answers = [c \in Conns |-> 0]
    /\ inFlight = 0 /\ streams = {}
    /\ poolOpen = TRUE /\ ctxDone = FALSE /\ returned = FALSE

-----------------------------------------------------------------------------
(* Shutdown: Run of internal/daemon/daemon.go *)

Cancel ==
    /\ ~ctxDone /\ ctxDone' = TRUE
    /\ UNCHANGED <<loop, connSem, handlers, inFlight, streams, poolOpen, returned>>

\* Server.Close, by the goroutine of Serve or by the daemon, whichever is first:
\* the flag is set under s.mu, the socket is closed after.
CloseMarks ==
    /\ ctxDone /\ ~closed /\ closed' = TRUE
    /\ UNCHANGED <<apc, accepted, lnOpen, connSem, handlers, inFlight, streams, outside>>

CloseListener ==
    /\ closed /\ lnOpen /\ lnOpen' = FALSE
    /\ UNCHANGED <<apc, accepted, closed, connSem, handlers, inFlight, streams, outside>>

\* A pool that is closed last, after the handlers.
PoolCloses_Last ==
    /\ returned /\ poolOpen /\ poolOpen' = FALSE
    /\ UNCHANGED <<loop, connSem, handlers, inFlight, streams, ctxDone, returned>>

\* pool.Close(), once srv.Close() has returned, which it does at once if another
\* caller is closing: every session ends, and every stream with it.
PoolCloses ==
    /\ closed /\ poolOpen /\ poolOpen' = FALSE
    /\ UNCHANGED <<loop, connSem, handlers, inFlight, streams, ctxDone, returned>>

-----------------------------------------------------------------------------
(* Serve *)

Acquire ==
    /\ apc = "acquire" /\ connSem < ConnCap
    /\ connSem' = connSem + 1 /\ apc' = "accept"
    /\ UNCHANGED <<accepted, closed, lnOpen, handlers, inFlight, streams, outside>>

AcquireCancelled ==
    /\ apc = "acquire" /\ ctxDone
    /\ apc' = "done"
    /\ UNCHANGED <<accepted, closed, lnOpen, connSem, handlers, inFlight, streams, outside>>

AcceptConn ==
    /\ apc = "accept" /\ lnOpen /\ accepted < MaxConns
    /\ accepted' = accepted + 1 /\ apc' = "acquire"
    /\ hpc' = [hpc EXCEPT ![accepted + 1] = "read"]
    /\ UNCHANGED <<closed, lnOpen, connSem, once, answers, inFlight, streams, outside>>

\* The slot is given back; a fault while the server is open is not the end.
AcceptFails ==
    /\ apc = "accept"
    /\ connSem' = connSem - 1
    /\ apc' = IF closed \/ ~lnOpen THEN "done" ELSE "acquire"
    /\ UNCHANGED <<accepted, closed, lnOpen, handlers, inFlight, streams, outside>>

\* s.wg.Wait()
ServeReturns ==
    /\ ~returned /\ apc = "done" /\ \A c \in Conns : hpc[c] \in {"none", "done"}
    /\ returned' = TRUE
    /\ UNCHANGED <<loop, connSem, handlers, inFlight, streams, poolOpen, ctxDone>>

-----------------------------------------------------------------------------
(* handleConn *)

Goes(c, pc) == hpc' = [hpc EXCEPT ![c] = pc]
Answers(c) == answers' = [answers EXCEPT ![c] = @ + 1]
Unchanged(rest) == UNCHANGED <<loop, outside, rest>>

\* The request is a call, or an attach.
ReadRequest(c) ==
    /\ hpc[c] = "read"
    /\ Goes(c, "rpc") \/ Goes(c, "attach")
    /\ Unchanged(<<connSem, once, answers, inFlight, streams>>)

\* The peer is another user, the frame too large, the schema or the kind
\* unknown: one error response.
RejectRequest(c) ==
    /\ hpc[c] = "read"
    /\ Answers(c) /\ Goes(c, "finish")
    /\ Unchanged(<<connSem, once, inFlight, streams>>)

\* No request within openReadDeadline, or the client is gone.
ReadFails(c) ==
    /\ hpc[c] = "read"
    /\ Goes(c, "finish")
    /\ Unchanged(<<connSem, once, answers, inFlight, streams>>)

\* handleRPC: every method, and relay on every path of it, writes one response.
handleRPC(c) ==
    /\ hpc[c] = "rpc"
    /\ Answers(c) /\ Goes(c, "finish")
    /\ Unchanged(<<connSem, once, inFlight, streams>>)

\* releaseConn
Release(c) ==
    /\ once' = once \cup {c}
    /\ connSem' = IF c \in once THEN connSem ELSE connSem - 1

\* The connection is closed and the slot given back, if it has not been.
Finish(c) ==
    /\ hpc[c] = "finish"
    /\ Release(c)
    /\ Goes(c, "done")
    /\ Unchanged(<<answers, inFlight, streams>>)

-----------------------------------------------------------------------------
(* handleAttach *)

\* No server or no target is named.
InvalidAttach(c) ==
    /\ hpc[c] = "attach"
    /\ Answers(c) /\ Goes(c, "finish")
    /\ Unchanged(<<connSem, once, inFlight, streams>>)

\* A cap that admits one attach too many.
CountAttach_OffByOne(c) ==
    /\ hpc[c] = "attach"
    /\ inFlight' = inFlight + 1
    /\ Goes(c, IF inFlight > AttachCap THEN "over" ELSE "session")
    /\ Unchanged(<<connSem, once, answers, streams>>)

\* inFlightAttaches.Add(1): what it returns is compared with the cap.
CountAttach(c) ==
    /\ hpc[c] = "attach"
    /\ inFlight' = inFlight + 1
    /\ Goes(c, IF inFlight + 1 > AttachCap THEN "over" ELSE "session")
    /\ Unchanged(<<connSem, once, answers, streams>>)

OverCap(c) ==
    /\ hpc[c] = "over"
    /\ inFlight' = inFlight - 1
    /\ Answers(c) /\ Goes(c, "finish")
    /\ Unchanged(<<connSem, once, streams>>)

\* EntryState and OpenConn: there is a session ...
SessionReady(c) ==
    /\ hpc[c] = "session" /\ poolOpen
    /\ Goes(c, "open")
    /\ Unchanged(<<connSem, once, answers, inFlight, streams>>)

\* A handler that goes on after it has said that there is no session.
SessionNotReady_GoesOn(c) ==
    /\ hpc[c] = "session"
    /\ Answers(c) /\ Goes(c, "open")
    /\ Unchanged(<<connSem, once, inFlight, streams>>)

\* ... or there is none, within attachReadyTimeout.
SessionNotReady(c) ==
    /\ hpc[c] = "session"
    /\ Answers(c) /\ Goes(c, "uncount")
    /\ Unchanged(<<connSem, once, inFlight, streams>>)

\* The agent has room for one more stream; until it has, OpenStream waits, with
\* no deadline of its own.
OpenStream(c) ==
    /\ hpc[c] = "open" /\ poolOpen /\ Cardinality(streams) < AgentStreams
    /\ streams' = streams \cup {c}
    /\ Goes(c, "header")
    /\ Unchanged(<<connSem, once, answers, inFlight>>)

\* The session dropped since OpenConn, or the daemon is shutting down: DoAttach
\* returns, nothing is written.
OpenStreamFails(c) ==
    /\ hpc[c] = "open"
    /\ Goes(c, "uncount")
    /\ Unchanged(<<connSem, once, answers, inFlight, streams>>)

\* The header fits into what the agent lets the connection send, which tunnels
\* that do not drain can use up.
WriteHeader(c) ==
    /\ hpc[c] = "header" /\ poolOpen
    /\ Goes(c, "await")
    /\ Unchanged(<<connSem, once, answers, inFlight, streams>>)

\* The header cannot be written, the agent does not answer within
\* ResponseDeadline, or the client is gone: both legs are reset.
AttachAborts(c) ==
    /\ hpc[c] \in {"header", "await"}
    /\ streams' = streams \ {c}
    /\ Goes(c, "uncount")
    /\ Unchanged(<<connSem, once, answers, inFlight>>)

\* The agent's refusal is relayed, and both legs are reset.
AttachRefused(c) ==
    /\ hpc[c] = "await"
    /\ Answers(c)
    /\ streams' = streams \ {c}
    /\ Goes(c, "uncount")
    /\ Unchanged(<<connSem, once, inFlight>>)

\* A splice that keeps its slot.
RelayAck_KeepsSlot(c) ==
    /\ hpc[c] = "await"
    /\ Answers(c)
    /\ Goes(c, "splice")
    /\ Unchanged(<<connSem, once, inFlight, streams>>)

\* relayAck: the client is told, and the slot given back before the splice.
RelayAck(c) ==
    /\ hpc[c] = "await"
    /\ Answers(c)
    /\ Release(c)
    /\ Goes(c, "splice")
    /\ Unchanged(<<inFlight, streams>>)

\* The agent has half-closed, or the client does not take what the agent sent:
\* no direction of the splice is left that reads from the stream (Splice).
SpliceWedges(c) ==
    /\ hpc[c] = "splice" /\ poolOpen
    /\ Goes(c, "wedged")
    /\ Unchanged(<<connSem, once, answers, inFlight, streams>>)

\* The client drains, and the splice reads from the stream again.
SpliceResumes(c) ==
    /\ hpc[c] = "wedged"
    /\ Goes(c, "splice")
    /\ Unchanged(<<connSem, once, answers, inFlight, streams>>)

\* pipe returns and has closed both legs.
SpliceEnds(c) ==
    /\ hpc[c] \in {"splice", "wedged"}
    /\ streams' = streams \ {c}
    /\ Goes(c, "uncount")
    /\ Unchanged(<<connSem, once, answers, inFlight>>)

\* The deferred inFlightAttaches.Add(-1)
Uncount(c) ==
    /\ hpc[c] = "uncount"
    /\ inFlight' = inFlight - 1
    /\ Goes(c, "finish")
    /\ Unchanged(<<connSem, once, answers, streams>>)

-----------------------------------------------------------------------------
Handler(c) ==
    \/ ReadRequest(c) \/ RejectRequest(c) \/ ReadFails(c) \/ handleRPC(c) \/ Finish(c)
    \/ InvalidAttach(c) \/ CountAttach(c) \/ OverCap(c)
    \/ SessionReady(c) \/ SessionNotReady(c) \/ OpenStream(c) \/ OpenStreamFails(c)
    \/ WriteHeader(c) \/ AttachAborts(c) \/ AttachRefused(c) \/ RelayAck(c) \/ Uncount(c)

Next == \/ Cancel \/ CloseMarks \/ CloseListener \/ PoolCloses
        \/ Acquire \/ AcquireCancelled \/ AcceptConn \/ AcceptFails \/ ServeReturns
        \/ \E c \in Conns : Handler(c) \/ SpliceWedges(c) \/ SpliceResumes(c) \/ SpliceEnds(c)

Spec == Init /\ [][Next]_vars

(* Goroutines run, and what a handler waits for has a deadline, but for the     *)
(* agent's leave to open a stream and to send on it, which other tunnels can    *)
(* use up, and for the end of a splice. These waits end with the pool, and a    *)
(* splice not even then if it is left waiting for its client.                   *)
Fairness ==
    /\ WF_vars(CloseMarks) /\ WF_vars(CloseListener) /\ WF_vars(PoolCloses)
    /\ WF_vars(Acquire \/ AcquireCancelled)
    /\ WF_vars(~lnOpen /\ AcceptFails) /\ WF_vars(ServeReturns)
    /\ \A c \in Conns :
          /\ WF_vars(hpc[c] \notin {"open", "header"} /\ Handler(c))
          /\ WF_vars(OpenStream(c)) /\ WF_vars(streams = {c} /\ WriteHeader(c))
          /\ WF_vars(~poolOpen /\ Handler(c))
          /\ WF_vars(~poolOpen /\ hpc[c] = "splice" /\ SpliceEnds(c))

FairSpec == Spec /\ Fairness

-----------------------------------------------------------------------------
(* Safety *)

Active == {c \in Conns : hpc[c] \notin {"none", "done"}}

\* The two counters are exact on every path. The accept loop holds a slot of
\* connSem while it waits for a connection, every handler one until releaseConn
\* has run, and no path gives a slot back twice; there are never more tunnels
\* than the cap, however many attaches arrive at once, and their count comes
\* back to zero.
SlotsAreExact ==
    /\ connSem = Cardinality(Active \ once) + (IF apc = "accept" THEN 1 ELSE 0)
    /\ Cardinality({c \in Conns : hpc[c] \in Admitted}) <= AttachCap
    /\ inFlight = Cardinality({c \in Conns : hpc[c] \in Admitted \cup {"over"}})

\* A client never reads a second response where it expects the tunnel's bytes,
\* and is told before the tunnel starts.
AnsweredOnce ==
    \A c \in Conns : answers[c] <= 1 /\ (hpc[c] \in {"splice", "wedged"} => answers[c] = 1)

-----------------------------------------------------------------------------
(* Liveness *)

\* Tunnels that stay open for ever do not keep the daemon from accepting, as
\* long as no attach is left waiting for the agent to let it open its stream.
SplicesDoNotStarve ==
    (\A c \in Conns : []<>(hpc[c] \notin {"open", "header"})) =>
        (apc = "acquire" ~> apc # "acquire")

\* Shutdown drains: a tunnel whose client does not close it is ended by the
\* pool, and Serve returns with every stream closed and every tunnel counted
\* off, whichever way each attach ended. Only wedged splices hold it up, which
\* is what the daemon's drain deadline is for.
ShutdownDrains ==
    LET wedged == {c \in Conns : hpc[c] = "wedged"}
    IN  ctxDone ~> /\ Active = wedged /\ streams = wedged /\ inFlight = Cardinality(wedged)
                   /\ wedged = {} => returned

-----------------------------------------------------------------------------
(* What the comment on relayAck promises and DoAttach does not keep *)

\* "releases the connSem slot early so a long splice does not starve concurrent
\* RPCs": the daemon goes on accepting, however many tunnels there are.
TunnelsDoNotStarve == apc = "acquire" ~> apc # "acquire"
=============================================================================
