---------------------------- MODULE AgentSession ----------------------------
(***************************************************************************)
(* One session on the agent: serveConn, serveStream and serveControl of    *)
(* internal/tunnel/serve.go, with control.Serve. The accept loop starts a  *)
(* goroutine for every stream the client opens. One stream, and only one,  *)
(* is the control stream; it must be opened before a deadline, and when it *)
(* ends the session ends. The others are spliced to a service.             *)
(*                                                                         *)
(* The deadline is a timer with a callback on its own goroutine: it looks  *)
(* at the control state under cs.mu, and acts after releasing it.          *)
(***************************************************************************)
EXTENDS Naturals, FiniteSets

CONSTANT MaxStreams     \* bound on the streams the client opens

ASSUME StreamsAssumption == MaxStreams \in Nat

Streams == 1..MaxStreams

VARIABLES
    apc,        \* where the accept loop is
    accepted,   \* streams accepted so far
    spc,        \* where each stream's handler is
    open,       \* cs.open: the control stream has been opened
    timer,      \* openTimer and its callback
    code,       \* why the connection was closed, "none" while it is up
    svcOpen,    \* streams whose connection to the service is open
    ctxDone     \* the agent is shutting down

connVars == <<apc, accepted, spc, open, timer, code, svcOpen, ctxDone>>

\* Where the handler of the control stream is from markOpen on.
ControlPCs == {"stop", "reply", "serving", "teardown"}

ConnTypeOK ==
    /\ apc \in {"vet", "accept", "done"}
    /\ accepted \in 0..MaxStreams
    /\ spc \in [Streams -> {"none", "header", "mark", "dial", "respond", "pipe", "wedged",
                            "done"} \cup ControlPCs]
    /\ \A s \in Streams : spc[s] # "none" <=> s <= accepted
    /\ open \in BOOLEAN
    /\ timer \in {"off", "armed", "closing", "over"}
    /\ code \in {"none", "peer", "clean", "role", "missing", "proto"}
    /\ svcOpen \subseteq Streams
    /\ ctxDone \in BOOLEAN

ConnInit ==
    /\ apc = "vet" /\ accepted = 0
    /\ spc = [s \in Streams |-> "none"]
    /\ open = FALSE /\ timer = "off" /\ code = "none"
    /\ svcOpen = {} /\ ctxDone = FALSE

Up == code = "none"

\* conn.CloseWithError: the first close decides.
CloseWithError(c) == code' = IF Up THEN c ELSE code

-----------------------------------------------------------------------------
(* The environment *)

\* The client goes away, or the path does.
ConnEnds ==
    /\ Up /\ code' = "peer"
    /\ UNCHANGED <<apc, accepted, spc, open, timer, svcOpen, ctxDone>>

Shutdown ==
    /\ ~ctxDone /\ ctxDone' = TRUE
    /\ UNCHANGED <<apc, accepted, spc, open, timer, code, svcOpen>>

-----------------------------------------------------------------------------
(* serveConn *)

\* A peer that uses our own identity, or none, is refused.
RefusePeer ==
    /\ apc = "vet"
    /\ CloseWithError("role")
    /\ apc' = "done"
    /\ UNCHANGED <<accepted, spc, open, timer, svcOpen, ctxDone>>

AdmitPeer ==
    /\ apc = "vet"
    /\ apc' = "accept" /\ timer' = "armed"
    /\ UNCHANGED <<accepted, spc, open, code, svcOpen, ctxDone>>

AcceptStream ==
    /\ apc = "accept" /\ Up /\ accepted < MaxStreams
    /\ accepted' = accepted + 1
    /\ spc' = [spc EXCEPT ![accepted + 1] = "header"]
    /\ UNCHANGED <<apc, open, timer, code, svcOpen, ctxDone>>

\* openTimer.Stop(): too late for a callback that is already running.
StopTimer == timer' = IF timer = "armed" THEN "over" ELSE timer

\* AcceptStream fails: the connection is gone or the agent is shutting down, in
\* which case the peer is told at once.
StopAccepting ==
    /\ apc = "accept" /\ (~Up \/ ctxDone)
    /\ IF ctxDone THEN CloseWithError("clean") ELSE UNCHANGED code
    /\ StopTimer
    /\ apc' = "done"
    /\ UNCHANGED <<accepted, spc, open, svcOpen, ctxDone>>

\* The deadline passes: the callback looks whether the control stream is open.
TimerFires ==
    /\ timer = "armed"
    /\ timer' = IF open THEN "over" ELSE "closing"
    /\ UNCHANGED <<apc, accepted, spc, open, code, svcOpen, ctxDone>>

TimerCloses ==
    /\ timer = "closing"
    /\ CloseWithError("missing")
    /\ timer' = "over"
    /\ UNCHANGED <<apc, accepted, spc, open, svcOpen, ctxDone>>

-----------------------------------------------------------------------------
(* serveStream *)

Goes(s, pc) == spc' = [spc EXCEPT ![s] = pc]

\* proto.ReadHeader returns, and the kind of the stream is known.
HeaderArrives(s) ==
    /\ spc[s] = "header" /\ Up
    /\ Goes(s, "mark") \/ Goes(s, "dial")
    /\ UNCHANGED <<apc, accepted, open, timer, code, svcOpen, ctxDone>>

\* The header is malformed, oversized or cut off: replyHeaderError answers or
\* resets, and only this stream is affected.
HeaderRejected(s) ==
    /\ spc[s] = "header"
    /\ Goes(s, "done")
    /\ UNCHANGED <<apc, accepted, open, timer, code, svcOpen, ctxDone>>

-----------------------------------------------------------------------------
(* serveControl *)

\* An unknown control protocol ends the session.
UnsupportedProto(s) ==
    /\ spc[s] = "mark"
    /\ CloseWithError("proto")
    /\ Goes(s, "done")
    /\ UNCHANGED <<apc, accepted, open, timer, svcOpen, ctxDone>>

\* Every control stream is taken to be the first.
markOpen_Always(s) ==
    /\ spc[s] = "mark"
    /\ Goes(s, "stop") /\ open' = TRUE
    /\ UNCHANGED <<apc, accepted, timer, code, svcOpen, ctxDone>>

\* cs.markOpen: a second control stream is refused, the session goes on.
markOpen(s) ==
    /\ spc[s] = "mark"
    /\ Goes(s, IF open THEN "done" ELSE "stop") /\ open' = TRUE
    /\ UNCHANGED <<apc, accepted, timer, code, svcOpen, ctxDone>>

ControlStopsTimer(s) ==
    /\ spc[s] = "stop"
    /\ StopTimer
    /\ Goes(s, "reply")
    /\ UNCHANGED <<apc, accepted, open, code, svcOpen, ctxDone>>

ControlReplies(s) ==
    /\ spc[s] = "reply" /\ Up
    /\ Goes(s, "serving")
    /\ UNCHANGED <<apc, accepted, open, timer, code, svcOpen, ctxDone>>

\* A failed reply that is treated like that of any other stream.
ControlReplyFails_StreamOnly(s) ==
    /\ spc[s] = "reply"
    /\ Goes(s, "done")
    /\ UNCHANGED <<apc, accepted, open, timer, code, svcOpen, ctxDone>>

\* The reply cannot be written: the session is closed.
ControlReplyFails(s) ==
    /\ spc[s] = "reply"
    /\ CloseWithError("missing")
    /\ Goes(s, "done")
    /\ UNCHANGED <<apc, accepted, open, timer, svcOpen, ctxDone>>

\* control.Serve returns: the client closed the stream, the connection is gone,
\* or the agent is shutting down.
ControlEnds(s) ==
    /\ spc[s] = "serving"
    /\ Goes(s, "teardown")
    /\ UNCHANGED <<apc, accepted, open, timer, code, svcOpen, ctxDone>>

\* The end of the control stream is the end of the session.
Teardown(s) ==
    /\ spc[s] = "teardown"
    /\ CloseWithError("clean")
    /\ Goes(s, "done")
    /\ UNCHANGED <<apc, accepted, open, timer, svcOpen, ctxDone>>

-----------------------------------------------------------------------------
(* A data stream *)

\* rtr.Dial resolves, authorizes and connects to the service.
DialService(s) ==
    /\ spc[s] = "dial"
    /\ svcOpen' = svcOpen \cup {s}
    /\ Goes(s, "respond")
    /\ UNCHANGED <<apc, accepted, open, timer, code, ctxDone>>

\* ... or the client is told why not (replyDialError).
DialRefused(s) ==
    /\ spc[s] = "dial"
    /\ Goes(s, "done")
    /\ UNCHANGED <<apc, accepted, open, timer, code, svcOpen, ctxDone>>

Respond(s) ==
    /\ spc[s] = "respond" /\ Up
    /\ Goes(s, "pipe")
    /\ UNCHANGED <<apc, accepted, open, timer, code, svcOpen, ctxDone>>

\* The service connection is forgotten when the response cannot be written.
RespondFails_LeavesService(s) ==
    /\ spc[s] = "respond"
    /\ Goes(s, "done")
    /\ UNCHANGED <<apc, accepted, open, timer, code, svcOpen, ctxDone>>

RespondFails(s) ==
    /\ spc[s] = "respond"
    /\ svcOpen' = svcOpen \ {s}
    /\ Goes(s, "done")
    /\ UNCHANGED <<apc, accepted, open, timer, code, ctxDone>>

\* The client has half-closed, or the service does not take what the client
\* sent: no direction of the splice is left that reads from the client (Splice).
PipeWedges(s) ==
    /\ spc[s] = "pipe" /\ Up
    /\ Goes(s, "wedged")
    /\ UNCHANGED <<apc, accepted, open, timer, code, svcOpen, ctxDone>>

\* The service drains, and the splice reads from the client again.
PipeResumes(s) ==
    /\ spc[s] = "wedged"
    /\ Goes(s, "pipe")
    /\ UNCHANGED <<apc, accepted, open, timer, code, svcOpen, ctxDone>>

\* pipe returns: both directions are over, and it has closed both ends.
PipeEnds(s) ==
    /\ spc[s] \in {"pipe", "wedged"}
    /\ svcOpen' = svcOpen \ {s}
    /\ Goes(s, "done")
    /\ UNCHANGED <<apc, accepted, open, timer, code, ctxDone>>

-----------------------------------------------------------------------------
\* What a handler does by itself. Waiting for a header, for the control stream
\* to end and for a splice to end depend on its peer.
HandlerRuns(s) ==
    \/ UnsupportedProto(s) \/ markOpen(s) \/ ControlStopsTimer(s)
    \/ ControlReplies(s) \/ ControlReplyFails(s) \/ Teardown(s)
    \/ DialService(s) \/ DialRefused(s) \/ Respond(s) \/ RespondFails(s)

ClientWait(s) ==
    HeaderArrives(s) \/ HeaderRejected(s) \/ ControlEnds(s)
    \/ PipeWedges(s) \/ PipeResumes(s) \/ PipeEnds(s)

ConnNext == \/ ConnEnds \/ Shutdown
            \/ RefusePeer \/ AdmitPeer \/ AcceptStream \/ StopAccepting
            \/ TimerFires \/ TimerCloses
            \/ \E s \in Streams : HandlerRuns(s) \/ ClientWait(s)

ConnSpec == ConnInit /\ [][ConnNext]_connVars

(* Goroutines and timers run. A handler that waits for the client is only sure *)
(* to go on when the connection is gone (or, for the control stream, the agent *)
(* is shutting down): every read and write on its stream then fails. A wedged  *)
(* splice waits for its service, of which nothing is assumed.                  *)
ConnFairness ==
    /\ WF_connVars(RefusePeer \/ AdmitPeer \/ StopAccepting)
    /\ WF_connVars(TimerFires \/ TimerCloses)
    /\ \A s \in Streams :
          /\ WF_connVars(HandlerRuns(s))
          /\ WF_connVars(~Up /\ (HeaderRejected(s) \/ (spc[s] = "pipe" /\ PipeEnds(s))))
          /\ WF_connVars((~Up \/ ctxDone) /\ ControlEnds(s))

ConnFairSpec == ConnSpec /\ ConnFairness

-----------------------------------------------------------------------------
(* Safety *)

\* However many control headers arrive at once, one handler serves control.
OneControlStream ==
    \A s, r \in Streams : spc[s] \in ControlPCs /\ spc[r] \in ControlPCs => s = r

\* Control-stream closure is session death, on every path: once the control
\* stream has been opened, either its handler is still there or the connection
\* is closed.
ControlDeathIsSessionDeath ==
    open /\ Up => \E s \in Streams : spc[s] \in ControlPCs

\* A connection to a service belongs to a handler that will release it.
ServicesAreOwned == \A s \in svcOpen : spc[s] \in {"respond", "pipe", "wedged"}

\* When serveConn returns the peer has been told: it never has to find out by
\* its idle timeout.
ReturnsClosed == apc = "done" => ~Up

-----------------------------------------------------------------------------
(* Liveness *)

\* A session does not stay without a control stream, and a shutdown closes it;
\* everything it started ends with it, whatever the client sent or not, but for
\* the splices that only their service can end.
SessionEndsCompletely ==
    /\ apc = "accept" /\ ~open ~> open \/ ~Up
    /\ ctxDone \/ ~Up ~>
          /\ ~Up /\ apc = "done"
          /\ svcOpen = {s \in Streams : spc[s] = "wedged"}
          /\ \A s \in Streams : spc[s] \in {"none", "done", "wedged"}

-----------------------------------------------------------------------------
(* What the comment on openTimer promises and the code does not keep *)

\* "the callback either finds the session already open (and does nothing) or
\* closes it before markOpen runs": the timer never closes an open session.
TimerSparesOpenSession ==
    [][timer = "closing" /\ timer' = "over" /\ Up => ~open]_connVars
=============================================================================
