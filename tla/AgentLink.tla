------------------------------ MODULE AgentLink ------------------------------
(***************************************************************************)
(* The agent process and its link to one client, in both directions: the   *)
(* command's set-up (cmd/quic-link/agent.go), the loop that dials a client *)
(* and serves it (internal/tunnel/dial.go), the loop that accepts one      *)
(* (tunnel.Serve), the pinned handshake (internal/identity/tls.go) and the *)
(* reading of its failures (internal/transport/quic_transport.go).         *)
(*                                                                         *)
(* What a session does while it lasts is in AgentSession; here it is up,   *)
(* or has ended for a reason.  A key stands for itself and for its pin.    *)
(***************************************************************************)
EXTENDS Naturals

CONSTANTS
  AgentKey,      \* the key of this agent
  Authorized,    \* the pins of authorized_clients
  Clients,       \* the client set-ups there may be: key, the pin it expects, its version
  Blocks,        \* what the file and the flags say: records of file, flags and tables
  MaxFaults,     \* bound: restarts of the client and losses of a connection
  MaxAttempt,    \* bound: the attempt counter is not followed further
  None

ASSUME LinkAssumption ==
  /\ MaxFaults \in Nat /\ MaxAttempt \in Nat \ {0}
  /\ \A c \in Clients : c # None
  /\ None \notin {"auth", "role"}

\* An address to dial is none, one that resolves, or one that does not.
ASSUME BlocksAssumption ==
  \A b \in Blocks :
    /\ b.flags.dial \in {"", "dial", "undialable"}
    /\ b.file # None => b.file.dial \in {"", "dial", "undialable"}

VARIABLES
  pc,         \* where the command is
  mode,       \* the direction it runs in
  attempt,    \* DialAndServe's attempt
  client,     \* the client that can be reached now, or None
  peer,       \* the client at the other end of the connection, or None
  session,    \* none, handshake (up at this end only), up, or the reason it ended
  stable,     \* the session has been up for longer than StableAfter
  result,     \* the error the command returned
  cancelled,  \* the agent was told to stop
  faults,     \* how much has gone wrong
  met,        \* history: the last client that answered
  waited      \* history: the attempt of the last wait since a stable session

vars == <<pc, mode, attempt, client, peer, session, stable, result, cancelled, faults, met, waited>>
link == <<peer, session, stable>>
world == <<client, cancelled, faults>>

Ends == {"idle", "closed", "alert", "role", "noControl", "canceled"}

-----------------------------------------------------------------------------
(* verifyPin: the one check that authenticates a peer, at either end. *)
verifyPin(allowed, key) == key \in allowed

(* A handshake between the end that dials and the end that listens: the    *)
(* listener compares versions, the dialer verifies the listener's key, and *)
(* the listener requires and verifies the dialer's key after the dialer's  *)
(* own handshake is over.                                                  *)
Handshake_NoClientCert(dialer, listener) ==
  CASE dialer.version # listener.version -> "alpn"
    [] dialer.version = listener.version /\ ~verifyPin(dialer.allowed, listener.key) -> "dialerRejects"
    [] OTHER -> "accepted"

Handshake(dialer, listener) ==
  CASE dialer.version # listener.version -> "alpn"
    [] dialer.version = listener.version /\ ~verifyPin(dialer.allowed, listener.key) -> "dialerRejects"
    [] dialer.version = listener.version /\ verifyPin(dialer.allowed, listener.key)
         /\ ~verifyPin(listener.allowed, dialer.key) -> "listenerRejects"
    [] OTHER -> "accepted"

AgentEnd == [key |-> AgentKey, allowed |-> Authorized, version |-> "this"]
ClientEnd(c) == [key |-> c.key, allowed |-> {c.expects}, version |-> c.version]

SameIdentityAsPeer(c) == c.key = AgentKey

(* The reading of an error, whether Dial returned it or a connection ended *)
(* with it: alerts are rejections, but not the one for another version,    *)
(* and one close code of the application is a clash of roles.              *)
IsAuthFailed_AnyAlert(err) == err \in {"alert", "alpn"}

IsAuthFailed(err) == err = "alert"

IsRoleMismatch(err) == err = "role"

-----------------------------------------------------------------------------
(* The agent block after the flags: any of them stands for a block if the  *)
(* file has none, --dial drops the file's listen address unless --listen   *)
(* is given too, and :443 is the default.  The tables are the pins, routes *)
(* and published names of both; the flags that only change them, or the    *)
(* key, are "other".                                                       *)
effectiveAgent(b) ==
  LET given == b.flags.listen # "" \/ b.flags.dial # "" \/ b.flags.other
      base == IF b.file = None THEN [listen |-> "", dial |-> ""] ELSE b.file
      dial == IF b.flags.dial # "" THEN b.flags.dial ELSE base.dial
      listen == IF b.flags.listen # "" THEN b.flags.listen
                ELSE IF b.flags.dial # "" THEN "" ELSE base.listen
  IN IF b.file = None /\ ~given THEN None
     ELSE [dial |-> dial, tables |-> b.tables,
           listen |-> IF listen = "" /\ dial = "" THEN ":443" ELSE listen]

(* validateAgent: a block, exactly one direction, somebody to talk to, and *)
(* no pin, route, name or address that the router or the handshake would   *)
(* refuse later, nor more names than the table holds.                      *)
validateAgent(a) ==
  /\ a # None
  /\ (a.listen = "") # (a.dial = "")
  /\ Authorized # {}
  /\ a.tables = "sound"

Init ==
  /\ pc = "start" /\ mode = None /\ attempt = 0
  /\ client \in Clients \cup {None}
  /\ peer = None /\ session = "none" /\ stable = FALSE
  /\ result = None /\ cancelled = FALSE /\ faults = 0
  /\ met = None /\ waited = 0

Return(e) == pc' = "returned" /\ result' = e

(* The command line, on which no route may be given twice (--ssh-addr or   *)
(* --docker-addr beside --route), and Validate; then everything agentRun   *)
(* does before it touches the network, any of which may fail: the age of   *)
(* the key, the key itself, the route table, the address.                  *)
Start ==
  /\ pc = "start"
  /\ \E b \in Blocks :
       LET a == effectiveAgent(b) IN
       IF b.flags.clash \/ ~validateAgent(a) THEN Return("usage") /\ UNCHANGED mode
       ELSE pc' = "setup" /\ mode' = (IF a.dial # "" THEN a.dial ELSE "listen") /\ UNCHANGED result
  /\ UNCHANGED <<attempt, link, world, met, waited>>

Setup ==
  /\ pc = "setup"
  /\ \/ \E e \in {"usage", "failed"} : Return(e)
     \/ mode = "undialable" /\ Return("usage")
     \/ mode = "dial" /\ pc' = "top" /\ UNCHANGED result
     \/ mode = "listen" /\ pc' = "accept" /\ UNCHANGED result
  /\ UNCHANGED <<mode, attempt, link, world, met, waited>>

-----------------------------------------------------------------------------
(* DialAndServe. *)
Top ==
  /\ pc = "top" /\ IF cancelled THEN Return("canceled") ELSE pc' = "dialing" /\ UNCHANGED result
  /\ UNCHANGED <<mode, attempt, link, world, met, waited>>

Capped(n) == IF n > MaxAttempt THEN MaxAttempt ELSE n

(* The wait that Backoff(attempt) decides; its length is up to the clock.  *)
Wait(n) == pc' = "backoff" /\ attempt' = Capped(n + 1) /\ waited' = Capped(n + 1)

(* Dial returned an error: identities and roles are final, the rest waits. *)
DialFails(err) ==
  \/ cancelled /\ Return("canceled") /\ UNCHANGED <<attempt, waited>>
  \/ ~cancelled /\ IsAuthFailed(err) /\ Return("auth") /\ UNCHANGED <<attempt, waited>>
  \/ ~cancelled /\ ~IsAuthFailed(err) /\ IsRoleMismatch(err) /\ Return("role") /\ UNCHANGED <<attempt, waited>>
  \/ /\ ~cancelled /\ ~IsAuthFailed(err) /\ ~IsRoleMismatch(err)
     /\ Wait(attempt) /\ UNCHANGED result

DialUnanswered ==
  /\ pc = "dialing" /\ (client = None \/ cancelled)
  /\ DialFails("unreachable")
  /\ UNCHANGED <<mode, link, world, met>>

(* A client that waits answers.  Its own verdict comes only after Dial has *)
(* returned.                                                               *)
DialAnswered ==
  /\ pc = "dialing" /\ client # None /\ met' = client
  /\ LET h == Handshake(AgentEnd, ClientEnd(client)) IN
     \/ h = "alpn" /\ DialFails("alpn") /\ UNCHANGED link
     \/ h = "dialerRejects" /\ DialFails("alert") /\ UNCHANGED link
     \/ /\ h \in {"accepted", "listenerRejects"}
        /\ pc' = "serving" /\ attempt' = 0 /\ peer' = client /\ session' = "handshake" /\ stable' = FALSE
        /\ UNCHANGED <<result, waited>>
  /\ UNCHANGED <<mode, world>>

(* ServeConn returned: why it did decides whether to go on.  A rejection   *)
(* by the client arrives here, as the reason the connection closed.        *)
Ended_DialErrorsOnly ==
  /\ pc = "serving" /\ session \in Ends
  /\ \/ cancelled /\ Return("canceled") /\ UNCHANGED <<attempt, waited>>
     \/ ~cancelled /\ IsRoleMismatch(session) /\ Return("role") /\ UNCHANGED <<attempt, waited>>
     \/ /\ ~cancelled /\ ~IsRoleMismatch(session)
        /\ Wait(IF stable THEN 0 ELSE attempt) /\ UNCHANGED result
  /\ peer' = None /\ session' = "none" /\ stable' = FALSE
  /\ UNCHANGED <<mode, world, met>>

Ended ==
  /\ pc = "serving" /\ session \in Ends
  /\ \/ cancelled /\ Return("canceled") /\ UNCHANGED <<attempt, waited>>
     \/ ~cancelled /\ IsAuthFailed(session) /\ Return("auth") /\ UNCHANGED <<attempt, waited>>
     \/ ~cancelled /\ IsRoleMismatch(session) /\ Return("role") /\ UNCHANGED <<attempt, waited>>
     \/ /\ ~cancelled /\ ~IsAuthFailed(session) /\ ~IsRoleMismatch(session)
        /\ Wait(IF stable THEN 0 ELSE attempt) /\ UNCHANGED result
  /\ peer' = None /\ session' = "none" /\ stable' = FALSE
  /\ UNCHANGED <<mode, world, met>>

BackoffEnds ==
  /\ pc = "backoff"
  /\ \/ cancelled /\ Return("canceled")
     \/ pc' = "top" /\ UNCHANGED result
  /\ UNCHANGED <<mode, attempt, link, world, met, waited>>

-----------------------------------------------------------------------------
(* tunnel.Serve: a client dials in.  A handshake that fails never reaches  *)
(* Accept.  Sessions run on their own; one at a time is followed here.     *)
AcceptConn ==
  /\ pc = "accept" /\ session = "none" /\ client # None /\ ~cancelled
  /\ Handshake(ClientEnd(client), AgentEnd) = "accepted"
  /\ peer' = client /\ met' = client /\ session' = "handshake" /\ stable' = FALSE
  /\ UNCHANGED <<pc, mode, attempt, world, result, waited>>

AcceptedEnds ==
  /\ pc = "accept" /\ session \in Ends
  /\ peer' = None /\ session' = "none" /\ stable' = FALSE
  /\ UNCHANGED <<pc, mode, attempt, world, result, met, waited>>

AcceptFails ==
  /\ pc = "accept"
  /\ \/ cancelled /\ Return("canceled")
     \/ ~cancelled /\ faults < MaxFaults /\ Return("failed")
  /\ session' = IF session \in {"handshake", "up"} THEN "closed" ELSE session
  /\ UNCHANGED <<mode, attempt, peer, stable, world, met, waited>>

-----------------------------------------------------------------------------
(* serveConn refuses a peer that has our own key, and closes the           *)
(* connection when the agent stops.                                        *)
RefuseSameIdentity ==
  /\ session = "handshake" /\ SameIdentityAsPeer(peer) /\ session' = "role"
  /\ UNCHANGED <<pc, mode, attempt, peer, stable, result, world, met, waited>>

CtxEndsSession ==
  /\ session \in {"handshake", "up"} /\ cancelled /\ session' = "canceled"
  /\ UNCHANGED <<pc, mode, attempt, peer, stable, result, world, met, waited>>

(* The client's verdict, where it is the listener: an alert for a key it   *)
(* does not expect, the close code for its own key, or the session opens   *)
(* its control stream.                                                     *)
ClientVerdict ==
  /\ session = "handshake" /\ peer = client
  /\ session' = IF mode = "dial" /\ Handshake(AgentEnd, ClientEnd(peer)) = "listenerRejects" THEN "alert"
                ELSE IF SameIdentityAsPeer(peer) THEN "role" ELSE "up"
  /\ UNCHANGED <<pc, mode, attempt, peer, stable, result, world, met, waited>>

SessionStable ==
  /\ session = "up" /\ ~stable /\ stable' = TRUE
  /\ waited' = 0
  /\ UNCHANGED <<pc, mode, attempt, peer, session, result, world, met>>

(* The connection goes away without a verdict, or its control stream never *)
(* comes: the idle timeout, the client closing, the deadline of serveConn. *)
SessionLost ==
  /\ session \in {"handshake", "up"} /\ faults < MaxFaults /\ faults' = faults + 1
  /\ session' \in {"idle", "closed", "noControl"} /\ (session = "up" => session' # "noControl")
  /\ UNCHANGED <<pc, mode, attempt, peer, stable, result, client, cancelled, met, waited>>

(* A session whose client is gone times out. *)
SessionIdle ==
  /\ session \in {"handshake", "up"} /\ peer # client /\ session' = "idle"
  /\ UNCHANGED <<pc, mode, attempt, peer, stable, result, world, met, waited>>

(* The client, or the network to it, comes, goes, or is set up anew. *)
ClientChanges ==
  /\ faults < MaxFaults /\ faults' = faults + 1
  /\ client' \in (Clients \cup {None}) \ {client}
  /\ UNCHANGED <<pc, mode, attempt, link, result, cancelled, met, waited>>

Cancel ==
  /\ ~cancelled /\ pc \notin {"start", "returned"} /\ cancelled' = TRUE
  /\ UNCHANGED <<pc, mode, attempt, link, result, client, faults, met, waited>>

Agent ==
  \/ Start \/ Setup \/ Top \/ DialUnanswered \/ DialAnswered \/ Ended \/ BackoffEnds
  \/ AcceptedEnds \/ (cancelled /\ AcceptFails)

Session == RefuseSameIdentity \/ CtxEndsSession \/ ClientVerdict \/ SessionIdle

Next == Agent \/ Session \/ AcceptConn \/ AcceptFails \/ SessionStable \/ SessionLost \/ ClientChanges \/ Cancel

Spec == Init /\ [][Next]_vars

(* The agent's goroutine runs, timers fire, and a client that is there     *)
(* dials in and gives its verdict.                                         *)
FairSpec == Spec /\ WF_vars(Agent) /\ WF_vars(Session) /\ WF_vars(AcceptConn)

-----------------------------------------------------------------------------
TypeOK ==
  /\ pc \in {"start", "setup", "top", "dialing", "serving", "backoff", "accept", "returned"}
  /\ mode \in {None, "dial", "undialable", "listen"} /\ attempt \in 0..MaxAttempt
  /\ client \in Clients \cup {None} /\ peer \in Clients \cup {None} /\ met \in Clients \cup {None}
  /\ session \in Ends \cup {"none", "handshake", "up"} /\ stable \in BOOLEAN
  /\ result \in {None, "usage", "failed", "auth", "role", "canceled"}
  /\ cancelled \in BOOLEAN /\ faults \in 0..MaxFaults /\ waited \in 0..MaxAttempt

Trusts(c) == c.key \in Authorized
IsTrusted(c) == c.expects = AgentKey

(* A session is served only to a client whose key the agent trusts, which  *)
(* trusts the agent's key, and which has a key of its own, whichever end   *)
(* opened the connection and however often the client changed under it     *)
(* (pinningTLS, tls.go:78-183, and serveConn, serve.go:361-379).           *)
OnlyMutualTrustIsServed ==
  session = "up" => Trusts(peer) /\ IsTrusted(peer) /\ peer.key # AgentKey

(* The agent gives up for good only when the keys leave it no choice: the  *)
(* client it last met is not trusted, does not trust it, or has its key;   *)
(* never for a version, an outage, or a lost connection (dial.go:74-92 and *)
(* :146-167).                                                              *)
GivesUpOnlyOverKeys ==
  /\ result = "auth" => ~Trusts(met) \/ ~IsTrusted(met)
  /\ result = "role" => met.key = AgentKey

(* Once the client and the network stop changing, the link settles: the    *)
(* session is up, or the command has returned, or there is no client of    *)
(* this version to be reached; a rejection is never retried for ever,      *)
(* although it may arrive as a dial error or as the end of a session.  A   *)
(* waiting agent does not dial, so a client it does not serve is left out. *)
LinkSettles ==
  <>[](\/ pc = "returned" \/ session = "up"
       \/ client = None \/ client.version # "this"
       \/ mode = "listen" /\ ~(Trusts(client) /\ IsTrusted(client) /\ client.key # AgentKey))

(* A session that was not stable counts as a failure for the schedule: the *)
(* waits between sessions that end at once grow like those between failed  *)
(* dials ("how long a session must stay up before it counts as stable,     *)
(* which resets the attempt counter on the next drop", backoff.go:19-21).  *)
FlapsBackOff ==
  [][pc = "serving" /\ pc' = "backoff" /\ ~stable /\ waited < MaxAttempt => attempt' > waited]_vars
=============================================================================
