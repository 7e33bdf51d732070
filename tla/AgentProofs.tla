----------------------------- MODULE AgentProofs -----------------------------
(***************************************************************************)
(* Proofs about AgentLink, for any keys, any set of clients and any number *)
(* of faults.  A session is judged at three places that know nothing of    *)
(* each other: the handshake, which only the dialer has finished when Dial *)
(* returns, the role check of serveConn, and the verdict of a listener     *)
(* that arrives later.  The inductive invariant says what each of them has *)
(* already settled about the peer while the session is in a given state,   *)
(* whatever client can be reached by then.                                 *)
(*                                                                         *)
(* Then proofs about AgentSession, what the agent does on one connection   *)
(* (serveConn and its handlers), for any number of streams. Its invariant  *)
(* adds one fact to the properties, that a handler on the control path has *)
(* set cs.open. Without it a second control stream could be marked open    *)
(* while a first one is being served.                                      *)
(***************************************************************************)
EXTENDS AgentLink, AgentSession, TLAPS

\* The direction decides which loop runs.
ModeInv ==
  /\ pc \in {"top", "dialing", "serving", "backoff"} => mode = "dial"
  /\ pc = "accept" => mode = "listen"

\* A connection belongs to a loop; what is left of it may outlive Serve.
SessionInv ==
  /\ session # "none" => pc \in {"serving", "accept", "returned"} /\ mode \in {"dial", "listen"}
  /\ session \in {"handshake", "up"} => pc \in {"serving", "accept"}
  /\ pc = "serving" => session # "none"

\* The peer of a connection is the client last met, and its handshake went as
\* far as this end can tell.
PeerInv ==
  session # "none" =>
    /\ peer \in Clients /\ met = peer
    /\ mode = "dial" => Handshake(AgentEnd, ClientEnd(peer)) \in {"accepted", "listenerRejects"}
    /\ mode = "listen" => Handshake(ClientEnd(peer), AgentEnd) = "accepted"

\* A reason that ends the session for good is a fact about the peer's keys.
VerdictInv ==
  /\ session = "alert" => mode = "dial" /\ Handshake(AgentEnd, ClientEnd(peer)) = "listenerRejects"
  /\ session = "role" => SameIdentityAsPeer(peer)

\* An error is returned once, and nobody is met afterwards.
ResultInv == result # None => pc = "returned"

IInv == /\ TypeOK /\ ModeInv /\ SessionInv /\ PeerInv /\ VerdictInv /\ ResultInv
        /\ OnlyMutualTrustIsServed /\ GivesUpOnlyOverKeys

-----------------------------------------------------------------------------
\* What a handshake tells of the two keys, whoever dials.
LEMMA HandshakeMeans ==
  ASSUME NEW dialer, NEW listener
  PROVE  /\ Handshake(dialer, listener) \in {"alpn", "dialerRejects", "listenerRejects", "accepted"}
         /\ Handshake(dialer, listener) = "dialerRejects" => listener.key \notin dialer.allowed
         /\ Handshake(dialer, listener) \in {"listenerRejects", "accepted"} => listener.key \in dialer.allowed
         /\ Handshake(dialer, listener) = "listenerRejects" => dialer.key \notin listener.allowed
         /\ Handshake(dialer, listener) = "accepted" => dialer.key \in listener.allowed
BY DEF Handshake, verifyPin

\* The agent dials: whom its own end vouches for, and what the client makes of it.
LEMMA DialerTrust ==
  ASSUME NEW c
  PROVE  LET h == Handshake(AgentEnd, ClientEnd(c)) IN
         /\ h \in {"alpn", "dialerRejects", "listenerRejects", "accepted"}
         /\ h = "dialerRejects" => ~Trusts(c)
         /\ h \in {"listenerRejects", "accepted"} => Trusts(c)
         /\ h = "listenerRejects" => ~IsTrusted(c)
         /\ h = "accepted" => IsTrusted(c)
<1>1. AgentEnd.key = AgentKey /\ AgentEnd.allowed = Authorized BY DEF AgentEnd
<1>2. ClientEnd(c).key = c.key /\ ClientEnd(c).allowed = {c.expects} BY DEF ClientEnd
<1> QED BY <1>1, <1>2, HandshakeMeans DEF Trusts, IsTrusted

\* The agent listens: a connection that reaches Accept is one both ends vouch for.
LEMMA ListenerTrust ==
  ASSUME NEW c, Handshake(ClientEnd(c), AgentEnd) = "accepted"
  PROVE  Trusts(c) /\ IsTrusted(c)
<1>1. AgentEnd.key = AgentKey /\ AgentEnd.allowed = Authorized BY DEF AgentEnd
<1>2. ClientEnd(c).key = c.key /\ ClientEnd(c).allowed = {c.expects} BY DEF ClientEnd
<1> QED BY <1>1, <1>2, HandshakeMeans DEF Trusts, IsTrusted

\* The direction a valid block asks for is one of the three.
LEMMA DirectionIsKnown ==
  ASSUME NEW b \in Blocks, validateAgent(effectiveAgent(b))
  PROVE  effectiveAgent(b).dial # "" => effectiveAgent(b).dial \in {"dial", "undialable"}
<1>1. effectiveAgent(b) # None BY DEF validateAgent
<1>2. ~(b.file = None /\ ~(b.flags.listen # "" \/ b.flags.dial # "" \/ b.flags.other)) BY <1>1 DEF effectiveAgent
<1>3. effectiveAgent(b).dial =
        IF b.flags.dial # "" THEN b.flags.dial ELSE IF b.file = None THEN "" ELSE b.file.dial
  BY <1>2 DEF effectiveAgent
<1> QED BY <1>3, BlocksAssumption

\* Every wait is of a number that is followed.
LEMMA CappedInRange == ASSUME NEW n \in Nat PROVE Capped(n) \in 0..MaxAttempt
BY LinkAssumption DEF Capped

\* The agent has not started.
LEMMA InitIInv == Init => IInv
<1> SUFFICES ASSUME Init PROVE IInv OBVIOUS
<1> USE LinkAssumption DEF Init
<1>1. stable \in BOOLEAN /\ cancelled \in BOOLEAN OBVIOUS
<1>2. TypeOK BY <1>1 DEF TypeOK, Ends
<1>3. ModeInv /\ SessionInv /\ PeerInv /\ VerdictInv /\ ResultInv
  BY DEF ModeInv, SessionInv, PeerInv, VerdictInv, ResultInv
<1>4. OnlyMutualTrustIsServed /\ GivesUpOnlyOverKeys
  BY DEF OnlyMutualTrustIsServed, GivesUpOnlyOverKeys
<1> QED BY <1>2, <1>3, <1>4 DEF IInv

\* The command's set-up keeps the invariant: nobody has been met.
LEMMA StartStep == ASSUME IInv, Start \/ Setup \/ Top \/ BackoffEnds PROVE IInv'
<1> USE LinkAssumption DEF IInv, TypeOK, ModeInv, SessionInv, PeerInv, VerdictInv, ResultInv, Ends,
        OnlyMutualTrustIsServed, GivesUpOnlyOverKeys, link, world, Return
<1>1. CASE Start
  <2>1. PICK b \in Blocks :
          LET a == effectiveAgent(b) IN
          IF b.flags.clash \/ ~validateAgent(a) THEN Return("usage") /\ UNCHANGED mode
          ELSE pc' = "setup" /\ mode' = (IF a.dial # "" THEN a.dial ELSE "listen") /\ UNCHANGED result
    BY <1>1 DEF Start
  <2>2. mode' \in {None, "dial", "undialable", "listen"} BY <2>1, DirectionIsKnown
  <2> QED BY <1>1, <2>1, <2>2 DEF Start
<1>2. CASE Setup BY <1>2 DEF Setup
<1>3. CASE Top BY <1>3 DEF Top
<1>4. CASE BackoffEnds BY <1>4 DEF BackoffEnds
<1> QED BY <1>1, <1>2, <1>3, <1>4

\* The dialing loop keeps it: it gives up over its own end's verdict, or over
\* the one that ended the session.
LEMMA DialStep == ASSUME IInv, DialUnanswered \/ DialAnswered \/ Ended PROVE IInv'
<1> USE LinkAssumption DEF IInv, TypeOK, ModeInv, SessionInv, PeerInv, VerdictInv, ResultInv, Ends,
        OnlyMutualTrustIsServed, GivesUpOnlyOverKeys, link, world, Return, IsAuthFailed, IsRoleMismatch
<1>1. CASE DialUnanswered
  <2>1. Capped(attempt + 1) \in 0..MaxAttempt BY CappedInRange
  <2> QED BY <1>1, <2>1 DEF DialUnanswered, DialFails, Wait
<1>2. CASE DialAnswered
  <2>1. Capped(attempt + 1) \in 0..MaxAttempt BY CappedInRange
  <2>2. session = "none" BY <1>2 DEF DialAnswered
  <2>3. CASE DialFails("alpn") /\ UNCHANGED link
    BY <1>2, <2>1, <2>2, <2>3 DEF DialAnswered, DialFails, Wait
  <2>4. CASE Handshake(AgentEnd, ClientEnd(client)) = "dialerRejects" /\ DialFails("alert") /\ UNCHANGED link
    <3>1. ~Trusts(client) BY <2>4, DialerTrust
    <3> QED BY <1>2, <2>1, <2>2, <2>4, <3>1 DEF DialAnswered, DialFails, Wait, Trusts
  <2>5. CASE /\ Handshake(AgentEnd, ClientEnd(client)) \in {"accepted", "listenerRejects"}
             /\ pc' = "serving" /\ attempt' = 0 /\ peer' = client /\ session' = "handshake" /\ stable' = FALSE
             /\ UNCHANGED <<result, waited>>
    <3>0. stable' = FALSE /\ attempt' = 0 BY <2>5
    <3>1. stable' \in BOOLEAN /\ attempt' \in 0..MaxAttempt
      <4>1. 0 \in 0..MaxAttempt BY LinkAssumption
      <4> QED BY <3>0, <4>1, Zenon
    <3>2. client \in Clients /\ met' = client /\ peer' = client BY <1>2, <2>5 DEF DialAnswered
    <3>3. TypeOK' BY <1>2, <2>5, <3>1, <3>2 DEF DialAnswered
    <3>4. PeerInv' /\ VerdictInv' BY <1>2, <2>5, <3>2 DEF DialAnswered
    <3> QED BY <1>2, <2>5, <3>3, <3>4 DEF DialAnswered
  <2> QED BY <1>2, <2>3, <2>4, <2>5 DEF DialAnswered
<1>3. CASE Ended
  <2>1. Capped((IF stable THEN 0 ELSE attempt) + 1) \in 0..MaxAttempt BY CappedInRange
  <2>2. session = "alert" => ~IsTrusted(met) BY DialerTrust
  <2> QED BY <1>3, <2>1, <2>2 DEF Ended, Wait, SameIdentityAsPeer
<1> QED BY <1>1, <1>2, <1>3

\* The accepting loop keeps it.
LEMMA AcceptStep == ASSUME IInv, AcceptConn \/ AcceptedEnds \/ AcceptFails PROVE IInv'
<1> USE LinkAssumption DEF IInv, TypeOK, ModeInv, SessionInv, PeerInv, VerdictInv, ResultInv, Ends,
        OnlyMutualTrustIsServed, GivesUpOnlyOverKeys, link, world, Return
<1>1. CASE AcceptConn BY <1>1 DEF AcceptConn
<1>2. CASE AcceptedEnds BY <1>2 DEF AcceptedEnds
<1>3. CASE AcceptFails BY <1>3 DEF AcceptFails
<1> QED BY <1>1, <1>2, <1>3

\* The session keeps it: it comes up only when both verdicts are in.
LEMMA SessionStep == ASSUME IInv, Session \/ SessionStable \/ SessionLost PROVE IInv'
<1> USE LinkAssumption DEF IInv, TypeOK, ModeInv, SessionInv, PeerInv, VerdictInv, ResultInv, Ends,
        OnlyMutualTrustIsServed, GivesUpOnlyOverKeys, link, world
<1>1. CASE RefuseSameIdentity BY <1>1 DEF RefuseSameIdentity, SameIdentityAsPeer
<1>2. CASE CtxEndsSession BY <1>2 DEF CtxEndsSession
<1>3. CASE ClientVerdict
  <2>1. session' = "up" => ~SameIdentityAsPeer(peer) BY <1>3 DEF ClientVerdict
  <2>2. session' = "up" => Trusts(peer) /\ IsTrusted(peer)
    <3>1. CASE mode = "dial" BY <1>3, <3>1, DialerTrust DEF ClientVerdict
    <3>2. CASE mode = "listen" BY <1>3, <3>2, ListenerTrust DEF ClientVerdict
    <3> QED BY <1>3, <3>1, <3>2 DEF ClientVerdict
  <2> QED BY <1>3, <2>1, <2>2 DEF ClientVerdict, SameIdentityAsPeer, Trusts, IsTrusted
<1>4. CASE SessionIdle BY <1>4 DEF SessionIdle
<1>5. CASE SessionStable BY <1>5 DEF SessionStable
<1>6. CASE SessionLost BY <1>6 DEF SessionLost
<1> QED BY <1>1, <1>2, <1>3, <1>4, <1>5, <1>6 DEF Session

\* The world keeps it: the client may be set up anew under a live session.
LEMMA WorldStep == ASSUME IInv, ClientChanges \/ Cancel PROVE IInv'
<1> USE LinkAssumption DEF IInv, TypeOK, ModeInv, SessionInv, PeerInv, VerdictInv, ResultInv, Ends,
        OnlyMutualTrustIsServed, GivesUpOnlyOverKeys, link
<1>1. CASE ClientChanges BY <1>1 DEF ClientChanges
<1>2. CASE Cancel BY <1>2 DEF Cancel
<1> QED BY <1>1, <1>2

\* The invariant is inductive.
THEOREM Invariance == Spec => []IInv
<1>1. ASSUME IInv, [Next]_vars PROVE IInv'
  <2>1. CASE Next
    BY <1>1, <2>1, StartStep, DialStep, AcceptStep, SessionStep, WorldStep DEF Next, Agent
  <2>2. CASE UNCHANGED vars
    BY <1>1, <2>2 DEF vars, IInv, TypeOK, ModeInv, SessionInv, PeerInv, VerdictInv, ResultInv, Ends,
       OnlyMutualTrustIsServed, GivesUpOnlyOverKeys
  <2> QED BY <1>1, <2>1, <2>2
<1> QED BY <1>1, InitIInv, PTL DEF Spec

\* The variables keep their types, whatever the blocks and the clients are.
THEOREM TypeCorrect == Spec => []TypeOK
BY Invariance, PTL DEF IInv

\* A session is served only between two ends that trust each other's keys, and
\* never to the agent's own key: pinningTLS and serveConn together authenticate
\* every peer, in both directions, for any pins and any clients.
THEOREM MutualTrust == Spec => []OnlyMutualTrustIsServed
BY Invariance, PTL DEF IInv

\* The agent stops for good over an identity or a role only when the keys of
\* the client it last met say so, whether the rejection came back from Dial or
\* as the end of a session (dial.go:74-92, :146-167).
THEOREM GivingUpIsJustified == Spec => []GivesUpOnlyOverKeys
BY Invariance, PTL DEF IInv
-----------------------------------------------------------------------------
(* serveConn: the sessions of an agent, with the state of their own.       *)

(* A handler that serves the control stream has set cs.open.               *)
ControlIsOpen == \A s \in Streams : spc[s] \in ControlPCs => open

ConnInv ==
        /\ ConnTypeOK /\ ControlIsOpen
        /\ OneControlStream /\ ControlDeathIsSessionDeath
        /\ ServicesAreOwned /\ ReturnsClosed

-----------------------------------------------------------------------------
\* Before serveConn has looked at its peer there is no handler at all.
LEMMA InitConnInv ==
    ASSUME ConnInit
    PROVE  ConnInv
<1> USE StreamsAssumption DEF ConnInit
<1>1. \A s \in Streams : spc[s] = "none" /\ s \in Nat /\ s > 0 BY DEF Streams
<1>2. ConnTypeOK
  <2>1. \A s \in Streams : spc[s] # "none" <=> s <= accepted BY <1>1
  <2>2. spc \in [Streams -> {"none", "header", "mark", "dial", "respond", "pipe", "wedged",
                             "done"} \cup ControlPCs] OBVIOUS
  <2>3. accepted \in 0..MaxStreams OBVIOUS
  <2> QED BY <2>1, <2>2, <2>3 DEF ConnTypeOK
<1>3. ControlIsOpen /\ OneControlStream
  BY <1>1 DEF ControlIsOpen, OneControlStream, ControlPCs
<1>4. ControlDeathIsSessionDeath /\ ServicesAreOwned /\ ReturnsClosed
  BY DEF ControlDeathIsSessionDeath, ServicesAreOwned, ReturnsClosed
<1> QED BY <1>2, <1>3, <1>4 DEF ConnInv

\* serveConn, its timer and the world around it keep the invariant.
LEMMA LoopStep ==
    ASSUME ConnInv,
           \/ ConnEnds \/ Shutdown \/ RefusePeer \/ AdmitPeer
           \/ AcceptStream \/ StopAccepting \/ TimerFires \/ TimerCloses
    PROVE  ConnInv'
<1> USE StreamsAssumption DEF ConnInv, ConnTypeOK, ControlIsOpen, OneControlStream,
        ControlDeathIsSessionDeath, ServicesAreOwned, ReturnsClosed,
        ControlPCs, Streams, Up
<1>1. CASE ConnEnds BY <1>1 DEF ConnEnds
<1>2. CASE Shutdown BY <1>2 DEF Shutdown
<1>3. CASE RefusePeer BY <1>3 DEF RefusePeer, CloseWithError
<1>4. CASE AdmitPeer BY <1>4 DEF AdmitPeer
<1>5. CASE AcceptStream
  <2> USE <1>5 DEF AcceptStream
  <2>1. accepted + 1 \in Streams /\ spc[accepted + 1] = "none" OBVIOUS
  <2>2. ConnTypeOK' BY <2>1
  <2>3. (ControlIsOpen /\ OneControlStream /\ ControlDeathIsSessionDeath)' BY <2>1
  <2>4. (ServicesAreOwned /\ ReturnsClosed)' BY <2>1
  <2> QED BY <2>2, <2>3, <2>4
<1>6. CASE StopAccepting BY <1>6 DEF StopAccepting, CloseWithError, StopTimer
<1>7. CASE TimerFires BY <1>7 DEF TimerFires
<1>8. CASE TimerCloses BY <1>8 DEF TimerCloses, CloseWithError
<1> QED BY <1>1, <1>2, <1>3, <1>4, <1>5, <1>6, <1>7, <1>8

\* So does every step of a stream's handler, which moves that handler only.
LEMMA HandlerStep ==
    ASSUME ConnInv, NEW s \in Streams,
           HandlerRuns(s) \/ ClientWait(s)
    PROVE  ConnInv'
<1> USE StreamsAssumption DEF ConnInv, ConnTypeOK, ControlIsOpen, OneControlStream,
        ControlDeathIsSessionDeath, ServicesAreOwned, ReturnsClosed,
        ControlPCs, Streams, Up, Goes
<1>1. CASE UnsupportedProto(s) BY <1>1 DEF UnsupportedProto, CloseWithError
<1>2. CASE markOpen(s) BY <1>2 DEF markOpen
<1>3. CASE ControlStopsTimer(s) BY <1>3 DEF ControlStopsTimer, StopTimer
<1>4. CASE ControlReplies(s) BY <1>4 DEF ControlReplies
<1>5. CASE ControlReplyFails(s) BY <1>5 DEF ControlReplyFails, CloseWithError
<1>6. CASE Teardown(s) BY <1>6 DEF Teardown, CloseWithError
<1>7. CASE DialService(s) BY <1>7 DEF DialService
<1>8. CASE DialRefused(s) BY <1>8 DEF DialRefused
<1>9. CASE Respond(s) BY <1>9 DEF Respond
<1>10. CASE RespondFails(s) BY <1>10 DEF RespondFails
<1>11. CASE HeaderArrives(s) BY <1>11 DEF HeaderArrives
<1>12. CASE HeaderRejected(s) BY <1>12 DEF HeaderRejected
<1>13. CASE ControlEnds(s) BY <1>13 DEF ControlEnds
<1>14. CASE PipeEnds(s) BY <1>14 DEF PipeEnds
<1>15. CASE PipeWedges(s) BY <1>15 DEF PipeWedges
<1>16. CASE PipeResumes(s) BY <1>16 DEF PipeResumes
<1> QED BY <1>1, <1>2, <1>3, <1>4, <1>5, <1>6, <1>7, <1>8, <1>9, <1>10, <1>11, <1>12,
           <1>13, <1>14, <1>15, <1>16 DEF HandlerRuns, ClientWait

\* The inductive invariant holds of every session.
THEOREM ConnInvariance == ConnSpec => []ConnInv
<1>1. ConnInv /\ UNCHANGED connVars => ConnInv'
  BY DEF connVars, ConnInv, ConnTypeOK, ControlIsOpen, OneControlStream,
     ControlDeathIsSessionDeath, ServicesAreOwned, ReturnsClosed, Up
<1>2. ConnInv /\ [ConnNext]_(connVars) => ConnInv'
  BY <1>1, LoopStep, HandlerStep DEF ConnNext
<1> QED BY InitConnInv, <1>2, PTL DEF ConnSpec

-----------------------------------------------------------------------------
\* The session's variables keep their types, however many streams there are.
THEOREM ConnTypeCorrect == ConnSpec => []ConnTypeOK
BY ConnInvariance, PTL DEF ConnInv

\* markOpen lets one handler through, however many read a control header at once.
THEOREM ControlIsUnique == ConnSpec => []OneControlStream
BY ConnInvariance, PTL DEF ConnInv

\* On every path out of serveControl the connection is closed.
THEOREM ControlEndsSession == ConnSpec => []ControlDeathIsSessionDeath
BY ConnInvariance, PTL DEF ConnInv

\* serveStream never forgets a connection to a service.
THEOREM NoServiceLeaks == ConnSpec => []ServicesAreOwned
BY ConnInvariance, PTL DEF ConnInv

\* serveConn does not return and leave its peer to the idle timeout.
THEOREM PeerIsTold == ConnSpec => []ReturnsClosed
BY ConnInvariance, PTL DEF ConnInv
==============================================================================
