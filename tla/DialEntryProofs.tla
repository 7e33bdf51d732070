-------------------------- MODULE DialEntryProofs --------------------------
(***************************************************************************)
(* Proofs about DialEntry, for any set of callers, any rebind period, any  *)
(* probe threshold and any number of faults. The safety properties follow  *)
(* from one inductive invariant, Inv, whose parts say, for each location   *)
(* of the run loop, what the loop's channel, the fields under the lock,    *)
(* the probe and the resources look like there.                            *)
(***************************************************************************)
EXTENDS DialEntry, TLAPS

\* Locations of the run loop after it announced the end of the attempt, and
\* those at which it holds a recorded session.
Announced == {"rebind", "backoff", "live", "join", "lost"}
HoldsSession == {"wake_live", "live", "join", "lost"}

\* Channels are closed once, and all but the latest have been closed.
ChannelInv ==
    /\ \A n \in 1..gen : n < gen => n \in closed
    /\ rpc \in Announced => gen \in closed
    /\ rpc \in InFlight => gen \notin closed
    /\ rpc = "done" => ctxDone \/ gen \in closed

\* The fields under e.mu, location by location.
LockedInv ==
    /\ controlClient = current
    /\ current \in {None, gen}
    /\ rpc \in HoldsSession => intState = "connected"
    /\ intState = "connected" => rpc \in HoldsSession \cup {"done"}
    /\ current # None => intState = "connected" /\ ~dialing
    /\ intState = "connected" /\ ~ctxDone => current = gen
    /\ rpc \in {"top", "dial", "open", "record", "failed"} => dialing
    /\ rpc \in Announced \cup DOMAIN AfterWake => ~dialing
    /\ rpc = "done" => ctxDone \/ intState = "authFailed"
    /\ rpc = "failed" => runErr # NoErr
    /\ rpc = "wake_stop" => ctxDone
    /\ rpc \in {"wake_fail", "wake_auth", "rebind", "backoff"} => dialErr # NoErr
    /\ intState = "authFailed" => rpc \in {"wake_auth", "done"} /\ dialErr # NoErr
    /\ rpc = "wake_auth" => intState = "authFailed"

\* The probe lives exactly as long as the session it watches.
ProbeInv ==
    /\ ppc # "off" <=> rpc \in {"live", "join"}
    /\ ppc \in {"wait", "ping"} => pfails < FailThreshold

\* What is still open, and who will release it.
ResourceInv ==
    /\ openConns \subseteq {gen}
    /\ openClients \subseteq {gen}
    /\ openConns # {} => rpc \in {"open", "record", "wake_live", "live"}
    /\ openClients # {} => rpc \in HoldsSession \cup {"record", "done"}
    /\ cpc # "idle" => ctxDone
    /\ cpc = "done" => rpc = "done" /\ sockets = {}
    /\ cpc # "done" => sockets = {t}

Inv == TypeOK /\ ChannelInv /\ LockedInv /\ ProbeInv /\ ResourceInv

-----------------------------------------------------------------------------
USE RebindAssumption, ThresholdAssumption, FaultsAssumption
USE DEF mvars, rvars, pvars, cvars, tvars, nvars, None, NoErr

\* The locations at which a channel is about to be closed, spelled out.
LEMMA WakeDomain ==
    DOMAIN AfterWake = {"wake_stop", "wake_auth", "wake_fail", "wake_live"}
BY DEF AfterWake

\* Inv holds of a freshly built entry (newDialEntry).
LEMMA InitInv == Init => Inv
<1> SUFFICES ASSUME Init PROVE Inv
  OBVIOUS
<1> USE WakeDomain DEF Init, RunPCs, InFlight, Announced, HoldsSession
<1>1. TypeOK
  <2>1. waitOn \in [Callers -> 0..gen] /\ taken \in (0..gen) \X (0..gen)
    OBVIOUS
  <2>2. dialing \in BOOLEAN /\ stable \in BOOLEAN /\ ctxDone \in BOOLEAN
    OBVIOUS
  <2>3. /\ rpc \in RunPCs /\ gen \in Nat \ {0} /\ closed \subseteq 1..gen
        /\ current \in 0..gen /\ controlClient \in 0..gen
    OBVIOUS
  <2>4. /\ fails \in Nat /\ attempt \in Nat /\ pfails \in 0..FailThreshold
        /\ t \in Nat \ {0} /\ sockets \subseteq 1..t /\ faults \in 0..MaxFaults
    OBVIOUS
  <2> QED
    BY <2>1, <2>2, <2>3, <2>4 DEF TypeOK
<1>2. ChannelInv /\ LockedInv /\ ProbeInv /\ ResourceInv
  BY DEF ChannelInv, LockedInv, ProbeInv, ResourceInv
<1> QED
  BY <1>1, <1>2 DEF Inv

\* Every step of every goroutine and of the network preserves Inv.
LEMMA NextInv == Inv /\ [Next]_vars => Inv'
<1> SUFFICES ASSUME Inv, [Next]_vars PROVE Inv'
  OBVIOUS
<1> USE DEF Inv, TypeOK, ChannelInv, LockedInv, ProbeInv, ResourceInv, RunPCs,
            InFlight, Announced, HoldsSession
<1> USE WakeDomain
<1>1. CASE ConnDrops
  BY <1>1 DEF ConnDrops, Fault
<1>2. CASE PeerGoesSilent
  BY <1>2 DEF PeerGoesSilent, Fault
<1>3. CASE PathIsPoisoned
  BY <1>3 DEF PathIsPoisoned, Fault
<1>4. CASE SessionBecomesStable
  BY <1>4 DEF SessionBecomesStable
<1>5. CASE ParentCancelled
  BY <1>5 DEF ParentCancelled
<1>6. CASE TopCancelled
  BY <1>6 DEF TopCancelled
<1>7. CASE TopDials
  BY <1>7 DEF TopDials
<1>8. CASE DialOk
  BY <1>8 DEF DialOk
<1>9. CASE DialFails
  BY <1>9 DEF DialFails, Fault
<1>10. CASE OpenControlOk
  BY <1>10 DEF OpenControlOk
<1>11. CASE OpenControlFails
  <2>1. TypeOK'
    BY <1>11 DEF OpenControlFails, Fault
  <2>2. ChannelInv'
    BY <1>11 DEF OpenControlFails, Fault
  <2>3. LockedInv'
    BY <1>11 DEF OpenControlFails, Fault
  <2>4. ProbeInv'
    BY <1>11 DEF OpenControlFails, Fault
  <2>5. ResourceInv'
    BY <1>11 DEF OpenControlFails, Fault
  <2> QED
    BY <2>1, <2>2, <2>3, <2>4, <2>5
<1>12. CASE RecordConnection
  <2>1. TypeOK'
    <3>1. current' \in 0..gen /\ controlClient' \in 0..gen
      BY <1>12 DEF RecordConnection
    <3> QED
      BY <1>12, <3>1 DEF RecordConnection
  <2>2. ChannelInv'
    BY <1>12 DEF RecordConnection
  <2>3. LockedInv'
    BY <1>12 DEF RecordConnection
  <2>4. ProbeInv'
    BY <1>12 DEF RecordConnection
  <2>5. ResourceInv'
    BY <1>12 DEF RecordConnection
  <2> QED
    BY <2>1, <2>2, <2>3, <2>4, <2>5
<1>13. CASE FailedCancelled
  BY <1>13 DEF FailedCancelled
<1>14. CASE FailedAuth
  BY <1>14 DEF FailedAuth
<1>15. CASE FailedTransient
  <2>1. TypeOK'
    <3>1. fails' \in Nat /\ attempt' \in Nat
      BY <1>15 DEF FailedTransient
    <3> QED
      BY <1>15, <3>1 DEF FailedTransient
  <2>2. ChannelInv'
    BY <1>15 DEF FailedTransient
  <2>3. LockedInv'
    BY <1>15 DEF FailedTransient
  <2>4. ProbeInv'
    BY <1>15 DEF FailedTransient
  <2>5. ResourceInv'
    BY <1>15 DEF FailedTransient
  <2> QED
    BY <2>1, <2>2, <2>3, <2>4, <2>5
<1>16. CASE CloseDialDone
  <2>1. TypeOK'
    <3>1. fails' \in Nat /\ attempt' \in Nat /\ stable' \in BOOLEAN
      <4>1. CASE rpc = "wake_live"
        <5>1. fails' = 0 /\ attempt' = 0 /\ stable' = FALSE
          BY ONLY <1>16, <4>1 DEF CloseDialDone
        <5> QED
          BY ONLY <5>1
      <4>2. CASE rpc # "wake_live"
        BY <1>16, <4>2 DEF CloseDialDone
      <4> QED
        BY <4>1, <4>2
    <3>2. ppc' \in {"off", "wait", "ping", "done"} /\ pfails' \in 0..FailThreshold
      BY <1>16 DEF CloseDialDone, AfterWake
    <3>3. rpc' \in RunPCs /\ closed' \subseteq 1..gen
      BY <1>16 DEF CloseDialDone, AfterWake
    <3> QED
      BY <1>16, <3>1, <3>2, <3>3 DEF CloseDialDone, AfterWake
  <2>2. ChannelInv'
    BY <1>16 DEF CloseDialDone, AfterWake
  <2>3. LockedInv'
    BY <1>16 DEF CloseDialDone, AfterWake
  <2>4. ProbeInv'
    BY <1>16 DEF CloseDialDone, AfterWake
  <2>5. ResourceInv'
    BY <1>16 DEF CloseDialDone, AfterWake
  <2> QED
    BY <2>1, <2>2, <2>3, <2>4, <2>5
<1>17. CASE Rebind
  BY <1>17 DEF Rebind, Fault
<1>18. CASE BackoffCancelled
  BY <1>18 DEF BackoffCancelled
<1>19. CASE BackoffElapsed
  BY <1>19 DEF BackoffElapsed
<1>20. CASE ConnDone
  <2>1. TypeOK'
    BY <1>20 DEF ConnDone
  <2>2. ChannelInv'
    BY <1>20 DEF ConnDone
  <2>3. LockedInv'
    BY <1>20 DEF ConnDone
  <2>4. ProbeInv'
    BY <1>20 DEF ConnDone
  <2>5. ResourceInv'
    <3>1. openConns = {}
      BY <1>20 DEF ConnDone
    <3> QED
      BY <1>20, <3>1 DEF ConnDone
  <2> QED
    BY <2>1, <2>2, <2>3, <2>4, <2>5
<1>21. CASE ProbeJoined
  BY <1>21 DEF ProbeJoined
<1>22. CASE SessionLost
  <2>1. TypeOK'
    BY <1>22 DEF SessionLost
  <2>2. ChannelInv'
    BY <1>22 DEF SessionLost
  <2>3. LockedInv'
    BY <1>22 DEF SessionLost
  <2>4. ProbeInv'
    BY <1>22 DEF SessionLost
  <2>5. ResourceInv'
    BY <1>22 DEF SessionLost
  <2> QED
    BY <2>1, <2>2, <2>3, <2>4, <2>5
<1>23. CASE ProbeStops
  BY <1>23 DEF ProbeStops, ProbeCancelled
<1>24. CASE ProbeTick
  BY <1>24 DEF ProbeTick, ProbeCancelled
<1>25. CASE PingAnswered
  BY <1>25 DEF PingAnswered
<1>26. CASE PingFails
  <2>1. TypeOK'
    <3>1. pfails' \in 0..FailThreshold /\ faults' \in 0..MaxFaults
      BY <1>26 DEF PingFails, Fault, ProbeCancelled
    <3>2. openConns' \subseteq 1..gen /\ ppc' \in {"wait", "done"}
      BY <1>26 DEF PingFails, Fault, ProbeCancelled
    <3> QED
      BY <1>26, <3>1, <3>2 DEF PingFails, Fault, ProbeCancelled
  <2>2. ChannelInv'
    BY <1>26 DEF PingFails, Fault, ProbeCancelled
  <2>3. LockedInv'
    BY <1>26 DEF PingFails, Fault, ProbeCancelled
  <2>4. ProbeInv'
    BY <1>26 DEF PingFails, Fault, ProbeCancelled
  <2>5. ResourceInv'
    BY <1>26 DEF PingFails, Fault, ProbeCancelled
  <2> QED
    BY <2>1, <2>2, <2>3, <2>4, <2>5
<1>27. CASE CloseCancels
  BY <1>27 DEF CloseCancels
<1>28. CASE CloseTakes
  BY <1>28 DEF CloseTakes
<1>29. CASE CloseShuts
  <2>1. TypeOK'
    BY <1>29 DEF CloseShuts
  <2>2. ChannelInv'
    BY <1>29 DEF CloseShuts
  <2>3. LockedInv'
    BY <1>29 DEF CloseShuts
  <2>4. ProbeInv'
    BY <1>29 DEF CloseShuts
  <2>5. ResourceInv'
    BY <1>29 DEF CloseShuts
  <2> QED
    BY <2>1, <2>2, <2>3, <2>4, <2>5
<1>30. CASE CloseReturns
  BY <1>30 DEF CloseReturns
<1>31. ASSUME NEW c \in Callers, GetEnters(c) \/ GetWakes(c) PROVE Inv'
  <2>1. waitOn' \in [Callers -> 0..gen]
    BY <1>31 DEF GetEnters, GetWakes, GetLooks
  <2>2. UNCHANGED <<mvars, rvars, pvars, cvars, tvars, nvars>>
    BY <1>31 DEF GetEnters, GetWakes
  <2>3. TypeOK'
    BY <2>1, <2>2
  <2>4. ChannelInv' /\ ProbeInv' /\ ResourceInv'
    BY <2>2
  <2>5. LockedInv'
    BY <2>2
  <2> QED
    BY <2>3, <2>4, <2>5
<1>32. ASSUME NEW c \in Callers, GetGivesUp(c) PROVE Inv'
  BY <1>32 DEF GetGivesUp
<1>33. CASE UNCHANGED vars
  BY <1>33 DEF vars
<1> QED
  BY <1>1, <1>2, <1>3, <1>4, <1>5, <1>6, <1>7, <1>8, <1>9, <1>10, <1>11, <1>12, <1>13, <1>14, <1>15, <1>16, <1>17, <1>18, <1>19, <1>20, <1>21, <1>22, <1>23, <1>24, <1>25, <1>26, <1>27, <1>28, <1>29, <1>30, <1>31, <1>32, <1>33
     DEF Next, Environment, RunLoop, Probe, Close

\* Inv is an invariant of the entry.
THEOREM Invariance == Spec => []Inv
<1>1. Init => Inv
  BY InitInv
<1>2. Inv /\ [Next]_vars => Inv'
  BY NextInv
<1> QED
  BY <1>1, <1>2, PTL DEF Spec

-----------------------------------------------------------------------------
(* The safety properties *)

\* The entry's state always has its type: in particular no channel, connection
\* or client of an attempt that has not begun exists.
THEOREM TypeCorrect == Spec => []TypeOK
<1>1. Inv => TypeOK
  BY DEF Inv
<1> QED
  BY <1>1, Invariance, PTL

\* No path through runLoop closes a dialDone channel twice.
THEOREM ChannelsClosedOnce == Spec => []NoDoubleClose
<1>1. Inv => NoDoubleClose
  BY DEF Inv, ChannelInv, NoDoubleClose, InFlight
<1> QED
  BY <1>1, Invariance, PTL

\* However Get's look under the lock, its wait and the run loop interleave, no
\* caller is left on a channel that nobody is going to close.
THEOREM WakeupsAreNotLost == Spec => []NoLostWakeup
<1>1. ASSUME Inv PROVE NoLostWakeup
  <2> SUFFICES ASSUME NEW c \in Callers, waitOn[c] \notin closed \cup {None}
               PROVE  /\ waitOn[c] = gen
                      /\ rpc \in InFlight \/ (ctxDone /\ rpc = "done")
    BY DEF NoLostWakeup
  <2>1. waitOn[c] \in 1..gen /\ gen \in Nat
    BY <1>1 DEF Inv, TypeOK
  <2>2. waitOn[c] = gen
    BY <1>1, <2>1 DEF Inv, ChannelInv
  <2>3. gen \notin closed
    BY <2>2
  <2>4. rpc \in InFlight \cup Announced \cup {"done"}
    BY <1>1, WakeDomain DEF Inv, TypeOK, RunPCs, InFlight, Announced
  <2> QED
    BY <1>1, <2>2, <2>3, <2>4 DEF Inv, ChannelInv
<1> QED
  BY <1>1, Invariance, PTL

\* Until shutdown Get can always name a reason.
THEOREM GetCanExplain == Spec => []GetHasReason
<1>1. ASSUME Inv PROVE GetHasReason
  <2> SUFFICES ASSUME ~ctxDone, current = None, ~dialing PROVE dialErr # NoErr
    BY DEF GetHasReason
  <2>1. intState # "connected"
    BY <1>1 DEF Inv, LockedInv, TypeOK
  <2>2. rpc \in {"wake_fail", "wake_auth", "rebind", "backoff", "done"}
    BY <1>1, <2>1, WakeDomain
       DEF Inv, LockedInv, TypeOK, RunPCs, HoldsSession
  <2> QED
    BY <1>1, <2>2 DEF Inv, LockedInv
<1> QED
  BY <1>1, Invariance, PTL

\* The fields under the lock never disagree.
THEOREM FieldsAgree == Spec => []SessionConsistent
<1>1. Inv /\ GetHasReason => SessionConsistent
  BY DEF Inv, LockedInv, TypeOK, SessionConsistent, dialStateLabel
<1> QED
  BY <1>1, Invariance, GetCanExplain, PTL

\* Exactly one socket until Close returns, and nothing after it.
THEOREM OneSocket == Spec => []SocketOwned
<1>1. Inv => SocketOwned
  BY DEF Inv, ResourceInv, SocketOwned, HoldsSession
<1> QED
  BY <1>1, Invariance, PTL

\* A reconnect leaves nothing of the previous session open.
THEOREM NoLeak == Spec => []NothingLeaksAcrossReconnects
<1>1. Inv /\ SocketOwned => NothingLeaksAcrossReconnects
  BY DEF Inv, ResourceInv, NothingLeaksAcrossReconnects
<1> QED
  BY <1>1, Invariance, OneSocket, PTL

\* A rejected key is final.
THEOREM AuthIsFinal == Spec => AuthFailedIsFinal
<1> DEFINE Final == dialStateLabel = "auth_failed" =>
                       /\ dialStateLabel' = "auth_failed"
                       /\ gen' = gen /\ openConns' \subseteq openConns
<1>1. ASSUME Inv, [Next]_vars PROVE [Final]_vars
  <2> SUFFICES ASSUME Next, dialStateLabel = "auth_failed"
               PROVE  /\ dialStateLabel' = "auth_failed"
                      /\ gen' = gen /\ openConns' \subseteq openConns
    BY <1>1
  <2>1. intState = "authFailed"
    BY DEF dialStateLabel
  <2>2. rpc \in {"wake_auth", "done"} /\ (ppc = "off")
    BY <1>1, <2>1 DEF Inv, LockedInv, ProbeInv, TypeOK
  <2>3. intState' = intState /\ gen' = gen /\ openConns' \subseteq openConns
    <3>1. CASE Environment
      BY <3>1 DEF Environment, ConnDrops, PeerGoesSilent, PathIsPoisoned,
                  SessionBecomesStable, ParentCancelled
    <3>2. CASE RunLoop
      BY <2>2, <3>2 DEF RunLoop, TopCancelled, TopDials, DialOk, DialFails,
         OpenControlOk, OpenControlFails, RecordConnection, FailedCancelled,
         FailedAuth, FailedTransient, CloseDialDone, Rebind, BackoffCancelled,
         BackoffElapsed, ConnDone, ProbeJoined, SessionLost
    <3>3. CASE Probe
      BY <2>2, <3>3 DEF Probe, ProbeStops, ProbeTick, PingAnswered, PingFails
    <3>4. CASE Close
      BY <3>4 DEF Close, CloseCancels, CloseTakes, CloseShuts, CloseReturns
    <3>5. CASE \E c \in Callers : GetEnters(c) \/ GetWakes(c) \/ GetGivesUp(c)
      BY <3>5 DEF GetEnters, GetWakes, GetGivesUp
    <3> QED
      BY <3>1, <3>2, <3>3, <3>4, <3>5 DEF Next
  <2> QED
    BY <2>1, <2>3 DEF dialStateLabel
<1> QED
  BY <1>1, Invariance, PTL DEF Spec, AuthFailedIsFinal

-----------------------------------------------------------------------------
(* DialEntry implements SessionSlot *)

\* Every step of the entry is a step of the slot or leaves the slot alone.
LEMMA SlotStep == Inv /\ [Next]_vars => [Slot!Next]_(Slot!vars)
<1> SUFFICES ASSUME Inv, [Next]_vars PROVE [Slot!Next]_(Slot!vars)
  OBVIOUS
<1> USE DEF Slot!Next, Slot!vars
<1>1. CASE ConnDrops
  BY <1>1 DEF ConnDrops, Slot!End
<1>2. CASE PeerGoesSilent \/ PathIsPoisoned \/ SessionBecomesStable
  BY <1>2 DEF PeerGoesSilent, PathIsPoisoned, SessionBecomesStable
<1>3. CASE ParentCancelled \/ CloseCancels
  BY <1>3 DEF ParentCancelled, CloseCancels, Slot!Stop
<1>4. CASE \/ TopCancelled \/ TopDials \/ DialFails \/ OpenControlOk
           \/ FailedCancelled \/ FailedTransient \/ CloseDialDone \/ Rebind
           \/ BackoffCancelled \/ ConnDone \/ ProbeJoined
  BY <1>4 DEF TopCancelled, TopDials, DialFails, OpenControlOk, FailedCancelled,
              FailedTransient, CloseDialDone, Rebind, BackoffCancelled,
              ConnDone, ProbeJoined
<1>5. CASE DialOk
  <2>1. intState # "connected" /\ gen \in Nat
    BY <1>5 DEF DialOk, Inv, LockedInv, TypeOK, HoldsSession
  <2>2. gen > gen - 1 /\ gen \in openConns'
    BY <1>5, <2>1 DEF DialOk
  <2> QED
    BY <1>5, <2>1, <2>2 DEF DialOk, Slot!Connect
<1>6. CASE OpenControlFails
  BY <1>6 DEF OpenControlFails, Slot!End
<1>7. CASE RecordConnection
  <2>1. intState # "connected" /\ gen \in Nat
    BY <1>7 DEF RecordConnection, Inv, LockedInv, TypeOK, HoldsSession
  <2> QED
    BY <1>7, <2>1 DEF RecordConnection, Slot!Install
<1>8. CASE FailedAuth
  <2>1. intState # "connected"
    BY <1>8 DEF FailedAuth, Inv, LockedInv, HoldsSession
  <2> QED
    BY <1>8, <2>1 DEF FailedAuth
<1>9. CASE BackoffElapsed
  <2>1. intState # "connected" /\ gen \in Nat
    BY <1>9 DEF BackoffElapsed, Inv, LockedInv, TypeOK, HoldsSession
  <2> QED
    BY <1>9, <2>1 DEF BackoffElapsed, Slot!Abandon
<1>10. CASE SessionLost
  <2>1. intState = "connected" /\ gen \in Nat /\ gen \notin openConns /\ 0 \notin openConns
    BY <1>10 DEF SessionLost, Inv, LockedInv, ResourceInv, TypeOK, HoldsSession
  <2>2. current \notin openConns
    BY <2>1 DEF Inv, LockedInv
  <2> QED
    BY <1>10, <2>1, <2>2 DEF SessionLost, Slot!Clear
<1>11. CASE ProbeStops \/ ProbeTick \/ PingAnswered
  BY <1>11 DEF ProbeStops, ProbeTick, PingAnswered
<1>12. CASE PingFails
  BY <1>12 DEF PingFails, Slot!End
<1>13. CASE CloseTakes
  BY <1>13 DEF CloseTakes, Slot!Clear, Inv, ResourceInv
<1>14. CASE CloseShuts
  BY <1>14 DEF CloseShuts, Slot!End
<1>15. CASE CloseReturns
  BY <1>15 DEF CloseReturns
<1>16. CASE \E c \in Callers : GetEnters(c) \/ GetWakes(c) \/ GetGivesUp(c)
  BY <1>16 DEF GetEnters, GetWakes, GetGivesUp
<1>17. CASE UNCHANGED vars
  BY <1>17 DEF vars
<1> QED
  BY <1>1, <1>2, <1>3, <1>4, <1>5, <1>6, <1>7, <1>8, <1>9, <1>10, <1>11, <1>12,
     <1>13, <1>14, <1>15, <1>16, <1>17 DEF Next, Environment, RunLoop, Probe, Close

\* dialEntry implements the session slot: only ever newer connections are handed
\* out, and one is withdrawn only after it ended or once shutdown has begun.
THEOREM ImplementsSlot == Spec => SlotSpec
<1>1. Init => Slot!Init
  BY DEF Init, Slot!Init
<1>2. Inv /\ [Next]_vars => [Slot!Next]_(Slot!vars)
  BY SlotStep
<1> QED
  BY <1>1, <1>2, Invariance, PTL DEF Spec, SlotSpec, Slot!Spec
=============================================================================
