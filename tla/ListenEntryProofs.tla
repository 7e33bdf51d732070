------------------------- MODULE ListenEntryProofs -------------------------
(***************************************************************************)
(* Proofs about ListenEntry, for any callers, any number of arriving       *)
(* connections, any probe threshold and any number of faults. The          *)
(* inductive invariant adds to the properties themselves what they need:   *)
(* which connections exist (NumberingInv), that a watcher past its wait    *)
(* watches a connection that has ended, and that the current session has   *)
(* a watcher still to come or still at work (WatcherInv).                  *)
(***************************************************************************)
EXTENDS ListenEntry, TLAPS

\* Locations at which the accept loop is promoting connection n.
Promoting == {"vet", "open", "check", "install"}

\* Connections are numbered by arrival; the one being promoted is new to
\* everyone else.
NumberingInv ==
    /\ controlClient = current
    /\ current \in 0..n
    /\ openConns \subseteq 1..n
    /\ openClients \subseteq 1..n
    /\ \A c \in Conns : c > n => wpc[c] = "none"
    /\ apc \in Promoting => n \in Conns /\ current # n /\ wpc[n] = "none"
    /\ apc = "displace" => n \in Conns /\ wpc[n] = "none"
    /\ apc \in {"vet", "open"} => n \notin openClients
    /\ apc = "install" => n \in openClients

\* What a watcher's location says about its connection.
WatcherInv ==
    /\ \A c \in Conns : wpc[c] \in {"join", "lost", "release"} => c \notin openConns
    /\ \A c \in Conns : current = c /\ wpc[c] = "none" => apc = "displace" /\ c = n
    /\ \A c \in Conns : current = c /\ wpc[c] = "done" => c \notin openConns
    /\ \A c \in Conns : ppc[c] # "done" => pfails[c] < FailThreshold
    /\ \A c \in Conns : wpc[c] \in {"none", "start"} => ppc[c] = "off"

\* Close goes through its stages in order.
CloseInv ==
    /\ cpc # "idle" => ctxDone
    /\ cpc \in {"join", "done"} => apc = "done"
    /\ cpc = "done" => \A c \in Conns : wpc[c] \in {"none", "done"}
    /\ ~sockOpen => cpc = "done"

Inv == /\ TypeOK /\ NumberingInv /\ WatcherInv /\ CloseInv
       /\ ClientOwnership /\ NoOrphanConnection /\ NoLostWakeup

-----------------------------------------------------------------------------
USE ThresholdAssumption, ConnsAssumption, FaultsAssumption
USE DEF avars, mvars, wvars, cvars, nvars, None, Conns

\* Inv holds of a freshly built entry (newListenEntry).
LEMMA InitInv == Init => Inv
<1> SUFFICES ASSUME Init PROVE Inv
  OBVIOUS
<1> USE DEF Init
<1>1. TypeOK
  <2>1. /\ wpc \in [Conns -> {"none", "start", "watch", "join", "lost", "release", "done"}]
        /\ ppc \in [Conns -> {"off", "on", "done"}]
        /\ pfails \in [Conns -> 0..FailThreshold]
        /\ waitOn \in [Callers -> 0..waiting]
    OBVIOUS
  <2>2. waitErr \in BOOLEAN /\ ctxDone \in BOOLEAN /\ lnOpen \in BOOLEAN /\ sockOpen \in BOOLEAN
    OBVIOUS
  <2>3. /\ previous \in (0..MaxConns) \X (0..MaxConns)
        /\ taken \in (0..MaxConns) \X (0..MaxConns)
    OBVIOUS
  <2> QED
    BY <2>1, <2>2, <2>3 DEF TypeOK
<1>2. NumberingInv /\ WatcherInv /\ CloseInv
  BY DEF NumberingInv, WatcherInv, CloseInv, Promoting
<1>3. ClientOwnership
  BY DEF ClientOwnership, Owns, Roles
<1>4. NoOrphanConnection /\ NoLostWakeup
  BY DEF NoOrphanConnection, NoLostWakeup
<1> QED
  BY <1>1, <1>2, <1>3, <1>4 DEF Inv

\* ConnDrops preserves Inv.
LEMMA ConnDropsInv ==
    ASSUME Inv, ConnDrops
    PROVE  Inv'
<1> USE DEF Inv, ConnDrops, Fault
<1>1. TypeOK'
  <2>1. openConns' \subseteq Conns
    BY DEF TypeOK, NumberingInv, WatcherInv
  <2>2. faults' \in 0..MaxFaults
    BY DEF TypeOK, NumberingInv, WatcherInv
  <2> QED
    BY SMTT(40), <2>1, <2>2 DEF TypeOK
<1>2. NumberingInv' /\ WatcherInv' /\ CloseInv'
  BY DEF TypeOK, NumberingInv, Promoting, WatcherInv, CloseInv
<1>3. ClientOwnership'
  BY SMTT(40) DEF TypeOK, NumberingInv, Promoting, ClientOwnership, Owns, Roles
<1>4. NoOrphanConnection' /\ NoLostWakeup'
  BY SMTT(40) DEF TypeOK, NumberingInv, Promoting, WatcherInv, NoOrphanConnection, NoLostWakeup
<1> QED
  BY <1>1, <1>2, <1>3, <1>4

\* PeerGoesSilent preserves Inv.
LEMMA PeerGoesSilentInv ==
    ASSUME Inv, PeerGoesSilent
    PROVE  Inv'
<1> USE DEF Inv, PeerGoesSilent, Fault
<1>1. TypeOK'
  BY DEF TypeOK, NumberingInv, WatcherInv
<1>2. NumberingInv' /\ WatcherInv' /\ CloseInv'
  BY DEF TypeOK, NumberingInv, Promoting, WatcherInv, CloseInv
<1>3. ClientOwnership'
  BY SMTT(40) DEF TypeOK, NumberingInv, Promoting, ClientOwnership, Owns, Roles
<1>4. NoOrphanConnection' /\ NoLostWakeup'
  BY DEF TypeOK, NumberingInv, Promoting, WatcherInv, NoOrphanConnection, NoLostWakeup
<1> QED
  BY <1>1, <1>2, <1>3, <1>4

\* ParentCancelled preserves Inv.
LEMMA ParentCancelledInv ==
    ASSUME Inv, ParentCancelled
    PROVE  Inv'
<1> USE DEF Inv, ParentCancelled
<1>1. TypeOK'
  BY DEF TypeOK, NumberingInv, WatcherInv
<1>2. NumberingInv' /\ WatcherInv' /\ CloseInv'
  BY DEF TypeOK, NumberingInv, Promoting, WatcherInv, CloseInv
<1>3. ClientOwnership'
  BY DEF TypeOK, NumberingInv, Promoting, ClientOwnership, Owns, Roles
<1>4. NoOrphanConnection' /\ NoLostWakeup'
  BY DEF TypeOK, NumberingInv, Promoting, WatcherInv, NoOrphanConnection, NoLostWakeup
<1> QED
  BY <1>1, <1>2, <1>3, <1>4

\* LoopStops preserves Inv.
LEMMA LoopStopsInv ==
    ASSUME Inv, LoopStops
    PROVE  Inv'
<1> USE DEF Inv, LoopStops, failWaiters
<1>1. TypeOK'
  BY DEF TypeOK, NumberingInv, WatcherInv
<1>2. NumberingInv' /\ WatcherInv' /\ CloseInv'
  BY DEF TypeOK, NumberingInv, Promoting, WatcherInv, CloseInv
<1>3. ClientOwnership'
  BY DEF TypeOK, NumberingInv, Promoting, ClientOwnership, Owns, Roles
<1>4. NoOrphanConnection' /\ NoLostWakeup'
  BY DEF TypeOK, NumberingInv, Promoting, WatcherInv, NoOrphanConnection, NoLostWakeup
<1> QED
  BY <1>1, <1>2, <1>3, <1>4

\* LoopGoesOn preserves Inv.
LEMMA LoopGoesOnInv ==
    ASSUME Inv, LoopGoesOn
    PROVE  Inv'
<1> USE DEF Inv, LoopGoesOn
<1>1. TypeOK'
  BY DEF TypeOK, NumberingInv, WatcherInv
<1>2. NumberingInv' /\ WatcherInv' /\ CloseInv'
  BY DEF TypeOK, NumberingInv, Promoting, WatcherInv, CloseInv
<1>3. ClientOwnership'
  BY DEF TypeOK, NumberingInv, Promoting, ClientOwnership, Owns, Roles
<1>4. NoOrphanConnection' /\ NoLostWakeup'
  BY DEF TypeOK, NumberingInv, Promoting, WatcherInv, NoOrphanConnection, NoLostWakeup
<1> QED
  BY <1>1, <1>2, <1>3, <1>4

\* AcceptConn preserves Inv.
LEMMA AcceptConnInv ==
    ASSUME Inv, AcceptConn
    PROVE  Inv'
<1> USE DEF Inv, AcceptConn
<1>1. TypeOK'
  BY SMTT(40) DEF TypeOK, NumberingInv, WatcherInv
<1>2. NumberingInv' /\ WatcherInv' /\ CloseInv'
  BY SMTT(40) DEF TypeOK, NumberingInv, Promoting, WatcherInv, CloseInv
<1>3. ClientOwnership'
  BY DEF TypeOK, NumberingInv, Promoting, ClientOwnership, Owns, Roles
<1>4. NoOrphanConnection' /\ NoLostWakeup'
  BY DEF TypeOK, NumberingInv, Promoting, WatcherInv, NoOrphanConnection, NoLostWakeup
<1> QED
  BY <1>1, <1>2, <1>3, <1>4

\* AcceptFails preserves Inv.
LEMMA AcceptFailsInv ==
    ASSUME Inv, AcceptFails
    PROVE  Inv'
<1> USE DEF Inv, AcceptFails, Fault
<1>1. TypeOK'
  BY DEF TypeOK, NumberingInv, WatcherInv
<1>2. NumberingInv' /\ WatcherInv' /\ CloseInv'
  BY DEF TypeOK, NumberingInv, Promoting, WatcherInv, CloseInv
<1>3. ClientOwnership'
  BY DEF TypeOK, NumberingInv, Promoting, ClientOwnership, Owns, Roles
<1>4. NoOrphanConnection' /\ NoLostWakeup'
  BY DEF TypeOK, NumberingInv, Promoting, WatcherInv, NoOrphanConnection, NoLostWakeup
<1> QED
  BY <1>1, <1>2, <1>3, <1>4

\* RetryElapsed preserves Inv.
LEMMA RetryElapsedInv ==
    ASSUME Inv, RetryElapsed
    PROVE  Inv'
<1> USE DEF Inv, RetryElapsed
<1>1. TypeOK'
  BY DEF TypeOK, NumberingInv, WatcherInv
<1>2. NumberingInv' /\ WatcherInv' /\ CloseInv'
  BY DEF TypeOK, NumberingInv, Promoting, WatcherInv, CloseInv
<1>3. ClientOwnership'
  BY DEF TypeOK, NumberingInv, Promoting, ClientOwnership, Owns, Roles
<1>4. NoOrphanConnection' /\ NoLostWakeup'
  BY DEF TypeOK, NumberingInv, Promoting, WatcherInv, NoOrphanConnection, NoLostWakeup
<1> QED
  BY <1>1, <1>2, <1>3, <1>4

\* RefuseOwnIdentity preserves Inv.
LEMMA RefuseOwnIdentityInv ==
    ASSUME Inv, RefuseOwnIdentity
    PROVE  Inv'
<1> USE DEF Inv, RefuseOwnIdentity
<1>1. TypeOK'
  BY DEF TypeOK, NumberingInv, WatcherInv
<1>2. NumberingInv' /\ WatcherInv' /\ CloseInv'
  BY DEF TypeOK, NumberingInv, Promoting, WatcherInv, CloseInv
<1>3. ClientOwnership'
  BY DEF TypeOK, NumberingInv, Promoting, ClientOwnership, Owns, Roles
<1>4. NoOrphanConnection' /\ NoLostWakeup'
  BY DEF TypeOK, NumberingInv, Promoting, WatcherInv, NoOrphanConnection, NoLostWakeup
<1> QED
  BY <1>1, <1>2, <1>3, <1>4

\* PeerIsVetted preserves Inv.
LEMMA PeerIsVettedInv ==
    ASSUME Inv, PeerIsVetted
    PROVE  Inv'
<1> USE DEF Inv, PeerIsVetted
<1>1. TypeOK'
  BY DEF TypeOK, NumberingInv, WatcherInv
<1>2. NumberingInv' /\ WatcherInv' /\ CloseInv'
  BY DEF TypeOK, NumberingInv, Promoting, WatcherInv, CloseInv
<1>3. ClientOwnership'
  BY DEF TypeOK, NumberingInv, Promoting, ClientOwnership, Owns, Roles
<1>4. NoOrphanConnection' /\ NoLostWakeup'
  BY DEF TypeOK, NumberingInv, Promoting, WatcherInv, NoOrphanConnection, NoLostWakeup
<1> QED
  BY <1>1, <1>2, <1>3, <1>4

\* OpenControlOk preserves Inv.
LEMMA OpenControlOkInv ==
    ASSUME Inv, OpenControlOk
    PROVE  Inv'
<1> USE DEF Inv, OpenControlOk
<1>1. TypeOK'
  BY DEF TypeOK, NumberingInv, WatcherInv
<1>2. NumberingInv' /\ WatcherInv' /\ CloseInv'
  BY DEF TypeOK, NumberingInv, Promoting, WatcherInv, CloseInv
<1>3. ClientOwnership'
  BY DEF TypeOK, NumberingInv, Promoting, ClientOwnership, Owns, Roles
<1>4. NoOrphanConnection' /\ NoLostWakeup'
  BY DEF TypeOK, NumberingInv, Promoting, WatcherInv, NoOrphanConnection, NoLostWakeup
<1> QED
  BY <1>1, <1>2, <1>3, <1>4

\* OpenControlFails preserves Inv.
LEMMA OpenControlFailsInv ==
    ASSUME Inv, OpenControlFails
    PROVE  Inv'
<1> USE DEF Inv, OpenControlFails, Fault
<1>1. TypeOK'
  <2>1. faults' \in 0..MaxFaults
    BY DEF TypeOK, NumberingInv, WatcherInv
  <2>2. apc' = "check"
    BY DEF TypeOK, NumberingInv, WatcherInv
  <2> QED
    BY <2>1, <2>2 DEF TypeOK
<1>2. NumberingInv' /\ WatcherInv' /\ CloseInv'
  BY DEF TypeOK, NumberingInv, Promoting, WatcherInv, CloseInv
<1>3. ClientOwnership'
  BY DEF TypeOK, NumberingInv, Promoting, ClientOwnership, Owns, Roles
<1>4. NoOrphanConnection' /\ NoLostWakeup'
  BY DEF TypeOK, NumberingInv, Promoting, WatcherInv, NoOrphanConnection, NoLostWakeup
<1> QED
  BY <1>1, <1>2, <1>3, <1>4

\* PromoteRefuses preserves Inv.
LEMMA PromoteRefusesInv ==
    ASSUME Inv, PromoteRefuses
    PROVE  Inv'
<1> USE DEF Inv, PromoteRefuses
<1>1. TypeOK'
  BY DEF TypeOK, NumberingInv, WatcherInv
<1>2. NumberingInv' /\ WatcherInv' /\ CloseInv'
  BY DEF TypeOK, NumberingInv, Promoting, WatcherInv, CloseInv
<1>3. ClientOwnership'
  BY DEF TypeOK, NumberingInv, Promoting, ClientOwnership, Owns, Roles
<1>4. NoOrphanConnection' /\ NoLostWakeup'
  BY DEF TypeOK, NumberingInv, Promoting, WatcherInv, NoOrphanConnection, NoLostWakeup
<1> QED
  BY <1>1, <1>2, <1>3, <1>4

\* PromoteDecides preserves Inv.
LEMMA PromoteDecidesInv ==
    ASSUME Inv, PromoteDecides
    PROVE  Inv'
<1> USE DEF Inv, PromoteDecides
<1>1. TypeOK'
  BY DEF TypeOK, NumberingInv, WatcherInv
<1>2. NumberingInv' /\ WatcherInv' /\ CloseInv'
  BY DEF TypeOK, NumberingInv, Promoting, WatcherInv, CloseInv
<1>3. ClientOwnership'
  BY DEF TypeOK, NumberingInv, Promoting, ClientOwnership, Owns, Roles
<1>4. NoOrphanConnection' /\ NoLostWakeup'
  BY DEF TypeOK, NumberingInv, Promoting, WatcherInv, NoOrphanConnection, NoLostWakeup
<1> QED
  BY <1>1, <1>2, <1>3, <1>4

\* PromoteInstalls preserves Inv.
LEMMA PromoteInstallsInv ==
    ASSUME Inv, PromoteInstalls
    PROVE  Inv'
<1> USE DEF Inv, PromoteInstalls
<1>1. TypeOK'
  <2>1. previous' \in (0..MaxConns) \X (0..MaxConns)
    BY DEF TypeOK, NumberingInv, WatcherInv
  <2>2. waiting' \in Nat \ {0} /\ waitOn' \in [Callers -> 0..waiting']
    BY DEF TypeOK, NumberingInv, WatcherInv
  <2>3. waitErr' \in BOOLEAN
    BY DEF TypeOK, NumberingInv, WatcherInv
  <2>4. current' \in 0..MaxConns /\ controlClient' \in 0..MaxConns
    BY DEF TypeOK, NumberingInv, WatcherInv
  <2> QED
    BY <2>1, <2>2, <2>3, <2>4 DEF TypeOK
<1>2. NumberingInv' /\ WatcherInv' /\ CloseInv'
  BY DEF TypeOK, NumberingInv, Promoting, WatcherInv, CloseInv
<1>3. ClientOwnership'
  BY DEF TypeOK, NumberingInv, Promoting, ClientOwnership, Owns, Roles
<1>4. NoOrphanConnection' /\ NoLostWakeup'
  BY DEF TypeOK, NumberingInv, Promoting, WatcherInv, NoOrphanConnection, NoLostWakeup
<1> QED
  BY <1>1, <1>2, <1>3, <1>4

\* PromoteDisplaces preserves Inv.
LEMMA PromoteDisplacesInv ==
    ASSUME Inv, PromoteDisplaces
    PROVE  Inv'
<1> USE DEF Inv, PromoteDisplaces
<1>1. TypeOK'
  <2>1. wpc' \in [Conns -> {"none", "start", "watch", "join", "lost", "release", "done"}]
    BY DEF TypeOK, NumberingInv, WatcherInv
  <2>2. previous' \in (0..MaxConns) \X (0..MaxConns)
    BY DEF TypeOK, NumberingInv, WatcherInv
  <2>3. openConns' \subseteq Conns /\ openClients' \subseteq Conns
    BY DEF TypeOK, NumberingInv, WatcherInv
  <2> QED
    BY <2>1, <2>2, <2>3 DEF TypeOK
<1>2. NumberingInv' /\ WatcherInv' /\ CloseInv'
  <2>0. openConns' \subseteq openConns /\ openClients' \subseteq openClients /\ wpc' \in [Conns -> {"none", "start", "watch", "join", "lost", "release", "done"}]
    BY DEF TypeOK, NumberingInv
  <2>1. NumberingInv'
    <3>1. \A c \in Conns : c > n => wpc'[c] = "none"
      BY <2>0 DEF TypeOK, NumberingInv
    <3> QED
      BY <2>0, <3>1 DEF TypeOK, NumberingInv, Promoting
  <2>2. WatcherInv'
    BY <2>0 DEF TypeOK, NumberingInv, Promoting, WatcherInv
  <2>3. CloseInv'
    BY <2>0 DEF TypeOK, CloseInv
  <2> QED
    BY <2>1, <2>2, <2>3
<1>3. ClientOwnership'
  BY DEF TypeOK, NumberingInv, Promoting, ClientOwnership, Owns, Roles
<1>4. NoOrphanConnection' /\ NoLostWakeup'
  BY DEF TypeOK, NumberingInv, Promoting, WatcherInv, NoOrphanConnection, NoLostWakeup
<1> QED
  BY <1>1, <1>2, <1>3, <1>4

\* CloseCancels preserves Inv.
LEMMA CloseCancelsInv ==
    ASSUME Inv, CloseCancels
    PROVE  Inv'
<1> USE DEF Inv, CloseCancels
<1>1. TypeOK'
  BY DEF TypeOK, NumberingInv, WatcherInv
<1>2. NumberingInv' /\ WatcherInv' /\ CloseInv'
  BY DEF TypeOK, NumberingInv, Promoting, WatcherInv, CloseInv
<1>3. ClientOwnership'
  BY DEF TypeOK, NumberingInv, Promoting, ClientOwnership, Owns, Roles
<1>4. NoOrphanConnection' /\ NoLostWakeup'
  BY DEF TypeOK, NumberingInv, Promoting, WatcherInv, NoOrphanConnection, NoLostWakeup
<1> QED
  BY <1>1, <1>2, <1>3, <1>4

\* CloseTakes preserves Inv.
LEMMA CloseTakesInv ==
    ASSUME Inv, CloseTakes
    PROVE  Inv'
<1> USE DEF Inv, CloseTakes
<1>1. TypeOK'
  <2>1. taken' \in (0..MaxConns) \X (0..MaxConns)
    BY DEF TypeOK, NumberingInv, WatcherInv
  <2>2. current' \in 0..MaxConns /\ controlClient' \in 0..MaxConns
    BY DEF TypeOK, NumberingInv, WatcherInv
  <2> QED
    BY <2>1, <2>2 DEF TypeOK
<1>2. NumberingInv' /\ WatcherInv' /\ CloseInv'
  BY DEF TypeOK, NumberingInv, Promoting, WatcherInv, CloseInv
<1>3. ClientOwnership'
  BY DEF TypeOK, NumberingInv, Promoting, ClientOwnership, Owns, Roles
<1>4. NoOrphanConnection' /\ NoLostWakeup'
  BY DEF TypeOK, NumberingInv, Promoting, WatcherInv, NoOrphanConnection, NoLostWakeup
<1> QED
  BY <1>1, <1>2, <1>3, <1>4

\* CloseShuts preserves Inv.
LEMMA CloseShutsInv ==
    ASSUME Inv, CloseShuts
    PROVE  Inv'
<1> USE DEF Inv, CloseShuts
<1>1. TypeOK'
  <2>1. taken' \in (0..MaxConns) \X (0..MaxConns)
    BY DEF TypeOK, NumberingInv, WatcherInv
  <2>2. openConns' \subseteq Conns /\ openClients' \subseteq Conns
    BY DEF TypeOK, NumberingInv, WatcherInv
  <2>3. lnOpen' \in BOOLEAN
    BY DEF TypeOK, NumberingInv, WatcherInv
  <2> QED
    BY <2>1, <2>2, <2>3 DEF TypeOK
<1>2. NumberingInv' /\ WatcherInv' /\ CloseInv'
  <2>0. openConns' \subseteq openConns /\ openClients' \subseteq openClients /\ (apc = "install" => n # taken[2])
    BY DEF TypeOK, NumberingInv, ClientOwnership, Owns, Roles
  <2>1. NumberingInv'
    BY <2>0 DEF TypeOK, NumberingInv, Promoting
  <2>2. WatcherInv'
    BY <2>0 DEF TypeOK, NumberingInv, Promoting, WatcherInv
  <2>3. CloseInv'
    BY <2>0 DEF TypeOK, CloseInv
  <2> QED
    BY <2>1, <2>2, <2>3
<1>3. ClientOwnership'
  BY DEF TypeOK, NumberingInv, Promoting, ClientOwnership, Owns, Roles
<1>4. NoOrphanConnection' /\ NoLostWakeup'
  BY DEF TypeOK, NumberingInv, Promoting, WatcherInv, NoOrphanConnection, NoLostWakeup
<1> QED
  BY <1>1, <1>2, <1>3, <1>4

\* CloseAwaitsLoop preserves Inv.
LEMMA CloseAwaitsLoopInv ==
    ASSUME Inv, CloseAwaitsLoop
    PROVE  Inv'
<1> USE DEF Inv, CloseAwaitsLoop
<1>1. TypeOK'
  BY DEF TypeOK, NumberingInv, WatcherInv
<1>2. NumberingInv' /\ WatcherInv' /\ CloseInv'
  BY DEF TypeOK, NumberingInv, Promoting, WatcherInv, CloseInv
<1>3. ClientOwnership'
  BY DEF TypeOK, NumberingInv, Promoting, ClientOwnership, Owns, Roles
<1>4. NoOrphanConnection' /\ NoLostWakeup'
  BY DEF TypeOK, NumberingInv, Promoting, WatcherInv, NoOrphanConnection, NoLostWakeup
<1> QED
  BY <1>1, <1>2, <1>3, <1>4

\* CloseReturns preserves Inv.
LEMMA CloseReturnsInv ==
    ASSUME Inv, CloseReturns
    PROVE  Inv'
<1> USE DEF Inv, CloseReturns
<1>1. TypeOK'
  BY DEF TypeOK, NumberingInv, WatcherInv
<1>2. NumberingInv' /\ WatcherInv' /\ CloseInv'
  BY DEF TypeOK, NumberingInv, Promoting, WatcherInv, CloseInv
<1>3. ClientOwnership'
  BY DEF TypeOK, NumberingInv, Promoting, ClientOwnership, Owns, Roles
<1>4. NoOrphanConnection' /\ NoLostWakeup'
  BY DEF TypeOK, NumberingInv, Promoting, WatcherInv, NoOrphanConnection, NoLostWakeup
<1> QED
  BY <1>1, <1>2, <1>3, <1>4

\* WatcherStarts preserves Inv.
LEMMA WatcherStartsInv ==
    ASSUME Inv, NEW k \in Conns, WatcherStarts(k)
    PROVE  Inv'
<1> USE DEF Inv, WatcherStarts
<1>1. TypeOK'
  <2>1. wpc' \in [Conns -> {"none", "start", "watch", "join", "lost", "release", "done"}]
    BY DEF TypeOK, NumberingInv, WatcherInv
  <2>2. ppc' \in [Conns -> {"off", "on", "done"}]
    BY DEF TypeOK, NumberingInv, WatcherInv
  <2> QED
    BY SMTT(40), <2>1, <2>2 DEF TypeOK
<1>2. NumberingInv' /\ WatcherInv' /\ CloseInv'
  <2>1. NumberingInv'
    BY DEF TypeOK, NumberingInv, Promoting
  <2>2. WatcherInv'
    <3> SUFFICES ASSUME NEW c \in Conns
                 PROVE  /\ wpc'[c] \in {"join", "lost", "release"} => c \notin openConns'
                        /\ current' = c /\ wpc'[c] = "none" => apc' = "displace" /\ c = n'
                        /\ current' = c /\ wpc'[c] = "done" => c \notin openConns'
                        /\ ppc'[c] # "done" => pfails'[c] < FailThreshold
                        /\ wpc'[c] \in {"none", "start"} => ppc'[c] = "off"
      BY DEF WatcherInv
    <3>1. CASE c # k
      BY <3>1 DEF TypeOK, WatcherInv
    <3>2. CASE c = k
      BY <3>2 DEF TypeOK, WatcherInv
    <3> QED
      BY <3>1, <3>2
  <2>3. CloseInv'
    BY DEF TypeOK, CloseInv
  <2> QED
    BY <2>1, <2>2, <2>3
<1>3. ClientOwnership'
  BY SMTT(40) DEF TypeOK, NumberingInv, Promoting, ClientOwnership, Owns, Roles
<1>4. NoOrphanConnection' /\ NoLostWakeup'
  BY DEF TypeOK, NumberingInv, Promoting, WatcherInv, NoOrphanConnection, NoLostWakeup
<1> QED
  BY <1>1, <1>2, <1>3, <1>4

\* WatcherSeesEnd preserves Inv.
LEMMA WatcherSeesEndInv ==
    ASSUME Inv, NEW k \in Conns, WatcherSeesEnd(k)
    PROVE  Inv'
<1> USE DEF Inv, WatcherSeesEnd
<1>1. TypeOK'
  BY SMTT(40) DEF TypeOK, NumberingInv, WatcherInv
<1>2. NumberingInv' /\ WatcherInv' /\ CloseInv'
  BY DEF TypeOK, NumberingInv, Promoting, WatcherInv, CloseInv
<1>3. ClientOwnership'
  BY DEF TypeOK, NumberingInv, Promoting, ClientOwnership, Owns, Roles
<1>4. NoOrphanConnection' /\ NoLostWakeup'
  BY DEF TypeOK, NumberingInv, Promoting, WatcherInv, NoOrphanConnection, NoLostWakeup
<1> QED
  BY <1>1, <1>2, <1>3, <1>4

\* WatcherJoins preserves Inv.
LEMMA WatcherJoinsInv ==
    ASSUME Inv, NEW k \in Conns, WatcherJoins(k)
    PROVE  Inv'
<1> USE DEF Inv, WatcherJoins
<1>1. TypeOK'
  BY SMTT(40) DEF TypeOK, NumberingInv, WatcherInv
<1>2. NumberingInv' /\ WatcherInv' /\ CloseInv'
  BY DEF TypeOK, NumberingInv, Promoting, WatcherInv, CloseInv
<1>3. ClientOwnership'
  BY DEF TypeOK, NumberingInv, Promoting, ClientOwnership, Owns, Roles
<1>4. NoOrphanConnection' /\ NoLostWakeup'
  BY DEF TypeOK, NumberingInv, Promoting, WatcherInv, NoOrphanConnection, NoLostWakeup
<1> QED
  BY <1>1, <1>2, <1>3, <1>4

\* WatcherClears preserves Inv.
LEMMA WatcherClearsInv ==
    ASSUME Inv, NEW k \in Conns, WatcherClears(k)
    PROVE  Inv'
<1> USE DEF Inv, WatcherClears
<1>1. TypeOK'
  <2>1. wpc' \in [Conns -> {"none", "start", "watch", "join", "lost", "release", "done"}]
    BY SMTT(40) DEF TypeOK, NumberingInv, WatcherInv
  <2>2. intState' \in {"connecting", "connected"}
    BY DEF TypeOK, NumberingInv, WatcherInv
  <2>3. current' \in 0..MaxConns /\ controlClient' \in 0..MaxConns
    BY DEF TypeOK, NumberingInv, WatcherInv
  <2> QED
    BY SMTT(40), <2>1, <2>2, <2>3 DEF TypeOK
<1>2. NumberingInv' /\ WatcherInv' /\ CloseInv'
  <2>1. CASE current = k
    <3>1. NumberingInv'
      BY SMTT(40), <2>1 DEF TypeOK, NumberingInv, Promoting
    <3>2. WatcherInv'
      BY SMTT(40), <2>1 DEF TypeOK, NumberingInv, Promoting, WatcherInv
    <3>3. CloseInv'
      BY <2>1 DEF TypeOK, CloseInv
    <3> QED
      BY <3>1, <3>2, <3>3
  <2>2. CASE current # k
    <3>1. NumberingInv'
      BY <2>2 DEF TypeOK, NumberingInv, Promoting
    <3>2. WatcherInv'
      BY SMTT(40), <2>2 DEF TypeOK, NumberingInv, Promoting, WatcherInv
    <3>3. CloseInv'
      BY <2>2 DEF TypeOK, CloseInv
    <3> QED
      BY <3>1, <3>2, <3>3
  <2> QED
    BY <2>1, <2>2
<1>3. ClientOwnership'
  BY SMTT(40) DEF TypeOK, NumberingInv, Promoting, ClientOwnership, Owns, Roles
<1>4. NoOrphanConnection' /\ NoLostWakeup'
  BY SMTT(40) DEF TypeOK, NumberingInv, Promoting, WatcherInv, NoOrphanConnection, NoLostWakeup
<1> QED
  BY <1>1, <1>2, <1>3, <1>4

\* WatcherReleases preserves Inv.
LEMMA WatcherReleasesInv ==
    ASSUME Inv, NEW k \in Conns, WatcherReleases(k)
    PROVE  Inv'
<1> USE DEF Inv, WatcherReleases
<1>1. TypeOK'
  BY SMTT(40) DEF TypeOK, NumberingInv, WatcherInv
<1>2. NumberingInv' /\ WatcherInv' /\ CloseInv'
  BY DEF TypeOK, NumberingInv, Promoting, WatcherInv, CloseInv
<1>3. ClientOwnership'
  BY SMTT(40) DEF TypeOK, NumberingInv, Promoting, ClientOwnership, Owns, Roles
<1>4. NoOrphanConnection' /\ NoLostWakeup'
  BY DEF TypeOK, NumberingInv, Promoting, WatcherInv, NoOrphanConnection, NoLostWakeup
<1> QED
  BY <1>1, <1>2, <1>3, <1>4

\* ProbeStops preserves Inv.
LEMMA ProbeStopsInv ==
    ASSUME Inv, NEW k \in Conns, ProbeStops(k)
    PROVE  Inv'
<1> USE DEF Inv, ProbeStops, ProbeCancelled
<1>1. TypeOK'
  BY SMTT(40) DEF TypeOK, NumberingInv, WatcherInv
<1>2. NumberingInv' /\ WatcherInv' /\ CloseInv'
  BY DEF TypeOK, NumberingInv, Promoting, WatcherInv, CloseInv
<1>3. ClientOwnership'
  BY DEF TypeOK, NumberingInv, Promoting, ClientOwnership, Owns, Roles
<1>4. NoOrphanConnection' /\ NoLostWakeup'
  BY DEF TypeOK, NumberingInv, Promoting, WatcherInv, NoOrphanConnection, NoLostWakeup
<1> QED
  BY <1>1, <1>2, <1>3, <1>4

\* PingAnswered preserves Inv.
LEMMA PingAnsweredInv ==
    ASSUME Inv, NEW k \in Conns, PingAnswered(k)
    PROVE  Inv'
<1> USE DEF Inv, PingAnswered
<1>1. TypeOK'
  BY SMTT(40) DEF TypeOK, NumberingInv, WatcherInv
<1>2. NumberingInv' /\ WatcherInv' /\ CloseInv'
  BY DEF TypeOK, NumberingInv, Promoting, WatcherInv, CloseInv
<1>3. ClientOwnership'
  BY DEF TypeOK, NumberingInv, Promoting, ClientOwnership, Owns, Roles
<1>4. NoOrphanConnection' /\ NoLostWakeup'
  BY DEF TypeOK, NumberingInv, Promoting, WatcherInv, NoOrphanConnection, NoLostWakeup
<1> QED
  BY <1>1, <1>2, <1>3, <1>4

\* PingFails preserves Inv.
LEMMA PingFailsInv ==
    ASSUME Inv, NEW k \in Conns, PingFails(k)
    PROVE  Inv'
<1> USE DEF Inv, PingFails, Fault, ProbeCancelled
<1>1. TypeOK'
  <2>1. pfails[k] + 1 \in 0..FailThreshold
    BY SMTT(40) DEF TypeOK, WatcherInv
  <2>2. pfails' \in [Conns -> 0..FailThreshold]
    BY <2>1 DEF TypeOK
  <2>3. faults' \in 0..MaxFaults
    BY SMTT(40) DEF TypeOK
  <2>4. ppc' = ppc \/ ppc' = [ppc EXCEPT ![k] = "done"]
    OBVIOUS
  <2>5. ppc' \in [Conns -> {"off", "on", "done"}]
    BY <2>4 DEF TypeOK
  <2>6. openConns' \subseteq Conns
    BY DEF TypeOK
  <2> QED
    BY SMTT(40), <2>2, <2>3, <2>5, <2>6 DEF TypeOK
<1>2. NumberingInv' /\ WatcherInv' /\ CloseInv'
  <2>1. CASE pfails[k] + 1 >= FailThreshold
    <3>1. NumberingInv'
      BY <2>1 DEF TypeOK, NumberingInv, Promoting
    <3>2. WatcherInv'
      BY SMTT(40), <2>1 DEF TypeOK, NumberingInv, Promoting, WatcherInv
    <3>3. CloseInv'
      BY <2>1 DEF TypeOK, CloseInv
    <3> QED
      BY <3>1, <3>2, <3>3
  <2>2. CASE ~(pfails[k] + 1 >= FailThreshold)
    <3>1. NumberingInv'
      BY <2>2 DEF TypeOK, NumberingInv, Promoting
    <3>2. WatcherInv'
      BY <2>2 DEF TypeOK, NumberingInv, Promoting, WatcherInv
    <3>3. CloseInv'
      BY <2>2 DEF TypeOK, CloseInv
    <3> QED
      BY <3>1, <3>2, <3>3
  <2> QED
    BY <2>1, <2>2
<1>3. ClientOwnership'
  BY SMTT(40) DEF TypeOK, NumberingInv, Promoting, ClientOwnership, Owns, Roles
<1>4. NoOrphanConnection' /\ NoLostWakeup'
  <2>1. openConns' \subseteq openConns
    OBVIOUS
  <2> QED
    BY <2>1 DEF NoOrphanConnection, NoLostWakeup
<1> QED
  BY <1>1, <1>2, <1>3, <1>4

\* GetEnters preserves Inv.
LEMMA GetEntersInv ==
    ASSUME Inv, NEW g \in Callers, GetEnters(g)
    PROVE  Inv'
<1> USE DEF Inv, GetEnters, GetLooks
<1>1. TypeOK'
  <2>1. waitOn' \in [Callers -> 0..waiting]
    BY DEF TypeOK, NumberingInv, WatcherInv
  <2>2. UNCHANGED <<avars, mvars, wvars, cvars, nvars>>
    BY DEF TypeOK, NumberingInv, WatcherInv
  <2> QED
    BY SMTT(40), <2>1, <2>2 DEF TypeOK
<1>2. NumberingInv' /\ WatcherInv' /\ CloseInv'
  BY DEF TypeOK, NumberingInv, Promoting, WatcherInv, CloseInv
<1>3. ClientOwnership'
  BY DEF TypeOK, NumberingInv, Promoting, ClientOwnership, Owns, Roles
<1>4. NoOrphanConnection' /\ NoLostWakeup'
  BY DEF TypeOK, NumberingInv, Promoting, WatcherInv, NoOrphanConnection, NoLostWakeup
<1> QED
  BY <1>1, <1>2, <1>3, <1>4

\* GetWakes preserves Inv.
LEMMA GetWakesInv ==
    ASSUME Inv, NEW g \in Callers, GetWakes(g)
    PROVE  Inv'
<1> USE DEF Inv, GetWakes, GetLooks
<1>1. TypeOK'
  <2>1. waitOn' \in [Callers -> 0..waiting]
    BY DEF TypeOK, NumberingInv, WatcherInv
  <2>2. UNCHANGED <<avars, mvars, wvars, cvars, nvars>>
    BY DEF TypeOK, NumberingInv, WatcherInv
  <2> QED
    BY SMTT(40), <2>1, <2>2 DEF TypeOK
<1>2. NumberingInv' /\ WatcherInv' /\ CloseInv'
  BY DEF TypeOK, NumberingInv, Promoting, WatcherInv, CloseInv
<1>3. ClientOwnership'
  BY DEF TypeOK, NumberingInv, Promoting, ClientOwnership, Owns, Roles
<1>4. NoOrphanConnection' /\ NoLostWakeup'
  BY DEF TypeOK, NumberingInv, Promoting, WatcherInv, NoOrphanConnection, NoLostWakeup
<1> QED
  BY <1>1, <1>2, <1>3, <1>4

\* GetGivesUp preserves Inv.
LEMMA GetGivesUpInv ==
    ASSUME Inv, NEW g \in Callers, GetGivesUp(g)
    PROVE  Inv'
<1> USE DEF Inv, GetGivesUp
<1>1. TypeOK'
  <2>1. waitOn' \in [Callers -> 0..waiting]
    BY DEF TypeOK, NumberingInv, WatcherInv
  <2>2. UNCHANGED <<avars, mvars, wvars, cvars, nvars>>
    BY DEF TypeOK, NumberingInv, WatcherInv
  <2> QED
    BY <2>1, <2>2 DEF TypeOK
<1>2. NumberingInv' /\ WatcherInv' /\ CloseInv'
  BY DEF TypeOK, NumberingInv, Promoting, WatcherInv, CloseInv
<1>3. ClientOwnership'
  BY DEF TypeOK, NumberingInv, Promoting, ClientOwnership, Owns, Roles
<1>4. NoOrphanConnection' /\ NoLostWakeup'
  BY DEF TypeOK, NumberingInv, Promoting, WatcherInv, NoOrphanConnection, NoLostWakeup
<1> QED
  BY <1>1, <1>2, <1>3, <1>4

\* Every step preserves Inv.
LEMMA NextInv == Inv /\ [Next]_vars => Inv'
<1> SUFFICES ASSUME Inv, [Next]_vars PROVE Inv'
  OBVIOUS
<1>1. CASE Environment
  BY <1>1, ConnDropsInv, PeerGoesSilentInv, ParentCancelledInv DEF Environment
<1>2. CASE AcceptLoop
  BY <1>2, LoopStopsInv, LoopGoesOnInv, RetryElapsedInv, RefuseOwnIdentityInv,
     PeerIsVettedInv, OpenControlOkInv, OpenControlFailsInv, PromoteRefusesInv,
     PromoteDecidesInv, PromoteInstallsInv, PromoteDisplacesInv DEF AcceptLoop
<1>3. CASE Arrivals
  BY <1>3, AcceptConnInv, AcceptFailsInv DEF Arrivals
<1>4. CASE Close
  BY <1>4, CloseCancelsInv, CloseTakesInv, CloseShutsInv, CloseAwaitsLoopInv,
     CloseReturnsInv DEF Close
<1>5. ASSUME NEW c \in Conns, Watcher(c) PROVE Inv'
  BY <1>5, WatcherStartsInv, WatcherSeesEndInv, WatcherJoinsInv,
     WatcherClearsInv, WatcherReleasesInv DEF Watcher
<1>6. ASSUME NEW c \in Conns, Probe(c) PROVE Inv'
  BY <1>6, ProbeStopsInv, PingAnsweredInv, PingFailsInv DEF Probe
<1>7. ASSUME NEW g \in Callers, GetEnters(g) \/ GetWakes(g) \/ GetGivesUp(g)
      PROVE  Inv'
  BY <1>7, GetEntersInv, GetWakesInv, GetGivesUpInv
<1>8. CASE UNCHANGED vars
  BY <1>8 DEF vars, Inv, TypeOK, NumberingInv, Promoting, WatcherInv, CloseInv,
     ClientOwnership, Owns, Roles, NoOrphanConnection, NoLostWakeup
<1> QED
  BY <1>1, <1>2, <1>3, <1>4, <1>5, <1>6, <1>7, <1>8 DEF Next

\* Inv is an invariant of the entry.
THEOREM Invariance == Spec => []Inv
<1>1. Init => Inv
  BY InitInv
<1>2. Inv /\ [Next]_vars => Inv'
  BY NextInv
<1> QED
  BY <1>1, <1>2, PTL DEF Spec

-----------------------------------------------------------------------------
(* The safety properties *)

\* The entry's state always has its type.
THEOREM TypeCorrect == Spec => []TypeOK
<1>1. Inv => TypeOK
  BY DEF Inv
<1> QED
  BY <1>1, Invariance, PTL

\* However promotion, drops and shutdown interleave, an open control client has
\* exactly one party that will close it, and a closed one has none.
THEOREM OneOwnerPerClient == Spec => []ClientOwnership
<1>1. Inv => ClientOwnership
  BY DEF Inv
<1> QED
  BY <1>1, Invariance, PTL

\* No accepted connection is ever left open and forgotten.
THEOREM NoConnectionForgotten == Spec => []NoOrphanConnection
<1>1. Inv => NoOrphanConnection
  BY DEF Inv
<1> QED
  BY <1>1, Invariance, PTL

\* Get never sleeps through the arrival of a session.
THEOREM WakeupsAreNotLost == Spec => []NoLostWakeup
<1>1. Inv => NoLostWakeup
  BY DEF Inv
<1> QED
  BY <1>1, Invariance, PTL

\* The socket outlives everything that could use it.
THEOREM SocketReleasedLast == Spec => []QuietAtTheEnd
<1>1. ASSUME Inv PROVE QuietAtTheEnd
  <2> SUFFICES ASSUME ~sockOpen
               PROVE  /\ apc = "done"
                      /\ \A c \in Conns : wpc[c] \in {"none", "done"}
                      /\ openConns = {}
    BY DEF QuietAtTheEnd
  <2>1. /\ apc = "done" /\ cpc = "done"
        /\ \A c \in Conns : wpc[c] \in {"none", "done"}
    BY <1>1 DEF Inv, CloseInv
  <2>2. ASSUME NEW c \in openConns PROVE FALSE
    <3>1. c = current /\ c \in Conns
      BY <1>1, <2>1, <2>2 DEF Inv, NoOrphanConnection, TypeOK
    <3> QED
      BY <1>1, <2>1, <2>2, <3>1 DEF Inv, WatcherInv
  <2> QED
    BY <2>1, <2>2
<1> QED
  BY <1>1, Invariance, PTL

-----------------------------------------------------------------------------
(* ListenEntry implements SessionSlot *)

\* Every step of the entry is a step of the slot or leaves the slot alone.
LEMMA SlotStep == Inv /\ [Next]_vars => [Slot!Next]_(Slot!vars)
<1> SUFFICES ASSUME Inv, [Next]_vars PROVE [Slot!Next]_(Slot!vars)
  OBVIOUS
<1> USE DEF Slot!Next, Slot!vars
<1>0. n \in Nat
  BY DEF Inv, TypeOK
<1>1. CASE ConnDrops
  BY <1>1 DEF ConnDrops, Slot!End
<1>2. CASE PeerGoesSilent
  BY <1>2 DEF PeerGoesSilent
<1>3. CASE ParentCancelled \/ CloseCancels
  BY <1>3 DEF ParentCancelled, CloseCancels, Slot!Stop
<1>4. CASE \/ LoopStops \/ LoopGoesOn \/ AcceptFails \/ RetryElapsed
           \/ PeerIsVetted \/ OpenControlOk \/ OpenControlFails \/ PromoteDecides
  BY <1>4 DEF LoopStops, LoopGoesOn, AcceptFails, RetryElapsed, PeerIsVetted,
              OpenControlOk, OpenControlFails, PromoteDecides
<1>5. CASE AcceptConn
  <2>1. n + 1 > n /\ n + 1 \in openConns' /\ (n + 1) - 1 = n
    BY <1>0, <1>5 DEF AcceptConn
  <2> QED
    BY <1>5, <2>1 DEF AcceptConn, Slot!Connect
<1>6. CASE RefuseOwnIdentity \/ PromoteRefuses
  <2>1. n > n - 1
    BY <1>0
  <2> QED
    BY <1>6, <2>1 DEF RefuseOwnIdentity, PromoteRefuses, Slot!Abandon
<1>7. CASE PromoteInstalls
  <2>1. n > n - 1
    BY <1>0
  <2> QED
    BY <1>7, <2>1 DEF PromoteInstalls, Slot!Install
<1>8. CASE PromoteDisplaces
  BY <1>8 DEF PromoteDisplaces, Slot!End
<1>9. CASE CloseTakes
  BY <1>9 DEF CloseTakes, Slot!Clear, Inv, CloseInv
<1>10. CASE CloseShuts
  BY <1>10 DEF CloseShuts, Slot!End
<1>11. CASE CloseAwaitsLoop \/ CloseReturns
  BY <1>11 DEF CloseAwaitsLoop, CloseReturns
<1>12. ASSUME NEW c \in Conns,
              WatcherStarts(c) \/ WatcherSeesEnd(c) \/ WatcherJoins(c) \/ WatcherReleases(c)
       PROVE  UNCHANGED Slot!vars
  BY <1>12 DEF WatcherStarts, WatcherSeesEnd, WatcherJoins, WatcherReleases
<1>13. ASSUME NEW c \in Conns, WatcherClears(c) PROVE [Slot!Next]_(Slot!vars)
  <2>1. CASE current = c
    <3>1. current \notin openConns
      BY <1>13, <2>1 DEF WatcherClears, Inv, WatcherInv
    <3> QED
      BY <1>13, <2>1, <3>1 DEF WatcherClears, Slot!Clear
  <2>2. CASE current # c
    BY <1>13, <2>2 DEF WatcherClears
  <2> QED
    BY <2>1, <2>2
<1>14. ASSUME NEW c \in Conns, Probe(c) PROVE [Slot!Next]_(Slot!vars)
  BY <1>14 DEF Probe, ProbeStops, PingAnswered, PingFails, Slot!End
<1>15. CASE \E g \in Callers : GetEnters(g) \/ GetWakes(g) \/ GetGivesUp(g)
  BY <1>15 DEF GetEnters, GetWakes, GetGivesUp
<1>16. CASE UNCHANGED vars
  BY <1>16 DEF vars
<1> HIDE DEF Slot!Next, Slot!vars
<1> QED
  BY <1>1, <1>2, <1>3, <1>4, <1>5, <1>6, <1>7, <1>8, <1>9, <1>10, <1>11, <1>12,
     <1>13, <1>14, <1>15, <1>16
     DEF Next, Environment, AcceptLoop, Arrivals, Close, Watcher

\* listenEntry implements the session slot: a late watcher never empties the slot
\* of a newer session, and only newer connections are ever installed.
THEOREM ImplementsSlot == Spec => SlotSpec
<1>1. Init => Slot!Init
  BY DEF Init, Slot!Init
<1>2. Inv /\ [Next]_vars => [Slot!Next]_(Slot!vars)
  BY SlotStep
<1> QED
  BY <1>1, <1>2, Invariance, PTL DEF Spec, SlotSpec, Slot!Spec
=============================================================================
