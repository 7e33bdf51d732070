-------------------------- MODULE ForwarderProofs --------------------------
(***************************************************************************)
(* Proofs about Forwarder, for every cap and any number of connections.    *)
(* The inductive invariant ties the registry to where the handlers are: an *)
(* entry is there from register to deregister, and its remote leg is       *)
(* recorded from setRemote on. That is what makes the sweep complete.      *)
(*                                                                         *)
(* Then proofs about what a handler runs once both its legs are open, the  *)
(* splice of Splice, for any amount of data, any buffer and any choice of  *)
(* ends that can be half-closed. Its invariant adds to the properties that *)
(* a half-closed end has no writer left, that a direction that is over     *)
(* without a failure has passed its end on, and that pipe returns only     *)
(* when both directions are over.                                          *)
(***************************************************************************)
EXTENDS Forwarder, Splice, FiniteSetTheorems, TLAPS

Running == {c \in Conns : hpc[c] \notin {"none", "done"}}

\* Handlers are started in the order of arrival.
HandlersStarted == \A c \in Conns : hpc[c] = "none" <=> c > accepted

\* The registry holds exactly the forwards between register and deregister.
RegistryExact ==
    \A c \in Conns :
        /\ c \in entries <=> hpc[c] \in {"attach", "setRemote", "pipe", "deregister"}
        /\ c \in withRemote => hpc[c] \in {"pipe", "deregister"}
        /\ hpc[c] = "pipe" => c \in withRemote

\* Who closes the listener.
ListenerInv ==
    /\ closed => watcher \in {"swept", "done"}
    /\ watcher = "swept" => closed
    /\ closed /\ watcher = "done" => ~lnOpen
    /\ lnOpen /\ apc # "accept" => ctxDone

\* Run returns last.
ReturnedLast == returned => apc = "done" /\ watcher = "done" /\ Quiet

IInv == /\ TypeOK /\ HandlersStarted /\ RegistryExact /\ ListenerInv /\ ReturnedLast
        /\ LegsAreOwned /\ SweepMissesNothing /\ SlotsMatchHandlers

-----------------------------------------------------------------------------
\* A slot count follows its set: one handler more, one slot more.
LEMMA OneMore ==
    ASSUME NEW S \in SUBSET Conns, NEW c \in Conns, c \notin S
    PROVE  Cardinality(S \cup {c}) = Cardinality(S) + 1 /\ Cardinality(S) \in Nat
<1>1. IsFiniteSet(Conns) BY ConnsAssumption, FS_Interval DEF Conns
<1>2. IsFiniteSet(S) BY <1>1, FS_Subset
<1> QED BY <1>2, FS_AddElement, FS_CardinalityType

\* ... and one less.
LEMMA OneLess ==
    ASSUME NEW S \in SUBSET Conns, NEW c \in S
    PROVE  Cardinality(S \ {c}) = Cardinality(S) - 1 /\ Cardinality(S) \in Nat \ {0}
<1>1. IsFiniteSet(Conns) BY ConnsAssumption, FS_Interval DEF Conns
<1>2. IsFiniteSet(S) BY <1>1, FS_Subset
<1>3. Cardinality(S \ {c}) = Cardinality(S) - 1 BY <1>2, FS_RemoveElement
<1>4. Cardinality(S) \in Nat /\ Cardinality(S) # 0 BY <1>2, FS_CardinalityType, FS_EmptySet
<1> QED BY <1>3, <1>4

\* Nothing has been accepted yet.
LEMMA InitIInv == Init => IInv
<1> SUFFICES ASSUME Init PROVE IInv OBVIOUS
<1> USE CapAssumption, ConnsAssumption DEF Init
<1>1. \A c \in Conns : hpc[c] = "none" /\ local[c] = "none" /\ remote[c] = "none" /\ c > 0
  BY DEF Conns
<1>2. TypeOK
  <2>1. hpc \in [Conns -> {"none", "register", "attach", "setRemote", "pipe",
                           "deregister", "release", "done"}] OBVIOUS
  <2>2. local \in [Conns -> Leg] /\ remote \in [Conns -> Leg] BY DEF Leg
  <2>3. accepted \in 0..MaxConns /\ sem \in 0..MaxConcurrent OBVIOUS
  <2> QED BY <2>1, <2>2, <2>3 DEF TypeOK
<1>3. HandlersStarted /\ RegistryExact /\ LegsAreOwned
  BY <1>1 DEF HandlersStarted, RegistryExact, LegsAreOwned
<1>4. ListenerInv /\ ReturnedLast /\ SweepMissesNothing
  BY DEF ListenerInv, ReturnedLast, SweepMissesNothing
<1>5. SlotsMatchHandlers
  <2>1. {c \in Conns : hpc[c] \notin {"none", "done"}} = {} BY <1>1
  <2> QED BY <2>1, FS_EmptySet DEF SlotsMatchHandlers
<1> QED BY <1>2, <1>3, <1>4, <1>5 DEF IInv

\* The watcher and the accept loop keep the invariant.
LEMMA LoopStep ==
    ASSUME IInv, \/ Cancel \/ WatcherArrives \/ closeAll \/ WatcherClosesListener
                 \/ AcceptFails \/ AcceptLoopEnds \/ RunReturns
    PROVE  IInv'
<1> USE ConnsAssumption DEF IInv, TypeOK, HandlersStarted, RegistryExact, ListenerInv, ReturnedLast,
        LegsAreOwned, SweepMissesNothing, SlotsMatchHandlers, Quiet, legs, registry, Leg
<1>1. CASE Cancel BY <1>1 DEF Cancel, WakeWatcher
<1>2. CASE WatcherArrives BY <1>2 DEF WatcherArrives
<1>3. CASE closeAll
  <2> USE <1>3 DEF closeAll, Reset
  <2>1. TypeOK' OBVIOUS
  <2>2. LegsAreOwned' OBVIOUS
  <2>3. SweepMissesNothing'
    <3> SUFFICES ASSUME NEW c \in entries
                 PROVE  local'[c] = "down" /\ (remote'[c] = "open" => hpc[c] = "setRemote")
      OBVIOUS
    <3>1. c \in Conns BY DEF Conns
    <3> QED BY <3>1
  <2>4. SlotsMatchHandlers' OBVIOUS
  <2>5. (HandlersStarted /\ RegistryExact /\ ListenerInv /\ ReturnedLast)' OBVIOUS
  <2> QED BY <2>1, <2>2, <2>3, <2>4, <2>5
<1>4. CASE WatcherClosesListener BY <1>4 DEF WatcherClosesListener
<1>5. CASE AcceptFails BY <1>5 DEF AcceptFails
<1>6. CASE AcceptLoopEnds BY <1>6 DEF AcceptLoopEnds, WakeWatcher
<1>7. CASE RunReturns BY <1>7 DEF RunReturns
<1> QED BY <1>1, <1>2, <1>3, <1>4, <1>5, <1>6, <1>7

\* So does a new connection, whether or not there is a slot for it.
LEMMA ArrivalStep ==
    ASSUME IInv, AcceptConn \/ RefuseConn
    PROVE  IInv'
<1> DEFINE new == accepted + 1
<1>0. new \in Conns /\ new \notin entries /\ hpc[new] = "none" /\ new \in Nat
  BY ConnsAssumption DEF IInv, TypeOK, HandlersStarted, AcceptConn, RefuseConn, Conns
<1>1. ~returned BY DEF IInv, ReturnedLast, AcceptConn, RefuseConn
<1>2. (TypeOK /\ HandlersStarted)'
  <2> USE <1>0, CapAssumption, ConnsAssumption
      DEF IInv, TypeOK, HandlersStarted, AcceptConn, RefuseConn, registry
  <2>1. accepted' = new /\ new \in 0..MaxConns /\ sem' \in 0..MaxConcurrent BY DEF Conns
  <2>2. hpc' \in [Conns -> {"none", "register", "attach", "setRemote", "pipe",
                            "deregister", "release", "done"}] OBVIOUS
  <2>3. (local \in [Conns -> Leg] /\ remote \in [Conns -> Leg])' BY DEF Leg
  <2>4. entries \subseteq 1..new BY DEF Conns
  <2>5. TypeOK' BY <2>1, <2>2, <2>3, <2>4
  <2>6. HandlersStarted'
    <3> SUFFICES ASSUME NEW c \in Conns PROVE hpc'[c] = "none" <=> c > new BY <2>1
    <3>1. c \in Nat /\ (hpc[c] = "none" <=> c > accepted) BY DEF Conns
    <3>2. hpc'[c] = (IF c = new THEN hpc'[new] ELSE hpc[c]) /\ hpc'[new] # "none" OBVIOUS
    <3> QED BY <3>1, <3>2
  <2> QED BY <2>5, <2>6
<1>3. (RegistryExact /\ LegsAreOwned /\ SweepMissesNothing)'
  <2> USE <1>0 DEF IInv, TypeOK, AcceptConn, RefuseConn, registry
  <2>1. /\ UNCHANGED <<entries, withRemote, closed, remote>>
        /\ \A c \in Conns \ {new} : hpc'[c] = hpc[c] /\ local'[c] = local[c]
        /\ hpc'[new] \in {"register", "done"}
        /\ local'[new] = "open" => hpc'[new] = "register"
    OBVIOUS
  <2>2. new \notin withRemote /\ remote[new] # "open" BY DEF LegsAreOwned
  <2>3. RegistryExact' BY <2>1, <2>2 DEF RegistryExact
  <2>4. LegsAreOwned' BY <2>1, <2>2 DEF LegsAreOwned
  <2>5. SweepMissesNothing'
    <3>1. entries \subseteq Conns \ {new} BY ConnsAssumption DEF Conns
    <3> QED BY <2>1, <3>1 DEF SweepMissesNothing
  <2> QED BY <2>3, <2>4, <2>5
<1>4. (ListenerInv /\ ReturnedLast)'
  BY <1>1 DEF IInv, ListenerInv, ReturnedLast, AcceptConn, RefuseConn, registry
<1>5. SlotsMatchHandlers'
  <2>1. CASE AcceptConn
    <3>1. Running' = Running \cup {new} /\ new \notin Running
      BY <1>0, <2>1 DEF AcceptConn, Running, IInv, TypeOK
    <3>2. Cardinality(Running \cup {new}) = Cardinality(Running) + 1
      BY <1>0, <3>1, OneMore DEF Running
    <3> QED BY <2>1, <3>1, <3>2 DEF AcceptConn, IInv, SlotsMatchHandlers, Running
  <2>2. CASE RefuseConn
    <3>1. Running' = Running BY <1>0, <2>2 DEF RefuseConn, Running, IInv, TypeOK
    <3> QED BY <2>2, <3>1 DEF RefuseConn, IInv, SlotsMatchHandlers, Running
  <2> QED BY <2>1, <2>2
<1> QED BY <1>2, <1>3, <1>4, <1>5 DEF IInv

\* Until it gives its slot back, a handler's step leaves the slots alone.
LEMMA HandlerStep ==
    ASSUME IInv, NEW c \in Conns,
           \/ register(c) \/ AttachOk(c) \/ AttachFails(c) \/ setRemote(c)
           \/ PipeEnds(c) \/ deregister(c)
    PROVE  IInv'
<1> DEFINE Steps == /\ hpc[c] \notin {"none", "done"} /\ sem' = sem
                    /\ \E to \in {"attach", "setRemote", "pipe", "deregister", "release"} :
                          hpc' = [hpc EXCEPT ![c] = to]
                    /\ UNCHANGED <<apc, accepted, watcher, lnOpen, closed, ctxDone, returned>>
<1>1. Steps
  BY DEF register, AttachOk, AttachFails, setRemote, PipeEnds, deregister, Goes, Unchanged,
         registry, legs
<1>2. ~returned BY <1>1 DEF IInv, ReturnedLast, Quiet
<1>3. c <= accepted /\ c \in 1..accepted
  BY <1>1, ConnsAssumption DEF IInv, HandlersStarted, TypeOK, Conns
<1>4. (HandlersStarted /\ ListenerInv /\ ReturnedLast)'
  BY <1>1, <1>2 DEF IInv, TypeOK, HandlersStarted, ListenerInv, ReturnedLast
<1>5. SlotsMatchHandlers'
  <2>1. Running' = Running BY <1>1 DEF Running, IInv, TypeOK
  <2> QED BY <1>1, <2>1 DEF IInv, SlotsMatchHandlers, Running
<1>6. entries \subseteq Conns /\ c \in Conns
  BY ConnsAssumption DEF IInv, TypeOK, Conns
<1> USE <1>3, <1>6 DEF IInv, TypeOK, Goes, Unchanged, registry, legs
<1>7. TypeOK'
  <2> USE DEF Leg
  <2>1. CASE register(c)
    <3>1. entries' \subseteq 1..accepted /\ withRemote \subseteq entries' BY <2>1 DEF register
    <3> QED BY <2>1, <3>1, <1>1 DEF register
  <2>2. CASE setRemote(c)
    <3>1. withRemote' \subseteq entries BY <2>2 DEF setRemote
    <3> QED BY <2>2, <3>1, <1>1 DEF setRemote
  <2>3. CASE AttachOk(c) \/ AttachFails(c) \/ PipeEnds(c) \/ deregister(c)
    BY <2>3 DEF AttachOk, AttachFails, PipeEnds, deregister
  <2> QED BY <2>1, <2>2, <2>3
<1>8. RegistryExact'
  <2> USE DEF RegistryExact
  <2>1. CASE register(c) BY <2>1 DEF register
  <2>2. CASE setRemote(c) BY <2>2 DEF setRemote
  <2>3. CASE AttachOk(c) \/ AttachFails(c) \/ PipeEnds(c) \/ deregister(c)
    BY <2>3 DEF AttachOk, AttachFails, PipeEnds, deregister
  <2> QED BY <2>1, <2>2, <2>3
<1>9. LegsAreOwned'
  <2> USE DEF LegsAreOwned
  <2>1. CASE register(c) BY <2>1 DEF register
  <2>2. CASE setRemote(c) BY <2>2 DEF setRemote
  <2>3. CASE AttachOk(c) \/ AttachFails(c) \/ PipeEnds(c) \/ deregister(c)
    BY <2>3 DEF AttachOk, AttachFails, PipeEnds, deregister
  <2> QED BY <2>1, <2>2, <2>3
<1>10. SweepMissesNothing'
  <2> USE DEF SweepMissesNothing
  <2>1. CASE register(c) BY <2>1 DEF register
  <2>2. CASE setRemote(c) BY <2>2 DEF setRemote, RegistryExact
  <2>3. CASE AttachOk(c) \/ AttachFails(c) \/ PipeEnds(c) \/ deregister(c)
    BY <2>3 DEF AttachOk, AttachFails, PipeEnds, deregister
  <2> QED BY <2>1, <2>2, <2>3
<1> QED BY <1>4, <1>5, <1>7, <1>8, <1>9, <1>10

\* A handler that leaves gives back one slot, which it had.
LEMMA ReleaseStep ==
    ASSUME IInv, NEW c \in Conns, Release(c)
    PROVE  IInv'
<1> USE DEF Release, Goes, Unchanged, registry, legs
<1>1. c \in Running /\ Running' = Running \ {c} BY DEF Running, IInv, TypeOK
<1>2. /\ Cardinality(Running \ {c}) = Cardinality(Running) - 1
      /\ Cardinality(Running) \in Nat \ {0}
  BY <1>1, OneLess DEF Running
<1>3. SlotsMatchHandlers' BY <1>1, <1>2 DEF IInv, SlotsMatchHandlers, Running
<1>4. sem \in 1..MaxConcurrent
  BY <1>2, CapAssumption DEF IInv, TypeOK, SlotsMatchHandlers, Running
<1>5. TypeOK' BY <1>4, CapAssumption DEF IInv, TypeOK
<1>6. (HandlersStarted /\ RegistryExact /\ LegsAreOwned /\ SweepMissesNothing)'
  BY DEF IInv, TypeOK, HandlersStarted, RegistryExact, LegsAreOwned, SweepMissesNothing
<1>7. (ListenerInv /\ ReturnedLast)'
  BY DEF IInv, ListenerInv, ReturnedLast, Quiet
<1> QED BY <1>3, <1>5, <1>6, <1>7 DEF IInv

\* The inductive invariant holds throughout.
THEOREM Invariance == Spec => []IInv
<1>1. IInv /\ UNCHANGED vars => IInv'
  BY DEF vars, registry, legs, IInv, TypeOK, HandlersStarted, RegistryExact, ListenerInv,
     ReturnedLast, Quiet, LegsAreOwned, SweepMissesNothing, SlotsMatchHandlers
<1>2. IInv /\ [Next]_vars => IInv'
  BY <1>1, LoopStep, ArrivalStep, HandlerStep, ReleaseStep DEF Next, Watcher, Handler
<1> QED BY InitIInv, <1>2, PTL DEF Spec

-----------------------------------------------------------------------------
\* The forwarder's variables keep their types; the cap is never exceeded.
THEOREM TypeCorrect == Spec => []TypeOK
BY Invariance, PTL DEF IInv

\* However registration, attach and closeAll interleave, the sweep is complete.
THEOREM SweepIsComplete == Spec => []SweepMissesNothing
BY Invariance, PTL DEF IInv

\* A slot of f.sem is held by each running handler and by nobody else.
THEOREM CapIsExact == Spec => []SlotsMatchHandlers
BY Invariance, PTL DEF IInv

\* No leg is open without a handler that will close it.
THEOREM NoLegForgotten == Spec => []LegsAreOwned
BY Invariance, PTL DEF IInv

\* When Run returns nothing it started is left.
THEOREM RunLeavesNothing == Spec => []NothingLeft
<1>1. ASSUME IInv PROVE NothingLeft
  <2> SUFFICES ASSUME returned
               PROVE  /\ entries = {} /\ sem = 0
                      /\ \A c \in Conns : local[c] # "open" /\ remote[c] # "open"
                      /\ lnOpen => ctxDone /\ LeftBehind
    BY DEF NothingLeft
  <2>1. apc = "done" /\ watcher = "done" /\ \A c \in Conns : hpc[c] \in {"none", "done"}
    BY <1>1 DEF IInv, ReturnedLast, Quiet
  <2>2. entries = {}
    BY <1>1, <2>1, ConnsAssumption DEF IInv, TypeOK, RegistryExact, Conns
  <2>3. sem = 0
    <3>1. {c \in Conns : hpc[c] \notin {"none", "done"}} = {} BY <2>1
    <3> QED BY <1>1, <3>1, FS_EmptySet DEF IInv, SlotsMatchHandlers
  <2>4. \A c \in Conns : local[c] # "open" /\ remote[c] # "open"
    BY <1>1, <2>1 DEF IInv, LegsAreOwned
  <2>5. lnOpen => ctxDone /\ LeftBehind
    BY <1>1, <2>1 DEF IInv, ListenerInv, LeftBehind
  <2> QED BY <2>2, <2>3, <2>4, <2>5
<1> QED BY <1>1, Invariance, PTL
-----------------------------------------------------------------------------
(* The splice of a connection, pipe of serve.go, with the state of its own. *)

(* No writer is left for an end that has been half-closed.                 *)
FinIsLast == \A e \in fin : pc[Other(e)] = "done"

(* A direction that is over has half-closed the other end.                 *)
EndIsPassedOn ==
    HalfClosers = Ends /\ failed = {} =>
        \A e \in Ends : pc[e] = "done" => Other(e) \in fin

(* pipe waits for both of its goroutines.                                  *)
ReturnsLast == over => \A e \in Ends : pc[e] = "done"

SpliceInv == /\ PipeTypeOK /\ FinIsLast /\ EndIsPassedOn /\ ReturnsLast
        /\ NothingTruncated /\ HalfCloseIsNotReset

-----------------------------------------------------------------------------
\* There are two ends, and each is the other's other.
LEMMA OtherFacts ==
    \A e \in Ends :
        /\ Other(e) \in Ends /\ Other(e) # e /\ Other(Other(e)) = e
        /\ Ends = {e, Other(e)}
BY DEF Ends, Other

\* Nothing has happened yet.
LEMMA InitSpliceInv ==
    ASSUME PipeInit
    PROVE  SpliceInv
<1> USE DEF PipeInit
<1>1. PipeTypeOK
  <2>1. 0 \in 0..MaxItems /\ 0 <= 0 + Room BY ItemsAssumption, RoomAssumption
  <2>2. /\ sent \in [Ends -> 0..MaxItems] /\ got \in [Ends -> 0..MaxItems]
        /\ drained \in [Ends -> 0..MaxItems]
        /\ pc \in [Ends -> {"read", "write", "done"}] BY <2>1
  <2>3. \A e \in Ends : /\ got[Other(e)] + (IF pc[e] = "write" THEN 1 ELSE 0) <= sent[e]
                        /\ drained[e] <= got[e] /\ got[e] <= drained[e] + Room
    BY <2>1, OtherFacts
  <2> QED BY <2>2, <2>3 DEF PipeTypeOK
<1>2. FinIsLast /\ EndIsPassedOn /\ ReturnsLast
  BY DEF FinIsLast, EndIsPassedOn, ReturnsLast
<1>3. NothingTruncated /\ HalfCloseIsNotReset
  BY DEF NothingTruncated, HalfCloseIsNotReset
<1> QED BY <1>1, <1>2, <1>3 DEF SpliceInv

\* What the peers and the network do.
LEMMA PeerStep ==
    ASSUME SpliceInv, NEW e \in Ends,
           PeerSends(e) \/ PeerFinishes(e) \/ PeerDrains(e) \/ Fails(e)
    PROVE  SpliceInv'
<1> USE OtherFacts, EndsAssumption, ItemsAssumption, RoomAssumption
        DEF SpliceInv, PipeTypeOK, FinIsLast, EndIsPassedOn, ReturnsLast, NothingTruncated,
            HalfCloseIsNotReset
<1>1. CASE PeerSends(e) BY <1>1 DEF PeerSends
<1>2. CASE PeerFinishes(e) BY <1>2 DEF PeerFinishes
<1>3. CASE PeerDrains(e) BY <1>3 DEF PeerDrains
<1>4. CASE Fails(e) BY <1>4 DEF Fails
<1> QED BY <1>1, <1>2, <1>3, <1>4

\* What the goroutine does that copies from one end to the other.
LEMMA CopyStep ==
    ASSUME SpliceInv, NEW e \in Ends, Copy(e)
    PROVE  SpliceInv'
<1> USE OtherFacts, EndsAssumption, ItemsAssumption, RoomAssumption
        DEF SpliceInv, PipeTypeOK, FinIsLast, EndIsPassedOn, ReturnsLast, NothingTruncated,
            HalfCloseIsNotReset, network, Broken
<1>1. CASE Read(e) BY <1>1 DEF Read
<1>2. CASE Write(e) BY <1>2 DEF Write
<1>3. CASE CopyEnds(e) BY <1>3 DEF CopyEnds, closeWrite
<1>4. CASE CopyFails(e) BY <1>4 DEF CopyFails
<1> QED BY <1>1, <1>2, <1>3, <1>4 DEF Copy

\* pipe returns: if nothing failed, each end has been half-closed, and so each
\* peer has finished and been read to the end.
LEMMA ReturnStep ==
    ASSUME SpliceInv, PipeReturns
    PROVE  SpliceInv'
<1> USE DEF PipeReturns, network
<1>1. (PipeTypeOK /\ FinIsLast /\ EndIsPassedOn /\ ReturnsLast)'
  BY DEF SpliceInv, PipeTypeOK, FinIsLast, EndIsPassedOn, ReturnsLast
<1>2. NothingTruncated'
  <2>1. ASSUME failed = {}, HalfClosers = Ends, NEW e \in Ends
        PROVE  e \in eof /\ got[Other(e)] = sent[e]
    <3>1. Other(e) \in fin BY <2>1 DEF SpliceInv, EndIsPassedOn
    <3> QED BY <3>1, OtherFacts DEF SpliceInv, NothingTruncated
  <2>2. failed = {} /\ HalfClosers = Ends =>
            eof = Ends /\ \A e \in Ends : got[e] = sent[Other(e)]
    BY <2>1, OtherFacts DEF SpliceInv, PipeTypeOK
  <2>3. \A e \in fin : Other(e) \in eof /\ got[e] = sent[Other(e)]
    BY DEF SpliceInv, NothingTruncated
  <2> QED BY <2>2, <2>3 DEF NothingTruncated
<1>3. HalfCloseIsNotReset' BY DEF HalfCloseIsNotReset
<1> QED BY <1>1, <1>2, <1>3 DEF SpliceInv

\* The inductive invariant holds of every splice.
THEOREM SpliceInvariance == PipeSpec => []SpliceInv
<1>1. SpliceInv /\ UNCHANGED pipeVars => SpliceInv'
  BY DEF pipeVars, network, SpliceInv, PipeTypeOK, FinIsLast, EndIsPassedOn, ReturnsLast,
     NothingTruncated, HalfCloseIsNotReset
<1>2. SpliceInv /\ [PipeNext]_pipeVars => SpliceInv'
  BY <1>1, PeerStep, CopyStep, ReturnStep DEF PipeNext
<1> QED BY InitSpliceInv, <1>2, PTL DEF PipeSpec

-----------------------------------------------------------------------------
\* A splice's variables keep their types, and no end is given what was not sent.
THEOREM SpliceTypeCorrect == PipeSpec => []PipeTypeOK
BY SpliceInvariance, PTL DEF SpliceInv

\* pipe truncates nothing, however its two directions end.
THEOREM NothingIsTruncated == PipeSpec => []NothingTruncated
BY SpliceInvariance, PTL DEF SpliceInv

\* pipe resets no end unless a connection failed.
THEOREM HalfCloseIsKept == PipeSpec => []HalfCloseIsNotReset
BY SpliceInvariance, PTL DEF SpliceInv
=============================================================================
