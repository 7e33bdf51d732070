------------------------------- MODULE Splice -------------------------------
(***************************************************************************)
(* pipe(a, b) of internal/tunnel/serve.go: two goroutines copy, one in     *)
(* each direction. A clean end of one direction becomes a half-close of    *)
(* the end it writes to, a failure becomes a reset of that end, and both   *)
(* ends are released when both directions are over. io.Copy blocks in Read *)
(* while its source is silent and in Write while its sink does not drain:  *)
(* it notices nothing else meanwhile.                                      *)
(*                                                                         *)
(* AgentSession, Forwarder, IpcServer and DaemonRun take a splice as a     *)
(* whole. What they may assume of its end is SpliceEnds.                   *)
(***************************************************************************)
EXTENDS Naturals

CONSTANTS
    HalfClosers,    \* the ends with a CloseWrite, or a Close that ends sending only (a stream)
    MaxItems,       \* bound on what each peer sends
    Room            \* what an end takes before its peer must drain it

Ends == {"a", "b"}
Other(e) == IF e = "a" THEN "b" ELSE "a"

ASSUME EndsAssumption == HalfClosers \subseteq Ends
ASSUME ItemsAssumption == MaxItems \in Nat
ASSUME RoomAssumption == Room \in Nat \ {0}

VARIABLES
    sent,       \* items the peer of each end has sent
    eof,        \* the ends whose peer has sent its last item
    failed,     \* the ends whose connection is gone
    got,        \* items written to each end
    drained,    \* of those, the ones its peer has taken
    fin,        \* the ends we have half-closed
    down,       \* the ends we have reset or closed
    pc,         \* where the direction that reads from each end is
    over        \* pipe has returned

network == <<sent, eof, failed, drained>>
pipeVars == <<network, got, fin, down, pc, over>>

PipeTypeOK ==
    /\ sent \in [Ends -> 0..MaxItems] /\ got \in [Ends -> 0..MaxItems]
    /\ drained \in [Ends -> 0..MaxItems]
    /\ eof \subseteq Ends /\ failed \subseteq Ends
    /\ fin \subseteq HalfClosers /\ down \subseteq Ends
    /\ pc \in [Ends -> {"read", "write", "done"}]
    /\ over \in BOOLEAN
    /\ \A e \in Ends : /\ got[Other(e)] + (IF pc[e] = "write" THEN 1 ELSE 0) <= sent[e]
                       /\ drained[e] <= got[e] /\ got[e] <= drained[e] + Room

PipeInit ==
    /\ sent = [e \in Ends |-> 0] /\ got = [e \in Ends |-> 0] /\ drained = [e \in Ends |-> 0]
    /\ eof = {} /\ failed = {} /\ fin = {} /\ down = {}
    /\ pc = [e \in Ends |-> "read"] /\ over = FALSE

-----------------------------------------------------------------------------
(* The peers and the network *)

PeerSends(e) ==
    /\ e \notin eof \cup failed /\ sent[e] < MaxItems
    /\ sent' = [sent EXCEPT ![e] = @ + 1]
    /\ UNCHANGED <<eof, failed, drained, got, fin, down, pc, over>>

PeerFinishes(e) ==
    /\ e \notin eof \cup failed
    /\ eof' = eof \cup {e}
    /\ UNCHANGED <<sent, failed, drained, got, fin, down, pc, over>>

PeerDrains(e) ==
    /\ drained[e] < got[e]
    /\ drained' = [drained EXCEPT ![e] = @ + 1]
    /\ UNCHANGED <<sent, eof, failed, got, fin, down, pc, over>>

Fails(e) ==
    /\ e \notin failed
    /\ failed' = failed \cup {e}
    /\ UNCHANGED <<sent, eof, drained, got, fin, down, pc, over>>

-----------------------------------------------------------------------------
(* io.Copy from end e to the other end *)

Broken(e) == e \in failed \cup down

Read(e) ==
    /\ pc[e] = "read" /\ ~Broken(e) /\ got[Other(e)] < sent[e]
    /\ pc' = [pc EXCEPT ![e] = "write"]
    /\ UNCHANGED <<network, got, fin, down, over>>

Write(e) ==
    /\ pc[e] = "write" /\ ~Broken(Other(e))
    /\ got[Other(e)] < drained[Other(e)] + Room
    /\ got' = [got EXCEPT ![Other(e)] = @ + 1]
    /\ pc' = [pc EXCEPT ![e] = "read"]
    /\ UNCHANGED <<network, fin, down, over>>

\* A clean end that closes its sink for good.
closeWrite_Closes(e) == down' = down \cup {e} /\ UNCHANGED fin

\* An end without CloseWrite is closed altogether.
closeWrite(e) ==
    IF e \in HalfClosers THEN fin' = fin \cup {e} /\ UNCHANGED down
                         ELSE down' = down \cup {e} /\ UNCHANGED fin

\* io.Copy returns nil: the source is at its end.
CopyEnds(e) ==
    /\ pc[e] = "read" /\ ~Broken(e) /\ got[Other(e)] = sent[e] /\ e \in eof
    /\ closeWrite(Other(e))
    /\ pc' = [pc EXCEPT ![e] = "done"]
    /\ UNCHANGED <<network, got, over>>

\* A failure that is passed on as if it were a clean end.
CopyFails_Fin(e) ==
    /\ \/ pc[e] = "read" /\ Broken(e)
       \/ pc[e] = "write" /\ Broken(Other(e))
    /\ closeWrite(Other(e))
    /\ pc' = [pc EXCEPT ![e] = "done"]
    /\ UNCHANGED <<network, got, over>>

\* io.Copy returns an error, from either end: resetConn of the sink.
CopyFails(e) ==
    /\ \/ pc[e] = "read" /\ Broken(e)
       \/ pc[e] = "write" /\ Broken(Other(e))
    /\ down' = down \cup {Other(e)}
    /\ pc' = [pc EXCEPT ![e] = "done"]
    /\ UNCHANGED <<network, got, fin, over>>

Copy(e) == Read(e) \/ Write(e) \/ CopyEnds(e) \/ CopyFails(e)

\* A pipe that is over with its first direction.
PipeReturns_First ==
    /\ ~over /\ \E e \in Ends : pc[e] = "done"
    /\ down' = Ends /\ over' = TRUE
    /\ UNCHANGED <<network, got, fin, pc>>

\* <-done, twice; then both ends are closed.
PipeReturns ==
    /\ ~over /\ \A e \in Ends : pc[e] = "done"
    /\ down' = Ends /\ over' = TRUE
    /\ UNCHANGED <<network, got, fin, pc>>

PipeNext == \/ \E e \in Ends : \/ PeerSends(e) \/ PeerFinishes(e) \/ PeerDrains(e) \/ Fails(e)
                               \/ Copy(e)
            \/ PipeReturns

PipeSpec == PipeInit /\ [][PipeNext]_pipeVars

(* The two goroutines run; nothing is assumed of the peers. *)
PipeFairness == WF_pipeVars(Copy("a")) /\ WF_pipeVars(Copy("b")) /\ WF_pipeVars(PipeReturns)

PipeFairSpec == PipeSpec /\ PipeFairness

-----------------------------------------------------------------------------
\* Nothing is truncated: an end is only half-closed when it has been given
\* everything the other peer sent, and a splice in which nothing failed returns
\* when both peers have finished and both have been given everything.
NothingTruncated ==
    /\ \A e \in fin : Other(e) \in eof /\ got[e] = sent[Other(e)]
    /\ over /\ failed = {} /\ HalfClosers = Ends =>
           eof = Ends /\ \A e \in Ends : got[e] = sent[Other(e)]

\* A half-close stays a half-close: no end is reset or closed under a direction
\* that is still being copied unless a connection failed.
HalfCloseIsNotReset ==
    HalfClosers = Ends /\ failed = {} /\ ~over => down = {}

\* The failure of an end ends the splice if the direction that reads from it is
\* there to notice, whatever the other peer does. A direction that has ended
\* cleanly, or that waits for the other end to take what it has read, notices
\* nothing: only the other peer, or its failure, ends such a splice.
SpliceEnds ==
    \A e \in Ends : e \in failed /\ (pc[e] = "read" \/ Other(e) \in failed) ~> over
=============================================================================
