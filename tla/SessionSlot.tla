---------------------------- MODULE SessionSlot ----------------------------
(***************************************************************************)
(* What a session entry of the daemon's pool promises its users, whichever *)
(* side opened the transport: one slot that holds at most one connection,  *)
(* filled with ever newer connections, and emptied only because the        *)
(* connection in it has ended or because the entry is being shut down.     *)
(* DialEntry and ListenEntry are shown to implement this specification.    *)
(* It abstracts the SessionEntry interface of internal/daemon/daemon.go.   *)
(***************************************************************************)
EXTENDS Naturals

VARIABLES
    slot,       \* the connection Get hands out, 0 when there is none
    high,       \* every connection numbered above high is still unused
    open,       \* the connections that have not ended
    stopping    \* the entry has been told to shut down

vars == <<slot, high, open, stopping>>

Init == slot = 0 /\ high = 0 /\ open = {} /\ stopping = FALSE

\* A connection is established. It was never in the slot before.
Connect == /\ \E c \in open' : c > high /\ open' = open \cup {c}
           /\ UNCHANGED <<slot, high, stopping>>

\* Connections end, for whatever reason. They never come back.
End == open' \subseteq open /\ UNCHANGED <<slot, high, stopping>>

\* A newer connection takes the slot.
Install == /\ slot' > high
           /\ high' = slot'
           /\ UNCHANGED <<open, stopping>>

\* An attempt comes to nothing: its number is given up, its connection ended.
Abandon == /\ high' > high
           /\ open' \subseteq open
           /\ UNCHANGED <<slot, stopping>>

\* The slot is emptied: its connection has ended, or the entry is stopping.
Clear == /\ slot \notin open \/ stopping
         /\ slot' = 0
         /\ UNCHANGED <<high, open, stopping>>

Stop == stopping' = TRUE /\ UNCHANGED <<slot, high, open>>

Next == Connect \/ End \/ Install \/ Abandon \/ Clear \/ Stop

Spec == Init /\ [][Next]_vars
=============================================================================
