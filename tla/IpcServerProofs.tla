-------------------------- MODULE IpcServerProofs --------------------------
(***************************************************************************)
(* Proofs about IpcServer, for all caps and any number of connections. The *)
(* two counters are shared by handlers that leave on many paths; what      *)
(* makes them exact is that each path passes the places that count exactly *)
(* once. The inductive invariant therefore says of every handler, by where *)
(* it is, whether it has run releaseConn, whether it has answered, and     *)
(* whether it holds a stream.                                              *)
(***************************************************************************)
EXTENDS IpcServer, FiniteSetTheorems, TLAPS

\* Handlers are started in the order of arrival.
HandlersStarted == \A c \in Conns : hpc[c] = "none" <=> c > accepted

\* releaseConn has run from the splice on, and when the handler is over; before
\* the splice it has not.
ReleasedOnce ==
    \A c \in Conns :
        /\ c \in once => hpc[c] \in {"splice", "wedged", "uncount", "finish", "done"}
        /\ hpc[c] \in {"splice", "wedged", "done"} => c \in once

\* What has been written to each client.
AnswersByPlace ==
    \A c \in Conns :
        /\ hpc[c] \notin {"splice", "wedged", "uncount", "finish", "done"} => answers[c] = 0
        /\ hpc[c] \in {"splice", "wedged"} => answers[c] = 1
        /\ answers[c] <= 1

\* A stream to the agent is open exactly while its attach is between OpenStream
\* and the end of both legs (attachWithHeader, attach.go:111-171).
StreamsAreOwned ==
    \A c \in Conns : c \in streams <=> hpc[c] \in {"header", "await", "splice", "wedged"}

\* Serve has returned only when no handler is left (s.wg.Wait, server.go:323).
ReturnsLast ==
    returned => apc = "done" /\ \A c \in Conns : hpc[c] \in {"none", "done"}

Handlers == HandlersStarted /\ ReleasedOnce /\ AnswersByPlace /\ StreamsAreOwned /\ ReturnsLast

IInv == TypeOK /\ Handlers /\ SlotsAreExact

\* The sets that the counters count.
Held == Active \ once
Tunnels == {c \in Conns : hpc[c] \in Admitted}
Counted == {c \in Conns : hpc[c] \in Admitted \cup {"over"}}

-----------------------------------------------------------------------------
\* A counter follows its set: one member more, one more ...
LEMMA OneMore ==
    ASSUME NEW S \in SUBSET Conns, NEW c \in Conns, c \notin S
    PROVE  Cardinality(S \cup {c}) = Cardinality(S) + 1 /\ Cardinality(S) \in Nat
<1>1. IsFiniteSet(Conns) BY ConnsAssumption, FS_Interval DEF Conns
<1>2. IsFiniteSet(S) BY <1>1, FS_Subset
<1> QED BY <1>2, FS_AddElement, FS_CardinalityType

\* ... and one less.
LEMMA OneLess ==
    ASSUME NEW S \in SUBSET Conns, NEW c \in S
    PROVE  Cardinality(S \ {c}) = Cardinality(S) - 1 /\ Cardinality(S) \in Nat \ {0}
<1>1. IsFiniteSet(Conns) BY ConnsAssumption, FS_Interval DEF Conns
<1>2. IsFiniteSet(S) BY <1>1, FS_Subset
<1>3. Cardinality(S \ {c}) = Cardinality(S) - 1 BY <1>2, FS_RemoveElement
<1>4. Cardinality(S) \in Nat /\ Cardinality(S) # 0 BY <1>2, FS_CardinalityType, FS_EmptySet
<1> QED BY <1>3, <1>4

\* The tunnels are among the counted attaches, so a count within the cap leaves
\* no more tunnels than that.
LEMMA TunnelsAreCounted ==
    /\ Cardinality(Tunnels) \in Nat /\ Cardinality(Counted) \in Nat /\ Cardinality(Held) \in Nat
    /\ Cardinality(Tunnels) <= Cardinality(Counted)
<1>1. IsFiniteSet(Conns) BY ConnsAssumption, FS_Interval DEF Conns
<1>2. Tunnels \subseteq Counted /\ Counted \subseteq Conns /\ Held \subseteq Conns
  BY DEF Tunnels, Counted, Held, Active
<1>3. IsFiniteSet(Counted) /\ IsFiniteSet(Tunnels) /\ IsFiniteSet(Held) BY <1>1, <1>2, FS_Subset
<1> QED BY <1>2, <1>3, FS_Subset, FS_CardinalityType

\* The invariant on the counters, in terms of the sets.
LEMMA SlotsBySets ==
    SlotsAreExact <=> /\ connSem = Cardinality(Held) + (IF apc = "accept" THEN 1 ELSE 0)
                      /\ Cardinality(Tunnels) <= AttachCap
                      /\ inFlight = Cardinality(Counted)
BY DEF SlotsAreExact, Held, Tunnels, Counted

\* No handler is running.
LEMMA InitIInv == Init => IInv
<1> SUFFICES ASSUME Init PROVE IInv OBVIOUS
<1>1. \A c \in Conns : hpc[c] = "none" /\ answers[c] = 0 /\ c > 0 /\ c \notin once /\ c \notin streams
  BY ConnsAssumption DEF Init, Conns
<1>2. TypeOK
  <2>1. hpc \in [Conns -> {"none", "read", "rpc", "attach", "over", "finish", "done"} \cup Admitted]
    BY DEF Init
  <2>2. answers \in [Conns -> Nat] /\ once \subseteq Conns /\ streams \subseteq Conns BY DEF Init
  <2>3. accepted \in 0..MaxConns /\ connSem \in 0..ConnCap /\ inFlight \in Nat
    BY ConnsAssumption, CapsAssumption DEF Init
  <2>4. closed \in BOOLEAN /\ lnOpen \in BOOLEAN /\ poolOpen \in BOOLEAN
        /\ ctxDone \in BOOLEAN /\ returned \in BOOLEAN BY Zenon DEF Init
  <2> QED BY <2>1, <2>2, <2>3, <2>4 DEF TypeOK, Init
<1>3. Handlers
  <2>1. HandlersStarted BY <1>1, ConnsAssumption DEF Init, HandlersStarted, Conns
  <2> QED BY <1>1, <2>1 DEF Handlers, ReleasedOnce, AnswersByPlace, StreamsAreOwned, ReturnsLast, Init
<1>4. SlotsAreExact
  <2>1. Held = {} /\ Tunnels = {} /\ Counted = {}
    BY <1>1 DEF Held, Active, Tunnels, Counted, Admitted
  <2> QED BY <2>1, FS_EmptySet, SlotsBySets, CapsAssumption DEF Init
<1> QED BY <1>2, <1>3, <1>4 DEF IInv

-----------------------------------------------------------------------------
\* Where a handler goes is one of the places there are, and no other moves.
LEMMA Moves ==
    ASSUME TypeOK, NEW c \in Conns,
           NEW pc \in {"none", "read", "rpc", "attach", "over", "finish", "done"} \cup Admitted,
           Goes(c, pc)
    PROVE  /\ hpc' \in [Conns -> {"none", "read", "rpc", "attach", "over", "finish", "done"} \cup Admitted]
           /\ hpc'[c] = pc /\ \A d \in Conns \ {c} : hpc'[d] = hpc[d]
BY DEF TypeOK, Goes

\* A handler that goes on without passing a counter leaves both as they are.
LEMMA CountersUntouched ==
    ASSUME SlotsAreExact, NEW c \in Conns, \A d \in Conns \ {c} : hpc'[d] = hpc[d],
           hpc[c] \notin {"none", "done"}, hpc'[c] \notin {"none", "done"},
           hpc[c] \in Admitted <=> hpc'[c] \in Admitted,
           hpc[c] # "over", hpc'[c] # "over",
           UNCHANGED <<connSem, once, inFlight, apc>>
    PROVE  SlotsAreExact'
<1>1. Active' = Active BY DEF Active
<1>2. {d \in Conns : hpc'[d] \in Admitted} = {d \in Conns : hpc[d] \in Admitted} OBVIOUS
<1>3. {d \in Conns : hpc'[d] \in Admitted \cup {"over"}} = {d \in Conns : hpc[d] \in Admitted \cup {"over"}}
  OBVIOUS
<1> QED BY <1>1, <1>2, <1>3 DEF SlotsAreExact

\* The moves that pass neither a counter nor the ends of a stream.
PlainMove(from, to) ==
    \/ from = "read" /\ to \in {"rpc", "attach", "finish"}
    \/ from \in {"rpc", "attach"} /\ to = "finish"
    \/ from = "session" /\ to \in {"open", "uncount"}
    \/ from = "open" /\ to = "uncount"
    \/ from = "header" /\ to = "await"
    \/ from = "splice" /\ to = "wedged"
    \/ from = "wedged" /\ to = "splice"

\* What the invariant says of one handler.
Own(c) ==
    /\ c \in once => hpc[c] \in {"splice", "wedged", "uncount", "finish", "done"}
    /\ hpc[c] \in {"splice", "wedged", "done"} => c \in once
    /\ hpc[c] \notin {"splice", "wedged", "uncount", "finish", "done"} => answers[c] = 0
    /\ hpc[c] \in {"splice", "wedged"} => answers[c] = 1
    /\ answers[c] <= 1
    /\ c \in streams <=> hpc[c] \in {"header", "await", "splice", "wedged"}

\* ... follows from the whole.
LEMMA OwnPart == ASSUME Handlers, NEW c \in Conns PROVE Own(c)
BY DEF Own, Handlers, ReleasedOnce, AnswersByPlace, StreamsAreOwned

\* The handler's own part of the invariant is all that its step can disturb.
LEMMA OthersUntouched ==
    ASSUME Handlers, NEW c \in Conns, \A d \in Conns \ {c} : hpc'[d] = hpc[d],
           \A d \in Conns \ {c} : /\ d \in once' <=> d \in once
                                  /\ answers'[d] = answers[d]
                                  /\ d \in streams' <=> d \in streams,
           hpc[c] \notin {"none", "done"}, hpc'[c] # "none", UNCHANGED <<accepted, returned, apc>>,
           Own(c)'
    PROVE  Handlers'
<1> USE DEF Handlers, Own
<1>1. HandlersStarted' BY DEF HandlersStarted
<1>2. ReleasedOnce' BY DEF ReleasedOnce
<1>3. AnswersByPlace' BY DEF AnswersByPlace
<1>4. StreamsAreOwned' BY DEF StreamsAreOwned
<1>5. ReturnsLast' BY DEF ReturnsLast
<1> QED BY <1>1, <1>2, <1>3, <1>4, <1>5

\* The steps of a handler that only answer, or only go on.
LEMMA PlainStep ==
    ASSUME IInv, NEW c \in Conns,
           \/ ReadRequest(c) \/ RejectRequest(c) \/ ReadFails(c) \/ handleRPC(c) \/ InvalidAttach(c)
           \/ SessionReady(c) \/ SessionNotReady(c) \/ OpenStreamFails(c) \/ WriteHeader(c)
           \/ SpliceWedges(c) \/ SpliceResumes(c)
    PROVE  IInv'
<1> DEFINE Places == {"none", "read", "rpc", "attach", "over", "finish", "done"} \cup Admitted
<1>0. /\ UNCHANGED <<connSem, once, inFlight, streams>> /\ UNCHANGED loop /\ UNCHANGED outside
      /\ answers' = answers \/ (Answers(c) /\ hpc'[c] \in {"uncount", "finish"} /\ answers[c] = 0)
      /\ \E pc \in Places : Goes(c, pc) /\ PlainMove(hpc[c], pc)
  <2> USE DEF Unchanged, Goes, Answers, Admitted, IInv, TypeOK, Handlers, AnswersByPlace, PlainMove
  <2>1. CASE ReadRequest(c) BY <2>1 DEF ReadRequest
  <2>2. CASE RejectRequest(c) BY <2>2 DEF RejectRequest
  <2>3. CASE ReadFails(c) BY <2>3 DEF ReadFails
  <2>4. CASE handleRPC(c) BY <2>4 DEF handleRPC
  <2>5. CASE InvalidAttach(c) BY <2>5 DEF InvalidAttach
  <2>6. CASE SessionReady(c) BY <2>6 DEF SessionReady
  <2>7. CASE SessionNotReady(c) BY <2>7 DEF SessionNotReady
  <2>8. CASE OpenStreamFails(c) BY <2>8 DEF OpenStreamFails
  <2>9. CASE WriteHeader(c) BY <2>9 DEF WriteHeader
  <2>10. CASE SpliceWedges(c) BY <2>10 DEF SpliceWedges
  <2>11. CASE SpliceResumes(c) BY <2>11 DEF SpliceResumes
  <2> QED BY <2>1, <2>2, <2>3, <2>4, <2>5, <2>6, <2>7, <2>8, <2>9, <2>10, <2>11
<1>1. PICK pc \in Places : Goes(c, pc) /\ PlainMove(hpc[c], pc)
  BY <1>0
<1>2. /\ hpc' \in [Conns -> Places]
      /\ hpc'[c] = pc /\ \A d \in Conns \ {c} : hpc'[d] = hpc[d]
  BY <1>1, Moves DEF IInv
<1>3. /\ answers' \in [Conns -> Nat] /\ \A d \in Conns \ {c} : answers'[d] = answers[d]
      /\ answers'[c] = answers[c] \/ (hpc'[c] \in {"uncount", "finish"} /\ answers'[c] = 1)
  BY <1>0 DEF IInv, TypeOK, Answers
<1>4. SlotsAreExact'
  BY <1>0, <1>1, <1>2, CountersUntouched DEF IInv, loop, Admitted, PlainMove
<1>5. Handlers'
  <2>1. Own(c) BY OwnPart DEF IInv
  <2> QED BY <1>0, <1>1, <1>2, <1>3, <2>1, OthersUntouched DEF IInv, Own, loop, outside, PlainMove
<1>6. TypeOK' BY <1>0, <1>2, <1>3 DEF IInv, TypeOK, loop, outside
<1> QED BY <1>4, <1>5, <1>6 DEF IInv

\* The steps that open a stream, or close both legs of it.
LEMMA StreamStep ==
    ASSUME IInv, NEW c \in Conns,
           OpenStream(c) \/ AttachAborts(c) \/ AttachRefused(c) \/ SpliceEnds(c)
    PROVE  IInv'
<1> DEFINE Places == {"none", "read", "rpc", "attach", "over", "finish", "done"} \cup Admitted
<1>0. /\ UNCHANGED <<connSem, once, inFlight>> /\ UNCHANGED loop /\ UNCHANGED outside
      /\ \/ /\ hpc[c] = "open" /\ Goes(c, "header") /\ streams' = streams \cup {c}
            /\ answers' = answers
         \/ /\ hpc[c] \in {"header", "await", "splice", "wedged"} /\ Goes(c, "uncount")
            /\ streams' = streams \ {c} /\ answers' = answers
         \/ /\ hpc[c] = "await" /\ Goes(c, "uncount") /\ streams' = streams \ {c}
            /\ Answers(c)
  BY DEF OpenStream, AttachAborts, AttachRefused, SpliceEnds, Unchanged
<1>1. PICK pc \in {"header", "uncount"} : Goes(c, pc) BY <1>0
<1>2. /\ hpc' \in [Conns -> Places]
      /\ hpc'[c] = pc /\ \A d \in Conns \ {c} : hpc'[d] = hpc[d]
  BY <1>1, Moves DEF IInv, Admitted
<1>3. /\ answers' \in [Conns -> Nat] /\ \A d \in Conns \ {c} : answers'[d] = answers[d]
      /\ answers'[c] = answers[c] \/ (hpc[c] = "await" /\ pc = "uncount" /\ answers'[c] = answers[c] + 1)
  BY <1>0, <1>2 DEF IInv, TypeOK, Answers, Goes
<1>4. SlotsAreExact'
  BY <1>0, <1>1, <1>2, CountersUntouched DEF IInv, loop, Admitted
<1>5. Handlers'
  <2>1. Own(c) BY OwnPart DEF IInv
  <2>2. hpc[c] \notin {"none", "done"} BY <1>0
  <2>3. \A d \in Conns \ {c} : d \in streams' <=> d \in streams BY <1>0
  <2>4. c \in streams' <=> pc = "header" BY <1>0, <1>2 DEF IInv, TypeOK, Goes
  <2>5. Own(c)' BY <1>0, <1>1, <1>2, <1>3, <2>1, <2>4 DEF Own
  <2> QED BY <1>0, <1>1, <1>2, <1>3, <2>2, <2>3, <2>5, OthersUntouched DEF IInv, loop, outside
<1>6. TypeOK' BY <1>0, <1>2, <1>3 DEF IInv, TypeOK, loop, outside
<1> QED BY <1>4, <1>5, <1>6 DEF IInv

\* relayAck and Finish give the slot back, once between them.
LEMMA ReleaseStep == ASSUME IInv, NEW c \in Conns, Finish(c) \/ RelayAck(c) PROVE IInv'
<1> DEFINE Places == {"none", "read", "rpc", "attach", "over", "finish", "done"} \cup Admitted
<1>0. /\ UNCHANGED <<inFlight, streams>> /\ UNCHANGED loop /\ UNCHANGED outside /\ Release(c)
      /\ \/ hpc[c] = "finish" /\ Goes(c, "done") /\ answers' = answers
         \/ hpc[c] = "await" /\ Goes(c, "splice") /\ Answers(c)
  BY DEF Finish, RelayAck, Unchanged
<1>1. PICK pc \in {"done", "splice"} : Goes(c, pc) BY <1>0
<1>2. /\ hpc' \in [Conns -> Places]
      /\ hpc'[c] = pc /\ \A d \in Conns \ {c} : hpc'[d] = hpc[d]
  BY <1>1, Moves DEF IInv, Admitted
<1>3. Own(c) BY OwnPart DEF IInv
<1>4. (hpc[c] = "finish" /\ pc = "done") \/ (hpc[c] = "await" /\ pc = "splice")
  BY <1>0, <1>2 DEF IInv, TypeOK, Goes
<1>5. /\ answers' \in [Conns -> Nat] /\ \A d \in Conns \ {c} : answers'[d] = answers[d]
      /\ pc = "done" => answers'[c] = answers[c]
      /\ pc = "splice" => answers'[c] = answers[c] + 1
  BY <1>0, <1>2, <1>4 DEF IInv, TypeOK, Answers, Goes
<1>6. Held' = Held \ {c} BY <1>0, <1>2, <1>4 DEF Held, Active, Release
<1>7. {d \in Conns : hpc'[d] \in Admitted} = {d \in Conns : hpc[d] \in Admitted}
  BY <1>2, <1>4 DEF Admitted
<1>8. {d \in Conns : hpc'[d] \in Admitted \cup {"over"}} = {d \in Conns : hpc[d] \in Admitted \cup {"over"}}
  BY <1>2, <1>4 DEF Admitted
<1>9. Cardinality(Held') = (IF c \in once THEN Cardinality(Held) ELSE Cardinality(Held) - 1)
      /\ Cardinality(Held) \in Nat /\ (c \notin once => Cardinality(Held) # 0)
  <2>1. Held \in SUBSET Conns BY DEF Held, Active
  <2>2. CASE c \in once
    <3>1. Held' = Held BY <1>6, <2>2 DEF Held
    <3> QED BY <2>2, <3>1, TunnelsAreCounted
  <2>3. CASE c \notin once
    <3>1. c \in Held BY <1>4, <2>3 DEF Held, Active
    <3> QED BY <1>6, <2>1, <2>3, <3>1, OneLess
  <2> QED BY <2>2, <2>3
<1>10. connSem = Cardinality(Held) + (IF apc = "accept" THEN 1 ELSE 0) BY DEF IInv, SlotsAreExact, Held
<1>11. connSem' = Cardinality(Held') + (IF apc = "accept" THEN 1 ELSE 0) /\ connSem' \in 0..ConnCap
  <2>1. connSem \in 0..ConnCap /\ connSem' = (IF c \in once THEN connSem ELSE connSem - 1)
    BY <1>0 DEF Release, IInv, TypeOK
  <2>2. CASE c \in once BY <1>9, <1>10, <2>1, <2>2
  <2>3. CASE c \notin once BY <1>9, <1>10, <2>1, <2>3, CapsAssumption
  <2> QED BY <2>2, <2>3
<1>12. SlotsAreExact' BY <1>0, <1>7, <1>8, <1>11 DEF IInv, SlotsAreExact, Held, loop
<1>13. Handlers'
  <2>1. Own(c)' BY <1>0, <1>2, <1>3, <1>4, <1>5 DEF Own, Release
  <2>2. \A d \in Conns \ {c} : d \in once' <=> d \in once BY <1>0 DEF Release
  <2>3. hpc[c] \notin {"none", "done"} /\ hpc'[c] # "none" BY <1>2, <1>4
  <2> QED BY <1>0, <1>2, <1>5, <2>1, <2>2, <2>3, OthersUntouched DEF IInv, loop, outside
<1>14. TypeOK' BY <1>0, <1>2, <1>5, <1>11 DEF IInv, TypeOK, loop, outside, Release
<1> QED BY <1>12, <1>13, <1>14 DEF IInv

\* The attach count: a call is counted before it is compared with the cap, and
\* counted off on every way out.
LEMMA CountStep == ASSUME IInv, NEW c \in Conns, CountAttach(c) \/ OverCap(c) \/ Uncount(c) PROVE IInv'
<1> DEFINE Places == {"none", "read", "rpc", "attach", "over", "finish", "done"} \cup Admitted
<1>0. /\ UNCHANGED <<connSem, once, streams>> /\ UNCHANGED loop /\ UNCHANGED outside
      /\ \/ /\ hpc[c] = "attach" /\ inFlight' = inFlight + 1 /\ answers' = answers
            /\ Goes(c, IF inFlight + 1 > AttachCap THEN "over" ELSE "session")
         \/ hpc[c] = "over" /\ inFlight' = inFlight - 1 /\ Answers(c) /\ Goes(c, "finish")
         \/ hpc[c] = "uncount" /\ inFlight' = inFlight - 1 /\ answers' = answers /\ Goes(c, "finish")
  BY DEF CountAttach, OverCap, Uncount, Unchanged
<1>1. PICK pc \in {"over", "session", "finish"} : Goes(c, pc) BY <1>0
<1>2. /\ hpc' \in [Conns -> Places]
      /\ hpc'[c] = pc /\ \A d \in Conns \ {c} : hpc'[d] = hpc[d]
  BY <1>1, Moves DEF IInv, Admitted
<1>3. /\ answers' \in [Conns -> Nat] /\ \A d \in Conns \ {c} : answers'[d] = answers[d]
      /\ answers'[c] = answers[c] \/ (hpc[c] = "over" /\ pc = "finish" /\ answers'[c] = answers[c] + 1)
  BY <1>0, <1>2 DEF IInv, TypeOK, Answers, Goes
<1>4. /\ Tunnels \in SUBSET Conns /\ Counted \in SUBSET Conns
      /\ inFlight = Cardinality(Counted) /\ Cardinality(Tunnels) <= AttachCap
      /\ connSem = Cardinality(Held) + (IF apc = "accept" THEN 1 ELSE 0)
  BY DEF Tunnels, Counted, Held, IInv, SlotsAreExact
<1>5. Held' = Held /\ hpc[c] \notin {"none", "done"} BY <1>0, <1>1, <1>2 DEF Held, Active
<1>6. inFlight' = Cardinality(Counted') /\ Cardinality(Tunnels') <= AttachCap /\ inFlight' \in Nat
  <2>1. CASE hpc[c] = "attach"
    <3>1. inFlight' = inFlight + 1 /\ pc = (IF inFlight + 1 > AttachCap THEN "over" ELSE "session")
      BY <1>0, <1>2, <2>1 DEF IInv, TypeOK, Goes
    <3>2. c \notin Counted /\ c \notin Tunnels BY <2>1 DEF Counted, Tunnels, Admitted
    <3>3. Counted' = Counted \cup {c}
      BY <1>2, <2>1, <3>1 DEF Counted, Admitted
    <3>4. Cardinality(Counted') = Cardinality(Counted) + 1 /\ Cardinality(Counted) \in Nat
      BY <1>4, <3>2, <3>3, OneMore
    <3>5. CASE pc = "over"
      <4>1. Tunnels' = Tunnels BY <1>2, <2>1, <3>5 DEF Tunnels, Admitted
      <4> QED BY <1>4, <3>1, <3>4, <4>1
    <3>6. CASE pc = "session"
      <4>1. Tunnels' = Tunnels \cup {c} BY <1>2, <2>1, <3>6 DEF Tunnels, Admitted
      <4>2. Cardinality(Tunnels') = Cardinality(Tunnels) + 1 BY <1>4, <3>2, <4>1, OneMore
      <4>3. inFlight + 1 <= AttachCap BY <1>4, <3>1, <3>4, <3>6, CapsAssumption
      <4> QED BY <1>4, <3>1, <3>4, <4>2, <4>3, TunnelsAreCounted, CapsAssumption
    <3> QED BY <3>1, <3>5, <3>6
  <2>2. CASE hpc[c] \in {"over", "uncount"}
    <3>1. inFlight' = inFlight - 1 /\ pc = "finish" BY <1>0, <1>2, <2>2 DEF IInv, TypeOK, Goes
    <3>2. c \in Counted /\ Counted' = Counted \ {c} BY <1>2, <2>2, <3>1 DEF Counted, Admitted
    <3>3. Cardinality(Counted') = Cardinality(Counted) - 1 /\ Cardinality(Counted) \in Nat \ {0}
      BY <1>4, <3>2, OneLess
    <3>4. Tunnels' = Tunnels \ {c} BY <1>2, <2>2, <3>1 DEF Tunnels, Admitted
    <3>5. Cardinality(Tunnels') <= AttachCap
      <4>1. CASE c \in Tunnels BY <1>4, <3>4, <4>1, OneLess, CapsAssumption
      <4>2. CASE c \notin Tunnels
        <5>1. Tunnels' = Tunnels BY <3>4, <4>2 DEF Tunnels
        <5> QED BY <1>4, <5>1
      <4> QED BY <4>1, <4>2
    <3> QED BY <1>4, <3>1, <3>3, <3>5
  <2> QED BY <1>0, <2>1, <2>2
<1>7. SlotsAreExact' BY <1>0, <1>4, <1>5, <1>6 DEF SlotsAreExact, Held, Tunnels, Counted, loop
<1>8. Handlers'
  <2>1. Own(c) BY OwnPart DEF IInv
  <2>2. hpc[c] # "attach" => pc = "finish" BY <1>0, <1>2 DEF IInv, TypeOK, Goes
  <2>3. Own(c)' BY <1>0, <1>1, <1>2, <1>3, <2>1, <2>2 DEF Own
  <2> QED BY <1>0, <1>1, <1>2, <1>3, <1>5, <2>3, OthersUntouched DEF IInv, loop, outside
<1>9. TypeOK' BY <1>0, <1>2, <1>3, <1>6 DEF IInv, TypeOK, loop, outside
<1> QED BY <1>7, <1>8, <1>9 DEF IInv

\* The accept loop: the slot it holds while it waits is the new handler's, or
\* given back.
LEMMA LoopStep ==
    ASSUME IInv, Acquire \/ AcquireCancelled \/ AcceptConn \/ AcceptFails \/ ServeReturns
    PROVE  IInv'
<1>0. /\ connSem = Cardinality(Held) + (IF apc = "accept" THEN 1 ELSE 0) /\ connSem \in 0..ConnCap
      /\ Cardinality(Held) \in Nat
  BY TunnelsAreCounted DEF IInv, TypeOK, SlotsAreExact, Held
<1>1. CASE Acquire \/ AcquireCancelled \/ AcceptFails
  <2>1. UNCHANGED <<accepted, closed, lnOpen, hpc, once, answers, inFlight, streams, poolOpen, ctxDone, returned>>
    BY <1>1 DEF Acquire, AcquireCancelled, AcceptFails, handlers, outside
  <2>2. /\ connSem' = Cardinality(Held) + (IF apc' = "accept" THEN 1 ELSE 0) /\ connSem' \in 0..ConnCap
        /\ apc' \in {"acquire", "accept", "done"} /\ apc # "done"
    <3>1. CASE Acquire BY <1>0, <3>1, CapsAssumption DEF Acquire
    <3>2. CASE AcquireCancelled BY <1>0, <3>2 DEF AcquireCancelled
    <3>3. CASE AcceptFails BY <1>0, <3>3, CapsAssumption DEF AcceptFails
    <3> QED BY <1>1, <3>1, <3>2, <3>3
  <2>3. SlotsAreExact' BY <2>1, <2>2 DEF IInv, SlotsAreExact, Held, Active
  <2>4. Handlers' BY <2>1, <2>2 DEF IInv, Handlers, HandlersStarted, ReleasedOnce, AnswersByPlace,
          StreamsAreOwned, ReturnsLast
  <2>5. TypeOK' BY <2>1, <2>2 DEF IInv, TypeOK
  <2> QED BY <2>3, <2>4, <2>5 DEF IInv
<1>2. CASE AcceptConn
  <2> DEFINE c == accepted + 1
  <2>1. c \in Conns /\ accepted' \in 0..MaxConns /\ accepted \in Nat
    BY <1>2, ConnsAssumption DEF AcceptConn, Conns, IInv, TypeOK
  <2>2. hpc[c] = "none" /\ answers[c] = 0 /\ c \notin once /\ c \notin streams
    <3>1. hpc[c] = "none" BY <2>1 DEF IInv, Handlers, HandlersStarted
    <3> QED BY <2>1, <3>1, OwnPart DEF IInv, Own
  <2>3. Goes(c, "read") BY <1>2 DEF AcceptConn, Goes
  <2>4. /\ hpc' \in [Conns -> {"none", "read", "rpc", "attach", "over", "finish", "done"} \cup Admitted]
        /\ hpc'[c] = "read" /\ \A d \in Conns \ {c} : hpc'[d] = hpc[d]
    BY <2>1, <2>3, Moves DEF IInv
  <2>5. /\ UNCHANGED <<closed, lnOpen, connSem, once, answers, inFlight, streams, poolOpen, ctxDone, returned>>
        /\ accepted' = c /\ apc = "accept" /\ apc' = "acquire"
    BY <1>2 DEF AcceptConn, outside
  <2> HIDE DEF c
  <2>6. Held' = Held \cup {c} /\ c \notin Held /\ Held \in SUBSET Conns
    BY <2>1, <2>2, <2>4, <2>5 DEF Held, Active
  <2>7. {d \in Conns : hpc'[d] \in Admitted} = {d \in Conns : hpc[d] \in Admitted}
    BY <2>1, <2>2, <2>4 DEF Admitted
  <2>8. {d \in Conns : hpc'[d] \in Admitted \cup {"over"}} = {d \in Conns : hpc[d] \in Admitted \cup {"over"}}
    BY <2>1, <2>2, <2>4 DEF Admitted
  <2>9. Cardinality(Held') = Cardinality(Held) + 1 BY <2>1, <2>6, OneMore
  <2>10. SlotsAreExact'
    <3>1. connSem' = Cardinality(Held') + (IF apc' = "accept" THEN 1 ELSE 0) BY <1>0, <2>5, <2>9
    <3> QED BY <2>5, <2>7, <2>8, <3>1 DEF IInv, SlotsAreExact, Held
  <2>11. Handlers'
    <3>1. HandlersStarted'
      <4>1. \A d \in Conns : d \in Nat BY ConnsAssumption DEF Conns
      <4>2. \A d \in Conns \ {c} : d > accepted <=> d > accepted' BY <2>1, <2>5, <4>1 DEF c
      <4>3. ~(c > accepted') BY <2>1, <2>5, <4>1
      <4> QED BY <2>4, <4>2, <4>3 DEF IInv, Handlers, HandlersStarted
    <3>2. ReleasedOnce' /\ AnswersByPlace' /\ StreamsAreOwned'
      BY <2>2, <2>4, <2>5 DEF IInv, Handlers, ReleasedOnce, AnswersByPlace, StreamsAreOwned
    <3>3. ReturnsLast' BY <2>5 DEF IInv, Handlers, ReturnsLast
    <3> QED BY <3>1, <3>2, <3>3 DEF Handlers
  <2>12. TypeOK' BY <2>1, <2>4, <2>5 DEF IInv, TypeOK
  <2> QED BY <2>10, <2>11, <2>12 DEF IInv
<1>3. CASE ServeReturns
  <2>1. UNCHANGED <<apc, accepted, closed, lnOpen, connSem, hpc, once, answers, inFlight, streams, poolOpen, ctxDone>>
    BY <1>3 DEF ServeReturns, handlers, loop
  <2>2. Handlers' BY <1>3, <2>1 DEF ServeReturns, IInv, Handlers, HandlersStarted, ReleasedOnce,
          AnswersByPlace, StreamsAreOwned, ReturnsLast
  <2>3. SlotsAreExact' BY <2>1 DEF IInv, SlotsAreExact, Active
  <2>4. TypeOK' BY <1>3, <2>1 DEF ServeReturns, IInv, TypeOK
  <2> QED BY <2>2, <2>3, <2>4 DEF IInv
<1> QED BY <1>1, <1>2, <1>3

\* Shutdown touches no handler.
LEMMA ShutdownStep ==
    ASSUME IInv, Cancel \/ CloseMarks \/ CloseListener \/ PoolCloses
    PROVE  IInv'
<1>1. UNCHANGED <<apc, accepted, connSem, hpc, once, answers, inFlight, streams, returned>>
  BY DEF Cancel, CloseMarks, CloseListener, PoolCloses, handlers, loop, outside
<1>2. Handlers' /\ SlotsAreExact'
  BY <1>1 DEF IInv, Handlers, HandlersStarted, ReleasedOnce, AnswersByPlace, StreamsAreOwned,
     ReturnsLast, SlotsAreExact, Active
<1>3. ctxDone' \in BOOLEAN /\ closed' \in BOOLEAN /\ lnOpen' \in BOOLEAN /\ poolOpen' \in BOOLEAN
  BY DEF IInv, TypeOK, Cancel, CloseMarks, CloseListener, PoolCloses, handlers, loop, outside
<1>4. TypeOK' BY <1>1, <1>3 DEF IInv, TypeOK
<1> QED BY <1>2, <1>4 DEF IInv

\* The invariant is inductive.
THEOREM Invariance == Spec => []IInv
<1>1. ASSUME IInv, [Next]_vars PROVE IInv'
  <2>1. CASE \E c \in Conns : Handler(c) \/ SpliceWedges(c) \/ SpliceResumes(c) \/ SpliceEnds(c)
    BY <1>1, <2>1, PlainStep, StreamStep, ReleaseStep, CountStep DEF Handler
  <2>2. CASE UNCHANGED vars
    BY <1>1, <2>2 DEF vars, loop, handlers, outside, IInv, TypeOK, Handlers, HandlersStarted,
       ReleasedOnce, AnswersByPlace, StreamsAreOwned, ReturnsLast, SlotsAreExact, Active
  <2> QED BY <1>1, <2>1, <2>2, LoopStep, ShutdownStep DEF Next
<1> QED BY <1>1, InitIInv, PTL DEF Spec

\* The variables keep their types: connSem never exceeds its capacity and never
\* goes below zero, and neither does inFlightAttaches.
THEOREM TypeCorrect == Spec => []TypeOK
BY Invariance, PTL DEF IInv

\* Both counters are exact on every path of every handler, and there are never
\* more tunnels than AttachCap, whatever the caps and however many connect.
THEOREM CountersExact == Spec => []SlotsAreExact
BY Invariance, PTL DEF IInv

\* No client is answered twice, and every tunnel's client was told first.
THEOREM OneAnswer == Spec => []AnsweredOnce
<1>1. IInv => AnsweredOnce BY DEF IInv, Handlers, AnswersByPlace, AnsweredOnce
<1> QED BY <1>1, Invariance, PTL

\* No stream to the agent is left open by an attach that failed, was refused or
\* ended: a stream is open exactly between OpenStream and the end of both legs.
THEOREM NoStreamForgotten == Spec => []StreamsAreOwned
<1>1. IInv => StreamsAreOwned BY DEF IInv, Handlers
<1> QED BY <1>1, Invariance, PTL

\* When Serve has returned, nothing is held any more: no slot, no count, no
\* stream.
NothingHeld == returned => connSem = 0 /\ inFlight = 0 /\ streams = {}

\* Serve gives back all it took (s.wg.Wait is its last wait, server.go:323).
THEOREM ServeLeavesNothing == Spec => []NothingHeld
<1>1. IInv => NothingHeld
  <2> SUFFICES ASSUME IInv, returned PROVE connSem = 0 /\ inFlight = 0 /\ streams = {}
    BY DEF NothingHeld
  <2>1. apc = "done" /\ \A c \in Conns : hpc[c] \in {"none", "done"} BY DEF IInv, Handlers, ReturnsLast
  <2>2. Held = {} /\ Counted = {} BY <2>1 DEF Held, Active, Counted, Admitted
  <2>3. streams = {} BY <2>1 DEF IInv, TypeOK, Handlers, StreamsAreOwned
  <2> QED BY <2>1, <2>2, <2>3, FS_EmptySet DEF IInv, SlotsAreExact, Held, Counted
<1> QED BY <1>1, Invariance, PTL
============================================================================
