-------------------------- MODULE VhostTableProofs --------------------------
(***************************************************************************)
(* Proofs about VhostTable, for any configuration, any names and any       *)
(* number of publishers. Calls overlap, and what the table holds is        *)
(* compared with the calls that were granted, in the order they held v.mu. *)
(* The inductive invariant adds what those comparisons rest on: a call     *)
(* that was carried out is not carried out again, a name's provenance says *)
(* whose it is, and no publish of a configured or of an invalid name was   *)
(* ever granted.                                                           *)
(***************************************************************************)
EXTENDS VhostTable, FiniteSetTheorems, SequenceTheorems, WellFoundedInduction, TLAPS

\* What this process carried out, and what it logged, is behind it.
CarriedOut ==
    /\ \A k \in DOMAIN history : calls[history[k]].stage \in {"handled", "answered"}
    /\ \A i \in audit : calls[i].stage = "answered"

\* The provenance of a name tells the operator's from the others.
Provenance ==
    /\ IsFiniteSet(DOMAIN exact)
    /\ \A h \in DOMAIN exact :
           exact[h].prov = IF h \in DOMAIN ConfigExact THEN "config" ELSE "runtime"

\* A publish names a port.
PortsGiven == \A i \in DOMAIN calls : calls[i].op = "AddVhost" => calls[i].port \in Ports

\* Only what may be published was.
GrantsAreValid ==
    \A k \in DOMAIN history :
        LET call == calls[history[k]] IN
        call.op = "AddVhost" /\ call.code = "OK" =>
            /\ AllowMutation /\ call.host \notin DOMAIN ConfigExact
            /\ ValidateVhostKey(call.host) /\ ~IsPattern(call.host)

\* A publish that is repeated while it stands is granted again.
RepeatsAreGranted ==
    \A i, k \in DOMAIN history :
        LET again == calls[history[k]] IN
        /\ i < k
        /\ again.op = "AddVhost" /\ again.port = calls[history[i]].port
        /\ Granted(i, "AddVhost", again.host)
        /\ ~\E j \in i..k : Granted(j, "RemoveVhost", again.host)
        => again.code = "OK"

\* The last call carried out, if it withdrew a name, said what is met now.
LastReport ==
    history # <<>> =>
        LET last == calls[history[Len(history)]]
        IN  last.op = "RemoveVhost" /\ last.code = "OK" => last.report = resolve(exact, last.host)

IInv == /\ TypeOK /\ PortsGiven /\ CarriedOut /\ Provenance /\ GrantsAreValid
        /\ CallsExplainTable /\ RepeatsAreGranted /\ AuditAccountsForTable /\ LastReport

-----------------------------------------------------------------------------
(* Looking a name up *)

Addresses == {Config[k] : k \in DOMAIN Config}

\* A set of numbers that is not empty has a least one: what is minimal in a
\* relation that contains the order is least.
LEMMA MinimalIsLeast ==
    ASSUME NEW R, \A m, n \in Nat : m < n => <<m, n>> \in R,
           NEW S \in SUBSET Nat, \E n \in S : \A m \in S : ~(<<m, n>> \in R)
    PROVE  \E n \in S : \A m \in S : n <= m
<1>1. PICK n \in S : \A m \in S : ~(<<m, n>> \in R) OBVIOUS
<1>2. \A m \in S : ~(m < n)
  <2>1. \A m \in S : m \in Nat OBVIOUS
  <2> QED BY <1>1, <2>1, Zenon
<1>3. n \in Nat /\ \A m \in S : m \in Nat OBVIOUS
<1>4. \A m, k \in Nat : ~(m < k) => k <= m OBVIOUS
<1> QED BY <1>2, <1>3, <1>4, Zenon

\* ... and the order itself is well-founded.
LEMMA LeastExists ==
    ASSUME NEW S \in SUBSET Nat, S # {}
    PROVE  \E n \in S : \A m \in S : n <= m
<1>1. \A m, n \in Nat : m < n => <<m, n>> \in OpToRel(<, Nat) BY DEF OpToRel
<1>2. \E n \in S : \A m \in S : ~(<<m, n>> \in OpToRel(<, Nat)) BY NatLessThanWellFounded, WFMin
<1> QED BY <1>1, <1>2, MinimalIsLeast

\* What is kept of a pattern: at least one label, and the operator's address.
LEMMA WildcardKeys ==
    ASSUME NEW p \in DOMAIN wildcard
    PROVE  p \in Seq(Labels \cup {Star}) /\ Len(p) >= 1 /\ wildcard[p] \in Addresses
<1>1. PICK k \in DOMAIN Config : IsPattern(k) /\ p = Tail(k) BY DEF wildcard
<1>2. k \in Seq(Labels \cup {Star}) /\ k # <<>> /\ k # <<Star>> BY ConfigAssumption DEF ValidateVhostKey
<1>3. k[1] = Star BY <1>1 DEF IsPattern
<1>4. Len(k) >= 1 BY <1>2
<1>5. Len(k) # 1
  <2> SUFFICES ASSUME Len(k) = 1 PROVE FALSE OBVIOUS
  <2> QED BY <1>2, <1>3
<1>6. p \in Seq(Labels \cup {Star}) /\ Len(p) = Len(k) - 1 BY <1>1, <1>2
<1>7. <<Star>> \o p = k
  <2>1. <<Star>> \o p \in Seq(Labels \cup {Star}) BY <1>6
  <2>2. Len(<<Star>> \o p) = Len(k) BY <1>2, <1>4, <1>6
  <2>3. \A i \in 1..Len(k) : (<<Star>> \o p)[i] = k[i]
    BY <1>1, <1>2, <1>3, <1>4, <1>6
  <2> QED BY <1>2, <2>1, <2>2, <2>3, SeqEqual
<1>8. wildcard[p] = Config[k] BY <1>7 DEF wildcard
<1> QED BY <1>4, <1>2, <1>5, <1>6, <1>8 DEF Addresses

\* The walk stops at the first pattern, if there is any.
LEMMA FirstCovering ==
    ASSUME NEW host \in Seq(Labels \cup {Star}), Covered(host) # {}
    PROVE  firstCovering(host) \in Covered(host) /\ \A j \in Covered(host) : firstCovering(host) <= j
<1>1. Covered(host) \in SUBSET Nat BY DEF Covered
<1>2. \E i \in Covered(host) : \A j \in Covered(host) : i <= j BY <1>1, LeastExists
<1> QED BY <1>2 DEF firstCovering

\* Dropping labels arrives exactly at the patterns that cover the name.
LEMMA WalkMeetsPatterns ==
    ASSUME NEW host \in Seq(Labels \cup {Star})
    PROVE  /\ \A i \in Covered(host) : /\ Covers(Rest(host, i), host)
                                       /\ Rest(host, i) \in DOMAIN wildcard
                                       /\ Len(Rest(host, i)) = Len(host) - i
           /\ \A p \in DOMAIN wildcard : Covers(p, host) => /\ Len(host) - Len(p) \in Covered(host)
                                                            /\ Len(p) \in Nat
<1>1. ASSUME NEW i \in Covered(host)
      PROVE  /\ Covers(Rest(host, i), host) /\ Rest(host, i) \in DOMAIN wildcard
             /\ Len(Rest(host, i)) = Len(host) - i
  <2>1. i \in 1..Len(host) - 1 /\ Rest(host, i) \in DOMAIN wildcard BY <1>1 DEF Covered
  <2>2. Len(host) \in Nat OBVIOUS
  <2>3. /\ Len(Rest(host, i)) = Len(host) - i
        /\ \A j \in 1..Len(host) - i : Rest(host, i)[j] = host[i + j]
    BY <2>1, <2>2 DEF Rest
  <2>4. DOMAIN Rest(host, i) = 1..Len(host) - i
    <3>1. Rest(host, i) \in Seq(Labels \cup {Star}) BY <2>1, WildcardKeys
    <3> QED BY <2>3, <3>1
  <2>5. Len(host) - Len(Rest(host, i)) = i BY <2>1, <2>2, <2>3
  <2>6. Covers(Rest(host, i), host) BY <2>1, <2>2, <2>3, <2>4, <2>5 DEF Covers
  <2> QED BY <2>1, <2>3, <2>6
<1>2. ASSUME NEW p \in DOMAIN wildcard, Covers(p, host)
      PROVE  Len(host) - Len(p) \in Covered(host) /\ Len(p) \in Nat
  <2> DEFINE i == Len(host) - Len(p)
  <2>1. p \in Seq(Labels \cup {Star}) /\ Len(p) >= 1 /\ Len(p) \in Nat /\ Len(host) \in Nat BY WildcardKeys
  <2>2. Len(p) < Len(host) /\ \A j \in 1..Len(p) : p[j] = host[i + j] BY <1>2, <2>1 DEF Covers
  <2>3. i \in 1..Len(host) - 1 BY <2>1, <2>2
  <2>4. Len(host) - i = Len(p) BY <2>1
  <2> HIDE DEF i
  <2>5. Rest(host, i) = p
    <3>1. Rest(host, i) \in Seq(Labels \cup {Star}) BY <2>1, <2>3 DEF Rest
    <3>2. Len(Rest(host, i)) = Len(p) /\ \A j \in 1..Len(p) : Rest(host, i)[j] = host[i + j]
      BY <2>1, <2>3, <2>4 DEF Rest
    <3> QED BY <2>1, <2>2, <3>1, <3>2
  <2>6. i \in Covered(host) BY <2>3, <2>5 DEF Covered
  <2> QED BY <2>1, <2>6 DEF i
<1> QED BY <1>1, <1>2

\* Precedence, for any table and any name: exact entries first, then the longest
\* pattern that covers the name, then nothing.
LEMMA LongestPatternWins ==
    ASSUME NEW host \in Seq(Labels \cup {Star}), NEW table, host \notin DOMAIN table
    PROVE  LET covering == {p \in DOMAIN wildcard : Covers(p, host)} IN
           \/ covering = {} /\ resolve(table, host) = NoRoute
           \/ \E p \in covering : /\ \A q \in covering : Len(q) <= Len(p)
                                  /\ resolve(table, host) = wildcard[p]
<1> DEFINE covering == {p \in DOMAIN wildcard : Covers(p, host)}
<1>1. CASE Covered(host) = {}
  BY <1>1, WalkMeetsPatterns DEF resolve
<1>2. CASE Covered(host) # {}
  <2> DEFINE i == firstCovering(host)
             p == Rest(host, i)
  <2>1. i \in Covered(host) /\ (\A j \in Covered(host) : i <= j) BY <1>2, FirstCovering
  <2>2. resolve(table, host) = wildcard[p] BY <1>2 DEF resolve
  <2>3. p \in covering /\ Len(p) = Len(host) - i BY <2>1, WalkMeetsPatterns
  <2>4. i \in Nat /\ Len(host) \in Nat BY <2>1 DEF Covered
  <2> HIDE DEF i
  <2>5. ASSUME NEW q \in covering PROVE Len(q) <= Len(p)
    <3>1. Len(host) - Len(q) \in Covered(host) /\ Len(q) \in Nat BY <2>5, WalkMeetsPatterns
    <3>2. i <= Len(host) - Len(q) BY <2>1, <3>1
    <3> QED BY <2>3, <2>4, <3>1, <3>2
  <2> QED BY <2>2, <2>3, <2>5
<1> QED BY <1>1, <1>2

-----------------------------------------------------------------------------
(* The limit *)

\* The operator's own entries fit: every pattern is counted once, like a name.
LEMMA ConfigFits ==
    /\ IsFiniteSet(DOMAIN ConfigExact) /\ IsFiniteSet(DOMAIN wildcard)
    /\ Cardinality(DOMAIN wildcard) \in Nat
    /\ Count(ConfigExact) <= MaxVhosts
<1> DEFINE Patterns == {k \in DOMAIN Config : IsPattern(k)}
           Names == {k \in DOMAIN Config : ~IsPattern(k)}
           f == [k \in Patterns |-> Tail(k)]
<1>1. DOMAIN ConfigExact = Names /\ DOMAIN wildcard = {Tail(k) : k \in Patterns}
  BY DEF ConfigExact, wildcard
<1>2. IsFiniteSet(Names) /\ IsFiniteSet(Patterns)
  <2>1. Names \in SUBSET DOMAIN Config /\ Patterns \in SUBSET DOMAIN Config OBVIOUS
  <2> QED BY <2>1, ConfigAssumption, FS_Subset
<1>3. f \in Surjection(Patterns, DOMAIN wildcard)
  <2>1. f \in [Patterns -> DOMAIN wildcard] BY <1>1
  <2>2. \A t \in DOMAIN wildcard : \E k \in Patterns : f[k] = t BY <1>1
  <2> QED BY <2>1, <2>2 DEF Surjection
<1> HIDE DEF f
<1>4. IsFiniteSet(DOMAIN wildcard) /\ Cardinality(DOMAIN wildcard) <= Cardinality(Patterns)
  BY <1>2, <1>3, FS_Surjection
<1>5. Cardinality(Names) + Cardinality(Patterns) = Cardinality(DOMAIN Config)
  <2>1. Names \cup Patterns = DOMAIN Config /\ Names \cap Patterns = {} OBVIOUS
  <2>2. Cardinality(Names \cup Patterns) =
          Cardinality(Names) + Cardinality(Patterns) - Cardinality(Names \cap Patterns)
    BY <1>2, FS_Union
  <2>3. Cardinality(Names \cap Patterns) = 0 BY <2>1, FS_EmptySet
  <2> HIDE DEF Names, Patterns
  <2>4. Cardinality(Names) \in Nat /\ Cardinality(Patterns) \in Nat BY <1>2, FS_CardinalityType
  <2> QED BY <2>1, <2>2, <2>3, <2>4
<1> HIDE DEF Names, Patterns
<1>6. Cardinality(Names) \in Nat /\ Cardinality(Patterns) \in Nat /\ Cardinality(DOMAIN wildcard) \in Nat
  BY <1>2, <1>4, FS_CardinalityType
<1>7. Cardinality(DOMAIN Config) <= MaxVhosts BY ConfigAssumption
<1> QED BY <1>1, <1>2, <1>4, <1>5, <1>6, <1>7, LimitAssumption DEF Count

\* One name more counts for one.
LEMMA OneNameMore ==
    ASSUME NEW D, IsFiniteSet(D), NEW host, host \notin D
    PROVE  IsFiniteSet(D \cup {host}) /\ Cardinality(D \cup {host}) = Cardinality(D) + 1
           /\ Cardinality(D) \in Nat
BY FS_AddElement, FS_CardinalityType

\* A table without one of its names is no larger.
LEMMA OneNameLess ==
    ASSUME NEW D, IsFiniteSet(D), NEW host
    PROVE  /\ IsFiniteSet(D \ {host}) /\ Cardinality(D \ {host}) <= Cardinality(D)
           /\ Cardinality(D \ {host}) \in Nat /\ Cardinality(D) \in Nat
<1>1. D \ {host} \in SUBSET D OBVIOUS
<1> QED BY <1>1, FS_Subset, FS_CardinalityType

-----------------------------------------------------------------------------
(* What a call comes to *)

\* The request may be carried out at all, as a publish.
MayPublish(host) == AllowMutation /\ ValidateVhostKey(host) /\ ~IsPattern(host)

Entry(port) == [raw |-> port, prov |-> "runtime"]

\* It is turned away and nothing changes; or what it asks for is there already;
\* or the name is new; or the name is withdrawn.
TurnedAway(result) == /\ result.code \in Codes \ {"OK"} /\ result.table = exact /\ result.report = NoReply
Repeated(call, result) ==
    /\ call.op = "AddVhost" /\ MayPublish(call.host) /\ result.code = "OK"
    /\ call.host \in DOMAIN exact /\ exact[call.host] = Entry(call.port)
    /\ result.table = exact /\ result.report = NoReply
Published(call, result) ==
    /\ call.op = "AddVhost" /\ MayPublish(call.host) /\ result.code = "OK"
    /\ call.host \notin DOMAIN exact /\ ~(Count(exact) >= MaxVhosts)
    /\ result.table = [h \in DOMAIN exact \cup {call.host} |->
                          IF h = call.host THEN Entry(call.port) ELSE exact[h]]
    /\ result.report = NoReply
Withdrawn(call, result) ==
    /\ call.op = "RemoveVhost" /\ result.code = "OK"
    /\ call.host \in DOMAIN exact /\ exact[call.host].prov = "runtime"
    /\ result.table = [h \in DOMAIN exact \ {call.host} |-> exact[h]]
    /\ result.report = shadowedByAddress(call.host)

\* There is no fifth outcome.
LEMMA Outcome ==
    ASSUME NEW call, call.op \in {"AddVhost", "RemoveVhost"}
    PROVE  LET result == dispatch(call) IN
           \/ TurnedAway(result) \/ Repeated(call, result)
           \/ Published(call, result) \/ Withdrawn(call, result)
<1> DEFINE result == dispatch(call)
<1> USE DEF TurnedAway, Repeated, Published, Withdrawn, MayPublish, Entry, Refused, Result, Codes
<1>1. CASE ~AllowMutation
  <2>1. result = Refused("PermissionDenied") BY <1>1 DEF dispatch
  <2> QED BY <2>1
<1>2. CASE AllowMutation /\ call.op = "AddVhost"
  <2>1. result = AddVhost(call.host, call.port) BY <1>2 DEF dispatch
  <2>2. CASE ~ValidateVhostKey(call.host) \/ IsPattern(call.host)
    <3>1. result = Refused("InvalidArgument") BY <2>1, <2>2 DEF AddVhost
    <3> QED BY <3>1
  <2>3. CASE ValidateVhostKey(call.host) /\ ~IsPattern(call.host)
    <3>1. result = add(call.host, call.port) BY <2>1, <2>3 DEF AddVhost
    <3>2. CASE call.host \in DOMAIN exact
      <4>1. CASE exact[call.host] = Entry(call.port)
        <5>1. result = Result("OK", exact, NoReply) BY <3>1, <3>2, <4>1 DEF add
        <5> QED BY <1>2, <2>3, <3>2, <4>1, <5>1
      <4>2. CASE exact[call.host] # Entry(call.port)
        <5>1. result = Refused("AlreadyExists") BY <3>1, <3>2, <4>2 DEF add
        <5> QED BY <5>1
      <4> QED BY <4>1, <4>2
    <3>3. CASE call.host \notin DOMAIN exact /\ Count(exact) >= MaxVhosts
      <4>1. result = Refused("ResourceExhausted") BY <3>1, <3>3 DEF add
      <4> QED BY <4>1
    <3>4. CASE call.host \notin DOMAIN exact /\ ~(Count(exact) >= MaxVhosts)
      <4>1. result = Result("OK", [h \in DOMAIN exact \cup {call.host} |->
                              IF h = call.host THEN Entry(call.port) ELSE exact[h]], NoReply)
        BY <3>1, <3>4 DEF add
      <4> QED BY <1>2, <2>3, <3>4, <4>1
    <3> QED BY <3>2, <3>3, <3>4
  <2> QED BY <2>2, <2>3
<1>3. CASE AllowMutation /\ call.op = "RemoveVhost"
  <2>1. result = RemoveVhost(call.host) BY <1>3 DEF dispatch
  <2>2. CASE ~ValidateVhostKey(call.host)
    <3>1. result = Refused("InvalidArgument") BY <2>1, <2>2 DEF RemoveVhost
    <3> QED BY <3>1
  <2>3. CASE ValidateVhostKey(call.host)
    <3>1. result = remove(call.host) BY <2>1, <2>3 DEF RemoveVhost
    <3>2. CASE call.host \notin DOMAIN exact
      <4>1. result = Refused("NotFound") BY <3>1, <3>2 DEF remove
      <4> QED BY <4>1
    <3>3. CASE call.host \in DOMAIN exact /\ exact[call.host].prov # "runtime"
      <4>1. result = Refused("FailedPrecondition") BY <3>1, <3>3 DEF remove
      <4> QED BY <4>1
    <3>4. CASE call.host \in DOMAIN exact /\ exact[call.host].prov = "runtime"
      <4>1. result = Result("OK", [h \in DOMAIN exact \ {call.host} |-> exact[h]],
                            shadowedByAddress(call.host))
        BY <3>1, <3>4 DEF remove
      <4> QED BY <1>3, <3>4, <4>1
    <3> QED BY <3>2, <3>3, <3>4
  <2> QED BY <2>2, <2>3
<1> QED BY <1>1, <1>2, <1>3

\* A publish of what is there already is granted, full or not.
LEMMA RepeatIsGranted ==
    ASSUME NEW call, call.op = "AddVhost", MayPublish(call.host),
           call.host \in DOMAIN exact, exact[call.host] = Entry(call.port)
    PROVE  dispatch(call).code = "OK"
<1>1. dispatch(call) = AddVhost(call.host, call.port) BY DEF dispatch, MayPublish
<1>2. AddVhost(call.host, call.port) = add(call.host, call.port) BY DEF AddVhost, MayPublish
<1>3. add(call.host, call.port) = Result("OK", exact, NoReply) BY DEF add, Entry
<1> QED BY <1>1, <1>2, <1>3 DEF Result

\* What a withdrawal reports is what a lookup finds without the entry.
LEMMA ReportIsLookup ==
    ASSUME NEW host, NEW table, host \notin DOMAIN table
    PROVE  shadowedByAddress(host) = resolve(table, host)
<1>1. shadowedByAddress(host) =
        IF Covered(host) = {} THEN NoRoute ELSE wildcard[Rest(host, firstCovering(host))]
  BY DEF shadowedByAddress, Covered, firstCovering
<1> QED BY <1>1 DEF resolve

-----------------------------------------------------------------------------
(* Steps that leave the table alone *)

\* TypeOK, by the variables it is about.
TableType ==
    /\ Count(exact) <= MaxVhosts
    /\ DOMAIN exact \subseteq DOMAIN Config \cup Hosts
    /\ \A h \in DOMAIN exact : ValidateVhostKey(h) /\ ~IsPattern(h)
    /\ \A h \in DOMAIN exact : exact[h] \in [raw : Ports \cup Addresses, prov : {"config", "runtime"}]
CallsType ==
    /\ calls \in Seq(Call) /\ Len(calls) <= MaxCalls
    /\ awaiting \in [Publishers -> 0..Len(calls)]
    /\ audit \subseteq DOMAIN calls
    /\ history \in Seq(DOMAIN calls)
    /\ restarts \in 0..MaxRestarts

\* The two halves.
LEMMA TypeHalves == TypeOK <=> TableType /\ CallsType
BY DEF TypeOK, TableType, CallsType, Addresses

\* The table and the order of the calls are all that the comparisons look at.
Settled == /\ TableType /\ Provenance /\ GrantsAreValid
           /\ CallsExplainTable /\ RepeatsAreGranted /\ LastReport

\* The invariant of the next state, put together.
LEMMA Assembled ==
    ASSUME Settled', CallsType', PortsGiven', CarriedOut', AuditAccountsForTable'
    PROVE  IInv'
<1>1. TypeOK' BY DEF Settled, TypeOK, TableType, CallsType, Addresses
<1> QED BY <1>1 DEF Settled, IInv

\* As long as neither changes, nor what the calls carried out asked and got,
\* they come out the same.
LEMMA SettledKept ==
    ASSUME Settled, history \in Seq(DOMAIN calls), UNCHANGED <<exact, history>>,
           \A k \in DOMAIN history :
               /\ calls'[history[k]].op = calls[history[k]].op
               /\ calls'[history[k]].host = calls[history[k]].host
               /\ calls'[history[k]].port = calls[history[k]].port
               /\ calls'[history[k]].code = calls[history[k]].code
               /\ calls'[history[k]].report = calls[history[k]].report
    PROVE  Settled'
<1> USE DEF Settled
<1>1. \A op, host : \A k \in DOMAIN history : Granted(k, op, host)' <=> Granted(k, op, host) BY DEF Granted
<1>2. TableType' /\ Provenance' BY DEF TableType, Provenance, Count
<1>3. GrantsAreValid' BY DEF GrantsAreValid
<1>4. CallsExplainTable'
  <2>1. \A host : \A k \in DOMAIN history : Standing(k, host)' <=> Standing(k, host) BY <1>1 DEF Standing
  <2> QED BY <2>1 DEF CallsExplainTable
<1>5. RepeatsAreGranted'
  <2>1. \A i, k \in DOMAIN history : \A j \in i..k : j \in DOMAIN history
    <3>1. DOMAIN history = 1..Len(history) /\ Len(history) \in Nat OBVIOUS
    <3> QED BY <3>1
  <2> QED BY <1>1, <2>1 DEF RepeatsAreGranted
<1>6. LastReport'
  <2>1. history # <<>> => Len(history) \in DOMAIN history OBVIOUS
  <2> QED BY <2>1 DEF LastReport, resolve
<1> QED BY <1>2, <1>3, <1>4, <1>5, <1>6

\* Nothing has been called yet.
LEMMA InitIInv == Init => IInv
<1> SUFFICES ASSUME Init PROVE IInv OBVIOUS
<1>1. /\ exact = ConfigExact /\ calls = <<>> /\ audit = {} /\ history = <<>>
      /\ awaiting = [d \in Publishers |-> 0] /\ restarts = 0
  BY DEF Init
<1>2. DOMAIN history = {} /\ DOMAIN calls = {} BY <1>1
<1>3. TableType /\ Provenance /\ CallsExplainTable
  <2>1. Count(exact) <= MaxVhosts /\ IsFiniteSet(DOMAIN exact) BY <1>1, ConfigFits
  <2>2. \A h \in DOMAIN exact : /\ h \in DOMAIN Config /\ ~IsPattern(h)
                                /\ exact[h] = [raw |-> Config[h], prov |-> "config"]
    BY <1>1 DEF ConfigExact
  <2>3. TableType BY <2>1, <2>2, ConfigAssumption DEF TableType, Addresses
  <2>4. Provenance BY <1>1, <2>1, <2>2 DEF Provenance
  <2>5. CallsExplainTable BY <1>1, <1>2 DEF CallsExplainTable
  <2> QED BY <2>3, <2>4, <2>5
<1>4. CallsType BY <1>1, BoundsAssumption DEF CallsType
<1>5. PortsGiven /\ CarriedOut /\ GrantsAreValid /\ RepeatsAreGranted /\ LastReport
  BY <1>1, <1>2 DEF PortsGiven, CarriedOut, GrantsAreValid, RepeatsAreGranted, LastReport
<1>6. AuditAccountsForTable
  <2>1. Runtime = {} BY <1>1 DEF Runtime, ConfigExact
  <2> QED BY <2>1 DEF AuditAccountsForTable
<1> QED BY <1>3, <1>4, <1>5, <1>6, TypeHalves DEF IInv

\* A request is sent, or its caller is told or gives up: the agent has done
\* nothing yet.
LEMMA CallerStep ==
    ASSUME IInv, NEW d \in Publishers, Expose(d) \/ Withdraw(d) \/ Deliver(d) \/ GiveUp(d)
    PROVE  IInv'
<1>0. Settled /\ CallsType /\ PortsGiven BY TypeHalves DEF IInv, Settled
<1>1. CASE Deliver(d) \/ GiveUp(d)
  <2>1. UNCHANGED <<exact, calls, audit, history, restarts>> /\ awaiting' = [awaiting EXCEPT ![d] = 0]
    BY <1>1 DEF Deliver, GiveUp
  <2>2. Settled' BY <1>0, <2>1, SettledKept DEF CallsType
  <2>3. CallsType' BY <1>0, <2>1 DEF CallsType
  <2>4. PortsGiven' /\ CarriedOut' /\ AuditAccountsForTable'
    BY <2>1 DEF IInv, PortsGiven, CarriedOut, AuditAccountsForTable, Runtime
  <2> QED BY <2>2, <2>3, <2>4, Assembled
<1>2. CASE Expose(d) \/ Withdraw(d)
  <2>1. PICK op \in {"AddVhost", "RemoveVhost"}, host \in Hosts, port \in Ports \cup {NoReply} :
          Send(d, op, host, port) /\ (op = "AddVhost" => port \in Ports)
    BY <1>2 DEF Expose, Withdraw
  <2> DEFINE new == [op |-> op, host |-> host, port |-> port,
                     stage |-> "sent", code |-> NoReply, report |-> NoReply]
  <2>2. /\ Len(calls) < MaxCalls /\ calls' = Append(calls, new)
        /\ awaiting' = [awaiting EXCEPT ![d] = Len(calls) + 1]
        /\ UNCHANGED <<exact, audit, history, restarts>>
    BY <2>1 DEF Send
  <2>3. new \in Call BY DEF Call
  <2>4. new.op = op /\ new.port = port OBVIOUS
  <2> HIDE DEF new
  <2>5. /\ calls' \in Seq(Call) /\ Len(calls') = Len(calls) + 1 /\ Len(calls) \in Nat
        /\ DOMAIN calls = 1..Len(calls) /\ DOMAIN calls' = 1..Len(calls) + 1
        /\ \A i \in DOMAIN calls : i \in DOMAIN calls' /\ calls'[i] = calls[i]
        /\ calls'[Len(calls) + 1] = new
    BY <1>0, <2>2, <2>3 DEF CallsType
  <2>6. \A k \in DOMAIN history : history[k] \in DOMAIN calls BY <1>0 DEF CallsType
  <2>7. Settled' BY <1>0, <2>2, <2>5, <2>6, SettledKept DEF CallsType
  <2>8. CallsType'
    <3>1. Len(calls') <= MaxCalls BY <2>2, <2>5, BoundsAssumption
    <3>2. awaiting' \in [Publishers -> 0..Len(calls')] BY <1>0, <2>2, <2>5 DEF CallsType
    <3>3. audit' \subseteq DOMAIN calls' /\ restarts' \in 0..MaxRestarts BY <1>0, <2>2, <2>5 DEF CallsType
    <3>4. history' \in Seq(DOMAIN calls')
      <4>1. DOMAIN calls \subseteq DOMAIN calls' BY <2>5
      <4> QED BY <1>0, <2>2, <4>1, SeqMonotonic DEF CallsType
    <3> QED BY <2>5, <3>1, <3>2, <3>3, <3>4 DEF CallsType
  <2>9. PortsGiven'
    <3>1. \A i \in DOMAIN calls' : i \in DOMAIN calls \/ i = Len(calls) + 1 BY <2>5
    <3> QED BY <1>0, <2>1, <2>4, <2>5, <3>1 DEF PortsGiven
  <2>10. CarriedOut' BY <1>0, <2>2, <2>5, <2>6 DEF IInv, CarriedOut, CallsType
  <2>11. AuditAccountsForTable' BY <2>2, <2>5 DEF IInv, AuditAccountsForTable, Runtime
  <2> QED BY <2>7, <2>8, <2>9, <2>10, <2>11, Assembled
<1> QED BY <1>1, <1>2

\* The audit line and the reply: the call is written down when it is no longer
\* about to be.
LEMMA AnswerStep == ASSUME IInv, NEW i \in DOMAIN calls, Answer(i) PROVE IInv'
<1>0. Settled /\ CallsType /\ PortsGiven BY TypeHalves DEF IInv, Settled
<1>1. /\ calls[i].stage = "handled" /\ calls' = [calls EXCEPT ![i].stage = "answered"]
      /\ audit' = audit \cup {i} /\ UNCHANGED <<exact, awaiting, history, restarts>>
  BY DEF Answer
<1>2. /\ calls[i] \in Call /\ \A j \in DOMAIN calls : calls[j] \in Call
      /\ \A k \in DOMAIN history : history[k] \in DOMAIN calls
  BY <1>0 DEF CallsType
<1>3. /\ DOMAIN calls' = DOMAIN calls
      /\ calls'[i] = [calls[i] EXCEPT !.stage = "answered"]
      /\ \A j \in DOMAIN calls \ {i} : calls'[j] = calls[j]
  BY <1>1
<1>4. /\ calls'[i].stage = "answered" /\ calls'[i].op = calls[i].op /\ calls'[i].host = calls[i].host
      /\ calls'[i].port = calls[i].port /\ calls'[i].code = calls[i].code
      /\ calls'[i].report = calls[i].report /\ calls'[i] \in Call
  BY <1>2, <1>3 DEF Call
<1>5. calls' \in Seq(Call) /\ Len(calls') = Len(calls) BY <1>0, <1>1, <1>3, <1>4 DEF CallsType
<1>6. Settled' BY <1>0, <1>1, <1>2, <1>3, <1>4, SettledKept DEF CallsType
<1>7. CallsType' BY <1>0, <1>1, <1>3, <1>5 DEF CallsType
<1>8. PortsGiven' BY <1>0, <1>3, <1>4 DEF PortsGiven
<1>9. CarriedOut' BY <1>0, <1>1, <1>2, <1>3, <1>4 DEF IInv, CarriedOut, CallsType
<1>10. AuditAccountsForTable'
  <2> SUFFICES ASSUME NEW host \in Runtime
               PROVE  \E j \in DOMAIN calls' :
                        /\ calls'[j].op = "AddVhost" /\ calls'[j].host = host /\ calls'[j].code = "OK"
                        /\ calls'[j].stage = "handled" \/ j \in audit'
    BY <1>1 DEF AuditAccountsForTable, Runtime
  <2>1. PICK j \in DOMAIN calls :
          /\ calls[j].op = "AddVhost" /\ calls[j].host = host /\ calls[j].code = "OK"
          /\ calls[j].stage = "handled" \/ j \in audit
    BY DEF IInv, AuditAccountsForTable
  <2> QED BY <1>1, <1>3, <1>4, <2>1
<1> QED BY <1>6, <1>7, <1>8, <1>9, <1>10, Assembled

\* A restart forgets what was published, and what was done.
LEMMA RestartStep == ASSUME IInv, Restart PROVE IInv'
<1>0. Settled /\ CallsType /\ PortsGiven BY TypeHalves DEF IInv, Settled
<1>1. /\ restarts < MaxRestarts /\ restarts' = restarts + 1
      /\ exact' = ConfigExact /\ audit' = {} /\ history' = <<>>
      /\ calls' = [i \in DOMAIN calls |-> [calls[i] EXCEPT !.stage = "lost"]]
      /\ awaiting' = awaiting
  BY DEF Restart
<1>2. DOMAIN history' = {} BY <1>1
<1>3. Settled'
  <2>1. Count(exact)' <= MaxVhosts /\ IsFiniteSet(DOMAIN exact') BY <1>1, ConfigFits DEF Count
  <2>2. \A h \in DOMAIN exact' : /\ h \in DOMAIN Config /\ ~IsPattern(h)
                                 /\ exact'[h] = [raw |-> Config[h], prov |-> "config"]
    BY <1>1 DEF ConfigExact
  <2>3. TableType' BY <2>1, <2>2, ConfigAssumption DEF TableType, Addresses
  <2>4. Provenance' BY <1>1, <2>1, <2>2 DEF Provenance
  <2>5. CallsExplainTable' BY <1>1, <1>2 DEF CallsExplainTable
  <2>6. GrantsAreValid' /\ RepeatsAreGranted' /\ LastReport'
    BY <1>1, <1>2 DEF GrantsAreValid, RepeatsAreGranted, LastReport
  <2> QED BY <2>3, <2>4, <2>5, <2>6 DEF Settled
<1>4. /\ DOMAIN calls' = DOMAIN calls /\ Len(calls) \in Nat /\ DOMAIN calls = 1..Len(calls)
      /\ \A i \in DOMAIN calls : calls'[i] \in Call /\ calls'[i].op = calls[i].op /\ calls'[i].port = calls[i].port
  <2>1. DOMAIN calls' = DOMAIN calls /\ \A i \in DOMAIN calls : calls'[i] = [calls[i] EXCEPT !.stage = "lost"]
    BY <1>1
  <2>2. \A i \in DOMAIN calls : calls[i] \in Call BY <1>0 DEF CallsType
  <2>3. \A c \in Call : /\ [c EXCEPT !.stage = "lost"] \in Call
                        /\ [c EXCEPT !.stage = "lost"].op = c.op
                        /\ [c EXCEPT !.stage = "lost"].port = c.port
    BY DEF Call
  <2>4. Len(calls) \in Nat /\ DOMAIN calls = 1..Len(calls) BY <1>0 DEF CallsType
  <2> QED BY <2>1, <2>2, <2>3, <2>4
<1>5. calls' \in Seq(Call) /\ Len(calls') = Len(calls)
  <2>1. calls' \in [1..Len(calls) -> Call] BY <1>1, <1>4
  <2> QED BY <1>4, <2>1
<1>6. CallsType' BY <1>0, <1>1, <1>4, <1>5, BoundsAssumption DEF CallsType
<1>7. PortsGiven' BY <1>0, <1>4 DEF PortsGiven
<1>8. CarriedOut' BY <1>1, <1>2 DEF CarriedOut
<1>9. AuditAccountsForTable'
  <2>1. Runtime' = {} BY <1>1 DEF Runtime, ConfigExact
  <2> QED BY <2>1 DEF AuditAccountsForTable
<1> QED BY <1>3, <1>6, <1>7, <1>8, <1>9, Assembled

-----------------------------------------------------------------------------
(* Carrying a call out *)

\* Handle(i) appends i to the history, and changes no call carried out before.
CallRecorded(i) ==
    /\ Len(history) \in Nat /\ DOMAIN history = 1..Len(history) /\ DOMAIN history' = 1..Len(history) + 1
    /\ Len(history') = Len(history) + 1
    /\ \A k \in DOMAIN history : /\ k \in DOMAIN history' /\ history'[k] = history[k]
                                 /\ history[k] \in DOMAIN calls \ {i}
                                 /\ calls'[history[k]] = calls[history[k]]
    /\ history'[Len(history) + 1] = i
    /\ DOMAIN calls' = DOMAIN calls
    /\ \A j \in DOMAIN calls \ {i} : calls'[j] = calls[j]
    /\ calls'[i].op = calls[i].op /\ calls'[i].host = calls[i].host /\ calls'[i].port = calls[i].port
    /\ calls'[i].stage = "handled" /\ calls'[i].code = dispatch(calls[i]).code
    /\ calls'[i].report = dispatch(calls[i]).report
    /\ exact' = dispatch(calls[i]).table

\* It does: a call carried out is not "sent" any more, so it is not i.
LEMMA Recorded == ASSUME IInv, NEW i \in DOMAIN calls, Handle(i) PROVE CallRecorded(i)
<1> DEFINE result == dispatch(calls[i])
<1>0. CallsType BY TypeHalves DEF IInv
<1>1. /\ calls[i].stage = "sent" /\ exact' = result.table
      /\ calls' = [calls EXCEPT ![i].stage = "handled", ![i].code = result.code, ![i].report = result.report]
      /\ history' = Append(history, i)
  BY DEF Handle
<1> HIDE DEF result
<1>2. calls[i] \in Call /\ history \in Seq(DOMAIN calls) BY <1>0 DEF CallsType
<1>3. /\ Len(history) \in Nat /\ DOMAIN history = 1..Len(history) /\ DOMAIN history' = 1..Len(history) + 1
      /\ Len(history') = Len(history) + 1
      /\ \A k \in DOMAIN history : k \in DOMAIN history' /\ history'[k] = history[k] /\ history[k] \in DOMAIN calls
      /\ history'[Len(history) + 1] = i
  BY <1>1, <1>2
<1>4. \A k \in DOMAIN history : history[k] # i BY <1>1 DEF IInv, CarriedOut
<1>5. /\ DOMAIN calls' = DOMAIN calls
      /\ \A j \in DOMAIN calls \ {i} : calls'[j] = calls[j]
      /\ calls'[i] = [calls[i] EXCEPT !.stage = "handled", !.code = result.code, !.report = result.report]
  BY <1>0, <1>1 DEF CallsType
<1>6. /\ calls'[i].op = calls[i].op /\ calls'[i].host = calls[i].host /\ calls'[i].port = calls[i].port
      /\ calls'[i].stage = "handled" /\ calls'[i].code = result.code /\ calls'[i].report = result.report
  BY <1>2, <1>5 DEF Call
<1> QED BY <1>1, <1>3, <1>4, <1>5, <1>6 DEF CallRecorded, result

\* The four outcomes of call i, as facts about this step.
LEMMA HandleOutcome ==
    ASSUME IInv, NEW i \in DOMAIN calls
    PROVE  LET result == dispatch(calls[i]) IN
           /\ calls[i] \in Call /\ calls[i].host \in Hosts /\ calls[i].host \in Seq(Labels \cup {Star})
           /\ \/ TurnedAway(result) \/ Repeated(calls[i], result)
              \/ Published(calls[i], result) \/ Withdrawn(calls[i], result)
<1>1. calls[i] \in Call BY TypeHalves DEF IInv, CallsType
<1>2. calls[i].op \in {"AddVhost", "RemoveVhost"} /\ calls[i].host \in Hosts BY <1>1 DEF Call
<1> QED BY <1>1, <1>2, Outcome, HostsAssumption

\* The table keeps its type, its limit and its provenance.
LEMMA HandleTable ==
    ASSUME IInv, NEW i \in DOMAIN calls, CallRecorded(i)
    PROVE  TableType' /\ Provenance'
<1> DEFINE call == calls[i]
           result == dispatch(call)
<1>0. TableType /\ Provenance BY TypeHalves DEF IInv
<1>1. exact' = result.table BY DEF CallRecorded
<1>2. call \in Call /\ call.host \in Hosts BY HandleOutcome
<1>3. CASE exact' = exact BY <1>0, <1>3 DEF TableType, Provenance, Count
<1>4. CASE Published(call, result)
  <2> DEFINE host == call.host
  <2>1. /\ exact' = [h \in DOMAIN exact \cup {host} |-> IF h = host THEN Entry(call.port) ELSE exact[h]]
        /\ host \notin DOMAIN exact /\ ~(Count(exact) >= MaxVhosts) /\ MayPublish(host)
        /\ call.port \in Ports
    BY <1>1, <1>4 DEF Published, IInv, PortsGiven
  <2> HIDE DEF host, call, result
  <2>2. /\ DOMAIN exact' = DOMAIN exact \cup {host} /\ exact'[host] = Entry(call.port)
        /\ \A h \in DOMAIN exact : exact'[h] = exact[h]
    BY <2>1
  <2>3. Count(exact)' <= MaxVhosts /\ IsFiniteSet(DOMAIN exact')
    <3>1. /\ Cardinality(DOMAIN exact') = Cardinality(DOMAIN exact) + 1
          /\ IsFiniteSet(DOMAIN exact') /\ Cardinality(DOMAIN exact) \in Nat
      BY <1>0, <2>1, <2>2, OneNameMore DEF Provenance
    <3> QED BY <2>1, <3>1, ConfigFits, LimitAssumption DEF Count
  <2>4. host \notin DOMAIN ConfigExact /\ Entry(call.port).prov = "runtime"
    <3>1. \A key \in DOMAIN ConfigExact : key \in DOMAIN exact BY DEF IInv, CallsExplainTable
    <3> QED BY <2>1, <3>1 DEF Entry
  <2>5. Provenance' BY <1>0, <2>2, <2>3, <2>4 DEF Provenance
  <2>6. host \in Hosts BY <1>2 DEF host
  <2>7. Entry(call.port) \in [raw : Ports \cup Addresses, prov : {"config", "runtime"}]
    BY <2>1 DEF Entry
  <2>8. TableType' BY <1>0, <2>1, <2>2, <2>3, <2>6, <2>7 DEF TableType, MayPublish
  <2> QED BY <2>5, <2>8
<1>5. CASE Withdrawn(call, result)
  <2>1. exact' = [h \in DOMAIN exact \ {call.host} |-> exact[h]] BY <1>1, <1>5 DEF Withdrawn
  <2>2. DOMAIN exact' = DOMAIN exact \ {call.host} /\ \A h \in DOMAIN exact' : h \in DOMAIN exact /\ exact'[h] = exact[h]
    BY <2>1
  <2>3. Count(exact)' <= MaxVhosts /\ IsFiniteSet(DOMAIN exact')
    <3>1. /\ IsFiniteSet(DOMAIN exact') /\ Cardinality(DOMAIN exact') <= Cardinality(DOMAIN exact)
          /\ Cardinality(DOMAIN exact') \in Nat /\ Cardinality(DOMAIN exact) \in Nat
      <4>1. IsFiniteSet(DOMAIN exact) BY <1>0 DEF Provenance
      <4>2. /\ IsFiniteSet(DOMAIN exact \ {call.host})
            /\ Cardinality(DOMAIN exact \ {call.host}) <= Cardinality(DOMAIN exact)
            /\ Cardinality(DOMAIN exact \ {call.host}) \in Nat /\ Cardinality(DOMAIN exact) \in Nat
        <5> HIDE DEF call
        <5> QED BY <4>1, OneNameLess
      <4> QED BY <2>2, <4>2
    <3> QED BY <1>0, <3>1, ConfigFits, LimitAssumption DEF Count, TableType
  <2>4. TableType' BY <1>0, <2>2, <2>3 DEF TableType
  <2>5. Provenance' BY <1>0, <2>2, <2>3 DEF Provenance
  <2> QED BY <2>4, <2>5
<1> QED BY <1>1, <1>3, <1>4, <1>5, HandleOutcome DEF TurnedAway, Repeated

\* The table stays what the granted calls made it.
LEMMA HandleExplains ==
    ASSUME IInv, NEW i \in DOMAIN calls, CallRecorded(i)
    PROVE  CallsExplainTable'
<1> DEFINE call == calls[i]
           result == dispatch(call)
<1>n. PICK n \in Nat : n = Len(history) + 1 BY DEF CallRecorded
<1>0. /\ CallsExplainTable /\ Provenance /\ exact' = result.table
      /\ n \in Nat /\ n \in DOMAIN history' /\ n \notin DOMAIN history
      /\ \A k \in DOMAIN history' : k \in Nat /\ k <= n /\ (k = n \/ k \in DOMAIN history)
      /\ \A k \in DOMAIN history : k \in DOMAIN history' /\ k < n
  BY <1>n DEF IInv, CallRecorded
<1>1. \A op, host : \A k \in DOMAIN history : Granted(k, op, host)' <=> Granted(k, op, host)
  BY DEF CallRecorded, Granted
<1>2. \A op, host : Granted(n, op, host)' <=> call.op = op /\ call.host = host /\ result.code = "OK"
  BY <1>n DEF CallRecorded, Granted
<1>3. TurnedAway(result) \/ Repeated(call, result) \/ Published(call, result) \/ Withdrawn(call, result)
  BY HandleOutcome
<1>4. \A k \in DOMAIN history : calls'[history'[k]].port = calls[history[k]].port BY DEF CallRecorded
<1>5. calls'[history'[n]].port = call.port BY <1>n DEF CallRecorded
<1>6. \A key \in DOMAIN ConfigExact : /\ key \in DOMAIN exact /\ exact[key] = ConfigExact[key]
                                      /\ exact[key].prov = "config"
  BY <1>0 DEF CallsExplainTable, Provenance
<1> HIDE DEF call, result
<1>7. ASSUME NEW key \in DOMAIN ConfigExact PROVE key \in DOMAIN exact' /\ exact'[key] = ConfigExact[key]
  <2>1. CASE TurnedAway(result) \/ Repeated(call, result)
    BY <1>0, <1>6, <2>1 DEF TurnedAway, Repeated
  <2>2. CASE Published(call, result) BY <1>0, <1>6, <2>2 DEF Published
  <2>3. CASE Withdrawn(call, result)
    <3>1. key # call.host BY <1>6, <2>3 DEF Withdrawn
    <3> QED BY <1>0, <1>6, <2>3, <3>1 DEF Withdrawn
  <2> QED BY <1>3, <2>1, <2>2, <2>3
<1>8. ASSUME NEW host \in Hosts \ DOMAIN ConfigExact
      PROVE  /\ host \in DOMAIN exact' <=> \E k \in DOMAIN history' : Standing(k, host)'
             /\ \A k \in DOMAIN history' : Standing(k, host)' => exact'[host].raw = calls'[history'[k]].port
  <2>0. /\ host \in DOMAIN exact <=> \E k \in DOMAIN history : Standing(k, host)
        /\ \A k \in DOMAIN history : Standing(k, host) => exact[host].raw = calls[history[k]].port
    BY <1>0, <1>8 DEF CallsExplainTable
  \* The call is about another name, or was refused.
  <2>1. CASE ~(call.host = host /\ result.code = "OK")
    <3>1. \A op : ~Granted(n, op, host)' BY <1>2, <2>1
    <3>2. \A k \in DOMAIN history : Standing(k, host)' <=> Standing(k, host)
      BY <1>0, <1>1, <3>1 DEF Standing
    <3>3. ~Standing(n, host)' BY <3>1 DEF Standing
    <3>4. (host \in DOMAIN exact' <=> host \in DOMAIN exact) /\ (host \in DOMAIN exact => exact'[host] = exact[host])
      BY <1>0, <1>3, <2>1 DEF TurnedAway, Repeated, Published, Withdrawn
    <3> QED BY <1>0, <1>4, <2>0, <3>2, <3>3, <3>4
  \* The name is published, or was.
  <2>2. CASE call.host = host /\ (Repeated(call, result) \/ Published(call, result))
    <3>1. /\ call.op = "AddVhost" /\ result.code = "OK" /\ host \in DOMAIN exact'
          /\ exact'[host] = Entry(call.port)
      BY <1>0, <2>2 DEF Repeated, Published
    <3>2. Granted(n, "AddVhost", host)' /\ ~Granted(n, "RemoveVhost", host)' BY <1>2, <2>2, <3>1
    <3>3. Standing(n, host)' BY <1>0, <3>2 DEF Standing
    <3>4. \A k \in DOMAIN history : Standing(k, host)' <=> Standing(k, host)
      BY <1>0, <1>1, <3>2 DEF Standing
    <3>5. exact'[host].raw = call.port BY <3>1 DEF Entry
    <3>6. \A k \in DOMAIN history : Standing(k, host) => calls[history[k]].port = call.port
      <4>1. CASE Repeated(call, result)
        <5>1. exact[host].raw = call.port BY <2>2, <4>1 DEF Repeated, Entry
        <5> QED BY <2>0, <5>1
      <4>2. CASE Published(call, result)
        <5>1. host \notin DOMAIN exact BY <2>2, <4>2 DEF Published
        <5> QED BY <2>0, <5>1
      <4> QED BY <2>2, <4>1, <4>2
    <3> QED BY <1>0, <1>4, <1>5, <3>1, <3>3, <3>4, <3>5, <3>6
  \* The name is withdrawn.
  <2>3. CASE call.host = host /\ Withdrawn(call, result)
    <3>1. call.op = "RemoveVhost" /\ result.code = "OK" /\ host \notin DOMAIN exact'
      BY <1>0, <2>3 DEF Withdrawn
    <3>2. Granted(n, "RemoveVhost", host)' /\ ~Granted(n, "AddVhost", host)' BY <1>2, <2>3, <3>1
    <3>3. ASSUME NEW k \in DOMAIN history', Standing(k, host)' PROVE FALSE
      <4>1. n < k /\ k <= n /\ k \in Nat BY <1>0, <3>2, <3>3 DEF Standing
      <4> QED BY <1>0, <4>1
    <3> QED BY <3>1, <3>3
  <2> QED BY <1>3, <2>1, <2>2, <2>3 DEF TurnedAway
<1> QED BY <1>7, <1>8 DEF CallsExplainTable

\* What is published and stands is granted again.
LEMMA HandleRepeats ==
    ASSUME IInv, NEW i \in DOMAIN calls, CallRecorded(i)
    PROVE  GrantsAreValid' /\ RepeatsAreGranted'
<1> DEFINE call == calls[i]
           result == dispatch(call)
<1>n. PICK n \in Nat : n = Len(history) + 1 BY DEF CallRecorded
<1>0. /\ exact' = result.table /\ n \in Nat
      /\ DOMAIN history = 1..(n - 1) /\ DOMAIN history' = 1..n
  BY <1>n DEF CallRecorded
<1>1. \A op, host : \A k \in DOMAIN history : Granted(k, op, host)' <=> Granted(k, op, host)
  BY DEF CallRecorded, Granted
<1>2. \A k \in DOMAIN history : calls'[history'[k]] = calls[history[k]] BY DEF CallRecorded
<1>3. /\ calls'[history'[n]].op = call.op /\ calls'[history'[n]].host = call.host
      /\ calls'[history'[n]].port = call.port /\ calls'[history'[n]].code = result.code
  BY <1>n DEF CallRecorded
<1>4. TurnedAway(result) \/ Repeated(call, result) \/ Published(call, result) \/ Withdrawn(call, result)
  BY HandleOutcome
<1>5. call.host \in Hosts BY HandleOutcome
<1> HIDE DEF call, result
<1>6. call.op = "AddVhost" /\ result.code = "OK" => MayPublish(call.host) /\ call.host \notin DOMAIN ConfigExact
  <2>1. \A key \in DOMAIN ConfigExact : key \in DOMAIN exact /\ exact[key].prov = "config"
    BY DEF IInv, CallsExplainTable, Provenance
  <2> QED BY <1>4, <2>1 DEF TurnedAway, Repeated, Published, Withdrawn, Entry
<1>7. GrantsAreValid'
  <2> SUFFICES ASSUME NEW k \in DOMAIN history', calls'[history'[k]].op = "AddVhost", calls'[history'[k]].code = "OK"
               PROVE  LET host == calls'[history'[k]].host IN
                      AllowMutation /\ host \notin DOMAIN ConfigExact /\ ValidateVhostKey(host) /\ ~IsPattern(host)
    BY DEF GrantsAreValid
  <2>1. CASE k = n BY <1>3, <1>6, <2>1 DEF MayPublish
  <2>2. CASE k # n
    <3>1. k \in DOMAIN history BY <1>0, <2>2
    <3> QED BY <1>2, <3>1 DEF IInv, GrantsAreValid
  <2> QED BY <2>1, <2>2
<1>8. RepeatsAreGranted'
  <2> SUFFICES ASSUME NEW a \in DOMAIN history', NEW k \in DOMAIN history', NEW host, a < k,
                      calls'[history'[k]].op = "AddVhost", calls'[history'[k]].host = host,
                      calls'[history'[k]].port = calls'[history'[a]].port,
                      Granted(a, "AddVhost", host)',
                      ~\E j \in a..k : Granted(j, "RemoveVhost", host)'
               PROVE  calls'[history'[k]].code = "OK"
    BY DEF RepeatsAreGranted
  <2>0. a \in DOMAIN history BY <1>0
  <2>1. CASE k # n
    <3>1. k \in DOMAIN history /\ \A j \in a..k : j \in DOMAIN history BY <1>0, <2>0, <2>1
    <3> QED BY <1>1, <1>2, <2>0, <3>1 DEF IInv, RepeatsAreGranted
  <2>2. CASE k = n
    <3>0. host = call.host BY <1>3, <2>2
    <3>1. call.op = "AddVhost" /\ call.port = calls[history[a]].port /\ Granted(a, "AddVhost", host)
      BY <1>1, <1>2, <1>3, <2>0, <2>2
    <3>2. \A j \in DOMAIN history : Granted(j, "RemoveVhost", host) => j < a
      <4>1. ASSUME NEW j \in DOMAIN history, Granted(j, "RemoveVhost", host), ~(j < a) PROVE FALSE
        <5>1. j \in a..k BY <1>0, <2>0, <2>2, <4>1
        <5>2. Granted(j, "RemoveVhost", host)' BY <1>1, <4>1
        <5> QED BY <1>3, <2>2, <5>1, <5>2
      <4> QED BY <4>1
    <3>3. Standing(a, host) BY <3>1, <3>2 DEF Standing
    <3>4. MayPublish(host) /\ host \notin DOMAIN ConfigExact
      BY <2>0, <3>1 DEF IInv, GrantsAreValid, Granted, MayPublish
    <3>5. host \in DOMAIN exact /\ exact[host].raw = call.port
      BY <1>5, <2>0, <3>0, <3>1, <3>3, <3>4 DEF IInv, CallsExplainTable
    <3>6. exact[host] = Entry(call.port)
      <4>1. exact[host].prov = "runtime" BY <3>4, <3>5 DEF IInv, Provenance
      <4>2. exact[host] \in [raw : Ports \cup Addresses, prov : {"config", "runtime"}]
        BY <3>5, TypeHalves DEF IInv, TableType
      <4> QED BY <3>5, <4>1, <4>2 DEF Entry
    <3>7. result.code = "OK" BY <3>0, <3>1, <3>4, <3>5, <3>6, RepeatIsGranted DEF result
    <3> QED BY <1>3, <2>2, <3>7
  <2> QED BY <2>1, <2>2
<1> QED BY <1>7, <1>8

\* What a withdrawal says is true when it is said.
LEMMA HandleReports ==
    ASSUME IInv, NEW i \in DOMAIN calls, CallRecorded(i)
    PROVE  LastReport'
<1>1. /\ Len(history') = Len(history) + 1 /\ history'[Len(history) + 1] = i
      /\ calls'[i].op = calls[i].op /\ calls'[i].host = calls[i].host
      /\ calls'[i].code = dispatch(calls[i]).code /\ calls'[i].report = dispatch(calls[i]).report
      /\ exact' = dispatch(calls[i]).table
  BY DEF CallRecorded
<1>2. CASE Withdrawn(calls[i], dispatch(calls[i]))
  <2>1. calls[i].host \notin DOMAIN exact' BY <1>1, <1>2 DEF Withdrawn
  <2>2. calls'[i].report = resolve(exact', calls[i].host) BY <1>1, <1>2, <2>1, ReportIsLookup DEF Withdrawn
  <2> QED BY <1>1, <2>2 DEF LastReport, resolve
<1>3. CASE ~Withdrawn(calls[i], dispatch(calls[i]))
  <2>1. ~(calls[i].op = "RemoveVhost" /\ dispatch(calls[i]).code = "OK")
    BY <1>3, HandleOutcome DEF TurnedAway, Repeated, Published
  <2> QED BY <1>1, <2>1 DEF LastReport
<1> QED BY <1>2, <1>3

\* A name published at run time is accounted for from the step that publishes it.
LEMMA HandleAccounts ==
    ASSUME IInv, NEW i \in DOMAIN calls, Handle(i), CallRecorded(i)
    PROVE  AuditAccountsForTable'
<1>1. /\ DOMAIN calls' = DOMAIN calls /\ \A j \in DOMAIN calls \ {i} : calls'[j] = calls[j]
      /\ calls'[i].op = calls[i].op /\ calls'[i].host = calls[i].host /\ calls'[i].stage = "handled"
      /\ calls'[i].code = dispatch(calls[i]).code /\ exact' = dispatch(calls[i]).table
      /\ audit' = audit /\ calls[i].stage = "sent"
  BY DEF CallRecorded, Handle
<1>2. SUFFICES ASSUME NEW host \in Runtime'
               PROVE  \E j \in DOMAIN calls :
                        /\ calls'[j].op = "AddVhost" /\ calls'[j].host = host /\ calls'[j].code = "OK"
                        /\ calls'[j].stage = "handled" \/ j \in audit
  BY <1>1 DEF AuditAccountsForTable
<1>3. CASE host \in Runtime
  <2>1. PICK j \in DOMAIN calls :
          /\ calls[j].op = "AddVhost" /\ calls[j].host = host /\ calls[j].code = "OK"
          /\ calls[j].stage = "handled" \/ j \in audit
    BY <1>3 DEF IInv, AuditAccountsForTable
  <2>2. j # i BY <1>1, <2>1 DEF IInv, CarriedOut
  <2> QED BY <1>1, <2>1, <2>2
<1>4. CASE host \notin Runtime
  <2>1. host = calls[i].host /\ Published(calls[i], dispatch(calls[i]))
    <3> DEFINE call == calls[i]
               result == dispatch(call)
    <3>1. host \in DOMAIN exact' /\ exact'[host].prov = "runtime" BY <1>2 DEF Runtime
    <3>2. ~(host \in DOMAIN exact /\ exact[host].prov = "runtime") BY <1>4 DEF Runtime
    <3>3. exact' = result.table BY <1>1
    <3>4. TurnedAway(result) \/ Repeated(call, result) \/ Published(call, result) \/ Withdrawn(call, result)
      BY HandleOutcome
    <3> HIDE DEF call, result
    <3>5. ~TurnedAway(result) /\ ~Repeated(call, result) BY <3>1, <3>2, <3>3 DEF TurnedAway, Repeated
    <3>6. ~Withdrawn(call, result) BY <3>1, <3>2, <3>3 DEF Withdrawn
    <3>7. Published(call, result) /\ host = call.host
      BY <3>1, <3>2, <3>3, <3>4, <3>5, <3>6 DEF Published
    <3> QED BY <3>7 DEF call, result
  <2> QED BY <1>1, <2>1 DEF Published
<1> QED BY <1>3, <1>4

\* The agent carries a call out, in whatever order the calls get v.mu.
LEMMA HandleStep == ASSUME IInv, NEW i \in DOMAIN calls, Handle(i) PROVE IInv'
<1>0. CallRecorded(i) /\ CallsType /\ PortsGiven BY Recorded, TypeHalves DEF IInv
<1>1. Settled'
  BY <1>0, HandleTable, HandleExplains, HandleRepeats, HandleReports DEF Settled
<1>2. /\ DOMAIN calls' = DOMAIN calls /\ \A j \in DOMAIN calls \ {i} : calls'[j] = calls[j]
      /\ calls'[i].op = calls[i].op /\ calls'[i].port = calls[i].port /\ calls'[i].stage = "handled"
      /\ \A j \in DOMAIN calls : calls[j] \in Call
  BY <1>0 DEF CallRecorded, CallsType
<1>3. UNCHANGED <<awaiting, audit, restarts>> /\ history' = Append(history, i) /\ calls[i].stage = "sent"
  BY DEF Handle
<1>4. calls'[i] \in Call
  <2> DEFINE result == dispatch(calls[i])
  <2>1. calls' = [calls EXCEPT ![i].stage = "handled", ![i].code = result.code, ![i].report = result.report]
    BY DEF Handle
  <2>2. result.code \in Codes /\ result.report \in Ports \cup Addresses \cup {NoReply, NoRoute}
    <3>1. calls[i].host \in Seq(Labels \cup {Star}) BY HandleOutcome
    <3>2. shadowedByAddress(calls[i].host) \in Addresses \cup {NoRoute}
      <4>1. shadowedByAddress(calls[i].host) =
              IF Covered(calls[i].host) = {} THEN NoRoute
              ELSE wildcard[Rest(calls[i].host, firstCovering(calls[i].host))]
        BY DEF shadowedByAddress, Covered, firstCovering
      <4>2. CASE Covered(calls[i].host) = {} BY <4>1, <4>2
      <4>3. CASE Covered(calls[i].host) # {}
        <5>1. Rest(calls[i].host, firstCovering(calls[i].host)) \in DOMAIN wildcard
          BY <3>1, <4>3, FirstCovering, WalkMeetsPatterns
        <5> QED BY <4>1, <4>3, <5>1, WildcardKeys
      <4> QED BY <4>2, <4>3
    <3> QED BY <3>2, HandleOutcome DEF TurnedAway, Repeated, Published, Withdrawn, Codes
  <2> HIDE DEF result
  <2>3. calls'[i] = [calls[i] EXCEPT !.stage = "handled", !.code = result.code, !.report = result.report]
    BY <1>0, <2>1 DEF CallsType
  <2> QED BY <1>2, <2>2, <2>3 DEF Call, Addresses
<1>5. CallsType'
  <2>1. calls' \in Seq(Call) /\ Len(calls') = Len(calls)
    <3>1. Len(calls) \in Nat /\ DOMAIN calls = 1..Len(calls) BY <1>0 DEF CallsType
    <3>2. calls' \in [1..Len(calls) -> Call]
      <4>1. calls' = [j \in DOMAIN calls |-> calls'[j]] BY DEF Handle
      <4> QED BY <1>2, <1>4, <3>1, <4>1
    <3> QED BY <3>1, <3>2
  <2>2. history' \in Seq(DOMAIN calls') BY <1>0, <1>2, <1>3 DEF CallsType
  <2> QED BY <1>0, <1>2, <1>3, <2>1, <2>2 DEF CallsType
<1>6. PortsGiven' BY <1>0, <1>2 DEF PortsGiven
<1>7. CarriedOut'
  <2>1. \A k \in DOMAIN history' : calls'[history'[k]].stage \in {"handled", "answered"}
    <3>1. \A k \in DOMAIN history' : k \in DOMAIN history \/ k = Len(history) + 1 BY <1>0 DEF CallRecorded
    <3>2. \A k \in DOMAIN history : history'[k] = history[k] /\ calls'[history[k]] = calls[history[k]]
      BY <1>0 DEF CallRecorded
    <3>3. history'[Len(history) + 1] = i BY <1>0 DEF CallRecorded
    <3> QED BY <1>2, <3>1, <3>2, <3>3 DEF IInv, CarriedOut
  <2>2. \A j \in audit' : calls'[j].stage = "answered"
    BY <1>0, <1>2, <1>3 DEF IInv, CarriedOut, CallsType
  <2> QED BY <2>1, <2>2 DEF CarriedOut
<1>8. AuditAccountsForTable' BY <1>0, HandleAccounts
<1> QED BY <1>1, <1>5, <1>6, <1>7, <1>8, Assembled

-----------------------------------------------------------------------------
\* The invariant is inductive.
THEOREM Invariance == Spec => []IInv
<1>1. ASSUME IInv, [Next]_vars PROVE IInv'
  <2>1. CASE Next BY <1>1, <2>1, CallerStep, HandleStep, AnswerStep, RestartStep DEF Next
  <2>2. CASE UNCHANGED vars
    <3>1. Settled /\ CallsType BY <1>1, TypeHalves DEF IInv, Settled
    <3>2. UNCHANGED <<exact, calls, awaiting, audit, history, restarts>> BY <2>2 DEF vars
    <3>3. Settled' BY <3>1, <3>2, SettledKept DEF CallsType
    <3>4. CallsType' BY <3>1, <3>2 DEF CallsType
    <3>5. PortsGiven' /\ CarriedOut' /\ AuditAccountsForTable'
      BY <1>1, <3>2 DEF IInv, PortsGiven, CarriedOut, AuditAccountsForTable, Runtime
    <3> QED BY <3>3, <3>4, <3>5, Assembled
  <2> QED BY <1>1, <2>1, <2>2
<1> QED BY <1>1, InitIInv, PTL DEF Spec

\* The table, the calls and the log keep their types, and the table its limit.
THEOREM TypeCorrect == Spec => []TypeOK
BY Invariance, PTL DEF IInv

\* The table is exactly what the granted calls made it, in the order they held
\* v.mu, and the operator's entries stand (vhosts.add and vhosts.remove), for
\* any configuration and any number of overlapping, late and repeated calls.
THEOREM TableIsExplained == Spec => []CallsExplainTable
BY Invariance, PTL DEF IInv

\* A publish whose reply was lost may be asked for again, and the limit holds,
\* patterns included.
THEOREM RetriesAreSafe == Spec => []RetryIsSafe
<1>1. IInv => RetryIsSafe BY DEF IInv, TypeOK, RepeatsAreGranted, RetryIsSafe
<1> QED BY <1>1, Invariance, PTL

\* Every name published at run time is in the log, or about to be.
THEOREM LogIsComplete == Spec => []AuditAccountsForTable
BY Invariance, PTL DEF IInv

\* Precedence is by specificity for every configuration of patterns, and what a
\* withdrawal reports is what a request for the name meets.
THEOREM ReportsAreTrue == Spec => []WithdrawTellsTheTruth
<1>1. MostSpecificWins
  <2>1. \A host \in Hosts : host \in Seq(Labels \cup {Star}) BY HostsAssumption
  <2>2. \A host \in Hosts : host \in DOMAIN exact => resolve(exact, host) = exact[host].raw BY DEF resolve
  <2> QED BY <2>1, <2>2, LongestPatternWins DEF MostSpecificWins
<1>2. IInv => WithdrawTellsTheTruth BY <1>1 DEF IInv, LastReport, WithdrawTellsTheTruth
<1> QED BY <1>2, Invariance, PTL
=============================================================================
