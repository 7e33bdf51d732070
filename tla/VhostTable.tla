----------------------------- MODULE VhostTable -----------------------------
(***************************************************************************)
(* The names an agent publishes, and the daemons that publish and withdraw *)
(* them while it runs: vhosts of internal/router/vhost.go, reached through *)
(* Router.AddVhost and RemoveVhost, the control server's authorization     *)
(* check-point and handlers (internal/control), and on the client side     *)
(* ExposeJSON and WithdrawJSON over ControlCall (internal/daemon).         *)
(*                                                                         *)
(* A hostname is a sequence of labels. Every control call is a goroutine   *)
(* of the agent: what it does under v.mu is one step (Handle), the audit   *)
(* line and the reply are another (Answer), so calls overlap and may be    *)
(* carried out in another order than they were sent. A call has a short    *)
(* deadline and its connection may drop: the caller then knows nothing,    *)
(* and the agent may still carry the call out later, or never.             *)
(***************************************************************************)
EXTENDS Naturals, Sequences, FiniteSets

CONSTANTS
    Publishers,     \* daemons with a session to the agent
    Labels,         \* the labels that are valid in a hostname
    Hosts,          \* the names they ask about, acceptable or not
    Ports,          \* the ports they publish names at, all in 1-65535: ExposeJSON
                    \* sends no other, and the agent checks twice more
    Config,         \* the operator's entries: key |-> address
    MaxVhosts,      \* MaxVhosts
    AllowMutation,  \* AllowRemoteRouteMutation, the operator's decision
    MaxCalls,       \* bound on the calls made
    MaxRestarts     \* bound on the agent's restarts

Star == "*"

\* ValidateVhostKey. Length and case are properties of a label here.
ValidateVhostKey(key) ==
    /\ key \notin {<<>>, <<Star>>}
    /\ \A i \in DOMAIN key : IF key[i] = Star THEN i = 1 ELSE key[i] \in Labels

IsPattern(key) == key[1] = Star

\* newVhosts refuses to start with anything else.
ASSUME ConfigAssumption ==
    /\ \A key \in DOMAIN Config : key \in Seq(Labels \cup {Star}) /\ ValidateVhostKey(key)
    /\ IsFiniteSet(DOMAIN Config)
    /\ Cardinality(DOMAIN Config) <= MaxVhosts
ASSUME HostsAssumption == Hosts \subseteq Seq(Labels \cup {Star})
ASSUME LimitAssumption == MaxVhosts \in Nat
ASSUME LabelAssumption == Star \notin Labels
ASSUME PolicyAssumption == AllowMutation \in BOOLEAN
ASSUME BoundsAssumption == MaxCalls \in Nat /\ MaxRestarts \in Nat

VARIABLES
    exact,      \* v.exact: name |-> [raw, prov]
    calls,      \* every control call made, in the order sent
    awaiting,   \* the call each publisher waits for, 0 if none
    audit,      \* the calls this agent process has logged
    history,    \* history variable: its calls in the order they held v.mu
    restarts

vars == <<exact, calls, awaiting, audit, history, restarts>>

NoReply == "noReply"
NoRoute == "noRoute"

-----------------------------------------------------------------------------
(* The table *)

\* newVhosts: patterns are kept apart, under what follows the star.
ConfigExact == [key \in {k \in DOMAIN Config : ~IsPattern(k)} |->
                    [raw |-> Config[key], prov |-> "config"]]
wildcard == [rest \in {Tail(k) : k \in {k \in DOMAIN Config : IsPattern(k)}} |->
                    Config[<<Star>> \o rest]]

\* host without its first i labels
Rest(host, i) == SubSeq(host, i + 1, Len(host))

\* How many labels can be dropped from host to arrive at a pattern.
Covered(host) == {i \in 1..Len(host) - 1 : Rest(host, i) \in DOMAIN wildcard}

\* The walk of resolve: one label at a time, up to the first pattern met.
firstCovering(host) == CHOOSE i \in Covered(host) : \A j \in Covered(host) : i <= j

resolve(table, host) ==
    IF host \in DOMAIN table THEN table[host].raw
    ELSE IF Covered(host) # {} THEN wildcard[Rest(host, firstCovering(host))]
    ELSE NoRoute

Count(table) == Cardinality(DOMAIN table) + Cardinality(DOMAIN wildcard)

Result(code, table, report) == [code |-> code, table |-> table, report |-> report]
Refused(code) == Result(code, exact, NoReply)

\* A full table that refuses a repeated publish too.
add_LimitFirst(host, port) ==
    IF Count(exact) >= MaxVhosts THEN Refused("ResourceExhausted")
    ELSE IF host \in DOMAIN exact
    THEN IF exact[host] = [raw |-> port, prov |-> "runtime"]
         THEN Result("OK", exact, NoReply)
         ELSE Refused("AlreadyExists")
    ELSE Result("OK", [h \in DOMAIN exact \cup {host} |->
                          IF h = host THEN [raw |-> port, prov |-> "runtime"]
                          ELSE exact[h]], NoReply)

\* A publish that replaces what another caller published.
add_Replaces(host, port) ==
    IF host \in DOMAIN exact /\ exact[host].prov = "config" THEN Refused("AlreadyExists")
    ELSE IF host \notin DOMAIN exact /\ Count(exact) >= MaxVhosts
    THEN Refused("ResourceExhausted")
    ELSE Result("OK", [h \in DOMAIN exact \cup {host} |->
                          IF h = host THEN [raw |-> port, prov |-> "runtime"]
                          ELSE exact[h]], NoReply)

\* vhosts.add: nothing is displaced, a repeat is granted even by a full table.
add(host, port) ==
    IF host \in DOMAIN exact
    THEN IF exact[host] = [raw |-> port, prov |-> "runtime"]
         THEN Result("OK", exact, NoReply)
         ELSE Refused("AlreadyExists")
    ELSE IF Count(exact) >= MaxVhosts THEN Refused("ResourceExhausted")
    ELSE Result("OK", [h \in DOMAIN exact \cup {host} |->
                          IF h = host THEN [raw |-> port, prov |-> "runtime"]
                          ELSE exact[h]], NoReply)

\* Router.AddVhost: one name, never a pattern.
AddVhost(host, port) ==
    IF ~ValidateVhostKey(host) \/ IsPattern(host) THEN Refused("InvalidArgument")
    ELSE add(host, port)

\* The last two results of remove: where the name is answered from now on.
shadowedByAddress(host) ==
    LET covering == {i \in 1..Len(host) - 1 : Rest(host, i) \in DOMAIN wildcard}
        first == CHOOSE i \in covering : \A j \in covering : i <= j
    IN  IF covering = {} THEN NoRoute ELSE wildcard[Rest(host, first)]

\* A withdrawal that looks for a pattern while the entry is still there.
remove_ReportsItself(host) ==
    IF host \notin DOMAIN exact THEN Refused("NotFound")
    ELSE IF exact[host].prov # "runtime" THEN Refused("FailedPrecondition")
    ELSE Result("OK", [h \in DOMAIN exact \ {host} |-> exact[h]], resolve(exact, host))

\* vhosts.remove: only what was published at run time.
remove(host) ==
    IF host \notin DOMAIN exact THEN Refused("NotFound")
    ELSE IF exact[host].prov # "runtime" THEN Refused("FailedPrecondition")
    ELSE Result("OK", [h \in DOMAIN exact \ {host} |-> exact[h]], shadowedByAddress(host))

\* Router.RemoveVhost
RemoveVhost(host) ==
    IF ~ValidateVhostKey(host) THEN Refused("InvalidArgument") ELSE remove(host)

\* The check-point first (MutationPolicy), then the handler.
dispatch(call) ==
    IF ~AllowMutation THEN Refused("PermissionDenied")
    ELSE IF call.op = "AddVhost" THEN AddVhost(call.host, call.port)
    ELSE RemoveVhost(call.host)

-----------------------------------------------------------------------------
Codes == {"OK", "AlreadyExists", "ResourceExhausted", "InvalidArgument", "NotFound",
          "FailedPrecondition", "PermissionDenied"}

Init ==
    /\ exact = ConfigExact
    /\ calls = <<>> /\ audit = {} /\ history = <<>>
    /\ awaiting = [d \in Publishers |-> 0]
    /\ restarts = 0

\* ExposeJSON and WithdrawJSON, once the session is known to be up: the request
\* is on its way.
Send(d, op, host, port) ==
    /\ awaiting[d] = 0 /\ Len(calls) < MaxCalls
    /\ calls' = Append(calls, [op |-> op, host |-> host, port |-> port,
                               stage |-> "sent", code |-> NoReply, report |-> NoReply])
    /\ awaiting' = [awaiting EXCEPT ![d] = Len(calls) + 1]
    /\ UNCHANGED <<exact, audit, history, restarts>>

Expose(d) == \E host \in Hosts, port \in Ports : Send(d, "AddVhost", host, port)
Withdraw(d) == \E host \in Hosts : Send(d, "RemoveVhost", host, NoReply)

\* The agent carries a call out, under v.mu.
Handle(i) ==
    /\ calls[i].stage = "sent"
    /\ LET result == dispatch(calls[i]) IN
         /\ exact' = result.table
         /\ calls' = [calls EXCEPT ![i].stage = "handled", ![i].code = result.code,
                                   ![i].report = result.report]
    /\ history' = Append(history, i)
    /\ UNCHANGED <<awaiting, audit, restarts>>

\* An agent that only writes down what it refused.
Answer_AuditsRefusals(i) ==
    /\ calls[i].stage = "handled"
    /\ calls' = [calls EXCEPT ![i].stage = "answered"]
    /\ audit' = IF calls[i].code = "OK" THEN audit ELSE audit \cup {i}
    /\ UNCHANGED <<exact, awaiting, history, restarts>>

\* auditMutation, then the reply is sent.
Answer(i) ==
    /\ calls[i].stage = "handled"
    /\ calls' = [calls EXCEPT ![i].stage = "answered"]
    /\ audit' = audit \cup {i}
    /\ UNCHANGED <<exact, awaiting, history, restarts>>

\* The caller sees the reply.
Deliver(d) ==
    /\ awaiting[d] # 0 /\ calls[awaiting[d]].stage = "answered"
    /\ awaiting' = [awaiting EXCEPT ![d] = 0]
    /\ UNCHANGED <<exact, calls, audit, history, restarts>>

\* The deadline of ControlCall passes, or the session drops: "try again".
GiveUp(d) ==
    /\ awaiting[d] # 0
    /\ awaiting' = [awaiting EXCEPT ![d] = 0]
    /\ UNCHANGED <<exact, calls, audit, history, restarts>>

\* The agent restarts: the table is rebuilt from the configuration, and calls
\* under way are never answered.
Restart ==
    /\ restarts < MaxRestarts /\ restarts' = restarts + 1
    /\ exact' = ConfigExact /\ audit' = {} /\ history' = <<>>
    /\ calls' = [i \in DOMAIN calls |-> [calls[i] EXCEPT !.stage = "lost"]]
    /\ UNCHANGED awaiting

Next == \/ \E d \in Publishers : Expose(d) \/ Withdraw(d) \/ Deliver(d) \/ GiveUp(d)
        \/ \E i \in DOMAIN calls : Handle(i) \/ Answer(i)
        \/ Restart

Spec == Init /\ [][Next]_vars

-----------------------------------------------------------------------------
Runtime == {h \in DOMAIN exact : exact[h].prov = "runtime"}

Call == [op : {"AddVhost", "RemoveVhost"}, host : Hosts,
         port : Ports \cup {NoReply},
         stage : {"sent", "handled", "answered", "lost"},
         code : Codes \cup {NoReply},
         report : Ports \cup {Config[k] : k \in DOMAIN Config} \cup {NoReply, NoRoute}]

\* The table stays within its limit, which patterns count against.
TypeOK ==
    /\ Count(exact) <= MaxVhosts
    /\ DOMAIN exact \subseteq DOMAIN Config \cup Hosts
    /\ \A h \in DOMAIN exact : ValidateVhostKey(h) /\ ~IsPattern(h)
    /\ \A h \in DOMAIN exact : exact[h] \in [raw : Ports \cup {Config[k] : k \in DOMAIN Config},
                                             prov : {"config", "runtime"}]
    /\ calls \in Seq(Call) /\ Len(calls) <= MaxCalls
    /\ awaiting \in [Publishers -> 0..Len(calls)]
    /\ audit \subseteq DOMAIN calls
    /\ history \in Seq(DOMAIN calls)
    /\ restarts \in 0..MaxRestarts

\* The k-th call carried out granted op on host.
Granted(k, op, host) == /\ calls[history[k]].op = op /\ calls[history[k]].host = host
                        /\ calls[history[k]].code = "OK"

\* ... and what it published has not been withdrawn since.
Standing(k, host) ==
    /\ Granted(k, "AddVhost", host)
    /\ \A j \in DOMAIN history : Granted(j, "RemoveVhost", host) => j < k

\* The table is what the granted calls made it, in the order they were carried
\* out, and nothing else: a name published at run time is there if and only if a
\* publish was granted and the name not withdrawn since, and it points where that
\* publish said, so that no later call took the name over. What the operator
\* configured stands, whatever is called, repeated, late or overlapping.
CallsExplainTable ==
    /\ \A host \in Hosts \ DOMAIN ConfigExact :
        /\ host \in DOMAIN exact <=> \E k \in DOMAIN history : Standing(k, host)
        /\ \A k \in DOMAIN history :
               Standing(k, host) => exact[host].raw = calls[history[k]].port
    /\ \A key \in DOMAIN ConfigExact : key \in DOMAIN exact /\ exact[key] = ConfigExact[key]

\* Retrying is safe: a publish that was granted, and whose caller asks again
\* because the reply was lost, is granted again, even by a full table, unless
\* the name was withdrawn (or the agent restarted) in between; and no sequence
\* of calls takes the table past its limit, which patterns count against.
RetryIsSafe ==
    /\ Count(exact) <= MaxVhosts
    /\ \A i, k \in DOMAIN history :
          LET again == calls[history[k]] IN
          /\ i < k
          /\ again.op = "AddVhost" /\ again.port = calls[history[i]].port
          /\ Granted(i, "AddVhost", again.host)
          /\ ~\E j \in i..k : Granted(j, "RemoveVhost", again.host)
          => again.code = "OK"

\* Every name published at run time is accounted for: the agent's log holds the
\* granted publish, or the call that made it is about to write it.
AuditAccountsForTable ==
    \A host \in Runtime :
        \E i \in DOMAIN calls :
            /\ calls[i].op = "AddVhost" /\ calls[i].host = host /\ calls[i].code = "OK"
            /\ calls[i].stage = "handled" \/ i \in audit

\* pattern, without its star, covers host.
Covers(pattern, host) ==
    /\ Len(pattern) < Len(host)
    /\ \A i \in DOMAIN pattern : pattern[i] = host[Len(host) - Len(pattern) + i]

\* An exact name is tried before any pattern, and among the patterns that cover
\* a name the longest wins.
MostSpecificWins ==
    \A host \in Hosts :
        LET covering == {p \in DOMAIN wildcard : Covers(p, host)} IN
        /\ host \in DOMAIN exact => resolve(exact, host) = exact[host].raw
        /\ host \notin DOMAIN exact =>
               \/ covering = {} /\ resolve(exact, host) = NoRoute
               \/ \E p \in covering : /\ \A q \in covering : Len(q) <= Len(p)
                                      /\ resolve(exact, host) = wildcard[p]

\* Operators are told what happens to requests: precedence is as they read it,
\* the most specific entry wins, and what a withdrawal reports is what a request
\* for that name meets once the entry is gone, a pattern's service included.
WithdrawTellsTheTruth ==
    /\ MostSpecificWins
    /\ history # <<>> =>
          LET last == calls[history[Len(history)]]
          IN  last.op = "RemoveVhost" /\ last.code = "OK" =>
                  last.report = resolve(exact, last.host)
=============================================================================
