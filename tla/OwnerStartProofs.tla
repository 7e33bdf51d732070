-------------------------- MODULE OwnerStartProofs --------------------------
(***************************************************************************)
(* Proofs about OwnerStart, for any number of processes, any files, flags  *)
(* and environment, and any servers. None of the properties is inductive;  *)
(* the invariant adds to them                                              *)
(*   SocketInv  what a process has learnt of the control socket since it   *)
(*              probed it: who lies at the path, and who bound it since;   *)
(*   ConfInv    that a process that has passed Validate still holds the    *)
(*              configuration it validated;                                *)
(*   WorkLeft   which servers or sockets the loop under way has left, and  *)
(*              that those have no ports yet;                              *)
(*   PortsInv   that the held ports are the pairs given out so far, two    *)
(*              for each server, and that no two processes share one;      *)
(*   NamingInv  that the naming sockets held are those the loop is past.   *)
(***************************************************************************)
EXTENDS OwnerStart, FiniteSetTheorems, WellFoundedInduction, TLAPS

(* A configuration as loadFile decodes it.                                 *)
IsConfig(cfg) ==
  /\ DOMAIN cfg = DOMAIN Defaults
  /\ IsServers(cfg.servers)
  /\ cfg.dns \in Nat /\ cfg.http \in Nat /\ cfg.https \in Nat

(* The steps of a process: before it binds anything, in one of its loops,  *)
(* from the bind of its control socket on, and at its end.                 *)
Before == {"dead", "probe", "reclaim", "checks"}
Looping == {"edges", "naming", "pool"}
Up == {"listen", "chmod", "unusable", "serving", "closing", "draining"}
Ending == {"remove", "returned"}

(* The servers, those a process has been given ports for, and the naming   *)
(* sockets its configuration asks for.                                     *)
Names == ToSet(ServerOrder)
NothingGiven == [s \in Names |-> NoPorts]
GivenTo(p) == {s \in Names : ports[p][s] # NoPorts}
AllSockets(p) == {Socket(p, n) : n \in Sockets}

(* Where a process can be.                                                 *)
PcInv == pc \in [Procs -> Before \cup Looping \cup Up \cup Ending]

(* The socket: a file lies at the path of the process that bound it, only  *)
(* that process's listener answers there, and whoever has probed the path  *)
(* since knows of everybody who has bound it after that.                   *)
FilesAreOwn == \A d \in Dirs : file[d] # None => Path(file[d]) = d
ListenersRun == \A p \in listening : pc[p] \in {"chmod", "unusable", "serving", "closing"}
OwnersAreKnown ==
  \A p, q \in Procs :
    p # q /\ Path(p) = Path(q) /\ Reachable(q) /\ pc[p] \notin {"dead", "probe", "returned"} => q \in joined[p]
PathWasCleared ==
  \A p \in Procs : pc[p] \in {"checks", "listen"} \cup Looping /\ file[Path(p)] # None => joined[p] # {}
ProbesAfresh == \A p \in Procs : pc[p] = "probe" => code[p] = None
SocketInv == FilesAreOwn /\ ListenersRun /\ OwnersAreKnown /\ PathWasCleared /\ ProbesAfresh

(* The settings, which are valid once a process is past its checks.        *)
ConfInv ==
  /\ DOMAIN conf = Procs /\ \A p \in Procs : IsConfig(conf[p])
  /\ \A p \in Procs : pc[p] \notin Before \cup {"returned"} => Validate(conf[p])

(* The ports a process holds are those it has given out, two for a server. *)
PairsHeld(p) ==
  /\ edges[p] = UNION {{ports[p][s][1], ports[p][s][2]} : s \in GivenTo(p)}
  /\ IsFiniteSet(edges[p]) /\ Cardinality(edges[p]) = 2 * Cardinality(GivenTo(p))
(* A loop visits servers of the configuration, or the naming sockets.      *)
WorkLeft ==
  \A p \in Procs :
    /\ todo[p] \subseteq IF pc[p] = "naming" THEN Sockets ELSE IF pc[p] \in Looping THEN Managed(p) ELSE {}
    /\ pc[p] = "edges" => \A s \in todo[p] : ports[p][s] = NoPorts
(* No ports before the loop, pairs from then on, and never a shared port.  *)
PortsInv ==
  /\ \A p \in Procs : pc[p] \in Before => edges[p] = {} /\ ports[p] = NothingGiven
  /\ \A p \in Procs : pc[p] \in Looping \cup Up => PairsHeld(p)
  /\ \A p, q \in Procs : p # q => edges[p] \cap edges[q] = {}
(* Before the loop over the naming sockets there are none, in it there are *)
(* those it is past, and after it all or, if one was taken, none.          *)
NamesHeld(p) ==
  /\ pc[p] \in Before \cup {"edges"} => naming[p] = {}
  /\ pc[p] = "naming" => naming[p] = {Socket(p, n) : n \in Sockets \ todo[p]}
  /\ pc[p] \in {"pool"} \cup Up => naming[p] \in {{}, AllSockets(p)}
NamingInv == \A p \in Procs : NamesHeld(p)

IInv ==
  /\ TypeOK /\ PcInv /\ SocketInv /\ ConfInv /\ WorkLeft /\ PortsInv /\ NamingInv
  /\ StaleSocketIsReclaimed

-----------------------------------------------------------------------------
(* What the settings are. *)

\* Defaults() is a configuration, ...
LEMMA DefaultsAreConfig == IsConfig(Defaults)
BY DEF IsConfig, Defaults, IsServers, NoServers

\* ... and so is a configuration with a file's or the environment's keys over it.
LEMMA OverlayIsConfig ==
  ASSUME NEW cfg, NEW table, IsConfig(cfg), IsTable(table)
  PROVE  IsConfig(Overlay(cfg, table))
<1>1. \A k \in DOMAIN Defaults : k \in DOMAIN cfg BY DEF IsConfig
<1>2. {"servers", "dns", "http", "https"} \subseteq DOMAIN Defaults BY DEF Defaults
<1>3. DOMAIN Overlay(cfg, table) = DOMAIN Defaults BY DEF IsConfig, Overlay
<1>4. \A k \in DOMAIN Defaults :
        Overlay(cfg, table)[k] = IF k \in DOMAIN table THEN table[k] ELSE cfg[k]
  BY <1>1 DEF Overlay
<1>5. IsServers(Overlay(cfg, table).servers)
  <2>1. CASE "servers" \in DOMAIN table BY <2>1, <1>2, <1>4 DEF IsTable
  <2>2. CASE "servers" \notin DOMAIN table BY <2>2, <1>2, <1>4 DEF IsConfig
  <2> QED BY <2>1, <2>2
<1>6. \A k \in {"dns", "http", "https"} : Overlay(cfg, table)[k] \in Nat
  BY <1>2, <1>4 DEF IsTable, IsConfig
<1> QED BY <1>3, <1>5, <1>6 DEF IsConfig

(* What a step of loading returns: a configuration, or an error.           *)
Outcome(r) == \/ \E cfg : r = Ok(cfg) /\ IsConfig(cfg)
              \/ r = Invalid

\* The file, the environment and the schema check, in the order of persistentPreRun.
LEMMA LoadedIsConfig ==
  ASSUME NEW c \in DOMAIN Commands
  PROVE  Outcome(persistentPreRun(Commands[c], Files))
<1> DEFINE cmd == Commands[c]
           f == Files[FileInUse(cmd)]
<1>1. FileInUse(cmd) \in DOMAIN Files /\ IsTable(cmd.env.table) BY CommandsAssumption
<1>2. f.is \in {"absent", "settings"} \cup Refused /\ (f.is = "settings" => IsTable(f.table))
  BY <1>1, CommandsAssumption
<1>3. Outcome(loadFile(cmd, Files))
  <2>1. CASE f.is = "absent"
    <3>1. loadFile(cmd, Files) = IF cmd.path = Unset THEN Ok(Defaults) ELSE Invalid
      BY <2>1 DEF loadFile, Refused
    <3> QED BY <3>1, DefaultsAreConfig DEF Outcome
  <2>2. CASE f.is \in Refused
    <3>1. loadFile(cmd, Files) = Invalid BY <2>2 DEF loadFile, Refused
    <3> QED BY <3>1 DEF Outcome
  <2>3. CASE f.is = "settings"
    <3>1. loadFile(cmd, Files) = Ok(Overlay(Defaults, f.table)) BY <2>3 DEF loadFile, Refused
    <3> QED BY <3>1, <1>2, <2>3, DefaultsAreConfig, OverlayIsConfig DEF Outcome
  <2> QED BY <1>2, <2>1, <2>2, <2>3
<1>4. ASSUME NEW cfg, IsConfig(cfg) PROVE Outcome(mergeEnv(cfg, cmd.env))
  <2> DEFINE set == Restrict(cmd.env.table, DOMAIN cmd.env.table \cap EnvKeys)
  <2>1. IsTable(set)
    <3>1. DOMAIN set = DOMAIN cmd.env.table \cap EnvKeys
          /\ \A k \in DOMAIN set : set[k] = cmd.env.table[k] BY DEF Restrict
    <3>2. "servers" \notin EnvKeys BY DEF EnvKeys
    <3> HIDE DEF set
    <3> QED BY <3>1, <3>2, <1>1 DEF IsTable
  <2>2. mergeEnv(cfg, cmd.env) \in {Invalid, Ok(Overlay(cfg, set))} BY DEF mergeEnv
  <2> QED BY <1>4, <2>1, <2>2, OverlayIsConfig DEF Outcome
<1>5. Outcome(Load(cmd, Files))
  <2> DEFINE cfg == IF loadFile(cmd, Files).ok THEN mergeEnv(loadFile(cmd, Files).value, cmd.env)
                    ELSE loadFile(cmd, Files)
  <2>1. Outcome(cfg)
    <3>1. CASE loadFile(cmd, Files) = Invalid BY <3>1 DEF Outcome, Invalid
    <3>2. ASSUME NEW v, loadFile(cmd, Files) = Ok(v), IsConfig(v) PROVE Outcome(cfg)
      <4>1. cfg = mergeEnv(v, cmd.env) BY <3>2 DEF Ok
      <4> QED BY <4>1, <3>2, <1>4
    <3> QED BY <1>3, <3>1, <3>2 DEF Outcome
  <2>2. Load(cmd, Files) = IF ~cfg.ok \/ cfg.value.schema \notin {0, 1} THEN Invalid
                           ELSE Ok([cfg.value EXCEPT !.schema = 1])
    BY DEF Load
  <2> HIDE DEF cfg
  <2>3. CASE cfg = Invalid BY <2>2, <2>3 DEF Outcome, Invalid
  <2>4. ASSUME NEW v, cfg = Ok(v), IsConfig(v) PROVE Outcome(Load(cmd, Files))
    <3>1. IsConfig([v EXCEPT !.schema = 1]) BY <2>4 DEF IsConfig, Defaults
    <3> QED BY <2>2, <2>4, <3>1 DEF Outcome, Ok
  <2> QED BY <2>1, <2>3, <2>4 DEF Outcome
<1>6. persistentPreRun(cmd, Files) \in {Load(cmd, Files), Invalid} BY DEF persistentPreRun
<1> QED BY <1>5, <1>6 DEF Outcome

\* The --server and --pin flags, which replace the servers of the file.
LEMMA FlaggedIsConfig ==
  ASSUME NEW c \in DOMAIN Commands, NEW cfg, IsConfig(cfg)
  PROVE  Outcome(applyServerFlags(cfg, Commands[c].adds, Commands[c].pins))
<1> DEFINE adds == Commands[c].adds
           pins == Commands[c].pins
           servers == [n \in Given(adds) |->
                         [enabled |-> TRUE, addr |-> ValueOf(adds, n), listen |-> NoAddr,
                          pin |-> ValueOf(pins, n), ports |-> AutoPorts]]
<1>1. CASE adds = << >> /\ pins = << >>
  BY <1>1 DEF applyServerFlags, Outcome
<1>2. CASE ~(adds = << >> /\ pins = << >>) /\ Given(adds) # Given(pins)
  BY <1>2 DEF applyServerFlags, Outcome
<1>3. ASSUME ~(adds = << >> /\ pins = << >>), Given(adds) = Given(pins)
      PROVE  Outcome(applyServerFlags(cfg, adds, pins))
  <2>1. \A n \in Given(pins) : IsPin(ValueOf(pins, n))
    <3> SUFFICES ASSUME NEW n \in Given(pins) PROVE IsPin(ValueOf(pins, n)) OBVIOUS
    <3>1. \E i \in DOMAIN pins : pins[i].name = n BY DEF Given
    <3>2. PICK i \in DOMAIN pins : ValueOf(pins, n) = pins[i].value BY <3>1 DEF ValueOf
    <3> QED BY <3>2, CommandsAssumption
  <2>2. IsServers(servers)
    <3>1. Given(adds) \subseteq ToSet(ServerOrder) BY CommandsAssumption
    <3>2. AutoPorts \in [ssh : Nat, docker : Nat] BY DEF AutoPorts
    <3> QED BY <1>3, <2>1, <3>1, <3>2 DEF IsServers
  <2>3. applyServerFlags(cfg, adds, pins) \in {Invalid, Ok([cfg EXCEPT !.servers = servers])}
    BY <1>3 DEF applyServerFlags
  <2> HIDE DEF servers
  <2>4. IsConfig([cfg EXCEPT !.servers = servers]) BY <2>2 DEF IsConfig, Defaults
  <2> QED BY <2>3, <2>4 DEF Outcome
<1> QED BY <1>1, <1>2, <1>3

\* What a command is told is a configuration, or it is an error that ends it.
LEMMA ConfiguredIsConfig ==
  ASSUME NEW c \in DOMAIN Commands
  PROVE  IF Configured[c].ok THEN IsConfig(Configured[c].value)
         ELSE Configured[c].value \in {"usage", "disabled"}
<1> DEFINE cmd == Commands[c]
           loaded == persistentPreRun(cmd, Files)
           flagged == IF loaded.ok THEN applyServerFlags(loaded.value, cmd.adds, cmd.pins) ELSE loaded
           scoped == IF flagged.ok THEN Scoped(flagged.value, cmd.scope) ELSE flagged
<1>1. Configured[c] = DaemonSettings(cmd, Files) BY DEF Configured
<1>2. DaemonSettings(cmd, Files) \in {Invalid, scoped} BY DEF DaemonSettings
<1>3. Outcome(flagged)
  <2>1. CASE loaded = Invalid BY <2>1 DEF Outcome, Invalid
  <2>2. ASSUME NEW v, loaded = Ok(v), IsConfig(v) PROVE Outcome(flagged)
    <3>1. flagged = applyServerFlags(v, cmd.adds, cmd.pins) BY <2>2 DEF Ok
    <3> QED BY <3>1, <2>2, FlaggedIsConfig
  <2> QED BY LoadedIsConfig, <2>1, <2>2 DEF Outcome
<1> HIDE DEF flagged
<1>4. Outcome(scoped) \/ scoped = [ok |-> FALSE, value |-> "disabled"]
  <2>1. CASE flagged = Invalid BY <2>1 DEF Outcome, Invalid
  <2>2. ASSUME NEW v, flagged = Ok(v), IsConfig(v), Scoped(v, cmd.scope) # [ok |-> FALSE, value |-> "disabled"]
        PROVE  Outcome(scoped)
    <3>1. scoped = Scoped(v, cmd.scope) BY <2>2 DEF Ok
    <3>2. CASE cmd.scope = All BY <2>2, <3>1, <3>2 DEF Scoped, Outcome
    <3>3. CASE cmd.scope # All /\ cmd.scope \notin DOMAIN v.servers BY <3>1, <3>3 DEF Scoped, Outcome
    <3>4. CASE cmd.scope # All /\ cmd.scope \in DOMAIN v.servers
      <4> DEFINE w == [v EXCEPT !.servers = Restrict(@, {cmd.scope})]
      <4>1. scoped = Ok(w) BY <2>2, <3>1, <3>4 DEF Scoped
      <4>2. /\ DOMAIN w = DOMAIN Defaults /\ w.servers = Restrict(v.servers, {cmd.scope})
            /\ w.dns = v.dns /\ w.http = v.http /\ w.https = v.https
        BY <2>2 DEF IsConfig, Defaults
      <4>3. IsServers(Restrict(v.servers, {cmd.scope})) BY <2>2, <3>4 DEF IsConfig, IsServers, Restrict
      <4> HIDE DEF w
      <4>4. IsConfig(w) BY <2>2, <4>2, <4>3 DEF IsConfig
      <4> QED BY <4>1, <4>4 DEF Outcome
    <3> QED BY <3>2, <3>3, <3>4
  <2>3. ASSUME NEW v, flagged = Ok(v) PROVE scoped = Scoped(v, cmd.scope) BY <2>3 DEF Ok
  <2> QED BY <1>3, <2>1, <2>2, <2>3 DEF Outcome
<1> HIDE DEF scoped
<1> QED BY <1>1, <1>2, <1>4 DEF Outcome, Ok, Invalid

\* What has passed the checks can be served.
LEMMA ValidIsServable ==
  ASSUME NEW cfg, IsConfig(cfg), Validate(cfg)
  PROVE  /\ NewZone(cfg.servers)
         /\ \A m, n \in EnabledIn(cfg.servers) :
              m # n /\ Waiting(cfg.servers[m]) /\ Waiting(cfg.servers[n])
                => cfg.servers[m].pin.key # cfg.servers[n].pin.key
<1> DEFINE servers == cfg.servers
<1>1. \A n \in EnabledIn(servers) :
        n \in ToSet(ServerOrder) /\ n \in ValidLabels /\ ParsePinStrict(servers[n].pin).ok /\ IsPin(servers[n].pin)
  BY DEF Validate, validateServers, validateServer, ValidateServerName, ValidateServerSettings, EnabledIn, IsConfig, IsServers
<1>2. NewZone(servers) BY <1>1, NamesAssumption DEF NewZone
<1>3. ASSUME NEW n \in EnabledIn(servers) PROVE servers[n].pin = [key |-> servers[n].pin.key, canonical |-> TRUE]
  <2> DEFINE pin == servers[n].pin
  <2>1. pin.key # NoKey /\ pin = [pin EXCEPT !.canonical = TRUE]
    BY <1>1, <1>3 DEF ParsePinStrict, ParsePin, Ok, Invalid
  <2>2. IsPin(pin) BY <1>1, <1>3
  <2> HIDE DEF pin
  <2>3. pin = [key |-> pin.key, canonical |-> TRUE] BY <2>1, <2>2 DEF IsPin
  <2> QED BY <2>3 DEF pin
<1>4. validateDistinctListenPins(servers) BY DEF Validate, validateServers
<1> HIDE DEF servers
<1>5. \A m, n \in EnabledIn(servers) :
        m # n /\ Waiting(servers[m]) /\ Waiting(servers[n]) => servers[m].pin.key # servers[n].pin.key
  BY <1>3, <1>4 DEF validateDistinctListenPins
<1> QED BY <1>2, <1>5 DEF servers

-----------------------------------------------------------------------------
(* The sockets and ports that the settings ask for. *)

\* A set of numbers that is not empty has a least one: what is minimal in a
\* relation that contains the order is least ...
LEMMA MinimalIsLeast ==
  ASSUME NEW R, \A m, n \in Nat : m < n => <<m, n>> \in R,
         NEW S \in SUBSET Nat, \E n \in S : \A m \in S : ~(<<m, n>> \in R)
  PROVE  \E n \in S : \A m \in S : n <= m
<1>1. PICK n \in S : \A m \in S : ~(<<m, n>> \in R) OBVIOUS
<1>2. \A m \in S : ~(m < n)
  <2>1. \A m \in S : m \in Nat OBVIOUS
  <2> QED BY <1>1, <2>1, Zenon
<1>3. n \in Nat /\ \A m \in S : m \in Nat OBVIOUS
<1> QED BY <1>2, <1>3

\* ... and the order is well-founded.
LEMMA LeastExists ==
  ASSUME NEW S \in SUBSET Nat, S # {}
  PROVE  \E n \in S : \A m \in S : n <= m
<1>1. \A m, n \in Nat : m < n => <<m, n>> \in OpToRel(<, Nat) BY DEF OpToRel
<1>2. \E n \in S : \A m \in S : ~(<<m, n>> \in OpToRel(<, Nat)) BY NatLessThanWellFounded, WFMin
<1> QED BY <1>1, <1>2, MinimalIsLeast

\* A loop that is not over visits something that is left.
LEMMA FirstIsLeft ==
  ASSUME NEW order, NEW n \in Nat, DOMAIN order = 1..n, NEW S \in SUBSET ToSet(order), S # {}
  PROVE  First(order, S) \in S
<1> DEFINE I == {i \in DOMAIN order : order[i] \in S}
<1>1. I # {} BY DEF ToSet
<1>2. I \in SUBSET Nat OBVIOUS
<1>3. PICK i \in I : \A j \in I : i <= j BY <1>1, <1>2, LeastExists
<1>4. i \in DOMAIN order /\ order[i] \in S /\ \A j \in 1..(i - 1) : order[j] \notin S
  BY <1>3
<1> HIDE DEF I
<1> QED BY <1>4 DEF First

\* acquireNamingListeners binds four sockets.
LEMMA SocketsFacts ==
  DOMAIN NamingSockets = 1..4 /\ Sockets = {"dns/udp", "dns/tcp", "http", "https"}
<1>1. DOMAIN NamingSockets = 1..4 BY DEF NamingSockets
<1>2. /\ NamingSockets[1] = "dns/udp" /\ NamingSockets[2] = "dns/tcp"
      /\ NamingSockets[3] = "http" /\ NamingSockets[4] = "https" BY DEF NamingSockets
<1> HIDE DEF NamingSockets
<1>3. DOMAIN NamingSockets = {1, 2, 3, 4} BY <1>1
<1> QED BY <1>1, <1>2, <1>3 DEF Sockets, ToSet

\* The naming sockets of a valid configuration.
LEMMA SocketIsPort ==
  ASSUME NEW p \in Procs, IsConfig(conf[p]), Validate(conf[p]), NEW n \in Sockets
  PROVE  Socket(p, n) \in {"udp", "tcp"} \X Nat
<1> DEFINE cfg == conf[p]
<1>1. \A v, d \in Nat : resolveNamingPort(v, d).ok => resolveNamingPort(v, d).value \in Nat
  BY DEF resolveNamingPort, Ok, Invalid
<1>2. Naming(cfg).ok BY DEF Validate
<1>3. /\ resolveNamingPort(cfg.dns, 15353).ok /\ resolveNamingPort(cfg.http, 18080).ok
      /\ resolveNamingPort(cfg.https, 18443).ok
      /\ Naming(cfg).value.dns = resolveNamingPort(cfg.dns, 15353).value
      /\ Naming(cfg).value.http = resolveNamingPort(cfg.http, 18080).value
      /\ Naming(cfg).value.https = resolveNamingPort(cfg.https, 18443).value
  BY <1>2 DEF Naming, Ok, Invalid
<1>4. /\ Naming(cfg).value.dns \in Nat /\ Naming(cfg).value.http \in Nat /\ Naming(cfg).value.https \in Nat
  BY <1>1, <1>3 DEF IsConfig
<1> QED BY <1>4, SocketsFacts DEF Socket

\* The ports that a server may be given.
LEMMA PairIsPorts ==
  ASSUME NEW p \in Procs, IsConfig(conf[p]), NEW s \in Managed(p), NEW i \in Nat
  PROVE  s \in Names /\ Pair(p, s, i) \in [1..2 -> Nat]
<1>1. s \in Names /\ Server(p, s).ports \in [ssh : Nat, docker : Nat]
  BY DEF Managed, Server, IsConfig, IsServers, Names
<1>2. LocalPortBase[s] \in Nat BY <1>1, NamesAssumption DEF Names
<1>3. \A k \in 1..2 : LocalPorts(s, Server(p, s).ports)[k] \in Nat BY <1>1, <1>2 DEF LocalPorts
<1> QED BY <1>1, <1>3 DEF Pair, BlockStep

\* A block that is found free is free.
LEMMA FirstBlockIsFree ==
  ASSUME NEW p \in Procs, NEW s, NEW busy, FreeBlocks(p, s, busy) # {}
  PROVE  LET i == FirstBlock(FreeBlocks(p, s, busy)) IN
         /\ i \in Nat /\ Pair(p, s, i)[1] # Pair(p, s, i)[2]
         /\ {Pair(p, s, i)[1], Pair(p, s, i)[2]} \cap TakenPorts = {}
<1> DEFINE B == FreeBlocks(p, s, busy)
<1>1. B \in SUBSET Nat BY OwnerAssumption DEF FreeBlocks
<1>2. \A i \in B : /\ Pair(p, s, i)[1] # Pair(p, s, i)[2]
                    /\ {Pair(p, s, i)[1], Pair(p, s, i)[2]} \cap TakenPorts = {}
  BY DEF FreeBlocks
<1> HIDE DEF B
<1>3. \E i \in B : \A j \in B : i <= j BY <1>1, LeastExists DEF B
<1>4. FirstBlock(B) \in B BY <1>3 DEF FirstBlock
<1> QED BY <1>1, <1>2, <1>4 DEF B

-----------------------------------------------------------------------------
(* The initial state. *)

\* No process has been started.
LEMMA InitIInv == Init => IInv
<1> SUFFICES ASSUME Init PROVE IInv OBVIOUS
<1> USE DEF Init
<1>1. TypeOK
  <2>1. NoPorts \in [1..2 -> Nat] BY DEF NoPorts
  <2>2. starts \in 0..MaxStarts BY OwnerAssumption
  <2> QED BY <2>1, <2>2 DEF TypeOK
<1>2. PcInv BY DEF PcInv, Before
<1>3. SocketInv /\ StaleSocketIsReclaimed
  BY OwnerAssumption DEF SocketInv, FilesAreOwn, ListenersRun, OwnersAreKnown, PathWasCleared, ProbesAfresh,
     StaleSocketIsReclaimed, Errors, Looping, Reachable
<1>4. ConfInv BY DefaultsAreConfig DEF ConfInv, Before
<1>5. WorkLeft BY DEF WorkLeft
<1>6. PortsInv BY DEF PortsInv, NothingGiven, Names, Looping, Up
<1>7. NamingInv BY DEF NamingInv, NamesHeld, Up
<1> QED BY <1>1, <1>2, <1>3, <1>4, <1>5, <1>6, <1>7 DEF IInv

-----------------------------------------------------------------------------
(* The socket. *)

\* Every process has its control socket in one of the directories.
LEMMA PathIsDir == \A p \in Procs : Path(p) \in Dirs
BY DEF Path, socketPath, Dirs

(* The part of TypeOK that is about the socket.                            *)
SocketType ==
  /\ file \in [Dirs -> Procs \cup {None}] /\ listening \subseteq Procs
  /\ code \in [Procs -> Errors \cup {None}] /\ joined \in [Procs -> SUBSET Procs]

\* The steps at which a process goes on, or gives up, and leaves the socket alone.
Elsewhere(p) ==
  \/ Checks(p) \/ AcquirePair(p) \/ BuildZone(p) \/ BindNaming(p) \/ NamingUnavailable(p) \/ NamingTaken(p)
  \/ NewEntry(p) \/ PoolFails(p) \/ PoolBuilt(p) \/ Chmod(p) \/ Stop(p) \/ Drain(p)

\* Such a step moves its process on and changes nothing that is known of the socket.
LEMMA ElsewhereMoves ==
  ASSUME TypeOK, PcInv, ListenersRun, NEW p \in Procs, Elsewhere(p)
  PROVE  /\ UNCHANGED <<socket, conf, starts>>
         /\ \E to \in Looping \cup Up \cup Ending :
              /\ pc' = [pc EXCEPT ![p] = to]
              /\ \/ to \in Looping \cup {"listen"} /\ pc[p] \in {"checks"} \cup Looping /\ UNCHANGED code
                 \/ to = "returned" /\ pc[p] \in {"checks"} \cup Looping /\ \E e \in {"usage", "failed"} : code' = [code EXCEPT ![p] = e]
                 \/ to \in (Up \cup Ending) \ {"returned", "listen"} /\ pc[p] \in Up \ {"listen"} /\ UNCHANGED code
                    /\ (p \in listening => to \in {"chmod", "unusable", "serving", "closing"})
<1> USE DEF Goto, Loop, Return, PcInv, Before, Looping, Up, Ending, TypeOK, socket, issued, held
<1>1. CASE Checks(p) BY <1>1 DEF Checks
<1>2. CASE AcquirePair(p) BY <1>2 DEF AcquirePair
<1>3. CASE BuildZone(p) BY <1>3 DEF BuildZone
<1>4. CASE BindNaming(p) BY <1>4 DEF BindNaming
<1>5. CASE NamingUnavailable(p) BY <1>5 DEF NamingUnavailable
<1>6. CASE NamingTaken(p) BY <1>6 DEF NamingTaken
<1>7. CASE NewEntry(p) BY <1>7 DEF NewEntry
<1>8. CASE PoolFails(p) BY <1>8 DEF PoolFails
<1>9. CASE PoolBuilt(p) BY <1>9 DEF PoolBuilt
<1>10. CASE Chmod(p) BY <1>10 DEF Chmod
<1>11. CASE Stop(p) BY <1>11 DEF Stop
<1>12. CASE Drain(p)
  <2>1. pc' = [pc EXCEPT ![p] = "remove"] /\ pc[p] = "draining" BY <1>12 DEF Drain
  <2>2. p \notin listening BY <2>1 DEF ListenersRun
  <2>3. UNCHANGED <<socket, conf, starts, code>> BY <1>12 DEF Drain
  <2> QED BY <2>1, <2>2, <2>3
<1> QED BY <1>1, <1>2, <1>3, <1>4, <1>5, <1>6, <1>7, <1>8, <1>9, <1>10, <1>11, <1>12 DEF Elsewhere

\* The steps that look at the socket, bind it or unlink it, and the end of a process.
Touching(p) ==
  \/ Invoke(p) \/ Probe(p) \/ Reclaim(p) \/ Listen(p) \/ ChmodFailed(p) \/ CloseServer(p) \/ RemoveSocket(p)
  \/ Exit(p) \/ ForcedExit(p) \/ Crash(p)

\* Every step keeps what is known of the socket.
LEMMA SocketStep ==
  ASSUME IInv, NEW p \in Procs, Touching(p) \/ Elsewhere(p)
  PROVE  (SocketType /\ PcInv /\ SocketInv /\ StaleSocketIsReclaimed)'
<1>1. /\ SocketType /\ PcInv /\ FilesAreOwn /\ ListenersRun /\ OwnersAreKnown /\ PathWasCleared
      /\ ProbesAfresh /\ StaleSocketIsReclaimed /\ None \notin Procs \cup Errors
  BY OwnerAssumption DEF IInv, TypeOK, SocketType, SocketInv
<1> USE <1>1, PathIsDir DEF Goto, Loop, Return, socket
<1>2. CASE Elsewhere(p)
  <2>1. UNCHANGED socket BY <1>2, ElsewhereMoves DEF IInv
  <2>2. PICK to \in Looping \cup Up \cup Ending :
          /\ pc' = [pc EXCEPT ![p] = to]
          /\ \/ to \in Looping \cup {"listen"} /\ pc[p] \in {"checks"} \cup Looping /\ UNCHANGED code
             \/ to = "returned" /\ pc[p] \in {"checks"} \cup Looping /\ \E e \in {"usage", "failed"} : code' = [code EXCEPT ![p] = e]
             \/ to \in (Up \cup Ending) \ {"returned", "listen"} /\ pc[p] \in Up \ {"listen"} /\ UNCHANGED code
                /\ (p \in listening => to \in {"chmod", "unusable", "serving", "closing"})
    BY <1>2, ElsewhereMoves DEF IInv
  <2>11. SocketType' BY <2>1, <2>2 DEF SocketType, Errors
  <2>12. PcInv' BY <2>1, <2>2 DEF PcInv, Before, Looping, Up, Ending
  <2>13. FilesAreOwn' BY <2>1, <2>2 DEF FilesAreOwn, SocketType
  <2>14. ListenersRun' BY <2>1, <2>2 DEF ListenersRun, SocketType, PcInv, Looping, Up, Ending
  <2>15. OwnersAreKnown' BY <2>1, <2>2 DEF OwnersAreKnown, Reachable, SocketType, PcInv, FilesAreOwn, Looping, Up, Ending
  <2>16. PathWasCleared' BY <2>1, <2>2 DEF PathWasCleared, SocketType, PcInv, Looping, Up, Ending
  <2>17. ProbesAfresh' BY <2>1, <2>2 DEF ProbesAfresh, SocketType, PcInv, Looping, Up, Ending
  <2>18. StaleSocketIsReclaimed' BY <2>1, <2>2 DEF StaleSocketIsReclaimed, SocketType, Errors, ProbesAfresh, PathWasCleared, PcInv, Looping
  <2> QED BY <2>11, <2>12, <2>13, <2>14, <2>15, <2>16, <2>17, <2>18 DEF SocketInv
<1>3. CASE Invoke(p)
  <2>1. UNCHANGED socket /\ pc[p] = "dead" BY <1>3 DEF Invoke
  <2>2. \/ pc' = [pc EXCEPT ![p] = "probe"] /\ code' = [code EXCEPT ![p] = None]
        \/ /\ pc' = [pc EXCEPT ![p] = "returned"]
           /\ \E e \in {"usage", "disabled"} : code' = [code EXCEPT ![p] = e]
    BY <1>3, ConfiguredIsConfig DEF Invoke
  <2>11. SocketType' BY <2>1, <2>2 DEF SocketType, Errors
  <2>12. PcInv' BY <2>1, <2>2 DEF PcInv, Before, Looping, Up, Ending
  <2>13. FilesAreOwn' BY <2>1, <2>2 DEF FilesAreOwn, SocketType
  <2>14. ListenersRun' BY <2>1, <2>2 DEF ListenersRun, SocketType, PcInv, Looping, Up, Ending
  <2>15. OwnersAreKnown' BY <2>1, <2>2 DEF OwnersAreKnown, Reachable, SocketType, PcInv, FilesAreOwn, Looping, Up, Ending
  <2>16. PathWasCleared' BY <2>1, <2>2 DEF PathWasCleared, SocketType, PcInv, Looping, Up, Ending
  <2>17. ProbesAfresh' BY <2>1, <2>2 DEF ProbesAfresh, SocketType, PcInv, Looping, Up, Ending
  <2>18. StaleSocketIsReclaimed' BY <2>1, <2>2 DEF StaleSocketIsReclaimed, SocketType, Errors, ProbesAfresh, PathWasCleared, PcInv, Looping
  <2> QED BY <2>11, <2>12, <2>13, <2>14, <2>15, <2>16, <2>17, <2>18 DEF SocketInv
<1>4. CASE Probe(p)
  <2>11. SocketType' BY <1>4 DEF SocketType, Errors, Probe, Alive
  <2>12. PcInv' BY <1>4 DEF PcInv, Before, Looping, Up, Ending, Probe, Alive
  <2>13. FilesAreOwn' BY <1>4 DEF FilesAreOwn, SocketType, Probe, Alive
  <2>14. ListenersRun' BY <1>4 DEF ListenersRun, SocketType, PcInv, Looping, Up, Ending, Probe, Alive
  <2>15. OwnersAreKnown' BY <1>4 DEF OwnersAreKnown, Reachable, SocketType, PcInv, FilesAreOwn, Looping, Up, Ending, Probe, Alive
  <2>16. PathWasCleared' BY <1>4 DEF PathWasCleared, SocketType, PcInv, Looping, Up, Ending, Probe, Alive
  <2>17. ProbesAfresh' BY <1>4 DEF ProbesAfresh, SocketType, PcInv, Looping, Up, Ending, Probe, Alive
  <2>18. StaleSocketIsReclaimed' BY <1>4 DEF StaleSocketIsReclaimed, SocketType, Errors, ProbesAfresh, PathWasCleared, PcInv, Looping, Probe, Alive
  <2> QED BY <2>11, <2>12, <2>13, <2>14, <2>15, <2>16, <2>17, <2>18 DEF SocketInv
<1>5. CASE Listen(p)
  <2>11. SocketType' BY <1>5 DEF SocketType, Errors, Listen
  <2>12. PcInv' BY <1>5 DEF PcInv, Before, Looping, Up, Ending, Listen
  <2>13. FilesAreOwn' BY <1>5 DEF FilesAreOwn, SocketType, Listen
  <2>14. ListenersRun' BY <1>5 DEF ListenersRun, SocketType, PcInv, Looping, Up, Ending, Listen
  <2>15. OwnersAreKnown'
    <3> SUFFICES ASSUME NEW r \in Procs, NEW q \in Procs, r # q, Path(r) = Path(q), Reachable(q)',
                        pc'[r] \notin {"dead", "probe", "returned"}
                 PROVE  q \in joined'[r]
      BY DEF OwnersAreKnown
    <3>1. CASE file[Path(p)] # None
      <4>1. UNCHANGED socket /\ pc' = [pc EXCEPT ![p] = "returned"] BY <3>1, <1>5 DEF Listen
      <4>2. Reachable(q) BY <4>1 DEF Reachable
      <4>3. pc[r] = pc'[r] BY <4>1 DEF PcInv
      <4> QED BY <4>1, <4>2, <4>3 DEF OwnersAreKnown
    <3>2. CASE file[Path(p)] = None
      <4>1. /\ listening' = listening \cup {p} /\ file' = [file EXCEPT ![Path(p)] = p]
            /\ joined' = [x \in Procs |-> IF x # p /\ Path(x) = Path(p) THEN joined[x] \cup {p} ELSE joined[x]]
            /\ pc[p] = "listen" /\ pc' = [pc EXCEPT ![p] = "chmod"]
        BY <3>2, <1>5 DEF Listen
      <4>2. CASE q = p BY <4>1, <4>2
      <4>3. CASE q # p
        <5>1. q \in listening /\ file'[Path(q)] = q BY <4>1, <4>3 DEF Reachable
        <5>2. Path(q) # Path(p) /\ file[Path(q)] = q BY <5>1, <4>1, <4>3 DEF SocketType
        <5>3. pc[r] \notin {"dead", "probe", "returned"} BY <4>1 DEF PcInv
        <5>4. q \in joined[r] BY <5>1, <5>2, <5>3 DEF OwnersAreKnown, Reachable
        <5> QED BY <5>4, <4>1
      <4> QED BY <4>2, <4>3
    <3> QED BY <3>1, <3>2
  <2>16. PathWasCleared'
    <3> SUFFICES ASSUME NEW r \in Procs, pc'[r] \in {"checks", "listen"} \cup Looping, file'[Path(r)] # None
                 PROVE  joined'[r] # {}
      BY DEF PathWasCleared
    <3>1. r # p /\ pc[r] = pc'[r] BY <1>5 DEF Listen, PcInv, Looping
    <3>2. CASE file[Path(p)] # None
      <4>1. UNCHANGED socket BY <3>2, <1>5 DEF Listen
      <4> QED BY <3>1, <4>1 DEF PathWasCleared
    <3>3. CASE file[Path(p)] = None
      <4>1. /\ file' = [file EXCEPT ![Path(p)] = p]
            /\ joined' = [x \in Procs |-> IF x # p /\ Path(x) = Path(p) THEN joined[x] \cup {p} ELSE joined[x]]
        BY <3>3, <1>5 DEF Listen
      <4>2. CASE Path(r) = Path(p) BY <4>1, <4>2, <3>1
      <4>3. CASE Path(r) # Path(p)
        <5>1. file[Path(r)] # None BY <4>1, <4>3 DEF SocketType
        <5> QED BY <5>1, <4>1, <4>3, <3>1 DEF PathWasCleared
      <4> QED BY <4>2, <4>3
    <3> QED BY <3>2, <3>3
  <2>17. ProbesAfresh' BY <1>5 DEF ProbesAfresh, SocketType, PcInv, Looping, Up, Ending, Listen
  <2>18. StaleSocketIsReclaimed' BY <1>5 DEF StaleSocketIsReclaimed, SocketType, Errors, ProbesAfresh, PathWasCleared, PcInv, Looping, Listen
  <2> QED BY <2>11, <2>12, <2>13, <2>14, <2>15, <2>16, <2>17, <2>18 DEF SocketInv
<1>6. CASE Touching(p) /\ ~Invoke(p) /\ ~Probe(p) /\ ~Listen(p)
  <2> USE DEF SocketType, PcInv, SocketInv, FilesAreOwn, ListenersRun, OwnersAreKnown, PathWasCleared, ProbesAfresh,
              StaleSocketIsReclaimed, Reachable, Before, Looping, Up, Ending, Errors, CloseListener, Dies
  <2>1. CASE Reclaim(p) BY <2>1 DEF Reclaim
  <2>2. CASE ChmodFailed(p) BY <2>2 DEF ChmodFailed
  <2>3. CASE CloseServer(p) BY <2>3 DEF CloseServer
  <2>4. CASE RemoveSocket(p) BY <2>4 DEF RemoveSocket
  <2>5. CASE Exit(p) BY <2>5 DEF Exit
  <2>6. CASE ForcedExit(p) BY <2>6 DEF ForcedExit
  <2>7. CASE Crash(p) BY <2>7 DEF Crash
  <2> QED BY <1>6, <2>1, <2>2, <2>3, <2>4, <2>5, <2>6, <2>7 DEF Touching
<1> QED BY <1>2, <1>3, <1>4, <1>5, <1>6

-----------------------------------------------------------------------------
(* The settings. *)

\* A process keeps the configuration that it has checked.
LEMMA ConfStep ==
  ASSUME IInv, NEW p \in Procs, Touching(p) \/ Elsewhere(p)
  PROVE  ConfInv'
<1>1. PcInv /\ ConfInv BY DEF IInv
<1> USE <1>1 DEF PcInv, ConfInv, Before, Looping, Up, Ending, Goto, Loop, Return, issued
<1>2. CASE Invoke(p)
  <2>1. \E to \in {"probe", "returned"} : pc' = [pc EXCEPT ![p] = to] BY <1>2 DEF Invoke
  <2>2. \/ UNCHANGED conf
        \/ \E c \in DOMAIN Commands : Configured[c].ok /\ conf' = [conf EXCEPT ![p] = Configured[c].value]
    BY <1>2 DEF Invoke
  <2>3. UNCHANGED conf \/ \E cfg : IsConfig(cfg) /\ conf' = [conf EXCEPT ![p] = cfg]
    BY <2>2, ConfiguredIsConfig
  <2> QED BY <2>1, <2>3
<1>3. CASE Exit(p) \/ ForcedExit(p) \/ Crash(p)
  <2>1. conf' = [conf EXCEPT ![p] = Defaults] /\ pc' = [pc EXCEPT ![p] = "dead"]
    BY <1>3 DEF Exit, ForcedExit, Crash, Dies
  <2> QED BY <2>1, DefaultsAreConfig
<1>4. CASE Probe(p) BY <1>4 DEF Probe
<1>5. CASE Reclaim(p) BY <1>5 DEF Reclaim
<1>6. CASE Checks(p) BY <1>6 DEF Checks
<1>7. CASE AcquirePair(p) BY <1>7 DEF AcquirePair
<1>8. CASE BuildZone(p) BY <1>8 DEF BuildZone
<1>9. CASE BindNaming(p) BY <1>9 DEF BindNaming
<1>10. CASE NamingUnavailable(p) BY <1>10 DEF NamingUnavailable
<1>11. CASE NamingTaken(p) BY <1>11 DEF NamingTaken
<1>12. CASE NewEntry(p) BY <1>12 DEF NewEntry
<1>13. CASE PoolFails(p) BY <1>13 DEF PoolFails
<1>14. CASE PoolBuilt(p) BY <1>14 DEF PoolBuilt
<1>15. CASE Listen(p) BY <1>15 DEF Listen
<1>16. CASE Chmod(p) BY <1>16 DEF Chmod
<1>17. CASE ChmodFailed(p) BY <1>17 DEF ChmodFailed
<1>18. CASE Stop(p) BY <1>18 DEF Stop
<1>19. CASE CloseServer(p) BY <1>19 DEF CloseServer
<1>20. CASE Drain(p) BY <1>20 DEF Drain
<1>21. CASE RemoveSocket(p) BY <1>21 DEF RemoveSocket
<1> QED BY <1>2, <1>3, <1>4, <1>5, <1>6, <1>7, <1>8, <1>9, <1>10, <1>11, <1>12, <1>13, <1>14, <1>15, <1>16, <1>17, <1>18, <1>19, <1>20, <1>21 DEF Touching, Elsewhere

-----------------------------------------------------------------------------
(* The loops. *)

\* What a loop visits next is one of the things it has left.
LEMMA NextIsLeft ==
  ASSUME IInv, NEW p \in Procs, todo[p] # {}
  PROVE  /\ pc[p] = "naming" => NextSocket(p) \in todo[p] /\ NextSocket(p) \in Sockets
         /\ pc[p] \in {"edges", "pool"} =>
              NextServer(p) \in todo[p] /\ NextServer(p) \in Managed(p) /\ NextServer(p) \in Names
<1>1. Managed(p) \subseteq Names BY DEF IInv, ConfInv, IsConfig, IsServers, Managed, Names
<1>2. CASE pc[p] = "naming"
  <2>1. todo[p] \in SUBSET ToSet(NamingSockets) BY <1>2 DEF IInv, WorkLeft, Sockets
  <2>2. NextSocket(p) \in todo[p] BY <2>1, SocketsFacts, FirstIsLeft DEF NextSocket
  <2> QED BY <1>2, <2>1, <2>2 DEF Sockets
<1>3. CASE pc[p] \in {"edges", "pool"}
  <2>1. todo[p] \subseteq Managed(p) BY <1>3 DEF IInv, WorkLeft, Looping
  <2>2. todo[p] \in SUBSET ToSet(ServerOrder) BY <1>1, <2>1 DEF Names
  <2>3. DOMAIN ServerOrder = 1..Len(ServerOrder) /\ Len(ServerOrder) \in Nat BY NamesAssumption
  <2>4. NextServer(p) \in todo[p] BY <2>2, <2>3, FirstIsLeft DEF NextServer
  <2> QED BY <1>1, <1>3, <2>1, <2>4
<1> QED BY <1>2, <1>3

\* Every step keeps what is known of the work that is left.
LEMMA WorkStep ==
  ASSUME IInv, NEW p \in Procs, Touching(p) \/ Elsewhere(p)
  PROVE  DOMAIN todo' = Procs /\ WorkLeft'
<1>1. PcInv /\ WorkLeft /\ DOMAIN todo = Procs /\ DOMAIN conf = Procs /\ ports \in [Procs -> [Names -> [1..2 -> Nat]]]
  BY DEF IInv, ConfInv, TypeOK, Names
<1> USE <1>1 DEF PcInv, WorkLeft, Before, Looping, Up, Ending, Managed, Visited, Goto, Loop, Return, issued, held
<1>2. CASE Invoke(p) BY <1>2 DEF Invoke
<1>3. CASE Probe(p) BY <1>3 DEF Probe
<1>4. CASE Reclaim(p) BY <1>4 DEF Reclaim
<1>5. CASE Checks(p)
  <2>1. \/ todo' = [todo EXCEPT ![p] = Managed(p)] /\ pc' = [pc EXCEPT ![p] = "edges"]
        \/ todo' = [todo EXCEPT ![p] = {}] /\ pc' = [pc EXCEPT ![p] = "returned"] BY <1>5 DEF Checks
  <2>2. UNCHANGED <<conf, ports>> BY <1>5 DEF Checks
  <2>3. \A s \in Managed(p) : ports[p][s] = NoPorts
    <3>1. Managed(p) \subseteq Names BY DEF IInv, ConfInv, IsConfig, IsServers, Names
    <3>2. ports[p] = NothingGiven BY <1>5 DEF IInv, PortsInv, Checks
    <3> QED BY <3>1, <3>2 DEF NothingGiven
  <2> QED BY <2>1, <2>2, <2>3
<1>6. CASE AcquirePair(p)
  <2> DEFINE s == NextServer(p)
  <2>1. UNCHANGED <<pc, conf>> /\ todo' = [todo EXCEPT ![p] = @ \ {s}] BY <1>6 DEF AcquirePair
  <2>2. UNCHANGED ports \/ \E pair : ports' = [ports EXCEPT ![p][s] = pair] BY <1>6 DEF AcquirePair
  <2> HIDE DEF s
  <2>3. \A q \in Procs, t \in Names : ports'[q][t] = ports[q][t] \/ (q = p /\ t = s) BY <2>2
  <2>4. \A q \in Procs : Managed(q) \subseteq Names BY DEF IInv, ConfInv, IsConfig, IsServers, Names
  <2> QED BY <2>1, <2>3, <2>4
<1>7. CASE BuildZone(p) BY <1>7 DEF BuildZone
<1>8. CASE BindNaming(p) BY <1>8 DEF BindNaming
<1>9. CASE NamingUnavailable(p) BY <1>9 DEF NamingUnavailable
<1>10. CASE NamingTaken(p) BY <1>10 DEF NamingTaken
<1>11. CASE NewEntry(p) BY <1>11 DEF NewEntry
<1>12. CASE PoolFails(p) BY <1>12 DEF PoolFails
<1>13. CASE PoolBuilt(p) BY <1>13 DEF PoolBuilt
<1>14. CASE Listen(p) BY <1>14 DEF Listen
<1>15. CASE Chmod(p) BY <1>15 DEF Chmod
<1>16. CASE ChmodFailed(p) BY <1>16 DEF ChmodFailed
<1>17. CASE Stop(p) BY <1>17 DEF Stop
<1>18. CASE CloseServer(p) BY <1>18 DEF CloseServer
<1>19. CASE Drain(p) BY <1>19 DEF Drain
<1>20. CASE RemoveSocket(p) BY <1>20 DEF RemoveSocket
<1>21. CASE Exit(p) BY <1>21 DEF Exit, Dies
<1>22. CASE ForcedExit(p) BY <1>22 DEF ForcedExit, Dies
<1>23. CASE Crash(p) BY <1>23 DEF Crash, Dies
<1> QED BY <1>2, <1>3, <1>4, <1>5, <1>6, <1>7, <1>8, <1>9, <1>10, <1>11, <1>12, <1>13, <1>14, <1>15, <1>16, <1>17, <1>18, <1>19, <1>20, <1>21, <1>22, <1>23 DEF Touching, Elsewhere

-----------------------------------------------------------------------------
(* The ports. *)

(* The part of TypeOK that is about the ports.                             *)
PortsType == edges \in [Procs -> SUBSET Nat] /\ ports \in [Procs -> [Names -> [1..2 -> Nat]]]

\* There are finitely many servers, so their ports can be counted.
LEMMA NamesAreFinite == IsFiniteSet(Names)
<1>1. ServerOrder \in Surjection(1..Len(ServerOrder), Names)
  BY NamesAssumption DEF Surjection, Names, ToSet
<1>2. IsFiniteSet(1..Len(ServerOrder)) BY NamesAssumption, FS_Interval
<1> QED BY <1>1, <1>2, FS_Surjection

\* A process that has been given nothing holds nothing.
LEMMA NothingIsHeld ==
  ASSUME NEW p \in Procs, edges[p] = {}, ports[p] = NothingGiven
  PROVE  PairsHeld(p)
<1>1. GivenTo(p) = {} BY DEF GivenTo, NothingGiven
<1> QED BY <1>1, FS_EmptySet DEF PairsHeld

\* What a step leaves alone is held as before.
LEMMA PairsAreKept ==
  ASSUME NEW p \in Procs, PairsHeld(p), edges'[p] = edges[p], ports'[p] = ports[p]
  PROVE  PairsHeld(p)'
<1>1. GivenTo(p)' = GivenTo(p) BY DEF GivenTo
<1> QED BY <1>1 DEF PairsHeld

\* A pair of free ports that is given to a server that had none makes two ports more.
LEMMA PairIsAdded ==
  ASSUME NEW p \in Procs, PortsType, PairsHeld(p), NEW s \in Names, ports[p][s] = NoPorts,
         NEW pair \in [1..2 -> Nat], pair[1] # pair[2], {pair[1], pair[2]} \cap edges[p] = {},
         edges' = [edges EXCEPT ![p] = @ \cup {pair[1], pair[2]}],
         ports' = [ports EXCEPT ![p][s] = pair]
  PROVE  PairsHeld(p)'
<1>1. pair # NoPorts BY DEF NoPorts
<1>2. /\ edges'[p] = edges[p] \cup {pair[1], pair[2]}
      /\ \A t \in Names : ports'[p][t] = IF t = s THEN pair ELSE ports[p][t] BY DEF PortsType
<1>3. GivenTo(p)' = GivenTo(p) \cup {s} /\ s \notin GivenTo(p) BY <1>1, <1>2 DEF GivenTo
<1>4. IsFiniteSet(GivenTo(p)) BY NamesAreFinite, FS_Subset DEF GivenTo
<1>5. Cardinality(GivenTo(p)') = Cardinality(GivenTo(p)) + 1 /\ Cardinality(GivenTo(p)) \in Nat
  BY <1>3, <1>4, FS_AddElement, FS_CardinalityType
<1>6. IsFiniteSet(edges[p]) /\ Cardinality(edges[p]) = 2 * Cardinality(GivenTo(p)) BY DEF PairsHeld
<1>7. /\ IsFiniteSet(edges[p] \cup {pair[1]})
      /\ Cardinality(edges[p] \cup {pair[1]}) = Cardinality(edges[p]) + 1 BY <1>6, FS_AddElement
<1>8. /\ IsFiniteSet((edges[p] \cup {pair[1]}) \cup {pair[2]})
      /\ Cardinality((edges[p] \cup {pair[1]}) \cup {pair[2]}) = Cardinality(edges[p] \cup {pair[1]}) + 1
  BY <1>7, FS_AddElement
<1>9. edges'[p] = (edges[p] \cup {pair[1]}) \cup {pair[2]} BY <1>2
<1>10. Cardinality(edges'[p]) = 2 * Cardinality(GivenTo(p)') /\ IsFiniteSet(edges'[p])
  <2> DEFINE two == (edges[p] \cup {pair[1]}) \cup {pair[2]}
             held0 == Cardinality(edges[p])
             given0 == Cardinality(GivenTo(p))
  <2>1. Cardinality(two) = held0 + 1 + 1 /\ IsFiniteSet(two) /\ held0 = 2 * given0 /\ given0 \in Nat
    BY <1>5, <1>6, <1>7, <1>8
  <2>2. Cardinality(GivenTo(p)') = given0 + 1 BY <1>5
  <2>3. edges'[p] = two BY <1>9
  <2> HIDE DEF two, held0, given0
  <2>4. Cardinality(two) = 2 * (given0 + 1) BY <2>1
  <2> QED BY <2>1, <2>2, <2>3, <2>4, Zenon
<1>11. edges'[p] = UNION {{ports'[p][t][1], ports'[p][t][2]} : t \in GivenTo(p)'}
  <2>1. edges[p] = UNION {{ports[p][t][1], ports[p][t][2]} : t \in GivenTo(p)} BY DEF PairsHeld
  <2>2. \A t \in GivenTo(p) : ports'[p][t] = ports[p][t] BY <1>2, <1>3 DEF GivenTo
  <2>3. ports'[p][s] = pair BY <1>2
  <2>4. ASSUME NEW n \in edges'[p] PROVE \E t \in GivenTo(p)' : n \in {ports'[p][t][1], ports'[p][t][2]}
    <3>1. CASE n \in {pair[1], pair[2]} BY <3>1, <1>3, <2>3
    <3>2. CASE n \in edges[p]
      <4>1. PICK t \in GivenTo(p) : n \in {ports[p][t][1], ports[p][t][2]} BY <3>2, <2>1
      <4> QED BY <4>1, <2>2, <1>3
    <3> QED BY <2>4, <3>1, <3>2, <1>2
  <2>5. ASSUME NEW t \in GivenTo(p)' PROVE {ports'[p][t][1], ports'[p][t][2]} \subseteq edges'[p]
    <3>1. CASE t = s BY <3>1, <2>3, <1>2
    <3>2. CASE t \in GivenTo(p) BY <3>2, <2>1, <2>2, <1>2
    <3> QED BY <2>5, <3>1, <3>2, <1>3
  <2> QED BY <2>4, <2>5
<1> QED BY <1>10, <1>11 DEF PairsHeld

\* The steps that take and give back no ports.
LEMMA PortsUntouched ==
  ASSUME IInv, NEW p \in Procs, Touching(p) \/ Elsewhere(p),
         ~(AcquirePair(p) \/ PoolFails(p) \/ Drain(p) \/ Exit(p) \/ ForcedExit(p) \/ Crash(p))
  PROVE  /\ UNCHANGED <<edges, ports>>
         /\ \/ UNCHANGED pc
            \/ \E to \in Before \cup Looping \cup Up \cup Ending :
                 /\ pc' = [pc EXCEPT ![p] = to]
                 /\ to \in Before => pc[p] \in Before
                 /\ to \in Looping \cup Up => pc[p] \in {"checks"} \cup Looping \cup Up
<1>1. PcInv BY DEF IInv
<1> USE <1>1 DEF PcInv, Before, Looping, Up, Ending, Goto, Loop, Return, issued, held
<1>2. CASE Invoke(p) BY <1>2 DEF Invoke
<1>3. CASE Probe(p) BY <1>3 DEF Probe
<1>4. CASE Reclaim(p) BY <1>4 DEF Reclaim
<1>5. CASE Checks(p) BY <1>5 DEF Checks
<1>6. CASE BuildZone(p) BY <1>6 DEF BuildZone
<1>7. CASE BindNaming(p) BY <1>7 DEF BindNaming
<1>8. CASE NamingUnavailable(p) BY <1>8 DEF NamingUnavailable
<1>9. CASE NamingTaken(p) BY <1>9 DEF NamingTaken
<1>10. CASE NewEntry(p) BY <1>10 DEF NewEntry
<1>11. CASE PoolBuilt(p) BY <1>11 DEF PoolBuilt
<1>12. CASE Listen(p) BY <1>12 DEF Listen
<1>13. CASE Chmod(p) BY <1>13 DEF Chmod
<1>14. CASE ChmodFailed(p) BY <1>14 DEF ChmodFailed
<1>15. CASE Stop(p) BY <1>15 DEF Stop
<1>16. CASE CloseServer(p) BY <1>16 DEF CloseServer
<1>17. CASE RemoveSocket(p) BY <1>17 DEF RemoveSocket
<1> QED BY <1>2, <1>3, <1>4, <1>5, <1>6, <1>7, <1>8, <1>9, <1>10, <1>11, <1>12, <1>13, <1>14, <1>15, <1>16, <1>17 DEF Touching, Elsewhere

\* Every step keeps what is known of the ports.
LEMMA PortsStep ==
  ASSUME IInv, NEW p \in Procs, Touching(p) \/ Elsewhere(p)
  PROVE  (PortsType /\ PortsInv)'
<1>1. PcInv /\ PortsInv /\ PortsType BY DEF IInv, TypeOK, PortsType, Names
<1>2. CASE ~(AcquirePair(p) \/ PoolFails(p) \/ Drain(p) \/ Exit(p) \/ ForcedExit(p) \/ Crash(p))
  <2>1. UNCHANGED <<edges, ports>> BY <1>2, PortsUntouched
  <2>2. \/ UNCHANGED pc
        \/ \E to \in Before \cup Looping \cup Up \cup Ending :
             /\ pc' = [pc EXCEPT ![p] = to]
             /\ to \in Before => pc[p] \in Before
             /\ to \in Looping \cup Up => pc[p] \in {"checks"} \cup Looping \cup Up
    BY <1>2, PortsUntouched
  <2>3. \A q \in Procs : /\ pc'[q] \in Before => pc[q] \in Before
                         /\ pc'[q] \in Looping \cup Up => pc[q] \in {"checks"} \cup Looping \cup Up
    BY <1>1, <2>2 DEF PcInv, Before, Looping, Up, Ending
  <2>4. \A q \in Procs : pc'[q] \in Looping \cup Up => PairsHeld(q)
    BY <1>1, <2>3, NothingIsHeld DEF PortsInv, Before
  <2>5. \A q \in Procs : pc'[q] \in Looping \cup Up => PairsHeld(q)' BY <2>1, <2>4, PairsAreKept
  <2> QED BY <1>1, <2>1, <2>3, <2>5 DEF PortsInv, PortsType
<1>3. ASSUME edges' = [edges EXCEPT ![p] = {}], pc'[p] \notin Looping \cup Up,
             \A q \in Procs \ {p} : pc'[q] = pc[q] /\ ports'[q] = ports[q],
             pc'[p] \notin Before \/ ports'[p] = NothingGiven, PortsType'
      PROVE  (PortsType /\ PortsInv)'
  <2>1. \A q \in Procs \ {p} : edges'[q] = edges[q] BY <1>1, <1>3 DEF PortsType
  <2>2. edges'[p] = {} BY <1>1, <1>3 DEF PortsType
  <2>3. \A q \in Procs \ {p} : pc'[q] \in Looping \cup Up => PairsHeld(q)'
    BY <1>1, <1>3, <2>1, PairsAreKept DEF PortsInv
  <2>4. \A q \in Procs : pc'[q] \in Before => edges'[q] = {} /\ ports'[q] = NothingGiven
    BY <1>1, <1>3, <2>1, <2>2 DEF PortsInv
  <2>5. \A q, r \in Procs : q # r => edges'[q] \cap edges'[r] = {} BY <1>1, <2>1, <2>2 DEF PortsInv
  <2>6. \A q \in Procs : pc'[q] \in Looping \cup Up => PairsHeld(q)' BY <1>3, <2>3
  <2> QED BY <1>3, <2>4, <2>5, <2>6 DEF PortsInv
<1>4. CASE PoolFails(p) \/ Drain(p)
  <2>1. edges' = [edges EXCEPT ![p] = {}] /\ UNCHANGED ports
        /\ \E to \in Ending : pc' = [pc EXCEPT ![p] = to]
    BY <1>4 DEF PoolFails, Drain, Goto, Loop, Return, Ending
  <2>2. PortsType' BY <1>1, <2>1 DEF PortsType
  <2> QED BY <1>1, <1>3, <2>1, <2>2 DEF PcInv, Before, Looping, Up, Ending
<1>5. CASE Exit(p) \/ ForcedExit(p) \/ Crash(p)
  <2>1. /\ edges' = [edges EXCEPT ![p] = {}] /\ ports' = [ports EXCEPT ![p] = NothingGiven]
        /\ pc' = [pc EXCEPT ![p] = "dead"]
    BY <1>5 DEF Exit, ForcedExit, Crash, Dies, Goto, Loop, NothingGiven, Names
  <2>2. NothingGiven \in [Names -> [1..2 -> Nat]]
    <3>1. NoPorts \in [1..2 -> Nat] BY DEF NoPorts
    <3> QED BY <3>1 DEF NothingGiven
  <2>3. PortsType' BY <1>1, <2>1, <2>2 DEF PortsType
  <2>4. /\ pc'[p] = "dead" /\ ports'[p] = NothingGiven
        /\ \A q \in Procs \ {p} : pc'[q] = pc[q] /\ ports'[q] = ports[q]
    BY <1>1, <2>1 DEF PcInv, PortsType
  <2>5. "dead" \notin Looping \cup Up BY DEF Looping, Up
  <2> QED BY <1>3, <2>1, <2>3, <2>4, <2>5
<1>6. CASE AcquirePair(p)
  <2> DEFINE s == NextServer(p)
  <2>1. pc[p] = "edges" /\ todo[p] # {} /\ UNCHANGED pc BY <1>6 DEF AcquirePair
  <2>2. s \in Managed(p) /\ s \in Names /\ s \in todo[p] BY <2>1, NextIsLeft
  <2>3. ports[p][s] = NoPorts BY <2>1, <2>2 DEF IInv, WorkLeft
  <2>4. PairsHeld(p) BY <1>1, <2>1 DEF PortsInv, Looping
  <2>5. CASE UNCHANGED <<edges, ports>>
    <3>1. \A q \in Procs : pc'[q] \in Looping \cup Up => PairsHeld(q)'
      BY <1>1, <2>1, <2>5, PairsAreKept DEF PortsInv
    <3> QED BY <1>1, <2>1, <2>5, <3>1 DEF PortsInv, PortsType
  <2>6. ASSUME NEW busy, FreeBlocks(p, s, busy) # {}, NEW pair,
               pair = Pair(p, s, FirstBlock(FreeBlocks(p, s, busy))),
               edges' = [edges EXCEPT ![p] = @ \cup {pair[1], pair[2]}],
               ports' = [ports EXCEPT ![p][s] = pair]
        PROVE  (PortsType /\ PortsInv)'
    <3> HIDE DEF s
    <3>1. /\ pair[1] # pair[2] /\ {pair[1], pair[2]} \cap TakenPorts = {}
          /\ pair \in [1..2 -> Nat]
      BY <2>2, <2>6, FirstBlockIsFree, PairIsPorts DEF IInv, ConfInv
    <3>2. \A q \in Procs : {pair[1], pair[2]} \cap edges[q] = {} BY <3>1 DEF TakenPorts
    <3>3. PairsHeld(p)' BY <1>1, <2>2, <2>3, <2>4, <2>6, <3>1, <3>2, PairIsAdded
    <3>4. PortsType' BY <1>1, <2>2, <2>6, <3>1 DEF PortsType
    <3>5. \A q \in Procs \ {p} : edges'[q] = edges[q] /\ ports'[q] = ports[q] BY <1>1, <2>6 DEF PortsType
    <3>6. edges'[p] = edges[p] \cup {pair[1], pair[2]} BY <1>1, <2>6 DEF PortsType
    <3>7. \A q \in Procs : pc'[q] \in Looping \cup Up => PairsHeld(q)'
      BY <1>1, <2>1, <3>3, <3>5, PairsAreKept DEF PortsInv
    <3>8. \A q, r \in Procs : q # r => edges'[q] \cap edges'[r] = {}
      BY <1>1, <3>2, <3>5, <3>6 DEF PortsInv
    <3>9. \A q \in Procs : pc'[q] \in Before => edges'[q] = {} /\ ports'[q] = NothingGiven
      BY <1>1, <2>1, <3>5 DEF PortsInv, Before
    <3> QED BY <3>4, <3>7, <3>8, <3>9 DEF PortsInv
  <2> QED BY <1>6, <2>5, <2>6 DEF AcquirePair
<1> QED BY <1>2, <1>4, <1>5, <1>6

-----------------------------------------------------------------------------
(* The naming sockets. *)

(* The part of TypeOK that is about the naming sockets.                    *)
NamingType == naming \in [Procs -> SUBSET ({"udp", "tcp"} \X Nat)]

\* A step that leaves naming and the loop alone leaves NamesHeld alone.
LEMMA NamesAreKept ==
  ASSUME NEW p \in Procs, NamesHeld(p), naming'[p] = naming[p], conf'[p] = conf[p],
         \/ pc'[p] = pc[p] /\ (pc[p] = "naming" => todo'[p] = todo[p])
         \/ pc'[p] \in Ending
         \/ pc'[p] \in Before \cup {"edges"} /\ pc[p] \in Before
         \/ pc'[p] \in Up /\ pc[p] \in {"pool"} \cup Up
  PROVE  NamesHeld(p)'
<1>1. AllSockets(p)' = AllSockets(p) BY DEF AllSockets, Socket
<1>2. {Socket(p, n) : n \in Sockets \ todo[p]}' = {Socket(p, n) : n \in Sockets \ todo'[p]} BY DEF Socket
<1> QED BY <1>1, <1>2 DEF NamesHeld, Before, Up, Ending

\* Most steps are such steps.
LEMMA NamingUntouched ==
  ASSUME IInv, NEW p \in Procs, Touching(p) \/ Elsewhere(p),
         ~(BuildZone(p) \/ BindNaming(p) \/ NamingUnavailable(p) \/ NamingTaken(p) \/ Drain(p)),
         ~(Invoke(p) \/ Exit(p) \/ ForcedExit(p) \/ Crash(p))
  PROVE  /\ UNCHANGED <<naming, conf>>
         /\ \A q \in Procs \ {p} : pc'[q] = pc[q] /\ todo'[q] = todo[q]
         /\ \/ pc'[p] = pc[p] /\ pc[p] # "naming"
            \/ pc'[p] \in Ending
            \/ pc'[p] \in Before \cup {"edges"} /\ pc[p] \in Before
            \/ pc'[p] \in Up /\ pc[p] \in {"pool"} \cup Up
<1>1. PcInv /\ DOMAIN todo = Procs BY DEF IInv, TypeOK
<1> USE <1>1 DEF PcInv, Before, Looping, Up, Ending, Visited, Goto, Loop, Return, issued, held
<1>2. CASE Probe(p) BY <1>2 DEF Probe
<1>3. CASE Reclaim(p) BY <1>3 DEF Reclaim
<1>4. CASE Checks(p) BY <1>4 DEF Checks
<1>5. CASE AcquirePair(p) BY <1>5 DEF AcquirePair
<1>6. CASE NewEntry(p) BY <1>6 DEF NewEntry
<1>7. CASE PoolFails(p) BY <1>7 DEF PoolFails
<1>8. CASE PoolBuilt(p) BY <1>8 DEF PoolBuilt
<1>9. CASE Listen(p) BY <1>9 DEF Listen
<1>10. CASE Chmod(p) BY <1>10 DEF Chmod
<1>11. CASE ChmodFailed(p) BY <1>11 DEF ChmodFailed
<1>12. CASE Stop(p) BY <1>12 DEF Stop
<1>13. CASE CloseServer(p) BY <1>13 DEF CloseServer
<1>14. CASE RemoveSocket(p) BY <1>14 DEF RemoveSocket
<1> QED BY <1>2, <1>3, <1>4, <1>5, <1>6, <1>7, <1>8, <1>9, <1>10, <1>11, <1>12, <1>13, <1>14 DEF Touching, Elsewhere

\* Every step keeps what is known of the naming sockets.
LEMMA NamingStep ==
  ASSUME IInv, NEW p \in Procs, Touching(p) \/ Elsewhere(p)
  PROVE  (NamingType /\ NamingInv)'
<1>1. PcInv /\ NamingInv /\ NamingType /\ DOMAIN todo = Procs /\ DOMAIN conf = Procs
  BY DEF IInv, TypeOK, NamingType, ConfInv
<1>2. CASE /\ ~(BuildZone(p) \/ BindNaming(p) \/ NamingUnavailable(p) \/ NamingTaken(p) \/ Drain(p))
           /\ ~(Invoke(p) \/ Exit(p) \/ ForcedExit(p) \/ Crash(p))
  <2>1. NamingType' BY <1>1, <1>2, NamingUntouched DEF NamingType
  <2>2. \A q \in Procs : NamesHeld(q)' BY <1>1, <1>2, NamingUntouched, NamesAreKept DEF NamingInv
  <2> QED BY <2>1, <2>2 DEF NamingInv
<1>3. ASSUME \A q \in Procs \ {p} : /\ pc'[q] = pc[q] /\ todo'[q] = todo[q]
                                    /\ naming'[q] = naming[q] /\ conf'[q] = conf[q],
             NamingType', NamesHeld(p)'
      PROVE  (NamingType /\ NamingInv)'
  <2>1. \A q \in Procs \ {p} : NamesHeld(q)' BY <1>1, <1>3, NamesAreKept DEF NamingInv
  <2> QED BY <1>3, <2>1 DEF NamingInv
<1>4. CASE Drain(p) \/ Invoke(p) \/ Exit(p) \/ ForcedExit(p) \/ Crash(p)
  <2>1. /\ naming' = [naming EXCEPT ![p] = {}] \/ (UNCHANGED naming /\ pc[p] = "dead")
        /\ pc'[p] \in Before \cup Ending
        /\ \A q \in Procs \ {p} : pc'[q] = pc[q] /\ todo'[q] = todo[q] /\ conf'[q] = conf[q]
    <3> USE <1>1 DEF PcInv, Goto, Loop, Return, Before, Ending, issued, held
    <3>1. CASE Drain(p) BY <3>1 DEF Drain
    <3>2. CASE Invoke(p) BY <3>2 DEF Invoke
    <3>3. CASE Exit(p) \/ ForcedExit(p) \/ Crash(p) BY <3>3 DEF Exit, ForcedExit, Crash, Dies
    <3> QED BY <1>4, <3>1, <3>2, <3>3
  <2>2. NamingType' BY <1>1, <2>1 DEF NamingType
  <2>3. naming'[p] = {} BY <1>1, <2>1 DEF NamingType, NamingInv, NamesHeld, Before
  <2>4. NamesHeld(p)' BY <2>1, <2>3 DEF NamesHeld, Before, Ending, Up
  <2> QED BY <1>1, <1>3, <2>1, <2>2, <2>4 DEF NamingType
<1>5. CASE BuildZone(p)
  <2>1. /\ UNCHANGED <<naming, conf>> /\ pc[p] = "edges"
        /\ \/ pc' = [pc EXCEPT ![p] = "naming"] /\ todo' = [todo EXCEPT ![p] = Sockets]
           \/ pc' = [pc EXCEPT ![p] = "returned"] /\ todo' = [todo EXCEPT ![p] = {}]
    BY <1>5 DEF BuildZone, Goto, Loop, Return, issued, held
  <2>2. naming'[p] = {} BY <1>1, <2>1 DEF NamingInv, NamesHeld
  <2>3. NamesHeld(p)'
    <3>1. CASE pc'[p] = "naming" /\ todo'[p] = Sockets BY <2>2, <3>1 DEF NamesHeld, Before, Up
    <3>2. CASE pc'[p] = "returned" BY <3>2 DEF NamesHeld, Before, Up
    <3> QED BY <1>1, <2>1, <3>1, <3>2 DEF PcInv
  <2> QED BY <1>1, <1>3, <2>1, <2>3 DEF PcInv, NamingType
<1>6. CASE BindNaming(p)
  <2> DEFINE n == NextSocket(p)
  <2>1. /\ pc[p] = "naming" /\ todo[p] # {} /\ UNCHANGED <<pc, conf>>
        /\ naming' = [naming EXCEPT ![p] = @ \cup {Socket(p, n)}] /\ todo' = [todo EXCEPT ![p] = @ \ {n}]
    BY <1>6 DEF BindNaming, Visited, issued
  <2>2. n \in todo[p] /\ n \in Sockets BY <2>1, NextIsLeft
  <2> HIDE DEF n
  <2>3. Socket(p, n) \in {"udp", "tcp"} \X Nat
    BY <2>1, <2>2, SocketIsPort DEF IInv, ConfInv, Before
  <2>4. NamingType' BY <1>1, <2>1, <2>3 DEF NamingType
  <2>5. naming[p] = {Socket(p, m) : m \in Sockets \ todo[p]} BY <1>1, <2>1 DEF NamingInv, NamesHeld
  <2>6. naming'[p] = naming[p] \cup {Socket(p, n)} /\ todo'[p] = todo[p] \ {n}
    BY <1>1, <2>1 DEF NamingType
  <2>7. naming'[p] = {Socket(p, m) : m \in Sockets \ todo'[p]} BY <2>2, <2>5, <2>6
  <2>8. \A m \in Sockets : Socket(p, m)' = Socket(p, m) BY <2>1 DEF Socket
  <2>9. NamesHeld(p)' BY <2>1, <2>7, <2>8 DEF NamesHeld, Before, Up
  <2> QED BY <1>1, <1>3, <2>1, <2>4, <2>9 DEF PcInv, NamingType
<1>7. CASE NamingUnavailable(p) \/ NamingTaken(p)
  <2>1. /\ UNCHANGED conf /\ pc' = [pc EXCEPT ![p] = "pool"] /\ todo' = [todo EXCEPT ![p] = Managed(p)]
        /\ \/ naming' = [naming EXCEPT ![p] = {}]
           \/ UNCHANGED naming /\ pc[p] = "naming" /\ todo[p] = {}
    BY <1>7 DEF NamingUnavailable, NamingTaken, Loop, issued, held
  <2>2. NamingType' BY <1>1, <2>1 DEF NamingType
  <2>3. naming'[p] = {} \/ naming'[p] = AllSockets(p)
    BY <1>1, <2>1 DEF NamingInv, NamesHeld, NamingType, AllSockets
  <2>4. AllSockets(p)' = AllSockets(p) BY <2>1 DEF AllSockets, Socket
  <2>5. pc'[p] = "pool" BY <1>1, <2>1 DEF PcInv
  <2>6. NamesHeld(p)' BY <2>3, <2>4, <2>5 DEF NamesHeld, Before, Up
  <2> QED BY <1>1, <1>3, <2>1, <2>2, <2>6 DEF PcInv, NamingType
<1> QED BY <1>2, <1>4, <1>5, <1>6, <1>7

-----------------------------------------------------------------------------
(* The rest, and the theorems. *)

(* The part of TypeOK that is about the pool.                              *)
EntriesType == entries \in [Procs -> SUBSET Names] /\ starts \in 0..MaxStarts

\* Every step keeps the pool's entries and the count of starts within their types.
LEMMA EntriesStep ==
  ASSUME IInv, NEW p \in Procs, Touching(p) \/ Elsewhere(p)
  PROVE  EntriesType'
<1>1. EntriesType BY DEF IInv, TypeOK, EntriesType, Names
<1> USE <1>1, OwnerAssumption DEF EntriesType, issued, held
<1>2. CASE Invoke(p)
  <2>1. starts' = starts + 1 /\ starts < MaxStarts /\ UNCHANGED entries BY <1>2 DEF Invoke
  <2> QED BY <2>1
<1>3. CASE NewEntry(p)
  <2>1. NextServer(p) \in Names BY <1>3, NextIsLeft DEF NewEntry
  <2> QED BY <1>3, <2>1 DEF NewEntry
<1>4. CASE Drain(p) BY <1>4 DEF Drain
<1>5. CASE Exit(p) \/ ForcedExit(p) \/ Crash(p) BY <1>5 DEF Exit, ForcedExit, Crash, Dies
<1>6. CASE /\ Touching(p) \/ Elsewhere(p)
           /\ ~(Invoke(p) \/ NewEntry(p) \/ Drain(p) \/ Exit(p) \/ ForcedExit(p) \/ Crash(p))
  <2>1. UNCHANGED <<entries, starts>>
    BY <1>6 DEF Touching, Elsewhere, Probe, Reclaim, Checks, AcquirePair, BuildZone, BindNaming, NamingUnavailable,
       NamingTaken, PoolFails, PoolBuilt, Listen, Chmod, ChmodFailed, Stop, CloseServer, RemoveSocket
  <2> QED BY <2>1
<1> QED BY <1>2, <1>3, <1>4, <1>5, <1>6

\* A step that changes nothing keeps the invariant.
LEMMA Stutter == IInv /\ UNCHANGED vars => IInv'
<1> SUFFICES ASSUME IInv, UNCHANGED vars PROVE IInv' OBVIOUS
<1> USE DEF vars, IInv
<1>1. TypeOK' BY DEF TypeOK
<1>2. (PcInv /\ SocketInv /\ StaleSocketIsReclaimed)'
  BY DEF PcInv, SocketInv, FilesAreOwn, ListenersRun, OwnersAreKnown, PathWasCleared, ProbesAfresh, Reachable,
     StaleSocketIsReclaimed
<1>3. (ConfInv /\ WorkLeft)' BY DEF ConfInv, WorkLeft, Managed
<1>4. PortsInv'
  <2>1. \A p \in Procs : PairsHeld(p) => PairsHeld(p)' BY PairsAreKept
  <2> QED BY <2>1 DEF PortsInv
<1>5. NamingInv' BY NamesAreKept DEF NamingInv
<1> QED BY <1>1, <1>2, <1>3, <1>4, <1>5

\* The inductive invariant holds however many processes there are.
THEOREM Invariance == Spec => []IInv
<1>1. IInv /\ Next => IInv'
  <2> SUFFICES ASSUME IInv, NEW p \in Procs, Touching(p) \/ Elsewhere(p) PROVE IInv'
    BY DEF Next, Start, Finish, Touching, Elsewhere
  <2>1. (SocketType /\ PcInv /\ SocketInv /\ StaleSocketIsReclaimed)' BY SocketStep
  <2>2. ConfInv' /\ DOMAIN todo' = Procs /\ WorkLeft' BY ConfStep, WorkStep
  <2>3. (PortsType /\ PortsInv)' /\ (NamingType /\ NamingInv)' /\ EntriesType' BY PortsStep, NamingStep, EntriesStep
  <2>4. TypeOK' BY <2>1, <2>2, <2>3 DEF TypeOK, SocketType, PortsType, NamingType, EntriesType, Names
  <2> QED BY <2>1, <2>2, <2>3, <2>4 DEF IInv
<1> QED BY InitIInv, <1>1, Stutter, PTL DEF Spec

\* Every variable keeps its type: what the processes hold, know and have been told.
THEOREM TypeCorrect == Spec => []TypeOK
BY Invariance, PTL DEF IInv

\* The file that a process left, wherever it was killed, never makes a bind fail: one fails with
\* "in use" only if another one has bound the path since it probed it.
THEOREM LeftoversNeverBlock == Spec => []StaleSocketIsReclaimed
BY Invariance, PTL DEF IInv

\* Once acquireEdgeListeners is done a process holds exactly the pairs of ports
\* it reports, two different ports for every server and none that another
\* process holds; of the naming sockets it holds all or none.
THEOREM BoundIsReported == Spec => []ListenersAreWhole
<1>1. IInv => ListenersAreWhole
  <2> SUFFICES ASSUME IInv PROVE ListenersAreWhole OBVIOUS
  <2>1. ASSUME NEW p \in Procs,
               pc[p] \in {"naming", "pool", "listen", "chmod", "serving", "closing", "draining"}
        PROVE  /\ edges[p] = UNION {{ports[p][s][1], ports[p][s][2]} : s \in GivenTo(p)}
               /\ Cardinality(edges[p]) = 2 * Cardinality(GivenTo(p))
    BY <2>1 DEF IInv, PortsInv, PairsHeld, Looping, Up
  <2>2. \A p, q \in Procs : p # q => edges[p] \cap edges[q] = {} BY DEF IInv, PortsInv
  <2>3. \A p \in Procs : pc[p] \in {"pool", "listen", "chmod", "serving"} => naming[p] \in {{}, AllSockets(p)}
    BY DEF IInv, NamingInv, NamesHeld, Up
  <2> QED BY <2>1, <2>2, <2>3 DEF ListenersAreWhole, GivenTo, AllSockets, Names
<1> QED BY Invariance, <1>1, PTL

\* A configuration that Validate has let through can be served: a zone can be
\* built of its names, and no two waiting servers share a pin.
THEOREM ValidMeansServable == Spec => []ValidatedIsServable
<1>1. IInv => ValidatedIsServable
  BY ValidIsServable DEF IInv, ConfInv, ValidatedIsServable, Before
<1> QED BY Invariance, <1>1, PTL

\* An owner that still listens loses its path only to a process that probed the
\* path before the owner had bound it, and unlinks it afterwards.
THEOREM OwnersAreDisplacedByRacesOnly == Spec => OnlyARaceDisplaces
<1> DEFINE Displaced(q) == Reachable(q) /\ ~Reachable(q)' /\ q \in listening'
           Raced(q) == \E p \in Others(q) : pc[p] \in {"reclaim", "unusable", "closing", "remove"} /\ q \in joined[p]
<1>1. ASSUME IInv, NEW p \in Procs, Touching(p) \/ Elsewhere(p), NEW q \in Procs, Displaced(q) PROVE Raced(q)
  <2>1. /\ SocketType /\ PcInv /\ FilesAreOwn /\ ListenersRun /\ OwnersAreKnown
    BY <1>1 DEF IInv, TypeOK, SocketType, SocketInv
  <2>2. file' # file BY <1>1 DEF Reachable
  <2>3. Path(q) \in Dirs /\ Path(p) \in Dirs /\ file[Path(q)] = q /\ q # None /\ file'[Path(q)] # q
    BY <1>1, PathIsDir, OwnerAssumption DEF Reachable
  <2>4. ASSUME file' = [file EXCEPT ![Path(p)] = None], pc[p] \in {"reclaim", "unusable", "closing", "remove"}, p # q
        PROVE  Raced(q)
    <3>1. Path(p) = Path(q) BY <2>1, <2>3, <2>4 DEF SocketType
    <3>2. q \in joined[p] BY <1>1, <2>1, <2>4, <3>1 DEF OwnersAreKnown
    <3> QED BY <2>4, <3>2 DEF Others
  <2>5. CASE Reclaim(p)
    <3>1. p # q BY <1>1, <2>1, <2>5 DEF Reclaim, ListenersRun, Reachable
    <3> QED BY <2>2, <2>4, <2>5, <3>1 DEF Reclaim
  <2>6. CASE RemoveSocket(p)
    <3>1. p # q BY <1>1, <2>1, <2>6 DEF RemoveSocket, ListenersRun, Reachable
    <3> QED BY <2>4, <2>6, <3>1 DEF RemoveSocket
  <2>7. CASE ChmodFailed(p) \/ CloseServer(p)
    <3>1. p # q BY <1>1, <2>7 DEF ChmodFailed, CloseServer, CloseListener
    <3> QED BY <2>2, <2>4, <2>7, <3>1 DEF ChmodFailed, CloseServer, CloseListener
  <2>8. CASE Listen(p) BY <2>1, <2>2, <2>3, <2>8 DEF Listen, SocketType, socket
  <2>9. CASE Invoke(p) \/ Probe(p) BY <2>2, <2>9 DEF Invoke, Probe, socket
  <2>10. CASE Exit(p) \/ ForcedExit(p) \/ Crash(p) BY <2>2, <2>10 DEF Exit, ForcedExit, Crash, Dies
  <2>11. CASE Elsewhere(p)
    <3>1. UNCHANGED socket BY <1>1, <2>1, <2>11, ElsewhereMoves DEF IInv
    <3> QED BY <2>2, <3>1 DEF socket
  <2> QED BY <1>1, <2>5, <2>6, <2>7, <2>8, <2>9, <2>10, <2>11 DEF Touching
<1>2. IInv /\ [Next]_vars => [\A q \in Procs : Displaced(q) => Raced(q)]_vars
  BY <1>1 DEF Next, Start, Finish, Touching, Elsewhere
<1> QED BY Invariance, <1>2, PTL DEF Spec, OnlyARaceDisplaces
=============================================================================
