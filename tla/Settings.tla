------------------------------ MODULE Settings ------------------------------
(***************************************************************************)
(* What a client-side command is told and what it makes of it: defaults,   *)
(* file and environment laid over one another (internal/config/config.go), *)
(* the servers given on the command line (cmd/quic-link/server_flags.go),  *)
(* and the checks that the result has to pass (config.go, naming.go,       *)
(* dialable.go, internal/identity/pin.go).                                 *)
(*                                                                         *)
(* A table is a function from the keys that are set to their values.  An   *)
(* address is known by its form and its port, a pin by the key it stands   *)
(* for and by whether it is spelt the one canonical way, a suffix by its   *)
(* labels and by what the normalisation takes away.  The agent's own table *)
(* is in AgentLink.                                                        *)
(***************************************************************************)
EXTENDS Naturals, Sequences, SequencesExt, Functions

CONSTANTS
  ServerOrder,    \* every server name, in sorted order
  ValidLabels,    \* the labels that names.ValidLabel accepts
  Lower,          \* Lower[n]: the name n in lower case
  LocalPortBase,  \* LocalPortBase[n]: the base that the hash of n selects
  All,            \* --server was not given
  NoKey           \* what a pin that does not decode stands for

ASSUME NamesAssumption ==
  /\ ServerOrder \in Seq(STRING) /\ LocalPortBase \in [ToSet(ServerOrder) -> Nat]
  /\ \A n \in ToSet(ServerOrder) \cap ValidLabels : Lower[n] = n

Ok(v) == [ok |-> TRUE, value |-> v]
Invalid == [ok |-> FALSE, value |-> "usage"]

Waiting(srv) == srv.listen.form # "none" /\ srv.addr.form = "none"
EnabledIn(servers) == {n \in DOMAIN servers : servers[n].enabled}

(* What the decoder of a file, the environment and the flags give out. *)
IsPin(pin) ==
  pin = [key |-> pin.key, canonical |-> pin.canonical] /\ pin.canonical \in BOOLEAN
IsServers(servers) ==
  /\ DOMAIN servers \subseteq ToSet(ServerOrder)
  /\ \A n \in DOMAIN servers :
       /\ servers[n].enabled \in BOOLEAN /\ IsPin(servers[n].pin)
       /\ servers[n].ports \in [ssh : Nat, docker : Nat]
IsTable(table) ==
  /\ \A k \in {"dns", "http", "https"} \cap DOMAIN table : table[k] \in Nat
  /\ "servers" \in DOMAIN table => IsServers(table["servers"])

Unset == ""   \* a flag or a setting that was not given
NoAddr == [form |-> "none", port |-> 0]
NoServers == [n \in {} |-> NoAddr]
AutoPorts == [ssh |-> 0, docker |-> 0]

-----------------------------------------------------------------------------
(* Defaults, and a table laid over a configuration. *)
Defaults ==
  [schema |-> 0, warnAge |-> 180, refuseOld |-> FALSE, level |-> "info", format |-> "text",
   suffix |-> [labels |-> << >>, upper |-> FALSE, dot |-> FALSE], mine |-> FALSE,
   dns |-> 0, http |-> 0, https |-> 0, servers |-> NoServers]

Overlay(cfg, table) == [k \in DOMAIN cfg |-> IF k \in DOMAIN table THEN table[k] ELSE cfg[k]]

(* A missing file is no error at the default location.  A removed key, an  *)
(* unknown one and a value of the wrong type refuse the whole file.        *)
FileInUse(cmd) == IF cmd.path = Unset THEN "default" ELSE cmd.path

Refused == {"unreadable", "removedKey", "unknownKey", "typeError"}

loadFile(cmd, files) ==
  LET f == files[FileInUse(cmd)] IN
  CASE f.is = "absent" -> IF cmd.path = Unset THEN Ok(Defaults) ELSE Invalid
    [] f.is \in Refused -> Invalid
    [] f.is = "settings" -> Ok(Overlay(Defaults, f.table))

(* A variable sets one value; tables cannot be set.  A value that does not *)
(* parse and a removed variable are refused, an unknown one is ignored.    *)
EnvKeys == DOMAIN Defaults \ {"servers"}
RemovedVars == {"portsMode", "namesBlock"}

mergeEnv(cfg, env) ==
  IF env.malformed \cap EnvKeys # {} \/ env.others \cap RemovedVars # {} THEN Invalid
  ELSE Ok(Overlay(cfg, Restrict(env.table, DOMAIN env.table \cap EnvKeys)))

Load(cmd, files) ==
  LET file == loadFile(cmd, files)
      cfg == IF file.ok THEN mergeEnv(file.value, cmd.env) ELSE file IN
  IF ~cfg.ok \/ cfg.value.schema \notin {0, 1} THEN Invalid
  ELSE Ok([cfg.value EXCEPT !.schema = 1])

(* persistentPreRun: the file is read before the command's own code runs,  *)
(* and the two log settings have to be known ones.                         *)
LevelOf(cmd, cfg) == IF cmd.level = Unset THEN cfg.level ELSE cmd.level

persistentPreRun(cmd, files) ==
  LET cfg == Load(cmd, files) IN
  IF ~cfg.ok THEN cfg
  ELSE IF LevelOf(cmd, cfg.value) \notin {"debug", "info", "warn", "error"}
          \/ cfg.value.format \notin {Unset, "text", "json"} THEN Invalid
  ELSE cfg

-----------------------------------------------------------------------------
(* Pins.  ParsePin repairs the spelling, ParsePinStrict refuses to.        *)
ParsePin(pin) == IF pin.key = NoKey THEN Invalid ELSE Ok([pin EXCEPT !.canonical = TRUE])

ParsePinStrict_Repairs(pin) == ParsePin(pin)

ParsePinStrict(pin) ==
  LET p == ParsePin(pin) IN IF ~p.ok \/ p.value # pin THEN Invalid ELSE p

(* One --server-add or --server-pin: a servable name, a value, once. *)
ValidateServerName(n) == n \in ValidLabels

Accepted(specs) ==
  /\ \A i \in DOMAIN specs : ValidateServerName(specs[i].name) /\ specs[i].given
  /\ \A i, j \in DOMAIN specs : specs[i].name = specs[j].name => i = j

Given(specs) == {specs[i].name : i \in DOMAIN specs}
ValueOf(specs, n) == LET i == CHOOSE i \in DOMAIN specs : specs[i].name = n IN specs[i].value

(* applyServerFlags: an address and a pin for the same names, and then the *)
(* file's servers count no more.                                           *)
applyServerFlags(cfg, adds, pins) ==
  IF adds = << >> /\ pins = << >> THEN Ok(cfg)
  ELSE IF Given(adds) # Given(pins) \/ \E n \in Given(pins) : ~ParsePin(ValueOf(pins, n)).ok THEN Invalid
  ELSE Ok([cfg EXCEPT !.servers =
             [n \in Given(adds) |->
                [enabled |-> TRUE, addr |-> ValueOf(adds, n), listen |-> NoAddr,
                 pin |-> ValueOf(pins, n), ports |-> AutoPorts]]])

-----------------------------------------------------------------------------
(* Validate, for the client role. *)
isReservedSuffix(labels) ==
  \E r \in {<<"internal">>, <<"home", "arpa">>, <<"test">>} : IsSuffix(r, labels)

(* The normalised suffix; "." has one label, which is empty. *)
resolveSuffix(suffix, mine) ==
  LET labels == suffix.labels IN
  IF labels = << >> THEN Ok(<<"internal">>)
  ELSE IF \/ ~ToSet(labels) \subseteq ValidLabels
          \/ IsSuffix(<<"arpa">>, labels) /\ ~isReservedSuffix(labels)
          \/ labels \in {<<"local">>, <<"localhost">>}
          \/ ~isReservedSuffix(labels) /\ ~mine THEN Invalid
  ELSE Ok(labels)

lowestUnprivilegedPort == 1024
resolveNamingPort(value, def) ==
  IF value = 0 THEN Ok(def)
  ELSE IF value < lowestUnprivilegedPort \/ value > 65535 THEN Invalid ELSE Ok(value)

Naming(cfg) ==
  LET suffix == resolveSuffix(cfg.suffix, cfg.mine)
      dns == resolveNamingPort(cfg.dns, 15353)
      http == resolveNamingPort(cfg.http, 18080)
      https == resolveNamingPort(cfg.https, 18443) IN
  IF ~(suffix.ok /\ dns.ok /\ http.ok /\ https.ok) THEN Invalid
  ELSE IF dns.value = http.value \/ dns.value = https.value \/ http.value = https.value THEN Invalid
  ELSE Ok([suffix |-> suffix.value, dns |-> dns.value, http |-> http.value, https |-> https.value])

(* Exactly one direction, and a pin in its canonical spelling. *)
ValidateServerSettings(srv) ==
  (srv.addr.form = "none") # (srv.listen.form = "none") /\ ParsePinStrict(srv.pin).ok

validateServer(n, srv) == ValidateServerName(n) /\ ValidateServerSettings(srv)

(* Two enabled servers that wait may not be pinned to one key; the pins    *)
(* are compared as they are written.                                       *)
validateDistinctListenPins(servers) ==
  \A m, n \in EnabledIn(servers) :
     m # n /\ Waiting(servers[m]) /\ Waiting(servers[n]) => servers[m].pin # servers[n].pin

validateServers(servers) ==
  /\ \A n \in EnabledIn(servers) : validateServer(n, servers[n])
  /\ validateDistinctListenPins(servers)

Validate(cfg) == Naming(cfg).ok /\ validateServers(cfg.servers)

-----------------------------------------------------------------------------
(* What the settings are used for once they are valid. *)
NewZone(servers) == \A n \in EnabledIn(servers) : Lower[n] \in ValidLabels

DialableAddr(addr) == addr.form = "host:port"

LocalPorts(n, override) ==
  <<IF override.ssh # 0 THEN override.ssh ELSE LocalPortBase[n],
    IF override.docker # 0 THEN override.docker ELSE LocalPortBase[n] + 1>>

-----------------------------------------------------------------------------
(* newDaemonCmd and runDaemonOwner up to the socket: the flags, the file,  *)
(* the servers that replace the file's, and the one server of --server.    *)
Scoped(cfg, scope) ==
  IF scope = All THEN Ok(cfg)
  ELSE IF scope \notin DOMAIN cfg.servers THEN Invalid
  ELSE IF ~cfg.servers[scope].enabled THEN [ok |-> FALSE, value |-> "disabled"]
  ELSE Ok([cfg EXCEPT !.servers = Restrict(@, {scope})])

DaemonSettings(cmd, files) ==
  IF ~Accepted(cmd.adds) \/ ~Accepted(cmd.pins) THEN Invalid
  ELSE LET loaded == persistentPreRun(cmd, files)
           flagged == IF loaded.ok THEN applyServerFlags(loaded.value, cmd.adds, cmd.pins) ELSE loaded
           cfg == IF flagged.ok THEN Scoped(flagged.value, cmd.scope) ELSE flagged IN
       IF cfg.ok /\ DOMAIN cfg.value.servers = {} THEN Invalid ELSE cfg
=============================================================================
