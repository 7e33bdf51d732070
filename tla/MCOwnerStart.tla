---------------------------- MODULE MCOwnerStart ----------------------------
(* Two daemons compete for one path, for the naming ports and, if both     *)
(* were given the same file, for a server's address; the base blocks of    *)
(* the two servers overlap.  A second file has a server that is off and    *)
(* one that can never be dialled, a third two waiting servers with one     *)
(* key, spelt twice, the first of which has a port with none ten above it, *)
(* and a fourth a server whose name no hostname may have.                  *)
EXTENDS OwnerStart

MCEnv == [p \in Procs |-> [xdg |-> FALSE, tmpdir |-> "long"]]
MCServerOrder == <<"Bad", "a_b", "off", "one", "two">>
MCValidLabels == {"bad", "off", "one", "two", "internal", "lab"}
MCLower == [n \in ToSet(MCServerOrder) |-> IF n = "Bad" THEN "bad" ELSE n]
MCLocalPortBase == [n \in ToSet(MCServerOrder) |-> 42000]

Pin(k) == [key |-> k, canonical |-> TRUE]
Sloppy(k) == [Pin(k) EXCEPT !.canonical = FALSE]
At(f, n) == [form |-> f, port |-> n]
Dials(a, p) == [enabled |-> TRUE, addr |-> a, listen |-> NoAddr, pin |-> p, ports |-> AutoPorts]
Waits(a, p) == [Dials(NoAddr, p) EXCEPT !.listen = a]

MCFiles ==
  [default |-> [is |-> "settings", table |->
     [refuseOld |-> TRUE,
      servers |-> [one |-> Dials(At("host:port", 443), Pin("k1")),
                   two |-> [Waits(At(":port", 4433), Pin("k2")) EXCEPT !.ports.docker = 42011]]]],
   other |-> [is |-> "settings", table |->
     [servers |-> [off |-> [Dials(NoAddr, Pin(NoKey)) EXCEPT !.enabled = FALSE],
                   one |-> Dials(At(":port", 443), Pin("k1"))]]],
   shared |-> [is |-> "settings", table |->
     [suffix |-> [labels |-> <<"lab", "internal">>, upper |-> TRUE, dot |-> TRUE],
      servers |-> [one |-> [Waits(At(":port", 4434), Pin("k1")) EXCEPT !.ports.docker = 65535],
                   two |-> Waits(At(":port", 4435), Sloppy("k1"))]]],
   unservable |-> [is |-> "settings", table |->
     [servers |-> [n \in {"a_b"} |-> Dials(At("host:port", 443), Pin("k1"))]]],
   missing |-> [is |-> "absent"],
   broken |-> [is |-> "unknownKey"]]

NoEnv == [table |-> [n \in {} |-> 0], malformed |-> {}, others |-> {}]
Plain == [path |-> "", level |-> "", env |-> NoEnv, adds |-> << >>, pins |-> << >>, scope |-> All]
Spec1(n, v) == [name |-> n, given |-> TRUE, value |-> v]

MCCommands ==
  [all |-> Plain,
   portonly |-> [Plain EXCEPT !.path = "other"],
   disabled |-> [Plain EXCEPT !.path = "other", !.scope = "off"],
   unknown |-> [Plain EXCEPT !.scope = "Bad"],
   shared |-> [Plain EXCEPT !.path = "shared"],
   narrowed |-> [Plain EXCEPT !.path = "shared", !.scope = "one"],
   unservable |-> [Plain EXCEPT !.path = "unservable"],
   missing |-> [Plain EXCEPT !.path = "missing"],
   broken |-> [Plain EXCEPT !.path = "broken"],
   removed |-> [Plain EXCEPT !.env.others = {"portsMode"}],
   privileged |-> [Plain EXCEPT !.env.table = [dns |-> 53]],
   pinless |-> [Plain EXCEPT !.adds = <<Spec1("one", At("host:port", 443))>>],
   sloppy |-> [Plain EXCEPT !.adds = <<Spec1("one", At("host:port", 443))>>,
                            !.pins = <<Spec1("one", Sloppy("k1"))>>],
   badname |-> [Plain EXCEPT !.adds = <<Spec1("Bad", At("host:port", 443))>>,
                             !.pins = <<Spec1("Bad", Pin("k1"))>>]]
=============================================================================
