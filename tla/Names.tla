-------------------------------- MODULE Names --------------------------------
(***************************************************************************)
(* The naming plane's decisions, as operators: what a name is, which       *)
(* server it belongs to (internal/names/names.go), what the responder says *)
(* of it (dns.go), and how a connection's own bytes are read for the name  *)
(* it is for (host.go, sni.go).                                            *)
(*                                                                         *)
(* A name is the sequence of its labels.  A host as a client writes it is  *)
(* a record: the labels, and what may surround them.  A request is the     *)
(* sequence of its header lines, a TLS greeting the sequence of its        *)
(* records; one line, and one piece of a record, is one unit of length.    *)
(***************************************************************************)
EXTENDS Naturals, Sequences, SequencesExt

CONSTANTS
  Suffix,          \* the labels of the zone's suffix
  Managed,         \* the servers the zone was built with
  ValidLabels,     \* the labels that ValidLabel accepts
  MaxHeaderBytes,  \* how much is read in search of a name
  None

ProbeLabel == "_probe"
Discovery == <<"_dns", "resolver", "arpa">>

ASSUME NamesAssumption ==
  /\ Suffix \in Seq(STRING) /\ Suffix # << >> /\ MaxHeaderBytes \in Nat \ {0}
  /\ Managed \cup ToSet(Suffix) \subseteq ValidLabels
  /\ ProbeLabel \notin ValidLabels

Ok(v) == [ok |-> TRUE, value |-> v]
Err(e) == [ok |-> FALSE, value |-> e]

-----------------------------------------------------------------------------
(* The zone. *)
InSuffix(name) == IsSuffix(Suffix, name)

(* The label before the suffix is the server, what precedes it the service. *)
ServerOf(name) == name[Len(name) - Len(Suffix)]

Split(name) ==
  IF ~InSuffix(name) \/ name = Suffix THEN Err("outside")
  ELSE Ok([server |-> ServerOf(name), service |-> SubSeq(name, 1, Len(name) - Len(Suffix) - 1)])

Manages(s) == s \in Managed

(* probeLabel: one label, the probe's mark, the suffix. *)
IsProbe(name) ==
  /\ Len(name) = Len(Suffix) + 2 /\ InSuffix(name) /\ name[2] = ProbeLabel

(* Respond: what the responder says to a message; a query is what kind of  *)
(* message it is and its questions, each a name, whose case does not       *)
(* matter, and a type.                                                     *)
AnswerTo(name, type) ==
  LET found == IF type = "A" THEN "loopback" ELSE "empty" IN
  IF name = Discovery THEN "empty"
  ELSE IF ~InSuffix(name) THEN "refused"
  ELSE IF IsProbe(name) THEN found
  ELSE IF name = Suffix THEN "empty"
  ELSE IF ~(Split(name).ok /\ Manages(Split(name).value.server)) THEN "nameError"
  ELSE found

Respond(query) ==
  IF query.kind # "query" THEN "dropped"
  ELSE IF Len(query.questions) # 1 THEN "formatError"
  ELSE AnswerTo(query.questions[1].name, query.questions[1].type)

-----------------------------------------------------------------------------
(* A host as written: its labels, whether in capitals or with a final dot, *)
(* its port, and the forms that are no name.                               *)
Hosts == [labels : Seq(STRING), form : {"name", "address", "bracketed", "credentials"},
          port : {"none", "digits", "junk"}, dot : BOOLEAN, upper : BOOLEAN]

Empty(h) == h.form = "name" /\ h.labels = << >>

(* The empty string; a port or a dot alone is not, although it is no host. *)
Blank(h) == Empty(h) /\ h.port = "none" /\ ~h.dot

LabelsOf(h) == IF ToSet(h.labels) \subseteq ValidLabels THEN Ok(h.labels) ELSE Err("malformed")

NormalizeHost_KeepsPort(h) ==
  CASE Empty(h) -> Err("noHost")
    [] h.form = "credentials" -> Err("malformed")
    [] h.form \in {"address", "bracketed"} -> Err("address")
    [] OTHER -> IF h.port # "none" THEN Err("malformed") ELSE LabelsOf(h)

NormalizeHost(h) ==
  CASE Empty(h) -> Err("noHost")
    [] h.form = "credentials" -> Err("malformed")
    [] h.form = "bracketed" -> Err("address")
    [] h.form \in {"name", "address"} /\ ~Empty(h) ->
         IF h.port = "junk" THEN Err("malformed")
         ELSE IF h.form = "address" THEN Err("address") ELSE LabelsOf(h)

(* Route: the server a host names, if it is this machine's business. *)
Route(h) ==
  LET n == NormalizeHost(h) IN
  IF ~n.ok THEN n
  ELSE IF ~InSuffix(n.value) \/ ~Split(n.value).ok THEN Err("outside")
  ELSE IF ~Manages(Split(n.value).value.server) THEN Err("noServer")
  ELSE Ok([server |-> Split(n.value).value.server, host |-> n.value])

EqualFold(g, h) == [g EXCEPT !.upper = FALSE] = [h EXCEPT !.upper = FALSE]

-----------------------------------------------------------------------------
(* The header of a request: a line with a target, which may name a host,   *)
(* then fields, any of which may be a Host; the end of the header.         *)
Lines == [is : {"target", "host", "other", "broken", "end"}, host : Hosts \cup {None}]
IsRequest(lines) ==
  /\ lines \in Seq(Lines)
  /\ \A i \in DOMAIN lines : /\ lines[i].is = "target" => i = 1
                             /\ lines[i].is = "host" => lines[i].host # None

HostFields(lines) == {i \in DOMAIN lines \ {1} : lines[i].is = "host"}

(* HeaderEnd: how many units the header takes, or 0 while it is not over.  *)
HeaderEnd(lines) ==
  LET ends == {i \in DOMAIN lines : lines[i].is = "end"} IN
  IF ends = {} THEN 0 ELSE CHOOSE i \in ends : \A j \in ends : i <= j

HostFromRequest(header) ==
  LET lines == SubSeq(header, 1, Len(header) - 1)
      target == lines[1].host
      found == lines[CHOOSE i \in HostFields(lines) : TRUE].host IN
  IF lines = << >> \/ lines[1].is # "target" \/ \E i \in DOMAIN lines : lines[i].is = "broken" THEN Err("malformed")
  ELSE IF \E i, j \in HostFields(lines) : i # j THEN Err("ambiguous")
  ELSE IF HostFields(lines) = {} THEN (IF target = None THEN Err("noHost") ELSE Ok(target))
  ELSE IF target # None /\ ~EqualFold(target, found) THEN Err("ambiguous")
  ELSE IF Empty(found) THEN Err("noHost")
  ELSE Ok(found)

-----------------------------------------------------------------------------
(* A TLS greeting: records, each a unit of header and some units of the    *)
(* handshake message, whose first unit says what it is (hello) and how     *)
(* long it is (want).  A greeting whose inner lengths overrun it is short; *)
(* alert stands for every record that is no handshake.  Of the extensions, *)
(* those that are no server_name and the entries that are no host_name are *)
(* skipped and left out; one that overruns, in itself or inside, is broken.*)
Extensions == [is : {"serverName", "broken"}, names : Seq(Hosts)]
IsGreeting(tls) ==
  tls \in [records : Seq([type : {"handshake", "alert"}, size : Nat]), want : Nat,
           hello : {"client", "other", "short"}, extensions : Seq(Extensions)]

Gathered(records, k) ==
  LET sum[i \in 0..Len(records)] == IF i = 0 THEN 0 ELSE sum[i - 1] + records[i].size IN sum[k]
Start(records, i) == Gathered(records, i - 1) + (i - 1)
MaxRecord == MaxHeaderBytes

(* What has arrived of record i, and whether it is one to refuse. *)
Begun(tls, arrived, i) == i \in DOMAIN tls.records /\ arrived >= Start(tls.records, i) + 1
Whole(tls, arrived, i) == i \in DOMAIN tls.records /\ arrived >= Start(tls.records, i + 1)
Bad(tls, arrived, i) ==
  Begun(tls, arrived, i) /\ (tls.records[i].type # "handshake" \/ tls.records[i].size \notin 1..MaxRecord)
Over(tls, arrived, i) == Whole(tls, arrived, i) /\ Gathered(tls.records, i) > MaxHeaderBytes

(* SNIFromClientHello reads record after record while the message is not   *)
(* complete, and asks for more as soon as one has not arrived in full.     *)
ReadTo(tls, arrived, i) ==
  \A j \in 1..i : /\ Whole(tls, arrived, j) /\ ~Bad(tls, arrived, j) /\ ~Over(tls, arrived, j)
                  /\ j < i => Gathered(tls.records, j) < tls.want
LastRead(tls, arrived) ==
  CHOOSE i \in 0..Len(tls.records) : ReadTo(tls, arrived, i) /\ ~ReadTo(tls, arrived, i + 1)

(* The walk over one list: a name that is not the first found is refused,  *)
(* and the empty string counts as none found.                              *)
OneName(names) ==
  IF \E i \in 1..(Len(names) - 1) : ~Blank(names[i]) THEN Err("ambiguous")
  ELSE IF names = << >> \/ Blank(names[Len(names)]) THEN Err("noSni")
  ELSE Ok(names[Len(names)])

(* The walk over the extensions returns from the first server_name.        *)
NameOf(extensions) ==
  IF extensions = << >> THEN Err("noSni")
  ELSE IF extensions[1].is = "broken" THEN Err("malformed")
  ELSE OneName(extensions[1].names)

SNIFromClientHello(tls, arrived) ==
  LET last == LastRead(tls, arrived)
      hs == Gathered(tls.records, last)
  IN IF hs < tls.want /\ (Bad(tls, arrived, last + 1) \/ Over(tls, arrived, last + 1)) THEN Err("malformed")
     ELSE IF hs = 0 \/ (hs < tls.want /\ Begun(tls, arrived, last + 1)) THEN Err("more")
     ELSE IF tls.hello = "other" THEN Err("malformed")
     ELSE IF hs < tls.want \/ tls.hello = "short" THEN Err("more")
     ELSE NameOf(tls.extensions)

(* What a client sends to an edge. *)
IsStream(stream) ==
  \/ stream.kind = "http" /\ IsRequest(stream.lines)
  \/ stream.kind = "https" /\ IsGreeting(stream.tls)

(* name: what a peeker makes of the first units of a stream, where "more"  *)
(* means to read on.                                                       *)
name_StopsAtHost(stream, arrived) ==
  IF stream.kind = "https" THEN SNIFromClientHello(stream.tls, arrived)
  ELSE LET got == SubSeq(stream.lines, 1, arrived) IN
       IF HeaderEnd(got) # 0 THEN HostFromRequest(SubSeq(got, 1, HeaderEnd(got)))
       ELSE IF HostFields(got) # {} THEN HostFromRequest(Append(got, [is |-> "end", host |-> None]))
       ELSE Err("more")

name(stream, arrived) ==
  IF stream.kind = "https" THEN SNIFromClientHello(stream.tls, arrived)
  ELSE LET got == SubSeq(stream.lines, 1, arrived) IN
       IF HeaderEnd(got) = 0 THEN Err("more") ELSE HostFromRequest(SubSeq(got, 1, HeaderEnd(got)))

Length(stream) ==
  IF stream.kind = "https" THEN Start(stream.tls.records, Len(stream.tls.records) + 1) ELSE Len(stream.lines)
==============================================================================
