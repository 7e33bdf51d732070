------------------------------- MODULE NameEdge -------------------------------
(***************************************************************************)
(* The naming plane at work: clients look a name up and connect to a       *)
(* name-routed edge, which reads their bytes as they come until it knows   *)
(* where they want to go (HostEdge.peek and handle, internal/edge/http.go);*)
(* and diagnosis runs send a marked name through the system's resolver and *)
(* ask the daemon whether it arrived (doctor.go, Zone.noteProbe and        *)
(* Zone.SawProbe).                                                         *)
(*                                                                         *)
(* What happens to a connection once it is routed is in DaemonRun.         *)
(***************************************************************************)
EXTENDS Names, FiniteSets

CONSTANTS
  Conns,      \* connections to the edges
  Lookups,    \* what clients may send to the responder
  Streams,    \* what clients may send to an edge
  Written,    \* the ways to write a host: everything around its labels
  Chunk,      \* how much one Read returns at most
  Doctors,    \* runs of the diagnosis; each one has a label of its own
  MaxProbes,  \* more probe labels than this are all forgotten
  MaxArrivals \* bound: how often a run's query reaches the responder

ASSUME EdgeAssumption ==
  /\ Chunk \in Nat \ {0} /\ MaxProbes \in Nat /\ MaxArrivals \in Nat
  /\ Doctors \subseteq STRING /\ Doctors \cap ValidLabels = {}
  /\ None \notin Hosts \cup {"loopback"}

(* What clients send is what the parsers take it for; nobody but a run     *)
(* itself knows the label it will ask for; and a plain request is shorter  *)
(* than the edge's patience.                                               *)
ASSUME ClientsAssumption ==
  /\ \A s \in Streams : IsStream(s)
  /\ \A w \in Written : w \in Hosts /\ w.form = "name" /\ w.port # "junk"
  /\ \A q \in Lookups :
       /\ q \in [kind : STRING, questions : Seq([name : Seq(STRING), type : STRING])]
       /\ \A i \in DOMAIN q.questions : ToSet(q.questions[i].name) \cap Doctors = {}
  /\ MaxHeaderBytes >= 4

VARIABLES
  looked,    \* looked[c]: what the client of c sent to the responder, or None
  answer,    \* answer[c]: what the responder said
  stream,    \* stream[c]: what the client sends to the edge
  honest,    \* honest[c]: it is a plain request for the name that was answered
  arrived,   \* arrived[c]: how much of it peek has read
  state,     \* idle, peeking, routed, refused, tooLong, gone
  server,    \* server[c]: where it was routed
  probes,    \* Zone.probes
  doctor,    \* doctor[d]: idle, asking, or the verdict: reached, missed
  arrivals,  \* arrivals[d]: how often d's query has reached the responder
  reached,   \* history: the runs whose query came before their verdict
  forgotten  \* history: those whose label was dropped to make room

client == <<looked, answer, stream, honest, arrived, state, server>>
latch == <<probes, reached, forgotten>>
vars == <<client, latch, doctor, arrivals>>

TypeOK ==
  /\ looked \in [Conns -> Lookups \cup {None}]
  /\ answer \in [Conns -> {"loopback", "empty", "refused", "nameError", "formatError", "dropped", None}]
  /\ DOMAIN stream = Conns /\ \A c \in Conns : state[c] # "idle" => IsStream(stream[c])
  /\ honest \in [Conns -> BOOLEAN] /\ arrived \in [Conns -> Nat]
  /\ state \in [Conns -> {"idle", "peeking", "routed", "refused", "tooLong", "gone"}]
  /\ server \in [Conns -> Managed \cup {None}]
  /\ probes \subseteq STRING /\ IsFiniteSet(probes)
  /\ doctor \in [Doctors -> {"idle", "asking", "reached", "missed"}]
  /\ arrivals \in [Doctors -> 0..MaxArrivals]
  /\ reached \subseteq Doctors /\ forgotten \subseteq STRING

Init ==
  /\ looked = [c \in Conns |-> None] /\ answer = [c \in Conns |-> None]
  /\ stream = [c \in Conns |-> None] /\ honest = [c \in Conns |-> FALSE]
  /\ arrived = [c \in Conns |-> 0] /\ state = [c \in Conns |-> "idle"]
  /\ server = [c \in Conns |-> None]
  /\ probes = {} /\ doctor = [d \in Doctors |-> "idle"]
  /\ arrivals = [d \in Doctors |-> 0]
  /\ reached = {} /\ forgotten = {}

-----------------------------------------------------------------------------
(* noteProbe: the label is kept, and all others are dropped first if there *)
(* are too many.                                                           *)
noteProbe(label) ==
  LET full == Cardinality(probes) > MaxProbes IN
  /\ probes' = (IF full THEN {} ELSE probes) \cup {label}
  /\ forgotten' = (IF full THEN forgotten \cup probes ELSE forgotten)
                    \ {d \in Doctors : d = label /\ doctor[d] = "asking"}

(* serveUDP answers one message, and what it answers to a probe it notes.  *)
Serve(query) ==
  IF Respond(query) \in {"loopback", "empty"} /\ IsProbe(query.questions[1].name)
  THEN noteProbe(query.questions[1].name[1])
  ELSE UNCHANGED <<probes, forgotten>>

-----------------------------------------------------------------------------
(* A plain request for a host, of either kind. *)
Plain(kind, h) ==
  IF kind = "http"
  THEN [kind |-> "http",
        lines |-> <<[is |-> "target", host |-> None], [is |-> "other", host |-> None],
                    [is |-> "host", host |-> h], [is |-> "end", host |-> None]>>]
  ELSE [kind |-> "https",
        tls |-> [records |-> <<[type |-> "handshake", size |-> 1], [type |-> "handshake", size |-> 1]>>,
                 want |-> 2, hello |-> "client", extensions |-> <<[is |-> "serverName", names |-> <<h>>]>>]]

AskedName(c) == looked[c].questions[1].name

(* A client looks a name up and then connects for that name, or sends      *)
(* whatever it likes.                                                      *)
Lookup(c) ==
  /\ state[c] = "idle" /\ looked[c] = None
  /\ \E q \in Lookups :
     /\ looked' = [looked EXCEPT ![c] = q]
     /\ answer' = [answer EXCEPT ![c] = Respond(q)]
     /\ Serve(q)
  /\ UNCHANGED <<stream, honest, arrived, state, server, reached, doctor, arrivals>>

Connect(c) ==
  /\ state[c] = "idle" /\ answer[c] = "loopback"
  /\ state' = [state EXCEPT ![c] = "peeking"] /\ honest' = [honest EXCEPT ![c] = TRUE]
  /\ \E kind \in {"http", "https"}, w \in Written :
       stream' = [stream EXCEPT ![c] = Plain(kind, [w EXCEPT !.labels = AskedName(c)])]
  /\ UNCHANGED <<looked, answer, arrived, server, latch, doctor, arrivals>>

ConnectUnasked(c) ==
  /\ state[c] = "idle" /\ looked[c] = None /\ state' = [state EXCEPT ![c] = "peeking"]
  /\ \E s \in Streams : stream' = [stream EXCEPT ![c] = s]
  /\ UNCHANGED <<looked, answer, honest, arrived, server, latch, doctor, arrivals>>

(* One turn of peek's loop and, once the name is known, Route. *)
Peek(c) ==
  /\ state[c] = "peeking"
  /\ \E n \in 1..Chunk :
     /\ arrived[c] + n <= Length(stream[c])
     /\ arrived' = [arrived EXCEPT ![c] = @ + n]
     /\ LET said == name(stream[c], arrived[c] + n)
            to == Route(said.value)
            limit == arrived[c] + n >= MaxHeaderBytes IN
        \/ /\ ~said.ok /\ said.value = "more" /\ UNCHANGED server
           /\ state' = [state EXCEPT ![c] = IF limit THEN "tooLong" ELSE @]
        \/ /\ ~said.ok /\ said.value # "more" /\ UNCHANGED server
           /\ state' = [state EXCEPT ![c] = "refused"]
        \/ /\ said.ok /\ ~to.ok /\ UNCHANGED server
           /\ state' = [state EXCEPT ![c] = "refused"]
        \/ /\ said.ok /\ to.ok /\ state' = [state EXCEPT ![c] = "routed"]
           /\ server' = [server EXCEPT ![c] = to.value.server]
  /\ UNCHANGED <<looked, answer, stream, honest, latch, doctor, arrivals>>

(* The client goes away, or peekDeadline passes. *)
PeekEnds(c) ==
  /\ state[c] = "peeking" /\ state' = [state EXCEPT ![c] = "gone"]
  /\ UNCHANGED <<looked, answer, stream, honest, arrived, server, latch, doctor, arrivals>>

-----------------------------------------------------------------------------
(* diagnose looks up a name of its own through the machine's resolver,     *)
(* which may ask this responder once, again, late or not at all.           *)
StartProbe(d) ==
  /\ doctor[d] = "idle" /\ doctor' = [doctor EXCEPT ![d] = "asking"]
  /\ UNCHANGED <<client, latch, arrivals>>

ProbeName(d) == <<d, ProbeLabel>> \o Suffix

ProbeArrives(d) ==
  /\ doctor[d] # "idle" /\ arrivals[d] < MaxArrivals
  /\ arrivals' = [arrivals EXCEPT ![d] = @ + 1]
  /\ \E t \in {"A", "AAAA"} :
       Serve([kind |-> "query", questions |-> <<[name |-> ProbeName(d), type |-> t]>>])
  /\ reached' = IF doctor[d] = "asking" THEN reached \cup {d} ELSE reached
  /\ UNCHANGED <<client, doctor>>

(* The lookup has returned or timed out: askDaemon, DoctorJSON, SawProbe. *)
SawProbe_Any(d) ==
  /\ doctor[d] = "asking"
  /\ doctor' = [doctor EXCEPT ![d] = IF probes # {} THEN "reached" ELSE "missed"]
  /\ probes' = probes \ {d}
  /\ UNCHANGED <<client, reached, forgotten, arrivals>>

SawProbe(d) ==
  /\ doctor[d] = "asking"
  /\ doctor' = [doctor EXCEPT ![d] = IF d \in probes THEN "reached" ELSE "missed"]
  /\ probes' = probes \ {d}
  /\ UNCHANGED <<client, reached, forgotten, arrivals>>

Next ==
  \/ \E c \in Conns : Lookup(c) \/ Connect(c) \/ ConnectUnasked(c) \/ Peek(c) \/ PeekEnds(c)
  \/ \E d \in Doctors : StartProbe(d) \/ ProbeArrives(d) \/ SawProbe(d)

Spec == Init /\ [][Next]_vars

-----------------------------------------------------------------------------
(* Every host that a complete stream names: in its request line or any of  *)
(* its headers, or anywhere in its greeting's first server_name extension. *)
(* TLS forbids a second one; SNIFromClientHello does not look for it, so   *)
(* nothing is said of a reader who takes that one instead.                 *)
Named(s) ==
  IF s.kind = "https"
  THEN UNION {{h \in ToSet(s.tls.extensions[i].names) : ~Blank(h)} : i \in DOMAIN s.tls.extensions \cap {1}}
  ELSE LET header == SubSeq(s.lines, 1, HeaderEnd(s.lines)) IN
       {header[i].host : i \in {j \in DOMAIN header : header[j].is \in {"target", "host"} /\ header[j].host # None}}

(* Every host that a routed connection names, in its request line, its     *)
(* headers or the server_name its greeting begins with, is a name inside   *)
(* the zone of the one server it went to.                                  *)
OnlyOneReading ==
  \A c \in Conns : state[c] = "routed" =>
    \A h \in Named(stream[c]) :
      LET n == NormalizeHost(h) IN
      n.ok /\ IsSuffix(<<server[c]>> \o Suffix, n.value) /\ server[c] \in Managed

(* What peek decides on a prefix is what it would decide had everything    *)
(* come at once, and it gives up for length only on a stream that has not  *)
(* said, at any point of its first MaxHeaderBytes, where it wants to go.   *)
(* (Which of the two ways to be turned away it takes does depend on the    *)
(* packets: a greeting that is no ClientHello is malformed at the end of a *)
(* record and unfinished in the middle of the next one.)                   *)
PacketsDoNotDecide ==
  \A c \in Conns : state[c] \in {"routed", "refused", "tooLong"} =>
    LET all == name(stream[c], Length(stream[c]))
        to == Route(all.value) IN
    CASE state[c] = "routed"  -> all.ok /\ to.ok /\ to.value.server = server[c]
      [] state[c] = "refused" -> ~(all.ok /\ to.ok)
      [] OTHER -> \A k \in 1..MaxHeaderBytes : ~name(stream[c], k).ok

(* Where a connection goes depends on what was sent, not on how it was cut *)
(* into packets (http.go:172-214), and whoever reads all of the request,   *)
(* or the list of names in the greeting's first server_name extension, can *)
(* come to no other server (host.go:39-100 and sni.go:86-128: a routing    *)
(* decision that two parties can disagree about is one that can be         *)
(* steered).                                                               *)
RoutedAsSent == OnlyOneReading /\ PacketsDoNotDecide

(* "Two names is two answers about where this is going" (sni.go:119): no   *)
(* greeting is routed that names another server in any of its server_name  *)
(* extensions.  The code holds this of each one it reads, and it reads one.*)
NoSecondAnswer ==
  \A c \in Conns : (state[c] = "routed" /\ stream[c].kind = "https") =>
    \A i \in DOMAIN stream[c].tls.extensions :
      \A h \in ToSet(stream[c].tls.extensions[i].names) :
        ~Blank(h) => Route(h).ok /\ Route(h).value.server = server[c]

(* A name that the responder answers with this machine's address is one    *)
(* that the edges accept: a client that looks it up and asks for it, with  *)
(* a port, a final dot or capitals as browsers write them, is routed to    *)
(* the server it belongs to.  Probes have no server, and a service label   *)
(* that no hostname may have is answered for and then refused              *)
(* (dns.go:74-115 against host.go:253-282).                                *)
AnsweredIsServed ==
  \A c \in Conns :
    (honest[c] /\ ~IsProbe(AskedName(c)) /\ ToSet(AskedName(c)) \subseteq ValidLabels) =>
      /\ state[c] \notin {"refused", "tooLong"}
      /\ state[c] = "routed" => server[c] = ServerOf(AskedName(c))

(* The diagnosis tells the truth about the resolver: it reports that its   *)
(* query arrived only if it did, whatever other runs and clients ask for,  *)
(* and denies it of a query that did arrive only if its label was dropped  *)
(* to make room; and labels whose run has gone cannot pile up              *)
(* (names.go:37-60).                                                       *)
ProbeTellsTheTruth ==
  /\ \A d \in Doctors :
       /\ doctor[d] = "reached" => d \in reached
       /\ doctor[d] = "missed" /\ d \in reached => d \in forgotten
  /\ Cardinality(probes) <= MaxProbes + 1
===============================================================================
