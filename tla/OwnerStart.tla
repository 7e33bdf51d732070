----------------------------- MODULE OwnerStart -----------------------------
(***************************************************************************)
(* Several invocations of "quic-link daemon" on one machine, from the      *)
(* command line to the end of the process: runDaemonOwner                  *)
(* (cmd/quic-link/daemoncmd.go), the construction of the pool              *)
(* (internal/daemon/pool.go) and the parts of daemon.Run that touch the    *)
(* socket file.  What the processes share is the file system, where a      *)
(* socket file outlives the process that bound it, and the ports of the    *)
(* loopback interface.                                                     *)
(*                                                                         *)
(* A step is what another process can see in between: the probe, the       *)
(* removal of a stale file, each bind, the closing of the listener, the    *)
(* final removal.  Sessions and splices are in DialEntry, ListenEntry and  *)
(* DaemonRun.                                                              *)
(***************************************************************************)
EXTENDS Settings, FiniteSets

CONSTANTS
  Procs,      \* invocations of the command
  Env,        \* Env[p]: what p's environment says of the socket directory
  OwnedDir,   \* the directories that ensureOwnedDir accepts
  Files,      \* Files[f]: what lies at the path f, "default" being one
  Commands,   \* Commands[c]: the flags and the variables of an invocation
  Blocks,     \* portProbeBlocks
  Foreign,    \* the loopback ports other programs hold at times
  MaxStarts,  \* bound: how often the command is issued
  None

BlockStep == 10
MaxPort == 65535
NoPorts == <<0, 0>>

Errors == {"usage", "disabled", "running", "squatter", "failed", "inUse"}

ASSUME OwnerAssumption ==
  /\ Blocks \in Nat \ {0} /\ MaxStarts \in Nat
  /\ None \notin Procs \cup Errors /\ All \notin ToSet(ServerOrder)

(* What a file holds, and what the flags and variables of a command are.   *)
ASSUME CommandsAssumption ==
  /\ \A f \in DOMAIN Files :
       /\ Files[f].is \in {"absent", "settings"} \cup Refused
       /\ Files[f].is = "settings" => IsTable(Files[f].table)
  /\ \A c \in DOMAIN Commands :
       /\ FileInUse(Commands[c]) \in DOMAIN Files /\ IsTable(Commands[c].env.table)
       /\ Given(Commands[c].adds) \subseteq ToSet(ServerOrder)
       /\ \A i \in DOMAIN Commands[c].pins : IsPin(Commands[c].pins[i].value)

VARIABLES
  file,       \* file[d]: the process whose socket file lies in directory d
  listening,  \* the processes whose unix listener is open
  pc,         \* what each process does next
  todo,       \* todo[p]: the servers or sockets that p's loop has yet to visit
  edges,      \* edges[p]: the loopback ports p listens on for its servers
  ports,      \* ports[p][s]: the pair that status reports for s
  naming,     \* naming[p]: the naming sockets p holds, by protocol and port
  entries,    \* entries[p]: the servers whose transport p holds
  conf,       \* conf[p]: the configuration that p has read
  code,       \* code[p]: the error that p returned, if any
  joined,     \* history: who has bound p's path since p probed it
  starts      \* how often the command was issued

vars == <<file, listening, pc, todo, edges, ports, naming, entries, conf, code, joined, starts>>
socket == <<file, listening, joined>>
held == <<edges, ports, naming, entries>>
issued == <<starts, conf>>

(* The exit code that exitCodeForError gives each error. *)
exitCodeForError(e) ==
  CASE e \in {"usage", "squatter"} -> 2
    [] e \in {"disabled", "running"} -> 3
    [] e \in {"failed", "inUse"} -> 1
    [] OTHER -> 0

(* socketPath: the directory an environment selects. *)
socketPath(e) ==
  CASE e.xdg -> "xdg"
    [] ~e.xdg /\ e.tmpdir = "short" -> "tmpdir"
    [] OTHER -> "/tmp"

Dirs == {"xdg", "tmpdir", "/tmp"}
Path(p) == socketPath(Env[p])

(* What each invocation is told; every process reads it once. *)
Configured == [c \in DOMAIN Commands |-> DaemonSettings(Commands[c], Files)]

Managed(p) == DOMAIN conf[p].servers
Server(p, s) == conf[p].servers[s]

(* The four naming sockets, in the order in which they are taken. *)
NamingSockets == <<"dns/udp", "dns/tcp", "http", "https">>
Sockets == ToSet(NamingSockets)
Socket(p, n) ==
  LET names == Naming(conf[p]).value IN
  CASE n = "dns/udp" -> <<"udp", names.dns>>
    [] n = "dns/tcp" -> <<"tcp", names.dns>>
    [] n = "http"    -> <<"tcp", names.http>>
    [] n = "https"   -> <<"tcp", names.https>>

Init ==
  /\ file = [d \in Dirs |-> None] /\ listening = {}
  /\ pc = [p \in Procs |-> "dead"] /\ todo = [p \in Procs |-> {}]
  /\ edges = [p \in Procs |-> {}]
  /\ ports = [p \in Procs |-> [s \in ToSet(ServerOrder) |-> NoPorts]]
  /\ naming = [p \in Procs |-> {}] /\ entries = [p \in Procs |-> {}]
  /\ code = [p \in Procs |-> None] /\ joined = [p \in Procs |-> {}]
  /\ starts = 0 /\ conf = [p \in Procs |-> Defaults]

Loop(p, l, work) == pc' = [pc EXCEPT ![p] = l] /\ todo' = [todo EXCEPT ![p] = work]
Goto(p, l) == Loop(p, l, {})
Return(p, e) == Goto(p, "returned") /\ code' = [code EXCEPT ![p] = e]

(* A loop visits the servers, or the sockets, in their order. *)
First(order, S) ==
  order[CHOOSE i \in DOMAIN order : order[i] \in S /\ \A j \in 1..(i - 1) : order[j] \notin S]

NextServer(p) == First(ServerOrder, todo[p])
NextSocket(p) == First(NamingSockets, todo[p])
Visited(p, x) == todo' = [todo EXCEPT ![p] = @ \ {x}]

(* The command line, the settings and the socket directory, which has to   *)
(* be the user's own.                                                      *)
Invoke(p) ==
  /\ pc[p] = "dead" /\ starts < MaxStarts
  /\ starts' = starts + 1
  /\ \E c \in DOMAIN Commands :
     IF ~Configured[c].ok THEN Return(p, Configured[c].value) /\ UNCHANGED conf
     ELSE /\ conf' = [conf EXCEPT ![p] = Configured[c].value]
          /\ IF Path(p) \notin OwnedDir THEN Return(p, "usage")
             ELSE Goto(p, "probe") /\ code' = [code EXCEPT ![p] = None]
  /\ UNCHANGED <<socket, held>>

Alive(d) == file[d] # None /\ file[d] \in listening

(* probeSocket: refused or absent means nobody is there; an answer means   *)
(* an owner; anything else, a timeout too, means a stranger that must be   *)
(* left alone.  An owner that has not reached Serve, that is at its        *)
(* connection limit or that is closing does not answer.                    *)
Probe_TimeoutIsAbsent(p) ==
  /\ pc[p] = "probe" /\ joined' = [joined EXCEPT ![p] = {}]
  /\ \/ ~Alive(Path(p)) /\ Goto(p, "reclaim") /\ UNCHANGED code
     \/ Alive(Path(p)) /\ pc[file[Path(p)]] = "serving" /\ Return(p, "running")
     \/ Alive(Path(p)) /\ Goto(p, "reclaim") /\ UNCHANGED code
  /\ UNCHANGED <<file, listening, held, issued>>

Probe(p) ==
  /\ pc[p] = "probe" /\ joined' = [joined EXCEPT ![p] = {}]
  /\ \/ ~Alive(Path(p)) /\ Goto(p, "reclaim") /\ UNCHANGED code
     \/ Alive(Path(p)) /\ pc[file[Path(p)]] = "serving" /\ Return(p, "running")
     \/ Alive(Path(p)) /\ Return(p, "squatter")
  /\ UNCHANGED <<file, listening, held, issued>>

(* os.Remove of the path, whatever lies there by now; a symbolic link is   *)
(* left alone, and the removal may fail.                                   *)
Reclaim_Skipped(p) ==
  /\ pc[p] = "reclaim" /\ Goto(p, "checks")
  /\ UNCHANGED <<socket, held, code, issued>>

Reclaim(p) ==
  /\ pc[p] = "reclaim"
  /\ \/ file' = [file EXCEPT ![Path(p)] = None] /\ Goto(p, "checks") /\ UNCHANGED code
     \/ \E e \in {"usage", "failed"} : Return(p, e) /\ UNCHANGED file
  /\ UNCHANGED <<listening, joined, held, issued>>

(* Validate, LoadKey and the age of the key: an invalid configuration and  *)
(* a key that is too old are usage errors, an unreadable key is not.       *)
MayBeTooOld(p) == conf[p].refuseOld /\ conf[p].warnAge > 0

Checks(p) ==
  /\ pc[p] = "checks"
  /\ IF ~Validate(conf[p]) THEN Return(p, "usage")
     ELSE \/ Loop(p, "edges", Managed(p)) /\ UNCHANGED code
          \/ Return(p, "failed")
          \/ MayBeTooOld(p) /\ Return(p, "usage")
  /\ UNCHANGED <<socket, held, issued>>

Others(p) == Procs \ {p}
TakenPorts == UNION {edges[q] \cup {n[2] : n \in {m \in naming[q] : m[1] = "tcp"}} : q \in Procs}

(* The pair of the block i tens further on. *)
Pair(p, s, i) == [k \in 1..2 |-> LocalPorts(s, Server(p, s).ports)[k] + BlockStep * i]

(* AcquirePair takes the first block in which both ports can be bound; the *)
(* ssh port of a block whose docker port is taken is given back.  Past the *)
(* last port there is nothing to bind.                                     *)
FreeBlocks(p, s, busy) ==
  {i \in 0..(Blocks - 1) :
     LET pair == Pair(p, s, i) IN
     /\ pair[1] # pair[2] /\ \A k \in 1..2 : pair[k] <= MaxPort
     /\ {pair[1], pair[2]} \cap (busy \cup TakenPorts) = {}}

FirstBlock(B) == CHOOSE i \in B : \A j \in B : i <= j

(* The pair for the next server: a server without a free block is skipped, *)
(* and so is a disabled one.                                               *)
AcquirePair_KeepsSsh(p) ==
  /\ pc[p] = "edges" /\ todo[p] # {}
  /\ LET s == NextServer(p) IN
     \E busy \in SUBSET Foreign :
       LET free == FreeBlocks(p, s, busy) IN
       IF ~Server(p, s).enabled \/ free = {} THEN UNCHANGED <<edges, ports>>
       ELSE LET pair == Pair(p, s, FirstBlock(free))
                tried == {Pair(p, s, i)[1] : i \in 0..FirstBlock(free)} \ (busy \cup TakenPorts) IN
            /\ edges' = [edges EXCEPT ![p] = @ \cup tried \cup {pair[2]}]
            /\ ports' = [ports EXCEPT ![p][s] = pair]
  /\ Visited(p, NextServer(p))
  /\ UNCHANGED <<socket, pc, naming, entries, code, issued>>

AcquirePair(p) ==
  /\ pc[p] = "edges" /\ todo[p] # {}
  /\ LET s == NextServer(p) IN
     \E busy \in SUBSET Foreign :
       LET free == FreeBlocks(p, s, busy) IN
       IF ~Server(p, s).enabled \/ free = {} THEN UNCHANGED <<edges, ports>>
       ELSE LET pair == Pair(p, s, FirstBlock(free)) IN
            /\ edges' = [edges EXCEPT ![p] = @ \cup {pair[1], pair[2]}]
            /\ ports' = [ports EXCEPT ![p][s] = pair]
  /\ Visited(p, NextServer(p))
  /\ UNCHANGED <<socket, pc, naming, entries, code, issued>>

(* acquireNamingListeners: the zone first, a name that cannot be served    *)
(* being the only failure that stops the daemon, then one socket after the *)
(* other.  A socket that cannot be bound gives the earlier ones back and   *)
(* the daemon goes on without names.                                       *)
BuildZone(p) ==
  /\ pc[p] = "edges" /\ todo[p] = {}
  /\ IF NewZone(conf[p].servers) THEN Loop(p, "naming", Sockets) /\ UNCHANGED code ELSE Return(p, "usage")
  /\ UNCHANGED <<socket, held, issued>>

BindNaming(p) ==
  /\ pc[p] = "naming" /\ todo[p] # {}
  /\ LET n == Socket(p, NextSocket(p)) IN
     /\ IF n[1] = "tcp" THEN n[2] \notin TakenPorts ELSE \A q \in Others(p) : n \notin naming[q]
     /\ naming' = [naming EXCEPT ![p] = @ \cup {n}]
  /\ Visited(p, NextSocket(p))
  /\ UNCHANGED <<socket, pc, edges, ports, entries, code, issued>>

NamingUnavailable(p) ==
  /\ pc[p] = "naming" /\ todo[p] # {}
  /\ naming' = [naming EXCEPT ![p] = {}] /\ Loop(p, "pool", Managed(p))
  /\ UNCHANGED <<socket, edges, ports, entries, code, issued>>

NamingTaken(p) ==
  /\ pc[p] = "naming" /\ todo[p] = {} /\ Loop(p, "pool", Managed(p))
  /\ UNCHANGED <<socket, held, code, issued>>

(* NewRealPool, one server after the other.  A waiting server binds the    *)
(* address it is given, which may be taken; a dialing one binds any port,  *)
(* and its address must be one that can be dialled.                        *)
AddressTaken(p, s) ==
  \E q \in Procs : \E r \in entries[q] :
     Waiting(Server(q, r)) /\ Server(q, r).listen.port = Server(p, s).listen.port

CanBeBuilt(p, s) ==
  IF Waiting(Server(p, s)) THEN Server(p, s).listen.form # "host" /\ ~AddressTaken(p, s)
  ELSE DialableAddr(Server(p, s).addr)

NewEntry(p) ==
  /\ pc[p] = "pool" /\ todo[p] # {}
  /\ LET s == NextServer(p) IN
     IF ~Server(p, s).enabled THEN UNCHANGED entries
     ELSE CanBeBuilt(p, s) /\ entries' = [entries EXCEPT ![p] = @ \cup {s}]
  /\ Visited(p, NextServer(p))
  /\ UNCHANGED <<socket, pc, edges, ports, naming, code, issued>>

(* A server whose transport cannot be built ends the start: its own socket *)
(* is closed and so are the ports of every server, but neither the naming  *)
(* sockets nor the entries that are already at work.                       *)
PoolFails_WaitsForAddress(p) ==
  /\ pc[p] = "pool" /\ todo[p] # {} /\ Server(p, NextServer(p)).enabled
  /\ CanBeBuilt(p, NextServer(p)) /\ Return(p, "failed")
  /\ edges' = [edges EXCEPT ![p] = {}]
  /\ UNCHANGED <<socket, ports, naming, entries, issued>>

PoolFails(p) ==
  /\ pc[p] = "pool" /\ todo[p] # {} /\ Server(p, NextServer(p)).enabled
  /\ LET s == NextServer(p) IN
     \/ Return(p, "usage") /\ (Waiting(Server(p, s)) \/ ~CanBeBuilt(p, s))
     \/ Return(p, "failed")
  /\ edges' = [edges EXCEPT ![p] = {}]
  /\ UNCHANGED <<socket, ports, naming, entries, issued>>

PoolBuilt(p) ==
  /\ pc[p] = "pool" /\ todo[p] = {} /\ Goto(p, "listen")
  /\ UNCHANGED <<socket, held, code, issued>>

(* Server.Listen: a bind fails while a file lies at the path. *)
Listen(p) ==
  /\ pc[p] = "listen"
  /\ IF file[Path(p)] = None
     THEN /\ file' = [file EXCEPT ![Path(p)] = p] /\ listening' = listening \cup {p}
          /\ joined' = [q \in Procs |-> IF q # p /\ Path(q) = Path(p) THEN joined[q] \cup {p} ELSE joined[q]]
          /\ Goto(p, "chmod") /\ UNCHANGED code
     ELSE Return(p, "inUse") /\ UNCHANGED socket
  /\ UNCHANGED <<held, issued>>

(* Closing a unix listener unlinks its path, whoever's file lies there. *)
CloseListener(p) ==
  /\ listening' = listening \ {p}
  /\ file' = IF p \in listening THEN [file EXCEPT ![Path(p)] = None] ELSE file
  /\ UNCHANGED joined

(* The socket file is made private; if it is gone, the start is given up.  *)
Chmod(p) ==
  /\ pc[p] = "chmod" /\ Goto(p, IF file[Path(p)] # None THEN "serving" ELSE "unusable")
  /\ UNCHANGED <<socket, held, code, issued>>

ChmodFailed(p) ==
  /\ pc[p] = "unusable" /\ CloseListener(p) /\ Return(p, "failed")
  /\ UNCHANGED <<held, issued>>

(* The process is told to stop: the listener is closed first, everything   *)
(* else takes its time, and the path is removed last.                      *)
Stop(p) ==
  /\ pc[p] = "serving" /\ Goto(p, "closing")
  /\ UNCHANGED <<socket, held, code, issued>>

CloseServer(p) ==
  /\ pc[p] = "closing" /\ CloseListener(p) /\ Goto(p, "draining")
  /\ UNCHANGED <<held, code, issued>>

(* Resolver, pool and edges, in this order, and the wait for the handlers. *)
Drain(p) ==
  /\ pc[p] = "draining" /\ Goto(p, "remove")
  /\ naming' = [naming EXCEPT ![p] = {}] /\ entries' = [entries EXCEPT ![p] = {}]
  /\ edges' = [edges EXCEPT ![p] = {}]
  /\ UNCHANGED <<socket, ports, code, issued>>

RemoveSocket(p) ==
  /\ pc[p] = "remove" /\ file' = [file EXCEPT ![Path(p)] = None] /\ Goto(p, "returned")
  /\ UNCHANGED <<listening, joined, held, code, issued>>

(* The end of a process gives its ports and listeners back and leaves the  *)
(* socket file where it is.                                                *)
Dies(p) ==
  /\ Goto(p, "dead") /\ listening' = listening \ {p}
  /\ edges' = [edges EXCEPT ![p] = {}] /\ naming' = [naming EXCEPT ![p] = {}]
  /\ entries' = [entries EXCEPT ![p] = {}]
  /\ ports' = [ports EXCEPT ![p] = [s \in ToSet(ServerOrder) |-> NoPorts]]
  /\ conf' = [conf EXCEPT ![p] = Defaults]
  /\ UNCHANGED <<file, joined, starts>>

Exit(p) == pc[p] = "returned" /\ Dies(p) /\ UNCHANGED code

(* handleSignals: a second signal, or thirty seconds after the first, ends *)
(* the process where it is.                                                *)
ForcedExit(p) ==
  /\ pc[p] \in {"closing", "draining", "remove"} /\ Dies(p)
  /\ code' = [code EXCEPT ![p] = "failed"]

(* A kill, or the power: at any point of the start, the service or the end. *)
Crash(p) == pc[p] # "dead" /\ Dies(p) /\ UNCHANGED code

Start(p) ==
  \/ Probe(p) \/ Reclaim(p) \/ Checks(p) \/ AcquirePair(p) \/ BuildZone(p)
  \/ BindNaming(p) \/ NamingUnavailable(p) \/ NamingTaken(p)
  \/ NewEntry(p) \/ PoolFails(p) \/ PoolBuilt(p) \/ Listen(p) \/ Chmod(p) \/ ChmodFailed(p)

Finish(p) == CloseServer(p) \/ Drain(p) \/ RemoveSocket(p) \/ Exit(p)

Next == \E p \in Procs : Invoke(p) \/ Start(p) \/ Stop(p) \/ Finish(p) \/ ForcedExit(p) \/ Crash(p)

Spec == Init /\ [][Next]_vars

(* A process that runs goes on; being invoked, stopped or killed is up to  *)
(* its operator.                                                           *)
FairSpec == Spec /\ \A p \in Procs : WF_vars(Start(p)) /\ WF_vars(Finish(p))

-----------------------------------------------------------------------------
TypeOK ==
  /\ file \in [Dirs -> Procs \cup {None}] /\ listening \subseteq Procs
  /\ DOMAIN todo = Procs /\ edges \in [Procs -> SUBSET Nat]
  /\ ports \in [Procs -> [ToSet(ServerOrder) -> [1..2 -> Nat]]]
  /\ naming \in [Procs -> SUBSET ({"udp", "tcp"} \X Nat)]
  /\ entries \in [Procs -> SUBSET ToSet(ServerOrder)]
  /\ code \in [Procs -> Errors \cup {None}] /\ joined \in [Procs -> SUBSET Procs]
  /\ starts \in 0..MaxStarts

Reachable(q) == q \in listening /\ file[Path(q)] = q

(* An owner that clients can reach stays reachable for as long as it       *)
(* listens, whatever other invocations do: only a process that had looked  *)
(* at the path before this owner took it can remove its socket             *)
(* (probeSocket, daemoncmd.go:58-91, and the two removals at :270 and at   *)
(* daemon.go:240).                                                         *)
OnlyARaceDisplaces ==
  [][\A q \in Procs :
       Reachable(q) /\ ~Reachable(q)' /\ q \in listening' =>
         \E p \in Others(q) : pc[p] \in {"reclaim", "unusable", "closing", "remove"} /\ q \in joined[p]]_vars

(* What a crashed or killed owner leaves behind, at whatever point it was  *)
(* killed, never makes the next one's bind fail: that takes another        *)
(* process that has bound the same path since this one probed it           *)
(* (daemoncmd.go:259-274; a leftover that cannot be removed is an error of *)
(* its own, before anything is bound).                                     *)
StaleSocketIsReclaimed ==
  \A p \in Procs : code[p] = "inUse" => joined[p] # {}

(* What a daemon has bound is what it will report and serve: the ports in  *)
(* status are the ones it listens on, no port is held twice, by one        *)
(* process for two servers or by two processes, and it has all of its      *)
(* naming sockets or none, although each is bound by itself and another    *)
(* daemon may compete for it (acquireEdgeListeners and                     *)
(* acquireNamingListeners, daemoncmd.go:406-520).                          *)
ListenersAreWhole ==
  /\ \A p \in Procs : pc[p] \in {"naming", "pool", "listen", "chmod", "serving", "closing", "draining"} =>
       LET given == {s \in ToSet(ServerOrder) : ports[p][s] # NoPorts} IN
       /\ edges[p] = UNION {{ports[p][s][1], ports[p][s][2]} : s \in given}
       /\ Cardinality(edges[p]) = 2 * Cardinality(given)
  /\ \A p, q \in Procs : p # q => edges[p] \cap edges[q] = {}
  /\ \A p \in Procs : pc[p] \in {"pool", "listen", "chmod", "serving"} =>
       naming[p] \in {{}, {Socket(p, n) : n \in Sockets}}

(* A configuration that passed the checks can be served: every name that   *)
(* the daemon answers for is one its own edges accept (Validate against    *)
(* NewZone, names.go:77-94), and no two of its waiting servers expect the  *)
(* same key, however their pins are spelt, so an incoming connection       *)
(* belongs to one of them (config.go:495-522 compares the spellings, which *)
(* is right only because pin.go:101 has refused all but one of them).      *)
ValidatedIsServable ==
  \A p \in Procs : pc[p] \notin {"dead", "probe", "reclaim", "checks", "returned"} =>
    LET servers == conf[p].servers IN
    /\ NewZone(servers)
    /\ \A m, n \in EnabledIn(servers) :
         m # n /\ Waiting(servers[m]) /\ Waiting(servers[n]) => servers[m].pin.key # servers[n].pin.key

(* Every start comes to an end: the process serves, or it is gone and with *)
(* it every port, naming socket and session that it had taken, those of    *)
(* the servers before the one the pool failed on included (pool.go:143-230 *)
(* leaves them to the process).                                            *)
StartEnds ==
  \A p \in Procs : pc[p] = "probe" ~>
     \/ pc[p] = "serving"
     \/ pc[p] = "dead" /\ edges[p] = {} /\ naming[p] = {} /\ entries[p] = {}

(* "Exactly one owner may hold the socket at a time" (daemoncmd.go:116). *)
ExactlyOneOwner ==
  \A p, q \in Procs :
    (p # q /\ Path(p) = Path(q)) => ~(pc[p] = "serving" /\ pc[q] = "serving")
=============================================================================
