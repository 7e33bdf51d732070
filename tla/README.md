# A TLA+ model of quic-link

quic-link keeps a set of authenticated QUIC sessions between a *daemon* on an
operator's machine and *agents* on servers, and carries TCP and HTTP streams
over them to services behind the agents. This directory models the parts of it
in which goroutines, processes, connections and shutdowns meet, and the decisions
they act on (settings, keys, names), checks them with TLC on small instances and
proves what matters most with TLAPS for all instances.

`PROJECT.json` relates every definition to the source lines it models, every
property to a run and to a mutation of the model that breaks it, and every
hazard of the code to the properties that would notice it.

## The system

| Part | State | Operations | How it is reached |
|---|---|---|---|
| dial entry (`daemon/pool.go`) | state, connection, control client, dialing flag, `dialDone` channel, last error, UDP socket | `runLoop`, `dialAndOpen`, probe, `Get`, `ControlCall`, `Close` | one per configured server, its own goroutine |
| listening entry (`daemon/listen_entry.go`) | the same slot, a `waiting` channel, a wait group of watchers | `runLoop`, `promote`, `serveUntilDrop`, probe, `Get`, `Close` | one per server whose agent dials in |
| session pool (`daemon/pool.go`) | fixed map of entries | delegates | IPC server, edges, relays |
| daemon (`daemon/daemon.go`) | listeners, edges, responder, IPC server | `Run` | the `daemon` command; signals |
| IPC server (`ipc/server.go`) | connection semaphore, attach counter, closed flag | `Serve`, `handleConn`, `handleRPC`, `handleAttach`, `Close` | unix socket, one goroutine per connection |
| edges (`edge/edge.go`, `edge/http.go`) | listeners, wait group, semaphore of the name-routed edge | `acceptLoop`, `handle`/`splice`, `Close` | local TCP ports, one goroutine per connection |
| attach and splice (`tunnel/attach.go`, `pipe` in `tunnel/serve.go`) | two ends, two copying goroutines | `DoAttach`, `pipe` | IPC server, edges, agent, forward |
| local forward (`fwd`) | semaphore, registry of forwards | `Run`, `acceptLoop`, `handleConn`, `closeAll` | the `fwd` command; attaches through the IPC server |
| agent session (`tunnel/serve.go`) | control state, deadline timer, streams | `serveConn`, `serveStream`, `serveControl` | one per QUIC connection |
| agent link (`cmd/quic-link/agent.go`, `tunnel/dial.go`, `identity/tls.go`, `transport/quic_transport.go`) | attempt counter, the connection | set-up, `DialAndServe`, `Serve`, the pinned handshake, the reading of failures | the `agent` command, in either direction |
| owner start (`cmd/quic-link/daemoncmd.go`) | socket path, ports, naming sockets, pool under construction | `probeSocket`, reclaim, `acquireEdgeListeners`, `acquireNamingListeners`, `NewRealPool`, bind, removal | the `daemon` command, one process per invocation |
| settings (`config`, `server_flags.go`, `root.go`, `identity/pin.go`) | none: file, environment and flags are merged | `Load`, `applyServerFlags`, `Validate`, `Naming`, `LocalPorts` | every command at its start |
| names (`names`, `edge/peek_*.go`) | the zone, the latch of probes | `Respond`, `peek`, `HostFromRequest`, `SNIFromClientHello`, `Route`, `SawProbe` | DNS queries, HTTP and TLS clients, the doctor |
| published names (`router/vhost.go`) | exact names, patterns | `add`, `remove`, `resolve` | control calls of any daemon; data streams |
| control plane (`control`) | none of its own | authorize, handle, audit | gRPC on the control stream |
| set-up, relays, other commands | see `PROJECT.json` | | |

The daemon's users (commands over the IPC socket, edges, relays) call `Get` for
a connection and open streams on it, or `ControlCall` for the control client.
The agent serves the streams. Whether the daemon dials or waits, the entry is
one *slot*: it holds the connection users get, and is refilled when it drops.

What is hard here: entries are driven by up to four goroutines (run loop or
accept loop, watchers, probe, `Close`) and any number of `Get` callers that
share a mutex but wait on channels that are closed outside it and replaced;
connections end at any time; `Close` must end everything. On the agent a timer
races the control stream. In the IPC server, the edges and the forwarder,
resources taken by one goroutine are released by another, on many paths. A
splice notices a failure only where one of its two copies is looking. A control
call's reply may be lost while the call is carried out. Processes that start at
the same time share a path and ports and no lock; a crash leaves the path behind.
The verdict of a peer on our key arrives after our own handshake, as an error of
a dial or as the end of a session. A name is decided on by two programs (the
responder, the edge) and, for the edge, on a prefix of what the client will send.

## Modules

| Module | Models | Variables and actions |
|---|---|---|
| `SessionSlot` | what an entry promises (`SessionEntry`) | the slot, the highest number used, open connections, stopping |
| `DialEntry` | `dialEntry` | fields under `e.mu` (`intState`, `current`, `controlClient`, `dialing`, `dialErr`), the run loop's locals, the probe, each Get caller's channel, `Close`, sockets, the network. One action per section between two points where other goroutines can be noticed |
| `ListenEntry` | `listenEntry` | the slot, the waiting channel, the accept loop with `promote`, one watcher and one probe per connection, `Close` |
| `VhostTable` | `vhosts`, the mutating control calls, their relays | the table, the calls in flight with their stage, what each daemon waits for, the audit log, the order in which calls held the lock |
| `AgentSession` | `serveConn` and below | the accept loop, one handler per stream, `controlState.open`, the timer with its callback, why the connection was closed |
| `Forwarder` | `Forwarder`, `registry` | accept loop, watcher, one handler per connection, registry, both legs |
| `IpcServer` | `Server`, `DoAttach` | accept loop, one handler per connection, semaphore with its Once, attach counter, streams, the agent's stream limit, the daemon's shutdown order |
| `Splice` | `pipe`, `closeWrite`, `resetConn` | what each peer has sent and taken, the two copies (in Read, in Write, over), half-closed and released ends |
| `DaemonRun` | `Run`, `LocalPortEdge`, `HostEdge` | Run's position, per listener its loop and watcher, one handler per connection, the slots of a name-routed edge |
| `Settings` | the configuration, as operators | file, environment, flags and defaults to the settings a daemon runs with; validation; names; ports; pins |
| `OwnerStart` | `runDaemonOwner` up to `Run`, and the end of `Run` | extends `Settings`. Per process its position, the settings it has read, its ports, naming sockets and pool entries, its exit code; the socket file of each path and who listens; what a process has met since it looked (`joined`, a history variable) |
| `AgentLink` | the `agent` command, `DialAndServe`, `Serve`, the handshake | where the command is, the attempt, the client that can be reached, the session and why it ended, the last client met (history) |
| `Names` | the zone, the responder and the parsers, as operators | a request is a sequence of lines, a greeting a record of its parts, a name a sequence of labels |
| `NameEdge` | `HostEdge.peek`, the resolver's server, the doctor's probe | extends `Names`. Per connection what it asked for, what it sends and how much has arrived; the latch, the runs of the doctor |
| `DialEntryProofs`, `ListenEntryProofs`, `VhostTableProofs`, `IpcServerProofs`, `OwnerStartProofs` | | theorems about the module each is named after |
| `AgentProofs` | | theorems about `AgentLink` and about `AgentSession`, one of its sessions |
| `ForwarderProofs` | | theorems about `Forwarder` and about `Splice`, which its handlers run |
| `EdgeProofs` | | theorems about `NameEdge` and about `DaemonRun`, which serves what it routes |
| `MC*` | | instances for TLC |

A critical section under a mutex is one step. A `close(ch)` that the code does
after it has released the lock is a step of its own, and so is everything that
happens after an unlock, a channel operation or a network call. A channel is a
number (its generation) and the set of closed numbers is state, so that a second
close, a lost close and a stale channel can all be seen. Connections are
numbered in the order in which they are made.

The operators whose names end in `_Something` are plausible mistakes (a dropped
guard, a forgotten release, a swapped order); `PROJECT.json` uses each to show
that a property notices it. They are not part of any specification.

`DialEntry` and `ListenEntry` refine `SessionSlot` (`SlotSpec`): both are shown,
by TLC and by proof, to hold at most one connection, to fill the slot with ever
newer ones, and to empty it only because its connection ended or because the
entry is stopping.

`Splice` says what may be assumed of a splice as a whole. `AgentSession`,
`IpcServer` and `DaemonRun` have a state for a splice that reads from its
session and one, *wedged*, for a splice that does not: its copy from the session
is over, or blocked in Write. The end of the session ends the first
(`SpliceEnds`) and not the second, which waits for the other end. `Forwarder`
needs no such state, because its sweep resets both legs.

`OwnerStart` ends where `DaemonRun` begins: its `serving` is `DaemonRun`'s
`RunStarts`, and its closing steps keep of the shutdown what concerns the socket
file. `AgentLink` takes a session of `AgentSession` as one that is up or has
ended for a reason. `NameEdge` details the peek that `DaemonRun` takes as one
step; `Settings` has the rules for names that `Names` relies on (a zone of valid
labels).

The configuration enters `OwnerStart` as data: each start picks a file and a
command line, and the model computes what the code computes from them. A pin is
its key and its spelling, an address its form and port, a label is valid or not,
because those are the distinctions that validation makes; characters are left
out.

## Runs

| Run | Bounds | Shows |
|---|---|---|
| `dial_entry` | 1 Get caller, 3 faults, rebind after 2 failures, probe threshold 2 | the fields under the lock agree, connections, clients and sockets do not leak, the entry refines `SessionSlot`, the session recovers once faults stop, Get is answered and Close returns outside the window described below |
| `listen_entry` | 1 Get caller, 2 connections, 2 faults, probe threshold 2 | one owner per control client, refinement, shutdown wakes Get and Close returns outside promote's window, a silent peer loses the slot |
| `vhost_table` | 2 daemons, 3 calls, 1 restart, a table limit of 4 | the operator's entries stand and the table is what the granted calls made it in the order they held the lock, a retry is safe and the limit holds, reports, precedence and audit are true |
| `agent_session` | 3 streams | one control stream, its end ends the session, the deadline and a shutdown end it, everything ends with the session but wedged splices |
| `forwarder` | 3 connections, cap 2 | the sweep misses nothing, Run leaves nothing behind, cancellation ends Run unless the accept loop had stopped by itself |
| `ipc_server` | 3 connections, 2 slots, 2 tunnels, 2 streams | slots and the attach count are exact, one answer, tunnels do not starve the accept loop unless an attach waits for a stream, shutdown drains |
| `splice` | 2 items each way, room for 1, both ends can be half-closed | nothing is truncated, a half-close stays one, a failure ends the splice when a copy is there to notice |
| `daemon_run` | a name-routed edge with 1 slot, a local-port edge with 2 listeners, 2 connections | a closed edge is quiet and slots come back, undecided clients do not fill an edge, shutdown ends unless a splice is wedged |
| `owner_start` | 2 processes, 3 starts, 2 blocks of ports, one foreign port, the files and command lines of `MCOwnerStart` | a process may be killed at any point, and what it leaves never makes a bind fail, only an invocation that had looked before can displace an owner, ports in status and naming sockets are whole, validated settings can be served, every start ends and releases what it took |
| `agent_link` | clients with 3 keys, 2 expected keys and 2 versions, 3 faults, both directions | only mutual trust is served, the agent gives up over keys alone, the link settles once the client stops changing |
| `name_edge` | 2 servers, 1 connection, streams in chunks of 2 units, some longer than the limit of 6, greetings with several names, empty ones and second `server_name` extensions, 2 runs of the doctor, a latch of 1 | routing depends on what was sent and not on its packets, and every host in the request, or in the `server_name` that is read, belongs to the server it went to; what the responder answers the edges serve; the diagnosis tells the truth |

Why these bounds are enough: every property is about the interaction of at most
two neighbours (an old session and a new one, a displaced watcher and its
successor, a sweep and one late handler, a caller and its channel, one handler
and the loop, two processes at one path) and the bounds have both, mostly with
one to spare: the third start is the one that meets what a crash or a stop of an
earlier one left. Three faults reach
the rebind and a recovery after it. What is proved does not depend on the bounds.
The latch of `name_edge` holds 1 label where the code holds 64, and its streams
reach the limit that is 16 KiB in the code: both are the boundary, not the size.
Deadlock is not checked where the system may stop: after a shutdown, or when the
bounded number of clients has been used up.

One run ends in a counterexample. `owner_race` states what the help of the daemon
command says (`Exactly one owner may hold the socket at a time`,
daemoncmd.go:116) and the code does not keep: two invocations find the same stale
socket; one removes it and binds, and the other removes the new socket as stale
and binds its own. Both serve, and only the second can be reached. The same end
is reached through the other removal: an owner that is stopping removes, after
its drain, whatever is at the path (daemon.go:240), a successor's socket too.
`OnlyARaceDisplaces` shows that these two windows are the only ones.

Six more properties state what a comment says, and TLC refutes them. They are
kept in the modules, with configurations that are not part of the project's runs,
to be run by hand (`tlc -config X.cfg M`):

| Configuration | Property | What happens |
|---|---|---|
| `DialCloseHang.cfg`, `MCDialEntry` | `CloseAlwaysReturns` (pool.go:447, :1053) | `Close` takes an empty slot just before `dialAndOpen` fills it (856); the run loop waits for the connection, `Close` for the run loop (1076) |
| `AgentTimer.cfg`, `MCAgentSession` | `TimerSparesOpenSession` (serve.go:412-417) | the deadline's callback looks, the control stream opens, the callback closes the open session |
| `IpcStarve.cfg`, `MCIpcServer` | `TunnelsDoNotStarve` (ipc/server.go:766) | with 1 slot and 1 stream, a tunnel has the agent's last stream; the next attach waits for one without a deadline and keeps its slot, and nothing is accepted any more. With the defaults it takes 64 such attaches on a session with 100 streams |
| `DaemonHang.cfg`, `MCDaemonRun` | `ShutdownNeverHangs` (daemon.go:64-66) | the agent half-closes a splice, the local client stays idle; the pool is closed, and `Close` of the edge waits for the splice before `Run` comes to its deadline |
| `AgentFlap.cfg`, `MCAgentLink` | `FlapsBackOff` (backoff.go:19-21) | a client that accepts and drops at once is redialled at the shortest wait for ever: every success resets the attempt (dial.go:132, and pool.go:595 for a daemon that dials), so `StableAfter` decides nothing |
| `SecondName.cfg`, `MCNameEdge` | `NoSecondAnswer` (sni.go:119) | a greeting has two `server_name` extensions, which TLS forbids, for two servers: the walk returns from the first (127) and the connection is routed by it |

The passing runs state the same facts exactly: `CallersReturn`, `SplicesDoNotStarve`
and `ShutdownEnds` hold except in the case that these show, and `RoutedAsSent`
speaks of the first extension only.

Smaller disagreements of the code with its comments that were met on the way and
have no run of their own:

- a dial that fails after cancellation returns from `runLoop` without closing
  `dialDone` (pool.go:492), although line 461 speaks of waking Get callers; only
  their own context frees them;
- `promote` looks at the context outside the lock and may install a session
  after `Close` has emptied the slot (listen_entry.go:236-264); the comment says
  that a shutdown in progress must win;
- a pattern's star covers several labels; the comment at vhost.go:52 says one;
- an accept fault ends the forwarder's watcher, so a later cancellation resets
  nobody (fwd.go:126), and one right after the cancellation leaves the listener
  open on return;
- an attach whose session drops before `OpenStream` gets no response
  (ipc/server.go says each request gets one);
- `maxInFlightPeeks` "bounds how many connections can be mid-decision"
  (edge/http.go:22), but the slot is held through the splice (104): with all
  slots in splices a connection is refused while nobody decides;
- any accept fault ends an edge's loop for good while its listener stays open;
- the zone is built "while there is still nothing to unwind" (daemoncmd.go:479),
  but the edges' ports are already bound; they, the naming sockets and the entries
  built before a server the pool cannot build are left to the end of the process
  (`StartEnds` includes them);
- `DialableAddr` is consulted when the pool is built and not by `Validate`, so a
  server whose address cannot be dialled stops a daemon whose settings were valid;
- the responder answers for a service label that is no valid hostname label, and
  the edge refuses the same name (dns.go:74-115, host.go:253-282):
  `AnsweredIsServed` leaves these labels out;
- `SawProbe` "forgets it so the same label cannot answer twice" (names.go:52), but
  a repeated or late query puts the label back;
- for a response with exit code 1, such as the daemon's own attach cap, the stdio
  verb prints "agent refused", although its comment has the prefix name who
  refused (stdio.go:151-163).

## Fairness

Weak fairness is assumed of each goroutine's own steps, of timers and of waits
that have a deadline in the code (dials, control-stream opening, pings, attach
readiness, response waits, peeks): the Go scheduler runs every runnable goroutine
and every deadline passes. In `OwnerStart` it is assumed of a process that is
starting or stopping, not of the operator or of crashes; in `AgentLink` of the
agent, of the timeouts of its connection, and of a client that is there and
accepts: it gives its verdict and, where it dials, it dials, which is what the
entries' run loops do. Nothing else is assumed of the peer, of clients or of the
network: a header, a control stream or a splice that reads from its session
only ends for sure when the connection under it is gone, and a wedged splice not
even then. Opening a stream waits for the agent's limit, and writing a header for
the connection's window: in `IpcServer` the first is fair only while there is
room, the second only while no other tunnel can hold the window. In `DialEntry`
faults are bounded, so that "once faults stop" has a meaning. In `IpcServer` and
`DaemonRun` the pool is assumed to close once the daemon shuts down; the hang of
`CloseAlwaysReturns` is the exception to that.

## Proofs

Eight modules prove, for every value of the constants, every safety property
that a passing run checks: all the invariants, the action properties, and the
refinement of `SessionSlot` by both entries. What a run shows of two processes,
three connections or six units of a request, the theorem says of any number.

None of the properties is inductive by itself. Each module states, as named
conjuncts of `IInv`, what has to be added:

- `DialEntryProofs`: agreement of the fields, no leak of connections and clients,
  refinement; also no channel closed twice (`NoDoubleClose`), no lost wake-up
  (`NoLostWakeup`), a reason for every refused Get (`GetHasReason`), one socket
  (`SocketOwned`), authentication failure is final (`AuthFailedIsFinal`). The
  invariant says for each location of the run loop what its channel, the fields,
  the probe and the resources look like: while an attempt is in flight its channel
  is open, only the newest number can be open, a recorded connection is the
  newest. The refinement maps `slot` to `current`; the loop empties the slot only
  after `conn.Context()` is done.
- `ListenEntryProofs`: one owner per control client, refinement; also no
  forgotten connection (`NoOrphanConnection`), no lost wake-up, quiet after Close
  (`QuietAtTheEnd`). The invariant adds which connections exist, that a watcher
  past its wait watches a connection that has ended, and that the current session
  has a watcher: so a watcher that clears late finds its own connection or leaves
  the slot alone.
- `VhostTableProofs`: the table is what the granted calls made it, retries are
  safe and the limit holds, the log accounts for every name, reports are true. The
  calls overlap, and the properties compare the table with the order in which they
  held the lock; the invariant adds that a call that was carried out is not
  carried out again (`CarriedOut`), that a name's provenance says whose it is
  (`Provenance`), without which a publish could take over a configured name, and
  that only valid names were ever granted (`GrantsAreValid`). That the most
  specific pattern answers is a fact about `resolve` alone, for every
  configuration: the patterns are in a sequence by length, and the first that
  matches is found as the least index of a nonempty set (`LeastExists`).
- `IpcServerProofs`: the slots and the count of attaches are exact, one answer; also
  every stream has an owner (`StreamsAreOwned`) and nothing is held when `Serve`
  has returned (`NothingHeld`). Handlers leave on many paths and each must pass
  every place that counts exactly once; the invariant says of a handler, by where
  it is, whether it has released its slot (`ReleasedOnce`), answered
  (`AnswersByPlace`) and opened its stream.
- `AgentProofs`: only mutual trust is served and the agent gives up over keys alone.
  Three places judge a peer and know nothing of each other (the handshake, which
  only the dialer has finished when `Dial` returns, the role check, the listener's
  late verdict); `PeerInv` and `VerdictInv` say what each has settled in each state
  of the session, whatever client can be reached by then. For one session: one
  control stream, its end ends the session, connections to services are owned
  (`ServicesAreOwned`), `serveConn` returns with the connection closed
  (`ReturnsClosed`), from an invariant that adds that a handler on the control path
  has set `cs.open`.
- `ForwarderProofs`: completeness of the sweep, nothing is left when `Run` has
  returned; also exact slots (`SlotsMatchHandlers`) and owned legs (`LegsAreOwned`).
  The invariant ties the registry to where each handler is. For the splice: nothing
  is truncated, a half-close is no reset, from an invariant that adds that a
  half-closed end has no writer left and that a direction that is over without a
  failure has passed its end on.
- `OwnerStartProofs`: a crash's leftovers never make a bind fail, only a race displaces
  an owner, ports and naming sockets are whole, validated settings can be served.
  The socket's part says who lies at a path and that a process that has probed it
  knows of everyone who bound it since (`OwnersAreKnown`, `PathWasCleared`): the
  action property follows, because every removal is by a process past its probe or
  by an owner that is stopping. The settings' part follows a configuration from
  file, variables and flags through `Validate` and keeps that a process holds what
  it validated (`ConfInv`); that no two waiting servers share a key rests on
  `ParsePinStrict` leaving one spelling per key. The ports' part counts: what is
  held are the pairs given out so far, two per server (`PairsHeld`), and the loop
  meets no server twice (`WorkLeft`).
- `EdgeProofs`: routing as sent, what is answered is served, diagnoses are true. The
  weight is in the parsers: `ToldOnce` says that what a prefix of a stream has told
  every longer prefix tells, and that what it has refused none tells; for a request
  because the header ends at its first empty line, for a greeting because records
  are read in order up to one that completes the message or must be refused.
  `NamedIsTold` says that all a complete stream names is what it told: of a greeting,
  that the name taken from the list is the only one in it (`OneNameIsNamed`). With
  it the invariant only has to remember what a connection was decided on
  (`Decided`) and that no more was read than was sent (`Read`); `Honest` and
  `Asked` carry the responder's answer from the lookup to the decision, `Latched`
  ties the latch to the runs of the doctor. For the daemon's edges: a closed edge is
  quiet and its slots are exact, because the listeners were closed before the join
  (`Closing`) and a handler belongs to a connection that was accepted (`Handled`).

The assumptions are the `ASSUME`s of the modules, which TLC evaluates on every
run: thresholds and caps are positive and bounds natural numbers; `None` is no
process, host, client or error; configured names are valid and within the limit,
which is what the agent's start requires (`ConfigAssumption`); files, flags and
variables hold values of the types they decode to (`CommandsAssumption`,
`BlocksAssumption`); a table's lower-casing leaves a valid label alone
(`NamesAssumption` of `Settings`); the zone is of valid labels, which `Validate`
ensures, and the probe's label and the labels the doctor draws are none
(`NamesAssumption`, `EdgeAssumption`); streams and lookups are sequences of what
the models distinguish (`ClientsAssumption`); no listener belongs to two edges
(`OrderAssumption`). No theorem has a hypothesis of its own.

Three proof modules extend two components each. So that they can, the
specifications of `AgentSession`, `Splice` and `DaemonRun` have names of their own
(`ConnSpec`, `PipeSpec`, `RunSpec` with their parts) where the others have `Spec`.

One property was wrong, and the proof found it. `PacketsDoNotDecide` used to say
that a connection is given up for length only if the whole stream is unfinished.
A greeting that is no ClientHello is malformed when a record ends and unfinished
in the middle of the next, so which of the two refusals it meets depends on the
packets; the run had no stream long enough to show it and has one now (`long` in
`MCNameEdge`). The property now says what holds and what matters: no prefix
within the limit says where such a stream wants to go, and routing never depends
on the packets.

The invariants and types named here that are no run's property have a proof and
no run.

What stays with TLC: liveness, because the prover does not handle fairness
(`Recovers`, `CallersReturn`, `ShutdownCompletes`, `SilentPeerLosesSlot`,
`SessionEndsCompletely`, `CancelEndsRun`, `SplicesDoNotStarve`, `ShutdownDrains`,
`SpliceEnds`, `FullMeansServing`, `ShutdownEnds`, `StartEnds`, `LinkSettles`), and the violation.
The prover cannot do induction over data or recursive operators. No module has
one: lookups and parsers are written as the least index with a property, and
their lemmas use that the order of the natural numbers is well-founded.

## Not modelled

- Text: log lines, error wording, sanitizing, JSON and CBOR framing, the syntax of
  the configuration file, the bytes of a request below its lines and of a TLS
  greeting below its parts.
- Cryptography, key files and their ages beyond "may be refused", certificates:
  a key stands for itself and its pin, and a handshake is its verdicts.
- quic-go: connections end, streams fail or wait. Durations: a timer fires some
  time after it was armed; the length of a backoff is up to the clock.
- Reading commands (status, routes, listings, most of the doctor) and the relays
  behind them; the set-up command, which writes files for the host's resolver and
  ssh; statistics of ping; the stdio, ssh and fwd commands up to the call they
  make. They keep no state of their own.
- Generated code (`control.pb.go`) and the in-memory transport for tests.
- In `OwnerStart`: the warnings of validation; what lies at the path is a socket or
  nothing, so a symbolic link there is only one of the ways in which the removal may
  fail. One block of `AcquirePair` is tried in one step: its ssh port is given back
  at once if the docker port is taken, and whoever meets it in between moves on to
  its next block, as it would if another program held it (`Foreign`). In
  `Settings`: `key_file`; the agent's block is in `AgentLink`, where its tables are
  sound or not.

## Plan

Done, in this order: the two entries and their common specification, the table of
names, the agent session, the forwarder, the IPC server, the splice, the daemon
with its edges; settings and the start of an owner, the agent's link, names and
the decision of the edges; proofs of every safety property of the runs. Next:

1. The steps below a promise of liveness that are safety: for each wait that a
   liveness property is about, that whoever must end it is there (as
   `WakeupsAreNotLost` does for Get).
2. The stdio verb against the IPC server: its final answers, its deadline for the
   ack, its fallback to a direct dial.
3. The resolver's bound on TCP connections, next to the edges.
