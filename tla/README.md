# PortRedirect: a verification project

TLA+ models of PortRedirect, a TCP-over-QUIC port forwarder (client and server,
Rust, tokio and quinn), their TLC runs, and TLAPS proofs. Paths below are
relative to the repository's `src/` directory unless they say otherwise.

## 1. Inventory

### Components

| Component | Code | State it keeps | Operations |
|---|---|---|---|
| QUIC accept loop | `quic/server.rs` `run_quic_server` | quinn's queue of attempts, its count of open connections, the handshake it awaits | refuse over the limit, stateless retry, await the handshake, spawn a handler |
| Session handler | `server/client_handler.rs` | phase, cancellation token, the join handle of its listener | authenticate, configure, check the port, bind, run the control loop, close, join |
| TCP listener | `server/tcp_listener.rs` | the `TcpListener` | `select!` of cancellation and `accept()`, `open_bi()`, spawn a forwarder |
| Forwarders | `server/tcp_forwarder.rs`, `client/tcp_forwarder.rs`, `forward.rs` | one TCP connection, one QUIC stream | `copy_bidirectional`, outcome, counters |
| Port rules | `server/mod.rs` | the list of `PortSpec` | parse, `allows` |
| Authentication | `protocol/auth.rs`, `server/auth.rs`, `client/auth.rs` | challenge, key | challenge, response, reply |
| Configuration | `protocol/control.rs` | requested port | read `LISTENPORT` and the port |
| Keepalive | `protocol/keepalive.rs` | timers | PING, PONG, BYE, timeouts |
| Client handler | `client/server_handler.rs` | counters | authenticate, spawn the keepalive, accept streams |
| Certificate store | `quic/server.rs` `load_or_generate_quic_cert` | two files | load, generate, write |
| Server start | `server/main.rs`, `quic/server.rs` | command line, port rules | parse, refuse, load or generate, bind the endpoint |
| Client process | `client/main.rs`, `client/run_client.rs`, `quic/client.rs` | trusted certificate, expected name | read `cert.der`, connect once, run the handler, end |
| `BiStream` | `bi_stream.rs` | none | delegates to a reader and a writer |
| Metrics export, benchmark scripts | `client/metrics.rs`, `server/metrics_printer.rs`, `utils/` | none that matters to the above | reads counters, I/O |

### How they interact

The accept loop spawns one handler task per QUIC connection. The handler owns
the control stream, which carries authentication, configuration and keepalive
one after the other; it spawns the listener task, shares with it the QUIC
connection and a cancellation token, and joins it. The listener spawns forwarder
tasks, which nobody cancels or joins. The listener and the forwarders meet the
handler only through the token and through the QUIC connection: closing it is
what wakes a listener in `open_bi()` and a forwarder that reads from its stream.
All sessions share the ports of the machine and the global counters. On the
client the keepalive task and the accept loop share nothing but the connection.
The two processes share the certificate: through the platform's configuration
directory on one machine, or through a copy that an operator makes; `--config-dir`
gives the server another directory, which the client does not know of. A session is watched by
three timers at once: the client's tick and its wait for a PONG, the server's wait
for a line, and quinn's keep-alive and idle timer.

### What is hard, and what makes each part correct

* **Accept loop.** It awaits handshakes itself, so a slow one delays everybody;
  the limit is compared before the connection is counted. Correct: the limit is
  never passed, every attempt is decided.
* **Session.** Four phases, a dozen early returns, two timeouts, a connection
  that may die between any two steps, a listener that may be stuck where it does
  not see the token. Correct: only entitled sessions hold ports; a handler that
  returned has released everything; every phase that depends on a silent peer
  ends; no stream is opened after the close.
* **Forwarders.** Detached, half-closable. Correct: each accepted connection is
  counted under one outcome; forwarders end with their connection.
* **Control stream.** Three protocols in sequence over a byte stream without
  framing. Correct: nobody passes without the key; both ends agree on what comes
  next; the end of one side reaches the other.
* **Timers.** 30-second tick that catches up in bursts, 30 seconds for a PONG, 60 for
  a line, 25 for QUIC's keep-alive and 30 for its idle timer, a PONG written without
  a timeout. Correct: a live session is kept whatever the delays add up to, a stuck
  peer or a cut network is noticed within a bound, the timers do not fire for each
  other.
* **Server start.** Two files, no atomic write, other arguments at every start,
  among them another configuration directory with a pair of its own. Correct: what
  is served is what is stored, clients' copies stay valid for the directory they come
  from, an interrupted start is repaired, the port rules are those written.
* **Client process.** Reads a file that may not exist yet or is being written.
  Correct: once it could connect it still can, to a server of the same directory; the
  name it is given is the name it expects.

`PROJECT.json` lists the hazards line by line with the properties that cover
them. Two have no property: the client's counters are folded together in a way
nothing in the program reads (`keepalive.rs:77`), and a failing `accept()` is
retried without a pause (`tcp_listener.rs:43`), which has no state to speak of.

## 2. Modules

| Module | Models |
|---|---|
| `PortSpecs` | `PortSpec`, `from_str`, `PortSpec::allows`, `AllowedPorts::allows`; ports are `0 .. 65535` |
| `PortService` | the abstract service: sessions lease ports exclusively, serve, take up connections, end |
| `TunnelServer` | accept loop, handlers, listeners, forwarders of the whole server |
| `TunnelServerProofs` | inductive invariant of `TunnelServer`, type correctness, safety theorems |
| `TunnelRefinement` | `TunnelServer` implements `PortService` |
| `TunnelCountingProofs` | the connection limit and the balance of the counters |
| `BytePipes` | the abstract data path: a FIFO pipe in each direction |
| `DataPath` | one forwarded connection from end to end: both forwarders, the stream between them, the client's accept loop |
| `DataPathProofs` | inductive invariant of `DataPath`, its safety theorems, `DataPath` implements `BytePipes` |
| `ControlProtocol` | the control stream of one session, server and client |
| `ControlProofs` | inductive invariant of `ControlProtocol`, its safety theorems |
| `KeepaliveTimers` | the timers of both keepalive loops and of QUIC, against a clock |
| `KeepaliveProofs` | two inductive invariants of `KeepaliveTimers`, its properties for all lengths of the timers |
| `ServerStart` | the start of the server: command line, port rules, certificate and key files, across stops and restarts |
| `Deployment` | `ServerStart` composed with the client process |
| `DeploymentProofs` | inductive invariant of `Deployment`, its safety theorems, the meaning of the port rules |
| `MCTunnelServer`, `MCControlProtocol`, `MCDeployment` | instances for TLC |

Operators named like `OffByOneLimitReached` or `DetachedJoinListener`, each just
before the definition it resembles, are that definition with one plausible
mistake. No specification uses them; `PROJECT.json` pairs each with the property
that detects it.

### TunnelServer

`net[c]` is a QUIC connection as quinn sees it (attempt, retried, validated,
handshaking, open, lost to the peer or a timer, closed by the handler), `slab`
the connections `open_connections()` counts, a connection staying there until it
is drained. `pc[c]` is the point at which `handle_quic_client_connection` is,
`lpc[c]` the same for `handle_tcp_listener`, `cancelled[c]` the token. `bound[c]`
is the port the session's `TcpListener` holds; it is taken by the bind and given
back when the listener task drops it. `tcp[t]` follows one external connection:
in the kernel's backlog, accepted and waiting for a stream, forwarded in both
directions or only one, and its outcome. `metrics` are the counters of
`server/metrics_counters.rs` that concern connections.

Each action is what one task does up to its next await. All early returns go
through `Reject` (close, return). A lost connection can still deliver what was
buffered, so `ConfigOk` does not require the connection to be open. Port 0 binds
a port the operating system chooses. `TypeOK` also says that a connection is in its
handshake exactly while the accept loop awaits it. Clients, external connections, the handshake,
the loss of a connection and the kernel's backlog are the environment and may do
their steps in any order; a reconnecting client is a new connection.

### DataPath

The same connection that is `tcp[t] = "both"` in `TunnelServer`, with its bytes and
its other end. Bytes are numbered by their sender and pass through the socket, the
forwarder's buffer, the QUIC stream, the other forwarder's buffer and the other
socket, one at a time. `half[s]` has the directions of a copy that are done. tokio's
copy and what quinn does when a stream is dropped (finish what was written, stop
what was read) are external and modelled from their use: that is how the failure of
one forwarder shows at the other, as an end of stream when it reads and as "error 0"
when it writes. A stream is announced to the client by the first thing sent on it; it may be
accepted although the connection has been lost meanwhile.
A loss of the connection may cut what is in the stream at any point. TCP peers take
what is written to them; a peer that stops reading is not modelled.

### ControlProtocol

Both directions of the stream are queues of pieces. Messages that the code takes
with a single `read()` (challenge, reply) consist of several pieces, and in the
mode `cut` a read returns any non-empty prefix; messages read with
`read_exact` or up to a newline are one piece. The PING that the server finds
where it expects ten header bytes is a piece of five bytes: it waits for a second
one. The hash is injective by assumption. Three kinds of client are considered:
the one in this repository (`shipped`), one that sends what `control.rs`
documents (`conforming`), and one that may leave the configuration out and send an
unknown line (`garbled`); the actions only the last two take are external.

### KeepaliveTimers

The same two loops with nothing but their timing. Time is discrete and passes in
`Pass`, for everybody at once; it cannot pass while something is due, a message that
has been on its way for `MaxDelay` or a timer that is `MaxLag` late. Each duration is
counted from the event that starts it (`nextTick` down to the next tick and below 0
when it is late, `cWait`, `sWait`, the ages of the messages on their way, `quiet` since
the connection last carried anything), so the state space is finite without a bound
on time. `interval()` bursts: the next tick is due one period after the last was due,
not after it was served. A task may hang or the network be cut, once and for good;
`faultFor` measures how long that goes unnoticed. When a fault-free session ends it is
because a timer fired wrongly. `FastEnoughAssumption` states what the timers need of
the network: a round trip and a late task fit in the read timeout.

### ServerStart

`Launch` is `main` up to `run_quic_server`. A rule is a text, modelled by the fields
between its dashes, a field by the number its digits say, so that `from_str` keeps its
cases (a missing bound, a number beyond u16, a reversed range, a second dash).
`Directory` is `get_config_dir`: the directory of `--config-dir`, or the platform's; `Here`
is the one of the server's present command line. `certFile` and `keyFile` are functions
on the directories. A file is absent, cut short, or holds one of the generated pairs; a
certificate carries the name it was made for. `fs::write` is two steps (truncate, fill)
for each file. `FileError` is the error of a read or a write, in the place of any of
these steps, which `main` returns. The process may also stop between any two steps
(`Stop`: a crash or a kill) and be started with other arguments; an operator may remove
files of a stopped server, and `removed` remembers from which directories.
`with_single_cert` is external and accepts only
a certificate with its key. Whether the system refuses the configuration directory, an
address or the UDP port is a nondeterministic choice.

### Deployment

The server as above and one client, each in its own time. The client looks into the
platform's directory, whatever directory the server uses: on the server's machine
(`shared`) that is the server's default directory, elsewhere it is the client's own, into
which an operator copies the certificate of a running server (`copy`, and `copiedFrom`
which of the server's directories). It reads the file once (a missing or unreadable file
leaves the store empty, one cut short ends the client), expects the server's address
in the certificate (`HostnameMatch` is `None` whatever the command line says), connects
once, and ends with its handler. Two variables are history: `worked` remembers with which
certificate and name it has connected to a server of which directory, `refusedBy` the
directory of the server when TLS last turned the client away. TLS is external: the
certificate presented
must be the one trusted and be for the expected name.

A server that is started with another `--config-dir` presents another pair, with no file
removed, and refuses clients that worked before. `CopyStaysValid` and `ReconnectVerifies`
therefore speak of servers of one directory, and say that what happens in other
directories in between does not matter; of a server of another directory they say
nothing.

## 3. Runs

Passing runs:

| Run | Instance | Shows |
|---|---|---|
| `TunnelServer_safety` | 2 sessions for 1 port, 2 external connections (symmetric) | `TypeOK`, `HandlerEndReleases`, `AcceptedAccounted`, `NoStreamAfterClose`, and `ImplementsService`: the tasks implement `PortService` |
| `TunnelServer_admission` | 3 connections, one without the key; an allowed, a forbidden and an ephemeral port; limit 2; 1 failed `accept()` | `ListenersAuthorised`, `ConnectionLimitRespected` |
| `TunnelServer_liveness` | 2 sessions, 1 external connection, limit 2 | `SetupBounded`, `CancelReleases`, `LostEnds`, `AttemptsDecided`, `ReadersEnd` |
| `DataPath_copy` | 2 bytes each way, buffers and window of 1 | `TypeOK`, `LossReported`, `CountsAgree`, `EndSpreads`, `BothEnd`, and `ImplementsPipes`: the forwarders implement `BytePipes` |
| `ControlProtocol_session` | all kinds of client, right and wrong key, 2 PINGs, reads whole or cut anywhere | `TypeOK`, `AuthAgreement`, `WholeReadsSucceed`, `KeepaliveInStep`, `KeepaliveEndReachesServer`, `ServerEndReachesClient` |
| `KeepaliveTimers_seconds` | the values of the code in seconds (30, 30, 25, 30), delays up to 2, lateness up to 1, room for 1 PONG | `TypeOK`, `LivePeersStay`, `FaultDetected`, `LostMeansCut`, `PongNeverWaits`; no deadlock, so time can always pass |
| `Deployment_restarts` | 8 command lines, 3 good and 5 bad; 2 directories, 2 names, 2 pairs, 2 stops | `TypeOK`, `ServesItsFiles`, `InterruptedStartHeals`, `RulesAsWritten`, `CopyStaysValid`, `ReconnectVerifies` |

Runs that end in a violation state what a document, comment or test says:

| Run | Says | The code |
|---|---|---|
| `DataPath_idle` | `README.md:12`: the client "receives tunneled streams" | not before the external peer has sent something: a destination that speaks first is never connected |
| `ControlProtocol_shortread` | `auth.rs:142`: equal keys authenticate | not when a `read()` returns a part of the challenge or reply |
| `ControlProtocol_noconfig` | `control.rs:15`: "The client must send a control message" | the client sends PING instead |
| `Deployment_brokenkey` | `quic/server.rs:77`: generated if the files do not exist | a key file cut short exists and is never replaced |
| `Deployment_hostname` | `client/main.rs:45`: "QUIC remote hostname override for Subject Alt Name match in TLS cert." | the argument is parsed and dropped: a certificate for a name is refused by a client that was given the name |

Some remarks of the code are not runs. Bytes are counted once, after a copy that
ended without error, while `forward.rs:14` says "as data is transferred" (`CountsAgree`
states what they then mean: an end that failed has counted nothing, whatever it
forwarded); and the
client counts every end of its accept loop as graceful and never counts a keepalive
error, since `run_keepalive_client_loop` returns `Ok(())` on every path. The counters
are modelled as the code sets them, and nothing in the program depends on them.
`tcp_listener.rs:34` says of forwarded connections "TODO connections in
forward_tcp_to_quic_stream should be closed as well, they are gonna stay open": the
model has them stay, and `ReadersEnd` says which ones do not, namely all that still
read from QUIC; one whose QUIC side has ended and whose TCP peer is idle does.

### Bounds

Two sessions are what a race for a port, for the token and for the listener
needs; the third connection of the admission run lets one be refused, or be in
its handshake, while the limit is used up. Two external connections let one be in
the backlog while another waits for a stream. `MaxAcceptErrors` bounds a counter
that grows without end; a failed `accept()` changes nothing else. Two bytes with a
buffer of one let a byte be in the stream while the next waits in the buffer, and
fill both. Two PINGs reach
every state of the exchange twice; the timers need no bound on the number of PINGs.
Delays of 2 seconds and lateness of 1 let every order of a late tick, a late message
and a timeout occur; the timers differ by 5 seconds at least. Two key pairs let
each of two directories have one, or let one directory have its pair removed and
replaced while a copy of the old one is about; two stops interrupt a start and a
service, and refused starts and errors of files are not counted. The good command lines
name the platform's directory, name another or leave it out, with both names; there is a
bad one for each case of `from_str`, at both ends of u16. The theorems of section 4 remove
the bounds of all safety properties; the liveness properties keep them. Symmetry is
used for external connections only, with safety properties only. Deadlock is checked
where the model goes on for ever (`KeepaliveTimers`, `Deployment`) and not elsewhere: a
server without clients and a finished session may stop.

### Fairness

*TunnelServer.* Weak fairness of what the runtime does by itself: the accept
loop, the end of a handshake (quinn's timers end one that does not complete), the
timeouts of authentication and configuration, the bind, the close, the join, the
failure of `open_bi()` and of a stream read on a connection that is gone, the
return of the control loop on a lost connection, the draining of a connection.
Strong fairness of the listener's cancellation: `select!` polls its branches in
random order, so that a branch that is ready again and again is taken in the end
although accepted connections may win for a while. Nothing is assumed of peers: a
client may stay silent or grant no stream, an external connection may stay idle
or never come.

*DataPath.* Weak fairness of each direction of a copy (the runtime polls both when
they can go on) and of the client's accept loop and connect, which returns or
fails. Nothing is assumed of the TCP peers.

*ControlProtocol.* Weak fairness of reads of what has arrived, of the two set-up
timeouts and of the client's accept loop. The keepalive timers have none: what is
shown does not depend on them.

*KeepaliveTimers* and *Deployment* have safety properties only. In the first,
"eventually" is a bound on `faultFor`.

## 4. Proofs

All for every value of the constants that satisfies the assumptions of the
modules: the value for no connection is no connection, keys belong to connections,
rules and ports are those of `PortSpecs`, an ephemeral port is not 0, the limit is
a natural number or none. No finiteness is assumed. Of `DataPath` it is assumed that the
buffers and the window have room for a byte, of `ControlProtocol` that the server's key
is one of the keys.

| Theorem | Property |
|---|---|
| `TunnelServerProofs!TypeCorrect` | `TypeOK` |
| `TunnelServerProofs!Authorised` | `ListenersAuthorised` |
| `TunnelServerProofs!EndReleases` | `HandlerEndReleases` |
| `TunnelServerProofs!StreamsBeforeClose` | `NoStreamAfterClose` (an action property) |
| `TunnelRefinement!Refinement` | `ImplementsService` |
| `TunnelCountingProofs!LimitKept` | `ConnectionLimitRespected` |
| `TunnelCountingProofs!Accounted` | `AcceptedAccounted` |
| `DeploymentProofs!TypeCorrect` | `TypeOK` of `Deployment` |
| `DeploymentProofs!FilesServed` | `ServesItsFiles` |
| `DeploymentProofs!Heals` | `InterruptedStartHeals` |
| `DeploymentProofs!CopiesValid` | `CopyStaysValid`, for any number of directories |
| `DeploymentProofs!Reconnects` | `ReconnectVerifies`, for any number of directories |
| `DeploymentProofs!RulesKept` | `RulesAsWritten` |
| `DeploymentProofs!RulesExact` | the same for every port of u16 |
| `KeepaliveProofs!LivePeers` | `LivePeersStay` |
| `KeepaliveProofs!FaultsNoticed` | `FaultDetected` |
| `KeepaliveProofs!OnlyCutsLose` | `LostMeansCut` |
| `KeepaliveProofs!PongsFlow` | `PongNeverWaits` |
| `KeepaliveProofs!TypeCorrect` | `TypeOK` of `KeepaliveTimers` |
| `DataPathProofs!TypeCorrect` | `TypeOK` of `DataPath` |
| `DataPathProofs!LossIsReported` | `LossReported` |
| `DataPathProofs!CountsAreEqual` | `CountsAgree` |
| `DataPathProofs!PipesImplemented` | `ImplementsPipes` |
| `DataPathProofs!BytesInOrder` | a peer has received a prefix of what the other sent |
| `ControlProofs!TypeCorrect` | `TypeOK` of `ControlProtocol` |
| `ControlProofs!AuthAgreed` | `AuthAgreement` |
| `ControlProofs!WholeReadsAuthenticate` | `WholeReadsSucceed` |
| `ControlProofs!OneOutstanding` | `KeepaliveInStep` |

*The server.* None of the safety properties is inductive. `IndInv` adds what the tasks rely on
without checking it:

* `QueueInv`: an attempt is queued once, and nobody has dealt with it. Without it a queued connection could be
  one with a handler, and the loop would reset it.
* `NetInv`: the connection of a running handler exists, and is gone after the
  close. It turns "after the close" into a fact about the handler's position.
* `TaskInv`: where the listener may be, given where the handler is, and that a
  listener holds a port exactly while it runs.
* `EntitledInv`: what each phase has established about the client and the port.
* `BacklogInv`: who is responsible for an external connection; a listener opens
  one stream at a time.

Each part is preserved by every action (`QueueStep`, `NetStep`, `TaskStep`,
`EntitledStep`, `BacklogStep`); frame lemmas say which tasks cannot disturb which
part. The refinement shows that the bind is `Serve`, the drop of the listener
`Stop`, the spawn of a forwarder `Carry`, its end `Finish`, and everything else
invisible. The limit and the counters need only that the sets counted are finite,
which is inductive by itself.

*The deployment.* Assumed are only that the arguments are of the form of `Args`, that
the platform's directory is one of the directories, that the server's address and the
names a client may be given are names, and that the bounds are natural numbers; the
directories may be any number. `DeploymentProofs!IndInv` again adds what nobody checks:

* `KnownInv`: no file and no process has a pair that is still to be generated. Without
  it, generating a pair in one directory could give a name to a certificate that is
  already in another.
* `MemoryInv`: how much of the pair in memory the files of the server's directory have
  at each point of the start.
* `FilesInv`: in a directory no file was removed from, the key is missing, cut short
  with its certificate there, or belongs to it; and it is missing while a start writes
  the certificate. Without it a start could overwrite a pair in use.
* `CopyInv`, `SeenInv`: what was copied or connected with is what the files of its
  directory hold, and those are settled: a pair, which no start replaces. A refusal by
  TLS came from a settled directory that does not hold what the client has.

A step of the server changes the files of its own directory only, and only while they
are not settled (`PhaseStep`, `WriteStep`); that carries the last two parts over. The rules rest on a lemma
about `from_str` (`RuleMeans`: a text that parses has one or two fields, all ports, and
its rule allows what the text means) and on the fact that a server that runs has the
rules of its whole command line (`RulesInv`).

*The timers.* Assumed is `FastEnoughAssumption`: twice the delay and one lateness are
less than the read timeout, and a probe with its answer comes before the idle timeout.
The code's values satisfy it with much to spare; the proof says that nothing else
matters, not even that the interval is longer than the read timeout.
`KeepaliveProofs!IndInv` says that one message is under way at most (`OneInv`), that the
idle timer is always ahead of its time (`QuietInv`), and in which of four stages an
exchange is (`ExchangeInv`): pausing, PING under way, answering, PONG under way. Each
stage relates the two waits to the age of the message and to the next tick, which is
what makes delays not add up over rounds: `sWait + nextTick <= Interval` survives every
round because a burst never moves a tick back. `FaultInv` builds on it: after a fault, the
timer of the end that works runs as long as the fault has lasted, but for what was
already under way (one delay) or for the rest of a pause (one interval).

The bounds on the clocks (`TypeCorrect`) follow from it; the lateness of a tick has none
below, since with an interval shorter than a round trip ticks fall behind further and
further.

*The data path.* `DataPathProofs!IndInv` says of each origin where its bytes are. The socket,
the read buffer, the stream and the write buffer each hold a run of consecutive bytes
that starts where the next place ends (`OrderInv`), each as long as somebody may still
pass it on: after a loss only what is beyond the stream, after a forwarder gave up only
what the other one holds. A stream is finished when all is written, or given up
(`FinishInv`); the receiving peer is shown an end when its direction is done, and then
everything has arrived or the sender has failed (`ShutInv`). The last part,
`ResultInv`, is the argument about "error 0": a stream is stopped only by a forwarder
that dropped it, so a forwarder that ends with "error 0" has the other one end with an error,
since two of them would each have to come first. For the refinement, a write to TCP is
`Receive`, a shut-down or a drop `ShowEnd` unless an end was shown before, and the rest
is invisible; `BytesInOrder` is what the pipes promise, carried over.

*The control stream.* With another key than the server's (`AuthInv`), the right response is
never in the stream and the first half of HAPPY never either, whatever is cut where. With
whole reads (`WholeInv`), the two streams are empty, the request, the response or HAPPY,
depending on where the two ends are. For a client that configures its session (`StepInv`),
what the server has not read is a rest of header and port, followed by a PING only while
the client waits; a server that has ended may have left any of it.

Only model-checked: the liveness properties, since fairness is out of the prover's reach.
The violations are found by TLC and need no proof.

## 5. Not modelled

* A TCP peer that stops reading, and what TCP loses after a successful write.
* Flow control of the control stream beyond the room for PONGs; a client that sends
  PINGs without reading (the one in this repository does not, `PongNeverWaits`).
* TLS and packets (quinn and rustls), and the transport parameters other than the
  timers.
* The metrics exporters. `print_metrics_loop` and the `/metrics` endpoint read the
  counters one after the other, so that a line may mix two moments, and change
  nothing; the `ConnectionStats` that `run_client` prints is never updated.
* Tracing set-up, `Display` implementations, data holders; benchmark scripts.

## 6. Plan

1. *Consequences.* What `PortService` promises by itself (a port has one holder), carried over
   to the server by the refinement, as `BytesInOrder` is from `BytePipes`.
2. *Liveness.* The safety parts of the liveness arguments (what stays enabled until it is
   taken) as lemmas; the conclusions stay with TLC.
