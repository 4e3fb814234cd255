------------------------------ MODULE TunnelServer ------------------------------
(***************************************************************************)
(* The PortRedirect server: the QUIC accept loop (quic/server.rs), one      *)
(* handler task per QUIC client (server/client_handler.rs), one TCP        *)
(* listener task per session (server/tcp_listener.rs) and one forwarder    *)
(* task per external TCP connection (server/tcp_forwarder.rs, forward.rs). *)
(*                                                                         *)
(* All tasks run on a multi-threaded tokio runtime and interleave at every *)
(* await.  A step of a task is what it does between two awaits, plus the   *)
(* effects other threads can see in between.                               *)
(***************************************************************************)
EXTENDS PortSpecs, Integers, Sequences, FiniteSets

CONSTANTS
    Conns,            \* QUIC connections; a client that reconnects is another one
    Tcps,             \* external TCP connections
    KnowsPsk,         \* the connections whose peer knows the pre-shared key
    AllowedSpecs,     \* --allowed-client-ports
    RequestPorts,     \* the ports clients ask for
    EphemeralPorts,   \* what the OS hands out for port 0
    ConnectionLimit,  \* Option<usize>: {} is None, {n} is Some(n)
    MaxAcceptErrors,  \* bound: how often accept() may fail
    NoConn            \* a value that is no connection

ASSUME ConnsAssumption == NoConn \notin Conns /\ KnowsPsk \subseteq Conns
ASSUME SpecsAssumption == AllowedSpecs \subseteq PortSpec
ASSUME PortsAssumption ==
    RequestPorts \subseteq Port /\ EphemeralPorts \subseteq Port \ {0}
ASSUME BoundsAssumption == ConnectionLimit \subseteq Nat /\ MaxAcceptErrors \in Nat

VARIABLES
    incoming,   \* the endpoint's queue of connection attempts, oldest first
    net,        \* net[c]: the QUIC connection, as quinn sees it
    slab,       \* the connections endpoint.open_connections() counts
    acceptor,   \* the attempt whose handshake the accept loop awaits, or NoConn
    pc,         \* pc[c]: where handle_quic_client_connection is
    req,        \* req[c]: the port the client asked for
    cancelled,  \* cancelled[c]: the session's cancellation token
    lpc,        \* lpc[c]: where handle_tcp_listener is
    bound,      \* bound[c]: the local port the session's TcpListener holds
    tcp,        \* tcp[t]: an external TCP connection
    owner,      \* owner[t]: the session whose port t connected to
    metrics     \* the counters of server/metrics_counters.rs

acceptVars == <<incoming, slab, acceptor>>
handlerVars == <<pc, req, cancelled>>
listenerVars == <<lpc, bound>>
tcpVars == <<tcp, owner, metrics>>
vars == <<incoming, net, slab, acceptor, pc, req, cancelled, lpc, bound, tcp,
          owner, metrics>>

NoPort == -1
MaybePort == NoPort .. MaxPort

NetState == {"absent", "initial", "retried", "validated", "refused",
             "handshaking", "open", "lost", "closed"}
HandlerPc == {"none", "auth", "config", "bind", "control", "close", "join", "done"}
ListenerPc == {"none", "start", "select", "opening", "ended"}

\* "both": both directions of copy_bidirectional run; "qdone": the QUIC side has
\* reached its end, TCP is still read; "tdone": the other way round.
Forwarding == {"both", "qdone", "tdone"}
TcpState == {"absent", "backlog", "reset", "opening", "openfailed",
             "graceful", "error"} \cup Forwarding
Counter == {"accepted", "failedAccepting", "openingErrors", "closedError",
            "closedGraceful"}

\* The types; and the accept loop awaits one handshake at a time: a connection is
\* in its handshake exactly while the loop waits for it, so that no attempt is
\* forgotten half-way and the loop never waits for one that is over.
TypeOK ==
    /\ incoming \in Seq(Conns)
    /\ net \in [Conns -> NetState]
    /\ slab \subseteq Conns
    /\ acceptor \in Conns \cup {NoConn}
    /\ \A c \in Conns : net[c] = "handshaking" <=> acceptor = c
    /\ pc \in [Conns -> HandlerPc]
    /\ req \in [Conns -> MaybePort]
    /\ cancelled \in [Conns -> BOOLEAN]
    /\ lpc \in [Conns -> ListenerPc]
    /\ bound \in [Conns -> MaybePort]
    /\ tcp \in [Tcps -> TcpState]
    /\ owner \in [Tcps -> Conns \cup {NoConn}]
    /\ metrics \in [Counter -> Nat]

Init ==
    /\ incoming = <<>>
    /\ net = [c \in Conns |-> "absent"]
    /\ slab = {}
    /\ acceptor = NoConn
    /\ pc = [c \in Conns |-> "none"]
    /\ req = [c \in Conns |-> NoPort]
    /\ cancelled = [c \in Conns |-> FALSE]
    /\ lpc = [c \in Conns |-> "none"]
    /\ bound = [c \in Conns |-> NoPort]
    /\ tcp = [t \in Tcps |-> "absent"]
    /\ owner = [t \in Tcps |-> NoConn]
    /\ metrics = [m \in Counter |-> 0]

Inc(m) == metrics' = [metrics EXCEPT ![m] = @ + 1]

--------------------------------------------------------------------------------
(* The network and the peers (external). *)

\* A client's first Initial packet, without an address validation token.
ClientConnects(c) ==
    /\ net[c] = "absent"
    /\ net' = [net EXCEPT ![c] = "initial"]
    /\ incoming' = Append(incoming, c)
    /\ UNCHANGED <<slab, acceptor, handlerVars, listenerVars, tcpVars>>

\* The client answers a Retry with an Initial that carries the token.
ClientRetries(c) ==
    /\ net[c] = "retried"
    /\ net' = [net EXCEPT ![c] = "validated"]
    /\ incoming' = Append(incoming, c)
    /\ UNCHANGED <<slab, acceptor, handlerVars, listenerVars, tcpVars>>

\* The peer closes the connection, or quinn's idle timer gives up on it.
ConnLost(c) ==
    /\ net[c] = "open"
    /\ net' = [net EXCEPT ![c] = "lost"]
    /\ UNCHANGED <<acceptVars, handlerVars, listenerVars, tcpVars>>

\* quinn forgets a connection some time after it was lost or closed.
Drain(c) ==
    /\ c \in slab
    /\ net[c] \in {"lost", "closed"}
    /\ slab' = slab \ {c}
    /\ UNCHANGED <<incoming, net, acceptor, handlerVars, listenerVars, tcpVars>>

\* An external TCP client connects to a port a session listens on: the kernel
\* completes the connection and queues it for accept().
ExternalConnect(t, c) ==
    /\ tcp[t] = "absent"
    /\ bound[c] # NoPort
    /\ tcp' = [tcp EXCEPT ![t] = "backlog"]
    /\ owner' = [owner EXCEPT ![t] = c]
    /\ UNCHANGED <<metrics, net, acceptVars, handlerVars, listenerVars>>

--------------------------------------------------------------------------------
(* The accept loop of run_quic_server. *)

OffByOneLimitReached == \E n \in ConnectionLimit : Cardinality(slab) > n

\* config.connection_limit.is_some_and(|n| endpoint.open_connections() >= n)
LimitReached == \E n \in ConnectionLimit : Cardinality(slab) >= n

\* endpoint.accept().await yields the oldest attempt.
Accepts(c) == acceptor = NoConn /\ incoming # <<>> /\ c = Head(incoming)

AcceptRefuse(c) ==
    /\ Accepts(c)
    /\ LimitReached
    /\ incoming' = Tail(incoming)
    /\ net' = [net EXCEPT ![c] = "refused"]
    /\ UNCHANGED <<slab, acceptor, handlerVars, listenerVars, tcpVars>>

\* config.stateless_retry is always set (ServerConfig::create_default_config).
AcceptRetry(c) ==
    /\ Accepts(c)
    /\ ~LimitReached
    /\ net[c] # "validated"
    /\ incoming' = Tail(incoming)
    /\ net' = [net EXCEPT ![c] = "retried"]
    /\ UNCHANGED <<slab, acceptor, handlerVars, listenerVars, tcpVars>>

\* conn.await: quinn creates the connection, and the loop waits for its
\* handshake before it looks at the next attempt.
AcceptStart(c) ==
    /\ Accepts(c)
    /\ ~LimitReached
    /\ net[c] = "validated"
    /\ incoming' = Tail(incoming)
    /\ net' = [net EXCEPT ![c] = "handshaking"]
    /\ slab' = slab \cup {c}
    /\ acceptor' = c
    /\ UNCHANGED <<handlerVars, listenerVars, tcpVars>>

\* The handshake succeeds: the handler task is spawned.
HandshakeOk(c) ==
    /\ acceptor = c
    /\ net[c] = "handshaking"
    /\ net' = [net EXCEPT ![c] = "open"]
    /\ pc' = [pc EXCEPT ![c] = "auth"]
    /\ acceptor' = NoConn
    /\ UNCHANGED <<incoming, slab, req, cancelled, listenerVars, tcpVars>>

BreakingHandshakeErr(c) ==
    /\ acceptor = c
    /\ net[c] = "handshaking"
    /\ net' = [net EXCEPT ![c] = "lost"]
    /\ UNCHANGED <<acceptVars, handlerVars, listenerVars, tcpVars>>

\* The handshake fails or times out: the loop logs it and continues.
HandshakeErr(c) ==
    /\ acceptor = c
    /\ net[c] = "handshaking"
    /\ net' = [net EXCEPT ![c] = "lost"]
    /\ acceptor' = NoConn
    /\ UNCHANGED <<incoming, slab, handlerVars, listenerVars, tcpVars>>

--------------------------------------------------------------------------------
(* handle_quic_client_connection. *)

\* quic_conn.close(..): closing a connection that is already lost does nothing.
CloseConn(c) ==
    net' = [net EXCEPT ![c] = IF @ = "open" THEN "closed" ELSE @]

\* An early return: close the connection, end the handler.
Reject(c) ==
    /\ CloseConn(c)
    /\ pc' = [pc EXCEPT ![c] = "done"]
    /\ UNCHANGED <<acceptVars, req, cancelled, listenerVars, tcpVars>>

AuthAnyone(c) ==
    /\ pc[c] = "auth"
    /\ net[c] = "open"
    /\ pc' = [pc EXCEPT ![c] = "config"]
    /\ UNCHANGED <<acceptVars, net, req, cancelled, listenerVars, tcpVars>>

\* authenticate_quic_client succeeds: the peer answered the challenge with the
\* hash of the key (module ControlProtocol), and HAPPY was written.
AuthOk(c) ==
    /\ pc[c] = "auth"
    /\ net[c] = "open"
    /\ c \in KnowsPsk
    /\ pc' = [pc EXCEPT ![c] = "config"]
    /\ UNCHANGED <<acceptVars, net, req, cancelled, listenerVars, tcpVars>>

NeverTimesOut(c) ==
    /\ pc[c] = "auth"
    /\ net[c] = "lost"
    /\ Reject(c)

\* Authentication fails, or AUTHENTICATION_TIMEOUT passes.
AuthFails(c) == pc[c] = "auth" /\ Reject(c)

\* configure_quic_client returns an allowed port.  The message may have been
\* buffered before the connection was lost.
ConfigOk(c, p) ==
    /\ pc[c] = "config"
    /\ Allows(AllowedSpecs, p)
    /\ req' = [req EXCEPT ![c] = p]
    /\ pc' = [pc EXCEPT ![c] = "bind"]
    /\ UNCHANGED <<acceptVars, net, cancelled, listenerVars, tcpVars>>

\* "ERR port not allowed".
PortRefused(c, p) == pc[c] = "config" /\ ~Allows(AllowedSpecs, p) /\ Reject(c)

\* Configuration fails, or CONFIGURATION_TIMEOUT passes.
ConfigFails(c) == pc[c] = "config" /\ Reject(c)

\* What TcpListener::bind may yield for the requested port: the port itself, or
\* for port 0 a free port of the OS's choice.
BindChoices(p) == IF p = 0 THEN EphemeralPorts ELSE {p}

\* TcpListener::bind succeeds and the listener task is spawned.
BindOk(c) ==
    /\ pc[c] = "bind"
    /\ \E p \in BindChoices(req[c]) :
          /\ \A d \in Conns : bound[d] # p
          /\ bound' = [bound EXCEPT ![c] = p]
    /\ lpc' = [lpc EXCEPT ![c] = "start"]
    /\ pc' = [pc EXCEPT ![c] = "control"]
    /\ UNCHANGED <<acceptVars, net, req, cancelled, tcpVars>>

\* The port is taken, by another session or another program, or not permitted.
BindFails(c) == pc[c] = "bind" /\ Reject(c)

UncancelledControlEnds(c) ==
    /\ pc[c] = "control"
    /\ pc' = [pc EXCEPT ![c] = "close"]
    /\ UNCHANGED <<acceptVars, net, req, cancelled, listenerVars, tcpVars>>

\* run_control_channel_loop returns (BYE, an unexpected line, end of stream, a
\* read error or a read timeout); on every path it has cancelled the token.
\* Answering a PING changes nothing here.
ControlEnds(c) ==
    /\ pc[c] = "control"
    /\ cancelled' = [cancelled EXCEPT ![c] = TRUE]
    /\ pc' = [pc EXCEPT ![c] = "close"]
    /\ UNCHANGED <<acceptVars, net, req, listenerVars, tcpVars>>

NoCloseQuic(c) ==
    /\ pc[c] = "close"
    /\ pc' = [pc EXCEPT ![c] = "join"]
    /\ UNCHANGED <<acceptVars, net, req, cancelled, listenerVars, tcpVars>>

JoinFirstCloseQuic(c) ==
    /\ pc[c] = "close"
    /\ lpc[c] = "ended"
    /\ CloseConn(c)
    /\ pc' = [pc EXCEPT ![c] = "join"]
    /\ UNCHANGED <<acceptVars, req, cancelled, listenerVars, tcpVars>>

\* quic_conn.close(0, "OK normal shutdown").
CloseQuic(c) ==
    /\ pc[c] = "close"
    /\ CloseConn(c)
    /\ pc' = [pc EXCEPT ![c] = "join"]
    /\ UNCHANGED <<acceptVars, req, cancelled, listenerVars, tcpVars>>

DetachedJoinListener(c) ==
    /\ pc[c] = "join"
    /\ pc' = [pc EXCEPT ![c] = "done"]
    /\ UNCHANGED <<acceptVars, net, req, cancelled, listenerVars, tcpVars>>

\* tcp_handle.await: the handler returns once the listener task has ended.
JoinListener(c) ==
    /\ pc[c] = "join"
    /\ lpc[c] = "ended"
    /\ pc' = [pc EXCEPT ![c] = "done"]
    /\ UNCHANGED <<acceptVars, net, req, cancelled, listenerVars, tcpVars>>

--------------------------------------------------------------------------------
(* handle_tcp_listener. *)

\* The TcpListener is dropped: the port is free, queued connections are reset.
EndListener(c) ==
    /\ lpc' = [lpc EXCEPT ![c] = "ended"]
    /\ bound' = [bound EXCEPT ![c] = NoPort]
    /\ tcp' = [t \in Tcps |-> IF tcp[t] = "backlog" /\ owner[t] = c
                              THEN "reset" ELSE tcp[t]]
    /\ UNCHANGED <<acceptVars, net, handlerVars, owner, metrics>>

ListenerStarts(c) ==
    /\ lpc[c] = "start"
    /\ lpc' = [lpc EXCEPT ![c] = "select"]
    /\ UNCHANGED <<acceptVars, net, handlerVars, bound, tcpVars>>

\* listener.local_addr()? fails.
ListenerAborts(c) == lpc[c] = "start" /\ EndListener(c)

EagerListenerCancel(c) ==
    /\ lpc[c] \in {"select", "opening"}
    /\ cancelled[c]
    /\ EndListener(c)

\* select!: the cancellation branch.
ListenerCancel(c) ==
    /\ lpc[c] = "select"
    /\ cancelled[c]
    /\ EndListener(c)

\* select!: accept() yields a connection.  It may win over a cancellation.
ListenerAccept(t) ==
    /\ tcp[t] = "backlog"
    /\ lpc[owner[t]] = "select"
    /\ tcp' = [tcp EXCEPT ![t] = "opening"]
    /\ lpc' = [lpc EXCEPT ![owner[t]] = "opening"]
    /\ Inc("accepted")
    /\ UNCHANGED <<acceptVars, net, handlerVars, bound, owner>>

\* select!: accept() fails; the loop continues.
ListenerAcceptErr(c) ==
    /\ lpc[c] = "select"
    /\ metrics["failedAccepting"] < MaxAcceptErrors
    /\ Inc("failedAccepting")
    /\ UNCHANGED <<acceptVars, net, handlerVars, listenerVars, tcp, owner>>

\* open_bi() yields a stream and the forwarder task is spawned.  open_bi() waits
\* for as long as the client grants no stream.
OpenBiOk(t) ==
    /\ tcp[t] = "opening"
    /\ net[owner[t]] = "open"
    /\ tcp' = [tcp EXCEPT ![t] = "both"]
    /\ lpc' = [lpc EXCEPT ![owner[t]] = "select"]
    /\ UNCHANGED <<acceptVars, net, handlerVars, bound, owner, metrics>>

UncountedOpenBiErr(t) ==
    /\ tcp[t] = "opening"
    /\ net[owner[t]] \in {"lost", "closed"}
    /\ tcp' = [tcp EXCEPT ![t] = "openfailed"]
    /\ lpc' = [lpc EXCEPT ![owner[t]] = "select"]
    /\ UNCHANGED <<acceptVars, net, handlerVars, bound, owner, metrics>>

\* open_bi() fails because the connection is gone: the TCP connection is shut
\* down and the loop continues.
OpenBiErr(t) ==
    /\ tcp[t] = "opening"
    /\ net[owner[t]] \in {"lost", "closed"}
    /\ tcp' = [tcp EXCEPT ![t] = "openfailed"]
    /\ lpc' = [lpc EXCEPT ![owner[t]] = "select"]
    /\ Inc("openingErrors")
    /\ UNCHANGED <<acceptVars, net, handlerVars, bound, owner>>

--------------------------------------------------------------------------------
(* forward_tcp_to_quic_stream and its spawned task. *)

ForwarderUnchanged == UNCHANGED <<acceptVars, net, handlerVars, listenerVars, owner>>

\* forward_bidirectional returns Ok: TCP_QUIC_CONNECTIONS_CLOSED_GRACEFUL.
EndGraceful(t) ==
    /\ tcp' = [tcp EXCEPT ![t] = "graceful"]
    /\ Inc("closedGraceful")
    /\ ForwarderUnchanged

\* forward_bidirectional returns Err: TCP_QUIC_CONNECTIONS_CLOSED_ERROR.
EndError(t) ==
    /\ tcp' = [tcp EXCEPT ![t] = "error"]
    /\ Inc("closedError")
    /\ ForwarderUnchanged

\* One direction of the copy ends; the other goes on.
HalfClose(t, half) ==
    /\ tcp' = [tcp EXCEPT ![t] = half]
    /\ ForwarderUnchanged
    /\ UNCHANGED metrics

\* The TCP side ends: the QUIC send side is finished.
FwdTcpEof(t) ==
    \/ tcp[t] = "both" /\ HalfClose(t, "tdone")
    \/ tcp[t] = "qdone" /\ EndGraceful(t)

\* The QUIC side ends (a buffered end of stream survives the connection): the
\* TCP side is shut down for writing.
FwdQuicEof(t) ==
    \/ tcp[t] = "both" /\ HalfClose(t, "qdone")
    \/ tcp[t] = "tdone" /\ EndGraceful(t)

\* The client stopped or reset the stream with code 0, which may have arrived
\* before the connection was lost: "error 0" counts as Ok.
FwdErrorZero(t) == tcp[t] \in Forwarding /\ EndGraceful(t)

\* Reading from or writing to the TCP connection fails.
FwdTcpError(t) == tcp[t] \in Forwarding /\ EndError(t)

IgnoringFwdConnLost(t) ==
    /\ tcp[t] \in {"both", "tdone"}
    /\ net[owner[t]] = "lost"
    /\ EndError(t)

\* Reading from the QUIC stream fails because the connection is gone.
FwdConnLost(t) ==
    /\ tcp[t] \in {"both", "tdone"}
    /\ net[owner[t]] \in {"lost", "closed"}
    /\ EndError(t)

\* Only TCP is read any more: the loss of the connection shows when TCP data
\* arrives and cannot be written.
FwdWriteLost(t) ==
    /\ tcp[t] = "qdone"
    /\ net[owner[t]] \in {"lost", "closed"}
    /\ EndError(t)

--------------------------------------------------------------------------------

AcceptLoop(c) == AcceptRefuse(c) \/ AcceptRetry(c) \/ AcceptStart(c)

Network ==
    \/ \E c \in Conns : ClientConnects(c) \/ ClientRetries(c) \/ ConnLost(c) \/ Drain(c)
    \/ \E t \in Tcps, c \in Conns : ExternalConnect(t, c)

Handler(c) ==
    \/ AuthOk(c) \/ AuthFails(c)
    \/ \E p \in RequestPorts : ConfigOk(c, p) \/ PortRefused(c, p)
    \/ ConfigFails(c)
    \/ BindOk(c) \/ BindFails(c)
    \/ ControlEnds(c) \/ CloseQuic(c) \/ JoinListener(c)

Listener(c) ==
    \/ ListenerStarts(c) \/ ListenerAborts(c)
    \/ ListenerCancel(c) \/ ListenerAcceptErr(c)

ListenerStream(t) == ListenerAccept(t) \/ OpenBiOk(t) \/ OpenBiErr(t)

Forwarder(t) ==
    \/ FwdTcpEof(t) \/ FwdQuicEof(t) \/ FwdErrorZero(t)
    \/ FwdTcpError(t) \/ FwdConnLost(t) \/ FwdWriteLost(t)

Next ==
    \/ Network
    \/ \E c \in Conns :
          \/ AcceptLoop(c) \/ HandshakeOk(c) \/ HandshakeErr(c)
          \/ Handler(c) \/ Listener(c)
    \/ \E t \in Tcps : ListenerStream(t) \/ Forwarder(t)

\* What the runtime and the timers guarantee.  Nothing is assumed of the peers:
\* a client may stay silent, an external connection may stay idle, and open_bi()
\* may wait for ever on a live connection.
Fairness ==
    /\ WF_vars(\E c \in Conns : AcceptLoop(c))
    /\ \A c \in Conns :
          /\ WF_vars(HandshakeOk(c) \/ HandshakeErr(c))
          /\ WF_vars(Drain(c))
          /\ WF_vars(AuthFails(c))
          /\ WF_vars(ConfigFails(c))
          /\ WF_vars(BindOk(c) \/ BindFails(c))
          /\ WF_vars(net[c] = "lost" /\ ControlEnds(c))
          /\ WF_vars(CloseQuic(c))
          /\ WF_vars(JoinListener(c))
          /\ WF_vars(ListenerStarts(c) \/ ListenerAborts(c))
          /\ SF_vars(ListenerCancel(c))
    /\ \A t \in Tcps : WF_vars(OpenBiErr(t)) /\ WF_vars(FwdConnLost(t))

SafetySpec == Init /\ [][Next]_vars
Spec == SafetySpec /\ Fairness

--------------------------------------------------------------------------------
(* Safety. *)

\* What a session may listen on: an allowed port, or for an allowed port 0 any
\* port the OS chose.
MayListen(p) ==
    \/ Allows(AllowedSpecs, p)
    \/ Allows(AllowedSpecs, 0) /\ p \in EphemeralPorts

\* A port is held, and an external connection accepted, only for a client that
\* knows the key, and only on a port the rules allow: authentication and the
\* port check of handle_quic_client_connection come before the bind on every
\* path, also when the connection dies half-way.
ListenersAuthorised ==
    /\ \A c \in Conns : bound[c] # NoPort => c \in KnowsPsk /\ MayListen(bound[c])
    /\ \A t \in Tcps : tcp[t] # "absent" => owner[t] \in KnowsPsk

\* When the handler of a client returns nothing of the session is left but
\* forwarders: the port is free for the next session, no accepted connection is
\* waiting for a stream, none is in the backlog, the QUIC connection is gone.
HandlerEndReleases ==
    \A c \in Conns : pc[c] = "done" =>
        /\ net[c] \in {"lost", "closed"}
        /\ bound[c] = NoPort
        /\ lpc[c] \in {"none", "ended"}
        /\ \A t \in Tcps : owner[t] = c => tcp[t] \notin {"backlog", "opening"}

\* The counters of metrics_counters.rs account for every accepted connection:
\* it is being opened or forwarded, or exactly one of the three outcomes was
\* counted for it.
AcceptedAccounted ==
    metrics["accepted"] =
        metrics["openingErrors"] + metrics["closedError"] + metrics["closedGraceful"]
        + Cardinality({t \in Tcps : tcp[t] \in Forwarding \cup {"opening"}})

\* run_quic_server never has more connections than connection_limit, the ones
\* still in their handshake and the ones not yet drained included.
ConnectionLimitRespected == \A n \in ConnectionLimit : Cardinality(slab) <= n

\* A new QUIC data stream is only opened for a session whose handler has not
\* yet closed the connection, although the listener task may still accept
\* connections then: it sees the cancellation only when it gets back to select!.
StreamStarts(t) == tcp[t] # "both" /\ tcp'[t] = "both"
NoStreamAfterClose ==
    [][\A t \in Tcps : StreamStarts(t) => pc[owner[t]] \in {"control", "close"}]_vars

--------------------------------------------------------------------------------
(* The service as its users see it. *)

\* A session serves while its TcpListener exists.
ServiceSession ==
    [c \in Conns |-> IF bound[c] # NoPort THEN "serving"
                     ELSE IF lpc[c] = "ended" THEN "ended" ELSE "idle"]

\* An external connection is carried while its forwarder runs.
ServiceCarried ==
    [t \in Tcps |-> CASE tcp[t] \in Forwarding -> "carried"
                      [] tcp[t] \in {"graceful", "error"} -> "over"
                      [] OTHER -> "waiting"]

ServiceCarrier ==
    [t \in Tcps |-> IF ServiceCarried[t] = "waiting" THEN NoConn ELSE owner[t]]

MayServe == {q \in KnowsPsk \X (RequestPorts \cup EphemeralPorts) : MayListen(q[2])}

Service == INSTANCE PortService WITH
    Sessions <- Conns, Externals <- Tcps, NoSession <- NoConn,
    session <- ServiceSession, port <- bound,
    carried <- ServiceCarried, carrier <- ServiceCarrier

\* The tasks of the server, taken together, implement PortService: ports are
\* leased exclusively and only to entitled sessions, a session that ended never
\* serves again, and a connection is only taken up by a session that serves; it
\* is never handed to another one.
ImplementsService == Service!Spec

--------------------------------------------------------------------------------
(* Liveness. *)

\* A client cannot hold the handler in the phases before its session: a silent
\* one runs into the two timeouts.
SetupBounded ==
    \A c \in Conns : pc[c] \in {"auth", "config", "bind"} ~> pc[c] \in {"control", "done"}

\* When the control channel has ended the listener lets go of the port and the
\* handler returns, also when the listener is stuck in open_bi().
CancelReleases ==
    \A c \in Conns : cancelled[c] ~> (bound[c] = NoPort /\ pc[c] = "done")

\* When the QUIC connection is lost the handler returns.
LostEnds == \A c \in Conns : (net[c] = "lost" /\ pc[c] # "none") ~> pc[c] = "done"

\* Every connection attempt is looked at, however long handshakes before it take.
AttemptsDecided ==
    \A c \in Conns :
        /\ net[c] = "initial" ~> net[c] # "initial"
        /\ net[c] = "validated" ~> net[c] # "validated"

\* A forwarder that still reads from its QUIC stream ends, or stops reading it,
\* after the connection is gone.
ReadersEnd ==
    \A t \in Tcps :
        (tcp[t] \in {"both", "tdone"} /\ net[owner[t]] \in {"lost", "closed"})
            ~> tcp[t] \notin {"both", "tdone"}

================================================================================
