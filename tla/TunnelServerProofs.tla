--------------------------- MODULE TunnelServerProofs ---------------------------
(***************************************************************************)
(* Proofs about TunnelServer, for all sets of connections, of external      *)
(* connections, of keys, rules and ports.                                   *)
(***************************************************************************)
EXTENDS TunnelServer, TLAPS

LEMMA MaxPortNat == MaxPort \in Nat
BY DEF MaxPort

\* The ports a session may ask for or get, and no port, may all be stored.
LEMMA PortsAreMaybePorts ==
    NoPort \in MaybePort /\ RequestPorts \subseteq MaybePort
    /\ EphemeralPorts \subseteq MaybePort
BY MaxPortNat, PortsAssumption DEF MaybePort, NoPort, Port

--------------------------------------------------------------------------------
(* The inductive invariant. *)

\* Attempts are queued once each, and only while nobody has dealt with them.
QueueInv ==
    /\ \A i \in 1 .. Len(incoming) : net[incoming[i]] \in {"initial", "validated"}
    /\ \A i, j \in 1 .. Len(incoming) : i # j => incoming[i] # incoming[j]

\* The QUIC connection of a handler exists, and is gone once it was closed.
NetInv ==
    \A c \in Conns :
        /\ pc[c] # "none" => net[c] \in {"open", "lost", "closed"}
        /\ pc[c] \in {"join", "done"} => net[c] \in {"lost", "closed"}

\* Where the listener may be, given where the handler is; a listener that has
\* not ended holds a port.
TaskInv ==
    \A c \in Conns :
        /\ pc[c] \in {"none", "auth", "config", "bind"} => lpc[c] = "none"
        /\ pc[c] = "done" => lpc[c] \in {"none", "ended"}
        /\ bound[c] # NoPort <=> lpc[c] \in {"start", "select", "opening"}

\* What the phases of the handler have established.
EntitledInv ==
    \A c \in Conns :
        /\ pc[c] \in {"config", "bind"} => c \in KnowsPsk
        /\ pc[c] = "bind" => req[c] \in RequestPorts /\ Allows(AllowedSpecs, req[c])
        /\ bound[c] # NoPort =>
              c \in KnowsPsk /\ MayListen(bound[c])

\* External connections in the hands of a listener: it exists, and it opens a
\* stream for one of them at a time.
BacklogInv ==
    /\ \A t \in Tcps :
          /\ tcp[t] # "absent" => owner[t] \in KnowsPsk
          /\ tcp[t] = "backlog" => bound[owner[t]] # NoPort
          /\ tcp[t] = "opening" => lpc[owner[t]] = "opening"
    /\ \A t, u \in Tcps :
          tcp[t] = "opening" /\ tcp[u] = "opening" /\ owner[t] = owner[u] => t = u

IndInv == TypeOK /\ QueueInv /\ NetInv /\ TaskInv /\ EntitledInv /\ BacklogInv

--------------------------------------------------------------------------------
(* Type correctness. *)

\* Incrementing a counter keeps it a natural number.
LEMMA IncType ==
    ASSUME metrics \in [Counter -> Nat], NEW m \in Counter, Inc(m)
    PROVE  metrics' \in [Counter -> Nat]
BY DEF Inc

\* Every step of every task keeps the variables within their types (a port is a
\* u16 wherever it is stored) and the accept loop at one handshake at a time.
LEMMA TypeStep == ASSUME TypeOK, [Next]_vars PROVE TypeOK'
<1> USE DEF TypeOK, acceptVars, handlerVars, listenerVars, tcpVars
<1>1. CASE Network
  <2>1. ASSUME NEW c \in Conns, ClientConnects(c) \/ ClientRetries(c) PROVE TypeOK'
    <3>1. Append(incoming, c) \in Seq(Conns)
          OBVIOUS
    <3> QED BY <2>1, <3>1 DEF ClientConnects, ClientRetries, NetState
  <2>2. ASSUME NEW c \in Conns, ConnLost(c) \/ Drain(c) PROVE TypeOK'
        BY <2>2 DEF ConnLost, Drain, NetState
  <2>3. ASSUME NEW c \in Conns, NEW t \in Tcps, ExternalConnect(t, c) PROVE TypeOK'
        BY <2>3 DEF ExternalConnect, TcpState
  <2> QED BY <1>1, <2>1, <2>2, <2>3 DEF Network
<1>2. ASSUME NEW c \in Conns, AcceptLoop(c) PROVE TypeOK'
  <2>1. Tail(incoming) \in Seq(Conns)
        BY <1>2 DEF AcceptLoop, AcceptRefuse, AcceptRetry, AcceptStart, Accepts
  <2>2. \A d \in Conns : net[d] # "handshaking"
        BY <1>2, ConnsAssumption DEF AcceptLoop, AcceptRefuse, AcceptRetry, AcceptStart, Accepts
  <2>3. CASE AcceptRefuse(c) \/ AcceptRetry(c)
        BY <2>1, <2>2, <2>3, ConnsAssumption DEF AcceptRefuse, AcceptRetry, Accepts, NetState
  <2>4. CASE AcceptStart(c)
        BY <2>1, <2>2, <2>4 DEF AcceptStart, NetState
  <2> QED BY <1>2, <2>3, <2>4 DEF AcceptLoop
<1>3. ASSUME NEW c \in Conns, HandshakeOk(c) \/ HandshakeErr(c) PROVE TypeOK'
  <2>1. \A d \in Conns : d # c => net[d] # "handshaking"
        BY <1>3 DEF HandshakeOk, HandshakeErr
  <2>2. CASE HandshakeOk(c)
        BY <2>1, <2>2, ConnsAssumption DEF HandshakeOk, NetState, HandlerPc
  <2>3. CASE HandshakeErr(c)
        BY <2>1, <2>3, ConnsAssumption DEF HandshakeErr, NetState
  <2> QED BY <1>3, <2>2, <2>3
<1>4. ASSUME NEW c \in Conns, Handler(c) PROVE TypeOK'
  <2>1. ASSUME Reject(c) PROVE TypeOK'
        BY <2>1 DEF Reject, CloseConn, NetState, HandlerPc
  <2>2. CASE AuthOk(c) \/ ControlEnds(c) \/ JoinListener(c)
        BY <2>2 DEF AuthOk, ControlEnds, JoinListener, HandlerPc
  <2>5. CASE CloseQuic(c)
        BY <2>5 DEF CloseQuic, CloseConn, NetState, HandlerPc
  <2>3. ASSUME NEW p \in RequestPorts, ConfigOk(c, p) PROVE TypeOK'
        BY <2>3, PortsAreMaybePorts DEF ConfigOk, HandlerPc
  <2>4. CASE BindOk(c)
    <3>1. PICK p \in BindChoices(req[c]) : bound' = [bound EXCEPT ![c] = p]
          BY <2>4 DEF BindOk
    <3>2. p \in MaybePort
          BY <3>1, PortsAreMaybePorts DEF BindChoices
    <3> QED BY <2>4, <3>1, <3>2 DEF BindOk, HandlerPc, ListenerPc
  <2> QED BY <1>4, <2>1, <2>2, <2>3, <2>4, <2>5
          DEF Handler, AuthFails, PortRefused, ConfigFails, BindFails
<1>5. ASSUME NEW c \in Conns, Listener(c) PROVE TypeOK'
  <2>1. ASSUME EndListener(c) PROVE TypeOK'
        BY <2>1, PortsAreMaybePorts DEF EndListener, ListenerPc, TcpState
  <2>2. CASE ListenerStarts(c)
        BY <2>2 DEF ListenerStarts, ListenerPc
  <2>3. CASE ListenerAcceptErr(c)
        BY <2>3, IncType DEF ListenerAcceptErr, Counter
  <2> QED BY <1>5, <2>1, <2>2, <2>3 DEF Listener, ListenerAborts, ListenerCancel
<1>6. ASSUME NEW t \in Tcps, ListenerStream(t) PROVE TypeOK'
  <2>1. metrics' \in [Counter -> Nat]
        BY <1>6, IncType DEF ListenerStream, ListenerAccept, OpenBiOk, OpenBiErr, Counter
  <2> QED BY <1>6, <2>1 DEF ListenerStream, ListenerAccept, OpenBiOk, OpenBiErr,
                            ListenerPc, TcpState, Forwarding
<1>7. ASSUME NEW t \in Tcps, Forwarder(t) PROVE TypeOK'
  <2>1. ASSUME EndGraceful(t) \/ EndError(t) PROVE TypeOK'
    <3>1. metrics' \in [Counter -> Nat]
          BY <2>1, IncType DEF EndGraceful, EndError, Counter
    <3> QED BY <2>1, <3>1 DEF EndGraceful, EndError, ForwarderUnchanged, TcpState
  <2>2. ASSUME NEW half \in {"qdone", "tdone"}, HalfClose(t, half) PROVE TypeOK'
        BY <2>2 DEF HalfClose, ForwarderUnchanged, TcpState, Forwarding
  <2> QED BY <1>7, <2>1, <2>2 DEF Forwarder, FwdTcpEof, FwdQuicEof, FwdErrorZero,
                                  FwdTcpError, FwdConnLost, FwdWriteLost
<1>8. CASE UNCHANGED vars
  BY <1>8 DEF vars
<1> QED BY <1>1, <1>2, <1>3, <1>4, <1>5, <1>6, <1>7, <1>8 DEF Next

LEMMA TypeInit == Init => TypeOK
BY PortsAreMaybePorts, ConnsAssumption DEF Init, TypeOK,
    NetState, HandlerPc, ListenerPc, TcpState, Counter

\* The type invariant of the server, for every instance: the types, and a
\* connection is in its handshake exactly while the accept loop awaits it.
THEOREM TypeCorrect == SafetySpec => []TypeOK
BY TypeInit, TypeStep, PTL DEF SafetySpec

--------------------------------------------------------------------------------
(* The steps that do not concern a part of the invariant. *)

\* The steps of the listeners and forwarders leave the QUIC side alone.
LEMMA TcpSideFrame ==
    ASSUME \/ \E c \in Conns : Listener(c)
           \/ \E t \in Tcps : ListenerStream(t) \/ Forwarder(t)
           \/ \E t \in Tcps, c \in Conns : ExternalConnect(t, c)
    PROVE  UNCHANGED <<incoming, net, slab, acceptor, pc, req, cancelled>>
BY DEF Listener, ListenerStarts, ListenerAborts, ListenerCancel, ListenerAcceptErr,
       EndListener, ListenerStream, ListenerAccept, OpenBiOk, OpenBiErr, Forwarder,
       FwdTcpEof, FwdQuicEof, FwdErrorZero, FwdTcpError, FwdConnLost, FwdWriteLost,
       EndGraceful, EndError, HalfClose, ForwarderUnchanged, ExternalConnect,
       acceptVars, handlerVars

\* The accept loop and the network leave the sessions' listeners alone.
LEMMA QuicSideFrame ==
    ASSUME NEW c \in Conns,
           \/ ClientConnects(c) \/ ClientRetries(c) \/ ConnLost(c) \/ Drain(c)
           \/ AcceptLoop(c) \/ HandshakeOk(c) \/ HandshakeErr(c)
    PROVE  UNCHANGED <<req, cancelled, lpc, bound, tcp, owner, metrics>>
BY DEF ClientConnects, ClientRetries, ConnLost, Drain, AcceptLoop, AcceptRefuse,
       AcceptRetry, AcceptStart, HandshakeOk, HandshakeErr,
       acceptVars, handlerVars, listenerVars, tcpVars

\* The handler touches neither the accept queue nor external connections.
LEMMA HandlerFrame ==
    ASSUME NEW c \in Conns, Handler(c)
    PROVE  UNCHANGED <<incoming, slab, acceptor, tcp, owner, metrics>>
BY DEF Handler, AuthOk, AuthFails, ConfigOk, PortRefused, ConfigFails, BindOk,
       BindFails, ControlEnds, CloseQuic, JoinListener, Reject, acceptVars, tcpVars

\* What the handler does to its QUIC connection: nothing, or it closes it.
LEMMA HandlerNet ==
    ASSUME TypeOK, NEW c \in Conns, Handler(c)
    PROVE  \/ net' = net
           \/ net[c] = "open" /\ net' = [net EXCEPT ![c] = "closed"]
<1>1. ASSUME CloseConn(c)
      PROVE  net' = net \/ (net[c] = "open" /\ net' = [net EXCEPT ![c] = "closed"])
      BY <1>1 DEF CloseConn, TypeOK
<1> QED BY <1>1 DEF Handler, AuthOk, AuthFails, ConfigOk, PortRefused, ConfigFails,
                    BindOk, BindFails, ControlEnds, CloseQuic, JoinListener, Reject

--------------------------------------------------------------------------------
(* Each part of the invariant is preserved. *)

\* A change of a connection that is neither queued nor in its handshake.
LEMMA QueueFrame ==
    ASSUME TypeOK, QueueInv, NEW d \in Conns, NEW v,
           net[d] \notin {"initial", "validated", "handshaking"},
           net' = [net EXCEPT ![d] = v], UNCHANGED <<incoming, acceptor>>
    PROVE  QueueInv'
BY DEF QueueInv, TypeOK

LEMMA QueueStep == ASSUME IndInv, Next PROVE QueueInv'
<1> USE DEF IndInv
<1>1. ASSUME NEW c \in Conns, ClientConnects(c) \/ ClientRetries(c) PROVE QueueInv'
  <2>1. /\ net[c] \in {"absent", "retried"}
        /\ net' \in {[net EXCEPT ![c] = "initial"], [net EXCEPT ![c] = "validated"]}
        /\ incoming' = Append(incoming, c)
        /\ acceptor' = acceptor
        BY <1>1 DEF ClientConnects, ClientRetries
  <2>2. \A i \in 1 .. Len(incoming) : incoming[i] # c
        BY <2>1 DEF QueueInv
  <2>3. /\ Len(incoming') = Len(incoming) + 1
        /\ \A i \in 1 .. Len(incoming) : incoming'[i] = incoming[i]
        /\ incoming'[Len(incoming) + 1] = c
        /\ Len(incoming) \in Nat
        /\ \A i \in 1 .. Len(incoming) : incoming[i] \in Conns
        BY <2>1 DEF TypeOK
  <2>4. \A i \in 1 .. Len(incoming') : net'[incoming'[i]] \in {"initial", "validated"}
        BY <2>1, <2>2, <2>3 DEF QueueInv, TypeOK
  <2>5. \A i, j \in 1 .. Len(incoming') : i # j => incoming'[i] # incoming'[j]
        BY <2>2, <2>3 DEF QueueInv
  <2> QED BY <2>4, <2>5 DEF QueueInv
<1>2. ASSUME NEW c \in Conns, ConnLost(c) PROVE QueueInv'
      BY <1>2, QueueFrame DEF ConnLost, acceptVars
<1>3. ASSUME NEW c \in Conns, Drain(c) PROVE QueueInv'
      BY <1>3 DEF Drain, QueueInv
<1>4. ASSUME NEW c \in Conns, AcceptLoop(c) PROVE QueueInv'
  <2>1. /\ incoming # <<>> /\ c = incoming[1] /\ incoming' = Tail(incoming)
        /\ acceptor = NoConn
        /\ \/ acceptor' = NoConn /\ net' \in {[net EXCEPT ![c] = "refused"],
                                              [net EXCEPT ![c] = "retried"]}
           \/ acceptor' = c /\ net' = [net EXCEPT ![c] = "handshaking"]
        BY <1>4 DEF AcceptLoop, AcceptRefuse, AcceptRetry, AcceptStart, Accepts, TypeOK
  <2>2. /\ Len(incoming') = Len(incoming) - 1
        /\ \A i \in 1 .. Len(incoming') : incoming'[i] = incoming[i + 1]
        /\ Len(incoming) \in Nat \ {0}
        /\ \A i \in 1 .. Len(incoming) : incoming[i] \in Conns
        BY <2>1 DEF TypeOK
  <2>3. \A i \in 1 .. Len(incoming') :
            i + 1 \in 1 .. Len(incoming) /\ i + 1 # 1 /\ incoming'[i] # c
        BY <2>1, <2>2 DEF QueueInv
  <2>4. \A i \in 1 .. Len(incoming') : net'[incoming'[i]] \in {"initial", "validated"}
        BY <2>1, <2>2, <2>3 DEF QueueInv, TypeOK
  <2>5. \A i, j \in 1 .. Len(incoming') : i # j => incoming'[i] # incoming'[j]
        BY <2>2, <2>3 DEF QueueInv
  <2> QED BY <2>4, <2>5 DEF QueueInv
<1>5. ASSUME NEW c \in Conns, HandshakeOk(c) \/ HandshakeErr(c) PROVE QueueInv'
  <2>1. /\ net[c] = "handshaking" /\ acceptor' = NoConn /\ incoming' = incoming
        /\ net' \in {[net EXCEPT ![c] = "open"], [net EXCEPT ![c] = "lost"]}
        BY <1>5, ConnsAssumption DEF HandshakeOk, HandshakeErr, QueueInv
  <2>2. \A i \in 1 .. Len(incoming) : incoming[i] \in Conns /\ incoming[i] # c
        BY <2>1 DEF QueueInv, TypeOK
  <2>3. \A d \in Conns : d # c => net'[d] = net[d]
        BY <2>1 DEF TypeOK
  <2> QED BY <2>1, <2>2, <2>3 DEF QueueInv
<1>6. ASSUME NEW c \in Conns, Handler(c) PROVE QueueInv'
  <2>1. CASE net' = net
        BY <2>1, <1>6, HandlerFrame DEF QueueInv
  <2> QED BY <1>6, <2>1, HandlerNet, HandlerFrame, QueueFrame
<1>7. ASSUME UNCHANGED <<incoming, net, acceptor>> PROVE QueueInv'
      BY <1>7 DEF QueueInv
<1> QED BY <1>1, <1>2, <1>3, <1>4, <1>5, <1>6, <1>7, TcpSideFrame DEF Next, Network

LEMMA NetStep == ASSUME IndInv, Next PROVE NetInv'
<1> USE DEF IndInv
<1>1. ASSUME NEW c \in Conns, ClientConnects(c) \/ ClientRetries(c) \/ ConnLost(c) \/ Drain(c)
      PROVE  NetInv'
      BY <1>1 DEF ClientConnects, ClientRetries, ConnLost, Drain, handlerVars, NetInv, TypeOK
<1>2. ASSUME NEW c \in Conns, AcceptLoop(c) PROVE NetInv'
  <2>1. /\ incoming # <<>> /\ c = incoming[1] /\ pc' = pc
        /\ \E v : net' = [net EXCEPT ![c] = v]
        BY <1>2 DEF AcceptLoop, AcceptRefuse, AcceptRetry, AcceptStart, Accepts,
                    handlerVars, TypeOK
  <2>2. 1 \in 1 .. Len(incoming)
        BY <2>1 DEF TypeOK
  <2>3. net[c] \in {"initial", "validated"}
        BY <2>1, <2>2 DEF QueueInv
  <2> QED BY <2>1, <2>3 DEF NetInv, TypeOK
<1>3. ASSUME NEW c \in Conns, HandshakeOk(c) \/ HandshakeErr(c) PROVE NetInv'
  <2>1. net[c] = "handshaking"
        BY <1>3, ConnsAssumption DEF HandshakeOk, HandshakeErr, QueueInv
  <2> QED BY <1>3, <2>1 DEF HandshakeOk, HandshakeErr, handlerVars, NetInv, TypeOK
<1>4. ASSUME NEW c \in Conns, Handler(c) PROVE NetInv'
  <2>1. ASSUME CloseConn(c), pc[c] # "none", NEW v, pc' = [pc EXCEPT ![c] = v] PROVE NetInv'
        BY <2>1 DEF CloseConn, NetInv, TypeOK
  <2>2. ASSUME Reject(c), pc[c] # "none" PROVE NetInv'
        BY <2>1, <2>2 DEF Reject
  <2>3. CASE AuthOk(c) \/ (\E p \in RequestPorts : ConfigOk(c, p)) \/ BindOk(c)
             \/ ControlEnds(c) \/ JoinListener(c)
        BY <2>3 DEF AuthOk, ConfigOk, BindOk, ControlEnds, JoinListener, NetInv, TypeOK
  <2>4. CASE CloseQuic(c)
        BY <2>1, <2>4 DEF CloseQuic
  <2> QED BY <1>4, <2>2, <2>3, <2>4
          DEF Handler, AuthFails, PortRefused, ConfigFails, BindFails
<1>5. ASSUME UNCHANGED <<net, pc>> PROVE NetInv'
      BY <1>5 DEF NetInv
<1> QED BY <1>1, <1>2, <1>3, <1>4, <1>5, TcpSideFrame DEF Next, Network

LEMMA TaskStep == ASSUME IndInv, Next PROVE TaskInv'
<1> USE DEF IndInv
<1>1. ASSUME NEW c \in Conns,
             \/ ClientConnects(c) \/ ClientRetries(c) \/ ConnLost(c) \/ Drain(c)
             \/ AcceptLoop(c) \/ HandshakeErr(c)
      PROVE  UNCHANGED <<pc, lpc, bound>>
      BY <1>1 DEF ClientConnects, ClientRetries, ConnLost, Drain, AcceptLoop,
                  AcceptRefuse, AcceptRetry, AcceptStart, HandshakeErr,
                  handlerVars, listenerVars
<1>2. ASSUME NEW c \in Conns, HandshakeOk(c) PROVE TaskInv'
  <2>1. net[c] = "handshaking"
        BY <1>2, ConnsAssumption DEF HandshakeOk, QueueInv
  <2>2. pc[c] = "none"
        BY <2>1 DEF NetInv
  <2> QED BY <1>2, <2>2 DEF HandshakeOk, listenerVars, TaskInv, TypeOK
<1>3. ASSUME NEW c \in Conns, Handler(c) PROVE TaskInv'
  <2>1. ASSUME Reject(c), pc[c] \in {"auth", "config", "bind"} PROVE TaskInv'
        BY <2>1 DEF Reject, listenerVars, TaskInv, TypeOK
  <2>2. CASE AuthOk(c) \/ (\E p \in RequestPorts : ConfigOk(c, p))
             \/ ControlEnds(c) \/ CloseQuic(c) \/ JoinListener(c)
        BY <2>2 DEF AuthOk, ConfigOk, ControlEnds, CloseQuic, JoinListener,
                    listenerVars, TaskInv, TypeOK
  <2>3. CASE BindOk(c)
    <3>1. PICK p \in BindChoices(req[c]) : bound' = [bound EXCEPT ![c] = p]
          BY <2>3 DEF BindOk
    <3>2. p # NoPort
          BY <2>3, <3>1, PortsAssumption
          DEF BindOk, EntitledInv, BindChoices, NoPort, Port
    <3> QED BY <2>3, <3>1, <3>2 DEF BindOk, TaskInv, TypeOK
  <2> QED BY <1>3, <2>1, <2>2, <2>3
          DEF Handler, AuthFails, PortRefused, ConfigFails, BindFails
<1>4. ASSUME NEW c \in Conns, Listener(c) PROVE TaskInv'
      BY <1>4 DEF Listener, ListenerStarts, ListenerAborts, ListenerCancel,
                  ListenerAcceptErr, EndListener, handlerVars, listenerVars, TaskInv, TypeOK
<1>5. ASSUME NEW t \in Tcps, ListenerStream(t) PROVE TaskInv'
  <2>1. /\ owner[t] \in Conns
        /\ lpc[owner[t]] \in {"select", "opening"}
        /\ UNCHANGED <<pc, bound>>
        /\ lpc' \in {[lpc EXCEPT ![owner[t]] = "opening"],
                     [lpc EXCEPT ![owner[t]] = "select"]}
        BY <1>5, ConnsAssumption
        DEF ListenerStream, ListenerAccept, OpenBiOk, OpenBiErr, handlerVars, BacklogInv
  <2> QED BY <2>1 DEF TaskInv, TypeOK
<1>6. ASSUME NEW t \in Tcps, Forwarder(t) \/ (\E c \in Conns : ExternalConnect(t, c))
      PROVE  UNCHANGED <<pc, lpc, bound>>
      BY <1>6 DEF Forwarder, FwdTcpEof, FwdQuicEof, FwdErrorZero, FwdTcpError,
                  FwdConnLost, FwdWriteLost, EndGraceful, EndError, HalfClose,
                  ForwarderUnchanged, ExternalConnect, handlerVars, listenerVars
<1>7. ASSUME UNCHANGED <<pc, lpc, bound>> PROVE TaskInv'
      BY <1>7 DEF TaskInv
<1> QED BY <1>1, <1>2, <1>3, <1>4, <1>5, <1>6, <1>7 DEF Next, Network

LEMMA EntitledStep == ASSUME IndInv, Next PROVE EntitledInv'
<1> USE DEF IndInv
<1>1. ASSUME NEW c \in Conns,
             \/ ClientConnects(c) \/ ClientRetries(c) \/ ConnLost(c) \/ Drain(c)
             \/ AcceptLoop(c) \/ HandshakeErr(c)
      PROVE  UNCHANGED <<pc, req, bound>>
      BY <1>1 DEF ClientConnects, ClientRetries, ConnLost, Drain, AcceptLoop,
                  AcceptRefuse, AcceptRetry, AcceptStart, HandshakeErr,
                  handlerVars, listenerVars
<1>2. ASSUME NEW c \in Conns, HandshakeOk(c) PROVE EntitledInv'
      BY <1>2 DEF HandshakeOk, listenerVars, EntitledInv, MayListen, TypeOK
<1>3. ASSUME NEW c \in Conns, Handler(c) PROVE EntitledInv'
  <2>1. ASSUME NEW v \in {"control", "close", "join", "done"},
               pc' = [pc EXCEPT ![c] = v], UNCHANGED <<req, bound>>
        PROVE  EntitledInv'
        BY <2>1 DEF EntitledInv, MayListen, TypeOK
  <2>2. CASE AuthOk(c)
        BY <2>2 DEF AuthOk, listenerVars, EntitledInv, MayListen, TypeOK
  <2>3. ASSUME NEW p \in RequestPorts, ConfigOk(c, p) PROVE EntitledInv'
        BY <2>3 DEF ConfigOk, listenerVars, EntitledInv, MayListen, TypeOK
  <2>4. CASE BindOk(c)
    <3>1. PICK p \in BindChoices(req[c]) : bound' = [bound EXCEPT ![c] = p]
          BY <2>4 DEF BindOk
    <3>2. c \in KnowsPsk /\ MayListen(p)
          BY <2>4, <3>1 DEF BindOk, BindChoices, EntitledInv, MayListen
    <3> QED BY <2>4, <3>1, <3>2 DEF BindOk, EntitledInv, MayListen, TypeOK
  <2> QED BY <1>3, <2>1, <2>2, <2>3, <2>4
          DEF Handler, AuthFails, PortRefused, ConfigFails, BindFails, ControlEnds,
              CloseQuic, JoinListener, Reject, listenerVars
<1>4. ASSUME NEW c \in Conns, EndListener(c) PROVE EntitledInv'
      BY <1>4 DEF EndListener, handlerVars, EntitledInv, MayListen, TypeOK
<1>5. ASSUME NEW c \in Conns, ListenerStarts(c) \/ ListenerAcceptErr(c)
      PROVE  UNCHANGED <<pc, req, bound>>
      BY <1>5 DEF ListenerStarts, ListenerAcceptErr, handlerVars, listenerVars
<1>6. ASSUME NEW t \in Tcps, \/ ListenerStream(t) \/ Forwarder(t)
                             \/ \E c \in Conns : ExternalConnect(t, c)
      PROVE  UNCHANGED <<pc, req, bound>>
      BY <1>6 DEF ListenerStream, ListenerAccept, OpenBiOk, OpenBiErr, Forwarder,
                  FwdTcpEof, FwdQuicEof, FwdErrorZero, FwdTcpError,
                  FwdConnLost, FwdWriteLost, EndGraceful, EndError, HalfClose,
                  ForwarderUnchanged, ExternalConnect, handlerVars, listenerVars
<1>7. ASSUME UNCHANGED <<pc, req, bound>> PROVE EntitledInv'
      BY <1>7 DEF EntitledInv, MayListen
<1> QED BY <1>1, <1>2, <1>3, <1>4, <1>5, <1>6, <1>7
        DEF Next, Network, Listener, ListenerAborts, ListenerCancel

\* A connection that reaches a state no listener deals with.
LEMMA BacklogFrame ==
    ASSUME TypeOK, BacklogInv, NEW t \in Tcps, tcp[t] # "absent",
           NEW v, v \notin {"absent", "backlog", "opening"},
           tcp' = [tcp EXCEPT ![t] = v], UNCHANGED <<owner, lpc, bound>>
    PROVE  BacklogInv'
BY DEF BacklogInv, TypeOK

LEMMA BacklogStep == ASSUME IndInv, Next PROVE BacklogInv'
<1> USE DEF IndInv
<1>1. ASSUME NEW c \in Conns,
             \/ ClientConnects(c) \/ ClientRetries(c) \/ ConnLost(c) \/ Drain(c)
             \/ AcceptLoop(c) \/ HandshakeOk(c) \/ HandshakeErr(c)
      PROVE  BacklogInv'
      BY <1>1, QuicSideFrame DEF BacklogInv
<1>2. ASSUME NEW t \in Tcps, NEW c \in Conns, ExternalConnect(t, c) PROVE BacklogInv'
      BY <1>2 DEF ExternalConnect, listenerVars, BacklogInv, EntitledInv, TypeOK
<1>3. ASSUME NEW c \in Conns, Handler(c) PROVE BacklogInv'
  <2>1. UNCHANGED <<tcp, owner>>
        BY <1>3, HandlerFrame
  <2>2. CASE BindOk(c)
    <3>1. lpc[c] = "none" /\ bound[c] = NoPort
          BY <2>2 DEF BindOk, TaskInv
    <3>2. \A t \in Tcps : tcp[t] \in {"backlog", "opening"} => owner[t] # c
          BY <3>1 DEF BacklogInv
    <3>3. \A d \in Conns \ {c} : lpc'[d] = lpc[d] /\ bound'[d] = bound[d]
          BY <2>2 DEF BindOk, TypeOK
    <3> QED BY <2>1, <3>2, <3>3, ConnsAssumption DEF BacklogInv
  <2>3. CASE UNCHANGED <<lpc, bound>>
        BY <2>1, <2>3 DEF BacklogInv
  <2> QED BY <1>3, <2>2, <2>3
          DEF Handler, AuthOk, AuthFails, ConfigOk, PortRefused, ConfigFails,
              BindFails, ControlEnds, CloseQuic, JoinListener, Reject, listenerVars
<1>4. ASSUME NEW c \in Conns, EndListener(c), lpc[c] # "opening" PROVE BacklogInv'
  <2>1. \A t \in Tcps : /\ owner'[t] = owner[t]
                        /\ tcp'[t] = IF tcp[t] = "backlog" /\ owner[t] = c
                                     THEN "reset" ELSE tcp[t]
        BY <1>4 DEF EndListener
  <2>2. \A d \in Conns \ {c} : lpc'[d] = lpc[d] /\ bound'[d] = bound[d]
        BY <1>4 DEF EndListener, TypeOK
  <2>3. \A t \in Tcps : tcp'[t] \in {"backlog", "opening"} => owner[t] \in Conns \ {c}
        BY <1>4, <2>1, ConnsAssumption DEF BacklogInv
  <2> QED BY <2>1, <2>2, <2>3 DEF BacklogInv
<1>5. ASSUME NEW c \in Conns, ListenerStarts(c) \/ ListenerAcceptErr(c) PROVE BacklogInv'
  <2>1. UNCHANGED <<tcp, owner, bound>>
        BY <1>5 DEF ListenerStarts, ListenerAcceptErr, tcpVars, listenerVars
  <2>2. \A d \in Conns : lpc[d] = "opening" => lpc'[d] = "opening"
        BY <1>5 DEF ListenerStarts, ListenerAcceptErr, listenerVars, TypeOK
  <2> QED BY <2>1, <2>2, ConnsAssumption DEF BacklogInv
<1>6. ASSUME NEW t \in Tcps, ListenerAccept(t) PROVE BacklogInv'
  <2>1. \A u \in Tcps : tcp[u] = "opening" => owner[u] # owner[t]
        BY <1>6 DEF ListenerAccept, BacklogInv
  <2>2. owner[t] \in Conns
        BY <1>6, ConnsAssumption DEF ListenerAccept, BacklogInv
  <2> QED BY <1>6, <2>1, <2>2 DEF ListenerAccept, BacklogInv, TypeOK
<1>7. ASSUME NEW t \in Tcps, OpenBiOk(t) \/ OpenBiErr(t) PROVE BacklogInv'
  <2>1. /\ tcp[t] = "opening" /\ UNCHANGED <<owner, bound>>
        /\ tcp' \in {[tcp EXCEPT ![t] = "both"], [tcp EXCEPT ![t] = "openfailed"]}
        /\ lpc' = [lpc EXCEPT ![owner[t]] = "select"]
        BY <1>7 DEF OpenBiOk, OpenBiErr
  <2>2. \A u \in Tcps \ {t} : tcp[u] = "opening" => owner[u] # owner[t]
        BY <2>1 DEF BacklogInv
  <2>3. \A u \in Tcps : tcp[u] = "opening" => owner[u] \in Conns
        BY ConnsAssumption DEF BacklogInv
  <2>4. /\ \A u \in Tcps \ {t} : tcp'[u] = tcp[u]
        /\ tcp'[t] \notin {"absent", "backlog", "opening"}
        BY <2>1 DEF TypeOK
  <2>5. \A u \in Tcps \ {t} : tcp[u] = "opening" => lpc'[owner[u]] = lpc[owner[u]]
        BY <2>1, <2>2, <2>3 DEF TypeOK
  <2> QED BY <2>1, <2>4, <2>5 DEF BacklogInv
<1>8. ASSUME NEW t \in Tcps, Forwarder(t) PROVE BacklogInv'
  <2>1. \E v \in {"qdone", "tdone", "graceful", "error"} : tcp' = [tcp EXCEPT ![t] = v]
        BY <1>8 DEF Forwarder, FwdTcpEof, FwdQuicEof, FwdErrorZero, FwdTcpError,
                    FwdConnLost, FwdWriteLost, EndGraceful, EndError, HalfClose
  <2>2. tcp[t] # "absent" /\ UNCHANGED <<owner, lpc, bound>>
        BY <1>8 DEF Forwarder, FwdTcpEof, FwdQuicEof, FwdErrorZero, FwdTcpError,
                    FwdConnLost, FwdWriteLost, EndGraceful, EndError, HalfClose,
                    ForwarderUnchanged, listenerVars, Forwarding
  <2> QED BY <2>1, <2>2, BacklogFrame
<1> QED BY <1>1, <1>2, <1>3, <1>4, <1>5, <1>6, <1>7, <1>8
        DEF Next, Network, Listener, ListenerAborts, ListenerCancel, ListenerStream

--------------------------------------------------------------------------------
(* The invariant, and what follows from it. *)

LEMMA IndInit == Init => IndInv
<1> SUFFICES ASSUME Init PROVE IndInv
    OBVIOUS
<1>1. TypeOK
      BY TypeInit
<1>2. QueueInv /\ NetInv /\ TaskInv /\ EntitledInv /\ BacklogInv
      BY DEF Init, QueueInv, NetInv, TaskInv, EntitledInv, BacklogInv
<1> QED BY <1>1, <1>2 DEF IndInv

LEMMA IndStep == IndInv /\ [Next]_vars => IndInv'
<1> SUFFICES ASSUME IndInv, [Next]_vars PROVE IndInv'
    OBVIOUS
<1>1. CASE Next
      BY <1>1, TypeStep, QueueStep, NetStep, TaskStep, EntitledStep, BacklogStep DEF IndInv
<1>2. CASE UNCHANGED vars
      BY <1>2 DEF vars, IndInv, TypeOK, QueueInv, NetInv, TaskInv, EntitledInv,
                  BacklogInv, MayListen
<1> QED BY <1>1, <1>2

LEMMA Invariance == SafetySpec => []IndInv
BY IndInit, IndStep, PTL DEF SafetySpec

\* Only entitled sessions hold a port or have external connections accepted for
\* them, in every state of every instance.
THEOREM Authorised == SafetySpec => []ListenersAuthorised
<1>1. IndInv => ListenersAuthorised
      BY DEF IndInv, EntitledInv, BacklogInv, ListenersAuthorised
<1> QED BY <1>1, Invariance, PTL

\* A handler that has returned has released its port, its listener, the waiting
\* external connections and its QUIC connection.
THEOREM EndReleases == SafetySpec => []HandlerEndReleases
<1>1. IndInv => HandlerEndReleases
      BY DEF IndInv, NetInv, TaskInv, BacklogInv, HandlerEndReleases
<1> QED BY <1>1, Invariance, PTL

\* No data stream is opened for a session after its connection was closed.
THEOREM StreamsBeforeClose == SafetySpec => NoStreamAfterClose
<1>1. ASSUME IndInv, [Next]_vars, NEW t \in Tcps, StreamStarts(t)
      PROVE  pc[owner[t]] \in {"control", "close"}
  <2>1. OpenBiOk(t)
    <3>1. tcp'[t] = "both" /\ tcp[t] # "both"
          BY <1>1 DEF StreamStarts
    <3>2. tcp' # tcp
          BY <3>1
    <3>3. PICK u \in Tcps : \/ ListenerStream(u) \/ Forwarder(u)
                            \/ \E c \in Conns : ExternalConnect(u, c)
                            \/ \E c \in Conns : EndListener(c)
          BY <1>1, <3>2, QuicSideFrame, HandlerFrame
          DEF Next, Network, Listener, ListenerStarts, ListenerAcceptErr,
              ListenerAborts, ListenerCancel, tcpVars, vars
    <3>4. ~ \E c \in Conns : EndListener(c)
          BY <3>1 DEF EndListener
    <3>5. \/ OpenBiOk(u)
          \/ \E v \in {"backlog", "opening", "openfailed", "qdone", "tdone",
                       "graceful", "error"} : tcp' = [tcp EXCEPT ![u] = v]
          BY <3>3, <3>4
          DEF ListenerStream, ListenerAccept, OpenBiErr, Forwarder, FwdTcpEof,
              FwdQuicEof, FwdErrorZero, FwdTcpError, FwdConnLost, FwdWriteLost,
              EndGraceful, EndError, HalfClose, ExternalConnect
    <3>6. OpenBiOk(u)
          BY <3>1, <3>5, <1>1 DEF IndInv, TypeOK
    <3>7. u = t
          BY <3>1, <3>6, <1>1 DEF OpenBiOk, IndInv, TypeOK
    <3> QED BY <3>6, <3>7
  <2>2. owner[t] \in Conns /\ lpc[owner[t]] = "opening" /\ net[owner[t]] = "open"
        BY <1>1, <2>1, ConnsAssumption DEF OpenBiOk, IndInv, BacklogInv
  <2>3. pc[owner[t]] \in HandlerPc
        BY <1>1, <2>2 DEF IndInv, TypeOK
  <2> QED BY <1>1, <2>2, <2>3 DEF IndInv, NetInv, TaskInv, HandlerPc
<1>2. IndInv /\ [Next]_vars =>
        [\A t \in Tcps : StreamStarts(t) => pc[owner[t]] \in {"control", "close"}]_vars
      BY <1>1
<1> QED BY <1>2, Invariance, PTL DEF SafetySpec, NoStreamAfterClose

================================================================================
