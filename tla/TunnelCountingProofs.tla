-------------------------- MODULE TunnelCountingProofs --------------------------
(***************************************************************************)
(* Proofs of what TunnelServer counts: the connections against the limit,  *)
(* and the accepted external connections against their outcomes.           *)
(***************************************************************************)
EXTENDS TunnelServerProofs, FiniteSetTheorems

\* The limit is kept, over a set that quinn can count.
LimitInv == IsFiniteSet(slab) /\ ConnectionLimitRespected

\* A connection that is counted was admitted below the limit.
LEMMA AdmitStep ==
    ASSUME LimitInv, NEW c \in Conns, AcceptStart(c)
    PROVE  LimitInv'
<1>1. slab' = slab \cup {c} /\ ~LimitReached
      BY DEF AcceptStart
<1>2. /\ IsFiniteSet(slab') /\ Cardinality(slab) \in Nat
      /\ Cardinality(slab') \in {Cardinality(slab), Cardinality(slab) + 1}
      BY <1>1, FS_AddElement, FS_CardinalityType DEF LimitInv
<1>3. \A n \in ConnectionLimit : n \in Nat /\ ~(Cardinality(slab) >= n)
      BY <1>1, BoundsAssumption DEF LimitReached
<1> QED BY <1>2, <1>3 DEF LimitInv, ConnectionLimitRespected

\* A connection that quinn forgets makes room.
LEMMA DrainStep ==
    ASSUME LimitInv, NEW c \in Conns, Drain(c)
    PROVE  LimitInv'
<1>1. slab' = slab \ {c} /\ c \in slab
      BY DEF Drain
<1>2. /\ IsFiniteSet(slab') /\ Cardinality(slab) \in Nat
      /\ Cardinality(slab') = Cardinality(slab) - 1
      BY <1>1, FS_RemoveElement, FS_CardinalityType DEF LimitInv
<1>3. ConnectionLimit \subseteq Nat
      BY BoundsAssumption
<1> QED BY <1>2, <1>3 DEF LimitInv, ConnectionLimitRespected

LEMMA LimitStep == LimitInv /\ [Next]_vars => LimitInv'
<1> SUFFICES ASSUME LimitInv, [Next]_vars PROVE LimitInv'
    OBVIOUS
<1>1. ASSUME slab' = slab PROVE LimitInv'
      BY <1>1 DEF LimitInv, ConnectionLimitRespected
<1>2. CASE UNCHANGED vars
      BY <1>1, <1>2 DEF vars
<1>3. ASSUME NEW c \in Conns, \/ ClientConnects(c) \/ ClientRetries(c) \/ ConnLost(c)
                              \/ AcceptRefuse(c) \/ AcceptRetry(c)
                              \/ HandshakeOk(c) \/ HandshakeErr(c)
      PROVE  slab' = slab
      BY <1>3 DEF ClientConnects, ClientRetries, ConnLost, AcceptRefuse, AcceptRetry,
                  HandshakeOk, HandshakeErr, acceptVars
<1>4. ASSUME NEW c \in Conns, Handler(c) PROVE slab' = slab
      BY <1>4, HandlerFrame
<1>5. ASSUME \/ \E c \in Conns : Listener(c)
             \/ \E t \in Tcps : ListenerStream(t) \/ Forwarder(t)
             \/ \E t \in Tcps, c \in Conns : ExternalConnect(t, c)
      PROVE  slab' = slab
      BY <1>5, TcpSideFrame
<1> QED BY <1>1, <1>2, <1>3, <1>4, <1>5, AdmitStep, DrainStep DEF Next, Network, AcceptLoop

\* run_quic_server never has more connections than connection_limit, however
\* attempts, handshakes, closes and the forgetting of connections interleave.
THEOREM LimitKept == SafetySpec => []ConnectionLimitRespected
<1>1. Init => LimitInv
  <2> SUFFICES ASSUME Init PROVE LimitInv
      OBVIOUS
  <2>1. slab = {} /\ IsFiniteSet(slab) /\ Cardinality(slab) = 0
        BY FS_EmptySet DEF Init
  <2> QED BY <2>1, BoundsAssumption DEF LimitInv, ConnectionLimitRespected
<1>2. LimitInv => ConnectionLimitRespected
      BY DEF LimitInv
<1> QED BY <1>1, <1>2, LimitStep, PTL DEF SafetySpec

--------------------------------------------------------------------------------
(* Accepted connections and their outcomes. *)

\* The external connections that were accepted and have no outcome yet.
Unsettled == {t \in Tcps : tcp[t] \in Forwarding \cup {"opening"}}

\* The counters balance, over a set that can be counted.
AccountInv == IsFiniteSet(Unsettled) /\ AcceptedAccounted

Settled == metrics["openingErrors"] + metrics["closedError"] + metrics["closedGraceful"]

\* A connection that is accepted becomes unsettled.
LEMMA AcceptAccounts ==
    ASSUME TypeOK, AccountInv, NEW t \in Tcps, ListenerAccept(t)
    PROVE  AccountInv'
<1>1. t \notin Unsettled /\ Unsettled' = Unsettled \cup {t}
      BY DEF ListenerAccept, Unsettled, Forwarding, TypeOK
<1>2. /\ IsFiniteSet(Unsettled') /\ Cardinality(Unsettled) \in Nat
      /\ Cardinality(Unsettled') = Cardinality(Unsettled) + 1
      BY <1>1, FS_AddElement, FS_CardinalityType DEF AccountInv
<1>3. metrics' = [metrics EXCEPT !["accepted"] = @ + 1]
      BY DEF ListenerAccept, Inc
<1> QED BY <1>2, <1>3 DEF AccountInv, AcceptedAccounted, Unsettled, TypeOK, Counter

\* A connection that gets its outcome is settled, and counted once.
LEMMA OutcomeAccounts ==
    ASSUME TypeOK, AccountInv, NEW t \in Tcps, t \in Unsettled,
           NEW v \in {"openfailed", "graceful", "error"},
           tcp' = [tcp EXCEPT ![t] = v],
           NEW m \in {"openingErrors", "closedError", "closedGraceful"}, Inc(m)
    PROVE  AccountInv'
<1>1. Unsettled' = Unsettled \ {t}
      BY DEF Unsettled, Forwarding, TypeOK
<1>2. /\ IsFiniteSet(Unsettled') /\ Cardinality(Unsettled) \in Nat
      /\ Cardinality(Unsettled') = Cardinality(Unsettled) - 1
      BY <1>1, FS_RemoveElement, FS_CardinalityType DEF AccountInv
<1>3. metrics' = [metrics EXCEPT ![m] = @ + 1] /\ metrics \in [Counter -> Nat]
      BY DEF Inc, TypeOK
<1>4. metrics'["accepted"] = metrics["accepted"] /\ Settled' = Settled + 1
      BY <1>3 DEF Settled, Counter
<1> QED BY <1>2, <1>3, <1>4 DEF AccountInv, AcceptedAccounted, Unsettled, Settled, Counter

\* A step that settles nobody and accepts nobody.
LEMMA QuietAccounts ==
    ASSUME AccountInv, Unsettled' = Unsettled,
           \A m \in Counter \ {"failedAccepting"} : metrics'[m] = metrics[m]
    PROVE  AccountInv'
BY DEF AccountInv, AcceptedAccounted, Unsettled, Counter

LEMMA AccountStep == TypeOK /\ AccountInv /\ [Next]_vars => AccountInv'
<1> SUFFICES ASSUME TypeOK, AccountInv, [Next]_vars PROVE AccountInv'
    OBVIOUS
<1>1. ASSUME UNCHANGED <<tcp, metrics>> PROVE AccountInv'
      BY <1>1, QuietAccounts DEF Unsettled
<1>2. CASE UNCHANGED vars
      BY <1>1, <1>2 DEF vars
<1>3. ASSUME NEW c \in Conns, \/ ClientConnects(c) \/ ClientRetries(c) \/ ConnLost(c)
                              \/ Drain(c) \/ AcceptLoop(c)
                              \/ HandshakeOk(c) \/ HandshakeErr(c)
      PROVE  AccountInv'
      BY <1>1, <1>3, QuicSideFrame
<1>4. ASSUME NEW c \in Conns, Handler(c) PROVE AccountInv'
      BY <1>1, <1>4, HandlerFrame
<1>5. ASSUME NEW c \in Conns, Listener(c) PROVE AccountInv'
  <2>1. ASSUME EndListener(c) PROVE AccountInv'
    <3>1. Unsettled' = Unsettled /\ metrics' = metrics
          BY <2>1 DEF EndListener, Unsettled, Forwarding
    <3> QED BY <3>1, QuietAccounts
  <2>2. CASE ListenerStarts(c)
        BY <1>1, <2>2 DEF ListenerStarts, tcpVars
  <2>3. CASE ListenerAcceptErr(c)
    <3>1. Unsettled' = Unsettled
          BY <2>3 DEF ListenerAcceptErr, Unsettled
    <3>2. \A m \in Counter \ {"failedAccepting"} : metrics'[m] = metrics[m]
          BY <2>3 DEF ListenerAcceptErr, Inc, TypeOK
    <3> QED BY <3>1, <3>2, QuietAccounts
  <2> QED BY <1>5, <2>1, <2>2, <2>3 DEF Listener, ListenerAborts, ListenerCancel
<1>6. ASSUME NEW t \in Tcps, ListenerStream(t) PROVE AccountInv'
  <2>1. CASE OpenBiOk(t)
    <3>1. Unsettled' = Unsettled /\ metrics' = metrics
          BY <2>1 DEF OpenBiOk, Unsettled, Forwarding, TypeOK
    <3> QED BY <3>1, QuietAccounts
  <2>2. CASE OpenBiErr(t)
        BY <2>2, OutcomeAccounts DEF OpenBiErr, Unsettled
  <2> QED BY <1>6, <2>1, <2>2, AcceptAccounts DEF ListenerStream
<1>7. ASSUME NEW t \in Tcps, Forwarder(t) PROVE AccountInv'
  <2>1. tcp[t] \in Forwarding /\ t \in Unsettled
        BY <1>7 DEF Forwarder, FwdTcpEof, FwdQuicEof, FwdErrorZero, FwdTcpError,
                    FwdConnLost, FwdWriteLost, Forwarding, Unsettled
  <2>2. ASSUME EndGraceful(t) \/ EndError(t) PROVE AccountInv'
        BY <2>1, <2>2, OutcomeAccounts DEF EndGraceful, EndError
  <2>3. ASSUME NEW half \in Forwarding, HalfClose(t, half) PROVE AccountInv'
    <3>1. Unsettled' = Unsettled /\ metrics' = metrics
          BY <2>1, <2>3 DEF HalfClose, Unsettled, TypeOK
    <3> QED BY <3>1, QuietAccounts
  <2> QED BY <1>7, <2>2, <2>3
          DEF Forwarder, FwdTcpEof, FwdQuicEof, FwdErrorZero, FwdTcpError,
              FwdConnLost, FwdWriteLost, Forwarding
<1>8. ASSUME NEW t \in Tcps, NEW c \in Conns, ExternalConnect(t, c) PROVE AccountInv'
  <2>1. Unsettled' = Unsettled /\ metrics' = metrics
        BY <1>8 DEF ExternalConnect, Unsettled, Forwarding, TypeOK
  <2> QED BY <2>1, QuietAccounts
<1> QED BY <1>2, <1>3, <1>4, <1>5, <1>6, <1>7, <1>8 DEF Next, Network

\* Every external connection that handle_tcp_listener accepts is being opened or
\* forwarded, or is counted under exactly one outcome.
THEOREM Accounted == SafetySpec => []AcceptedAccounted
<1>1. Init => AccountInv
  <2> SUFFICES ASSUME Init PROVE AccountInv
      OBVIOUS
  <2>1. Unsettled = {}
        BY DEF Init, Unsettled, Forwarding
  <2>2. IsFiniteSet(Unsettled) /\ Cardinality(Unsettled) = 0
        BY <2>1, FS_EmptySet
  <2>3. \A m \in Counter : metrics[m] = 0
        BY DEF Init
  <2> QED BY <2>2, <2>3 DEF AccountInv, AcceptedAccounted, Unsettled, Counter
<1>2. AccountInv => AcceptedAccounted
      BY DEF AccountInv
<1> QED BY <1>1, <1>2, AccountStep, TypeCorrect, PTL DEF SafetySpec

================================================================================
