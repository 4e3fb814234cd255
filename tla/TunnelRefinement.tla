---------------------------- MODULE TunnelRefinement ----------------------------
(***************************************************************************)
(* TunnelServer implements PortService, for all values of the constants.   *)
(***************************************************************************)
EXTENDS TunnelServerProofs

\* The three functions of the refinement mapping, point by point.
LEMMA SessionOf ==
    ASSUME NEW c \in Conns
    PROVE  ServiceSession[c] = IF bound[c] # NoPort THEN "serving"
                               ELSE IF lpc[c] = "ended" THEN "ended" ELSE "idle"
BY DEF ServiceSession

\* What a step leaves alone in TunnelServer it leaves alone in PortService.
LEMMA ServiceFrame ==
    ASSUME UNCHANGED <<lpc, bound, tcp, owner>>
    PROVE  UNCHANGED Service!serviceVars
BY DEF Service!serviceVars, ServiceSession, ServiceCarried, ServiceCarrier

\* The step that takes a port is Serve.
LEMMA BindServes ==
    ASSUME IndInv, NEW c \in Conns, BindOk(c)
    PROVE  Service!Next
<1> USE DEF IndInv
<1>1. PICK p \in BindChoices(req[c]) :
         (\A d \in Conns : bound[d] # p) /\ bound' = [bound EXCEPT ![c] = p]
      BY DEF BindOk
<1>2. lpc[c] = "none" /\ bound[c] = NoPort
      BY DEF BindOk, TaskInv
<1>3. <<c, p>> \in MayServe
      BY <1>1 DEF BindOk, BindChoices, EntitledInv, MayServe, MayListen
<1>4. p # NoPort
      BY <1>1, <1>2
<1>5. bound'[c] = p /\ \A d \in Conns \ {c} : bound'[d] = bound[d] /\ lpc'[d] = lpc[d]
      BY <1>1 DEF BindOk, TypeOK
<1>6. ServiceSession' = [ServiceSession EXCEPT ![c] = "serving"]
      BY <1>4, <1>5 DEF ServiceSession
<1>7. ServiceSession[c] = "idle"
      BY <1>2, SessionOf
<1>8. UNCHANGED <<ServiceCarried, ServiceCarrier>>
      BY DEF BindOk, tcpVars, ServiceCarried, ServiceCarrier
<1>9. Service!Serve(c, p)
      BY <1>1, <1>3, <1>6, <1>7, <1>8 DEF Service!Serve
<1> QED BY <1>3, <1>9 DEF Service!Next

\* The step that drops the listener is Stop.
LEMMA EndStops ==
    ASSUME IndInv, NEW c \in Conns, ListenerAborts(c) \/ ListenerCancel(c)
    PROVE  Service!Next
<1> USE DEF IndInv
<1>1. lpc[c] \in {"start", "select"} /\ EndListener(c)
      BY DEF ListenerAborts, ListenerCancel
<1>2. ServiceSession[c] = "serving"
      BY <1>1, SessionOf DEF TaskInv
<1>3. /\ bound'[c] = NoPort /\ lpc'[c] = "ended"
      /\ \A d \in Conns \ {c} : bound'[d] = bound[d] /\ lpc'[d] = lpc[d]
      BY <1>1 DEF EndListener, TypeOK
<1>4. ServiceSession' = [ServiceSession EXCEPT ![c] = "ended"]
      BY <1>3 DEF ServiceSession
<1>5. \A t \in Tcps : \/ tcp'[t] = tcp[t]
                      \/ tcp[t] = "backlog" /\ tcp'[t] = "reset"
      BY <1>1 DEF EndListener
<1>6. ServiceCarried' = ServiceCarried
      BY <1>5 DEF ServiceCarried, Forwarding
<1>7. ServiceCarrier' = ServiceCarrier
      BY <1>1, <1>6 DEF ServiceCarrier, EndListener
<1>8. Service!Stop(c)
      BY <1>1, <1>2, <1>4, <1>6, <1>7 DEF Service!Stop, EndListener
<1> QED BY <1>8 DEF Service!Next

\* What PortService sees of an external connection.
LEMMA CarriedOf ==
    ASSUME NEW t \in Tcps
    PROVE  /\ tcp[t] \in Forwarding => ServiceCarried[t] = "carried"
           /\ tcp[t] \in {"graceful", "error"} => ServiceCarried[t] = "over"
BY DEF ServiceCarried, Forwarding

\* The step that spawns the forwarder is Carry.
LEMMA OpenCarries ==
    ASSUME IndInv, NEW t \in Tcps, OpenBiOk(t)
    PROVE  Service!Next
<1> USE DEF IndInv
<1>1. /\ tcp[t] = "opening" /\ tcp' = [tcp EXCEPT ![t] = "both"]
      /\ UNCHANGED <<owner, bound>> /\ lpc' = [lpc EXCEPT ![owner[t]] = "select"]
      BY DEF OpenBiOk
<1>2. owner[t] \in Conns /\ lpc[owner[t]] = "opening"
      BY <1>1, ConnsAssumption DEF BacklogInv
<1>3. ServiceSession[owner[t]] = "serving"
      BY <1>2, SessionOf DEF TaskInv
<1>4. ServiceSession' = ServiceSession
      BY <1>1, <1>2 DEF ServiceSession, TypeOK
<1>5. /\ ServiceCarried[t] = "waiting"
      /\ ServiceCarried' = [ServiceCarried EXCEPT ![t] = "carried"]
      BY <1>1 DEF ServiceCarried, Forwarding, TypeOK
<1>6. ServiceCarrier' = [ServiceCarrier EXCEPT ![t] = owner[t]]
      BY <1>1, <1>5 DEF ServiceCarrier, ServiceCarried
<1>7. Service!Carry(t, owner[t])
      BY <1>1, <1>3, <1>4, <1>5, <1>6 DEF Service!Carry
<1> QED BY <1>2, <1>7 DEF Service!Next

\* A step of a forwarder is Finish, or one PortService does not see.
LEMMA ForwarderFinishes ==
    ASSUME IndInv, NEW t \in Tcps, Forwarder(t)
    PROVE  Service!Next \/ UNCHANGED Service!serviceVars
<1> USE DEF IndInv
<1>1. tcp[t] \in Forwarding /\ UNCHANGED <<owner, lpc, bound>>
      BY DEF Forwarder, FwdTcpEof, FwdQuicEof, FwdErrorZero, FwdTcpError, FwdConnLost,
             FwdWriteLost, EndGraceful, EndError, HalfClose, ForwarderUnchanged,
             listenerVars, Forwarding
<1>2. UNCHANGED ServiceSession
      BY <1>1 DEF ServiceSession
<1>3. ASSUME NEW v \in {"qdone", "tdone"}, tcp' = [tcp EXCEPT ![t] = v]
      PROVE  UNCHANGED Service!serviceVars
  <2>1. ServiceCarried' = ServiceCarried
        BY <1>1, <1>3 DEF ServiceCarried, Forwarding, TypeOK
  <2> QED BY <1>1, <1>2, <2>1 DEF Service!serviceVars, ServiceCarrier
<1>4. ASSUME NEW v \in {"graceful", "error"}, tcp' = [tcp EXCEPT ![t] = v]
      PROVE  Service!Next
  <2>1. tcp'[t] = v /\ \A u \in Tcps \ {t} : tcp'[u] = tcp[u]
        BY <1>4 DEF TypeOK
  <2>2. /\ ServiceCarried[t] = "carried"
        /\ ServiceCarried' = [ServiceCarried EXCEPT ![t] = "over"]
    <3>1. ServiceCarried'[t] = "over"
          BY <1>4, <2>1 DEF ServiceCarried, Forwarding
    <3>2. \A u \in Tcps \ {t} : ServiceCarried'[u] = ServiceCarried[u]
          BY <2>1 DEF ServiceCarried
    <3>3. /\ DOMAIN ServiceCarried = Tcps /\ DOMAIN ServiceCarried' = Tcps
          /\ ServiceCarried = [u \in Tcps |-> ServiceCarried[u]]
          /\ ServiceCarried' = [u \in Tcps |-> ServiceCarried'[u]]
          BY DEF ServiceCarried
    <3> QED BY <1>1, <3>1, <3>2, <3>3, CarriedOf
  <2>3. ServiceCarrier' = ServiceCarrier
        BY <1>1, <2>2 DEF ServiceCarrier, ServiceCarried
  <2>4. Service!Finish(t)
        BY <1>1, <1>2, <2>2, <2>3 DEF Service!Finish
  <2> QED BY <2>4 DEF Service!Next
<1>5. \E v \in {"qdone", "tdone", "graceful", "error"} : tcp' = [tcp EXCEPT ![t] = v]
      BY DEF Forwarder, FwdTcpEof, FwdQuicEof, FwdErrorZero, FwdTcpError,
             FwdConnLost, FwdWriteLost, EndGraceful, EndError, HalfClose
<1> QED BY <1>3, <1>4, <1>5

\* A connection that is waiting, and stays so, is carried by nobody.
LEMMA WaitingFrame ==
    ASSUME IndInv, NEW t \in Tcps, \/ ListenerAccept(t) \/ OpenBiErr(t)
                                   \/ \E c \in Conns : ExternalConnect(t, c)
    PROVE  UNCHANGED Service!serviceVars
<1> USE DEF IndInv
<1>1. /\ tcp[t] \in {"absent", "backlog", "opening"}
      /\ \E v \in {"backlog", "opening", "openfailed"} : tcp' = [tcp EXCEPT ![t] = v]
      BY DEF ListenerAccept, OpenBiErr, ExternalConnect
<1>2. ServiceCarried[t] = "waiting" /\ ServiceCarried' = ServiceCarried
      BY <1>1 DEF ServiceCarried, Forwarding, TypeOK
<1>3. \A u \in Tcps \ {t} : owner'[u] = owner[u]
      BY DEF ListenerAccept, OpenBiErr, ExternalConnect, TypeOK
<1>4. ServiceCarrier' = ServiceCarrier
      BY <1>2, <1>3 DEF ServiceCarrier
<1>5. bound' = bound /\ \A c \in Conns : lpc'[c] = "ended" <=> lpc[c] = "ended"
  <2>1. CASE ListenerAccept(t)
        BY <2>1 DEF ListenerAccept, TypeOK
  <2>2. CASE OpenBiErr(t)
        BY <2>2 DEF OpenBiErr, BacklogInv, TypeOK
  <2>3. CASE \E c \in Conns : ExternalConnect(t, c)
        BY <2>3 DEF ExternalConnect, listenerVars
  <2> QED BY <2>1, <2>2, <2>3
<1>6. ServiceSession' = ServiceSession
      BY <1>5 DEF ServiceSession
<1> QED BY <1>2, <1>4, <1>5, <1>6 DEF Service!serviceVars

\* A step of the handler other than the bind, and the start of the listener or a
\* failed accept(), are not seen by PortService.
LEMMA QuietStep ==
    ASSUME IndInv, NEW c \in Conns,
           (Handler(c) /\ ~BindOk(c)) \/ ListenerStarts(c) \/ ListenerAcceptErr(c)
    PROVE  UNCHANGED Service!serviceVars
<1>1. UNCHANGED <<tcp, owner, bound>>
      BY DEF Handler, AuthOk, AuthFails, ConfigOk, PortRefused, ConfigFails, BindFails,
             ControlEnds, CloseQuic, JoinListener, Reject, ListenerStarts,
             ListenerAcceptErr, listenerVars, tcpVars
<1>2. \A d \in Conns : lpc'[d] = "ended" <=> lpc[d] = "ended"
      BY DEF Handler, AuthOk, AuthFails, ConfigOk, PortRefused, ConfigFails, BindFails,
             ControlEnds, CloseQuic, JoinListener, Reject, ListenerStarts,
             ListenerAcceptErr, listenerVars, IndInv, TypeOK
<1> QED BY <1>1, <1>2
        DEF Service!serviceVars, ServiceSession, ServiceCarried, ServiceCarrier

LEMMA ServiceInit == Init => Service!Init
BY DEF Init, Service!Init, ServiceSession, ServiceCarried, ServiceCarrier, Forwarding

LEMMA ServiceStep ==
    IndInv /\ [Next]_vars => [Service!Next]_(Service!serviceVars)
<1> SUFFICES ASSUME IndInv, [Next]_vars
             PROVE  Service!Next \/ UNCHANGED Service!serviceVars
    OBVIOUS
<1>1. CASE UNCHANGED vars
      BY <1>1, ServiceFrame DEF vars
<1>2. ASSUME NEW c \in Conns,
             \/ ClientConnects(c) \/ ClientRetries(c) \/ ConnLost(c) \/ Drain(c)
             \/ AcceptLoop(c) \/ HandshakeOk(c) \/ HandshakeErr(c)
      PROVE  UNCHANGED Service!serviceVars
      BY <1>2, QuicSideFrame, ServiceFrame
<1>3. ASSUME NEW c \in Conns, Handler(c) \/ Listener(c)
      PROVE  Service!Next \/ UNCHANGED Service!serviceVars
      BY <1>3, BindServes, EndStops, QuietStep DEF Listener
<1>4. ASSUME NEW t \in Tcps, \/ ListenerStream(t) \/ Forwarder(t)
                             \/ \E c \in Conns : ExternalConnect(t, c)
      PROVE  Service!Next \/ UNCHANGED Service!serviceVars
      BY <1>4, OpenCarries, ForwarderFinishes, WaitingFrame DEF ListenerStream
<1> QED BY <1>1, <1>2, <1>3, <1>4 DEF Next, Network

\* The tasks of the server implement PortService: ports are leased exclusively and
\* only to entitled sessions, an ended session never serves again, and a
\* connection is taken up once, by a session that serves.
THEOREM Refinement == SafetySpec => ImplementsService
BY ServiceInit, ServiceStep, Invariance, PTL
   DEF SafetySpec, ImplementsService, Service!Spec

================================================================================
