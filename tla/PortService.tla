------------------------------ MODULE PortService ------------------------------
(***************************************************************************)
(* What the PortRedirect server promises, without tasks, streams, tokens or *)
(* sockets: a session leases one local port, serves on it, and ends; while  *)
(* it serves it takes up external connections.  TunnelServer implements it. *)
(***************************************************************************)
EXTENDS Integers

CONSTANTS
    Sessions,   \* the sessions of all clients
    Externals,  \* external connections
    MayServe,   \* the pairs <<session, port>> that are entitled
    NoPort,     \* the port of a session that does not serve
    NoSession   \* the carrier of a connection that no session took up

VARIABLES
    session,    \* session[s]: "idle", "serving" or "ended"
    port,       \* port[s]: the port s serves on
    carried,    \* carried[e]: "waiting", "carried" or "over"
    carrier     \* carrier[e]: the session that took e up

serviceVars == <<session, port, carried, carrier>>

Init ==
    /\ session = [s \in Sessions |-> "idle"]
    /\ port = [s \in Sessions |-> NoPort]
    /\ carried = [e \in Externals |-> "waiting"]
    /\ carrier = [e \in Externals |-> NoSession]

Serve(s, p) ==
    /\ session[s] = "idle"
    /\ <<s, p>> \in MayServe
    /\ \A r \in Sessions : port[r] # p
    /\ session' = [session EXCEPT ![s] = "serving"]
    /\ port' = [port EXCEPT ![s] = p]
    /\ UNCHANGED <<carried, carrier>>

Stop(s) ==
    /\ session[s] = "serving"
    /\ session' = [session EXCEPT ![s] = "ended"]
    /\ port' = [port EXCEPT ![s] = NoPort]
    /\ UNCHANGED <<carried, carrier>>

Carry(e, s) ==
    /\ carried[e] = "waiting"
    /\ session[s] = "serving"
    /\ carried' = [carried EXCEPT ![e] = "carried"]
    /\ carrier' = [carrier EXCEPT ![e] = s]
    /\ UNCHANGED <<session, port>>

Finish(e) ==
    /\ carried[e] = "carried"
    /\ carried' = [carried EXCEPT ![e] = "over"]
    /\ UNCHANGED <<session, port, carrier>>

Next ==
    \/ \E q \in MayServe : Serve(q[1], q[2])
    \/ \E s \in Sessions : Stop(s)
    \/ \E e \in Externals : Finish(e) \/ \E s \in Sessions : Carry(e, s)

Spec == Init /\ [][Next]_serviceVars

================================================================================
