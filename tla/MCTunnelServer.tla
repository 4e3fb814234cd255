----------------------------- MODULE MCTunnelServer -----------------------------
(* Instances of TunnelServer for TLC. *)
EXTENDS TunnelServer, TLC

CONSTANTS c1, c2, c3, t1, t2

\* One single port and one range that contains port 0.
MCAllowedSpecs == {Single(8080), PortRange(0, 1)}

\* Allowed and shared, allowed and ephemeral, and not allowed.
MCRequestPorts == {8080, 0, 9}
MCEphemeralPorts == {50001}

\* One allowed port: sessions compete for it.
OnePort == {8080}

NoLimit == {}
LimitTwo == {2}

TcpSymmetry == Permutations(Tcps)
================================================================================
