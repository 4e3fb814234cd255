------------------------------- MODULE Deployment -------------------------------
(***************************************************************************)
(* The two processes as an operator runs them: the server of ServerStart   *)
(* and a client (client/main.rs, client/run_client.rs, quic/client.rs),    *)
(* which reads the server's certificate from the platform's configuration  *)
(* directory and ends with its first connection.  Either is started again  *)
(* at any time.  On one machine the client looks into the server's default *)
(* directory; otherwise an operator copies cert.der.                       *)
(***************************************************************************)
EXTENDS ServerStart

CONSTANTS
    RemoteIp,     \* the server's address, as text
    WantedNames   \* what a client may be given as --quic-remote-hostname-match

ASSUME NamesAssumption == RemoteIp \in Hostnames /\ WantedNames \subseteq Hostnames

VARIABLES
    shared,    \* both run on one machine
    copy,      \* cert.der in the client's directory on a machine of its own
    copiedFrom, \* the server's directory it was copied from
    cpc,       \* where the client process is
    cEnd,      \* how it ended last
    wanted,    \* --quic-remote-hostname-match: {} or {name}
    roots,     \* its RootCertStore: one certificate, or Absent if it is empty
    expects,   \* server_name_match
    worked,    \* history: <<roots, expects, the server's directory>> of every
               \* connection that came about
    refusedBy  \* history: the server's directory when TLS last turned the client away

clientVars == <<cpc, cEnd, wanted, roots, expects>>
copyVars == <<shared, copy, copiedFrom>>
history == <<worked, refusedBy>>
vars == <<serverVars, copyVars, clientVars, history>>

TypeOK ==
    /\ ServerTypeOK
    /\ shared \in BOOLEAN
    /\ copy \in Contents /\ copiedFrom \in Dirs
    /\ cpc \in {"off", "roots", "connect", "connected"}
    /\ cEnd \in {"none", "main", "roots", "connect", "tls", "ok"}
    /\ wanted \subseteq WantedNames
    /\ roots \in Contents \ {Partial}
    /\ expects \in Hostnames
    /\ worked \subseteq (1 .. MaxPairs) \X Hostnames \X Dirs
    /\ refusedBy \in Dirs

Init ==
    /\ ServerInit
    /\ shared \in BOOLEAN
    /\ copy = Absent /\ copiedFrom = DefaultDir
    /\ cpc = "off" /\ cEnd = "none"
    /\ wanted = {} /\ roots = Absent /\ expects = RemoteIp
    /\ worked = {} /\ refusedBy = DefaultDir

--------------------------------------------------------------------------------

\* cert.der in get_config_dir(None): the file the client looks at, wherever the
\* server's --config-dir is.
ClientFile == IF shared THEN certFile[DefaultDir] ELSE copy

\* The remote_hostname_match that run_client puts into the configuration: None,
\* whatever the command line says.
HostnameMatch(w) == {}

\* server_name_match: the name to match, or else the address of the server.
ServerName(match) == IF match = {} THEN RemoteIp ELSE CHOOSE name \in match : TRUE

\* main: an address that cannot be resolved ends the process; otherwise run_client.
ClientStart(w) ==
    /\ cpc = "off"
    /\ wanted' = w
    /\ expects' = ServerName(HostnameMatch(w))
    /\ roots' = Absent
    /\ \/ cpc' = "roots" /\ cEnd' = "none"
       \/ cpc' = "off" /\ cEnd' = "main"
    /\ UNCHANGED <<serverVars, copyVars, history>>

\* run_quic_client reads the certificate.  A file that is missing, or that
\* cannot be read, leaves the store empty; one that is no certificate ends the
\* client.
LoadRoots ==
    /\ cpc = "roots"
    /\ \/ ClientFile # Partial /\ roots' = ClientFile /\ cpc' = "connect" /\ UNCHANGED cEnd
       \/ ClientFile = Partial /\ cpc' = "off" /\ cEnd' = "roots" /\ UNCHANGED roots
       \/ roots' = Absent /\ cpc' = "connect" /\ UNCHANGED cEnd
    /\ UNCHANGED <<serverVars, copyVars, wanted, expects, history>>

\* External, rustls: the certificate presented is one of the roots and is for the
\* name expected.
Verifies == cert = roots /\ san[cert] = expects

\* connect().await.
ConnectOk ==
    /\ cpc = "connect" /\ phase = "serving"
    /\ Verifies
    /\ cpc' = "connected"
    /\ worked' = worked \cup {<<roots, expects, Here>>}
    /\ UNCHANGED <<serverVars, copyVars, cEnd, wanted, roots, expects, refusedBy>>

ConnectRefused ==
    /\ cpc = "connect" /\ phase = "serving"
    /\ ~Verifies
    /\ cpc' = "off" /\ cEnd' = "tls"
    /\ refusedBy' = Here
    /\ UNCHANGED <<serverVars, copyVars, wanted, roots, expects, worked>>

\* The local socket is taken, or nobody answers.
ConnectFails ==
    /\ cpc = "connect"
    /\ cpc' = "off" /\ cEnd' = "connect"
    /\ UNCHANGED <<serverVars, copyVars, wanted, roots, expects, history>>

\* The handler of the connection (ControlProtocol) returns, with or without an
\* error, and so does the client: it does not connect again.
HandlerEnds ==
    /\ cpc = "connected"
    /\ cpc' = "off" /\ cEnd' = "ok"
    /\ UNCHANGED <<serverVars, copyVars, wanted, roots, expects, history>>

\* External: an operator copies the certificate of a server that runs.
Copy ==
    /\ phase = "serving" /\ ~shared
    /\ copy' = certFile[Here] /\ copiedFrom' = Here
    /\ UNCHANGED <<serverVars, shared, clientVars, history>>

Server == ServerNext /\ UNCHANGED <<copyVars, clientVars, history>>

Next ==
    \/ Server
    \/ \E w \in {{}} \cup {{name} : name \in WantedNames} : ClientStart(w)
    \/ LoadRoots \/ ConnectOk \/ ConnectRefused \/ ConnectFails \/ HandlerEnds
    \/ Copy

Spec == Init /\ [][Next]_vars

--------------------------------------------------------------------------------

\* A certificate copied to a client stays that of its directory, and of every
\* server that is started with this directory, across crashes and restarts with
\* any arguments, other directories in between included, until an operator removes
\* one of the two files: load_or_generate_quic_cert never replaces a pair that has
\* been served.
CopyStaysValid ==
    copy # Absent /\ copiedFrom \notin removed =>
        /\ certFile[copiedFrom] = copy /\ keyFile[copiedFrom] = copy
        /\ phase = "serving" /\ Here = copiedFrom => cert = copy

\* A client that has connected once with a certificate and a name, to a server
\* started with some directory, is not turned away by TLS with the same two by a
\* server started with the same directory, whatever restarts there were, even
\* with another --quic-cert-hostname, unless an operator removed one of its files.
\* (A server with another --config-dir has another pair: nothing is said of it.)
ReconnectVerifies ==
    cEnd = "tls" /\ <<roots, expects, refusedBy>> \in worked => refusedBy \in removed

\* client/main.rs: "QUIC remote hostname override for Subject Alt Name match in
\* TLS cert".  A client that has the server's certificate and names the name in
\* it is not turned away.
NameOverrideHonoured ==
    cEnd = "tls" /\ phase = "serving" /\ roots = cert => wanted # {san[cert]}

================================================================================
