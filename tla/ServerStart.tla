------------------------------ MODULE ServerStart ------------------------------
(***************************************************************************)
(* How the server starts, and starts again: its command line               *)
(* (server/main.rs), its certificate and key, which are loaded if both     *)
(* files exist in the configuration directory and otherwise generated and  *)
(* written one after the other, and the set-up of rustls and of the QUIC   *)
(* endpoint (quic/server.rs).  The process may stop at any point and is    *)
(* started again, perhaps with other arguments, among them another         *)
(* configuration directory with files of its own.                          *)
(***************************************************************************)
EXTENDS PortSpecs

CONSTANTS
    ServerArgs,  \* the command lines the server may be started with: see Args
    Hostnames,   \* names a certificate may be for
    Dirs,        \* configuration directories
    DefaultDir,  \* the platform's one
    MaxPairs,    \* bound: key pairs generated
    MaxStops     \* bound: crashes

\* An argument that may be missing is a set: {} is None, {x} is Some(x).
\* allowedClientPorts has the texts between the commas.
Args(a) ==
    /\ DOMAIN a = {"configDir", "certHostname", "localPort", "allowedClientPorts"}
    /\ a.configDir = {} \/ \E d \in Dirs : a.configDir = {d}
    /\ a.certHostname \in Hostnames
    /\ a.localPort \subseteq Port
    /\ a.allowedClientPorts \in Seq(Seq(Int) \ {<<>>})

ASSUME DirsAssumption == DefaultDir \in Dirs
ASSUME ArgsAssumption == \A a \in ServerArgs : Args(a)
ASSUME BoundsAssumption == MaxPairs \in Nat /\ MaxStops \in Nat

VARIABLES
    certFile, keyFile,   \* per directory: a pair's number, Absent or Partial
    san,                 \* san[p]: the Subject Alt Name in the certificate of pair p
    phase,               \* where the server process is
    args, rules,         \* its command line, and the port rules made of it
    cert, key,           \* the pair in its memory
    pairs, stops,        \* how many there have been
    removed              \* the directories an operator has removed a file from

files == <<certFile, keyFile>>
memory == <<cert, key>>
counts == <<pairs, stops>>
serverVars == <<certFile, keyFile, san, phase, args, rules, cert, key, pairs, stops, removed>>

Absent == 0
Partial == MaxPairs + 1   \* a file cut short
Contents == Absent .. Partial
NoName == "no name"

\* "failed": the certificate is refused; "exited": main returned another error.
Down == {"down", "failed", "exited"}

ServerTypeOK ==
    /\ certFile \in [Dirs -> Contents] /\ keyFile \in [Dirs -> Contents]
    /\ san \in [1 .. MaxPairs -> Hostnames \cup {NoName}]
    /\ phase \in Down \cup {"start", "cert", "certOpen", "key", "keyOpen", "rustls", "bind",
                            "serving"}
    /\ args \in ServerArgs
    /\ \A spec \in rules : spec \in PortSpec
    /\ cert \in Contents /\ key \in Contents
    /\ pairs \in 0 .. MaxPairs /\ stops \in 0 .. MaxStops
    /\ removed \subseteq Dirs

ServerInit ==
    /\ certFile = [d \in Dirs |-> Absent] /\ keyFile = [d \in Dirs |-> Absent]
    /\ san = [p \in 1 .. MaxPairs |-> NoName]
    /\ phase = "down"
    /\ args \in ServerArgs /\ rules = {}
    /\ cert = Absent /\ key = Absent
    /\ pairs = 0 /\ stops = 0
    /\ removed = {}

--------------------------------------------------------------------------------
(* main. *)

\* clap refuses the command line if one text is no PortSpec.
AllParse(a) == \A i \in DOMAIN a.allowedClientPorts : FromStr(a.allowedClientPorts[i]) # {}

\* allowed_client_ports: the rules of the list, and --local-port as one more.
AllowedClientPorts(a) ==
    {Single(p) : p \in a.localPort}
    \cup (UNION {FromStr(a.allowedClientPorts[i]) : i \in DOMAIN a.allowedClientPorts})

\* get_config_dir: --config-dir, or the platform's directory.
Directory(a) == IF a.configDir = {} THEN DefaultDir ELSE CHOOSE d \in a.configDir : TRUE

\* The directory of the cert.der and key.der of the server's configuration.
Here == Directory(args)

\* The process is gone, and what it had in its memory.
Exits(how) == phase' = how /\ cert' = Absent /\ key' = Absent

\* main up to run_quic_server.  The configuration directory or the QUIC address
\* may also be refused by the system.
Launch(a) ==
    /\ phase \in Down
    /\ args' = a
    /\ IF AllParse(a) /\ AllowedClientPorts(a) # {}
       THEN rules' = AllowedClientPorts(a) /\ phase' \in {"start", "exited"}
       ELSE rules' = {} /\ phase' = "exited"
    /\ UNCHANGED <<files, san, memory, counts, removed>>

--------------------------------------------------------------------------------
(* load_or_generate_quic_cert. *)

EitherExists == keyFile[Here] # Absent \/ certFile[Here] # Absent
NeverExist == FALSE

\* key_path.exists() && cert_path.exists().
BothExist == keyFile[Here] # Absent /\ certFile[Here] # Absent

RenamingLoad ==
    /\ phase = "start"
    /\ BothExist
    /\ cert' = certFile[Here] /\ key' = keyFile[Here]
    /\ san' = [p \in DOMAIN san |-> IF p = certFile[Here] THEN args.certHostname ELSE san[p]]
    /\ phase' = "rustls"
    /\ UNCHANGED <<files, args, rules, counts, removed>>

\* load_quic_cert: read the two .der files.  Their contents are not checked, and
\* the hostname of the command line is not looked at.
Load ==
    /\ phase = "start"
    /\ BothExist
    /\ cert' = certFile[Here] /\ key' = keyFile[Here]
    /\ phase' = "rustls"
    /\ UNCHANGED <<files, san, args, rules, counts, removed>>

\* generate_quic_cert: a new key pair for the hostname of the command line.
Generate ==
    /\ phase = "start"
    /\ ~BothExist
    /\ pairs < MaxPairs
    /\ pairs' = pairs + 1
    /\ san' = [san EXCEPT ![pairs + 1] = args.certHostname]
    /\ cert' = pairs + 1 /\ key' = pairs + 1
    /\ phase' = "cert"
    /\ UNCHANGED <<files, args, rules, stops, removed>>

\* fs::write creates or truncates a file, then fills it.
WritesTo(from, to) ==
    /\ phase = from
    /\ phase' = to
    /\ UNCHANGED <<san, args, rules, memory, counts, removed>>

WriteCertAs(content) == certFile' = [certFile EXCEPT ![Here] = content] /\ UNCHANGED keyFile
WriteKeyAs(content) == keyFile' = [keyFile EXCEPT ![Here] = content] /\ UNCHANGED certFile

OpenCert == WritesTo("cert", "certOpen") /\ WriteCertAs(Partial)

AppendCert == WritesTo("certOpen", "key") /\ WriteCertAs(certFile[Here] + cert)

WriteCert == WritesTo("certOpen", "key") /\ WriteCertAs(cert)

KeepExistingKey ==
    LET missing == keyFile[Here] = Absent IN
    /\ WritesTo("key", IF missing THEN "keyOpen" ELSE "rustls")
    /\ WriteKeyAs(IF missing THEN Partial ELSE keyFile[Here])

OpenKey == WritesTo("key", "keyOpen") /\ WriteKeyAs(Partial)

WriteKey == WritesTo("keyOpen", "rustls") /\ WriteKeyAs(key)

\* An error of fs::read or fs::write, in the place of what the process would do
\* next, is returned to main.
FileError ==
    /\ \/ phase = "start" /\ BothExist
       \/ phase \in {"cert", "certOpen", "key", "keyOpen"}
    /\ Exits("exited")
    /\ UNCHANGED <<files, san, args, rules, counts, removed>>

--------------------------------------------------------------------------------
(* run_quic_server, and what befalls the process. *)

\* with_single_cert (external) takes a key that belongs to the certificate.
Accepted == cert = key /\ cert \in 1 .. MaxPairs

\* Configure rustls with the pair, or return the error.
Configure ==
    /\ phase = "rustls"
    /\ \/ Accepted /\ phase' = "bind" /\ UNCHANGED memory
       \/ ~Accepted /\ Exits("failed")
    /\ UNCHANGED <<files, san, args, rules, counts, removed>>

\* Endpoint::server binds the UDP port; then the accept loop runs (TunnelServer).
BindEndpoint ==
    /\ phase = "bind"
    /\ \/ phase' = "serving" /\ UNCHANGED memory
       \/ Exits("exited")
    /\ UNCHANGED <<files, san, args, rules, counts, removed>>

\* External: the process ends by a crash or a kill.
Stop ==
    /\ phase \notin Down
    /\ stops < MaxStops
    /\ stops' = stops + 1
    /\ Exits("down")
    /\ UNCHANGED <<files, san, args, rules, pairs, removed>>

\* External: while the server is down an operator removes a file.
Remove(d) ==
    /\ phase \in Down
    /\ \/ /\ certFile[d] # Absent
          /\ certFile' = [certFile EXCEPT ![d] = Absent] /\ UNCHANGED keyFile
       \/ /\ keyFile[d] # Absent
          /\ keyFile' = [keyFile EXCEPT ![d] = Absent] /\ UNCHANGED certFile
    /\ removed' = removed \cup {d}
    /\ UNCHANGED <<san, phase, args, rules, memory, counts>>

ServerNext ==
    \/ \E a \in ServerArgs : Launch(a)
    \/ Load \/ Generate \/ OpenCert \/ WriteCert \/ OpenKey \/ WriteKey
    \/ FileError \/ Configure \/ BindEndpoint \/ Stop
    \/ \E d \in Dirs : Remove(d)

ServerSpec == ServerInit /\ [][ServerNext]_serverVars

--------------------------------------------------------------------------------

\* What the server presents is what its files hold, so that what the operator
\* copies, and what the next start with this directory loads, is the certificate
\* in use.
ServesItsFiles ==
    phase = "serving" => certFile[Here] = cert /\ keyFile[Here] = key /\ cert = key

\* Wherever the first start with a directory is interrupted, but for the moment in
\* which the key file exists and is not complete, the next start with it repairs
\* it: because the key is written last, a missing key makes
\* load_or_generate_quic_cert start over.
InterruptedStartHeals == phase = "failed" /\ Here \notin removed => keyFile[Here] = Partial

\* README.md: the certificates are auto-generated on first run; server.rs: "If
\* the files do not exist, it generates a self-signed certificate".  A server
\* whose files nobody touched never fails to start.
StartNeverFails == phase = "failed" => Here \in removed

\* The reading of a text that an operator has in mind: one port, or all ports
\* from the first to the second.
Means(text, p) ==
    \/ Len(text) = 1 /\ p = text[1]
    \/ Len(text) = 2 /\ text[1] <= p /\ p <= text[2]

NamedBy(a, p) ==
    \/ p \in a.localPort
    \/ \E i \in DOMAIN a.allowedClientPorts : Means(a.allowedClientPorts[i], p)

\* Rules are judged at the ends of u16, at every number the command line has, and
\* next to each of them.
Judged(a) ==
    LET texts == a.allowedClientPorts
        numbers == UNION {{texts[i][j] : j \in DOMAIN texts[i]} : i \in DOMAIN texts}
    IN  {q + d : q \in numbers \cup a.localPort \cup {0, MaxPort}, d \in {-1, 0, 1}} \cap Port

\* The ports a running server grants are those its command line names, one by one
\* or in ranges, and no others: numbers beyond u16, missing bounds, reversed
\* ranges and second dashes stop the start instead of changing what is allowed.
RulesAsWritten ==
    phase \notin Down =>
        /\ rules # {}
        /\ \A i \in DOMAIN args.allowedClientPorts :
              \A j \in DOMAIN args.allowedClientPorts[i] :
                  args.allowedClientPorts[i][j] \in Port
        /\ \A p \in Judged(args) : Allows(rules, p) <=> NamedBy(args, p)

================================================================================
