---------------------------- MODULE ControlProtocol ----------------------------
(***************************************************************************)
(* The control stream of one session, both ends of it: authentication      *)
(* (protocol/auth.rs), configuration (protocol/control.rs), keepalive      *)
(* (protocol/keepalive.rs), the server's handler around them               *)
(* (server/client_handler.rs) and the client's (client/server_handler.rs). *)
(*                                                                         *)
(* Each direction of the stream is a FIFO queue of pieces.  A message that *)
(* its reader takes with a single read() is written as several pieces,     *)
(* since such a read returns whatever has arrived; a message that is read  *)
(* with read_exact or up to its newline is one piece.                      *)
(***************************************************************************)
EXTENDS Integers, Sequences, FiniteSets

CONSTANTS
    Psks,         \* the keys a client may hold
    ServerPsk,    \* the key of the server
    Peers,        \* the kinds of client: see PeerKind
    ReadModes,    \* "cut": a read may return less than what was written; "whole": never
    MaxPings      \* bound: PINGs sent by one client

\* "shipped": client/server_handler.rs.  The others are external: "conforming"
\* sends the LISTENPORT message that control.rs documents and may say BYE;
\* "garbled" may leave it out and may send a line nobody expects.
PeerKind == {"shipped", "conforming", "garbled"}

ASSUME PskAssumption == ServerPsk \in Psks
ASSUME PeersAssumption == Peers \subseteq PeerKind
ASSUME ModesAssumption == ReadModes \subseteq {"whole", "cut"} /\ MaxPings \in Nat

VARIABLES
    psk,        \* the client's key
    peer,       \* the kind of the client
    reads,      \* how the stream is delivered
    conn,       \* the QUIC connection, and who ended it
    toClient,   \* the stream from server to client
    toServer,   \* the stream from client to server
    fin,        \* the client has dropped its end of the stream
    spc,        \* where the server's handler is
    sEnd,       \* why it ended
    cpc,        \* where the client's authentication, then its keepalive task is
    cEnd,       \* why that ended
    hpc,        \* where handle_quic_server_connection is
    pings,      \* PINGs sent
    counters    \* the client's counters

setup == <<psk, peer, reads>>
serverVars == <<spc, sEnd>>
clientVars == <<setup, fin, cpc, cEnd, hpc, pings, counters>>
vars == <<conn, toClient, toServer, serverVars, clientVars>>

\* WHO THE HECK ARE YOU?, the challenge line in two parts, its newline.
Request == <<"prompt", "chalA", "chalB", "nl">>
Challenge == <<"chalA", "chalB">>
Happy == <<"hap", "py", "nl">>
Bad == <<"bad">>
Pong == <<"pong">>

\* What the client may take for the challenge when its read is cut short.
ChallengePart == {<<"chalA">>, Challenge}

\* hex(SHA-512(challenge . psk)), assumed injective, and its newline.
Response(challenge, key) == <<"response", challenge, key>>

Piece == {"prompt", "chalA", "chalB", "nl", "hap", "py", "bad", "pong"}
Message == {<<m>> : m \in {"header", "port", "ping", "bye", "junk"}}
           \cup {Response(ch, k) : ch \in ChallengePart, k \in Psks}

\* Of client/metrics_counters.rs, what concerns the session.
SessionCounters == [opened : Nat, gracefullyClosed : Nat, keepaliveErrors : Nat]

TypeOK ==
    /\ psk \in Psks
    /\ peer \in Peers
    /\ reads \in ReadModes
    /\ conn \in {"open", "closedOk", "closedErr", "lost"}
    /\ toClient \in Seq(Piece)
    /\ toServer \in Seq(Message)
    /\ fin \in BOOLEAN
    /\ spc \in {"challenge", "response", "config", "port", "control", "done"}
    /\ sEnd \in {"none", "mismatch", "timeout", "failed", "badheader", "bye",
                 "closed", "unexpected", "notbound"}
    /\ cpc \in {"prompt", "reply", "configure", "tick", "pong", "ended"}
    /\ cEnd \in {"none", "badprompt", "rejected", "failed", "unexpected",
                 "timeout", "bye"}
    /\ hpc \in {"auth", "accept", "done"}
    /\ pings \in 0 .. MaxPings
    /\ counters \in SessionCounters

\* The client has connected: SERVER_CONNECTIONS_OPENED_TOTAL.
Init ==
    /\ psk \in Psks
    /\ peer \in Peers
    /\ reads \in ReadModes
    /\ conn = "open"
    /\ toClient = <<>> /\ toServer = <<>> /\ fin = FALSE
    /\ spc = "challenge" /\ sEnd = "none"
    /\ cpc = "prompt" /\ cEnd = "none" /\ hpc = "auth"
    /\ pings = 0
    /\ counters = [opened |-> 1, gracefullyClosed |-> 0, keepaliveErrors |-> 0]

--------------------------------------------------------------------------------
(* The server. *)

UnclosedServerEnds(why, how) ==
    /\ spc' = "done"
    /\ sEnd' = why
    /\ UNCHANGED conn

\* The handler returns; quic_conn.close(..) is called on every path.
ServerEnds(why, how) ==
    /\ spc' = "done"
    /\ sEnd' = why
    /\ conn' = IF conn = "open" THEN how ELSE conn

\* server_authenticate: send the challenge.
SendChallenge ==
    /\ spc = "challenge"
    /\ conn = "open"
    /\ toClient' = toClient \o Request
    /\ spc' = "response"
    /\ UNCHANGED <<conn, toServer, sEnd, clientVars>>

SwappedReadResponse ==
    /\ spc = "response"
    /\ toServer # <<>>
    /\ conn = "open"
    /\ toServer' = Tail(toServer)
    /\ toClient' = toClient \o Happy
    /\ IF Head(toServer) = Response(Challenge, ServerPsk)
       THEN spc' = "config" /\ UNCHANGED <<conn, sEnd>>
       ELSE ServerEnds("mismatch", "closedErr")
    /\ UNCHANGED clientVars

\* server_authenticate: read_exact the response, compare, answer.
ReadResponse ==
    /\ spc = "response"
    /\ toServer # <<>>
    /\ conn = "open"
    /\ toServer' = Tail(toServer)
    /\ IF Head(toServer) = Response(Challenge, ServerPsk)
       THEN /\ toClient' = toClient \o Happy
            /\ spc' = "config"
            /\ UNCHANGED <<conn, sEnd>>
       ELSE /\ toClient' = toClient \o Bad
            /\ ServerEnds("mismatch", "closedErr")
    /\ UNCHANGED clientVars

\* AUTHENTICATION_TIMEOUT, or CONFIGURATION_TIMEOUT.
SetupTimeout ==
    /\ spc \in {"challenge", "response", "config", "port"}
    /\ ServerEnds("timeout", "closedErr")
    /\ UNCHANGED <<toClient, toServer, clientVars>>

\* Nothing more will arrive than what has arrived.
StreamOver == fin \/ conn # "open"

\* The ten bytes of the header are there: a PING has five, the other messages a
\* client may send first have ten or more.
HeaderArrived == toServer # <<>> /\ (Head(toServer) # <<"ping">> \/ Len(toServer) > 1)

\* open_bi, a read or a write fails while the session is set up.  read_exact
\* fails as well on a stream that ends too early.
SetupFails ==
    /\ \/ spc \in {"challenge", "response"} /\ conn # "open"
       \/ spc \in {"response", "port"} /\ toServer = <<>> /\ StreamOver
       \/ spc = "config" /\ ~HeaderArrived /\ StreamOver
    /\ ServerEnds("failed", "closedErr")
    /\ UNCHANGED <<toClient, toServer, clientVars>>

\* configure_quic_client: read_exact the header.
ReadHeader ==
    /\ spc = "config"
    /\ HeaderArrived
    /\ IF Head(toServer) = <<"header">>
       THEN /\ toServer' = Tail(toServer)
            /\ spc' = "port"
            /\ UNCHANGED <<conn, sEnd>>
       ELSE /\ ServerEnds("badheader", "closedErr")
            /\ UNCHANGED toServer
    /\ UNCHANGED <<toClient, clientVars>>

\* configure_quic_client: read_exact the port; then the port is checked and
\* bound, which fails or not (module TunnelServer).
ReadPort ==
    /\ spc = "port"
    /\ toServer # <<>>
    /\ toServer' = Tail(toServer)
    /\ \/ spc' = "control" /\ UNCHANGED <<conn, sEnd>>
       \/ ServerEnds("notbound", "closedErr")
    /\ UNCHANGED <<toClient, clientVars>>

DoubleAnswerPing ==
    /\ spc = "control"
    /\ conn = "open"
    /\ toServer # <<>>
    /\ Head(toServer) = <<"ping">>
    /\ toServer' = Tail(toServer)
    /\ toClient' = toClient \o Pong \o Pong
    /\ UNCHANGED <<conn, serverVars, clientVars>>

EchoingAnswerPing ==
    /\ spc = "control"
    /\ conn = "open"
    /\ toServer # <<>>
    /\ Head(toServer) = <<"ping">>
    /\ toServer' = Tail(toServer)
    /\ toClient' = toClient \o Head(toServer)
    /\ UNCHANGED <<conn, serverVars, clientVars>>

\* run_control_channel_loop: a PING is answered.
AnswerPing ==
    /\ spc = "control"
    /\ conn = "open"
    /\ toServer # <<>>
    /\ Head(toServer) = <<"ping">>
    /\ toServer' = Tail(toServer)
    /\ toClient' = toClient \o Pong
    /\ UNCHANGED <<conn, serverVars, clientVars>>

\* run_control_channel_loop: BYE, or a line that is neither PING nor BYE.
EndByMessage ==
    /\ spc = "control"
    /\ toServer # <<>>
    /\ Head(toServer) # <<"ping">>
    /\ toServer' = Tail(toServer)
    /\ ServerEnds(IF Head(toServer) = <<"bye">> THEN "bye" ELSE "unexpected", "closedOk")
    /\ UNCHANGED <<toClient, clientVars>>

\* run_control_channel_loop: end of stream, a read error, a failed PONG.
EndByStream ==
    /\ spc = "control"
    /\ (toServer = <<>> /\ StreamOver) \/ conn # "open"
    /\ ServerEnds("closed", "closedOk")
    /\ UNCHANGED <<toClient, toServer, clientVars>>

\* run_control_channel_loop: no line for KEEP_ALIVE_INTERVAL + READ_TIMEOUT.
EndByTimeout ==
    /\ spc = "control"
    /\ ServerEnds("timeout", "closedOk")
    /\ UNCHANGED <<toClient, toServer, clientVars>>

--------------------------------------------------------------------------------
(* The client. *)

\* How much one read may return: a part of what has been written, or all of it.
ReadLengths(q) == IF reads = "cut" THEN 1 .. Len(q) ELSE {Len(q)} \ {0}

Rest(q, n) == SubSeq(q, n + 1, Len(q))

\* handle_quic_server_connection returns Err and the client exits.
ClientFails(why) ==
    /\ cpc' = "ended" /\ cEnd' = why /\ hpc' = "done" /\ fin' = TRUE
    /\ conn' = IF conn = "open" THEN "lost" ELSE conn
    /\ UNCHANGED <<setup, pings, counters>>

\* client_authenticate: one read for the whole request.  Without a part of the
\* second line it fails; otherwise it answers what it takes for the challenge.
ReadChallenge ==
    /\ cpc = "prompt"
    /\ \E n \in ReadLengths(toClient) :
          /\ toClient' = Rest(toClient, n)
          /\ IF n < 2
             THEN ClientFails("badprompt") /\ UNCHANGED toServer
             ELSE /\ conn = "open"
                  /\ toServer' = Append(toServer,
                        Response(IF n = 2 THEN <<"chalA">> ELSE Challenge, psk))
                  /\ cpc' = "reply"
                  /\ UNCHANGED <<conn, setup, fin, cEnd, hpc, pings, counters>>
    /\ UNCHANGED serverVars

ExactReadReply ==
    /\ cpc = "reply"
    /\ \E n \in ReadLengths(toClient) :
          /\ toClient' = Rest(toClient, n)
          /\ IF SubSeq(toClient, 1, n) = <<"hap", "py">>
             THEN /\ cpc' = "configure" /\ hpc' = "accept"
                  /\ UNCHANGED <<conn, setup, fin, cEnd, pings, counters>>
             ELSE ClientFails("rejected")
    /\ UNCHANGED <<toServer, serverVars>>

\* client_authenticate: one read for the reply, which must start with HAPPY.
\* Then the keepalive task is spawned and the accept loop entered.
ReadReply ==
    /\ cpc = "reply"
    /\ \E n \in ReadLengths(toClient) :
          /\ toClient' = Rest(toClient, n)
          /\ IF n >= 2 /\ SubSeq(toClient, 1, 2) = <<"hap", "py">>
             THEN /\ cpc' = "configure" /\ hpc' = "accept"
                  /\ UNCHANGED <<conn, setup, fin, cEnd, pings, counters>>
             ELSE ClientFails("rejected")
    /\ UNCHANGED <<toServer, serverVars>>

\* accept_bi, a read or a write fails during authentication.
ClientAuthFails ==
    /\ cpc \in {"prompt", "reply"}
    /\ conn # "open"
    /\ ClientFails("failed")
    /\ UNCHANGED <<toClient, toServer, serverVars>>

Send(message) == conn = "open" /\ toServer' = Append(toServer, <<message>>)

\* External: the configuration message of control.rs.
Configure ==
    /\ cpc = "configure" /\ peer # "shipped"
    /\ conn = "open"
    /\ toServer' = toServer \o << <<"header">>, <<"port">> >>
    /\ cpc' = "tick"
    /\ UNCHANGED <<conn, toClient, serverVars, setup, fin, cEnd, hpc, pings, counters>>

\* handle_quic_server_connection has no configuration step: it goes from
\* authentication to run_keepalive_client_loop.
SkipConfigure ==
    /\ cpc = "configure" /\ peer # "conforming"
    /\ cpc' = "tick"
    /\ UNCHANGED <<conn, toClient, toServer, serverVars,
                   setup, fin, cEnd, hpc, pings, counters>>

\* External: a line that is no message of the protocol.
SendJunk ==
    /\ cpc = "tick" /\ peer = "garbled"
    /\ Send("junk")
    /\ cpc' = "pong"
    /\ UNCHANGED <<conn, toClient, serverVars, setup, fin, cEnd, hpc, pings, counters>>

\* What the keepalive loop returns: every way out of it is Ok(()).
LoopResult(why) == "ok"

\* The keepalive task ends and drops the stream.
KeepaliveEnds(why) ==
    /\ cpc' = "ended" /\ cEnd' = why /\ fin' = TRUE
    /\ counters' = [counters EXCEPT !.keepaliveErrors =
                       IF LoopResult(why) = "err" THEN @ + 1 ELSE @]
    /\ UNCHANGED <<conn, serverVars, setup, hpc, pings>>

\* External: the client asks for the end of the session.
SendBye ==
    /\ cpc = "tick" /\ peer = "conforming"
    /\ Send("bye")
    /\ KeepaliveEnds("bye")
    /\ UNCHANGED toClient

\* run_keepalive_client_loop: a tick; the PING is sent, or cannot be.
Tick ==
    /\ cpc = "tick"
    /\ UNCHANGED toClient
    /\ \/ /\ pings < MaxPings
          /\ Send("ping")
          /\ pings' = pings + 1
          /\ cpc' = "pong"
          /\ UNCHANGED <<conn, serverVars, setup, fin, cEnd, hpc, counters>>
       \/ /\ conn # "open"
          /\ KeepaliveEnds("failed")
          /\ UNCHANGED toServer

\* run_keepalive_client_loop: a line is read through a BufReader that is made
\* for it and dropped after it, with everything else it has read.
ReadPong ==
    /\ cpc = "pong"
    /\ \E n \in ReadLengths(toClient) : toClient' = Rest(toClient, n)
    /\ IF Head(toClient) = "pong"
       THEN /\ cpc' = "tick"
            /\ UNCHANGED <<conn, serverVars, setup, fin, cEnd, hpc, pings, counters>>
       ELSE KeepaliveEnds("unexpected")
    /\ UNCHANGED toServer

UndroppedNoPong ==
    /\ cpc = "pong"
    /\ cpc' = "ended" /\ cEnd' = IF conn = "open" THEN "timeout" ELSE "failed"
    /\ UNCHANGED <<conn, serverVars, setup, fin, hpc, pings, counters>>
    /\ UNCHANGED <<toClient, toServer>>

\* run_keepalive_client_loop: READ_TIMEOUT passes, or the read fails.
NoPong ==
    /\ cpc = "pong"
    /\ KeepaliveEnds(IF conn = "open" THEN "timeout" ELSE "failed")
    /\ UNCHANGED <<toClient, toServer>>

\* accept_bi() fails, whatever the reason: the handler counts a graceful close
\* and returns.  Until the process is gone the keepalive task may still run.
AcceptLoopEnds ==
    /\ hpc = "accept"
    /\ conn # "open"
    /\ hpc' = "done"
    /\ counters' = [counters EXCEPT !.gracefullyClosed = @ + 1]
    /\ UNCHANGED <<conn, toClient, toServer, serverVars, setup, fin, cpc, cEnd, pings>>

\* External: the client is killed or the network goes away.
ConnLost ==
    /\ conn = "open"
    /\ conn' = "lost"
    /\ UNCHANGED <<toClient, toServer, serverVars, clientVars>>

--------------------------------------------------------------------------------

Server ==
    \/ SendChallenge \/ ReadResponse \/ SetupTimeout \/ SetupFails
    \/ ReadHeader \/ ReadPort
    \/ AnswerPing \/ EndByMessage \/ EndByStream \/ EndByTimeout

Client ==
    \/ ReadChallenge \/ ReadReply \/ ClientAuthFails
    \/ Configure \/ SkipConfigure \/ SendJunk \/ SendBye
    \/ Tick \/ ReadPong \/ NoPong \/ AcceptLoopEnds

Next == Server \/ Client \/ ConnLost

\* Reads of what has arrived, and of the end of the stream, happen eventually,
\* and so do the two timeouts of the set-up.  The keepalive timers are left out:
\* what is shown holds without them.
Fairness ==
    /\ WF_vars(ReadHeader \/ ReadPort)
    /\ WF_vars(SetupTimeout)
    /\ WF_vars(AnswerPing \/ EndByMessage \/ EndByStream)
    /\ WF_vars(AcceptLoopEnds)

SafetySpec == Init /\ [][Next]_vars
Spec == SafetySpec /\ Fairness

--------------------------------------------------------------------------------

ServerAccepted == spc \in {"config", "port", "control"}
                  \/ sEnd \in {"badheader", "bye", "closed", "unexpected", "notbound"}
ClientAccepted == hpc = "accept" \/ counters.gracefullyClosed > 0

\* The server lets a client past authentication only if it holds the server's
\* key, and a client goes on only if it does, however the reads are cut: a reply
\* is never mistaken for HAPPY (server_authenticate, client_authenticate).
AuthAgreement == ServerAccepted \/ ClientAccepted => psk = ServerPsk

\* test_authentication_protocol_good: with the same key on both sides both
\* server_authenticate and client_authenticate succeed; that is, neither finds a
\* mismatch (a lost connection or a timeout is another matter).
SameKeySucceeds ==
    psk = ServerPsk => sEnd # "mismatch" /\ cEnd \notin {"badprompt", "rejected"}

\* It is only the short reads that break it: with whole messages, equal keys
\* always authenticate, and the server never takes what follows for a response.
WholeReadsSucceed == reads = "whole" => SameKeySucceeds

\* PINGs not yet read and answers not yet read.
Outstanding ==
    Cardinality({i \in DOMAIN toServer : toServer[i] = <<"ping">>}) + Len(toClient)

\* A client that configures its session never takes anything but the answer to
\* its own PING for the answer, when messages arrive whole: nothing is left over
\* in the stream from authentication, and no PONG is thrown away with a BufReader.
KeepaliveInStep ==
    peer = "conforming" /\ reads = "whole" =>
        /\ cEnd # "unexpected"
        /\ cpc = "tick" => Outstanding = 0
        /\ cpc = "pong" => Outstanding = 1

\* control.rs: "The client must send a control message in the form: LISTENPORTxx".
\* What the server reads after the response starts with that header.
ClientConfigures ==
    spc = "config" /\ toServer # <<>> => Head(toServer) = <<"header">>

\* When the keepalive task of an authenticated client ends, the server's handler
\* ends without waiting for its own timer: the dropped stream tells it.
KeepaliveEndReachesServer == cpc = "ended" ~> spc = "done"

\* When the server's handler has ended, the client's returns.
ServerEndReachesClient == (spc = "done" /\ hpc = "accept") ~> hpc = "done"

================================================================================
