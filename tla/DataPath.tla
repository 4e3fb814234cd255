-------------------------------- MODULE DataPath --------------------------------
(***************************************************************************)
(* One forwarded connection from end to end: the external TCP connection,  *)
(* the server's forwarder, the QUIC stream, the client's accept loop and   *)
(* forwarder, and the TCP connection to the destination (forward.rs,       *)
(* server/tcp_forwarder.rs, client/tcp_forwarder.rs and the loop of        *)
(* client/server_handler.rs).  Module TunnelServer has the same forwarder  *)
(* seen from the session; here are the bytes and the other end.            *)
(*                                                                         *)
(* Everything about the bytes is indexed by the side they enter at: those  *)
(* of origin o are read from TCP by the forwarder of o and written to TCP  *)
(* by the other one.                                                       *)
(***************************************************************************)
EXTENDS Integers, Sequences, FiniteSets

CONSTANTS
    MaxBytes,   \* bound: bytes sent by one TCP peer
    BufSize,    \* QUIC_STREAM_READ_BUFFER_SIZE
    Window      \* what the QUIC stream holds in flight

ASSUME SizesAssumption ==
    MaxBytes \in Nat /\ BufSize \in Nat \ {0} /\ Window \in Nat \ {0}

Side == {"server", "client"}
Other(s) == CHOOSE r \in Side : r # s

VARIABLES
    sent,      \* sent[o]: how many bytes the TCP peer of o has sent: 1, 2, ...
    inEnd,     \* inEnd[o]: whether it has ended or reset its TCP connection
    inbox,     \* inbox[o]: bytes that wait at the socket of o
    rbuf,      \* rbuf[o]: read from that socket, not yet written to QUIC
    quic,      \* quic[o]: in the QUIC stream
    quicEnd,   \* quicEnd[o]: whether the stream was finished after them
    stopped,   \* stopped[o]: the reader of the stream is gone: STOP_SENDING(0)
    wbuf,      \* wbuf[o]: read from the stream, not yet written to TCP
    outbox,    \* outbox[o]: bytes delivered to the TCP peer of the other side
    outEnd,    \* outEnd[o]: what that peer sees after them
    half,      \* half[s]: the directions of the forwarder of s that are done
    fwd,       \* fwd[s]: the forwarder of s
    conn,      \* the QUIC connection
    counters   \* counters[s]: bytes counted, and the client's counters

streamVars == <<quic, quicEnd, stopped>>
originVars == <<sent, inEnd>>
vars == <<originVars, inbox, rbuf, streamVars, wbuf, outbox, outEnd, half, fwd,
          conn, counters>>

\* "ok": copy_bidirectional returned; "zero": it failed with "error 0", which
\* counts as a graceful shutdown; "err": it failed, or connect did.
Ended == {"ok", "zero", "err"}
Byte == 1 .. MaxBytes

\* BYTES_TRANSMITTED_A and _B of either side, and the client's CONNECTIONS_ACCEPTED
\* and TCP_FORWARDING_ERRORS.
StreamCounters == [a : [Side -> Nat], b : [Side -> Nat], accepted : Nat, errors : Nat]

TypeOK ==
    /\ sent \in [Side -> 0 .. MaxBytes]
    /\ inEnd \in [Side -> {"open", "eof", "reset"}]
    /\ inbox \in [Side -> Seq(Byte)] /\ outbox \in [Side -> Seq(Byte)]
    /\ rbuf \in [Side -> Seq(Byte)] /\ wbuf \in [Side -> Seq(Byte)]
    /\ quic \in [Side -> Seq(Byte)]
    /\ \A o \in Side : /\ Len(rbuf[o]) <= BufSize /\ Len(wbuf[o]) <= BufSize
                       /\ Len(quic[o]) <= Window
    /\ quicEnd \in [Side -> {"open", "fin"}]
    /\ stopped \in [Side -> BOOLEAN]
    /\ outEnd \in [Side -> {"open", "fin", "reset"}]
    /\ half \in [Side -> SUBSET {"toQuic", "toTcp"}]
    /\ fwd \in [Side -> {"none", "connecting", "copy"} \cup Ended]
    /\ conn \in {"open", "lost"}
    /\ counters \in StreamCounters

\* The server has accepted a TCP connection, opened a stream and spawned its
\* forwarder (TunnelServer!OpenBiOk).
Init ==
    /\ sent = [o \in Side |-> 0] /\ inEnd = [o \in Side |-> "open"]
    /\ inbox = [o \in Side |-> <<>>] /\ rbuf = [o \in Side |-> <<>>]
    /\ quic = [o \in Side |-> <<>>] /\ quicEnd = [o \in Side |-> "open"]
    /\ stopped = [o \in Side |-> FALSE]
    /\ wbuf = [o \in Side |-> <<>>] /\ outbox = [o \in Side |-> <<>>]
    /\ outEnd = [o \in Side |-> "open"]
    /\ half = [s \in Side |-> {}]
    /\ fwd = [s \in Side |-> IF s = "server" THEN "copy" ELSE "none"]
    /\ conn = "open"
    /\ counters = [a |-> [s \in Side |-> 0], b |-> [s \in Side |-> 0],
                   accepted |-> 0, errors |-> 0]

--------------------------------------------------------------------------------
(* The two TCP peers and the network (external). *)

PeerSends(o) ==
    /\ fwd[o] = "copy" /\ inEnd[o] = "open" /\ sent[o] < MaxBytes
    /\ sent' = [sent EXCEPT ![o] = @ + 1]
    /\ inbox' = [inbox EXCEPT ![o] = Append(@, sent[o] + 1)]
    /\ UNCHANGED <<inEnd, rbuf, streamVars, wbuf, outbox, outEnd, half, fwd, conn, counters>>

PeerEnds(o) ==
    /\ fwd[o] = "copy"
    /\ \/ inEnd[o] = "open" /\ inEnd' = [inEnd EXCEPT ![o] = "eof"]
       \/ inEnd[o] # "reset" /\ inEnd' = [inEnd EXCEPT ![o] = "reset"]
    /\ UNCHANGED <<sent, inbox, rbuf, streamVars, wbuf, outbox, outEnd, half, fwd, conn,
                   counters>>

\* What is in the streams may be lost, from some point on.
ConnLost ==
    /\ conn = "open"
    /\ conn' = "lost"
    /\ \E n \in [Side -> 0 .. Window], whole \in SUBSET Side :
          /\ \A o \in Side : n[o] <= Len(quic[o])
          /\ \A o \in whole : n[o] = Len(quic[o])
          /\ quic' = [o \in Side |-> SubSeq(quic[o], 1, n[o])]
          /\ quicEnd' = [o \in Side |-> IF o \in whole THEN quicEnd[o] ELSE "open"]
    /\ UNCHANGED <<originVars, inbox, rbuf, stopped, wbuf, outbox, outEnd, half, fwd,
                   counters>>

--------------------------------------------------------------------------------
(* tokio's copy_bidirectional_with_sizes (external), a byte at a time. *)

Copying(s, dir) == fwd[s] = "copy" /\ dir \notin half[s]

GreedyReadTcp(s) ==
    /\ Copying(s, "toQuic") /\ inbox[s] # <<>>
    /\ rbuf' = [rbuf EXCEPT ![s] = Append(@, Head(inbox[s]))]
    /\ inbox' = [inbox EXCEPT ![s] = Tail(@)]
    /\ UNCHANGED <<originVars, streamVars, wbuf, outbox, outEnd, half, fwd, conn, counters>>

ReadTcp(s) ==
    /\ Copying(s, "toQuic") /\ inbox[s] # <<>> /\ Len(rbuf[s]) < BufSize
    /\ rbuf' = [rbuf EXCEPT ![s] = Append(@, Head(inbox[s]))]
    /\ inbox' = [inbox EXCEPT ![s] = Tail(@)]
    /\ UNCHANGED <<originVars, streamVars, wbuf, outbox, outEnd, half, fwd, conn, counters>>

\* BiStream::poll_write.  A STOP_SENDING on its way does not prevent it.
WriteQuic(s) ==
    /\ Copying(s, "toQuic") /\ rbuf[s] # <<>>
    /\ conn = "open" /\ Len(quic[s]) < Window
    /\ quic' = [quic EXCEPT ![s] = Append(@, Head(rbuf[s]))]
    /\ rbuf' = [rbuf EXCEPT ![s] = Tail(@)]
    /\ UNCHANGED <<originVars, inbox, quicEnd, stopped, wbuf, outbox, outEnd, half, fwd,
                   conn, counters>>

\* BiStream::poll_read: what has arrived is read also after a loss.
ReadQuic(s) ==
    LET o == Other(s) IN
    /\ Copying(s, "toTcp") /\ quic[o] # <<>> /\ Len(wbuf[o]) < BufSize
    /\ wbuf' = [wbuf EXCEPT ![o] = Append(@, Head(quic[o]))]
    /\ quic' = [quic EXCEPT ![o] = Tail(@)]
    /\ UNCHANGED <<originVars, inbox, rbuf, quicEnd, stopped, outbox, outEnd, half, fwd,
                   conn, counters>>

RepeatingWriteTcp(s) ==
    LET o == Other(s) IN
    /\ Copying(s, "toTcp") /\ wbuf[o] # <<>> /\ inEnd[s] # "reset"
    /\ outbox' = [outbox EXCEPT ![o] = Append(@, Head(wbuf[o]))]
    /\ UNCHANGED <<originVars, inbox, rbuf, streamVars, wbuf, outEnd, half, fwd, conn, counters>>

WriteTcp(s) ==
    LET o == Other(s) IN
    /\ Copying(s, "toTcp") /\ wbuf[o] # <<>> /\ inEnd[s] # "reset"
    /\ outbox' = [outbox EXCEPT ![o] = Append(@, Head(wbuf[o]))]
    /\ wbuf' = [wbuf EXCEPT ![o] = Tail(@)]
    /\ UNCHANGED <<originVars, inbox, rbuf, streamVars, outEnd, half, fwd, conn, counters>>

--------------------------------------------------------------------------------
(* forward_bidirectional: what becomes of the result of the copy. *)

\* How many bytes each direction has written.
ToQuic(s) == sent[s] - Len(inbox[s]) - Len(rbuf[s])
ToTcp(s) == Len(outbox[Other(s)])

HastyHalfDone(s, dir) ==
    /\ half' = [half EXCEPT ![s] = @ \cup {dir}]
    /\ fwd' = [fwd EXCEPT ![s] = "ok"]
    /\ counters' = [counters EXCEPT !.a[s] = @ + ToQuic(s), !.b[s] = @ + ToTcp(s)]

LateHalfDone(s, dir) ==
    /\ half' = [half EXCEPT ![s] = @ \cup {dir}]
    /\ IF half[s] = {"toQuic", "toTcp"}
       THEN /\ fwd' = [fwd EXCEPT ![s] = "ok"]
            /\ counters' = [counters EXCEPT !.a[s] = @ + ToQuic(s), !.b[s] = @ + ToTcp(s)]
       ELSE UNCHANGED <<fwd, counters>>

EarlyHalfDone(s, dir) ==
    /\ half' = [half EXCEPT ![s] = @ \cup {dir}]
    /\ IF half[s] = {}
       THEN /\ counters' = [counters EXCEPT !.a[s] = @ + ToQuic(s), !.b[s] = @ + ToTcp(s)]
            /\ UNCHANGED fwd
       ELSE fwd' = [fwd EXCEPT ![s] = "ok"] /\ UNCHANGED counters

\* A direction is done.  When both are, the copy returns Ok with the bytes of
\* each, and they are counted.
HalfDone(s, dir) ==
    /\ half' = [half EXCEPT ![s] = @ \cup {dir}]
    /\ IF half[s] \cup {dir} = {"toQuic", "toTcp"}
       THEN /\ fwd' = [fwd EXCEPT ![s] = "ok"]
            /\ counters' = [counters EXCEPT !.a[s] = @ + ToQuic(s), !.b[s] = @ + ToTcp(s)]
       ELSE UNCHANGED <<fwd, counters>>

\* TCP has ended and all is written: the stream is finished (BiStream::poll_shutdown).
FinishQuic(s) ==
    /\ Copying(s, "toQuic") /\ inEnd[s] = "eof" /\ inbox[s] = <<>> /\ rbuf[s] = <<>>
    /\ quicEnd' = [quicEnd EXCEPT ![s] = IF conn = "open" THEN "fin" ELSE @]
    /\ HalfDone(s, "toQuic")
    /\ UNCHANGED <<originVars, inbox, rbuf, quic, stopped, wbuf, outbox, outEnd, conn>>

\* The stream has ended and all is written: TCP is shut down for writing.
ShutTcp(s) ==
    LET o == Other(s) IN
    /\ Copying(s, "toTcp") /\ quicEnd[o] = "fin" /\ quic[o] = <<>> /\ wbuf[o] = <<>>
    /\ outEnd' = [outEnd EXCEPT ![o] = "fin"]
    /\ HalfDone(s, "toTcp")
    /\ UNCHANGED <<originVars, inbox, rbuf, streamVars, wbuf, outbox, conn>>

\* The QUIC stream is dropped: quinn finishes the direction that is written and
\* stops the one that is read, unless it was read to its end.
DropQuic(s) ==
    /\ quicEnd' = [quicEnd EXCEPT ![s] = IF conn = "open" THEN "fin" ELSE @]
    /\ stopped' = [stopped EXCEPT ![Other(s)] = @ \/ "toTcp" \notin half[s]]
    /\ UNCHANGED <<originVars, inbox, quic, outbox, half, conn>>

\* TCP is dropped as well: it ends, with a reset if there is something unread.
DropBoth(s) ==
    LET o == Other(s) IN
    /\ DropQuic(s)
    /\ rbuf' = [rbuf EXCEPT ![s] = <<>>]
    /\ wbuf' = [wbuf EXCEPT ![o] = <<>>]
    /\ outEnd' = [outEnd EXCEPT ![o] =
                     IF @ # "open" THEN @ ELSE IF inbox[s] # <<>> THEN "reset" ELSE "fin"]

\* TCP_FORWARDING_ERRORS of the client; the server's counters are in TunnelServer.
CountError(s) ==
    counters' = IF s = "client" THEN [counters EXCEPT !.errors = @ + 1] ELSE counters

\* Writing fails with "sending stopped by peer: error 0": the result is Ok.
FwdErrorZero(s) ==
    /\ Copying(s, "toQuic") /\ rbuf[s] # <<>> /\ stopped[s] /\ conn = "open"
    /\ fwd' = [fwd EXCEPT ![s] = "zero"]
    /\ DropBoth(s)
    /\ UNCHANGED counters

\* Reading or writing fails otherwise: the result is Err.
FwdError(s) ==
    LET o == Other(s) IN
    /\ fwd[s] = "copy"
    /\ \/ inEnd[s] = "reset" /\ ("toQuic" \notin half[s] \/ wbuf[o] # <<>>)
       \/ conn = "lost" /\ rbuf[s] # <<>>
       \/ conn = "lost" /\ Copying(s, "toTcp") /\ quic[o] = <<>> /\ quicEnd[o] # "fin"
    /\ fwd' = [fwd EXCEPT ![s] = "err"]
    /\ DropBoth(s)
    /\ CountError(s)

--------------------------------------------------------------------------------
(* The client's accept loop, and the start of its forwarder. *)

\* accept_bi() yields a stream once something was sent on it; one that has
\* arrived is still yielded after the connection was lost.
AcceptBi ==
    /\ fwd["client"] = "none"
    /\ quic["server"] # <<>> \/ quicEnd["server"] = "fin"
    /\ fwd' = [fwd EXCEPT !["client"] = "connecting"]
    /\ counters' = [counters EXCEPT !.accepted = @ + 1]
    /\ UNCHANGED <<originVars, inbox, rbuf, streamVars, wbuf, outbox, outEnd, half, conn>>

ConnectOk ==
    /\ fwd["client"] = "connecting"
    /\ fwd' = [fwd EXCEPT !["client"] = "copy"]
    /\ UNCHANGED <<originVars, inbox, rbuf, streamVars, wbuf, outbox, outEnd, half, conn,
                   counters>>

LeakingConnectFails ==
    /\ fwd["client"] = "connecting"
    /\ fwd' = [fwd EXCEPT !["client"] = "err"]
    /\ UNCHANGED <<originVars, inbox, rbuf, streamVars, wbuf, outbox, outEnd, half, conn>>
    /\ CountError("client")

\* "failed to connect to destination": the stream is dropped.
ConnectFails ==
    /\ fwd["client"] = "connecting"
    /\ fwd' = [fwd EXCEPT !["client"] = "err"]
    /\ DropQuic("client")
    /\ UNCHANGED <<rbuf, wbuf, outEnd>>
    /\ CountError("client")

Forwarder(s) ==
    \/ ReadTcp(s) \/ WriteQuic(s) \/ ReadQuic(s) \/ WriteTcp(s)
    \/ FinishQuic(s) \/ ShutTcp(s) \/ FwdErrorZero(s) \/ FwdError(s)

Client == AcceptBi \/ ConnectOk \/ ConnectFails

Next ==
    \/ \E o \in Side : PeerSends(o) \/ PeerEnds(o)
    \/ \E s \in Side : Forwarder(s)
    \/ Client
    \/ ConnLost

\* The runtime polls the two directions of a copy whenever they can go on.
\* Nothing is assumed of the TCP peers.
Fairness ==
    /\ \A s \in Side :
          /\ WF_vars(ReadTcp(s) \/ WriteQuic(s) \/ FinishQuic(s) \/ FwdErrorZero(s) \/ FwdError(s))
          /\ WF_vars(ReadQuic(s) \/ WriteTcp(s) \/ ShutTcp(s) \/ FwdError(s))
    /\ WF_vars(Client)

SafetySpec == Init /\ [][Next]_vars
Spec == SafetySpec /\ Fairness

--------------------------------------------------------------------------------

\* What both forwarders together do to the bytes is what two FIFO pipes do.
Pipes == INSTANCE BytePipes WITH Origins <- Side, received <- outbox, end <- outEnd

\* Bytes arrive in order, once, and never after the end that the receiving TCP
\* peer was shown, however buffers, windows, half-closes and errors interleave.
ImplementsPipes == Pipes!Spec

\* Whatever is not delivered is reported by an error at one end at least: the
\* "error 0" that forward_bidirectional takes for a graceful shutdown only occurs
\* after the other forwarder has failed, and two results Ok mean that all bytes
\* and both ends arrived.
LossReported ==
    (/\ \A s \in Side : fwd[s] \in Ended
     /\ \E o \in Side : Len(outbox[o]) < sent[o] \/ outEnd[o] # "fin")
    => \E s \in Side : fwd[s] = "err"

\* When one forwarder has ended, for whatever reason, the TCP peer at the other
\* end is shown an end, even if it stays silent; unless there never was one.
EndSpreads ==
    \A s \in Side : fwd[s] \in Ended ~>
        \/ outEnd[s] # "open"
        \/ fwd[Other(s)] = "err"
        \/ fwd[Other(s)] = "none" /\ conn = "lost"

\* When both TCP peers have ended or reset their connections both forwarders
\* return: no half-closed copy waits for ever.
BothEnd == (\A o \in Side : inEnd[o] # "open") ~> (\A s \in Side : fwd[s] \in Ended)

\* What the byte counters mean, although each end counts for itself, at a time of
\* its own and (forward.rs, after the copy) all at once.  An end that returned Ok
\* has counted what its TCP peer sent and what that peer was given, each once and
\* under its direction; an end that failed, also with the "error 0" that passes
\* for success, has counted nothing; and two results Ok mean the same bytes.
CountsAgree ==
    /\ \A s \in Side : fwd[s] = "ok" =>
          counters.a[s] = sent[s] /\ counters.b[s] = Len(outbox[Other(s)])
    /\ \A s \in Side : fwd[s] # "ok" => counters.a[s] = 0 /\ counters.b[s] = 0
    /\ (\A s \in Side : fwd[s] = "ok") =>
          \A o \in Side : counters.b[Other(o)] = counters.a[o]

\* README.md: the client "receives tunneled streams, and forwards them to the
\* target TCP service".  A connection the server forwards reaches the client.
StreamReachesClient ==
    fwd["server"] = "copy" ~> fwd["client"] # "none" \/ fwd["server"] # "copy" \/ conn = "lost"

================================================================================
