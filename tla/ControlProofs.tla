------------------------------ MODULE ControlProofs ------------------------------
(***************************************************************************)
(* Proofs about ControlProtocol, for any keys, any kinds of client and any *)
(* number of PINGs.                                                        *)
(***************************************************************************)
EXTENDS ControlProtocol, SequenceTheorems, FiniteSetTheorems, TLAPS

--------------------------------------------------------------------------------
(* The inductive invariant. *)

\* With another key than the server's, the right response is never sent and the
\* first half of HAPPY never arrives.
AuthInv ==
    psk # ServerPsk =>
        /\ ~ServerAccepted /\ ~ClientAccepted
        /\ toServer \in Seq(Message \ {Response(Challenge, ServerPsk)})
        /\ toClient \in Seq(Piece \ {"hap"})
        /\ cpc \in {"prompt", "reply", "ended"} /\ cEnd # "unexpected"

\* Where both ends are during authentication, when messages arrive whole.
Asked ==
    /\ toServer = <<>>
    /\ \/ toClient = <<>> /\ spc \in {"challenge", "done"}
       \/ toClient = Request /\ spc \in {"response", "done"}

Answered ==
    \/ /\ toServer = << Response(Challenge, ServerPsk) >> /\ toClient = <<>>
       /\ spc \in {"response", "done"}
    \/ toServer = <<>> /\ toClient = Happy /\ spc \in {"config", "done"}

Accepted == toServer = <<>> /\ toClient = <<>> /\ spc \in {"config", "done"}

Succeeding ==
    /\ sEnd # "mismatch" /\ cEnd \notin {"badprompt", "rejected"}
    /\ cpc = "prompt" => Asked
    /\ cpc = "reply" => Answered
    /\ cpc = "configure" => Accepted
    /\ cpc \in {"tick", "pong"} => spc \notin {"challenge", "response"}
    /\ cpc = "ended" => spc \notin {"challenge", "response"} \/ conn # "open"

WholeInv == reads = "whole" /\ psk = ServerPsk => Succeeding

\* What a client that configures its session has sent and the server not read;
\* a server that has ended may have left any of it.
Idle ==
    /\ toClient = <<>>
    /\ \/ toServer = << <<"header">>, <<"port">> >> /\ spc \in {"config", "done"}
       \/ toServer = << <<"port">> >> /\ spc \in {"port", "done"}
       \/ toServer = <<>> /\ spc \in {"control", "done"}

Pinging ==
    /\ toClient = <<>>
    /\ \/ toServer = << <<"header">>, <<"port">>, <<"ping">> >> /\ spc \in {"config", "done"}
       \/ toServer = << <<"port">>, <<"ping">> >> /\ spc \in {"port", "done"}
       \/ toServer = << <<"ping">> >> /\ spc \in {"control", "done"}

Ponged == toServer = <<>> /\ toClient = Pong /\ spc \in {"control", "done"}

Alternating ==
    /\ cEnd # "unexpected"
    /\ cpc = "tick" => Idle
    /\ cpc = "pong" => Pinging \/ Ponged

StepInv == reads = "whole" /\ psk = ServerPsk /\ peer = "conforming" => Alternating

IndInv == TypeOK /\ AuthInv /\ WholeInv /\ StepInv

--------------------------------------------------------------------------------
(* Queues. *)

USE PskAssumption, PeersAssumption, ModesAssumption

LEMMA Queue ==
    ASSUME NEW S, NEW q \in Seq(S)
    PROVE  /\ Len(q) \in Nat /\ Rest(q, Len(q)) = <<>>
           /\ q # <<>> => Head(q) \in S /\ Tail(q) \in Seq(S) /\ Len(q) > 0
           /\ \A n \in 1 .. Len(q) : Rest(q, n) \in Seq(S)
           /\ \A i \in 1 .. Len(q) : q[i] \in S
<1>1. Len(q) \in Nat /\ \A i \in 1 .. Len(q) : q[i] \in S
      BY LenProperties, ElementOfSeq
<1>2. q # <<>> => Head(q) \in S /\ Tail(q) \in Seq(S) /\ Len(q) > 0
      BY HeadTailProperties, EmptySeq, <1>1
<1>3. ASSUME NEW n \in 1 .. Len(q) PROVE Rest(q, n) \in Seq(S)
  <2>1. n \in Nat /\ n + 1 \in Nat /\ \A i \in n + 1 .. Len(q) : q[i] \in S
        BY <1>1
  <2> QED BY <1>1, <2>1, SubSeqProperties DEF Rest
<1>4. Rest(q, Len(q)) = <<>>
  <2>1. /\ SubSeq(q, Len(q) + 1, Len(q)) \in Seq(S)
        /\ Len(SubSeq(q, Len(q) + 1, Len(q))) = 0
        BY <1>1, SubSeqProperties
  <2> QED BY <2>1, EmptySeq DEF Rest
<1> QED BY <1>1, <1>2, <1>3, <1>4

\* What one read takes.
LEMMA ReadLength ==
    ASSUME NEW q \in Seq(Piece), NEW n \in ReadLengths(q)
    PROVE  /\ n \in 1 .. Len(q) /\ q # <<>>
           /\ reads = "whole" => n = Len(q)
<1>1. Len(q) \in Nat
      BY Queue
<1>2. n \in 1 .. Len(q)
  <2>1. CASE reads = "cut"
        BY <2>1 DEF ReadLengths
  <2>2. CASE reads # "cut"
        BY <1>1, <2>2 DEF ReadLengths
  <2> QED BY <2>1, <2>2
<1>3. reads = "whole" => n = Len(q)
      BY DEF ReadLengths
<1>4. q # <<>>
      BY <1>1, <1>2, EmptySeq
<1> QED BY <1>2, <1>3, <1>4

LEMMA Pieces ==
    /\ Request \in Seq(Piece \ {"hap"}) /\ Happy \in Seq(Piece) /\ Bad \in Seq(Piece \ {"hap"})
    /\ Pong \in Seq(Piece \ {"hap"})
    /\ Request \in Seq(Piece) /\ Bad \in Seq(Piece) /\ Pong \in Seq(Piece)
  BY DEF Request, Happy, Bad, Pong, Piece

LEMMA Messages ==
    /\ \A m \in {"header", "port", "ping", "bye", "junk"} :
          <<m>> \in Message /\ \A k \in Psks : <<m>> # Response(Challenge, k)
    /\ \A ch \in ChallengePart, k \in Psks : Response(ch, k) \in Message
    /\ \A ch \in ChallengePart, k \in Psks :
          Response(ch, k) = Response(Challenge, ServerPsk) => k = ServerPsk
<1>1. \A m \in {"header", "port", "ping", "bye", "junk"} : <<m>> \in Message
      BY DEF Message
<1>2. \A m \in {"header", "port", "ping", "bye", "junk"}, k \in Psks : <<m>> # Response(Challenge, k)
  <2> TAKE m \in {"header", "port", "ping", "bye", "junk"}, k \in Psks
  <2>1. Len(<<m>>) = 1 /\ Len(<<"response", Challenge, k>>) = 3
        OBVIOUS
  <2> QED BY <2>1 DEF Response
<1>3. \A ch \in ChallengePart, k \in Psks : Response(ch, k) \in Message
      BY DEF Message
<1>4. ASSUME NEW ch \in ChallengePart, NEW k \in Psks, Response(ch, k) = Response(Challenge, ServerPsk)
      PROVE  k = ServerPsk
  <2>1. Response(ch, k)[3] = k /\ Response(Challenge, ServerPsk)[3] = ServerPsk
        BY DEF Response
  <2> QED BY <1>4, <2>1
<1> QED BY <1>1, <1>2, <1>3, <1>4

--------------------------------------------------------------------------------
(* Types. *)

LEMMA TypeServer == ASSUME TypeOK, Server PROVE TypeOK'
<1> USE DEF clientVars, serverVars, setup
<1>0. toServer # <<>> => Tail(toServer) \in Seq(Message)
      BY Queue DEF TypeOK
<1>1. CASE SendChallenge
  <2>1. toClient' \in Seq(Piece)
        BY <1>1, Pieces, ConcatProperties DEF SendChallenge, TypeOK
  <2> QED BY <1>1, <2>1 DEF SendChallenge, TypeOK
<1>2. CASE ReadResponse
  <2>1. toClient' \in Seq(Piece)
    <3>1. toClient' = toClient \o Happy \/ toClient' = toClient \o Bad
          BY <1>2 DEF ReadResponse
    <3>2. toClient \o Happy \in Seq(Piece) /\ toClient \o Bad \in Seq(Piece)
          BY Pieces, ConcatProperties DEF TypeOK
    <3> QED BY <3>1, <3>2
  <2>2. toServer' \in Seq(Message)
        BY <1>0, <1>2 DEF ReadResponse
  <2> QED BY <1>2, <2>1, <2>2 DEF ReadResponse, ServerEnds, TypeOK
<1>3. CASE SetupTimeout
      BY <1>3 DEF SetupTimeout, ServerEnds, TypeOK
<1>4. CASE SetupFails
      BY <1>4 DEF SetupFails, ServerEnds, TypeOK
<1>5. CASE ReadHeader
  <2>1. toServer' \in Seq(Message)
        BY <1>0, <1>5 DEF ReadHeader, HeaderArrived, TypeOK
  <2> QED BY <1>5, <2>1 DEF ReadHeader, ServerEnds, TypeOK
<1>6. CASE ReadPort
  <2>1. toServer' \in Seq(Message)
        BY <1>0, <1>6 DEF ReadPort
  <2> QED BY <1>6, <2>1 DEF ReadPort, ServerEnds, TypeOK
<1>7. CASE AnswerPing
  <2>1. toServer' \in Seq(Message) /\ toClient' \in Seq(Piece)
        BY <1>0, <1>7, Pieces, ConcatProperties DEF AnswerPing, TypeOK
  <2> QED BY <1>7, <2>1 DEF AnswerPing, TypeOK
<1>8. CASE EndByMessage
  <2>1. toServer' \in Seq(Message)
        BY <1>0, <1>8 DEF EndByMessage
  <2> QED BY <1>8, <2>1 DEF EndByMessage, ServerEnds, TypeOK
<1>9. CASE EndByStream \/ EndByTimeout
      BY <1>9 DEF EndByStream, EndByTimeout, ServerEnds, TypeOK
<1> QED BY <1>1, <1>2, <1>3, <1>4, <1>5, <1>6, <1>7, <1>8, <1>9 DEF Server

\* The keepalive task ends.
LEMMA TypeKeepaliveEnds ==
    ASSUME TypeOK, NEW why \in {"unexpected", "failed", "timeout", "bye"}, KeepaliveEnds(why),
           toClient' \in Seq(Piece), toServer' \in Seq(Message)
    PROVE  TypeOK'
<1>1. counters' = [counters EXCEPT !.keepaliveErrors = @]
      BY DEF KeepaliveEnds, LoopResult
<1>2. counters' \in SessionCounters
      BY <1>1 DEF TypeOK, SessionCounters
<1> QED BY <1>2 DEF KeepaliveEnds, TypeOK, serverVars, setup

\* The handler of the client returns an error.
LEMMA TypeClientFails ==
    ASSUME TypeOK, NEW why \in {"badprompt", "rejected", "failed"}, ClientFails(why),
           UNCHANGED serverVars, toClient' \in Seq(Piece), toServer' \in Seq(Message)
    PROVE  TypeOK'
  BY DEF ClientFails, TypeOK, serverVars, setup

LEMMA TypeClient == ASSUME TypeOK, Client PROVE TypeOK'
<1> USE DEF clientVars, serverVars, setup
<1>0. toClient \in Seq(Piece) /\ toServer \in Seq(Message)
      BY DEF TypeOK
<1>1. ASSUME NEW n \in ReadLengths(toClient) PROVE Rest(toClient, n) \in Seq(Piece)
      BY <1>0, <1>1, ReadLength, Queue
<1>2. CASE ReadChallenge
  <2>1. PICK n \in ReadLengths(toClient) :
          /\ toClient' = Rest(toClient, n)
          /\ IF n < 2
             THEN ClientFails("badprompt") /\ UNCHANGED toServer
             ELSE /\ conn = "open"
                  /\ toServer' = Append(toServer,
                        Response(IF n = 2 THEN <<"chalA">> ELSE Challenge, psk))
                  /\ cpc' = "reply"
                  /\ UNCHANGED <<conn, setup, fin, cEnd, hpc, pings, counters>>
        BY <1>2 DEF ReadChallenge
  <2>2. toClient' \in Seq(Piece)
        BY <1>1, <2>1
  <2>3. toServer' \in Seq(Message)
    <3>1. CASE n < 2
          BY <1>0, <2>1, <3>1
    <3>2. CASE ~(n < 2)
      <4>1. PICK ch \in ChallengePart : toServer' = Append(toServer, Response(ch, psk))
            BY <2>1, <3>2 DEF ChallengePart
      <4> QED BY <1>0, <4>1, Messages, AppendProperties DEF TypeOK
    <3> QED BY <3>1, <3>2
  <2>4. UNCHANGED serverVars
        BY <1>2 DEF ReadChallenge
  <2>5. CASE n < 2
        BY <2>1, <2>2, <2>3, <2>4, <2>5, TypeClientFails
  <2>6. CASE ~(n < 2)
        BY <2>1, <2>2, <2>3, <2>4, <2>6 DEF TypeOK
  <2> QED BY <2>5, <2>6
<1>3. CASE ReadReply
  <2>1. toClient' \in Seq(Piece)
        BY <1>1, <1>3 DEF ReadReply
  <2>2. UNCHANGED <<toServer, serverVars>>
        BY <1>3 DEF ReadReply
  <2>3. CASE ClientFails("rejected")
        BY <1>0, <2>1, <2>2, <2>3, TypeClientFails
  <2>4. CASE /\ cpc' = "configure" /\ hpc' = "accept"
             /\ UNCHANGED <<conn, setup, fin, cEnd, pings, counters>>
        BY <2>1, <2>2, <2>4 DEF TypeOK
  <2> QED BY <1>3, <2>3, <2>4 DEF ReadReply
<1>4. CASE ClientAuthFails
      BY <1>4 DEF ClientAuthFails, ClientFails, TypeOK
<1>5. CASE Configure
  <2>1. << <<"header">>, <<"port">> >> \in Seq(Message)
        BY Messages
  <2>2. toServer' \in Seq(Message)
        BY <1>0, <1>5, <2>1, ConcatProperties DEF Configure
  <2> QED BY <1>5, <2>2 DEF Configure, TypeOK
<1>6. CASE SkipConfigure
      BY <1>6 DEF SkipConfigure, TypeOK
<1>7. ASSUME NEW m \in {"ping", "bye", "junk"} PROVE Append(toServer, <<m>>) \in Seq(Message)
      BY <1>0, <1>7, Messages, AppendProperties
<1>8. CASE SendJunk
      BY <1>7, <1>8 DEF SendJunk, Send, TypeOK
<1>9. CASE SendBye
      BY <1>0, <1>7, <1>9, TypeKeepaliveEnds DEF SendBye, Send
<1>10. CASE Tick
  <2>1. CASE conn # "open" /\ KeepaliveEnds("failed") /\ UNCHANGED toServer
        BY <1>0, <1>10, <2>1, TypeKeepaliveEnds DEF Tick
  <2>2. CASE /\ pings < MaxPings /\ Send("ping") /\ pings' = pings + 1 /\ cpc' = "pong"
             /\ UNCHANGED <<conn, serverVars, setup, fin, cEnd, hpc, counters>>
    <3>1. toServer' \in Seq(Message) /\ UNCHANGED toClient
          BY <1>7, <1>10, <2>2 DEF Send, Tick
    <3>2. pings' \in 0 .. MaxPings
          BY <2>2 DEF TypeOK
    <3> QED BY <2>2, <3>1, <3>2 DEF TypeOK
  <2> QED BY <1>10, <2>1, <2>2 DEF Tick
<1>11. CASE ReadPong
  <2>1. toClient' \in Seq(Piece) /\ UNCHANGED toServer
        BY <1>1, <1>11 DEF ReadPong
  <2>2. CASE KeepaliveEnds("unexpected")
        BY <1>0, <2>1, <2>2, TypeKeepaliveEnds
  <2>3. CASE /\ cpc' = "tick"
             /\ UNCHANGED <<conn, serverVars, setup, fin, cEnd, hpc, pings, counters>>
        BY <2>1, <2>3 DEF TypeOK
  <2> QED BY <1>11, <2>2, <2>3 DEF ReadPong
<1>12. CASE NoPong
      BY <1>0, <1>12, TypeKeepaliveEnds DEF NoPong
<1>13. CASE AcceptLoopEnds
  <2>1. counters' \in SessionCounters
        BY <1>13 DEF AcceptLoopEnds, TypeOK, SessionCounters
  <2> QED BY <1>13, <2>1 DEF AcceptLoopEnds, TypeOK
<1> QED BY <1>2, <1>3, <1>4, <1>5, <1>6, <1>8, <1>9, <1>10, <1>11, <1>12, <1>13 DEF Client

LEMMA TypeNext == ASSUME TypeOK, Next PROVE TypeOK'
<1>1. CASE ConnLost
      BY <1>1 DEF ConnLost, TypeOK, serverVars, clientVars, setup
<1> QED BY <1>1, TypeServer, TypeClient DEF Next

--------------------------------------------------------------------------------
(* Authentication. *)

LEMMA SetupFixed == ASSUME Next PROVE UNCHANGED setup
<1> USE DEF clientVars
<1>1. CASE Server
      BY <1>1 DEF Server, SendChallenge, ReadResponse, SetupTimeout, SetupFails, ReadHeader,
                  ReadPort, AnswerPing, EndByMessage, EndByStream, EndByTimeout
<1>2. CASE Client
      BY <1>2 DEF Client, ReadChallenge, ReadReply, ClientAuthFails, Configure, SkipConfigure,
                  SendJunk, SendBye, Tick, ReadPong, NoPong, AcceptLoopEnds, ClientFails,
                  KeepaliveEnds
<1>3. CASE ConnLost
      BY <1>3 DEF ConnLost
<1> QED BY <1>1, <1>2, <1>3 DEF Next

\* What a client with another key and its server may do.
Wrong ==
    /\ spc \in {"challenge", "response", "done"}
    /\ sEnd \in {"none", "mismatch", "timeout", "failed"}
    /\ hpc # "accept" /\ counters.gracefullyClosed = 0
    /\ toServer \in Seq(Message \ {Response(Challenge, ServerPsk)})
    /\ toClient \in Seq(Piece \ {"hap"})
    /\ cpc \in {"prompt", "reply", "ended"} /\ cEnd # "unexpected"

LEMMA WrongKey == ASSUME TypeOK, psk # ServerPsk PROVE AuthInv <=> Wrong
<1>1. counters.gracefullyClosed \in Nat
      BY DEF TypeOK, SessionCounters
<1>2. ~ServerAccepted <=> /\ spc \in {"challenge", "response", "done"}
                          /\ sEnd \in {"none", "mismatch", "timeout", "failed"}
      BY DEF TypeOK, ServerAccepted
<1>3. ~ClientAccepted <=> hpc # "accept" /\ counters.gracefullyClosed = 0
      BY <1>1 DEF ClientAccepted
<1> QED BY <1>2, <1>3 DEF AuthInv, Wrong

LEMMA WrongServer == ASSUME Wrong, Server PROVE Wrong'
<1> USE DEF clientVars, serverVars
<1> DEFINE S == Message \ {Response(Challenge, ServerPsk)}
           P == Piece \ {"hap"}
<1>1. CASE SendChallenge
  <2>1. toClient' \in Seq(P)
        BY <1>1, Pieces, ConcatProperties DEF SendChallenge, Wrong
  <2> QED BY <1>1, <2>1 DEF SendChallenge, Wrong
<1>2. CASE ReadResponse
  <2>1. toServer \in Seq(S) /\ toServer # <<>>
        BY <1>2 DEF ReadResponse, Wrong
  <2>2. Head(toServer) \in S /\ Tail(toServer) \in Seq(S)
    <3> HIDE DEF S
    <3> QED BY <2>1, Queue
  <2>3. toClient' = toClient \o Bad /\ ServerEnds("mismatch", "closedErr")
        BY <1>2, <2>2 DEF ReadResponse
  <2>4. toClient' \in Seq(P)
        BY <2>3, Pieces, ConcatProperties DEF Wrong
  <2> QED BY <1>2, <2>2, <2>3, <2>4 DEF ReadResponse, ServerEnds, Wrong
<1>3. CASE SetupTimeout \/ SetupFails
      BY <1>3 DEF SetupTimeout, SetupFails, ServerEnds, Wrong
<1>4. CASE ReadHeader \/ ReadPort \/ AnswerPing \/ EndByMessage \/ EndByStream \/ EndByTimeout
      BY <1>4 DEF ReadHeader, ReadPort, AnswerPing, EndByMessage, EndByStream, EndByTimeout, Wrong
<1> QED BY <1>1, <1>2, <1>3, <1>4 DEF Server

LEMMA WrongClient == ASSUME TypeOK, psk # ServerPsk, Wrong, Client PROVE Wrong'
<1> USE DEF clientVars, serverVars
<1> DEFINE S == Message \ {Response(Challenge, ServerPsk)}
           P == Piece \ {"hap"}
<1>0. toClient \in Seq(P) /\ toServer \in Seq(S) /\ toClient \in Seq(Piece) /\ psk \in Psks
      BY DEF Wrong, TypeOK
<1>1. ASSUME NEW n \in ReadLengths(toClient) PROVE Rest(toClient, n) \in Seq(P)
  <2>1. n \in 1 .. Len(toClient)
        BY <1>0, <1>1, ReadLength
  <2> HIDE DEF P
  <2> QED BY <1>0, <2>1, Queue
<1>2. CASE ReadChallenge
  <2>1. toClient' \in Seq(P) /\ UNCHANGED serverVars
        BY <1>1, <1>2 DEF ReadChallenge
  <2>2. CASE ClientFails("badprompt") /\ UNCHANGED toServer
        BY <2>1, <2>2 DEF ClientFails, Wrong
  <2>3. CASE /\ \E ch \in ChallengePart : toServer' = Append(toServer, Response(ch, psk))
             /\ cpc' = "reply" /\ UNCHANGED <<cEnd, hpc, counters>>
    <3>1. PICK ch \in ChallengePart : toServer' = Append(toServer, Response(ch, psk))
          BY <2>3
    <3>2. Response(ch, psk) \in S
          BY <1>0, Messages
    <3>3. toServer' \in Seq(S)
      <4> HIDE DEF S
      <4> QED BY <1>0, <3>1, <3>2, AppendProperties
    <3> QED BY <2>1, <2>3, <3>3 DEF Wrong
  <2> QED BY <1>2, <2>2, <2>3 DEF ReadChallenge, ChallengePart
<1>3. CASE ReadReply
  <2>1. PICK n \in ReadLengths(toClient) :
          /\ toClient' = Rest(toClient, n)
          /\ IF n >= 2 /\ SubSeq(toClient, 1, 2) = <<"hap", "py">>
             THEN /\ cpc' = "configure" /\ hpc' = "accept"
                  /\ UNCHANGED <<conn, setup, fin, cEnd, pings, counters>>
             ELSE ClientFails("rejected")
        BY <1>3 DEF ReadReply
  <2>2. ASSUME n >= 2, SubSeq(toClient, 1, 2) = <<"hap", "py">> PROVE FALSE
    <3>1. n \in 1 .. Len(toClient) /\ Len(toClient) \in Nat
          BY <1>0, ReadLength, Queue
    <3>2. toClient[1] \in P /\ toClient[2] \in P
      <4> HIDE DEF P
      <4> QED BY <1>0, <2>2, <3>1, Queue
    <3>3. SubSeq(toClient, 1, 2)[1] = toClient[1]
          BY <1>0, <2>2, <3>1, <3>2, SubSeqProperties
    <3>4. SubSeq(toClient, 1, 2)[1] = <<"hap", "py">>[1]
          BY ONLY <2>2
    <3>5. <<"hap", "py">>[1] = "hap"
          OBVIOUS
    <3>6. "hap" \in P
          BY <3>2, <3>3, <3>4, <3>5, Zenon
    <3> QED BY ONLY <3>6
  <2>3. ClientFails("rejected") /\ toClient' \in Seq(P)
        BY <1>1, <2>1, <2>2
  <2> QED BY <1>3, <2>3 DEF ReadReply, ClientFails, Wrong
<1>4. CASE ClientAuthFails
      BY <1>4 DEF ClientAuthFails, ClientFails, Wrong
<1>5. CASE \/ Configure \/ SkipConfigure \/ SendJunk \/ SendBye \/ Tick \/ ReadPong \/ NoPong
           \/ AcceptLoopEnds
      BY <1>5 DEF Configure, SkipConfigure, SendJunk, SendBye, Tick, ReadPong, NoPong,
                  AcceptLoopEnds, Wrong
<1> QED BY <1>2, <1>3, <1>4, <1>5 DEF Client

LEMMA AuthNext == ASSUME TypeOK, AuthInv, Next PROVE AuthInv'
<1> SUFFICES ASSUME psk # ServerPsk PROVE AuthInv'
    BY SetupFixed DEF AuthInv, setup
<1>1. Wrong
      BY WrongKey
<1>2. Wrong'
  <2>1. CASE ConnLost
        BY <1>1, <2>1 DEF ConnLost, Wrong, serverVars, clientVars
  <2> QED BY <1>1, <2>1, WrongServer, WrongClient DEF Next
<1> QED BY <1>2, SetupFixed DEF AuthInv, Wrong, ServerAccepted, ClientAccepted, setup

--------------------------------------------------------------------------------
(* Messages that arrive whole. *)

LEMMA Lengthened ==
    ASSUME NEW S, NEW p \in Seq(S), NEW e \in S, NEW q \in Seq(S), Len(q) = Len(p) + 1,
           q[Len(p) + 1] = e, \A i \in 1 .. Len(p) : q[i] = p[i]
    PROVE  Append(p, e) = q
<1>1. Len(p) \in Nat
      BY LenProperties
<1>2. Append(p, e) \in Seq(S) /\ Len(Append(p, e)) = Len(q)
      BY AppendProperties
<1>3. \A i \in 1 .. Len(p) : Append(p, e)[i] = q[i]
      BY AppendProperties
<1>4. Append(p, e)[Len(p) + 1] = q[Len(p) + 1]
      BY AppendProperties
<1>5. \A i \in 1 .. Len(q) : Append(p, e)[i] = q[i]
      BY <1>1, <1>3, <1>4
<1> QED BY <1>2, <1>5, SeqEqual

LEMMA Third == ASSUME NEW a, NEW b, NEW c PROVE Append(<<a, b>>, c) = <<a, b, c>>
<1> DEFINE S == {a, b, c}
           p == <<a, b>>
           q == <<a, b, c>>
<1>1. p \in Seq(S) /\ Len(p) = 2 /\ p[1] = a /\ p[2] = b /\ c \in S
      OBVIOUS
<1>2. q \in Seq(S) /\ Len(q) = 3 /\ q[1] = a /\ q[2] = b /\ q[3] = c
      OBVIOUS
<1>3. Len(q) = Len(p) + 1 /\ q[Len(p) + 1] = c /\ \A i \in 1 .. Len(p) : q[i] = p[i]
      BY <1>1, <1>2
<1> HIDE DEF S, p, q
<1>4. Append(p, c) = q
      BY <1>1, <1>2, <1>3, Lengthened
<1> QED BY <1>4 DEF p, q

LEMMA Literals ==
    ASSUME NEW a, NEW b, NEW c
    PROVE  /\ <<a>> # <<>> /\ Head(<<a>>) = a /\ Tail(<<a>>) = <<>>
           /\ <<a, b>> # <<>> /\ Head(<<a, b>>) = a /\ Tail(<<a, b>>) = <<b>>
           /\ <<a, b, c>> # <<>> /\ Head(<<a, b, c>>) = a /\ Tail(<<a, b, c>>) = <<b, c>>
           /\ Append(<<>>, a) = <<a>> /\ Append(<<a>>, b) = <<a, b>>
<1>1. <<a>> # <<>> /\ <<a, b>> # <<>> /\ <<a, b, c>> # <<>>
  <2>1. Len(<<a>>) = 1 /\ Len(<<a, b>>) = 2 /\ Len(<<a, b, c>>) = 3 /\ Len(<<>>) = 0
        OBVIOUS
  <2> QED BY <2>1
<1>2. Head(<<a>>) = a /\ Head(<<a, b>>) = a /\ Head(<<a, b, c>>) = a
      OBVIOUS
<1>3. Tail(<<a>>) = <<>>
      OBVIOUS
<1>4. Tail(<<a, b>>) = <<b>>
      OBVIOUS
<1>5. Tail(<<a, b, c>>) = <<b, c>>
      OBVIOUS
<1>6. Append(<<>>, a) = <<a>>
      OBVIOUS
<1>7. Append(<<a>>, b) = <<a, b>>
  <2> DEFINE S == {a, b}
             p == <<a>>
             q == <<a, b>>
  <2>1. p \in Seq(S) /\ Len(p) = 1 /\ p[1] = a /\ b \in S
        OBVIOUS
  <2>2. q \in Seq(S) /\ Len(q) = 2 /\ q[1] = a /\ q[2] = b
        OBVIOUS
  <2>3. Len(q) = Len(p) + 1 /\ q[Len(p) + 1] = b /\ \A i \in 1 .. Len(p) : q[i] = p[i]
        BY <2>1, <2>2
  <2> HIDE DEF S, p, q
  <2>4. Append(p, b) = q
        BY <2>1, <2>2, <2>3, Lengthened
  <2> QED BY <2>4 DEF p, q
<1> QED BY <1>1, <1>2, <1>3, <1>4, <1>5, <1>6, <1>7

LEMMA Joined ==
    /\ <<>> \o Request = Request /\ <<>> \o Happy = Happy /\ <<>> \o Pong = Pong
    /\ <<>> \o << <<"header">>, <<"port">> >> = << <<"header">>, <<"port">> >>
  BY DEF Request, Happy, Pong

LEMMA Lengths ==
    /\ Len(Request) = 4 /\ Len(Happy) = 3 /\ Len(Pong) = 1
    /\ Request # <<>> /\ Happy # <<>> /\ Pong # <<>>
    /\ SubSeq(Happy, 1, 2) = <<"hap", "py">> /\ Head(Pong) = "pong"
<1>1. Len(Request) = 4 /\ Len(Happy) = 3 /\ Len(Pong) = 1 /\ Len(<<>>) = 0
      BY DEF Request, Happy, Pong
<1>2. Head(Pong) = "pong"
      BY DEF Pong
<1>3. SubSeq(Happy, 1, 2) = <<"hap", "py">>
  <2> DEFINE p == SubSeq(Happy, 1, 2)
             q == <<"hap", "py">>
  <2>1. Happy[1] = "hap" /\ Happy[2] = "py" /\ \A i \in 1 .. 2 : Happy[i] \in Piece
        BY DEF Happy, Piece
  <2>2. q \in Seq(Piece) /\ Len(q) = 2 /\ q[1] = "hap" /\ q[2] = "py"
        BY DEF Piece
  <2>3. /\ p \in Seq(Piece) /\ Len(p) = IF 1 <= 2 THEN 2 - 1 + 1 ELSE 0
        /\ \A i \in 1 .. 2 - 1 + 1 : p[i] = Happy[1 + i - 1]
        BY <2>1, SubSeqProperties
  <2>4. Len(p) = 2 /\ p[1] = "hap" /\ p[2] = "py"
        BY <2>1, <2>3
  <2> HIDE DEF p, q
  <2>5. p = q
        BY <2>2, <2>3, <2>4, SeqEqual
  <2> QED BY <2>5 DEF p, q
<1> QED BY <1>1, <1>2, <1>3

LEMMA WholeServer == ASSUME TypeOK, psk = ServerPsk, Succeeding, Server PROVE Succeeding'
<1> USE DEF clientVars, serverVars
<1>1. CASE SendChallenge
  <2>1. cpc = "prompt" /\ Asked /\ spc = "challenge"
        BY <1>1 DEF SendChallenge, Succeeding, Answered, Accepted, TypeOK
  <2>2. toClient = <<>>
        BY <2>1 DEF Asked
  <2>3. toClient' = Request
        BY <1>1, <2>2, Joined DEF SendChallenge
  <2> QED BY <1>1, <2>1, <2>3 DEF SendChallenge, Succeeding, Asked
<1>2. CASE ReadResponse
  <2>1. cpc = "reply" /\ Answered /\ spc = "response"
        BY <1>2 DEF ReadResponse, Succeeding, Asked, Accepted, TypeOK
  <2>2. toServer = << Response(Challenge, ServerPsk) >> /\ toClient = <<>>
        BY <2>1 DEF Answered
  <2>3. Head(toServer) = Response(Challenge, ServerPsk) /\ Tail(toServer) = <<>>
        BY <2>2, Literals
  <2>4. toServer' = <<>> /\ toClient' = Happy /\ spc' = "config" /\ UNCHANGED <<sEnd, cEnd, cpc>>
        BY <1>2, <2>2, <2>3, Joined DEF ReadResponse
  <2> QED BY <2>1, <2>4 DEF Succeeding, Answered
<1>3. CASE SetupTimeout \/ SetupFails \/ EndByStream \/ EndByTimeout
  <2>1. spc' = "done" /\ sEnd' # "mismatch" /\ UNCHANGED <<toClient, toServer, cpc, cEnd>>
        BY <1>3 DEF SetupTimeout, SetupFails, EndByStream, EndByTimeout, ServerEnds
  <2> QED BY <2>1 DEF Succeeding, Asked, Answered, Accepted
<1>4. CASE ReadHeader \/ ReadPort \/ AnswerPing \/ EndByMessage
  <2>1. /\ spc' \in {"port", "control", "done"} /\ sEnd' \in {sEnd, "badheader", "notbound", "bye", "unexpected"}
        /\ UNCHANGED <<cpc, cEnd>>
        /\ spc \in {"config", "port", "control"} /\ toServer # <<>>
        BY <1>4 DEF ReadHeader, HeaderArrived, ReadPort, AnswerPing, EndByMessage, ServerEnds
  <2>2. cpc \notin {"prompt", "reply", "configure"}
        BY <2>1 DEF Succeeding, Asked, Answered, Accepted
  <2> QED BY <2>1, <2>2 DEF Succeeding
<1> QED BY <1>1, <1>2, <1>3, <1>4 DEF Server

LEMMA WholeClient ==
    ASSUME TypeOK, reads = "whole", psk = ServerPsk, Succeeding, Client
    PROVE  Succeeding'
<1> USE DEF clientVars, serverVars
<1>1. toClient \in Seq(Piece)
      BY DEF TypeOK
<1>2. CASE ReadChallenge
  <2>1. PICK n \in ReadLengths(toClient) :
          /\ toClient' = Rest(toClient, n)
          /\ ~(n < 2) => /\ toServer' = Append(toServer,
                               Response(IF n = 2 THEN <<"chalA">> ELSE Challenge, psk))
                         /\ cpc' = "reply" /\ UNCHANGED cEnd
        BY <1>2 DEF ReadChallenge
  <2>2. toClient # <<>> /\ n = Len(toClient)
        BY <1>1, ReadLength
  <2>3. Asked
        BY <1>2 DEF ReadChallenge, Succeeding
  <2>4. toClient = Request /\ toServer = <<>> /\ spc \in {"response", "done"}
        BY <2>2, <2>3 DEF Asked
  <2>5. n = 4
        BY <2>2, <2>4, Lengths
  <2>6. toClient' = <<>> /\ toServer' = << Response(Challenge, ServerPsk) >>
    <3>1. Rest(toClient, n) = <<>>
          BY <1>1, <2>2, Queue
    <3>2. toServer' = Append(<<>>, Response(Challenge, ServerPsk))
          BY <2>1, <2>4, <2>5
    <3> QED BY <2>1, <3>1, <3>2, Literals
  <2>7. cpc' = "reply" /\ UNCHANGED <<cEnd, spc, sEnd>>
        BY <1>2, <2>1, <2>5 DEF ReadChallenge
  <2> QED BY <2>4, <2>6, <2>7 DEF Succeeding, Answered
<1>3. CASE ReadReply
  <2>1. PICK n \in ReadLengths(toClient) :
          /\ toClient' = Rest(toClient, n)
          /\ n >= 2 /\ SubSeq(toClient, 1, 2) = <<"hap", "py">> =>
                cpc' = "configure" /\ UNCHANGED cEnd
        BY <1>3 DEF ReadReply
  <2>2. toClient # <<>> /\ n = Len(toClient)
        BY <1>1, ReadLength
  <2>3. Answered
        BY <1>3 DEF ReadReply, Succeeding
  <2>4. toClient = Happy /\ toServer = <<>> /\ spc \in {"config", "done"}
        BY <2>2, <2>3 DEF Answered
  <2>5. n >= 2 /\ SubSeq(toClient, 1, 2) = <<"hap", "py">>
        BY <2>2, <2>4, Lengths
  <2>6. toClient' = <<>>
    <3>1. Rest(toClient, n) = <<>>
          BY <1>1, <2>2, Queue
    <3> QED BY <2>1, <3>1
  <2>7. cpc' = "configure" /\ UNCHANGED <<toServer, cEnd, spc, sEnd>>
        BY <1>3, <2>1, <2>5 DEF ReadReply
  <2> QED BY <2>4, <2>6, <2>7 DEF Succeeding, Accepted
<1>4. CASE ClientAuthFails
      BY <1>4 DEF ClientAuthFails, ClientFails, Succeeding
<1>5. CASE Configure \/ SkipConfigure
  <2>1. cpc = "configure" /\ cpc' = "tick" /\ UNCHANGED <<spc, sEnd, cEnd>>
        BY <1>5 DEF Configure, SkipConfigure
  <2> QED BY <2>1 DEF Succeeding, Accepted
<1>6. CASE SendJunk \/ SendBye \/ Tick \/ ReadPong \/ NoPong
  <2>1. cpc \in {"tick", "pong"} /\ cpc' \in {"tick", "pong", "ended"} /\ UNCHANGED <<spc, sEnd>>
        BY <1>6 DEF SendJunk, SendBye, Tick, ReadPong, NoPong, KeepaliveEnds
  <2>2. cEnd' \in {cEnd, "bye", "failed", "unexpected", "timeout"}
        BY <1>6 DEF SendJunk, SendBye, Tick, ReadPong, NoPong, KeepaliveEnds
  <2> QED BY <2>1, <2>2 DEF Succeeding
<1>7. CASE AcceptLoopEnds
      BY <1>7 DEF AcceptLoopEnds, Succeeding, Asked, Answered, Accepted
<1> QED BY <1>2, <1>3, <1>4, <1>5, <1>6, <1>7 DEF Client

LEMMA WholeNext == ASSUME TypeOK, WholeInv, Next PROVE WholeInv'
<1> SUFFICES ASSUME reads = "whole", psk = ServerPsk PROVE Succeeding'
    BY SetupFixed DEF WholeInv, setup
<1>1. Succeeding
      BY DEF WholeInv
<1>2. CASE ConnLost
      BY <1>1, <1>2 DEF ConnLost, Succeeding, Asked, Answered, Accepted, serverVars, clientVars
<1> QED BY <1>1, <1>2, WholeServer, WholeClient DEF Next

--------------------------------------------------------------------------------
(* PINGs and PONGs of a client that configures its session. *)

LEMMA Stages ==
    /\ Head(<< <<"header">>, <<"port">> >>) = <<"header">>
    /\ Tail(<< <<"header">>, <<"port">> >>) = << <<"port">> >>
    /\ Head(<< <<"header">>, <<"port">>, <<"ping">> >>) = <<"header">>
    /\ Tail(<< <<"header">>, <<"port">>, <<"ping">> >>) = << <<"port">>, <<"ping">> >>
    /\ Tail(<< <<"port">> >>) = <<>> /\ Tail(<< <<"port">>, <<"ping">> >>) = << <<"ping">> >>
    /\ Head(<< <<"ping">> >>) = <<"ping">> /\ Tail(<< <<"ping">> >>) = <<>>
    /\ Append(<< <<"header">>, <<"port">> >>, <<"ping">>)
          = << <<"header">>, <<"port">>, <<"ping">> >>
    /\ Append(<< <<"port">> >>, <<"ping">>) = << <<"port">>, <<"ping">> >>
    /\ Append(<<>>, <<"ping">>) = << <<"ping">> >>
<1>1. PICK h, p, g : h = <<"header">> /\ p = <<"port">> /\ g = <<"ping">>
      OBVIOUS
<1>2. Head(<<h, p>>) = h /\ Tail(<<h, p>>) = <<p>> /\ Tail(<<p, g>>) = <<g>>
      BY Literals
<1>3. Head(<<h, p, g>>) = h /\ Tail(<<h, p, g>>) = <<p, g>>
      BY Literals
<1>4. Tail(<<p>>) = <<>> /\ Head(<<g>>) = g /\ Tail(<<g>>) = <<>>
      BY Literals
<1>5. Append(<<h, p>>, g) = <<h, p, g>>
      BY Third, Zenon
<1>6. Append(<<p>>, g) = <<p, g>> /\ Append(<<>>, g) = <<g>>
      BY Literals
<1> QED BY <1>1, <1>2, <1>3, <1>4, <1>5, <1>6, Zenon

LEMMA StepServer == ASSUME TypeOK, Succeeding, Alternating, Server PROVE Alternating'
<1> USE DEF clientVars, serverVars
<1>0. UNCHANGED <<cpc, cEnd>>
      BY DEF Server, SendChallenge, ReadResponse, SetupTimeout, SetupFails, ReadHeader, ReadPort,
             AnswerPing, EndByMessage, EndByStream, EndByTimeout
<1> SUFFICES ASSUME cpc \in {"tick", "pong"}
             PROVE  (cpc = "tick" => Idle') /\ (cpc = "pong" => Pinging' \/ Ponged')
    BY <1>0 DEF Alternating
<1>1. (cpc = "tick" => Idle) /\ (cpc = "pong" => Pinging \/ Ponged)
      BY DEF Alternating
<1>2. CASE SendChallenge \/ ReadResponse
      BY <1>2 DEF SendChallenge, ReadResponse, Succeeding
<1>3. CASE SetupTimeout \/ SetupFails \/ EndByStream \/ EndByTimeout
  <2>1. spc' = "done" /\ UNCHANGED <<toClient, toServer>>
        BY <1>3 DEF SetupTimeout, SetupFails, EndByStream, EndByTimeout, ServerEnds
  <2> QED BY <1>1, <2>1 DEF Idle, Pinging, Ponged
<1>4. CASE ReadHeader
  <2>1. spc = "config" /\ UNCHANGED toClient
        BY <1>4 DEF ReadHeader
  <2>2. /\ cpc = "tick" => toServer = << <<"header">>, <<"port">> >> /\ toClient = <<>>
        /\ cpc = "pong" => toServer = << <<"header">>, <<"port">>, <<"ping">> >> /\ toClient = <<>>
        BY <1>1, <2>1 DEF Idle, Pinging, Ponged
  <2>3. /\ Head(toServer) = <<"header">>
        /\ cpc = "tick" => Tail(toServer) = << <<"port">> >>
        /\ cpc = "pong" => Tail(toServer) = << <<"port">>, <<"ping">> >>
        BY <2>2, Stages
  <2>4. toServer' = Tail(toServer) /\ spc' = "port"
        BY <1>4, <2>3 DEF ReadHeader
  <2> QED BY <2>1, <2>2, <2>3, <2>4 DEF Idle, Pinging
<1>5. CASE ReadPort
  <2>1. spc = "port" /\ UNCHANGED toClient /\ toServer' = Tail(toServer) /\ spc' \in {"control", "done"}
        BY <1>5 DEF ReadPort, ServerEnds
  <2>2. /\ cpc = "tick" => toServer = << <<"port">> >> /\ toClient = <<>>
        /\ cpc = "pong" => toServer = << <<"port">>, <<"ping">> >> /\ toClient = <<>>
        BY <1>1, <2>1 DEF Idle, Pinging, Ponged
  <2>3. /\ cpc = "tick" => Tail(toServer) = <<>>
        /\ cpc = "pong" => Tail(toServer) = << <<"ping">> >>
        BY <2>2, Stages
  <2> QED BY <2>1, <2>2, <2>3 DEF Idle, Pinging
<1>6. CASE AnswerPing \/ EndByMessage
  <2>1. spc = "control" /\ toServer # <<>>
        BY <1>6 DEF AnswerPing, EndByMessage
  <2>2. cpc = "pong" /\ toServer = << <<"ping">> >> /\ toClient = <<>>
        BY <1>1, <2>1 DEF Idle, Pinging, Ponged
  <2>3. Head(toServer) = <<"ping">> /\ Tail(toServer) = <<>>
        BY <2>2, Stages
  <2>4. toServer' = <<>> /\ toClient' = Pong /\ spc' = "control"
        BY <1>6, <2>1, <2>2, <2>3, Joined DEF AnswerPing, EndByMessage
  <2> QED BY <2>2, <2>4 DEF Ponged
<1> QED BY <1>2, <1>3, <1>4, <1>5, <1>6 DEF Server

LEMMA StepClient ==
    ASSUME TypeOK, reads = "whole", peer = "conforming", Succeeding, Alternating, Client
    PROVE  Alternating'
<1> USE DEF clientVars, serverVars
<1>1. CASE ReadChallenge \/ ReadReply \/ ClientAuthFails
  <2>1. cpc' \in {"reply", "configure", "ended"}
        BY <1>1 DEF ReadChallenge, ReadReply, ClientAuthFails, ClientFails
  <2>2. cEnd' \in {cEnd, "badprompt", "rejected", "failed"}
        BY <1>1 DEF ReadChallenge, ReadReply, ClientAuthFails, ClientFails
  <2> QED BY <2>1, <2>2 DEF Alternating
<1>2. CASE Configure
  <2>1. Accepted
        BY <1>2 DEF Configure, Succeeding
  <2>2. toServer' = << <<"header">>, <<"port">> >> /\ toClient' = <<>>
        BY <1>2, <2>1, Joined DEF Configure, Accepted
  <2>3. cpc' = "tick" /\ UNCHANGED <<spc, cEnd>> /\ spc \in {"config", "done"}
        BY <1>2, <2>1 DEF Configure, Accepted
  <2> QED BY <2>2, <2>3 DEF Alternating, Idle
<1>3. CASE SkipConfigure \/ SendJunk
      BY <1>3 DEF SkipConfigure, SendJunk
<1>4. CASE SendBye \/ NoPong
  <2>1. cpc' = "ended" /\ cEnd' # "unexpected"
        BY <1>4 DEF SendBye, NoPong, KeepaliveEnds
  <2> QED BY <2>1 DEF Alternating
<1>5. CASE Tick
  <2>1. CASE KeepaliveEnds("failed")
        BY <2>1 DEF KeepaliveEnds, Alternating
  <2>2. CASE Send("ping") /\ cpc' = "pong" /\ UNCHANGED <<serverVars, cEnd>>
    <3>1. Idle /\ UNCHANGED <<toClient, spc>> /\ toServer' = Append(toServer, <<"ping">>)
          BY <1>5, <2>2 DEF Tick, Send, Alternating
    <3>2. Pinging'
      <4>1. CASE toServer = << <<"header">>, <<"port">> >> /\ spc \in {"config", "done"}
        <5>1. toServer' = << <<"header">>, <<"port">>, <<"ping">> >>
              BY <3>1, <4>1, Stages
        <5> QED BY <3>1, <4>1, <5>1 DEF Idle, Pinging
      <4>2. CASE toServer = << <<"port">> >> /\ spc \in {"port", "done"}
        <5>1. toServer' = << <<"port">>, <<"ping">> >>
              BY <3>1, <4>2, Stages
        <5> QED BY <3>1, <4>2, <5>1 DEF Idle, Pinging
      <4>3. CASE toServer = <<>> /\ spc \in {"control", "done"}
        <5>1. toServer' = << <<"ping">> >>
              BY <3>1, <4>3, Stages
        <5> QED BY <3>1, <4>3, <5>1 DEF Idle, Pinging
      <4> QED BY <3>1, <4>1, <4>2, <4>3 DEF Idle
    <3> QED BY <2>2, <3>2 DEF Alternating
  <2> QED BY <1>5, <2>1, <2>2 DEF Tick
<1>6. CASE ReadPong
  <2>1. PICK n \in ReadLengths(toClient) : toClient' = Rest(toClient, n)
        BY <1>6 DEF ReadPong
  <2>2. toClient # <<>> /\ n = Len(toClient) /\ toClient \in Seq(Piece)
        BY ReadLength DEF TypeOK
  <2>3. Ponged
        BY <1>6, <2>2 DEF ReadPong, Alternating, Pinging
  <2>4. Head(toClient) = "pong" /\ toClient' = <<>>
    <3>1. Rest(toClient, n) = <<>>
          BY <2>2, Queue
    <3> QED BY <2>1, <2>3, <3>1, Lengths DEF Ponged
  <2>5. cpc' = "tick" /\ UNCHANGED <<toServer, spc, cEnd>>
        BY <1>6, <2>4 DEF ReadPong
  <2> QED BY <2>3, <2>4, <2>5 DEF Alternating, Idle, Ponged
<1>7. CASE AcceptLoopEnds
      BY <1>7 DEF AcceptLoopEnds, Alternating, Idle, Pinging, Ponged
<1> QED BY <1>1, <1>2, <1>3, <1>4, <1>5, <1>6, <1>7 DEF Client

LEMMA StepNext == ASSUME TypeOK, WholeInv, StepInv, Next PROVE StepInv'
<1> SUFFICES ASSUME reads = "whole", psk = ServerPsk, peer = "conforming" PROVE Alternating'
    BY SetupFixed DEF StepInv, setup
<1>1. Succeeding /\ Alternating
      BY DEF WholeInv, StepInv
<1>2. CASE ConnLost
      BY <1>1, <1>2 DEF ConnLost, Alternating, Idle, Pinging, Ponged, serverVars, clientVars
<1> QED BY <1>1, <1>2, StepServer, StepClient DEF Next

\* Where a message is in a queue.
Places(q, m) == {i \in DOMAIN q : q[i] = m}

LEMMA PingPlaces ==
    LET h == <<"header">>
        p == <<"port">>
        g == <<"ping">>
    IN  /\ Places(<<>>, g) = {} /\ Places(<<p>>, g) = {} /\ Places(<<h, p>>, g) = {}
        /\ Places(<<g>>, g) = {1} /\ Places(<<p, g>>, g) = {2} /\ Places(<<h, p, g>>, g) = {3}
<1>1. <<"header">> # <<"ping">> /\ <<"port">> # <<"ping">>
  <2>1. <<"header">>[1] = "header" /\ <<"port">>[1] = "port" /\ <<"ping">>[1] = "ping"
        OBVIOUS
  <2> QED BY <2>1
<1>2. ASSUME NEW h, NEW p, NEW g, h # g, p # g
      PROVE  /\ Places(<<>>, g) = {} /\ Places(<<p>>, g) = {} /\ Places(<<h, p>>, g) = {}
             /\ Places(<<g>>, g) = {1} /\ Places(<<p, g>>, g) = {2}
             /\ Places(<<h, p, g>>, g) = {3}
  <2>1. Places(<<>>, g) = {}
        BY DEF Places
  <2>2. Places(<<p>>, g) = {} /\ Places(<<g>>, g) = {1}
    <3>1. \A a : DOMAIN <<a>> = {1} /\ <<a>>[1] = a
          OBVIOUS
    <3> QED BY <1>2, <3>1 DEF Places
  <2>3. Places(<<h, p>>, g) = {} /\ Places(<<p, g>>, g) = {2}
    <3>1. DOMAIN <<h, p>> = {1, 2} /\ <<h, p>>[1] = h /\ <<h, p>>[2] = p
          OBVIOUS
    <3>2. DOMAIN <<p, g>> = {1, 2} /\ <<p, g>>[1] = p /\ <<p, g>>[2] = g
          OBVIOUS
    <3>3. Places(<<h, p>>, g) = {}
          BY <1>2, <3>1 DEF Places
    <3>4. Places(<<p, g>>, g) = {2}
          BY <1>2, <3>2 DEF Places
    <3> QED BY <3>3, <3>4
  <2>4. Places(<<h, p, g>>, g) = {3}
    <3>1. /\ DOMAIN <<h, p, g>> = {1, 2, 3}
          /\ <<h, p, g>>[1] = h /\ <<h, p, g>>[2] = p /\ <<h, p, g>>[3] = g
          OBVIOUS
    <3> QED BY <1>2, <3>1 DEF Places
  <2> QED BY <2>1, <2>2, <2>3, <2>4
<1> QED BY <1>1, <1>2, Zenon

--------------------------------------------------------------------------------
(* The theorems. *)

LEMMA InitInd == Init => IndInv
<1> SUFFICES ASSUME Init PROVE IndInv
    OBVIOUS
<1>1. \A S : <<>> \in Seq(S)
      BY EmptySeq
<1>2. TypeOK
  <2>1. counters \in SessionCounters
        BY DEF Init, SessionCounters
  <2>2. pings \in 0 .. MaxPings
        BY DEF Init
  <2> QED BY <1>1, <2>1, <2>2 DEF Init, TypeOK
<1>3. AuthInv
      BY <1>1 DEF Init, AuthInv, ServerAccepted, ClientAccepted
<1>4. WholeInv
      BY DEF Init, WholeInv, Succeeding, Asked
<1>5. StepInv
      BY DEF Init, StepInv, Alternating
<1> QED BY <1>2, <1>3, <1>4, <1>5 DEF IndInv

LEMMA Inductive == Spec => []IndInv
<1>1. IndInv /\ [Next]_vars => IndInv'
  <2> SUFFICES ASSUME IndInv, [Next]_vars PROVE IndInv'
      OBVIOUS
  <2>1. CASE Next
        BY <2>1, TypeNext, AuthNext, WholeNext, StepNext DEF IndInv
  <2>2. CASE UNCHANGED vars
    <3> USE <2>2 DEF vars, serverVars, clientVars, setup
    <3>1. TypeOK' /\ AuthInv'
          BY DEF IndInv, TypeOK, AuthInv, ServerAccepted, ClientAccepted
    <3>2. WholeInv'
          BY DEF IndInv, WholeInv, Succeeding, Asked, Answered, Accepted
    <3>3. StepInv'
          BY DEF IndInv, StepInv, Alternating, Idle, Pinging, Ponged
    <3> QED BY <3>1, <3>2, <3>3 DEF IndInv
  <2> QED BY <2>1, <2>2
<1> QED BY <1>1, InitInd, PTL DEF Spec, SafetySpec

\* Only messages of the protocol are ever in the control stream, and the handlers
\* of both ends end for one of the reasons of the code, for any set of keys.
THEOREM TypeCorrect == Spec => []TypeOK
<1>1. IndInv => TypeOK
      BY DEF IndInv
<1> QED BY <1>1, Inductive, PTL

\* For any set of keys and however reads are cut: neither server_authenticate nor
\* client_authenticate succeeds unless the client holds the server's key.
THEOREM AuthAgreed == Spec => []AuthAgreement
<1>1. IndInv => AuthAgreement
      BY DEF IndInv, AuthInv, AuthAgreement
<1> QED BY <1>1, Inductive, PTL

\* When no read of auth.rs is cut short, equal keys never lead to a mismatch, a
\* bad prompt or a rejection, whatever kind of client follows.
THEOREM WholeReadsAuthenticate == Spec => []WholeReadsSucceed
<1>1. IndInv => WholeReadsSucceed
      BY DEF IndInv, WholeInv, Succeeding, WholeReadsSucceed, SameKeySucceeds
<1> QED BY <1>1, Inductive, PTL

\* One PING or one PONG is under way while the client waits, and none otherwise:
\* run_keepalive_client_loop never reads a stale answer, over any number of PINGs.
THEOREM OneOutstanding == Spec => []KeepaliveInStep
<1>1. IndInv => KeepaliveInStep
  <2> SUFFICES ASSUME IndInv, peer = "conforming", reads = "whole"
               PROVE  /\ cEnd # "unexpected"
                      /\ cpc = "tick" => Outstanding = 0
                      /\ cpc = "pong" => Outstanding = 1
      BY DEF KeepaliveInStep
  <2>1. CASE psk # ServerPsk
        BY <2>1 DEF IndInv, AuthInv
  <2>2. CASE psk = ServerPsk
    <3>1. Alternating
          BY <2>2 DEF IndInv, StepInv
    <3>2. Outstanding = Cardinality(Places(toServer, <<"ping">>)) + Len(toClient)
          BY DEF Outstanding, Places
    <3>3. Cardinality({}) = 0 /\ \A k : Cardinality({k}) = 1
          BY FS_EmptySet, FS_Singleton
    <3>4. Len(<<>>) = 0 /\ Len(Pong) = 1
          BY Lengths
    <3>5. cpc = "tick" => Places(toServer, <<"ping">>) = {} /\ toClient = <<>>
          BY <3>1, PingPlaces DEF Alternating, Idle
    <3>6. Pinging => (\E k \in 1 .. 3 : Places(toServer, <<"ping">>) = {k}) /\ toClient = <<>>
          BY PingPlaces DEF Pinging
    <3>7. Ponged => Places(toServer, <<"ping">>) = {} /\ toClient = Pong
          BY PingPlaces DEF Ponged
    <3>8. cpc = "tick" => Outstanding = 0
          BY <3>2, <3>3, <3>4, <3>5
    <3>9. Pinging => Outstanding = 1
      <4>1. Pinging => Cardinality(Places(toServer, <<"ping">>)) = 1 /\ Len(toClient) = 0
            BY <3>3, <3>4, <3>6, Zenon
      <4> QED BY <3>2, <4>1
    <3>10. Ponged => Outstanding = 1
      <4>1. Ponged => Cardinality(Places(toServer, <<"ping">>)) = 0 /\ Len(toClient) = 1
            BY <3>3, <3>4, <3>7, Zenon
      <4>2. Ponged => Outstanding = 0 + 1
            BY <3>2, <4>1, Zenon
      <4> QED BY <4>2
    <3> QED BY <3>1, <3>8, <3>9, <3>10 DEF Alternating
  <2> QED BY <2>1, <2>2
<1> QED BY <1>1, Inductive, PTL

================================================================================
