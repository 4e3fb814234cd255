---------------------------- MODULE KeepaliveProofs ----------------------------
(***************************************************************************)
(* Proofs about KeepaliveTimers, for all intervals, timeouts, delays and   *)
(* lateness that satisfy FastEnoughAssumption.                             *)
(***************************************************************************)
EXTENDS KeepaliveTimers, SequenceTheorems, TLAPS

--------------------------------------------------------------------------------
(* The inductive invariant. *)

ValuesInv ==
    /\ cpc \in {"tick", "pong", "ended"} /\ spc \in {"read", "write", "ended"}
    /\ nextTick \in Int /\ cWait \in Nat /\ sWait \in Nat /\ quiet \in Nat
    /\ pings \in Seq(Nat) /\ pongs \in Seq(Nat)
    /\ conn \in {"open", "lost"}
    /\ fault \in {"none", "client", "server", "net"}

\* One message is under way at most, and none while the client waits for a tick.
OneInv ==
    /\ Len(pings) + Len(pongs) <= 1
    /\ spc = "write" => Len(pings) = 0 /\ Len(pongs) = 0
    /\ cpc = "tick" => spc # "write" /\ Len(pings) = 0 /\ Len(pongs) = 0

\* The connection is lost only if the network is cut: its keep-alive comes first.
QuietInv == fault # "net" => conn = "open" /\ quiet <= KeepAlive + 2 * MaxDelay

\* How long the server may have waited when the client's tick is served.
Waited(n) == n <= Interval + MaxLag \/ n <= MaxDelay

\* The three stages of an exchange, and the pause before the next.
Pausing == cpc = "tick" /\ cWait = 0 /\ sWait + nextTick <= Interval /\ Waited(sWait)

PingUnderWay ==
    /\ cpc = "pong" /\ spc = "read"
    /\ Len(pings) = 1 /\ cWait <= pings[1] /\ pings[1] <= MaxDelay
    /\ Waited(sWait - pings[1])
    /\ nextTick <= Interval

Answering == cpc = "pong" /\ spc = "write" /\ cWait <= MaxDelay /\ nextTick <= Interval

PongUnderWay ==
    /\ cpc = "pong" /\ spc = "read"
    /\ Len(pongs) = 1 /\ pongs[1] <= MaxDelay
    /\ cWait <= MaxDelay + pongs[1] /\ sWait <= pongs[1]
    /\ sWait + nextTick <= Interval

ExchangeInv ==
    fault = "none" =>
        spc # "ended" /\ (Pausing \/ PingUnderWay \/ Answering \/ PongUnderWay)

IndInv == ValuesInv /\ OneInv /\ QuietInv /\ ExchangeInv

\* A second one, built on the first: how long a fault has lasted, measured by the
\* timer that will notice it.
BoundsInv ==
    /\ faultFor \in Nat /\ (fault = "none" => faultFor = 0)
    /\ cWait <= ReadTimeout + MaxLag
    /\ sWait <= Patience + MaxLag

\* Nothing reaches the client, but for a PONG that was under way before.
ClientAlone ==
    /\ cpc = "tick" => /\ faultFor <= Interval + MaxLag + MaxDelay
                       /\ faultFor + nextTick <= Interval
    /\ cpc = "pong" => faultFor <= cWait + Interval + MaxLag + MaxDelay
    /\ cpc = "pong" /\ fault = "server" /\ Len(pongs) = 1 =>
          faultFor <= pongs[1] /\ pongs[1] <= MaxDelay /\ faultFor + nextTick <= Interval

\* Nothing reaches the server, but for a PING that was under way before.
ServerAlone ==
    /\ spc = "read" => faultFor <= sWait + MaxDelay
    /\ spc = "write" => faultFor <= MaxDelay
    /\ spc = "read" /\ fault = "client" /\ Len(pings) = 1 =>
          faultFor <= pings[1] /\ pings[1] <= MaxDelay

FaultInv ==
    /\ BoundsInv
    /\ fault \in {"server", "net"} => ClientAlone
    /\ fault \in {"client", "net"} => ServerAlone

--------------------------------------------------------------------------------
(* What the actions do to a queue of at most one message. *)

LEMMA Sent ==
    ASSUME NEW q \in Seq(Nat), Len(q) = 0
    PROVE  Append(q, 0) \in Seq(Nat) /\ Len(Append(q, 0)) = 1 /\ Append(q, 0)[1] = 0
  OBVIOUS

LEMMA Waiting ==
    ASSUME NEW q \in Seq(Nat)
    PROVE  /\ Len(q) \in Nat
           /\ q # <<>> <=> Len(q) > 0
           /\ Len(q) = 1 => q[1] \in Nat
<1>1. Len(q) \in Nat
      OBVIOUS
<1>2. q # <<>> => Len(q) > 0
      BY EmptySeq, <1>1
<1>3. q = <<>> => Len(q) = 0
      BY EmptySeq, Zenon
<1>4. \A i \in 1 .. Len(q) : q[i] \in Nat
      BY ElementOfSeq
<1>5. Len(q) = 1 => q[1] \in Nat
      BY <1>4
<1> QED BY <1>1, <1>2, <1>3, <1>5

LEMMA Taken ==
    ASSUME NEW q \in Seq(Nat), Len(q) = 1
    PROVE  Tail(q) \in Seq(Nat) /\ Len(Tail(q)) = 0
<1>1. q # <<>>
      BY Waiting
<1> QED BY <1>1, HeadTailProperties

\* Two facts of arithmetic, which the solver does not find among sequences.
LEMMA AtMostOne ==
    ASSUME NEW a \in Nat, NEW b \in Nat, a + b <= 1, a > 0
    PROVE  a = 1 /\ b = 0
  OBVIOUS

LEMMA OneOfOne ==
    ASSUME NEW a \in Nat, a <= 1, NEW n \in 1 .. a
    PROVE  a = 1 /\ n = 1
  OBVIOUS

LEMMA Dropped ==
    ASSUME NEW q \in Seq(Nat), Len(q) <= 1, NEW n \in 1 .. Len(q)
    PROVE  /\ Len(q) = 1
           /\ SubSeq(q, n + 1, Len(q)) \in Seq(Nat) /\ Len(SubSeq(q, n + 1, Len(q))) = 0
<1>0. Len(q) \in Nat
      BY Waiting
<1>1. Len(q) = 1 /\ n = 1
      BY <1>0, OneOfOne
<1>2. SubSeq(q, n + 1, Len(q)) = <<>>
      BY <1>1, SubSeqEmpty
<1> QED BY <1>1, <1>2, EmptySeq

\* Time passes for every message alike.
LEMMA Aged ==
    ASSUME NEW q \in Seq(Nat)
    PROVE  /\ Age(q) \in Seq(Nat) /\ Len(Age(q)) = Len(q)
           /\ Len(q) = 1 /\ q[1] < MaxDelay => Age(q)[1] = q[1] + 1
<1>1. DOMAIN q = 1 .. Len(q) /\ \A i \in 1 .. Len(q) : q[i] \in Nat
      OBVIOUS
<1>2. \A i \in 1 .. Len(q) : Upto(q[i], MaxDelay) \in Nat
      BY <1>1 DEF Upto
<1>3. Age(q) = [i \in 1 .. Len(q) |-> Upto(q[i], MaxDelay)]
      BY <1>1 DEF Age
<1>4. Len(q) = 1 /\ q[1] < MaxDelay => Age(q)[1] = q[1] + 1
      BY <1>3 DEF Upto
<1> QED BY <1>2, <1>3, <1>4

--------------------------------------------------------------------------------
(* The steps. *)

USE TimesAssumption, FastEnoughAssumption

LEMMA InitInd == Init => IndInv
  BY DEF Init, IndInv, ValuesInv, OneInv, QuietInv, ExchangeInv, Pausing, Waited

LEMMA ClientStep == ASSUME IndInv, Client PROVE IndInv'
<1> USE DEF IndInv, ValuesInv, OneInv, QuietInv, ExchangeInv, ClientRuns, ServerRuns, Up
<1>1. CASE SendPing
  <2>1. pings' \in Seq(Nat) /\ Len(pings') = 1 /\ pings'[1] = 0
        BY <1>1, Sent DEF SendPing
  <2>2. fault = "none" => PingUnderWay'
        BY <1>1, <2>1 DEF SendPing, NextDue, Pausing, PingUnderWay, Answering, PongUnderWay,
                          Waited
  <2> QED BY <1>1, <2>1, <2>2 DEF SendPing, NextDue
<1>2. CASE ReadPong
  <2>1. pongs' \in Seq(Nat) /\ Len(pongs) = 1 /\ Len(pongs') = 0
        BY <1>2, Dropped DEF ReadPong
  <2>2. fault = "none" => PongUnderWay
        BY <1>2, <2>1 DEF ReadPong, Pausing, PingUnderWay, Answering
  <2>3. fault = "none" => Pausing'
    <3> SUFFICES ASSUME fault = "none" PROVE Pausing'
        OBVIOUS
    <3>1. pongs[1] \in Nat
          BY <2>1, Waiting
    <3>2. sWait <= MaxDelay /\ sWait + nextTick <= Interval
          BY <2>2, <3>1 DEF PongUnderWay
    <3> QED BY <1>2, <3>2 DEF ReadPong, Pausing, Waited
  <2> QED BY <1>2, <2>1, <2>3 DEF ReadPong
<1>3. CASE SendFails \/ PongTimeout \/ PongFails
  <2>1. fault # "none"
    <3> SUFFICES ASSUME fault = "none" PROVE FALSE
        OBVIOUS
    <3>1. CASE SendFails \/ PongFails
          BY <1>3, <3>1 DEF SendFails, PongFails
    <3>2. CASE PongTimeout
          BY <3>2 DEF PongTimeout, Pausing, PingUnderWay, Answering, PongUnderWay
    <3> QED BY <1>3, <3>1, <3>2
  <2>2. ClientEnds
        BY <1>3 DEF SendFails, PongTimeout, PongFails
  <2> QED BY <2>1, <2>2 DEF ClientEnds
<1> QED BY <1>1, <1>2, <1>3 DEF Client

LEMMA ServerStep == ASSUME IndInv, Server PROVE IndInv'
<1> USE DEF IndInv, ValuesInv, OneInv, QuietInv, ExchangeInv, ClientRuns, ServerRuns, Up
<1>1. CASE ReadPing
  <2>0. Len(pings) \in Nat /\ Len(pongs) \in Nat /\ Len(pings) > 0
        BY <1>1, Waiting DEF ReadPing
  <2>1. Len(pings) = 1 /\ Len(pongs) = 0
        BY <2>0, AtMostOne
  <2>2. pings' \in Seq(Nat) /\ Len(pings') = 0
        BY <1>1, <2>1, Taken DEF ReadPing
  <2>3. fault = "none" => Answering'
        BY <1>1, <2>1 DEF ReadPing, Pausing, PingUnderWay, Answering, PongUnderWay
  <2> QED BY <1>1, <2>1, <2>2, <2>3 DEF ReadPing
<1>2. CASE WritePong
  <2>1. pongs' \in Seq(Nat) /\ Len(pongs') = 1 /\ pongs'[1] = 0
        BY <1>2, Sent DEF WritePong
  <2>2. fault = "none" => PongUnderWay'
        BY <1>2, <2>1 DEF WritePong, Pausing, PingUnderWay, Answering, PongUnderWay
  <2> QED BY <1>2, <2>1, <2>2 DEF WritePong
<1>3. CASE LineTimeout \/ LineFails
  <2>1. fault # "none"
    <3> SUFFICES ASSUME fault = "none" PROVE FALSE
        OBVIOUS
    <3>1. CASE LineFails
          BY <3>1 DEF LineFails, Pausing, PingUnderWay, Answering, PongUnderWay
    <3>2. CASE LineTimeout
          BY <3>2 DEF LineTimeout, Patience, Pausing, PingUnderWay, Answering, PongUnderWay,
                      Waited
    <3> QED BY <1>3, <3>1, <3>2
  <2>2. ServerEnds
        BY <1>3 DEF LineTimeout, LineFails
  <2> QED BY <2>1, <2>2 DEF ServerEnds
<1> QED BY <1>1, <1>2, <1>3 DEF Server

\* A probe comes before the idle timer; a fault ends what ExchangeInv promises.
LEMMA QuicStep == ASSUME IndInv, Quic \/ Fail PROVE IndInv'
<1> USE DEF IndInv, ValuesInv, OneInv, QuietInv, ExchangeInv, Up, loops
<1>1. CASE Probe
      BY <1>1 DEF Probe, Pausing, PingUnderWay, Answering, PongUnderWay, Waited
<1>2. CASE IdleExpires
  <2>1. fault = "net"
        BY <1>2 DEF IdleExpires
  <2> QED BY <1>2, <2>1 DEF IdleExpires
<1>3. CASE Fail
      BY <1>3 DEF Fail
<1> QED BY <1>1, <1>2, <1>3 DEF Quic

\* Time passes only while no message is late and no task is behind.
LEMMA PassStep == ASSUME IndInv, Pass PROVE IndInv'
<1> USE DEF IndInv, ValuesInv, OneInv, QuietInv, ExchangeInv, ClientRuns, ServerRuns, Up, loops
<1>1. /\ pings' \in Seq(Nat) /\ Len(pings') = Len(pings)
      /\ Len(pings) = 1 /\ pings[1] < MaxDelay => pings'[1] = pings[1] + 1
      BY Aged DEF Pass
<1>2. /\ pongs' \in Seq(Nat) /\ Len(pongs') = Len(pongs)
      /\ Len(pongs) = 1 /\ pongs[1] < MaxDelay => pongs'[1] = pongs[1] + 1
      BY Aged DEF Pass
<1>3. ValuesInv' /\ OneInv'
      BY <1>1, <1>2 DEF Pass
<1>4. QuietInv'
      BY DEF Pass, NothingDue, ProbePeriod
<1>5. ExchangeInv'
  <2> SUFFICES ASSUME fault = "none"
               PROVE  Pausing' \/ PingUnderWay' \/ Answering' \/ PongUnderWay'
      BY DEF Pass
  <2> USE DEF Pass, NothingDue
  <2>1. CASE Pausing
    <3>1. nextTick > -MaxLag /\ spc = "read"
          BY <2>1 DEF Pausing
    <3> QED BY <2>1, <3>1 DEF Pausing, Waited
  <2>2. CASE PingUnderWay
    <3>1. ~Late(pings) /\ pings[1] \in Nat
          BY <2>2, Waiting DEF PingUnderWay
    <3>2. pings[1] < MaxDelay
          BY <2>2, <3>1 DEF PingUnderWay, Late
    <3> HIDE DEF NothingDue
    <3> QED BY <1>1, <2>2, <3>1, <3>2 DEF PingUnderWay, Waited
  <2>3. CASE Answering
        BY <2>3 DEF Answering
  <2>4. CASE PongUnderWay
    <3>1. ~Late(pongs) /\ pongs[1] \in Nat
          BY <2>4, Waiting DEF PongUnderWay
    <3>2. pongs[1] < MaxDelay
          BY <2>4, <3>1 DEF PongUnderWay, Late
    <3> HIDE DEF NothingDue
    <3> QED BY <1>2, <2>4, <3>1, <3>2 DEF PongUnderWay
  <2> QED BY <2>1, <2>2, <2>3, <2>4
<1> QED BY <1>3, <1>4, <1>5

LEMMA Inductive == Spec => []IndInv
<1>1. IndInv /\ [Next]_vars => IndInv'
  <2>1. CASE UNCHANGED vars
        BY <2>1 DEF vars, IndInv, ValuesInv, OneInv, QuietInv, ExchangeInv, Pausing,
                    PingUnderWay, Answering, PongUnderWay, Waited
  <2> QED BY <2>1, ClientStep, ServerStep, QuicStep, PassStep DEF Next
<1> QED BY <1>1, InitInd, PTL DEF Spec

--------------------------------------------------------------------------------
(* How long a fault lasts. *)

LEMMA FaultInit == Init => FaultInv
  BY DEF Init, FaultInv, BoundsInv, Patience

LEMMA FaultClient == ASSUME IndInv, FaultInv, Client PROVE FaultInv'
<1> USE DEF IndInv, ValuesInv, OneInv, FaultInv, BoundsInv, ClientAlone, ServerAlone,
            ClientRuns, Up, Patience
<1>1. CASE SendPing
  <2>1. fault # "client" /\ pings' = Append(pings, 0) /\ Len(pongs) = 0
        BY <1>1 DEF SendPing
  <2> QED BY <1>1, <2>1 DEF SendPing, NextDue
<1>2. CASE ReadPong
  <2>1. Len(pongs) = 1 /\ pongs[1] \in Nat
        BY <1>2, Dropped, Waiting DEF ReadPong
  <2>2. fault # "client" /\ fault # "net"
        BY <1>2 DEF ReadPong
  <2> QED BY <1>2, <2>1, <2>2 DEF ReadPong
<1>3. CASE SendFails \/ PongTimeout \/ PongFails
  <2>1. ClientEnds
        BY <1>3 DEF SendFails, PongTimeout, PongFails
  <2> QED BY <2>1 DEF ClientEnds
<1> QED BY <1>1, <1>2, <1>3 DEF Client

LEMMA FaultServer == ASSUME IndInv, FaultInv, Server PROVE FaultInv'
<1> USE DEF IndInv, ValuesInv, OneInv, FaultInv, BoundsInv, ClientAlone, ServerAlone,
            ServerRuns, Up, Patience
<1>1. CASE ReadPing
  <2>1. Len(pings) = 1 /\ pings[1] \in Nat
    <3>1. Len(pings) \in Nat /\ Len(pongs) \in Nat /\ Len(pings) > 0
          BY <1>1, Waiting DEF ReadPing
    <3>2. Len(pings) = 1
          BY <3>1, AtMostOne
    <3> QED BY <3>2, Waiting
  <2>2. fault # "server" /\ fault # "net"
        BY <1>1 DEF ReadPing
  <2> QED BY <1>1, <2>1, <2>2 DEF ReadPing
<1>2. CASE WritePong
  <2>1. fault # "server" /\ Len(pings) = 0
        BY <1>2 DEF WritePong
  <2> QED BY <1>2, <2>1 DEF WritePong
<1>3. CASE LineTimeout \/ LineFails
  <2>1. ServerEnds
        BY <1>3 DEF LineTimeout, LineFails
  <2> QED BY <2>1 DEF ServerEnds
<1> QED BY <1>1, <1>2, <1>3 DEF Server

\* When a fault begins, the exchange is in one of its stages.
LEMMA FaultQuic == ASSUME IndInv, FaultInv, Quic \/ Fail PROVE FaultInv'
<1> USE DEF IndInv, ValuesInv, OneInv, FaultInv, BoundsInv, ClientAlone, ServerAlone, loops
<1>1. CASE Quic
      BY <1>1 DEF Quic, Probe, IdleExpires
<1>2. CASE Fail
  <2>1. faultFor = 0 /\ nextTick <= Interval
        BY <1>2 DEF Fail, ExchangeInv, Pausing, PingUnderWay, Answering, PongUnderWay
  <2>2. Len(pongs) = 1 => pongs[1] \in Nat /\ pongs[1] <= MaxDelay
        BY <1>2, Waiting DEF Fail, ExchangeInv, Pausing, PingUnderWay, Answering, PongUnderWay
  <2>3. Len(pings) = 1 => pings[1] \in Nat /\ pings[1] <= MaxDelay
        BY <1>2, Waiting DEF Fail, ExchangeInv, Pausing, PingUnderWay, Answering, PongUnderWay
  <2> QED BY <1>2, <2>1, <2>2, <2>3 DEF Fail
<1> QED BY <1>1, <1>2

LEMMA OneMore ==
    ASSUME NEW f \in Nat, NEW g \in Nat, NEW t \in Int, g <= f + 1, f + t <= Interval
    PROVE  g + (t - 1) <= Interval /\ (t > -MaxLag => g <= Interval + MaxLag + MaxDelay)
  OBVIOUS

\* The timers run as long as the fault does, and what is under way arrives.
LEMMA FaultPass == ASSUME IndInv, FaultInv, Pass PROVE FaultInv'
<1> USE DEF IndInv, ValuesInv, OneInv, FaultInv, ClientRuns, ServerRuns, Up, loops
<1>1. /\ Len(pings') = Len(pings) /\ Len(pongs') = Len(pongs)
      /\ Len(pings) = 1 /\ pings[1] < MaxDelay => pings'[1] = pings[1] + 1
      /\ Len(pongs) = 1 /\ pongs[1] < MaxDelay => pongs'[1] = pongs[1] + 1
      BY Aged DEF Pass
<1>2. faultFor' \in Nat /\ faultFor' <= faultFor + 1 /\ (fault = "none" => faultFor' = 0)
      BY DEF Pass, Upto, BoundsInv
<1>3. BoundsInv'
  <2>1. cWait' <= ReadTimeout + MaxLag
        BY DEF Pass, NothingDue, BoundsInv
  <2>2. sWait' <= Patience + MaxLag
        BY DEF Pass, NothingDue, BoundsInv, Patience
  <2> QED BY <1>2, <2>1, <2>2 DEF BoundsInv, Pass, Patience
<1>4. ASSUME fault \in {"server", "net"} PROVE ClientAlone'
  <2>1. CASE cpc = "tick"
    <3>1. nextTick > -MaxLag /\ nextTick' = nextTick - 1 /\ cpc' = "tick"
          BY <1>4, <2>1 DEF Pass, NothingDue
    <3>2. faultFor + nextTick <= Interval /\ faultFor \in Nat /\ nextTick \in Int
          BY <1>4, <2>1 DEF ClientAlone, BoundsInv
    <3>3. faultFor' + nextTick' <= Interval /\ faultFor' <= Interval + MaxLag + MaxDelay
          BY <1>2, <3>1, <3>2, OneMore
    <3> QED BY <3>1, <3>3 DEF ClientAlone
  <2>2. CASE cpc = "pong"
    <3>1. cWait' = cWait + 1 /\ nextTick' = nextTick - 1 /\ cpc' = "pong" /\ fault' = fault
          BY <1>4, <2>2 DEF Pass
    <3>2. fault = "server" /\ Len(pongs) = 1 => pongs[1] \in Nat /\ pongs[1] < MaxDelay
      <4> SUFFICES ASSUME fault = "server", Len(pongs) = 1
                   PROVE  pongs[1] \in Nat /\ pongs[1] < MaxDelay
          OBVIOUS
      <4>1. ~Late(pongs) /\ pongs[1] \in Nat
            BY <2>2, Waiting DEF Pass, NothingDue, QuietInv
      <4> QED BY <4>1 DEF Late
    <3>3. faultFor \in Nat /\ cWait \in Nat /\ nextTick \in Int
          BY DEF BoundsInv
    <3>4. faultFor' <= cWait' + Interval + MaxLag + MaxDelay
          BY <1>2, <1>4, <2>2, <3>1, <3>3 DEF ClientAlone
    <3>5. ASSUME fault = "server", Len(pongs) = 1
          PROVE  /\ faultFor' <= pongs'[1] /\ pongs'[1] <= MaxDelay
                 /\ faultFor' + nextTick' <= Interval
      <4>1. faultFor <= pongs[1] /\ faultFor + nextTick <= Interval
            BY <1>4, <2>2, <3>5 DEF ClientAlone
      <4>2. faultFor' <= pongs'[1] /\ pongs'[1] <= MaxDelay
            BY <1>1, <1>2, <3>2, <3>3, <3>5, <4>1
      <4>3. faultFor' + nextTick' <= Interval
            BY <1>2, <3>1, <3>3, <4>1, OneMore
      <4> QED BY <4>2, <4>3
    <3> QED BY <1>1, <3>1, <3>4, <3>5 DEF ClientAlone
  <2>3. CASE cpc = "ended"
        BY <2>3 DEF Pass, ClientAlone
  <2> QED BY <2>1, <2>2, <2>3
<1>5. ASSUME fault \in {"client", "net"} PROVE ServerAlone'
  <2>1. CASE spc = "read"
    <3>1. sWait' = sWait + 1 /\ spc' = "read" /\ fault' = fault
          BY <1>5, <2>1 DEF Pass
    <3>2. fault = "client" /\ Len(pings) = 1 => pings[1] \in Nat /\ pings[1] < MaxDelay
      <4> SUFFICES ASSUME fault = "client", Len(pings) = 1
                   PROVE  pings[1] \in Nat /\ pings[1] < MaxDelay
          OBVIOUS
      <4>1. ~Late(pings) /\ pings[1] \in Nat
            BY <2>1, Waiting DEF Pass, NothingDue, QuietInv
      <4> QED BY <4>1 DEF Late
    <3> QED BY <1>1, <1>2, <1>5, <2>1, <3>1, <3>2 DEF ServerAlone, BoundsInv
  <2>2. CASE spc = "write"
        BY <1>5, <2>2 DEF Pass, NothingDue
  <2>3. CASE spc = "ended"
        BY <2>3 DEF Pass, ServerAlone
  <2> QED BY <2>1, <2>2, <2>3
<1> QED BY <1>3, <1>4, <1>5 DEF Pass

LEMMA FaultInductive == Spec => []FaultInv
<1>1. IndInv /\ FaultInv /\ [Next]_vars => FaultInv'
  <2>1. CASE UNCHANGED vars
        BY <2>1 DEF vars, FaultInv, BoundsInv, ClientAlone, ServerAlone, Patience
  <2> QED BY <2>1, FaultClient, FaultServer, FaultQuic, FaultPass DEF Next
<1> QED BY <1>1, Inductive, FaultInit, PTL DEF Spec

--------------------------------------------------------------------------------
(* The theorems. *)

\* Whatever the interval, the two timeouts, the delays and the lateness, as long
\* as a round trip fits in READ_TIMEOUT: neither loop of protocol/keepalive.rs
\* gives up a peer that runs, over any number of rounds.
THEOREM LivePeers == Spec => []LivePeersStay
<1>1. IndInv => LivePeersStay
      BY DEF IndInv, ExchangeInv, LivePeersStay, Pausing, PingUnderWay, Answering, PongUnderWay
<1> QED BY <1>1, Inductive, PTL

\* For all values too: the end that works, or both if the network is cut, ends its
\* loop within KEEP_ALIVE_INTERVAL + READ_TIMEOUT, one delay and two latenesses.
THEOREM FaultsNoticed == Spec => []FaultDetected
<1>1. IndInv /\ FaultInv => FaultDetected
      BY DEF IndInv, ValuesInv, FaultInv, BoundsInv, ClientAlone, ServerAlone, FaultDetected,
             Detection, Patience
<1> QED BY <1>1, Inductive, FaultInductive, PTL

\* For all periods that configure_transport_config may set, quinn's idle timer
\* ends a connection only when the network is cut, never for a stuck loop.
THEOREM OnlyCutsLose == Spec => []LostMeansCut
<1>1. IndInv => LostMeansCut
      BY DEF IndInv, QuietInv, LostMeansCut
<1> QED BY <1>1, Inductive, PTL

\* The write of PONG, which run_control_channel_loop leaves without a timeout,
\* never waits for flow control, in a window of any size and under any fault.
THEOREM PongsFlow == Spec => []PongNeverWaits
<1>1. IndInv => PongNeverWaits
      BY DEF IndInv, OneInv, PongNeverWaits
<1> QED BY <1>1, Inductive, PTL

--------------------------------------------------------------------------------
(* Types: no clock grows. *)

LEMMA Delays ==
    ASSUME NEW q \in Seq(0 .. MaxDelay)
    PROVE  /\ Append(q, 0) \in Seq(0 .. MaxDelay)
           /\ Age(q) \in Seq(0 .. MaxDelay)
           /\ q # <<>> => Tail(q) \in Seq(0 .. MaxDelay)
           /\ \A n \in 1 .. Len(q) : SubSeq(q, n + 1, Len(q)) \in Seq(0 .. MaxDelay)
<1> DEFINE S == 0 .. MaxDelay
<1>1. 0 \in S /\ Len(q) \in Nat /\ DOMAIN q = 1 .. Len(q) /\ \A i \in 1 .. Len(q) : q[i] \in S
      OBVIOUS
<1>2. \A i \in 1 .. Len(q) : Upto(q[i], MaxDelay) \in S
      BY <1>1 DEF Upto
<1>3. Age(q) = [i \in 1 .. Len(q) |-> Upto(q[i], MaxDelay)]
      BY <1>1 DEF Age
<1>4. Age(q) \in Seq(S)
      BY <1>1, <1>2, <1>3
<1> HIDE DEF S
<1>5. Append(q, 0) \in Seq(S)
      BY <1>1, AppendProperties DEF S
<1>6. q # <<>> => Tail(q) \in Seq(S)
      BY HeadTailProperties DEF S
<1>7. ASSUME NEW n \in 1 .. Len(q) PROVE SubSeq(q, n + 1, Len(q)) \in Seq(S)
  <2>1. n + 1 \in Int /\ Len(q) \in Int /\ \A i \in n + 1 .. Len(q) : q[i] \in S
        BY <1>1
  <2> QED BY <2>1, SubSeqProperties
<1> QED BY <1>4, <1>5, <1>6, <1>7 DEF S

LEMMA TypeStep == ASSUME TypeOK, BoundsInv', Next PROVE TypeOK'
<1>1. /\ pings \in Seq(0 .. MaxDelay) /\ pongs \in Seq(0 .. MaxDelay)
      /\ Patience \in Nat /\ Detection \in Nat
      BY DEF TypeOK, Patience, Detection
<1>2. pings' \in Seq(0 .. MaxDelay) /\ pongs' \in Seq(0 .. MaxDelay)
  <2>1. CASE SendPing \/ WritePong \/ ReadPing \/ ReadPong
        BY <1>1, <2>1, Delays DEF SendPing, WritePong, ReadPing, ReadPong
  <2>2. CASE Pass
        BY <1>1, <2>2, Delays DEF Pass
  <2>3. CASE \/ SendFails \/ PongTimeout \/ PongFails \/ LineTimeout \/ LineFails \/ Quic \/ Fail
        BY <1>1, <2>3 DEF SendFails, PongTimeout, PongFails, LineTimeout, LineFails, Quic, Fail,
                          ClientEnds, ServerEnds, Probe, IdleExpires
  <2> QED BY <2>1, <2>2, <2>3 DEF Next, Client, Server
<1>3. /\ cpc' \in {"tick", "pong", "ended"} /\ spc' \in {"read", "write", "ended"}
      /\ conn' \in {"open", "lost"} /\ fault' \in {"none", "client", "server", "net"}
      BY DEF TypeOK, Next, Client, Server, Quic, SendPing, SendFails, ReadPong, PongTimeout,
             PongFails, ReadPing, WritePong, LineTimeout, LineFails, Probe, IdleExpires, Fail, Pass,
             ClientEnds, ServerEnds, loops
<1>4. nextTick' \in Int /\ nextTick' <= Interval
  <2>1. CASE SendPing
        BY <2>1 DEF TypeOK, SendPing, NextDue
  <2>2. CASE Pass
        BY <2>2 DEF TypeOK, Pass
  <2>3. CASE ~SendPing /\ ~Pass
        BY <2>3 DEF TypeOK, Next, Client, Server, Quic, SendFails, ReadPong, PongTimeout, PongFails,
                    ReadPing, WritePong, LineTimeout, LineFails, Probe, IdleExpires, Fail,
                    ClientEnds, ServerEnds
  <2> QED BY <2>1, <2>2, <2>3
<1>5. cWait' \in Nat /\ sWait' \in Nat
  <2>1. cWait \in Nat /\ sWait \in Nat
        BY <1>1 DEF TypeOK
  <2>2. CASE Pass
        BY <2>1, <2>2 DEF Pass
  <2>3. CASE ~Pass
        BY <2>1, <2>3 DEF Next, Client, Server, Quic, SendPing, SendFails, ReadPong, PongTimeout,
                          PongFails, ReadPing, WritePong, LineTimeout, LineFails, Probe,
                          IdleExpires, Fail, ClientEnds, ServerEnds
  <2> QED BY <2>2, <2>3
<1>6. cWait' \in 0 .. ReadTimeout + MaxLag /\ sWait' \in 0 .. Patience + MaxLag
      BY <1>1, <1>5 DEF BoundsInv, Patience
<1>7. gone' \in 0 .. MaxDelay /\ quiet' \in 0 .. IdleTimeout /\ faultFor' \in 0 .. Detection + 1
  <2>1. CASE Pass
    <3>1. gone' \in 0 .. MaxDelay
          BY <2>1 DEF TypeOK, Pass, Upto
    <3>2. quiet' \in 0 .. IdleTimeout
          BY <2>1 DEF TypeOK, Pass, NothingDue
    <3>3. faultFor' \in 0 .. Detection + 1
          BY <1>1, <2>1 DEF TypeOK, Pass, Upto
    <3> QED BY <3>1, <3>2, <3>3
  <2>2. CASE ~Pass
    <3>1. UNCHANGED <<gone, faultFor>> /\ quiet' \in {0, quiet}
          BY <2>2 DEF Next, Client, Server, Quic, SendPing, SendFails, ReadPong, PongTimeout,
                      PongFails, ReadPing, WritePong, LineTimeout, LineFails, Probe, IdleExpires,
                      Fail, ClientEnds, ServerEnds
    <3> QED BY <3>1 DEF TypeOK
  <2> QED BY <2>1, <2>2
<1> QED BY <1>2, <1>3, <1>4, <1>6, <1>7 DEF TypeOK, Patience

\* No clock of the two loops or of QUIC grows without bound, whatever happens and
\* for all values: every wait of protocol/keepalive.rs ends a MaxLag after its timer.
THEOREM TypeCorrect == Spec => []TypeOK
<1>1. Init => TypeOK
  <2>1. <<>> \in Seq(0 .. MaxDelay)
        BY EmptySeq
  <2> QED BY <2>1 DEF Init, TypeOK, Patience, Detection
<1>2. TypeOK /\ FaultInv' /\ [Next]_vars => TypeOK'
  <2>1. CASE UNCHANGED vars
        BY <2>1 DEF vars, TypeOK, Patience, Detection
  <2> QED BY <2>1, TypeStep DEF FaultInv
<1> QED BY <1>1, <1>2, FaultInductive, PTL DEF Spec

================================================================================
