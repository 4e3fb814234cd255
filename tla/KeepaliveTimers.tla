---------------------------- MODULE KeepaliveTimers ----------------------------
(***************************************************************************)
(* The timers that keep a session alive or end it: run_keepalive_client_    *)
(* loop and run_control_channel_loop (protocol/keepalive.rs) with their     *)
(* 30-second tick and their two timeouts, over a QUIC connection with an    *)
(* idle timer and a keep-alive of its own (quic/mod.rs).  What the messages *)
(* are is the subject of ControlProtocol; here is when.                     *)
(*                                                                         *)
(* Time is discrete.  It cannot pass while something is due: a message is  *)
(* delivered within MaxDelay, a task runs at most MaxLag late.  Durations  *)
(* are counted from the event that starts them, so no clock grows.         *)
(***************************************************************************)
EXTENDS Integers, Sequences

CONSTANTS
    Interval,      \* KEEP_ALIVE_INTERVAL
    ReadTimeout,   \* READ_TIMEOUT
    KeepAlive,     \* keep_alive_interval of configure_transport_config
    IdleTimeout,   \* quinn's max_idle_timeout
    MaxDelay,      \* bound: one way through the network, and being read
    MaxLag,        \* bound: how late a timer is served
    Window         \* PONGs that flow control lets the server write unread

ASSUME TimesAssumption ==
    /\ Interval \in Nat \ {0} /\ ReadTimeout \in Nat \ {0}
    /\ KeepAlive \in Nat \ {0} /\ IdleTimeout \in Nat \ {0}
    /\ MaxDelay \in Nat /\ MaxLag \in Nat /\ Window \in Nat \ {0}

\* The network is fast enough for the timers: a round trip, and all tasks late,
\* fits in the read timeout; a probe and its answer in what the idle timer leaves.
ASSUME FastEnoughAssumption ==
    /\ 2 * MaxDelay + MaxLag < ReadTimeout
    /\ KeepAlive + 2 * MaxDelay < IdleTimeout

VARIABLES
    cpc,        \* where run_keepalive_client_loop is
    spc,        \* where run_control_channel_loop is
    nextTick,   \* time until tick_interval is due
    cWait,      \* how long the client has waited for its PONG
    sWait,      \* how long the server has waited for a line
    pings,      \* PINGs on their way, oldest first: how long each has been
    pongs,      \* PONGs on their way
    gone,       \* how long ago the first of the loops ended
    conn,       \* the QUIC connection
    quiet,      \* how long neither end of it has heard from the other
    fault,      \* what has gone wrong: one task stuck, or the network cut
    faultFor    \* for how long

loops == <<cpc, spc>>
vars == <<cpc, spc, nextTick, cWait, sWait, pings, pongs, gone, conn, quiet, fault,
          faultFor>>

ShortPatience == Interval
DoubledPatience == 2 * (Interval + ReadTimeout)

\* timeout(KEEP_ALIVE_INTERVAL + READ_TIMEOUT, ..) of run_control_channel_loop.
Patience == Interval + ReadTimeout

\* The longest a fault may go unnoticed.
Detection == Interval + ReadTimeout + MaxDelay + 2 * MaxLag

TypeOK ==
    /\ cpc \in {"tick", "pong", "ended"}
    /\ spc \in {"read", "write", "ended"}
    /\ nextTick \in Int /\ nextTick <= Interval
    /\ cWait \in 0 .. ReadTimeout + MaxLag
    /\ sWait \in 0 .. Patience + MaxLag
    /\ pings \in Seq(0 .. MaxDelay) /\ pongs \in Seq(0 .. MaxDelay)
    /\ gone \in 0 .. MaxDelay
    /\ conn \in {"open", "lost"}
    /\ quiet \in 0 .. IdleTimeout
    /\ fault \in {"none", "client", "server", "net"}
    /\ faultFor \in 0 .. Detection + 1

\* Both loops start; the first tick of interval() is due at once.
Init ==
    /\ cpc = "tick" /\ spc = "read"
    /\ nextTick = 0 /\ cWait = 0 /\ sWait = 0
    /\ pings = <<>> /\ pongs = <<>>
    /\ gone = 0
    /\ conn = "open" /\ quiet = 0
    /\ fault = "none" /\ faultFor = 0

ClientRuns == cpc # "ended" /\ fault # "client"
ServerRuns == spc # "ended" /\ fault # "server"
Up == conn = "open" /\ fault # "net"

--------------------------------------------------------------------------------
(* run_keepalive_client_loop. *)

SkippingNextDue == nextTick + 2 * Interval

\* tick_interval.tick() with the default MissedTickBehavior::Burst: the next tick
\* is due one period after this one was, however late this one is served.
NextDue == nextTick + Interval

ClientEnds ==
    /\ cpc' = "ended"
    /\ UNCHANGED <<spc, nextTick, sWait, pings, pongs, gone, conn, quiet, fault, faultFor>>
    /\ cWait' = 0

\* A tick: PING is written and the wait for PONG starts.
SendPing ==
    /\ ClientRuns /\ cpc = "tick" /\ nextTick <= 0
    /\ conn = "open" /\ (spc = "ended" => gone < MaxDelay \/ ~Up)
    /\ pings' = Append(pings, 0)
    /\ cpc' = "pong"
    /\ nextTick' = NextDue
    /\ UNCHANGED <<spc, cWait, sWait, pongs, gone, conn, quiet, fault, faultFor>>

\* "Failed to send PING": the connection is lost, or the server has closed it.
SendFails ==
    /\ ClientRuns /\ cpc = "tick" /\ nextTick <= 0
    /\ conn = "lost" \/ (spc = "ended" /\ Up)
    /\ ClientEnds

\* PONG: back to the tick.  The BufReader is dropped with whatever else it read.
ReadPong ==
    /\ ClientRuns /\ cpc = "pong" /\ Up
    /\ \E n \in 1 .. Len(pongs) : pongs' = SubSeq(pongs, n + 1, Len(pongs))
    /\ cpc' = "tick" /\ cWait' = 0
    /\ quiet' = 0
    /\ UNCHANGED <<spc, nextTick, sWait, pings, gone, conn, fault, faultFor>>

\* "Timed out waiting for PONG response".
PongTimeout ==
    /\ ClientRuns /\ cpc = "pong" /\ cWait >= ReadTimeout
    /\ ClientEnds

\* "Connection closed by remote", or a read error.
PongFails ==
    /\ ClientRuns /\ cpc = "pong"
    /\ conn = "lost" \/ (spc = "ended" /\ Up /\ pongs = <<>>)
    /\ ClientEnds

--------------------------------------------------------------------------------
(* run_control_channel_loop. *)

ServerEnds ==
    /\ spc' = "ended"
    /\ UNCHANGED <<cpc, nextTick, cWait, pings, pongs, gone, conn, quiet, fault, faultFor>>
    /\ sWait' = 0

ReadPing ==
    /\ ServerRuns /\ spc = "read" /\ Up /\ pings # <<>>
    /\ pings' = Tail(pings)
    /\ spc' = "write"
    /\ quiet' = 0
    /\ UNCHANGED <<cpc, nextTick, cWait, sWait, pongs, gone, conn, fault, faultFor>>

TwiceWritePong ==
    /\ ServerRuns /\ spc = "write" /\ conn = "open" /\ Len(pongs) < Window
    /\ pongs' = pongs \o <<0, 0>>
    /\ spc' = "read" /\ sWait' = 0
    /\ UNCHANGED <<cpc, nextTick, cWait, pings, gone, conn, quiet, fault, faultFor>>

\* The PONG is written, which no timer limits; then a new wait starts.
WritePong ==
    /\ ServerRuns /\ spc = "write" /\ conn = "open" /\ Len(pongs) < Window
    /\ pongs' = Append(pongs, 0)
    /\ spc' = "read" /\ sWait' = 0
    /\ UNCHANGED <<cpc, nextTick, cWait, pings, gone, conn, quiet, fault, faultFor>>

LineTimeout == ServerRuns /\ spc = "read" /\ sWait >= Patience /\ ServerEnds

\* The client has dropped the stream, or a read or the write fails.
LineFails ==
    /\ ServerRuns
    /\ conn = "lost" \/ (spc = "read" /\ cpc = "ended" /\ Up /\ pings = <<>>)
    /\ ServerEnds

--------------------------------------------------------------------------------
(* QUIC, time and faults (external). *)

LateProbePeriod == IdleTimeout

\* configure_transport_config sets keep_alive_interval; the idle timeout is quinn's
\* default.
ProbePeriod == KeepAlive

\* quinn's keep-alive packet is answered by the other end's quinn.
Probe ==
    /\ Up /\ quiet >= ProbePeriod
    /\ quiet' = 0
    /\ UNCHANGED <<loops, nextTick, cWait, sWait, pings, pongs, gone, conn, fault, faultFor>>

IdleExpires ==
    /\ conn = "open" /\ quiet >= IdleTimeout
    /\ conn' = "lost"
    /\ UNCHANGED <<loops, nextTick, cWait, sWait, pings, pongs, gone, quiet, fault, faultFor>>

Fail ==
    /\ fault = "none"
    /\ fault' \in {"client", "server", "net"}
    /\ UNCHANGED <<loops, nextTick, cWait, sWait, pings, pongs, gone, conn, quiet, faultFor>>

Upto(n, bound) == IF n < bound THEN n + 1 ELSE n
Age(queue) == [i \in DOMAIN queue |-> Upto(queue[i], MaxDelay)]
Late(queue) == \E i \in DOMAIN queue : queue[i] >= MaxDelay

\* Nothing that must happen first is due.
NothingDue ==
    /\ ClientRuns /\ cpc = "tick" => nextTick > -MaxLag
    /\ ClientRuns /\ cpc = "pong" =>
          /\ cWait < ReadTimeout + MaxLag
          /\ conn = "open"
          /\ Up => ~Late(pongs) /\ (spc = "ended" => gone < MaxDelay)
    /\ ServerRuns /\ spc = "read" =>
          /\ sWait < Patience + MaxLag
          /\ conn = "open"
          /\ Up => ~Late(pings) /\ (cpc = "ended" => gone < MaxDelay)
    /\ ServerRuns /\ spc = "write" => conn = "open" /\ Len(pongs) >= Window
    /\ conn = "open" => quiet < IdleTimeout /\ (Up => quiet < ProbePeriod + 2 * MaxDelay)

Pass ==
    /\ NothingDue
    /\ nextTick' = IF ClientRuns THEN nextTick - 1 ELSE nextTick
    /\ cWait' = IF ClientRuns /\ cpc = "pong" THEN cWait + 1 ELSE cWait
    /\ sWait' = IF ServerRuns /\ spc = "read" THEN sWait + 1 ELSE sWait
    /\ pings' = Age(pings) /\ pongs' = Age(pongs)
    /\ gone' = IF cpc = "ended" \/ spc = "ended" THEN Upto(gone, MaxDelay) ELSE gone
    /\ quiet' = IF conn = "open" THEN quiet + 1 ELSE quiet
    /\ faultFor' = IF fault # "none" THEN Upto(faultFor, Detection + 1) ELSE 0
    /\ UNCHANGED <<loops, conn, fault>>

Client == SendPing \/ SendFails \/ ReadPong \/ PongTimeout \/ PongFails
Server == ReadPing \/ WritePong \/ LineTimeout \/ LineFails
Quic == Probe \/ IdleExpires

Next == Client \/ Server \/ Quic \/ Fail \/ Pass

Spec == Init /\ [][Next]_vars

--------------------------------------------------------------------------------

\* While both tasks run and the network delivers, nobody gives up: neither of the
\* two read timeouts fires, whatever the delays add up to over many rounds and
\* however late ticks are served, nor does quinn's idle timer, although it is as
\* long as the interval between PINGs.
LivePeersStay == fault = "none" => cpc # "ended" /\ spc # "ended"

\* The end that still works notices a stuck peer or a cut network in time:
\* within an interval, a read timeout, one delay of the network and twice the
\* lateness of a task.
FaultDetected ==
    faultFor > Detection =>
        /\ fault # "client" => cpc = "ended"
        /\ fault # "server" => spc = "ended"

\* The idle timer ends a session only when the network is cut: a stuck task is
\* for the keepalive loops to notice.
LostMeansCut == conn = "lost" => fault = "net"

\* With this client the unlimited write of a PONG never waits for flow control:
\* it reads every PONG before the next PING, so one is on its way at most.
PongNeverWaits == spc = "write" => Len(pongs) < Window

================================================================================
