----------------------------- MODULE DataPathProofs -----------------------------
(***************************************************************************)
(* Proofs about DataPath, for any number of bytes and any sizes of the     *)
(* buffers and of the window.                                              *)
(***************************************************************************)
EXTENDS DataPath, SequenceTheorems, TLAPS

--------------------------------------------------------------------------------
(* The inductive invariant. *)

\* The bytes a + 1, a + 2, ..., in order.
Run(q, a) == \A i \in 1 .. Len(q) : q[i] = a + i

\* The forwarder of s has ended by dropping what it had read.
Dropped(s) == fwd[s] \in {"zero", "err"}

\* Len, by a name of its own: the provers then take it for any number.
Size(q) == Len(q)

\* How far the bytes of origin o have come.
Delivered(o) == Size(outbox[o])
Taken(o) == Size(outbox[o]) + Size(wbuf[o])
Written(o) == Size(outbox[o]) + Size(wbuf[o]) + Size(quic[o])

\* Nothing between the two sockets has been thrown away.
Whole(o) == conn = "open" /\ ~Dropped(o) /\ ~Dropped(Other(o))

\* What waits at each place is a run of bytes that starts where the next place
\* ends, as long as somebody may still pass it on.
InboxInv(o) == Size(inbox[o]) <= sent[o] /\ Run(inbox[o], sent[o] - Size(inbox[o]))
WbufInv(o) == Taken(o) <= sent[o] /\ Run(wbuf[o], Delivered(o))
StreamInv(o) == ~Dropped(Other(o)) => Written(o) <= sent[o] /\ Run(quic[o], Taken(o))
RbufInv(o) ==
    Whole(o) => /\ Run(rbuf[o], Written(o))
                /\ Written(o) + Size(rbuf[o]) + Size(inbox[o]) = sent[o]

OrderInv(o) == InboxInv(o) /\ WbufInv(o) /\ StreamInv(o) /\ RbufInv(o)

\* The direction from o is finished when all is written, or given up.
FinishInv(o) ==
    /\ "toQuic" \in half[o] => inEnd[o] # "open" /\ inbox[o] = <<>> /\ rbuf[o] = <<>>
    /\ quicEnd[o] = "fin" => "toQuic" \in half[o] \/ Dropped(o)
    /\ quicEnd[o] = "fin" /\ ~Dropped(o) /\ ~Dropped(Other(o)) => Written(o) = sent[o]

\* The receiving peer was shown an end when the direction to it is done, not
\* before; and then all has arrived, or the sender gave up.
ShutInv(o) ==
    LET s == Other(o) IN
    /\ "toTcp" \in half[s] =>
          /\ outEnd[o] = "fin" /\ quic[o] = <<>> /\ wbuf[o] = <<>>
          /\ Dropped(o) \/ ("toQuic" \in half[o] /\ Delivered(o) = sent[o])
    /\ "toTcp" \notin half[s] /\ ~Dropped(s) => outEnd[o] = "open"

\* A forwarder returns Ok when both directions are done, and then it counts; it
\* meets "error 0" only after the other one has failed.
ResultInv(s) ==
    /\ fwd[s] = "ok" => half[s] = {"toQuic", "toTcp"}
    /\ fwd[s] \in {"none", "connecting"} => half[s] = {}
    /\ stopped[s] => Dropped(Other(s))
    /\ fwd[s] = "zero" => fwd[Other(s)] = "err"
    /\ IF fwd[s] = "ok"
       THEN counters.a[s] = sent[s] /\ counters.b[s] = Delivered(Other(s))
       ELSE counters.a[s] = 0 /\ counters.b[s] = 0

IndInv ==
    /\ TypeOK
    /\ \A o \in Side : OrderInv(o) /\ FinishInv(o) /\ ShutInv(o) /\ ResultInv(o)

--------------------------------------------------------------------------------
(* The two sides, and sequences of bytes. *)

LEMMA Sides ==
    \A s \in Side : /\ Other(s) \in Side /\ Other(s) # s /\ Other(Other(s)) = s
                    /\ \A r \in Side : r = s \/ r = Other(s)
<1>1. "server" # "client"
      OBVIOUS
<1>2. Other("server") = "client"
      BY <1>1 DEF Other, Side
<1>3. Other("client") = "server"
      BY <1>1 DEF Other, Side
<1> QED BY <1>1, <1>2, <1>3 DEF Side

LEMMA Empty ==
    <<>> \in Seq(Byte) /\ Len(<<>>) = 0 /\ Size(<<>>) = 0 /\ \A a \in Int : Run(<<>>, a)
  BY EmptySeq DEF Run, Size

\* One side's buffer takes a new value that fits.
LEMMA Replaced ==
    ASSUME NEW f \in [Side -> Seq(Byte)], \A o \in Side : Len(f[o]) <= BufSize,
           NEW s \in Side, NEW q \in Seq(Byte), Len(q) <= BufSize
    PROVE  /\ [f EXCEPT ![s] = q] \in [Side -> Seq(Byte)]
           /\ \A o \in Side : Len([f EXCEPT ![s] = q][o]) <= BufSize
<1>1. \A o \in Side : [f EXCEPT ![s] = q][o] = IF o = s THEN q ELSE f[o]
      OBVIOUS
<1> QED BY <1>1

LEMMA Appended ==
    ASSUME NEW q \in Seq(Byte), NEW b \in Byte
    PROVE  /\ Append(q, b) \in Seq(Byte) /\ Len(Append(q, b)) = Len(q) + 1
           /\ Size(Append(q, b)) = Size(q) + 1
  BY DEF Size

LEMMA Shortened ==
    ASSUME NEW q \in Seq(Byte), q # <<>>
    PROVE  /\ Len(q) \in Nat /\ Len(q) > 0
           /\ Head(q) \in Byte /\ Tail(q) \in Seq(Byte) /\ Len(Tail(q)) = Len(q) - 1
           /\ Size(q) > 0 /\ Size(Tail(q)) = Size(q) - 1
<1>1. Len(q) \in Nat /\ Len(q) > 0
      BY EmptySeq
<1> QED BY <1>1, HeadTailProperties DEF Size

LEMMA RunAppended ==
    ASSUME NEW q \in Seq(Byte), NEW a \in Int, Run(q, a), NEW b \in Byte, b = a + Size(q) + 1
    PROVE  Run(Append(q, b), a)
  BY DEF Run, Size

LEMMA RunShortened ==
    ASSUME NEW q \in Seq(Byte), NEW a \in Int, Run(q, a), q # <<>>
    PROVE  Head(q) = a + 1 /\ Run(Tail(q), a + 1)
<1>1. Len(q) \in Nat /\ Len(q) > 0 /\ Len(Tail(q)) = Len(q) - 1
      BY Shortened
<1>2. \A i \in 1 .. Len(Tail(q)) : Tail(q)[i] = q[i + 1]
      BY HeadTailProperties
<1>3. Head(q) = q[1]
      OBVIOUS
<1> QED BY <1>1, <1>2, <1>3 DEF Run

LEMMA Prefix ==
    ASSUME NEW q \in Seq(Byte), NEW n \in Nat, n <= Len(q)
    PROVE  /\ SubSeq(q, 1, n) \in Seq(Byte) /\ Len(SubSeq(q, 1, n)) = n
           /\ \A a \in Int : Run(q, a) => Run(SubSeq(q, 1, n), a)
<1>1. Len(q) \in Nat /\ \A i \in 1 .. Len(q) : q[i] \in Byte
      BY LenProperties, ElementOfSeq
<1>2. \A i \in 1 .. n : q[i] \in Byte
      BY <1>1
<1>3. /\ SubSeq(q, 1, n) \in Seq(Byte) /\ Len(SubSeq(q, 1, n)) = n
      /\ \A i \in 1 .. n : SubSeq(q, 1, n)[i] = q[i]
  <2>1. /\ SubSeq(q, 1, n) \in Seq(Byte)
        /\ Len(SubSeq(q, 1, n)) = IF 1 <= n THEN n - 1 + 1 ELSE 0
        /\ \A i \in 1 .. n - 1 + 1 : SubSeq(q, 1, n)[i] = q[1 + i - 1]
        BY <1>2, SubSeqProperties
  <2> QED BY <2>1
<1> QED BY <1>1, <1>3 DEF Run

--------------------------------------------------------------------------------
(* Types. *)

USE SizesAssumption

LEMMA Typed ==
    ASSUME TypeOK, NEW o \in Side
    PROVE  /\ sent[o] \in Nat /\ sent[o] <= MaxBytes
           /\ inbox[o] \in Seq(Byte) /\ Len(inbox[o]) \in Nat
           /\ rbuf[o] \in Seq(Byte) /\ Len(rbuf[o]) \in Nat
           /\ quic[o] \in Seq(Byte) /\ Len(quic[o]) \in Nat
           /\ wbuf[o] \in Seq(Byte) /\ Len(wbuf[o]) \in Nat
           /\ outbox[o] \in Seq(Byte) /\ Len(outbox[o]) \in Nat
<1>1. /\ sent[o] \in Nat /\ sent[o] <= MaxBytes
      /\ inbox[o] \in Seq(Byte) /\ rbuf[o] \in Seq(Byte) /\ quic[o] \in Seq(Byte)
      /\ wbuf[o] \in Seq(Byte) /\ outbox[o] \in Seq(Byte)
      BY DEF TypeOK
<1> QED BY <1>1, LenProperties

Sizes(o) ==
    /\ sent[o] \in Nat
    /\ Size(inbox[o]) \in Nat /\ Size(rbuf[o]) \in Nat /\ Size(quic[o]) \in Nat
    /\ Size(wbuf[o]) \in Nat /\ Size(outbox[o]) \in Nat

LEMMA TypeInit == Init => TypeOK
  BY Empty DEF Init, TypeOK, Side, StreamCounters, Ended

\* The counters, one by one.
LEMMA Counted ==
    ASSUME counters \in StreamCounters, NEW s \in Side, NEW m \in Nat, NEW n \in Nat,
           counters' = [counters EXCEPT !.a[s] = @ + m, !.b[s] = @ + n]
    PROVE  /\ counters' \in StreamCounters
           /\ counters'.a[s] = counters.a[s] + m /\ counters'.b[s] = counters.b[s] + n
           /\ \A r \in Side : r # s => /\ counters'.a[r] = counters.a[r]
                                      /\ counters'.b[r] = counters.b[r]
<1>1. /\ counters = [a |-> counters.a, b |-> counters.b, accepted |-> counters.accepted,
                     errors |-> counters.errors]
      /\ counters.a \in [Side -> Nat] /\ counters.b \in [Side -> Nat]
      /\ counters.accepted \in Nat /\ counters.errors \in Nat
      BY DEF StreamCounters
<1>2. counters' = [a |-> [counters.a EXCEPT ![s] = @ + m], b |-> [counters.b EXCEPT ![s] = @ + n],
                   accepted |-> counters.accepted, errors |-> counters.errors]
      BY <1>1
<1>3. [counters.a EXCEPT ![s] = @ + m] \in [Side -> Nat]
      BY <1>1
<1>4. [counters.b EXCEPT ![s] = @ + n] \in [Side -> Nat]
      BY <1>1
<1>5. counters' \in StreamCounters
      BY <1>1, <1>2, <1>3, <1>4 DEF StreamCounters
<1>6. /\ counters'.a = [counters.a EXCEPT ![s] = @ + m]
      /\ counters'.b = [counters.b EXCEPT ![s] = @ + n]
      BY <1>2
<1> QED BY <1>1, <1>5, <1>6

LEMMA ErrorCounted ==
    ASSUME counters \in StreamCounters, NEW s \in Side,
           CountError(s) \/ counters' = [counters EXCEPT !.accepted = @ + 1]
    PROVE  /\ counters' \in StreamCounters
           /\ counters'.a = counters.a /\ counters'.b = counters.b
<1>1. \/ counters' = counters
      \/ counters' = [counters EXCEPT !.errors = @ + 1]
      \/ counters' = [counters EXCEPT !.accepted = @ + 1]
      BY DEF CountError
<1> QED BY <1>1 DEF StreamCounters

\* The bytes move.
LEMMA TypeMove ==
    ASSUME TypeOK, NEW s \in Side,
           PeerSends(s) \/ PeerEnds(s) \/ ReadTcp(s) \/ WriteQuic(s) \/ ReadQuic(s) \/ WriteTcp(s)
    PROVE  TypeOK'
<1> USE Sides, Typed DEF streamVars, originVars
<1>1. CASE PeerSends(s)
  <2>1. sent[s] + 1 \in Byte
        BY <1>1 DEF PeerSends, Byte
  <2>2. Append(inbox[s], sent[s] + 1) \in Seq(Byte)
        BY <2>1, Appended
  <2>3. inbox' \in [Side -> Seq(Byte)]
        BY <1>1, <2>2 DEF PeerSends, TypeOK
  <2>4. sent' \in [Side -> 0 .. MaxBytes]
        BY <1>1, <2>1 DEF PeerSends, TypeOK, Byte
  <2>5. UNCHANGED <<inEnd, outbox, rbuf, wbuf, quic, quicEnd, stopped, outEnd, half, fwd, conn,
                    counters>>
        BY <1>1 DEF PeerSends
  <2> QED BY <2>3, <2>4, <2>5 DEF TypeOK
<1>2. CASE PeerEnds(s)
  <2>1. inEnd' = [inEnd EXCEPT ![s] = "eof"] \/ inEnd' = [inEnd EXCEPT ![s] = "reset"]
        BY <1>2 DEF PeerEnds
  <2>2. inEnd' \in [Side -> {"open", "eof", "reset"}]
        BY <2>1 DEF TypeOK
  <2> QED BY <1>2, <2>2 DEF PeerEnds, TypeOK
<1>3. CASE ReadTcp(s)
  <2>1. inbox[s] # <<>> /\ Len(rbuf[s]) < BufSize
        BY <1>3 DEF ReadTcp
  <2>2. Head(inbox[s]) \in Byte /\ Tail(inbox[s]) \in Seq(Byte)
        BY <2>1, Shortened
  <2>3. /\ Append(rbuf[s], Head(inbox[s])) \in Seq(Byte)
        /\ Len(Append(rbuf[s], Head(inbox[s]))) <= BufSize
        BY <2>1, <2>2, Appended
  <2> QED BY <1>3, <2>2, <2>3 DEF ReadTcp, TypeOK
<1>4. CASE WriteQuic(s)
  <2>1. rbuf[s] # <<>> /\ Len(quic[s]) < Window
        BY <1>4 DEF WriteQuic
  <2>2. /\ Head(rbuf[s]) \in Byte /\ Tail(rbuf[s]) \in Seq(Byte)
        /\ Len(Tail(rbuf[s])) <= BufSize
        BY <2>1, Shortened DEF TypeOK
  <2>3. /\ Append(quic[s], Head(rbuf[s])) \in Seq(Byte)
        /\ Len(Append(quic[s], Head(rbuf[s]))) <= Window
        BY <2>1, <2>2, Appended
  <2> QED BY <1>4, <2>2, <2>3 DEF WriteQuic, TypeOK
<1>5. CASE ReadQuic(s)
  <2> DEFINE o == Other(s)
  <2>1. quic[o] # <<>> /\ Len(wbuf[o]) < BufSize
        BY <1>5 DEF ReadQuic
  <2>2. /\ Head(quic[o]) \in Byte /\ Tail(quic[o]) \in Seq(Byte)
        /\ Len(Tail(quic[o])) <= Window
        BY <2>1, Shortened DEF TypeOK
  <2>3. /\ Append(wbuf[o], Head(quic[o])) \in Seq(Byte)
        /\ Len(Append(wbuf[o], Head(quic[o]))) <= BufSize
        BY <2>1, <2>2, Appended
  <2> QED BY <1>5, <2>2, <2>3 DEF ReadQuic, TypeOK
<1>6. CASE WriteTcp(s)
  <2> DEFINE o == Other(s)
  <2>1. wbuf[o] # <<>>
        BY <1>6 DEF WriteTcp
  <2>2. /\ Head(wbuf[o]) \in Byte /\ Tail(wbuf[o]) \in Seq(Byte)
        /\ Len(Tail(wbuf[o])) <= BufSize
        BY <2>1, Shortened DEF TypeOK
  <2>3. Append(outbox[o], Head(wbuf[o])) \in Seq(Byte)
        BY <2>2, Appended
  <2>4. outbox' \in [Side -> Seq(Byte)]
        BY <1>6, <2>3 DEF WriteTcp, TypeOK
  <2>5. wbuf' \in [Side -> Seq(Byte)] /\ \A r \in Side : Len(wbuf'[r]) <= BufSize
    <3>1. /\ wbuf' = [wbuf EXCEPT ![o] = Tail(wbuf[o])] /\ o \in Side
          /\ wbuf \in [Side -> Seq(Byte)] /\ \A r \in Side : Len(wbuf[r]) <= BufSize
          BY <1>6 DEF WriteTcp, TypeOK
    <3> QED BY ONLY <2>2, <3>1, Replaced
  <2>6. UNCHANGED <<sent, inEnd, inbox, rbuf, quic, quicEnd, stopped, outEnd, half, fwd, conn,
                    counters>>
        BY <1>6 DEF WriteTcp
  <2> QED BY <2>4, <2>5, <2>6 DEF TypeOK
<1> QED BY <1>1, <1>2, <1>3, <1>4, <1>5, <1>6

\* A direction is done: what is counted is a number.
LEMMA TypeHalf ==
    ASSUME TypeOK, NEW s \in Side, FinishInv(s), FinishQuic(s) \/ ShutTcp(s)
    PROVE  TypeOK'
<1> USE Sides, Typed, Empty DEF streamVars, originVars
<1>1. PICK dir \in {"toQuic", "toTcp"} :
         HalfDone(s, dir) /\ (dir = "toQuic" => inbox[s] = <<>> /\ rbuf[s] = <<>>)
      BY DEF FinishQuic, ShutTcp
<1>2. half' \in [Side -> SUBSET {"toQuic", "toTcp"}]
      BY <1>1 DEF HalfDone, TypeOK
<1>3. fwd' \in [Side -> {"none", "connecting", "copy"} \cup Ended]
  <2>1. fwd' = fwd \/ fwd' = [fwd EXCEPT ![s] = "ok"]
        BY <1>1 DEF HalfDone
  <2>2. fwd \in [Side -> {"none", "connecting", "copy"} \cup Ended]
        BY DEF TypeOK
  <2> QED BY ONLY <2>1, <2>2, s \in Side DEF Ended
<1>4. counters' \in StreamCounters
  <2>1. CASE half[s] \cup {dir} = {"toQuic", "toTcp"}
    <3>1. inbox[s] = <<>> /\ rbuf[s] = <<>>
          BY <1>1, <2>1 DEF FinishInv
    <3>2. ToQuic(s) \in Nat /\ ToTcp(s) \in Nat
          BY <3>1 DEF ToQuic, ToTcp
    <3>3. counters' = [counters EXCEPT !.a[s] = @ + ToQuic(s), !.b[s] = @ + ToTcp(s)]
          BY <1>1, <2>1 DEF HalfDone
    <3> QED BY <3>2, <3>3, Counted DEF TypeOK
  <2>2. CASE half[s] \cup {dir} # {"toQuic", "toTcp"}
        BY <1>1, <2>2 DEF HalfDone, TypeOK
  <2> QED BY <2>1, <2>2
<1>5. UNCHANGED <<sent, inEnd, inbox, rbuf, quic, stopped, wbuf, outbox, conn>>
      BY DEF FinishQuic, ShutTcp
<1>6. quicEnd' \in [Side -> {"open", "fin"}] /\ outEnd' \in [Side -> {"open", "fin", "reset"}]
  <2>1. CASE FinishQuic(s)
        BY <2>1 DEF FinishQuic, TypeOK
  <2>2. CASE ShutTcp(s)
        BY <2>2 DEF ShutTcp, TypeOK
  <2> QED BY <2>1, <2>2
<1> QED BY <1>2, <1>3, <1>4, <1>5, <1>6 DEF TypeOK

\* A forwarder gives up.
LEMMA TypeDrop ==
    ASSUME TypeOK, NEW s \in Side, FwdErrorZero(s) \/ FwdError(s)
    PROVE  TypeOK'
<1> USE Sides, Typed, Empty DEF streamVars, originVars
<1>0. /\ DropBoth(s) /\ (CountError(s) \/ counters' = counters)
      /\ fwd' = [fwd EXCEPT ![s] = "zero"] \/ fwd' = [fwd EXCEPT ![s] = "err"]
      BY DEF FwdErrorZero, FwdError
<1>1. fwd' \in [Side -> {"none", "connecting", "copy"} \cup Ended]
      BY <1>0 DEF TypeOK, Ended
<1>2. counters' \in StreamCounters
      BY <1>0, ErrorCounted DEF TypeOK
<1>3. /\ rbuf' = [rbuf EXCEPT ![s] = <<>>] /\ wbuf' = [wbuf EXCEPT ![Other(s)] = <<>>]
      /\ outEnd' \in [Side -> {"open", "fin", "reset"}]
      BY <1>0 DEF DropBoth, TypeOK
<1>4. /\ UNCHANGED <<sent, inEnd, inbox, quic, outbox, half, conn>>
      /\ quicEnd' \in [Side -> {"open", "fin"}] /\ stopped' \in [Side -> BOOLEAN]
      BY <1>0 DEF DropBoth, DropQuic, TypeOK
<1>5. rbuf' \in [Side -> Seq(Byte)] /\ \A o \in Side : Len(rbuf'[o]) <= BufSize
  <2>1. rbuf \in [Side -> Seq(Byte)] /\ \A o \in Side : Len(rbuf[o]) <= BufSize
        BY DEF TypeOK
  <2>2. <<>> \in Seq(Byte) /\ Len(<<>>) <= BufSize
        BY SizesAssumption
  <2> QED BY ONLY <1>3, <2>1, <2>2, Replaced
<1>6. wbuf' \in [Side -> Seq(Byte)] /\ \A o \in Side : Len(wbuf'[o]) <= BufSize
  <2>1. wbuf \in [Side -> Seq(Byte)] /\ \A o \in Side : Len(wbuf[o]) <= BufSize
        BY DEF TypeOK
  <2>2. <<>> \in Seq(Byte) /\ Len(<<>>) <= BufSize /\ Other(s) \in Side
        BY SizesAssumption
  <2> QED BY ONLY <1>3, <2>1, <2>2, Replaced
<1> QED BY <1>1, <1>2, <1>3, <1>4, <1>5, <1>6 DEF TypeOK

LEMMA TypeClient == ASSUME TypeOK, Client PROVE TypeOK'
<1> USE DEF streamVars, originVars
<1>1. "client" \in Side
      BY DEF Side
<1>2. CASE AcceptBi \/ ConnectOk
  <2>1. counters' \in StreamCounters
        BY <1>1, <1>2, ErrorCounted DEF AcceptBi, ConnectOk, TypeOK
  <2>2. fwd' \in [Side -> {"none", "connecting", "copy"} \cup Ended]
    <3>1. \/ fwd' = [fwd EXCEPT !["client"] = "connecting"]
          \/ fwd' = [fwd EXCEPT !["client"] = "copy"]
          BY <1>2 DEF AcceptBi, ConnectOk
    <3> QED BY <1>1, <3>1 DEF TypeOK
  <2>3. UNCHANGED <<sent, inEnd, inbox, rbuf, quic, quicEnd, stopped, wbuf, outbox, outEnd,
                    half, conn>>
        BY <1>2 DEF AcceptBi, ConnectOk
  <2> QED BY <2>1, <2>2, <2>3 DEF TypeOK
<1>3. CASE ConnectFails
  <2>1. counters' \in StreamCounters
        BY <1>1, <1>3, ErrorCounted DEF ConnectFails, TypeOK
  <2>2. quicEnd' \in [Side -> {"open", "fin"}] /\ stopped' \in [Side -> BOOLEAN]
        BY <1>3 DEF ConnectFails, DropQuic, TypeOK
  <2> QED BY <1>1, <1>3, <2>1, <2>2 DEF ConnectFails, DropQuic, TypeOK, Ended
<1> QED BY <1>2, <1>3 DEF Client

\* What a loss leaves in the streams.
LEMMA Lost ==
    ASSUME TypeOK, ConnLost, NEW o \in Side
    PROVE  /\ quic'[o] \in Seq(Byte) /\ Len(quic'[o]) <= Len(quic[o])
           /\ \A a \in Int : Run(quic[o], a) => Run(quic'[o], a)
           /\ quicEnd'[o] \in {"open", "fin"}
           /\ quicEnd'[o] = "fin" => quicEnd[o] = "fin" /\ Len(quic'[o]) = Len(quic[o])
<1>1. PICK n \in [Side -> 0 .. Window], whole \in SUBSET Side :
         /\ \A p \in Side : n[p] <= Len(quic[p])
         /\ \A p \in whole : n[p] = Len(quic[p])
         /\ quic' = [p \in Side |-> SubSeq(quic[p], 1, n[p])]
         /\ quicEnd' = [p \in Side |-> IF p \in whole THEN quicEnd[p] ELSE "open"]
      BY DEF ConnLost
<1>2. n[o] \in Nat /\ n[o] <= Len(quic[o]) /\ quic'[o] = SubSeq(quic[o], 1, n[o])
      BY <1>1
<1>3. /\ quic'[o] \in Seq(Byte) /\ Len(quic'[o]) = n[o]
      /\ \A a \in Int : Run(quic[o], a) => Run(quic'[o], a)
      BY <1>2, Typed, Prefix
<1>4. /\ quicEnd'[o] \in {"open", "fin"}
      /\ quicEnd'[o] = "fin" => quicEnd[o] = "fin" /\ n[o] = Len(quic[o])
      BY <1>1 DEF TypeOK
<1> QED BY <1>2, <1>3, <1>4

LEMMA TypeLost == ASSUME TypeOK, ConnLost PROVE TypeOK'
<1>1. quicEnd' \in [Side -> {"open", "fin"}]
  <2>1. \E whole \in SUBSET Side :
           quicEnd' = [o \in Side |-> IF o \in whole THEN quicEnd[o] ELSE "open"]
        BY DEF ConnLost
  <2> QED BY <2>1 DEF TypeOK
<1>2. \A o \in Side : quic'[o] \in Seq(Byte) /\ Len(quic'[o]) <= Window
  <2> TAKE o \in Side
  <2>1. quic'[o] \in Seq(Byte) /\ Len(quic'[o]) <= Len(quic[o]) /\ Len(quic[o]) <= Window
        BY Lost DEF TypeOK
  <2>2. Len(quic'[o]) \in Nat /\ Len(quic[o]) \in Nat
        BY <2>1, Typed, LenProperties
  <2> QED BY <2>1, <2>2
<1>3. quic' \in [Side -> Seq(Byte)]
  <2>1. \E n \in [Side -> 0 .. Window] : quic' = [o \in Side |-> SubSeq(quic[o], 1, n[o])]
        BY DEF ConnLost
  <2> QED BY <1>2, <2>1
<1> QED BY <1>1, <1>2, <1>3 DEF ConnLost, TypeOK, originVars

--------------------------------------------------------------------------------
(* The bytes move. *)

\* All that is said of origin o.
OriginInv(o) == OrderInv(o) /\ FinishInv(o) /\ ShutInv(o)

\* What happens to the bytes of one origin does not concern the other.
LEMMA MoveFrame ==
    ASSUME NEW o \in Side, OriginInv(o),
           UNCHANGED <<quicEnd, outEnd, half, fwd, conn>>,
           UNCHANGED <<sent[o], inEnd[o], inbox[o], rbuf[o], quic[o], wbuf[o], outbox[o]>>
    PROVE  OriginInv(o)'
  BY DEF OriginInv, OrderInv, InboxInv, WbufInv, StreamInv, RbufInv, FinishInv, ShutInv, Whole,
         Dropped, Delivered, Taken, Written

\* A forwarder that has counted neither reads nor writes.
LEMMA MoveResult ==
    ASSUME TypeOK, NEW s \in Side, ResultInv(s),
           UNCHANGED <<stopped, half, fwd, counters>>,
           fwd[s] = "ok" => UNCHANGED <<sent[s], outbox[Other(s)]>>
    PROVE  ResultInv(s)'
  BY Sides DEF ResultInv, Dropped, Delivered

LEMMA SendOrder ==
    ASSUME IndInv, NEW s \in Side, PeerSends(s)
    PROVE  OriginInv(s)'
<1>1. sent'[s] = sent[s] + 1 /\ inbox'[s] = Append(inbox[s], sent[s] + 1)
      BY DEF PeerSends, IndInv, TypeOK
<1>2. /\ UNCHANGED <<inEnd, rbuf, quic, quicEnd, wbuf, outbox, outEnd, half, fwd, conn>>
      /\ fwd[s] = "copy" /\ inEnd[s] = "open" /\ sent[s] < MaxBytes
      BY DEF PeerSends, streamVars
<1>3. TypeOK /\ OrderInv(s) /\ FinishInv(s) /\ ShutInv(s)
      BY DEF IndInv
<1>4. Sizes(s)
      BY <1>3, Typed DEF Sizes, Size
<1>5. inbox[s] \in Seq(Byte) /\ sent[s] + 1 \in Byte
      BY <1>2, <1>3, Typed DEF Byte
<1>6. Size(inbox'[s]) = Size(inbox[s]) + 1
      BY <1>1, <1>5, Appended
<1>7. /\ Delivered(s)' = Delivered(s) /\ Taken(s)' = Taken(s) /\ Written(s)' = Written(s)
      /\ Written(s) \in Int /\ Taken(s) \in Int
      BY <1>2, <1>4 DEF Sizes, Delivered, Taken, Written
<1>8. InboxInv(s)'
  <2> DEFINE a == sent[s] - Size(inbox[s])
  <2>1. a \in Int /\ Run(inbox[s], a) /\ sent[s] + 1 = a + Size(inbox[s]) + 1
        BY <1>3, <1>4 DEF OrderInv, InboxInv, Sizes
  <2>2. sent'[s] - Size(inbox'[s]) = a
        BY <1>1, <1>4, <1>6 DEF Sizes
  <2>3. Run(Append(inbox[s], sent[s] + 1), a)
    <3> HIDE DEF a
    <3> QED BY <1>5, <2>1, RunAppended
  <2>4. Size(inbox'[s]) <= sent'[s]
        BY <1>1, <1>3, <1>4, <1>6 DEF OrderInv, InboxInv, Sizes
  <2> QED BY <1>1, <2>2, <2>3, <2>4 DEF InboxInv
<1>9. WbufInv(s)' /\ StreamInv(s)'
      BY <1>1, <1>2, <1>3, <1>4, <1>7 DEF OrderInv, WbufInv, StreamInv, Sizes, Dropped
<1>10. RbufInv(s)'
  <2> SUFFICES ASSUME Whole(s)'
               PROVE  /\ Run(rbuf[s], Written(s))
                      /\ Written(s) + Size(rbuf[s]) + Size(inbox'[s]) = sent'[s]
      BY <1>2, <1>7 DEF RbufInv
  <2>1. Whole(s)
        BY <1>2 DEF Whole, Dropped
  <2>2. /\ Run(rbuf[s], Written(s))
        /\ Written(s) + Size(rbuf[s]) + Size(inbox[s]) = sent[s]
        BY <1>3, <2>1 DEF OrderInv, RbufInv
  <2>3. Written(s) + Size(rbuf[s]) + (Size(inbox[s]) + 1) = sent[s] + 1
        BY <1>4, <1>7, <2>2 DEF Sizes
  <2> QED BY <1>1, <1>6, <2>2, <2>3
<1>11. FinishInv(s)' /\ ShutInv(s)'
  <2>1. "toQuic" \notin half[s] /\ ~Dropped(s)
        BY <1>2, <1>3 DEF FinishInv, Dropped
  <2> QED BY <1>2, <1>3, <1>7, <2>1 DEF FinishInv, ShutInv, Dropped
<1> QED BY <1>8, <1>9, <1>10, <1>11 DEF OriginInv, OrderInv

LEMMA ReadTcpOrder ==
    ASSUME IndInv, NEW s \in Side, ReadTcp(s)
    PROVE  OriginInv(s)'
<1>1. inbox'[s] = Tail(inbox[s]) /\ rbuf'[s] = Append(rbuf[s], Head(inbox[s]))
      BY DEF ReadTcp, IndInv, TypeOK
<1>2. /\ UNCHANGED <<sent, inEnd, quic, quicEnd, wbuf, outbox, outEnd, half, fwd, conn>>
      /\ inbox[s] # <<>> /\ "toQuic" \notin half[s]
      BY DEF ReadTcp, Copying, streamVars, originVars
<1>3. TypeOK /\ OrderInv(s) /\ FinishInv(s) /\ ShutInv(s)
      BY DEF IndInv
<1>4. Sizes(s)
      BY <1>3, Typed DEF Sizes, Size
<1>5. inbox[s] \in Seq(Byte) /\ rbuf[s] \in Seq(Byte) /\ Head(inbox[s]) \in Byte
      BY <1>2, <1>3, Typed, Shortened
<1>6. /\ Size(inbox[s]) > 0 /\ Size(inbox'[s]) = Size(inbox[s]) - 1
      /\ Size(rbuf'[s]) = Size(rbuf[s]) + 1
      BY <1>1, <1>2, <1>5, Shortened, Appended
<1>7. /\ Delivered(s)' = Delivered(s) /\ Taken(s)' = Taken(s) /\ Written(s)' = Written(s)
      /\ Written(s) \in Int
      BY <1>2, <1>4 DEF Sizes, Delivered, Taken, Written
<1>8. Head(inbox[s]) = sent[s] - Size(inbox[s]) + 1 /\ InboxInv(s)'
  <2> DEFINE a == sent[s] - Size(inbox[s])
  <2>1. a \in Int /\ Run(inbox[s], a) /\ Size(inbox[s]) <= sent[s]
        BY <1>3, <1>4 DEF OrderInv, InboxInv, Sizes
  <2>2. sent'[s] - Size(inbox'[s]) = a + 1
        BY <1>2, <1>4, <1>6 DEF Sizes
  <2>3. Head(inbox[s]) = a + 1 /\ Run(Tail(inbox[s]), a + 1)
    <3> HIDE DEF a
    <3> QED BY <1>2, <1>5, <2>1, RunShortened
  <2>4. Size(inbox'[s]) <= sent'[s]
        BY <1>2, <1>4, <1>6, <2>1 DEF Sizes
  <2> QED BY <1>1, <2>2, <2>3, <2>4 DEF InboxInv
<1>9. WbufInv(s)' /\ StreamInv(s)'
      BY <1>2, <1>3, <1>7 DEF OrderInv, WbufInv, StreamInv, Dropped
<1>10. RbufInv(s)'
  <2> SUFFICES ASSUME Whole(s)'
               PROVE  /\ Run(rbuf'[s], Written(s))
                      /\ Written(s) + Size(rbuf'[s]) + Size(inbox'[s]) = sent[s]
      BY <1>2, <1>7 DEF RbufInv
  <2>1. Whole(s)
        BY <1>2 DEF Whole, Dropped
  <2>2. /\ Run(rbuf[s], Written(s))
        /\ Written(s) + Size(rbuf[s]) + Size(inbox[s]) = sent[s]
        BY <1>3, <2>1 DEF OrderInv, RbufInv
  <2>3. Head(inbox[s]) = Written(s) + Size(rbuf[s]) + 1
        BY <1>4, <1>7, <1>8, <2>2 DEF Sizes
  <2>4. Run(rbuf'[s], Written(s))
        BY <1>1, <1>5, <1>7, <2>2, <2>3, RunAppended
  <2>5. Written(s) + (Size(rbuf[s]) + 1) + (Size(inbox[s]) - 1) = sent[s]
        BY <1>4, <1>7, <2>2 DEF Sizes
  <2> QED BY <1>6, <2>4, <2>5
<1>11. FinishInv(s)' /\ ShutInv(s)'
      BY <1>2, <1>3, <1>7 DEF FinishInv, ShutInv, Dropped
<1> QED BY <1>8, <1>9, <1>10, <1>11 DEF OriginInv, OrderInv

LEMMA WriteQuicOrder ==
    ASSUME IndInv, NEW s \in Side, WriteQuic(s)
    PROVE  OriginInv(s)'
<1>1. quic'[s] = Append(quic[s], Head(rbuf[s])) /\ rbuf'[s] = Tail(rbuf[s])
      BY DEF WriteQuic, IndInv, TypeOK
<1>2. /\ UNCHANGED <<sent, inEnd, inbox, quicEnd, wbuf, outbox, outEnd, half, fwd, conn>>
      /\ rbuf[s] # <<>> /\ "toQuic" \notin half[s] /\ fwd[s] = "copy" /\ conn = "open"
      BY DEF WriteQuic, Copying, originVars
<1>3. TypeOK /\ OrderInv(s) /\ FinishInv(s) /\ ShutInv(s) /\ ~Dropped(s)
      BY <1>2 DEF IndInv, Dropped
<1>4. Sizes(s)
      BY <1>3, Typed DEF Sizes, Size
<1>5. quic[s] \in Seq(Byte) /\ rbuf[s] \in Seq(Byte) /\ Head(rbuf[s]) \in Byte
      BY <1>2, <1>3, Typed, Shortened
<1>6. /\ Size(rbuf[s]) > 0 /\ Size(rbuf'[s]) = Size(rbuf[s]) - 1
      /\ Size(quic'[s]) = Size(quic[s]) + 1
      BY <1>1, <1>2, <1>5, Shortened, Appended
<1>7. /\ Delivered(s)' = Delivered(s) /\ Taken(s)' = Taken(s) /\ Written(s)' = Written(s) + 1
      /\ Written(s) \in Int /\ Taken(s) \in Int /\ Written(s) = Taken(s) + Size(quic[s])
      BY <1>2, <1>4, <1>6 DEF Sizes, Delivered, Taken, Written
<1>8. ASSUME ~Dropped(Other(s))
      PROVE  /\ Run(quic'[s], Taken(s)) /\ Run(rbuf'[s], Written(s) + 1)
             /\ (Written(s) + 1) + Size(rbuf'[s]) + Size(inbox[s]) = sent[s]
             /\ Written(s) + 1 <= sent[s]
  <2>1. /\ Run(rbuf[s], Written(s)) /\ Run(quic[s], Taken(s))
        /\ Written(s) + Size(rbuf[s]) + Size(inbox[s]) = sent[s]
        BY <1>2, <1>3, <1>8 DEF OrderInv, RbufInv, StreamInv, Whole
  <2>2. Head(rbuf[s]) = Written(s) + 1 /\ Run(Tail(rbuf[s]), Written(s) + 1)
        BY <1>2, <1>5, <1>7, <2>1, RunShortened
  <2>3. Head(rbuf[s]) = Taken(s) + Size(quic[s]) + 1
        BY <1>7, <2>2
  <2>4. Run(Append(quic[s], Head(rbuf[s])), Taken(s))
        BY <1>5, <1>7, <2>1, <2>3, RunAppended
  <2>5. /\ (Written(s) + 1) + Size(rbuf'[s]) + Size(inbox[s]) = sent[s]
        /\ Written(s) + 1 <= sent[s]
        BY <1>4, <1>6, <1>7, <2>1 DEF Sizes
  <2> QED BY <1>1, <2>2, <2>4, <2>5
<1>9. InboxInv(s)' /\ WbufInv(s)'
      BY <1>2, <1>3, <1>7 DEF OrderInv, InboxInv, WbufInv
<1>10. StreamInv(s)' /\ RbufInv(s)'
      BY <1>2, <1>7, <1>8 DEF StreamInv, RbufInv, Whole, Dropped
<1>11. FinishInv(s)' /\ ShutInv(s)'
      BY <1>2, <1>3, <1>7 DEF FinishInv, ShutInv, Dropped
<1> QED BY <1>9, <1>10, <1>11 DEF OriginInv, OrderInv

LEMMA ReadQuicOrder ==
    ASSUME IndInv, NEW s \in Side, NEW o \in Side, o = Other(s), Other(o) = s, ReadQuic(s)
    PROVE  OriginInv(o)'
<1>1. wbuf'[o] = Append(wbuf[o], Head(quic[o])) /\ quic'[o] = Tail(quic[o])
      BY DEF ReadQuic, IndInv, TypeOK
<1>2. /\ UNCHANGED <<sent, inEnd, inbox, rbuf, quicEnd, outbox, outEnd, half, fwd, conn>>
      /\ quic[o] # <<>> /\ "toTcp" \notin half[s] /\ fwd[s] = "copy"
      BY DEF ReadQuic, Copying, originVars
<1>3. TypeOK /\ OrderInv(o) /\ FinishInv(o) /\ ShutInv(o) /\ ~Dropped(s)
      BY <1>2 DEF IndInv, Dropped
<1>4. Sizes(o)
      BY <1>3, Typed DEF Sizes, Size
<1>5. quic[o] \in Seq(Byte) /\ wbuf[o] \in Seq(Byte) /\ Head(quic[o]) \in Byte
      BY <1>2, <1>3, Typed, Shortened
<1>6. /\ Size(quic[o]) > 0 /\ Size(quic'[o]) = Size(quic[o]) - 1
      /\ Size(wbuf'[o]) = Size(wbuf[o]) + 1
      BY <1>1, <1>2, <1>5, Shortened, Appended
<1>7. /\ Delivered(o)' = Delivered(o) /\ Taken(o)' = Taken(o) + 1 /\ Written(o)' = Written(o)
      /\ Taken(o) \in Int /\ Delivered(o) \in Int
      /\ Taken(o) = Delivered(o) + Size(wbuf[o]) /\ Written(o) = Taken(o) + Size(quic[o])
      BY <1>2, <1>4, <1>6 DEF Sizes, Delivered, Taken, Written
<1>8. /\ Run(wbuf'[o], Delivered(o)) /\ Run(quic'[o], Taken(o) + 1)
      /\ Written(o) <= sent[o] /\ Taken(o) + 1 <= sent[o]
  <2>1. Run(wbuf[o], Delivered(o)) /\ Run(quic[o], Taken(o)) /\ Written(o) <= sent[o]
        BY <1>3 DEF OrderInv, WbufInv, StreamInv
  <2>2. Head(quic[o]) = Taken(o) + 1 /\ Run(Tail(quic[o]), Taken(o) + 1)
        BY <1>2, <1>5, <1>7, <2>1, RunShortened
  <2>3. Head(quic[o]) = Delivered(o) + Size(wbuf[o]) + 1
        BY <1>7, <2>2
  <2>4. Run(Append(wbuf[o], Head(quic[o])), Delivered(o))
        BY <1>5, <1>7, <2>1, <2>3, RunAppended
  <2>5. Taken(o) + 1 <= sent[o]
        BY <1>4, <1>6, <1>7, <2>1 DEF Sizes
  <2> QED BY <1>1, <2>1, <2>2, <2>4, <2>5
<1>9. InboxInv(o)' /\ RbufInv(o)'
      BY <1>2, <1>3, <1>7 DEF OrderInv, InboxInv, RbufInv, Whole, Dropped
<1>10. WbufInv(o)' /\ StreamInv(o)'
      BY <1>2, <1>7, <1>8 DEF WbufInv, StreamInv
<1>11. FinishInv(o)' /\ ShutInv(o)'
      BY <1>2, <1>3, <1>7 DEF FinishInv, ShutInv, Dropped
<1> QED BY <1>9, <1>10, <1>11 DEF OriginInv, OrderInv

LEMMA WriteTcpOrder ==
    ASSUME IndInv, NEW s \in Side, NEW o \in Side, o = Other(s), Other(o) = s, WriteTcp(s)
    PROVE  OriginInv(o)'
<1>1. outbox'[o] = Append(outbox[o], Head(wbuf[o])) /\ wbuf'[o] = Tail(wbuf[o])
      BY DEF WriteTcp, IndInv, TypeOK
<1>2. /\ UNCHANGED <<sent, inEnd, inbox, rbuf, quic, quicEnd, outEnd, half, fwd, conn>>
      /\ wbuf[o] # <<>> /\ "toTcp" \notin half[s] /\ fwd[s] = "copy"
      BY DEF WriteTcp, Copying, streamVars, originVars
<1>3. TypeOK /\ OrderInv(o) /\ FinishInv(o) /\ ShutInv(o)
      BY DEF IndInv
<1>4. Sizes(o)
      BY <1>3, Typed DEF Sizes, Size
<1>5. outbox[o] \in Seq(Byte) /\ wbuf[o] \in Seq(Byte) /\ Head(wbuf[o]) \in Byte
      BY <1>2, <1>3, Typed, Shortened
<1>6. Size(wbuf'[o]) = Size(wbuf[o]) - 1 /\ Size(outbox'[o]) = Size(outbox[o]) + 1
      BY <1>1, <1>2, <1>5, Shortened, Appended
<1>7. /\ Delivered(o)' = Delivered(o) + 1 /\ Taken(o)' = Taken(o) /\ Written(o)' = Written(o)
      /\ Delivered(o) \in Int
      BY <1>2, <1>4, <1>6 DEF Sizes, Delivered, Taken, Written
<1>8. Run(wbuf'[o], Delivered(o) + 1)
  <2>1. Run(wbuf[o], Delivered(o))
        BY <1>3 DEF OrderInv, WbufInv
  <2> QED BY <1>1, <1>2, <1>5, <1>7, <2>1, RunShortened
<1>9. InboxInv(o)' /\ StreamInv(o)' /\ RbufInv(o)'
      BY <1>2, <1>3, <1>7 DEF OrderInv, InboxInv, StreamInv, RbufInv, Whole, Dropped
<1>10. WbufInv(o)'
      BY <1>2, <1>3, <1>7, <1>8 DEF OrderInv, WbufInv
<1>11. FinishInv(o)' /\ ShutInv(o)'
      BY <1>2, <1>3, <1>7 DEF FinishInv, ShutInv, Dropped
<1> QED BY <1>9, <1>10, <1>11 DEF OriginInv, OrderInv

\* The end of a TCP connection is noticed by whoever reads it.
LEMMA EndOrder ==
    ASSUME IndInv, NEW s \in Side, PeerEnds(s)
    PROVE  OriginInv(s)'
<1>1. /\ UNCHANGED <<sent, inbox, rbuf, quic, quicEnd, wbuf, outbox, outEnd, half, fwd, conn>>
      /\ inEnd'[s] # "open"
      BY DEF PeerEnds, streamVars, IndInv, TypeOK
<1>2. OrderInv(s) /\ FinishInv(s) /\ ShutInv(s)
      BY DEF IndInv
<1>3. OrderInv(s)'
      BY <1>1, <1>2 DEF OrderInv, InboxInv, WbufInv, StreamInv, RbufInv, Whole, Dropped,
                        Delivered, Taken, Written
<1>4. FinishInv(s)' /\ ShutInv(s)'
      BY <1>1, <1>2 DEF FinishInv, ShutInv, Dropped, Delivered, Written
<1> QED BY <1>3, <1>4 DEF OriginInv

\* A step that concerns the bytes of origin o only.
LEMMA Moved ==
    ASSUME IndInv, NEW o \in Side, TypeOK', OriginInv(o)',
           UNCHANGED <<quicEnd, stopped, outEnd, half, fwd, conn, counters>>,
           \A r \in Side : r # o =>
              UNCHANGED <<sent[r], inEnd[r], inbox[r], rbuf[r], quic[r], wbuf[r], outbox[r]>>,
           fwd[o] = "ok" => UNCHANGED sent[o],
           fwd[Other(o)] = "ok" => UNCHANGED outbox[o]
    PROVE  IndInv'
<1>1. ASSUME NEW r \in Side PROVE OriginInv(r)'
  <2>1. CASE r = o
        BY <2>1
  <2>2. CASE r # o
    <3>1. OriginInv(r)
          BY DEF IndInv, OriginInv
    <3> QED BY <2>2, <3>1, MoveFrame
  <2> QED BY <2>1, <2>2
<1>2. ASSUME NEW r \in Side PROVE ResultInv(r)'
  <2>1. TypeOK /\ ResultInv(r)
        BY DEF IndInv
  <2>2. fwd[r] = "ok" => UNCHANGED <<sent[r], outbox[Other(r)]>>
        BY Sides
  <2> QED BY <2>1, <2>2, MoveResult
<1> QED BY <1>1, <1>2 DEF IndInv, OriginInv

LEMMA MoveStep ==
    ASSUME IndInv, NEW s \in Side,
           PeerSends(s) \/ PeerEnds(s) \/ ReadTcp(s) \/ WriteQuic(s) \/ ReadQuic(s) \/ WriteTcp(s)
    PROVE  IndInv'
<1>0. TypeOK /\ TypeOK'
      BY TypeMove DEF IndInv
<1>1. CASE PeerSends(s)
  <2>1. /\ UNCHANGED <<quicEnd, stopped, outEnd, half, fwd, conn, counters>>
        /\ UNCHANGED outbox /\ fwd[s] = "copy"
        BY <1>1 DEF PeerSends, streamVars
  <2>2. \A r \in Side : r # s =>
           UNCHANGED <<sent[r], inEnd[r], inbox[r], rbuf[r], quic[r], wbuf[r], outbox[r]>>
        BY <1>0, <1>1 DEF PeerSends, streamVars, TypeOK
  <2> QED BY <1>0, <1>1, <2>1, <2>2, SendOrder, Moved
<1>2. CASE PeerEnds(s)
  <2>1. /\ UNCHANGED <<quicEnd, stopped, outEnd, half, fwd, conn, counters>>
        /\ UNCHANGED <<sent, inbox, rbuf, quic, wbuf, outbox>>
        BY <1>2 DEF PeerEnds, streamVars
  <2>2. \A r \in Side : r # s => UNCHANGED inEnd[r]
    <3>1. inEnd \in [Side -> {"open", "eof", "reset"}]
          BY <1>0 DEF TypeOK
    <3> QED BY <1>2, <3>1 DEF PeerEnds
  <2> QED BY <1>0, <1>2, <2>1, <2>2, EndOrder, Moved
<1>3. CASE ReadTcp(s)
  <2>1. /\ UNCHANGED <<quicEnd, stopped, outEnd, half, fwd, conn, counters>>
        /\ UNCHANGED <<sent, inEnd, quic, wbuf, outbox>>
        BY <1>3 DEF ReadTcp, streamVars, originVars
  <2>2. \A r \in Side : r # s => UNCHANGED <<inbox[r], rbuf[r]>>
        BY <1>0, <1>3 DEF ReadTcp, TypeOK
  <2> QED BY <1>0, <1>3, <2>1, <2>2, ReadTcpOrder, Moved
<1>4. CASE WriteQuic(s)
  <2>1. /\ UNCHANGED <<quicEnd, stopped, outEnd, half, fwd, conn, counters>>
        /\ UNCHANGED <<sent, inEnd, inbox, wbuf, outbox>>
        BY <1>4 DEF WriteQuic, originVars
  <2>2. \A r \in Side : r # s => UNCHANGED <<quic[r], rbuf[r]>>
        BY <1>0, <1>4 DEF WriteQuic, TypeOK
  <2> QED BY <1>0, <1>4, <2>1, <2>2, WriteQuicOrder, Moved
<1>5. CASE ReadQuic(s)
  <2>0. PICK o \in Side : o = Other(s) /\ Other(o) = s
        BY Sides
  <2>1. /\ UNCHANGED <<quicEnd, stopped, outEnd, half, fwd, conn, counters>>
        /\ UNCHANGED <<sent, inEnd, inbox, rbuf, outbox>>
        BY <1>5 DEF ReadQuic, originVars
  <2>2. \A r \in Side : r # o => UNCHANGED <<quic[r], wbuf[r]>>
        BY <1>0, <1>5, <2>0 DEF ReadQuic, TypeOK
  <2> QED BY <1>0, <1>5, <2>0, <2>1, <2>2, ReadQuicOrder, Moved
<1>6. CASE WriteTcp(s)
  <2>0. PICK o \in Side : o = Other(s) /\ Other(o) = s
        BY Sides
  <2>1. /\ UNCHANGED <<quicEnd, stopped, outEnd, half, fwd, conn, counters>>
        /\ UNCHANGED <<sent, inEnd, inbox, rbuf, quic>> /\ fwd[s] = "copy"
        BY <1>6 DEF WriteTcp, Copying, originVars, streamVars
  <2>2. \A r \in Side : r # o => UNCHANGED <<wbuf[r], outbox[r]>>
        BY <1>0, <1>6, <2>0 DEF WriteTcp, TypeOK
  <2> QED BY <1>0, <1>6, <2>0, <2>1, <2>2, WriteTcpOrder, Moved
<1> QED BY <1>1, <1>2, <1>3, <1>4, <1>5, <1>6

--------------------------------------------------------------------------------
(* A direction is done. *)

LEMMA HalfEffect ==
    ASSUME TypeOK, NEW s \in Side, NEW dir \in {"toQuic", "toTcp"}, HalfDone(s, dir),
           fwd[s] = "copy"
    PROVE  /\ half'[s] = half[s] \cup {dir} /\ half'[Other(s)] = half[Other(s)]
           /\ fwd'[s] = IF half'[s] = {"toQuic", "toTcp"} THEN "ok" ELSE "copy"
           /\ fwd'[Other(s)] = fwd[Other(s)]
           /\ \A r \in Side : Dropped(r)' <=> Dropped(r)
<1>1. half'[s] = half[s] \cup {dir} /\ half'[Other(s)] = half[Other(s)]
      BY Sides DEF HalfDone, TypeOK
<1>2. /\ fwd'[s] = IF half'[s] = {"toQuic", "toTcp"} THEN "ok" ELSE "copy"
      /\ fwd'[Other(s)] = fwd[Other(s)]
  <2>1. CASE half'[s] = {"toQuic", "toTcp"}
        BY <1>1, <2>1, Sides DEF HalfDone, TypeOK
  <2>2. CASE half'[s] # {"toQuic", "toTcp"}
        BY <1>1, <2>2 DEF HalfDone
  <2> QED BY <2>1, <2>2
<1>3. \A r \in Side : Dropped(r)' <=> Dropped(r)
      BY <1>2, Sides DEF Dropped
<1> QED BY <1>1, <1>2, <1>3

\* The copy counts what it has read and written when it returns.
LEMMA HalfCounts ==
    ASSUME IndInv, NEW s \in Side, NEW dir \in {"toQuic", "toTcp"}, HalfDone(s, dir),
           fwd[s] = "copy", UNCHANGED <<sent, outbox, stopped>>,
           dir = "toQuic" => inbox[s] = <<>> /\ rbuf[s] = <<>>
    PROVE  ResultInv(s)' /\ ResultInv(Other(s))'
<1> DEFINE o == Other(s)
<1>1. TypeOK /\ ResultInv(s) /\ ResultInv(o) /\ FinishInv(s)
      BY Sides DEF IndInv
<1>2. /\ half'[s] = half[s] \cup {dir} /\ half'[o] = half[o]
      /\ fwd'[s] = IF half'[s] = {"toQuic", "toTcp"} THEN "ok" ELSE "copy"
      /\ fwd'[o] = fwd[o]
      /\ \A r \in Side : Dropped(r)' <=> Dropped(r)
      BY <1>1, HalfEffect
<1>3. counters.a[s] = 0 /\ counters.b[s] = 0
      BY <1>1 DEF ResultInv
<1>4. counters \in StreamCounters
      BY <1>1 DEF TypeOK
<1>5. sent[s] \in Nat /\ Size(outbox[o]) \in Nat
      BY <1>1, Sides, Typed DEF Size
<1>6. CASE half'[s] = {"toQuic", "toTcp"}
  <2>1. inbox[s] = <<>> /\ rbuf[s] = <<>>
        BY <1>1, <1>2, <1>6 DEF FinishInv
  <2>2. ToQuic(s) = sent[s] /\ ToTcp(s) = Size(outbox[o])
        BY <1>5, <2>1, Empty DEF ToQuic, ToTcp, Size
  <2>3. counters' = [counters EXCEPT !.a[s] = @ + sent[s], !.b[s] = @ + Size(outbox[o])]
        BY <1>2, <1>6, <2>2 DEF HalfDone
  <2>4. /\ counters'.a[s] = counters.a[s] + sent[s]
        /\ counters'.b[s] = counters.b[s] + Size(outbox[o])
        /\ \A r \in Side : r # s => counters'.a[r] = counters.a[r] /\ counters'.b[r] = counters.b[r]
        BY <1>4, <1>5, <2>3, Counted
  <2>6. /\ counters'.a[s] = sent[s] /\ counters'.b[s] = Size(outbox[o])
        /\ counters'.a[o] = counters.a[o] /\ counters'.b[o] = counters.b[o]
        BY <1>3, <1>5, <2>4, Sides
  <2>7. ResultInv(s)'
        BY <1>1, <1>2, <1>6, <2>6, Sides DEF ResultInv, Delivered
  <2>8. ResultInv(o)'
        BY <1>1, <1>2, <1>6, <2>6, Sides DEF ResultInv, Delivered
  <2> QED BY <2>7, <2>8
<1>7. CASE half'[s] # {"toQuic", "toTcp"}
  <2>1. UNCHANGED counters
        BY <1>2, <1>7 DEF HalfDone
  <2>2. ResultInv(s)'
        BY <1>1, <1>2, <1>3, <1>7, <2>1, Sides DEF ResultInv
  <2>3. ResultInv(o)'
        BY <1>1, <1>2, <2>1, Sides DEF ResultInv, Delivered
  <2> QED BY <2>2, <2>3
<1> QED BY <1>6, <1>7

\* The bytes stay where they are.
LEMMA OrderFrame ==
    ASSUME NEW o \in Side, OrderInv(o),
           UNCHANGED <<sent[o], inbox[o], rbuf[o], quic[o], wbuf[o], outbox[o], conn>>,
           Dropped(o) => Dropped(o)', Dropped(Other(o)) => Dropped(Other(o))'
    PROVE  OrderInv(o)'
  BY DEF OrderInv, InboxInv, WbufInv, StreamInv, RbufInv, Whole, Delivered, Taken, Written

LEMMA FinishStep ==
    ASSUME IndInv, NEW s \in Side, FinishQuic(s)
    PROVE  IndInv'
<1>0. PICK o \in Side : o = Other(s) /\ Other(o) = s /\ \A r \in Side : r = s \/ r = o
      BY Sides
<1>1. /\ UNCHANGED <<sent, inEnd, inbox, rbuf, quic, stopped, wbuf, outbox, outEnd, conn>>
      /\ HalfDone(s, "toQuic") /\ fwd[s] = "copy"
      /\ inEnd[s] = "eof" /\ inbox[s] = <<>> /\ rbuf[s] = <<>>
      BY DEF FinishQuic, Copying, originVars
<1>2. TypeOK /\ TypeOK'
      BY TypeHalf DEF IndInv
<1>3. quicEnd'[s] = (IF conn = "open" THEN "fin" ELSE quicEnd[s]) /\ quicEnd'[o] = quicEnd[o]
      BY <1>0, <1>2, Sides DEF FinishQuic, TypeOK
<1>4. /\ half'[s] = half[s] \cup {"toQuic"} /\ half'[o] = half[o]
      /\ \A r \in Side : Dropped(r)' <=> Dropped(r)
      BY <1>0, <1>1, <1>2, HalfEffect
<1>5. ResultInv(s)' /\ ResultInv(o)'
      BY <1>0, <1>1, HalfCounts
<1>6. OrderInv(s)' /\ OrderInv(o)'
  <2>1. OrderInv(s) /\ OrderInv(o)
        BY DEF IndInv
  <2> QED BY <1>0, <1>1, <1>4, <2>1, OrderFrame
<1>7. FinishInv(s)'
  <2>1. FinishInv(s) /\ OrderInv(s) /\ Sizes(s)
        BY <1>2, Typed DEF IndInv, Sizes, Size
  <2>2. Written(s)' = Written(s) /\ Written(s) \in Int
        BY <1>1, <2>1 DEF Written, Sizes
  <2>3. Whole(s) => Written(s) = sent[s]
    <3>1. Whole(s) => Written(s) + 0 + 0 = sent[s]
          BY <1>1, <2>1, Empty DEF OrderInv, RbufInv
    <3> QED BY <2>2, <3>1
  <2>4. conn = "open" /\ ~Dropped(s) /\ ~Dropped(o) => Written(s) = sent[s]
        BY <1>0, <2>3 DEF Whole
  <2> QED BY <1>0, <1>1, <1>3, <1>4, <2>1, <2>2, <2>4 DEF FinishInv
<1>8. FinishInv(o)'
  <2>1. FinishInv(o)
        BY DEF IndInv
  <2> QED BY <1>0, <1>1, <1>3, <1>4, <2>1 DEF FinishInv, Written
<1>9. ShutInv(s)' /\ ShutInv(o)'
  <2>1. ShutInv(s) /\ ShutInv(o)
        BY DEF IndInv
  <2>2. "toTcp" \in half'[s] <=> "toTcp" \in half[s]
        BY <1>4
  <2>3. ShutInv(s)'
        BY <1>0, <1>1, <1>4, <2>1 DEF ShutInv, Delivered
  <2>4. ShutInv(o)'
        BY <1>0, <1>1, <1>4, <2>1, <2>2 DEF ShutInv, Delivered
  <2> QED BY <2>3, <2>4
<1> QED BY <1>0, <1>2, <1>5, <1>6, <1>7, <1>8, <1>9 DEF IndInv

LEMMA ShutStep ==
    ASSUME IndInv, NEW s \in Side, ShutTcp(s)
    PROVE  IndInv'
<1>0. PICK o \in Side : o = Other(s) /\ Other(o) = s /\ \A r \in Side : r = s \/ r = o
      BY Sides
<1>1. /\ UNCHANGED <<sent, inEnd, inbox, rbuf, quic, quicEnd, stopped, wbuf, outbox, conn>>
      /\ HalfDone(s, "toTcp") /\ fwd[s] = "copy"
      /\ quicEnd[o] = "fin" /\ quic[o] = <<>> /\ wbuf[o] = <<>>
      BY <1>0 DEF ShutTcp, Copying, originVars, streamVars
<1>2. TypeOK /\ TypeOK'
      BY TypeHalf DEF IndInv
<1>3. outEnd'[o] = "fin" /\ outEnd'[s] = outEnd[s]
      BY <1>0, <1>2, Sides DEF ShutTcp, TypeOK
<1>4. /\ half'[s] = half[s] \cup {"toTcp"} /\ half'[o] = half[o]
      /\ \A r \in Side : Dropped(r)' <=> Dropped(r)
      BY <1>0, <1>1, <1>2, HalfEffect
<1>5. ResultInv(s)' /\ ResultInv(o)'
      BY <1>0, <1>1, HalfCounts
<1>6. OrderInv(s)' /\ OrderInv(o)'
  <2>1. OrderInv(s) /\ OrderInv(o)
        BY DEF IndInv
  <2> QED BY <1>0, <1>1, <1>4, <2>1, OrderFrame
<1>7. FinishInv(s)' /\ FinishInv(o)'
  <2>1. FinishInv(s) /\ FinishInv(o)
        BY DEF IndInv
  <2>2. "toQuic" \in half'[s] <=> "toQuic" \in half[s]
        BY <1>4
  <2>3. FinishInv(s)'
        BY <1>0, <1>1, <1>4, <2>1, <2>2 DEF FinishInv, Written
  <2>4. FinishInv(o)'
        BY <1>0, <1>1, <1>4, <2>1 DEF FinishInv, Written
  <2> QED BY <2>3, <2>4
<1>8. ShutInv(o)'
  <2>1. FinishInv(o) /\ ~Dropped(s) /\ Sizes(o)
        BY <1>1, <1>2, Typed DEF IndInv, Dropped, Sizes, Size
  <2>2. Written(o) = Delivered(o)
        BY <1>1, <2>1, Empty DEF Written, Delivered, Sizes
  <2>3. Dropped(o) \/ ("toQuic" \in half[o] /\ Delivered(o) = sent[o])
        BY <1>0, <1>1, <2>1, <2>2 DEF FinishInv
  <2>4. Delivered(o)' = Delivered(o)
        BY <1>1 DEF Delivered
  <2> QED BY <1>0, <1>1, <1>3, <1>4, <2>3, <2>4 DEF ShutInv
<1>9. ShutInv(s)'
  <2>1. ShutInv(s)
        BY DEF IndInv
  <2>2. "toQuic" \in half'[s] <=> "toQuic" \in half[s]
        BY <1>4
  <2> QED BY <1>0, <1>1, <1>3, <1>4, <2>1, <2>2 DEF ShutInv, Delivered
<1> QED BY <1>0, <1>2, <1>5, <1>6, <1>7, <1>8, <1>9 DEF IndInv

--------------------------------------------------------------------------------
(* A forwarder gives up; a stream is accepted; the connection is lost. *)

\* Whatever is dropped, nobody will pass on.
LEMMA GiveUp ==
    ASSUME IndInv, TypeOK', NEW s \in Side, NEW o \in Side, o = Other(s), Other(o) = s, DropQuic(s),
           fwd[s] \in {"connecting", "copy"}, NEW e \in {"zero", "err"},
           fwd' = [fwd EXCEPT ![s] = e], e = "zero" => fwd[o] = "err",
           rbuf'[s] \in {<<>>, rbuf[s]}, UNCHANGED rbuf[o],
           wbuf'[o] \in {<<>>, wbuf[o]}, UNCHANGED wbuf[s],
           UNCHANGED outEnd[s], outEnd[o] = "fin" => outEnd'[o] = "fin",
           UNCHANGED <<counters.a, counters.b>>
    PROVE  IndInv'
<1>0. \A r \in Side : r = s \/ r = o
      BY Sides
<1>1. TypeOK /\ s # o
      BY Sides DEF IndInv
<1>2. /\ UNCHANGED <<sent, inEnd, inbox, quic, outbox, half, conn>>
      /\ UNCHANGED quicEnd[o] /\ UNCHANGED stopped[s]
      BY <1>1 DEF DropQuic, originVars, TypeOK
<1>3. fwd'[s] = e /\ fwd'[o] = fwd[o]
      BY <1>1 DEF TypeOK
<1>4. Dropped(s)' /\ (Dropped(o)' <=> Dropped(o)) /\ ~Dropped(s)
      BY <1>3 DEF Dropped
<1>5. /\ OrderInv(s) /\ FinishInv(s) /\ ShutInv(s) /\ ResultInv(s)
      /\ OrderInv(o) /\ FinishInv(o) /\ ShutInv(o) /\ ResultInv(o)
      BY DEF IndInv
<1>6. /\ Delivered(s)' = Delivered(s) /\ Taken(s)' = Taken(s) /\ Written(s)' = Written(s)
      /\ Delivered(o)' = Delivered(o)
      BY <1>2 DEF Delivered, Taken, Written
<1>7. OrderInv(s)'
      BY <1>2, <1>4, <1>5, <1>6 DEF OrderInv, InboxInv, WbufInv, StreamInv, RbufInv, Whole
<1>8. OrderInv(o)'
  <2>1. InboxInv(o)' /\ StreamInv(o)' /\ RbufInv(o)'
        BY <1>2, <1>4, <1>5 DEF OrderInv, InboxInv, StreamInv, RbufInv, Whole
  <2>2. WbufInv(o)'
    <3>1. CASE wbuf'[o] = wbuf[o]
          BY <1>2, <1>5, <1>6, <3>1 DEF OrderInv, WbufInv, Taken
    <3>2. CASE wbuf'[o] = <<>>
      <4>1. Sizes(o) /\ Taken(o) <= sent[o]
            BY <1>1, <1>5, Typed DEF Sizes, Size, OrderInv, WbufInv
      <4>2. Taken(o)' = Delivered(o) + 0 /\ Delivered(o) \in Int
            BY <1>2, <3>2, <4>1, Empty DEF Taken, Delivered, Sizes
      <4>3. Taken(o)' <= sent[o]
            BY <4>1, <4>2 DEF Taken, Delivered, Sizes
      <4>4. Run(wbuf'[o], Delivered(o))
            BY <3>2, <4>2, Empty
      <4> QED BY <1>2, <1>6, <4>3, <4>4 DEF WbufInv
    <3> QED BY <3>1, <3>2
  <2> QED BY <2>1, <2>2 DEF OrderInv
<1>9. FinishInv(s)' /\ FinishInv(o)'
      BY <1>2, <1>4, <1>5 DEF FinishInv
<1>10. ShutInv(s)'
      BY <1>2, <1>4, <1>5, <1>6 DEF ShutInv
<1>11. ShutInv(o)'
      BY <1>2, <1>4, <1>5, <1>6 DEF ShutInv
<1>12. ResultInv(s)'
      BY <1>2, <1>3, <1>4, <1>5 DEF ResultInv
<1>13. ResultInv(o)'
      BY <1>2, <1>3, <1>4, <1>5, <1>6 DEF ResultInv
<1> QED BY <1>0, <1>7, <1>8, <1>9, <1>10, <1>11, <1>12, <1>13 DEF IndInv

\* "error 0" is what a forwarder meets after the other one has failed.
LEMMA DropStep ==
    ASSUME IndInv, NEW s \in Side, FwdErrorZero(s) \/ FwdError(s)
    PROVE  IndInv'
<1>0. PICK o \in Side : o = Other(s) /\ Other(o) = s /\ o # s
      BY Sides
<1>1. TypeOK /\ TypeOK' /\ ResultInv(s) /\ ResultInv(o)
      BY TypeDrop DEF IndInv
<1>2. PICK e \in {"zero", "err"} :
         fwd' = [fwd EXCEPT ![s] = e] /\ (e = "zero" => stopped[s])
      BY DEF FwdErrorZero, FwdError
<1>3. DropBoth(s) /\ fwd[s] = "copy" /\ (CountError(s) \/ UNCHANGED counters)
      BY DEF FwdErrorZero, FwdError, Copying
<1>4. e = "zero" => fwd[o] = "err"
      BY <1>0, <1>1, <1>2, <1>3 DEF ResultInv, Dropped
<1>5. /\ DropQuic(s)
      /\ rbuf'[s] = <<>> /\ rbuf'[o] = rbuf[o] /\ wbuf'[o] = <<>> /\ wbuf'[s] = wbuf[s]
      /\ UNCHANGED outEnd[s] /\ (outEnd[o] = "fin" => outEnd'[o] = "fin")
      BY <1>0, <1>1, <1>3 DEF DropBoth, TypeOK
<1>6. UNCHANGED <<counters.a, counters.b>>
  <2>1. CASE CountError(s)
        BY <1>1, <2>1, ErrorCounted DEF TypeOK
  <2>2. CASE UNCHANGED counters
        BY <2>2
  <2> QED BY <1>3, <2>1, <2>2
<1> QED BY <1>0, <1>1, <1>2, <1>3, <1>4, <1>5, <1>6, GiveUp

LEMMA ClientStep == ASSUME IndInv, Client PROVE IndInv'
<1>0. PICK s \in Side, o \in Side :
         s = "client" /\ o = Other(s) /\ Other(o) = s /\ o # s /\ \A r \in Side : r = s \/ r = o
      BY Sides DEF Side
<1>1. TypeOK /\ TypeOK'
      BY TypeClient DEF IndInv
<1>2. CASE ConnectFails
  <2>1. /\ DropQuic(s) /\ fwd' = [fwd EXCEPT ![s] = "err"] /\ fwd[s] = "connecting"
        /\ UNCHANGED <<rbuf, wbuf, outEnd>> /\ CountError(s)
        BY <1>0, <1>2 DEF ConnectFails
  <2>2. UNCHANGED <<counters.a, counters.b>>
        BY <1>1, <2>1, ErrorCounted DEF TypeOK
  <2> QED BY <1>0, <1>1, <2>1, <2>2, GiveUp
<1>3. CASE AcceptBi \/ ConnectOk
  <2>1. /\ UNCHANGED <<sent, inEnd, inbox, rbuf, quic, quicEnd, stopped, wbuf, outbox, outEnd,
                       half, conn>>
        /\ fwd[s] \in {"none", "connecting"}
        BY <1>0, <1>3 DEF AcceptBi, ConnectOk, originVars, streamVars
  <2>2. PICK e \in {"connecting", "copy"} : fwd' = [fwd EXCEPT ![s] = e]
        BY <1>0, <1>3 DEF AcceptBi, ConnectOk
  <2>3. fwd'[s] \in {"connecting", "copy"} /\ fwd'[o] = fwd[o]
        BY <1>0, <1>1, <2>2 DEF TypeOK
  <2>4. UNCHANGED <<counters.a, counters.b>>
    <3>1. CASE AcceptBi
          BY <1>0, <1>1, <3>1, ErrorCounted DEF AcceptBi, TypeOK
    <3>2. CASE ConnectOk
          BY <3>2 DEF ConnectOk
    <3> QED BY <1>3, <3>1, <3>2
  <2>5. \A r \in Side : Dropped(r)' <=> Dropped(r)
        BY <1>0, <2>1, <2>3 DEF Dropped
  <2>6. ASSUME NEW r \in Side PROVE OrderInv(r)' /\ FinishInv(r)' /\ ShutInv(r)'
    <3>1. OrderInv(r) /\ FinishInv(r) /\ ShutInv(r) /\ Other(r) \in Side
          BY Sides DEF IndInv
    <3>2. OrderInv(r)'
          BY <2>1, <2>5, <3>1, OrderFrame
    <3> QED BY <2>1, <2>5, <3>1, <3>2 DEF FinishInv, ShutInv, Delivered, Written
  <2>7. ResultInv(s) /\ ResultInv(o)
        BY DEF IndInv
  <2>8. ResultInv(s)'
        BY <1>0, <2>1, <2>3, <2>4, <2>5, <2>7 DEF ResultInv
  <2>9. ResultInv(o)'
        BY <1>0, <2>1, <2>3, <2>4, <2>5, <2>7 DEF ResultInv, Delivered
  <2> QED BY <1>0, <1>1, <2>6, <2>8, <2>9 DEF IndInv
<1> QED BY <1>2, <1>3 DEF Client

\* A loss takes away from the end of what is in the stream, its finish first.
LEMMA LostStep == ASSUME IndInv, ConnLost PROVE IndInv'
<1>1. TypeOK /\ TypeOK'
      BY TypeLost DEF IndInv
<1>2. /\ UNCHANGED <<sent, inEnd, inbox, rbuf, stopped, wbuf, outbox, outEnd, half, fwd, counters>>
      /\ conn' = "lost"
      BY DEF ConnLost, originVars
<1>3. ASSUME NEW o \in Side PROVE OrderInv(o)' /\ FinishInv(o)' /\ ShutInv(o)' /\ ResultInv(o)'
  <2>1. OrderInv(o) /\ FinishInv(o) /\ ShutInv(o) /\ ResultInv(o) /\ Sizes(o)
    <3>1. OrderInv(o) /\ FinishInv(o) /\ ShutInv(o) /\ ResultInv(o)
          BY DEF IndInv
    <3>2. Sizes(o)
          BY <1>1, Typed DEF Sizes, Size
    <3> QED BY <3>1, <3>2
  <2>2. /\ quic'[o] \in Seq(Byte) /\ Size(quic'[o]) <= Size(quic[o])
        /\ \A a \in Int : Run(quic[o], a) => Run(quic'[o], a)
        /\ quicEnd'[o] \in {"open", "fin"}
        /\ quicEnd'[o] = "fin" => quicEnd[o] = "fin" /\ Size(quic'[o]) = Size(quic[o])
        BY <1>1, Lost DEF Size
  <2>3. Size(quic'[o]) \in Nat
        BY <2>2, LenProperties DEF Size
  <2>4. /\ Delivered(o)' = Delivered(o) /\ Taken(o)' = Taken(o) /\ Taken(o) \in Int
        /\ Written(o)' <= Written(o) /\ Written(o) \in Int /\ Written(o)' \in Int
        /\ quicEnd'[o] = "fin" => Written(o)' = Written(o)
    <3>1. Delivered(o)' = Delivered(o) /\ Taken(o)' = Taken(o)
          BY <1>2 DEF Delivered, Taken, Size
    <3>2. Taken(o) \in Int
          BY <2>1 DEF Delivered, Taken, Sizes
    <3>3. Written(o) = Taken(o) + Size(quic[o]) /\ Written(o)' = Taken(o)' + Size(quic'[o])
          BY DEF Written, Taken
    <3>4. Size(quic[o]) \in Nat
          BY <2>1 DEF Sizes
    <3> QED BY ONLY <2>2, <2>3, <3>1, <3>2, <3>3, <3>4
  <2>5. Whole(o)' = FALSE /\ (Dropped(o)' <=> Dropped(o)) /\ (Dropped(Other(o))' <=> Dropped(Other(o)))
        BY <1>2 DEF Whole, Dropped
  <2>6. StreamInv(o)'
    <3>1. ASSUME ~Dropped(Other(o)) PROVE Written(o)' <= sent[o] /\ Run(quic'[o], Taken(o))
      <4>1. Written(o) <= sent[o] /\ Run(quic[o], Taken(o)) /\ sent[o] \in Nat
            BY <2>1, <3>1 DEF OrderInv, StreamInv, Sizes
      <4> QED BY <2>2, <2>4, <4>1
    <3> QED BY <1>2, <2>4, <2>5, <3>1 DEF StreamInv
  <2>7. InboxInv(o)' /\ WbufInv(o)' /\ RbufInv(o)'
        BY <1>2, <2>1, <2>4, <2>5 DEF OrderInv, InboxInv, WbufInv, RbufInv
  <2>8. FinishInv(o)'
        BY <1>2, <2>1, <2>2, <2>4, <2>5 DEF FinishInv
  <2>9. quic[o] = <<>> => quic'[o] = <<>>
    <3> HAVE quic[o] = <<>>
    <3>1. Len(quic'[o]) <= 0 /\ Len(quic'[o]) \in Nat
          BY <2>2, <2>3, Empty DEF Size
    <3> QED BY <2>2, <3>1, EmptySeq
  <2>10. ShutInv(o)'
        BY <1>2, <2>1, <2>4, <2>5, <2>9 DEF ShutInv
  <2>11. ResultInv(o)'
        BY <1>2, <2>1, <2>5 DEF ResultInv, Delivered
  <2> QED BY <2>6, <2>7, <2>8, <2>10, <2>11 DEF OrderInv
<1> QED BY <1>1, <1>3 DEF IndInv

--------------------------------------------------------------------------------
(* The theorems. *)

LEMMA InitInd == Init => IndInv
<1> SUFFICES ASSUME Init PROVE IndInv
    OBVIOUS
<1>1. TypeOK
      BY TypeInit
<1>2. ASSUME NEW o \in Side PROVE OrderInv(o) /\ FinishInv(o) /\ ShutInv(o) /\ ResultInv(o)
  <2>1. Other(o) \in Side
        BY Sides
  <2>2. /\ sent[o] = 0 /\ inbox[o] = <<>> /\ rbuf[o] = <<>> /\ quic[o] = <<>> /\ wbuf[o] = <<>>
        /\ outbox[o] = <<>> /\ outbox[Other(o)] = <<>>
        /\ quicEnd[o] = "open" /\ stopped[o] = FALSE /\ outEnd[o] = "open"
        /\ half[o] = {} /\ half[Other(o)] = {} /\ fwd[o] \in {"copy", "none"}
        /\ fwd[Other(o)] \in {"copy", "none"} /\ counters.a[o] = 0 /\ counters.b[o] = 0
        BY <2>1 DEF Init
  <2>3. /\ Delivered(o) = 0 /\ Taken(o) = 0 /\ Written(o) = 0
        BY <2>2, Empty DEF Delivered, Taken, Written
  <2>4. OrderInv(o)
        BY <2>2, <2>3, Empty DEF OrderInv, InboxInv, WbufInv, StreamInv, RbufInv
  <2> QED BY <2>2, <2>3, <2>4, Empty DEF FinishInv, ShutInv, ResultInv
<1> QED BY <1>1, <1>2 DEF IndInv

LEMMA NextInd == ASSUME IndInv, Next PROVE IndInv'
<1>1. ASSUME NEW o \in Side, PeerSends(o) \/ PeerEnds(o) PROVE IndInv'
      BY <1>1, MoveStep
<1>2. ASSUME NEW s \in Side, Forwarder(s) PROVE IndInv'
      BY <1>2, MoveStep, FinishStep, ShutStep, DropStep DEF Forwarder
<1> QED BY <1>1, <1>2, ClientStep, LostStep DEF Next

LEMMA Inductive == Spec => []IndInv
<1>1. Init => IndInv
      BY InitInd
<1>2. IndInv /\ [Next]_vars => IndInv'
  <2> SUFFICES ASSUME IndInv, [Next]_vars PROVE IndInv'
      OBVIOUS
  <2>1. CASE Next
        BY <2>1, NextInd
  <2>2. CASE UNCHANGED vars
    <3>1. UNCHANGED <<sent, inEnd, inbox, rbuf, quic, quicEnd, stopped, wbuf, outbox, outEnd, half,
                      fwd, conn, counters>>
          BY <2>2 DEF vars, originVars, streamVars
    <3>2. TypeOK'
          BY <3>1 DEF IndInv, TypeOK
    <3>3. \A o \in Side : OrderInv(o)'
          BY <3>1 DEF IndInv, OrderInv, InboxInv, WbufInv, StreamInv, RbufInv, Whole, Dropped,
                      Delivered, Taken, Written
    <3>4. \A o \in Side : FinishInv(o)' /\ ShutInv(o)' /\ ResultInv(o)'
          BY <3>1 DEF IndInv, FinishInv, ShutInv, ResultInv, Dropped, Delivered, Written
    <3> QED BY <3>2, <3>3, <3>4 DEF IndInv
  <2> QED BY <2>1, <2>2
<1> QED BY <1>1, <1>2, PTL DEF Spec, SafetySpec

\* In every reachable state the buffers of the two copies hold at most BufSize
\* bytes and the stream at most Window, whatever the sizes: back pressure is kept.
THEOREM TypeCorrect == Spec => []TypeOK
<1>1. IndInv => TypeOK
      BY DEF IndInv
<1> QED BY <1>1, Inductive, PTL

\* A loss of bytes or of an end is reported by an Err of one of the two
\* forwarders, although forward_bidirectional takes "error 0" for a success.
THEOREM LossIsReported == Spec => []LossReported
<1>1. IndInv => LossReported
  <2> SUFFICES ASSUME IndInv, \A s \in Side : fwd[s] \in Ended,
                      \A s \in Side : fwd[s] # "err",
                      NEW o \in Side
               PROVE  ~(Len(outbox[o]) < sent[o]) /\ outEnd[o] = "fin"
      BY DEF LossReported
  <2>0. PICK s \in Side : s = Other(o)
        BY Sides
  <2>1. fwd[o] = "ok" /\ fwd[s] = "ok"
        BY <2>0, Sides DEF IndInv, ResultInv, Ended
  <2>2. "toTcp" \in half[s] /\ ~Dropped(o) /\ ShutInv(o)
        BY <2>1 DEF IndInv, ResultInv, Dropped
  <2>3. outEnd[o] = "fin" /\ Delivered(o) = sent[o]
        BY <2>0, <2>2 DEF ShutInv
  <2>4. sent[o] \in Nat
        BY Typed DEF IndInv
  <2> QED BY <2>3, <2>4 DEF Delivered, Size
<1> QED BY <1>1, Inductive, PTL

\* Whoever returned Ok has counted what its TCP peer sent and was given, whoever
\* failed has counted nothing, and two results Ok have counted the same bytes.
THEOREM CountsAreEqual == Spec => []CountsAgree
<1>1. IndInv => CountsAgree
  <2> SUFFICES ASSUME IndInv PROVE CountsAgree
      OBVIOUS
  <2>1. ASSUME NEW s \in Side, fwd[s] = "ok"
        PROVE  counters.a[s] = sent[s] /\ counters.b[s] = Len(outbox[Other(s)])
        BY <2>1 DEF IndInv, ResultInv, Delivered, Size
  <2>2. ASSUME NEW s \in Side, fwd[s] # "ok"
        PROVE  counters.a[s] = 0 /\ counters.b[s] = 0
        BY <2>2 DEF IndInv, ResultInv
  <2>3. ASSUME \A s \in Side : fwd[s] = "ok", NEW o \in Side
        PROVE  counters.b[Other(o)] = counters.a[o]
    <3>0. PICK s \in Side : s = Other(o) /\ Other(s) = o
          BY Sides
    <3>1. counters.a[o] = sent[o] /\ counters.b[s] = Delivered(o)
          BY <2>3, <3>0 DEF IndInv, ResultInv
    <3>2. "toTcp" \in half[s] /\ ~Dropped(o) /\ ShutInv(o)
          BY <2>3 DEF IndInv, ResultInv, Dropped
    <3> QED BY <3>0, <3>1, <3>2 DEF ShutInv
  <2> QED BY <2>1, <2>2, <2>3 DEF CountsAgree
<1> QED BY <1>1, Inductive, PTL

--------------------------------------------------------------------------------
(* The two forwarders implement two pipes. *)

\* A byte that reaches TCP is the next one, and no end was shown before it.
LEMMA NextByte ==
    ASSUME IndInv, NEW s \in Side, NEW o \in Side, o = Other(s), Other(o) = s, WriteTcp(s)
    PROVE  Pipes!Receive(o)
<1>1. /\ outbox' = [outbox EXCEPT ![o] = Append(@, Head(wbuf[o]))]
      /\ UNCHANGED <<sent, outEnd>> /\ wbuf[o] # <<>> /\ "toTcp" \notin half[s] /\ fwd[s] = "copy"
      BY DEF WriteTcp, Copying, originVars
<1>2. TypeOK /\ WbufInv(o) /\ ShutInv(o) /\ Sizes(o) /\ wbuf[o] \in Seq(Byte)
      BY Typed DEF IndInv, OrderInv, Sizes, Size
<1>3. outEnd[o] = "open"
      BY <1>1, <1>2 DEF ShutInv, Dropped
<1>4. Delivered(o) \in Int /\ Size(wbuf[o]) > 0
      BY <1>1, <1>2, Shortened DEF Delivered, Sizes
<1>5. Head(wbuf[o]) = Delivered(o) + 1
      BY <1>1, <1>2, <1>4, RunShortened DEF WbufInv
<1>6. Delivered(o) < sent[o]
      BY <1>2, <1>4 DEF WbufInv, Delivered, Taken, Sizes
<1>7. Head(wbuf[o]) = Len(outbox[o]) + 1 /\ Len(outbox[o]) < sent[o]
      BY <1>5, <1>6 DEF Delivered, Size
<1> QED BY <1>1, <1>3, <1>7 DEF Pipes!Receive

\* What shows an end to the peer shows it once.
LEMMA EndShown ==
    ASSUME IndInv, NEW s \in Side, NEW o \in Side, o = Other(s), Other(o) = s,
           ShutTcp(s) \/ FwdErrorZero(s) \/ FwdError(s)
    PROVE  \/ \E how \in {"fin", "reset"} : Pipes!ShowEnd(o, how)
           \/ UNCHANGED <<sent, outbox, outEnd>>
<1>1. UNCHANGED <<sent, outbox>> /\ TypeOK
      BY DEF ShutTcp, FwdErrorZero, FwdError, DropBoth, DropQuic, originVars, IndInv
<1>2. CASE ShutTcp(s)
  <2>1. "toTcp" \notin half[s] /\ fwd[s] = "copy" /\ outEnd' = [outEnd EXCEPT ![o] = "fin"]
        BY <1>2 DEF ShutTcp, Copying
  <2>2. outEnd[o] = "open"
        BY <2>1 DEF IndInv, ShutInv, Dropped
  <2> QED BY <1>1, <2>1, <2>2 DEF Pipes!ShowEnd
<1>3. CASE FwdErrorZero(s) \/ FwdError(s)
  <2>1. outEnd' = [outEnd EXCEPT ![o] = IF @ # "open" THEN @ ELSE
                                        IF inbox[s] # <<>> THEN "reset" ELSE "fin"]
        BY <1>3 DEF FwdErrorZero, FwdError, DropBoth
  <2>2. CASE outEnd[o] # "open"
        BY <1>1, <2>1, <2>2 DEF TypeOK
  <2>3. CASE outEnd[o] = "open"
    <3>1. PICK how \in {"fin", "reset"} : outEnd' = [outEnd EXCEPT ![o] = how]
          BY <2>1, <2>3
    <3> QED BY <1>1, <2>3, <3>1 DEF Pipes!ShowEnd
  <2> QED BY <2>2, <2>3
<1> QED BY <1>2, <1>3

LEMMA PipesStep == ASSUME IndInv, Next PROVE Pipes!Next \/ UNCHANGED <<sent, outbox, outEnd>>
<1>1. ASSUME NEW o \in Side, PeerSends(o) PROVE Pipes!Send(o)
      BY <1>1 DEF PeerSends, Pipes!Send
<1>2. ASSUME NEW s \in Side,
             PeerEnds(s) \/ ReadTcp(s) \/ WriteQuic(s) \/ ReadQuic(s) \/ FinishQuic(s)
      PROVE  UNCHANGED <<sent, outbox, outEnd>>
      BY <1>2 DEF PeerEnds, ReadTcp, WriteQuic, ReadQuic, FinishQuic, originVars
<1>3. ASSUME NEW s \in Side, WriteTcp(s) PROVE \E o \in Side : Pipes!Receive(o)
      BY <1>3, Sides, NextByte
<1>4. ASSUME NEW s \in Side, ShutTcp(s) \/ FwdErrorZero(s) \/ FwdError(s)
      PROVE  \/ \E o \in Side : \E how \in {"fin", "reset"} : Pipes!ShowEnd(o, how)
             \/ UNCHANGED <<sent, outbox, outEnd>>
      BY <1>4, Sides, EndShown
<1>5. Client \/ ConnLost => UNCHANGED <<sent, outbox, outEnd>>
      BY DEF Client, AcceptBi, ConnectOk, ConnectFails, DropQuic, ConnLost, originVars
<1> QED BY <1>1, <1>2, <1>3, <1>4, <1>5 DEF Next, Forwarder, Pipes!Next

\* Bytes arrive in order, once, and never after the end the receiving peer was
\* shown: the two copies, the stream and its losses are two FIFO pipes.
THEOREM PipesImplemented == Spec => ImplementsPipes
<1>1. Init => Pipes!Init
      BY DEF Init, Pipes!Init
<1>2. IndInv /\ [Next]_vars => [Pipes!Next]_(Pipes!pipeVars)
  <2> SUFFICES ASSUME IndInv, [Next]_vars PROVE Pipes!Next \/ UNCHANGED Pipes!pipeVars
      OBVIOUS
  <2>1. CASE Next
        BY <2>1, PipesStep DEF Pipes!pipeVars
  <2>2. CASE UNCHANGED vars
        BY <2>2 DEF vars, originVars, Pipes!pipeVars
  <2> QED BY <2>1, <2>2
<1> QED BY <1>1, <1>2, Inductive, PTL DEF Spec, SafetySpec, ImplementsPipes, Pipes!Spec

--------------------------------------------------------------------------------
(* What two pipes promise, and therefore the two forwarders. *)

\* The receiving peer has the first bytes the sending peer sent, and no others.
Arrived == \A o \in Side : Run(outbox[o], 0) /\ Size(outbox[o]) <= sent[o]

LEMMA ArrivedStep ==
    ASSUME TypeOK, Arrived, Pipes!Next \/ UNCHANGED <<sent, outbox, outEnd>>
    PROVE  Arrived'
<1> SUFFICES ASSUME NEW o \in Side PROVE Run(outbox'[o], 0) /\ Size(outbox'[o]) <= sent'[o]
    BY DEF Arrived
<1>1. /\ Run(outbox[o], 0) /\ Size(outbox[o]) <= sent[o] /\ outbox[o] \in Seq(Byte)
      /\ sent[o] \in Nat /\ sent[o] <= MaxBytes /\ Size(outbox[o]) \in Nat
      BY Typed DEF Arrived, Size
<1>2. CASE \E r \in Side : Pipes!Receive(r)
  <2>1. PICK r \in Side : Pipes!Receive(r)
        BY <1>2
  <2>2. /\ UNCHANGED sent /\ Size(outbox[r]) < sent[r]
        /\ outbox' = [outbox EXCEPT ![r] = Append(@, Size(outbox[r]) + 1)]
        BY <2>1 DEF Pipes!Receive, Size
  <2>3. CASE r # o
        BY <1>1, <2>2, <2>3 DEF TypeOK
  <2>4. CASE r = o
    <3>1. outbox'[o] = Append(outbox[o], Size(outbox[o]) + 1)
          BY <2>2, <2>4 DEF TypeOK
    <3>2. Size(outbox[o]) + 1 \in Byte /\ Size(outbox[o]) + 1 = 0 + Size(outbox[o]) + 1
          BY <1>1, <2>2, <2>4 DEF Byte
    <3>3. Run(outbox'[o], 0)
          BY <1>1, <3>1, <3>2, RunAppended
    <3>4. Size(outbox'[o]) = Size(outbox[o]) + 1
          BY <1>1, <3>1, <3>2, Appended
    <3> QED BY <1>1, <2>2, <2>4, <3>3, <3>4
  <2> QED BY <2>3, <2>4
<1>3. CASE \E r \in Side : Pipes!Send(r)
  <2>1. PICK r \in Side : Pipes!Send(r)
        BY <1>3
  <2>2. UNCHANGED outbox /\ sent' = [sent EXCEPT ![r] = @ + 1]
        BY <2>1 DEF Pipes!Send
  <2>3. sent'[o] = sent[o] \/ sent'[o] = sent[o] + 1
        BY <2>2 DEF TypeOK
  <2> QED BY <1>1, <2>2, <2>3
<1>4. CASE UNCHANGED <<sent, outbox>>
      BY <1>1, <1>4
<1> QED BY <1>2, <1>3, <1>4 DEF Pipes!Next, Pipes!ShowEnd

\* At every moment the bytes delivered to a TCP peer are the first n bytes sent by
\* the other one, in order, whatever fails: copy_bidirectional, the BiStream and
\* both forwarders never lose one in the middle, repeat one or swap two.
THEOREM BytesInOrder ==
    Spec => [](\A o \in Side : /\ Len(outbox[o]) <= sent[o]
                               /\ \A i \in 1 .. Len(outbox[o]) : outbox[o][i] = i)
<1> DEFINE InOrder == \A o \in Side : /\ Len(outbox[o]) <= sent[o]
                                      /\ \A i \in 1 .. Len(outbox[o]) : outbox[o][i] = i
<1>1. Init => Arrived
      BY Empty DEF Init, Arrived
<1>2. IndInv /\ Arrived /\ [Next]_vars => Arrived'
  <2> SUFFICES ASSUME IndInv, Arrived, [Next]_vars PROVE Arrived'
      OBVIOUS
  <2>1. Pipes!Next \/ UNCHANGED <<sent, outbox, outEnd>>
        BY PipesStep DEF vars, originVars
  <2> QED BY <2>1, ArrivedStep DEF IndInv
<1>3. IndInv /\ Arrived => InOrder
  <2> SUFFICES ASSUME IndInv, Arrived, NEW o \in Side
               PROVE  /\ Len(outbox[o]) <= sent[o]
                      /\ \A i \in 1 .. Len(outbox[o]) : outbox[o][i] = i
      OBVIOUS
  <2>1. Len(outbox[o]) \in Nat
        BY Typed DEF IndInv
  <2> QED BY <2>1 DEF Arrived, Run, Size
<1> QED BY <1>1, <1>2, <1>3, Inductive, PTL DEF Spec, SafetySpec

================================================================================
