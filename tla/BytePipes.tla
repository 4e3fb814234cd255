------------------------------- MODULE BytePipes -------------------------------
(***************************************************************************)
(* What a forwarded connection promises, without forwarders and streams:   *)
(* a FIFO pipe for each direction.  The n-th byte sent is the number n.    *)
(* An end that is shown may come early, but nothing follows it.            *)
(***************************************************************************)
EXTENDS Naturals, Sequences

CONSTANTS
    Origins,   \* the two directions, named after where they start
    MaxBytes   \* bound: bytes sent in one direction

VARIABLES
    sent,      \* sent[o]: how many bytes have entered
    received,  \* received[o]: the bytes that have come out
    end        \* end[o]: "open", or the end that was shown: "fin" or "reset"

pipeVars == <<sent, received, end>>

Init ==
    /\ sent = [o \in Origins |-> 0]
    /\ received = [o \in Origins |-> <<>>]
    /\ end = [o \in Origins |-> "open"]

Send(o) ==
    /\ sent[o] < MaxBytes
    /\ sent' = [sent EXCEPT ![o] = @ + 1]
    /\ UNCHANGED <<received, end>>

Receive(o) ==
    /\ end[o] = "open"
    /\ Len(received[o]) < sent[o]
    /\ received' = [received EXCEPT ![o] = Append(@, Len(@) + 1)]
    /\ UNCHANGED <<sent, end>>

ShowEnd(o, how) ==
    /\ end[o] = "open"
    /\ end' = [end EXCEPT ![o] = how]
    /\ UNCHANGED <<sent, received>>

Next == \E o \in Origins : Send(o) \/ Receive(o) \/ \E how \in {"fin", "reset"} : ShowEnd(o, how)

Spec == Init /\ [][Next]_pipeVars

================================================================================
