----------------------------- MODULE ByteStreams ----------------------------
(***************************************************************************)
(* What the relay of a TCP connection promises to its two peers, with no   *)
(* buffers, polls, wakers or timers: a byte stream in each direction.      *)
(* What arrives is what was sent, in order.  A stream is closed only after *)
(* its last byte, and the other one goes on.  The connection ends well     *)
(* only when both are closed, and is given up as idle only while both are  *)
(* open.  Bytes are numbered in the order they are sent.                   *)
(***************************************************************************)
EXTENDS Integers, Sequences

CONSTANT Dir          \* the two directions

VARIABLES
  sent,               \* how many bytes a peer has sent
  closed,             \* it has closed its side
  delivered,          \* the bytes passed on to the other peer
  shut,               \* the other peer has been told of the end
  result              \* how the connection ended

vars == <<sent, closed, delivered, shut, result>>

Init ==
  /\ sent = [d \in Dir |-> 0] /\ closed = [d \in Dir |-> FALSE]
  /\ delivered = [d \in Dir |-> <<>>] /\ shut = [d \in Dir |-> FALSE]
  /\ result = "none"

Send(d) ==
  /\ ~closed[d]
  /\ sent' = [sent EXCEPT ![d] = @ + 1]
  /\ UNCHANGED <<closed, delivered, shut, result>>

Close(d) ==
  /\ ~closed[d]
  /\ closed' = [closed EXCEPT ![d] = TRUE]
  /\ UNCHANGED <<sent, delivered, shut, result>>

\* The next n bytes.
Deliver(d) ==
  LET have == Len(delivered[d]) IN
  \E n \in 1 .. sent[d] - have :
  /\ ~shut[d]
  /\ delivered' = [delivered EXCEPT ![d] = @ \o [i \in 1 .. n |-> have + i]]
  /\ UNCHANGED <<sent, closed, shut, result>>

\* The end of the stream, after its last byte.
Shut(d) ==
  /\ closed[d] /\ ~shut[d]
  /\ Len(delivered[d]) = sent[d]
  /\ shut' = [shut EXCEPT ![d] = TRUE]
  /\ UNCHANGED <<sent, closed, delivered, result>>

End(r) ==
  /\ r = "Ok" => \A d \in Dir : shut[d]
  /\ r = "Error" => \E d \in Dir : ~shut[d]
  /\ r = "Timeout" => \A d \in Dir : ~shut[d]
  /\ result' = r
  /\ UNCHANGED <<sent, closed, delivered, shut>>

Next ==
  /\ result = "none"
  /\ \/ \E d \in Dir : Send(d) \/ Close(d) \/ Deliver(d) \/ Shut(d)
     \/ \E r \in {"Ok", "Error", "Timeout"} : End(r)

Spec == Init /\ [][Next]_vars
=============================================================================
