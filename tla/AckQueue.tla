------------------------------ MODULE AckQueue ------------------------------
(***************************************************************************)
(* What a history of sent ACKs promises: a queue that keeps the newest     *)
(* Capacity of them, and that an ACK2 empties up to the ACK it answers.    *)
(***************************************************************************)
EXTENDS Integers, Sequences

CONSTANTS
  Capacity,  \* how many ACKs are kept
  Numbers,   \* ACK sub-sequence numbers
  Acks       \* the data sequence numbers that ACKs carry

VARIABLES
  queue,   \* the ACKs, oldest first
  answer   \* what the last ACK2 found: the data number, or -1

vars == <<queue, answer>>

Init ==
  /\ queue = <<>>
  /\ answer = -1

\* The oldest is given up when there is no room.
Store(seq, ack) ==
  /\ LET all == Append(queue, [seq |-> seq, ack |-> ack])
     IN  queue' = IF Len(queue) = Capacity THEN Tail(all) ELSE all
  /\ UNCHANGED answer

\* k is the first ACK of that number.
Acknowledge(seq, k) ==
  /\ queue[k].seq = seq
  /\ \A j \in 1 .. k - 1 : queue[j].seq # seq
  /\ answer' = queue[k].ack
  /\ queue' = SubSeq(queue, k + 1, Len(queue))

\* There is none: it was answered, passed over or given up.
Unknown(seq) ==
  /\ \A j \in 1 .. Len(queue) : queue[j].seq # seq
  /\ answer' = -1
  /\ UNCHANGED queue

Next ==
  \E seq \in Numbers :
    \/ \E ack \in Acks : Store(seq, ack)
    \/ \E k \in 1 .. Len(queue) : Acknowledge(seq, k)
    \/ Unknown(seq)

Spec == Init /\ [][Next]_vars

=============================================================================
