----------------------------- MODULE AckWindow -----------------------------
(***************************************************************************)
(* CACKWindow (window.cpp): the ring in which the receiving CUDT keeps the *)
(* ACKs it has sent until their ACK2s come, and its two callers: sendCtrl  *)
(* stores an ACK under the next sub-sequence number, which wraps round,    *)
(* and processCtrl looks up the number of an ACK2, which may be late or    *)
(* may come twice.                                                         *)
(*                                                                         *)
(* The time that a match also returns is left out.                         *)
(***************************************************************************)
EXTENDS Integers, Sequences

CONSTANTS
  Size,      \* m_iSize, 4096 in the program
  MaxAckNo,  \* m_iMaxAckSeqNo
  Acks       \* the data sequence numbers that ACKs carry

ASSUME AckWindowAssumption ==
  /\ Size \in Nat /\ Size >= 2
  /\ MaxAckNo \in Nat
  /\ Acks \subseteq Nat

VARIABLES
  ackSeqNo,  \* m_piACKSeqNo
  ack,       \* m_piACK
  head,      \* m_iHead
  tail,      \* m_iTail
  lastSeqNo, \* m_iAckSeqNo of the CUDT
  answer     \* what the last acknowledge found: the data number, or -1

ringVars == <<ackSeqNo, ack, head, tail, lastSeqNo, answer>>

Places == 0 .. Size - 1
Numbers == 0 .. MaxAckNo

\* CAckNo::incack
incack(seq) == IF seq = MaxAckNo THEN 0 ELSE seq + 1

After(i) == (i + 1) % Size

RingInit ==
  /\ ackSeqNo = [i \in Places |-> -1]
  /\ ack = [i \in Places |-> -1]
  /\ head = 0
  /\ tail = 0
  /\ lastSeqNo = 0
  /\ answer = -1

\* A slip: the tail does not make way when the ring is full.
StoreOverTail(a) ==
  /\ lastSeqNo' = incack(lastSeqNo)
  /\ ackSeqNo' = [ackSeqNo EXCEPT ![head] = lastSeqNo']
  /\ ack' = [ack EXCEPT ![head] = a]
  /\ head' = After(head)
  /\ UNCHANGED <<tail, answer>>

\* CACKWindow::store: the oldest ACK is overwritten when the ring is full.
Store(a) ==
  /\ lastSeqNo' = incack(lastSeqNo)
  /\ ackSeqNo' = [ackSeqNo EXCEPT ![head] = lastSeqNo']
  /\ ack' = [ack EXCEPT ![head] = a]
  /\ head' = After(head)
  /\ tail' = IF head' = tail THEN After(tail) ELSE tail
  /\ UNCHANGED answer

\* The places from the tail to the head, counted on beyond the end of the
\* array when the head is behind the tail.
Searched == tail .. (IF head >= tail THEN head ELSE head + Size) - 1

Matches(seq) == {i \in Searched : ackSeqNo[i % Size] = seq}

\* CACKWindow::acknowledge finds the first match, in place i: everything up
\* to there is done with.  With the last ACK the ring starts anew.
Acknowledge(seq, i) ==
  /\ i \in Matches(seq)
  /\ \A j \in Matches(seq) : i =< j
  /\ answer' = ack[i % Size]
  /\ IF (IF head >= tail THEN i + 1 = head ELSE i % Size = head)
     THEN /\ head' = 0
          /\ tail' = 0
          /\ ackSeqNo' = [ackSeqNo EXCEPT ![0] = -1]
     ELSE /\ tail' = After(i)
          /\ UNCHANGED <<head, ackSeqNo>>
  /\ UNCHANGED <<ack, lastSeqNo>>

\* Nothing matches.
Unknown(seq) ==
  /\ Matches(seq) = {}
  /\ answer' = -1
  /\ UNCHANGED <<ackSeqNo, ack, head, tail, lastSeqNo>>

RingNext ==
  \/ \E a \in Acks : Store(a)
  \/ \E seq \in Numbers :
       \/ \E i \in Searched : Acknowledge(seq, i)
       \/ Unknown(seq)

RingSpec == RingInit /\ [][RingNext]_ringVars

-----------------------------------------------------------------------------

Count == IF head >= tail THEN head - tail ELSE head - tail + Size

\* The place of the k-th ACK from the tail.
Place(k) == IF tail + k - 1 < Size THEN tail + k - 1 ELSE tail + k - 1 - Size

Contents ==
  [k \in 1 .. Count |-> [seq |-> ackSeqNo[Place(k)], ack |-> ack[Place(k)]]]

Queue == INSTANCE AckQueue WITH Capacity <- Size - 1, queue <- Contents

(***************************************************************************)
(* The ring is the queue of the newest Size - 1 ACKs: an ACK2 gets the     *)
(* data number that was stored under its number as long as no ACK of that  *)
(* place or a later one was answered and fewer than Size - 1 were stored   *)
(* since, and nothing otherwise, wherever in the array the ring happens to *)
(* stand (window.cpp, store and acknowledge).                              *)
(***************************************************************************)
ImplementsAckQueue == Queue!Spec

=============================================================================
