------------------------------ MODULE UdtStream ------------------------------
(***************************************************************************)
(* One direction of a UDT connection: the sending CUDT with its buffer,    *)
(* its loss list and its place on the sending queue; the receiving CUDT    *)
(* with its buffer and its loss list; a network that loses, duplicates and *)
(* reorders; and the threads of both machines.                             *)
(*                                                                         *)
(* The first sequence number is 1, and block k is sent under number k.     *)
(* Numbers do not wrap here.  Of the loss lists there is what they contain.*)
(***************************************************************************)
EXTENDS Integers, Sequences, FiniteSets, FiniteSetsExt

CONSTANTS
  MaxBlocks,   \* bound on the number of blocks put in
  SndBuf,      \* blocks that may be in the send buffer (m_iSndBufSize)
  Ring,        \* blocks in its circular list (m_iSize)
  RcvSize,     \* slots of the receive buffer
  DataRoom,    \* bounds on the packets in the network: data,
  AckRoom,     \* ACKs,
  ControlRoom, \* NAKs and ACK2s
  MayBreak     \* the connection may break

ASSUME MaxBlocksType == MaxBlocks \in Nat
ASSUME SndBufType == SndBuf \in Nat \ {0}
ASSUME RingType == Ring \in Nat /\ SndBuf < Ring
ASSUME RcvSizeType == RcvSize \in Nat /\ RcvSize >= 2
ASSUME MayBreakType == MayBreak \in BOOLEAN

Ends == {"sender", "receiver"}
Lite == -1  \* stands for the window that a lite ACK does not carry
Nil == [seq |-> 0, slot |-> 0]

VARIABLES
  ring,           \* the number of the block that a place of the list holds
  lastBlock,      \* the number of the block that is put in next,
  currBlock,      \*   sent for the first time next,
  firstBlock,     \*   released next
  sndCurr,        \* m_iSndCurrSeqNo
  sndLastAck,     \* m_iSndLastAck
  sndLastDataAck, \* m_iSndLastDataAck
  window,         \* m_iFlowWindowSize
  sndLoss,        \* the sender's loss list
  scheduled,      \* the socket is on the CSndUList
  wakes,          \* who is about to put it there: the application, the
                  \* thread of the sender's CRcvQueue
  worker,         \* CSndQueue::worker: "idle", "lost" (it has a lost number
                  \* and holds the lock of the list) or "send"
  packet,         \* its packet: the number, the place its data points to
  unit,           \* the receive buffer: the block in a slot, 0 for NULL
  startPos,       \* m_iStartPos
  lastAckPos,     \* m_iLastAckPos
  rcvCurr,        \* m_iRcvCurrSeqNo
  rcvLastAck,     \* m_iRcvLastAck
  rcvLastAckAck,  \* m_iRcvLastAckAck
  rcvLoss,        \* the receiver's loss list
  got,            \* the blocks that the application has read
  data,           \* data packets in the network: number and block
  acks,           \* ACKs: the number and the window
  naks,           \* NAKs: the sets of numbers
  ack2s,          \* ACK2s: the data number of the ACK they answer
  broken          \* the ends at which m_bBroken is set

sndBuffer == <<ring, lastBlock, currBlock, firstBlock>>
sndNumbers == <<sndCurr, sndLastAck, sndLastDataAck, window>>
sndQueue == <<scheduled, wakes, worker, packet>>
sender == <<sndBuffer, sndNumbers, sndLoss, sndQueue>>
rcvBuffer == <<unit, startPos, lastAckPos, got>>
rcvNumbers == <<rcvCurr, rcvLastAck, rcvLastAckAck, rcvLoss>>
receiver == <<rcvBuffer, rcvNumbers>>
network == <<data, acks, naks, ack2s>>
vars == <<sender, receiver, network, broken>>

Init ==
  /\ ring = [place \in 0..(Ring - 1) |-> 0]
  /\ lastBlock = 1 /\ currBlock = 1 /\ firstBlock = 1
  /\ sndCurr = 0 /\ sndLastAck = 1 /\ sndLastDataAck = 1
  /\ window = RcvSize
  /\ sndLoss = {}
  /\ scheduled = FALSE /\ wakes = {} /\ worker = "idle" /\ packet = Nil
  /\ unit = [slot \in 0..(RcvSize - 1) |-> 0]
  /\ startPos = 0 /\ lastAckPos = 0
  /\ rcvCurr = 0 /\ rcvLastAck = 1 /\ rcvLastAckAck = 1
  /\ rcvLoss = {} /\ got = <<>>
  /\ data = {} /\ acks = {} /\ naks = {} /\ ack2s = {}
  /\ broken = {}

Up(end) == end \notin broken

-----------------------------------------------------------------------------
(* The network.  What is sent when there is no room displaces something;   *)
(* what is received may come again.                                        *)

Sent(net, p, room) ==
  IF p \in net \/ Cardinality(net) < room
    THEN {net \cup {p}}
    ELSE {(net \ {old}) \cup {p} : old \in net}

Received(net, p) == {net, net \ {p}}

Lose ==
  /\ \/ \E p \in data : data' = data \ {p} /\ UNCHANGED <<acks, naks, ack2s>>
     \/ \E p \in acks : acks' = acks \ {p} /\ UNCHANGED <<data, naks, ack2s>>
     \/ \E p \in naks : naks' = naks \ {p} /\ UNCHANGED <<data, acks, ack2s>>
     \/ \E p \in ack2s : ack2s' = ack2s \ {p} /\ UNCHANGED <<data, acks, naks>>
  /\ UNCHANGED <<sender, receiver, broken>>

(* Shutdown, a peer that is not heard of, or a close. *)
Break(end) ==
  /\ MayBreak
  /\ broken' = broken \cup {end}
  /\ UNCHANGED <<sender, receiver, network>>

-----------------------------------------------------------------------------
(* The sending application.                                                *)

Place(block) == block % Ring

(* A slip: only the ring limits what is put in, by one too late. *)
PutLate ==
  /\ Up("sender") /\ "app" \notin wakes
  /\ lastBlock <= MaxBlocks /\ lastBlock - firstBlock <= Ring
  /\ ring' = [ring EXCEPT ![Place(lastBlock)] = lastBlock]
  /\ lastBlock' = lastBlock + 1
  /\ wakes' = wakes \cup {"app"}
  /\ UNCHANGED <<currBlock, firstBlock, sndNumbers, sndLoss, scheduled, worker,
                 packet, receiver, network, broken>>

Put ==
  /\ Up("sender") /\ "app" \notin wakes
  /\ lastBlock <= MaxBlocks /\ lastBlock - firstBlock < SndBuf
  /\ ring' = [ring EXCEPT ![Place(lastBlock)] = lastBlock]
  /\ lastBlock' = lastBlock + 1
  /\ wakes' = wakes \cup {"app"}
  /\ UNCHANGED <<currBlock, firstBlock, sndNumbers, sndLoss, scheduled, worker,
                 packet, receiver, network, broken>>

(* CSndUList::update.  The worker holds the lock of the list from pop until *)
(* it has its packet.                                                      *)
Update(who) ==
  /\ who \in wakes /\ worker # "lost"
  /\ scheduled' = TRUE
  /\ wakes' = wakes \ {who}
  /\ UNCHANGED <<sndBuffer, sndNumbers, sndLoss, worker, packet, receiver,
                 network, broken>>

-----------------------------------------------------------------------------
(* The worker of the sending queue: pop and packData.                      *)

(* The socket comes off the list; what is lost has priority.               *)
PopLost ==
  /\ Up("sender") /\ worker = "idle" /\ scheduled /\ sndLoss # {}
  /\ scheduled' = FALSE
  /\ worker' = "lost"
  /\ packet' = [seq |-> Min(sndLoss), slot |-> 0]
  /\ sndLoss' = sndLoss \ {Min(sndLoss)}
  /\ UNCHANGED <<sndBuffer, sndNumbers, wakes, receiver, network, broken>>

(* A slip: the offset from the last ACK of any kind. *)
RetransmitFromLastAck ==
  LET offset == packet.seq - sndLastAck IN
  /\ worker = "lost"
  /\ IF offset < 0
       THEN worker' = "idle" /\ packet' = Nil /\ UNCHANGED scheduled
       ELSE /\ worker' = "send" /\ scheduled' = TRUE
            /\ packet' = [packet EXCEPT !.slot = Place(firstBlock + offset)]
  /\ UNCHANGED <<sndBuffer, sndNumbers, sndLoss, wakes, receiver, network,
                 broken>>

(* Under the AckLock: a number that was acknowledged meanwhile leaves the  *)
(* socket off the list.                                                    *)
Retransmit ==
  LET offset == packet.seq - sndLastDataAck IN
  /\ worker = "lost"
  /\ IF offset < 0
       THEN worker' = "idle" /\ packet' = Nil /\ UNCHANGED scheduled
       ELSE /\ worker' = "send" /\ scheduled' = TRUE
            /\ packet' = [packet EXCEPT !.slot = Place(firstBlock + offset)]
  /\ UNCHANGED <<sndBuffer, sndNumbers, sndLoss, wakes, receiver, network,
                 broken>>

(* The window counts what is not acknowledged and the new packet.          *)
PopNew ==
  /\ Up("sender") /\ worker = "idle" /\ scheduled /\ sndLoss = {}
  /\ IF window >= sndCurr + 1 - sndLastAck + 1 /\ currBlock < lastBlock
       THEN /\ worker' = "send"
            /\ packet' = [seq |-> sndCurr + 1, slot |-> Place(currBlock)]
            /\ currBlock' = currBlock + 1
            /\ sndCurr' = sndCurr + 1
            /\ UNCHANGED scheduled
       ELSE /\ scheduled' = FALSE
            /\ UNCHANGED <<worker, packet, currBlock, sndCurr>>
  /\ UNCHANGED <<ring, lastBlock, firstBlock, sndLastAck, sndLastDataAck,
                 window, sndLoss, wakes, receiver, network, broken>>

(* The packet points into the buffer: what is sent is what is there now.   *)
SendTo ==
  /\ worker = "send"
  /\ data' \in Sent(data, [seq |-> packet.seq, block |-> ring[packet.slot]],
                    DataRoom)
  /\ worker' = "idle" /\ packet' = Nil
  /\ UNCHANGED <<sndBuffer, sndNumbers, sndLoss, scheduled, wakes, receiver,
                 acks, naks, ack2s, broken>>

-----------------------------------------------------------------------------
(* The thread of the sender's CRcvQueue: processCtrl and checkTimers.  It  *)
(* waits for the list when it has to wake the worker.                      *)

Listening == Up("sender") /\ "rcvq" \notin wakes

RecvLiteAck(p) ==
  /\ Listening /\ p \in acks /\ p.window = Lite
  /\ acks' \in Received(acks, p)
  /\ IF p.ack >= sndLastAck
       THEN /\ window' = window - (p.ack - sndLastAck)
            /\ sndLastAck' = p.ack
       ELSE UNCHANGED <<window, sndLastAck>>
  /\ UNCHANGED <<sndBuffer, sndCurr, sndLastDataAck, sndLoss, sndQueue,
                 receiver, data, naks, ack2s, broken>>

(* "attack or bug" *)
Accuse ==
  /\ broken' = broken \cup {"sender"}
  /\ UNCHANGED <<sndBuffer, sndNumbers, sndLoss, wakes>>

(* A slip: nobody is woken. *)
AcknowledgeQuietly(p) ==
  /\ IF p.ack >= sndLastAck
       THEN window' = p.window /\ sndLastAck' = p.ack
       ELSE UNCHANGED <<window, sndLastAck>>
  /\ IF p.ack > sndLastDataAck
       THEN /\ firstBlock' = firstBlock + (p.ack - sndLastDataAck)
            /\ sndLastDataAck' = p.ack
            /\ sndLoss' = {seq \in sndLoss : seq >= p.ack}
       ELSE UNCHANGED <<firstBlock, sndLastDataAck, sndLoss>>
  /\ UNCHANGED <<ring, lastBlock, currBlock, sndCurr, wakes, broken>>

(* What an ACK in order does: the window with the number, and, under the   *)
(* AckLock, the release of the blocks.  What is repeated wakes nobody.     *)
Acknowledge(p) ==
  /\ IF p.ack >= sndLastAck
       THEN window' = p.window /\ sndLastAck' = p.ack
       ELSE UNCHANGED <<window, sndLastAck>>
  /\ IF p.ack > sndLastDataAck
       THEN /\ firstBlock' = firstBlock + (p.ack - sndLastDataAck)
            /\ sndLastDataAck' = p.ack
            /\ sndLoss' = {seq \in sndLoss : seq >= p.ack}
            /\ wakes' = wakes \cup {"rcvq"}
       ELSE UNCHANGED <<firstBlock, sndLastDataAck, sndLoss, wakes>>
  /\ UNCHANGED <<ring, lastBlock, currBlock, sndCurr, broken>>

(* An ACK2 goes out first, unless the last one was a moment ago.           *)
RecvAck(p, answered) ==
  /\ Listening /\ p \in acks /\ p.window # Lite
  /\ acks' \in Received(acks, p)
  /\ IF answered THEN ack2s' \in Sent(ack2s, p.ack, ControlRoom)
                 ELSE UNCHANGED ack2s
  /\ IF p.ack > sndCurr + 1 THEN Accuse ELSE Acknowledge(p)
  /\ UNCHANGED <<scheduled, worker, packet, receiver, data, naks>>

RecvNak(p) ==
  /\ Listening /\ p \in naks
  /\ naks' \in Received(naks, p)
  /\ IF \E seq \in p : seq > sndCurr
       THEN Accuse
       ELSE /\ sndLoss' = sndLoss \cup {seq \in p : seq >= sndLastAck}
            /\ wakes' = wakes \cup {"rcvq"}
            /\ UNCHANGED <<sndBuffer, sndNumbers, broken>>
  /\ UNCHANGED <<scheduled, worker, packet, receiver, data, acks, ack2s>>

(* A slip: everything that is in the buffer is lost. *)
ExpAll ==
  /\ Listening /\ lastBlock - firstBlock > 0
  /\ sndLoss' = sndLoss \cup sndLastAck..(lastBlock - 1)
  /\ wakes' = wakes \cup {"rcvq"}
  /\ UNCHANGED <<sndBuffer, sndNumbers, scheduled, worker, packet, receiver,
                 network, broken>>

(* The EXP timer: everything that was sent after the last ACK is lost.     *)
Exp ==
  /\ Listening /\ lastBlock - firstBlock > 0
  /\ sndLoss' = sndLoss \cup sndLastAck..sndCurr
  /\ wakes' = wakes \cup {"rcvq"}
  /\ UNCHANGED <<sndBuffer, sndNumbers, scheduled, worker, packet, receiver,
                 network, broken>>

-----------------------------------------------------------------------------
(* The thread of the receiver's CRcvQueue: processData and checkTimers.    *)

RcvDataSize(start, lastack) ==
  IF lastack >= start THEN lastack - start ELSE RcvSize + lastack - start

(* A slip: no slot is left empty. *)
AvailBufSizeFull(start, lastack) == RcvSize - RcvDataSize(start, lastack)

(* One slot is always empty. *)
AvailBufSize(start, lastack) == RcvSize - RcvDataSize(start, lastack) - 1

(* A slip: what was sent again stays in the loss list. *)
RecvDataStillLost(p) ==
  LET offset == p.seq - rcvLastAck
      slot == (lastAckPos + offset) % RcvSize
      gap == (rcvCurr + 1)..(p.seq - 1)
  IN
  /\ Up("receiver") /\ p \in data
  /\ data' \in Received(data, p)
  /\ IF offset >= 0 /\ offset < AvailBufSize(startPos, lastAckPos)
        /\ unit[slot] = 0
       THEN /\ unit' = [unit EXCEPT ![slot] = p.block]
            /\ rcvLoss' = rcvLoss \cup gap
            /\ IF gap # {} THEN naks' \in Sent(naks, gap, ControlRoom)
                           ELSE UNCHANGED naks
            /\ rcvCurr' = IF p.seq > rcvCurr THEN p.seq ELSE rcvCurr
       ELSE UNCHANGED <<unit, rcvLoss, naks, rcvCurr>>
  /\ UNCHANGED <<sender, startPos, lastAckPos, got, rcvLastAck, rcvLastAckAck,
                 acks, ack2s, broken>>

(* What has no room, was there before, or is older is dropped.  A gap      *)
(* behind the largest number is reported at once.                          *)
RecvData(p) ==
  LET offset == p.seq - rcvLastAck
      slot == (lastAckPos + offset) % RcvSize
      gap == (rcvCurr + 1)..(p.seq - 1)
  IN
  /\ Up("receiver") /\ p \in data
  /\ data' \in Received(data, p)
  /\ IF offset >= 0 /\ offset < AvailBufSize(startPos, lastAckPos)
        /\ unit[slot] = 0
       THEN /\ unit' = [unit EXCEPT ![slot] = p.block]
            /\ rcvLoss' = (rcvLoss \cup gap) \ {p.seq}
            /\ IF gap # {} THEN naks' \in Sent(naks, gap, ControlRoom)
                           ELSE UNCHANGED naks
            /\ rcvCurr' = IF p.seq > rcvCurr THEN p.seq ELSE rcvCurr
       ELSE UNCHANGED <<unit, rcvLoss, naks, rcvCurr>>
  /\ UNCHANGED <<sender, startPos, lastAckPos, got, rcvLastAck, rcvLastAckAck,
                 acks, ack2s, broken>>

(* The number of an ACK: the first that is missing. *)
NextExpected == IF rcvLoss = {} THEN rcvCurr + 1 ELSE Min(rcvLoss)

SendLiteAck ==
  /\ Up("receiver") /\ NextExpected # rcvLastAckAck
  /\ acks' \in Sent(acks, [ack |-> NextExpected, window |-> Lite], AckRoom)
  /\ UNCHANGED <<sender, receiver, data, naks, ack2s, broken>>

(* A slip: no window is offered when there is no room. *)
SendAckClosed ==
  LET room == AvailBufSize(startPos, lastAckPos') IN
  /\ Up("receiver") /\ NextExpected # rcvLastAckAck
  /\ NextExpected >= rcvLastAck
  /\ lastAckPos' = (lastAckPos + (NextExpected - rcvLastAck)) % RcvSize
  /\ rcvLastAck' = NextExpected
  /\ IF rcvLastAck' > rcvLastAckAck
       THEN acks' \in Sent(acks, [ack |-> rcvLastAck', window |-> room], AckRoom)
       ELSE UNCHANGED acks
  /\ UNCHANGED <<sender, unit, startPos, got, rcvCurr, rcvLastAckAck, rcvLoss,
                 data, naks, ack2s, broken>>

(* The ACK timer.  The buffer is moved on for the application, and a       *)
(* window of 2 is offered even if there is no room.                        *)
SendAck ==
  LET room == AvailBufSize(startPos, lastAckPos') IN
  /\ Up("receiver") /\ NextExpected # rcvLastAckAck
  /\ NextExpected >= rcvLastAck
  /\ lastAckPos' = (lastAckPos + (NextExpected - rcvLastAck)) % RcvSize
  /\ rcvLastAck' = NextExpected
  /\ IF rcvLastAck' > rcvLastAckAck
       THEN acks' \in Sent(acks, [ack |-> rcvLastAck',
                                  window |-> IF room < 2 THEN 2 ELSE room],
                           AckRoom)
       ELSE UNCHANGED acks
  /\ UNCHANGED <<sender, unit, startPos, got, rcvCurr, rcvLastAckAck, rcvLoss,
                 data, naks, ack2s, broken>>

(* The NAK timer: all that is lost. *)
SendNak ==
  /\ Up("receiver") /\ rcvLoss # {}
  /\ naks' \in Sent(naks, rcvLoss, ControlRoom)
  /\ UNCHANGED <<sender, receiver, data, acks, ack2s, broken>>

RecvAck2(a) ==
  /\ Up("receiver") /\ a \in ack2s
  /\ ack2s' \in Received(ack2s, a)
  /\ rcvLastAckAck' = IF a > rcvLastAckAck THEN a ELSE rcvLastAckAck
  /\ UNCHANGED <<sender, rcvBuffer, rcvCurr, rcvLastAck, rcvLoss, data, acks,
                 naks, broken>>

-----------------------------------------------------------------------------
(* The receiving application.                                              *)

Get ==
  /\ startPos # lastAckPos
  /\ got' = Append(got, unit[startPos])
  /\ unit' = [unit EXCEPT ![startPos] = 0]
  /\ startPos' = IF startPos + 1 = RcvSize THEN 0 ELSE startPos + 1
  /\ UNCHANGED <<sender, lastAckPos, rcvNumbers, network, broken>>

-----------------------------------------------------------------------------

Next ==
  \/ Put \/ \E who \in {"app", "rcvq"} : Update(who)
  \/ PopLost \/ Retransmit \/ PopNew \/ SendTo
  \/ \E p \in acks : RecvLiteAck(p) \/ \E answered \in BOOLEAN : RecvAck(p, answered)
  \/ \E p \in naks : RecvNak(p)
  \/ Exp
  \/ \E p \in data : RecvData(p)
  \/ SendLiteAck \/ SendAck \/ SendNak
  \/ \E a \in ack2s : RecvAck2(a)
  \/ Get
  \/ Lose \/ \E end \in Ends : Break(end)

Spec == Init /\ [][Next]_vars

(* The receipt, for the last time, of the packet that the receiver waits   *)
(* for, of the ACK that says so, and of its answer.                        *)
RecvExpected ==
  \E p \in data : p.seq = NextExpected /\ data' = data \ {p} /\ RecvData(p)

RecvLatestAck ==
  \E p \in acks : p.ack = rcvLastAck /\ acks' = acks \ {p} /\ RecvAck(p, TRUE)

RecvLatestAck2 ==
  \E a \in ack2s : a = rcvLastAck /\ ack2s' = ack2s \ {a} /\ RecvAck2(a)

(* Threads that can run do, the ACK timer and the EXP timer among them; an *)
(* ACK or a NAK that arrives puts the EXP timer off.  The network may lose *)
(* much, but not every copy of those three packets; an ACK may arrive when *)
(* the thread that reads it waits for a lock, and it is read then.         *)
Fairness ==
  /\ WF_vars(PopLost \/ Retransmit \/ PopNew \/ SendTo)
  /\ \A who \in {"app", "rcvq"} : WF_vars(Update(who))
  /\ WF_vars(\/ Exp
             \/ \E p \in acks, answered \in BOOLEAN :
                  acks' = acks \ {p} /\ RecvAck(p, answered)
             \/ \E p \in naks : naks' = naks \ {p} /\ RecvNak(p))
  /\ WF_vars(SendAck) /\ WF_vars(Get)
  /\ SF_vars(RecvExpected) /\ SF_vars(RecvLatestAck2)
  /\ []<>(Up("sender") /\ \E p \in acks : p.ack = rcvLastAck /\ p.window # Lite)
       => []<><<RecvLatestAck>>_vars

FairSpec == Spec /\ Fairness

-----------------------------------------------------------------------------
(* Properties.                                                             *)

SenderType ==
  /\ ring \in [0..(Ring - 1) -> 0..MaxBlocks]
  /\ lastBlock \in 1..(MaxBlocks + 1)
  /\ currBlock \in 1..(MaxBlocks + 1)
  /\ firstBlock \in 1..(MaxBlocks + 1)
  /\ sndCurr \in 0..MaxBlocks
  /\ sndLastAck \in 1..(MaxBlocks + 1)
  /\ sndLastDataAck \in 1..(MaxBlocks + 1)
  /\ window \in Int
  /\ sndLoss \subseteq 1..MaxBlocks

QueueType ==
  /\ scheduled \in BOOLEAN
  /\ wakes \subseteq {"app", "rcvq"}
  /\ worker \in {"idle", "lost", "send"}
  /\ packet \in [seq : 0..MaxBlocks, slot : 0..(Ring - 1)]

ReceiverType ==
  /\ unit \in [0..(RcvSize - 1) -> 0..MaxBlocks]
  /\ startPos \in 0..(RcvSize - 1)
  /\ lastAckPos \in 0..(RcvSize - 1)
  /\ rcvCurr \in 0..MaxBlocks
  /\ rcvLastAck \in 1..(MaxBlocks + 1)
  /\ rcvLastAckAck \in 1..(MaxBlocks + 1)
  /\ rcvLoss \subseteq 1..MaxBlocks
  /\ got \in Seq(0..MaxBlocks)

NetworkType ==
  /\ data \subseteq [seq : 1..MaxBlocks, block : 0..MaxBlocks]
  /\ acks \subseteq [ack : 1..(MaxBlocks + 1), window : Int]
  /\ naks \subseteq SUBSET (1..MaxBlocks)
  /\ ack2s \subseteq 1..(MaxBlocks + 1)
  /\ broken \subseteq Ends

TypeOK == SenderType /\ QueueType /\ ReceiverType /\ NetworkType

Streams == INSTANCE Stream WITH put <- lastBlock - 1

(* The application gets the blocks that were put in, in order, none twice  *)
(* and none left out, whatever the network and the threads do.             *)
ImplementsStream == Streams!Spec

(* The two checks of processCtrl that take the peer for an attacker never  *)
(* meet an honest one, however late his packets are.                       *)
NeverAccused ==
  Up("sender") =>
    /\ \A p \in acks : p.ack <= sndCurr + 1
    /\ \A p \in naks : \A seq \in p : seq <= sndCurr

(* The sender forgets nothing that is still needed: what it has released   *)
(* has reached the receiver, and the block of every packet on its way that *)
(* the receiver may still take is the right one.  (A packet points into    *)
(* the buffer without a lock, and its place may be given to another block  *)
(* before it is sent.)                                                     *)
ReleasedIsReceived ==
  /\ firstBlock <= rcvLastAck
  /\ \A p \in data : p.seq >= rcvLastAck => p.block = p.seq

(* The receiver's loss list is exactly what is missing below the largest   *)
(* number, and what it has acknowledged is in the buffer or was read.      *)
LossListIsExact ==
  /\ rcvLoss = {seq \in rcvLastAck..rcvCurr :
                  unit[(lastAckPos + (seq - rcvLastAck)) % RcvSize] = 0}
  /\ RcvDataSize(startPos, lastAckPos) = rcvLastAck - 1 - Len(got)

(* What is in the sender's loss list will be sent: the worker is at work,  *)
(* the socket is on its list, or somebody is about to put it there.        *)
LossesAreScheduled ==
  Up("sender") /\ sndLoss # {} /\ worker = "idle" => scheduled \/ wakes # {}

(* What was put in is read in the end, and its place released, unless the  *)
(* connection breaks.                                                      *)
EverythingArrives ==
  \A k \in 1..MaxBlocks :
    lastBlock > k ~> (Len(got) >= k /\ firstBlock > k) \/ broken # {}

-----------------------------------------------------------------------------
(* What makes the properties inductive.                                    *)

(* The pointers into the send buffer and the sequence numbers agree, and   *)
(* what is not yet released is where the list says.                        *)
SenderInOrder ==
  /\ firstBlock = sndLastDataAck /\ currBlock = sndCurr + 1
  /\ sndLastDataAck <= sndLastAck /\ sndLastAck <= sndCurr + 1
  /\ currBlock <= lastBlock /\ lastBlock - firstBlock <= SndBuf
  /\ \A block \in firstBlock..(lastBlock - 1) : ring[Place(block)] = block
  /\ \A seq \in sndLoss : sndLastDataAck <= seq /\ seq <= sndCurr

(* Even after the AckLock was released, a packet points to the place of    *)
(* its block.                                                              *)
PacketInPlace ==
  /\ worker # "idle" => packet.seq \in 1..sndCurr
  /\ worker = "send" => packet.slot = Place(packet.seq)

Slot(seq) == (seq - 1) % RcvSize

(* A slot of the receive buffer holds the next block of those that share   *)
(* it, or nothing; the slot in front of the first one is empty.            *)
ReceiverInOrder ==
  /\ \A i \in 1..Len(got) : got[i] = i
  /\ Len(got) < rcvLastAck /\ rcvLastAck <= rcvCurr + 1
  /\ rcvCurr < Len(got) + RcvSize
  /\ startPos = Slot(Len(got) + 1) /\ lastAckPos = Slot(rcvLastAck)
  /\ \A seq \in rcvLoss : rcvLastAck <= seq /\ seq < rcvCurr
  /\ \A seq \in (Len(got) + 1)..(Len(got) + RcvSize) :
       unit[Slot(seq)] = IF seq <= rcvCurr /\ seq \notin rcvLoss THEN seq ELSE 0

(* What the ends know of each other, directly or by a packet on its way.   *)
EndsAgree ==
  /\ rcvCurr <= sndCurr
  /\ sndLastDataAck <= rcvLastAck /\ rcvLastAckAck <= rcvLastAck
  /\ sndLastAck <= rcvCurr + 1 /\ \A seq \in rcvLoss : sndLastAck <= seq
  /\ \A p \in data :
       p.seq <= sndCurr /\ (p.seq >= rcvLastAck => p.block = p.seq)
  /\ \A p \in acks :
       /\ p.ack <= rcvCurr + 1 /\ \A seq \in rcvLoss : p.ack <= seq
       /\ p.window # Lite => p.ack <= rcvLastAck
  /\ \A p \in naks : \A seq \in p : seq <= rcvCurr
  /\ \A a \in ack2s : a <= rcvLastAck

(* A socket that leaves the list for a number that was acknowledged while  *)
(* it was popped is put there again: the thread that read the ACK waits.   *)
QueueInOrder ==
  /\ worker = "send" => scheduled
  /\ worker = "lost" /\ packet.seq < sndLastDataAck => "rcvq" \in wakes
  /\ LossesAreScheduled

IInv ==
  /\ TypeOK /\ SenderInOrder /\ PacketInPlace /\ ReceiverInOrder /\ EndsAgree
  /\ QueueInOrder

=============================================================================
