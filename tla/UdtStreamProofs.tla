--------------------------- MODULE UdtStreamProofs ---------------------------
(***************************************************************************)
(* Theorems about UdtStream, for any number of blocks, any sizes of the    *)
(* buffers and of the windows, and any room in the network.                *)
(*                                                                         *)
(* The receive buffer is a window that slides over the sequence numbers:   *)
(* a number in it and its slot determine each other, and everything else   *)
(* is about numbers.  Of the network only this matters, that what is       *)
(* received was sent.                                                      *)
(***************************************************************************)
EXTENDS UdtStream, WellFoundedInduction, TLAPS

-----------------------------------------------------------------------------
(* Remainders.                                                             *)

LEMMA DivMod ==
  ASSUME NEW R \in Nat \ {0}, NEW a \in Int
  PROVE  /\ a % R \in 0..(R - 1) /\ a \div R \in Int
         /\ a = R * (a \div R) + (a % R)
OBVIOUS

LEMMA DivModUnique ==
  ASSUME NEW R \in Nat \ {0}, NEW p \in Int, NEW q \in Int,
         NEW r \in 0..(R - 1), NEW s \in 0..(R - 1), R * p + r = R * q + s
  PROVE  r = s
<1>1. CASE p < q
  <2>1. q >= p + 1
    BY <1>1
  <2>2. R * q >= R * (p + 1)
    BY <2>1
  <2>3. R * (p + 1) = R * p + R
    OBVIOUS
  <2> QED BY <2>2, <2>3
<1>2. CASE p > q
  <2>1. p >= q + 1
    BY <1>2
  <2>2. R * p >= R * (q + 1)
    BY <2>1
  <2>3. R * (q + 1) = R * q + R
    OBVIOUS
  <2> QED BY <2>2, <2>3
<1>3. CASE p = q
  BY <1>3
<1> QED BY <1>1, <1>2, <1>3

LEMMA ModPlus ==
  ASSUME NEW R \in Nat \ {0}, NEW a \in Int, NEW b \in Int
  PROVE  ((a % R) + b) % R = (a + b) % R
<1> DEFINE q == a \div R         r == a % R
           q3 == (a + b) \div R  r3 == (a + b) % R
<1>1. q \in Int /\ r \in 0..(R - 1) /\ a = R * q + r
  BY DivMod
<1>2. a + b \in Int
  OBVIOUS
<1>3. q3 \in Int /\ r3 \in 0..(R - 1) /\ a + b = R * q3 + r3
  BY DivMod, <1>2
<1> HIDE DEF q, r, q3, r3
<1> DEFINE q2 == (r + b) \div R  r2 == (r + b) % R
<1>4. r + b \in Int
  BY <1>1
<1>5. q2 \in Int /\ r2 \in 0..(R - 1) /\ r + b = R * q2 + r2
  BY DivMod, <1>4
<1> HIDE DEF q2, r2
<1>6. R * (q + q2) = R * q + R * q2 /\ q + q2 \in Int
  BY <1>1, <1>5
<1>7. R * (q + q2) + r2 = R * q3 + r3
  BY <1>1, <1>5, <1>3, <1>6
<1>8. r2 = r3
  BY <1>7, <1>6, <1>5, <1>3, DivModUnique
<1> QED BY <1>8 DEF r, r2, r3

(* A round. *)
LEMMA ModRound ==
  ASSUME NEW R \in Nat \ {0}, NEW a \in Int
  PROVE  (a + R) % R = a % R
<1> DEFINE q == a \div R        r == a % R
           q2 == (a + R) \div R  r2 == (a + R) % R
<1>1. q \in Int /\ r \in 0..(R - 1) /\ a = R * q + r
  BY DivMod
<1>2. q2 \in Int /\ r2 \in 0..(R - 1) /\ a + R = R * q2 + r2
  <2>1. a + R \in Int
    OBVIOUS
  <2> QED BY <2>1, DivMod
<1> HIDE DEF q, r, q2, r2
<1>3. R * (q + 1) = R * q + R /\ q + 1 \in Int
  BY <1>1
<1>4. R * (q + 1) + r = R * q2 + r2
  BY <1>1, <1>2, <1>3
<1>5. r = r2
  BY <1>4, <1>3, <1>1, <1>2, DivModUnique
<1> QED BY <1>5 DEF r, r2

LEMMA ModNext ==
  ASSUME NEW R \in Nat \ {0}, NEW a \in Int
  PROVE  (a + 1) % R = IF (a % R) + 1 = R THEN 0 ELSE (a % R) + 1
<1> DEFINE q == a \div R        r == a % R
           q2 == (a + 1) \div R  r2 == (a + 1) % R
<1>1. q \in Int /\ r \in 0..(R - 1) /\ a = R * q + r
  BY DivMod
<1>2. q2 \in Int /\ r2 \in 0..(R - 1) /\ a + 1 = R * q2 + r2
  <2>1. a + 1 \in Int
    OBVIOUS
  <2> QED BY <2>1, DivMod
<1> HIDE DEF q, r, q2, r2
<1>3. CASE r + 1 = R
  <2>1. R * (q + 1) = R * q + R /\ q + 1 \in Int
    BY <1>1
  <2>2. R * (q + 1) + 0 = R * q2 + r2 /\ 0 \in 0..(R - 1)
    BY <1>1, <1>2, <1>3, <2>1
  <2>3. r2 = 0
    BY <2>1, <2>2, <1>2, DivModUnique
  <2> QED BY <2>3, <1>3 DEF r, r2
<1>4. CASE r + 1 # R
  <2>1. r + 1 \in 0..(R - 1)
    BY <1>1, <1>4
  <2>2. R * q + (r + 1) = R * q2 + r2
    BY <1>1, <1>2
  <2>3. r2 = r + 1
    BY <2>1, <2>2, <1>1, <1>2, DivModUnique
  <2> QED BY <2>3, <1>4 DEF r, r2
<1> QED BY <1>3, <1>4

(* Numbers less than a round apart have different remainders, and these    *)
(* tell how far apart they are.                                            *)
LEMMA ModApart ==
  ASSUME NEW R \in Nat \ {0}, NEW a \in Int, NEW b \in Int, a < b, b < a + R
  PROVE  /\ a % R # b % R
         /\ b - a = IF b % R >= a % R THEN (b % R) - (a % R)
                                      ELSE R + (b % R) - (a % R)
<1> DEFINE q == a \div R   r == a % R
           q2 == b \div R  r2 == b % R
           x == r + (b - a) - R
<1>1. q \in Int /\ r \in 0..(R - 1) /\ a = R * q + r
  BY DivMod
<1>2. q2 \in Int /\ r2 \in 0..(R - 1) /\ b = R * q2 + r2
  BY DivMod
<1> HIDE DEF q, r, q2, r2
<1>3. R * (q + 1) = R * q + R /\ q + 1 \in Int
  BY <1>1
<1>4. CASE r + (b - a) < R
  <2>1. r + (b - a) \in 0..(R - 1)
    BY <1>1, <1>4
  <2>2. R * q + (r + (b - a)) = R * q2 + r2
    BY <1>1, <1>2
  <2>3. r2 = r + (b - a)
    BY <2>1, <2>2, <1>1, <1>2, DivModUnique
  <2> QED BY <2>3, <1>1, <1>2 DEF r, r2
<1>5. CASE r + (b - a) >= R
  <2>1. x \in 0..(R - 1)
    BY <1>1, <1>5
  <2>2. R * (q + 1) + x = R * q2 + r2
    BY <1>1, <1>2, <1>3
  <2>3. r2 = x
    <3> HIDE DEF x
    <3> QED BY <2>1, <2>2, <1>3, <1>2, DivModUnique
  <2>4. r2 < r /\ R + r2 - r = b - a
    BY <2>3, <1>1, <1>2
  <2> QED BY <2>4, <1>1, <1>2 DEF r, r2
<1> QED BY <1>4, <1>5, <1>1

-----------------------------------------------------------------------------
(* The places of the send buffer and the slots of the receive buffer.      *)

LEMMA PlaceIs ==
  ASSUME NEW a \in Int
  PROVE  /\ Place(a) \in 0..(Ring - 1)
         /\ \A b \in Int : a < b /\ b < a + Ring => Place(a) # Place(b)
<1>1. Ring \in Nat \ {0}
  BY RingType, SndBufType
<1>2. Place(a) \in 0..(Ring - 1)
  BY <1>1, DivMod DEF Place
<1>3. ASSUME NEW b \in Int, a < b, b < a + Ring PROVE Place(a) # Place(b)
  BY <1>1, <1>3, ModApart DEF Place
<1> QED BY <1>2, <1>3

LEMMA SlotIs ==
  ASSUME NEW a \in Int
  PROVE  /\ Slot(a) \in 0..(RcvSize - 1)
         /\ \A b \in Int : (Slot(a) + b) % RcvSize = Slot(a + b)
         /\ Slot(a + 1) = IF Slot(a) + 1 = RcvSize THEN 0 ELSE Slot(a) + 1
         /\ Slot(a + RcvSize) = Slot(a)
<1>1. RcvSize \in Nat \ {0} /\ a - 1 \in Int
  BY RcvSizeType
<1>2. Slot(a) \in 0..(RcvSize - 1)
  BY <1>1, DivMod DEF Slot
<1>3. ASSUME NEW b \in Int PROVE (Slot(a) + b) % RcvSize = Slot(a + b)
  <2>1. (Slot(a) + b) % RcvSize = ((a - 1) + b) % RcvSize
    BY <1>1, ModPlus DEF Slot
  <2>2. (a - 1) + b = (a + b) - 1
    OBVIOUS
  <2> QED BY <2>1, <2>2 DEF Slot
<1>4. Slot(a + 1) = IF Slot(a) + 1 = RcvSize THEN 0 ELSE Slot(a) + 1
  <2>1. (a + 1) - 1 = (a - 1) + 1
    OBVIOUS
  <2> QED BY <1>1, <2>1, ModNext DEF Slot
<1>5. Slot(a + RcvSize) = Slot(a)
  <2>1. (a + RcvSize) - 1 = (a - 1) + RcvSize
    BY <1>1
  <2> QED BY <1>1, <2>1, ModRound DEF Slot
<1> QED BY <1>2, <1>3, <1>4, <1>5

LEMMA SlotsApart ==
  ASSUME NEW a \in Int, NEW b \in Int, a <= b, b < a + RcvSize
  PROVE  /\ Slot(a) = Slot(b) => a = b
         /\ RcvDataSize(Slot(a), Slot(b)) = b - a
<1>1. RcvSize \in Nat \ {0} /\ a - 1 \in Int /\ b - 1 \in Int
  BY RcvSizeType
<1>2. Slot(a) \in 0..(RcvSize - 1) /\ Slot(b) \in 0..(RcvSize - 1)
  BY SlotIs
<1>3. CASE a = b
  BY <1>3, <1>2 DEF RcvDataSize
<1>4. CASE a < b
  <2>1. a - 1 < b - 1 /\ b - 1 < (a - 1) + RcvSize
    BY <1>1, <1>4
  <2>2. /\ Slot(a) # Slot(b)
        /\ (b - 1) - (a - 1) = IF Slot(b) >= Slot(a) THEN Slot(b) - Slot(a)
                               ELSE RcvSize + Slot(b) - Slot(a)
    BY <1>1, <2>1, ModApart DEF Slot
  <2> QED BY <2>2 DEF RcvDataSize
<1> QED BY <1>3, <1>4

-----------------------------------------------------------------------------
(* The network, and the least of some numbers.                             *)

LEMMA SentIs ==
  ASSUME NEW net, NEW p, NEW room, NEW net2 \in Sent(net, p, room)
  PROVE  \A q \in net2 : q \in net \/ q = p
<1>1. CASE p \in net \/ Cardinality(net) < room
  BY <1>1 DEF Sent
<1>2. CASE ~(p \in net \/ Cardinality(net) < room)
  BY <1>2 DEF Sent
<1> QED BY <1>1, <1>2

LEMMA ReceivedIs ==
  ASSUME NEW net, NEW p, NEW net2 \in Received(net, p)
  PROVE  net2 \subseteq net
BY DEF Received

LEMMA MinIs ==
  ASSUME NEW some, some \subseteq Nat, some # {}
  PROVE  Min(some) \in some /\ \A x \in some : Min(some) <= x
<1>1. \E m \in some : \A x \in some : m <= x
  <2>1. PICK m \in some : \A x \in some : <<x, m>> \notin OpToRel(<, Nat)
    BY NatLessThanWellFounded, WFMin
  <2>2. ASSUME NEW x \in some, ~(m <= x) PROVE FALSE
    <3>1. x \in Nat /\ m \in Nat /\ x < m
      BY <2>2
    <3>2. <<x, m>> \in OpToRel(<, Nat)
      BY <3>1 DEF OpToRel
    <3> QED BY <2>1, <3>2
  <2> QED BY <2>2
<1> QED BY <1>1 DEF Min

(* The number of an ACK: what is below it was received.                    *)
LEMMA NextExpectedIs ==
  ASSUME IInv
  PROVE  /\ NextExpected \in 1..(MaxBlocks + 1)
         /\ rcvLastAck <= NextExpected /\ NextExpected <= rcvCurr + 1
         /\ \A seq \in rcvLoss : NextExpected <= seq
<1> USE MaxBlocksType DEF IInv, TypeOK, ReceiverType
<1>1. rcvLastAck <= rcvCurr + 1
  BY DEF ReceiverInOrder
<1>2. CASE rcvLoss = {}
  BY <1>1, <1>2 DEF NextExpected
<1>3. CASE rcvLoss # {}
  <2>1. rcvLoss \subseteq Nat
    OBVIOUS
  <2>2. NextExpected \in rcvLoss /\ \A seq \in rcvLoss : NextExpected <= seq
    BY <1>3, <2>1, MinIs DEF NextExpected
  <2>3. \A seq \in rcvLoss : rcvLastAck <= seq /\ seq < rcvCurr
    BY DEF ReceiverInOrder
  <2> QED BY <2>2, <2>3
<1> QED BY <1>2, <1>3

-----------------------------------------------------------------------------
(* What a step leaves alone.                                               *)

LEMMA SenderTypeKept ==
  ASSUME IInv, UNCHANGED <<sndBuffer, sndNumbers, sndLoss>>
  PROVE  SenderType'
BY DEF IInv, TypeOK, SenderType, sndBuffer, sndNumbers

LEMMA QueueTypeKept ==
  ASSUME IInv, UNCHANGED sndQueue
  PROVE  QueueType'
BY DEF IInv, TypeOK, QueueType, sndQueue

LEMMA ReceiverTypeKept ==
  ASSUME IInv, UNCHANGED receiver
  PROVE  ReceiverType'
BY DEF IInv, TypeOK, ReceiverType, receiver, rcvBuffer, rcvNumbers

LEMMA NetworkTypeKept ==
  ASSUME IInv, data' \subseteq data, acks' \subseteq acks, naks' \subseteq naks,
         ack2s' \subseteq ack2s, broken' \subseteq Ends
  PROVE  NetworkType'
BY DEF IInv, TypeOK, NetworkType

LEMMA SenderKept ==
  ASSUME IInv, UNCHANGED <<sndBuffer, sndNumbers, sndLoss>>
  PROVE  SenderInOrder'
BY DEF IInv, SenderInOrder, sndBuffer, sndNumbers

LEMMA PacketKept ==
  ASSUME IInv, UNCHANGED <<worker, packet, sndCurr>>
  PROVE  PacketInPlace'
BY DEF IInv, PacketInPlace

LEMMA ReceiverKept ==
  ASSUME IInv, UNCHANGED receiver
  PROVE  ReceiverInOrder'
BY DEF IInv, ReceiverInOrder, receiver, rcvBuffer, rcvNumbers

LEMMA EndsKept ==
  ASSUME IInv, UNCHANGED <<sndCurr, sndLastAck, sndLastDataAck, rcvNumbers>>,
         data' \subseteq data, acks' \subseteq acks, naks' \subseteq naks,
         ack2s' \subseteq ack2s
  PROVE  EndsAgree'
BY DEF IInv, EndsAgree, rcvNumbers

LEMMA QueueKept ==
  ASSUME IInv, UNCHANGED <<sndLastDataAck, sndLoss, sndQueue>>,
         broken \subseteq broken'
  PROVE  QueueInOrder'
BY DEF IInv, QueueInOrder, LossesAreScheduled, Up, sndQueue

LEMMA Sizes ==
  /\ MaxBlocks \in Int /\ 0 <= MaxBlocks /\ SndBuf \in Int /\ Ring \in Int /\ RcvSize \in Int
  /\ 1 <= SndBuf /\ SndBuf < Ring /\ 2 <= RcvSize
BY MaxBlocksType, SndBufType, RingType, RcvSizeType

(* How much the application has read. *)
Read == Len(got)

(* The numbers of both ends, in their order. *)
LEMMA Numbers ==
  ASSUME IInv
  PROVE  /\ MaxBlocks \in Int /\ 0 <= MaxBlocks /\ SndBuf \in Int /\ Ring \in Int /\ RcvSize \in Int
         /\ 1 <= SndBuf /\ SndBuf < Ring /\ 2 <= RcvSize
         /\ lastBlock \in Int /\ currBlock \in Int /\ firstBlock \in Int
         /\ sndCurr \in Int /\ sndLastAck \in Int /\ sndLastDataAck \in Int
         /\ window \in Int
         /\ rcvCurr \in Int /\ rcvLastAck \in Int /\ rcvLastAckAck \in Int
         /\ Read \in Int /\ 0 <= Read
         /\ firstBlock = sndLastDataAck /\ currBlock = sndCurr + 1
         /\ 1 <= sndLastDataAck /\ sndLastDataAck <= sndLastAck
         /\ sndLastAck <= sndCurr + 1 /\ currBlock <= lastBlock
         /\ lastBlock <= MaxBlocks + 1 /\ lastBlock - firstBlock <= SndBuf
         /\ Read < rcvLastAck /\ rcvLastAck <= rcvCurr + 1
         /\ rcvCurr < Read + RcvSize /\ rcvCurr <= sndCurr
         /\ sndLastDataAck <= rcvLastAck
         /\ 1 <= rcvLastAckAck /\ rcvLastAckAck <= rcvLastAck
         /\ sndLastAck <= rcvCurr + 1
<1> USE Sizes
<1>1. /\ lastBlock \in Int /\ lastBlock <= MaxBlocks + 1 /\ currBlock \in Int
      /\ firstBlock \in Int /\ sndCurr \in Int /\ sndLastAck \in Int
      /\ sndLastDataAck \in Int /\ 1 <= sndLastDataAck /\ window \in Int
  BY DEF IInv, TypeOK, SenderType
<1>2. /\ rcvCurr \in Int /\ rcvLastAck \in Int /\ rcvLastAckAck \in Int
      /\ 1 <= rcvLastAckAck /\ Read \in Int /\ 0 <= Read
  BY DEF IInv, TypeOK, ReceiverType, Read
<1>3. /\ firstBlock = sndLastDataAck /\ currBlock = sndCurr + 1
      /\ sndLastDataAck <= sndLastAck /\ sndLastAck <= sndCurr + 1
      /\ currBlock <= lastBlock /\ lastBlock - firstBlock <= SndBuf
  BY DEF IInv, SenderInOrder
<1>4. /\ Read < rcvLastAck /\ rcvLastAck <= rcvCurr + 1
      /\ rcvCurr < Read + RcvSize
  BY DEF IInv, ReceiverInOrder, Read
<1>5. /\ rcvCurr <= sndCurr /\ sndLastDataAck <= rcvLastAck
      /\ rcvLastAckAck <= rcvLastAck /\ sndLastAck <= rcvCurr + 1
  BY DEF IInv, EndsAgree
<1> QED BY <1>1, <1>2, <1>3, <1>4, <1>5

-----------------------------------------------------------------------------
(* Every step, and what it does to each part of the invariant.             *)

LEMMA InitIInv ==
  ASSUME Init
  PROVE  IInv
<1> USE DEF Init, Nil
<1>1. /\ Ring \in Nat \ {0} /\ RcvSize \in Nat \ {0} /\ MaxBlocks \in Nat
      /\ RcvSize >= 2 /\ SndBuf \in Nat \ {0}
  BY RingType, SndBufType, RcvSizeType, MaxBlocksType
<1>2. TypeOK
  <2>1. SenderType
    BY <1>1 DEF SenderType
  <2>2. QueueType
    <3>1. 0 \in 0..MaxBlocks /\ 0 \in 0..(Ring - 1)
      BY <1>1
    <3> QED BY <3>1 DEF QueueType
  <2>3. ReceiverType
    BY <1>1 DEF ReceiverType
  <2>4. NetworkType
    BY DEF NetworkType
  <2> QED BY <2>1, <2>2, <2>3, <2>4 DEF TypeOK
<1>3. SenderInOrder
  BY <1>1 DEF SenderInOrder
<1>4. PacketInPlace
  BY DEF PacketInPlace
<1>5. ReceiverInOrder
  <2>1. Len(got) = 0 /\ got = <<>>
    OBVIOUS
  <2>2. Slot(1) = 0
    BY <1>1 DEF Slot
  <2>3. \A seq \in 1..(0 + RcvSize) : unit[Slot(seq)] = 0 /\ ~(seq <= rcvCurr)
    BY <1>1, SlotIs
  <2> QED BY <1>1, <2>1, <2>2, <2>3 DEF ReceiverInOrder
<1>6. EndsAgree
  BY DEF EndsAgree
<1>7. QueueInOrder
  BY DEF QueueInOrder, LossesAreScheduled
<1> QED BY <1>2, <1>3, <1>4, <1>5, <1>6, <1>7 DEF IInv

LEMMA LoseStep ==
  ASSUME IInv, Lose
  PROVE  IInv'
<1>1. /\ data' \subseteq data /\ acks' \subseteq acks /\ naks' \subseteq naks
      /\ ack2s' \subseteq ack2s /\ broken' \subseteq Ends /\ broken' = broken
      /\ UNCHANGED <<sender, receiver>>
  BY DEF Lose, IInv, TypeOK, NetworkType
<1>2. UNCHANGED <<sndBuffer, sndNumbers, sndLoss, sndQueue, worker, packet,
                  sndCurr, sndLastAck, sndLastDataAck, rcvNumbers>>
  BY <1>1 DEF sender, receiver, sndNumbers, sndQueue
<1>3. TypeOK'
  BY <1>1, <1>2, SenderTypeKept, QueueTypeKept, ReceiverTypeKept,
     NetworkTypeKept DEF TypeOK
<1> QED BY <1>1, <1>2, <1>3, SenderKept, PacketKept, ReceiverKept, EndsKept,
           QueueKept DEF IInv

LEMMA BreakStep ==
  ASSUME IInv, NEW end \in Ends, Break(end)
  PROVE  IInv'
<1>1. /\ UNCHANGED <<data, acks, naks, ack2s>> /\ broken' \subseteq Ends
      /\ broken \subseteq broken' /\ UNCHANGED <<sender, receiver>>
  BY DEF Break, IInv, TypeOK, NetworkType, network
<1>2. UNCHANGED <<sndBuffer, sndNumbers, sndLoss, sndQueue, worker, packet,
                  sndCurr, sndLastAck, sndLastDataAck, rcvNumbers>>
  BY <1>1 DEF sender, receiver, sndNumbers, sndQueue
<1>3. TypeOK'
  BY <1>1, <1>2, SenderTypeKept, QueueTypeKept, ReceiverTypeKept,
     NetworkTypeKept DEF TypeOK
<1> QED BY <1>1, <1>2, <1>3, SenderKept, PacketKept, ReceiverKept, EndsKept,
           QueueKept DEF IInv

LEMMA PutStep ==
  ASSUME IInv, Put
  PROVE  IInv'
<1>1. /\ lastBlock \in 1..MaxBlocks /\ lastBlock \in Int
      /\ lastBlock - firstBlock < SndBuf /\ lastBlock' = lastBlock + 1
      /\ ring' = [ring EXCEPT ![Place(lastBlock)] = lastBlock]
      /\ UNCHANGED <<firstBlock, currBlock, sndNumbers, sndLoss, receiver>>
  BY Numbers DEF Put
<1>2. /\ UNCHANGED <<data, acks, naks, ack2s, broken, sndCurr, sndLastAck,
                     sndLastDataAck, window, worker, packet, rcvNumbers>>
      /\ broken' \subseteq Ends
  BY DEF Put, network, sndNumbers, receiver, IInv, TypeOK, NetworkType
<1>3. /\ Place(lastBlock) \in 0..(Ring - 1)
      /\ ring \in [0..(Ring - 1) -> 0..MaxBlocks]
  BY <1>1, PlaceIs DEF IInv, TypeOK, SenderType
<1>4. TypeOK'
  <2>1. lastBlock' \in 1..(MaxBlocks + 1) /\ lastBlock \in 0..MaxBlocks
    BY <1>1, Numbers
  <2>2. ring' \in [0..(Ring - 1) -> 0..MaxBlocks]
    BY <1>1, <1>3, <2>1
  <2>3. SenderType'
    BY <1>1, <1>2, <2>1, <2>2 DEF IInv, TypeOK, SenderType
  <2>4. QueueType'
    BY DEF Put, IInv, TypeOK, QueueType
  <2> QED BY <1>1, <1>2, <2>3, <2>4, ReceiverTypeKept, NetworkTypeKept DEF TypeOK
<1>5. SenderInOrder'
  <2>1. ASSUME NEW block \in firstBlock..lastBlock
        PROVE  ring'[Place(block)] = block
    <3>1. CASE block = lastBlock
      BY <1>1, <1>3, <3>1
    <3>2. CASE block # lastBlock
      <4>1. block \in firstBlock..(lastBlock - 1) /\ block \in Int
            /\ block < lastBlock /\ lastBlock < block + Ring
        BY <1>1, <2>1, <3>2, Numbers
      <4>2. Place(block) # Place(lastBlock) /\ Place(block) \in 0..(Ring - 1)
        BY <1>1, <4>1, PlaceIs
      <4>3. ring[Place(block)] = block
        BY <4>1 DEF IInv, SenderInOrder
      <4> QED BY <1>1, <1>3, <4>2, <4>3
    <3> QED BY <3>1, <3>2
  <2>2. (lastBlock' - 1) = lastBlock /\ firstBlock' = firstBlock
        /\ currBlock' <= lastBlock' /\ lastBlock' - firstBlock' <= SndBuf
    BY <1>1, Numbers
  <2> QED BY <1>1, <1>2, <2>1, <2>2 DEF IInv, SenderInOrder
<1>6. QueueInOrder'
  BY DEF Put, IInv, QueueInOrder, LossesAreScheduled, sndNumbers, Up
<1> QED BY <1>1, <1>2, <1>4, <1>5, <1>6, PacketKept, ReceiverKept, EndsKept
        DEF IInv

LEMMA UpdateStep ==
  ASSUME IInv, NEW who \in {"app", "rcvq"}, Update(who)
  PROVE  IInv'
<1>1. /\ UNCHANGED <<sndBuffer, sndNumbers, sndLoss, worker, packet, receiver>>
      /\ UNCHANGED <<data, acks, naks, ack2s, broken, sndCurr, sndLastAck,
                     sndLastDataAck, rcvNumbers>>
      /\ broken' \subseteq Ends
  BY DEF Update, network, sndNumbers, receiver, IInv, TypeOK, NetworkType
<1>2. TypeOK'
  <2>1. QueueType'
    BY DEF Update, IInv, TypeOK, QueueType
  <2> QED BY <1>1, <2>1, SenderTypeKept, ReceiverTypeKept, NetworkTypeKept
          DEF TypeOK
<1>3. QueueInOrder'
  BY DEF Update, IInv, QueueInOrder, LossesAreScheduled
<1> QED BY <1>1, <1>2, <1>3, SenderKept, PacketKept, ReceiverKept, EndsKept
        DEF IInv

LEMMA PopLostStep ==
  ASSUME IInv, PopLost
  PROVE  IInv'
<1>1. Min(sndLoss) \in sndLoss
  <2>1. sndLoss \subseteq 1..MaxBlocks /\ sndLoss # {}
    BY DEF PopLost, IInv, TypeOK, SenderType
  <2>2. sndLoss \subseteq Nat
    BY <2>1, Sizes
  <2> QED BY <2>1, <2>2, MinIs
<1> DEFINE least == Min(sndLoss)
<1>2. /\ least \in sndLoss /\ packet' = [seq |-> least, slot |-> 0]
      /\ sndLoss' = sndLoss \ {least} /\ worker' = "lost"
  BY <1>1 DEF PopLost
<1> HIDE DEF least
<1>3. /\ UNCHANGED <<sndBuffer, sndNumbers, receiver, data, acks, naks, ack2s>>
      /\ UNCHANGED <<sndCurr, sndLastAck, sndLastDataAck, rcvNumbers>>
      /\ broken' \subseteq Ends
  BY DEF PopLost, network, sndNumbers, receiver, IInv, TypeOK, NetworkType
<1>4. least \in 1..MaxBlocks /\ sndLastDataAck <= least /\ least <= sndCurr
  BY <1>2 DEF IInv, TypeOK, SenderType, SenderInOrder
<1>5. TypeOK'
  <2>1. SenderType'
    BY <1>2, <1>3 DEF IInv, TypeOK, SenderType, sndBuffer, sndNumbers
  <2>2. packet' \in [seq : 0..MaxBlocks, slot : 0..(Ring - 1)]
    BY <1>2, <1>4, Numbers
  <2>3. QueueType'
    BY <2>2 DEF PopLost, IInv, TypeOK, QueueType
  <2> QED BY <1>3, <2>1, <2>3, ReceiverTypeKept, NetworkTypeKept DEF TypeOK
<1>6. SenderInOrder'
  BY <1>2, <1>3 DEF IInv, SenderInOrder, sndBuffer, sndNumbers
<1>7. PacketInPlace'
  BY <1>2, <1>3, <1>4, Numbers DEF PacketInPlace
<1>8. QueueInOrder'
  BY <1>2, <1>3, <1>4, Numbers DEF QueueInOrder, LossesAreScheduled
<1> QED BY <1>3, <1>5, <1>6, <1>7, <1>8, ReceiverKept, EndsKept DEF IInv

LEMMA RetransmitStep ==
  ASSUME IInv, Retransmit
  PROVE  IInv'
<1>1. /\ UNCHANGED <<sndBuffer, sndNumbers, sndLoss, receiver, data, acks, naks,
                     ack2s, wakes, broken>>
      /\ UNCHANGED <<sndCurr, sndLastAck, sndLastDataAck, rcvNumbers>>
      /\ broken' \subseteq Ends /\ worker = "lost"
  BY DEF Retransmit, network, sndNumbers, receiver, IInv, TypeOK, NetworkType
<1>2. packet.seq \in 1..sndCurr /\ packet.seq \in Int /\ packet.seq \in 0..MaxBlocks
  BY <1>1, Numbers DEF IInv, PacketInPlace
<1>3. firstBlock + (packet.seq - sndLastDataAck) = packet.seq
  BY <1>2, Numbers
<1>4. Place(packet.seq) \in 0..(Ring - 1)
  BY <1>2, PlaceIs
<1>5. CASE packet.seq - sndLastDataAck < 0
  <2>1. worker' = "idle" /\ packet' = Nil /\ UNCHANGED scheduled
    BY <1>5 DEF Retransmit
  <2>2. QueueType'
    <3>1. 0 \in 0..MaxBlocks /\ 0 \in 0..(Ring - 1)
      BY Numbers
    <3> QED BY <1>1, <2>1, <3>1 DEF IInv, TypeOK, QueueType, Nil
  <2>3. PacketInPlace'
    BY <2>1 DEF PacketInPlace
  <2>4. packet.seq < sndLastDataAck
    BY <1>2, <1>5, Numbers
  <2>5. QueueInOrder'
    BY <1>1, <2>1, <2>4 DEF IInv, QueueInOrder, LossesAreScheduled
  <2> QED BY <1>1, <2>2, <2>3, <2>5, SenderTypeKept, ReceiverTypeKept,
             NetworkTypeKept, SenderKept, ReceiverKept, EndsKept DEF IInv, TypeOK
<1>6. CASE ~(packet.seq - sndLastDataAck < 0)
  <2>1. packet' = [packet EXCEPT !.slot = Place(packet.seq)]
        /\ worker' = "send" /\ scheduled' = TRUE
    BY <1>6, <1>3 DEF Retransmit
  <2>2. QueueType'
    BY <1>1, <2>1, <1>4 DEF IInv, TypeOK, QueueType
  <2>3. PacketInPlace'
    BY <1>1, <2>1, <1>2 DEF PacketInPlace, IInv, TypeOK, QueueType
  <2>4. QueueInOrder'
    BY <2>1 DEF QueueInOrder, LossesAreScheduled
  <2> QED BY <1>1, <2>2, <2>3, <2>4, SenderTypeKept, ReceiverTypeKept,
             NetworkTypeKept, SenderKept, ReceiverKept, EndsKept DEF IInv, TypeOK
<1> QED BY <1>5, <1>6

LEMMA PopNewStep ==
  ASSUME IInv, PopNew
  PROVE  IInv'
<1>1. /\ UNCHANGED <<ring, lastBlock, firstBlock, sndLastAck, sndLastDataAck,
                     window, sndLoss, wakes, receiver, rcvNumbers>>
      /\ UNCHANGED <<data, acks, naks, ack2s, broken>> /\ broken' \subseteq Ends
      /\ worker = "idle" /\ scheduled
  BY DEF PopNew, network, receiver, IInv, TypeOK, NetworkType
<1>2. /\ currBlock = sndCurr + 1 /\ currBlock \in Int
      /\ Place(currBlock) \in 0..(Ring - 1)
  BY Numbers, PlaceIs DEF IInv, SenderInOrder
<1>3. CASE window >= sndCurr + 1 - sndLastAck + 1 /\ currBlock < lastBlock
  <2>1. packet' = [seq |-> currBlock, slot |-> Place(currBlock)]
        /\ sndCurr' = currBlock /\ currBlock' = currBlock + 1
        /\ worker' = "send" /\ scheduled'
    BY <1>1, <1>2, <1>3 DEF PopNew
  <2>2. currBlock \in 1..MaxBlocks
    BY <1>3, Numbers
  <2>3. SenderType'
    <3>1. currBlock + 1 \in 1..(MaxBlocks + 1) /\ currBlock \in 0..MaxBlocks
      BY <2>2, Numbers
    <3> QED BY <1>1, <2>1, <3>1 DEF IInv, TypeOK, SenderType
  <2>4. QueueType'
    <3>1. packet' \in [seq : 0..MaxBlocks, slot : 0..(Ring - 1)]
      BY <1>2, <2>1, <2>2, Numbers
    <3> QED BY <1>1, <2>1, <3>1 DEF IInv, TypeOK, QueueType
  <2>5. SenderInOrder'
    <3>1. \A seq \in sndLoss : sndLastDataAck <= seq /\ seq <= currBlock
      BY <1>2, Numbers DEF IInv, SenderInOrder, TypeOK, SenderType
    <3>2. sndLastAck <= currBlock + 1 /\ currBlock + 1 <= lastBlock
      BY <1>2, <1>3, Numbers
    <3> QED BY <1>1, <2>1, <3>1, <3>2 DEF IInv, SenderInOrder
  <2>6. PacketInPlace'
    BY <2>1, <2>2 DEF PacketInPlace
  <2>7. EndsAgree'
    <3>1. ASSUME NEW p \in data PROVE p.seq <= currBlock
      <4>1. p.seq \in Int /\ p.seq <= sndCurr
        BY Numbers DEF IInv, EndsAgree, TypeOK, NetworkType
      <4> QED BY <4>1, Numbers
    <3>2. rcvCurr <= currBlock
      BY Numbers
    <3> QED BY <1>1, <2>1, <3>1, <3>2 DEF IInv, EndsAgree, rcvNumbers
  <2>8. QueueInOrder'
    BY <1>1, <2>1 DEF QueueInOrder, LossesAreScheduled
  <2> QED BY <1>1, <2>3, <2>4, <2>5, <2>6, <2>7, <2>8, ReceiverTypeKept,
             NetworkTypeKept, ReceiverKept DEF IInv, TypeOK
<1>4. CASE ~(window >= sndCurr + 1 - sndLastAck + 1 /\ currBlock < lastBlock)
  <2>1. UNCHANGED <<worker, packet, currBlock, sndCurr>> /\ scheduled' = FALSE
    BY <1>4 DEF PopNew
  <2>2. QueueType'
    BY <1>1, <2>1 DEF IInv, TypeOK, QueueType
  <2>3. QueueInOrder'
    BY <2>1 DEF PopNew, QueueInOrder, LossesAreScheduled
  <2>4. UNCHANGED <<sndBuffer, sndNumbers, sndLoss>>
    BY <1>1, <2>1 DEF sndBuffer, sndNumbers
  <2> QED BY <1>1, <2>1, <2>2, <2>3, <2>4, SenderTypeKept, ReceiverTypeKept,
             NetworkTypeKept, SenderKept, PacketKept, ReceiverKept, EndsKept
          DEF IInv, TypeOK
<1> QED BY <1>3, <1>4

LEMMA SendToStep ==
  ASSUME IInv, SendTo
  PROVE  IInv'
<1>1. /\ UNCHANGED <<sndBuffer, sndNumbers, sndLoss, scheduled, wakes, receiver,
                     rcvNumbers, acks, naks, ack2s, broken>>
      /\ worker = "send" /\ worker' = "idle" /\ packet' = Nil
  BY DEF SendTo, receiver
<1> DEFINE p == [seq |-> packet.seq, block |-> ring[packet.slot]]
<1>2. /\ packet.seq \in 1..sndCurr /\ packet.seq \in 1..MaxBlocks
      /\ packet.slot = Place(packet.seq) /\ packet.slot \in 0..(Ring - 1)
  BY <1>1, Numbers DEF IInv, PacketInPlace, TypeOK, QueueType
<1>3. p \in [seq : 1..MaxBlocks, block : 0..MaxBlocks]
  BY <1>2 DEF IInv, TypeOK, SenderType
<1>4. p.seq <= sndCurr /\ (p.seq >= rcvLastAck => p.block = p.seq)
  <2>1. ASSUME packet.seq >= rcvLastAck
        PROVE  ring[Place(packet.seq)] = packet.seq
    <3>1. packet.seq \in firstBlock..(lastBlock - 1)
      BY <1>2, <2>1, Numbers
    <3> QED BY <3>1 DEF IInv, SenderInOrder
  <2> QED BY <1>2, <2>1, Numbers
<1>5. data' \in Sent(data, p, DataRoom)
  BY DEF SendTo
<1> HIDE DEF p
<1>6. \A q \in data' : q \in data \/ q = p
  BY <1>5, SentIs
<1>7. NetworkType'
  BY <1>1, <1>3, <1>6 DEF IInv, TypeOK, NetworkType
<1>8. QueueType'
  <2>1. 0 \in 0..MaxBlocks /\ 0 \in 0..(Ring - 1)
    BY Numbers
  <2> QED BY <1>1, <2>1 DEF IInv, TypeOK, QueueType, Nil
<1>9. EndsAgree'
  BY <1>1, <1>4, <1>6 DEF IInv, EndsAgree, sndNumbers, rcvNumbers
<1>10. PacketInPlace'
  BY <1>1 DEF PacketInPlace
<1>11. QueueInOrder'
  BY <1>1 DEF IInv, QueueInOrder, LossesAreScheduled
<1> QED BY <1>1, <1>7, <1>8, <1>9, <1>10, <1>11, SenderTypeKept,
           ReceiverTypeKept, SenderKept, ReceiverKept DEF IInv, TypeOK

(* What is known of an ACK on its way. *)
LEMMA AckIs ==
  ASSUME IInv, NEW p \in acks
  PROVE  /\ p.ack \in Int /\ 1 <= p.ack /\ p.ack <= rcvCurr + 1
         /\ p.ack <= sndCurr + 1 /\ p.ack <= MaxBlocks + 1 /\ p.window \in Int
         /\ \A seq \in rcvLoss : p.ack <= seq
         /\ p.window # Lite => p.ack <= rcvLastAck
<1>1. /\ p.ack \in 1..(MaxBlocks + 1) /\ p.window \in Int
      /\ p.ack <= rcvCurr + 1
  BY DEF IInv, TypeOK, NetworkType, EndsAgree
<1>2. /\ \A seq \in rcvLoss : p.ack <= seq
      /\ p.window # Lite => p.ack <= rcvLastAck
  BY DEF IInv, EndsAgree
<1>3. p.ack \in Int /\ 1 <= p.ack /\ p.ack <= MaxBlocks + 1
  BY <1>1, Numbers
<1>4. p.ack <= sndCurr + 1
  BY <1>1, <1>3, Numbers
<1> QED BY <1>1, <1>2, <1>3, <1>4

LEMMA RecvLiteAckStep ==
  ASSUME IInv, NEW p \in acks, RecvLiteAck(p)
  PROVE  IInv'
<1>1. /\ UNCHANGED <<sndBuffer, sndCurr, sndLastDataAck, sndLoss, sndQueue,
                     worker, packet, receiver, rcvNumbers, data, naks, ack2s>>
      /\ UNCHANGED broken /\ broken' \subseteq Ends
  BY DEF RecvLiteAck, receiver, sndQueue, IInv, TypeOK, NetworkType
<1>2. acks' \subseteq acks
  BY ReceivedIs DEF RecvLiteAck
<1>3. CASE p.ack >= sndLastAck
  <2>1. window' = window - (p.ack - sndLastAck) /\ sndLastAck' = p.ack
    BY <1>3 DEF RecvLiteAck
  <2>2. window' \in Int /\ sndLastAck' \in 1..(MaxBlocks + 1)
        /\ sndLastDataAck <= p.ack
    BY <1>3, <2>1, Numbers, AckIs
  <2>3. SenderType'
    BY <1>1, <2>2 DEF IInv, TypeOK, SenderType, sndBuffer
  <2>4. SenderInOrder'
    BY <1>1, <2>1, <2>2, AckIs DEF IInv, SenderInOrder, sndBuffer
  <2>5. EndsAgree'
    BY <1>1, <1>2, <2>1, AckIs DEF IInv, EndsAgree, rcvNumbers
  <2> QED BY <1>1, <1>2, <2>3, <2>4, <2>5, QueueTypeKept, ReceiverTypeKept,
             NetworkTypeKept, PacketKept, ReceiverKept, QueueKept DEF IInv, TypeOK
<1>4. CASE ~(p.ack >= sndLastAck)
  <2>1. UNCHANGED <<sndNumbers, sndLastAck>>
    BY <1>1, <1>4 DEF RecvLiteAck, sndNumbers
  <2> QED BY <1>1, <1>2, <2>1, SenderTypeKept, QueueTypeKept, ReceiverTypeKept,
             NetworkTypeKept, SenderKept, PacketKept, ReceiverKept, EndsKept,
             QueueKept DEF IInv, TypeOK
<1> QED BY <1>3, <1>4

LEMMA AcknowledgeStep ==
  ASSUME IInv, NEW p \in acks, p.window # Lite, Acknowledge(p),
         UNCHANGED <<scheduled, worker, packet, receiver, data, naks>>,
         acks' \subseteq acks, \A a \in ack2s' : a \in ack2s \/ a = p.ack
  PROVE  IInv'
<1>1. /\ UNCHANGED <<ring, lastBlock, currBlock, sndCurr, broken, rcvNumbers>>
      /\ broken' \subseteq Ends
  BY DEF Acknowledge, receiver, IInv, TypeOK, NetworkType
<1>2. /\ \/ p.ack >= sndLastAck /\ window' = p.window /\ sndLastAck' = p.ack
         \/ p.ack < sndLastAck /\ UNCHANGED <<window, sndLastAck>>
      /\ p.ack <= rcvLastAck
  <2>1. p.ack \in Int /\ sndLastAck \in Int /\ p.ack <= rcvLastAck
    BY AckIs, Numbers
  <2> QED BY <2>1 DEF Acknowledge
<1>3. /\ window' \in Int /\ sndLastAck' \in Int /\ 1 <= sndLastAck'
      /\ sndLastAck' <= rcvCurr + 1 /\ sndLastAck' <= sndCurr + 1
      /\ sndLastAck' <= MaxBlocks + 1
      /\ sndLastAck <= sndLastAck' /\ p.ack <= sndLastAck'
  BY <1>2, AckIs, Numbers
<1>4. \A seq \in rcvLoss : sndLastAck' <= seq
  BY <1>2, AckIs DEF IInv, EndsAgree
<1>5. /\ \/ /\ firstBlock' = p.ack /\ sndLastDataAck' = p.ack
            /\ p.ack > sndLastDataAck
            /\ sndLoss' = {seq \in sndLoss : seq >= p.ack}
            /\ "rcvq" \in wakes'
         \/ UNCHANGED <<firstBlock, sndLastDataAck, sndLoss>>
      /\ wakes \subseteq wakes' /\ wakes' \subseteq wakes \cup {"rcvq"}
  <2>1. firstBlock + (p.ack - sndLastDataAck) = p.ack
    BY AckIs, Numbers
  <2> QED BY <2>1 DEF Acknowledge
<1>6. /\ firstBlock' = sndLastDataAck' /\ sndLastDataAck' \in Int
      /\ sndLastDataAck <= sndLastDataAck' /\ sndLastDataAck' <= sndLastAck'
      /\ sndLastDataAck' <= rcvLastAck
  <2>1. firstBlock' = sndLastDataAck' /\ sndLastDataAck' \in {p.ack, sndLastDataAck}
        /\ (sndLastDataAck' = p.ack => p.ack >= sndLastDataAck
                                       \/ sndLastDataAck' = sndLastDataAck)
    BY <1>5, AckIs, Numbers
  <2> QED BY <2>1, <1>2, <1>3, AckIs, Numbers
<1>7. TypeOK'
  <2>1. /\ sndLastAck' \in 1..(MaxBlocks + 1)
        /\ sndLastDataAck' \in 1..(MaxBlocks + 1)
        /\ firstBlock' \in 1..(MaxBlocks + 1)
    BY <1>3, <1>6, Numbers
  <2>2. sndLoss' \subseteq sndLoss
    BY <1>5
  <2>3. SenderType'
    BY <1>1, <1>3, <2>1, <2>2 DEF IInv, TypeOK, SenderType
  <2>4. QueueType'
    BY <1>5 DEF IInv, TypeOK, QueueType
  <2>5. NetworkType'
    BY <1>1 DEF IInv, TypeOK, NetworkType
  <2> QED BY <2>3, <2>4, <2>5, ReceiverTypeKept DEF TypeOK
<1>8. SenderInOrder'
  <2>1. \A block \in firstBlock'..(lastBlock' - 1) : ring'[Place(block)] = block
    <3>1. ASSUME NEW block \in firstBlock'..(lastBlock' - 1)
          PROVE  block \in firstBlock..(lastBlock - 1)
      BY <1>1, <1>6, Numbers
    <3> QED BY <1>1, <3>1 DEF IInv, SenderInOrder
  <2>2. \A seq \in sndLoss' : sndLastDataAck' <= seq /\ seq <= sndCurr'
    <3>1. ASSUME NEW seq \in sndLoss'
          PROVE  /\ seq \in sndLoss /\ seq \in Int
                 /\ (seq >= sndLastDataAck' \/ sndLastDataAck' = sndLastDataAck)
      <4>1. seq \in sndLoss /\ sndLoss \subseteq 1..MaxBlocks
        BY <1>5 DEF IInv, TypeOK, SenderType
      <4> QED BY <1>5, <4>1
    <3> QED BY <1>1, <1>6, <3>1, Numbers DEF IInv, SenderInOrder
  <2>3. /\ lastBlock' - firstBlock' <= SndBuf /\ currBlock' = sndCurr' + 1
        /\ currBlock' <= lastBlock' /\ sndLastAck' <= sndCurr' + 1
    BY <1>1, <1>3, <1>6, Numbers
  <2> QED BY <1>6, <2>1, <2>2, <2>3 DEF SenderInOrder
<1>9. EndsAgree'
  <2>1. \A a \in ack2s' : a <= rcvLastAck
    BY <1>2 DEF IInv, EndsAgree
  <2> QED BY <1>1, <1>3, <1>4, <1>6, <2>1 DEF IInv, EndsAgree, rcvNumbers
<1>10. QueueInOrder'
  BY <1>1, <1>5 DEF IInv, QueueInOrder, LossesAreScheduled, Up
<1> QED BY <1>1, <1>7, <1>8, <1>9, <1>10, PacketKept, ReceiverKept DEF IInv

LEMMA RecvAckStep ==
  ASSUME IInv, NEW p \in acks, NEW answered \in BOOLEAN, RecvAck(p, answered)
  PROVE  IInv'
<1>1. Acknowledge(p)
  <2>1. ~(p.ack > sndCurr + 1)
    BY AckIs, Numbers
  <2> QED BY <2>1 DEF RecvAck
<1>2. acks' \subseteq acks
  BY ReceivedIs DEF RecvAck
<1>3. \A a \in ack2s' : a \in ack2s \/ a = p.ack
  BY SentIs DEF RecvAck
<1>4. p.window # Lite /\ UNCHANGED <<scheduled, worker, packet, receiver, data, naks>>
  BY DEF RecvAck
<1> QED BY <1>1, <1>2, <1>3, <1>4, AcknowledgeStep

LEMMA RecvNakStep ==
  ASSUME IInv, NEW p \in naks, RecvNak(p)
  PROVE  IInv'
<1>1. \A seq \in p : seq \in 1..MaxBlocks /\ seq \in Int /\ seq <= sndCurr
  <2>1. ASSUME NEW seq \in p PROVE seq \in 1..MaxBlocks /\ seq <= rcvCurr
    BY DEF IInv, TypeOK, NetworkType, EndsAgree
  <2> QED BY <2>1, Numbers
<1>2. ~\E seq \in p : seq > sndCurr
  BY <1>1, Numbers
<1>3. /\ sndLoss' = sndLoss \cup {seq \in p : seq >= sndLastAck}
      /\ wakes' = wakes \cup {"rcvq"}
      /\ UNCHANGED <<sndBuffer, sndNumbers, broken>>
      /\ UNCHANGED <<scheduled, worker, packet, receiver, data, acks, ack2s>>
  BY <1>2 DEF RecvNak
<1>4. /\ naks' \subseteq naks /\ broken' \subseteq Ends
      /\ UNCHANGED <<sndCurr, sndLastAck, sndLastDataAck, rcvNumbers>>
  BY <1>3, ReceivedIs DEF RecvNak, sndNumbers, receiver, IInv, TypeOK, NetworkType
<1>5. SenderType'
  BY <1>1, <1>3 DEF IInv, TypeOK, SenderType, sndBuffer, sndNumbers
<1>6. QueueType'
  BY <1>3 DEF IInv, TypeOK, QueueType
<1>7. SenderInOrder'
  <2>1. \A seq \in sndLoss' : sndLastDataAck <= seq /\ seq <= sndCurr
    <3>1. ASSUME NEW seq \in p, seq >= sndLastAck PROVE sndLastDataAck <= seq
      BY <1>1, <3>1, Numbers
    <3> QED BY <1>1, <1>3, <3>1 DEF IInv, SenderInOrder
  <2> QED BY <1>3, <2>1 DEF IInv, SenderInOrder, sndBuffer, sndNumbers
<1>8. QueueInOrder'
  BY <1>3, <1>4 DEF IInv, QueueInOrder, LossesAreScheduled
<1> QED BY <1>3, <1>4, <1>5, <1>6, <1>7, <1>8, ReceiverTypeKept,
           NetworkTypeKept, PacketKept, ReceiverKept, EndsKept DEF IInv, TypeOK

LEMMA ExpStep ==
  ASSUME IInv, Exp
  PROVE  IInv'
<1>1. /\ sndLoss' = sndLoss \cup sndLastAck..sndCurr
      /\ wakes' = wakes \cup {"rcvq"}
      /\ UNCHANGED <<sndBuffer, sndNumbers, broken, scheduled, worker, packet,
                     receiver, data, acks, naks, ack2s>>
  BY DEF Exp, network
<1>2. /\ broken' \subseteq Ends
      /\ UNCHANGED <<sndCurr, sndLastAck, sndLastDataAck, rcvNumbers>>
  BY <1>1 DEF sndNumbers, receiver, IInv, TypeOK, NetworkType
<1>3. \A seq \in sndLastAck..sndCurr :
        seq \in 1..MaxBlocks /\ sndLastDataAck <= seq /\ seq <= sndCurr
  BY Numbers
<1>4. SenderType'
  BY <1>1, <1>3 DEF IInv, TypeOK, SenderType, sndBuffer, sndNumbers
<1>5. QueueType'
  BY <1>1 DEF IInv, TypeOK, QueueType
<1>6. SenderInOrder'
  BY <1>1, <1>3 DEF IInv, SenderInOrder, sndBuffer, sndNumbers
<1>7. QueueInOrder'
  BY <1>1, <1>2 DEF IInv, QueueInOrder, LossesAreScheduled
<1> QED BY <1>1, <1>2, <1>4, <1>5, <1>6, <1>7, ReceiverTypeKept,
           NetworkTypeKept, PacketKept, ReceiverKept, EndsKept DEF IInv, TypeOK

(* A number in the receiver's window and its slot.                         *)
LEMMA WindowIs ==
  ASSUME IInv
  PROVE  /\ RcvDataSize(startPos, lastAckPos) = rcvLastAck - 1 - Read
         /\ \A seq \in Int :
              (lastAckPos + (seq - rcvLastAck)) % RcvSize = Slot(seq)
         /\ \A seq \in (Read + 1)..(Read + RcvSize) :
              unit[Slot(seq)] = IF seq <= rcvCurr /\ seq \notin rcvLoss
                                  THEN seq ELSE 0
         /\ startPos = Slot(Read + 1) /\ lastAckPos = Slot(rcvLastAck)
<1>1. startPos = Slot(Read + 1) /\ lastAckPos = Slot(rcvLastAck)
  BY DEF IInv, ReceiverInOrder, Read
<1>2. RcvDataSize(startPos, lastAckPos) = rcvLastAck - 1 - Read
  <2>1. /\ Read + 1 \in Int /\ rcvLastAck \in Int
        /\ Read + 1 <= rcvLastAck /\ rcvLastAck < (Read + 1) + RcvSize
    BY Numbers
  <2>2. RcvDataSize(startPos, lastAckPos) = rcvLastAck - (Read + 1)
    BY <1>1, <2>1, SlotsApart
  <2> QED BY <2>2, Numbers
<1>3. ASSUME NEW seq \in Int
      PROVE  (lastAckPos + (seq - rcvLastAck)) % RcvSize = Slot(seq)
  <2>1. rcvLastAck \in Int /\ seq - rcvLastAck \in Int
        /\ rcvLastAck + (seq - rcvLastAck) = seq
    BY Numbers
  <2> QED BY <1>1, <2>1, SlotIs
<1>4. \A seq \in (Read + 1)..(Read + RcvSize) :
        unit[Slot(seq)] = IF seq <= rcvCurr /\ seq \notin rcvLoss THEN seq ELSE 0
  BY DEF IInv, ReceiverInOrder, Read
<1> QED BY <1>1, <1>2, <1>3, <1>4

LEMMA WindowApart ==
  ASSUME IInv, NEW a \in (Read + 1)..(Read + RcvSize),
         NEW b \in (Read + 1)..(Read + RcvSize), a # b
  PROVE  Slot(a) # Slot(b) /\ Slot(a) \in 0..(RcvSize - 1)
<1>1. /\ a \in Int /\ b \in Int /\ (a < b \/ b < a)
      /\ b < a + RcvSize /\ a < b + RcvSize
  BY Numbers
<1>2. CASE a < b
  <2>1. a <= b /\ b < a + RcvSize
    BY <1>1, <1>2
  <2> QED BY <1>1, <2>1, SlotsApart, SlotIs
<1>3. CASE b < a
  <2>1. b <= a /\ a < b + RcvSize
    BY <1>1, <1>3
  <2> QED BY <1>1, <2>1, SlotsApart, SlotIs
<1> QED BY <1>1, <1>2, <1>3

(* A packet that fits comes to its slot, and what is missing before it to  *)
(* the loss list.                                                          *)
Store(p) ==
  /\ p.seq - rcvLastAck >= 0
  /\ p.seq - rcvLastAck < AvailBufSize(startPos, lastAckPos)
  /\ unit[Slot(p.seq)] = 0
  /\ unit' = [unit EXCEPT ![Slot(p.seq)] = p.block]
  /\ rcvLoss' = (rcvLoss \cup (rcvCurr + 1)..(p.seq - 1)) \ {p.seq}
  /\ rcvCurr' = IF p.seq > rcvCurr THEN p.seq ELSE rcvCurr
  /\ \A q \in naks' : q \in naks \/ q = (rcvCurr + 1)..(p.seq - 1)
  /\ data' \subseteq data
  /\ UNCHANGED <<sender, startPos, lastAckPos, got, rcvLastAck, rcvLastAckAck,
                 acks, ack2s, broken>>

LEMMA StoreStep ==
  ASSUME IInv, NEW p \in data, Store(p)
  PROVE  IInv'
<1> DEFINE gap == (rcvCurr + 1)..(p.seq - 1)
<1>1. UNCHANGED <<sndBuffer, sndNumbers, sndLoss, sndQueue, worker, packet,
                  sndCurr, sndLastAck, sndLastDataAck>>
  BY DEF Store, sender, sndNumbers, sndQueue
<1>2. /\ p.seq \in 1..MaxBlocks /\ p.seq \in Int
      /\ p.seq <= sndCurr /\ (p.seq >= rcvLastAck => p.block = p.seq)
  BY Sizes DEF IInv, TypeOK, NetworkType, EndsAgree
<1>3. /\ rcvLastAck <= p.seq /\ p.seq < Read + RcvSize /\ p.block = p.seq
      /\ p.seq \in (Read + 1)..(Read + RcvSize)
  <2>1. RcvDataSize(startPos, lastAckPos) = rcvLastAck - 1 - Read
    BY WindowIs
  <2>2. p.seq - rcvLastAck < RcvSize - (rcvLastAck - 1 - Read) - 1
    BY <2>1 DEF Store, AvailBufSize
  <2>3. p.seq - rcvLastAck >= 0
    BY DEF Store
  <2>4. rcvLastAck <= p.seq /\ p.seq < Read + RcvSize
    BY <1>2, <2>2, <2>3, Numbers
  <2> QED BY <1>2, <2>4, Numbers
<1>4. Slot(p.seq) \in 0..(RcvSize - 1) /\ unit \in [0..(RcvSize - 1) -> 0..MaxBlocks]
  BY <1>2, SlotIs DEF IInv, TypeOK, ReceiverType
<1>5. p.seq <= rcvCurr => p.seq \in rcvLoss
  <2>1. unit[Slot(p.seq)] = IF p.seq <= rcvCurr /\ p.seq \notin rcvLoss
                              THEN p.seq ELSE 0
    BY <1>3, WindowIs
  <2>2. p.seq # 0
    BY <1>2
  <2> QED BY <2>1, <2>2 DEF Store
<1>6. /\ rcvCurr' \in Int /\ rcvCurr <= rcvCurr' /\ p.seq <= rcvCurr'
      /\ rcvCurr' <= sndCurr /\ rcvCurr' < Read + RcvSize
      /\ rcvCurr' \in 0..MaxBlocks
  <2>1. rcvCurr' = IF p.seq > rcvCurr THEN p.seq ELSE rcvCurr
    BY DEF Store
  <2> QED BY <2>1, <1>2, <1>3, Numbers
<1>7. \A seq \in gap :
        /\ seq \in Int /\ rcvCurr + 1 <= seq /\ seq < p.seq /\ seq \in 1..MaxBlocks
        /\ rcvLastAck <= seq /\ sndLastAck <= seq /\ seq < rcvCurr'
        /\ \A a \in acks : a.ack <= seq
  <2>1. ASSUME NEW seq \in gap
        PROVE  /\ seq \in Int /\ rcvCurr + 1 <= seq /\ seq < p.seq
               /\ seq \in 1..MaxBlocks
               /\ rcvLastAck <= seq /\ sndLastAck <= seq /\ seq < rcvCurr'
    BY <1>2, <1>6, Numbers
  <2>2. ASSUME NEW seq \in gap, NEW a \in acks
        PROVE  a.ack <= seq
    <3>1. a.ack \in Int /\ a.ack <= rcvCurr + 1
      BY AckIs
    <3> QED BY <2>1, <3>1, Numbers
  <2> QED BY <2>1, <2>2
<1> HIDE DEF gap
<1>8. /\ rcvLoss' = (rcvLoss \cup gap) \ {p.seq}
      /\ \A q \in naks' : q \in naks \/ q = gap
      /\ unit' = [unit EXCEPT ![Slot(p.seq)] = p.seq]
      /\ data' \subseteq data
      /\ UNCHANGED <<startPos, lastAckPos, got, rcvLastAck, rcvLastAckAck, acks,
                     ack2s, broken>>
  BY <1>3 DEF Store, gap
<1>9. TypeOK'
  <2>1. unit' \in [0..(RcvSize - 1) -> 0..MaxBlocks]
    <3>1. p.seq \in 0..MaxBlocks
      BY <1>2, Sizes
    <3> QED BY <1>4, <1>8, <3>1
  <2>2. ReceiverType'
    BY <1>6, <1>7, <1>8, <2>1 DEF IInv, TypeOK, ReceiverType
  <2>3. NetworkType'
    BY <1>7, <1>8 DEF IInv, TypeOK, NetworkType
  <2> QED BY <1>1, <2>2, <2>3, SenderTypeKept, QueueTypeKept DEF TypeOK
<1>10. ASSUME NEW seq \in (Read + 1)..(Read + RcvSize)
       PROVE  unit'[Slot(seq)] = IF seq <= rcvCurr' /\ seq \notin rcvLoss'
                                   THEN seq ELSE 0
  <2>1. CASE seq = p.seq
    BY <1>3, <1>4, <1>6, <1>8, <2>1
  <2>2. CASE seq # p.seq
    <3>1. Slot(seq) # Slot(p.seq) /\ Slot(seq) \in 0..(RcvSize - 1)
      BY <1>3, <2>2, WindowApart
    <3>2. unit'[Slot(seq)] = unit[Slot(seq)]
      BY <1>4, <1>8, <3>1
    <3>3. unit[Slot(seq)] = IF seq <= rcvCurr /\ seq \notin rcvLoss
                              THEN seq ELSE 0
      BY WindowIs
    <3>4. seq <= rcvCurr' /\ seq \notin rcvLoss'
            <=> seq <= rcvCurr /\ seq \notin rcvLoss
      <4>1. seq \in rcvLoss' <=> seq \in rcvLoss \/ seq \in gap
        BY <1>8, <2>2
      <4>2. seq \in gap <=> rcvCurr + 1 <= seq /\ seq < p.seq
        BY <1>2, Numbers DEF gap
      <4>3. seq \in Int /\ (seq < p.seq \/ p.seq < seq)
        BY <1>2, <2>2, Numbers
      <4>4. CASE p.seq > rcvCurr
        <5>1. rcvCurr' = p.seq
          BY <4>4 DEF Store
        <5>2. seq <= rcvCurr' /\ ~(rcvCurr + 1 <= seq /\ seq < p.seq)
                <=> seq <= rcvCurr
          BY <5>1, <4>3, <4>4, <1>2, Numbers
        <5> QED BY <4>1, <4>2, <5>2
      <4>5. CASE ~(p.seq > rcvCurr)
        <5>1. rcvCurr' = rcvCurr
          BY <4>5 DEF Store
        <5>2. ~(rcvCurr + 1 <= seq /\ seq < p.seq)
          BY <4>5, <4>3, <1>2, Numbers
        <5> QED BY <4>1, <4>2, <5>1, <5>2
      <4> QED BY <4>4, <4>5
    <3> QED BY <3>2, <3>3, <3>4
  <2> QED BY <2>1, <2>2
<1>11. ReceiverInOrder'
  <2>1. \A seq \in rcvLoss' : rcvLastAck <= seq /\ seq < rcvCurr'
    <3>1. ASSUME NEW seq \in rcvLoss PROVE rcvLastAck <= seq /\ seq < rcvCurr'
      <4>1. seq \in 1..MaxBlocks /\ rcvLastAck <= seq /\ seq < rcvCurr
        BY DEF IInv, TypeOK, ReceiverType, ReceiverInOrder
      <4> QED BY <4>1, <1>6, Numbers
    <3> QED BY <1>7, <1>8, <3>1
  <2>2. rcvLastAck <= rcvCurr' + 1
    BY <1>6, Numbers
  <2>3. /\ \A i \in 1..Read' : got'[i] = i
        /\ Read' = Read /\ Read < rcvLastAck
        /\ startPos' = Slot(Read' + 1) /\ lastAckPos' = Slot(rcvLastAck')
    BY <1>8 DEF IInv, ReceiverInOrder, Read
  <2> QED BY <1>6, <1>8, <1>10, <2>1, <2>2, <2>3 DEF ReceiverInOrder, Read
<1>12. EndsAgree'
  <2>1. \A seq \in rcvLoss' : sndLastAck <= seq /\ \A a \in acks : a.ack <= seq
    BY <1>7, <1>8 DEF IInv, EndsAgree
  <2>2. \A a \in acks : a.ack <= rcvCurr' + 1
    <3>1. ASSUME NEW a \in acks PROVE a.ack <= rcvCurr' + 1
      BY AckIs, <1>6, Numbers
    <3> QED BY <3>1
  <2>3. \A q \in naks' : \A seq \in q : seq <= rcvCurr'
    <3>1. ASSUME NEW q \in naks, NEW seq \in q PROVE seq <= rcvCurr'
      <4>1. seq \in 1..MaxBlocks /\ seq <= rcvCurr
        BY DEF IInv, TypeOK, NetworkType, EndsAgree
      <4> QED BY <4>1, <1>6, Numbers
    <3>2. ASSUME NEW seq \in gap PROVE seq <= rcvCurr'
      BY <1>6, <1>7
    <3> QED BY <1>8, <3>1, <3>2
  <2>4. sndLastAck <= rcvCurr' + 1
    BY <1>6, Numbers
  <2> QED BY <1>1, <1>6, <1>8, <2>1, <2>2, <2>3, <2>4 DEF IInv, EndsAgree
<1> QED BY <1>1, <1>8, <1>9, <1>11, <1>12, SenderKept, PacketKept, QueueKept DEF IInv

LEMMA RecvDataStep ==
  ASSUME IInv, NEW p \in data, RecvData(p)
  PROVE  IInv'
<1> DEFINE gap == (rcvCurr + 1)..(p.seq - 1)
<1>1. (lastAckPos + (p.seq - rcvLastAck)) % RcvSize = Slot(p.seq)
  <2>1. p.seq \in Int
    BY Sizes DEF IInv, TypeOK, NetworkType
  <2> QED BY <2>1, WindowIs
<1>2. /\ data' \subseteq data
      /\ UNCHANGED <<sender, startPos, lastAckPos, got, rcvLastAck,
                     rcvLastAckAck, acks, ack2s, broken>>
  BY ReceivedIs DEF RecvData
<1> DEFINE fits == /\ p.seq - rcvLastAck >= 0
                   /\ p.seq - rcvLastAck < AvailBufSize(startPos, lastAckPos)
                   /\ unit[Slot(p.seq)] = 0
<1>3. CASE fits
  <2>1. /\ unit' = [unit EXCEPT ![Slot(p.seq)] = p.block]
        /\ rcvLoss' = (rcvLoss \cup gap) \ {p.seq}
        /\ IF gap # {} THEN naks' \in Sent(naks, gap, ControlRoom)
                       ELSE UNCHANGED naks
        /\ rcvCurr' = IF p.seq > rcvCurr THEN p.seq ELSE rcvCurr
    BY <1>1, <1>3 DEF RecvData
  <2>2. \A q \in naks' : q \in naks \/ q = gap
    <3> HIDE DEF gap
    <3> QED BY <2>1, SentIs
  <2>3. Store(p)
    BY <1>2, <1>3, <2>1, <2>2 DEF Store
  <2> QED BY <2>3, StoreStep
<1>4. CASE ~fits
  <2>1. UNCHANGED <<unit, rcvLoss, naks, rcvCurr>>
    BY <1>1, <1>4 DEF RecvData
  <2>2. /\ UNCHANGED <<sndBuffer, sndNumbers, sndLoss, sndQueue, worker, packet,
                       sndCurr, sndLastAck, sndLastDataAck, receiver, rcvNumbers>>
        /\ UNCHANGED <<acks, naks, ack2s, broken>> /\ broken' \subseteq Ends
    BY <1>2, <2>1 DEF sender, sndNumbers, sndQueue, receiver, rcvBuffer,
       rcvNumbers, IInv, TypeOK, NetworkType
  <2> QED BY <1>2, <2>2, SenderTypeKept, QueueTypeKept, ReceiverTypeKept,
             NetworkTypeKept, SenderKept, PacketKept, ReceiverKept, EndsKept,
             QueueKept DEF IInv, TypeOK
<1> QED BY <1>3, <1>4

LEMMA SendLiteAckStep ==
  ASSUME IInv, SendLiteAck
  PROVE  IInv'
<1> DEFINE p == [ack |-> NextExpected, window |-> Lite]
<1>1. /\ UNCHANGED <<sender, receiver, data, naks, ack2s, broken>>
      /\ broken' \subseteq Ends
  BY DEF SendLiteAck, IInv, TypeOK, NetworkType
<1>2. UNCHANGED <<sndBuffer, sndNumbers, sndLoss, sndQueue, worker, packet,
                  sndCurr, sndLastAck, sndLastDataAck, rcvNumbers, rcvCurr,
                  rcvLastAck, rcvLastAckAck, rcvLoss>>
  BY <1>1 DEF sender, receiver, sndNumbers, sndQueue, rcvNumbers
<1>3. /\ p.ack \in 1..(MaxBlocks + 1) /\ p.window \in Int /\ p.window = Lite
      /\ p \in [ack : 1..(MaxBlocks + 1), window : Int]
      /\ p.ack <= rcvCurr + 1 /\ \A seq \in rcvLoss : p.ack <= seq
  BY NextExpectedIs DEF Lite
<1>4. acks' \in Sent(acks, p, AckRoom)
  BY DEF SendLiteAck
<1> HIDE DEF p
<1>5. \A q \in acks' : q \in acks \/ q = p
  BY <1>4, SentIs
<1>6. NetworkType'
  BY <1>1, <1>3, <1>5 DEF IInv, TypeOK, NetworkType
<1>7. EndsAgree'
  BY <1>1, <1>2, <1>3, <1>5 DEF IInv, EndsAgree
<1> QED BY <1>1, <1>2, <1>6, <1>7, SenderTypeKept, QueueTypeKept,
           ReceiverTypeKept, SenderKept, PacketKept, ReceiverKept, QueueKept
        DEF IInv, TypeOK

LEMMA SendAckStep ==
  ASSUME IInv, SendAck
  PROVE  IInv'
<1> DEFINE next == NextExpected
           room == AvailBufSize(startPos, lastAckPos')
           p == [ack |-> next, window |-> IF room < 2 THEN 2 ELSE room]
<1>1. /\ UNCHANGED <<sender, unit, startPos, got, rcvCurr, rcvLastAckAck, rcvLoss,
                     data, naks, ack2s, broken>>
      /\ broken' \subseteq Ends /\ rcvLastAck' = next
      /\ lastAckPos' = (lastAckPos + (next - rcvLastAck)) % RcvSize
  BY DEF SendAck, IInv, TypeOK, NetworkType
<1>2. UNCHANGED <<sndBuffer, sndNumbers, sndLoss, sndQueue, worker, packet,
                  sndCurr, sndLastAck, sndLastDataAck>>
  BY <1>1 DEF sender, sndNumbers, sndQueue
<1>3. acks' = acks \/ acks' \in Sent(acks, p, AckRoom)
  BY <1>1 DEF SendAck
<1>4. /\ next \in 1..(MaxBlocks + 1) /\ rcvLastAck <= next /\ next <= rcvCurr + 1
      /\ \A seq \in rcvLoss : next <= seq
  BY NextExpectedIs
<1> HIDE DEF next
<1>5. next \in Int
  BY <1>4, Numbers
<1>6. lastAckPos' = Slot(next) /\ lastAckPos' \in 0..(RcvSize - 1)
  BY <1>1, <1>5, WindowIs, SlotIs
<1>7. p.window \in Int
  <2>1. /\ startPos \in Int /\ lastAckPos' \in Int /\ RcvSize \in Int
    BY <1>6, Sizes DEF IInv, TypeOK, ReceiverType
  <2>2. room \in Int
    BY <2>1 DEF AvailBufSize, RcvDataSize
  <2> HIDE DEF room
  <2> QED BY <2>2
<1>8. p.ack = next /\ p \in [ack : 1..(MaxBlocks + 1), window : Int]
  <2>1. p.ack = next
    OBVIOUS
  <2> QED BY <2>1, <1>4, <1>7
<1> HIDE DEF p
<1>9. \A q \in acks' : q \in acks \/ q = p
  BY <1>3, SentIs
<1>10. ReceiverType'
  BY <1>1, <1>4, <1>6 DEF IInv, TypeOK, ReceiverType
<1>11. NetworkType'
  BY <1>1, <1>8, <1>9 DEF IInv, TypeOK, NetworkType
<1>12. ReceiverInOrder'
  <2>1. Read < next
    BY <1>4, <1>5, Numbers
  <2>2. \A seq \in rcvLoss : next <= seq /\ seq < rcvCurr
    BY <1>4 DEF IInv, ReceiverInOrder
  <2> QED BY <1>1, <1>4, <1>6, <2>1, <2>2 DEF IInv, ReceiverInOrder, Read
<1>13. EndsAgree'
  <2>1. ASSUME NEW q \in data, q.seq >= next PROVE q.block = q.seq
    <3>1. q.seq \in Int
      BY Sizes DEF IInv, TypeOK, NetworkType
    <3>2. q.seq >= rcvLastAck
      BY <1>4, <1>5, <2>1, <3>1, Numbers
    <3> QED BY <3>2 DEF IInv, EndsAgree
  <2>2. ASSUME NEW q \in acks
        PROVE  /\ q.ack <= rcvCurr + 1 /\ \A seq \in rcvLoss : q.ack <= seq
               /\ q.window # Lite => q.ack <= next
    <3>1. q.window # Lite => q.ack <= next
      BY <1>4, <1>5, AckIs, Numbers
    <3> QED BY <3>1, AckIs
  <2>3. ASSUME NEW a \in ack2s PROVE a <= next
    <3>1. a \in 1..(MaxBlocks + 1) /\ a <= rcvLastAck
      BY DEF IInv, TypeOK, NetworkType, EndsAgree
    <3> QED BY <3>1, <1>4, <1>5, Numbers
  <2>4. sndLastDataAck <= next /\ rcvLastAckAck <= next
    BY <1>4, <1>5, Numbers
  <2> QED BY <1>1, <1>2, <1>4, <1>8, <1>9, <2>1, <2>2, <2>3, <2>4
          DEF IInv, EndsAgree
<1> QED BY <1>1, <1>2, <1>10, <1>11, <1>12, <1>13, SenderTypeKept,
           QueueTypeKept, SenderKept, PacketKept, QueueKept DEF IInv, TypeOK

LEMMA SendNakStep ==
  ASSUME IInv, SendNak
  PROVE  IInv'
<1>1. /\ UNCHANGED <<sender, receiver, data, acks, ack2s, broken>>
      /\ broken' \subseteq Ends
  BY DEF SendNak, IInv, TypeOK, NetworkType
<1>2. UNCHANGED <<sndBuffer, sndNumbers, sndLoss, sndQueue, worker, packet,
                  sndCurr, sndLastAck, sndLastDataAck, rcvCurr, rcvLastAck,
                  rcvLastAckAck, rcvLoss>>
  BY <1>1 DEF sender, receiver, sndNumbers, sndQueue, rcvNumbers
<1>3. \A q \in naks' : q \in naks \/ q = rcvLoss
  BY SentIs DEF SendNak
<1>4. \A seq \in rcvLoss : seq \in 1..MaxBlocks /\ seq <= rcvCurr
  <2>1. ASSUME NEW seq \in rcvLoss PROVE seq \in 1..MaxBlocks /\ seq < rcvCurr
    BY DEF IInv, TypeOK, ReceiverType, ReceiverInOrder
  <2> QED BY <2>1, Numbers
<1>5. NetworkType'
  BY <1>1, <1>3, <1>4 DEF IInv, TypeOK, NetworkType
<1>6. EndsAgree'
  BY <1>1, <1>2, <1>3, <1>4 DEF IInv, EndsAgree
<1> QED BY <1>1, <1>2, <1>5, <1>6, SenderTypeKept, QueueTypeKept,
           ReceiverTypeKept, SenderKept, PacketKept, ReceiverKept, QueueKept
        DEF IInv, TypeOK

LEMMA RecvAck2Step ==
  ASSUME IInv, NEW a \in ack2s, RecvAck2(a)
  PROVE  IInv'
<1>1. /\ UNCHANGED <<sender, rcvBuffer, rcvCurr, rcvLastAck, rcvLoss, data, acks,
                     naks, broken>>
      /\ ack2s' \subseteq ack2s /\ broken' \subseteq Ends
      /\ (rcvLastAckAck' = a \/ rcvLastAckAck' = rcvLastAckAck)
  BY ReceivedIs DEF RecvAck2, IInv, TypeOK, NetworkType
<1>2. UNCHANGED <<sndBuffer, sndNumbers, sndLoss, sndQueue, worker, packet,
                  sndCurr, sndLastAck, sndLastDataAck, unit, startPos,
                  lastAckPos, got>>
  BY <1>1 DEF sender, sndNumbers, sndQueue, rcvBuffer
<1>3. a \in 1..(MaxBlocks + 1) /\ a <= rcvLastAck
  BY DEF IInv, TypeOK, NetworkType, EndsAgree
<1>4. ReceiverType'
  BY <1>1, <1>2, <1>3 DEF IInv, TypeOK, ReceiverType
<1>5. NetworkType'
  BY <1>1, NetworkTypeKept
<1>6. ReceiverInOrder'
  BY <1>1, <1>2 DEF IInv, ReceiverInOrder
<1>7. EndsAgree'
  BY <1>1, <1>2, <1>3 DEF IInv, EndsAgree
<1> QED BY <1>1, <1>2, <1>4, <1>5, <1>6, <1>7, SenderTypeKept, QueueTypeKept,
           SenderKept, PacketKept, QueueKept DEF IInv, TypeOK

(* What is read is the next block. *)
LEMMA GetIs ==
  ASSUME IInv, startPos # lastAckPos
  PROVE  /\ Read + 1 < rcvLastAck /\ Read + 1 <= rcvCurr
         /\ unit[startPos] = Read + 1
<1>1. Read + 1 # rcvLastAck
  BY WindowIs
<1>2. Read + 1 < rcvLastAck /\ Read + 1 <= rcvCurr /\ Read + 1 \in Int
      /\ Read + 1 \in (Read + 1)..(Read + RcvSize)
  BY <1>1, Numbers
<1>3. Read + 1 \notin rcvLoss
  <2>1. ASSUME NEW seq \in rcvLoss PROVE seq # Read + 1
    <3>1. seq \in 1..MaxBlocks /\ rcvLastAck <= seq
      BY DEF IInv, TypeOK, ReceiverType, ReceiverInOrder
    <3> QED BY <3>1, <1>2, Numbers
  <2> QED BY <2>1
<1>4. unit[Slot(Read + 1)] = Read + 1
  BY <1>2, <1>3, WindowIs
<1> QED BY <1>2, <1>4, WindowIs

LEMMA GetStep ==
  ASSUME IInv, Get
  PROVE  IInv'
<1>1. /\ UNCHANGED <<sender, lastAckPos, rcvNumbers, data, acks, naks, ack2s,
                     broken>>
      /\ broken' \subseteq Ends
  BY DEF Get, network, IInv, TypeOK, NetworkType
<1>2. UNCHANGED <<sndBuffer, sndNumbers, sndLoss, sndQueue, worker, packet,
                  sndCurr, sndLastAck, sndLastDataAck, rcvCurr, rcvLastAck,
                  rcvLastAckAck, rcvLoss>>
  BY <1>1 DEF sender, sndNumbers, sndQueue, rcvNumbers
<1>3. /\ Read + 1 < rcvLastAck /\ Read + 1 <= rcvCurr
      /\ unit[startPos] = Read + 1
  BY GetIs DEF Get
<1>4. /\ got' = Append(got, Read + 1) /\ unit' = [unit EXCEPT ![startPos] = 0]
      /\ startPos' = IF startPos + 1 = RcvSize THEN 0 ELSE startPos + 1
  BY <1>3 DEF Get
<1>5. startPos = Slot(Read + 1) /\ startPos' = Slot((Read + 1) + 1)
  <2>1. Read + 1 \in Int /\ startPos = Slot(Read + 1)
    BY Numbers, WindowIs
  <2> QED BY <1>4, <2>1, SlotIs
<1>6. /\ startPos \in 0..(RcvSize - 1)
      /\ unit \in [0..(RcvSize - 1) -> 0..MaxBlocks]
      /\ got \in Seq(0..MaxBlocks) /\ rcvCurr \in 0..MaxBlocks
  BY DEF IInv, TypeOK, ReceiverType
<1>7. Read + 1 \in 0..MaxBlocks /\ 0 \in 0..MaxBlocks
  <2>1. Read + 1 <= rcvCurr
    BY <1>3
  <2> QED BY <2>1, Numbers
<1>8. ReceiverType'
  <2>1. startPos' \in 0..(RcvSize - 1)
    <3>1. (Read + 1) + 1 \in Int
      BY Numbers
    <3> QED BY <1>5, <3>1, SlotIs
  <2>2. got' \in Seq(0..MaxBlocks)
    BY <1>4, <1>6, <1>7
  <2>3. unit' \in [0..(RcvSize - 1) -> 0..MaxBlocks]
    BY <1>4, <1>6, <1>7
  <2> QED BY <1>1, <1>2, <2>1, <2>2, <2>3 DEF IInv, TypeOK, ReceiverType
<1>9. Len(got') = Read + 1 /\ \A i \in 1..(Read + 1) : got'[i] = i
  <2>1. /\ Len(got') = Len(got) + 1 /\ got'[Len(got) + 1] = Read + 1
        /\ \A i \in 1..Len(got) : got'[i] = got[i]
    BY <1>4, <1>6
  <2>2. Read = Len(got) /\ \A i \in 1..Read : got'[i] = i
    BY <2>1 DEF Read, IInv, ReceiverInOrder
  <2>3. ASSUME NEW i \in 1..(Read + 1) PROVE i \in 1..Read \/ i = Read + 1
    BY Numbers
  <2> QED BY <2>1, <2>2, <2>3
<1>10. ASSUME NEW seq \in (Read + 1 + 1)..(Read + 1 + RcvSize)
       PROVE  unit'[Slot(seq)] = IF seq <= rcvCurr /\ seq \notin rcvLoss
                                   THEN seq ELSE 0
  <2>1. CASE seq = (Read + 1) + RcvSize
    <3>1. Slot(seq) = startPos
      <4>1. Read + 1 \in Int
        BY Numbers
      <4> QED BY <1>5, <2>1, <4>1, SlotIs
    <3>2. ~(seq <= rcvCurr)
      BY <2>1, Numbers
    <3> QED BY <1>4, <1>6, <3>1, <3>2
  <2>2. CASE seq # (Read + 1) + RcvSize
    <3>1. /\ seq \in (Read + 1)..(Read + RcvSize) /\ seq # Read + 1
          /\ Read + 1 \in (Read + 1)..(Read + RcvSize)
      BY <2>2, Numbers
    <3>2. Slot(seq) # startPos /\ Slot(seq) \in 0..(RcvSize - 1)
      BY <1>5, <3>1, WindowApart
    <3> QED BY <1>4, <1>6, <3>1, <3>2, WindowIs
  <2> QED BY <2>1, <2>2
<1>11. ReceiverInOrder'
  <2>1. rcvCurr < (Read + 1) + RcvSize
    BY Numbers
  <2>2. /\ rcvLastAck <= rcvCurr + 1 /\ lastAckPos' = Slot(rcvLastAck)
        /\ \A seq \in rcvLoss : rcvLastAck <= seq /\ seq < rcvCurr
    BY <1>1 DEF IInv, ReceiverInOrder
  <2> HIDE DEF Read
  <2> QED BY <1>2, <1>3, <1>5, <1>9, <1>10, <2>1, <2>2 DEF ReceiverInOrder
<1> QED BY <1>1, <1>2, <1>8, <1>11, SenderTypeKept, QueueTypeKept,
           NetworkTypeKept, SenderKept, PacketKept, EndsKept, QueueKept
        DEF IInv, TypeOK

-----------------------------------------------------------------------------
(* The theorems.                                                           *)

LEMMA StepKeepsIInv ==
  ASSUME IInv, [Next]_vars
  PROVE  IInv'
<1>1. CASE UNCHANGED vars
  BY <1>1 DEF vars, sender, sndBuffer, sndNumbers, sndQueue, receiver, rcvBuffer,
     rcvNumbers, network, IInv, TypeOK, SenderType, QueueType, ReceiverType,
     NetworkType, SenderInOrder, PacketInPlace, ReceiverInOrder, EndsAgree,
     QueueInOrder, LossesAreScheduled, Up
<1>2. CASE Put
  BY <1>2, PutStep
<1>3. CASE \E who \in {"app", "rcvq"} : Update(who)
  BY <1>3, UpdateStep
<1>4. CASE PopLost
  BY <1>4, PopLostStep
<1>5. CASE Retransmit
  BY <1>5, RetransmitStep
<1>6. CASE PopNew
  BY <1>6, PopNewStep
<1>7. CASE SendTo
  BY <1>7, SendToStep
<1>8. CASE \E p \in acks : RecvLiteAck(p)
                           \/ \E answered \in BOOLEAN : RecvAck(p, answered)
  BY <1>8, RecvLiteAckStep, RecvAckStep
<1>9. CASE \E p \in naks : RecvNak(p)
  BY <1>9, RecvNakStep
<1>10. CASE Exp
  BY <1>10, ExpStep
<1>11. CASE \E p \in data : RecvData(p)
  BY <1>11, RecvDataStep
<1>12. CASE SendLiteAck
  BY <1>12, SendLiteAckStep
<1>13. CASE SendAck
  BY <1>13, SendAckStep
<1>14. CASE SendNak
  BY <1>14, SendNakStep
<1>15. CASE \E a \in ack2s : RecvAck2(a)
  BY <1>15, RecvAck2Step
<1>16. CASE Get
  BY <1>16, GetStep
<1>17. CASE Lose
  BY <1>17, LoseStep
<1>18. CASE \E end \in Ends : Break(end)
  BY <1>18, BreakStep
<1> QED BY <1>1, <1>2, <1>3, <1>4, <1>5, <1>6, <1>7, <1>8, <1>9, <1>10, <1>11,
           <1>12, <1>13, <1>14, <1>15, <1>16, <1>17, <1>18 DEF Next

(* Whatever the network loses, repeats and overtakes, the numbers of both  *)
(* ends, their buffers and the packets on their way agree.                 *)
THEOREM Invariance == Spec => []IInv
<1>1. Init => IInv
  BY InitIInv
<1>2. IInv /\ [Next]_vars => IInv'
  BY StepKeepsIInv
<1> QED BY <1>1, <1>2, PTL DEF Spec

(* Every variable keeps its type. *)
THEOREM Typing == Spec => []TypeOK
<1>1. IInv => TypeOK
  BY DEF IInv
<1> QED BY <1>1, Invariance, PTL

(* The sender takes no honest receiver for an attacker, however late his   *)
(* ACKs and NAKs come: processCtrl's "attack or bug" is for others.        *)
THEOREM Honesty == Spec => []NeverAccused
<1>1. ASSUME IInv PROVE NeverAccused
  <2>1. \A p \in acks : p.ack <= sndCurr + 1
    BY <1>1, AckIs
  <2>2. ASSUME NEW p \in naks, NEW seq \in p PROVE seq <= sndCurr
    <3>1. seq \in 1..MaxBlocks /\ seq <= rcvCurr
      BY <1>1 DEF IInv, TypeOK, NetworkType, EndsAgree
    <3> QED BY <3>1, <1>1, Numbers
  <2> QED BY <2>1, <2>2 DEF NeverAccused
<1> QED BY <1>1, Invariance, PTL

(* ackData of the send buffer releases only what the receiver has, and no  *)
(* packet that can still be taken carries what another put in its place.   *)
THEOREM Retention == Spec => []ReleasedIsReceived
<1>1. ASSUME IInv PROVE ReleasedIsReceived
  <2>1. firstBlock <= rcvLastAck
    BY <1>1, Numbers
  <2>2. \A p \in data : p.seq >= rcvLastAck => p.block = p.seq
    BY <1>1 DEF IInv, EndsAgree
  <2> QED BY <2>1, <2>2 DEF ReleasedIsReceived
<1> QED BY <1>1, Invariance, PTL

(* The receiver asks for exactly what it does not have, and the positions  *)
(* of its buffer tell how much the application may read.                   *)
THEOREM Exactness == Spec => []LossListIsExact
<1>1. ASSUME IInv PROVE LossListIsExact
  <2>1. ASSUME NEW seq \in rcvLastAck..rcvCurr
        PROVE  unit[(lastAckPos + (seq - rcvLastAck)) % RcvSize] = 0
                 <=> seq \in rcvLoss
    <3>1. /\ seq \in (Read + 1)..(Read + RcvSize) /\ seq \in Int
          /\ seq <= rcvCurr /\ seq # 0
      BY <1>1, Numbers
    <3>2. (lastAckPos + (seq - rcvLastAck)) % RcvSize = Slot(seq)
      BY <1>1, <3>1, WindowIs
    <3>3. unit[Slot(seq)] = IF seq <= rcvCurr /\ seq \notin rcvLoss
                              THEN seq ELSE 0
      BY <1>1, <3>1, WindowIs
    <3> QED BY <3>1, <3>2, <3>3
  <2>2. ASSUME NEW seq \in rcvLoss PROVE seq \in rcvLastAck..rcvCurr
    <3>1. seq \in 1..MaxBlocks /\ rcvLastAck <= seq /\ seq < rcvCurr
      BY <1>1 DEF IInv, TypeOK, ReceiverType, ReceiverInOrder
    <3> QED BY <3>1, <1>1, Numbers
  <2>3. RcvDataSize(startPos, lastAckPos) = rcvLastAck - 1 - Len(got)
    BY <1>1, WindowIs DEF Read
  <2> QED BY <2>1, <2>2, <2>3 DEF LossListIsExact
<1> QED BY <1>1, Invariance, PTL

(* No loss is forgotten between the thread that learns of it and the       *)
(* thread that sends: the one sees to it that the other will look.         *)
THEOREM Scheduling == Spec => []LossesAreScheduled
<1>1. IInv => LossesAreScheduled
  BY DEF IInv, QueueInOrder
<1> QED BY <1>1, Invariance, PTL

-----------------------------------------------------------------------------
(* The stream.                                                             *)

LEMMA GetIsGet ==
  ASSUME IInv, Get
  PROVE  Streams!Get
<1>1. startPos # lastAckPos /\ got' = Append(got, unit[startPos])
      /\ UNCHANGED <<sender, broken>>
  BY DEF Get
<1>2. unit[startPos] = Read + 1 /\ Read + 1 <= rcvCurr
  BY <1>1, GetIs
<1>3. Read < lastBlock - 1
  <2>1. Read + 1 <= rcvCurr
    BY <1>2
  <2> QED BY <2>1, Numbers
<1>4. UNCHANGED <<lastBlock, broken>>
  BY <1>1 DEF sender, sndBuffer
<1> QED BY <1>1, <1>2, <1>3, <1>4 DEF Streams!Get, Read

LEMMA OtherStepsStutter ==
  ASSUME IInv, [Next]_vars
  PROVE  \/ Put \/ Get \/ \E end \in Ends : Break(end)
         \/ UNCHANGED <<lastBlock, got, broken>>
<1> USE DEF sender, sndBuffer, receiver, rcvBuffer
<1>1. CASE UNCHANGED vars
  BY <1>1 DEF vars
<1>2. CASE \E who \in {"app", "rcvq"} : Update(who)
  BY <1>2 DEF Update
<1>3. CASE PopLost \/ Retransmit \/ PopNew \/ SendTo
  BY <1>3 DEF PopLost, Retransmit, PopNew, SendTo
<1>4. ASSUME NEW p \in acks, RecvLiteAck(p)
      PROVE  UNCHANGED <<lastBlock, got, broken>>
  BY <1>4 DEF RecvLiteAck
<1>5. ASSUME NEW p \in acks, NEW answered \in BOOLEAN, RecvAck(p, answered)
      PROVE  UNCHANGED <<lastBlock, got, broken>>
  <2>1. ~(p.ack > sndCurr + 1)
    BY AckIs, Numbers
  <2> QED BY <1>5, <2>1 DEF RecvAck, Acknowledge
<1>6. ASSUME NEW p \in naks, RecvNak(p)
      PROVE  UNCHANGED <<lastBlock, got, broken>>
  <2>1. ASSUME NEW seq \in p PROVE ~(seq > sndCurr)
    <3>1. seq \in 1..MaxBlocks /\ seq <= rcvCurr
      BY DEF IInv, TypeOK, NetworkType, EndsAgree
    <3> QED BY <3>1, Numbers
  <2> QED BY <1>6, <2>1 DEF RecvNak
<1>7. CASE Exp
  BY <1>7 DEF Exp
<1>8. ASSUME NEW p \in data, RecvData(p)
      PROVE  UNCHANGED <<lastBlock, got, broken>>
  BY <1>8 DEF RecvData
<1>9. CASE SendLiteAck \/ SendAck \/ SendNak
  BY <1>9 DEF SendLiteAck, SendAck, SendNak
<1>10. ASSUME NEW a \in ack2s, RecvAck2(a)
       PROVE  UNCHANGED <<lastBlock, got, broken>>
  BY <1>10 DEF RecvAck2
<1>11. CASE Lose
  BY <1>11 DEF Lose
<1> QED BY <1>1, <1>2, <1>3, <1>4, <1>5, <1>6, <1>7, <1>8, <1>9, <1>10, <1>11
        DEF Next

(* What send puts in, recv gets out: in order, each block once, none left  *)
(* out.                                                                    *)
THEOREM Ordered == Spec => ImplementsStream
<1>1. Init => Streams!Init
  BY DEF Init, Streams!Init
<1>2. ASSUME IInv, [Next]_vars PROVE [Streams!Next]_(Streams!vars)
  <2>1. CASE Put
    <3>1. /\ Up("sender") /\ lastBlock <= MaxBlocks /\ lastBlock' = lastBlock + 1
          /\ UNCHANGED <<receiver, broken>>
      BY <2>1 DEF Put
    <3>2. lastBlock - 1 < MaxBlocks /\ lastBlock' - 1 = (lastBlock - 1) + 1
      BY <1>2, <3>1, Numbers
    <3> QED BY <3>1, <3>2 DEF Up, receiver, rcvBuffer, Streams!Put, Streams!Next
  <2>2. CASE Get
    BY <1>2, <2>2, GetIsGet DEF Streams!Next
  <2>3. ASSUME NEW end \in Ends, Break(end) PROVE Streams!Next
    <3>1. UNCHANGED <<sndBuffer, lastBlock, got>> /\ broken' = broken \cup {end}
      BY <2>3 DEF Break, sender, receiver, sndBuffer, rcvBuffer
    <3>2. end \in Streams!Ends
      BY DEF Ends, Streams!Ends
    <3> QED BY <3>1, <3>2 DEF Streams!Break, Streams!Next
  <2>4. CASE UNCHANGED <<lastBlock, got, broken>>
    BY <2>4 DEF Streams!vars
  <2> QED BY <1>2, <2>1, <2>2, <2>3, <2>4, OtherStepsStutter
<1> QED BY <1>1, <1>2, Invariance, PTL DEF Spec, ImplementsStream, Streams!Spec

=============================================================================
