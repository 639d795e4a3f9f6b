--------------------------- MODULE UdtPartsProofs ---------------------------
(***************************************************************************)
(* Three parts of a UDT connection that need each other's theorems as      *)
(* little as the parts touch each other: the ring of sent ACKs, the heap   *)
(* of the sending queue, and the congestion control.                       *)
(***************************************************************************)
EXTENDS AckWindow, SndUList, ZudtCC, SeqNoProofs,
        SequenceTheorems, FiniteSetTheorems, WellFoundedInduction, TLAPS

-----------------------------------------------------------------------------
(***************************************************************************)
(* The ring of sent ACKs is the queue of the newest ones, for rings of     *)
(* every size: AckWindow implements AckQueue.  The invariant is no more    *)
(* than the types; the work is in the arithmetic of the places, first with *)
(* remainders as in the source, then without.                              *)
(***************************************************************************)

RingTypeOK ==
  /\ ackSeqNo \in [Places -> Int]
  /\ ack \in [Places -> Int]
  /\ head \in Places
  /\ tail \in Places
  /\ lastSeqNo \in Numbers
  /\ answer \in Int

-----------------------------------------------------------------------------
(* Arithmetic. *)

LEMMA AfterWraps ==
  ASSUME NEW i \in Places
  PROVE  After(i) = (IF i + 1 = Size THEN 0 ELSE i + 1) /\ After(i) \in Places
BY AckWindowAssumption, SMT DEF After, Places

LEMMA RemainderWraps ==
  ASSUME NEW i \in Nat, i < 2 * Size
  PROVE  /\ i % Size = (IF i < Size THEN i ELSE i - Size)
         /\ After(i) = (IF i + 1 < Size THEN i + 1
                        ELSE IF i + 1 < 2 * Size THEN i + 1 - Size ELSE 0)
BY AckWindowAssumption, SMT DEF After

\* There are fewer ACKs than places.
LEMMA CountBounds ==
  ASSUME RingTypeOK
  PROVE  Count \in 0 .. Size - 1
BY AckWindowAssumption DEF RingTypeOK, Places, Count

\* The places of the ACKs are places, and the one after them is the head.
LEMMA PlaceBounds ==
  ASSUME RingTypeOK, NEW k \in 1 .. Count
  PROVE  Place(k) \in Places /\ Place(k) # head
BY AckWindowAssumption, CountBounds DEF RingTypeOK, Places, Count, Place

LEMMA HeadIsNext ==
  ASSUME RingTypeOK
  PROVE  Place(Count + 1) = head
BY AckWindowAssumption DEF RingTypeOK, Places, Count, Place

Ack == [seq : Int, ack : Int]

ContentsFacts ==
  /\ Contents \in Seq(Ack)
  /\ Len(Contents) = Count
  /\ \A k \in 1 .. Count :
       Contents[k] = [seq |-> ackSeqNo[Place(k)], ack |-> ack[Place(k)]]

LEMMA ContentsIsSequence == RingTypeOK => ContentsFacts
<1> SUFFICES ASSUME RingTypeOK PROVE ContentsFacts
  OBVIOUS
<1>1. Contents \in [1 .. Count -> Ack]
  BY PlaceBounds DEF Contents, RingTypeOK, Ack
<1>2. Count \in Nat
  BY CountBounds, AckWindowAssumption
<1>3. Contents \in Seq(Ack) /\ Len(Contents) = Count
  BY <1>1, <1>2
<1> QED BY <1>3 DEF Contents, ContentsFacts

\* The same after a step.
LEMMA ContentsIsSequenceNext == RingTypeOK' => ContentsFacts'
BY ContentsIsSequence, PTL

\* A search finds the k-th ACK at its place.
LEMMA SearchedPlaces ==
  ASSUME RingTypeOK, NEW i \in Searched
  PROVE  /\ i - tail + 1 \in 1 .. Count
         /\ i % Size = Place(i - tail + 1)
         /\ i \in Nat /\ i < 2 * Size
<1>1. i \in Nat /\ i < 2 * Size /\ i - tail + 1 \in 1 .. Count
  BY AckWindowAssumption DEF RingTypeOK, Places, Searched, Count
<1>2. i % Size = (IF i < Size THEN i ELSE i - Size)
  BY <1>1, RemainderWraps
<1>3. i % Size = Place(i - tail + 1)
  BY <1>1, <1>2, AckWindowAssumption DEF RingTypeOK, Places, Place
<1> QED BY <1>1, <1>3

LEMMA PlacesSearched ==
  ASSUME RingTypeOK, NEW k \in 1 .. Count
  PROVE  /\ tail + k - 1 \in Searched
         /\ (tail + k - 1) % Size = Place(k)
<1>1. /\ tail + k - 1 \in Searched
      /\ (tail + k - 1) - tail + 1 = k
  BY CountBounds, AckWindowAssumption DEF RingTypeOK, Places, Searched, Count
<1> QED BY <1>1, SearchedPlaces

-----------------------------------------------------------------------------
(* Steps. *)

LEMMA RingTypeInit ==
  ASSUME RingInit
  PROVE  RingTypeOK
BY AckWindowAssumption DEF RingInit, RingTypeOK, Places, Numbers

LEMMA RingTypeStep ==
  ASSUME RingTypeOK, [RingNext]_ringVars
  PROVE  RingTypeOK'
<1>1. ASSUME NEW a \in Acks, Store(a) PROVE RingTypeOK'
  <2>1. a \in Int /\ incack(lastSeqNo) \in Numbers /\ incack(lastSeqNo) \in Int
    BY AckWindowAssumption DEF RingTypeOK, Numbers, incack
  <2>2. After(head) \in Places /\ After(tail) \in Places
    BY AfterWraps DEF RingTypeOK
  <2> QED BY <1>1, <2>1, <2>2 DEF RingTypeOK, Store
<1>2. ASSUME NEW seq \in Numbers, NEW i \in Searched, Acknowledge(seq, i)
      PROVE  RingTypeOK'
  <2>1. i % Size \in Places /\ After(i) \in Places
    <3>1. i \in Nat /\ i < 2 * Size
      BY SearchedPlaces
    <3> QED BY <3>1, RemainderWraps, AckWindowAssumption DEF Places
  <2>2. 0 \in Places
    BY AckWindowAssumption DEF Places
  <2> QED BY <1>2, <2>1, <2>2 DEF RingTypeOK, Acknowledge
<1>3. ASSUME NEW seq \in Numbers, Unknown(seq) PROVE RingTypeOK'
  BY <1>3 DEF RingTypeOK, Unknown
<1>4. ASSUME UNCHANGED ringVars PROVE RingTypeOK'
  BY <1>4 DEF RingTypeOK, ringVars
<1> QED BY <1>1, <1>2, <1>3, <1>4 DEF RingNext

\* Store appends, and gives up the oldest ACK if the ring is full.
LEMMA StoreStep ==
  ASSUME RingTypeOK, RingTypeOK', NEW a \in Acks, Store(a)
  PROVE  Queue!Store(lastSeqNo', a)
<1> DEFINE entry == [seq |-> lastSeqNo', ack |-> a]
           all == Append(Contents, entry)
<1>1. entry \in Ack
  BY AckWindowAssumption DEF Ack, RingTypeOK, Numbers
<1>2. /\ Contents \in Seq(Ack) /\ Len(Contents) = Count
      /\ \A k \in 1 .. Count :
           Contents[k] = [seq |-> ackSeqNo[Place(k)], ack |-> ack[Place(k)]]
  BY ContentsIsSequence DEF ContentsFacts
<1>3. /\ Contents' \in Seq(Ack) /\ Len(Contents') = Count'
      /\ \A k \in 1 .. Count' :
           Contents'[k] = [seq |-> ackSeqNo'[Place(k)'], ack |-> ack'[Place(k)']]
  BY ContentsIsSequenceNext DEF ContentsFacts
<1>4. Count \in 0 .. Size - 1 /\ Count \in Nat
  BY CountBounds, AckWindowAssumption
<1>5. all \in Seq(Ack) /\ Len(all) = Count + 1 /\ all[Count + 1] = entry
      /\ \A k \in 1 .. Count : all[k] = Contents[k]
  BY <1>1, <1>2, <1>4
<1>6. /\ ackSeqNo'[head] = lastSeqNo' /\ ack'[head] = a
      /\ \A k \in 1 .. Count : /\ ackSeqNo'[Place(k)] = ackSeqNo[Place(k)]
                               /\ ack'[Place(k)] = ack[Place(k)]
  BY PlaceBounds DEF Store, RingTypeOK
<1>7. \A k \in 1 .. Count + 1 :
        all[k] = [seq |-> ackSeqNo'[Place(k)], ack |-> ack'[Place(k)]]
  BY <1>2, <1>4, <1>5, <1>6, HeadIsNext
<1>8. head' = (IF head + 1 = Size THEN 0 ELSE head + 1)
      /\ tail' = IF head' = tail THEN (IF tail + 1 = Size THEN 0 ELSE tail + 1)
                 ELSE tail
  BY AfterWraps DEF Store, RingTypeOK
<1>9. CASE Count = Size - 1
  <2>1. head' = tail
    BY <1>8, <1>9, AckWindowAssumption DEF Count, RingTypeOK, Places
  <2>2. Count' = Count /\ \A k \in 1 .. Count : Place(k)' = Place(k + 1)
    BY <1>8, <1>9, <2>1, AckWindowAssumption DEF Count, Place, RingTypeOK, Places
  <2>3. /\ Tail(all) \in Seq(Ack) /\ Len(Tail(all)) = Count
        /\ \A k \in 1 .. Count : Tail(all)[k] = all[k + 1]
    <3> HIDE DEF all
    <3>1. all # <<>>
      BY <1>4, <1>5
    <3> QED BY <3>1, <1>4, <1>5, HeadTailProperties
  <2>4. \A k \in 1 .. Count : Contents'[k] = Tail(all)[k]
    <3> SUFFICES ASSUME NEW k \in 1 .. Count PROVE Contents'[k] = Tail(all)[k]
      OBVIOUS
    <3>1. k + 1 \in 1 .. Count + 1
      BY <1>4
    <3> QED BY <3>1, <1>3, <1>7, <2>2, <2>3
  <2>5. Contents' = Tail(all)
    BY <1>3, <1>4, <2>2, <2>3, <2>4
  <2> QED BY <1>2, <1>9, <2>5 DEF Queue!Store, Store
<1>10. CASE Count # Size - 1
  <2>1. head' # tail
    BY <1>8, <1>10, AckWindowAssumption DEF Count, RingTypeOK, Places
  <2>2. Count' = Count + 1 /\ \A k \in 1 .. Count + 1 : Place(k)' = Place(k)
    BY <1>8, <1>10, <2>1, AckWindowAssumption DEF Count, Place, RingTypeOK, Places
  <2>3. \A k \in 1 .. Count + 1 : Contents'[k] = all[k]
    BY <1>3, <1>7, <2>2
  <2>4. Contents' = all
    BY <1>3, <1>4, <1>5, <2>2, <2>3
  <2> QED BY <1>2, <1>10, <2>4 DEF Queue!Store, Store
<1> QED BY <1>9, <1>10

\* A match empties the queue up to it.
LEMMA AcknowledgeStep ==
  ASSUME RingTypeOK, RingTypeOK', NEW seq \in Numbers, NEW i \in Searched,
         Acknowledge(seq, i)
  PROVE  \E k \in 1 .. Len(Contents) : Queue!Acknowledge(seq, k)
<1> DEFINE n == i - tail + 1
<1>1. /\ Contents \in Seq(Ack) /\ Len(Contents) = Count
      /\ \A k \in 1 .. Count :
           Contents[k] = [seq |-> ackSeqNo[Place(k)], ack |-> ack[Place(k)]]
  BY ContentsIsSequence DEF ContentsFacts
<1>2. /\ Contents' \in Seq(Ack) /\ Len(Contents') = Count'
      /\ \A k \in 1 .. Count' :
           Contents'[k] = [seq |-> ackSeqNo'[Place(k)'], ack |-> ack'[Place(k)']]
  BY ContentsIsSequenceNext DEF ContentsFacts
<1>3. Count \in 0 .. Size - 1 /\ Count \in Nat
  BY CountBounds, AckWindowAssumption
<1>4. n \in 1 .. Count /\ i % Size = Place(n) /\ i \in Nat /\ i < 2 * Size
  BY SearchedPlaces
<1>5. Contents[n].seq = seq /\ answer' = Contents[n].ack
  BY <1>1, <1>4 DEF Acknowledge, Matches
<1>6. \A j \in 1 .. n - 1 : Contents[j].seq # seq
  <2> SUFFICES ASSUME NEW j \in 1 .. n - 1, Contents[j].seq = seq PROVE FALSE
    OBVIOUS
  <2>1. j \in 1 .. Count /\ tail + j - 1 < i /\ tail + j - 1 \in Int
    BY <1>3, <1>4 DEF RingTypeOK, Places
  <2>2. tail + j - 1 \in Searched /\ (tail + j - 1) % Size = Place(j)
    BY <2>1, PlacesSearched
  <2>3. tail + j - 1 \in Matches(seq)
    BY <1>1, <2>1, <2>2 DEF Matches
  <2>4. i =< tail + j - 1
    BY <2>3 DEF Acknowledge
  <2> QED BY <1>4, <2>1, <2>4
<1>7. /\ SubSeq(Contents, n + 1, Count) \in Seq(Ack)
      /\ Len(SubSeq(Contents, n + 1, Count)) = Count - n
      /\ \A k \in 1 .. Count - n :
           SubSeq(Contents, n + 1, Count)[k] = Contents[n + k]
  BY <1>1, <1>3, <1>4
<1>8. /\ Count' = Count - n
      /\ \A k \in 1 .. Count - n :
           /\ Place(k)' = Place(n + k)
           /\ ackSeqNo'[Place(k)'] = ackSeqNo[Place(n + k)]
           /\ ack'[Place(k)'] = ack[Place(n + k)]
  <2>1. CASE head >= tail /\ i + 1 = head
    <3>1. head' = 0 /\ tail' = 0
      BY <2>1 DEF Acknowledge
    <3>2. Count' = 0 /\ Count - n = 0
      BY <2>1, <3>1, <1>4 DEF Count, RingTypeOK, Places
    <3> QED BY <3>2
  <2>2. CASE ~(head >= tail /\ i + 1 = head)
    <3>1. ~(head < tail /\ i % Size = head)
      BY <1>4, PlaceBounds
    <3>2. head' = head /\ tail' = After(i) /\ ackSeqNo' = ackSeqNo /\ ack' = ack
      BY <2>2, <3>1 DEF Acknowledge, RingTypeOK, Places
    <3>3. tail' = (IF i + 1 < Size THEN i + 1
                   ELSE IF i + 1 < 2 * Size THEN i + 1 - Size ELSE 0)
      BY <1>4, <3>2, RemainderWraps
    <3>4. Count' = Count - n
      BY <2>2, <3>2, <3>3, <1>4, AckWindowAssumption
         DEF Count, RingTypeOK, Places, Searched
    <3>5. \A k \in 1 .. Count - n : Place(k)' = Place(n + k)
      BY <2>2, <3>2, <3>3, <1>4, AckWindowAssumption
         DEF Count, RingTypeOK, Places, Place, Searched
    <3> QED BY <3>2, <3>4, <3>5
  <2> QED BY <2>1, <2>2
<1>9. \A k \in 1 .. Count - n :
        Contents'[k] = SubSeq(Contents, n + 1, Count)[k]
  <2> SUFFICES ASSUME NEW k \in 1 .. Count - n
               PROVE  Contents'[k] = SubSeq(Contents, n + 1, Count)[k]
    OBVIOUS
  <2>1. n + k \in 1 .. Count
    BY <1>3, <1>4
  <2> QED BY <2>1, <1>1, <1>2, <1>7, <1>8
<1>10. Contents' = SubSeq(Contents, n + 1, Count)
  BY <1>2, <1>3, <1>4, <1>7, <1>8, <1>9
<1> QED BY <1>1, <1>4, <1>5, <1>6, <1>10 DEF Queue!Acknowledge

\* Nothing in the ring matches: nothing in the queue does.
LEMMA UnknownStep ==
  ASSUME RingTypeOK, NEW seq \in Numbers, Unknown(seq)
  PROVE  Queue!Unknown(seq)
<1>1. \A k \in 1 .. Count : Contents[k].seq # seq
  <2> SUFFICES ASSUME NEW k \in 1 .. Count, Contents[k].seq = seq PROVE FALSE
    OBVIOUS
  <2>1. ackSeqNo[Place(k)] = seq
    BY ContentsIsSequence DEF ContentsFacts
  <2>2. tail + k - 1 \in Matches(seq)
    BY <2>1, PlacesSearched DEF Matches
  <2> QED BY <2>2 DEF Unknown
<1>2. Contents' = Contents
  BY DEF Unknown, Contents, Count, Place
<1> QED BY <1>1, <1>2, ContentsIsSequence DEF ContentsFacts, Queue!Unknown, Unknown

-----------------------------------------------------------------------------

\* The types hold for every size of the ring and every reachable state.
THEOREM RingTyped == RingSpec => []RingTypeOK
<1>1. RingInit => RingTypeOK
  BY RingTypeInit
<1>2. RingTypeOK /\ [RingNext]_ringVars => RingTypeOK'
  BY RingTypeStep
<1> QED BY <1>1, <1>2, PTL DEF RingSpec

(***************************************************************************)
(* For rings of every size, every behaviour of CACKWindow and its callers  *)
(* is one of the queue of the newest Size - 1 ACKs (window.cpp).           *)
(***************************************************************************)
THEOREM RingRefines == RingSpec => ImplementsAckQueue
<1>1. RingInit => Queue!Init
  <2> SUFFICES ASSUME RingInit PROVE Queue!Init
    OBVIOUS
  <2>1. RingTypeOK /\ Count = 0
    BY RingTypeInit DEF RingInit, Count
  <2>2. Contents = <<>>
    BY <2>1, ContentsIsSequence DEF ContentsFacts
  <2> QED BY <2>2 DEF Queue!Init, RingInit
<1>2. RingTypeOK /\ RingTypeOK' /\ [RingNext]_ringVars => [Queue!Next]_(Queue!vars)
  <2> SUFFICES ASSUME RingTypeOK, RingTypeOK', [RingNext]_ringVars
               PROVE  [Queue!Next]_(Queue!vars)
    OBVIOUS
  <2>1. ASSUME NEW a \in Acks, Store(a) PROVE Queue!Next
    <3>1. Queue!Store(lastSeqNo', a) /\ lastSeqNo' \in Numbers
      BY <2>1, StoreStep DEF RingTypeOK
    <3> QED BY <3>1 DEF Queue!Next
  <2>2. ASSUME NEW seq \in Numbers, NEW i \in Searched, Acknowledge(seq, i)
        PROVE  Queue!Next
    BY <2>2, AcknowledgeStep DEF Queue!Next
  <2>3. ASSUME NEW seq \in Numbers, Unknown(seq) PROVE Queue!Next
    BY <2>3, UnknownStep DEF Queue!Next
  <2>4. ASSUME UNCHANGED ringVars PROVE UNCHANGED Queue!vars
    BY <2>4 DEF ringVars, Queue!vars, Contents, Count, Place
  <2> QED BY <2>1, <2>2, <2>3, <2>4 DEF RingNext
<1> QED BY <1>1, <1>2, RingTyped, PTL DEF RingSpec, ImplementsAckQueue, Queue!Spec
-----------------------------------------------------------------------------
(***************************************************************************)
(* The heap of the sending queue, for every number of sockets.  A loop     *)
(* leaves one place where the order may not hold; what is below it does    *)
(* not come before what is above it.                                       *)
(***************************************************************************)

HeapTypeOK ==
  /\ heap \in [Entries -> Socket \cup {NoSocket}]
  /\ lastEntry \in -1 .. Cardinality(Socket) - 1
  /\ heapLoc \in [Socket -> -1 .. Cardinality(Socket) - 1]
  /\ timeStamp \in [Socket -> 0 .. MaxTime]
  /\ call \in [loop : {"none", "up", "down"}, at : Nat,
               socket : Socket \cup {NoSocket}, ts : 0 .. MaxTime]
  /\ due \in 0 .. MaxTime
  /\ fromInside \in BOOLEAN
  /\ firstLeft \in BOOLEAN

\* Every socket knows its place.
PlacesKnown ==
  /\ \A i \in 0 .. lastEntry : heap[i] \in Socket /\ heapLoc[heap[i]] = i
  /\ \A i \in Entries : i > lastEntry => heap[i] = NoSocket
  /\ \A u \in Socket : heapLoc[u] >= 0 =>
       heapLoc[u] \in 0 .. lastEntry /\ heap[heapLoc[u]] = u

\* Only sockets outside the heap are inserted, with a time.
CallIsSound ==
  /\ call.loop = "none" => call = NoCall
  /\ call.loop = "up" => call.socket = NoSocket /\ call.at \in 0 .. lastEntry
  /\ call.loop = "down" => call.at =< lastEntry + 1
  /\ call.socket # NoSocket => heapLoc[call.socket] = -1 /\ call.ts >= 1

TimesAreSet == \A u \in Socket : heapLoc[u] >= 0 => timeStamp[u] >= 1

\* The entry i does not come before its parent.
InOrder(i) == TimeAt(Parent(i)) =< TimeAt(i)

\* The heap is in order but for the place where the loop is, whose children
\* do not come before its parent.
AlmostInOrder ==
  /\ call.loop = "none" => \A i \in 1 .. lastEntry : InOrder(i)
  /\ call.loop = "up" => \A i \in 1 .. lastEntry : i # call.at => InOrder(i)
  /\ call.loop = "down" =>
       \A i \in 1 .. lastEntry : Parent(i) # call.at => InOrder(i)
  /\ call.loop # "none" /\ call.at > 0 =>
       \A i \in 1 .. lastEntry :
         Parent(i) = call.at => TimeAt(Parent(call.at)) =< TimeAt(i)

\* Whoever is the first while the worker waits is due.
FirstIsDue ==
  due # 0 /\ ~firstLeft =>
    /\ lastEntry >= 0 => TimeAt(0) =< due
    /\ call.loop = "down" => call.at > 0
    /\ call.socket # NoSocket => call.ts = 1

HeapInv ==
  /\ HeapTypeOK
  /\ PlacesKnown
  /\ CallIsSound
  /\ TimesAreSet
  /\ fromInside \/ AlmostInOrder
  /\ FirstIsDue

-----------------------------------------------------------------------------
(* Arithmetic of the heap. *)

LEMMA ParentIsBefore ==
  ASSUME NEW i \in Nat \ {0}
  PROVE  /\ Parent(i) \in Nat /\ Parent(i) < i
         /\ i = 2 * Parent(i) + 1 \/ i = 2 * Parent(i) + 2
BY SMT DEF Parent

LEMMA ChildrenOf ==
  ASSUME NEW i \in Nat \ {0}, NEW q \in Nat, Parent(i) = q
  PROVE  i = 2 * q + 1 \/ i = 2 * q + 2
BY ParentIsBefore

LEMMA ParentOf ==
  ASSUME NEW q \in Nat
  PROVE  Parent(2 * q + 1) = q /\ Parent(2 * q + 2) = q
BY SMT DEF Parent

LEMMA SocketsAreCounted == Cardinality(Socket) \in Nat
BY SndUListAssumption, FS_CardinalityType

\* There is an entry for a socket that is not in the heap.
LEMMA RoomForOneMore ==
  ASSUME HeapTypeOK, PlacesKnown, NEW u \in Socket, heapLoc[u] < 0
  PROVE  lastEntry + 1 \in Entries
<1> DEFINE f == [i \in 0 .. lastEntry |-> heap[i]]
           S == Socket \ {u}
<1>1. IsFiniteSet(S) /\ Cardinality(S) = Cardinality(Socket) - 1
  BY SndUListAssumption, FS_RemoveElement
<1>2. f \in Injection(0 .. lastEntry, S)
  BY DEF HeapTypeOK, PlacesKnown, Injection, IsInjective
<1>3. Cardinality(0 .. lastEntry) =< Cardinality(S)
  BY <1>1, <1>2, FS_Injection
<1>4. Cardinality(0 .. lastEntry) = lastEntry + 1
  BY FS_Interval, SocketsAreCounted DEF HeapTypeOK
<1> QED BY <1>1, <1>3, <1>4, SocketsAreCounted DEF HeapTypeOK, Entries

-----------------------------------------------------------------------------
(* What the parts of a call do. *)

\* Two entries change places, and nothing else moves.
LEMMA SwapFacts ==
  ASSUME HeapTypeOK, PlacesKnown, 
         NEW p \in 0 .. lastEntry, NEW q \in 0 .. lastEntry, p # q, Swap(p, q)
  PROVE  /\ heap' \in [Entries -> Socket \cup {NoSocket}]
         /\ heapLoc' \in [Socket -> -1 .. Cardinality(Socket) - 1]
         /\ PlacesKnown'
         /\ \A u \in Socket : heapLoc'[u] >= 0 <=> heapLoc[u] >= 0
         /\ \A i \in 0 .. lastEntry :
              TimeAt(i)' = IF i = p THEN TimeAt(q)
                           ELSE IF i = q THEN TimeAt(p) ELSE TimeAt(i)
         /\ call' = [call EXCEPT !.at = q]
         /\ lastEntry' = lastEntry /\ timeStamp' = timeStamp
<1>1. /\ heap[p] \in Socket /\ heap[q] \in Socket /\ heap[p] # heap[q]
      /\ heapLoc[heap[p]] = p /\ heapLoc[heap[q]] = q
  BY DEF PlacesKnown
<1>2. p \in Entries /\ q \in Entries
  BY SocketsAreCounted DEF HeapTypeOK, Entries
<1>3. heap' = [heap EXCEPT ![p] = heap[q], ![q] = heap[p]]
      /\ heapLoc' = [heapLoc EXCEPT ![heap[p]] = q, ![heap[q]] = p]
      /\ lastEntry' = lastEntry /\ timeStamp' = timeStamp
      /\ call' = [call EXCEPT !.at = q]
  BY DEF Swap
<1>4. heap' \in [Entries -> Socket \cup {NoSocket}]
  BY <1>1, <1>2, <1>3 DEF HeapTypeOK
<1>5. heapLoc' \in [Socket -> -1 .. Cardinality(Socket) - 1]
  BY <1>1, <1>2, <1>3, SocketsAreCounted DEF HeapTypeOK, Entries
<1>6. \A i \in Entries : heap'[i] = IF i = p THEN heap[q]
                                    ELSE IF i = q THEN heap[p] ELSE heap[i]
  BY <1>2, <1>3 DEF HeapTypeOK
<1>7. \A u \in Socket : heapLoc'[u] = IF u = heap[p] THEN q
                                      ELSE IF u = heap[q] THEN p ELSE heapLoc[u]
  BY <1>1, <1>3 DEF HeapTypeOK
<1>8. 0 .. lastEntry \subseteq Entries
  BY SocketsAreCounted DEF HeapTypeOK, Entries
<1>9. PlacesKnown'
  <2>1. \A i \in 0 .. lastEntry : heap'[i] \in Socket /\ heapLoc'[heap'[i]] = i
    BY <1>1, <1>6, <1>7, <1>8 DEF PlacesKnown
  <2>2. \A i \in Entries : i > lastEntry => heap'[i] = NoSocket
    BY <1>6 DEF PlacesKnown, HeapTypeOK, Entries
  <2>3. \A u \in Socket : heapLoc'[u] >= 0 =>
          heapLoc'[u] \in 0 .. lastEntry /\ heap'[heapLoc'[u]] = u
    BY <1>1, <1>6, <1>7, <1>8, <1>2 DEF PlacesKnown
  <2> QED BY <1>3, <2>1, <2>2, <2>3 DEF PlacesKnown
<1>10. \A i \in 0 .. lastEntry :
         TimeAt(i)' = IF i = p THEN TimeAt(q)
                      ELSE IF i = q THEN TimeAt(p) ELSE TimeAt(i)
  BY <1>3, <1>6, <1>8 DEF TimeAt, HeapTypeOK
<1>11. \A u \in Socket : heapLoc'[u] >= 0 <=> heapLoc[u] >= 0
  BY <1>1, <1>7
<1> QED BY <1>3, <1>4, <1>5, <1>9, <1>10, <1>11

\* The socket is the last, and the others stay where they are.
LEMMA PutInFacts ==
  ASSUME HeapTypeOK, PlacesKnown, NEW u \in Socket, heapLoc[u] < 0,
         NEW ts \in 1 .. MaxTime, PutIn(u, ts)
  PROVE  /\ heap' \in [Entries -> Socket \cup {NoSocket}]
         /\ lastEntry' = lastEntry + 1 /\ lastEntry' \in 0 .. Cardinality(Socket) - 1
         /\ heapLoc' \in [Socket -> -1 .. Cardinality(Socket) - 1]
         /\ timeStamp' \in [Socket -> 0 .. MaxTime]
         /\ PlacesKnown'
         /\ TimesAreSet => TimesAreSet'
         /\ \A i \in 0 .. lastEntry : TimeAt(i)' = TimeAt(i)
         /\ TimeAt(lastEntry)' = ts
         /\ call' = [NoCall EXCEPT !.loop = "up", !.at = lastEntry + 1]
<1>1. lastEntry + 1 \in Entries
  BY RoomForOneMore
<1>2. /\ heap' = [heap EXCEPT ![lastEntry + 1] = u]
      /\ lastEntry' = lastEntry + 1
      /\ heapLoc' = [heapLoc EXCEPT ![u] = lastEntry + 1]
      /\ timeStamp' = [timeStamp EXCEPT ![u] = ts]
      /\ call' = [NoCall EXCEPT !.loop = "up", !.at = lastEntry + 1]
  BY DEF PutIn
<1>3. /\ heap' \in [Entries -> Socket \cup {NoSocket}]
      /\ lastEntry' \in 0 .. Cardinality(Socket) - 1
      /\ heapLoc' \in [Socket -> -1 .. Cardinality(Socket) - 1]
      /\ timeStamp' \in [Socket -> 0 .. MaxTime]
  BY <1>1, <1>2, SocketsAreCounted, SndUListAssumption DEF HeapTypeOK, Entries
<1>4. /\ \A i \in Entries : heap'[i] = IF i = lastEntry + 1 THEN u ELSE heap[i]
      /\ \A v \in Socket : heapLoc'[v] = IF v = u THEN lastEntry + 1 ELSE heapLoc[v]
      /\ \A v \in Socket : timeStamp'[v] = IF v = u THEN ts ELSE timeStamp[v]
  BY <1>1, <1>2 DEF HeapTypeOK
<1>5. 0 .. lastEntry + 1 \subseteq Entries
  BY <1>1, SocketsAreCounted DEF HeapTypeOK, Entries
<1>6. \A i \in 0 .. lastEntry : heap[i] \in Socket /\ heap[i] # u
  BY DEF PlacesKnown, HeapTypeOK
<1>7. PlacesKnown'
  <2>0. lastEntry \in Int
    BY SocketsAreCounted DEF HeapTypeOK
  <2>1. \A i \in 0 .. lastEntry + 1 : heap'[i] \in Socket /\ heapLoc'[heap'[i]] = i
    BY <1>4, <1>5, <1>6, <2>0 DEF PlacesKnown
  <2>2. \A i \in Entries : i > lastEntry + 1 => heap'[i] = NoSocket
    BY <1>4, <2>0 DEF PlacesKnown, Entries
  <2>3. \A v \in Socket : heapLoc'[v] >= 0 =>
          heapLoc'[v] \in 0 .. lastEntry + 1 /\ heap'[heapLoc'[v]] = v
    <3> SUFFICES ASSUME NEW v \in Socket, heapLoc'[v] >= 0
                 PROVE  heapLoc'[v] \in 0 .. lastEntry + 1 /\ heap'[heapLoc'[v]] = v
      OBVIOUS
    <3>1. CASE v = u
      BY <1>1, <1>4, <2>0, <3>1 DEF HeapTypeOK, Entries
    <3>2. CASE v # u
      <4>1. heapLoc'[v] = heapLoc[v] /\ heapLoc[v] \in 0 .. lastEntry
            /\ heap[heapLoc[v]] = v
        BY <1>4, <3>2 DEF PlacesKnown
      <4>2. heapLoc[v] \in Entries /\ heapLoc[v] # lastEntry + 1
        BY <1>5, <2>0, <4>1
      <4> QED BY <1>4, <2>0, <4>1, <4>2
    <3> QED BY <3>1, <3>2
  <2> QED BY <1>2, <2>1, <2>2, <2>3 DEF PlacesKnown
<1>8. \A i \in 0 .. lastEntry : TimeAt(i)' = TimeAt(i)
  <2> SUFFICES ASSUME NEW i \in 0 .. lastEntry PROVE TimeAt(i)' = TimeAt(i)
    OBVIOUS
  <2>1. i \in Entries /\ i # lastEntry + 1
    BY <1>5, SocketsAreCounted DEF HeapTypeOK
  <2> QED BY <1>4, <1>6, <2>1 DEF TimeAt
<1>9. TimeAt(lastEntry)' = ts
  BY <1>1, <1>2, <1>4 DEF TimeAt
<1>10. TimesAreSet => TimesAreSet'
  BY <1>4 DEF TimesAreSet
<1> QED BY <1>2, <1>3, <1>7, <1>8, <1>9, <1>10

\* The last socket comes into the place, and the others stay.
LEMMA TakeOutFacts ==
  ASSUME HeapTypeOK, PlacesKnown, NEW u \in Socket, heapLoc[u] >= 0,
         NEW v \in Socket \cup {NoSocket}, NEW ts \in 0 .. MaxTime,
         TakeOut(u, v, ts)
  PROVE  /\ heap' \in [Entries -> Socket \cup {NoSocket}]
         /\ lastEntry' = lastEntry - 1 /\ lastEntry' \in -1 .. Cardinality(Socket) - 1
         /\ heapLoc' \in [Socket -> -1 .. Cardinality(Socket) - 1]
         /\ timeStamp' \in [Socket -> 0 .. MaxTime]
         /\ PlacesKnown'
         /\ heapLoc[u] \in 0 .. lastEntry
         /\ heapLoc'[u] = -1
         /\ TimesAreSet => TimesAreSet'
         /\ \A i \in 0 .. lastEntry - 1 :
              TimeAt(i)' = IF i = heapLoc[u] THEN TimeAt(lastEntry) ELSE TimeAt(i)
         /\ call' = [loop |-> "down", at |-> heapLoc[u], socket |-> v, ts |-> ts]
<1> DEFINE loc == heapLoc[u]
           w == heap[lastEntry]
<1>0. lastEntry \in Int /\ lastEntry < Cardinality(Socket)
  BY SocketsAreCounted DEF HeapTypeOK
<1>1. loc \in 0 .. lastEntry /\ heap[loc] = u
  BY DEF PlacesKnown
<1>2. w \in Socket /\ heapLoc[w] = lastEntry
  BY <1>0, <1>1 DEF PlacesKnown
<1>3. loc \in Entries /\ lastEntry \in Entries
  BY <1>0, <1>1, SocketsAreCounted DEF Entries
<1>4. /\ heap' = [heap EXCEPT ![loc] = w, ![lastEntry] = NoSocket]
      /\ lastEntry' = lastEntry - 1
      /\ heapLoc' = [heapLoc EXCEPT ![w] = loc, ![u] = -1]
      /\ timeStamp' = [timeStamp EXCEPT ![u] = 0]
      /\ call' = [loop |-> "down", at |-> loc, socket |-> v, ts |-> ts]
  BY DEF TakeOut
<1>5. /\ heap' \in [Entries -> Socket \cup {NoSocket}]
      /\ lastEntry' \in -1 .. Cardinality(Socket) - 1
      /\ heapLoc' \in [Socket -> -1 .. Cardinality(Socket) - 1]
      /\ timeStamp' \in [Socket -> 0 .. MaxTime]
  <2>1. heap' \in [Entries -> Socket \cup {NoSocket}]
    BY <1>2, <1>3, <1>4 DEF HeapTypeOK
  <2>2. loc \in -1 .. Cardinality(Socket) - 1 /\ -1 \in -1 .. Cardinality(Socket) - 1
    BY <1>0, <1>1, SocketsAreCounted
  <2>3. heapLoc' \in [Socket -> -1 .. Cardinality(Socket) - 1]
    BY <1>2, <1>4, <2>2 DEF HeapTypeOK
  <2>4. timeStamp' \in [Socket -> 0 .. MaxTime]
    BY <1>4, SndUListAssumption DEF HeapTypeOK
  <2>5. lastEntry' \in -1 .. Cardinality(Socket) - 1
    BY <1>0, <1>1, <1>4, SocketsAreCounted
  <2> QED BY <2>1, <2>3, <2>4, <2>5
<1>6. /\ \A i \in Entries : heap'[i] = IF i = lastEntry THEN NoSocket
                                       ELSE IF i = loc THEN w ELSE heap[i]
      /\ \A x \in Socket : heapLoc'[x] = IF x = u THEN -1
                                         ELSE IF x = w THEN loc ELSE heapLoc[x]
      /\ \A x \in Socket : timeStamp'[x] = IF x = u THEN 0 ELSE timeStamp[x]
  BY <1>2, <1>3, <1>4 DEF HeapTypeOK
<1>7. \A i \in 0 .. lastEntry : i \in Entries /\ heap[i] \in Socket /\ heapLoc[heap[i]] = i
  BY <1>0, SocketsAreCounted DEF PlacesKnown, Entries
<1>8. PlacesKnown'
  <2>1. \A i \in 0 .. lastEntry - 1 : heap'[i] \in Socket /\ heapLoc'[heap'[i]] = i
    <3> SUFFICES ASSUME NEW i \in 0 .. lastEntry - 1
                 PROVE  heap'[i] \in Socket /\ heapLoc'[heap'[i]] = i
      OBVIOUS
    <3>1. i \in 0 .. lastEntry /\ i # lastEntry
      BY <1>0
    <3>2. CASE i = loc
      BY <1>1, <1>2, <1>6, <1>7, <3>1, <3>2
    <3>3. CASE i # loc
      BY <1>1, <1>2, <1>6, <1>7, <3>1, <3>3
    <3> QED BY <3>2, <3>3
  <2>2. \A i \in Entries : i > lastEntry - 1 => heap'[i] = NoSocket
    BY <1>0, <1>1, <1>6 DEF PlacesKnown, Entries
  <2>3. \A x \in Socket : heapLoc'[x] >= 0 =>
          heapLoc'[x] \in 0 .. lastEntry - 1 /\ heap'[heapLoc'[x]] = x
    <3> SUFFICES ASSUME NEW x \in Socket, heapLoc'[x] >= 0
                 PROVE  heapLoc'[x] \in 0 .. lastEntry - 1 /\ heap'[heapLoc'[x]] = x
      OBVIOUS
    <3>1. x # u
      BY <1>6
    <3>2. CASE x = w
      BY <1>0, <1>1, <1>2, <1>3, <1>6, <3>1, <3>2
    <3>3. CASE x # w
      <4>1. heapLoc'[x] = heapLoc[x] /\ heapLoc[x] \in 0 .. lastEntry
            /\ heap[heapLoc[x]] = x
        BY <1>6, <3>1, <3>3 DEF PlacesKnown
      <4>2. heapLoc[x] # lastEntry /\ heapLoc[x] # loc
        BY <4>1, <1>1, <3>1, <3>3
      <4> QED BY <1>0, <1>6, <1>7, <4>1, <4>2
    <3> QED BY <3>2, <3>3
  <2> QED BY <1>4, <2>1, <2>2, <2>3 DEF PlacesKnown
<1>9. \A i \in 0 .. lastEntry - 1 :
        TimeAt(i)' = IF i = loc THEN TimeAt(lastEntry) ELSE TimeAt(i)
  <2> SUFFICES ASSUME NEW i \in 0 .. lastEntry - 1
               PROVE TimeAt(i)' = IF i = loc THEN TimeAt(lastEntry) ELSE TimeAt(i)
    OBVIOUS
  <2>1. i \in 0 .. lastEntry /\ i # lastEntry
    BY <1>0
  <2>2. heap'[i] = (IF i = loc THEN w ELSE heap[i]) /\ heap'[i] # u
    BY <2>1, <1>1, <1>2, <1>6, <1>7
  <2>3. TimeAt(i)' = timeStamp[IF i = loc THEN w ELSE heap[i]]
    BY <2>1, <2>2, <1>2, <1>6, <1>7 DEF TimeAt
  <2> QED BY <2>3 DEF TimeAt
<1>10. TimesAreSet => TimesAreSet'
  BY <1>0, <1>1, <1>2, <1>6 DEF TimesAreSet
<1>11. heapLoc'[u] = -1
  BY <1>6
<1> QED BY <1>1, <1>4, <1>5, <1>8, <1>9, <1>10, <1>11

-----------------------------------------------------------------------------
(* The order. *)

LEMMA TimesAreNumbers ==
  ASSUME HeapTypeOK, PlacesKnown, NEW i \in 0 .. lastEntry
  PROVE  TimeAt(i) \in Nat /\ (TimesAreSet => TimeAt(i) >= 1)
BY SndUListAssumption, SocketsAreCounted DEF HeapTypeOK, PlacesKnown, TimeAt, TimesAreSet

\* The earlier child is a child, and no child comes before it.
LEMMA EarlierChildFacts ==
  ASSUME HeapTypeOK, PlacesKnown, NEW q \in Nat, 2 * q + 1 =< lastEntry
  PROVE  /\ EarlierChild(q) \in 1 .. lastEntry
         /\ Parent(EarlierChild(q)) = q
         /\ \A i \in 1 .. lastEntry :
              Parent(i) = q => TimeAt(EarlierChild(q)) =< TimeAt(i)
<1>0. lastEntry \in Int
  BY SocketsAreCounted DEF HeapTypeOK
<1>1. EarlierChild(q) \in 1 .. lastEntry
  BY <1>0 DEF EarlierChild
<1>2. Parent(EarlierChild(q)) = q
  <2>1. EarlierChild(q) = 2 * q + 1 \/ EarlierChild(q) = 2 * q + 2
    BY DEF EarlierChild
  <2> QED BY <2>1, ParentOf
<1>3. ASSUME NEW i \in 1 .. lastEntry, Parent(i) = q
      PROVE  TimeAt(EarlierChild(q)) =< TimeAt(i)
  <2>1. i = 2 * q + 1 \/ i = 2 * q + 2
    BY <1>0, <1>3, ChildrenOf
  <2>2. i \in 0 .. lastEntry /\ 2 * q + 1 \in 0 .. lastEntry
    BY <1>0
  <2>3. TimeAt(i) \in Nat /\ TimeAt(2 * q + 1) \in Nat
    BY <2>2, TimesAreNumbers
  <2>4. (2 * q + 1) + 1 = 2 * q + 2
    OBVIOUS
  <2>5. CASE i = 2 * q + 1
    <3>1. CASE EarlierChild(q) = i
      BY <2>3, <2>5, <3>1
    <3>2. CASE EarlierChild(q) # i
      <4>1. /\ 2 * q + 2 =< lastEntry /\ TimeAt(i) > TimeAt(2 * q + 2)
            /\ EarlierChild(q) = 2 * q + 2
        BY <2>4, <2>5, <3>2 DEF EarlierChild
      <4>2. TimeAt(2 * q + 2) \in Nat
        BY <1>0, <4>1, TimesAreNumbers
      <4> QED BY <2>3, <4>1, <4>2
    <3> QED BY <3>1, <3>2
  <2>6. CASE i = 2 * q + 2
    BY <1>0, <2>3, <2>4, <2>6 DEF EarlierChild
  <2> QED BY <2>1, <2>5, <2>6
<1> QED BY <1>1, <1>2, <1>3

\* A place whose socket does not belong down has its children in order.
LEMMA ChildrenInOrder ==
  ASSUME HeapTypeOK, PlacesKnown, NEW q \in Nat, ~BelongsDown(q),
         NEW i \in 1 .. lastEntry, Parent(i) = q
  PROVE  InOrder(i)
<1>0. lastEntry \in Int
  BY SocketsAreCounted DEF HeapTypeOK
<1>1. i = 2 * q + 1 \/ i = 2 * q + 2
  BY <1>0, ChildrenOf
<1>2. 2 * q + 1 =< lastEntry
  BY <1>0, <1>1
<1>3. /\ EarlierChild(q) \in 1 .. lastEntry
      /\ TimeAt(EarlierChild(q)) =< TimeAt(i)
  BY <1>2, EarlierChildFacts
<1>4. i \in 0 .. lastEntry /\ q \in 0 .. lastEntry /\ EarlierChild(q) \in 0 .. lastEntry
  BY <1>0, <1>2, <1>3
<1>5. TimeAt(i) \in Nat /\ TimeAt(q) \in Nat /\ TimeAt(EarlierChild(q)) \in Nat
  BY <1>4, TimesAreNumbers
<1> QED BY <1>2, <1>3, <1>5 DEF BelongsDown, InOrder

LEMMA HeapInit ==
  ASSUME UListInit
  PROVE  HeapInv
<1>1. HeapTypeOK
  <2>1. -1 \in -1 .. Cardinality(Socket) - 1 /\ 0 \in 0 .. MaxTime
    BY SocketsAreCounted, SndUListAssumption
  <2>2. NoCall \in [loop : {"none", "up", "down"}, at : Nat,
                    socket : Socket \cup {NoSocket}, ts : 0 .. MaxTime]
    BY <2>1 DEF NoCall
  <2> QED BY <2>1, <2>2 DEF UListInit, HeapTypeOK
<1>2. PlacesKnown /\ CallIsSound /\ TimesAreSet
  BY SocketsAreCounted
     DEF UListInit, PlacesKnown, CallIsSound, TimesAreSet, NoCall, Entries
<1>3. AlmostInOrder /\ FirstIsDue
  BY DEF UListInit, AlmostInOrder, FirstIsDue, NoCall
<1> QED BY <1>1, <1>2, <1>3 DEF HeapInv

\* A turn of the loop of insert_.
LEMMA GoUpStep ==
  ASSUME HeapInv, GoUp
  PROVE  HeapInv'
<1> USE DEF HeapInv
<1>q. PICK q \in Nat : q = call.at
  BY DEF HeapTypeOK
<1>p. PICK p : p = Parent(q)
  OBVIOUS
<1>0. lastEntry \in Int /\ q \in 0 .. lastEntry /\ call.socket = NoSocket
      /\ call.loop = "up"
  BY <1>q, SocketsAreCounted DEF GoUp, HeapTypeOK, CallIsSound
<1>1. CASE BelongsUp(q)
  <2>1. Swap(q, p) /\ UNCHANGED <<due, fromInside, firstLeft>>
    BY <1>1, <1>q, <1>p DEF GoUp
  <2>2. q \in Nat \ {0} /\ TimeAt(p) > TimeAt(q)
    BY <1>0, <1>1, <1>p DEF BelongsUp
  <2>3. p \in Nat /\ p < q /\ p \in 0 .. lastEntry /\ p # q
    BY <1>0, <1>p, <2>2, ParentIsBefore
  <2>4. /\ heap' \in [Entries -> Socket \cup {NoSocket}]
        /\ heapLoc' \in [Socket -> -1 .. Cardinality(Socket) - 1]
        /\ PlacesKnown'
        /\ \A u \in Socket : heapLoc'[u] >= 0 <=> heapLoc[u] >= 0
        /\ \A i \in 0 .. lastEntry :
             TimeAt(i)' = IF i = q THEN TimeAt(p)
                          ELSE IF i = p THEN TimeAt(q) ELSE TimeAt(i)
        /\ call' = [call EXCEPT !.at = p]
        /\ lastEntry' = lastEntry /\ timeStamp' = timeStamp
    BY <1>0, <2>1, <2>3, SwapFacts
  <2>5. HeapTypeOK'
    BY <2>1, <2>3, <2>4 DEF HeapTypeOK
  <2>6. /\ call'.loop = "up" /\ call'.at = p /\ call'.socket = NoSocket
    BY <1>0, <2>4 DEF HeapTypeOK
  <2>7. CallIsSound' /\ TimesAreSet'
    BY <2>3, <2>4, <2>6 DEF CallIsSound, TimesAreSet
  <2>8. fromInside' \/ AlmostInOrder'
    <3> SUFFICES ASSUME ~fromInside PROVE AlmostInOrder'
      BY <2>1
    <3>1. /\ \A i \in 1 .. lastEntry : i # q => InOrder(i)
          /\ \A i \in 1 .. lastEntry : Parent(i) = q => TimeAt(p) =< TimeAt(i)
      BY <1>0, <1>q, <1>p, <2>2 DEF AlmostInOrder
    <3>2. ASSUME NEW i \in 1 .. lastEntry, i # p PROVE InOrder(i)'
      <4>1. /\ i \in 0 .. lastEntry /\ Parent(i) \in 0 .. lastEntry /\ Parent(i) < i
        BY <1>0, ParentIsBefore
      <4>2. TimeAt(i) \in Nat /\ TimeAt(Parent(i)) \in Nat
            /\ TimeAt(p) \in Nat /\ TimeAt(q) \in Nat
        BY <1>0, <2>3, <4>1, TimesAreNumbers
      <4>3. /\ TimeAt(i)' = (IF i = q THEN TimeAt(p) ELSE TimeAt(i))
            /\ TimeAt(Parent(i))' = (IF Parent(i) = q THEN TimeAt(p)
                                     ELSE IF Parent(i) = p THEN TimeAt(q)
                                     ELSE TimeAt(Parent(i)))
        BY <2>4, <3>2, <4>1
      <4>4. TimeAt(Parent(i))' =< TimeAt(i)'
        BY <1>p, <2>2, <2>3, <3>1, <4>1, <4>2, <4>3 DEF InOrder
      <4> QED BY <4>4 DEF InOrder
    <3>3. ASSUME p > 0, NEW i \in 1 .. lastEntry, Parent(i) = p
          PROVE  TimeAt(Parent(p))' =< TimeAt(i)'
      <4>1. /\ Parent(p) \in 0 .. lastEntry /\ Parent(p) < p /\ p < i
            /\ i \in 0 .. lastEntry /\ p \in 1 .. lastEntry
            /\ Parent(p) # p /\ Parent(p) # q /\ i # p
        BY <1>0, <2>3, <3>3, ParentIsBefore
      <4>2. TimeAt(i) \in Nat /\ TimeAt(Parent(p)) \in Nat
            /\ TimeAt(p) \in Nat /\ TimeAt(q) \in Nat
        BY <1>0, <2>3, <4>1, TimesAreNumbers
      <4>3. /\ TimeAt(i)' = (IF i = q THEN TimeAt(p) ELSE TimeAt(i))
            /\ TimeAt(Parent(p))' = TimeAt(Parent(p))
        BY <2>3, <2>4, <4>1
      <4>4. TimeAt(Parent(p)) =< TimeAt(p) /\ (i # q => TimeAt(p) =< TimeAt(i))
        BY <1>p, <2>3, <3>1, <3>3, <4>1 DEF InOrder
      <4> QED BY <4>2, <4>3, <4>4
    <3> QED BY <2>4, <2>6, <3>2, <3>3 DEF AlmostInOrder, TimeAt
  <2>9. FirstIsDue'
    <3> SUFFICES ASSUME due # 0, ~firstLeft, lastEntry >= 0 PROVE TimeAt(0)' =< due
      BY <2>1, <2>4, <2>6 DEF FirstIsDue
    <3>1. TimeAt(0) =< due /\ due \in Nat
      BY SndUListAssumption DEF FirstIsDue, HeapTypeOK
    <3>2. 0 \in 0 .. lastEntry
      BY <1>0
    <3>3. TimeAt(0) \in Nat /\ TimeAt(p) \in Nat /\ TimeAt(q) \in Nat
      BY <1>0, <2>3, <3>2, TimesAreNumbers
    <3>4. TimeAt(0)' = IF p = 0 THEN TimeAt(q) ELSE TimeAt(0)
      BY <2>2, <2>4, <3>2
    <3> QED BY <2>2, <3>1, <3>3, <3>4
  <2> QED BY <2>4, <2>5, <2>7, <2>8, <2>9
<1>2. CASE ~BelongsUp(q)
  <2>1. call' = NoCall
        /\ UNCHANGED <<heap, lastEntry, heapLoc, timeStamp, due, fromInside, firstLeft>>
    BY <1>2, <1>q DEF GoUp
  <2>2. HeapTypeOK' /\ PlacesKnown' /\ TimesAreSet'
    BY <2>1, SndUListAssumption DEF HeapTypeOK, PlacesKnown, TimesAreSet, NoCall
  <2>3. CallIsSound'
    BY <2>1, SndUListAssumption DEF CallIsSound, NoCall
  <2>4. fromInside' \/ AlmostInOrder'
    <3> SUFFICES ASSUME ~fromInside, NEW i \in 1 .. lastEntry PROVE InOrder(i)
      BY <2>1 DEF AlmostInOrder, NoCall, InOrder, TimeAt
    <3>1. CASE i # q
      BY <1>0, <1>q, <3>1 DEF AlmostInOrder
    <3>2. CASE i = q
      <4>1. i \in 0 .. lastEntry /\ Parent(i) \in 0 .. lastEntry
        BY <1>0, ParentIsBefore
      <4>2. TimeAt(i) \in Nat /\ TimeAt(Parent(i)) \in Nat
        BY <4>1, TimesAreNumbers
      <4> QED BY <1>0, <1>2, <3>2, <4>2 DEF BelongsUp, InOrder
    <3> QED BY <3>1, <3>2
  <2>5. FirstIsDue'
    BY <2>1 DEF FirstIsDue, NoCall, TimeAt
  <2> QED BY <2>2, <2>3, <2>4, <2>5
<1> QED BY <1>1, <1>2

\* A socket is put at the end of a heap that is in order.
LEMMA PutInStep ==
  ASSUME HeapInv, NEW u \in Socket, heapLoc[u] < 0, NEW ts \in 1 .. MaxTime,
         PutIn(u, ts), UNCHANGED <<due, fromInside, firstLeft>>,
         fromInside \/ \A i \in 1 .. lastEntry : InOrder(i),
         due # 0 /\ ~firstLeft => ts = 1
  PROVE  HeapInv'
<1> USE DEF HeapInv
<1>0. lastEntry \in Int /\ lastEntry >= -1
  BY SocketsAreCounted DEF HeapTypeOK
<1>n. PICK n \in Nat : n = lastEntry + 1
  BY <1>0
<1>1. /\ heap' \in [Entries -> Socket \cup {NoSocket}]
      /\ lastEntry' = n /\ lastEntry' \in 0 .. Cardinality(Socket) - 1
      /\ heapLoc' \in [Socket -> -1 .. Cardinality(Socket) - 1]
      /\ timeStamp' \in [Socket -> 0 .. MaxTime]
      /\ PlacesKnown'
      /\ TimesAreSet'
      /\ \A i \in 0 .. lastEntry : TimeAt(i)' = TimeAt(i)
      /\ call' = [NoCall EXCEPT !.loop = "up", !.at = n]
  BY <1>n, PutInFacts
<1>2. TimeAt(n)' = ts
  <2>1. TimeAt(lastEntry)' = ts
    BY PutInFacts
  <2> QED BY <1>1, <2>1 DEF TimeAt
<1>3. /\ call'.loop = "up" /\ call'.at = n /\ call'.socket = NoSocket
      /\ call'.ts = 0
  BY <1>1 DEF NoCall
<1>4. HeapTypeOK'
  <2>1. call' \in [loop : {"none", "up", "down"}, at : Nat,
                   socket : Socket \cup {NoSocket}, ts : 0 .. MaxTime]
    <3>1. call' = [loop |-> "up", at |-> n, socket |-> NoSocket, ts |-> 0]
      BY <1>1 DEF NoCall
    <3> QED BY <3>1, SndUListAssumption
  <2> QED BY <1>1, <2>1, SocketsAreCounted DEF HeapTypeOK
<1>5. CallIsSound'
  BY <1>1, <1>3 DEF CallIsSound
<1>6. fromInside' \/ AlmostInOrder'
  <2> SUFFICES ASSUME ~fromInside PROVE AlmostInOrder'
    OBVIOUS
  <2>1. ASSUME NEW i \in 1 .. n, i # n PROVE InOrder(i)'
    <3>1. /\ i \in 1 .. lastEntry /\ i \in 0 .. lastEntry
          /\ Parent(i) \in 0 .. lastEntry
      BY <1>0, <1>n, <2>1, ParentIsBefore
    <3> QED BY <1>1, <3>1 DEF InOrder
  <2>2. ASSUME NEW i \in 1 .. n PROVE Parent(i) # n
    BY <2>2, ParentIsBefore
  <2> QED BY <1>1, <1>3, <2>1, <2>2 DEF AlmostInOrder
<1>7. FirstIsDue'
  <2> SUFFICES ASSUME due # 0, ~firstLeft PROVE TimeAt(0)' =< due
    BY <1>3 DEF FirstIsDue
  <2>1. due \in Nat /\ ts = 1
    BY SndUListAssumption DEF HeapTypeOK
  <2>2. CASE n = 0
    BY <1>2, <2>1, <2>2
  <2>3. CASE n # 0
    <3>1. 0 \in 0 .. lastEntry /\ lastEntry >= 0
      BY <1>0, <1>n, <2>3
    <3> QED BY <1>1, <3>1 DEF FirstIsDue
  <2> QED BY <2>2, <2>3
<1> QED BY <1>1, <1>4, <1>5, <1>6, <1>7

\* A turn of the loop of remove_, or the end of it.
LEMMA GoDownStep ==
  ASSUME HeapInv, GoDown
  PROVE  HeapInv'
<1> USE DEF HeapInv
<1>q. PICK q \in Nat : q = call.at
  BY DEF HeapTypeOK
<1>p. PICK p : p = EarlierChild(q)
  OBVIOUS
<1>0. lastEntry \in Int /\ call.loop = "down" /\ q =< lastEntry + 1
  BY <1>q, SocketsAreCounted DEF GoDown, HeapTypeOK, CallIsSound
<1>1. CASE BelongsDown(q)
  <2>1. Swap(q, p) /\ UNCHANGED <<due, fromInside, firstLeft>>
    BY <1>1, <1>q, <1>p DEF GoDown
  <2>2. 2 * q + 1 =< lastEntry /\ TimeAt(q) > TimeAt(p)
    BY <1>0, <1>1, <1>p DEF BelongsDown
  <2>3. /\ p \in 1 .. lastEntry /\ Parent(p) = q
        /\ \A i \in 1 .. lastEntry : Parent(i) = q => TimeAt(p) =< TimeAt(i)
    BY <1>p, <2>2, EarlierChildFacts
  <2>4. q < p /\ p \in 0 .. lastEntry /\ q \in 0 .. lastEntry /\ p # q /\ p # 0
    BY <1>0, <2>3, ParentIsBefore
  <2>5. /\ heap' \in [Entries -> Socket \cup {NoSocket}]
        /\ heapLoc' \in [Socket -> -1 .. Cardinality(Socket) - 1]
        /\ PlacesKnown'
        /\ \A u \in Socket : heapLoc'[u] >= 0 <=> heapLoc[u] >= 0
        /\ \A i \in 0 .. lastEntry :
             TimeAt(i)' = IF i = q THEN TimeAt(p)
                          ELSE IF i = p THEN TimeAt(q) ELSE TimeAt(i)
        /\ call' = [call EXCEPT !.at = p]
        /\ lastEntry' = lastEntry /\ timeStamp' = timeStamp
    BY <2>1, <2>4, SwapFacts
  <2>6. HeapTypeOK'
    BY <2>1, <2>4, <2>5 DEF HeapTypeOK
  <2>7. /\ call'.loop = "down" /\ call'.at = p /\ call'.socket = call.socket
        /\ call'.ts = call.ts
    BY <1>0, <2>5 DEF HeapTypeOK
  <2>8. CallIsSound' /\ TimesAreSet'
    <3>1. call.socket # NoSocket => heapLoc'[call.socket] = -1
      BY <2>5 DEF CallIsSound, HeapTypeOK
    <3> QED BY <1>0, <2>3, <2>5, <2>7, <3>1 DEF CallIsSound, TimesAreSet
  <2>9. fromInside' \/ AlmostInOrder'
    <3> SUFFICES ASSUME ~fromInside PROVE AlmostInOrder'
      BY <2>1
    <3>1. /\ \A i \in 1 .. lastEntry : Parent(i) # q => InOrder(i)
          /\ q > 0 => \A i \in 1 .. lastEntry :
                        Parent(i) = q => TimeAt(Parent(q)) =< TimeAt(i)
      BY <1>0, <1>q DEF AlmostInOrder
    <3>2. ASSUME NEW i \in 1 .. lastEntry, Parent(i) # p PROVE InOrder(i)'
      <4>1. /\ i \in 0 .. lastEntry /\ Parent(i) \in 0 .. lastEntry /\ Parent(i) < i
            /\ Parent(i) # i
        BY <1>0, ParentIsBefore
      <4>2. TimeAt(i) \in Nat /\ TimeAt(Parent(i)) \in Nat
            /\ TimeAt(p) \in Nat /\ TimeAt(q) \in Nat
        BY <2>4, <4>1, TimesAreNumbers
      <4>3. /\ TimeAt(i)' = (IF i = q THEN TimeAt(p)
                             ELSE IF i = p THEN TimeAt(q) ELSE TimeAt(i))
            /\ TimeAt(Parent(i))' = (IF Parent(i) = q THEN TimeAt(p)
                                     ELSE TimeAt(Parent(i)))
        BY <2>5, <3>2, <4>1
      <4>4. CASE Parent(i) = q
        BY <2>2, <2>3, <4>1, <4>2, <4>3, <4>4 DEF InOrder
      <4>5. CASE i = q
        BY <2>3, <3>1, <4>1, <4>2, <4>3, <4>5 DEF InOrder
      <4>6. CASE Parent(i) # q /\ i # q
        <5>1. i # p
          BY <2>3, <4>6
        <5> QED BY <3>1, <4>3, <4>6, <5>1 DEF InOrder
      <4> QED BY <4>4, <4>5, <4>6
    <3>3. ASSUME NEW i \in 1 .. lastEntry, Parent(i) = p
          PROVE  TimeAt(q)' =< TimeAt(i)'
      <4>1. p < i /\ i \in 0 .. lastEntry
        BY <1>0, <3>3, ParentIsBefore
      <4>2. TimeAt(i)' = TimeAt(i) /\ TimeAt(q)' = TimeAt(p)
        BY <2>4, <2>5, <4>1
      <4>3. TimeAt(p) =< TimeAt(i)
        BY <2>4, <3>1, <3>3 DEF InOrder
      <4> QED BY <4>2, <4>3
    <3> QED BY <2>3, <2>5, <2>7, <3>2, <3>3 DEF AlmostInOrder, TimeAt
  <2>10. FirstIsDue'
    <3> SUFFICES ASSUME due # 0, ~firstLeft
                 PROVE  (lastEntry >= 0 => TimeAt(0)' =< due) /\ p > 0
                        /\ (call.socket # NoSocket => call.ts = 1)
      BY <2>1, <2>5, <2>7 DEF FirstIsDue
    <3>1. q > 0 /\ lastEntry >= 0 /\ 0 \in 0 .. lastEntry
      BY <1>0, <1>q, <2>3 DEF FirstIsDue
    <3>2. TimeAt(0)' = TimeAt(0)
      BY <2>4, <2>5, <3>1
    <3> QED BY <2>3, <3>1, <3>2 DEF FirstIsDue
  <2> QED BY <2>5, <2>6, <2>8, <2>9, <2>10
<1>2. CASE ~BelongsDown(q)
  <2>1. fromInside \/ \A i \in 1 .. lastEntry : InOrder(i)
    <3> SUFFICES ASSUME ~fromInside, NEW i \in 1 .. lastEntry PROVE InOrder(i)
      OBVIOUS
    <3>1. CASE Parent(i) # q
      BY <1>0, <1>q, <3>1 DEF AlmostInOrder
    <3>2. CASE Parent(i) = q
      BY <1>2, <3>2, ChildrenInOrder
    <3> QED BY <3>1, <3>2
  <2>2. CASE call.socket # NoSocket
    <3>1. PutIn(call.socket, call.ts) /\ UNCHANGED <<due, fromInside, firstLeft>>
      BY <1>2, <1>q, <2>2 DEF GoDown
    <3>2. call.socket \in Socket /\ heapLoc[call.socket] < 0
          /\ call.ts \in 1 .. MaxTime
      BY <2>2, SndUListAssumption DEF CallIsSound, HeapTypeOK
    <3>3. due # 0 /\ ~firstLeft => call.ts = 1
      BY <2>2 DEF FirstIsDue
    <3>4. PICK u, ts : u = call.socket /\ ts = call.ts
      OBVIOUS
    <3> QED BY <2>1, <3>1, <3>2, <3>3, <3>4, PutInStep
  <2>3. CASE call.socket = NoSocket
    <3>1. call' = NoCall
          /\ UNCHANGED <<heap, lastEntry, heapLoc, timeStamp, due, fromInside, firstLeft>>
      BY <1>2, <1>q, <2>3 DEF GoDown
    <3>2. HeapTypeOK' /\ PlacesKnown' /\ TimesAreSet'
      BY <3>1, SndUListAssumption DEF HeapTypeOK, PlacesKnown, TimesAreSet, NoCall
    <3>3. CallIsSound'
      BY <3>1, SndUListAssumption DEF CallIsSound, NoCall
    <3>4. fromInside' \/ AlmostInOrder'
      BY <2>1, <3>1 DEF AlmostInOrder, NoCall, InOrder, TimeAt
    <3>5. FirstIsDue'
      BY <3>1 DEF FirstIsDue, NoCall, TimeAt
    <3> QED BY <3>2, <3>3, <3>4, <3>5
  <2> QED BY <2>2, <2>3
<1> QED BY <1>1, <1>2

\* The start of remove_.  Unless the first is taken out, by the worker or
\* while nobody waits for it, or the last, nothing is said of the order.
LEMMA TakeOutStep ==
  ASSUME HeapInv, Unlocked, NEW u \in Socket, heapLoc[u] >= 0,
         NEW v \in {u, NoSocket}, NEW ts \in 0 .. MaxTime, v = u => ts >= 1,
         TakeOut(u, v, ts),
         fromInside' = (fromInside \/ Inside(u)),
         due' \in 0 .. MaxTime, firstLeft' \in BOOLEAN,
         due' # 0 /\ ~firstLeft' =>
           due' = due /\ ~firstLeft /\ heapLoc[u] > 0 /\ (v = u => ts = 1)
  PROVE  HeapInv'
<1> USE DEF HeapInv
<1>l. PICK loc : loc = heapLoc[u]
  OBVIOUS
<1>0. lastEntry \in Int /\ v \in Socket \cup {NoSocket} /\ u # NoSocket
  BY SocketsAreCounted, SndUListAssumption DEF HeapTypeOK
<1>1. /\ heap' \in [Entries -> Socket \cup {NoSocket}]
      /\ lastEntry' = lastEntry - 1 /\ lastEntry' \in -1 .. Cardinality(Socket) - 1
      /\ heapLoc' \in [Socket -> -1 .. Cardinality(Socket) - 1]
      /\ timeStamp' \in [Socket -> 0 .. MaxTime]
      /\ PlacesKnown'
      /\ loc \in 0 .. lastEntry
      /\ heapLoc'[u] = -1
      /\ TimesAreSet'
      /\ \A i \in 0 .. lastEntry - 1 :
           TimeAt(i)' = IF i = loc THEN TimeAt(lastEntry) ELSE TimeAt(i)
      /\ call' = [loop |-> "down", at |-> loc, socket |-> v, ts |-> ts]
  BY <1>0, <1>l, TakeOutFacts
<1>2. call'.loop = "down" /\ call'.at = loc /\ call'.socket = v /\ call'.ts = ts
  BY <1>1
<1>3. HeapTypeOK'
  <2>1. call' \in [loop : {"none", "up", "down"}, at : Nat,
                   socket : Socket \cup {NoSocket}, ts : 0 .. MaxTime]
    BY <1>0, <1>1
  <2>2. fromInside' \in BOOLEAN
    BY DEF HeapTypeOK
  <2> QED BY <1>1, <2>1, <2>2 DEF HeapTypeOK
<1>4. CallIsSound'
  BY <1>0, <1>1, <1>2 DEF CallIsSound
<1>5. fromInside' \/ AlmostInOrder'
  <2> SUFFICES ASSUME ~fromInside, ~Inside(u) PROVE AlmostInOrder'
    OBVIOUS
  <2>1. \A i \in 1 .. lastEntry : InOrder(i)
    BY DEF AlmostInOrder, Unlocked, NoCall
  <2>2. loc = 0 \/ loc = lastEntry
    BY <1>0, <1>1, <1>l DEF Inside
  <2>3. ASSUME NEW i \in 1 .. lastEntry - 1, Parent(i) # loc PROVE InOrder(i)'
    <3>1. /\ i \in 1 .. lastEntry /\ i \in 0 .. lastEntry - 1
          /\ Parent(i) \in 0 .. lastEntry - 1 /\ i # loc
      BY <1>0, <2>2, ParentIsBefore
    <3>2. TimeAt(i)' = TimeAt(i) /\ TimeAt(Parent(i))' = TimeAt(Parent(i))
      BY <1>1, <2>3, <3>1
    <3> QED BY <2>1, <3>1, <3>2 DEF InOrder
  <2>4. ASSUME loc > 0, NEW i \in 1 .. lastEntry - 1 PROVE Parent(i) # loc
    BY <1>0, <2>2, <2>4, ParentIsBefore
  <2> QED BY <1>1, <1>2, <2>3, <2>4 DEF AlmostInOrder
<1>6. FirstIsDue'
  <2> SUFFICES ASSUME due' # 0, ~firstLeft'
               PROVE  /\ lastEntry - 1 >= 0 => TimeAt(0)' =< due'
                      /\ loc > 0
                      /\ v # NoSocket => ts = 1
    BY <1>1, <1>2 DEF FirstIsDue
  <2>1. due' = due /\ ~firstLeft /\ loc > 0 /\ (v # NoSocket => ts = 1)
    BY <1>l
  <2>2. ASSUME lastEntry - 1 >= 0 PROVE TimeAt(0)' =< due'
    <3>1. 0 \in 0 .. lastEntry - 1 /\ lastEntry >= 0
      BY <1>0, <2>2
    <3>2. TimeAt(0)' = TimeAt(0)
      BY <1>1, <2>1, <3>1
    <3> QED BY <2>1, <3>1, <3>2 DEF FirstIsDue
  <2> QED BY <2>1, <2>2
<1> QED BY <1>1, <1>3, <1>4, <1>5, <1>6

LEMMA UpdateStep ==
  ASSUME HeapInv, NEW u \in Socket, Update(u)
  PROVE  HeapInv'
<1> USE DEF HeapInv
<1>0. Unlocked /\ fromInside' = (fromInside \/ Inside(u))
      /\ UNCHANGED <<due, firstLeft>>
  BY DEF Update
<1>1. CASE heapLoc[u] = 0
  <2>1. /\ timeStamp' = [timeStamp EXCEPT ![u] = 1]
        /\ UNCHANGED <<heap, lastEntry, heapLoc, call>>
    BY <1>1 DEF Update
  <2>2. ~Inside(u)
    BY <1>1 DEF Inside
  <2>3. HeapTypeOK' /\ PlacesKnown' /\ CallIsSound' /\ TimesAreSet'
    <3>1. 1 \in 0 .. MaxTime
      BY SndUListAssumption
    <3>2. HeapTypeOK'
      BY <1>0, <2>1, <2>2, <3>1 DEF HeapTypeOK
    <3> QED BY <2>1, <3>2 DEF PlacesKnown, CallIsSound, TimesAreSet, HeapTypeOK
  <2>4. ASSUME NEW i \in 0 .. lastEntry
        PROVE  TimeAt(i)' = IF i = 0 THEN 1 ELSE TimeAt(i)
    <3>1. heap[i] \in Socket /\ heapLoc[heap[i]] = i /\ heap[0] = u
      BY <1>1 DEF PlacesKnown
    <3>2. timeStamp'[heap[i]] = IF heap[i] = u THEN 1 ELSE timeStamp[heap[i]]
      BY <2>1, <3>1 DEF HeapTypeOK
    <3> QED BY <1>1, <2>1, <3>1, <3>2 DEF TimeAt
  <2>5. lastEntry \in Int /\ 0 \in 0 .. lastEntry
    BY <1>1, SocketsAreCounted DEF PlacesKnown, HeapTypeOK
  <2>6. fromInside' \/ AlmostInOrder'
    <3> SUFFICES ASSUME ~fromInside, NEW i \in 1 .. lastEntry PROVE InOrder(i)'
      BY <1>0, <2>1, <2>2 DEF AlmostInOrder, Unlocked, NoCall
    <3>1. InOrder(i)
      BY <1>0 DEF AlmostInOrder, Unlocked, NoCall
    <3>2. i \in 0 .. lastEntry /\ Parent(i) \in 0 .. lastEntry /\ i # 0
      BY <2>5, ParentIsBefore
    <3>3. TimeAt(i) \in Nat /\ TimeAt(i) >= 1
      BY <3>2, TimesAreNumbers
    <3>4. /\ TimeAt(i)' = TimeAt(i)
          /\ TimeAt(Parent(i))' = IF Parent(i) = 0 THEN 1 ELSE TimeAt(Parent(i))
      BY <2>4, <3>2
    <3> QED BY <3>1, <3>3, <3>4 DEF InOrder
  <2>7. FirstIsDue'
    <3> SUFFICES ASSUME due # 0 PROVE TimeAt(0)' =< due
      BY <1>0, <2>1 DEF FirstIsDue, Unlocked, NoCall
    <3>1. TimeAt(0)' = 1
      BY <2>4, <2>5
    <3> QED BY <3>1, SndUListAssumption DEF HeapTypeOK
  <2> QED BY <2>3, <2>6, <2>7
<1>2. CASE heapLoc[u] > 0
  <2>1. TakeOut(u, u, 1) /\ heapLoc[u] >= 0 /\ 1 \in 0 .. MaxTime
    BY <1>2, SndUListAssumption DEF Update, HeapTypeOK
  <2>2. due' \in 0 .. MaxTime /\ firstLeft' \in BOOLEAN /\ due' = due
        /\ firstLeft' = firstLeft
    BY <1>0 DEF HeapTypeOK
  <2> QED BY <1>0, <1>2, <2>1, <2>2, TakeOutStep
<1>3. CASE heapLoc[u] < 0
  <2>1. PutIn(u, 1) /\ 1 \in 1 .. MaxTime
    BY <1>3, SndUListAssumption DEF Update, HeapTypeOK
  <2>2. ~Inside(u)
    BY <1>3 DEF Inside, HeapTypeOK
  <2>3. fromInside \/ \A i \in 1 .. lastEntry : InOrder(i)
    BY <1>0 DEF AlmostInOrder, Unlocked, NoCall
  <2>4. UNCHANGED <<due, fromInside, firstLeft>>
    BY <1>0, <2>2 DEF HeapTypeOK
  <2> QED BY <1>3, <2>1, <2>3, <2>4, PutInStep
<1> QED BY <1>1, <1>2, <1>3 DEF HeapTypeOK

LEMMA CloseStep ==
  ASSUME HeapInv, NEW u \in Socket, Close(u)
  PROVE  HeapInv'
<1> USE DEF HeapInv
<1>1. /\ Unlocked /\ heapLoc[u] >= 0 /\ TakeOut(u, NoSocket, 0)
      /\ fromInside' = (fromInside \/ Inside(u))
      /\ firstLeft' = (firstLeft \/ (due # 0 /\ heapLoc[u] = 0))
      /\ due' = due
  BY DEF Close
<1>2. NoSocket \in {u, NoSocket} /\ NoSocket # u /\ 0 \in 0 .. MaxTime
  BY SndUListAssumption
<1>3. due' \in 0 .. MaxTime /\ firstLeft' \in BOOLEAN
  <2>1. due' \in 0 .. MaxTime
    BY <1>1 DEF HeapTypeOK
  <2>2. firstLeft' = TRUE \/ firstLeft' = FALSE
    BY <1>1, Zenon
  <2> QED BY <2>1, <2>2
<1>4. ASSUME due' # 0, ~firstLeft'
      PROVE  due' = due /\ ~firstLeft /\ heapLoc[u] > 0
  <2>1. due' = due /\ ~firstLeft /\ heapLoc[u] # 0
    BY <1>1, <1>4, Zenon
  <2>2. heapLoc[u] \in Int /\ heapLoc[u] >= 0
    BY <1>1, SocketsAreCounted DEF HeapTypeOK
  <2> QED BY <2>1, <2>2
<1> QED BY <1>1, <1>2, <1>3, <1>4, TakeOutStep

LEMMA PopStep ==
  ASSUME HeapInv, NEW ts \in 0 .. MaxTime, Pop(ts)
  PROVE  HeapInv'
<1> USE DEF HeapInv
<1>1. /\ Unlocked /\ PopFirst(ts) /\ due' = 0 /\ firstLeft' = FALSE
      /\ fromInside' = fromInside
  BY DEF Pop
<1>2. CASE lastEntry < 0
  <2>1. UNCHANGED <<heap, lastEntry, heapLoc, timeStamp, call, fromInside>>
    BY <1>1, <1>2 DEF PopFirst, listVars
  <2>2. HeapTypeOK'
    <3>1. due' \in 0 .. MaxTime
      BY <1>1, SndUListAssumption
    <3>2. firstLeft' \in BOOLEAN
      BY <1>1
    <3> QED BY <2>1, <3>1, <3>2 DEF HeapTypeOK
  <2>3. PlacesKnown' /\ CallIsSound' /\ TimesAreSet' /\ FirstIsDue'
    BY <1>1, <2>1 DEF PlacesKnown, CallIsSound, TimesAreSet, FirstIsDue
  <2>4. fromInside' \/ AlmostInOrder'
    BY <2>1 DEF AlmostInOrder, InOrder, TimeAt
  <2> QED BY <2>2, <2>3, <2>4
<1>3. CASE lastEntry >= 0
  <2>1. PICK u : u = heap[0]
    OBVIOUS
  <2>2. lastEntry \in Int /\ 0 \in 0 .. lastEntry
    BY <1>3, SocketsAreCounted DEF HeapTypeOK
  <2>3. u \in Socket /\ heapLoc[u] = 0
    BY <2>1, <2>2 DEF PlacesKnown
  <2>4. PICK v : v = IF ts > 0 THEN u ELSE NoSocket
    OBVIOUS
  <2>5. TakeOut(u, v, ts)
    BY <1>1, <2>1, <2>2, <2>4 DEF PopFirst
  <2>6. v \in {u, NoSocket} /\ (v = u => ts >= 1)
    BY <2>3, <2>4, SndUListAssumption
  <2>7. fromInside' = (fromInside \/ Inside(u))
    BY <1>1, <2>3 DEF Inside, HeapTypeOK
  <2>8. due' \in 0 .. MaxTime /\ firstLeft' \in BOOLEAN /\ ~(due' # 0)
        /\ heapLoc[u] >= 0
    <3>1. due' \in 0 .. MaxTime /\ ~(due' # 0) /\ heapLoc[u] >= 0
      BY <1>1, <2>3, SndUListAssumption
    <3>2. firstLeft' \in BOOLEAN
      BY <1>1
    <3> QED BY <3>1, <3>2
  <2> QED BY <1>1, <2>3, <2>5, <2>6, <2>7, <2>8, TakeOutStep
<1> QED BY <1>2, <1>3, SocketsAreCounted DEF HeapTypeOK

LEMMA LookStep ==
  ASSUME HeapInv, Look
  PROVE  HeapInv'
<1> USE DEF HeapInv
<1>1. /\ UNCHANGED <<heap, lastEntry, heapLoc, timeStamp, call, fromInside, firstLeft>>
      /\ Unlocked /\ due' = TimeAt(0) /\ lastEntry >= 0
  BY DEF Look, listVars
<1>2. 0 \in 0 .. lastEntry /\ heap[0] \in Socket
  BY <1>1, SocketsAreCounted DEF HeapTypeOK, PlacesKnown
<1>3. due' \in 0 .. MaxTime /\ due' \in Nat
  BY <1>1, <1>2, SndUListAssumption DEF HeapTypeOK, TimeAt
<1>4. HeapTypeOK' /\ PlacesKnown' /\ CallIsSound' /\ TimesAreSet'
  BY <1>1, <1>3 DEF HeapTypeOK, PlacesKnown, CallIsSound, TimesAreSet
<1>5. fromInside' \/ AlmostInOrder'
  BY <1>1 DEF AlmostInOrder, InOrder, TimeAt
<1>6. FirstIsDue'
  BY <1>1, <1>3 DEF FirstIsDue, TimeAt, Unlocked, NoCall
<1> QED BY <1>4, <1>5, <1>6

LEMMA HeapStep ==
  ASSUME HeapInv, [UListNext]_uListVars
  PROVE  HeapInv'
<1>1. ASSUME UNCHANGED uListVars PROVE HeapInv'
  BY <1>1 DEF HeapInv, uListVars, listVars, HeapTypeOK, PlacesKnown, CallIsSound,
              TimesAreSet, AlmostInOrder, InOrder, TimeAt, FirstIsDue
<1> QED BY <1>1, GoUpStep, GoDownStep, UpdateStep, CloseStep, LookStep, PopStep
        DEF UListNext

-----------------------------------------------------------------------------

\* The invariant is inductive, for every number of sockets.
THEOREM HeapInductive == UListSpec => []HeapInv
<1>1. UListInit => HeapInv
  BY HeapInit
<1>2. HeapInv /\ [UListNext]_uListVars => HeapInv'
  BY HeapStep
<1> QED BY <1>1, <1>2, PTL DEF UListSpec

(***************************************************************************)
(* Every socket knows its place, and between the calls the heap is in      *)
(* order until a socket was taken out from inside it, whatever the number  *)
(* of sockets and times (queue.cpp, insert_ and remove_).                  *)
(***************************************************************************)
THEOREM HeapOrder == UListSpec => []HeapIsOrdered
<1>1. HeapInv => HeapIsOrdered
  BY SocketsAreCounted DEF HeapInv, HeapIsOrdered, PlacesKnown, HeapTypeOK, AlmostInOrder, InOrder,
         Unlocked, NoCall, Entries
<1> QED BY <1>1, HeapInductive, PTL

(***************************************************************************)
(* No packet goes out before its time (queue.cpp, worker).                 *)
(***************************************************************************)
THEOREM WorkerIsNeverEarly == UListSpec => NeverEarly
<1>1. HeapInv => \A ts \in 0 .. MaxTime :
        Pop(ts) /\ lastEntry >= 0 => TimeAt(0) =< due \/ firstLeft
  BY DEF HeapInv, FirstIsDue, Pop
<1> QED BY <1>1, HeapInductive, PTL DEF NeverEarly, UListSpec

-----------------------------------------------------------------------------
(* The first. *)

\* A nonempty set of natural numbers has a smallest one.
Less == {ss \in Nat \X Nat : ss[1] < ss[2]}

LEMMA Smallest ==
  ASSUME NEW T \in SUBSET Nat, T # {}
  PROVE  \E x \in T : \A y \in T : x =< y
<1>1. IsWellFoundedOn(Less, Nat)
  BY NatLessThanWellFounded DEF OpToRel, Less
<1>2. PICK x \in T : \A y \in T : ~(<<y, x>> \in Less)
  BY <1>1, WFMin
<1>3. ASSUME NEW y \in T PROVE x =< y
  <2>1. y \in Nat /\ x \in Nat /\ ~(<<y, x>> \in Less)
    BY <1>2
  <2>2. y < x => <<y, x>> \in Less
    BY <2>1 DEF Less
  <2> QED BY <2>1, <2>2
<1> QED BY <1>3

(***************************************************************************)
(* getNextProcTime answers the earliest time of all sockets on the list,   *)
(* and pop takes the one of that time, as long as the order is promised:   *)
(* of the sockets that come before the first, the one highest up would     *)
(* come before its parent (queue.cpp, getNextProcTime and pop).            *)
(***************************************************************************)
THEOREM FirstIsEarliest ==
  UListSpec => [](Unlocked /\ ~fromInside =>
                    \A i \in 0 .. lastEntry : TimeAt(0) =< TimeAt(i))
<1>1. ASSUME HeapInv, Unlocked, ~fromInside
      PROVE  \A i \in 0 .. lastEntry : TimeAt(0) =< TimeAt(i)
  <2> USE DEF HeapInv
  <2> DEFINE T == {i \in 0 .. lastEntry : ~(TimeAt(0) =< TimeAt(i))}
  <2>0. lastEntry \in Int
    BY <1>1, SocketsAreCounted DEF HeapTypeOK
  <2>1. ASSUME T # {} PROVE FALSE
    <3>1. PICK x \in T : \A y \in T : x =< y
      <4>1. T \in SUBSET Nat
        BY <2>0
      <4> HIDE DEF T
      <4> QED BY <2>1, <4>1, Smallest
    <3>2. /\ x \in 0 .. lastEntry /\ 0 \in 0 .. lastEntry
          /\ ~(TimeAt(0) =< TimeAt(x)) /\ TimeAt(0) \in Nat /\ TimeAt(x) \in Nat
      BY <2>0, <1>1, TimesAreNumbers
    <3>3. x \in 1 .. lastEntry /\ x \in Nat \ {0}
      BY <2>0, <3>2
    <3>4. Parent(x) < x /\ Parent(x) \in 0 .. lastEntry
      BY <2>0, <3>3, ParentIsBefore
    <3>5. TimeAt(Parent(x)) =< TimeAt(x) /\ TimeAt(Parent(x)) \in Nat
      BY <1>1, <3>3, <3>4, TimesAreNumbers
         DEF AlmostInOrder, InOrder, Unlocked, NoCall
    <3>6. TimeAt(0) =< TimeAt(Parent(x))
      BY <3>1, <3>4, <3>3
    <3> QED BY <3>2, <3>5, <3>6
  <2> QED BY <2>1
<1> QED BY <1>1, HeapInductive, PTL
-----------------------------------------------------------------------------
(***************************************************************************)
(* The congestion control, for every size of the circle, every window of   *)
(* fewer packets than half of it, and every limit.                         *)
(***************************************************************************)

(* Rounding up takes at most one microsecond, and never shortens. *)
LEMMA Division ==
  ASSUME NEW x \in Nat, NEW y \in Nat \ {0}
  PROVE  /\ x \div y \in Nat
         /\ y * (x \div y) =< x
         /\ x < y * (x \div y) + y
OBVIOUS

LEMMA LongerBounds ==
  ASSUME ZudtCCConstants, NEW p \in Nat
  PROVE  /\ Longer(p) \in Nat
         /\ p =< Longer(p)
         /\ 8 * Longer(p) =< 9 * p + 8 * Unit
<1> DEFINE x == 9 * p + 8 * Unit - 1
           q == x \div (8 * Unit)
<1>1. Unit \in Nat \ {0}
  BY DEF ZudtCCConstants
<1>2. x \in Nat /\ 8 * Unit \in Nat \ {0}
  BY <1>1
<1>3. q \in Nat /\ (8 * Unit) * q =< x /\ x < (8 * Unit) * q + 8 * Unit
  BY <1>2, Division
<1>4. (8 * Unit) * q = 8 * (Unit * q) /\ Unit * q \in Nat
  BY <1>1, <1>3
<1>5. Longer(p) = Unit * q
  BY DEF Longer
<1> HIDE DEF q
<1> QED BY <1>1, <1>3, <1>4, <1>5

(* A period that is not above another is not above its cuts, either. *)
LEMMA ShareOfTheLonger ==
  ASSUME NEW p \in Nat, NEW e \in Nat, NEW u \in Nat, p =< e
  PROVE  /\ 8 * p =< 9 * e + 8 * u
         /\ 64 * p =< 81 * e + 136 * u
         /\ 512 * p =< 729 * e + 1736 * u
         /\ 4096 * p =< 6561 * e + 19720 * u
         /\ 32768 * p =< 59049 * e + 210248 * u
<1>1. 8 * p =< 8 * e /\ 64 * p =< 64 * e /\ 512 * p =< 512 * e
  OBVIOUS
<1>2. 4096 * p =< 4096 * e /\ 32768 * p =< 32768 * e
  OBVIOUS
<1> QED BY <1>1, <1>2

-----------------------------------------------------------------------------

LEMMA InitInvariant ==
  ASSUME ZudtCCConstants, Init
  PROVE  IInv
<1>1. SeqNoTH \in Nat \ {0} /\ MaxSeqNo \in Nat
  BY SeqNoAssumption
<1>2. lastDecSeq \in SeqNos /\ lastDecSeq = Shift(sndCurrSeqNo, -1)
  BY StepsAreShifts DEF Init
<1>3. TypeOK
  <2>1. period \in Nat /\ epochPeriod \in Nat
    BY DEF Init, ZudtCCConstants
  <2>2. outstanding \in 0 .. Window /\ sinceCut \in 0 .. SeqNoTH
    BY <1>1 DEF Init, ZudtCCConstants
  <2>3. nakCount \in Nat /\ decRandom \in Nat \ {0} /\ decCount \in 0 .. 5
    BY DEF Init
  <2>4. /\ bLoss \in BOOLEAN /\ limit \in Nat /\ asked \in Nat \cup {None}
        /\ param \in {"none", "set", "invalid"} /\ applied \in BOOLEAN
    BY DEF Init
  <2> QED BY <1>2, <2>1, <2>2, <2>3, <2>4 DEF Init, TypeOK
<1>4. CutIsBehind
  BY <1>2 DEF Init, CutIsBehind
<1>5. CutsAddUp
  BY <1>3 DEF Init, CutsAddUp, TypeOK
<1>6. NotWhileAsked /\ RateLimited
  BY DEF Init, NotWhileAsked, RateLimited
<1> QED BY <1>3, <1>4, <1>5, <1>6 DEF IInv

LEMMA TypeStep ==
  ASSUME ZudtCCConstants, TypeOK, [Next]_vars
  PROVE  TypeOK'
<1> USE DEF TypeOK
<1>0. SeqNoTH \in Nat /\ Window \in Nat /\ Unit \in Nat \ {0}
  BY SeqNoAssumption DEF ZudtCCConstants
<1>1. CASE Send
  <2>1. sndCurrSeqNo' \in SeqNos
    BY <1>1, StepsAreShifts DEF Send
  <2>2. outstanding' \in 0 .. Window
    BY <1>0, <1>1 DEF Send
  <2>3. sinceCut' \in 0 .. SeqNoTH
    BY <1>0, <1>1 DEF Send
  <2> QED BY <1>1, <2>1, <2>2, <2>3 DEF Send, limitVars
<1>2. CASE OnACKAfterLoss
  BY <1>2 DEF OnACKAfterLoss, seqVars, cutVars, limitVars
<1>3. CASE OnACK
  <2>1. Readable \subseteq Nat
    BY DEF Readable, ZudtCCConstants
  <2>2. PICK p \in 1 .. period, l \in Readable :
          /\ period' = AtLeast(p, l)
          /\ epochPeriod' = IF p < l THEN AtLeast(epochPeriod, l) ELSE epochPeriod
    BY <1>3 DEF OnACK
  <2>3. period' \in Nat /\ epochPeriod' \in Nat
    BY <2>1, <2>2 DEF AtLeast
  <2> QED BY <1>3, <2>3 DEF OnACK, seqVars, cutVars
<1>4. ASSUME NEW n \in 0 .. Window - 1, BeginEpoch(n) \/ CutAgain(n)
      PROVE  TypeOK'
  <2>1. Longer(period) \in Nat
    BY LongerBounds
  <2>2. CASE BeginEpoch(n)
    BY <1>0, <2>1, <2>2 DEF BeginEpoch, Report, Cut, seqVars, limitVars, ZudtCCConstants
  <2>3. CASE CutAgain(n)
    BY <1>0, <2>1, <2>3 DEF CutAgain, Report, Cut, Counted, seqVars, limitVars
  <2> QED BY <1>4, <2>2, <2>3
<1>5. ASSUME NEW n \in 0 .. Window - 1, CountReport(n)
      PROVE  TypeOK'
  BY <1>5 DEF CountReport, Report, Counted, seqVars, limitVars
<1>6. ASSUME NEW l \in Limits \cup {0}, BeginSetBW(l)
      PROVE  TypeOK'
  <2>1. l \in Nat
    BY DEF ZudtCCConstants
  <2>2. param' \in {"none", "set", "invalid"}
    BY <1>6 DEF BeginSetBW
  <2> QED BY <1>6, <2>1, <2>2 DEF BeginSetBW, seqVars, cutVars
<1>7. CASE EndSetBW
  BY <1>7 DEF EndSetBW, seqVars, cutVars
<1>8. CASE UNCHANGED vars
  BY <1>8 DEF vars, seqVars, cutVars, limitVars
<1> QED BY <1>1, <1>2, <1>3, <1>4, <1>5, <1>6, <1>7, <1>8 DEF Next

(* The number of the last cut stays as far back as packets were sent. *)
LEMMA BehindStep ==
  ASSUME ZudtCCConstants, TypeOK, CutIsBehind, [Next]_vars
  PROVE  CutIsBehind'
<1> USE DEF CutIsBehind
<1>0. SeqNoTH \in Nat \ {0} /\ sndCurrSeqNo \in SeqNos /\ sinceCut \in Nat
  BY SeqNoAssumption DEF TypeOK
<1>1. CASE Send
  <2>1. SUFFICES ASSUME sinceCut' < SeqNoTH
                 PROVE  lastDecSeq' = Shift(sndCurrSeqNo', -(sinceCut'))
    OBVIOUS
  <2>2. sinceCut < SeqNoTH /\ sinceCut' = sinceCut + 1
    BY <1>0, <1>1, <2>1 DEF Send
  <2>3. sndCurrSeqNo' = Shift(sndCurrSeqNo, 1)
    BY <1>1, <1>0, StepsAreShifts DEF Send
  <2>4. Shift(Shift(sndCurrSeqNo, 1), -(sinceCut + 1))
          = Shift(sndCurrSeqNo, 1 + (-(sinceCut + 1)))
    BY <1>0, <2>1, <2>2, ShiftsAdd
  <2>5. 1 + (-(sinceCut + 1)) = -sinceCut
    BY <1>0
  <2> QED BY <1>1, <2>2, <2>3, <2>4, <2>5 DEF Send
<1>2. CASE OnACKAfterLoss
  BY <1>2 DEF OnACKAfterLoss, seqVars, cutVars
<1>3. CASE OnACK
  BY <1>3 DEF OnACK, seqVars, cutVars
<1>4. ASSUME NEW n \in 0 .. Window - 1, BeginEpoch(n) \/ CutAgain(n)
      PROVE  CutIsBehind'
  <2>1. sinceCut' = 0 /\ lastDecSeq' = sndCurrSeqNo /\ sndCurrSeqNo' = sndCurrSeqNo
    BY <1>4 DEF BeginEpoch, CutAgain, Cut, seqVars
  <2>2. Shift(sndCurrSeqNo, -0) = sndCurrSeqNo
    BY <1>0, SeqNoAssumption DEF Shift, SeqNos
  <2> QED BY <2>1, <2>2
<1>5. ASSUME NEW n \in 0 .. Window - 1, CountReport(n)
      PROVE  CutIsBehind'
  BY <1>5 DEF CountReport, seqVars
<1>6. ASSUME NEW l \in Limits \cup {0}, BeginSetBW(l)
      PROVE  CutIsBehind'
  BY <1>6 DEF BeginSetBW, seqVars, cutVars
<1>7. CASE EndSetBW
  BY <1>7 DEF EndSetBW, seqVars, cutVars
<1>8. CASE UNCHANGED vars
  BY <1>8 DEF vars, seqVars, cutVars
<1> QED BY <1>1, <1>2, <1>3, <1>4, <1>5, <1>6, <1>7, <1>8 DEF Next

(* Every cut costs an eighth and at most a microsecond. *)
LEMMA CutsStep ==
  ASSUME ZudtCCConstants, TypeOK, CutsAddUp, [Next]_vars
  PROVE  CutsAddUp'
<1> USE DEF CutsAddUp
<1>0. /\ period \in Nat /\ epochPeriod \in Nat /\ Unit \in Nat
      /\ decCount \in 0 .. 5
  BY DEF TypeOK, ZudtCCConstants
<1>1. CASE Send
  BY <1>1 DEF Send
<1>2. CASE OnACKAfterLoss
  BY <1>2 DEF OnACKAfterLoss, cutVars
<1>3. CASE OnACK
  <2>1. Readable \subseteq Nat
    BY DEF Readable, ZudtCCConstants, TypeOK
  <2>2. PICK p \in 1 .. period, l \in Readable :
          /\ period' = AtLeast(p, l)
          /\ epochPeriod' = IF p < l THEN AtLeast(epochPeriod, l) ELSE epochPeriod
    BY <1>3 DEF OnACK
  <2>3. p \in Nat /\ l \in Nat /\ p =< period
    BY <1>0, <2>1
  <2>4. decCount' = decCount
    BY <1>3 DEF OnACK, cutVars
  <2>5. CASE p < l
    <3>1. period' = l /\ epochPeriod' \in Nat /\ l =< epochPeriod'
      BY <1>0, <2>2, <2>3, <2>5 DEF AtLeast
    <3>2. PICK e \in Nat : e = epochPeriod'
      BY <3>1
    <3>3. l \in Nat /\ e \in Nat /\ Unit \in Nat /\ l =< e
      BY <1>0, <2>3, <3>1, <3>2
    <3>4. /\ 8 * l =< 9 * e + 8 * Unit
          /\ 64 * l =< 81 * e + 136 * Unit
          /\ 512 * l =< 729 * e + 1736 * Unit
          /\ 4096 * l =< 6561 * e + 19720 * Unit
          /\ 32768 * l =< 59049 * e + 210248 * Unit
      BY ONLY <3>3, ShareOfTheLonger
    <3>5. period' = l /\ epochPeriod' = e /\ period' =< epochPeriod'
      BY <3>1, <3>2
    <3> QED BY ONLY <3>4, <3>5 DEF CutsAddUp
  <2>6. CASE ~(p < l)
    <3>1. period' = p /\ epochPeriod' = epochPeriod
      BY <2>2, <2>6 DEF AtLeast
    <3> QED BY <1>0, <2>3, <2>4, <3>1
  <2> QED BY <2>5, <2>6
<1>4. ASSUME NEW n \in 0 .. Window - 1, BeginEpoch(n)
      PROVE  CutsAddUp'
  <2>1. /\ Longer(period) \in Nat
        /\ 8 * Longer(period) =< 9 * period + 8 * Unit
    BY <1>0, LongerBounds
  <2>2. decCount' = 1 /\ period' = Longer(period) /\ epochPeriod' = period
    BY <1>4 DEF BeginEpoch, Cut
  <2> QED BY <1>0, <2>1, <2>2
<1>5. ASSUME NEW n \in 0 .. Window - 1, CutAgain(n)
      PROVE  CutsAddUp'
  <2>1. /\ Longer(period) \in Nat
        /\ 8 * Longer(period) =< 9 * period + 8 * Unit
    BY <1>0, LongerBounds
  <2>2. /\ decCount < 5 /\ decCount' = decCount + 1
        /\ period' = Longer(period) /\ epochPeriod' = epochPeriod
    BY <1>5 DEF CutAgain, Counted, Cut
  <2> HIDE DEF CutsAddUp
  <2>3. CASE decCount = 0
    BY <1>0, <2>1, <2>2, <2>3 DEF CutsAddUp
  <2>4. CASE decCount = 1
    BY <1>0, <2>1, <2>2, <2>4 DEF CutsAddUp
  <2>5. CASE decCount = 2
    BY <1>0, <2>1, <2>2, <2>5 DEF CutsAddUp
  <2>6. CASE decCount = 3
    BY <1>0, <2>1, <2>2, <2>6 DEF CutsAddUp
  <2>7. CASE decCount = 4
    BY <1>0, <2>1, <2>2, <2>7 DEF CutsAddUp
  <2> QED BY <1>0, <2>2, <2>3, <2>4, <2>5, <2>6, <2>7
<1>6. ASSUME NEW n \in 0 .. Window - 1, CountReport(n)
      PROVE  CutsAddUp'
  <2>1. /\ decCount' = (IF decCount < 5 THEN decCount + 1 ELSE 5)
        /\ period' = period /\ epochPeriod' = epochPeriod
    BY <1>6 DEF CountReport, Counted
  <2> QED BY <1>0, <2>1
<1>7. ASSUME NEW l \in Limits \cup {0}, BeginSetBW(l)
      PROVE  CutsAddUp'
  BY <1>7 DEF BeginSetBW, cutVars
<1>8. CASE EndSetBW
  BY <1>8 DEF EndSetBW, cutVars
<1>9. CASE UNCHANGED vars
  BY <1>9 DEF vars, cutVars
<1> QED BY <1>1, <1>2, <1>3, <1>4, <1>5, <1>6, <1>7, <1>8, <1>9 DEF Next

(* A limit that was applied holds until setBW begins. *)
LEMMA LimitStep ==
  ASSUME ZudtCCConstants, TypeOK, NotWhileAsked, RateLimited, [Next]_vars
  PROVE  NotWhileAsked' /\ RateLimited'
<1> USE DEF NotWhileAsked, RateLimited
<1>0. period \in Nat /\ limit \in Nat /\ None \notin Nat
  BY DEF TypeOK, ZudtCCConstants
<1>1. CASE Send
  BY <1>1 DEF Send, limitVars
<1>2. CASE OnACKAfterLoss
  BY <1>2 DEF OnACKAfterLoss, limitVars
<1>3. CASE OnACK
  <2>1. /\ applied' = (param = "set")
        /\ limit' = limit /\ param' = param /\ asked' = asked
    BY <1>3 DEF OnACK
  <2>2. ASSUME param = "set"
        PROVE  period' >= limit'
    <3>1. PICK p \in 1 .. period : period' = AtLeast(p, limit)
      BY <1>3, <2>2 DEF OnACK, Readable
    <3> QED BY <1>0, <2>1, <3>1 DEF AtLeast
  <2> QED BY <2>1, <2>2
<1>4. ASSUME NEW n \in 0 .. Window - 1, BeginEpoch(n) \/ CutAgain(n)
      PROVE  NotWhileAsked' /\ RateLimited'
  <2>1. period' = Longer(period) /\ UNCHANGED limitVars
    BY <1>4 DEF BeginEpoch, CutAgain, Cut
  <2>2. Longer(period) \in Nat /\ period =< Longer(period)
    BY <1>0, LongerBounds
  <2> QED BY <1>0, <2>1, <2>2 DEF limitVars
<1>5. ASSUME NEW n \in 0 .. Window - 1, CountReport(n)
      PROVE  NotWhileAsked' /\ RateLimited'
  BY <1>5 DEF CountReport, limitVars
<1>6. ASSUME NEW l \in Limits \cup {0}, BeginSetBW(l)
      PROVE  NotWhileAsked' /\ RateLimited'
  BY <1>6 DEF BeginSetBW
<1>7. CASE EndSetBW
  BY <1>7 DEF EndSetBW
<1>8. CASE UNCHANGED vars
  BY <1>8 DEF vars, limitVars
<1> QED BY <1>1, <1>2, <1>3, <1>4, <1>5, <1>6, <1>7, <1>8 DEF Next

-----------------------------------------------------------------------------

(* The inductive invariant: how far back the last cut is, and what the     *)
(* cuts of an epoch add up to (onACK, onLoss, setBW).                      *)
THEOREM CongestionInductive == ASSUME ZudtCCConstants PROVE Spec => []IInv
<1>1. Init => IInv
  BY InitInvariant
<1>2. IInv /\ [Next]_vars => IInv'
  BY TypeStep, BehindStep, CutsStep, LimitStep DEF IInv
<1> QED BY <1>1, <1>2, PTL DEF Spec

(* Reports are told fresh from old through every wrap of the numbers, as   *)
(* long as less than half the circle was sent since the last cut (onLoss   *)
(* and m_iLastDecSeq).                                                     *)
THEOREM Freshness == ASSUME ZudtCCConstants PROVE Spec => []EpochsAreFresh
<1>1. IInv => EpochsAreFresh
  <2>1. SUFFICES ASSUME IInv, sinceCut < SeqNoTH,
                        NEW n \in 0 .. Window - 1, n < outstanding
                 PROVE  IsFresh(n) <=> n < sinceCut
    BY DEF EpochsAreFresh
  <2>2. /\ sndCurrSeqNo \in SeqNos /\ sinceCut \in Nat /\ n \in Nat
        /\ n < SeqNoTH /\ SeqNoTH \in Nat \ {0} /\ MaxSeqNo = 2 * SeqNoTH + 1
        /\ lastDecSeq = Shift(sndCurrSeqNo, -sinceCut)
    BY <2>1, SeqNoAssumption DEF IInv, TypeOK, CutIsBehind, ZudtCCConstants
  <2>3. lastDecSeq \in SeqNos
    BY <2>1 DEF IInv, TypeOK
  <2>4. Shift(Shift(sndCurrSeqNo, -sinceCut), sinceCut - n)
          = Shift(sndCurrSeqNo, (-sinceCut) + (sinceCut - n))
    BY <2>1, <2>2, ShiftsAdd
  <2>5. (-sinceCut) + (sinceCut - n) = -n
    BY <2>2
  <2>6. seqcmp(Shift(lastDecSeq, sinceCut - n), lastDecSeq) > 0 <=> sinceCut - n > 0
    BY <2>1, <2>2, <2>3, ComparisonIsOrder
  <2> QED BY <2>2, <2>4, <2>5, <2>6 DEF IsFresh
<1> QED BY <1>1, CongestionInductive, PTL

(* An epoch takes the rate down by no more than half and the rounding,     *)
(* whatever number of reports comes (onLoss).                              *)
THEOREM CutsAreBounded == ASSUME ZudtCCConstants PROVE Spec => []RateHalvedAtMost
<1>1. IInv => RateHalvedAtMost
  BY DEF IInv, TypeOK, CutsAddUp, RateHalvedAtMost, ZudtCCConstants
<1> QED BY <1>1, CongestionInductive, PTL

(* Once applied, max_speed is kept until it is set again (onACK, setBW).   *)
THEOREM LimitHolds == ASSUME ZudtCCConstants PROVE Spec => []RateLimited
<1>1. IInv => RateLimited
  BY DEF IInv
<1> QED BY <1>1, CongestionInductive, PTL

=============================================================================
