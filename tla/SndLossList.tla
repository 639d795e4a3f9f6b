---------------------------- MODULE SndLossList ----------------------------
(***************************************************************************)
(* CSndLossList (list.cpp): the numbers the sender has to send again, as   *)
(* intervals in a sorted list.  The nodes of the list are the places of    *)
(* fixed arrays: the interval that starts d numbers after the first one is *)
(* kept d places after the head, round the end of the arrays, so that a    *)
(* number is found without a search.  The list is driven by the one who    *)
(* calls it, the sending CUDT, with a window of packets that are not       *)
(* acknowledged, which goes round the circle of sequence numbers.          *)
(*                                                                         *)
(* The list's lock makes every call one step.  What a node that was given  *)
(* back still holds in m_piNext is never read and is forgotten here.       *)
(***************************************************************************)
EXTENDS SeqNo

CONSTANTS
  Size,    \* m_iSize: twice the flow window (core.cpp)
  Window   \* the packets that may be outstanding, m_iFlowWindowSize

SndLossListConstants ==
  /\ Window \in Nat \ {0}
  /\ Size \in Nat /\ Window =< Size
  /\ Window < SeqNoTH

Unset == -1
Nodes == 0 .. Size - 1

VARIABLES
  list,            \* the CSndLossList
  answer,          \* what its last call returned
  sndLastDataAck,  \* m_iSndLastDataAck: what is released from the buffer
  sndLastAck,      \* m_iSndLastAck: what is acknowledged, by a lite ACK too
  sndCurr          \* m_iSndCurrSeqNo

vars == <<list, answer, sndLastDataAck, sndLastAck, sndCurr>>

Nowhere == [i \in Nodes |-> Unset]

EmptyList ==
  [data1 |-> Nowhere, data2 |-> Nowhere, next |-> Nowhere,
   head |-> Unset, length |-> 0, lastInsertPos |-> Unset]

-----------------------------------------------------------------------------
(* Nodes. *)

\* The last number of the interval of node i.
End(l, i) == IF l.data2[i] = Unset THEN l.data1[i] ELSE l.data2[i]

\* The place of a number, given the one of the head.
Loc(l, seq) == (l.head + seqoff(l.data1[l.head], seq) + Size) % Size

\* Node i becomes the interval from seq1 to seq2.
Fill(l, i, seq1, seq2, next) ==
  [l EXCEPT !.data1[i] = seq1,
            !.data2[i] = IF seq2 # seq1 THEN seq2 ELSE @,
            !.next[i] = next]

\* A slip: the place of the last insertion is not forgotten with its node.
FreeKeepingInsertPos(l, i) ==
  [l EXCEPT !.data1[i] = Unset, !.data2[i] = Unset, !.next[i] = Unset]

Free(l, i) ==
  [l EXCEPT !.data1[i] = Unset, !.data2[i] = Unset, !.next[i] = Unset,
            !.lastInsertPos = IF @ = i THEN Unset ELSE @]

\* The last node from i on that starts before seq.
RECURSIVE Prior(_, _, _)
Prior(l, i, seq) ==
  IF l.next[i] # Unset /\ seqcmp(l.data1[l.next[i]], seq) < 0
  THEN Prior(l, l.next[i], seq)
  ELSE i

\* Node loc takes in the nodes that it overlaps or touches.
RECURSIVE Coalesce(_, _)
Coalesce(l, loc) ==
  LET i == l.next[loc]
      overlap ==
        IF seqcmp(End(l, i), l.data2[loc]) =< 0
        THEN seqlen(l.data1[i], End(l, i))
        ELSE IF seqcmp(l.data2[loc], l.data1[i]) >= 0
        THEN seqlen(l.data1[i], l.data2[loc])
        ELSE 0
      later == IF seqcmp(End(l, i), l.data2[loc]) > 0
               THEN End(l, i) ELSE l.data2[loc]
  IN  IF /\ i # Unset
         /\ l.data2[loc] # Unset
         /\ seqcmp(l.data1[i], incseq(l.data2[loc])) =< 0
      THEN Coalesce([Free(l, i) EXCEPT !.data2[loc] = later,
                                       !.next[loc] = l.next[i],
                                       !.length = @ - overlap], loc)
      ELSE l

\* Node i is made to reach to seq2, if it does not already.
Extend(l, i, seq2) ==
  LET touched == [l EXCEPT !.lastInsertPos = i]
  IN  IF seqcmp(seq2, End(l, i)) > 0
      THEN Coalesce([touched EXCEPT
                       !.data2[i] = seq2,
                       !.length = @ + seqlen(End(l, i), seq2) - 1], i)
      ELSE touched

-----------------------------------------------------------------------------
(* The calls. *)

\* CSndLossList::insert
Inserted(l, seq1, seq2) ==
  LET offset == seqoff(l.data1[l.head], seq1)
      loc == Loc(l, seq1)
      prior == Prior(l,
                     IF /\ l.lastInsertPos # Unset
                        /\ seqcmp(l.data1[l.lastInsertPos], seq1) < 0
                     THEN l.lastInsertPos ELSE l.head,
                     seq1)
      New(i, next) ==
        [Fill(l, i, seq1, seq2, next) EXCEPT
           !.lastInsertPos = i, !.length = @ + seqlen(seq1, seq2)]
  IN  IF l.length = 0 THEN [New(0, Unset) EXCEPT !.head = 0]
      ELSE IF offset < 0 THEN Coalesce([New(loc, l.head) EXCEPT !.head = loc], loc)
      ELSE IF offset = 0 THEN Extend(l, l.head, seq2)
      ELSE IF l.data1[loc] = seq1 THEN Extend(l, loc, seq2)
      ELSE IF l.data2[prior] = Unset \/ seqcmp(l.data2[prior], seq1) < 0
      THEN Coalesce([New(loc, l.next[prior]) EXCEPT !.next[prior] = loc], loc)
      ELSE Extend(l, prior, seq2)

\* The head loses its first number.
HeadTaken(l) ==
  LET rest == (l.head + 1) % Size
      moved == Fill(l, rest, incseq(l.data1[l.head]), l.data2[l.head],
                    l.next[l.head])
  IN  [Free(IF l.data2[l.head] = Unset THEN l ELSE moved, l.head) EXCEPT
         !.head = IF l.data2[l.head] = Unset THEN l.next[l.head] ELSE rest,
         !.length = @ - 1]

\* The nodes from h to the head are given back.
RECURSIVE FreeTo(_, _)
FreeTo(l, h) ==
  IF h = l.head THEN l
  ELSE FreeTo([Free(l, h) EXCEPT
                 !.length = @ - seqlen(l.data1[h], End(l, h))], l.next[h])

\* CSndLossList::remove: node i, the last one that starts at seq or before,
\* is cut in two if it goes on beyond.
RemovedUpTo(l, seq) ==
  LET offset == seqoff(l.data1[l.head], seq)
      loc == Loc(l, seq)
      i == IF l.data1[loc] = seq THEN loc ELSE Prior(l, l.head, seq)
      rest == (loc + 1) % Size
      cut == [Fill(l, rest, incseq(seq), End(l, i), l.next[i]) EXCEPT
                !.data2[i] = IF l.data1[i] = seq THEN Unset ELSE seq,
                !.next[i] = rest]
      split == IF seqcmp(End(l, i), seq) > 0 THEN cut ELSE l
  IN  IF l.length = 0 \/ offset < 0 THEN l
      ELSE IF offset = 0 THEN HeadTaken(l)
      ELSE FreeTo([split EXCEPT !.head = split.next[i]], l.head)

-----------------------------------------------------------------------------
(* The sending CUDT. *)

Outstanding == seqoff(sndLastDataAck, incseq(sndCurr))

Init ==
  /\ list = EmptyList
  /\ answer = 0
  /\ sndLastDataAck \in SeqNos
  /\ sndLastAck = sndLastDataAck
  /\ sndCurr = decseq(sndLastDataAck)

\* CUDT::packData: what is lost goes first,
SendLost ==
  /\ list.length # 0
  /\ answer' = list.data1[list.head]
  /\ list' = HeadTaken(list)
  /\ UNCHANGED <<sndLastDataAck, sndLastAck, sndCurr>>

\* then a new packet if the window has room.
SendNew ==
  /\ list.length = 0
  /\ Outstanding < Window
  /\ sndCurr' = incseq(sndCurr)
  /\ UNCHANGED <<list, answer, sndLastDataAck, sndLastAck>>

\* An ACK, perhaps an old one, acknowledges n more packets.
Ack(n) ==
  /\ n =< Outstanding
  /\ LET ack == Shift(sndLastDataAck, n)
     IN  /\ sndLastAck' = IF seqcmp(ack, sndLastAck) >= 0 THEN ack ELSE sndLastAck
         /\ sndLastDataAck' = ack
         /\ list' = RemovedUpTo(list, decseq(ack))
  /\ answer' = 0
  /\ UNCHANGED sndCurr

\* A lite ACK moves sndLastAck and leaves the list as it is.
LiteAck(n) ==
  /\ n =< Outstanding
  /\ seqcmp(Shift(sndLastDataAck, n), sndLastAck) >= 0
  /\ sndLastAck' = Shift(sndLastDataAck, n)
  /\ UNCHANGED <<list, answer, sndLastDataAck, sndCurr>>

\* A NAK, cut off at sndLastAck, or everything when the EXP timer has fired.
Lost(n1, n2) ==
  LET seq1 == Shift(sndLastDataAck, n1)
      seq2 == Shift(sndLastDataAck, n2)
  IN  /\ n1 =< n2 /\ n2 < Outstanding
      /\ seqcmp(seq1, sndLastAck) >= 0
      /\ list' = Inserted(list, seq1, seq2)
      /\ answer' = list'.length - list.length
      /\ UNCHANGED <<sndLastDataAck, sndLastAck, sndCurr>>

Next ==
  \/ SendLost
  \/ SendNew
  \/ \E n \in 1 .. Window : Ack(n) \/ LiteAck(n)
  \/ \E n1, n2 \in 0 .. Window - 1 : Lost(n1, n2)

Spec == Init /\ [][Next]_vars

-----------------------------------------------------------------------------

\* The numbers in the nodes that are in use.
Held(l) ==
  UNION {SeqRange(l.data1[i], End(l, i)) : i \in {j \in Nodes : l.data1[j] # Unset}}

Promise ==
  INSTANCE LossSet WITH
    window <- SeqRange(sndLastDataAck, Shift(sndLastDataAck, Window - 1)),
    lost <- Held(list),
    length <- list.length,
    first <- IF list.length = 0 THEN -1 ELSE list.data1[list.head]

(***************************************************************************)
(* The arrays are the set of the numbers reported lost and neither sent    *)
(* again nor acknowledged since, whatever reports arrive in what order:    *)
(* insert counts only the new ones, remove takes everything up to the ACK, *)
(* getLostSeq hands out the earliest, and the length is right, so that     *)
(* nothing lost is forgotten and nothing is sent twice for one report      *)
(* (list.cpp, CSndLossList).                                               *)
(***************************************************************************)
ImplementsLossSet == Promise!Spec

=============================================================================
