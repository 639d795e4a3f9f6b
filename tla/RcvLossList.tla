---------------------------- MODULE RcvLossList ----------------------------
(***************************************************************************)
(* CRcvLossList (list.cpp): the numbers that have not arrived although     *)
(* later ones have.  The intervals are placed in arrays as in SndLossList, *)
(* but linked both ways, and single numbers are taken out of the middle of *)
(* them as packets arrive that were sent again.  The list is driven by the *)
(* receiving CUDT; only its own thread calls it.                           *)
(*                                                                         *)
(* The removal of a range and the loss report are loops: every turn is a   *)
(* step, "rcvCall" says how far the loop has come, and the next call       *)
(* begins when it is over.                                                 *)
(*                                                                         *)
(* What a node that was given back still holds in m_piNext and m_piPrior   *)
(* is never read and is forgotten here.                                    *)
(***************************************************************************)
EXTENDS SeqNo

CONSTANTS
  RcvSize,   \* m_iSize: m_iFlightFlagSize (core.cpp)
  RcvWindow, \* slots of the receive buffer, never more than m_iFlightFlagSize
  Limit      \* entries in a loss report, m_iPayloadSize / 4

ASSUME RcvLossListAssumption ==
  /\ RcvWindow \in Nat \ {0}
  /\ RcvSize \in Nat /\ RcvWindow =< RcvSize
  /\ RcvWindow < SeqNoTH
  /\ Limit \in Nat /\ Limit >= 2

Unset == -1
Nodes == 0 .. RcvSize - 1
Nowhere == [i \in Nodes |-> Unset]

EmptyList ==
  [data1 |-> Nowhere, data2 |-> Nowhere, next |-> Nowhere, prior |-> Nowhere,
   head |-> Unset, tail |-> Unset, length |-> 0]

VARIABLES
  rcvList,    \* the CRcvLossList
  rcvAnswer,  \* what its last call returned: for insert, which returns
              \* nothing, how much longer the list is
  rcvCall,    \* the loop that runs: "drop" is at the number "at" of the range
              \* from "from" to "to", and "before" is history, the list before
              \* the call; "report" is at the node "at", has filled "entries"
              \* and named the numbers "named"
  rcvLastAck, \* m_iRcvLastAck: the window of the receive buffer starts here
  rcvCurr     \* m_iRcvCurrSeqNo

rcvVars == <<rcvList, rcvAnswer, rcvCall, rcvLastAck, rcvCurr>>

RcvIdle ==
  [loop |-> "none", at |-> Unset, from |-> Unset, to |-> Unset,
   before |-> EmptyList, entries |-> 0, named |-> {}]

-----------------------------------------------------------------------------
(* Nodes. *)

\* The last number of the interval of node i.
End(l, i) == IF l.data2[i] = Unset THEN l.data1[i] ELSE l.data2[i]

\* The node k places after node i, or before it.
NodeAfter(i, k) == (i + k) % RcvSize
NodeBefore(i, k) == (i - k + RcvSize) % RcvSize

\* Node i becomes the interval from seq1 to seq2.
Fill(l, i, seq1, seq2) ==
  [l EXCEPT !.data1[i] = seq1,
            !.data2[i] = IF seq2 # seq1 THEN seq2 ELSE @]

Free(l, i) ==
  [l EXCEPT !.data1[i] = Unset, !.data2[i] = Unset,
            !.next[i] = Unset, !.prior[i] = Unset]

\* Nodes i and j become neighbours; an end of the list has no neighbour.
LinkNext(l, i, j) == IF i = Unset THEN l ELSE [l EXCEPT !.next[i] = j]
LinkPrior(l, j, i) == IF j = Unset THEN l ELSE [l EXCEPT !.prior[j] = i]

\* The closest node in use in the places before i.
UsedBefore(l, i) ==
  NodeBefore(i, CHOOSE k \in 1 .. RcvSize :
                  /\ l.data1[NodeBefore(i, k)] # Unset
                  /\ \A m \in 1 .. k - 1 : l.data1[NodeBefore(i, m)] = Unset)

-----------------------------------------------------------------------------
(* The calls. *)

\* CRcvLossList::insert, of numbers later than all in the list.
Inserted(l, seq1, seq2) ==
  LET loc == NodeAfter(l.head, seqoff(l.data1[l.head], seq1))
      longer == [l EXCEPT !.length = @ + seqlen(seq1, seq2)]
  IN  IF l.length = 0
      THEN [Fill(longer, 0, seq1, seq2) EXCEPT
              !.head = 0, !.tail = 0, !.next[0] = Unset, !.prior[0] = Unset]
      ELSE IF l.data2[l.tail] # Unset /\ incseq(l.data2[l.tail]) = seq1
      THEN [longer EXCEPT !.data2[l.tail] = seq2]
      ELSE [Fill(longer, loc, seq1, seq2) EXCEPT
              !.next = [@ EXCEPT ![l.tail] = loc, ![loc] = Unset],
              !.prior[loc] = l.tail, !.tail = loc]

\* A node of one number leaves the list.
Unlinked(l, loc) ==
  IF l.head = loc
  THEN [Free(LinkPrior(l, l.next[loc], Unset), loc) EXCEPT !.head = l.next[loc]]
  ELSE LET linked == LinkPrior(LinkNext(l, l.prior[loc], l.next[loc]),
                               l.next[loc], l.prior[loc])
       IN  [Free(linked, loc) EXCEPT
              !.tail = IF l.next[loc] = Unset THEN l.prior[loc] ELSE @]

\* A node that loses its first number moves on by one place.
Advanced(l, loc) ==
  LET i == NodeAfter(loc, 1)
      moved == [Free(Fill(l, i, incseq(l.data1[loc]), l.data2[loc]), loc) EXCEPT
                  !.next[i] = l.next[loc], !.prior[i] = l.prior[loc],
                  !.head = IF @ = loc THEN i ELSE @,
                  !.tail = IF @ = loc THEN i ELSE @]
  IN  LinkPrior(LinkNext(moved, IF l.head = loc THEN Unset ELSE l.prior[loc], i),
                IF l.tail = loc THEN Unset ELSE l.next[loc], i)

\* A slip: a single number that is left is written as an interval.
CutAtAlways(l, i, seq) == [l EXCEPT !.data2[i] = decseq(seq)]

\* Node i ends just before seq.
CutAt(l, i, seq) ==
  [l EXCEPT !.data2[i] = IF seq = incseq(l.data1[i]) THEN Unset ELSE decseq(seq)]

\* Node i is split around seq, of which loc is the place.
Split(l, i, seq, loc) ==
  LET rest == NodeAfter(loc, 1)
      split == [CutAt(Fill(l, rest, incseq(seq), l.data2[i]), i, seq) EXCEPT
                  !.next = [@ EXCEPT ![rest] = l.next[i], ![i] = rest],
                  !.prior[rest] = i,
                  !.tail = IF @ = i THEN rest ELSE @]
  IN  LinkPrior(split, IF l.tail = i THEN Unset ELSE l.next[i], rest)

\* CRcvLossList::remove of one number.
Removed(l, seq) ==
  LET offset == seqoff(l.data1[l.head], seq)
      loc == NodeAfter(l.head, offset)
      i == UsedBefore(l, loc)
      Shorter(m) == [m EXCEPT !.length = @ - 1]
  IN  IF l.length = 0 THEN l
      ELSE IF offset < 0 THEN l
      ELSE IF l.data1[loc] = seq
      THEN Shorter(IF l.data2[loc] = Unset THEN Unlinked(l, loc)
                                           ELSE Advanced(l, loc))
      ELSE IF l.data2[i] = Unset \/ seqcmp(seq, l.data2[i]) > 0 THEN l
      ELSE IF seq = l.data2[i] THEN Shorter(CutAt(l, i, seq))
      ELSE Shorter(Split(l, i, seq, loc))

\* The range from seq1 to seq2 wraps round: CRcvLossList::remove has a loop
\* for the numbers before the wrap, which stops short of m_iMaxSeqNo, and one
\* for those after it.
Wraps(seq1, seq2) == seq1 > seq2

FirstOfRange(seq1, seq2) ==
  IF Wraps(seq1, seq2) /\ seq1 = MaxSeqNo THEN 0 ELSE seq1

NextOfRange(seq1, seq2, seq) ==
  IF Wraps(seq1, seq2) /\ seq = MaxSeqNo - 1 THEN 0 ELSE seq + 1

-----------------------------------------------------------------------------
(* The receiving CUDT. *)

InWindow(n) == Shift(rcvLastAck, n)

RcvInit ==
  /\ rcvList = EmptyList
  /\ rcvAnswer = 0
  /\ rcvCall = RcvIdle
  /\ rcvLastAck \in SeqNos
  /\ rcvCurr = decseq(rcvLastAck)

\* CUDT::processData with a number of the window: the numbers it skips are
\* inserted, a number that does not lead on is removed.
Arrive(n) ==
  LET seq == InWindow(n)
  IN  /\ rcvCall = RcvIdle
      /\ rcvList' = IF seqcmp(seq, incseq(rcvCurr)) > 0
                    THEN Inserted(rcvList, incseq(rcvCurr), decseq(seq))
                    ELSE IF seqcmp(seq, rcvCurr) > 0 THEN rcvList
                    ELSE Removed(rcvList, seq)
      /\ rcvCurr' = IF seqcmp(seq, rcvCurr) > 0 THEN seq ELSE rcvCurr
      /\ rcvAnswer' = IF seqcmp(seq, rcvCurr) > 0
                      THEN rcvList'.length - rcvList.length
                      ELSE rcvList.length - rcvList'.length
      /\ UNCHANGED <<rcvCall, rcvLastAck>>

\* An ACK is sent, of everything before the first loss.
SendAck ==
  /\ rcvCall = RcvIdle
  /\ rcvLastAck' = IF rcvList.length = 0 THEN incseq(rcvCurr)
                   ELSE rcvList.data1[rcvList.head]
  /\ UNCHANGED <<rcvList, rcvAnswer, rcvCall, rcvCurr>>

\* The sender drops a message: CRcvLossList::remove of the range.
BeginDrop(n1, n2) ==
  LET seq1 == InWindow(n1)
      seq2 == InWindow(n2)
  IN  /\ rcvCall = RcvIdle
      /\ n1 =< n2
      /\ rcvCall' = [RcvIdle EXCEPT !.loop = "drop",
                                    !.at = FirstOfRange(seq1, seq2),
                                    !.from = seq1, !.to = seq2,
                                    !.before = rcvList]
      /\ UNCHANGED <<rcvList, rcvAnswer, rcvLastAck, rcvCurr>>

\* A turn of the loop.
DropOne ==
  /\ rcvCall.loop = "drop"
  /\ rcvCall.at # rcvCall.to
  /\ rcvList' = Removed(rcvList, rcvCall.at)
  /\ rcvCall' = [rcvCall EXCEPT !.at = NextOfRange(rcvCall.from, rcvCall.to, @)]
  /\ UNCHANGED <<rcvAnswer, rcvLastAck, rcvCurr>>

\* The last turn, and processCtrl goes on to m_iRcvCurrSeqNo.
DropLast ==
  /\ rcvCall.loop = "drop"
  /\ rcvCall.at = rcvCall.to
  /\ Wraps(rcvCall.from, rcvCall.to) \/ rcvCall.to # MaxSeqNo
  /\ rcvList' = Removed(rcvList, rcvCall.at)
  /\ rcvCall' = RcvIdle
  /\ rcvAnswer' = 1
  /\ rcvCurr' = IF /\ seqcmp(rcvCall.from, incseq(rcvCurr)) =< 0
                   /\ seqcmp(rcvCall.to, rcvCurr) > 0
                THEN rcvCall.to ELSE rcvCurr
  /\ UNCHANGED rcvLastAck

\* No number is beyond m_iMaxSeqNo: the loop to there does not end.
DropForEver ==
  /\ rcvCall.loop = "drop"
  /\ rcvCall.at = rcvCall.to
  /\ ~Wraps(rcvCall.from, rcvCall.to) /\ rcvCall.to = MaxSeqNo
  /\ rcvList' = Removed(rcvList, rcvCall.at)
  /\ rcvCall' = [rcvCall EXCEPT !.loop = "endless"]
  /\ UNCHANGED <<rcvAnswer, rcvLastAck, rcvCurr>>

\* The periodic loss report: CRcvLossList::getLossArray.
BeginReport ==
  /\ rcvCall = RcvIdle
  /\ rcvList.length > 0
  /\ rcvCall' = [RcvIdle EXCEPT !.loop = "report", !.at = rcvList.head]
  /\ UNCHANGED <<rcvList, rcvAnswer, rcvLastAck, rcvCurr>>

\* A slip: room for one more entry is enough.
HasRoomForOne == rcvCall.entries < Limit

HasRoom == rcvCall.entries < Limit - 1

ReportIsOver == ~HasRoom \/ rcvCall.at = Unset

\* A turn of the loop: an interval of more than one number takes two entries.
ReportOne ==
  LET i == rcvCall.at
      seqs == SeqRange(rcvList.data1[i], End(rcvList, i))
  IN  /\ rcvCall.loop = "report"
      /\ ~ReportIsOver
      /\ rcvCall' = [rcvCall EXCEPT
                       !.at = rcvList.next[i],
                       !.entries = @ + (IF rcvList.data2[i] = Unset THEN 1 ELSE 2),
                       !.named = @ \cup seqs]
      /\ UNCHANGED <<rcvList, rcvAnswer, rcvLastAck, rcvCurr>>

EndReport ==
  /\ rcvCall.loop = "report"
  /\ ReportIsOver
  /\ rcvCall' = RcvIdle
  /\ UNCHANGED <<rcvList, rcvAnswer, rcvLastAck, rcvCurr>>

RcvNext ==
  \/ \E n \in 0 .. RcvWindow - 1 : Arrive(n)
  \/ SendAck
  \/ \E n1, n2 \in 0 .. RcvWindow - 1 : BeginDrop(n1, n2)
  \/ DropOne
  \/ DropLast
  \/ DropForEver
  \/ BeginReport
  \/ ReportOne
  \/ EndReport

RcvSpec == RcvInit /\ [][RcvNext]_rcvVars

-----------------------------------------------------------------------------

\* The numbers in the nodes that are in use.
Held(l) ==
  UNION {SeqRange(l.data1[i], End(l, i)) : i \in {j \in Nodes : l.data1[j] # Unset}}

\* The list as the caller knows it: a call that has not returned yet has not
\* changed it.
Known == IF rcvCall.loop \in {"drop", "endless"} THEN rcvCall.before ELSE rcvList

RcvPromise ==
  INSTANCE LossSet WITH
    window <- SeqRange(rcvLastAck, Shift(rcvLastAck, RcvWindow - 1)),
    lost <- Held(Known),
    length <- Known.length,
    first <- IF Known.length = 0 THEN -1 ELSE Known.data1[Known.head],
    answer <- rcvAnswer

(***************************************************************************)
(* The arrays are the set of the numbers that are missing: whatever        *)
(* arrives in what order, a call adds or takes out what it names and       *)
(* nothing else, remove tells what was missing, and the length and the     *)
(* first number, which become the next ACK, are right (list.cpp,           *)
(* CRcvLossList).                                                          *)
(***************************************************************************)
RcvImplementsLossSet == RcvPromise!Spec

(***************************************************************************)
(* A periodic loss report fits in the array that was allocated for it,     *)
(* although an interval takes two entries; it names, from the first number *)
(* on, only what is missing, and in the end it has left something out only *)
(* where there is no room for two more entries (list.cpp, getLossArray).   *)
(***************************************************************************)
ReportFits ==
  rcvCall.loop = "report" =>
    /\ rcvCall.entries =< Limit
    /\ rcvCall.named \subseteq Held(rcvList)
    /\ \A s \in rcvCall.named, t \in Held(rcvList) \ rcvCall.named : seqcmp(s, t) < 0
    /\ ReportIsOver /\ rcvCall.named # Held(rcvList) => rcvCall.entries >= Limit - 1

=============================================================================
