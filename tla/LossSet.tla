------------------------------ MODULE LossSet ------------------------------
(***************************************************************************)
(* What a list of lost packets promises: it is a set of sequence numbers,  *)
(* it knows how many they are and which is the earliest, and its calls     *)
(* answer what the set before the call says.  A caller names only numbers  *)
(* of a window of the circle, in which "earlier" is a total order.         *)
(***************************************************************************)
EXTENDS SeqNo, FiniteSets

VARIABLES
  window,  \* the numbers a caller may name
  lost,    \* the set
  length,  \* what getLossLength answers
  first,   \* the number that getFirstLostSeq answers, -1 if there is none
  answer   \* what the last call returned

vars == <<window, lost, length, first, answer>>

IsEarliest(s, S) == s \in S /\ \A t \in S : seqcmp(s, t) =< 0

Init ==
  /\ window \subseteq SeqNos
  /\ lost = {}
  /\ length = 0
  /\ first = -1
  /\ answer = 0

\* insert: answers how many of the numbers are new.
Insert(seq1, seq2) ==
  /\ seqcmp(seq1, seq2) =< 0
  /\ lost' = lost \cup SeqRange(seq1, seq2)
  /\ answer' = Cardinality(SeqRange(seq1, seq2) \ lost)

\* The sender's remove: everything up to a number.
RemoveUpTo(seq) ==
  /\ lost' = {s \in lost : seqcmp(s, seq) > 0}
  /\ answer' = 0

\* getLostSeq: takes the earliest out.
TakeFirst ==
  /\ lost # {}
  /\ answer' = first
  /\ lost' = lost \ {first}

\* The receiver's remove: one number, and whether it was there.
Remove(seq) ==
  /\ lost' = lost \ {seq}
  /\ answer' = IF seq \in lost THEN 1 ELSE 0

\* The receiver's remove of a range that does not wrap round.  (The one of a
\* range that does is the loop of CRcvLossList::remove, which leaves the
\* number MaxSeqNo where it is.)
RemoveRange(seq1, seq2) ==
  /\ lost' = lost \ (SeqRange(seq1, seq2) \
                       (IF seq1 > seq2 THEN {MaxSeqNo} ELSE {}))
  /\ answer' = 1

Call ==
  \/ \E seq1, seq2 \in window : Insert(seq1, seq2) \/ RemoveRange(seq1, seq2)
  \/ \E seq \in window : RemoveUpTo(seq) \/ Remove(seq)
  \/ TakeFirst

\* Calls to come may be about other numbers.
Slide ==
  /\ window' \subseteq SeqNos
  /\ UNCHANGED <<lost, length, first, answer>>

\* length and first always speak of the set as it is.
Next ==
  \/ Slide
  \/ /\ window' \subseteq SeqNos
     /\ Call
     /\ length' = Cardinality(lost')
     /\ IF lost' = {} THEN first' = -1 ELSE IsEarliest(first', lost')

Spec == Init /\ [][Next]_vars

=============================================================================
