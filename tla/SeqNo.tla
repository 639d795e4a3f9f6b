------------------------------- MODULE SeqNo -------------------------------
(***************************************************************************)
(* The sequence numbers of UDT (CSeqNo, common.h): the numbers 0 to        *)
(* MaxSeqNo in a circle, 2^31 - 1 in the program, of which two are         *)
(* compared by the shorter way round.  The operators keep the names and    *)
(* the case distinctions of the source; SeqNoProofs shows what they        *)
(* compute as long as the numbers compared are less than SeqNoTH apart.    *)
(***************************************************************************)
EXTENDS Integers

CONSTANTS
  MaxSeqNo,    \* m_iMaxSeqNo, 0x7FFFFFFF in the program
  SeqNoTH      \* m_iSeqNoTH, 0x3FFFFFFF

ASSUME SeqNoAssumption ==
  /\ SeqNoTH \in Nat \ {0}
  /\ MaxSeqNo = 2 * SeqNoTH + 1

SeqNos == 0 .. MaxSeqNo

abs(i) == IF i < 0 THEN -i ELSE i

\* The sign says which of the two is later.
seqcmp(seq1, seq2) ==
  IF abs(seq1 - seq2) < SeqNoTH THEN seq1 - seq2 ELSE seq2 - seq1

\* How many numbers there are from seq1 to seq2, both included.
seqlen(seq1, seq2) ==
  IF seq1 =< seq2 THEN seq2 - seq1 + 1 ELSE seq2 - seq1 + MaxSeqNo + 2

\* How far seq2 is ahead of seq1.
seqoff(seq1, seq2) ==
  IF abs(seq1 - seq2) < SeqNoTH THEN seq2 - seq1
  ELSE IF seq1 < seq2 THEN seq2 - seq1 - MaxSeqNo - 1
  ELSE seq2 - seq1 + MaxSeqNo + 1

incseq(seq) == IF seq = MaxSeqNo THEN 0 ELSE seq + 1
decseq(seq) == IF seq = 0 THEN MaxSeqNo ELSE seq - 1

\* incseq of a number and an increment that is not negative.
incseqBy(seq, inc) ==
  IF MaxSeqNo - seq >= inc THEN seq + inc ELSE seq - MaxSeqNo + inc - 1

-----------------------------------------------------------------------------

(***************************************************************************)
(* What the operators are measured by: the number d steps round the circle *)
(* from seq, forwards or backwards.                                        *)
(***************************************************************************)
Shift(seq, d) ==
  IF seq + d > MaxSeqNo THEN seq + d - (MaxSeqNo + 1)
  ELSE IF seq + d < 0 THEN seq + d + (MaxSeqNo + 1)
  ELSE seq + d

\* The numbers from seq1 to seq2 on the circle, both included.
SeqRange(seq1, seq2) ==
  IF seq1 =< seq2 THEN seq1 .. seq2
  ELSE (seq1 .. MaxSeqNo) \cup (0 .. seq2)

=============================================================================
