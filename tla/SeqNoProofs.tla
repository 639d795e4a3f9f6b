---------------------------- MODULE SeqNoProofs ----------------------------
(***************************************************************************)
(* What the arithmetic of CSeqNo computes, for every size of the circle.   *)
(* The buffers and loss lists compare only numbers of one window, which is *)
(* far shorter than SeqNoTH; within it the wrapping numbers behave like    *)
(* the integers they stand for.                                            *)
(***************************************************************************)
EXTENDS SeqNo, TLAPS

\* Shift stays on the circle.
LEMMA ShiftInRange ==
  ASSUME NEW x \in SeqNos, NEW d \in Int, -MaxSeqNo =< d, d =< MaxSeqNo
  PROVE  Shift(x, d) \in SeqNos
BY SeqNoAssumption DEF Shift, SeqNos

\* seqoff inverts Shift: it finds the distance of two numbers of a window,
\* whether or not the numbers wrap round between them (common.h, seqoff).
THEOREM OffsetIsDistance ==
  ASSUME NEW x \in SeqNos, NEW d \in Int, -SeqNoTH < d, d < SeqNoTH
  PROVE  seqoff(x, Shift(x, d)) = d
<1>1. CASE x + d > MaxSeqNo
  BY <1>1, SeqNoAssumption DEF seqoff, Shift, SeqNos, abs
<1>2. CASE x + d < 0
  BY <1>2, SeqNoAssumption DEF seqoff, Shift, SeqNos, abs
<1>3. CASE ~(x + d > MaxSeqNo) /\ ~(x + d < 0)
  BY <1>3, SeqNoAssumption DEF seqoff, Shift, SeqNos, abs
<1> QED BY <1>1, <1>2, <1>3

\* seqcmp tells the later of two numbers of a window (common.h, seqcmp).
THEOREM ComparisonIsOrder ==
  ASSUME NEW x \in SeqNos, NEW d \in Int, -SeqNoTH < d, d < SeqNoTH
  PROVE  /\ (seqcmp(Shift(x, d), x) > 0) <=> (d > 0)
         /\ (seqcmp(Shift(x, d), x) = 0) <=> (d = 0)
         /\ (seqcmp(x, Shift(x, d)) > 0) <=> (d < 0)
<1>1. CASE x + d > MaxSeqNo
  BY <1>1, SeqNoAssumption DEF seqcmp, Shift, SeqNos, abs
<1>2. CASE x + d < 0
  BY <1>2, SeqNoAssumption DEF seqcmp, Shift, SeqNos, abs
<1>3. CASE ~(x + d > MaxSeqNo) /\ ~(x + d < 0)
  BY <1>3, SeqNoAssumption DEF seqcmp, Shift, SeqNos, abs
<1> QED BY <1>1, <1>2, <1>3

\* seqlen counts both ends (common.h, seqlen).
THEOREM LengthCountsBothEnds ==
  ASSUME NEW x \in SeqNos, NEW d \in Nat, d < SeqNoTH
  PROVE  seqlen(x, Shift(x, d)) = d + 1
BY SeqNoAssumption DEF seqlen, Shift, SeqNos

\* incseq and decseq step by one and undo each other (common.h).
THEOREM StepsAreShifts ==
  ASSUME NEW x \in SeqNos
  PROVE  /\ incseq(x) = Shift(x, 1) /\ decseq(x) = Shift(x, -1)
         /\ incseq(x) \in SeqNos /\ decseq(x) \in SeqNos
         /\ decseq(incseq(x)) = x /\ incseq(decseq(x)) = x
BY SeqNoAssumption DEF incseq, decseq, Shift, SeqNos

\* The other incseq adds up to a whole window at once (common.h).
LEMMA IncrementIsShift ==
  ASSUME NEW x \in SeqNos, NEW d \in Nat, d =< MaxSeqNo
  PROVE  incseqBy(x, d) = Shift(x, d)
BY SeqNoAssumption DEF incseqBy, Shift, SeqNos

\* Shifts add up as long as the sum stays within the circle.
LEMMA ShiftsAdd ==
  ASSUME NEW x \in SeqNos, NEW d \in Int, NEW e \in Int,
         -SeqNoTH < d, d < SeqNoTH, -SeqNoTH < e, e < SeqNoTH,
         -SeqNoTH < d + e, d + e < SeqNoTH
  PROVE  Shift(Shift(x, d), e) = Shift(x, d + e)
BY SeqNoAssumption DEF Shift, SeqNos

\* Within one window "later" is transitive, although on the whole circle it
\* is not: it is what lets the loss lists be kept sorted (common.h, seqcmp).
THEOREM OrderOfAWindow ==
  ASSUME NEW x \in SeqNos, NEW d \in Nat, NEW e \in Nat,
         d < SeqNoTH, e < SeqNoTH
  PROVE  (seqcmp(Shift(x, e), Shift(x, d)) > 0) <=> (e > d)
<1>1. /\ Shift(x, d) \in SeqNos
      /\ e - d \in Int /\ -SeqNoTH < e - d /\ e - d < SeqNoTH
  BY ShiftInRange, SeqNoAssumption
<1>2. Shift(Shift(x, d), e - d) = Shift(x, d + (e - d))
  BY <1>1, ShiftsAdd, SeqNoAssumption
<1>3. d + (e - d) = e
  OBVIOUS
<1> QED BY <1>1, <1>2, <1>3, ComparisonIsOrder

=============================================================================
