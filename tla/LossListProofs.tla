--------------------------- MODULE LossListProofs ---------------------------
(***************************************************************************)
(* Proofs about RcvLossList: the arrays, the links and the loops of        *)
(* CRcvLossList implement LossSet, and a loss report fits in its array.    *)
(*                                                                         *)
(* The numbers of a window are seen as their offsets from m_iRcvLastAck,   *)
(* so that they do not wrap round, and a node as the place, from the node  *)
(* of that number, on the ring of the arrays.  Rep says that the arrays    *)
(* are the intervals that begin at the offsets D and end at e; every call  *)
(* is shown to take a Rep to a Rep whose numbers are the ones they should  *)
(* be.  On top of that the list is a set of offsets (Missing), and the     *)
(* inductive invariant says what set it is in the course of each loop.     *)
(***************************************************************************)
EXTENDS RcvLossList, SeqNoProofs, FiniteSetTheorems, FunctionTheorems,
        WellFoundedInduction, TLAPS

-----------------------------------------------------------------------------
(* Places and offsets. *)

Offsets == 0 .. RcvWindow - 1

\* The node of the number d steps after the one whose node is c.
Place(c, d) == IF c + d >= RcvSize THEN c + d - RcvSize ELSE c + d

\* The places of the offsets are nodes, and different ones.
LEMMA PlaceFacts ==
  ASSUME NEW c \in Nodes
  PROVE  /\ \A d \in Nodes : Place(c, d) \in Nodes
         /\ \A d, f \in Nodes : Place(c, d) = Place(c, f) => d = f
         /\ \A i \in Nodes : \E d \in Nodes : Place(c, d) = i
         /\ Offsets \subseteq Nodes
         /\ Offsets \subseteq Nat
         /\ 0 \in Nodes
<1>1. \A i \in Nodes : \E d \in Nodes : Place(c, d) = i
  <2> TAKE i \in Nodes
  <2>1. CASE c =< i
    <3>1. i - c \in Nodes /\ Place(c, i - c) = i
      BY <2>1, RcvLossListAssumption DEF Place, Nodes
    <3> QED BY <3>1
  <2>2. CASE i < c
    <3>1. i - c + RcvSize \in Nodes /\ Place(c, i - c + RcvSize) = i
      BY <2>2, RcvLossListAssumption DEF Place, Nodes
    <3> QED BY <3>1
  <2> QED BY <2>1, <2>2, RcvLossListAssumption DEF Nodes
<1>2. /\ \A d \in Nodes : Place(c, d) \in Nodes
      /\ \A d, f \in Nodes : Place(c, d) = Place(c, f) => d = f
      /\ Offsets \subseteq Nodes
      /\ Offsets \subseteq Nat
      /\ 0 \in Nodes
  BY RcvLossListAssumption DEF Place, Nodes, Offsets
<1> QED BY <1>1, <1>2

\* The remainder of a sum of two places.
LEMMA Remainder ==
  ASSUME NEW x \in Nat, x < 2 * RcvSize
  PROVE  x % RcvSize = IF x >= RcvSize THEN x - RcvSize ELSE x
<1>1. RcvSize \in Nat \ {0}
  BY RcvLossListAssumption
<1>2. x = RcvSize * (x \div RcvSize) + (x % RcvSize) /\ x % RcvSize \in 0 .. RcvSize - 1
      /\ x \div RcvSize \in Int
  BY <1>1, SMT
<1>3. CASE x >= RcvSize
  <2>1. x \div RcvSize = 1
    BY <1>1, <1>2, <1>3, SMT
  <2> QED BY <2>1, <1>1, <1>2, <1>3
<1>4. CASE ~(x >= RcvSize)
  BY <1>1, <1>4, SMT
<1> QED BY <1>3, <1>4

\* A node some places on or back is at the offset that much later or earlier,
\* as long as that is on the ring.
LEMMA Neighbourhood ==
  ASSUME NEW c \in Nodes, NEW d \in Nodes, NEW k \in Nat
  PROVE  /\ d + k < RcvSize => NodeAfter(Place(c, d), k) = Place(c, d + k)
         /\ k =< d => NodeBefore(Place(c, d), k) = Place(c, d - k)
<1> DEFINE p == Place(c, d)
<1>1. p \in Nat /\ p < RcvSize /\ c \in Nat /\ d \in Nat /\ d < RcvSize /\ RcvSize \in Nat
  BY RcvLossListAssumption DEF Place, Nodes
<1>2. ASSUME d + k < RcvSize PROVE NodeAfter(p, k) = Place(c, d + k)
  <2>1. p + k \in Nat /\ p + k < 2 * RcvSize
    BY <1>1, <1>2
  <2>2. NodeAfter(p, k) = IF p + k >= RcvSize THEN p + k - RcvSize ELSE p + k
    <3> DEFINE x == p + k
    <3>1. x % RcvSize = IF x >= RcvSize THEN x - RcvSize ELSE x
      BY <2>1, Remainder
    <3>2. NodeAfter(p, k) = x % RcvSize
      BY DEF NodeAfter
    <3> QED BY <3>1, <3>2, <1>1, <1>2
  <2> QED BY <2>2, <1>1, <1>2, RcvLossListAssumption DEF Place, Nodes
<1>3. ASSUME k =< d PROVE NodeBefore(p, k) = Place(c, d - k)
  <2>1. p - k + RcvSize \in Nat /\ p - k + RcvSize < 2 * RcvSize
    BY <1>1, <1>3
  <2>2. NodeBefore(p, k) = IF p - k + RcvSize >= RcvSize THEN p - k ELSE p - k + RcvSize
    <3> DEFINE x == p - k + RcvSize
    <3>1. x % RcvSize = IF x >= RcvSize THEN x - RcvSize ELSE x
      BY <2>1, Remainder
    <3>2. NodeBefore(p, k) = x % RcvSize
      BY DEF NodeBefore
    <3> QED BY <3>1, <3>2, <1>1, <1>3
  <2> QED BY <2>2, <1>1, <1>3, RcvLossListAssumption DEF Place, Nodes
<1> QED BY <1>2, <1>3

\* Numbers of a window are apart, and none of them is Unset.
LEMMA WindowFacts ==
  ASSUME NEW b \in SeqNos
  PROVE  /\ \A j, k \in 0 .. RcvWindow : Shift(b, j) = Shift(b, k) => j = k
         /\ \A k \in Int : -RcvWindow =< k /\ k =< RcvWindow =>
              Shift(b, k) \in SeqNos /\ Shift(b, k) # Unset
BY RcvLossListAssumption, SeqNoAssumption DEF Shift, SeqNos, Unset

\* The numbers between two of a window are the ones of the offsets between.
LEMMA RangeOfOffsets ==
  ASSUME NEW b \in SeqNos, NEW x \in Offsets, NEW y \in Offsets, x =< y
  PROVE  SeqRange(Shift(b, x), Shift(b, y)) = {Shift(b, k) : k \in x .. y}
<1>0. x \in Nat /\ y \in Nat /\ y < SeqNoTH /\ b \in Nat /\ b =< MaxSeqNo
      /\ MaxSeqNo \in Nat /\ SeqNoTH \in Nat /\ MaxSeqNo = 2 * SeqNoTH + 1
  BY RcvLossListAssumption, SeqNoAssumption DEF Offsets, SeqNos
<1>1. ASSUME NEW s \in SeqRange(Shift(b, x), Shift(b, y))
      PROVE  \E k \in x .. y : s = Shift(b, k)
  <2>1. s \in Int /\ 0 =< s /\ s =< MaxSeqNo
    BY <1>0, <1>1 DEF SeqRange, Shift
  <2>2. CASE s >= b
    <3>1. s - b \in x .. y /\ s = Shift(b, s - b)
      BY <1>0, <1>1, <2>1, <2>2 DEF SeqRange, Shift
    <3> QED BY <3>1
  <2>3. CASE s < b
    <3>1. s - b + (MaxSeqNo + 1) \in x .. y /\ s = Shift(b, s - b + (MaxSeqNo + 1))
      BY <1>0, <1>1, <2>1, <2>3 DEF SeqRange, Shift
    <3> QED BY <3>1
  <2> QED BY <2>1, <2>2, <2>3, <1>0
<1>2. ASSUME NEW k \in x .. y
      PROVE  Shift(b, k) \in SeqRange(Shift(b, x), Shift(b, y))
  BY <1>0, <1>2 DEF SeqRange, Shift
<1> QED BY <1>1, <1>2

-----------------------------------------------------------------------------
(* The nodes. *)

ListType ==
  [data1 : [Nodes -> Int], data2 : [Nodes -> Int],
   next : [Nodes -> Int], prior : [Nodes -> Int],
   head : Int, tail : Int, length : Int]

\* What Fill, Free, LinkNext and LinkPrior leave in each array.
LEMMA FillFields ==
  ASSUME NEW l \in ListType, NEW i \in Nodes, NEW seq1 \in Int, NEW seq2 \in Int
  PROVE  LET m == Fill(l, i, seq1, seq2) IN
         /\ m \in ListType
         /\ m.data1 = [l.data1 EXCEPT ![i] = seq1]
         /\ m.data2 = [l.data2 EXCEPT ![i] = IF seq2 # seq1 THEN seq2 ELSE @]
         /\ m.next = l.next /\ m.prior = l.prior
         /\ m.head = l.head /\ m.tail = l.tail /\ m.length = l.length
BY DEF Fill, ListType

LEMMA FreeFields ==
  ASSUME NEW l \in ListType, NEW i \in Nodes
  PROVE  LET m == Free(l, i) IN
         /\ m \in ListType
         /\ m.data1 = [l.data1 EXCEPT ![i] = Unset]
         /\ m.data2 = [l.data2 EXCEPT ![i] = Unset]
         /\ m.next = [l.next EXCEPT ![i] = Unset]
         /\ m.prior = [l.prior EXCEPT ![i] = Unset]
         /\ m.head = l.head /\ m.tail = l.tail /\ m.length = l.length
<1>1. Unset \in Int
  BY DEF Unset
<1> QED BY <1>1 DEF Free, ListType

LEMMA LinkNextFields ==
  ASSUME NEW l \in ListType, NEW i \in Nodes \cup {Unset}, NEW j \in Int
  PROVE  LET m == LinkNext(l, i, j) IN
         /\ m \in ListType
         /\ m.next = [k \in Nodes |-> IF k = i THEN j ELSE l.next[k]]
         /\ m.data1 = l.data1 /\ m.data2 = l.data2 /\ m.prior = l.prior
         /\ m.head = l.head /\ m.tail = l.tail /\ m.length = l.length
<1>1. Unset \in Int /\ Unset \notin Nodes
  BY DEF Unset, Nodes
<1>2. CASE i = Unset
  <2>1. LinkNext(l, i, j) = l
    BY <1>2 DEF LinkNext
  <2>2. l.next = [k \in Nodes |-> IF k = i THEN j ELSE l.next[k]]
    BY <1>1, <1>2 DEF ListType
  <2> QED BY <2>1, <2>2
<1>3. CASE i # Unset
  <2>1. i \in Nodes
    BY <1>3
  <2> QED BY <2>1, <1>3 DEF LinkNext, ListType
<1> QED BY <1>2, <1>3

LEMMA LinkPriorFields ==
  ASSUME NEW l \in ListType, NEW i \in Nodes \cup {Unset}, NEW j \in Int
  PROVE  LET m == LinkPrior(l, i, j) IN
         /\ m \in ListType
         /\ m.prior = [k \in Nodes |-> IF k = i THEN j ELSE l.prior[k]]
         /\ m.data1 = l.data1 /\ m.data2 = l.data2 /\ m.next = l.next
         /\ m.head = l.head /\ m.tail = l.tail /\ m.length = l.length
<1>1. Unset \in Int /\ Unset \notin Nodes
  BY DEF Unset, Nodes
<1>2. CASE i = Unset
  <2>1. LinkPrior(l, i, j) = l
    BY <1>2 DEF LinkPrior
  <2>2. l.prior = [k \in Nodes |-> IF k = i THEN j ELSE l.prior[k]]
    BY <1>1, <1>2 DEF ListType
  <2> QED BY <2>1, <2>2
<1>3. CASE i # Unset
  <2>1. i \in Nodes
    BY <1>3
  <2> QED BY <2>1, <1>3 DEF LinkPrior, ListType
<1> QED BY <1>2, <1>3

\* What Unlinked does to a node that is the first, and to another one.
LEMMA UnlinkedFields ==
  ASSUME NEW l \in ListType, NEW loc \in Nodes,
         l.next[loc] \in Nodes \cup {Unset},
         l.head # loc => l.prior[loc] \in Nodes
  PROVE  LET m == Unlinked(l, loc) IN
         /\ m \in ListType
         /\ m.data1 = [l.data1 EXCEPT ![loc] = Unset]
         /\ m.data2 = [l.data2 EXCEPT ![loc] = Unset]
         /\ m.next = [k \in Nodes |->
              IF k = loc THEN Unset
              ELSE IF l.head # loc /\ k = l.prior[loc] THEN l.next[loc] ELSE l.next[k]]
         /\ m.prior = [k \in Nodes |->
              IF k = loc THEN Unset
              ELSE IF k = l.next[loc]
              THEN IF l.head = loc THEN Unset ELSE l.prior[loc] ELSE l.prior[k]]
         /\ m.head = IF l.head = loc THEN l.next[loc] ELSE l.head
         /\ m.tail = IF l.head # loc /\ l.next[loc] = Unset THEN l.prior[loc] ELSE l.tail
         /\ m.length = l.length
<1>0. Unset \in Int
  BY DEF Unset
<1>1. CASE l.head = loc
  <2> DEFINE p == LinkPrior(l, l.next[loc], Unset)
             m == Free(p, loc)
  <2>1. /\ p \in ListType
        /\ p.prior = [k \in Nodes |-> IF k = l.next[loc] THEN Unset ELSE l.prior[k]]
        /\ p.data1 = l.data1 /\ p.data2 = l.data2 /\ p.next = l.next
        /\ p.head = l.head /\ p.tail = l.tail /\ p.length = l.length
    BY <1>0, LinkPriorFields
  <2>2. /\ m \in ListType
        /\ m.data1 = [p.data1 EXCEPT ![loc] = Unset]
        /\ m.data2 = [p.data2 EXCEPT ![loc] = Unset]
        /\ m.next = [p.next EXCEPT ![loc] = Unset]
        /\ m.prior = [p.prior EXCEPT ![loc] = Unset]
        /\ m.head = p.head /\ m.tail = p.tail /\ m.length = p.length
    BY <2>1, FreeFields
  <2>3. Unlinked(l, loc) = [m EXCEPT !.head = l.next[loc]]
    BY <1>1 DEF Unlinked
  <2> HIDE DEF p, m
  <2> QED BY <2>1, <2>2, <2>3, <1>1, <1>0 DEF ListType
<1>2. CASE l.head # loc
  <2> DEFINE p == LinkNext(l, l.prior[loc], l.next[loc])
             q == LinkPrior(p, l.next[loc], l.prior[loc])
             m == Free(q, loc)
  <2>0. l.next[loc] \in Int /\ l.prior[loc] \in Int
    BY DEF ListType
  <2>1. /\ p \in ListType
        /\ p.next = [k \in Nodes |-> IF k = l.prior[loc] THEN l.next[loc] ELSE l.next[k]]
        /\ p.data1 = l.data1 /\ p.data2 = l.data2 /\ p.prior = l.prior
        /\ p.head = l.head /\ p.tail = l.tail /\ p.length = l.length
    BY <2>0, <1>2, LinkNextFields
  <2>2. /\ q \in ListType
        /\ q.prior = [k \in Nodes |-> IF k = l.next[loc] THEN l.prior[loc] ELSE p.prior[k]]
        /\ q.data1 = p.data1 /\ q.data2 = p.data2 /\ q.next = p.next
        /\ q.head = p.head /\ q.tail = p.tail /\ q.length = p.length
    BY <2>0, <2>1, LinkPriorFields
  <2>3. /\ m \in ListType
        /\ m.data1 = [q.data1 EXCEPT ![loc] = Unset]
        /\ m.data2 = [q.data2 EXCEPT ![loc] = Unset]
        /\ m.next = [q.next EXCEPT ![loc] = Unset]
        /\ m.prior = [q.prior EXCEPT ![loc] = Unset]
        /\ m.head = q.head /\ m.tail = q.tail /\ m.length = q.length
    BY <2>2, FreeFields
  <2>4. Unlinked(l, loc) = [m EXCEPT !.tail = IF l.next[loc] = Unset THEN l.prior[loc] ELSE @]
    BY <1>2 DEF Unlinked
  <2> HIDE DEF p, q, m
  <2> QED BY <2>0, <2>1, <2>2, <2>3, <2>4, <1>2, <1>0 DEF ListType
<1> QED BY <1>1, <1>2

\* What Advanced does, where the node is not the only place.
LEMMA AdvancedFields ==
  ASSUME NEW l \in ListType, NEW loc \in Nodes, NEW i \in Nodes,
         i = NodeAfter(loc, 1), i # loc,
         l.head # loc => l.prior[loc] \in Nodes,
         l.tail # loc => l.next[loc] \in Nodes
  PROVE  LET m == Advanced(l, loc) IN
         /\ m \in ListType
         /\ m.data1 = [k \in Nodes |->
              IF k = loc THEN Unset
              ELSE IF k = i THEN incseq(l.data1[loc]) ELSE l.data1[k]]
         /\ m.data2 = [k \in Nodes |->
              IF k = loc THEN Unset
              ELSE IF k = i /\ l.data2[loc] # incseq(l.data1[loc])
              THEN l.data2[loc] ELSE l.data2[k]]
         /\ m.next = [k \in Nodes |->
              IF l.head # loc /\ k = l.prior[loc] THEN i
              ELSE IF k = i THEN l.next[loc]
              ELSE IF k = loc THEN Unset ELSE l.next[k]]
         /\ m.prior = [k \in Nodes |->
              IF l.tail # loc /\ k = l.next[loc] THEN i
              ELSE IF k = i THEN l.prior[loc]
              ELSE IF k = loc THEN Unset ELSE l.prior[k]]
         /\ m.head = IF l.head = loc THEN i ELSE l.head
         /\ m.tail = IF l.tail = loc THEN i ELSE l.tail
         /\ m.length = l.length
<1>0. /\ Unset \in Int /\ i \in Int /\ Unset \notin Nodes
      /\ l.data1[loc] \in Int /\ l.data2[loc] \in Int
      /\ incseq(l.data1[loc]) \in Int
      /\ l.next[loc] \in Int /\ l.prior[loc] \in Int
  <2>1. Unset \in Int /\ i \in Int /\ Unset \notin Nodes
    BY DEF Unset, Nodes
  <2>2. /\ l.data1[loc] \in Int /\ l.data2[loc] \in Int
        /\ l.next[loc] \in Int /\ l.prior[loc] \in Int
    BY DEF ListType
  <2> QED BY <2>1, <2>2 DEF incseq
<1> DEFINE f == Fill(l, i, incseq(l.data1[loc]), l.data2[loc])
           g == Free(f, loc)
           moved == [g EXCEPT !.next[i] = l.next[loc], !.prior[i] = l.prior[loc],
                              !.head = IF @ = loc THEN i ELSE @,
                              !.tail = IF @ = loc THEN i ELSE @]
           h == IF l.head = loc THEN Unset ELSE l.prior[loc]
           t == IF l.tail = loc THEN Unset ELSE l.next[loc]
           n == LinkNext(moved, h, i)
           m == LinkPrior(n, t, i)
<1>1. /\ f \in ListType
      /\ f.data1 = [l.data1 EXCEPT ![i] = incseq(l.data1[loc])]
      /\ f.data2 = [l.data2 EXCEPT ![i] = IF l.data2[loc] # incseq(l.data1[loc])
                                          THEN l.data2[loc] ELSE @]
      /\ f.next = l.next /\ f.prior = l.prior
      /\ f.head = l.head /\ f.tail = l.tail /\ f.length = l.length
  BY <1>0, FillFields
<1>2. /\ g \in ListType
      /\ g.data1 = [f.data1 EXCEPT ![loc] = Unset]
      /\ g.data2 = [f.data2 EXCEPT ![loc] = Unset]
      /\ g.next = [f.next EXCEPT ![loc] = Unset]
      /\ g.prior = [f.prior EXCEPT ![loc] = Unset]
      /\ g.head = f.head /\ g.tail = f.tail /\ g.length = f.length
  BY <1>1, FreeFields
<1>3. /\ moved \in ListType
      /\ moved.data1 = g.data1 /\ moved.data2 = g.data2
      /\ moved.next = [g.next EXCEPT ![i] = l.next[loc]]
      /\ moved.prior = [g.prior EXCEPT ![i] = l.prior[loc]]
      /\ moved.head = IF l.head = loc THEN i ELSE l.head
      /\ moved.tail = IF l.tail = loc THEN i ELSE l.tail
      /\ moved.length = g.length
  <2> HIDE DEF f, g
  <2> QED BY <1>0, <1>1, <1>2 DEF ListType
<1>4. h \in Nodes \cup {Unset} /\ t \in Nodes \cup {Unset}
  OBVIOUS
<1>5. /\ n \in ListType
      /\ n.next = [k \in Nodes |-> IF k = h THEN i ELSE moved.next[k]]
      /\ n.data1 = moved.data1 /\ n.data2 = moved.data2 /\ n.prior = moved.prior
      /\ n.head = moved.head /\ n.tail = moved.tail /\ n.length = moved.length
  <2> HIDE DEF f, g, moved, h, t, m
  <2>1. moved \in ListType /\ h \in Nodes \cup {Unset} /\ i \in Int
    BY <1>0, <1>3, <1>4
  <2> QED BY <2>1, LinkNextFields
<1>6. /\ m \in ListType
      /\ m.prior = [k \in Nodes |-> IF k = t THEN i ELSE n.prior[k]]
      /\ m.data1 = n.data1 /\ m.data2 = n.data2 /\ m.next = n.next
      /\ m.head = n.head /\ m.tail = n.tail /\ m.length = n.length
  <2> HIDE DEF f, g, moved, h, t, n
  <2>1. n \in ListType /\ t \in Nodes \cup {Unset} /\ i \in Int
    BY <1>0, <1>5, <1>4
  <2> QED BY <2>1, LinkPriorFields
<1>7. Advanced(l, loc) = m
  BY DEF Advanced
<1>8. \A k \in Nodes : /\ k = h <=> l.head # loc /\ k = l.prior[loc]
                       /\ k = t <=> l.tail # loc /\ k = l.next[loc]
  BY <1>0
<1> HIDE DEF f, g, moved, n, m, h, t
<1>9. /\ m.data1 = [k \in Nodes |->
           IF k = loc THEN Unset
           ELSE IF k = i THEN incseq(l.data1[loc]) ELSE l.data1[k]]
      /\ m.data2 = [k \in Nodes |->
           IF k = loc THEN Unset
           ELSE IF k = i /\ l.data2[loc] # incseq(l.data1[loc])
           THEN l.data2[loc] ELSE l.data2[k]]
  <2>1. m.data1 = [[l.data1 EXCEPT ![i] = incseq(l.data1[loc])] EXCEPT ![loc] = Unset]
    BY <1>1, <1>2, <1>3, <1>5, <1>6
  <2>2. m.data2 = [[l.data2 EXCEPT ![i] = IF l.data2[loc] # incseq(l.data1[loc])
                                          THEN l.data2[loc] ELSE @] EXCEPT ![loc] = Unset]
    BY <1>1, <1>2, <1>3, <1>5, <1>6
  <2>3. l.data1 \in [Nodes -> Int] /\ l.data2 \in [Nodes -> Int]
    BY DEF ListType
  <2> QED BY <1>0, <2>1, <2>2, <2>3
<1>10. m.next = [k \in Nodes |->
           IF l.head # loc /\ k = l.prior[loc] THEN i
           ELSE IF k = i THEN l.next[loc]
           ELSE IF k = loc THEN Unset ELSE l.next[k]]
  BY <1>0, <1>1, <1>2, <1>3, <1>5, <1>6, <1>8 DEF ListType
<1>11. m.prior = [k \in Nodes |->
           IF l.tail # loc /\ k = l.next[loc] THEN i
           ELSE IF k = i THEN l.prior[loc]
           ELSE IF k = loc THEN Unset ELSE l.prior[k]]
  BY <1>0, <1>1, <1>2, <1>3, <1>5, <1>6, <1>8 DEF ListType
<1> QED BY <1>1, <1>2, <1>3, <1>5, <1>6, <1>7, <1>9, <1>10, <1>11

\* What CutAt does.
LEMMA CutAtFields ==
  ASSUME NEW l \in ListType, NEW i \in Nodes, NEW seq \in Int
  PROVE  LET m == CutAt(l, i, seq) IN
         /\ m \in ListType
         /\ m.data2 = [l.data2 EXCEPT ![i] = IF seq = incseq(l.data1[i])
                                             THEN Unset ELSE decseq(seq)]
         /\ m.data1 = l.data1 /\ m.next = l.next /\ m.prior = l.prior
         /\ m.head = l.head /\ m.tail = l.tail /\ m.length = l.length
<1>1. Unset \in Int /\ decseq(seq) \in Int
  BY SeqNoAssumption DEF Unset, decseq
<1> QED BY <1>1 DEF CutAt, ListType

\* What Split does, where the rest has a place of its own.
LEMMA SplitFields ==
  ASSUME NEW l \in ListType, NEW i \in Nodes, NEW seq \in Int, NEW loc \in Nodes,
         NEW rest \in Nodes, rest = NodeAfter(loc, 1), rest # i,
         l.tail # i => l.next[i] \in Nodes
  PROVE  LET m == Split(l, i, seq, loc) IN
         /\ m \in ListType
         /\ m.data1 = [l.data1 EXCEPT ![rest] = incseq(seq)]
         /\ m.data2 = [k \in Nodes |->
              IF k = i THEN IF seq = incseq(l.data1[i]) THEN Unset ELSE decseq(seq)
              ELSE IF k = rest /\ l.data2[i] # incseq(seq)
              THEN l.data2[i] ELSE l.data2[k]]
         /\ m.next = [k \in Nodes |->
              IF k = i THEN rest ELSE IF k = rest THEN l.next[i] ELSE l.next[k]]
         /\ m.prior = [k \in Nodes |->
              IF l.tail # i /\ k = l.next[i] THEN rest
              ELSE IF k = rest THEN i ELSE l.prior[k]]
         /\ m.head = l.head
         /\ m.tail = IF l.tail = i THEN rest ELSE l.tail
         /\ m.length = l.length
<1>0. /\ Unset \in Int /\ rest \in Int /\ i \in Int /\ Unset \notin Nodes
      /\ l.data1[i] \in Int /\ l.data2[i] \in Int /\ l.next[i] \in Int
      /\ incseq(seq) \in Int /\ decseq(seq) \in Int
  <2>1. Unset \in Int /\ rest \in Int /\ i \in Int /\ Unset \notin Nodes
    BY DEF Unset, Nodes
  <2>2. l.data1[i] \in Int /\ l.data2[i] \in Int /\ l.next[i] \in Int
    BY DEF ListType
  <2>3. incseq(seq) \in Int /\ decseq(seq) \in Int
    BY SeqNoAssumption DEF incseq, decseq
  <2> QED BY <2>1, <2>2, <2>3
<1> DEFINE f == Fill(l, rest, incseq(seq), l.data2[i])
           g == CutAt(f, i, seq)
           split == [g EXCEPT !.next = [@ EXCEPT ![rest] = l.next[i], ![i] = rest],
                              !.prior[rest] = i,
                              !.tail = IF @ = i THEN rest ELSE @]
           t == IF l.tail = i THEN Unset ELSE l.next[i]
           m == LinkPrior(split, t, rest)
<1>1. /\ f \in ListType
      /\ f.data1 = [l.data1 EXCEPT ![rest] = incseq(seq)]
      /\ f.data2 = [l.data2 EXCEPT ![rest] = IF l.data2[i] # incseq(seq)
                                             THEN l.data2[i] ELSE @]
      /\ f.next = l.next /\ f.prior = l.prior
      /\ f.head = l.head /\ f.tail = l.tail /\ f.length = l.length
  BY <1>0, FillFields
<1>2. /\ g \in ListType
      /\ g.data2 = [f.data2 EXCEPT ![i] = IF seq = incseq(f.data1[i])
                                          THEN Unset ELSE decseq(seq)]
      /\ g.data1 = f.data1 /\ g.next = f.next /\ g.prior = f.prior
      /\ g.head = f.head /\ g.tail = f.tail /\ g.length = f.length
  BY <1>1, CutAtFields
<1>3. f.data1[i] = l.data1[i]
  BY <1>1 DEF ListType
<1>4. /\ split \in ListType
      /\ split.data1 = g.data1 /\ split.data2 = g.data2
      /\ split.next = [g.next EXCEPT ![rest] = l.next[i], ![i] = rest]
      /\ split.prior = [g.prior EXCEPT ![rest] = i]
      /\ split.head = l.head
      /\ split.tail = IF l.tail = i THEN rest ELSE l.tail
      /\ split.length = l.length
  <2> HIDE DEF f, g
  <2> QED BY <1>0, <1>1, <1>2 DEF ListType
<1>5. t \in Nodes \cup {Unset} /\ \A k \in Nodes : k = t <=> l.tail # i /\ k = l.next[i]
  BY <1>0
<1>6. /\ m \in ListType
      /\ m.prior = [k \in Nodes |-> IF k = t THEN rest ELSE split.prior[k]]
      /\ m.data1 = split.data1 /\ m.data2 = split.data2 /\ m.next = split.next
      /\ m.head = split.head /\ m.tail = split.tail /\ m.length = split.length
  <2> HIDE DEF f, g, split, t
  <2>1. split \in ListType /\ t \in Nodes \cup {Unset} /\ rest \in Int
    BY <1>0, <1>4, <1>5
  <2> QED BY <2>1, LinkPriorFields
<1>7. Split(l, i, seq, loc) = m
  BY DEF Split
<1> HIDE DEF f, g, split, t, m
<1>8. m.data2 = [k \in Nodes |->
        IF k = i THEN IF seq = incseq(l.data1[i]) THEN Unset ELSE decseq(seq)
        ELSE IF k = rest /\ l.data2[i] # incseq(seq)
        THEN l.data2[i] ELSE l.data2[k]]
  <2>1. m.data2 = [[l.data2 EXCEPT ![rest] = IF l.data2[i] # incseq(seq)
                                             THEN l.data2[i] ELSE @]
                     EXCEPT ![i] = IF seq = incseq(l.data1[i])
                                   THEN Unset ELSE decseq(seq)]
    BY <1>1, <1>2, <1>3, <1>4, <1>6
  <2>2. l.data2 \in [Nodes -> Int]
    BY DEF ListType
  <2> QED BY <1>0, <2>1, <2>2
<1>9. m.next = [k \in Nodes |->
        IF k = i THEN rest ELSE IF k = rest THEN l.next[i] ELSE l.next[k]]
  <2>1. m.next = [l.next EXCEPT ![rest] = l.next[i], ![i] = rest]
    BY <1>1, <1>2, <1>4, <1>6
  <2>2. l.next \in [Nodes -> Int]
    BY DEF ListType
  <2> QED BY <1>0, <2>1, <2>2
<1>10. m.prior = [k \in Nodes |->
        IF l.tail # i /\ k = l.next[i] THEN rest
        ELSE IF k = rest THEN i ELSE l.prior[k]]
  BY <1>0, <1>1, <1>2, <1>4, <1>5, <1>6 DEF ListType
<1> QED BY <1>1, <1>2, <1>4, <1>6, <1>7, <1>8, <1>9, <1>10

\* The list m is the list l with the numbers from seq1 to seq2 in a node of
\* their own, loc, at the end.
Appended(l, m, seq1, seq2, loc) ==
  /\ m \in ListType
  /\ m.length = l.length + seqlen(seq1, seq2)
  /\ m.data1 = [l.data1 EXCEPT ![loc] = seq1]
  /\ m.data2 = [l.data2 EXCEPT ![loc] = IF seq2 # seq1 THEN seq2 ELSE @]
  /\ m.next = [k \in Nodes |->
       IF k = loc THEN Unset
       ELSE IF l.length # 0 /\ k = l.tail THEN loc ELSE l.next[k]]
  /\ m.prior = [l.prior EXCEPT ![loc] = IF l.length = 0 THEN Unset ELSE l.tail]
  /\ m.head = IF l.length = 0 THEN loc ELSE l.head
  /\ m.tail = loc

\* The node that Inserted takes for it.
Chosen(l, seq1, loc) ==
  IF l.length = 0 THEN loc = 0
  ELSE /\ loc = NodeAfter(l.head, seqoff(l.data1[l.head], seq1))
       /\ ~(l.data2[l.tail] # Unset /\ incseq(l.data2[l.tail]) = seq1)

\* What CRcvLossList::insert leaves in each array, on each of its three ways.
LEMMA InsertedFields ==
  ASSUME NEW l \in ListType, NEW seq1 \in Int, NEW seq2 \in Int, NEW loc \in Nodes,
         Chosen(l, seq1, loc), l.length # 0 => l.tail \in Nodes,
         seqlen(seq1, seq2) \in Int
  PROVE  Appended(l, Inserted(l, seq1, seq2), seq1, seq2, loc)
<1> DEFINE longer == [l EXCEPT !.length = @ + seqlen(seq1, seq2)]
           f == Fill(longer, loc, seq1, seq2)
<1>0. Unset \in Int /\ loc \in Int /\ l.length \in Int
  BY DEF Unset, Nodes, ListType
<1>1. /\ longer \in ListType
      /\ longer.length = l.length + seqlen(seq1, seq2)
      /\ longer.data1 = l.data1 /\ longer.data2 = l.data2
      /\ longer.next = l.next /\ longer.prior = l.prior
      /\ longer.head = l.head /\ longer.tail = l.tail
  BY <1>0 DEF ListType
<1>2. /\ f \in ListType
      /\ f.data1 = [longer.data1 EXCEPT ![loc] = seq1]
      /\ f.data2 = [longer.data2 EXCEPT ![loc] = IF seq2 # seq1 THEN seq2 ELSE @]
      /\ f.next = longer.next /\ f.prior = longer.prior
      /\ f.head = longer.head /\ f.tail = longer.tail /\ f.length = longer.length
  <2> HIDE DEF longer
  <2> QED BY <1>1, FillFields
<1>3. CASE l.length = 0
  <2>1. Inserted(l, seq1, seq2) =
          [f EXCEPT !.head = loc, !.tail = loc, !.next[loc] = Unset, !.prior[loc] = Unset]
    BY <1>3 DEF Inserted, Chosen
  <2> DEFINE m == [f EXCEPT !.head = loc, !.tail = loc,
                            !.next[loc] = Unset, !.prior[loc] = Unset]
  <2>2. /\ m \in ListType
        /\ m.data1 = f.data1 /\ m.data2 = f.data2
        /\ m.next = [f.next EXCEPT ![loc] = Unset]
        /\ m.prior = [f.prior EXCEPT ![loc] = Unset]
        /\ m.head = loc /\ m.tail = loc /\ m.length = f.length
    <3> HIDE DEF longer, f
    <3> QED BY <1>0, <1>2 DEF ListType
  <2> HIDE DEF longer, f, m
  <2>3. l.next \in [Nodes -> Int]
    BY DEF ListType
  <2>4. m.next = [k \in Nodes |->
                   IF k = loc THEN Unset
                   ELSE IF l.length # 0 /\ k = l.tail THEN loc ELSE l.next[k]]
    BY <1>1, <1>2, <1>3, <2>2, <2>3
  <2>5. Inserted(l, seq1, seq2) = m
    BY <2>1 DEF m
  <2> QED BY <1>0, <1>1, <1>2, <1>3, <2>2, <2>4, <2>5 DEF Appended
<1>4. CASE l.length # 0
  <2>1. Inserted(l, seq1, seq2) =
          [f EXCEPT !.next = [@ EXCEPT ![l.tail] = loc, ![loc] = Unset],
                    !.prior[loc] = l.tail, !.tail = loc]
    BY <1>4 DEF Inserted, Chosen
  <2> DEFINE m == [f EXCEPT !.next = [@ EXCEPT ![l.tail] = loc, ![loc] = Unset],
                            !.prior[loc] = l.tail, !.tail = loc]
  <2>2. /\ m \in ListType
        /\ m.data1 = f.data1 /\ m.data2 = f.data2
        /\ m.next = [f.next EXCEPT ![l.tail] = loc, ![loc] = Unset]
        /\ m.prior = [f.prior EXCEPT ![loc] = l.tail]
        /\ m.head = f.head /\ m.tail = loc /\ m.length = f.length
    <3>1. l.tail \in Int
      BY DEF ListType
    <3> HIDE DEF longer, f
    <3> QED BY <3>1, <1>0, <1>2 DEF ListType
  <2> HIDE DEF longer, f, m
  <2>3. l.next \in [Nodes -> Int]
    BY DEF ListType
  <2>4. m.next = [k \in Nodes |->
                   IF k = loc THEN Unset
                   ELSE IF l.length # 0 /\ k = l.tail THEN loc ELSE l.next[k]]
    BY <1>1, <1>2, <1>4, <2>2, <2>3
  <2>5. Inserted(l, seq1, seq2) = m
    BY <2>1 DEF m
  <2> QED BY <1>0, <1>1, <1>2, <1>4, <2>2, <2>4, <2>5 DEF Appended
<1> QED BY <1>3, <1>4

-----------------------------------------------------------------------------
(* The list on the line of the offsets. *)

\* What the intervals contain that begin at D, each of which ends at e[d].
Numbers(D, e) == {k \in Offsets : \E d \in D : d =< k /\ k =< e[d]}

\* They are apart.
Apart(D, e) == \A d \in D : d =< e[d] /\ \A f \in D : d < f => e[d] < f

\* f is the next after d.
Follows(D, d, f) == d < f /\ \A g \in D : g =< d \/ f =< g

Filled(l, b, c, D, e) ==
  /\ \A d \in D : /\ l.data1[Place(c, d)] = Shift(b, d)
                  /\ l.data2[Place(c, d)] = IF e[d] = d THEN Unset ELSE Shift(b, e[d])
  /\ \A k \in Nodes \ D : /\ l.data1[Place(c, k)] = Unset
                          /\ l.data2[Place(c, k)] = Unset

LinkedUp(l, c, D) ==
  \A d \in D : \/ l.next[Place(c, d)] = Unset /\ \A f \in D : f =< d
               \/ \E f \in D : Follows(D, d, f) /\ l.next[Place(c, d)] = Place(c, f)

LinkedDown(l, c, D) ==
  \A f \in D : \/ \A d \in D : f =< d
               \/ \E d \in D : Follows(D, d, f) /\ l.prior[Place(c, f)] = Place(c, d)

HasHead(l, c, D) ==
  \/ D = {} /\ l.head = Unset
  \/ \E d \in D : l.head = Place(c, d) /\ \A f \in D : d =< f

HasTail(l, c, D) ==
  D # {} => \E d \in D : l.tail = Place(c, d) /\ \A f \in D : f =< d

\* The list has the intervals of D and e, as seen from the number b, whose
\* node would be c.
Rep(l, b, c, D, e) ==
  /\ l \in ListType /\ c \in Nodes /\ D \subseteq Offsets /\ e \in [Offsets -> Offsets]
  /\ Apart(D, e)
  /\ Filled(l, b, c, D, e)
  /\ LinkedUp(l, c, D) /\ LinkedDown(l, c, D)
  /\ HasHead(l, c, D) /\ HasTail(l, c, D)
  /\ l.length = Cardinality(Numbers(D, e))

\* The missing numbers are finitely many.
LEMMA NumbersFinite ==
  ASSUME NEW D, NEW e
  PROVE  IsFiniteSet(Numbers(D, e)) /\ Cardinality(Numbers(D, e)) \in Nat
<1>1. IsFiniteSet(Offsets)
  BY FS_Interval, RcvLossListAssumption DEF Offsets
<1>2. Numbers(D, e) \in SUBSET Offsets
  BY DEF Numbers
<1> QED BY <1>1, <1>2, FS_Subset, FS_CardinalityType

\* The length is 0 when there is no interval.
LEMMA EmptyOrNot ==
  ASSUME NEW l, NEW b, NEW c, NEW D, NEW e, Rep(l, b, c, D, e)
  PROVE  /\ l.length = 0 <=> D = {}
         /\ \A d \in D : d \in Numbers(D, e) /\ e[d] \in Numbers(D, e)
<1>1. \A d \in D : d \in Numbers(D, e) /\ e[d] \in Numbers(D, e)
  <2> TAKE d \in D
  <2>1. d \in Offsets /\ e[d] \in Offsets /\ d =< e[d] /\ d \in Int /\ e[d] \in Int
    BY DEF Rep, Apart, Offsets
  <2> QED BY <2>1 DEF Numbers
<1>2. D = {} => Numbers(D, e) = {}
  BY DEF Numbers
<1>3. Cardinality(Numbers(D, e)) = 0 <=> Numbers(D, e) = {}
  BY NumbersFinite, FS_EmptySet
<1> QED BY <1>1, <1>2, <1>3 DEF Rep

\* A set of numbers has a smallest one.
LEMMA Smallest ==
  ASSUME NEW T \in SUBSET Nat, T # {}
  PROVE  \E x \in T : \A y \in T : x =< y
<1> DEFINE Below == {p \in Nat \X Nat : p[1] < p[2]}
<1>1. IsWellFoundedOn(OpToRel(<, Nat), Nat)
  BY NatLessThanWellFounded
<1>2. OpToRel(<, Nat) = Below
  BY DEF OpToRel
<1> HIDE DEF Below
<1>3. PICK x \in T : \A y \in T : ~(<<y, x>> \in Below)
  BY <1>1, <1>2, WFMin
<1>4. ASSUME NEW y \in T PROVE x =< y
  <2>1. y \in Nat /\ x \in Nat /\ ~(<<y, x>> \in Below)
    BY <1>3
  <2> QED BY <2>1 DEF Below
<1> QED BY <1>4

\* Before a number that some interval begins before, one begins last.
LEMMA LastBefore ==
  ASSUME NEW D \in SUBSET Offsets, NEW n \in Offsets, NEW h \in D, h < n
  PROVE  \E f \in D : f < n /\ \A g \in D : g =< f \/ n =< g
<1> DEFINE T == {n - d : d \in {g \in D : g < n}}
<1>1. T \in SUBSET Nat /\ n - h \in T
  BY DEF Offsets
<1>2. PICK x \in T : \A y \in T : x =< y
  BY <1>1, Smallest
<1>3. PICK f \in D : f < n /\ x = n - f
  BY <1>2
<1>4. ASSUME NEW g \in D, g < n PROVE g =< f
  <2>1. n - f =< n - g
    BY <1>2, <1>3, <1>4
  <2> QED BY <2>1 DEF Offsets
<1> QED BY <1>3, <1>4 DEF Offsets

\* The numbers of a list, on the circle.
On(b, S) == {Shift(b, k) : k \in S}

\* What each node holds of them.
NodesHold(l, b, c, D, e) ==
  \A d \in D : SeqRange(l.data1[Place(c, d)], End(l, Place(c, d))) = On(b, d .. e[d])

\* The nodes in use hold the numbers of the intervals, and no others.
LEMMA HeldIs ==
  ASSUME NEW l, NEW b \in SeqNos, NEW c, NEW D, NEW e, Rep(l, b, c, D, e)
  PROVE  Held(l) = On(b, Numbers(D, e)) /\ NodesHold(l, b, c, D, e)
<1>1. ASSUME NEW d \in D
      PROVE  /\ l.data1[Place(c, d)] # Unset
             /\ SeqRange(l.data1[Place(c, d)], End(l, Place(c, d))) = On(b, d .. e[d])
  <2>1. d \in Offsets /\ e[d] \in Offsets /\ d =< e[d]
    BY DEF Rep, Apart
  <2>2. Shift(b, e[d]) # Unset /\ Shift(b, d) # Unset
    BY <2>1, WindowFacts, RcvLossListAssumption DEF Offsets
  <2>3. l.data1[Place(c, d)] = Shift(b, d) /\ End(l, Place(c, d)) = Shift(b, e[d])
    BY <2>2 DEF Rep, Filled, End
  <2> QED BY <2>1, <2>2, <2>3, RangeOfOffsets DEF On
<1>2. \A i \in Nodes : l.data1[i] # Unset => \E d \in D : i = Place(c, d)
  <2> TAKE i \in Nodes
  <2>1. PICK k \in Nodes : i = Place(c, k)
    BY PlaceFacts DEF Rep
  <2>2. k \notin D => l.data1[Place(c, k)] = Unset
    BY DEF Rep, Filled
  <2> QED BY <2>1, <2>2
<1>3. \A d \in D : Place(c, d) \in Nodes
  BY PlaceFacts DEF Rep
<1>4. ASSUME NEW s \in Held(l) PROVE s \in On(b, Numbers(D, e))
  <2>1. PICK i \in Nodes : l.data1[i] # Unset /\ s \in SeqRange(l.data1[i], End(l, i))
    BY <1>4 DEF Held
  <2>2. PICK d \in D : i = Place(c, d)
    BY <1>2, <2>1
  <2>3. PICK k \in d .. e[d] : s = Shift(b, k)
    BY <1>1, <2>1, <2>2 DEF On
  <2>4. d \in Offsets /\ e[d] \in Offsets
    BY DEF Rep
  <2>5. k \in Offsets /\ d =< k /\ k =< e[d]
    BY <2>3, <2>4, RcvLossListAssumption DEF Offsets
  <2>6. k \in Numbers(D, e)
    BY <2>5 DEF Numbers
  <2> QED BY <2>3, <2>6 DEF On
<1>5. ASSUME NEW s \in On(b, Numbers(D, e)) PROVE s \in Held(l)
  <2>1. PICK k \in Numbers(D, e) : s = Shift(b, k)
    BY <1>5 DEF On
  <2>2. PICK d \in D : k \in d .. e[d]
    BY <2>1 DEF Numbers, Rep, Offsets
  <2>3. s \in SeqRange(l.data1[Place(c, d)], End(l, Place(c, d)))
    BY <1>1, <2>1, <2>2 DEF On
  <2> QED BY <1>1, <1>3, <2>3 DEF Held
<1> QED BY <1>1, <1>4, <1>5 DEF NodesHold

\* The first node is the one of h, which the first number is at.
First(l, b, c, D, e, h) ==
  /\ l.head = Place(c, h) /\ \A f \in D : h =< f
  /\ l.data1[l.head] = Shift(b, h)
  /\ h \in Numbers(D, e) /\ \A k \in Numbers(D, e) : h =< k

\* m_iHead is the node of the first missing number.
LEMMA HeadFacts ==
  ASSUME NEW l, NEW b \in SeqNos, NEW c, NEW D, NEW e, Rep(l, b, c, D, e), D # {}
  PROVE  \E h \in D : First(l, b, c, D, e, h)
<1>1. PICK h \in D : l.head = Place(c, h) /\ \A f \in D : h =< f
  BY DEF Rep, HasHead
<1>2. l.data1[l.head] = Shift(b, h)
  BY <1>1 DEF Rep, Filled
<1>3. h \in Numbers(D, e)
  BY EmptyOrNot
<1>4. ASSUME NEW k \in Numbers(D, e) PROVE h =< k
  BY <1>1 DEF Numbers, Rep, Offsets
<1> QED BY <1>1, <1>2, <1>3, <1>4 DEF First

\* A list one shorter.
Shortened(l) == [l EXCEPT !.length = @ - 1]

LEMMA ShortenedFields ==
  ASSUME NEW l \in ListType
  PROVE  LET m == Shortened(l) IN
         /\ m \in ListType /\ m.length = l.length - 1
         /\ m.data1 = l.data1 /\ m.data2 = l.data2 /\ m.next = l.next
         /\ m.prior = l.prior /\ m.head = l.head /\ m.tail = l.tail
BY DEF Shortened, ListType

\* With one number less, there is one number less.
LEMMA OneNumberLess ==
  ASSUME NEW D, NEW e, NEW D1, NEW e1, NEW n \in Numbers(D, e),
         Numbers(D1, e1) = Numbers(D, e) \ {n}
  PROVE  Cardinality(Numbers(D1, e1)) = Cardinality(Numbers(D, e)) - 1
BY NumbersFinite, FS_RemoveElement

\* What is used of Rep all the time.
LEMMA RepFacts ==
  ASSUME NEW l, NEW b, NEW c, NEW D, NEW e, Rep(l, b, c, D, e)
  PROVE  /\ D \subseteq Nodes /\ D \subseteq Int /\ c \in Nodes /\ D \subseteq Offsets
         /\ \A d \in Nodes : Place(c, d) \in Nodes
         /\ \A d, f \in Nodes : Place(c, d) = Place(c, f) => d = f
         /\ Unset \notin Nodes /\ Unset \in Int /\ l \in ListType
         /\ \A d \in D : e[d] \in Int /\ d =< e[d] /\ e[d] \in Offsets
         /\ \A d, f \in D : d < f => e[d] < f
         /\ Offsets \subseteq Int /\ Offsets \subseteq Nodes /\ Nodes \subseteq Int
<1>1. c \in Nodes /\ D \subseteq Offsets /\ l \in ListType /\ e \in [Offsets -> Offsets]
  BY DEF Rep
<1>2. /\ Offsets \subseteq Nodes
      /\ \A d \in Nodes : Place(c, d) \in Nodes
      /\ \A d, f \in Nodes : Place(c, d) = Place(c, f) => d = f
  BY <1>1, PlaceFacts
<1>3. Offsets \subseteq Int /\ Nodes \subseteq Int /\ Unset \notin Nodes /\ Unset \in Int
  BY DEF Offsets, Nodes, Unset
<1>4. /\ \A d \in D : d =< e[d] /\ e[d] \in Offsets
      /\ \A d, f \in D : d < f => e[d] < f
  BY <1>1 DEF Rep, Apart
<1> QED BY <1>1, <1>2, <1>3, <1>4

\* What the links of the node of n say of it.
NodeLinked(l, c, D, n) ==
  /\ Place(c, n) \in Nodes
  /\ l.head = Place(c, n) <=> \A f \in D : n =< f
  /\ l.tail = Place(c, n) <=> \A f \in D : f =< n
  /\ \/ l.head = Place(c, n)
     \/ /\ l.head # Place(c, n)
        /\ \E q \in D : Follows(D, q, n) /\ l.prior[Place(c, n)] = Place(c, q)
  /\ \/ l.tail = Place(c, n) /\ l.next[Place(c, n)] = Unset
     \/ /\ l.tail # Place(c, n) /\ l.next[Place(c, n)] # Unset
        /\ \E r \in D : Follows(D, n, r) /\ l.next[Place(c, n)] = Place(c, r)

\* Of a node, what its links and those of its neighbours are.
LEMMA LinkFacts ==
  ASSUME NEW l, NEW b \in SeqNos, NEW c, NEW D, NEW e, Rep(l, b, c, D, e),
         NEW n \in D
  PROVE  NodeLinked(l, c, D, n)
<1>0. /\ D \subseteq Nodes /\ D \subseteq Int /\ c \in Nodes
      /\ \A d \in Nodes : Place(c, d) \in Nodes
      /\ \A d, f \in Nodes : Place(c, d) = Place(c, f) => d = f
      /\ Unset \notin Nodes
  BY RepFacts
<1>1. PICK h \in D : l.head = Place(c, h) /\ \A f \in D : h =< f
  BY DEF Rep, HasHead
<1>2. PICK t \in D : l.tail = Place(c, t) /\ \A f \in D : f =< t
  BY DEF Rep, HasTail
<1>3. l.head = Place(c, n) <=> h = n
  BY <1>0, <1>1
<1>4. l.tail = Place(c, n) <=> t = n
  BY <1>0, <1>2
<1>5. (h = n) <=> \A f \in D : n =< f
  BY <1>0, <1>1
<1>6. (t = n) <=> \A f \in D : f =< n
  BY <1>0, <1>2
<1>7. \/ l.head = Place(c, n)
      \/ \E q \in D : Follows(D, q, n) /\ l.prior[Place(c, n)] = Place(c, q)
  <2>1. CASE \A d \in D : n =< d
    BY <2>1, <1>3, <1>5
  <2> QED BY <2>1 DEF Rep, LinkedDown
<1>8. \/ l.tail = Place(c, n) /\ l.next[Place(c, n)] = Unset
      \/ /\ l.tail # Place(c, n) /\ l.next[Place(c, n)] # Unset
         /\ \E r \in D : Follows(D, n, r) /\ l.next[Place(c, n)] = Place(c, r)
  <2>1. CASE l.next[Place(c, n)] = Unset /\ \A f \in D : f =< n
    BY <2>1, <1>4, <1>6
  <2>2. CASE \E r \in D : Follows(D, n, r) /\ l.next[Place(c, n)] = Place(c, r)
    <3>1. PICK r \in D : Follows(D, n, r) /\ l.next[Place(c, n)] = Place(c, r)
      BY <2>2
    <3>2. ~(r =< n) /\ Place(c, r) # Unset
      BY <3>1, <1>0 DEF Follows
    <3> QED BY <3>1, <3>2, <1>4, <1>6
  <2> QED BY <2>1, <2>2 DEF Rep, LinkedUp
<1> QED BY <1>0, <1>3, <1>4, <1>5, <1>6, <1>7, <1>8 DEF NodeLinked

\* A single number is taken out.
LEMMA UnlinkRep ==
  ASSUME NEW l, NEW b \in SeqNos, NEW c, NEW D, NEW e, Rep(l, b, c, D, e),
         NEW n \in D, e[n] = n
  PROVE  /\ Rep(Shortened(Unlinked(l, Place(c, n))), b, c, D \ {n}, e)
         /\ Numbers(D \ {n}, e) = Numbers(D, e) \ {n}
<1> DEFINE loc == Place(c, n)
           D1 == D \ {n}
           u == Unlinked(l, loc)
           m == Shortened(u)
<1>0. /\ D \subseteq Nodes /\ D \subseteq Int /\ c \in Nodes /\ D \subseteq Offsets
      /\ \A d \in Nodes : Place(c, d) \in Nodes
      /\ \A d, f \in Nodes : Place(c, d) = Place(c, f) => d = f
      /\ Unset \notin Nodes /\ l \in ListType
      /\ \A d \in D : e[d] \in Int /\ d =< e[d]
      /\ \A d, f \in D : d < f => e[d] < f
      /\ Offsets \subseteq Int
  BY RepFacts
<1>1. /\ loc \in Nodes
      /\ l.head = loc <=> \A f \in D : n =< f
      /\ l.tail = loc <=> \A f \in D : f =< n
      /\ \/ l.head = loc
         \/ l.head # loc /\ \E q \in D : Follows(D, q, n) /\ l.prior[loc] = Place(c, q)
      /\ \/ l.tail = loc /\ l.next[loc] = Unset
         \/ /\ l.tail # loc /\ l.next[loc] # Unset
            /\ \E r \in D : Follows(D, n, r) /\ l.next[loc] = Place(c, r)
  <2>1. NodeLinked(l, c, D, n)
    BY LinkFacts
  <2> QED BY <2>1 DEF NodeLinked
<1>2. l.next[loc] \in Nodes \cup {Unset} /\ (l.head # loc => l.prior[loc] \in Nodes)
  BY <1>0, <1>1
<1>3. /\ u \in ListType
      /\ u.data1 = [l.data1 EXCEPT ![loc] = Unset]
      /\ u.data2 = [l.data2 EXCEPT ![loc] = Unset]
      /\ u.next = [k \in Nodes |->
           IF k = loc THEN Unset
           ELSE IF l.head # loc /\ k = l.prior[loc] THEN l.next[loc] ELSE l.next[k]]
      /\ u.prior = [k \in Nodes |->
           IF k = loc THEN Unset
           ELSE IF k = l.next[loc]
           THEN IF l.head = loc THEN Unset ELSE l.prior[loc] ELSE l.prior[k]]
      /\ u.head = IF l.head = loc THEN l.next[loc] ELSE l.head
      /\ u.tail = IF l.head # loc /\ l.next[loc] = Unset THEN l.prior[loc] ELSE l.tail
      /\ u.length = l.length
  BY <1>0, <1>1, <1>2, UnlinkedFields
<1>4. /\ m \in ListType /\ m.length = l.length - 1
      /\ m.data1 = u.data1 /\ m.data2 = u.data2 /\ m.next = u.next
      /\ m.prior = u.prior /\ m.head = u.head /\ m.tail = u.tail
  BY <1>3, ShortenedFields
<1> HIDE DEF m, u, loc
<1>5. \A k \in Nodes : Place(c, k) = loc <=> k = n
  BY <1>0 DEF loc
<1>6. Filled(m, b, c, D1, e)
  <2>1. l.data1 \in [Nodes -> Int] /\ l.data2 \in [Nodes -> Int]
    BY <1>0 DEF ListType
  <2> QED BY <2>1, <1>0, <1>3, <1>4, <1>5 DEF Rep, Filled
<1>7. \A d \in D1 : m.next[Place(c, d)] =
        IF l.head # loc /\ Place(c, d) = l.prior[loc] THEN l.next[loc] ELSE l.next[Place(c, d)]
  BY <1>0, <1>3, <1>4, <1>5
<1>8. \A d \in D1 : m.prior[Place(c, d)] =
        IF Place(c, d) = l.next[loc]
        THEN IF l.head = loc THEN Unset ELSE l.prior[loc] ELSE l.prior[Place(c, d)]
  BY <1>0, <1>3, <1>4, <1>5
<1>9. ASSUME NEW d \in D1
      PROVE  \/ m.next[Place(c, d)] = Unset /\ \A f \in D1 : f =< d
             \/ \E f \in D1 : Follows(D1, d, f) /\ m.next[Place(c, d)] = Place(c, f)
  <2>1. CASE l.head # loc /\ Place(c, d) = l.prior[loc]
    <3>1. Follows(D, d, n)
      BY <2>1, <1>0, <1>1
    <3>2. m.next[Place(c, d)] = l.next[loc]
      BY <2>1, <1>7
    <3>3. CASE l.tail = loc /\ l.next[loc] = Unset
      BY <3>1, <3>2, <3>3, <1>0, <1>1 DEF Follows
    <3>4. CASE \E r \in D : Follows(D, n, r) /\ l.next[loc] = Place(c, r)
      <4>1. PICK r \in D : Follows(D, n, r) /\ l.next[loc] = Place(c, r)
        BY <3>4
      <4>2. r \in D1 /\ Follows(D1, d, r)
        BY <4>1, <3>1, <1>0 DEF Follows
      <4> QED BY <4>1, <4>2, <3>2
    <3> QED BY <3>3, <3>4, <1>1
  <2>2. CASE ~(l.head # loc /\ Place(c, d) = l.prior[loc])
    <3>1. m.next[Place(c, d)] = l.next[Place(c, d)]
      BY <2>2, <1>7
    <3>2. CASE l.next[Place(c, d)] = Unset /\ \A f \in D : f =< d
      BY <3>1, <3>2
    <3>3. CASE \E f \in D : Follows(D, d, f) /\ l.next[Place(c, d)] = Place(c, f)
      <4>1. PICK f \in D : Follows(D, d, f) /\ l.next[Place(c, d)] = Place(c, f)
        BY <3>3
      <4>2. f # n
        <5>1. SUFFICES ASSUME f = n PROVE FALSE
          OBVIOUS
        <5>2. ~\A g \in D : n =< g
          BY <5>1, <4>1, <1>0 DEF Follows
        <5>3. PICK q \in D : Follows(D, q, n) /\ l.prior[loc] = Place(c, q)
          BY <5>2, <1>1
        <5>4. q = d
          BY <5>1, <5>3, <4>1, <1>0 DEF Follows
        <5> QED BY <5>2, <5>3, <5>4, <2>2, <1>1
      <4>3. f \in D1 /\ Follows(D1, d, f)
        BY <4>1, <4>2 DEF Follows
      <4> QED BY <4>1, <4>3, <3>1
    <3> QED BY <3>2, <3>3 DEF Rep, LinkedUp
  <2> QED BY <2>1, <2>2
<1>10. ASSUME NEW f \in D1
       PROVE  \/ \A d \in D1 : f =< d
              \/ \E d \in D1 : Follows(D1, d, f) /\ m.prior[Place(c, f)] = Place(c, d)
  <2>1. CASE \A d \in D : f =< d
    BY <2>1
  <2>2. CASE \E d \in D : Follows(D, d, f) /\ l.prior[Place(c, f)] = Place(c, d)
    <3>1. PICK d \in D : Follows(D, d, f) /\ l.prior[Place(c, f)] = Place(c, d)
      BY <2>2
    <3>2. CASE d # n
      <4>1. Place(c, f) # l.next[loc]
        BY <3>1, <3>2, <1>0, <1>1 DEF Follows
      <4>2. d \in D1 /\ Follows(D1, d, f)
        BY <3>1, <3>2 DEF Follows
      <4> QED BY <3>1, <4>1, <4>2, <1>8
    <3>3. CASE d = n
      <4>1. Place(c, f) = l.next[loc]
        BY <3>1, <3>3, <1>0, <1>1 DEF Follows
      <4>2. CASE l.head = loc
        BY <4>2, <3>1, <3>3, <1>0, <1>1 DEF Follows
      <4>3. CASE l.head # loc
        <5>1. PICK q \in D : Follows(D, q, n) /\ l.prior[loc] = Place(c, q)
          BY <4>3, <1>1
        <5>2. q \in D1 /\ Follows(D1, q, f)
          BY <5>1, <3>1, <3>3, <1>0 DEF Follows
        <5> QED BY <5>1, <5>2, <4>1, <4>3, <1>8
      <4> QED BY <4>2, <4>3
    <3> QED BY <3>2, <3>3
  <2> QED BY <2>1, <2>2 DEF Rep, LinkedDown
<1>11. HasHead(m, c, D1)
  <2>1. CASE l.head = loc
    <3>1. m.head = l.next[loc]
      BY <2>1, <1>3, <1>4
    <3> QED BY <3>1, <2>1, <1>0, <1>1 DEF HasHead, Follows
  <2>2. CASE l.head # loc
    <3>1. m.head = l.head
      BY <2>2, <1>3, <1>4
    <3> QED BY <3>1, <2>2, <1>0 DEF HasHead, Rep, loc
  <2> QED BY <2>1, <2>2
<1>12. HasTail(m, c, D1)
  <2>0. SUFFICES ASSUME D1 # {} PROVE \E d \in D1 : m.tail = Place(c, d) /\ \A f \in D1 : f =< d
    BY DEF HasTail
  <2>1. CASE l.tail = loc
    <3>0. PICK g \in D : g # n
      BY <2>0
    <3>1. l.head # loc
      BY <3>0, <2>1, <1>0, <1>1
    <3>2. m.tail = l.prior[loc]
      BY <2>1, <3>1, <1>1, <1>3, <1>4
    <3>3. PICK q \in D : Follows(D, q, n) /\ l.prior[loc] = Place(c, q)
      BY <3>1, <1>1
    <3>4. q \in D1 /\ \A f \in D1 : f =< q
      BY <3>3, <2>1, <1>0, <1>1 DEF Follows
    <3> QED BY <3>2, <3>3, <3>4
  <2>2. CASE l.tail # loc
    <3>1. m.tail = l.tail
      BY <2>2, <1>1, <1>3, <1>4
    <3> QED BY <3>1, <2>2, <1>0 DEF HasTail, Rep, loc
  <2> QED BY <2>1, <2>2
<1>13. Numbers(D1, e) = Numbers(D, e) \ {n}
  <2>1. ASSUME NEW k \in Offsets
        PROVE  (\E d \in D1 : d =< k /\ k =< e[d])
                 <=> (\E d \in D : d =< k /\ k =< e[d]) /\ k # n
    <3>1. k \in Int
      BY <1>0
    <3>2. ASSUME NEW d \in D1, d =< k, k =< e[d] PROVE k # n
      BY <3>2, <1>0
    <3>3. ASSUME NEW d \in D, d =< k, k =< e[d], k # n PROVE d # n
      BY <3>3, <3>1, <1>0
    <3> QED BY <3>2, <3>3
  <2> QED BY <2>1 DEF Numbers
<1>14. Cardinality(Numbers(D1, e)) = Cardinality(Numbers(D, e)) - 1
  <2>1. n \in Numbers(D, e)
    BY EmptyOrNot
  <2> QED BY <2>1, <1>13, OneNumberLess
<1>15. Apart(D1, e) /\ D1 \subseteq Offsets /\ e \in [Offsets -> Offsets]
  BY DEF Rep, Apart
<1>16. LinkedUp(m, c, D1) /\ LinkedDown(m, c, D1)
  BY <1>9, <1>10 DEF LinkedUp, LinkedDown
<1>17. Rep(m, b, c, D1, e)
  BY <1>0, <1>4, <1>6, <1>11, <1>12, <1>14, <1>15, <1>16 DEF Rep
<1> QED BY <1>13, <1>17 DEF m, u, loc

\* Steps along the window.
LEMMA Along ==
  ASSUME NEW b \in SeqNos, NEW k \in 0 .. RcvWindow
  PROVE  /\ incseq(Shift(b, k)) = Shift(b, k + 1)
         /\ decseq(Shift(b, k)) = Shift(b, k - 1)
<1>1. k \in Int /\ 0 =< k /\ k < SeqNoTH /\ k - 1 \in Int /\ k + 1 \in Int /\ RcvWindow \in Int
  BY RcvLossListAssumption, SeqNoAssumption
<1>2. b \in Int /\ 0 =< b /\ b =< MaxSeqNo /\ MaxSeqNo = 2 * SeqNoTH + 1 /\ SeqNoTH \in Int /\ SeqNoTH > 0
  BY SeqNoAssumption DEF SeqNos
<1> QED BY <1>1, <1>2 DEF incseq, decseq, Shift

\* The first of several numbers is taken out.
LEMMA AdvanceRep ==
  ASSUME NEW l, NEW b \in SeqNos, NEW c, NEW D, NEW e, Rep(l, b, c, D, e),
         NEW n \in D, e[n] # n
  PROVE  \E D1, e1 : /\ Rep(Shortened(Advanced(l, Place(c, n))), b, c, D1, e1)
                     /\ Numbers(D1, e1) = Numbers(D, e) \ {n}
<1> DEFINE loc == Place(c, n)
           i == Place(c, n + 1)
           D1 == (D \ {n}) \cup {n + 1}
           e1 == [e EXCEPT ![n + 1] = e[n]]
           u == Advanced(l, loc)
           m == Shortened(u)
<1>0. /\ D \subseteq Nodes /\ D \subseteq Int /\ c \in Nodes /\ D \subseteq Offsets
      /\ \A d \in Nodes : Place(c, d) \in Nodes
      /\ \A d, f \in Nodes : Place(c, d) = Place(c, f) => d = f
      /\ Unset \notin Nodes /\ l \in ListType
      /\ \A d \in D : e[d] \in Int /\ d =< e[d] /\ e[d] \in Offsets
      /\ \A d, f \in D : d < f => e[d] < f
      /\ Offsets \subseteq Int /\ Offsets \subseteq Nodes
  BY RepFacts
<1>1. /\ loc \in Nodes
      /\ l.head = loc <=> \A f \in D : n =< f
      /\ l.tail = loc <=> \A f \in D : f =< n
      /\ \/ l.head = loc
         \/ l.head # loc /\ \E q \in D : Follows(D, q, n) /\ l.prior[loc] = Place(c, q)
      /\ \/ l.tail = loc /\ l.next[loc] = Unset
         \/ /\ l.tail # loc /\ l.next[loc] # Unset
            /\ \E r \in D : Follows(D, n, r) /\ l.next[loc] = Place(c, r)
  <2>1. NodeLinked(l, c, D, n)
    BY LinkFacts
  <2> QED BY <2>1 DEF NodeLinked
<1>2. (l.tail # loc => l.next[loc] \in Nodes) /\ (l.head # loc => l.prior[loc] \in Nodes)
  BY <1>0, <1>1
<1>3. /\ n \in Int /\ n < e[n] /\ n + 1 =< e[n] /\ n + 1 \in Offsets /\ n + 1 \notin D
      /\ n + 1 \in Nodes /\ n + 1 \in 0 .. RcvWindow
      /\ \A f \in D : f > n => f > n + 1
  <2>1. n \in Int /\ n < e[n] /\ n + 1 =< e[n] /\ e[n] \in Offsets /\ n \in Offsets
    BY <1>0
  <2>2. n + 1 \in Offsets /\ n + 1 \in 0 .. RcvWindow
    BY <2>1, RcvLossListAssumption DEF Offsets
  <2>3. \A f \in D : f > n => f > n + 1
    BY <2>1, <1>0
  <2> QED BY <2>1, <2>2, <2>3, <1>0
<1>4. i \in Nodes /\ i # loc /\ i = NodeAfter(loc, 1)
  <2>1. n \in Nodes /\ n + 1 < RcvSize
    BY <1>0, <1>3, RcvLossListAssumption DEF Nodes
  <2>2. NodeAfter(Place(c, n), 1) = Place(c, n + 1)
    BY <2>1, <1>0, Neighbourhood
  <2> QED BY <2>1, <2>2, <1>0, <1>3
<1>5. /\ l.data1[loc] = Shift(b, n) /\ l.data2[loc] = Shift(b, e[n])
      /\ incseq(l.data1[loc]) = Shift(b, n + 1)
      /\ l.data2[loc] = incseq(l.data1[loc]) <=> e[n] = n + 1
      /\ l.data2[i] = Unset
  <2>1. l.data1[loc] = Shift(b, n) /\ l.data2[loc] = Shift(b, e[n])
    BY DEF Rep, Filled
  <2>2. n \in 0 .. RcvWindow /\ e[n] \in 0 .. RcvWindow
    BY <1>0, RcvLossListAssumption DEF Offsets
  <2>3. l.data2[i] = Unset
    BY <1>3 DEF Rep, Filled
  <2> QED BY <2>1, <2>2, <2>3, <1>3, Along, WindowFacts
<1>6. /\ u \in ListType
      /\ u.data1 = [k \in Nodes |->
           IF k = loc THEN Unset
           ELSE IF k = i THEN incseq(l.data1[loc]) ELSE l.data1[k]]
      /\ u.data2 = [k \in Nodes |->
           IF k = loc THEN Unset
           ELSE IF k = i /\ l.data2[loc] # incseq(l.data1[loc])
           THEN l.data2[loc] ELSE l.data2[k]]
      /\ u.next = [k \in Nodes |->
           IF l.head # loc /\ k = l.prior[loc] THEN i
           ELSE IF k = i THEN l.next[loc]
           ELSE IF k = loc THEN Unset ELSE l.next[k]]
      /\ u.prior = [k \in Nodes |->
           IF l.tail # loc /\ k = l.next[loc] THEN i
           ELSE IF k = i THEN l.prior[loc]
           ELSE IF k = loc THEN Unset ELSE l.prior[k]]
      /\ u.head = IF l.head = loc THEN i ELSE l.head
      /\ u.tail = IF l.tail = loc THEN i ELSE l.tail
      /\ u.length = l.length
  <2> HIDE DEF loc, i
  <2>1. /\ l \in ListType /\ loc \in Nodes /\ i \in Nodes
        /\ i = NodeAfter(loc, 1) /\ i # loc
        /\ l.head # loc => l.prior[loc] \in Nodes
        /\ l.tail # loc => l.next[loc] \in Nodes
    BY <1>0, <1>1, <1>2, <1>4
  <2> QED BY <2>1, AdvancedFields
<1>7. /\ m \in ListType /\ m.length = l.length - 1
      /\ m.data1 = u.data1 /\ m.data2 = u.data2 /\ m.next = u.next
      /\ m.prior = u.prior /\ m.head = u.head /\ m.tail = u.tail
  BY <1>6, ShortenedFields
<1> HIDE DEF m, u, loc, i, e1
<1>8. \A k \in Nodes : /\ Place(c, k) = loc <=> k = n
                       /\ Place(c, k) = i <=> k = n + 1
  BY <1>0, <1>3 DEF loc, i
<1>9. /\ e1 \in [Offsets -> Offsets] /\ e1[n + 1] = e[n]
      /\ \A d \in D : e1[d] = e[d]
      /\ D1 \subseteq Offsets
  BY <1>0, <1>3 DEF Rep, e1
<1>10. Filled(m, b, c, D1, e1)
  <2>1. ASSUME NEW d \in D1
        PROVE  /\ m.data1[Place(c, d)] = Shift(b, d)
               /\ m.data2[Place(c, d)] = IF e1[d] = d THEN Unset ELSE Shift(b, e1[d])
    <3>1. CASE d = n + 1
      BY <3>1, <1>3, <1>4, <1>5, <1>6, <1>7, <1>8, <1>9
    <3>2. CASE d # n + 1
      <4>1. d \in D /\ d # n /\ d \in Nodes
        BY <3>2, <1>0
      <4>2. m.data1[Place(c, d)] = l.data1[Place(c, d)] /\ m.data2[Place(c, d)] = l.data2[Place(c, d)]
        BY <3>2, <4>1, <1>0, <1>6, <1>7, <1>8
      <4> QED BY <4>1, <4>2, <1>9 DEF Rep, Filled
    <3> QED BY <3>1, <3>2
  <2>2. ASSUME NEW k \in Nodes \ D1
        PROVE  m.data1[Place(c, k)] = Unset /\ m.data2[Place(c, k)] = Unset
    <3>1. CASE k = n
      BY <3>1, <1>0, <1>6, <1>7, <1>8
    <3>2. CASE k # n
      <4>1. k \notin D /\ k # n + 1
        BY <3>2
      <4>2. m.data1[Place(c, k)] = l.data1[Place(c, k)] /\ m.data2[Place(c, k)] = l.data2[Place(c, k)]
        BY <3>2, <4>1, <1>0, <1>6, <1>7, <1>8
      <4> QED BY <4>1, <4>2 DEF Rep, Filled
    <3> QED BY <3>1, <3>2
  <2> QED BY <2>1, <2>2 DEF Filled
<1>11. ASSUME NEW d \in D1
       PROVE  \/ m.next[Place(c, d)] = Unset /\ \A f \in D1 : f =< d
              \/ \E f \in D1 : Follows(D1, d, f) /\ m.next[Place(c, d)] = Place(c, f)
  <2>1. CASE d = n + 1
    <3>1. Place(c, d) = i /\ i \in Nodes
      BY <2>1, <1>3, <1>4, <1>8
    <3>2. l.head # loc => i # l.prior[loc]
      BY <1>0, <1>1, <1>3, <1>8 DEF Follows
    <3>3. m.next[Place(c, d)] = l.next[loc]
      BY <3>1, <3>2, <1>6, <1>7
    <3>4. CASE l.tail = loc /\ l.next[loc] = Unset
      BY <3>3, <3>4, <2>1, <1>0, <1>1, <1>3
    <3>5. CASE \E r \in D : Follows(D, n, r) /\ l.next[loc] = Place(c, r)
      <4>1. PICK r \in D : Follows(D, n, r) /\ l.next[loc] = Place(c, r)
        BY <3>5
      <4>2. r \in D1 /\ Follows(D1, d, r)
        BY <4>1, <2>1, <1>0, <1>3 DEF Follows
      <4> QED BY <4>1, <4>2, <3>3
    <3> QED BY <3>4, <3>5, <1>1
  <2>2. CASE d # n + 1
    <3>0. d \in D /\ d # n /\ d \in Nodes /\ d \in Int
      BY <2>2, <1>0
    <3>1. CASE l.head # loc /\ Place(c, d) = l.prior[loc]
      <4>1. Follows(D, d, n)
        BY <3>0, <3>1, <1>0, <1>1
      <4>2. m.next[Place(c, d)] = i
        BY <3>0, <3>1, <1>0, <1>6, <1>7
      <4>3. Follows(D1, d, n + 1)
        BY <4>1, <1>0, <1>3 DEF Follows
      <4> QED BY <4>2, <4>3 DEF i
    <3>2. CASE ~(l.head # loc /\ Place(c, d) = l.prior[loc])
      <4>1. m.next[Place(c, d)] = l.next[Place(c, d)]
        BY <2>2, <3>0, <3>2, <1>0, <1>6, <1>7, <1>8
      <4>2. CASE l.next[Place(c, d)] = Unset /\ \A f \in D : f =< d
        <5>1. n + 1 =< d
          BY <4>2, <3>0, <1>3
        <5> QED BY <4>1, <4>2, <5>1
      <4>3. CASE \E f \in D : Follows(D, d, f) /\ l.next[Place(c, d)] = Place(c, f)
        <5>1. PICK f \in D : Follows(D, d, f) /\ l.next[Place(c, d)] = Place(c, f)
          BY <4>3
        <5>2. f # n
          <6>1. SUFFICES ASSUME f = n PROVE FALSE
            OBVIOUS
          <6>2. ~\A g \in D : n =< g
            BY <6>1, <5>1, <3>0, <1>0 DEF Follows
          <6>3. PICK q \in D : Follows(D, q, n) /\ l.prior[loc] = Place(c, q)
            BY <6>2, <1>1
          <6>4. q = d
            BY <6>1, <6>3, <5>1, <3>0, <1>0 DEF Follows
          <6> QED BY <6>2, <6>3, <6>4, <3>2, <1>1
        <5>3. f \in D1 /\ Follows(D1, d, f)
          BY <5>1, <5>2, <3>0, <1>0, <1>3 DEF Follows
        <5> QED BY <5>1, <5>3, <4>1
      <4> QED BY <4>2, <4>3, <3>0 DEF Rep, LinkedUp
    <3> QED BY <3>1, <3>2
  <2> QED BY <2>1, <2>2
<1>12. ASSUME NEW f \in D1
       PROVE  \/ \A d \in D1 : f =< d
              \/ \E d \in D1 : Follows(D1, d, f) /\ m.prior[Place(c, f)] = Place(c, d)
  <2>1. CASE f = n + 1
    <3>1. Place(c, f) = i /\ i \in Nodes
      BY <2>1, <1>3, <1>4, <1>8
    <3>2. l.tail # loc => i # l.next[loc]
      BY <1>0, <1>1, <1>3, <1>8 DEF Follows
    <3>3. m.prior[Place(c, f)] = l.prior[loc]
      BY <3>1, <3>2, <1>6, <1>7
    <3>4. CASE l.head = loc
      BY <3>4, <2>1, <1>0, <1>1, <1>3
    <3>5. CASE l.head # loc
      <4>1. PICK q \in D : Follows(D, q, n) /\ l.prior[loc] = Place(c, q)
        BY <3>5, <1>1
      <4>2. q \in D1 /\ Follows(D1, q, f)
        BY <4>1, <2>1, <1>0, <1>3 DEF Follows
      <4> QED BY <4>1, <4>2, <3>3
    <3> QED BY <3>4, <3>5
  <2>2. CASE f # n + 1
    <3>0. f \in D /\ f # n /\ f \in Nodes /\ f \in Int
      BY <2>2, <1>0
    <3>1. CASE l.tail # loc /\ Place(c, f) = l.next[loc]
      <4>1. Follows(D, n, f)
        BY <3>0, <3>1, <1>0, <1>1
      <4>2. m.prior[Place(c, f)] = i
        BY <3>0, <3>1, <1>0, <1>6, <1>7
      <4>3. Follows(D1, n + 1, f)
        BY <4>1, <3>0, <1>0, <1>3 DEF Follows
      <4> QED BY <4>2, <4>3 DEF i
    <3>2. CASE ~(l.tail # loc /\ Place(c, f) = l.next[loc])
      <4>1. m.prior[Place(c, f)] = l.prior[Place(c, f)]
        BY <2>2, <3>0, <3>2, <1>0, <1>6, <1>7, <1>8
      <4>2. CASE \A d \in D : f =< d
        <5>1. f =< n + 1
          BY <4>2, <3>0, <1>3
        <5> QED BY <4>2, <5>1
      <4>3. CASE \E d \in D : Follows(D, d, f) /\ l.prior[Place(c, f)] = Place(c, d)
        <5>1. PICK d \in D : Follows(D, d, f) /\ l.prior[Place(c, f)] = Place(c, d)
          BY <4>3
        <5>2. d # n
          <6>1. SUFFICES ASSUME d = n PROVE FALSE
            OBVIOUS
          <6>2. ~\A g \in D : g =< n
            BY <6>1, <5>1, <3>0, <1>0 DEF Follows
          <6>3. PICK r \in D : Follows(D, n, r) /\ l.next[loc] = Place(c, r)
            BY <6>2, <1>1
          <6>4. r = f
            BY <6>1, <6>3, <5>1, <3>0, <1>0 DEF Follows
          <6> QED BY <6>2, <6>3, <6>4, <3>2, <1>1
        <5>3. d \in D1 /\ Follows(D1, d, f)
          BY <5>1, <5>2, <3>0, <1>0, <1>3 DEF Follows
        <5> QED BY <5>1, <5>3, <4>1
      <4> QED BY <4>2, <4>3, <3>0 DEF Rep, LinkedDown
    <3> QED BY <3>1, <3>2
  <2> QED BY <2>1, <2>2
<1>13. HasHead(m, c, D1)
  <2>1. PICK h \in D : l.head = Place(c, h) /\ \A f \in D : h =< f
    BY DEF Rep, HasHead
  <2>2. CASE h = n
    <3>1. m.head = Place(c, n + 1) /\ \A f \in D1 : n + 1 =< f
      BY <2>1, <2>2, <1>0, <1>3, <1>6, <1>7 DEF loc, i
    <3> QED BY <3>1 DEF HasHead
  <2>3. CASE h # n
    <3>1. h \in D1 /\ m.head = Place(c, h) /\ \A f \in D1 : h =< f
      BY <2>1, <2>3, <1>0, <1>3, <1>6, <1>7, <1>8
    <3> QED BY <3>1 DEF HasHead
  <2> QED BY <2>2, <2>3
<1>14. HasTail(m, c, D1)
  <2>1. PICK t \in D : l.tail = Place(c, t) /\ \A f \in D : f =< t
    BY DEF Rep, HasTail
  <2>2. CASE t = n
    <3>1. m.tail = Place(c, n + 1) /\ \A f \in D1 : f =< n + 1
      BY <2>1, <2>2, <1>0, <1>3, <1>6, <1>7 DEF loc, i
    <3> QED BY <3>1 DEF HasTail
  <2>3. CASE t # n
    <3>1. t \in D1 /\ m.tail = Place(c, t) /\ \A f \in D1 : f =< t
      BY <2>1, <2>3, <1>0, <1>3, <1>6, <1>7, <1>8
    <3> QED BY <3>1 DEF HasTail
  <2> QED BY <2>2, <2>3
<1>15. Numbers(D1, e1) = Numbers(D, e) \ {n}
  <2>1. ASSUME NEW k \in Offsets
        PROVE  (\E d \in D1 : d =< k /\ k =< e1[d])
                 <=> (\E d \in D : d =< k /\ k =< e[d]) /\ k # n
    <3>1. k \in Int
      BY <1>0
    <3>2. ASSUME NEW d \in D1, d =< k, k =< e1[d]
          PROVE  (\E f \in D : f =< k /\ k =< e[f]) /\ k # n
      <4>1. CASE d = n + 1
        BY <4>1, <3>1, <3>2, <1>3, <1>9
      <4>2. CASE d # n + 1
        BY <4>2, <3>1, <3>2, <1>0, <1>3, <1>9
      <4> QED BY <4>1, <4>2
    <3>3. ASSUME NEW d \in D, d =< k, k =< e[d], k # n
          PROVE  \E f \in D1 : f =< k /\ k =< e1[f]
      <4>1. CASE d = n
        <5>1. n + 1 =< k /\ k =< e1[n + 1]
          BY <4>1, <3>1, <3>3, <1>3, <1>9
        <5> QED BY <5>1
      <4>2. CASE d # n
        BY <4>2, <3>3, <1>9
      <4> QED BY <4>1, <4>2
    <3> QED BY <3>2, <3>3
  <2> QED BY <2>1 DEF Numbers
<1>16. Cardinality(Numbers(D1, e1)) = Cardinality(Numbers(D, e)) - 1
  <2>1. n \in Numbers(D, e)
    BY EmptyOrNot
  <2> HIDE DEF D1
  <2> QED BY <2>1, <1>15, OneNumberLess
<1>17. Apart(D1, e1)
  <2>1. ASSUME NEW d \in D1 PROVE d =< e1[d]
    BY <1>0, <1>3, <1>9
  <2>2. ASSUME NEW d \in D1, NEW f \in D1, d < f PROVE e1[d] < f
    <3>1. CASE d = n + 1
      <4>1. f \in D /\ f # n /\ f \in Int
        BY <3>1, <2>2, <1>0, <1>3
      <4> QED BY <3>1, <4>1, <2>2, <1>0, <1>3, <1>9
    <3>2. CASE d # n + 1 /\ f = n + 1
      BY <3>2, <2>2, <1>0, <1>3, <1>9
    <3>3. CASE d # n + 1 /\ f # n + 1
      BY <3>3, <2>2, <1>0, <1>9
    <3> QED BY <3>1, <3>2, <3>3
  <2> QED BY <2>1, <2>2 DEF Apart
<1>18. LinkedUp(m, c, D1) /\ LinkedDown(m, c, D1)
  BY <1>11, <1>12 DEF LinkedUp, LinkedDown
<1>19. Rep(m, b, c, D1, e1)
  <2>1. m.length = Cardinality(Numbers(D1, e1))
    BY <1>7, <1>16 DEF Rep
  <2> QED BY <2>1, <1>0, <1>7, <1>9, <1>10, <1>13, <1>14, <1>17, <1>18 DEF Rep
<1> QED BY <1>15, <1>19 DEF m, u, loc

\* The last of several numbers is taken out.
LEMMA CutRep ==
  ASSUME NEW l, NEW b \in SeqNos, NEW c, NEW D, NEW e, Rep(l, b, c, D, e),
         NEW s \in D, NEW n \in Offsets, e[s] = n, s < n
  PROVE  \E D1, e1 : /\ Rep(Shortened(CutAt(l, Place(c, s), Shift(b, n))), b, c, D1, e1)
                     /\ Numbers(D1, e1) = Numbers(D, e) \ {n}
<1> DEFINE i == Place(c, s)
           e1 == [e EXCEPT ![s] = n - 1]
           u == CutAt(l, i, Shift(b, n))
           m == Shortened(u)
<1>0. /\ D \subseteq Nodes /\ D \subseteq Int /\ c \in Nodes /\ D \subseteq Offsets
      /\ \A d \in Nodes : Place(c, d) \in Nodes
      /\ \A d, f \in Nodes : Place(c, d) = Place(c, f) => d = f
      /\ Unset \notin Nodes /\ l \in ListType
      /\ \A d \in D : e[d] \in Int /\ d =< e[d] /\ e[d] \in Offsets
      /\ \A d, f \in D : d < f => e[d] < f
      /\ Offsets \subseteq Int /\ Offsets \subseteq Nodes
  BY RepFacts
<1>1. /\ s \in Int /\ n \in Int /\ n - 1 \in Offsets /\ s =< n - 1
      /\ s \in 0 .. RcvWindow /\ n \in 0 .. RcvWindow /\ s + 1 \in 0 .. RcvWindow
  <2>1. s \in Offsets
    BY <1>0
  <2> QED BY <2>1, RcvLossListAssumption DEF Offsets
<1>2. /\ i \in Nodes /\ Shift(b, n) \in Int
      /\ l.data1[i] = Shift(b, s)
      /\ decseq(Shift(b, n)) = Shift(b, n - 1)
      /\ Shift(b, n) = incseq(l.data1[i]) <=> n = s + 1
  <2>1. l.data1[i] = Shift(b, s)
    BY DEF Rep, Filled
  <2>2. incseq(l.data1[i]) = Shift(b, s + 1) /\ decseq(Shift(b, n)) = Shift(b, n - 1)
    BY <2>1, <1>1, Along
  <2>3. Shift(b, n) \in Int
    BY <1>1, WindowFacts, RcvLossListAssumption DEF SeqNos
  <2> QED BY <2>1, <2>2, <2>3, <1>0, <1>1, WindowFacts
<1>3. /\ u \in ListType
      /\ u.data2 = [l.data2 EXCEPT ![i] = IF Shift(b, n) = incseq(l.data1[i])
                                          THEN Unset ELSE decseq(Shift(b, n))]
      /\ u.data1 = l.data1 /\ u.next = l.next /\ u.prior = l.prior
      /\ u.head = l.head /\ u.tail = l.tail /\ u.length = l.length
  <2> DEFINE seq == Shift(b, n)
  <2> HIDE DEF i, seq
  <2>1. l \in ListType /\ i \in Nodes /\ seq \in Int /\ u = CutAt(l, i, seq)
    BY <1>0, <1>2 DEF seq, u
  <2> HIDE DEF u
  <2>2. /\ u \in ListType
        /\ u.data2 = [l.data2 EXCEPT ![i] = IF seq = incseq(l.data1[i])
                                            THEN Unset ELSE decseq(seq)]
        /\ u.data1 = l.data1 /\ u.next = l.next /\ u.prior = l.prior
        /\ u.head = l.head /\ u.tail = l.tail /\ u.length = l.length
    BY <2>1, CutAtFields
  <2> QED BY <2>2 DEF seq
<1>4. /\ m \in ListType /\ m.length = l.length - 1
      /\ m.data1 = u.data1 /\ m.data2 = u.data2 /\ m.next = u.next
      /\ m.prior = u.prior /\ m.head = u.head /\ m.tail = u.tail
  BY <1>3, ShortenedFields
<1> HIDE DEF m, u, i, e1
<1>5. e1 \in [Offsets -> Offsets] /\ \A d \in D : e1[d] = IF d = s THEN n - 1 ELSE e[d]
  BY <1>0, <1>1 DEF Rep, e1
<1>6. \A k \in Nodes : /\ m.data1[Place(c, k)] = l.data1[Place(c, k)]
                       /\ k # s => m.data2[Place(c, k)] = l.data2[Place(c, k)]
                       /\ k = s => m.data2[Place(c, k)] =
                                     IF n = s + 1 THEN Unset ELSE Shift(b, n - 1)
  <2>1. l.data2 \in [Nodes -> Int]
    BY <1>0 DEF ListType
  <2>2. \A k \in Nodes : Place(c, k) = i <=> k = s
    BY <1>0 DEF i
  <2> QED BY <2>1, <2>2, <1>0, <1>2, <1>3, <1>4
<1>7. Filled(m, b, c, D, e1)
  <2>1. ASSUME NEW d \in D
        PROVE  /\ m.data1[Place(c, d)] = Shift(b, d)
               /\ m.data2[Place(c, d)] = IF e1[d] = d THEN Unset ELSE Shift(b, e1[d])
    <3>0. d \in Nodes /\ l.data1[Place(c, d)] = Shift(b, d)
          /\ l.data2[Place(c, d)] = IF e[d] = d THEN Unset ELSE Shift(b, e[d])
      BY <1>0 DEF Rep, Filled
    <3>1. CASE d = s
      BY <3>0, <3>1, <1>1, <1>5, <1>6
    <3>2. CASE d # s
      BY <3>0, <3>2, <1>5, <1>6
    <3> QED BY <3>1, <3>2
  <2>2. ASSUME NEW k \in Nodes \ D
        PROVE  m.data1[Place(c, k)] = Unset /\ m.data2[Place(c, k)] = Unset
    BY <1>6 DEF Rep, Filled
  <2> QED BY <2>1, <2>2 DEF Filled
<1>8. /\ LinkedUp(m, c, D) /\ LinkedDown(m, c, D)
      /\ HasHead(m, c, D) /\ HasTail(m, c, D)
  BY <1>3, <1>4 DEF Rep, LinkedUp, LinkedDown, HasHead, HasTail
<1>9. Apart(D, e1)
  BY <1>0, <1>1, <1>5 DEF Apart
<1>10. Numbers(D, e1) = Numbers(D, e) \ {n}
  <2>1. ASSUME NEW k \in Offsets
        PROVE  (\E d \in D : d =< k /\ k =< e1[d])
                 <=> (\E d \in D : d =< k /\ k =< e[d]) /\ k # n
    <3>1. k \in Int
      BY <1>0
    <3>2. ASSUME NEW d \in D, d =< k, k =< e1[d]
          PROVE  k =< e[d] /\ k # n
      <4>1. CASE d = s
        BY <4>1, <3>1, <3>2, <1>1, <1>5
      <4>2. CASE d # s
        BY <4>2, <3>1, <3>2, <1>0, <1>1, <1>5
      <4> QED BY <4>1, <4>2
    <3>3. ASSUME NEW d \in D, d =< k, k =< e[d], k # n
          PROVE  k =< e1[d]
      <4>1. CASE d = s
        BY <4>1, <3>1, <3>3, <1>1, <1>5
      <4>2. CASE d # s
        BY <4>2, <3>3, <1>5
      <4> QED BY <4>1, <4>2
    <3> QED BY <3>2, <3>3
  <2> QED BY <2>1 DEF Numbers
<1>11. Cardinality(Numbers(D, e1)) = Cardinality(Numbers(D, e)) - 1
  <2>1. n \in Numbers(D, e)
    BY EmptyOrNot
  <2> QED BY <2>1, <1>10, OneNumberLess
<1>12. Rep(m, b, c, D, e1)
  <2>1. m.length = Cardinality(Numbers(D, e1))
    BY <1>4, <1>3, <1>11 DEF Rep
  <2> QED BY <2>1, <1>0, <1>4, <1>5, <1>7, <1>8, <1>9 DEF Rep
<1> QED BY <1>10, <1>12 DEF m, u, i

\* A number in the middle is taken out.
LEMMA SplitRep ==
  ASSUME NEW l, NEW b \in SeqNos, NEW c, NEW D, NEW e, Rep(l, b, c, D, e),
         NEW s \in D, NEW n \in Offsets, s < n, n < e[s]
  PROVE  \E D1, e1 :
           /\ Rep(Shortened(Split(l, Place(c, s), Shift(b, n), Place(c, n))), b, c, D1, e1)
           /\ Numbers(D1, e1) = Numbers(D, e) \ {n}
<1> DEFINE i == Place(c, s)
           rest == Place(c, n + 1)
           D1 == D \cup {n + 1}
           e1 == [e EXCEPT ![s] = n - 1, ![n + 1] = e[s]]
           u == Split(l, i, Shift(b, n), Place(c, n))
           m == Shortened(u)
<1>0. /\ D \subseteq Nodes /\ D \subseteq Int /\ c \in Nodes /\ D \subseteq Offsets
      /\ \A d \in Nodes : Place(c, d) \in Nodes
      /\ \A d, f \in Nodes : Place(c, d) = Place(c, f) => d = f
      /\ Unset \notin Nodes /\ l \in ListType
      /\ \A d \in D : e[d] \in Int /\ d =< e[d] /\ e[d] \in Offsets
      /\ \A d, f \in D : d < f => e[d] < f
      /\ Offsets \subseteq Int /\ Offsets \subseteq Nodes
  BY RepFacts
<1>1. /\ i \in Nodes
      /\ l.tail = i <=> \A f \in D : f =< s
      /\ \/ l.tail = i /\ l.next[i] = Unset
         \/ /\ l.tail # i /\ l.next[i] # Unset
            /\ \E r \in D : Follows(D, s, r) /\ l.next[i] = Place(c, r)
  <2>1. NodeLinked(l, c, D, s)
    BY LinkFacts
  <2> QED BY <2>1 DEF NodeLinked
<1>2. l.tail # i => l.next[i] \in Nodes
  BY <1>0, <1>1
<1>3. /\ s \in Int /\ n \in Int /\ n + 1 \in Offsets /\ n - 1 \in Offsets /\ n + 1 \in Nodes
      /\ n \in 0 .. RcvWindow /\ s + 1 \in 0 .. RcvWindow /\ n + 1 \in 0 .. RcvWindow
      /\ s \in 0 .. RcvWindow /\ e[s] \in 0 .. RcvWindow
      /\ n + 1 \notin D /\ n \notin D /\ n + 1 =< e[s]
      /\ \A f \in D : f > s => f > n + 1
  <2>1. s \in Int /\ n \in Int /\ e[s] \in Offsets /\ s \in Offsets /\ e[s] \in Int
    BY <1>0
  <2>2. n + 1 \in Offsets /\ n - 1 \in Offsets /\ n \in 0 .. RcvWindow
        /\ s + 1 \in 0 .. RcvWindow /\ n + 1 \in 0 .. RcvWindow /\ s \in 0 .. RcvWindow
        /\ e[s] \in 0 .. RcvWindow
    BY <2>1, RcvLossListAssumption DEF Offsets
  <2>3. \A f \in D : f > s => f > n + 1
    BY <2>1, <1>0
  <2> QED BY <2>1, <2>2, <2>3, <1>0
<1>4. rest \in Nodes /\ rest # i /\ rest = NodeAfter(Place(c, n), 1) /\ Place(c, n) \in Nodes
  <2>1. n \in Nodes /\ n + 1 < RcvSize /\ s \in Nodes
    BY <1>0, <1>3, RcvLossListAssumption DEF Nodes
  <2>2. NodeAfter(Place(c, n), 1) = Place(c, n + 1)
    BY <2>1, <1>0, Neighbourhood
  <2> QED BY <2>1, <2>2, <1>0, <1>3
<1>5. /\ l.data1[i] = Shift(b, s) /\ l.data2[i] = Shift(b, e[s])
      /\ incseq(Shift(b, n)) = Shift(b, n + 1)
      /\ decseq(Shift(b, n)) = Shift(b, n - 1)
      /\ Shift(b, n) = incseq(l.data1[i]) <=> n = s + 1
      /\ l.data2[i] = incseq(Shift(b, n)) <=> e[s] = n + 1
      /\ l.data2[rest] = Unset /\ Shift(b, n) \in Int
  <2>1. l.data1[i] = Shift(b, s) /\ l.data2[i] = Shift(b, e[s])
    BY <1>0, <1>3 DEF Rep, Filled
  <2>2. l.data2[rest] = Unset
    BY <1>3 DEF Rep, Filled
  <2>3. /\ incseq(l.data1[i]) = Shift(b, s + 1)
        /\ incseq(Shift(b, n)) = Shift(b, n + 1)
        /\ decseq(Shift(b, n)) = Shift(b, n - 1)
    BY <2>1, <1>3, Along
  <2>4. Shift(b, n) \in Int
    BY <1>3, WindowFacts, RcvLossListAssumption DEF SeqNos
  <2> QED BY <2>1, <2>2, <2>3, <2>4, <1>3, WindowFacts
<1>6. /\ u \in ListType
      /\ u.data1 = [l.data1 EXCEPT ![rest] = incseq(Shift(b, n))]
      /\ u.data2 = [k \in Nodes |->
           IF k = i THEN IF Shift(b, n) = incseq(l.data1[i]) THEN Unset ELSE decseq(Shift(b, n))
           ELSE IF k = rest /\ l.data2[i] # incseq(Shift(b, n))
           THEN l.data2[i] ELSE l.data2[k]]
      /\ u.next = [k \in Nodes |->
           IF k = i THEN rest ELSE IF k = rest THEN l.next[i] ELSE l.next[k]]
      /\ u.prior = [k \in Nodes |->
           IF l.tail # i /\ k = l.next[i] THEN rest
           ELSE IF k = rest THEN i ELSE l.prior[k]]
      /\ u.head = l.head
      /\ u.tail = IF l.tail = i THEN rest ELSE l.tail
      /\ u.length = l.length
  <2> DEFINE seq == Shift(b, n)
             loc == Place(c, n)
  <2> HIDE DEF i, rest, seq, loc
  <2>1. /\ l \in ListType /\ i \in Nodes /\ seq \in Int /\ loc \in Nodes /\ rest \in Nodes
        /\ rest = NodeAfter(loc, 1) /\ rest # i
        /\ l.tail # i => l.next[i] \in Nodes
    BY <1>0, <1>1, <1>2, <1>4, <1>5 DEF seq, loc
  <2>2. u = Split(l, i, seq, loc)
    BY DEF u, seq, loc
  <2> HIDE DEF u
  <2>3. /\ u \in ListType
        /\ u.data1 = [l.data1 EXCEPT ![rest] = incseq(seq)]
        /\ u.data2 = [k \in Nodes |->
             IF k = i THEN IF seq = incseq(l.data1[i]) THEN Unset ELSE decseq(seq)
             ELSE IF k = rest /\ l.data2[i] # incseq(seq)
             THEN l.data2[i] ELSE l.data2[k]]
        /\ u.next = [k \in Nodes |->
             IF k = i THEN rest ELSE IF k = rest THEN l.next[i] ELSE l.next[k]]
        /\ u.prior = [k \in Nodes |->
             IF l.tail # i /\ k = l.next[i] THEN rest
             ELSE IF k = rest THEN i ELSE l.prior[k]]
        /\ u.head = l.head
        /\ u.tail = IF l.tail = i THEN rest ELSE l.tail
        /\ u.length = l.length
    BY <2>1, <2>2, SplitFields
  <2> QED BY <2>3 DEF seq
<1>7. /\ m \in ListType /\ m.length = l.length - 1
      /\ m.data1 = u.data1 /\ m.data2 = u.data2 /\ m.next = u.next
      /\ m.prior = u.prior /\ m.head = u.head /\ m.tail = u.tail
  BY <1>6, ShortenedFields
<1> HIDE DEF m, u, i, rest, e1
<1>8. \A k \in Nodes : /\ Place(c, k) = i <=> k = s
                       /\ Place(c, k) = rest <=> k = n + 1
  BY <1>0, <1>3 DEF i, rest
<1>9. /\ e1 \in [Offsets -> Offsets] /\ e1[n + 1] = e[s] /\ e1[s] = n - 1
      /\ \A d \in D : d # s => e1[d] = e[d]
      /\ D1 \subseteq Offsets
  <2>1. e \in [Offsets -> Offsets] /\ s \in Offsets /\ n + 1 # s
    BY <1>0, <1>3 DEF Rep
  <2> QED BY <2>1, <1>0, <1>3 DEF e1
<1>10. Filled(m, b, c, D1, e1)
  <2>0. l.data1 \in [Nodes -> Int]
    BY <1>0 DEF ListType
  <2>1. ASSUME NEW d \in D1
        PROVE  /\ m.data1[Place(c, d)] = Shift(b, d)
               /\ m.data2[Place(c, d)] = IF e1[d] = d THEN Unset ELSE Shift(b, e1[d])
    <3>1. CASE d = n + 1
      <4>1. Place(c, d) = rest /\ rest # i
        BY <3>1, <1>3, <1>4, <1>8
      <4>2. m.data1[rest] = Shift(b, n + 1)
        BY <2>0, <1>4, <1>5, <1>6, <1>7
      <4>3. m.data2[rest] = IF e[s] = n + 1 THEN Unset ELSE Shift(b, e[s])
        BY <4>1, <1>4, <1>5, <1>6, <1>7
      <4> QED BY <3>1, <4>1, <4>2, <4>3, <1>9
    <3>2. CASE d = s
      <4>1. Place(c, d) = i /\ rest # i
        BY <3>2, <1>0, <1>4, <1>8
      <4>2. m.data1[i] = Shift(b, s)
        BY <4>1, <2>0, <1>1, <1>5, <1>6, <1>7
      <4>3. m.data2[i] = IF n = s + 1 THEN Unset ELSE Shift(b, n - 1)
        BY <1>1, <1>5, <1>6, <1>7
      <4> QED BY <3>2, <4>1, <4>2, <4>3, <1>3, <1>9
    <3>3. CASE d # n + 1 /\ d # s
      <4>1. d \in D /\ d \in Nodes
        BY <3>3, <1>0
      <4>2. m.data1[Place(c, d)] = l.data1[Place(c, d)] /\ m.data2[Place(c, d)] = l.data2[Place(c, d)]
        BY <2>0, <3>3, <4>1, <1>0, <1>6, <1>7, <1>8
      <4> QED BY <3>3, <4>1, <4>2, <1>9 DEF Rep, Filled
    <3> QED BY <3>1, <3>2, <3>3
  <2>2. ASSUME NEW k \in Nodes \ D1
        PROVE  m.data1[Place(c, k)] = Unset /\ m.data2[Place(c, k)] = Unset
    <3>1. k \notin D /\ k # n + 1 /\ k # s
      OBVIOUS
    <3>2. m.data1[Place(c, k)] = l.data1[Place(c, k)] /\ m.data2[Place(c, k)] = l.data2[Place(c, k)]
      BY <2>0, <3>1, <1>0, <1>6, <1>7, <1>8
    <3> QED BY <3>1, <3>2 DEF Rep, Filled
  <2> QED BY <2>1, <2>2 DEF Filled
<1>11. ASSUME NEW d \in D1
       PROVE  \/ m.next[Place(c, d)] = Unset /\ \A f \in D1 : f =< d
              \/ \E f \in D1 : Follows(D1, d, f) /\ m.next[Place(c, d)] = Place(c, f)
  <2>1. CASE d = n + 1
    <3>1. m.next[Place(c, d)] = l.next[i]
      BY <2>1, <1>3, <1>4, <1>6, <1>7, <1>8
    <3>2. CASE l.tail = i /\ l.next[i] = Unset
      BY <3>1, <3>2, <2>1, <1>0, <1>1, <1>3
    <3>3. CASE \E r \in D : Follows(D, s, r) /\ l.next[i] = Place(c, r)
      <4>1. PICK r \in D : Follows(D, s, r) /\ l.next[i] = Place(c, r)
        BY <3>3
      <4>2. r \in D1 /\ Follows(D1, d, r)
        BY <4>1, <2>1, <1>0, <1>3 DEF Follows
      <4> QED BY <4>1, <4>2, <3>1
    <3> QED BY <3>2, <3>3, <1>1
  <2>2. CASE d = s
    <3>1. m.next[Place(c, d)] = Place(c, n + 1)
      BY <2>2, <1>0, <1>1, <1>6, <1>7 DEF i, rest
    <3>2. Follows(D1, d, n + 1)
      BY <2>2, <1>0, <1>3 DEF Follows
    <3> QED BY <3>1, <3>2
  <2>3. CASE d # n + 1 /\ d # s
    <3>0. d \in D /\ d \in Nodes /\ d \in Int
      BY <2>3, <1>0
    <3>1. m.next[Place(c, d)] = l.next[Place(c, d)]
      BY <2>3, <3>0, <1>0, <1>6, <1>7, <1>8
    <3>2. CASE l.next[Place(c, d)] = Unset /\ \A f \in D : f =< d
      <4>1. n + 1 =< d
        BY <3>2, <3>0, <2>3, <1>0, <1>3
      <4> QED BY <3>1, <3>2, <4>1
    <3>3. CASE \E f \in D : Follows(D, d, f) /\ l.next[Place(c, d)] = Place(c, f)
      <4>1. PICK f \in D : Follows(D, d, f) /\ l.next[Place(c, d)] = Place(c, f)
        BY <3>3
      <4>2. Follows(D1, d, f)
        BY <4>1, <3>0, <2>3, <1>0, <1>3 DEF Follows
      <4> QED BY <4>1, <4>2, <3>1
    <3> QED BY <3>2, <3>3, <3>0 DEF Rep, LinkedUp
  <2> QED BY <2>1, <2>2, <2>3
<1>12. ASSUME NEW f \in D1
       PROVE  \/ \A d \in D1 : f =< d
              \/ \E d \in D1 : Follows(D1, d, f) /\ m.prior[Place(c, f)] = Place(c, d)
  <2>1. CASE f = n + 1
    <3>1. Place(c, f) = rest /\ rest \in Nodes
      BY <2>1, <1>3, <1>4, <1>8
    <3>2. l.tail # i => rest # l.next[i]
      BY <1>0, <1>1, <1>3, <1>8 DEF Follows
    <3>3. m.prior[Place(c, f)] = Place(c, s)
      BY <3>1, <3>2, <1>6, <1>7 DEF i
    <3>4. s \in D1 /\ Follows(D1, s, f)
      BY <2>1, <1>0, <1>3 DEF Follows
    <3> QED BY <3>3, <3>4
  <2>2. CASE f # n + 1
    <3>0. f \in D /\ f \in Nodes /\ f \in Int
      BY <2>2, <1>0
    <3>1. CASE l.tail # i /\ Place(c, f) = l.next[i]
      <4>1. Follows(D, s, f)
        BY <3>0, <3>1, <1>0, <1>1
      <4>2. m.prior[Place(c, f)] = Place(c, n + 1)
        BY <3>0, <3>1, <1>0, <1>6, <1>7 DEF rest
      <4>3. Follows(D1, n + 1, f)
        BY <4>1, <3>0, <1>0, <1>3 DEF Follows
      <4> QED BY <4>2, <4>3
    <3>2. CASE ~(l.tail # i /\ Place(c, f) = l.next[i])
      <4>1. m.prior[Place(c, f)] = l.prior[Place(c, f)]
        BY <2>2, <3>0, <3>2, <1>0, <1>6, <1>7, <1>8
      <4>2. CASE \A d \in D : f =< d
        <5>1. f =< n + 1
          BY <4>2, <3>0, <1>0, <1>3
        <5> QED BY <4>2, <5>1
      <4>3. CASE \E d \in D : Follows(D, d, f) /\ l.prior[Place(c, f)] = Place(c, d)
        <5>1. PICK d \in D : Follows(D, d, f) /\ l.prior[Place(c, f)] = Place(c, d)
          BY <4>3
        <5>2. d # s
          <6>1. SUFFICES ASSUME d = s PROVE FALSE
            OBVIOUS
          <6>2. ~\A g \in D : g =< s
            BY <6>1, <5>1, <3>0, <1>0, <1>3 DEF Follows
          <6>3. PICK r \in D : Follows(D, s, r) /\ l.next[i] = Place(c, r)
            BY <6>2, <1>1
          <6>4. r = f
            BY <6>1, <6>3, <5>1, <3>0, <1>0 DEF Follows
          <6> QED BY <6>2, <6>3, <6>4, <3>2, <1>1
        <5>3. d \in D1 /\ Follows(D1, d, f)
          BY <5>1, <5>2, <3>0, <1>0, <1>3 DEF Follows
        <5> QED BY <5>1, <5>3, <4>1
      <4> QED BY <4>2, <4>3, <3>0 DEF Rep, LinkedDown
    <3> QED BY <3>1, <3>2
  <2> QED BY <2>1, <2>2
<1>13. HasHead(m, c, D1)
  <2>1. PICK h \in D : l.head = Place(c, h) /\ \A f \in D : h =< f
    BY DEF Rep, HasHead
  <2>2. h \in D1 /\ m.head = Place(c, h) /\ \A f \in D1 : h =< f
    BY <2>1, <1>0, <1>3, <1>6, <1>7
  <2> QED BY <2>2 DEF HasHead
<1>14. HasTail(m, c, D1)
  <2>1. PICK t \in D : l.tail = Place(c, t) /\ \A f \in D : f =< t
    BY DEF Rep, HasTail
  <2>2. CASE t = s
    <3>1. m.tail = Place(c, n + 1) /\ \A f \in D1 : f =< n + 1
      BY <2>1, <2>2, <1>0, <1>3, <1>6, <1>7 DEF i, rest
    <3> QED BY <3>1 DEF HasTail
  <2>3. CASE t # s
    <3>1. t \in D1 /\ m.tail = Place(c, t) /\ \A f \in D1 : f =< t
      BY <2>1, <2>3, <1>0, <1>3, <1>6, <1>7, <1>8
    <3> QED BY <3>1 DEF HasTail
  <2> QED BY <2>2, <2>3
<1>15. Numbers(D1, e1) = Numbers(D, e) \ {n}
  <2>1. ASSUME NEW k \in Offsets
        PROVE  (\E d \in D1 : d =< k /\ k =< e1[d])
                 <=> (\E d \in D : d =< k /\ k =< e[d]) /\ k # n
    <3>1. k \in Int
      BY <1>0
    <3>2. ASSUME NEW d \in D1, d =< k, k =< e1[d]
          PROVE  (\E f \in D : f =< k /\ k =< e[f]) /\ k # n
      <4>1. CASE d = n + 1
        <5>1. s =< k /\ k =< e[s] /\ k # n
          BY <4>1, <3>1, <3>2, <1>3, <1>9
        <5> QED BY <5>1
      <4>2. CASE d = s
        <5>1. s =< k /\ k =< e[s] /\ k # n
          BY <4>2, <3>1, <3>2, <1>0, <1>3, <1>9
        <5> QED BY <5>1
      <4>3. CASE d # n + 1 /\ d # s
        <5>1. d \in D /\ d =< k /\ k =< e[d] /\ d \in Int /\ e[d] \in Int
          BY <4>3, <3>2, <1>0, <1>9
        <5>2. k # n
          <6>1. CASE d < s
            BY <6>1, <5>1, <3>1, <1>0, <1>3
          <6>2. CASE d > s
            BY <6>2, <5>1, <3>1, <1>3
          <6> QED BY <6>1, <6>2, <5>1, <4>3, <1>3
        <5> QED BY <5>1, <5>2
      <4> QED BY <4>1, <4>2, <4>3
    <3>3. ASSUME NEW d \in D, d =< k, k =< e[d], k # n
          PROVE  \E f \in D1 : f =< k /\ k =< e1[f]
      <4>1. CASE d = s /\ k > n
        <5>1. n + 1 =< k /\ k =< e1[n + 1]
          BY <4>1, <3>1, <3>3, <1>3, <1>9
        <5> QED BY <5>1
      <4>2. CASE d = s /\ ~(k > n)
        <5>1. s =< k /\ k =< e1[s]
          BY <4>2, <3>1, <3>3, <1>3, <1>9
        <5> QED BY <5>1
      <4>3. CASE d # s
        BY <4>3, <3>3, <1>9
      <4> QED BY <4>1, <4>2, <4>3
    <3> QED BY <3>2, <3>3
  <2> QED BY <2>1 DEF Numbers
<1>16. Cardinality(Numbers(D1, e1)) = Cardinality(Numbers(D, e)) - 1
  <2>1. n \in Numbers(D, e)
    BY <1>0, <1>3 DEF Numbers
  <2> HIDE DEF D1
  <2> QED BY <2>1, <1>15, OneNumberLess
<1>17. Apart(D1, e1)
  <2>1. ASSUME NEW d \in D1 PROVE d =< e1[d]
    BY <1>0, <1>3, <1>9
  <2>2. ASSUME NEW d \in D1, NEW f \in D1, d < f PROVE e1[d] < f
    <3>1. CASE d = n + 1
      <4>1. f \in D /\ f # s /\ f \in Int
        BY <3>1, <2>2, <1>0, <1>3
      <4> QED BY <3>1, <4>1, <2>2, <1>0, <1>3, <1>9
    <3>2. CASE d = s
      BY <3>2, <2>2, <1>0, <1>3, <1>9
    <3>3. CASE d # n + 1 /\ d # s /\ f = n + 1
      BY <3>3, <2>2, <1>0, <1>3, <1>9
    <3>4. CASE d # n + 1 /\ d # s /\ f # n + 1
      BY <3>4, <2>2, <1>0, <1>9
    <3> QED BY <3>1, <3>2, <3>3, <3>4
  <2> QED BY <2>1, <2>2 DEF Apart
<1>18. LinkedUp(m, c, D1) /\ LinkedDown(m, c, D1)
  BY <1>11, <1>12 DEF LinkedUp, LinkedDown
<1>19. Rep(m, b, c, D1, e1)
  <2>1. m.length = Cardinality(Numbers(D1, e1))
    BY <1>7, <1>16 DEF Rep
  <2> QED BY <2>1, <1>0, <1>7, <1>9, <1>10, <1>13, <1>14, <1>17, <1>18 DEF Rep
<1> QED BY <1>15, <1>19 DEF m, u, i

\* The node that UsedBefore finds.
LEMMA UsedBeforeIs ==
  ASSUME NEW l, NEW b \in SeqNos, NEW c, NEW D, NEW e, Rep(l, b, c, D, e),
         NEW n \in Offsets, n \notin D,
         NEW s \in D, s < n, \A g \in D : g =< s \/ n =< g
  PROVE  UsedBefore(l, Place(c, n)) = Place(c, s)
<1> DEFINE i == Place(c, n)
           P(k) == /\ l.data1[NodeBefore(i, k)] # Unset
                   /\ \A m \in 1 .. k - 1 : l.data1[NodeBefore(i, m)] = Unset
<1>0. /\ D \subseteq Nodes /\ D \subseteq Int /\ c \in Nodes /\ D \subseteq Offsets
      /\ Offsets \subseteq Int /\ Offsets \subseteq Nodes
  BY RepFacts
<1>1. /\ n \in Nodes /\ n \in Int /\ s \in Int /\ s >= 0 /\ n < RcvSize /\ n - s \in 1 .. RcvSize
      /\ n - s \in Nat /\ RcvSize \in Nat
  <2>1. n \in Nodes /\ n \in Int /\ s \in Int /\ s \in Nodes
    BY <1>0
  <2> QED BY <2>1, RcvLossListAssumption DEF Nodes
<1>2. ASSUME NEW k \in 1 .. n PROVE NodeBefore(i, k) = Place(c, n - k) /\ n - k \in Nodes
  <2>1. k \in Nat /\ k =< n /\ n - k \in Nodes
    BY <1>1 DEF Nodes
  <2> QED BY <2>1, <1>0, <1>1, Neighbourhood
<1>3. l.data1[NodeBefore(i, n - s)] # Unset
  <2>1. n - s \in 1 .. n /\ n - (n - s) = s
    BY <1>1
  <2>2. NodeBefore(i, n - s) = Place(c, s)
    BY <2>1, <1>2
  <2>3. s \in 0 .. RcvWindow
    BY <1>0, RcvLossListAssumption DEF Offsets
  <2>4. Shift(b, s) # Unset
    BY <2>3, WindowFacts, RcvLossListAssumption
  <2> QED BY <2>2, <2>4 DEF Rep, Filled
<1>4. ASSUME NEW k \in 1 .. n - s - 1 PROVE l.data1[NodeBefore(i, k)] = Unset
  <2>1. k \in 1 .. n /\ n - k > s /\ n - k < n
    BY <1>1
  <2>2. n - k \notin D
    BY <2>1, <1>0, <1>1
  <2>3. NodeBefore(i, k) = Place(c, n - k) /\ n - k \in Nodes
    BY <2>1, <1>2
  <2> QED BY <2>2, <2>3 DEF Rep, Filled
<1>5. \E k \in 1 .. RcvSize : P(k)
  BY <1>1, <1>3, <1>4
<1>6. ASSUME NEW k \in 1 .. RcvSize, P(k) PROVE k = n - s
  <2>1. ~(k < n - s)
    BY <1>1, <1>4, <1>6
  <2>2. ~(k > n - s)
    BY <1>1, <1>3, <1>6
  <2> QED BY <2>1, <2>2, <1>1
<1> DEFINE K == CHOOSE k \in 1 .. RcvSize : P(k)
<1>7. K \in 1 .. RcvSize /\ P(K)
  <2> HIDE DEF P
  <2> QED BY <1>5
<1>8. K = n - s
  <2> HIDE DEF P, K
  <2> QED BY <1>6, <1>7
<1>9. UsedBefore(l, i) = NodeBefore(i, K)
  BY DEF UsedBefore
<1>10. NodeBefore(i, n - s) = Place(c, s)
  <2>1. n - s \in 1 .. n /\ n - (n - s) = s
    BY <1>1
  <2> QED BY <2>1, <1>2
<1> QED
  <2> HIDE DEF K
  <2> QED BY <1>8, <1>9, <1>10

\* CRcvLossList::remove (list.cpp) takes out the number it is given and nothing
\* else, whichever way it goes: the node leaves the list, moves on by a place,
\* ends earlier or is split.
THEOREM RemoveTakesOne ==
  ASSUME NEW l, NEW b \in SeqNos, NEW c, NEW D, NEW e, Rep(l, b, c, D, e),
         NEW n \in Offsets
  PROVE  \E D1, e1 : /\ Rep(Removed(l, Shift(b, n)), b, c, D1, e1)
                     /\ Numbers(D1, e1) = Numbers(D, e) \ {n}
<1> DEFINE seq == Shift(b, n)
           m == Removed(l, seq)
<1>0. /\ D \subseteq Nodes /\ D \subseteq Int /\ c \in Nodes /\ D \subseteq Offsets
      /\ Unset \notin Nodes /\ l \in ListType
      /\ \A d \in D : e[d] \in Int /\ d =< e[d] /\ e[d] \in Offsets
      /\ \A d, f \in D : d < f => e[d] < f
      /\ Offsets \subseteq Int /\ Offsets \subseteq Nodes
  BY RepFacts
<1>1. ASSUME m = l, n \notin Numbers(D, e)
      PROVE  \E D1, e1 : Rep(m, b, c, D1, e1) /\ Numbers(D1, e1) = Numbers(D, e) \ {n}
  <2>1. Numbers(D, e) = Numbers(D, e) \ {n}
    BY <1>1
  <2> QED BY <2>1, <1>1
<1>2. CASE D = {}
  <2>1. l.length = 0
    BY <1>2, EmptyOrNot
  <2>2. m = l
    BY <2>1 DEF Removed
  <2>3. n \notin Numbers(D, e)
    BY <1>2 DEF Numbers
  <2> QED BY <1>1, <2>2, <2>3
<1>3. CASE D # {}
  <2>1. l.length # 0
    BY <1>3, EmptyOrNot
  <2>0. PICK h \in D : First(l, b, c, D, e, h)
    BY <1>3, HeadFacts
  <2>2. /\ l.head = Place(c, h) /\ \A f \in D : h =< f
        /\ l.data1[l.head] = Shift(b, h)
        /\ h \in Numbers(D, e) /\ \A k \in Numbers(D, e) : h =< k
    BY <2>0 DEF First
  <2>3. /\ n \in Int /\ h \in Int /\ 0 =< h /\ h < SeqNoTH /\ 0 =< n /\ n < SeqNoTH
        /\ n \in 0 .. RcvWindow /\ h \in 0 .. RcvWindow /\ n \in Nodes /\ h \in Nodes
        /\ n < RcvSize /\ SeqNoTH \in Int
    <3>1. h \in Offsets /\ h \in Nodes /\ n \in Nodes
      BY <1>0
    <3> QED BY <3>1, RcvLossListAssumption, SeqNoAssumption DEF Offsets, Nodes
  <2>4. seqoff(l.data1[l.head], seq) = n - h
    <3>1. Shift(b, h) \in SeqNos
      BY <2>3, WindowFacts, RcvLossListAssumption
    <3>2. n - h \in Int /\ -SeqNoTH < n - h /\ n - h < SeqNoTH /\ h + (n - h) = n
          /\ -SeqNoTH < h /\ -SeqNoTH < n
      BY <2>3
    <3>3. Shift(Shift(b, h), n - h) = Shift(b, h + (n - h))
      BY <2>3, <3>2, ShiftsAdd
    <3>4. seqoff(Shift(b, h), Shift(Shift(b, h), n - h)) = n - h
      BY <3>1, <3>2, OffsetIsDistance
    <3> QED BY <2>2, <3>2, <3>3, <3>4
  <2>5. CASE n < h
    <3>1. m = l
      BY <2>1, <2>4, <2>5, <2>3 DEF Removed
    <3>2. n \notin Numbers(D, e)
      BY <2>2, <2>3, <2>5
    <3> QED BY <1>1, <3>1, <3>2
  <2>6. CASE n >= h
    <3> DEFINE loc == Place(c, n)
               i == UsedBefore(l, loc)
    <3>1. NodeAfter(l.head, n - h) = loc
      <4>1. n - h \in Nat /\ h + (n - h) < RcvSize /\ h + (n - h) = n
        BY <2>3, <2>6
      <4> QED BY <4>1, <2>2, <2>3, <1>0, Neighbourhood
    <3>2. m = IF l.data1[loc] = seq
              THEN Shortened(IF l.data2[loc] = Unset THEN Unlinked(l, loc)
                                                     ELSE Advanced(l, loc))
              ELSE IF l.data2[i] = Unset \/ seqcmp(seq, l.data2[i]) > 0 THEN l
              ELSE IF seq = l.data2[i] THEN Shortened(CutAt(l, i, seq))
              ELSE Shortened(Split(l, i, seq, loc))
      <4>1. ~(n - h < 0)
        BY <2>3, <2>6
      <4> HIDE DEF i, loc, seq
      <4>2. Removed(l, seq) =
              LET offset == n - h
                  loc2 == NodeAfter(l.head, offset)
                  i2 == UsedBefore(l, loc2)
              IN  IF l.data1[loc2] = seq
                  THEN Shortened(IF l.data2[loc2] = Unset THEN Unlinked(l, loc2)
                                                          ELSE Advanced(l, loc2))
                  ELSE IF l.data2[i2] = Unset \/ seqcmp(seq, l.data2[i2]) > 0 THEN l
                  ELSE IF seq = l.data2[i2] THEN Shortened(CutAt(l, i2, seq))
                  ELSE Shortened(Split(l, i2, seq, loc2))
        BY <2>1, <2>4, <4>1 DEF Removed, Shortened
      <4> QED BY <4>2, <3>1 DEF i
    <3>3. seq # Unset
      BY <2>3, WindowFacts, RcvLossListAssumption
    <3>4. CASE n \in D
      <4>1. l.data1[loc] = seq
        BY <3>4 DEF Rep, Filled
      <4>2. l.data2[loc] = IF e[n] = n THEN Unset ELSE Shift(b, e[n])
        BY <3>4 DEF Rep, Filled
      <4>3. CASE e[n] = n
        <5>1. m = Shortened(Unlinked(l, loc))
          BY <3>2, <4>1, <4>2, <4>3
        <5>2. /\ Rep(Shortened(Unlinked(l, loc)), b, c, D \ {n}, e)
              /\ Numbers(D \ {n}, e) = Numbers(D, e) \ {n}
          BY <3>4, <4>3, UnlinkRep
        <5> QED BY <5>1, <5>2
      <4>4. CASE e[n] # n
        <5>1. e[n] \in 0 .. RcvWindow
          BY <3>4, <1>0, RcvLossListAssumption DEF Offsets
        <5>2. Shift(b, e[n]) # Unset
          BY <5>1, WindowFacts, RcvLossListAssumption
        <5>3. m = Shortened(Advanced(l, loc))
          BY <3>2, <4>1, <4>2, <4>4, <5>2
        <5> QED BY <5>3, <3>4, <4>4, AdvanceRep
      <4> QED BY <4>3, <4>4
    <3>5. CASE n \notin D
      <4>1. l.data1[loc] # seq
        BY <3>3, <3>5, <2>3 DEF Rep, Filled
      <4>2. h < n
        BY <2>3, <2>6, <3>5, <2>2
      <4>3. PICK s \in D : s < n /\ \A g \in D : g =< s \/ n =< g
        BY <4>2, <1>0, LastBefore
      <4>4. i = Place(c, s)
        BY <3>5, <4>3, UsedBeforeIs
      <4>5. l.data2[i] = IF e[s] = s THEN Unset ELSE Shift(b, e[s])
        BY <4>4 DEF Rep, Filled
      <4>6. /\ s \in Int /\ e[s] \in Int /\ s =< e[s] /\ e[s] \in 0 .. RcvWindow
            /\ s \in 0 .. RcvWindow
        BY <1>0, RcvLossListAssumption DEF Offsets
      <4>7. ASSUME n \in Numbers(D, e) PROVE n =< e[s]
        <5>1. PICK d \in D : d =< n /\ n =< e[d]
          BY <4>7 DEF Numbers
        <5>2. d \in Int /\ d # n /\ e[d] \in Int
          BY <3>5, <1>0
        <5>3. d =< s
          BY <5>1, <5>2, <4>3, <2>3
        <5>4. d < s => e[d] < s
          BY <1>0
        <5> QED BY <5>1, <5>2, <5>3, <5>4, <4>3, <4>6, <2>3
      <4>8. Shift(b, e[s]) # Unset /\ (seq = Shift(b, e[s]) <=> n = e[s])
        BY <4>6, <2>3, WindowFacts, RcvLossListAssumption
      <4>9. seqcmp(seq, Shift(b, e[s])) > 0 <=> n > e[s]
        <5>1. e[s] \in Nat /\ n \in Nat /\ e[s] < SeqNoTH /\ n < SeqNoTH
          BY <4>6, <2>3, RcvLossListAssumption
        <5> QED BY <5>1, OrderOfAWindow
      <4>10. CASE e[s] < n
        <5>1. m = l
          BY <3>2, <4>1, <4>5, <4>9, <4>10, <4>6, <2>3
        <5>2. n \notin Numbers(D, e)
          BY <4>7, <4>10, <4>6, <2>3
        <5> QED BY <5>1, <5>2, <1>1
      <4>11. CASE e[s] = n
        <5>1. ~(e[s] = s) /\ ~(n > e[s]) /\ seq = Shift(b, e[s])
          BY <4>3, <4>11, <4>6, <2>3
        <5>2. l.data2[i] = Shift(b, e[s])
          BY <4>5, <5>1
        <5>3. m = Shortened(CutAt(l, i, seq))
          BY <3>2, <4>1, <5>1, <5>2, <4>8, <4>9
        <5>4. \E D1, e1 : /\ Rep(Shortened(CutAt(l, Place(c, s), Shift(b, n))), b, c, D1, e1)
                          /\ Numbers(D1, e1) = Numbers(D, e) \ {n}
          BY <4>3, <4>11, CutRep
        <5> QED BY <5>3, <5>4, <4>4
      <4>12. CASE e[s] > n
        <5>1. ~(e[s] = s) /\ ~(n > e[s]) /\ n # e[s]
          BY <4>3, <4>12, <4>6, <2>3
        <5>2. l.data2[i] = Shift(b, e[s]) /\ l.data2[i] # seq
          BY <4>5, <4>8, <5>1
        <5>3. m = Shortened(Split(l, i, seq, loc))
          BY <3>2, <4>1, <5>1, <5>2, <4>8, <4>9
        <5>4. \E D1, e1 :
                /\ Rep(Shortened(Split(l, Place(c, s), Shift(b, n), Place(c, n))), b, c, D1, e1)
                /\ Numbers(D1, e1) = Numbers(D, e) \ {n}
          BY <4>3, <4>12, SplitRep
        <5> QED BY <5>3, <5>4, <4>4
      <4> QED BY <4>10, <4>11, <4>12, <4>6, <2>3
    <3> QED BY <3>4, <3>5
  <2> QED BY <2>5, <2>6, <2>3
<1> QED BY <1>2, <1>3

-----------------------------------------------------------------------------
(* insert. *)

\* What the insertion of p to q, after all that is there, does to a list.
Grown(l, b, D, e, p, q) ==
  \E c1, D1, e1 : /\ Rep(Inserted(l, Shift(b, p), Shift(b, q)), b, c1, D1, e1)
                  /\ Numbers(D1, e1) = Numbers(D, e) \cup (p .. q)

\* Of a list that is empty, any node can be the one of b.
LEMMA EmptyRep ==
  ASSUME NEW l, NEW b, NEW c, NEW e, Rep(l, b, c, {}, e), NEW b2, NEW c2 \in Nodes
  PROVE  Rep(l, b2, c2, {}, e)
<1>1. ASSUME NEW k \in Nodes
      PROVE  l.data1[Place(c2, k)] = Unset /\ l.data2[Place(c2, k)] = Unset
  <2>1. Place(c2, k) \in Nodes
    BY PlaceFacts
  <2>2. PICK j \in Nodes : Place(c, j) = Place(c2, k)
    BY <2>1, PlaceFacts DEF Rep
  <2>3. l.data1[Place(c, j)] = Unset /\ l.data2[Place(c, j)] = Unset
    BY DEF Rep, Filled
  <2> QED BY <2>2, <2>3
<1>2. Filled(l, b2, c2, {}, e)
  BY <1>1 DEF Filled
<1> QED BY <1>2 DEF Rep, LinkedUp, LinkedDown, HasHead, HasTail

\* How many numbers an insertion adds.
LEMMA InsertedMany ==
  ASSUME NEW N \in SUBSET Offsets, NEW p \in Offsets, NEW q \in Offsets, p =< q,
         \A k \in N : k < p
  PROVE  /\ Cardinality(p .. q) = q - p + 1 /\ IsFiniteSet(p .. q)
         /\ Cardinality(N \cup (p .. q)) = Cardinality(N) + (q - p + 1)
<1>1. p \in Int /\ q \in Int /\ N \subseteq Int
  BY DEF Offsets
<1>2. IsFiniteSet(p .. q) /\ Cardinality(p .. q) = q - p + 1
  BY <1>1, FS_Interval
<1>3. IsFiniteSet(N) /\ Cardinality(N) \in Nat
  <2>1. IsFiniteSet(Offsets)
    BY FS_Interval, RcvLossListAssumption DEF Offsets
  <2> QED BY <2>1, FS_Subset, FS_CardinalityType
<1>4. N \cap (p .. q) = {}
  BY <1>1
<1>5. Cardinality(N \cap (p .. q)) = 0
  BY <1>4, FS_EmptySet
<1>6. Cardinality(N \cup (p .. q)) =
        Cardinality(N) + Cardinality(p .. q) - Cardinality(N \cap (p .. q))
  BY <1>2, <1>3, FS_Union
<1> QED BY <1>1, <1>2, <1>3, <1>5, <1>6

\* CSeqNo::seqlen counts the offsets of a range.
LEMMA InsertedLength ==
  ASSUME NEW b \in SeqNos, NEW p \in Offsets, NEW q \in Offsets, p =< q
  PROVE  seqlen(Shift(b, p), Shift(b, q)) = q - p + 1
<1>1. /\ p \in Nat /\ q \in Nat /\ q < SeqNoTH /\ p < SeqNoTH /\ q - p \in Nat
      /\ q - p < SeqNoTH /\ p + (q - p) = q /\ -SeqNoTH < p /\ -SeqNoTH < q
      /\ -SeqNoTH < q - p /\ p =< MaxSeqNo /\ -MaxSeqNo =< p
  BY RcvLossListAssumption, SeqNoAssumption DEF Offsets
<1>2. Shift(b, p) \in SeqNos
  BY <1>1, ShiftInRange
<1>3. Shift(Shift(b, p), q - p) = Shift(b, q)
  BY <1>1, ShiftsAdd
<1>4. seqlen(Shift(b, p), Shift(Shift(b, p), q - p)) = (q - p) + 1
  BY <1>1, <1>2, LengthCountsBothEnds
<1> QED BY <1>1, <1>3, <1>4

\* The last interval grows.
LEMMA JoinRep ==
  ASSUME NEW l, NEW b \in SeqNos, NEW c, NEW D, NEW e, Rep(l, b, c, D, e),
         NEW p \in Offsets, NEW q \in Offsets, p =< q,
         \A k \in Numbers(D, e) : k < p,
         D # {}, l.data2[l.tail] # Unset, incseq(l.data2[l.tail]) = Shift(b, p)
  PROVE  Grown(l, b, D, e, p, q)
<1> DEFINE m == Inserted(l, Shift(b, p), Shift(b, q))
<1>0. /\ D \subseteq Nodes /\ D \subseteq Int /\ c \in Nodes /\ D \subseteq Offsets
      /\ \A d \in Nodes : Place(c, d) \in Nodes
      /\ \A d, f \in Nodes : Place(c, d) = Place(c, f) => d = f
      /\ Unset \notin Nodes /\ l \in ListType
      /\ \A d \in D : e[d] \in Int /\ d =< e[d] /\ e[d] \in Offsets
      /\ \A d, f \in D : d < f => e[d] < f
      /\ Offsets \subseteq Int /\ Offsets \subseteq Nodes
  BY RepFacts
<1>1. l.length # 0 /\ \A d \in D : d \in Numbers(D, e) /\ e[d] \in Numbers(D, e)
  BY EmptyOrNot
<1>2. PICK t \in D : l.tail = Place(c, t) /\ \A f \in D : f =< t
  BY DEF Rep, HasTail
<1>3. l.tail \in Nodes
  BY <1>0, <1>2
<1>4. l.data2[l.tail] = IF e[t] = t THEN Unset ELSE Shift(b, e[t])
  BY <1>2 DEF Rep, Filled
<1>5. e[t] # t /\ incseq(Shift(b, e[t])) = Shift(b, p)
  BY <1>4
<1>6. /\ e[t] \in 0 .. RcvWindow /\ e[t] + 1 \in 0 .. RcvWindow /\ p \in 0 .. RcvWindow
      /\ q \in Int /\ p \in Int /\ t \in Int /\ t =< e[t] /\ e[t] \in Int /\ t \in Offsets
  BY <1>0, RcvLossListAssumption DEF Offsets
<1>7. Shift(b, e[t] + 1) = Shift(b, p)
  BY <1>5, <1>6, Along
<1>8. e[t] + 1 = p
  BY <1>6, <1>7, WindowFacts
<1> DEFINE e1 == [e EXCEPT ![t] = q]
<1>9. /\ e1 \in [Offsets -> Offsets] /\ e1[t] = q
      /\ \A d \in D : d # t => e1[d] = e[d]
  BY <1>0, <1>6 DEF Rep
<1> HIDE DEF e1
<1>10. Shift(b, p) \in Int /\ Shift(b, q) \in Int /\ Shift(b, q) # Unset
  <2>1. \A k \in Offsets : Shift(b, k) \in SeqNos /\ Shift(b, k) # Unset
    BY WindowFacts, RcvLossListAssumption DEF Offsets
  <2> QED BY <2>1 DEF SeqNos
<1>11. /\ seqlen(Shift(b, p), Shift(b, q)) = q - p + 1
       /\ Cardinality(Numbers(D, e) \cup (p .. q)) =
            Cardinality(Numbers(D, e)) + (q - p + 1)
  <2>1. Numbers(D, e) \in SUBSET Offsets
    BY DEF Numbers
  <2> QED BY <2>1, InsertedLength, InsertedMany
<1>12. /\ m \in ListType
       /\ m.length = l.length + (q - p + 1)
       /\ m.data2 = [l.data2 EXCEPT ![l.tail] = Shift(b, q)]
       /\ m.data1 = l.data1 /\ m.next = l.next /\ m.prior = l.prior
       /\ m.head = l.head /\ m.tail = l.tail
  <2> DEFINE loc == NodeAfter(l.head, seqoff(l.data1[l.head], Shift(b, p)))
             longer == [l EXCEPT !.length = @ + seqlen(Shift(b, p), Shift(b, q))]
  <2>1. m = [longer EXCEPT !.data2[l.tail] = Shift(b, q)]
    BY <1>1 DEF Inserted
  <2>2. q - p + 1 \in Int /\ l.length \in Int
    BY <1>0, <1>6 DEF ListType
  <2>3. /\ longer \in ListType /\ longer.length = l.length + (q - p + 1)
        /\ longer.data2 = l.data2
        /\ longer.data1 = l.data1 /\ longer.next = l.next /\ longer.prior = l.prior
        /\ longer.head = l.head /\ longer.tail = l.tail
    BY <2>2, <1>0, <1>11 DEF ListType
  <2> HIDE DEF longer, m
  <2> QED BY <2>1, <2>3, <1>3, <1>10 DEF ListType
<1> HIDE DEF m
<1>13. Filled(m, b, c, D, e1)
  <2>1. l.data2 \in [Nodes -> Int]
    BY <1>0 DEF ListType
  <2>2. ASSUME NEW d \in D
        PROVE  /\ m.data1[Place(c, d)] = Shift(b, d)
               /\ m.data2[Place(c, d)] = IF e1[d] = d THEN Unset ELSE Shift(b, e1[d])
    <3>1. m.data1[Place(c, d)] = Shift(b, d)
      BY <1>12 DEF Rep, Filled
    <3>2. CASE d = t
      BY <3>1, <3>2, <2>1, <1>0, <1>2, <1>6, <1>8, <1>9, <1>12
    <3>3. CASE d # t
      <4>1. Place(c, d) # l.tail
        BY <3>3, <1>0, <1>2
      <4>2. m.data2[Place(c, d)] = l.data2[Place(c, d)]
        BY <4>1, <2>1, <1>0, <1>3, <1>12
      <4>3. l.data2[Place(c, d)] = IF e[d] = d THEN Unset ELSE Shift(b, e[d])
        BY DEF Rep, Filled
      <4> QED BY <4>2, <4>3, <3>1, <3>3, <1>9
    <3> QED BY <3>2, <3>3
  <2>3. ASSUME NEW k \in Nodes \ D
        PROVE  m.data1[Place(c, k)] = Unset /\ m.data2[Place(c, k)] = Unset
    <3>1. Place(c, k) # l.tail
      BY <1>0, <1>2
    <3> QED BY <3>1, <2>1, <1>0, <1>3, <1>12 DEF Rep, Filled
  <2> QED BY <2>2, <2>3 DEF Filled
<1>14. Apart(D, e1)
  <2>1. ASSUME NEW d \in D PROVE d =< e1[d]
    BY <1>0, <1>6, <1>8, <1>9
  <2>2. ASSUME NEW d \in D, NEW f \in D, d < f PROVE e1[d] < f
    BY <2>2, <1>0, <1>2, <1>6, <1>9
  <2> QED BY <2>1, <2>2 DEF Apart
<1>15. Numbers(D, e1) = Numbers(D, e) \cup (p .. q)
  <2>1. ASSUME NEW k \in Offsets
        PROVE  (\E d \in D : d =< k /\ k =< e1[d])
                 <=> (\E d \in D : d =< k /\ k =< e[d]) \/ k \in p .. q
    <3>1. k \in Int
      BY <1>0
    <3>2. ASSUME NEW d \in D, d =< k, k =< e1[d]
          PROVE  (\E f \in D : f =< k /\ k =< e[f]) \/ k \in p .. q
      BY <3>1, <3>2, <1>0, <1>6, <1>8, <1>9
    <3>3. ASSUME NEW d \in D, d =< k, k =< e[d]
          PROVE  \E f \in D : f =< k /\ k =< e1[f]
      BY <3>1, <3>3, <1>0, <1>6, <1>8, <1>9
    <3>4. ASSUME k \in p .. q PROVE t =< k /\ k =< e1[t]
      BY <3>1, <3>4, <1>6, <1>8, <1>9
    <3> QED BY <3>2, <3>3, <3>4
  <2>2. p .. q \subseteq Offsets
    BY RcvLossListAssumption DEF Offsets
  <2> QED BY <2>1, <2>2 DEF Numbers
<1>16. LinkedUp(m, c, D) /\ LinkedDown(m, c, D)
  BY <1>12 DEF Rep, LinkedUp, LinkedDown
<1>17. HasHead(m, c, D) /\ HasTail(m, c, D)
  BY <1>12 DEF Rep, HasHead, HasTail
<1>18. m.length = Cardinality(Numbers(D, e1))
  BY <1>11, <1>12, <1>15 DEF Rep
<1>19. Rep(m, b, c, D, e1)
  BY <1>0, <1>9, <1>12, <1>13, <1>14, <1>16, <1>17, <1>18 DEF Rep
<1> QED BY <1>15, <1>19 DEF Grown, m

\* An interval of its own begins.
LEMMA AppendRep ==
  ASSUME NEW l, NEW b \in SeqNos, NEW c, NEW D, NEW e, Rep(l, b, c, D, e),
         NEW p \in Offsets, NEW q \in Offsets, p =< q,
         \A k \in Numbers(D, e) : k < p,
         D = {} => Place(c, p) = 0,
         ~(D # {} /\ l.data2[l.tail] # Unset /\ incseq(l.data2[l.tail]) = Shift(b, p))
  PROVE  Grown(l, b, D, e, p, q)
<1> DEFINE m == Inserted(l, Shift(b, p), Shift(b, q))
           loc == Place(c, p)
           D1 == D \cup {p}
           e1 == [e EXCEPT ![p] = q]
<1>0. /\ D \subseteq Nodes /\ D \subseteq Int /\ c \in Nodes /\ D \subseteq Offsets
      /\ \A d \in Nodes : Place(c, d) \in Nodes
      /\ \A d, f \in Nodes : Place(c, d) = Place(c, f) => d = f
      /\ Unset \notin Nodes /\ l \in ListType
      /\ \A d \in D : e[d] \in Int /\ d =< e[d] /\ e[d] \in Offsets
      /\ \A d, f \in D : d < f => e[d] < f
      /\ Offsets \subseteq Int /\ Offsets \subseteq Nodes
  BY RepFacts
<1>1. /\ l.length = 0 <=> D = {}
      /\ \A d \in D : d \in Numbers(D, e) /\ e[d] \in Numbers(D, e)
  BY EmptyOrNot
<1>2. \A d \in D : d < p /\ e[d] < p /\ d # p
  <2>1. \A d \in D : d < p /\ e[d] < p /\ d \in Int
    BY <1>0, <1>1
  <2> QED BY <2>1
<1>3. p \in Int /\ q \in Int /\ p \in Nodes /\ p \notin D /\ loc \in Nodes
  <2>1. p \in Int /\ q \in Int /\ p \in Nodes
    BY <1>0
  <2>2. loc \in Nodes
    BY <2>1, <1>0
  <2> QED BY <2>1, <2>2, <1>2
<1>4. ASSUME D # {}
      PROVE  l.tail \in Nodes /\ loc = NodeAfter(l.head, seqoff(l.data1[l.head], Shift(b, p)))
  <2>1. PICK h \in D : First(l, b, c, D, e, h)
    BY <1>4, HeadFacts
  <2>2. l.head = Place(c, h) /\ l.data1[l.head] = Shift(b, h)
    BY <2>1 DEF First
  <2>3. /\ h \in Int /\ 0 =< h /\ h < SeqNoTH /\ 0 =< p /\ p < SeqNoTH /\ h < p
        /\ h \in 0 .. RcvWindow /\ h \in Nodes /\ p < RcvSize /\ SeqNoTH \in Int
    <3>1. h \in Offsets /\ h \in Nodes
      BY <1>0
    <3> QED BY <3>1, <1>2, <1>3, RcvLossListAssumption, SeqNoAssumption DEF Offsets, Nodes
  <2>4. seqoff(l.data1[l.head], Shift(b, p)) = p - h
    <3>1. Shift(b, h) \in SeqNos
      BY <2>3, WindowFacts, RcvLossListAssumption
    <3>2. p - h \in Int /\ -SeqNoTH < p - h /\ p - h < SeqNoTH /\ h + (p - h) = p
          /\ -SeqNoTH < h /\ -SeqNoTH < p
      BY <2>3, <1>3
    <3>3. Shift(Shift(b, h), p - h) = Shift(b, h + (p - h))
      BY <2>3, <3>2, ShiftsAdd
    <3>4. seqoff(Shift(b, h), Shift(Shift(b, h), p - h)) = p - h
      BY <3>1, <3>2, OffsetIsDistance
    <3> QED BY <2>2, <3>2, <3>3, <3>4
  <2>5. NodeAfter(Place(c, h), p - h) = Place(c, p)
    <3>1. p - h \in Nat /\ h + (p - h) < RcvSize /\ h + (p - h) = p
      BY <2>3, <1>3
    <3> QED BY <3>1, <2>3, <1>0, Neighbourhood
  <2>6. l.tail \in Nodes
    BY <1>0, <1>4 DEF Rep, HasTail
  <2> QED BY <2>2, <2>4, <2>5, <2>6
<1>5. /\ e1 \in [Offsets -> Offsets] /\ e1[p] = q
      /\ \A d \in D : e1[d] = e[d]
  BY <1>0, <1>2 DEF Rep
<1>6. /\ Shift(b, p) \in Int /\ Shift(b, q) \in Int /\ Shift(b, q) # Unset /\ Shift(b, p) # Unset
      /\ Shift(b, q) = Shift(b, p) <=> q = p
  <2>1. \A k \in Offsets : Shift(b, k) \in SeqNos /\ Shift(b, k) # Unset
    BY WindowFacts, RcvLossListAssumption DEF Offsets
  <2>2. p \in 0 .. RcvWindow /\ q \in 0 .. RcvWindow
    BY RcvLossListAssumption DEF Offsets
  <2>3. Shift(b, q) = Shift(b, p) => q = p
    BY <2>2, WindowFacts
  <2> QED BY <2>1, <2>3 DEF SeqNos
<1>7. /\ seqlen(Shift(b, p), Shift(b, q)) = q - p + 1
      /\ Cardinality(Numbers(D, e) \cup (p .. q)) =
           Cardinality(Numbers(D, e)) + (q - p + 1)
  <2>1. Numbers(D, e) \in SUBSET Offsets
    BY DEF Numbers
  <2> QED BY <2>1, InsertedLength, InsertedMany
<1> HIDE DEF m, loc, D1, e1
<1>8. /\ m \in ListType
      /\ m.length = l.length + (q - p + 1)
      /\ m.data1 = [l.data1 EXCEPT ![loc] = Shift(b, p)]
      /\ m.data2 = [l.data2 EXCEPT ![loc] = IF Shift(b, q) # Shift(b, p) THEN Shift(b, q) ELSE @]
      /\ m.next = [k \in Nodes |->
           IF k = loc THEN Unset
           ELSE IF l.length # 0 /\ k = l.tail THEN loc ELSE l.next[k]]
      /\ m.prior = [l.prior EXCEPT ![loc] = IF l.length = 0 THEN Unset ELSE l.tail]
      /\ m.head = IF l.length = 0 THEN loc ELSE l.head
      /\ m.tail = loc
  <2>1. Chosen(l, Shift(b, p), loc) /\ (l.length # 0 => l.tail \in Nodes)
    BY <1>1, <1>4 DEF Chosen, loc
  <2>2. Appended(l, m, Shift(b, p), Shift(b, q), loc)
    BY <2>1, <1>0, <1>3, <1>6, <1>7, InsertedFields DEF m
  <2> QED BY <2>2, <1>7 DEF Appended
<1>9. \A k \in Nodes : Place(c, k) = loc <=> k = p
  BY <1>0, <1>3 DEF loc
<1>10. /\ \A k \in Nodes : k # p =>
            /\ m.data1[Place(c, k)] = l.data1[Place(c, k)]
            /\ m.data2[Place(c, k)] = l.data2[Place(c, k)]
            /\ m.prior[Place(c, k)] = l.prior[Place(c, k)]
       /\ m.data1[loc] = Shift(b, p)
       /\ m.data2[loc] = IF q = p THEN Unset ELSE Shift(b, q)
       /\ m.prior[loc] = IF l.length = 0 THEN Unset ELSE l.tail
  <2>1. /\ l.data1 \in [Nodes -> Int] /\ l.data2 \in [Nodes -> Int]
        /\ l.prior \in [Nodes -> Int]
    BY <1>0 DEF ListType
  <2>2. l.data2[loc] = Unset
    BY <1>3 DEF Rep, Filled, loc
  <2>3. \A k \in Nodes : k # p => Place(c, k) # loc /\ Place(c, k) \in Nodes
    BY <1>0, <1>9
  <2> QED BY <2>1, <2>2, <2>3, <1>3, <1>6, <1>8
<1>11. Filled(m, b, c, D1, e1)
  <2>1. ASSUME NEW d \in D1
        PROVE  /\ m.data1[Place(c, d)] = Shift(b, d)
               /\ m.data2[Place(c, d)] = IF e1[d] = d THEN Unset ELSE Shift(b, e1[d])
    <3>1. CASE d = p
      BY <3>1, <1>5, <1>10 DEF loc
    <3>2. CASE d # p
      <4>1. d \in D /\ d \in Nodes
        BY <3>2, <1>0 DEF D1
      <4> QED BY <4>1, <3>2, <1>5, <1>10 DEF Rep, Filled
    <3> QED BY <3>1, <3>2
  <2>2. ASSUME NEW k \in Nodes \ D1
        PROVE  m.data1[Place(c, k)] = Unset /\ m.data2[Place(c, k)] = Unset
    BY <1>10 DEF Rep, Filled, D1
  <2> QED BY <2>1, <2>2 DEF Filled
<1>12. Apart(D1, e1)
  <2>1. ASSUME NEW d \in D1 PROVE d =< e1[d]
    BY <1>0, <1>3, <1>5 DEF D1
  <2>2. ASSUME NEW d \in D1, NEW f \in D1, d < f PROVE e1[d] < f
    <3>1. d # p
      <4>1. SUFFICES ASSUME d = p PROVE FALSE
        OBVIOUS
      <4>2. f \in Int /\ (f < p \/ f = p) /\ p < f
        BY <4>1, <2>2, <1>0, <1>2, <1>3 DEF D1
      <4> QED BY <4>2, <1>3
    <3>2. d \in D /\ e1[d] = e[d]
      BY <3>1, <1>5 DEF D1
    <3> QED BY <3>2, <2>2, <1>0, <1>2 DEF D1
  <2> QED BY <2>1, <2>2 DEF Apart
<1>13. Numbers(D1, e1) = Numbers(D, e) \cup (p .. q)
  <2>1. ASSUME NEW k \in Offsets
        PROVE  (\E d \in D1 : d =< k /\ k =< e1[d])
                 <=> (\E d \in D : d =< k /\ k =< e[d]) \/ k \in p .. q
    <3>1. k \in Int
      BY <1>0
    <3>2. ASSUME NEW d \in D1, d =< k, k =< e1[d]
          PROVE  (\E f \in D : f =< k /\ k =< e[f]) \/ k \in p .. q
      <4>1. d \in D \/ d = p
        BY DEF D1
      <4> QED BY <4>1, <3>1, <3>2, <1>3, <1>5
    <3>3. ASSUME NEW d \in D, d =< k, k =< e[d]
          PROVE  \E f \in D1 : f =< k /\ k =< e1[f]
      BY <3>3, <1>5 DEF D1
    <3>4. ASSUME k \in p .. q PROVE p \in D1 /\ p =< k /\ k =< e1[p]
      BY <3>4, <1>3, <1>5 DEF D1
    <3> QED BY <3>2, <3>3, <3>4
  <2>2. p .. q \subseteq Offsets
    BY RcvLossListAssumption DEF Offsets
  <2> QED BY <2>1, <2>2 DEF Numbers
<1>14. LinkedUp(m, c, D1)
  <2>1. ASSUME NEW d \in D1
        PROVE  \/ m.next[Place(c, d)] = Unset /\ \A f \in D1 : f =< d
               \/ \E f \in D1 : Follows(D1, d, f) /\ m.next[Place(c, d)] = Place(c, f)
    <3>1. CASE d = p
      <4>1. m.next[Place(c, p)] = Unset
        BY <1>3, <1>8 DEF loc
      <4>2. \A f \in D1 : f =< p
        BY <1>0, <1>2, <1>3 DEF D1
      <4> QED BY <3>1, <4>1, <4>2
    <3>2. CASE d # p /\ Place(c, d) = l.tail
      <4>1. d \in D /\ d \in Nodes /\ D # {} /\ l.length # 0
        BY <3>2, <1>0, <1>1 DEF D1
      <4>2. m.next[Place(c, d)] = Place(c, p)
        BY <4>1, <3>2, <1>0, <1>8, <1>9 DEF loc
      <4>3. \A f \in D : f =< d
        <5>1. PICK t \in D : l.tail = Place(c, t) /\ \A f \in D : f =< t
          BY <4>1 DEF Rep, HasTail
        <5>2. t = d
          BY <5>1, <4>1, <3>2, <1>0
        <5> QED BY <5>1, <5>2
      <4>4. Follows(D1, d, p)
        BY <4>1, <4>3, <1>2, <1>3 DEF Follows, D1
      <4> QED BY <4>2, <4>4 DEF D1
    <3>3. CASE d # p /\ Place(c, d) # l.tail
      <4>1. d \in D /\ d \in Nodes /\ Place(c, d) \in Nodes /\ Place(c, d) # loc
        BY <3>3, <1>0, <1>9 DEF D1
      <4>2. m.next[Place(c, d)] = l.next[Place(c, d)]
        BY <4>1, <3>3, <1>8
      <4>3. NodeLinked(l, c, D, d)
        BY <4>1, LinkFacts
      <4>4. PICK f \in D : Follows(D, d, f) /\ l.next[Place(c, d)] = Place(c, f)
        BY <4>3, <3>3 DEF NodeLinked
      <4>5. f \in D1 /\ Follows(D1, d, f)
        BY <4>1, <4>4, <1>0, <1>2, <1>3 DEF Follows, D1
      <4> QED BY <4>2, <4>4, <4>5
    <3> QED BY <3>1, <3>2, <3>3
  <2> QED BY <2>1 DEF LinkedUp
<1>15. LinkedDown(m, c, D1)
  <2>1. ASSUME NEW f \in D1
        PROVE  \/ \A d \in D1 : f =< d
               \/ \E d \in D1 : Follows(D1, d, f) /\ m.prior[Place(c, f)] = Place(c, d)
    <3>1. CASE f = p /\ D = {}
      BY <3>1, <1>3 DEF D1
    <3>2. CASE f = p /\ D # {}
      <4>1. PICK t \in D : l.tail = Place(c, t) /\ \A g \in D : g =< t
        BY <3>2 DEF Rep, HasTail
      <4>2. m.prior[Place(c, p)] = Place(c, t)
        BY <4>1, <3>2, <1>1, <1>10 DEF loc
      <4>3. Follows(D1, t, p)
        BY <4>1, <1>0, <1>2, <1>3 DEF Follows, D1
      <4> QED BY <3>2, <4>1, <4>2, <4>3 DEF D1
    <3>3. CASE f # p
      <4>1. f \in D /\ f \in Nodes
        BY <3>3, <1>0 DEF D1
      <4>2. m.prior[Place(c, f)] = l.prior[Place(c, f)]
        BY <4>1, <3>3, <1>10
      <4>3. CASE \A d \in D : f =< d
        BY <4>1, <4>3, <1>0, <1>2, <1>3 DEF D1
      <4>4. CASE \E d \in D : Follows(D, d, f) /\ l.prior[Place(c, f)] = Place(c, d)
        <5>1. PICK d \in D : Follows(D, d, f) /\ l.prior[Place(c, f)] = Place(c, d)
          BY <4>4
        <5>2. d \in D1 /\ Follows(D1, d, f)
          BY <5>1, <4>1, <1>0, <1>2, <1>3 DEF Follows, D1
        <5> QED BY <5>1, <5>2, <4>2
      <4> QED BY <4>1, <4>3, <4>4 DEF Rep, LinkedDown
    <3> QED BY <3>1, <3>2, <3>3
  <2> QED BY <2>1 DEF LinkedDown
<1>16. HasHead(m, c, D1)
  <2>1. CASE D = {}
    <3>1. m.head = Place(c, p) /\ \A f \in D1 : p =< f
      BY <2>1, <1>1, <1>3, <1>8 DEF loc, D1
    <3> QED BY <3>1 DEF HasHead, D1
  <2>2. CASE D # {}
    <3>1. PICK h \in D : l.head = Place(c, h) /\ \A f \in D : h =< f
      BY <2>2 DEF Rep, HasHead
    <3>2. m.head = Place(c, h) /\ h \in D1 /\ \A f \in D1 : h =< f
      BY <2>2, <3>1, <1>0, <1>1, <1>2, <1>3, <1>8 DEF D1
    <3> QED BY <3>2 DEF HasHead
  <2> QED BY <2>1, <2>2
<1>17. HasTail(m, c, D1)
  <2>1. m.tail = Place(c, p) /\ \A f \in D1 : f =< p
    BY <1>0, <1>2, <1>3, <1>8 DEF loc, D1
  <2> QED BY <2>1 DEF HasTail, D1
<1>18. m.length = Cardinality(Numbers(D1, e1))
  BY <1>7, <1>8, <1>13 DEF Rep
<1>19. D1 \subseteq Offsets
  BY <1>0 DEF D1
<1>20. Rep(m, b, c, D1, e1)
  BY <1>0, <1>5, <1>8, <1>11, <1>12, <1>14, <1>15, <1>16, <1>17, <1>18, <1>19 DEF Rep
<1> QED BY <1>13, <1>20 DEF Grown, m

\* CRcvLossList::insert (list.cpp) adds the numbers it is given, which are later
\* than all in the list, and nothing else: the last node grows or a new one
\* follows it, at a place that is free.
THEOREM InsertAddsRange ==
  ASSUME NEW l, NEW b \in SeqNos, NEW c, NEW D, NEW e, Rep(l, b, c, D, e),
         NEW p \in Offsets, NEW q \in Offsets, p =< q,
         \A k \in Numbers(D, e) : k < p
  PROVE  Grown(l, b, D, e, p, q)
<1>1. CASE D # {} /\ l.data2[l.tail] # Unset /\ incseq(l.data2[l.tail]) = Shift(b, p)
  BY <1>1, JoinRep
<1>2. CASE /\ D # {}
           /\ ~(l.data2[l.tail] # Unset /\ incseq(l.data2[l.tail]) = Shift(b, p))
  BY <1>2, AppendRep
<1>3. CASE D = {}
  <2> DEFINE c1 == IF p = 0 THEN 0 ELSE RcvSize - p
  <2>1. c1 \in Nodes /\ Place(c1, p) = 0
    BY RcvLossListAssumption DEF Offsets, Nodes, Place
  <2> HIDE DEF c1
  <2>2. Rep(l, b, c1, {}, e)
    BY <1>3, <2>1, EmptyRep
  <2>3. \A k \in Numbers({}, e) : k < p
    BY DEF Numbers
  <2>4. Grown(l, b, {}, e, p, q)
    BY <2>1, <2>2, <2>3, AppendRep
  <2> QED BY <1>3, <2>4
<1> QED BY <1>1, <1>2, <1>3

-----------------------------------------------------------------------------
(* The window moves. *)

\* A set of numbers moves along by m.
Moved(S, m) == {k - m : k \in S}

\* The missing numbers are as many when their offsets are counted from a
\* later m_iRcvLastAck.
LEMMA MovedCardinality ==
  ASSUME NEW D, NEW e, NEW m \in Int
  PROVE  Cardinality(Moved(Numbers(D, e), m)) = Cardinality(Numbers(D, e))
<1> DEFINE S == Numbers(D, e)
           f == [k \in S |-> k - m]
<1>1. S \subseteq Int
  BY DEF Numbers, Offsets
<1> HIDE DEF S
<1>2. f \in Bijection(S, Moved(S, m))
  <2>1. f \in [S -> Moved(S, m)]
    BY DEF Moved
  <2>2. \A x, y \in S : f[x] = f[y] => x = y
    BY <1>1
  <2>3. \A z \in Moved(S, m) : \E x \in S : f[x] = z
    BY DEF Moved
  <2> QED BY <2>1, <2>2, <2>3, Fun_IsBij
<1>3. IsFiniteSet(S)
  BY NumbersFinite DEF S
<1>4. ExistsBijection(S, Moved(S, m))
  BY <1>2 DEF ExistsBijection
<1>5. Cardinality(Moved(S, m)) = Cardinality(S)
  BY <1>3, <1>4, FS_Bijection
<1> QED BY <1>5 DEF S

\* The list as it is seen from the number m steps on.
Rebased(l, b, D, e, m) ==
  \E c1, D1, e1 : /\ Rep(l, Shift(b, m), c1, D1, e1)
                  /\ Numbers(D1, e1) = Moved(Numbers(D, e), m)

\* When an ACK moves m_iRcvLastAck (core.cpp) up to the first number of the list
\* at most, no node has to move: the list is the same set, counted from there.
THEOREM WindowMoves ==
  ASSUME NEW l, NEW b \in SeqNos, NEW c, NEW D, NEW e, Rep(l, b, c, D, e),
         NEW m \in 0 .. RcvWindow, \A k \in Numbers(D, e) : m =< k
  PROVE  Rebased(l, b, D, e, m)
<1>0. /\ D \subseteq Nodes /\ D \subseteq Int /\ c \in Nodes /\ D \subseteq Offsets
      /\ \A d \in Nodes : Place(c, d) \in Nodes
      /\ \A d, f \in Nodes : Place(c, d) = Place(c, f) => d = f
      /\ Unset \notin Nodes /\ l \in ListType
      /\ \A d \in D : e[d] \in Int /\ d =< e[d] /\ e[d] \in Offsets
      /\ \A d, f \in D : d < f => e[d] < f
      /\ Offsets \subseteq Int /\ Offsets \subseteq Nodes
  BY RepFacts
<1>1. CASE D = {}
  <2>1. Rep(l, Shift(b, m), c, {}, e)
    BY <1>0, <1>1, EmptyRep
  <2>2. Numbers({}, e) = {} /\ Moved({}, m) = {}
    BY DEF Numbers, Moved
  <2> QED BY <1>1, <2>1, <2>2 DEF Rebased
<1>2. CASE D # {}
  <2> DEFINE D1 == {d - m : d \in D}
             e1 == [k \in Offsets |-> IF k + m \in D THEN e[k + m] - m ELSE k]
             c1 == Place(c, m)
             b1 == Shift(b, m)
  <2>1. \A d \in D : m =< d /\ d - m \in Offsets /\ e[d] - m \in Offsets /\ (d - m) + m = d
                     /\ d - m \in Int /\ e[d] \in Int /\ d \in Int
    <3> TAKE d \in D
    <3>1. m =< d
      BY EmptyOrNot
    <3>2. d \in Offsets /\ e[d] \in Offsets /\ d =< e[d]
      BY <1>0
    <3> QED BY <3>1, <3>2, RcvLossListAssumption DEF Offsets
  <2>2. m \in Int /\ m \in Nodes /\ 0 =< m /\ m < RcvSize /\ RcvSize \in Int /\ m < SeqNoTH
    <3>1. PICK d \in D : TRUE
      BY <1>2
    <3>2. m =< d /\ d \in Offsets
      BY <2>1, <1>0
    <3>3. m \in Int /\ 0 =< m /\ m < RcvWindow /\ RcvWindow \in Int /\ RcvSize \in Int
          /\ RcvWindow =< RcvSize /\ RcvWindow < SeqNoTH /\ SeqNoTH \in Int
      BY <3>2, RcvLossListAssumption, SeqNoAssumption DEF Offsets
    <3> QED BY <3>3 DEF Nodes
  <2>3. c1 \in Nodes
    BY <2>2, <1>0
  <2>4. \A d \in D : e1[d - m] = e[d] - m
    BY <2>1
  <2>5. D1 \subseteq Offsets /\ e1 \in [Offsets -> Offsets]
    <3>1. ASSUME NEW k \in Offsets
          PROVE  (IF k + m \in D THEN e[k + m] - m ELSE k) \in Offsets
      BY <2>1
    <3> QED BY <3>1, <2>1
  <2>6. \A d \in D : Place(c1, d - m) = Place(c, d)
    <3> TAKE d \in D
    <3>1. m =< d /\ d \in Nodes /\ c \in Nodes
      BY <2>1, <1>0
    <3>2. d \in Int /\ 0 =< d /\ d < RcvSize /\ m =< d /\ c \in Int /\ 0 =< c /\ c < RcvSize
      BY <3>1, <2>2 DEF Nodes
    <3> QED BY <3>2, <2>2 DEF Place
  <2>7. \A k \in Nodes \ D1 : \E j \in Nodes \ D : Place(c1, k) = Place(c, j)
    <3> TAKE k \in Nodes \ D1
    <3>0. k \in Int /\ 0 =< k /\ k < RcvSize /\ c \in Int /\ 0 =< c /\ c < RcvSize
      BY <1>0, <2>2 DEF Nodes
    <3>1. CASE k + m < RcvSize
      <4>1. Place(c1, k) = Place(c, k + m) /\ k + m \in Nodes
        BY <3>0, <3>1, <2>2 DEF Place, Nodes
      <4>2. k + m \notin D
        <5>1. SUFFICES ASSUME k + m \in D PROVE FALSE
          OBVIOUS
        <5>2. (k + m) - m = k
          BY <3>0, <2>2
        <5> QED BY <5>1, <5>2
      <4> QED BY <4>1, <4>2
    <3>2. CASE k + m >= RcvSize
      <4>1. Place(c1, k) = Place(c, k + m - RcvSize) /\ k + m - RcvSize \in Nodes
        BY <3>0, <3>2, <2>2 DEF Place, Nodes
      <4>2. k + m - RcvSize < m
        BY <3>0, <2>2
      <4>3. k + m - RcvSize \notin D
        BY <4>2, <3>0, <2>1, <2>2
      <4> QED BY <4>1, <4>3
    <3>3. k + m < RcvSize \/ k + m >= RcvSize
      <4>1. k \in Int /\ m \in Int /\ RcvSize \in Int
        BY <3>0, <2>2
      <4> QED BY <4>1
    <3> QED BY <3>1, <3>2, <3>3
  <2>8. \A k \in Offsets : m =< k => Shift(b1, k - m) = Shift(b, k)
    <3> TAKE k \in Offsets
    <3> HAVE m =< k
    <3>1. /\ k - m \in Int /\ -SeqNoTH < k - m /\ k - m < SeqNoTH /\ m + (k - m) = k
          /\ -SeqNoTH < m /\ -SeqNoTH < k /\ k < SeqNoTH
      BY <2>2, RcvLossListAssumption, SeqNoAssumption DEF Offsets
    <3> QED BY <3>1, <2>2, ShiftsAdd
  <2> HIDE DEF e1, c1, b1
  <2>9. Apart(D1, e1)
    <3>1. ASSUME NEW d \in D PROVE d - m =< e1[d - m]
      BY <1>0, <2>1, <2>2, <2>4
    <3>2. ASSUME NEW d \in D, NEW f \in D, d - m < f - m PROVE e1[d - m] < f - m
      BY <3>2, <1>0, <2>1, <2>2, <2>4
    <3> QED BY <3>1, <3>2 DEF Apart
  <2>10. Filled(l, b1, c1, D1, e1)
    <3>1. ASSUME NEW d \in D
          PROVE  /\ l.data1[Place(c1, d - m)] = Shift(b1, d - m)
                 /\ l.data2[Place(c1, d - m)] =
                      IF e1[d - m] = d - m THEN Unset ELSE Shift(b1, e1[d - m])
      <4>1. Shift(b1, d - m) = Shift(b, d) /\ Shift(b1, e[d] - m) = Shift(b, e[d])
        <5>1. m =< d /\ m =< e[d] /\ d \in Offsets /\ e[d] \in Offsets
          BY <1>0, <2>1, <2>2
        <5> QED BY <5>1, <2>8
      <4>2. e1[d - m] = d - m <=> e[d] = d
        BY <2>1, <2>2, <2>4
      <4> QED BY <4>1, <4>2, <2>4, <2>6 DEF Rep, Filled
    <3>2. ASSUME NEW k \in Nodes \ D1
          PROVE  l.data1[Place(c1, k)] = Unset /\ l.data2[Place(c1, k)] = Unset
      BY <2>7 DEF Rep, Filled
    <3> QED BY <3>1, <3>2 DEF Filled
  <2>11. \A d, f \in D : Follows(D, d, f) => Follows(D1, d - m, f - m)
    BY <2>1, <2>2 DEF Follows
  <2>12. \A d \in D : /\ (\A f \in D : f =< d) => \A f \in D1 : f =< d - m
                      /\ (\A f \in D : d =< f) => \A f \in D1 : d - m =< f
    BY <2>1, <2>2
  <2>13. LinkedUp(l, c1, D1) /\ LinkedDown(l, c1, D1)
    <3>1. ASSUME NEW d \in D
          PROVE  \/ l.next[Place(c1, d - m)] = Unset /\ \A f \in D1 : f =< d - m
                 \/ \E f \in D1 : Follows(D1, d - m, f) /\ l.next[Place(c1, d - m)] = Place(c1, f)
      <4>1. CASE l.next[Place(c, d)] = Unset /\ \A f \in D : f =< d
        BY <4>1, <2>6, <2>12
      <4>2. CASE \E f \in D : Follows(D, d, f) /\ l.next[Place(c, d)] = Place(c, f)
        <5>1. PICK f \in D : Follows(D, d, f) /\ l.next[Place(c, d)] = Place(c, f)
          BY <4>2
        <5>2. /\ f - m \in D1 /\ Follows(D1, d - m, f - m)
              /\ l.next[Place(c1, d - m)] = Place(c1, f - m)
          BY <5>1, <2>6, <2>11
        <5> QED BY <5>2
      <4> QED BY <4>1, <4>2 DEF Rep, LinkedUp
    <3>2. ASSUME NEW f \in D
          PROVE  \/ \A d \in D1 : f - m =< d
                 \/ \E d \in D1 : Follows(D1, d, f - m) /\ l.prior[Place(c1, f - m)] = Place(c1, d)
      <4>1. CASE \A d \in D : f =< d
        BY <4>1, <2>12
      <4>2. CASE \E d \in D : Follows(D, d, f) /\ l.prior[Place(c, f)] = Place(c, d)
        <5>1. PICK d \in D : Follows(D, d, f) /\ l.prior[Place(c, f)] = Place(c, d)
          BY <4>2
        <5>2. /\ d - m \in D1 /\ Follows(D1, d - m, f - m)
              /\ l.prior[Place(c1, f - m)] = Place(c1, d - m)
          BY <5>1, <2>6, <2>11
        <5> QED BY <5>2
      <4> QED BY <4>1, <4>2 DEF Rep, LinkedDown
    <3> QED BY <3>1, <3>2 DEF LinkedUp, LinkedDown
  <2>14. HasHead(l, c1, D1) /\ HasTail(l, c1, D1)
    <3>1. PICK h \in D : l.head = Place(c, h) /\ \A f \in D : h =< f
      BY <1>2 DEF Rep, HasHead
    <3>2. PICK t \in D : l.tail = Place(c, t) /\ \A f \in D : f =< t
      BY <1>2 DEF Rep, HasTail
    <3>3. /\ h - m \in D1 /\ l.head = Place(c1, h - m) /\ \A f \in D1 : h - m =< f
          /\ t - m \in D1 /\ l.tail = Place(c1, t - m) /\ \A f \in D1 : f =< t - m
      BY <3>1, <3>2, <2>6, <2>12
    <3> QED BY <3>3 DEF HasHead, HasTail
  <2>15. Numbers(D1, e1) = Moved(Numbers(D, e), m)
    <3>1. ASSUME NEW k \in Numbers(D1, e1) PROVE k \in Moved(Numbers(D, e), m)
      <4>1. PICK d \in D : d - m =< k /\ k =< e1[d - m]
        BY <3>1 DEF Numbers
      <4>2. k \in Int
        BY <3>1 DEF Numbers, Offsets
      <4>3. d =< k + m /\ k + m =< e[d] /\ (k + m) - m = k
        BY <4>1, <4>2, <2>1, <2>2, <2>4
      <4>4. k + m \in Offsets
        <5>1. d \in Offsets /\ e[d] \in Offsets
          BY <1>0
        <5> QED BY <5>1, <4>2, <4>3, <2>2, RcvLossListAssumption DEF Offsets
      <4>5. k + m \in Numbers(D, e)
        BY <4>3, <4>4 DEF Numbers
      <4> QED BY <4>3, <4>5 DEF Moved
    <3>2. ASSUME NEW k \in Numbers(D, e) PROVE k - m \in Numbers(D1, e1)
      <4>1. PICK d \in D : d =< k /\ k =< e[d]
        BY <3>2 DEF Numbers
      <4>2. k \in Int /\ k \in Offsets
        BY <3>2 DEF Numbers, Offsets
      <4>3. d - m \in D1 /\ d - m =< k - m /\ k - m =< e1[d - m]
        BY <4>1, <4>2, <2>1, <2>2, <2>4
      <4>4. k - m \in Offsets
        BY <4>1, <4>2, <2>1, <2>2, RcvLossListAssumption DEF Offsets
      <4> QED BY <4>3, <4>4 DEF Numbers
    <3> QED BY <3>1, <3>2 DEF Moved
  <2>16. l.length = Cardinality(Numbers(D1, e1))
    BY <2>2, <2>15, MovedCardinality DEF Rep
  <2>17. Rep(l, b1, c1, D1, e1)
    BY <1>0, <2>3, <2>5, <2>9, <2>10, <2>13, <2>14, <2>16 DEF Rep
  <2> QED BY <2>15, <2>17 DEF Rebased, b1
<1> QED BY <1>1, <1>2

-----------------------------------------------------------------------------
(* The list is a set of offsets. *)

\* The list l is the set N of offsets from the number b.
Missing(l, b, N) == \E c, D, e : Rep(l, b, c, D, e) /\ N = Numbers(D, e)

\* What its head tells.
Head(l, b, h) == l.data1[l.head] = Shift(b, h)

\* What m_iLength, m_iHead and the arrays say about the missing numbers.
LEMMA MissingFacts ==
  ASSUME NEW l, NEW b \in SeqNos, NEW N, Missing(l, b, N)
  PROVE  /\ N \subseteq Offsets /\ IsFiniteSet(N) /\ Cardinality(N) \in Nat
         /\ l.length = Cardinality(N) /\ (l.length = 0 <=> N = {})
         /\ Held(l) = On(b, N)
         /\ N # {} => \E h \in N : Head(l, b, h) /\ \A k \in N : h =< k
<1>1. PICK c, D, e : Rep(l, b, c, D, e) /\ N = Numbers(D, e)
  BY DEF Missing
<1>2. IsFiniteSet(N) /\ Cardinality(N) \in Nat
  BY <1>1, NumbersFinite
<1>3. l.length = Cardinality(N)
  BY <1>1 DEF Rep
<1>4. Cardinality(N) = 0 <=> N = {}
  BY <1>2, FS_EmptySet
<1>5. Held(l) = On(b, N)
  BY <1>1, HeldIs
<1>6. ASSUME N # {} PROVE \E h \in N : Head(l, b, h) /\ \A k \in N : h =< k
  <2>1. D # {}
    BY <1>1, <1>6 DEF Numbers
  <2>2. PICK h \in D : First(l, b, c, D, e, h)
    BY <1>1, <2>1, HeadFacts
  <2>3. h \in N /\ Head(l, b, h) /\ \A k \in N : h =< k
    BY <1>1, <2>2 DEF First, Head
  <2> QED BY <2>3
<1>7. N \subseteq Offsets
  BY <1>1 DEF Numbers
<1> QED BY <1>2, <1>3, <1>4, <1>5, <1>6, <1>7

\* RemoveTakesOne, InsertAddsRange and WindowMoves, said of the set of the
\* missing numbers.
LEMMA RemovedMissing ==
  ASSUME NEW l, NEW b \in SeqNos, NEW N, Missing(l, b, N), NEW n \in Offsets
  PROVE  Missing(Removed(l, Shift(b, n)), b, N \ {n})
<1>1. PICK c, D, e : Rep(l, b, c, D, e) /\ N = Numbers(D, e)
  BY DEF Missing
<1>2. PICK D1, e1 : /\ Rep(Removed(l, Shift(b, n)), b, c, D1, e1)
                    /\ Numbers(D1, e1) = Numbers(D, e) \ {n}
  BY <1>1, RemoveTakesOne
<1> QED BY <1>1, <1>2 DEF Missing

LEMMA InsertedMissing ==
  ASSUME NEW l, NEW b \in SeqNos, NEW N, Missing(l, b, N),
         NEW p \in Offsets, NEW q \in Offsets, p =< q, \A k \in N : k < p
  PROVE  Missing(Inserted(l, Shift(b, p), Shift(b, q)), b, N \cup (p .. q))
<1>1. PICK c, D, e : Rep(l, b, c, D, e) /\ N = Numbers(D, e)
  BY DEF Missing
<1>2. Grown(l, b, D, e, p, q)
  BY <1>1, InsertAddsRange
<1> QED BY <1>1, <1>2 DEF Grown, Missing

LEMMA MovedMissing ==
  ASSUME NEW l, NEW b \in SeqNos, NEW N, Missing(l, b, N),
         NEW m \in 0 .. RcvWindow, \A k \in N : m =< k
  PROVE  Missing(l, Shift(b, m), Moved(N, m))
<1>1. PICK c, D, e : Rep(l, b, c, D, e) /\ N = Numbers(D, e)
  BY DEF Missing
<1>2. Rebased(l, b, D, e, m)
  BY <1>1, WindowMoves
<1> QED BY <1>1, <1>2 DEF Rebased, Missing

\* In the list that the constructor makes, nothing is missing.
LEMMA NothingMissing ==
  ASSUME NEW b \in SeqNos
  PROVE  Missing(EmptyList, b, {})
<1> DEFINE e == [k \in Offsets |-> k]
<1>1. Unset \in Int /\ 0 \in Nodes
  <2>1. 0 \in Nodes
    BY RcvLossListAssumption DEF Nodes
  <2> QED BY <2>1 DEF Unset
<1>2. EmptyList \in ListType
  BY <1>1 DEF EmptyList, ListType, Nowhere
<1>3. Numbers({}, e) = {}
  BY DEF Numbers
<1>4. Cardinality(Numbers({}, e)) = 0
  BY <1>3, FS_EmptySet
<1>5. \A k \in Nodes : Place(0, k) \in Nodes
  BY <1>1, PlaceFacts
<1>6. Filled(EmptyList, b, 0, {}, e)
  BY <1>5 DEF Filled, EmptyList, Nowhere
<1>7. /\ EmptyList.length = 0 /\ EmptyList.head = Unset
      /\ Apart({}, e) /\ e \in [Offsets -> Offsets]
  BY DEF EmptyList, Apart
<1> HIDE DEF e
<1>8. Rep(EmptyList, b, 0, {}, e)
  BY <1>1, <1>2, <1>4, <1>6, <1>7 DEF Rep, LinkedUp, LinkedDown, HasHead, HasTail
<1> QED BY <1>3, <1>8 DEF Missing

\* Of the numbers from the one before a window to the one after it, the order
\* is the one of the offsets.
LEMMA WindowOrder ==
  ASSUME NEW b \in SeqNos, NEW j \in -1 .. RcvWindow, NEW k \in -1 .. RcvWindow,
         k - j < SeqNoTH, j - k < SeqNoTH
  PROVE  /\ seqcmp(Shift(b, k), Shift(b, j)) > 0 <=> k > j
         /\ seqcmp(Shift(b, k), Shift(b, j)) =< 0 <=> k =< j
         /\ seqcmp(Shift(b, k), Shift(b, j)) < 0 <=> k < j
<1>1. /\ j \in Int /\ k \in Int /\ k - j \in Int /\ -SeqNoTH < k - j /\ k - j < SeqNoTH
      /\ -1 =< j /\ j =< RcvWindow /\ -1 =< k /\ k =< RcvWindow
      /\ RcvWindow \in Int /\ 1 =< RcvWindow /\ RcvWindow < SeqNoTH
      /\ SeqNoTH \in Int /\ j + (k - j) = k
  BY RcvLossListAssumption, SeqNoAssumption
<1>2. Shift(b, j) \in SeqNos /\ Shift(b, k) \in SeqNos
  BY <1>1, WindowFacts
<1>3. Shift(Shift(b, j), k - j) = Shift(b, k)
  <2>1. -SeqNoTH < j /\ j < SeqNoTH /\ -SeqNoTH < k /\ k < SeqNoTH
    BY <1>1
  <2> DEFINE d == k - j
  <2>2. d \in Int /\ -SeqNoTH < d /\ d < SeqNoTH /\ j + d = k
    BY <1>1
  <2> HIDE DEF d
  <2>3. Shift(Shift(b, j), d) = Shift(b, j + d)
    BY <1>1, <2>1, <2>2, ShiftsAdd
  <2> QED BY <2>2, <2>3 DEF d
<1>4. /\ (seqcmp(Shift(Shift(b, j), k - j), Shift(b, j)) > 0) <=> (k - j > 0)
      /\ (seqcmp(Shift(Shift(b, j), k - j), Shift(b, j)) = 0) <=> (k - j = 0)
  BY <1>1, <1>2, ComparisonIsOrder
<1>5. seqcmp(Shift(b, k), Shift(b, j)) \in Int
  BY <1>2 DEF seqcmp, SeqNos
<1> QED BY <1>1, <1>3, <1>4, <1>5

-----------------------------------------------------------------------------
(* The inductive invariant. *)

DropCall(at, from, to, before) ==
  [loop |-> "drop", at |-> at, from |-> from, to |-> to, before |-> before,
   entries |-> 0, named |-> {}]

ReportCall(at, entries, named) ==
  [loop |-> "report", at |-> at, from |-> Unset, to |-> Unset,
   before |-> EmptyList, entries |-> entries, named |-> named]

\* The loop that drops the numbers from n1 to n2 goes over k.
Dropped(b, n1, n2, k) ==
  n1 =< k /\ k =< n2 /\ ~(Wraps(Shift(b, n1), Shift(b, n2)) /\ Shift(b, k) = MaxSeqNo)

\* The loop from n1 to n2 has come to ka: the numbers before it are gone.
Dropping(b, cur, N, n1, n2, ka, M) ==
  /\ n1 =< ka /\ ka =< n2
  /\ ~(Wraps(Shift(b, n1), Shift(b, n2)) /\ Shift(b, ka) = MaxSeqNo)
  /\ Missing(rcvCall.before, b, M)
  /\ N = {k \in M : ~(Dropped(b, n1, n2, k) /\ k < ka)}
  /\ rcvCall = DropCall(Shift(b, ka), Shift(b, n1), Shift(b, n2), rcvCall.before)

\* The report has come to the node of x: the numbers before it are named.
Reporting(b, N, c, D, e, x) ==
  /\ rcvCall.entries \in Nat /\ rcvCall.entries =< Limit
  /\ \/ /\ x \in D
        /\ rcvCall = ReportCall(Place(c, x), rcvCall.entries, On(b, {k \in N : k < x}))
     \/ rcvCall = ReportCall(Unset, rcvCall.entries, On(b, N))

Calling(b, cur, N) ==
  \/ rcvCall = RcvIdle
  \/ \E n1, n2, ka \in Offsets, M \in SUBSET (0 .. cur) : Dropping(b, cur, N, n1, n2, ka, M)
  \/ rcvCall.loop = "endless"
  \/ \E c, D, e, x : /\ Rep(rcvList, b, c, D, e) /\ N = Numbers(D, e)
                     /\ Reporting(b, N, c, D, e, x)

RcvHolds(b, cur, N) ==
  /\ rcvLastAck = b /\ rcvCurr = Shift(b, cur)
  /\ Missing(rcvList, b, N)
  /\ Calling(b, cur, N)

RcvInductive ==
  \E b \in SeqNos, cur \in -1 .. RcvWindow - 1 :
    \E N \in SUBSET (0 .. cur) : RcvHolds(b, cur, N)

-----------------------------------------------------------------------------
(* Packets arrive and are acknowledged. *)

\* The invariant holds when the connection is set up.
LEMMA RcvInitHolds == RcvInit => RcvInductive
<1> SUFFICES ASSUME RcvInit PROVE RcvInductive
  OBVIOUS
<1>1. rcvLastAck \in SeqNos /\ rcvList = EmptyList /\ rcvCall = RcvIdle
      /\ rcvCurr = decseq(rcvLastAck)
  BY DEF RcvInit
<1>2. rcvCurr = Shift(rcvLastAck, -1)
  BY <1>1, StepsAreShifts
<1>3. Missing(rcvList, rcvLastAck, {})
  BY <1>1, NothingMissing
<1>4. RcvHolds(rcvLastAck, -1, {})
  BY <1>1, <1>2, <1>3 DEF RcvHolds, Calling
<1>5. -1 \in -1 .. RcvWindow - 1
  BY RcvLossListAssumption
<1> QED BY <1>1, <1>4, <1>5 DEF RcvInductive

\* The number after the last that arrived.
LEMMA NextExpected ==
  ASSUME NEW b \in SeqNos, NEW cur \in -1 .. RcvWindow - 1
  PROVE  incseq(Shift(b, cur)) = Shift(b, cur + 1)
<1>1. CASE cur = -1
  <2>1. incseq(decseq(b)) = b /\ decseq(b) = Shift(b, -1)
    BY StepsAreShifts
  <2>2. Shift(b, 0) = b
    BY SeqNoAssumption DEF Shift, SeqNos
  <2> QED BY <1>1, <2>1, <2>2
<1>2. CASE cur # -1
  <2>1. cur \in 0 .. RcvWindow
    BY <1>2, RcvLossListAssumption
  <2> QED BY <2>1, Along
<1> QED BY <1>1, <1>2

\* The three ways in which a packet of the window can arrive.
ArriveGoes(b, cur, n, l, m, r) ==
  \/ /\ n > cur + 1 /\ r = Shift(b, n)
     /\ m = Inserted(l, Shift(b, cur + 1), Shift(b, n - 1))
  \/ n = cur + 1 /\ r = Shift(b, n) /\ m = l
  \/ n =< cur /\ r = Shift(b, cur) /\ m = Removed(l, Shift(b, n))

\* processData, in offsets: it inserts, goes on by one or removes.
LEMMA ArriveCases ==
  ASSUME NEW b \in SeqNos, NEW cur \in -1 .. RcvWindow - 1, NEW n \in 0 .. RcvWindow - 1,
         rcvLastAck = b, rcvCurr = Shift(b, cur), Arrive(n)
  PROVE  /\ ArriveGoes(b, cur, n, rcvList, rcvList', rcvCurr')
         /\ rcvCall = RcvIdle /\ rcvCall' = RcvIdle /\ rcvLastAck' = b
         /\ rcvAnswer' = IF n > cur THEN rcvList'.length - rcvList.length
                         ELSE rcvList.length - rcvList'.length
<1>0. /\ n \in Int /\ cur \in Int /\ 0 =< n /\ n < RcvWindow /\ -1 =< cur /\ cur < RcvWindow
      /\ RcvWindow \in Int /\ SeqNoTH \in Int /\ RcvWindow < SeqNoTH
      /\ n \in -1 .. RcvWindow /\ cur \in -1 .. RcvWindow /\ cur + 1 \in -1 .. RcvWindow
      /\ n \in 0 .. RcvWindow
      /\ n - cur < SeqNoTH /\ cur - n < SeqNoTH
      /\ n - (cur + 1) < SeqNoTH /\ (cur + 1) - n < SeqNoTH
  BY RcvLossListAssumption, SeqNoAssumption
<1> DEFINE seq == Shift(b, n)
           nxt == Shift(b, cur + 1)
           now == Shift(b, cur)
<1>1. seqcmp(seq, nxt) > 0 <=> n > cur + 1
  <2> DEFINE j == cur + 1
  <2>1. j \in -1 .. RcvWindow /\ n - j < SeqNoTH /\ j - n < SeqNoTH
    BY <1>0
  <2> HIDE DEF j
  <2>2. seqcmp(Shift(b, n), Shift(b, j)) > 0 <=> n > j
    BY <2>1, <1>0, WindowOrder
  <2> QED BY <2>2 DEF j
<1>2. seqcmp(seq, now) > 0 <=> n > cur
  BY <1>0, WindowOrder
<1>3. incseq(rcvCurr) = nxt
  BY NextExpected
<1>4. decseq(seq) = Shift(b, n - 1)
  BY <1>0, Along
<1>5. /\ rcvCall = RcvIdle /\ rcvCall' = RcvIdle /\ rcvLastAck' = b
      /\ rcvList' = IF seqcmp(seq, nxt) > 0
                    THEN Inserted(rcvList, nxt, Shift(b, n - 1))
                    ELSE IF seqcmp(seq, now) > 0 THEN rcvList
                    ELSE Removed(rcvList, seq)
      /\ rcvCurr' = IF seqcmp(seq, now) > 0 THEN seq ELSE now
      /\ rcvAnswer' = IF seqcmp(seq, now) > 0
                      THEN rcvList'.length - rcvList.length
                      ELSE rcvList.length - rcvList'.length
  BY <1>3, <1>4 DEF Arrive, InWindow
<1> HIDE DEF seq, nxt, now
<1>6. rcvAnswer' = IF n > cur THEN rcvList'.length - rcvList.length
                   ELSE rcvList.length - rcvList'.length
  BY <1>2, <1>5
<1>7. CASE n > cur + 1
  <2>1. n > cur
    BY <1>0, <1>7
  <2> QED BY <2>1, <1>1, <1>2, <1>5, <1>6, <1>7 DEF ArriveGoes, seq, nxt
<1>8. CASE n = cur + 1
  <2>1. n > cur /\ ~(n > cur + 1)
    BY <1>0, <1>8
  <2> QED BY <2>1, <1>1, <1>2, <1>5, <1>6, <1>8 DEF ArriveGoes, seq, nxt
<1>9. CASE n =< cur
  <2>1. ~(n > cur) /\ ~(n > cur + 1)
    BY <1>0, <1>9
  <2> QED BY <2>1, <1>1, <1>2, <1>5, <1>6, <1>9 DEF ArriveGoes, seq, now
<1> QED BY <1>0, <1>7, <1>8, <1>9

\* What a step has to leave for the invariant to hold.
LEMMA StepHolds ==
  ASSUME NEW b1 \in SeqNos, NEW cur1 \in -1 .. RcvWindow - 1, NEW N1 \in SUBSET (0 .. cur1),
         rcvLastAck' = b1, rcvCurr' = Shift(b1, cur1),
         Missing(rcvList', b1, N1), Calling(b1, cur1, N1)'
  PROVE  RcvInductive'
<1>1. RcvHolds(b1, cur1, N1)'
  BY DEF RcvHolds
<1> QED BY <1>1 DEF RcvInductive

\* A packet that arrives keeps the invariant.
LEMMA ArriveHolds ==
  ASSUME NEW b \in SeqNos, NEW cur \in -1 .. RcvWindow - 1, NEW N \in SUBSET (0 .. cur),
         RcvHolds(b, cur, N), NEW n \in 0 .. RcvWindow - 1, Arrive(n)
  PROVE  RcvInductive'
<1>1. rcvLastAck = b /\ rcvCurr = Shift(b, cur) /\ Missing(rcvList, b, N)
  BY DEF RcvHolds
<1>2. /\ ArriveGoes(b, cur, n, rcvList, rcvList', rcvCurr')
      /\ rcvCall' = RcvIdle /\ rcvLastAck' = b
  BY <1>1, ArriveCases
<1>3. \A cur1, N1 : Calling(b, cur1, N1)'
  BY <1>2 DEF Calling
<1>4. CASE n > cur + 1 /\ rcvCurr' = Shift(b, n)
           /\ rcvList' = Inserted(rcvList, Shift(b, cur + 1), Shift(b, n - 1))
  <2> DEFINE p == cur + 1
             q == n - 1
  <2>1. p \in Offsets /\ q \in Offsets /\ p =< q /\ \A k \in N : k < p
    BY <1>4, RcvLossListAssumption DEF Offsets
  <2>2. N \cup (p .. q) \in SUBSET (0 .. n) /\ n \in -1 .. RcvWindow - 1
    BY <1>4, RcvLossListAssumption
  <2> HIDE DEF p, q
  <2>3. Missing(Inserted(rcvList, Shift(b, p), Shift(b, q)), b, N \cup (p .. q))
    BY <1>1, <2>1, InsertedMissing
  <2>4. Missing(rcvList', b, N \cup (p .. q))
    BY <2>3, <1>4 DEF p, q
  <2> QED BY <1>2, <1>3, <1>4, <2>2, <2>4, StepHolds
<1>5. CASE n = cur + 1 /\ rcvCurr' = Shift(b, n) /\ rcvList' = rcvList
  <2>1. N \in SUBSET (0 .. n) /\ n \in -1 .. RcvWindow - 1
    BY <1>5, RcvLossListAssumption
  <2> QED BY <1>1, <1>2, <1>3, <1>5, <2>1, StepHolds
<1>6. CASE n =< cur /\ rcvCurr' = Shift(b, cur) /\ rcvList' = Removed(rcvList, Shift(b, n))
  <2>1. Missing(rcvList', b, N \ {n})
    BY <1>1, <1>6, RemovedMissing DEF Offsets
  <2>2. N \ {n} \in SUBSET (0 .. cur)
    OBVIOUS
  <2> QED BY <1>2, <1>3, <1>6, <2>1, <2>2, StepHolds
<1> QED BY <1>2, <1>4, <1>5, <1>6 DEF ArriveGoes

\* An ACK moves m_iRcvLastAck to the first missing number: the offsets are
\* counted from there.
LEMMA SendAckHolds ==
  ASSUME NEW b \in SeqNos, NEW cur \in -1 .. RcvWindow - 1, NEW N \in SUBSET (0 .. cur),
         RcvHolds(b, cur, N), SendAck
  PROVE  RcvInductive'
<1>1. rcvLastAck = b /\ rcvCurr = Shift(b, cur) /\ Missing(rcvList, b, N)
  BY DEF RcvHolds
<1>2. rcvList' = rcvList /\ rcvCall' = RcvIdle /\ rcvCurr' = rcvCurr
  BY DEF SendAck
<1>3. \A b1, cur1, N1 : Calling(b1, cur1, N1)'
  BY <1>2 DEF Calling
<1>4. \E m \in 0 .. cur + 1 : rcvLastAck' = Shift(b, m) /\ \A k \in N : m =< k
  <2>1. CASE N = {}
    <3>1. rcvLastAck' = Shift(b, cur + 1)
      BY <1>1, <2>1, MissingFacts, NextExpected DEF SendAck
    <3>2. cur + 1 \in 0 .. cur + 1
      OBVIOUS
    <3> QED BY <2>1, <3>1, <3>2
  <2>2. CASE N # {}
    <3>1. rcvList.length # 0 /\ \E h \in N : Head(rcvList, b, h) /\ \A k \in N : h =< k
      BY <1>1, <2>2, MissingFacts
    <3>2. PICK h \in N : Head(rcvList, b, h) /\ \A k \in N : h =< k
      BY <3>1
    <3>3. rcvLastAck' = Shift(b, h)
      BY <3>1, <3>2 DEF SendAck, Head
    <3>4. h \in 0 .. cur + 1
      OBVIOUS
    <3> QED BY <3>2, <3>3, <3>4
  <2> QED BY <2>1, <2>2
<1>5. PICK m \in 0 .. cur + 1 : rcvLastAck' = Shift(b, m) /\ \A k \in N : m =< k
  BY <1>4
<1> DEFINE b1 == Shift(b, m)
           cur1 == cur - m
<1>6. /\ m \in 0 .. RcvWindow /\ m \in Int /\ -SeqNoTH < m /\ m < SeqNoTH
      /\ cur1 \in -1 .. RcvWindow - 1 /\ -SeqNoTH < cur1 /\ cur1 < SeqNoTH
      /\ m + cur1 = cur /\ -SeqNoTH < cur /\ cur < SeqNoTH /\ cur1 \in Int
  BY RcvLossListAssumption, SeqNoAssumption
<1>7. b1 \in SeqNos
  <2>1. m \in Int /\ -RcvWindow =< m /\ m =< RcvWindow
    BY <1>6, RcvLossListAssumption
  <2> QED BY <2>1, WindowFacts
<1>8. Moved(N, m) \in SUBSET (0 .. cur1)
  BY <1>5, <1>6 DEF Moved
<1>9. Missing(rcvList, b1, Moved(N, m))
  BY <1>1, <1>5, <1>6, MovedMissing
<1>10. Shift(b1, cur1) = Shift(b, cur)
  <2> HIDE DEF cur1
  <2>1. Shift(Shift(b, m), cur1) = Shift(b, m + cur1)
    BY <1>6, ShiftsAdd
  <2> QED BY <2>1, <1>6
<1>11. rcvLastAck' = b1 /\ rcvCurr' = Shift(b1, cur1) /\ Missing(rcvList', b1, Moved(N, m))
  BY <1>1, <1>2, <1>5, <1>9, <1>10
<1> HIDE DEF b1, cur1
<1> QED BY <1>3, <1>6, <1>7, <1>8, <1>11, StepHolds

-----------------------------------------------------------------------------
(* A range is removed. *)

\* What the loop of the removal of a range skips is only MaxSeqNo.
LEMMA RangeBegins ==
  ASSUME NEW b \in SeqNos, NEW n1 \in Offsets, NEW n2 \in Offsets, n1 =< n2
  PROVE  \E ka \in n1 .. n2 :
           /\ FirstOfRange(Shift(b, n1), Shift(b, n2)) = Shift(b, ka)
           /\ ~(Wraps(Shift(b, n1), Shift(b, n2)) /\ Shift(b, ka) = MaxSeqNo)
           /\ \A k \in Offsets : k < ka => ~Dropped(b, n1, n2, k)
<1>0. /\ b \in Int /\ 0 =< b /\ b =< MaxSeqNo /\ MaxSeqNo \in Int /\ MaxSeqNo = 2 * SeqNoTH + 1
      /\ SeqNoTH \in Int /\ n1 \in Int /\ n2 \in Int /\ 0 =< n1 /\ n2 < SeqNoTH
  BY RcvLossListAssumption, SeqNoAssumption DEF Offsets, SeqNos
<1>1. CASE Wraps(Shift(b, n1), Shift(b, n2)) /\ Shift(b, n1) = MaxSeqNo
  <2>1. n1 + 1 \in n1 .. n2 /\ Shift(b, n1 + 1) = 0
    BY <1>0, <1>1 DEF Wraps, Shift
  <2>2. FirstOfRange(Shift(b, n1), Shift(b, n2)) = 0 /\ MaxSeqNo # 0
    BY <1>0, <1>1 DEF FirstOfRange
  <2>3. ASSUME NEW k \in Offsets, k < n1 + 1 PROVE ~Dropped(b, n1, n2, k)
    <3>1. k \in Int
      BY DEF Offsets
    <3>2. n1 =< k => k = n1
      BY <1>0, <2>3, <3>1
    <3> QED BY <1>1, <3>2 DEF Dropped
  <2> QED BY <2>1, <2>2, <2>3
<1>2. CASE ~(Wraps(Shift(b, n1), Shift(b, n2)) /\ Shift(b, n1) = MaxSeqNo)
  <2>1. n1 \in n1 .. n2 /\ FirstOfRange(Shift(b, n1), Shift(b, n2)) = Shift(b, n1)
    BY <1>0, <1>2 DEF FirstOfRange
  <2>2. ASSUME NEW k \in Offsets, k < n1 PROVE ~Dropped(b, n1, n2, k)
    BY <1>0, <2>2 DEF Dropped, Offsets
  <2> QED BY <1>2, <2>1, <2>2
<1> QED BY <1>1, <1>2

\* A turn of the loop of remove(seqno1, seqno2) goes on to the next number of
\* the range, and past m_iMaxSeqNo when the range wraps round.
LEMMA RangeGoesOn ==
  ASSUME NEW b \in SeqNos, NEW n1 \in Offsets, NEW n2 \in Offsets, NEW ka \in Offsets,
         n1 =< ka, ka < n2,
         ~(Wraps(Shift(b, n1), Shift(b, n2)) /\ Shift(b, ka) = MaxSeqNo)
  PROVE  \E kb \in ka + 1 .. n2 :
           /\ NextOfRange(Shift(b, n1), Shift(b, n2), Shift(b, ka)) = Shift(b, kb)
           /\ ~(Wraps(Shift(b, n1), Shift(b, n2)) /\ Shift(b, kb) = MaxSeqNo)
           /\ \A k \in Offsets : ka < k /\ k < kb => ~Dropped(b, n1, n2, k)
<1>0. /\ b \in Int /\ 0 =< b /\ b =< MaxSeqNo /\ MaxSeqNo \in Int /\ MaxSeqNo = 2 * SeqNoTH + 1
      /\ SeqNoTH \in Int /\ n1 \in Int /\ n2 \in Int /\ 0 =< n1 /\ n2 < SeqNoTH /\ ka \in Int
  BY RcvLossListAssumption, SeqNoAssumption DEF Offsets, SeqNos
<1>1. CASE Wraps(Shift(b, n1), Shift(b, n2)) /\ Shift(b, ka) = MaxSeqNo - 1
  <2>1. ka + 2 \in ka + 1 .. n2 /\ Shift(b, ka + 2) = 0 /\ Shift(b, ka + 1) = MaxSeqNo
    BY <1>0, <1>1 DEF Wraps, Shift
  <2>2. NextOfRange(Shift(b, n1), Shift(b, n2), Shift(b, ka)) = 0 /\ MaxSeqNo # 0
    BY <1>0, <1>1 DEF NextOfRange
  <2>3. ASSUME NEW k \in Offsets, ka < k, k < ka + 2 PROVE ~Dropped(b, n1, n2, k)
    <3>1. k \in Int
      BY DEF Offsets
    <3>2. k = ka + 1
      BY <1>0, <2>3, <3>1
    <3> QED BY <1>1, <2>1, <3>2 DEF Dropped
  <2> QED BY <2>1, <2>2, <2>3
<1>2. CASE ~(Wraps(Shift(b, n1), Shift(b, n2)) /\ Shift(b, ka) = MaxSeqNo - 1)
  <2>1. ka + 1 \in ka + 1 .. n2
    BY <1>0
  <2>2. NextOfRange(Shift(b, n1), Shift(b, n2), Shift(b, ka)) = Shift(b, ka) + 1
    BY <1>2 DEF NextOfRange
  <2>3. Shift(b, ka) # MaxSeqNo
    BY <1>0 DEF Wraps, Shift
  <2>4. Shift(b, ka) + 1 = Shift(b, ka + 1)
    BY <2>3, <1>0 DEF Shift
  <2>5. ~(Wraps(Shift(b, n1), Shift(b, n2)) /\ Shift(b, ka + 1) = MaxSeqNo)
    <3>1. Shift(b, ka + 1) = MaxSeqNo => Shift(b, ka) = MaxSeqNo - 1
      BY <2>4, <1>0 DEF Shift
    <3> QED BY <3>1, <1>2
  <2>6. ASSUME NEW k \in Offsets, ka < k, k < ka + 1 PROVE FALSE
    BY <2>6, <1>0 DEF Offsets
  <2> QED BY <2>1, <2>2, <2>4, <2>5, <2>6
<1> QED BY <1>1, <1>2

\* remove(seqno1, seqno2) is called: nothing is gone yet.
LEMMA BeginDropHolds ==
  ASSUME NEW b \in SeqNos, NEW cur \in -1 .. RcvWindow - 1, NEW N \in SUBSET (0 .. cur),
         RcvHolds(b, cur, N), NEW n1 \in 0 .. RcvWindow - 1, NEW n2 \in 0 .. RcvWindow - 1,
         BeginDrop(n1, n2)
  PROVE  RcvInductive'
<1>1. rcvLastAck = b /\ rcvCurr = Shift(b, cur) /\ Missing(rcvList, b, N)
  BY DEF RcvHolds
<1>2. /\ n1 =< n2 /\ rcvList' = rcvList /\ rcvLastAck' = b /\ rcvCurr' = rcvCurr
      /\ rcvCall' = DropCall(FirstOfRange(Shift(b, n1), Shift(b, n2)),
                             Shift(b, n1), Shift(b, n2), rcvList)
  BY <1>1 DEF BeginDrop, InWindow, RcvIdle, DropCall
<1>3. n1 \in Offsets /\ n2 \in Offsets /\ n1 \in Int /\ n2 \in Int /\ N \subseteq Offsets
  BY RcvLossListAssumption DEF Offsets
<1>4. PICK ka \in n1 .. n2 :
        /\ FirstOfRange(Shift(b, n1), Shift(b, n2)) = Shift(b, ka)
        /\ ~(Wraps(Shift(b, n1), Shift(b, n2)) /\ Shift(b, ka) = MaxSeqNo)
        /\ \A k \in Offsets : k < ka => ~Dropped(b, n1, n2, k)
  BY <1>2, <1>3, RangeBegins
<1>5. ka \in Offsets /\ n1 =< ka /\ ka =< n2
  BY <1>3, RcvLossListAssumption DEF Offsets
<1>6. rcvCall'.before = rcvList
  BY <1>2 DEF DropCall
<1>7. N = {k \in N : ~(Dropped(b, n1, n2, k) /\ k < ka)}
  BY <1>3, <1>4
<1>8. Dropping(b, cur, N, n1, n2, ka, N)'
  BY <1>1, <1>2, <1>4, <1>5, <1>6, <1>7 DEF Dropping
<1>9. Calling(b, cur, N)'
  BY <1>3, <1>5, <1>8 DEF Calling
<1> QED BY <1>1, <1>2, <1>9, StepHolds

\* Which loop runs is told by its name.
LEMMA CallingDrop ==
  ASSUME NEW b, NEW cur, NEW N, Calling(b, cur, N), rcvCall.loop = "drop"
  PROVE  \E n1, n2, ka \in Offsets, M \in SUBSET (0 .. cur) :
           Dropping(b, cur, N, n1, n2, ka, M)
<1>1. RcvIdle.loop = "none"
  BY DEF RcvIdle
<1>2. \A c, D, e, x : Reporting(b, N, c, D, e, x) => rcvCall.loop = "report"
  BY DEF Reporting, ReportCall
<1> QED BY <1>1, <1>2 DEF Calling

\* In the loop of getLossArray, the invariant says how far it has come.
LEMMA CallingReport ==
  ASSUME NEW b, NEW cur, NEW N, Calling(b, cur, N), rcvCall.loop = "report"
  PROVE  \E c, D, e, x : /\ Rep(rcvList, b, c, D, e) /\ N = Numbers(D, e)
                         /\ Reporting(b, N, c, D, e, x)
<1>1. RcvIdle.loop = "none"
  BY DEF RcvIdle
<1>2. \A n1, n2, ka, M : Dropping(b, cur, N, n1, n2, ka, M) => rcvCall.loop = "drop"
  BY DEF Dropping, DropCall
<1> QED BY <1>1, <1>2 DEF Calling

\* A turn of the loop takes out its number: the earlier ones are gone.
LEMMA DropOneHolds ==
  ASSUME NEW b \in SeqNos, NEW cur \in -1 .. RcvWindow - 1, NEW N \in SUBSET (0 .. cur),
         RcvHolds(b, cur, N), DropOne
  PROVE  RcvInductive'
<1>1. /\ rcvLastAck = b /\ rcvCurr = Shift(b, cur) /\ Missing(rcvList, b, N)
      /\ Calling(b, cur, N)
  BY DEF RcvHolds
<1>2. PICK n1, n2, ka \in Offsets, M \in SUBSET (0 .. cur) :
        Dropping(b, cur, N, n1, n2, ka, M)
  BY <1>1, CallingDrop DEF DropOne
<1>3. /\ n1 =< ka /\ ka =< n2
      /\ ~(Wraps(Shift(b, n1), Shift(b, n2)) /\ Shift(b, ka) = MaxSeqNo)
      /\ Missing(rcvCall.before, b, M)
      /\ N = {k \in M : ~(Dropped(b, n1, n2, k) /\ k < ka)}
      /\ rcvCall = DropCall(Shift(b, ka), Shift(b, n1), Shift(b, n2), rcvCall.before)
  BY <1>2 DEF Dropping
<1>4. /\ rcvList' = Removed(rcvList, Shift(b, ka)) /\ rcvLastAck' = b /\ rcvCurr' = rcvCurr
      /\ Shift(b, ka) # Shift(b, n2)
      /\ rcvCall' = DropCall(NextOfRange(Shift(b, n1), Shift(b, n2), Shift(b, ka)),
                             Shift(b, n1), Shift(b, n2), rcvCall.before)
      /\ rcvCall'.before = rcvCall.before
  BY <1>1, <1>3 DEF DropOne, DropCall
<1>5. ka < n2 /\ ka \in Int /\ n1 \in Int /\ n2 \in Int
  <2>1. ka # n2
    BY <1>4
  <2> QED BY <2>1, <1>3 DEF Offsets
<1>6. PICK kb \in ka + 1 .. n2 :
        /\ NextOfRange(Shift(b, n1), Shift(b, n2), Shift(b, ka)) = Shift(b, kb)
        /\ ~(Wraps(Shift(b, n1), Shift(b, n2)) /\ Shift(b, kb) = MaxSeqNo)
        /\ \A k \in Offsets : ka < k /\ k < kb => ~Dropped(b, n1, n2, k)
  BY <1>3, <1>5, RangeGoesOn
<1>7. kb \in Offsets /\ n1 =< kb /\ kb =< n2 /\ ka < kb /\ kb \in Int
  BY <1>3, <1>5, RcvLossListAssumption DEF Offsets
<1>8. Missing(rcvList', b, N \ {ka})
  BY <1>1, <1>4, RemovedMissing
<1>9. N \ {ka} = {k \in M : ~(Dropped(b, n1, n2, k) /\ k < kb)}
  <2>1. Dropped(b, n1, n2, ka)
    BY <1>3 DEF Dropped
  <2>2. \A k \in M : k \in Int /\ k \in Offsets
    BY RcvLossListAssumption DEF Offsets
  <2>3. ASSUME NEW k \in M
        PROVE  Dropped(b, n1, n2, k) /\ k < kb
                 <=> (Dropped(b, n1, n2, k) /\ k < ka) \/ k = ka
    BY <2>1, <2>2, <1>5, <1>6, <1>7
  <2> QED BY <2>3, <1>3
<1>10. Dropping(b, cur, N \ {ka}, n1, n2, kb, M)'
  BY <1>3, <1>4, <1>6, <1>7, <1>9 DEF Dropping
<1>11. Calling(b, cur, N \ {ka})'
  BY <1>7, <1>10 DEF Calling
<1>12. N \ {ka} \in SUBSET (0 .. cur)
  OBVIOUS
<1> QED BY <1>1, <1>4, <1>8, <1>11, <1>12, StepHolds

\* The loop that does not end has left the list as it should be.
LEMMA DropForEverHolds ==
  ASSUME NEW b \in SeqNos, NEW cur \in -1 .. RcvWindow - 1, NEW N \in SUBSET (0 .. cur),
         RcvHolds(b, cur, N), DropForEver
  PROVE  RcvInductive'
<1>1. /\ rcvLastAck = b /\ rcvCurr = Shift(b, cur) /\ Missing(rcvList, b, N)
      /\ Calling(b, cur, N)
  BY DEF RcvHolds
<1>2. PICK n1, n2, ka \in Offsets, M \in SUBSET (0 .. cur) :
        Dropping(b, cur, N, n1, n2, ka, M)
  BY <1>1, CallingDrop DEF DropForEver
<1>3. /\ rcvList' = Removed(rcvList, Shift(b, ka)) /\ rcvLastAck' = b /\ rcvCurr' = rcvCurr
      /\ rcvCall'.loop = "endless"
  BY <1>1, <1>2 DEF DropForEver, Dropping, DropCall
<1>4. Missing(rcvList', b, N \ {ka})
  BY <1>1, <1>3, RemovedMissing
<1>5. Calling(b, cur, N \ {ka})'
  BY <1>3 DEF Calling
<1>6. N \ {ka} \in SUBSET (0 .. cur)
  OBVIOUS
<1> QED BY <1>1, <1>3, <1>4, <1>5, <1>6, StepHolds

\* At the end of the loop the numbers of the range are gone.
DropEnds(b, cur, N, n1, n2, M) ==
  /\ n1 \in Offsets /\ n2 \in Offsets /\ n1 =< n2 /\ M \in SUBSET (0 .. cur)
  /\ Missing(rcvCall.before, b, M)
  /\ rcvCall.loop = "drop" /\ rcvCall.from = Shift(b, n1) /\ rcvCall.to = Shift(b, n2)
  /\ Missing(rcvList', b, {k \in M : ~Dropped(b, n1, n2, k)})
  /\ \E cur1 \in cur .. RcvWindow - 1 : rcvCurr' = Shift(b, cur1)

\* The last turn leaves what was missing before the call without the range.
LEMMA DropLastEnds ==
  ASSUME NEW b \in SeqNos, NEW cur \in -1 .. RcvWindow - 1, NEW N \in SUBSET (0 .. cur),
         RcvHolds(b, cur, N), DropLast
  PROVE  \E n1, n2, M : DropEnds(b, cur, N, n1, n2, M)
<1>1. /\ rcvLastAck = b /\ rcvCurr = Shift(b, cur) /\ Missing(rcvList, b, N)
      /\ Calling(b, cur, N)
  BY DEF RcvHolds
<1>2. PICK n1, n2, ka \in Offsets, M \in SUBSET (0 .. cur) :
        Dropping(b, cur, N, n1, n2, ka, M)
  BY <1>1, CallingDrop DEF DropLast
<1>3. /\ n1 =< ka /\ ka =< n2
      /\ ~(Wraps(Shift(b, n1), Shift(b, n2)) /\ Shift(b, ka) = MaxSeqNo)
      /\ Missing(rcvCall.before, b, M)
      /\ N = {k \in M : ~(Dropped(b, n1, n2, k) /\ k < ka)}
      /\ rcvCall = DropCall(Shift(b, ka), Shift(b, n1), Shift(b, n2), rcvCall.before)
  BY <1>2 DEF Dropping
<1>4. /\ rcvCall.loop = "drop" /\ rcvCall.from = Shift(b, n1) /\ rcvCall.to = Shift(b, n2)
      /\ rcvCall.at = Shift(b, ka)
  BY <1>3 DEF DropCall
<1>5. rcvList' = Removed(rcvList, Shift(b, ka)) /\ Shift(b, ka) = Shift(b, n2)
  BY <1>4 DEF DropLast
<1>6. ka = n2 /\ n1 \in Int /\ n2 \in Int /\ n1 =< n2
  <2>1. ka \in 0 .. RcvWindow /\ n2 \in 0 .. RcvWindow
    BY RcvLossListAssumption DEF Offsets
  <2>2. ka = n2
    BY <1>5, <2>1, WindowFacts
  <2> QED BY <2>2, <1>3 DEF Offsets
<1>7. Missing(rcvList', b, N \ {n2})
  BY <1>1, <1>5, <1>6, RemovedMissing
<1>8. N \ {n2} = {k \in M : ~Dropped(b, n1, n2, k)}
  <2>1. Dropped(b, n1, n2, n2)
    BY <1>3, <1>6 DEF Dropped
  <2>2. \A k \in M : k \in Int
    OBVIOUS
  <2>3. ASSUME NEW k \in M
        PROVE  Dropped(b, n1, n2, k) <=> (Dropped(b, n1, n2, k) /\ k < n2) \/ k = n2
    <3>1. Dropped(b, n1, n2, k) => k =< n2
      BY DEF Dropped
    <3> QED BY <2>1, <2>2, <3>1, <1>6
  <2> QED BY <2>3, <1>3, <1>6
<1>9. \E cur1 \in cur .. RcvWindow - 1 : rcvCurr' = Shift(b, cur1)
  <2>1. \/ rcvCurr' = rcvCurr
        \/ rcvCurr' = Shift(b, n2) /\ seqcmp(Shift(b, n2), Shift(b, cur)) > 0
    <3> DEFINE goes == /\ seqcmp(rcvCall.from, incseq(rcvCurr)) =< 0
                       /\ seqcmp(rcvCall.to, rcvCurr) > 0
    <3>1. rcvCurr' = IF goes THEN rcvCall.to ELSE rcvCurr
      BY DEF DropLast
    <3>2. goes => seqcmp(Shift(b, n2), Shift(b, cur)) > 0
      BY <1>1, <1>4
    <3>3. CASE goes
      <4>1. rcvCurr' = rcvCall.to
        BY <3>1, <3>3
      <4> QED BY <3>2, <3>3, <4>1, <1>4
    <3>4. CASE ~goes
      <4>1. rcvCurr' = rcvCurr
        BY <3>1, <3>4
      <4> QED BY <4>1
    <3> QED BY <3>3, <3>4
  <2>2. CASE rcvCurr' = rcvCurr
    <3>1. cur \in cur .. RcvWindow - 1
      BY RcvLossListAssumption
    <3> QED BY <2>2, <3>1, <1>1
  <2>3. CASE rcvCurr' = Shift(b, n2) /\ seqcmp(Shift(b, n2), Shift(b, cur)) > 0
    <3>1. /\ n2 \in -1 .. RcvWindow /\ cur \in -1 .. RcvWindow
          /\ n2 - cur < SeqNoTH /\ cur - n2 < SeqNoTH
      BY RcvLossListAssumption, SeqNoAssumption DEF Offsets
    <3>2. n2 > cur
      BY <2>3, <3>1, WindowOrder
    <3>3. n2 \in cur .. RcvWindow - 1
      BY <3>2, RcvLossListAssumption DEF Offsets
    <3> QED BY <2>3, <3>3
  <2> QED BY <2>1, <2>2, <2>3
<1>10. DropEnds(b, cur, N, n1, n2, M)
  BY <1>3, <1>4, <1>6, <1>7, <1>8, <1>9 DEF DropEnds
<1> QED BY <1>10

\* After the last turn m_iRcvCurrSeqNo is no smaller than before.
LEMMA DropLastHolds ==
  ASSUME NEW b \in SeqNos, NEW cur \in -1 .. RcvWindow - 1, NEW N \in SUBSET (0 .. cur),
         RcvHolds(b, cur, N), DropLast
  PROVE  RcvInductive'
<1>1. rcvLastAck' = b /\ rcvCall' = RcvIdle
  BY DEF DropLast, RcvHolds
<1>2. PICK n1, n2, M : DropEnds(b, cur, N, n1, n2, M)
  BY DropLastEnds
<1>3. PICK cur1 \in cur .. RcvWindow - 1 : rcvCurr' = Shift(b, cur1)
  BY <1>2 DEF DropEnds
<1> DEFINE N1 == {k \in M : ~Dropped(b, n1, n2, k)}
<1>4. Missing(rcvList', b, N1)
  BY <1>2 DEF DropEnds
<1>5. cur1 \in -1 .. RcvWindow - 1 /\ N1 \in SUBSET (0 .. cur1)
  <2>1. M \in SUBSET (0 .. cur)
    BY <1>2 DEF DropEnds
  <2>2. cur1 \in Int /\ cur =< cur1 /\ cur1 \in -1 .. RcvWindow - 1
    BY RcvLossListAssumption
  <2>3. \A k \in M : k \in 0 .. cur1
    BY <2>1, <2>2
  <2> QED BY <2>2, <2>3
<1> HIDE DEF N1
<1>6. Calling(b, cur1, N1)'
  BY <1>1 DEF Calling
<1> QED BY <1>1, <1>3, <1>4, <1>5, <1>6, StepHolds

-----------------------------------------------------------------------------
(* A report is made. *)

\* getLossArray begins at m_iHead with no entry.
LEMMA BeginReportHolds ==
  ASSUME NEW b \in SeqNos, NEW cur \in -1 .. RcvWindow - 1, NEW N \in SUBSET (0 .. cur),
         RcvHolds(b, cur, N), BeginReport
  PROVE  RcvInductive'
<1>1. rcvLastAck = b /\ rcvCurr = Shift(b, cur) /\ Missing(rcvList, b, N)
  BY DEF RcvHolds
<1>2. /\ rcvList' = rcvList /\ rcvLastAck' = b /\ rcvCurr' = rcvCurr
      /\ rcvCall' = ReportCall(rcvList.head, 0, {}) /\ rcvCall'.entries = 0
  BY <1>1 DEF BeginReport, RcvIdle, ReportCall
<1>3. PICK c, D, e : Rep(rcvList, b, c, D, e) /\ N = Numbers(D, e)
  BY <1>1 DEF Missing
<1>4. D # {}
  <2>1. rcvList.length # 0
    BY <1>1, MissingFacts DEF BeginReport
  <2> QED BY <2>1, <1>3, EmptyOrNot
<1>5. PICK h \in D : First(rcvList, b, c, D, e, h)
  BY <1>3, <1>4, HeadFacts
<1>6. rcvList.head = Place(c, h) /\ \A k \in N : h =< k
  BY <1>3, <1>5 DEF First
<1>7. {k \in N : k < h} = {}
  <2>1. h \in Int /\ \A k \in N : k \in Int
    BY <1>3 DEF Rep, Numbers, Offsets
  <2>2. ASSUME NEW k \in N, k < h PROVE FALSE
    <3>1. h =< k
      BY <1>6
    <3> QED BY <3>1, <2>1, <2>2
  <2> QED BY <2>2
<1>8. On(b, {k \in N : k < h}) = {}
  BY <1>7 DEF On
<1>9. Reporting(b, N, c, D, e, h)'
  <2>1. rcvCall' = ReportCall(Place(c, h), rcvCall'.entries, On(b, {k \in N : k < h}))
    BY <1>2, <1>6, <1>8
  <2>2. rcvCall'.entries \in Nat /\ rcvCall'.entries =< Limit
    BY <1>2, RcvLossListAssumption
  <2> QED BY <2>1, <2>2 DEF Reporting
<1>10. Rep(rcvList', b, c, D, e)
  BY <1>2, <1>3
<1>11. Calling(b, cur, N)'
  BY <1>3, <1>9, <1>10 DEF Calling
<1> QED BY <1>1, <1>2, <1>11, StepHolds

\* When the report goes on behind the node of x, S is all that is named.
Names(D, e, x, S) ==
  /\ (\A f \in D : f =< x) => S = Numbers(D, e)
  /\ \A f \in D : Follows(D, x, f) => S = {k \in Numbers(D, e) : k < f}

\* What has been named when the report goes on behind the node of x.
LEMMA NamedSoFar ==
  ASSUME NEW l, NEW b \in SeqNos, NEW c, NEW D, NEW e, Rep(l, b, c, D, e), NEW x \in D,
         NEW S, S = {k \in Numbers(D, e) : k < x} \cup (x .. e[x])
  PROVE  Names(D, e, x, S)
<1>1. /\ D \subseteq Int /\ D \subseteq Offsets
      /\ \A d \in D : e[d] \in Int /\ d =< e[d] /\ e[d] \in Offsets
      /\ \A d, f \in D : d < f => e[d] < f
      /\ Offsets \subseteq Int
  BY RepFacts
<1>2. x .. e[x] \subseteq Numbers(D, e)
  <2>1. x \in Offsets /\ e[x] \in Offsets
    BY <1>1
  <2>2. x .. e[x] \subseteq Offsets
    BY <2>1, RcvLossListAssumption DEF Offsets
  <2> QED BY <2>2 DEF Numbers
<1>3. ASSUME NEW k \in Numbers(D, e), \A f \in D : Follows(D, x, f) => k < f
      PROVE  k \in S
  <2>1. PICK d \in D : d =< k /\ k =< e[d]
    BY <1>3 DEF Numbers
  <2>2. k \in Int /\ d \in Int /\ x \in Int /\ e[d] \in Int /\ e[x] \in Int
    BY <1>1 DEF Numbers
  <2>3. CASE k < x
    BY <2>3
  <2>4. CASE ~(k < x) /\ d =< x
    <3>1. d = x
      <4>1. d < x => e[d] < x
        BY <1>1
      <4> QED BY <4>1, <2>1, <2>2, <2>4
    <3> QED BY <3>1, <2>1, <2>2, <2>4
  <2>5. CASE d > x
    <3> DEFINE Later == {f - x : f \in {g \in D : x < g}}
    <3>1. Later \in SUBSET Nat /\ d - x \in Later
      BY <2>2, <2>5, <1>1
    <3>2. PICK y \in Later : \A z \in Later : y =< z
      BY <3>1, Smallest
    <3>3. PICK f \in D : x < f /\ y = f - x
      BY <3>2
    <3>4. \A g \in D : x < g => f =< g
      <4> TAKE g \in D
      <4> HAVE x < g
      <4>1. f - x =< g - x
        BY <3>2, <3>3
      <4>2. f \in Int /\ g \in Int /\ x \in Int
        BY <1>1
      <4> QED BY <4>1, <4>2
    <3>5. Follows(D, x, f)
      BY <3>3, <3>4, <1>1 DEF Follows
    <3>6. k < f /\ f =< d
      BY <3>4, <3>5, <1>3, <2>5
    <3> QED BY <3>6, <2>1, <2>2, <1>1
  <2> QED BY <2>2, <2>3, <2>4, <2>5
<1>4. S \subseteq Numbers(D, e)
  BY <1>2
<1>5. ASSUME \A f \in D : f =< x PROVE S = Numbers(D, e)
  <2>1. \A f \in D : ~Follows(D, x, f)
    BY <1>1, <1>5 DEF Follows
  <2> QED BY <2>1, <1>3, <1>4
<1>6. ASSUME NEW f \in D, Follows(D, x, f) PROVE S = {k \in Numbers(D, e) : k < f}
  <2>1. x < f /\ e[x] < f /\ x \in Int /\ f \in Int /\ e[x] \in Int
    BY <1>1, <1>6 DEF Follows
  <2>2. \A k \in S : k < f
    <3> TAKE k \in S
    <3>1. k \in Int
      BY <1>1, <1>4 DEF Numbers
    <3> QED BY <3>1, <2>1
  <2>3. \A g \in D : Follows(D, x, g) => g = f
    BY <1>1, <1>6 DEF Follows
  <2>4. \A k \in Numbers(D, e) : k < f => k \in S
    BY <2>3, <1>3
  <2> QED BY <2>2, <2>4, <1>4
<1> QED BY <1>5, <1>6 DEF Names

\* A turn of getLossArray takes one or two entries for which there is room,
\* and goes on to the next interval.
LEMMA ReportOneHolds ==
  ASSUME NEW b \in SeqNos, NEW cur \in -1 .. RcvWindow - 1, NEW N \in SUBSET (0 .. cur),
         RcvHolds(b, cur, N), ReportOne
  PROVE  RcvInductive'
<1>1. /\ rcvLastAck = b /\ rcvCurr = Shift(b, cur) /\ Missing(rcvList, b, N)
      /\ Calling(b, cur, N)
  BY DEF RcvHolds
<1>2. PICK c, D, e, x : /\ Rep(rcvList, b, c, D, e) /\ N = Numbers(D, e)
                        /\ Reporting(b, N, c, D, e, x)
  BY <1>1, CallingReport DEF ReportOne
<1>3. rcvCall.at # Unset /\ rcvCall.entries < Limit - 1
  BY DEF ReportOne, ReportIsOver, HasRoom
<1>4. /\ x \in D /\ rcvCall.entries \in Nat
      /\ rcvCall = ReportCall(Place(c, x), rcvCall.entries, On(b, {k \in N : k < x}))
  <2>1. rcvCall # ReportCall(Unset, rcvCall.entries, On(b, N))
    BY <1>3 DEF ReportCall
  <2> QED BY <2>1, <1>2 DEF Reporting
<1> DEFINE i == Place(c, x)
           S == {k \in N : k < x} \cup (x .. e[x])
           more == IF rcvList.data2[i] = Unset THEN 1 ELSE 2
<1>5. /\ rcvList' = rcvList /\ rcvLastAck' = b /\ rcvCurr' = rcvCurr
      /\ rcvCall' = ReportCall(rcvList.next[i], rcvCall.entries + more,
                      On(b, {k \in N : k < x}) \cup SeqRange(rcvList.data1[i], End(rcvList, i)))
  <2>1. rcvCall.at = i /\ rcvCall.named = On(b, {k \in N : k < x})
    BY <1>4 DEF ReportCall
  <2>2. rcvCall' = [rcvCall EXCEPT
                       !.at = rcvList.next[i],
                       !.entries = @ + more,
                       !.named = @ \cup SeqRange(rcvList.data1[i], End(rcvList, i))]
    BY <2>1 DEF ReportOne
  <2>3. rcvList' = rcvList /\ rcvLastAck' = b /\ rcvCurr' = rcvCurr
    BY <1>1 DEF ReportOne
  <2> DEFINE was == On(b, {k \in N : k < x})
             seqs == SeqRange(rcvList.data1[i], End(rcvList, i))
             nxt == rcvList.next[i]
             sum == rcvCall.entries + more
             all == was \cup seqs
             old == rcvCall.entries
  <2>4. /\ rcvCall = ReportCall(i, old, was)
        /\ rcvCall' = [rcvCall EXCEPT !.at = nxt, !.entries = sum, !.named = all]
    BY <2>1, <2>2, <1>4
  <2> HIDE DEF i, more, was, seqs, nxt, sum, all, old
  <2>5. rcvCall' = ReportCall(nxt, sum, all)
    BY <2>4 DEF ReportCall
  <2> QED BY <2>3, <2>5 DEF was, seqs, nxt, sum, all
<1>6. On(b, {k \in N : k < x}) \cup SeqRange(rcvList.data1[i], End(rcvList, i)) = On(b, S)
  <2>1. SeqRange(rcvList.data1[i], End(rcvList, i)) = On(b, x .. e[x])
    <3>1. \A d \in D : SeqRange(rcvList.data1[Place(c, d)], End(rcvList, Place(c, d)))
                        = On(b, d .. e[d])
      <4>1. Rep(rcvList, b, c, D, e)
        BY <1>2
      <4>2. NodesHold(rcvList, b, c, D, e)
        BY <4>1, HeldIs
      <4> QED BY <4>2 DEF NodesHold
    <3> QED BY <3>1, <1>4
  <2> QED BY <2>1 DEF On
<1>7. more \in 1 .. 2
  OBVIOUS
<1> HIDE DEF S, more
<1> DEFINE total == rcvCall.entries + more
<1>8. total \in Nat /\ total =< Limit
  BY <1>3, <1>4, <1>7, RcvLossListAssumption
<1> HIDE DEF total
<1>9. rcvCall' = ReportCall(rcvList.next[i], total, On(b, S)) /\ rcvCall'.entries = total
  <2>1. rcvCall' = ReportCall(rcvList.next[i], total, On(b, S))
    BY <1>5, <1>6 DEF total
  <2> QED BY <2>1 DEF ReportCall
<1>10. /\ (\A f \in D : f =< x) => S = N
       /\ \A f \in D : Follows(D, x, f) => S = {k \in N : k < f}
  <2>1. S = {k \in Numbers(D, e) : k < x} \cup (x .. e[x])
    BY <1>2 DEF S
  <2>2. /\ (\A f \in D : f =< x) => S = Numbers(D, e)
        /\ \A f \in D : Follows(D, x, f) => S = {k \in Numbers(D, e) : k < f}
    <3>1. Rep(rcvList, b, c, D, e) /\ x \in D
      BY <1>2, <1>4
    <3>2. Names(D, e, x, S)
      BY <2>1, <3>1, NamedSoFar
    <3> QED BY <3>2 DEF Names
  <2> QED BY <2>2, <1>2
<1>11. \E f : Reporting(b, N, c, D, e, f)'
  <2>1. CASE rcvList.next[i] = Unset /\ \A f \in D : f =< x
    <3>1. rcvCall' = ReportCall(Unset, total, On(b, N))
      BY <2>1, <1>9, <1>10
    <3>2. Reporting(b, N, c, D, e, x)'
      BY <3>1, <1>8, <1>9 DEF Reporting
    <3> QED BY <3>2
  <2>2. CASE \E f \in D : Follows(D, x, f) /\ rcvList.next[i] = Place(c, f)
    <3>1. PICK f \in D : Follows(D, x, f) /\ rcvList.next[i] = Place(c, f)
      BY <2>2
    <3>2. rcvCall' = ReportCall(Place(c, f), total, On(b, {k \in N : k < f}))
      BY <3>1, <1>9, <1>10
    <3>3. Reporting(b, N, c, D, e, f)'
      BY <3>1, <3>2, <1>8, <1>9 DEF Reporting
    <3> QED BY <3>3
  <2> QED BY <2>1, <2>2, <1>2, <1>4 DEF Rep, LinkedUp
<1>12. Rep(rcvList', b, c, D, e)
  BY <1>2, <1>5
<1>13. Calling(b, cur, N)'
  BY <1>2, <1>11, <1>12 DEF Calling
<1> QED BY <1>1, <1>5, <1>13, StepHolds

\* getLossArray returns and has not changed the list.
LEMMA EndReportHolds ==
  ASSUME NEW b \in SeqNos, NEW cur \in -1 .. RcvWindow - 1, NEW N \in SUBSET (0 .. cur),
         RcvHolds(b, cur, N), EndReport
  PROVE  RcvInductive'
<1>1. rcvLastAck = b /\ rcvCurr = Shift(b, cur) /\ Missing(rcvList, b, N)
  BY DEF RcvHolds
<1>2. rcvList' = rcvList /\ rcvLastAck' = b /\ rcvCurr' = rcvCurr /\ rcvCall' = RcvIdle
  BY <1>1 DEF EndReport
<1>3. Calling(b, cur, N)'
  BY <1>2 DEF Calling
<1> QED BY <1>1, <1>2, <1>3, StepHolds

\* A step that changes nothing.
LEMMA StutterHolds ==
  ASSUME RcvInductive, UNCHANGED rcvVars
  PROVE  RcvInductive'
<1>1. PICK b \in SeqNos, cur \in -1 .. RcvWindow - 1 :
        \E N \in SUBSET (0 .. cur) : RcvHolds(b, cur, N)
  BY DEF RcvInductive
<1>2. PICK N \in SUBSET (0 .. cur) : RcvHolds(b, cur, N)
  BY <1>1
<1>3. rcvList' = rcvList /\ rcvCall' = rcvCall /\ rcvLastAck' = rcvLastAck /\ rcvCurr' = rcvCurr
  BY DEF rcvVars
<1>4. Calling(b, cur, N)'
  BY <1>2, <1>3 DEF RcvHolds, Calling, Dropping, Reporting
<1> QED BY <1>2, <1>3, <1>4, StepHolds DEF RcvHolds

\* After every step the arrays of CRcvLossList (list.cpp) are the intervals of
\* a set of numbers between m_iRcvLastAck and m_iRcvCurrSeqNo: in order, apart,
\* each at the place its first number asks for, linked both ways, counted by
\* m_iLength.  In the loop of remove(seqno1, seqno2) the set is the one before
\* the call without the numbers the loop has passed; in the loop of getLossArray
\* what has been named is the part of the set before the node it is at.
THEOREM RcvInductiveHolds == RcvSpec => []RcvInductive
<1>1. ASSUME RcvInductive, RcvNext PROVE RcvInductive'
  <2>1. PICK b \in SeqNos, cur \in -1 .. RcvWindow - 1 :
          \E N \in SUBSET (0 .. cur) : RcvHolds(b, cur, N)
    BY <1>1 DEF RcvInductive
  <2>2. PICK N \in SUBSET (0 .. cur) : RcvHolds(b, cur, N)
    BY <2>1
  <2>3. CASE \E n \in 0 .. RcvWindow - 1 : Arrive(n)
    BY <2>2, <2>3, ArriveHolds
  <2>4. CASE SendAck
    BY <2>2, <2>4, SendAckHolds
  <2>5. CASE \E n1, n2 \in 0 .. RcvWindow - 1 : BeginDrop(n1, n2)
    BY <2>2, <2>5, BeginDropHolds
  <2>6. CASE DropOne
    BY <2>2, <2>6, DropOneHolds
  <2>7. CASE DropLast
    BY <2>2, <2>7, DropLastHolds
  <2>8. CASE DropForEver
    BY <2>2, <2>8, DropForEverHolds
  <2>9. CASE BeginReport
    BY <2>2, <2>9, BeginReportHolds
  <2>10. CASE ReportOne
    BY <2>2, <2>10, ReportOneHolds
  <2>11. CASE EndReport
    BY <2>2, <2>11, EndReportHolds
  <2> QED BY <1>1, <2>3, <2>4, <2>5, <2>6, <2>7, <2>8, <2>9, <2>10, <2>11 DEF RcvNext
<1>2. RcvInductive /\ [RcvNext]_rcvVars => RcvInductive'
  BY <1>1, StutterHolds
<1> QED BY <1>2, RcvInitHolds, PTL DEF RcvSpec

\* What the invariant says about a report is what ReportFits asks.
LEMMA InductiveFits == RcvInductive => ReportFits
<1> SUFFICES ASSUME RcvInductive, rcvCall.loop = "report"
             PROVE  /\ rcvCall.entries =< Limit
                    /\ rcvCall.named \subseteq Held(rcvList)
                    /\ \A s \in rcvCall.named, t \in Held(rcvList) \ rcvCall.named :
                         seqcmp(s, t) < 0
                    /\ ReportIsOver /\ rcvCall.named # Held(rcvList)
                         => rcvCall.entries >= Limit - 1
  BY DEF ReportFits
<1>1. PICK b \in SeqNos, cur \in -1 .. RcvWindow - 1 :
        \E N \in SUBSET (0 .. cur) : RcvHolds(b, cur, N)
  BY DEF RcvInductive
<1>2. PICK N \in SUBSET (0 .. cur) : RcvHolds(b, cur, N)
  BY <1>1
<1>3. Calling(b, cur, N) /\ Missing(rcvList, b, N)
  BY <1>2 DEF RcvHolds
<1>4. PICK c, D, e, x : /\ Rep(rcvList, b, c, D, e) /\ N = Numbers(D, e)
                        /\ Reporting(b, N, c, D, e, x)
  BY <1>3, CallingReport
<1>5. Held(rcvList) = On(b, N) /\ N \subseteq Offsets
  BY <1>3, MissingFacts
<1>6. rcvCall.entries \in Nat /\ rcvCall.entries =< Limit
  BY <1>4 DEF Reporting
<1>7. CASE rcvCall = ReportCall(Unset, rcvCall.entries, On(b, N))
  <2>1. rcvCall.named = On(b, N)
    BY <1>7 DEF ReportCall
  <2> QED BY <2>1, <1>5, <1>6
<1>8. CASE /\ x \in D
           /\ rcvCall = ReportCall(Place(c, x), rcvCall.entries, On(b, {k \in N : k < x}))
  <2>1. rcvCall.named = On(b, {k \in N : k < x}) /\ rcvCall.at = Place(c, x)
    BY <1>8 DEF ReportCall
  <2>2. rcvCall.named \subseteq Held(rcvList)
    BY <2>1, <1>5 DEF On
  <2>3. ASSUME NEW s \in rcvCall.named, NEW t \in Held(rcvList) \ rcvCall.named
        PROVE  seqcmp(s, t) < 0
    <3>1. PICK j \in N : j < x /\ s = Shift(b, j)
      BY <2>1 DEF On
    <3>2. PICK k \in N : ~(k < x) /\ t = Shift(b, k)
      BY <2>1, <1>5 DEF On
    <3>3. x \in Int /\ j \in Offsets /\ k \in Offsets
      BY <1>4, <1>5, <1>8, RepFacts
    <3>4. /\ j \in -1 .. RcvWindow /\ k \in -1 .. RcvWindow /\ j < k
          /\ k - j < SeqNoTH /\ j - k < SeqNoTH
      BY <3>1, <3>2, <3>3, RcvLossListAssumption, SeqNoAssumption DEF Offsets
    <3> QED BY <3>1, <3>2, <3>4, WindowOrder
  <2>4. ASSUME ReportIsOver PROVE rcvCall.entries >= Limit - 1
    <3>1. Place(c, x) # Unset
      <4>1. x \in Nodes /\ Unset \notin Nodes /\ \A d \in Nodes : Place(c, d) \in Nodes
        BY <1>4, <1>8, RepFacts
      <4> QED BY <4>1
    <3>2. ~(rcvCall.entries < Limit - 1)
      BY <3>1, <2>1, <2>4 DEF ReportIsOver, HasRoom
    <3> QED BY <3>2, <1>6, RcvLossListAssumption
  <2> QED BY <2>2, <2>3, <2>4, <1>6
<1> QED BY <1>4, <1>7, <1>8 DEF Reporting

\* A periodic loss report (CRcvLossList::getLossArray, list.cpp) never writes
\* beyond its array, names missing numbers only, the earliest first, and leaves
\* none out while there is room for two entries.
THEOREM ReportsFit == RcvSpec => []ReportFits
BY RcvInductiveHolds, InductiveFits, PTL

-----------------------------------------------------------------------------
(* The refinement. *)

\* A set of offsets and the set of their numbers are alike.
LEMMA ShiftIsInjective ==
  ASSUME NEW b \in SeqNos, NEW j \in Offsets, NEW k \in Offsets, Shift(b, j) = Shift(b, k)
  PROVE  j = k
<1>1. Offsets \subseteq 0 .. RcvWindow
  BY RcvLossListAssumption DEF Offsets
<1> QED BY <1>1, WindowFacts

\* A number of the window is in the image of a set if its offset is in it.
LEMMA OnMember ==
  ASSUME NEW b \in SeqNos, NEW S, S \subseteq Offsets, NEW k \in Offsets
  PROVE  Shift(b, k) \in On(b, S) <=> k \in S
BY ShiftIsInjective DEF On

\* The image of a difference is the difference of the images.
LEMMA OnMinus ==
  ASSUME NEW b \in SeqNos, NEW S, S \subseteq Offsets, NEW T, T \subseteq Offsets
  PROVE  On(b, S \ T) = On(b, S) \ On(b, T)
<1>1. ASSUME NEW s \in On(b, S \ T) PROVE s \in On(b, S) \ On(b, T)
  <2>1. PICK k \in S \ T : s = Shift(b, k)
    BY <1>1 DEF On
  <2>2. Shift(b, k) \notin On(b, T)
    BY OnMember
  <2> QED BY <2>1, <2>2 DEF On
<1>2. ASSUME NEW s \in On(b, S) \ On(b, T) PROVE s \in On(b, S \ T)
  BY <1>2 DEF On
<1> QED BY <1>1, <1>2

\* A set of offsets and its image have as many elements.
LEMMA OnCardinality ==
  ASSUME NEW b \in SeqNos, NEW S, S \subseteq Offsets, IsFiniteSet(S)
  PROVE  Cardinality(On(b, S)) = Cardinality(S)
<1> DEFINE f == [k \in S |-> Shift(b, k)]
<1>1. f \in [S -> On(b, S)] /\ \A t \in On(b, S) : \E k \in S : f[k] = t
  BY DEF On
<1>2. \A j, k \in S : f[j] = f[k] => j = k
  BY ShiftIsInjective
<1>3. f \in Bijection(S, On(b, S))
  BY <1>1, <1>2, Fun_IsBij
<1>4. ExistsBijection(S, On(b, S))
  BY <1>3 DEF ExistsBijection
<1> QED BY <1>4, FS_Bijection

\* The refined variables, of a list k that is the set N.
RcvFirst(k) == IF k.length = 0 THEN -1 ELSE k.data1[k.head]

Shown(k, S) ==
  /\ Held(k) = S
  /\ k.length = RcvPromise!Cardinality(S)
  /\ IF S = {} THEN RcvFirst(k) = -1 ELSE RcvPromise!IsEarliest(RcvFirst(k), S)

\* A list that represents a set is shown by the refinement as that set, with
\* its length and its first number.
LEMMA MissingShown ==
  ASSUME NEW k, NEW b \in SeqNos, NEW N, Missing(k, b, N)
  PROVE  Shown(k, On(b, N))
<1>1. /\ N \subseteq Offsets /\ IsFiniteSet(N)
      /\ k.length = Cardinality(N) /\ (k.length = 0 <=> N = {})
      /\ Held(k) = On(b, N)
      /\ N # {} => \E h \in N : Head(k, b, h) /\ \A j \in N : h =< j
  BY MissingFacts
<1>2. Cardinality(On(b, N)) = Cardinality(N) /\ (On(b, N) = {} <=> N = {})
  <2>1. Cardinality(On(b, N)) = Cardinality(N)
    BY <1>1, OnCardinality
  <2> QED BY <2>1 DEF On
<1>3. RcvPromise!Cardinality(On(b, N)) = Cardinality(On(b, N))
  BY DEF Cardinality, RcvPromise!Cardinality
<1>4. CASE N = {}
  BY <1>1, <1>2, <1>3, <1>4 DEF Shown, RcvFirst
<1>5. CASE N # {}
  <2>1. PICK h \in N : Head(k, b, h) /\ \A j \in N : h =< j
    BY <1>1, <1>5
  <2>2. RcvFirst(k) = Shift(b, h)
    BY <1>1, <1>5, <2>1 DEF RcvFirst, Head
  <2>3. ASSUME NEW t \in On(b, N) PROVE seqcmp(Shift(b, h), t) =< 0
    <3>1. PICK j \in N : t = Shift(b, j)
      BY DEF On
    <3>2. h =< j /\ h \in Offsets /\ j \in Offsets
      BY <1>1, <2>1
    <3>3. /\ h \in -1 .. RcvWindow /\ j \in -1 .. RcvWindow
          /\ h - j < SeqNoTH /\ j - h < SeqNoTH
      BY <3>2, RcvLossListAssumption, SeqNoAssumption DEF Offsets
    <3> QED BY <3>1, <3>2, <3>3, WindowOrder
  <2>4. Shift(b, h) \in On(b, N)
    BY DEF On
  <2>5. RcvPromise!IsEarliest(RcvFirst(k), On(b, N))
    BY <2>2, <2>3, <2>4
       DEF RcvPromise!IsEarliest, RcvPromise!seqcmp, seqcmp, RcvPromise!abs, abs
  <2> QED BY <1>1, <1>2, <1>3, <1>5, <2>5 DEF Shown
<1> QED BY <1>4, <1>5

\* The window of the abstract set is the image of all offsets.
LEMMA NamedIs ==
  ASSUME NEW b \in SeqNos
  PROVE  /\ SeqRange(b, Shift(b, RcvWindow - 1)) = On(b, Offsets)
         /\ SeqRange(b, Shift(b, RcvWindow - 1)) \subseteq SeqNos
<1>1. 0 \in Offsets /\ RcvWindow - 1 \in Offsets /\ 0 =< RcvWindow - 1
  BY RcvLossListAssumption DEF Offsets
<1>2. Shift(b, 0) = b
  BY SeqNoAssumption DEF Shift, SeqNos
<1>3. SeqRange(Shift(b, 0), Shift(b, RcvWindow - 1)) = {Shift(b, k) : k \in 0 .. RcvWindow - 1}
  BY <1>1, RangeOfOffsets
<1>4. \A k \in Offsets : Shift(b, k) \in SeqNos
  BY WindowFacts, RcvLossListAssumption DEF Offsets
<1> QED BY <1>2, <1>3, <1>4 DEF On, Offsets

\* A step of the abstract set: the call it makes, and what is shown after it.
LEMMA CallIsStep ==
  ASSUME NEW S, rcvLastAck' \in SeqNos, RcvPromise!Call, Shown(Known', S)
  PROVE  RcvPromise!Next
<1>1. /\ Held(Known)' = S /\ (Known.length)' = RcvPromise!Cardinality(S)
      /\ IF S = {} THEN RcvFirst(Known)' = -1
         ELSE RcvPromise!IsEarliest(RcvFirst(Known)', S)
  BY DEF Shown
<1>2. SeqRange(rcvLastAck, Shift(rcvLastAck, RcvWindow - 1))' \subseteq SeqNos
  BY NamedIs
<1>3. RcvPromise!SeqNos = SeqNos
  BY DEF RcvPromise!SeqNos, SeqNos
<1> QED BY <1>1, <1>2, <1>3 DEF RcvPromise!Next, RcvFirst

\* The refinement, step by step.  The steps within a loop do not show: the
\* caller knows the list from before the call.
LEMMA RcvInitRefines == RcvInit => RcvPromise!Init
<1> SUFFICES ASSUME RcvInit PROVE RcvPromise!Init
  OBVIOUS
<1>1. rcvLastAck \in SeqNos /\ rcvList = EmptyList /\ rcvCall = RcvIdle /\ rcvAnswer = 0
  BY DEF RcvInit
<1>2. Known = EmptyList
  BY <1>1 DEF Known, RcvIdle
<1>3. Missing(EmptyList, rcvLastAck, {})
  BY <1>1, NothingMissing
<1>4. Held(EmptyList) = {}
  BY <1>1, <1>3, MissingFacts DEF On
<1>5. EmptyList.length = 0
  BY DEF EmptyList
<1>6. SeqRange(rcvLastAck, Shift(rcvLastAck, RcvWindow - 1)) \subseteq SeqNos
  BY <1>1, NamedIs
<1> QED BY <1>1, <1>2, <1>4, <1>5, <1>6 DEF RcvPromise!Init, RcvPromise!SeqNos, SeqNos

\* A step in which the caller sees no change.
LEMMA Unseen ==
  ASSUME Known' = Known, rcvLastAck' = rcvLastAck, rcvAnswer' = rcvAnswer
  PROVE  UNCHANGED RcvPromise!vars
BY DEF RcvPromise!vars

LEMMA SendAckRefines ==
  ASSUME NEW b \in SeqNos, NEW cur \in -1 .. RcvWindow - 1, NEW N \in SUBSET (0 .. cur),
         RcvHolds(b, cur, N), SendAck, RcvInductive'
  PROVE  RcvPromise!Next
<1>1. Known' = Known /\ rcvAnswer' = rcvAnswer
  BY DEF SendAck, Known, RcvIdle
<1>2. rcvLastAck' \in SeqNos
  BY DEF RcvInductive, RcvHolds
<1>3. SeqRange(rcvLastAck, Shift(rcvLastAck, RcvWindow - 1))' \subseteq SeqNos
  BY <1>2, NamedIs
<1> QED BY <1>1, <1>3 DEF RcvPromise!Next, RcvPromise!Slide, RcvPromise!SeqNos, SeqNos

LEMMA ArriveRefines ==
  ASSUME NEW b \in SeqNos, NEW cur \in -1 .. RcvWindow - 1, NEW N \in SUBSET (0 .. cur),
         RcvHolds(b, cur, N), NEW n \in 0 .. RcvWindow - 1, Arrive(n)
  PROVE  RcvPromise!Next
<1>1. rcvLastAck = b /\ rcvCurr = Shift(b, cur) /\ Missing(rcvList, b, N)
  BY DEF RcvHolds
<1>2. /\ ArriveGoes(b, cur, n, rcvList, rcvList', rcvCurr')
      /\ rcvCall = RcvIdle /\ rcvCall' = RcvIdle /\ rcvLastAck' = b
      /\ rcvAnswer' = IF n > cur THEN rcvList'.length - rcvList.length
                      ELSE rcvList.length - rcvList'.length
  BY <1>1, ArriveCases
<1>3. Known = rcvList /\ Known' = rcvList'
  BY <1>2 DEF Known, RcvIdle
<1>4. /\ N \subseteq Offsets /\ IsFiniteSet(N) /\ Cardinality(N) \in Nat
      /\ rcvList.length = Cardinality(N) /\ Held(rcvList) = On(b, N)
  BY <1>1, MissingFacts
<1>5. SeqRange(rcvLastAck, Shift(rcvLastAck, RcvWindow - 1)) = On(b, Offsets)
  BY <1>1, NamedIs
<1>6. \A k \in Offsets : Shift(b, k) \in On(b, Offsets)
  BY DEF On
<1>7. n \in Offsets /\ cur \in Int /\ n \in Int
  BY DEF Offsets
<1>8. CASE n > cur + 1 /\ rcvList' = Inserted(rcvList, Shift(b, cur + 1), Shift(b, n - 1))
  <2> DEFINE p == cur + 1
             q == n - 1
  <2>1. /\ p \in Offsets /\ q \in Offsets /\ p =< q /\ \A k \in N : k < p
        /\ p \in Int /\ q \in Int
    BY <1>8, RcvLossListAssumption DEF Offsets
  <2>2. p \in -1 .. RcvWindow /\ q \in -1 .. RcvWindow /\ p - q < SeqNoTH /\ q - p < SeqNoTH
    BY <2>1, RcvLossListAssumption, SeqNoAssumption DEF Offsets
  <2>3. n > cur
    BY <1>7, <1>8
  <2> HIDE DEF p, q
  <2>4. /\ Missing(Inserted(rcvList, Shift(b, p), Shift(b, q)), b, N \cup (p .. q))
        /\ Cardinality(N \cup (p .. q)) = Cardinality(N) + (q - p + 1)
    <3>1. Missing(Inserted(rcvList, Shift(b, p), Shift(b, q)), b, N \cup (p .. q))
      BY <1>1, <2>1, InsertedMissing
    <3>2. Cardinality(N \cup (p .. q)) = Cardinality(N) + (q - p + 1)
      BY <1>4, <2>1, InsertedMany
    <3> QED BY <3>1, <3>2
  <2>5. Missing(rcvList', b, N \cup (p .. q))
    BY <2>4, <1>8 DEF p, q
  <2>6. rcvAnswer' = q - p + 1
    <3>1. rcvList'.length = Cardinality(N \cup (p .. q))
      BY <2>5, MissingFacts
    <3> QED BY <3>1, <2>1, <2>3, <2>4, <1>2, <1>4
  <2>7. SeqRange(Shift(b, p), Shift(b, q)) = On(b, p .. q) /\ p .. q \subseteq Offsets
    <3>1. p .. q \subseteq Offsets
      BY <2>1, RcvLossListAssumption DEF Offsets
    <3> QED BY <3>1, <2>1, RangeOfOffsets DEF On
  <2>8. On(b, p .. q) \ On(b, N) = On(b, p .. q)
    <3>1. (p .. q) \ N = p .. q
      BY <2>1
    <3>2. On(b, (p .. q) \ N) = On(b, p .. q) \ On(b, N)
      BY <2>7, <1>4, OnMinus
    <3> QED BY <3>1, <3>2
  <2>9. Cardinality(On(b, p .. q)) = q - p + 1
    <3>1. IsFiniteSet(p .. q) /\ Cardinality(p .. q) = q - p + 1
      BY <2>1, FS_Interval
    <3> QED BY <3>1, <2>7, OnCardinality
  <2>10. RcvPromise!Cardinality(On(b, p .. q)) = Cardinality(On(b, p .. q))
    BY DEF Cardinality, RcvPromise!Cardinality
  <2>11. Held(rcvList') = On(b, N) \cup On(b, p .. q)
    <3>1. Held(rcvList') = On(b, N \cup (p .. q))
      BY <2>5, MissingFacts
    <3>2. On(b, N \cup (p .. q)) = On(b, N) \cup On(b, p .. q)
      BY DEF On
    <3> QED BY <3>1, <3>2
  <2>12. seqcmp(Shift(b, p), Shift(b, q)) =< 0
    BY <2>1, <2>2, WindowOrder
  <2>13. RcvPromise!Insert(Shift(b, p), Shift(b, q))
    <3>1. RcvPromise!seqcmp(Shift(b, p), Shift(b, q)) = seqcmp(Shift(b, p), Shift(b, q))
      BY DEF RcvPromise!seqcmp, seqcmp, RcvPromise!abs, abs
    <3>2. RcvPromise!SeqRange(Shift(b, p), Shift(b, q)) = SeqRange(Shift(b, p), Shift(b, q))
      BY DEF RcvPromise!SeqRange, SeqRange
    <3>3. Held(Known)' = Held(Known) \cup On(b, p .. q)
      BY <1>3, <1>4, <2>11
    <3>4. rcvAnswer' = RcvPromise!Cardinality(On(b, p .. q) \ Held(Known))
      BY <1>3, <1>4, <2>6, <2>8, <2>9, <2>10
    <3> QED BY <3>1, <3>2, <3>3, <3>4, <2>7, <2>12 DEF RcvPromise!Insert
  <2>14. RcvPromise!Call
    BY <2>1, <2>13, <1>5, <1>6 DEF RcvPromise!Call
  <2>15. Shown(Known', On(b, N \cup (p .. q)))
    BY <1>3, <2>5, MissingShown
  <2> QED BY <1>2, <2>14, <2>15, CallIsStep
<1>9. ASSUME rcvList' = rcvList \/ rcvList' = Removed(rcvList, Shift(b, n)),
             Missing(rcvList', b, N \ {n}),
             rcvAnswer' = IF n \in N THEN 1 ELSE 0
      PROVE  RcvPromise!Next
  <2>1. Held(rcvList') = On(b, N \ {n})
    BY <1>9, MissingFacts
  <2>2. On(b, N \ {n}) = On(b, N) \ {Shift(b, n)}
    <3>1. On(b, N \ {n}) = On(b, N) \ On(b, {n})
      <4>1. {n} \subseteq Offsets
        BY <1>7
      <4> QED BY <4>1, <1>4, OnMinus
    <3>2. On(b, {n}) = {Shift(b, n)}
      BY DEF On
    <3> QED BY <3>1, <3>2
  <2>3. Shift(b, n) \in On(b, N) <=> n \in N
    BY <1>4, <1>7, OnMember
  <2>4. RcvPromise!Remove(Shift(b, n))
    BY <1>3, <1>4, <1>9, <2>1, <2>2, <2>3 DEF RcvPromise!Remove
  <2>5. RcvPromise!Call
    BY <2>4, <1>5, <1>6, <1>7 DEF RcvPromise!Call
  <2>6. Shown(Known', On(b, N \ {n}))
    BY <1>3, <1>9, MissingShown
  <2> QED BY <1>2, <2>5, <2>6, CallIsStep
<1>10. CASE n = cur + 1 /\ rcvList' = rcvList
  <2>1. n \notin N /\ N \ {n} = N /\ n > cur
    BY <1>7, <1>10
  <2>2. rcvAnswer' = 0
    BY <2>1, <1>2, <1>4, <1>10
  <2> QED BY <2>1, <2>2, <1>1, <1>9, <1>10
<1>11. CASE n =< cur /\ rcvList' = Removed(rcvList, Shift(b, n))
  <2>1. Missing(rcvList', b, N \ {n})
    BY <1>1, <1>7, <1>11, RemovedMissing
  <2>2. rcvList'.length = Cardinality(N \ {n})
    BY <2>1, MissingFacts
  <2>3. Cardinality(N \ {n}) = IF n \in N THEN Cardinality(N) - 1 ELSE Cardinality(N)
    BY <1>4, FS_RemoveElement
  <2>4. rcvAnswer' = IF n \in N THEN 1 ELSE 0
    BY <2>2, <2>3, <1>2, <1>4, <1>7, <1>11
  <2> QED BY <2>1, <2>4, <1>9, <1>11
<1> QED BY <1>2, <1>8, <1>10, <1>11 DEF ArriveGoes

LEMMA DropLastRefines ==
  ASSUME NEW b \in SeqNos, NEW cur \in -1 .. RcvWindow - 1, NEW N \in SUBSET (0 .. cur),
         RcvHolds(b, cur, N), DropLast
  PROVE  RcvPromise!Next
<1>1. rcvLastAck = b /\ rcvLastAck' = b /\ rcvCall' = RcvIdle /\ rcvAnswer' = 1
  BY DEF DropLast, RcvHolds
<1>2. PICK n1, n2, M : DropEnds(b, cur, N, n1, n2, M)
  BY DropLastEnds
<1>3. /\ n1 \in Offsets /\ n2 \in Offsets /\ n1 =< n2
      /\ Missing(rcvCall.before, b, M) /\ rcvCall.loop = "drop"
  BY <1>2 DEF DropEnds
<1> DEFINE seq1 == Shift(b, n1)
           seq2 == Shift(b, n2)
           Kept == IF seq1 > seq2 THEN {MaxSeqNo} ELSE {}
           N1 == {k \in M : ~Dropped(b, n1, n2, k)}
<1>4. Missing(rcvList', b, N1)
  BY <1>2 DEF DropEnds
<1>5. Known = rcvCall.before /\ Known' = rcvList'
  BY <1>1, <1>3 DEF Known, RcvIdle
<1>6. Held(Known) = On(b, M) /\ M \subseteq Offsets
  BY <1>3, <1>5, MissingFacts
<1>7. Held(Known)' = On(b, N1)
  <2>1. Held(rcvList') = On(b, N1)
    BY <1>4, MissingFacts
  <2> QED BY <2>1, <1>5
<1>8. SeqRange(seq1, seq2) = On(b, n1 .. n2) /\ n1 .. n2 \subseteq Offsets
  <2>1. n1 .. n2 \subseteq Offsets
    BY <1>3, RcvLossListAssumption DEF Offsets
  <2> QED BY <2>1, <1>3, RangeOfOffsets DEF On
<1>9. \A k \in M : ~Dropped(b, n1, n2, k)
                     <=> Shift(b, k) \notin On(b, n1 .. n2) \ Kept
  <2> TAKE k \in M
  <2>1. Shift(b, k) \in On(b, n1 .. n2) <=> k \in n1 .. n2
    BY <1>6, <1>8, OnMember
  <2>2. k \in n1 .. n2 <=> n1 =< k /\ k =< n2
    BY <1>3, <1>6 DEF Offsets
  <2>3. Wraps(seq1, seq2) <=> seq1 > seq2
    BY DEF Wraps
  <2>4. Shift(b, k) \in Kept <=> Wraps(seq1, seq2) /\ Shift(b, k) = MaxSeqNo
    BY <2>3
  <2> HIDE DEF seq1, seq2, Kept
  <2> QED BY <2>1, <2>2, <2>4 DEF Dropped, seq1, seq2
<1>10. On(b, N1) = On(b, M) \ (On(b, n1 .. n2) \ Kept)
  <2> HIDE DEF Kept
  <2>1. ASSUME NEW s \in On(b, N1) PROVE s \in On(b, M) \ (On(b, n1 .. n2) \ Kept)
    <3>1. PICK k \in N1 : s = Shift(b, k)
      BY <2>1 DEF On
    <3> QED BY <3>1, <1>9 DEF On
  <2>2. ASSUME NEW s \in On(b, M) \ (On(b, n1 .. n2) \ Kept) PROVE s \in On(b, N1)
    <3>1. PICK k \in M : s = Shift(b, k)
      BY <2>2 DEF On
    <3>2. k \in N1
      BY <3>1, <2>2, <1>9
    <3> QED BY <3>1, <3>2 DEF On
  <2> QED BY <2>1, <2>2
<1>11. RcvPromise!RemoveRange(seq1, seq2)
  <2>1. RcvPromise!SeqRange(seq1, seq2) = On(b, n1 .. n2)
    BY <1>8 DEF RcvPromise!SeqRange, SeqRange
  <2>2. Held(Known)' = Held(Known) \ (On(b, n1 .. n2) \ Kept)
    BY <1>6, <1>7, <1>10
  <2> HIDE DEF N1, seq1, seq2
  <2> QED BY <2>1, <2>2, <1>1 DEF RcvPromise!RemoveRange
<1>12. seq1 \in On(b, Offsets) /\ seq2 \in On(b, Offsets)
  BY <1>3 DEF On
<1>13. SeqRange(rcvLastAck, Shift(rcvLastAck, RcvWindow - 1)) = On(b, Offsets)
  BY <1>1, NamedIs
<1> HIDE DEF seq1, seq2, N1, Kept
<1>14. RcvPromise!Call
  BY <1>11, <1>12, <1>13 DEF RcvPromise!Call
<1>15. Shown(Known', On(b, N1))
  BY <1>4, <1>5, MissingShown
<1> QED BY <1>1, <1>14, <1>15, CallIsStep

\* Every other step is unseen.
LEMMA OtherStepsUnseen ==
  ASSUME \/ \E n1, n2 \in 0 .. RcvWindow - 1 : BeginDrop(n1, n2)
         \/ DropOne \/ DropForEver \/ BeginReport \/ ReportOne \/ EndReport
  PROVE  UNCHANGED RcvPromise!vars
<1>1. rcvLastAck' = rcvLastAck /\ rcvAnswer' = rcvAnswer
  BY DEF BeginDrop, DropOne, DropForEver, BeginReport, ReportOne, EndReport
<1>2. Known' = Known
  <2>1. CASE \E n1, n2 \in 0 .. RcvWindow - 1 : BeginDrop(n1, n2)
    <3>1. PICK n1, n2 \in 0 .. RcvWindow - 1 : BeginDrop(n1, n2)
      BY <2>1
    <3>2. rcvCall = RcvIdle /\ rcvCall'.loop = "drop" /\ rcvCall'.before = rcvList
      BY <3>1 DEF BeginDrop, RcvIdle
    <3> QED BY <3>2 DEF Known, RcvIdle
  <2>2. CASE BeginReport
    BY <2>2 DEF BeginReport, Known, RcvIdle
  <2>3. CASE EndReport
    BY <2>3 DEF EndReport, Known, RcvIdle
  <2>4. CASE DropOne
    BY <2>4 DEF DropOne, Known
  <2>5. CASE DropForEver
    BY <2>5 DEF DropForEver, Known
  <2>6. CASE ReportOne
    BY <2>6 DEF ReportOne, Known
  <2> QED BY <2>1, <2>2, <2>3, <2>4, <2>5, <2>6
<1> QED BY <1>1, <1>2, Unseen

\* CRcvLossList (list.cpp), with its arrays, links and places, is the set of the
\* missing numbers: every insert, remove and ACK of the receiving CUDT does to
\* it what LossSet says, whatever arrives in what order and wherever the
\* sequence numbers wrap round, for every size of the list and of the window.
THEOREM RcvRefines == RcvSpec => RcvImplementsLossSet
<1>1. ASSUME RcvInductive, RcvInductive', RcvNext
      PROVE  RcvPromise!Next \/ UNCHANGED RcvPromise!vars
  <2>1. PICK b \in SeqNos, cur \in -1 .. RcvWindow - 1 :
          \E N \in SUBSET (0 .. cur) : RcvHolds(b, cur, N)
    BY <1>1 DEF RcvInductive
  <2>2. PICK N \in SUBSET (0 .. cur) : RcvHolds(b, cur, N)
    BY <2>1
  <2>3. CASE \E n \in 0 .. RcvWindow - 1 : Arrive(n)
    BY <2>2, <2>3, ArriveRefines
  <2>4. CASE SendAck
    BY <1>1, <2>2, <2>4, SendAckRefines
  <2>5. CASE DropLast
    BY <2>2, <2>5, DropLastRefines
  <2>6. CASE \/ \E n1, n2 \in 0 .. RcvWindow - 1 : BeginDrop(n1, n2)
             \/ DropOne \/ DropForEver \/ BeginReport \/ ReportOne \/ EndReport
    BY <2>6, OtherStepsUnseen
  <2> QED BY <1>1, <2>3, <2>4, <2>5, <2>6 DEF RcvNext
<1>2. UNCHANGED rcvVars => UNCHANGED RcvPromise!vars
  BY Unseen DEF rcvVars, Known
<1>3. RcvInductive /\ RcvInductive' /\ [RcvNext]_rcvVars => [RcvPromise!Next]_(RcvPromise!vars)
  BY <1>1, <1>2
<1> QED BY <1>3, RcvInitRefines, RcvInductiveHolds, PTL
        DEF RcvSpec, RcvImplementsLossSet, RcvPromise!Spec

=============================================================================
