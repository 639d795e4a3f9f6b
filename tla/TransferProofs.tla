--------------------------- MODULE TransferProofs ---------------------------
(***************************************************************************)
(* Theorems about Transfer, for any number of files of any sizes, any      *)
(* number of attempts from any offsets, and all failures.                  *)
(*                                                                         *)
(* The argument: as long as the user resumes from what is on disk, the     *)
(* stream and the file that is being written are at the same byte (InStep),*)
(* so what is appended is what belongs there.  A step that touches the     *)
(* disk touches the current file only; that file ends after the offset, so *)
(* that everything in front of the offset stays.                           *)
(***************************************************************************)
EXTENDS Transfer, SequenceTheorems, TLAPS

-----------------------------------------------------------------------------
(* Sequences.                                                              *)

(* Append, as recvfile uses it. *)
LEMMA AppendFacts ==
  ASSUME NEW s \in Seq(Int), NEW x \in Int
  PROVE  /\ Append(s, x) \in Seq(Int)
         /\ Len(Append(s, x)) = Len(s) + 1
         /\ \A k \in 1..Len(s) : Append(s, x)[k] = s[k]
         /\ Append(s, x)[Len(s) + 1] = x
BY AppendProperties

(* SubSeq(s, 1, n), as a stop uses it. *)
LEMMA SubSeqFacts ==
  ASSUME NEW s \in Seq(Int), NEW n \in Nat, n <= Len(s)
  PROVE  /\ SubSeq(s, 1, n) \in Seq(Int)
         /\ Len(SubSeq(s, 1, n)) = n
         /\ \A k \in 1..n : SubSeq(s, 1, n)[k] = s[k]
<1>1. Len(s) \in Nat
  BY LenProperties
<1>2. \A k \in 1..n : s[k] \in Int
  BY <1>1, ElementOfSeq
<1>3. SubSeq(s, 1, n) = [k \in 1..n |-> s[k]]
  BY <1>1
<1>4. SubSeq(s, 1, n) \in Seq(Int)
  BY <1>2, <1>3, IsASeq
<1> QED BY <1>1, <1>3, <1>4, LenProperties

(* truncate: n bytes, the old ones as far as there are any. *)
LEMMA TruncatedFacts ==
  ASSUME NEW s \in Seq(Int), NEW n \in Nat
  PROVE  /\ Truncated(s, n) \in Seq(Int)
         /\ Len(Truncated(s, n)) = n
         /\ \A k \in 1..n : k <= Len(s) => Truncated(s, n)[k] = s[k]
<1>1. \A k \in 1..n : (IF k <= Len(s) THEN s[k] ELSE Zero) \in Int
  BY ElementOfSeq, LenProperties DEF Zero
<1>2. Truncated(s, n) \in Seq(Int)
  BY <1>1, IsASeq DEF Truncated
<1>3. DOMAIN Truncated(s, n) = 1..n
  BY DEF Truncated
<1>4. Len(Truncated(s, n)) = n
  BY <1>2, <1>3, LenProperties
<1> QED BY <1>2, <1>4 DEF Truncated

-----------------------------------------------------------------------------
(* Files and offsets.                                                      *)

(* Where files begin and end. *)
LEMMA EndFacts ==
  /\ N \in Nat /\ Total \in Nat
  /\ \A i \in File : /\ End[i] \in Nat /\ End[i-1] \in Nat /\ Size(i) \in Nat
                     /\ End[i-1] <= End[i] /\ End[i] <= Total
                     /\ Size(i) = End[i] - End[i-1]
  /\ \A i, j \in File : i < j => End[i] <= End[j-1]
BY NType, EndType DEF File, Size, Total

(* What the loop over file_sizes finds. *)
LEMMA StartFacts ==
  ASSUME NEW i \in File, NEW t \in Int, StartsAt(i, t)
  PROVE  t < End[i] /\ (t >= 0 => End[i-1] <= t)
<1>1. i > 1 => End[i-1] <= t
  BY NType DEF StartsAt, File
<1> QED BY <1>1, NType, EndType DEF StartsAt, File

(* A file that begins at or before the offset and ends after it is the one *)
(* that the loop finds, unless a later byte of the previous ones counts.   *)
LEMMA InsideStarts ==
  ASSUME NEW i \in File, NEW t \in Int, End[i-1] <= t, t < End[i]
  PROVE  StartsAt(i, t)
<1>1. \A j \in 1..(i-1) : End[j] <= End[i-1] /\ End[j] \in Nat
  BY NType, EndType DEF File
<1> QED BY <1>1, EndFacts DEF StartsAt, File

(* A file is whole when a beginning of it is as long as it is. *)
LEMMA FullIsWhole ==
  ASSUME NEW i \in File, i \in present, i \notin gapped, Beginning(i),
         Len(content[i]) = Size(i)
  PROVE  Whole(i)
BY DEF Beginning, Whole, ByteOnDisk

(* Where the fstream stands. *)
LEMMA PositionType ==
  ASSUME TypeOK, rcv = "receiving"
  PROVE  /\ Position \in Nat
         /\ \/ Position = Len(content[cur])
            \/ cur \in gapped /\ content[cur] = <<>>
<1>1. cur \in File /\ offset \in Int /\ (cur \in gapped => offset > End[cur-1])
  BY NType DEF TypeOK, File
<1>2. Len(content[cur]) \in Nat /\ End[cur-1] \in Nat
  BY <1>1, EndFacts, LenProperties DEF TypeOK
<1> QED BY <1>1, <1>2 DEF Position

(* What a fstream that is not closed leaves behind. *)
LEMMA BufferLostType ==
  ASSUME TypeOK, rcv = "receiving"
  PROVE  BufferLost \in [File -> Seq(Int)]
<1>1. SubSeq(content[cur], 1, flushed) \in Seq(Int)
  BY SubSeqFacts DEF TypeOK
<1> QED BY <1>1 DEF BufferLost, TypeOK

-----------------------------------------------------------------------------
(* Types.                                                                  *)

LEMMA InitTypeOK == Init => TypeOK
BY NType, AttemptsType, EmptySeq DEF Init, TypeOK, Gone, Over, File

LEMMA OpenFileType == ASSUME TypeOK, OpenFile PROVE TypeOK'
<1> DEFINE resumed == cur \in present /\ StartsAt(cur, offset)
           skipped == offset - End[cur-1]
           kept == IF resumed /\ ~windows
                     THEN Truncated(content[cur], skipped) ELSE <<>>
<1>1. cur \in File
  BY NType DEF OpenFile, TypeOK, File
<1>2. Len(<<>>) = 0 /\ <<>> \in Seq(Int)
  BY EmptySeq
<1>3. CASE resumed /\ offset < 0
  <2>1. content' \in [File -> Seq(Int)]
    BY <1>1, <1>2, <1>3 DEF OpenFile, TypeOK
  <2> QED BY <1>3, <2>1 DEF OpenFile, TypeOK, sender, run, flaws, Gone
<1>4. CASE ~(resumed /\ offset < 0)
  <2>1. /\ rcv' = "receiving" /\ content' = [content EXCEPT ![cur] = kept]
        /\ torecv' = (IF resumed THEN End[cur] - offset ELSE Size(cur))
        /\ flushed' = Len(kept) /\ present' = present \cup {cur}
        /\ gapped' = (IF windows /\ resumed /\ skipped > 0
                        THEN gapped \cup {cur} ELSE gapped \ {cur})
        /\ short' = short \ {cur}
        /\ UNCHANGED <<offset, cur, taken, told, sender, conn, run>>
    BY <1>4 DEF OpenFile
  <2>2. /\ End[cur] \in Nat /\ End[cur-1] \in Nat /\ Size(cur) \in Nat
        /\ offset \in Int
        /\ resumed => skipped \in Nat /\ End[cur] - offset \in Nat
    <3>1. resumed => offset >= 0 /\ offset < End[cur] /\ End[cur-1] <= offset
      BY <1>1, <1>4, StartFacts DEF TypeOK
    <3> QED BY <1>1, <3>1, EndFacts DEF TypeOK
  <2>3. kept \in Seq(Int) /\ Len(kept) \in Nat
    <3>1. CASE resumed /\ ~windows
      BY <1>1, <2>2, <3>1, TruncatedFacts DEF TypeOK
    <3>2. CASE ~(resumed /\ ~windows)
      BY <1>2, <3>2
    <3> QED BY <3>1, <3>2
  <2>4. torecv' \in Nat
    BY <2>1, <2>2
  <2> HIDE DEF resumed, kept
  <2>5. content' \in [File -> Seq(Int)] /\ content'[cur] = kept
    BY <1>1, <2>1, <2>3 DEF TypeOK
  <2>6. /\ gapped' \subseteq present' /\ (gapped' # {} => windows)
        /\ cur \in gapped' => offset > End[cur-1]
    <3>1. gapped \subseteq present /\ (gapped # {} => windows)
      BY DEF TypeOK
    <3>2. CASE windows /\ resumed /\ skipped > 0
      BY <2>1, <2>2, <3>1, <3>2
    <3>3. CASE ~(windows /\ resumed /\ skipped > 0)
      BY <2>1, <3>1, <3>3
    <3> QED BY <3>2, <3>3
  <2>7. rcv' = "receiving" => cur' \in File /\ flushed' <= Len(content'[cur'])
    BY <1>1, <2>1, <2>3, <2>5
  <2> QED BY <1>1, <2>1, <2>3, <2>4, <2>5, <2>6, <2>7
          DEF TypeOK, sender, run, Gone
<1> QED BY <1>3, <1>4

LEMMA TypeOKStep == TypeOK /\ [Next]_vars => TypeOK'
<1> SUFFICES ASSUME TypeOK, [Next]_vars PROVE TypeOK'
  OBVIOUS
<1> USE NType
<1>1. ASSUME NEW t \in Offsets, Begin(t) PROVE TypeOK'
  BY <1>1, OffsetsType, AttemptsType DEF TypeOK, Begin, disk, flaws, Gone, Over
<1>2. CASE SenderStep
  <2>1. CASE SendHeader
    BY <2>1 DEF TypeOK, SendHeader, receiver, disk, run, flaws, Gone, Over
  <2>2. CASE RecvOffset
    BY <2>2 DEF TypeOK, RecvOffset, receiver, disk, run, flaws, Gone, Over
  <2>3. CASE SendByte
    BY <2>3 DEF TypeOK, SendByte, receiver, disk, run, flaws, Gone, Over
  <2>4. CASE SendDone
    BY <2>4 DEF TypeOK, SendDone, receiver, disk, run, flaws, Gone, Over
  <2>5. CASE SendFails
    BY <2>5 DEF TypeOK, SendFails, receiver, disk, run, flaws, Gone, Over
  <2>6. CASE RecvEndTime
    BY <2>6 DEF TypeOK, RecvEndTime, receiver, disk, run, flaws, Gone, Over
  <2> QED BY <1>2, <2>1, <2>2, <2>3, <2>4, <2>5, <2>6 DEF SenderStep
<1>3. CASE RecvHeader
  BY <1>3 DEF TypeOK, RecvHeader, sender, disk, run, flaws, Gone
<1>4. CASE SendOffset
  BY <1>4 DEF TypeOK, SendOffset, sender, disk, run, flaws, Gone
<1>5. CASE OpenFile
  BY <1>5, OpenFileType
<1>6. CASE CannotOpen
  <2>1. cur' \in 1..(N+1)
    <3>1. cur \in 1..N
      BY <1>6 DEF TypeOK, CannotOpen
    <3>2. cur' = cur + 1 \/ cur' = cur
      BY <1>6 DEF CannotOpen
    <3> QED BY <3>1, <3>2
  <2>2. short' \subseteq File
    <3>1. cur \in File
      BY <1>6 DEF TypeOK, CannotOpen, File
    <3>2. short' = short \cup {cur} \/ short' = short
      BY <1>6 DEF CannotOpen
    <3> QED BY <3>1, <3>2 DEF TypeOK
  <2>3. rcv' \in {"open", "failed"}
    BY <1>6 DEF CannotOpen
  <2> QED BY <1>6, <2>1, <2>2, <2>3 DEF TypeOK, CannotOpen, sender, run, Gone
<1>7. CASE RecvByte
  <2>1. /\ cur \in File /\ Truncated(content[cur], Position) \in Seq(Int)
    BY <1>7, PositionType, TruncatedFacts DEF RecvByte, TypeOK
  <2>2. /\ Append(Truncated(content[cur], Position), taken + 1) \in Seq(Int)
        /\ Len(Append(Truncated(content[cur], Position), taken + 1)) \in Nat
        /\ Len(content[cur]) <=
             Len(Append(Truncated(content[cur], Position), taken + 1))
    <3>1. Len(content[cur]) \in Nat /\ Len(content[cur]) <= Position
      BY <1>7, <2>1, PositionType, EmptySeq, LenProperties DEF RecvByte, TypeOK
    <3>2. Len(Truncated(content[cur], Position)) = Position /\ Position \in Nat
      BY <1>7, <2>1, PositionType, TruncatedFacts DEF RecvByte, TypeOK
    <3> QED BY <1>7, <2>1, <3>1, <3>2, AppendFacts DEF TypeOK
  <2>3. /\ content' \in [File -> Seq(Int)] /\ Len(content'[cur]) \in Nat
        /\ Len(content[cur]) <= Len(content'[cur])
    BY <1>7, <2>1, <2>2 DEF RecvByte, TypeOK
  <2>4. flushed' \in Nat /\ flushed' <= Len(content'[cur])
    BY <1>7, <2>1, <2>3, LenProperties DEF RecvByte, TypeOK
  <2> QED BY <1>7, <2>1, <2>3, <2>4
          DEF TypeOK, RecvByte, sender, run, flaws, Gone
<1>8. CASE CloseFile
  <2>1. content' \in [File -> Seq(Int)] /\ short' \subseteq File
    BY <1>8, BufferLostType DEF CloseFile, TypeOK
  <2> QED BY <1>8, <2>1 DEF TypeOK, CloseFile, sender, run, Gone, File
<1>9. CASE SendEndTime
  BY <1>9 DEF TypeOK, SendEndTime, sender, disk, run, flaws, Gone
<1>10. CASE RecvFails \/ Stop
  <2>1. content' \in [File -> Seq(Int)]
    BY <1>10, BufferLostType DEF RecvFails, Stop, TypeOK
  <2> QED BY <1>10, <2>1 DEF TypeOK, RecvFails, Stop, sender, run, flaws, Gone
<1>11. CASE PeerDies \/ NetBreaks
  BY <1>11
     DEF TypeOK, PeerDies, NetBreaks, BreakNow, receiver, disk, run, flaws, Gone, Over
<1>12. CASE UNCHANGED vars
  BY <1>12 DEF TypeOK, vars, receiver, sender, disk, run, flaws
<1> QED BY <1>1, <1>2, <1>3, <1>4, <1>5, <1>6, <1>7, <1>8, <1>9, <1>10, <1>11,
           <1>12 DEF Next, ReceiverStep

-----------------------------------------------------------------------------
(* The inductive invariant.                                                *)

LEMMA InitIInv == Init => IInv
<1> SUFFICES ASSUME Init PROVE IInv
  OBVIOUS
<1>1. TypeOK
  BY InitTypeOK
<1>2. \A i \in File : Len(content[i]) = 0
  BY EmptySeq DEF Init
<1>3. DiskIsPrefix
  BY <1>2, EndFacts DEF DiskIsPrefix, Beginning
<1> QED BY <1>1, <1>3 DEF Init, IInv, FinishedIsExact, RetryIsSafe, InOrder,
           InStep, FlushedEnough, AllSent, Gone

(* What is said of one file stays true when a step does not touch it. *)
LEMMA OtherFile ==
  ASSUME NEW i \in File, content'[i] = content[i], i \in present => i \in present',
         i \in gapped <=> i \in gapped', i \in short => i \in short',
         offset' = offset
  PROVE  /\ Beginning(i) => Beginning(i)'
         /\ Kept(i) => Kept(i)'
         /\ Settled(i) => Settled(i)'
<1>1. \A k \in 1..Size(i) : ByteOnDisk(i, k) => ByteOnDisk(i, k)'
  BY DEF ByteOnDisk
<1>2. Whole(i) => Whole(i)'
  BY <1>1 DEF Whole
<1> QED BY <1>1, <1>2 DEF Beginning, Kept, Settled

(* A step that touches no file. *)
LEMMA DiskStays ==
  ASSUME IInv, UNCHANGED <<disk, offset, attempts>>, trusted' => trusted
  PROVE  /\ DiskIsPrefix' /\ RetryIsSafe'
         /\ \A i \in File : Settled(i) => Settled(i)'
<1>1. \A i \in File : /\ Beginning(i) => Beginning(i)'
                      /\ Kept(i) => Kept(i)'
                      /\ Settled(i) => Settled(i)'
  BY OtherFile DEF disk, flaws
<1> QED BY <1>1 DEF IInv, DiskIsPrefix, RetryIsSafe

(* A step that touches the file where the transfer is leaves the others as *)
(* they are: it is enough to look at that one.                             *)
LEMMA CurrentOnly ==
  ASSUME IInv, trusted, rcv \in {"open", "receiving"}, cur \in File,
         UNCHANGED <<offset, attempts, trusted>>, present \subseteq present',
         \A i \in File \ {cur} : /\ content'[i] = content[i]
                                 /\ i \in gapped <=> i \in gapped'
                                 /\ i \in short => i \in short',
         NEW c \in File, c = cur, Beginning(c)', Kept(c)'
  PROVE  /\ DiskIsPrefix' /\ RetryIsSafe'
         /\ \A j \in File : j < cur => Settled(j)'
         /\ offset >= 0 /\ offset < End[cur]
<1>1. \A i \in File \ {cur} : /\ Beginning(i) => Beginning(i)'
                              /\ Kept(i) => Kept(i)'
                              /\ Settled(i) => Settled(i)'
  BY OtherFile
<1>2. offset >= 0 /\ attempts > 0
  BY DEF IInv, InStep
<1>3. \A i \in File : Beginning(i) /\ Kept(i)
  BY <1>2 DEF IInv, DiskIsPrefix, RetryIsSafe
<1>4. DiskIsPrefix' /\ RetryIsSafe'
  BY <1>1, <1>2, <1>3 DEF DiskIsPrefix, RetryIsSafe
<1>5. offset < End[cur] /\ \A j \in File : j < cur => Settled(j)
  BY NType DEF IInv, InOrder, File
<1>6. ASSUME NEW j \in File, j < cur PROVE Settled(j)'
  <2>1. j # cur
    BY <1>6 DEF File
  <2> QED BY <1>1, <1>5, <1>6, <2>1
<1> QED BY <1>2, <1>4, <1>5, <1>6

(* A step of sendThread touches nothing but snd and sent. *)
LEMMA SenderKeeps ==
  ASSUME IInv, SenderStep PROVE IInv'
<1>1. TypeOK'
  BY TypeOKStep DEF IInv, Next
<1>2. UNCHANGED <<receiver, conn, disk, run>>
  BY DEF SenderStep, SendHeader, RecvOffset, SendByte, SendDone, SendFails, RecvEndTime
<1>3. /\ DiskIsPrefix' /\ FinishedIsExact' /\ RetryIsSafe'
      /\ InOrder' /\ InStep' /\ FlushedEnough'
  <2>1. UNCHANGED <<disk, offset, attempts>> /\ (trusted' => trusted)
    BY <1>2 DEF receiver, run
  <2>2. /\ DiskIsPrefix' /\ RetryIsSafe'
        /\ \A i \in File : Settled(i) => Settled(i)'
    BY <2>1, DiskStays
  <2>3. FinishedIsExact'
    BY <1>2, <2>2 DEF IInv, FinishedIsExact, receiver, run
  <2>4. InOrder'
    <3>1. \A j \in 1..(cur-1) : j \in File
      BY NType DEF IInv, TypeOK, File
    <3> QED BY <1>2, <2>2, <3>1 DEF IInv, InOrder, receiver, run
  <2>5. Position' = Position
    BY <1>2 DEF receiver, disk, flaws, Position
  <2>6. InStep'
    BY <1>2, <2>5 DEF IInv, InStep, StartsAt, receiver, disk, run
  <2>7. FlushedEnough'
    BY <1>2 DEF IInv, FlushedEnough, receiver, disk, flaws, run
  <2> QED BY <2>2, <2>3, <2>4, <2>6, <2>7
<1>4. AllSent'
  <2>1. CASE RecvOffset
    <3>1. PICK i \in 1..(N+1) :
            /\ StartsAt(i, offset)
            /\ snd' = "endTime" => i > N
      BY <2>1 DEF RecvOffset, Skipping
    <3>2. snd' = "endTime" => offset < 0 \/ offset >= Total
      <4>1. CASE i > N /\ N > 0
        BY <3>1, <4>1, NType DEF StartsAt, Total
      <4>2. CASE i > N /\ N = 0
        BY <4>2, EndType DEF Total, IInv, TypeOK
      <4> QED BY <3>1, <4>1, <4>2, NType
    <3> QED BY <2>1, <3>2, <1>2, EndFacts DEF AllSent, receiver, IInv, TypeOK
  <2>2. CASE SendDone
    BY <2>2 DEF SendDone, AllSent
  <2>3. CASE SendByte
    BY <2>3 DEF SendByte, AllSent
  <2>4. CASE SendHeader \/ SendFails \/ RecvEndTime
    BY <2>4 DEF SendHeader, SendFails, RecvEndTime, AllSent
  <2> QED BY <2>1, <2>2, <2>3, <2>4 DEF SenderStep
<1> QED BY <1>1, <1>3, <1>4 DEF IInv

(* Starting a receiver touches no file, and what trusted' asks for is what *)
(* RetryIsSafe promises.                                                   *)
LEMMA BeginKeeps ==
  ASSUME IInv, NEW t \in Offsets, Begin(t) PROVE IInv'
<1>1. TypeOK'
  BY TypeOKStep DEF IInv, Next
<1>2. UNCHANGED disk /\ rcv' = "header" /\ offset' = t /\ taken' = t
      /\ snd' = "header" /\ attempts' = attempts + 1
      /\ trusted' = (trusted /\ OnDisk(t))
  BY DEF Begin
<1>3. FinishedIsExact' /\ InOrder' /\ FlushedEnough' /\ AllSent'
  BY <1>2 DEF IInv, FinishedIsExact, InOrder, FlushedEnough, AllSent
<1>4. DiskIsPrefix'
  <2>1. ASSUME NEW i \in File PROVE Beginning(i) => Beginning(i)'
    BY <1>2 DEF Beginning, disk, flaws
  <2> QED BY <1>2, <2>1 DEF IInv, DiskIsPrefix
<1>5. RetryIsSafe'
  <2>1. ASSUME trusted', NEW i \in File PROVE Kept(i)'
    <3>1. \A k \in 1..Size(i) : End[i-1] + k <= t => ByteOnDisk(i, k)
      BY <1>2, <2>1 DEF OnDisk
    <3> QED BY <1>2, <3>1 DEF Kept, ByteOnDisk, disk
  <2> QED BY <1>2, <2>1 DEF RetryIsSafe, OnDisk
<1>6. InStep'
  <2>1. trusted' => t >= 0
    BY <1>2 DEF OnDisk
  <2>2. attempts' > 0
    BY <1>2, AttemptsType DEF IInv, TypeOK
  <2> QED BY <1>2, <2>1, <2>2 DEF InStep
<1> QED BY <1>1, <1>3, <1>4, <1>5, <1>6 DEF IInv

(* A file whose bytes were all to be skipped is settled. *)
LEMMA PassedIsSettled ==
  ASSUME TypeOK, NEW j \in File, End[j] <= offset, Kept(j), Beginning(j)
  PROVE  Settled(j)
<1>1. /\ Size(j) \in Nat /\ End[j] \in Nat /\ End[j-1] \in Nat
      /\ Size(j) = End[j] - End[j-1] /\ offset \in Int
      /\ Len(content[j]) \in Nat
  BY EndFacts, LenProperties DEF TypeOK
<1>2. CASE j \notin gapped /\ Size(j) # 0
  <2>1. \A k \in 1..Size(j) : ByteOnDisk(j, k)
    BY <1>1, <1>2 DEF Kept
  <2>2. ByteOnDisk(j, Size(j))
    BY <1>1, <1>2, <2>1
  <2>3. j \in present /\ Len(content[j]) = Size(j)
    BY <1>1, <2>2 DEF ByteOnDisk, Beginning
  <2> QED BY <2>1, <2>3 DEF Whole, Settled
<1>3. CASE j \in gapped \/ Size(j) = 0
  BY <1>3 DEF Settled
<1> QED BY <1>2, <1>3

(* Steps of startReceive that touch no file. *)
LEMMA TalkKeeps ==
  ASSUME IInv, RecvHeader \/ SendOffset \/ SendEndTime \/ PeerDies \/ NetBreaks
  PROVE  IInv'
<1>1. TypeOK'
  BY TypeOKStep DEF IInv, Next, ReceiverStep
<1>2. UNCHANGED <<offset, taken, snd, disk, run, torecv>>
  BY DEF RecvHeader, SendOffset, SendEndTime, PeerDies, NetBreaks,
         BreakNow, sender, receiver
<1>3. DiskIsPrefix' /\ RetryIsSafe'
  BY <1>2, DiskStays DEF run
<1>4. AllSent'
  BY <1>2 DEF IInv, AllSent, RecvHeader, SendOffset, SendEndTime,
     PeerDies, NetBreaks, BreakNow, sender
<1>5. FlushedEnough'
  BY <1>2 DEF IInv, FlushedEnough, RecvHeader, SendOffset, SendEndTime,
     PeerDies, NetBreaks, BreakNow, receiver, run, disk, flaws
<1>6. FinishedIsExact'
  <2>1. CASE SendEndTime
    <3>1. rcv = "open" /\ cur = N + 1
      BY <2>1, NType DEF SendEndTime, IInv, TypeOK
    <3>2. (cur - 1) = N
      BY <3>1, NType
    <3>3. trusted => \A i \in File : Settled(i)
      BY <3>1, <3>2 DEF IInv, InOrder, File
    <3> QED BY <1>2, <3>3, DiskStays DEF FinishedIsExact, run
  <2>2. CASE ~SendEndTime
    BY <1>2, <2>2, DiskStays DEF IInv, FinishedIsExact, RecvHeader, SendOffset,
       PeerDies, NetBreaks, BreakNow, receiver, run
  <2> QED BY <2>1, <2>2
<1>7. InOrder' /\ InStep'
  <2>1. CASE SendOffset
    <3>1. PICK i \in 1..(N+1) :
            StartsAt(i, offset) /\ cur' = i /\ rcv' \in {"open", "failed"}
      BY <2>1 DEF SendOffset, Skipping
    <3>2. told' = "offset" /\ rcv = "offset"
      BY <2>1 DEF SendOffset
    <3>3. ASSUME trusted, NEW j \in 1..(i-1) PROVE j \in File /\ Settled(j)
      <4>1. j \in File /\ End[j] <= offset
        BY <3>1, <3>3, NType DEF StartsAt, File
      <4>2. Kept(j) /\ Beginning(j)
        BY <3>2, <3>3, <4>1 DEF IInv, InStep, RetryIsSafe, DiskIsPrefix
      <4> QED BY <4>1, <4>2, PassedIsSettled DEF IInv
    <3>4. InOrder'
      BY <1>2, <3>1, <3>2, <3>3, DiskStays DEF InOrder, run, StartsAt
    <3> QED BY <1>2, <3>1, <3>2, <3>4 DEF IInv, InStep, StartsAt, run
  <2>2. CASE RecvHeader
    BY <1>2, <2>2 DEF RecvHeader, IInv, InOrder, InStep, run
  <2>3. CASE SendEndTime
    BY <1>2, <2>3 DEF SendEndTime, IInv, InOrder, InStep, run
  <2>4. CASE PeerDies \/ NetBreaks
    <3>1. UNCHANGED <<receiver, disk, run>>
      BY <2>4 DEF PeerDies, NetBreaks, BreakNow
    <3>2. \A j \in 1..(cur-1) : j \in File
      BY NType DEF IInv, TypeOK, File
    <3>3. \A i \in File : Settled(i) => Settled(i)'
      BY <1>2, DiskStays DEF run
    <3>4. Position' = Position
      BY <3>1 DEF receiver, disk, flaws, Position
    <3>5. InOrder'
      BY <3>1, <3>2, <3>3 DEF IInv, InOrder, receiver, run
    <3>6. InStep'
      BY <3>1, <3>4 DEF IInv, InStep, StartsAt, receiver, disk, run
    <3> QED BY <3>5, <3>6
  <2> QED BY <2>1, <2>2, <2>3, <2>4
<1> QED BY <1>1, <1>3, <1>4, <1>5, <1>6, <1>7 DEF IInv

(* A step that leaves a file open, with the file and the stream at the     *)
(* same byte.                                                              *)
LEMMA WritingKeeps ==
  ASSUME IInv, TypeOK', AllSent', trusted, rcv \in {"open", "receiving"},
         rcv' = "receiving", cur \in File,
         UNCHANGED <<offset, cur, told, attempts, trusted>>,
         present \subseteq present', cur \in present',
         \A i \in File \ {cur} : /\ content'[i] = content[i]
                                 /\ i \in gapped <=> i \in gapped'
                                 /\ i \in short => i \in short',
         NEW c \in File, c = cur, Beginning(c)', Kept(c)',
         taken' = End[cur-1] + Position', torecv' = Size(cur) - Position',
         cur \notin gapped' => flushed' >= offset - End[cur-1]
  PROVE  IInv'
<1>1. /\ DiskIsPrefix' /\ RetryIsSafe'
      /\ \A j \in File : j < cur => Settled(j)'
      /\ offset >= 0 /\ offset < End[cur]
  BY CurrentOnly
<1>2. FinishedIsExact'
  BY DEF FinishedIsExact
<1>3. InOrder'
  <2>1. told # "nothing"
    BY DEF IInv, InOrder
  <2>2. \A j \in 1..(cur-1) : j \in File /\ j < cur
    BY NType DEF File
  <2> QED BY <1>1, <2>1, <2>2 DEF InOrder
<1>4. InStep'
  BY <1>1 DEF IInv, InStep
<1>5. FlushedEnough'
  BY DEF FlushedEnough
<1> QED BY <1>1, <1>2, <1>3, <1>4, <1>5 DEF IInv

(* A step of which no user knows what it does to the files. *)
LEMMA UntrustedKeeps ==
  ASSUME TypeOK', AllSent', ~trusted' PROVE IInv'
BY DEF IInv, DiskIsPrefix, FinishedIsExact, RetryIsSafe, InOrder, InStep,
   FlushedEnough

(* Without the bytes to skip, there are none to skip. *)
LEMMA AbsentIsNew ==
  ASSUME IInv, trusted, rcv = "open", cur \in File,
         ~(cur \in present /\ StartsAt(cur, offset))
  PROVE  offset <= End[cur-1]
<1>1. /\ offset \in Int /\ End[cur-1] \in Nat /\ End[cur] \in Nat
      /\ Size(cur) = End[cur] - End[cur-1] /\ Size(cur) \in Nat
  BY EndFacts DEF IInv, TypeOK
<1>2. offset < End[cur] /\ attempts > 0
  BY NType DEF IInv, InOrder, InStep, File
<1>3. SUFFICES ASSUME End[cur-1] < offset PROVE FALSE
  BY <1>1
<1>4. StartsAt(cur, offset)
  BY <1>1, <1>2, <1>3, InsideStarts
<1>5. cur \notin present /\ cur \notin gapped
  BY <1>4 DEF IInv, TypeOK
<1>6. Kept(cur)
  BY <1>2 DEF IInv, RetryIsSafe
<1>7. ByteOnDisk(cur, 1)
  BY <1>1, <1>2, <1>3, <1>5, <1>6 DEF Kept
<1> QED BY <1>5, <1>7 DEF ByteOnDisk

(* fopen, truncate, the second open on Windows. *)
LEMMA OpenFileKeeps ==
  ASSUME IInv, OpenFile PROVE IInv'
<1> DEFINE resumed == cur \in present /\ StartsAt(cur, offset)
           skipped == offset - End[cur-1]
<1>1. TypeOK'
  BY TypeOKStep DEF IInv, Next, ReceiverStep
<1>2. cur \in File /\ rcv = "open"
  BY NType DEF OpenFile, IInv, TypeOK, File
<1>3. UNCHANGED <<offset, cur, taken, told, sender, conn, run>>
  BY DEF OpenFile
<1>4. AllSent'
  BY <1>3 DEF AllSent, IInv, sender
<1>5. CASE ~trusted
  BY <1>1, <1>3, <1>4, <1>5, UntrustedKeeps DEF run
<1>6. CASE trusted
  <2>1. offset >= 0 /\ offset < End[cur] /\ attempts > 0
    BY <1>2, <1>6, NType DEF IInv, InStep, InOrder, File
  <2>2. /\ offset \in Int /\ End[cur-1] \in Nat /\ End[cur] \in Nat
        /\ Size(cur) = End[cur] - End[cur-1] /\ Size(cur) \in Nat
        /\ content[cur] \in Seq(Int) /\ Len(content[cur]) \in Nat
    BY <1>2, EndFacts, LenProperties DEF IInv, TypeOK
  <2>3. /\ rcv' = "receiving" /\ present' = present \cup {cur}
        /\ content' = [content EXCEPT ![cur] =
                         IF resumed /\ ~windows THEN Truncated(content[cur], skipped)
                         ELSE <<>>]
        /\ torecv' = (IF resumed THEN End[cur] - offset ELSE Size(cur))
        /\ flushed' = Len(IF resumed /\ ~windows THEN Truncated(content[cur], skipped)
                          ELSE <<>>)
        /\ gapped' = (IF windows /\ resumed /\ skipped > 0
                        THEN gapped \cup {cur} ELSE gapped \ {cur})
        /\ short' = short \ {cur}
    BY <1>2, <2>1, <2>2 DEF OpenFile
  <2>4. \A i \in File \ {cur} : /\ content'[i] = content[i]
                                /\ i \in gapped <=> i \in gapped'
                                /\ i \in short => i \in short'
    BY <2>3 DEF IInv, TypeOK
  <2>5. resumed => taken = offset /\ End[cur-1] <= offset /\ skipped \in Nat
    BY <1>2, <1>6, <2>1, <2>2, StartFacts DEF IInv, InStep
  <2>6. ~resumed => offset <= End[cur-1] /\ taken = End[cur-1]
    <3>1. ASSUME ~resumed PROVE offset <= End[cur-1]
      BY <1>2, <1>6, <3>1, AbsentIsNew
    <3>2. ASSUME ~resumed PROVE taken = End[cur-1]
      <4>1. CASE StartsAt(cur, offset)
        BY <1>2, <1>6, <2>1, <2>2, <3>1, <3>2, <4>1, StartFacts DEF IInv, InStep
      <4>2. CASE ~StartsAt(cur, offset)
        BY <1>2, <1>6, <4>2 DEF IInv, InStep
      <4> QED BY <4>1, <4>2
    <3> QED BY <3>1, <3>2
  <2>7. Beginning(cur) /\ Kept(cur)
    BY <1>2, <1>6, <2>1 DEF IInv, DiskIsPrefix, RetryIsSafe
  <2> DEFINE Right == /\ Beginning(cur)' /\ Kept(cur)'
                      /\ taken' = End[cur-1] + Position'
                      /\ torecv' = Size(cur) - Position'
                      /\ cur \notin gapped' => flushed' >= offset - End[cur-1]
  <2>8. ASSUME resumed /\ ~windows PROVE Right
    <3>1. cur \notin gapped /\ cur \notin gapped'
      BY <2>3, <2>8 DEF IInv, TypeOK
    <3>2. /\ content'[cur] = Truncated(content[cur], skipped)
          /\ flushed' = Len(content'[cur])
          /\ torecv' = End[cur] - offset
      BY <1>2, <2>3, <2>8 DEF IInv, TypeOK
    <3>3. /\ Len(content'[cur]) = skipped
          /\ \A k \in 1..skipped :
               k <= Len(content[cur]) => content'[cur][k] = content[cur][k]
      <4>1. /\ Len(Truncated(content[cur], skipped)) = skipped
            /\ \A k \in 1..skipped :
                 k <= Len(content[cur]) =>
                   Truncated(content[cur], skipped)[k] = content[cur][k]
        BY <2>2, <2>5, <2>8, TruncatedFacts
      <4> QED BY <3>2, <4>1
    <3>4. skipped <= Size(cur)
      BY <2>1, <2>2
    <3>5. ASSUME NEW k \in 1..skipped PROVE content'[cur][k] = End[cur-1] + k
      <4>1. k \in 1..Size(cur) /\ End[cur-1] + k <= offset
        BY <2>2, <2>5, <2>8, <3>4
      <4>2. ByteOnDisk(cur, k)
        BY <2>7, <3>1, <4>1 DEF Kept
      <4> QED BY <3>3, <4>2 DEF ByteOnDisk
    <3>6. Beginning(cur)'
      BY <1>3, <3>3, <3>4, <3>5 DEF Beginning
    <3>7. Kept(cur)'
      <4>1. ASSUME NEW k \in 1..Size(cur), End[cur-1] + k <= offset
            PROVE  ByteOnDisk(cur, k)'
        <5>1. k \in 1..skipped
          BY <2>2, <2>5, <2>8, <4>1
        <5>2. cur \in present' /\ k <= Len(content'[cur])
          BY <2>3, <2>5, <2>8, <3>3, <5>1
        <5> QED BY <1>3, <3>5, <5>1, <5>2 DEF ByteOnDisk
      <4> QED BY <1>3, <4>1 DEF Kept
    <3>8. Position' = skipped
      BY <1>3, <3>1, <3>3 DEF Position
    <3>9. /\ taken' = End[cur-1] + Position' /\ torecv' = Size(cur) - Position'
          /\ flushed' >= offset - End[cur-1]
      BY <1>3, <2>2, <2>5, <2>8, <3>2, <3>3, <3>8
    <3> QED BY <3>6, <3>7, <3>9
  <2>9. ASSUME resumed /\ windows /\ skipped > 0 PROVE Right
    <3>1. cur \in gapped' /\ content'[cur] = <<>> /\ torecv' = End[cur] - offset
      BY <1>2, <2>3, <2>9 DEF IInv, TypeOK
    <3>2. Position' = skipped
      BY <1>3, <3>1 DEF Position
    <3>3. Beginning(cur)' /\ Kept(cur)'
      BY <1>3, <2>2, <3>1, EmptySeq DEF Beginning, Kept
    <3>4. taken' = End[cur-1] + Position' /\ torecv' = Size(cur) - Position'
      BY <1>3, <2>2, <2>5, <2>9, <3>1, <3>2
    <3> QED BY <3>1, <3>3, <3>4
  <2>10. ASSUME ~(resumed /\ ~windows) /\ ~(resumed /\ windows /\ skipped > 0)
         PROVE  Right
    <3>1. cur \notin gapped' /\ content'[cur] = <<>> /\ flushed' = 0
      <4>1. cur \notin gapped'
        BY <2>3, <2>10
      <4>2. content'[cur] = <<>>
        BY <1>2, <2>3, <2>10 DEF IInv, TypeOK
      <4>3. flushed' = 0
        BY <2>3, <2>10
      <4> QED BY <4>1, <4>2, <4>3
    <3>2. offset <= End[cur-1] /\ taken = End[cur-1]
          /\ (resumed => offset = End[cur-1])
      BY <2>2, <2>5, <2>6, <2>10
    <3>3. Position' = 0
      BY <1>3, <3>1 DEF Position
    <3>4. Beginning(cur)' /\ Kept(cur)'
      <4>1. Beginning(cur)'
        BY <1>3, <2>2, <3>1, EmptySeq DEF Beginning
      <4>2. \A k \in 1..Size(cur) : ~(End[cur-1] + k <= offset)
        BY <2>2, <3>2
      <4> QED BY <1>3, <4>1, <4>2 DEF Kept
    <3>5. /\ taken' = End[cur-1] + Position' /\ torecv' = Size(cur) - Position'
          /\ flushed' >= offset - End[cur-1]
      BY <1>3, <2>2, <2>3, <3>1, <3>2, <3>3
    <3> QED BY <3>4, <3>5
  <2>11. Right
    BY <2>8, <2>9, <2>10
  <2>12. UNCHANGED <<offset, cur, told, attempts, trusted>>
    BY <1>3 DEF run
  <2>13. present \subseteq present' /\ cur \in present'
    BY <2>3
  <2> QED BY <1>1, <1>2, <1>4, <1>6, <2>3, <2>4, <2>11, <2>12, <2>13, WritingKeeps
<1> QED BY <1>5, <1>6

(* The next byte of the stream is the next byte of the file. *)
LEMMA RecvByteKeeps ==
  ASSUME IInv, RecvByte PROVE IInv'
<1>1. TypeOK'
  BY TypeOKStep DEF IInv, Next, ReceiverStep
<1>2. cur \in File /\ rcv = "receiving" /\ torecv > 0
  BY DEF RecvByte, IInv, TypeOK
<1>3. UNCHANGED <<offset, rcv, cur, told, sender, conn, present, flaws, run>>
  BY DEF RecvByte
<1>4. AllSent'
  BY <1>3 DEF AllSent, IInv, sender
<1>5. CASE ~trusted
  BY <1>1, <1>3, <1>4, <1>5, UntrustedKeeps DEF run
<1>6. CASE trusted
  <2> DEFINE c == content[cur]
             p == Position
             cut == Truncated(c, p)
  <2>1. /\ content' = [content EXCEPT ![cur] = Append(cut, taken + 1)]
        /\ flushed' \in {flushed, Len(content'[cur])}
        /\ taken' = taken + 1 /\ torecv' = torecv - 1
    BY DEF RecvByte
  <2>2. \A i \in File \ {cur} : /\ content'[i] = content[i]
                                /\ i \in gapped <=> i \in gapped'
                                /\ i \in short => i \in short'
    BY <1>3, <2>1 DEF IInv, TypeOK, flaws
  <2>3. /\ taken = End[cur-1] + p /\ torecv = Size(cur) - p
        /\ cur \notin gapped => flushed >= offset - End[cur-1]
        /\ flushed <= Len(c) /\ cur \in present
    BY <1>2, <1>6 DEF IInv, TypeOK, InStep, FlushedEnough
  <2>4. /\ c \in Seq(Int) /\ Len(c) \in Nat /\ p \in Nat
        /\ taken \in Int /\ torecv \in Nat /\ flushed \in Nat /\ offset \in Int
        /\ End[cur-1] \in Nat /\ End[cur] \in Nat /\ Size(cur) \in Nat
    BY <1>2, EndFacts, LenProperties, PositionType DEF IInv, TypeOK
  <2>5. p = Len(c) \/ (cur \in gapped /\ c = <<>>)
    BY <1>2, PositionType DEF IInv
  <2>6. /\ cut \in Seq(Int) /\ Len(cut) = p
        /\ \A k \in 1..p : k <= Len(c) => cut[k] = c[k]
        /\ \A k \in 1..p : ~(k <= Len(c)) => cut[k] = Zero
    <3>1. \A k \in 1..p : ~(k <= Len(c)) => cut[k] = Zero
      BY DEF Truncated
    <3>2. /\ cut \in Seq(Int) /\ Len(cut) = p
          /\ \A k \in 1..p : k <= Len(c) => cut[k] = c[k]
      <4> HIDE DEF c, p
      <4> QED BY <2>4, TruncatedFacts
    <3> QED BY <3>1, <3>2
  <2>7. /\ Len(content'[cur]) = p + 1
        /\ \A k \in 1..p : content'[cur][k] = cut[k]
        /\ content'[cur][p + 1] = taken + 1
    <3>1. content'[cur] = Append(cut, taken + 1)
      BY <1>2, <2>1 DEF IInv, TypeOK
    <3> HIDE DEF cut, p
    <3>2. taken + 1 \in Int
      BY <2>4
    <3>3. /\ Len(Append(cut, taken + 1)) = Len(cut) + 1
          /\ \A k \in 1..Len(cut) : Append(cut, taken + 1)[k] = cut[k]
          /\ Append(cut, taken + 1)[Len(cut) + 1] = taken + 1
      BY <2>6, <3>2, AppendFacts
    <3> QED BY <2>6, <3>1, <3>3
  <2>8. Beginning(cur) /\ Kept(cur)
    BY <1>2, <1>6 DEF IInv, DiskIsPrefix, RetryIsSafe, InStep
  <2> HIDE DEF c, p, cut
  <2>9. p + 1 <= Size(cur)
    BY <1>2, <2>3, <2>4
  <2>10. content'[cur][p + 1] = End[cur-1] + (p + 1)
    <3>1. content'[cur][p + 1] = taken + 1
      BY <2>7
    <3>2. taken = End[cur-1] + p
      BY <2>3
    <3>3. End[cur-1] \in Nat /\ p \in Nat
      BY <2>4
    <3>4. (End[cur-1] + p) + 1 = End[cur-1] + (p + 1)
      BY <3>3
    <3> QED BY <3>1, <3>2, <3>4
  <2>11. \A k \in 1..p : \/ content'[cur][k] = End[cur-1] + k
                         \/ cur \in gapped /\ \A j \in 1..k : content'[cur][j] = Zero
    <3>1. CASE p = Len(c)
      <4>1. ASSUME NEW k \in 1..p PROVE content'[cur][k] = c[k]
        <5>1. p \in Nat
          BY <2>4
        <5>2. k <= Len(c)
          BY <3>1, <5>1
        <5>3. content'[cur][k] = cut[k]
          BY <2>7
        <5>4. cut[k] = c[k]
          BY <2>6, <5>2
        <5> QED BY <5>3, <5>4
      <4> SUFFICES ASSUME NEW k \in 1..p
                   PROVE  \/ content'[cur][k] = End[cur-1] + k
                          \/ cur \in gapped /\ \A j \in 1..k : content'[cur][j] = Zero
        OBVIOUS
      <4>2. \A j \in 1..k : j \in 1..p
        BY <2>4
      <4>3. \/ c[k] = End[cur-1] + k
            \/ cur \in gapped /\ \A j \in 1..k : c[j] = Zero
        BY <2>8, <3>1 DEF Beginning, c
      <4> QED BY <4>1, <4>2, <4>3
    <3>2. CASE cur \in gapped /\ c = <<>>
      <4>1. \A k \in 1..p : content'[cur][k] = Zero
        BY <2>4, <2>6, <2>7, <3>2, EmptySeq
      <4>2. \A k \in 1..p : \A j \in 1..k : j \in 1..p
        BY <2>4
      <4> QED BY <3>2, <4>1, <4>2
    <3> QED BY <2>5, <3>1, <3>2
  <2>12. Beginning(cur)'
    <3>1. \A k \in 1..(p + 1) : k \in 1..p \/ k = p + 1
      BY <2>4
    <3>2. \A k \in 1..(p + 1) :
            \/ content'[cur][k] = End[cur-1] + k
            \/ cur \in gapped /\ \A j \in 1..k : content'[cur][j] = Zero
      BY <2>10, <2>11, <3>1
    <3> QED BY <1>3, <2>7, <2>9, <3>2 DEF Beginning, flaws
  <2>13. Kept(cur)'
    <3>1. ASSUME cur \notin gapped, NEW k \in 1..Size(cur), ByteOnDisk(cur, k)
          PROVE  ByteOnDisk(cur, k)'
      <4>1. p = Len(c) /\ k <= Len(c) /\ c[k] = End[cur-1] + k /\ cur \in present
        BY <2>5, <3>1 DEF ByteOnDisk, c
      <4>2. k \in 1..p /\ k <= p + 1
        BY <2>4, <4>1
      <4>3. content'[cur][k] = End[cur-1] + k
        BY <2>6, <2>7, <4>1, <4>2
      <4> QED BY <1>3, <2>7, <4>1, <4>2, <4>3 DEF ByteOnDisk
    <3> QED BY <1>3, <2>8, <3>1 DEF Kept, flaws
  <2>14. Position' = p + 1
    <3>1. content'[cur] # <<>>
      BY <2>4, <2>7, EmptySeq
    <3> QED BY <1>3, <2>7, <3>1 DEF Position
  <2>15. taken' = End[cur-1] + Position' /\ torecv' = Size(cur) - Position'
    <3>1. taken' = taken + 1 /\ torecv' = torecv - 1
      BY <2>1
    <3>2. /\ taken = End[cur-1] + p /\ torecv = Size(cur) - p
          /\ p \in Nat /\ End[cur-1] \in Nat /\ Size(cur) \in Nat
      BY <2>3, <2>4
    <3>3. /\ (End[cur-1] + p) + 1 = End[cur-1] + (p + 1)
          /\ (Size(cur) - p) - 1 = Size(cur) - (p + 1)
      BY <3>2
    <3> QED BY <2>14, <3>1, <3>2, <3>3
  <2>16. cur \notin gapped' => flushed' >= offset - End[cur-1]
    <3>1. ASSUME cur \notin gapped PROVE flushed' >= offset - End[cur-1]
      <4>1. /\ flushed >= offset - End[cur-1] /\ flushed <= p
            /\ offset \in Int /\ End[cur-1] \in Nat /\ flushed \in Nat /\ p \in Nat
        BY <2>3, <2>4, <2>5, <3>1
      <4>2. flushed' = flushed \/ flushed' = p + 1
        BY <2>1, <2>7
      <4>3. p + 1 >= offset - End[cur-1]
        BY <4>1
      <4> QED BY <4>1, <4>2, <4>3
    <3> QED BY <1>3, <3>1 DEF flaws
  <2>17. /\ UNCHANGED <<offset, cur, told, attempts, trusted>>
         /\ rcv' = "receiving" /\ present \subseteq present' /\ cur \in present'
    BY <1>2, <1>3, <2>3 DEF run
  <2> QED BY <1>1, <1>2, <1>4, <1>6, <2>2, <2>12, <2>13, <2>15, <2>16, <2>17,
             WritingKeeps
<1> QED BY <1>5, <1>6

(* What the loss of the buffer leaves of the current file: a beginning of  *)
(* it that contains the bytes that were skipped.                           *)
LEMMA LostFacts ==
  ASSUME IInv, trusted, rcv = "receiving", content' = BufferLost,
         UNCHANGED <<offset, present, gapped>>,
         NEW c \in File, c = cur
  PROVE  /\ \A i \in File \ {cur} : content'[i] = content[i]
         /\ Beginning(c)' /\ Kept(c)'
<1>1. /\ content[c] \in Seq(Int) /\ Len(content[c]) \in Nat
      /\ flushed \in Nat /\ flushed <= Len(content[c])
      /\ c \notin gapped => flushed >= offset - End[c-1]
      /\ End[c-1] \in Nat /\ offset \in Int /\ Size(c) \in Nat
  BY EndFacts, LenProperties DEF IInv, TypeOK, FlushedEnough
<1>2. Beginning(c) /\ Kept(c)
  BY DEF IInv, DiskIsPrefix, RetryIsSafe, InStep
<1>3. content'[c] = SubSeq(content[c], 1, flushed)
  BY DEF BufferLost, IInv, TypeOK
<1>4. /\ Len(content'[c]) = flushed
      /\ \A k \in 1..flushed : content'[c][k] = content[c][k]
  <2>1. /\ Len(SubSeq(content[c], 1, flushed)) = flushed
        /\ \A k \in 1..flushed : SubSeq(content[c], 1, flushed)[k] = content[c][k]
    BY <1>1, SubSeqFacts
  <2> QED BY <1>3, <2>1
<1>5. \A i \in File \ {cur} : content'[i] = content[i]
  BY DEF BufferLost, IInv, TypeOK
<1>6. Beginning(c)'
  <2>1. Len(content'[c]) <= Size(c)
    BY <1>1, <1>2, <1>4 DEF Beginning
  <2>2. ASSUME NEW k \in 1..flushed
        PROVE  \/ content'[c][k] = End[c-1] + k
               \/ c \in gapped /\ \A j \in 1..k : content'[c][j] = Zero
    <3>1. k \in 1..Len(content[c]) /\ \A j \in 1..k : j \in 1..flushed
      BY <1>1
    <3>2. \/ content[c][k] = End[c-1] + k
          \/ c \in gapped /\ \A j \in 1..k : content[c][j] = Zero
      BY <1>2, <3>1 DEF Beginning
    <3> QED BY <1>4, <3>1, <3>2
  <2> QED BY <1>4, <2>1, <2>2 DEF Beginning
<1>7. Kept(c)'
  <2>1. ASSUME c \notin gapped, NEW k \in 1..Size(c), End[c-1] + k <= offset
        PROVE  ByteOnDisk(c, k)'
    <3>1. k \in 1..flushed
      BY <1>1, <2>1
    <3>2. ByteOnDisk(c, k)
      BY <1>2, <2>1 DEF Kept
    <3> QED BY <1>4, <3>1, <3>2 DEF ByteOnDisk
  <2> QED BY <2>1 DEF Kept
<1> QED BY <1>5, <1>6, <1>7

(* A step to the next file. *)
LEMMA NextFile ==
  ASSUME IInv, TypeOK', AllSent', trusted, rcv \in {"open", "receiving"},
         rcv' = "open", cur \in File, cur' = cur + 1, taken = End[cur],
         UNCHANGED <<offset, taken, told, attempts, trusted, present>>,
         \A i \in File \ {cur} : /\ content'[i] = content[i]
                                 /\ i \in gapped <=> i \in gapped'
                                 /\ i \in short => i \in short',
         NEW c \in File, c = cur, Beginning(c)', Kept(c)', Settled(c)'
  PROVE  IInv'
<1>1. /\ DiskIsPrefix' /\ RetryIsSafe'
      /\ \A j \in File : j < cur => Settled(j)'
      /\ offset >= 0 /\ offset < End[cur]
  BY CurrentOnly
<1>2. FinishedIsExact' /\ FlushedEnough'
  BY DEF FinishedIsExact, FlushedEnough
<1>3. (cur + 1) - 1 = cur
  BY DEF File
<1>4. InOrder'
  <2>1. told # "nothing"
    BY DEF IInv, InOrder
  <2>2. \A j \in 1..cur : j = cur \/ (j \in File /\ j < cur)
    BY NType DEF File
  <2>3. cur + 1 <= N => offset < End[cur + 1]
    <3>1. cur + 1 <= N => /\ End[cur + 1] \in Nat /\ End[cur] \in Nat
                          /\ End[cur] <= End[cur + 1]
      BY NType, EndType DEF File
    <3> QED BY <1>1, <3>1 DEF IInv, TypeOK
  <2> QED BY <1>1, <1>3, <2>1, <2>2, <2>3 DEF InOrder
<1>5. InStep'
  <2>1. ~StartsAt(cur + 1, offset)
    <3>1. cur \in 1..((cur + 1) - 1) /\ ~(End[cur] <= offset)
      BY <1>1, EndFacts DEF File, IInv, TypeOK
    <3> QED BY <3>1 DEF StartsAt
  <2>2. ~StartsAt(cur', offset') /\ taken' = End[cur' - 1]
    BY <1>3, <2>1
  <2> QED BY <1>1, <2>2 DEF IInv, InStep, StartsAt
<1> QED BY <1>1, <1>2, <1>4, <1>5 DEF IInv

(* A file that cannot be opened is given up, unless it is empty. *)
LEMMA CannotOpenKeeps ==
  ASSUME IInv, CannotOpen PROVE IInv'
<1>1. TypeOK'
  BY TypeOKStep DEF IInv, Next, ReceiverStep
<1>2. cur \in File /\ rcv = "open"
  BY NType DEF CannotOpen, IInv, TypeOK, File
<1>3. UNCHANGED <<offset, torecv, taken, told, sender, conn, present, content,
                  flushed, gapped, run>>
  BY DEF CannotOpen
<1>4. AllSent'
  BY <1>3 DEF AllSent, IInv, sender
<1>5. CASE ~trusted
  BY <1>1, <1>3, <1>4, <1>5, UntrustedKeeps DEF run
<1>6. CASE trusted /\ rcv' = "failed" /\ UNCHANGED <<cur, short>>
  <2>1. DiskIsPrefix' /\ RetryIsSafe'
    BY <1>3, <1>6, DiskStays DEF disk, flaws, run
  <2>2. FinishedIsExact' /\ InOrder' /\ FlushedEnough'
    BY <1>6 DEF FinishedIsExact, InOrder, FlushedEnough
  <2>3. InStep'
    BY <1>2, <1>3, <1>6 DEF IInv, InStep, run
  <2> QED BY <1>1, <1>4, <2>1, <2>2, <2>3 DEF IInv
<1>7. CASE /\ trusted /\ Size(cur) = 0 /\ rcv' = "open" /\ cur' = cur + 1
           /\ short' = short \cup {cur}
  <2>1. \A i \in File : /\ content'[i] = content[i]
                        /\ i \in gapped <=> i \in gapped'
                        /\ i \in short => i \in short'
    BY <1>3, <1>7
  <2>2. Beginning(cur) /\ Kept(cur)
    BY <1>2, <1>7 DEF IInv, DiskIsPrefix, RetryIsSafe, InStep
  <2>3. \A c \in File : c = cur => Beginning(c)' /\ Kept(c)' /\ Settled(c)'
    BY <1>3, <1>7, <2>1, <2>2, OtherFile DEF Settled
  <2>4. taken = End[cur]
    <3>1. End[cur] = End[cur-1] /\ End[cur] \in Nat /\ offset \in Int
      BY <1>2, <1>7, EndFacts DEF IInv, TypeOK
    <3>2. offset >= 0 /\ offset < End[cur]
      BY <1>2, <1>7, NType DEF IInv, InStep, InOrder, File
    <3>3. ~StartsAt(cur, offset)
      BY <1>2, <3>1, <3>2, StartFacts
    <3> QED BY <1>2, <1>7, <3>1, <3>3 DEF IInv, InStep
  <2> QED BY <1>1, <1>2, <1>3, <1>4, <1>7, <2>1, <2>3, <2>4, NextFile DEF run
<1> QED BY <1>2, <1>5, <1>6, <1>7 DEF CannotOpen

(* When nothing is left to receive the file is whole, unless the end of it *)
(* could not be written out.                                               *)
LEMMA CloseFileKeeps ==
  ASSUME IInv, CloseFile PROVE IInv'
<1>1. TypeOK'
  BY TypeOKStep DEF IInv, Next, ReceiverStep
<1>2. /\ cur \in File /\ rcv = "receiving" /\ torecv = 0
      /\ rcv' = "open" /\ cur' = cur + 1
  BY DEF CloseFile, IInv, TypeOK
<1>3. UNCHANGED <<offset, torecv, taken, told, sender, conn, present, flushed,
                  gapped, run>>
  BY DEF CloseFile
<1>4. AllSent'
  BY <1>3 DEF AllSent, IInv, sender
<1>5. CASE ~trusted
  BY <1>1, <1>3, <1>4, <1>5, UntrustedKeeps DEF run
<1>6. CASE trusted
  <2>1. /\ Position \in Nat /\ Size(cur) \in Nat
        /\ taken = End[cur-1] + Position /\ torecv = Size(cur) - Position
        /\ End[cur] \in Nat /\ End[cur-1] \in Nat
        /\ Size(cur) = End[cur] - End[cur-1] /\ cur \in present
    BY <1>2, <1>6, EndFacts, PositionType DEF IInv, InStep
  <2>2. Position = Size(cur) /\ taken = End[cur]
    BY <1>2, <2>1
  <2>3. Beginning(cur) /\ Kept(cur)
    BY <1>2, <1>6 DEF IInv, DiskIsPrefix, RetryIsSafe, InStep
  <2>4. /\ \A i \in File \ {cur} : /\ content'[i] = content[i]
                                   /\ i \in gapped <=> i \in gapped'
                                   /\ i \in short => i \in short'
        /\ \A c \in File : c = cur => Beginning(c)' /\ Kept(c)' /\ Settled(c)'
    <3>1. CASE UNCHANGED <<content, short>>
      <4>1. Settled(cur)
        <5>1. CASE cur \in gapped
          BY <5>1 DEF Settled
        <5>2. CASE cur \notin gapped
          <6>1. Len(content[cur]) = Size(cur)
            BY <1>2, <2>2, <5>2 DEF Position
          <6> QED BY <1>2, <2>1, <2>3, <5>2, <6>1, FullIsWhole DEF Settled
        <5> QED BY <5>1, <5>2
      <4>2. \A i \in File : /\ content'[i] = content[i]
                            /\ i \in gapped <=> i \in gapped'
                            /\ i \in short => i \in short'
        BY <1>3, <3>1
      <4>3. \A c \in File : c = cur => Beginning(c)' /\ Kept(c)' /\ Settled(c)'
        BY <1>3, <2>3, <4>1, <4>2, OtherFile
      <4> QED BY <4>2, <4>3
    <3>2. CASE content' = BufferLost /\ short' = short \cup {cur}
      <4>1. /\ \A i \in File \ {cur} : content'[i] = content[i]
            /\ \A c \in File : c = cur => Beginning(c)' /\ Kept(c)'
        BY <1>2, <1>3, <1>6, <3>2, LostFacts
      <4>2. \A c \in File : c = cur => Settled(c)'
        BY <3>2 DEF Settled
      <4>3. \A i \in File \ {cur} : /\ i \in gapped <=> i \in gapped'
                                    /\ i \in short => i \in short'
        BY <1>3, <3>2
      <4> QED BY <4>1, <4>2, <4>3
    <3> QED BY <3>1, <3>2 DEF CloseFile
  <2> QED BY <1>1, <1>2, <1>3, <1>4, <1>6, <2>2, <2>4, NextFile DEF run
<1> QED BY <1>5, <1>6

(* The end of an attempt may cut the current file, but not in front of the *)
(* offset.                                                                 *)
LEMMA EndKeeps ==
  ASSUME IInv, RecvFails \/ Stop PROVE IInv'
<1>1. TypeOK'
  BY TypeOKStep DEF IInv, Next, ReceiverStep
<1>2. /\ UNCHANGED <<offset, cur, torecv, taken, told, sender, conn, present,
                     flushed, flaws, run>>
      /\ rcv' \in {"failed", "stopped"} /\ rcv \notin Gone
  BY DEF RecvFails, Stop, Gone
<1>3. AllSent' /\ FlushedEnough' /\ FinishedIsExact' /\ InOrder'
  BY <1>2 DEF AllSent, FlushedEnough, FinishedIsExact, InOrder, IInv, sender
<1>4. InStep'
  BY <1>2 DEF IInv, InStep, run, Gone
<1>5. CASE ~trusted
  BY <1>1, <1>2, <1>3, <1>5, UntrustedKeeps DEF run
<1>6. CASE UNCHANGED content
  <2>1. DiskIsPrefix' /\ RetryIsSafe'
    BY <1>2, <1>6, DiskStays DEF disk, run
  <2> QED BY <1>1, <1>3, <1>4, <2>1 DEF IInv
<1>7. CASE rcv = "receiving" /\ content' = BufferLost /\ trusted
  <2>1. cur \in File
    BY <1>7 DEF IInv, TypeOK
  <2>2. /\ \A i \in File \ {cur} : content'[i] = content[i]
        /\ \A c \in File : c = cur => Beginning(c)' /\ Kept(c)'
    BY <1>2, <1>7, <2>1, LostFacts DEF flaws
  <2>3. DiskIsPrefix' /\ RetryIsSafe'
    BY <1>2, <1>7, <2>1, <2>2, CurrentOnly DEF flaws, run
  <2> QED BY <1>1, <1>3, <1>4, <2>3 DEF IInv
<1>8. UNCHANGED content \/ (rcv = "receiving" /\ content' = BufferLost)
  BY DEF RecvFails, Stop
<1> QED BY <1>5, <1>6, <1>7, <1>8

-----------------------------------------------------------------------------
(* The theorems.                                                           *)

LEMMA IInvStep == IInv /\ [Next]_vars => IInv'
<1> SUFFICES ASSUME IInv, [Next]_vars PROVE IInv'
  OBVIOUS
<1>1. CASE UNCHANGED vars
  BY <1>1 DEF vars, receiver, sender, disk, flaws, run, IInv, TypeOK, DiskIsPrefix,
     FinishedIsExact, RetryIsSafe, Beginning, Settled, Kept, ByteOnDisk, Whole,
     InOrder, InStep, Position, StartsAt, FlushedEnough, AllSent
<1> QED BY <1>1, BeginKeeps, SenderKeeps, TalkKeeps, OpenFileKeeps, CannotOpenKeeps,
           RecvByteKeeps, CloseFileKeeps, EndKeeps DEF Next, ReceiverStep

(* The inductive invariant holds of every reachable state. *)
THEOREM Invariance == Spec => []IInv
BY InitIInv, IInvStep, PTL DEF Spec

(* All variables of Transfer keep their types. *)
THEOREM Typing == Spec => []TypeOK
<1>1. IInv => TypeOK
  BY DEF IInv
<1> QED BY <1>1, Invariance, PTL

(* No resumption from what is on disk corrupts a file: after any number of *)
(* stops and breaks, startReceive has written a beginning of each; only in *)
(* one that was resumed on Windows may the first bytes be zeros.           *)
THEOREM NoCorruption == Spec => []DiskIsPrefix
<1>1. IInv => DiskIsPrefix
  BY DEF IInv
<1> QED BY <1>1, Invariance, PTL

(* When startReceive prints "finished", every file is complete, but for    *)
(* those that Settled names: resumed on Windows, not created or not        *)
(* written out without anybody noticing, or empty and skipped.             *)
THEOREM Completeness == Spec => []FinishedIsExact
<1>1. IInv => FinishedIsExact
  BY DEF IInv
<1> QED BY <1>1, Invariance, PTL

(* An attempt that ended in whatever way can be repeated: the bytes that   *)
(* it was told to skip are still there, but for those of a file that it    *)
(* resumed on Windows.                                                     *)
THEOREM Repeatability == Spec => []RetryIsSafe
<1>1. IInv => RetryIsSafe
  BY DEF IInv
<1> QED BY <1>1, Invariance, PTL

(* The loops over file_sizes at both ends agree on how much is sent, so    *)
(* that recvfile and the recv of the end time never wait for each other.   *)
THEOREM Agreement == Spec => []NeverBothWaiting
<1>1. IInv => NeverBothWaiting
  <2> SUFFICES ASSUME IInv, trusted, BothWaiting PROVE FALSE
    BY DEF NeverBothWaiting
  <2>1. /\ rcv = "receiving" /\ torecv > 0 /\ taken = sent
        /\ snd = "endTime" /\ conn = "up"
    BY DEF BothWaiting
  <2>2. cur \in File
    BY <2>1 DEF IInv, TypeOK
  <2>3. /\ Position \in Nat /\ End[cur] \in Nat /\ End[cur] <= Total
        /\ Size(cur) = End[cur] - End[cur-1] /\ End[cur-1] \in Nat /\ offset \in Int
    BY <2>1, <2>2, EndFacts, PositionType DEF IInv, TypeOK
  <2>4. /\ taken = End[cur-1] + Position
        /\ torecv = Size(cur) - Position
        /\ offset >= 0 /\ offset < End[cur]
    BY <2>1, <2>2, NType DEF IInv, InStep, InOrder, File
  <2>5. taken < End[cur]
    BY <2>1, <2>3, <2>4
  <2>6. sent = Total
    <3>1. offset \in 0..(Total - 1)
      BY <2>3, <2>4, EndFacts
    <3> QED BY <2>1, <3>1 DEF IInv, AllSent
  <2> QED BY <2>1, <2>3, <2>5, <2>6, EndFacts DEF IInv, TypeOK
<1> QED BY <1>1, Invariance, PTL

=============================================================================
