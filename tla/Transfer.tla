------------------------------ MODULE Transfer ------------------------------
(***************************************************************************)
(* How the files of a NetworkSender reach the directory of a               *)
(* NetworkReceiver, over any number of attempts: the user stops a          *)
(* receiver, or the connection breaks, and a later one is started with the *)
(* number of bytes to skip.                                                *)
(*                                                                         *)
(* A byte is its position in the concatenation of all files; file i holds  *)
(* the positions End[i-1]+1 .. End[i].  What sendfile has put into the UDT *)
(* stream and recvfile has not taken out of it is then taken+1 .. sent:    *)
(* the stream is reliable and in order until it breaks, and what has not   *)
(* arrived by then is lost.                                                *)
(*                                                                         *)
(* Every attempt has a connection and a sendThread of its own; a thread of *)
(* an earlier attempt shares nothing with the later ones that is modelled. *)
(*                                                                         *)
(* startReceive resumes a file differently on Windows than on Linux and    *)
(* the Mac; windows tells for which of them it was built.  A file that     *)
(* exists is opened for reading and writing, or cannot be opened at all;   *)
(* one that was opened can be cut.                                         *)
(***************************************************************************)
EXTENDS Integers, Sequences

CONSTANTS
  N,            \* file_count
  End,          \* End[i]: the sum of the first i entries of file_sizes
  Offsets,      \* what the user may pass as the offset
  Attempts,     \* bound on the number of receivers that are started
  FilesMayFail, \* whether reading or writing a file may fail
  NetMayBreak   \* whether a connection may break while both ends live

ASSUME NType == N \in Nat
ASSUME EndType ==
  /\ End \in [0..N -> Nat] /\ End[0] = 0
  /\ \A i, j \in 0..N : i <= j => End[i] <= End[j]
ASSUME OffsetsType == Offsets \subseteq Int
ASSUME AttemptsType == Attempts \in Nat
ASSUME FlagsType == FilesMayFail \in BOOLEAN /\ NetMayBreak \in BOOLEAN

File == 1..N
Size(i) == End[i] - End[i-1]
Total == End[N]                 \* total_size
Zero == 0                       \* what truncate fills a gap with

VARIABLES
  offset,   \* NetworkReceiver::transferred
  rcv,      \* where startReceive is
  cur,      \* its i; N+1 is past the last file
  torecv,   \* what recvfile still waits for
  taken,    \* the position of the last byte that recvfile took
  told,     \* the last thing that the receiver sent
  snd,      \* where sendThread is
  sent,     \* the position of the last byte that sendfile put
  conn,     \* the connection
  present,  \* the files that exist in save_directory
  content,  \* their bytes
  flushed,  \* how many bytes of file cur are not in its fstream's buffer only
  gapped,   \* history: the files whose beginning a resumption took away
  short,    \* history: the files that could not be written, unnoticed
  windows,  \* the receiver was built for Windows
  attempts, \* how many receivers were started
  trusted   \* history: no receiver was told to skip what is not on disk

receiver == <<offset, rcv, cur, torecv, taken, told>>
sender == <<snd, sent>>
flaws == <<gapped, short>>
disk == <<present, content, flushed, flaws>>
run == <<windows, attempts, trusted>>
vars == <<receiver, sender, conn, disk, run>>

Gone == {"off", "done", "failed", "stopped"}  \* no receiver runs
Over == {"finished", "failed", "crashed"}      \* no sendThread runs

Init ==
  /\ offset = 0 /\ rcv = "off" /\ cur = 1 /\ torecv = 0 /\ taken = 0
  /\ told = "nothing" /\ snd = "failed" /\ sent = 0 /\ conn = "broken"
  /\ present = {} /\ content = [i \in File |-> <<>>] /\ flushed = 0
  /\ gapped = {} /\ short = {}
  /\ windows \in BOOLEAN /\ attempts = 0 /\ trusted = TRUE

-----------------------------------------------------------------------------

(* The loop over file_sizes that both ends run: it stops at the first file *)
(* that ends after t.  With t >= total_size it reads behind the array.     *)
StartsAt(i, t) ==
  /\ \A j \in 1..(i-1) : End[j] <= t
  /\ i <= N => End[i] > t

Skipping(i, t) == i \in 1..(N+1) /\ StartsAt(i, t)

(* The k-th byte of file i is where it belongs. *)
ByteOnDisk(i, k) ==
  i \in present /\ k <= Len(content[i]) /\ content[i][k] = End[i-1] + k

Whole(i) ==
  /\ i \in present /\ Len(content[i]) = Size(i)
  /\ \A k \in 1..Size(i) : ByteOnDisk(i, k)

(* What a user who resumes must know: the bytes to skip are on disk.       *)
OnDisk(t) ==
  /\ t >= 0
  /\ \A i \in File : \A k \in 1..Size(i) :
       End[i-1] + k <= t => ByteOnDisk(i, k)

(* A receiver is started; its connection is accepted, a sendThread begins. *)
Begin(t) ==
  /\ rcv \in Gone /\ attempts < Attempts
  /\ attempts' = attempts + 1
  /\ trusted' = (trusted /\ OnDisk(t))
  /\ offset' = t /\ rcv' = "header" /\ cur' = 1 /\ torecv' = 0
  /\ taken' = t /\ sent' = t
  /\ told' = "nothing" /\ snd' = "header" /\ conn' = "up"
  /\ UNCHANGED <<windows, disk>>

-----------------------------------------------------------------------------
(* NetworkSender::sendThread                                               *)

(* total_size, file_count, and the name and size of every file. *)
SendHeader ==
  /\ snd = "header" /\ conn = "up"
  /\ snd' = "offset"
  /\ UNCHANGED <<receiver, sent, conn, disk, run>>

(* Behind the array anything may be: the loop ends there, and no file is   *)
(* sent, or the process dies.  sendfile cannot seek to a negative offset.  *)
RecvOffset ==
  /\ snd = "offset" /\ told # "nothing"
  /\ \E i \in 1..(N+1) :
       /\ Skipping(i, offset)
       /\ snd' \in IF i > N THEN {"endTime", "crashed"}
                   ELSE IF offset < 0 THEN {"failed"} ELSE {"sending"}
  /\ UNCHANGED <<receiver, sent, conn, disk, run>>

(* sendfile, for one file after the other: the boundaries do not show.     *)
SendByte ==
  /\ snd = "sending" /\ conn = "up" /\ sent < Total
  /\ sent' = sent + 1
  /\ UNCHANGED <<receiver, snd, conn, disk, run>>

SendDone ==
  /\ snd = "sending" /\ sent = Total
  /\ snd' = "endTime"
  /\ UNCHANGED <<receiver, sent, conn, disk, run>>

(* A send or recv fails on a broken connection; a file cannot be read.     *)
SendFails ==
  /\ \/ conn = "broken" /\ snd \in {"header", "offset", "sending"}
     \/ FilesMayFail /\ snd = "sending"
  /\ snd' = "failed"
  /\ UNCHANGED <<receiver, sent, conn, disk, run>>

(* A slip: a receiver that left without a word is waited for. *)
RecvEndTimeOnly ==
  /\ snd = "endTime" /\ told = "endTime"
  /\ snd' = "finished"
  /\ UNCHANGED <<receiver, sent, conn, disk, run>>

(* "finished" is printed when recv fails, too. *)
RecvEndTime ==
  /\ snd = "endTime" /\ (told = "endTime" \/ conn = "broken")
  /\ snd' = "finished"
  /\ UNCHANGED <<receiver, sent, conn, disk, run>>

-----------------------------------------------------------------------------
(* NetworkReceiver::startReceive                                           *)

RecvHeader ==
  /\ rcv = "header" /\ snd \notin {"header", "failed"}
  /\ rcv' = "offset"
  /\ UNCHANGED <<offset, cur, torecv, taken, told, sender, conn, disk, run>>

SendOffset ==
  /\ rcv = "offset" /\ conn = "up"
  /\ told' = "offset"
  /\ \E i \in 1..(N+1) :
       /\ Skipping(i, offset)
       /\ cur' = i
       /\ rcv' \in IF i > N THEN {"open", "failed"} ELSE {"open"}
  /\ UNCHANGED <<offset, torecv, taken, sender, conn, disk, run>>

Truncated(bytes, n) ==
  [k \in 1..n |-> IF k <= Len(bytes) THEN bytes[k] ELSE Zero]

(* Slips: every file is expected in full; the file is not cut where the    *)
(* transfer resumes; it is emptied.                                        *)
OpenFileInFull ==
  LET resumed == cur \in present /\ StartsAt(cur, offset) IN
  /\ rcv = "open" /\ cur <= N
  /\ rcv' = "receiving"
  /\ content' = [content EXCEPT ![cur] =
       IF resumed THEN Truncated(@, offset - End[cur-1]) ELSE <<>>]
  /\ torecv' = Size(cur)
  /\ flushed' = 0
  /\ present' = present \cup {cur}
  /\ UNCHANGED <<offset, cur, taken, told, sender, conn, flaws, run>>

OpenFileUncut ==
  LET resumed == cur \in present /\ StartsAt(cur, offset) IN
  /\ rcv = "open" /\ cur <= N
  /\ rcv' = "receiving"
  /\ content' = [content EXCEPT ![cur] = IF resumed THEN @ ELSE <<>>]
  /\ torecv' = IF resumed THEN End[cur] - offset ELSE Size(cur)
  /\ flushed' = Len(content'[cur])
  /\ present' = present \cup {cur}
  /\ UNCHANGED <<offset, cur, taken, told, sender, conn, flaws, run>>

OpenFileEmptied ==
  LET resumed == cur \in present /\ StartsAt(cur, offset) IN
  /\ rcv = "open" /\ cur <= N
  /\ rcv' = "receiving"
  /\ content' = [content EXCEPT ![cur] = <<>>]
  /\ torecv' = IF resumed THEN End[cur] - offset ELSE Size(cur)
  /\ flushed' = 0
  /\ present' = present \cup {cur}
  /\ UNCHANGED <<offset, cur, taken, told, sender, conn, flaws, run>>

(* The file to resume is cut where the transfer resumes if it exists; if   *)
(* not, it is expected in full, like the others.  Windows cuts it, too,    *)
(* and opens it again with ios::out, which empties it.  A negative offset  *)
(* cannot be sought.                                                       *)
OpenFile ==
  LET resumed == cur \in present /\ StartsAt(cur, offset)
      skipped == offset - End[cur-1]
      kept == IF resumed /\ ~windows THEN Truncated(content[cur], skipped)
              ELSE <<>> IN
  /\ rcv = "open" /\ cur <= N
  /\ IF resumed /\ offset < 0
       THEN /\ rcv' = "failed"
            /\ content' =
                 IF windows THEN [content EXCEPT ![cur] = <<>>] ELSE content
            /\ UNCHANGED <<torecv, flushed, present, flaws>>
       ELSE /\ rcv' = "receiving"
            /\ content' = [content EXCEPT ![cur] = kept]
            /\ torecv' = IF resumed THEN End[cur] - offset ELSE Size(cur)
            /\ flushed' = Len(kept)
            /\ present' = present \cup {cur}
            /\ gapped' = IF windows /\ resumed /\ skipped > 0
                           THEN gapped \cup {cur} ELSE gapped \ {cur}
            /\ short' = short \ {cur}
  /\ UNCHANGED <<offset, cur, taken, told, sender, conn, run>>

(* recvfile returns before it looks at the file if it expects nothing, and *)
(* otherwise fails on a file that could not be opened.                     *)
CannotOpen ==
  /\ FilesMayFail /\ rcv = "open" /\ cur <= N
  /\ IF Size(cur) = 0 /\ ~(conn = "broken" /\ taken = sent)
       THEN cur' = cur + 1 /\ short' = short \cup {cur} /\ UNCHANGED rcv
       ELSE rcv' = "failed" /\ UNCHANGED <<cur, short>>
  /\ UNCHANGED <<offset, torecv, taken, told, sender, conn, present, content,
                 flushed, gapped, run>>

(* Where the fstream writes: in an emptied file, behind the bytes that     *)
(* were skipped, and the system fills the gap.                             *)
Position ==
  IF cur \in gapped /\ content[cur] = <<>>
    THEN offset - End[cur-1] ELSE Len(content[cur])

(* A slip: the wait for the rest of the file is left out. *)
RecvByteUnbounded ==
  /\ rcv = "receiving" /\ taken < sent
  /\ content' = [content EXCEPT ![cur] =
                    Append(Truncated(@, Position), taken + 1)]
  /\ flushed' \in {flushed, Len(content'[cur])}
  /\ taken' = taken + 1
  /\ torecv' = torecv - 1
  /\ UNCHANGED <<offset, rcv, cur, told, sender, conn, present, flaws, run>>

(* recvfile, one byte; the fstream may or may not write its buffer out.    *)
RecvByte ==
  /\ rcv = "receiving" /\ torecv > 0 /\ taken < sent
  /\ content' = [content EXCEPT ![cur] =
                    Append(Truncated(@, Position), taken + 1)]
  /\ flushed' \in {flushed, Len(content'[cur])}
  /\ taken' = taken + 1
  /\ torecv' = torecv - 1
  /\ UNCHANGED <<offset, rcv, cur, told, sender, conn, present, flaws, run>>

(* A slip: recvfile returns what has come so far. *)
CloseFileShort ==
  /\ rcv = "receiving" /\ (torecv = 0 \/ taken = sent)
  /\ rcv' = "open"
  /\ cur' = cur + 1
  /\ UNCHANGED <<offset, torecv, taken, told, sender, conn, disk, run>>

(* What the fstream of the current file has not written out is gone. *)
BufferLost == [content EXCEPT ![cur] = SubSeq(@, 1, flushed)]

(* recvfile has taken what it expects.  That the rest of the buffer cannot *)
(* be written is not noticed, and the receiver goes on.                    *)
CloseFile ==
  /\ rcv = "receiving" /\ torecv = 0
  /\ rcv' = "open"
  /\ cur' = cur + 1
  /\ \/ UNCHANGED <<content, short>>
     \/ FilesMayFail /\ content' = BufferLost /\ short' = short \cup {cur}
  /\ UNCHANGED <<offset, torecv, taken, told, sender, conn, present, flushed,
                 gapped, run>>

SendEndTime ==
  /\ rcv = "open" /\ cur > N /\ conn = "up"
  /\ told' = "endTime"
  /\ rcv' = "done"
  /\ UNCHANGED <<offset, cur, torecv, taken, sender, conn, disk, run>>

(* A broken connection is noticed when nothing is left to read, be it by a *)
(* recvfile that expects nothing; a file cannot be written.  The fstream   *)
(* is closed as startReceive returns.                                      *)
RecvFails ==
  /\ \/ conn = "broken" /\ rcv \in {"header", "offset"}
     \/ conn = "broken" /\ rcv = "open" /\ cur > N
     \/ /\ conn = "broken" /\ rcv = "receiving" /\ taken = sent
        /\ torecv > 0 \/ Size(cur) = 0
     \/ FilesMayFail /\ rcv = "receiving" /\ torecv > 0
  /\ rcv' = "failed"
  /\ \/ UNCHANGED content
     \/ FilesMayFail /\ rcv = "receiving" /\ content' = BufferLost
  /\ UNCHANGED <<offset, cur, torecv, taken, told, sender, conn, present,
                 flushed, flaws, run>>

(* The command "stop" calls exit in inputThread, or the process is killed: *)
(* the fstream of startReceive is not closed.                              *)
Stop ==
  /\ rcv \notin Gone
  /\ rcv' = "stopped"
  /\ content' = IF rcv = "receiving" THEN BufferLost ELSE content
  /\ UNCHANGED <<offset, cur, torecv, taken, told, sender, conn, present,
                 flushed, flaws, run>>

(* What has arrived can still be read. *)
BreakNow ==
  /\ conn = "up"
  /\ conn' = "broken"
  /\ sent' \in taken..sent
  /\ UNCHANGED <<receiver, snd, disk, run>>

(* The connection goes down with either process, or when the network does. *)
(* The end of a sendThread closes nothing: no SocketListItem is deleted.   *)
PeerDies == BreakNow /\ (rcv \in Gone \/ snd = "crashed")

NetBreaks == BreakNow /\ NetMayBreak

-----------------------------------------------------------------------------

SenderStep ==
  SendHeader \/ RecvOffset \/ SendByte \/ SendDone \/ SendFails \/ RecvEndTime

ReceiverStep ==
  \/ RecvHeader \/ SendOffset \/ OpenFile \/ CannotOpen \/ RecvByte
  \/ CloseFile \/ SendEndTime \/ RecvFails

Next ==
  \/ \E t \in Offsets : Begin(t)
  \/ SenderStep \/ ReceiverStep \/ Stop \/ PeerDies \/ NetBreaks

Spec == Init /\ [][Next]_vars

(* Threads that can run do.  UDT notices a dead peer (EXP timer).          *)
FairSpec ==
  Spec /\ WF_vars(SenderStep) /\ WF_vars(ReceiverStep) /\ WF_vars(PeerDies)

-----------------------------------------------------------------------------
(* Properties.                                                             *)

(* Every variable has its type; what recvfile waits for is never negative. *)
TypeOK ==
  /\ offset \in Int
  /\ rcv \in {"header", "offset", "open", "receiving"} \cup Gone
  /\ cur \in 1..(N+1)
  /\ torecv \in Nat /\ taken \in Int /\ sent \in Int
  /\ told \in {"nothing", "offset", "endTime"}
  /\ snd \in {"header", "offset", "sending", "endTime"} \cup Over
  /\ conn \in {"up", "broken"}
  /\ present \subseteq File
  /\ content \in [File -> Seq(Int)]
  /\ flushed \in Nat
  /\ rcv = "receiving" => /\ cur \in File /\ flushed <= Len(content[cur])
                          /\ (cur \in gapped => offset > End[cur-1])
  /\ short \subseteq File /\ gapped \subseteq present
  /\ gapped # {} => windows
  /\ windows \in BOOLEAN
  /\ attempts \in 0..Attempts
  /\ trusted \in BOOLEAN

(* What is on disk of file i is a beginning of it, or has zeros in place   *)
(* of its beginning.                                                       *)
Beginning(i) ==
  /\ Len(content[i]) <= Size(i)
  /\ \A k \in 1..Len(content[i]) :
       \/ content[i][k] = End[i-1] + k
       \/ i \in gapped /\ \A j \in 1..k : content[i][j] = Zero

(* Through all stops, breaks and resumptions, a file on disk is never      *)
(* anything but a beginning of the file that was sent: no byte of another  *)
(* file, no gap, nothing twice.  The exception is a file that was resumed  *)
(* on Windows: its beginning may be zeros.                                 *)
DiskIsPrefix == trusted => \A i \in File : Beginning(i)

(* Nothing is left to do for file i: it is complete, or nobody will notice *)
(* that it is not.  An empty file that ends at the offset or before it is  *)
(* not looked for.                                                         *)
Settled(i) ==
  \/ Whole(i)
  \/ i \in gapped \cup short
  \/ Size(i) = 0 /\ End[i] <= offset

(* "finished" of the receiver means that every file is complete, those of  *)
(* earlier attempts included; but for those that were resumed on Windows,  *)
(* those whose failure to be created (the empty ones) or written out in    *)
(* the end nobody noticed, and empty ones that the offset skips.           *)
FinishedIsExact == trusted /\ rcv = "done" => \A i \in File : Settled(i)

Kept(i) ==
  i \notin gapped =>
    \A k \in 1..Size(i) : End[i-1] + k <= offset => ByteOnDisk(i, k)

(* Whatever an attempt does, and wherever it ends, the bytes that it was   *)
(* told to skip stay on disk, so that it can be repeated with the same     *)
(* offset; but for those of the file that it resumes on Windows.           *)
RetryIsSafe ==
  trusted /\ attempts > 0 => offset >= 0 /\ \A i \in File : Kept(i)

(* Both ends have nothing more to say and wait for the other.              *)
BothWaiting ==
  /\ rcv = "receiving" /\ torecv > 0 /\ taken = sent
  /\ snd = "endTime" /\ conn = "up"

(* The two ends compute the same number of bytes.                          *)
NeverBothWaiting == trusted => ~BothWaiting

(* recvfile.htm:75 says that the size to expect must be known before       *)
(* recvfile is called, or a deadlock may occur.  startReceive expects too  *)
(* much if the file to resume is not there.                                *)
ExpectsWhatIsSent == ~BothWaiting

(* The sendThread is over, but its connection is not: no SocketListItem is *)
(* deleted (network_sender.cpp:435).                                       *)
LeftWaiting == snd = "failed" /\ conn = "up"

(* An attempt of a user who knows what is on disk comes to an end, and so  *)
(* does its sendThread, also when a file cannot be written.  Only a file   *)
(* that cannot be read leaves a receiver waiting: sendThread returns and   *)
(* tells nobody (network_sender.cpp:417).                                  *)
AttemptEnds ==
  /\ (trusted /\ rcv \notin Gone) ~> (rcv \in Gone \/ LeftWaiting)
  /\ (trusted /\ snd \notin Over) ~> (snd \in Over \/ ~trusted)

-----------------------------------------------------------------------------
(* What makes the properties inductive.                                    *)

(* The files in front of the current one are as they will be in the end,   *)
(* and the one where the transfer resumes is not skipped.                  *)
InOrder ==
  trusted /\ rcv \in {"open", "receiving"} =>
    /\ told # "nothing"
    /\ \A j \in 1..(cur-1) : Settled(j)
    /\ cur <= N => offset < End[cur]

(* The stream and the file are at the same byte. *)
InStep ==
  trusted =>
    /\ offset >= 0 /\ (rcv # "off" => attempts > 0)
    /\ rcv \in {"header", "offset"} => taken = offset
    /\ rcv = "open" => taken = IF StartsAt(cur, offset) THEN offset ELSE End[cur-1]
    /\ rcv = "receiving" => /\ cur \in present
                            /\ taken = End[cur-1] + Position
                            /\ torecv = Size(cur) - Position

(* What a lost buffer cannot take away. *)
FlushedEnough ==
  trusted /\ rcv = "receiving" /\ cur \notin gapped =>
    flushed >= offset - End[cur-1]

AllSent ==
  snd = "endTime" /\ conn = "up" /\ offset \in 0..(Total - 1) => sent = Total

IInv ==
  /\ TypeOK /\ DiskIsPrefix /\ FinishedIsExact /\ RetryIsSafe
  /\ InOrder /\ InStep /\ FlushedEnough /\ AllSent

=============================================================================
