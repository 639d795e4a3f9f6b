------------------------------ MODULE SndUList ------------------------------
(***************************************************************************)
(* CSndUList (queue.cpp): the sockets that have something to send, in a    *)
(* heap by the time of their next packet, and the worker of the CSndQueue  *)
(* that waits for the time of the first and takes it out.  The sockets are *)
(* put in, hurried and taken out by the application's threads and by the   *)
(* worker of the CRcvQueue.                                                *)
(*                                                                         *)
(* A call holds the list's lock to its end.  Its first step is what it     *)
(* does before the loop that restores the order of the heap, and every     *)
(* turn of that loop is a step: "call" says how far the call has come, and *)
(* the next call begins when it is over.  Between the worker's two calls   *)
(* there are calls of others.                                              *)
(*                                                                         *)
(* update and pop put a socket in without looking at the length of the     *)
(* array, and nobody calls insert, which does: the array of 4096 entries   *)
(* is assumed to suffice.                                                  *)
(***************************************************************************)
EXTENDS Integers, FiniteSets

CONSTANTS
  Socket,
  MaxTime,  \* time stamps are 1 (at once) to MaxTime
  NoSocket

ASSUME SndUListAssumption ==
  /\ IsFiniteSet(Socket)
  /\ MaxTime \in Nat \ {0}
  /\ NoSocket \notin Socket

Entries == 0 .. Cardinality(Socket) - 1

VARIABLES
  heap,      \* m_pHeap
  lastEntry, \* m_iLastEntry
  heapLoc,   \* m_iHeapLoc of every socket's CSNode
  timeStamp, \* m_llTimeStamp of every socket's CSNode; 0 outside the heap
  call,      \* the loop that runs, where in the heap it is, the socket that
             \* is to be inserted after it, and with what time
  due,       \* the worker waits for this time; 0: it has not looked yet
  fromInside,\* history: a socket was taken out that was not the first
  firstLeft  \* history: the first one was, while the worker waited

listVars == <<heap, lastEntry, heapLoc, timeStamp, call>>
uListVars == <<listVars, due, fromInside, firstLeft>>

NoCall == [loop |-> "none", at |-> 0, socket |-> NoSocket, ts |-> 0]

Unlocked == call = NoCall

-----------------------------------------------------------------------------
(* insert_ and remove_. *)

TimeAt(i) == timeStamp[heap[i]]

Parent(q) == (q - 1) \div 2

\* The child of q whose time comes first.
EarlierChild(q) ==
  LET left == 2 * q + 1
  IN  IF left + 1 =< lastEntry /\ TimeAt(left) > TimeAt(left + 1)
      THEN left + 1 ELSE left

\* The sockets of two entries change places, and the loop goes on in q.
Swap(p, q) ==
  /\ heap' = [heap EXCEPT ![p] = heap[q], ![q] = heap[p]]
  /\ heapLoc' = [heapLoc EXCEPT ![heap[p]] = q, ![heap[q]] = p]
  /\ call' = [call EXCEPT !.at = q]
  /\ UNCHANGED <<lastEntry, timeStamp>>

\* insert_ puts the socket at the end, from where it is to go up.
PutIn(u, ts) ==
  /\ heap' = [heap EXCEPT ![lastEntry + 1] = u]
  /\ lastEntry' = lastEntry + 1
  /\ heapLoc' = [heapLoc EXCEPT ![u] = lastEntry + 1]
  /\ timeStamp' = [timeStamp EXCEPT ![u] = ts]
  /\ call' = [NoCall EXCEPT !.loop = "up", !.at = lastEntry + 1]

\* remove_ lets the last socket take the place, to go down from there.  v is
\* the socket that is inserted afterwards.
TakeOut(u, v, ts) ==
  /\ heap' = [heap EXCEPT ![heapLoc[u]] = heap[lastEntry],
                          ![lastEntry] = NoSocket]
  /\ lastEntry' = lastEntry - 1
  /\ heapLoc' = [heapLoc EXCEPT ![heap[lastEntry]] = heapLoc[u], ![u] = -1]
  /\ timeStamp' = [timeStamp EXCEPT ![u] = 0]
  /\ call' = [loop |-> "down", at |-> heapLoc[u], socket |-> v, ts |-> ts]

\* A slip: the loop ends below the first entry.
BelongsUpBelowFirst(q) == Parent(q) > 0 /\ TimeAt(Parent(q)) > TimeAt(q)

BelongsUp(q) == q # 0 /\ TimeAt(Parent(q)) > TimeAt(q)

BelongsDown(q) == 2 * q + 1 =< lastEntry /\ TimeAt(q) > TimeAt(EarlierChild(q))

GoUp ==
  /\ call.loop = "up"
  /\ IF BelongsUp(call.at)
     THEN Swap(call.at, Parent(call.at))
     ELSE call' = NoCall /\ UNCHANGED <<heap, lastEntry, heapLoc, timeStamp>>
  /\ UNCHANGED <<due, fromInside, firstLeft>>

GoDown ==
  /\ call.loop = "down"
  /\ IF BelongsDown(call.at)
     THEN Swap(call.at, EarlierChild(call.at))
     ELSE IF call.socket # NoSocket
     THEN PutIn(call.socket, call.ts)
     ELSE call' = NoCall /\ UNCHANGED <<heap, lastEntry, heapLoc, timeStamp>>
  /\ UNCHANGED <<due, fromInside, firstLeft>>

-----------------------------------------------------------------------------
(* The calls. *)

Inside(u) == heapLoc[u] > 0 /\ heapLoc[u] < lastEntry

UListInit ==
  /\ heap = [i \in Entries |-> NoSocket]
  /\ lastEntry = -1
  /\ heapLoc = [u \in Socket |-> -1]
  /\ timeStamp = [u \in Socket |-> 0]
  /\ call = NoCall
  /\ due = 0
  /\ fromInside = FALSE
  /\ firstLeft = FALSE

\* CSndUList::update: a socket that is on the list becomes due at once (NAK,
\* EXP).  Without reschedule (send, ACK) it stays as it is: nothing happens.
Update(u) ==
  /\ Unlocked
  /\ \/ /\ heapLoc[u] = 0
        /\ timeStamp' = [timeStamp EXCEPT ![u] = 1]
        /\ UNCHANGED <<heap, lastEntry, heapLoc, call>>
     \/ heapLoc[u] > 0 /\ TakeOut(u, u, 1)
     \/ heapLoc[u] < 0 /\ PutIn(u, 1)
  /\ fromInside' = (fromInside \/ Inside(u))
  /\ UNCHANGED <<due, firstLeft>>

\* CSndUList::remove, from CUDT::close
Close(u) ==
  /\ Unlocked
  /\ heapLoc[u] >= 0
  /\ TakeOut(u, NoSocket, 0)
  /\ fromInside' = (fromInside \/ Inside(u))
  /\ firstLeft' = (firstLeft \/ (due # 0 /\ heapLoc[u] = 0))
  /\ UNCHANGED due

\* CSndQueue::worker looks (getNextProcTime) and waits.
Look ==
  /\ Unlocked
  /\ due = 0
  /\ lastEntry >= 0
  /\ due' = TimeAt(0)
  /\ UNCHANGED <<listVars, fromInside, firstLeft>>

\* CSndUList::pop of the first.  The socket goes back with the time of its
\* next packet, unless it broke or had nothing to send (ts = 0).
PopFirst(ts) ==
  IF lastEntry < 0
  THEN ts = 0 /\ UNCHANGED listVars
  ELSE TakeOut(heap[0], IF ts > 0 THEN heap[0] ELSE NoSocket, ts)

\* A slip: after a packet the worker pops the next without looking again.
PopOnAndOn(ts) ==
  /\ Unlocked
  /\ due # 0
  /\ lastEntry >= 0
  /\ PopFirst(ts)
  /\ due' = IF ts > 0 THEN due ELSE 0
  /\ firstLeft' = FALSE
  /\ UNCHANGED fromInside

\* The worker pops when the time has come.
Pop(ts) ==
  /\ Unlocked
  /\ due # 0
  /\ PopFirst(ts)
  /\ due' = 0
  /\ firstLeft' = FALSE
  /\ UNCHANGED fromInside

UListNext ==
  \/ GoUp
  \/ GoDown
  \/ \E u \in Socket : Update(u) \/ Close(u)
  \/ Look
  \/ \E ts \in 0 .. MaxTime : Pop(ts)

UListSpec == UListInit /\ [][UListNext]_uListVars

-----------------------------------------------------------------------------

(***************************************************************************)
(* Every socket knows its place, and between the calls nobody comes before *)
(* his parent: the first is the one whose time comes first.  The order is  *)
(* only promised until a socket is taken out from inside the heap (close,  *)
(* or a NAK or the EXP timer of a socket that waits): remove_ lets the     *)
(* socket that takes the place go down, but it may belong further up       *)
(* (queue.cpp, remove_).                                                   *)
(***************************************************************************)
HeapIsOrdered ==
  /\ \A i \in Entries :
       IF i =< lastEntry
       THEN heap[i] \in Socket /\ heapLoc[heap[i]] = i
       ELSE heap[i] = NoSocket
  /\ \A u \in Socket : heapLoc[u] >= 0 => heap[heapLoc[u]] = u
  /\ Unlocked /\ ~fromInside =>
       \A i \in 1 .. lastEntry : TimeAt(Parent(i)) =< TimeAt(i)

(***************************************************************************)
(* No packet goes out before its time, although the list changes between   *)
(* the worker's look at the first time and its pop: whoever has become the *)
(* first meanwhile is due, unless the socket that the worker waited for    *)
(* was closed and left the place to a later one (queue.cpp, worker).       *)
(***************************************************************************)
NeverEarly ==
  [][\A ts \in 0 .. MaxTime :
       Pop(ts) /\ lastEntry >= 0 => TimeAt(0) =< due \/ firstLeft]_uListVars

=============================================================================
