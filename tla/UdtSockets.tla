----------------------------- MODULE UdtSockets -----------------------------
(***************************************************************************)
(* CUDTUnited (api.cpp) in a process that listens: the tables of sockets,  *)
(* the queue of accept(), the record of peers and the count of those who   *)
(* use the multiplexer, shared by                                          *)
(*   - the worker of the multiplexer's CRcvQueue, which answers the        *)
(*     handshakes (CUDT::listen, newConnection);                           *)
(*   - a thread in accept() and threads in close();                        *)
(*   - the garbage collector, which removes what is broken or closed.      *)
(* The clients are attempts to connect (CUDT::connect): each has got a     *)
(* cookie, of which CUDT::listen keeps no record, and its request may come *)
(* at any time and any number of times.                                    *)
(*                                                                         *)
(* A step is what a thread does under one lock.  The collector's round is  *)
(* one step, since it holds m_ControlLock throughout and takes             *)
(* m_AcceptLock once for each socket; it keeps m_ControlLock as well while *)
(* it waits for the worker of a multiplexer to end.                        *)
(*                                                                         *)
(* Rendezvous connections, sockets that do not block, cleanup() and        *)
(* m_pAcceptSockets, which is written only, are left out.                  *)
(***************************************************************************)
EXTENDS Integers, FiniteSets

CONSTANTS
  Attempt,    \* calls of connect() by clients ...
  Id,         \* ... the number of the client's socket,
  Isn,        \* its initial sequence number
  Address,    \* and the address its packets come from
  Width,      \* bits of an int
  Backlog,    \* what listen() was told
  MaxSocket,  \* bound: connections that newConnection makes
  None

\* m_PeerRec's key, (m_PeerID << 30) + m_iISN, is computed as an int.
Key(a) == (Id[a] * 2 ^ (Width - 2) + Isn[a]) % 2 ^ Width

ASSUME UdtSocketsAssumption ==
  /\ None \notin Attempt
  /\ \A a, b \in Attempt :
       a # b /\ Address[a] = Address[b] => Key(a) # Key(b)
  /\ Backlog \in Nat \ {0}
  /\ MaxSocket \in Nat

Listener == 0
Connection == 1 .. MaxSocket
Socket == {Listener} \cup Connection

VARIABLES
  answers,  \* the answers ever sent: they may be lost, late or repeated
  of,       \* of each socket: the attempt it was made for
  broken,   \* the sockets with m_bBroken
  closing,  \* the sockets with m_bClosing
  onList,   \* the sockets with m_pRNode->m_bOnList
  closed,   \* the sockets with m_Status CLOSED; the others are LISTENING or CONNECTED
  sockets,  \* m_Sockets
  dead,     \* m_ClosedSockets
  queued,   \* m_pQueuedSockets of the listener
  peerRec,  \* m_PeerRec
  refCount, \* m_iRefCount of the multiplexer
  mux,      \* the multiplexer: "open", its threads being "joined", or "gone"
  worker,   \* the CRcvQueue's worker: where it is in newConnection
  acceptor, \* the thread that calls accept(); late, a history: it began to
            \* wait after close() of the listener
  held,     \* the sockets accept() has given to the application
  pending,  \* the close() calls that are half done
  process   \* "running", or "crashed" by an invalid address

socketVars == <<of, broken, closing, onList, closed>>
tableVars == <<sockets, dead, queued, peerRec, refCount, mux>>
appVars == <<acceptor, held, pending>>
vars == <<answers, socketVars, tableVars, worker, appVars, process>>

Keys == {Key(a) : a \in Attempt}
Idle == [at |-> "reading", for |-> None, socket |-> None, early |-> FALSE]
Outside == [at |-> "outside", socket |-> None, late |-> FALSE]

Init ==
  /\ answers = {}
  /\ of = [s \in Socket |-> None]
  /\ broken = {}
  /\ closing = {}
  /\ onList = {}
  /\ closed = {}
  /\ sockets = {Listener}
  /\ dead = {}
  /\ queued = {}
  /\ peerRec = [k \in Keys |-> {}]
  /\ refCount = 1
  /\ mux = "open"
  /\ worker = Idle
  /\ acceptor = Outside
  /\ held = {}
  /\ pending = {}
  /\ process = "running"

Answer(a, s) == answers' = answers \cup {<<a, s>>}

\* The listener's CUDT takes packets until CUDT::close.
Listens == Listener \in sockets \cup dead /\ Listener \notin closing

-----------------------------------------------------------------------------
(* The worker of the CRcvQueue: CUDT::listen and CUDTUnited::newConnection. *)

ControlLockIsFree == mux # "joined"

\* CUDTUnited::locate(u)
Located(s) == s \in sockets /\ s \notin closed

\* A request comes, which may have been sent long ago.
TakeRequest(a) ==
  /\ worker = Idle
  /\ Listens
  /\ worker' = [at |-> "locate", for |-> a, socket |-> None,
                early |-> Listener \notin closed]
  /\ UNCHANGED <<answers, socketVars, tableVars, appVars, process>>

Refuse == worker' = Idle

\* The listener is looked up by its number; a listener that is closed
\* refuses, and one that is removed by now is no longer there to answer.
LocateListener ==
  /\ worker.at = "locate"
  /\ ControlLockIsFree
  /\ IF Located(Listener)
     THEN worker' = [worker EXCEPT !.at = "find"] /\ UNCHANGED process
     ELSE /\ Refuse
          /\ \/ UNCHANGED process
             \/ Listener \notin dead /\ process' = "crashed"
  /\ UNCHANGED <<answers, socketVars, tableVars, appVars>>

\* A slip: whoever has the key is taken for the peer.
KnownByKey(a) == peerRec[Key(a)] \cap sockets

\* CUDTUnited::locate(u, peer, id, isn)
Known(a) ==
  {s \in peerRec[Key(a)] \cap sockets : Address[of[s]] = Address[a]}

\* The set has the smallest number first, and numbers go down: s is newest.
IsFirst(s, S) == s \in S /\ \A t \in S : t =< s

FindNoPrevious ==
  /\ worker.at = "find"
  /\ ControlLockIsFree
  /\ Known(worker.for) = {}
  /\ worker' = [worker EXCEPT !.at = "create"]
  /\ UNCHANGED <<answers, socketVars, tableVars, appVars, process>>

\* A request that is repeated gets the same answer, ...
RepeatAnswer(s) ==
  /\ worker.at = "find"
  /\ ControlLockIsFree
  /\ IsFirst(s, Known(worker.for))
  /\ s \notin broken
  /\ Answer(worker.for, s)
  /\ worker' = Idle
  /\ UNCHANGED <<socketVars, tableVars, appVars, process>>

\* ... unless the connection broke meanwhile: its socket is closed where it
\* is, and a new one will be made.
ClosePrevious(s) ==
  /\ worker.at = "find"
  /\ ControlLockIsFree
  /\ IsFirst(s, Known(worker.for))
  /\ s \in broken
  /\ closed' = closed \cup {s}
  /\ worker' = [worker EXCEPT !.at = "forget", !.socket = s]
  /\ UNCHANGED <<answers, of, broken, closing, onList, tableVars, appVars,
                 process>>

ForgetPrevious ==
  /\ worker.at = "forget"
  /\ queued' = queued \ {worker.socket}
  /\ worker' = [worker EXCEPT !.at = "create", !.socket = None]
  /\ UNCHANGED <<answers, socketVars, sockets, dead, peerRec, refCount,
                 mux, appVars, process>>

Unused == {s \in Connection : of[s] = None}

\* The queue is looked at without its lock, but only this thread adds to it.
\* Want of memory refuses as well: it stands for the bound MaxSocket.
RefuseConnection ==
  /\ worker.at = "create"
  /\ Cardinality(queued) >= Backlog \/ Unused = {}
  /\ Refuse
  /\ UNCHANGED <<answers, socketVars, tableVars, appVars, process>>

\* The new socket joins the multiplexer and answers.  From here on memory is
\* taken to suffice: the way back from a connect or an insert that throws
\* (ERR_ROLLBACK) is not modelled.
CreateSocket(s) ==
  /\ worker.at = "create"
  /\ Cardinality(queued) < Backlog
  /\ ControlLockIsFree
  /\ s \in Unused /\ \A t \in Unused : s =< t
  /\ of' = [of EXCEPT ![s] = worker.for]
  /\ onList' = onList \cup {s}
  /\ refCount' = refCount + 1
  /\ Answer(worker.for, s)
  /\ worker' = [worker EXCEPT !.at = "register", !.socket = s]
  /\ UNCHANGED <<broken, closing, closed, sockets, dead, queued,
                 peerRec, mux, appVars, process>>

RegisterSocket ==
  /\ worker.at = "register"
  /\ ControlLockIsFree
  /\ sockets' = sockets \cup {worker.socket}
  /\ peerRec' = [peerRec EXCEPT ![Key(worker.for)] = @ \cup {worker.socket}]
  /\ worker' = [worker EXCEPT !.at = "queue"]
  /\ UNCHANGED <<answers, socketVars, dead, queued, refCount, mux,
                 appVars, process>>

QueueSocket ==
  /\ worker.at = "queue"
  /\ queued' = queued \cup {worker.socket}
  /\ worker' = [worker EXCEPT !.at = "signal"]
  /\ UNCHANGED <<answers, socketVars, sockets, dead, peerRec, refCount,
                 mux, appVars, process>>

Wake == acceptor' = IF acceptor.at = "waiting"
                    THEN [acceptor EXCEPT !.at = "woken", !.late = FALSE]
                    ELSE acceptor

SignalAccept ==
  /\ worker.at = "signal"
  /\ Wake
  /\ worker' = Idle
  /\ UNCHANGED <<answers, socketVars, tableVars, held, pending, process>>

\* A shutdown from the peer, or nothing from it for too long
\* (processCtrl, checkTimers).
Break(s) ==
  /\ worker = Idle
  /\ s \in onList \ closing
  /\ broken' = broken \cup {s}
  /\ closing' = closing \cup {s}
  /\ UNCHANGED <<answers, of, onList, closed, tableVars, worker, appVars,
                 process>>

\* TIMER_CHECK of the worker lets go of a socket that is not in use any more.
Unlist(s) ==
  /\ worker = Idle
  /\ s \in onList \cap closing
  /\ onList' = onList \ {s}
  /\ UNCHANGED <<answers, of, broken, closing, closed, tableVars, worker,
                 appVars, process>>

-----------------------------------------------------------------------------
(* The application: accept() and close(). *)

CallAccept ==
  /\ acceptor = Outside
  /\ ControlLockIsFree
  /\ Located(Listener)
  /\ acceptor' = [acceptor EXCEPT !.at = "called"]
  /\ UNCHANGED <<answers, socketVars, tableVars, worker, held, pending,
                 process>>

TakeQueued(s) ==
  /\ acceptor.at = "called"
  /\ IsFirst(s, queued)
  /\ acceptor' = [Outside EXCEPT !.at = "address", !.socket = s]
  /\ queued' = queued \ {s}
  /\ UNCHANGED <<answers, socketVars, sockets, dead, peerRec, refCount,
                 mux, worker, held, pending, process>>

WaitForConnection ==
  /\ acceptor.at = "called"
  /\ queued = {}
  /\ acceptor' = IF Listener \in closed THEN Outside
                 ELSE [acceptor EXCEPT !.at = "waiting",
                                       !.late = Listener \in broken \ pending]
  /\ UNCHANGED <<answers, socketVars, tableVars, worker, held, pending,
                 process>>

\* A listener that was closed ends the call, others let it look again.
WakeUp ==
  /\ acceptor.at = "woken"
  /\ acceptor' = IF Listener \in broken \cup closed THEN Outside
                 ELSE [acceptor EXCEPT !.at = "called"]
  /\ UNCHANGED <<answers, socketVars, tableVars, worker, held, pending,
                 process>>

\* The peer's address is read from the socket, which is looked up again:
\* when it is not found, from the address 0.
GiveAddress ==
  /\ acceptor.at = "address"
  /\ ControlLockIsFree
  /\ IF Located(acceptor.socket)
     THEN held' = held \cup {acceptor.socket} /\ UNCHANGED process
     ELSE process' = "crashed" /\ UNCHANGED held
  /\ acceptor' = Outside
  /\ UNCHANGED <<answers, socketVars, tableVars, worker, pending>>

\* close() of the listener leaves it to the collector, ...
CloseListener ==
  /\ ControlLockIsFree
  /\ Located(Listener)
  /\ Listener \notin broken
  /\ broken' = broken \cup {Listener}
  /\ pending' = pending \cup {Listener}
  /\ UNCHANGED <<answers, of, closing, onList, closed, tableVars, worker,
                 acceptor, held, process>>

\* A slip: who waits in accept() is not told.
BroadcastToNobody ==
  /\ Listener \in pending
  /\ pending' = pending \ {Listener}
  /\ UNCHANGED <<answers, socketVars, tableVars, worker, acceptor, held,
                 process>>

\* ... and wakes whoever waits in accept().
BroadcastAccept ==
  /\ Listener \in pending
  /\ Wake
  /\ pending' = pending \ {Listener}
  /\ UNCHANGED <<answers, socketVars, tableVars, worker, held, process>>

\* close() of a connection: CUDT::close first, ...
CloseConnection(s) ==
  /\ s \in held \ pending
  /\ ControlLockIsFree
  /\ IF Located(s)
     THEN /\ closing' = closing \cup {s}
          /\ pending' = pending \cup {s}
          /\ UNCHANGED held
     ELSE /\ held' = held \ {s}
          /\ UNCHANGED <<closing, pending>>
  /\ UNCHANGED <<answers, of, broken, onList, closed, tableVars, worker,
                 acceptor, process>>

\* ... then the tables, unless the collector was faster.
FinishClose(s) ==
  /\ s \in pending \ {Listener}
  /\ ControlLockIsFree
  /\ IF Located(s)
     THEN /\ closed' = closed \cup {s}
          /\ sockets' = sockets \ {s}
          /\ dead' = dead \cup {s}
     ELSE UNCHANGED <<closed, sockets, dead>>
  /\ pending' = pending \ {s}
  /\ held' = held \ {s}
  /\ UNCHANGED <<answers, of, broken, closing, onList, queued, peerRec,
                 refCount, mux, worker, acceptor, process>>

-----------------------------------------------------------------------------
(* The garbage collector: checkBrokenSockets and removeSocket. *)

\* The sockets that a running call has an address of.  A closed socket stays
\* for a second so that such calls end first; that they do is assumed.
InUse ==
  (IF worker.early THEN {Listener, worker.socket} ELSE {})
    \cup (IF acceptor.at \in {"called", "woken"} THEN {Listener} ELSE {})
    \cup pending

\* A slip: what broke stays in the listener's queue.
RoundKeepsQueue(breaking, old) ==
  LET unaccepted == IF Listener \in old THEN queued \ breaking ELSE {}
  IN  /\ mux = "open"
      /\ broken' = broken \cup unaccepted
      /\ closing' = closing \cup unaccepted \cup old
      /\ closed' = closed \cup breaking \cup unaccepted
      /\ sockets' = sockets \ (breaking \cup unaccepted)
      /\ dead' = (dead \ old) \cup breaking \cup unaccepted
      /\ queued' = IF Listener \in old THEN {} ELSE queued
      /\ peerRec' = [k \in Keys |-> peerRec[k] \ old]
      /\ refCount' = refCount - Cardinality(old)
      /\ mux' = IF refCount' = 0 THEN "joined" ELSE mux
      /\ UNCHANGED <<answers, of, onList, worker, appVars, process>>

\* A slip: the connections that nobody accepted are left to their peers.
RoundLeavesUnaccepted(breaking, old) ==
  /\ mux = "open"
  /\ closing' = closing \cup old
  /\ closed' = closed \cup breaking
  /\ sockets' = sockets \ breaking
  /\ dead' = (dead \ old) \cup breaking
  /\ queued' = IF Listener \in old THEN {} ELSE queued \ breaking
  /\ peerRec' = [k \in Keys |-> peerRec[k] \ old]
  /\ refCount' = refCount - Cardinality(old)
  /\ mux' = IF refCount' = 0 THEN "joined" ELSE mux
  /\ UNCHANGED <<answers, of, broken, onList, worker, appVars, process>>

\* A round closes sockets that are broken (a listener only after 3 seconds,
\* a connection perhaps later if it has data to read) and removes sockets
\* that have been closed for a second.  With the listener the connections go
\* that nobody accepted, and with the last socket the multiplexer.
Round(breaking, old) ==
  LET unaccepted == IF Listener \in old THEN queued \ breaking ELSE {}
  IN  /\ mux = "open"
      /\ broken' = broken \cup unaccepted
      /\ closing' = closing \cup unaccepted \cup old
      /\ closed' = closed \cup breaking \cup unaccepted
      /\ sockets' = sockets \ (breaking \cup unaccepted)
      /\ dead' = (dead \ old) \cup breaking \cup unaccepted
      /\ queued' = IF Listener \in old THEN {} ELSE queued \ breaking
      /\ peerRec' = [k \in Keys |-> peerRec[k] \ old]
      /\ refCount' = refCount - Cardinality(old)
      /\ mux' = IF refCount' = 0 THEN "joined" ELSE mux
      /\ UNCHANGED <<answers, of, onList, worker, appVars, process>>

Broken == sockets \cap broken
Removable == dead \ (onList \cup InUse)

Collect ==
  \E breaking \in SUBSET Broken, old \in SUBSET Removable :
    breaking \cup old # {} /\ Round(breaking, old)

CollectAll == Broken \cup Removable # {} /\ Round(Broken, Removable)

\* The destructor of the CRcvQueue waits for the worker to end.
JoinWorker ==
  /\ mux = "joined"
  /\ worker = Idle
  /\ mux' = "gone"
  /\ UNCHANGED <<answers, socketVars, sockets, dead, queued, peerRec,
                 refCount, worker, appVars, process>>

-----------------------------------------------------------------------------

Handshake ==
  \/ LocateListener
  \/ FindNoPrevious
  \/ \E s \in Connection : RepeatAnswer(s) \/ ClosePrevious(s)
  \/ ForgetPrevious
  \/ RefuseConnection
  \/ \E s \in Connection : CreateSocket(s)
  \/ RegisterSocket
  \/ QueueSocket
  \/ SignalAccept

Worker ==
  \/ \E a \in Attempt : TakeRequest(a)
  \/ Handshake
  \/ \E s \in Connection : Break(s) \/ Unlist(s)

InAccept ==
  \/ \E s \in Connection : TakeQueued(s)
  \/ WaitForConnection
  \/ WakeUp
  \/ GiveAddress

InClose == BroadcastAccept \/ \E s \in Connection : FinishClose(s)

Application ==
  \/ CallAccept
  \/ InAccept
  \/ CloseListener
  \/ \E s \in Connection : CloseConnection(s)
  \/ InClose

Next ==
  /\ process = "running"
  /\ Worker \/ Application \/ Collect \/ JoinWorker

Spec == Init /\ [][Next]_vars

Running(A) == process = "running" /\ A

\* A thread that can go on does, the collector runs every second, and every
\* loop of the worker ends with TIMER_CHECK, whatever packets come.
FairSpec ==
  /\ Spec
  /\ WF_vars(Running(Handshake))
  /\ \A s \in Connection : SF_vars(Running(Unlist(s)))
  /\ WF_vars(Running(InAccept))
  /\ WF_vars(Running(InClose))
  /\ WF_vars(Running(CollectAll))
  /\ WF_vars(Running(JoinWorker))

-----------------------------------------------------------------------------

TypeOK ==
  /\ answers \subseteq Attempt \X Connection
  /\ of \in [Socket -> Attempt \cup {None}]
  /\ sockets \cup dead \cup broken \cup closing \cup closed \subseteq Socket
  /\ onList \cup queued \cup held \subseteq Connection
  /\ peerRec \in [Keys -> SUBSET Connection]
  /\ mux \in {"open", "joined", "gone"}

\* CUDT::connect takes the first answer that has its own sequence number.
Peers(a) == {s \in Connection : <<a, s>> \in answers /\ Isn[of[s]] = Isn[a]}

(***************************************************************************)
(* However requests and answers are lost, repeated and late, a client that *)
(* is connected is connected to a socket that was made for it, and a call  *)
(* of connect() has at most one socket of the server that is in use        *)
(* (newConnection and the two locate of api.cpp).                          *)
(***************************************************************************)
Agreement ==
  /\ \A a \in Attempt : \A s \in Peers(a) : of[s] = a
  /\ \A s, t \in sockets \ (broken \cup {Listener}) : of[s] = of[t] => s = t

\* Who uses the multiplexer.
Users ==
  sockets \cup dead \cup
    (IF worker.at = "register" THEN {worker.socket} ELSE {})

(***************************************************************************)
(* The tables agree between any two steps of worker, application and       *)
(* collector: a socket is in one table, whoever waits for accept() is in   *)
(* m_Sockets (removeSocket takes him from there without looking), the      *)
(* record of peers names those that exist, and the multiplexer is used by  *)
(* as many as it counts, and not joined before the last is gone.           *)
(***************************************************************************)
TablesAgree ==
  /\ TypeOK
  /\ sockets \cap dead = {}
  /\ queued \subseteq sockets \ held
  /\ \A k \in Keys :
       peerRec[k] = {s \in (sockets \cup dead) \ {Listener} : Key(of[s]) = k}
  /\ refCount = Cardinality(Users)
  /\ mux # "open" => refCount = 0

(***************************************************************************)
(* Nobody sleeps in accept() while a connection is in the queue, except    *)
(* that the worker is about to wake him; nor after close() of the listener *)
(* is over, except who began to wait after its broadcast: accept looks at  *)
(* the queue and at the status, which stays LISTENING for 3 seconds more,  *)
(* not at m_bBroken (accept, close and newConnection of api.cpp).          *)
(***************************************************************************)
NobodySleeps ==
  acceptor.at = "waiting" =>
    /\ queued # {} => worker.at = "signal"
    /\ Listener \in broken => Listener \in pending \/ acceptor.late

\* The collector keeps m_ControlLock while it waits for the worker, and the
\* worker waits for m_ControlLock to look up the listener.
Deadlocked == mux = "joined" /\ worker.at = "locate"

(***************************************************************************)
(* When the listener is closed and the application has closed whatever     *)
(* accept() gave it, every socket is removed and the multiplexer ends,     *)
(* unless a request came in the moment between the removal of the listener *)
(* and the end of the worker (checkBrokenSockets, removeSocket).           *)
(***************************************************************************)
EverythingIsRemoved ==
  <>[](Listener \in broken /\ held = {} /\ process = "running")
    => <>(mux = "gone" \/ Deadlocked)

=============================================================================
