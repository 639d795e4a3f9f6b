-------------------------- MODULE UdtSocketsProofs --------------------------
(***************************************************************************)
(* Proofs about UdtSockets, for every number of clients and connections:   *)
(* Agreement, TablesAgree and NobodySleeps.                                *)
(***************************************************************************)
EXTENDS UdtSockets, FiniteSetTheorems, TLAPS

Steps ==
  {"reading", "locate", "find", "forget", "create", "register", "queue", "signal"}

Typed ==
  /\ answers \subseteq Attempt \X Connection
  /\ of \in [Socket -> Attempt \cup {None}]
  /\ peerRec \in [Keys -> SUBSET Connection]
  /\ sockets \subseteq Socket /\ dead \subseteq Socket /\ queued \subseteq Connection
  /\ broken \subseteq Socket /\ pending \subseteq Socket /\ held \subseteq Connection
  /\ worker \in [at : Steps, for : Attempt \cup {None},
                 socket : Connection \cup {None}, early : BOOLEAN]
  /\ acceptor \in [at : {"outside", "called", "waiting", "woken", "address"},
                   socket : Connection \cup {None}, late : BOOLEAN]

\* Only a socket's own client ever gets its number.
AnswersAreTrue == \A a \in Attempt, s \in Connection : <<a, s>> \in answers => of[s] = a

\* Connections are made in the order of their numbers, and whatever is in a
\* table or in the queue has been made.
MadeInOrder ==
  /\ \A s, t \in Connection : of[s] = None /\ s < t => of[t] = None
  /\ \A s \in Connection : s \in sockets \cup dead \cup queued => of[s] # None

\* The record of peers is true and complete.
Recorded ==
  /\ sockets \cap dead = {}
  /\ \A k \in Keys : \A s \in peerRec[k] : of[s] \in Attempt /\ Key(of[s]) = k
  /\ \A s \in Connection : s \in sockets \cup dead => s \in peerRec[Key(of[s])]

\* Only the newest connection of an attempt may still be in use.
OlderAreBroken ==
  \A s, t \in Connection :
    s \in sockets /\ t \in sockets /\ t < s /\ of[s] = of[t] => t \in broken

\* What the worker relies on between its steps.
WorkerIsRight ==
  /\ worker.at # "reading" => worker.for \in Attempt
  /\ worker.at \in {"forget", "create", "register"} =>
       \A t \in Connection : t \in sockets /\ of[t] = worker.for => t \in broken
  /\ worker.at = "register" =>
       /\ worker.socket \in Connection
       /\ of[worker.socket] = worker.for
       /\ worker.socket \notin sockets \cup dead \cup queued
       /\ \A t \in Connection : of[t] # None => t =< worker.socket
  /\ worker.at = "queue" =>
       worker.socket \in Connection /\ of[worker.socket] # None

\* Of the sockets outside m_Sockets nobody has any that was not made, and
\* nobody has what somebody else has.
Claimed ==
  /\ queued \subseteq sockets \ held
  /\ pending \ {Listener} \subseteq held
  /\ \A s \in Connection : s \in held \cup broken \cup onList => of[s] # None
  /\ acceptor.at = "address" =>
       /\ acceptor.socket \in Connection
       /\ acceptor.socket \notin queued
       /\ of[acceptor.socket] # None
  /\ worker.at \in {"register", "queue"} =>
       /\ worker.socket \notin held \cup queued \cup broken
       /\ acceptor.at = "address" => acceptor.socket # worker.socket
  /\ worker.at = "queue" => worker.socket \in sockets

\* The multiplexer counts those who use it, until the last is gone.
Counted ==
  /\ refCount = Cardinality(Users)
  /\ mux # "open" => refCount = 0
  /\ mux = "gone" => worker = Idle

RestTyped ==
  /\ closing \subseteq Socket /\ closed \subseteq Socket /\ onList \subseteq Connection
  /\ mux \in {"open", "joined", "gone"}
  /\ \A k \in Keys : peerRec[k] \subseteq sockets \cup dead

IInv ==
  /\ Typed
  /\ AnswersAreTrue
  /\ MadeInOrder
  /\ Recorded
  /\ OlderAreBroken
  /\ WorkerIsRight
  /\ NobodySleeps
  /\ Claimed
  /\ Counted
  /\ RestTyped

-----------------------------------------------------------------------------

\* The listener is not a connection, and connections are numbers.
LEMMA ListenerIsApart == Listener \notin Connection /\ Connection \subseteq Nat
BY DEF Listener, Connection

\* The sockets that locate finds for an attempt are those made for it.
LEMMA KnownAreOwn ==
  ASSUME Typed, Recorded, NEW a \in Attempt
  PROVE  /\ \A s \in Known(a) : s \in Connection /\ s \in sockets /\ of[s] = a
         /\ \A s \in Connection : s \in sockets /\ of[s] = a => s \in Known(a)
<1>1. Key(a) \in Keys
  BY DEF Keys
<1>2. ASSUME NEW s \in Known(a)
      PROVE  s \in Connection /\ s \in sockets /\ of[s] = a
  <2>1. s \in peerRec[Key(a)] /\ s \in sockets /\ Address[of[s]] = Address[a]
    BY DEF Known
  <2>2. s \in Connection
    BY <1>1, <2>1 DEF Typed
  <2>3. of[s] \in Attempt /\ Key(of[s]) = Key(a)
    BY <1>1, <2>1 DEF Recorded
  <2> QED
    BY <2>1, <2>2, <2>3, UdtSocketsAssumption
<1>3. ASSUME NEW s \in Connection, s \in sockets, of[s] = a
      PROVE  s \in Known(a)
  BY <1>3 DEF Recorded, Known
<1> QED
  BY <1>2, <1>3

\* The users can be counted.
LEMMA UsersAreSockets ==
  ASSUME Typed, WorkerIsRight
  PROVE  Users \subseteq Socket /\ IsFiniteSet(Users)
<1>1. Users \subseteq Socket
  BY DEF Typed, WorkerIsRight, Users, Socket
<1>2. IsFiniteSet(Connection)
  BY FS_Interval, UdtSocketsAssumption DEF Connection
<1>3. IsFiniteSet({Listener} \cup Connection)
  BY <1>2, FS_AddElement
<1> QED
  BY <1>1, <1>3, FS_Subset DEF Socket

\* The listener alone, and nothing going on.
LEMMA InitIsRight == Init => IInv
<1> SUFFICES ASSUME Init
             PROVE  IInv
  OBVIOUS
<1>1. Typed /\ AnswersAreTrue /\ MadeInOrder /\ Recorded /\ OlderAreBroken
  BY ListenerIsApart DEF Init, Typed, AnswersAreTrue, MadeInOrder, Recorded,
     OlderAreBroken, Idle, Outside, Steps, Socket
<1>2. WorkerIsRight /\ NobodySleeps /\ Claimed /\ RestTyped
  BY ListenerIsApart DEF Init, WorkerIsRight, NobodySleeps, Claimed, RestTyped,
     Idle, Outside
<1>3. Counted
  <2>1. Users = {Listener}
    BY DEF Init, Users, Idle
  <2> QED
    BY <2>1, FS_Singleton DEF Init, Counted
<1> QED
  BY <1>1, <1>2, <1>3 DEF IInv

\* Every step of worker, application and collector keeps the invariant.
LEMMA StepIsRight == IInv /\ Next => IInv'
<1> SUFFICES ASSUME IInv, Next
             PROVE  IInv'
  OBVIOUS
<1> USE ListenerIsApart DEF IInv, socketVars, tableVars, appVars
<1>1. ASSUME NEW a \in Attempt, TakeRequest(a)
      PROVE  IInv'
  <2>1. Typed'
    BY <1>1 DEF TakeRequest, Idle, Typed, Steps
  <2>2. WorkerIsRight'
    BY <1>1 DEF TakeRequest, Idle, WorkerIsRight, Typed
  <2>3. NobodySleeps'
    BY <1>1 DEF TakeRequest, Idle, NobodySleeps, Typed
  <2>4. Claimed'
    BY <1>1 DEF TakeRequest, Idle, Claimed, Typed
  <2>5. Counted'
    <3>1. Users' = Users /\ UNCHANGED <<mux, refCount>>
      BY <1>1 DEF TakeRequest, Users, Idle
    <3>2. Users # {}
      BY <1>1 DEF TakeRequest, Listens, Users
    <3>3. mux # "gone"
      BY <3>2, UsersAreSockets, FS_EmptySet DEF Counted
    <3> QED
      BY <3>1, <3>3 DEF Counted
  <2> QED
    BY <2>1, <2>2, <2>3, <2>4, <2>5, <1>1 DEF TakeRequest, AnswersAreTrue,
       MadeInOrder, Recorded, OlderAreBroken, RestTyped
<1>2. ASSUME LocateListener
      PROVE  IInv'
  <2>1. Typed'
    <3>1. CASE Located(Listener)
      BY <1>2, <3>1 DEF LocateListener, Typed, Steps
    <3>2. CASE ~Located(Listener)
      <4>1. worker' = Idle /\ UNCHANGED <<answers, socketVars, tableVars, appVars>>
        BY <1>2, <3>2 DEF LocateListener, Refuse
      <4> QED
        BY <4>1 DEF Typed, Idle, Steps
    <3> QED
      BY <3>1, <3>2
  <2>2. WorkerIsRight'
    BY <1>2 DEF LocateListener, Idle, Refuse, WorkerIsRight, Typed
  <2>3. NobodySleeps'
    BY <1>2 DEF LocateListener, Idle, Refuse, NobodySleeps, Typed
  <2>4. Claimed'
    BY <1>2 DEF LocateListener, Idle, Refuse, Claimed, Typed
  <2>5. Counted'
    <3>1. Users' = Users
      BY <1>2 DEF LocateListener, Users, Typed, Idle, Refuse
    <3>2. UNCHANGED <<mux, refCount>> /\ worker # Idle
      BY <1>2 DEF LocateListener, Idle
    <3> QED
      BY <3>1, <3>2 DEF Counted
  <2> QED
    BY <2>1, <2>2, <2>3, <2>4, <2>5, <1>2 DEF LocateListener, AnswersAreTrue,
       MadeInOrder, Recorded, OlderAreBroken, RestTyped
<1>3. ASSUME FindNoPrevious
      PROVE  IInv'
  <2>1. Typed'
    BY <1>3 DEF FindNoPrevious, Typed, Steps
  <2>2. WorkerIsRight'
    <3>1. worker.for \in Attempt
      BY <1>3 DEF FindNoPrevious, WorkerIsRight
    <3>2. \A t \in Connection : t \in sockets => of[t] # worker.for
      BY <3>1, KnownAreOwn, <1>3 DEF FindNoPrevious
    <3> QED
      BY <1>3, <3>1, <3>2 DEF FindNoPrevious, WorkerIsRight, Typed
  <2>3. NobodySleeps'
    BY <1>3 DEF FindNoPrevious, NobodySleeps, Typed
  <2>4. Claimed'
    BY <1>3 DEF FindNoPrevious, Claimed, Typed
  <2>5. Counted'
    <3>1. Users' = Users
      BY <1>3 DEF FindNoPrevious, Users, Typed, Idle
    <3>2. UNCHANGED <<mux, refCount>> /\ worker # Idle
      BY <1>3 DEF FindNoPrevious, Idle
    <3> QED
      BY <3>1, <3>2 DEF Counted
  <2> QED
    BY <2>1, <2>2, <2>3, <2>4, <2>5, <1>3 DEF FindNoPrevious, AnswersAreTrue,
       MadeInOrder, Recorded, OlderAreBroken, RestTyped
<1>4. ASSUME NEW s \in Connection, RepeatAnswer(s)
      PROVE  IInv'
  <2>1. Typed'
    <3>1. worker.for \in Attempt
      BY <1>4 DEF RepeatAnswer, WorkerIsRight
    <3> QED
      BY <1>4, <3>1 DEF RepeatAnswer, Answer, Idle, Typed, Steps
  <2>2. AnswersAreTrue'
    <3>1. worker.for \in Attempt
      BY <1>4 DEF RepeatAnswer, WorkerIsRight
    <3>2. of[s] = worker.for
      BY <3>1, KnownAreOwn, <1>4 DEF RepeatAnswer, IsFirst
    <3> QED
      BY <1>4, <3>2 DEF RepeatAnswer, Answer, AnswersAreTrue
  <2>3. WorkerIsRight'
    BY <1>4 DEF RepeatAnswer, Idle, Answer, WorkerIsRight, Typed
  <2>4. NobodySleeps'
    BY <1>4 DEF RepeatAnswer, Idle, Answer, NobodySleeps, Typed
  <2>5. Claimed'
    BY <1>4 DEF RepeatAnswer, Idle, Answer, Claimed, Typed
  <2>6. Counted'
    <3>1. Users' = Users
      BY <1>4 DEF RepeatAnswer, Users, Typed, Idle
    <3>2. UNCHANGED <<mux, refCount>> /\ worker # Idle
      BY <1>4 DEF RepeatAnswer, Idle
    <3> QED
      BY <3>1, <3>2 DEF Counted
  <2> QED
    BY <2>1, <2>2, <2>3, <2>4, <2>5, <2>6, <1>4 DEF RepeatAnswer, MadeInOrder,
       Recorded, OlderAreBroken, RestTyped
<1>5. ASSUME NEW s \in Connection, ClosePrevious(s)
      PROVE  IInv'
  <2>1. Typed'
    BY <1>5 DEF ClosePrevious, IsFirst, Typed, Steps
  <2>2. WorkerIsRight'
    <3>1. worker.for \in Attempt
      BY <1>5 DEF ClosePrevious, WorkerIsRight
    <3>2. s \in sockets /\ of[s] = worker.for /\ s \in broken
      BY <3>1, KnownAreOwn, <1>5 DEF ClosePrevious, IsFirst
    <3>3. ASSUME NEW t \in Connection, t \in sockets, of[t] = worker.for
          PROVE  t \in broken
      <4>1. t = s \/ t < s
        BY <3>1, <3>3, KnownAreOwn, <1>5 DEF ClosePrevious, IsFirst
      <4> QED
        BY <4>1, <3>2, <3>3 DEF OlderAreBroken
    <3> QED
      BY <1>5, <3>1, <3>3 DEF ClosePrevious, WorkerIsRight, Typed
  <2>3. NobodySleeps'
    BY <1>5 DEF ClosePrevious, IsFirst, NobodySleeps, Typed
  <2>4. Claimed'
    BY <1>5 DEF ClosePrevious, IsFirst, Claimed, Typed
  <2>5. Counted'
    <3>1. Users' = Users
      BY <1>5 DEF ClosePrevious, Users, Typed, Idle
    <3>2. UNCHANGED <<mux, refCount>> /\ worker # Idle
      BY <1>5 DEF ClosePrevious, Idle
    <3> QED
      BY <3>1, <3>2 DEF Counted
  <2>6. RestTyped'
    BY <1>5 DEF ClosePrevious, IsFirst, RestTyped, Known, Typed
  <2> QED
    BY <2>1, <2>2, <2>3, <2>4, <2>5, <2>6, <1>5 DEF ClosePrevious,
       AnswersAreTrue, MadeInOrder, Recorded, OlderAreBroken
<1>6. ASSUME ForgetPrevious
      PROVE  IInv'
  <2>1. Typed'
    BY <1>6 DEF ForgetPrevious, Typed, Steps, Socket
  <2>2. MadeInOrder'
    BY <1>6 DEF ForgetPrevious, MadeInOrder, Typed
  <2>3. WorkerIsRight'
    BY <1>6 DEF ForgetPrevious, WorkerIsRight, Typed
  <2>4. NobodySleeps'
    BY <1>6 DEF ForgetPrevious, NobodySleeps, Typed
  <2>5. Claimed'
    BY <1>6 DEF ForgetPrevious, Claimed, Typed
  <2>6. Counted'
    <3>1. Users' = Users
      BY <1>6 DEF ForgetPrevious, Users, Typed, Idle
    <3>2. UNCHANGED <<mux, refCount>> /\ worker # Idle
      BY <1>6 DEF ForgetPrevious, Idle
    <3> QED
      BY <3>1, <3>2 DEF Counted
  <2> QED
    BY <2>1, <2>2, <2>3, <2>4, <2>5, <2>6, <1>6 DEF ForgetPrevious,
       AnswersAreTrue, Recorded, OlderAreBroken, RestTyped
<1>7. ASSUME RefuseConnection
      PROVE  IInv'
  <2>1. Typed'
    BY <1>7 DEF RefuseConnection, Idle, Refuse, Typed, Steps
  <2>2. WorkerIsRight'
    BY <1>7 DEF RefuseConnection, Idle, Refuse, WorkerIsRight, Typed
  <2>3. NobodySleeps'
    BY <1>7 DEF RefuseConnection, Idle, Refuse, NobodySleeps, Typed
  <2>4. Claimed'
    BY <1>7 DEF RefuseConnection, Idle, Refuse, Claimed, Typed
  <2>5. Counted'
    <3>1. Users' = Users
      BY <1>7 DEF RefuseConnection, Users, Typed, Idle, Refuse
    <3>2. UNCHANGED <<mux, refCount>> /\ worker # Idle
      BY <1>7 DEF RefuseConnection, Idle
    <3> QED
      BY <3>1, <3>2 DEF Counted
  <2> QED
    BY <2>1, <2>2, <2>3, <2>4, <2>5, <1>7 DEF RefuseConnection,
       AnswersAreTrue, MadeInOrder, Recorded, OlderAreBroken, RestTyped
<1>8. ASSUME NEW s \in Connection, CreateSocket(s)
      PROVE  IInv'
  <2>1. Typed'
    <3>1. worker.for \in Attempt
      BY <1>8 DEF CreateSocket, WorkerIsRight
    <3>2. answers' \subseteq Attempt \X Connection
      BY <3>1, <1>8 DEF CreateSocket, Answer, Typed
    <3>3. of' \in [Socket -> Attempt \cup {None}]
      BY <3>1, <1>8 DEF CreateSocket, Typed, Socket
    <3>4. worker' \in [at : Steps, for : Attempt \cup {None},
                      socket : Connection \cup {None}, early : BOOLEAN]
      BY <1>8 DEF CreateSocket, Typed, Steps
    <3> QED
      BY <3>2, <3>3, <3>4, <1>8 DEF CreateSocket, Typed
  <2>2. AnswersAreTrue'
    <3>1. worker.for \in Attempt
      BY <1>8 DEF CreateSocket, WorkerIsRight
    <3>2. of[s] = None /\ \A t \in Connection : t # s => of'[t] = of[t]
      BY <1>8 DEF CreateSocket, Unused, Typed, Socket
    <3>3. of'[s] = worker.for
      BY <1>8 DEF CreateSocket, Typed, Socket
    <3>4. \A a \in Attempt : <<a, s>> \notin answers
      BY <3>2, UdtSocketsAssumption DEF AnswersAreTrue
    <3> QED
      BY <1>8, <3>1, <3>2, <3>3, <3>4 DEF CreateSocket, Answer, AnswersAreTrue
  <2>3. MadeInOrder'
    <3>1. worker.for \in Attempt /\ worker.for # None
      BY <1>8, UdtSocketsAssumption DEF CreateSocket, WorkerIsRight
    <3>2. of'[s] = worker.for /\ \A t \in Connection : t # s => of'[t] = of[t]
      BY <1>8 DEF CreateSocket, Typed, Socket
    <3>3. \A t \in Connection : t < s => of[t] # None
      BY <1>8 DEF CreateSocket, Unused
    <3> QED
      BY <1>8, <3>1, <3>2, <3>3 DEF CreateSocket, MadeInOrder
  <2>4. Recorded'
    <3>1. s \notin sockets \cup dead /\ of[s] = None
      BY <1>8 DEF CreateSocket, Unused, MadeInOrder
    <3>2. \A k \in Keys : s \notin peerRec[k]
      BY <3>1, UdtSocketsAssumption DEF Recorded
    <3>3. \A t \in Connection : t # s => of'[t] = of[t]
      BY <1>8 DEF CreateSocket, Typed, Socket
    <3>4. UNCHANGED <<sockets, dead, peerRec>>
      BY <1>8 DEF CreateSocket
    <3>5. \A k \in Keys : peerRec[k] \subseteq Connection
      BY DEF Typed
    <3> QED
      BY <3>1, <3>2, <3>3, <3>4, <3>5 DEF Recorded
  <2>5. OlderAreBroken'
    <3>1. s \notin sockets /\ \A t \in Connection : t # s => of'[t] = of[t]
      BY <1>8 DEF CreateSocket, Unused, MadeInOrder, Typed, Socket
    <3> QED
      BY <1>8, <3>1 DEF CreateSocket, OlderAreBroken
  <2>6. WorkerIsRight'
    <3>1. /\ worker.for \in Attempt
          /\ worker'.for = worker.for /\ worker'.socket = s
          /\ worker'.at = "register"
      BY <1>8 DEF CreateSocket, WorkerIsRight, Typed
    <3>2. s \notin sockets \cup dead \cup queued
      BY <1>8 DEF CreateSocket, Unused, MadeInOrder
    <3>3. of'[s] = worker.for /\ \A t \in Connection : t # s => of'[t] = of[t]
      BY <1>8 DEF CreateSocket, Typed, Socket
    <3>4. \A t \in Connection : of[t] # None => t =< s
      BY <1>8 DEF CreateSocket, Unused, MadeInOrder
    <3>5. \A t \in Connection : t \in sockets /\ of[t] = worker.for => t \in broken
      BY <1>8 DEF CreateSocket, WorkerIsRight
    <3> QED
      BY <1>8, <3>1, <3>2, <3>3, <3>4, <3>5 DEF CreateSocket, WorkerIsRight
  <2>7. NobodySleeps'
    BY <1>8 DEF CreateSocket, Answer, Unused, NobodySleeps, Typed
  <2>8. Claimed'
    <3>1. s \notin sockets \cup queued \cup held \cup broken
      BY <1>8 DEF CreateSocket, Unused, MadeInOrder, Claimed
    <3>2. acceptor.at = "address" => acceptor.socket # s
      BY <1>8 DEF CreateSocket, Unused, Claimed
    <3>3. worker.for # None
      BY <1>8, UdtSocketsAssumption DEF CreateSocket, WorkerIsRight
    <3>4. \A t \in Connection : of[t] # None => of'[t] # None
      BY <1>8, <3>3 DEF CreateSocket, Typed, Socket
    <3>5. of'[s] # None
      BY <1>8, <3>3 DEF CreateSocket, Typed, Socket
    <3>6. /\ worker'.at = "register" /\ worker'.socket = s
          /\ onList' = onList \cup {s}
          /\ UNCHANGED <<queued, sockets, held, pending, broken, acceptor>>
      BY <1>8 DEF CreateSocket, Typed
    <3> QED
      BY <3>1, <3>2, <3>4, <3>5, <3>6 DEF Claimed
  <2>9. Counted'
    <3>1. Users = sockets \cup dead
      BY <1>8 DEF CreateSocket, Users
    <3>2. s \notin Users
      BY <1>8, <3>1 DEF CreateSocket, Unused, MadeInOrder
    <3>3. Users' = Users \cup {s}
      BY <1>8, <3>1 DEF CreateSocket, Users, Typed
    <3>4. Cardinality(Users') = Cardinality(Users) + 1
      BY <3>2, <3>3, UsersAreSockets, FS_AddElement
    <3>5. mux # "joined" /\ mux # "gone"
      BY <1>8 DEF CreateSocket, ControlLockIsFree, Counted, Idle
    <3> QED
      BY <1>8, <3>4, <3>5 DEF CreateSocket, Counted, RestTyped
  <2>10. RestTyped'
    BY <1>8 DEF CreateSocket, RestTyped
  <2> QED
    BY <2>1, <2>2, <2>3, <2>4, <2>5, <2>6, <2>7, <2>8, <2>9, <2>10
<1>9. ASSUME RegisterSocket
      PROVE  IInv'
  <2>1. Typed'
    <3>1. worker.socket \in Connection
      BY <1>9 DEF RegisterSocket, WorkerIsRight
    <3>2. peerRec' \in [Keys -> SUBSET Connection]
      BY <1>9, <3>1 DEF RegisterSocket, Typed
    <3>3. worker' \in [at : Steps, for : Attempt \cup {None},
                      socket : Connection \cup {None}, early : BOOLEAN]
      BY <1>9 DEF RegisterSocket, Typed, Steps
    <3> QED
      BY <1>9, <3>1, <3>2, <3>3 DEF RegisterSocket, Typed, Socket
  <2>2. MadeInOrder'
    <3>1. /\ worker.socket \in Connection
          /\ of[worker.socket] \in Attempt
      BY <1>9 DEF RegisterSocket, WorkerIsRight
    <3>2. of[worker.socket] # None
      BY <3>1, UdtSocketsAssumption
    <3> QED
      BY <1>9, <3>2 DEF RegisterSocket, MadeInOrder
  <2>3. Recorded'
    <3> DEFINE n == worker.socket
               k == Key(worker.for)
    <3>1. /\ worker.for \in Attempt
          /\ n \in Connection /\ of[n] = worker.for
          /\ n \notin dead
      BY <1>9 DEF RegisterSocket, WorkerIsRight
    <3>2. k \in Keys
      BY <3>1 DEF Keys
    <3>3. /\ sockets' = sockets \cup {n}
          /\ UNCHANGED <<of, dead>>
          /\ peerRec' = [peerRec EXCEPT ![k] = @ \cup {n}]
      BY <1>9 DEF RegisterSocket
    <3>4. \A j \in Keys : peerRec'[j] = IF j = k THEN peerRec[k] \cup {n} ELSE peerRec[j]
      BY <3>2, <3>3 DEF Typed
    <3>5. ASSUME NEW j \in Keys, NEW t \in peerRec'[j]
          PROVE  of'[t] \in Attempt /\ Key(of'[t]) = j
      BY <3>1, <3>3, <3>4 DEF Recorded
    <3>6. ASSUME NEW t \in Connection, t \in sockets' \cup dead'
          PROVE  t \in peerRec'[Key(of'[t])]
      <4>1. CASE t = n
        BY <4>1, <3>1, <3>2, <3>3, <3>4
      <4>2. CASE t # n
        <5>1. t \in sockets \cup dead /\ t \in peerRec[Key(of[t])]
          BY <4>2, <3>6, <3>3 DEF Recorded
        <5>2. of[t] \in Attempt
          BY <5>1 DEF MadeInOrder, Typed, Socket
        <5> QED
          BY <5>1, <5>2, <3>3, <3>4 DEF Keys
      <4> QED
        BY <4>1, <4>2
    <3> QED
      BY <3>1, <3>3, <3>5, <3>6 DEF Recorded
  <2>4. OlderAreBroken'
    BY <1>9 DEF RegisterSocket, OlderAreBroken, Typed, WorkerIsRight,
       MadeInOrder
  <2>5. WorkerIsRight'
    <3>1. /\ worker.socket \in Connection
          /\ worker.for \in Attempt
          /\ of[worker.socket] = worker.for
      BY <1>9 DEF RegisterSocket, WorkerIsRight
    <3>2. /\ worker'.at = "queue"
          /\ worker'.for = worker.for /\ worker'.socket = worker.socket
      BY <1>9 DEF RegisterSocket, Typed
    <3>3. of' = of
      BY <1>9 DEF RegisterSocket
    <3> QED
      BY <3>1, <3>2, <3>3, UdtSocketsAssumption DEF WorkerIsRight
  <2>6. NobodySleeps'
    BY <1>9 DEF RegisterSocket, NobodySleeps, Typed
  <2>7. Claimed'
    BY <1>9 DEF RegisterSocket, Claimed, Typed, WorkerIsRight
  <2>8. Counted'
    <3>1. Users' = Users
      BY <1>9 DEF RegisterSocket, Users, Typed
    <3>2. UNCHANGED <<mux, refCount>> /\ worker # Idle
      BY <1>9 DEF RegisterSocket, Idle
    <3> QED
      BY <3>1, <3>2 DEF Counted
  <2>9. RestTyped'
    BY <1>9 DEF RegisterSocket, RestTyped, Typed
  <2> QED
    BY <2>1, <2>2, <2>3, <2>4, <2>5, <2>6, <2>7, <2>8, <2>9, <1>9 DEF
       RegisterSocket, AnswersAreTrue
<1>10. ASSUME QueueSocket
      PROVE  IInv'
  <2>1. Typed'
    BY <1>10 DEF QueueSocket, Typed, Steps, Socket, WorkerIsRight
  <2>2. MadeInOrder'
    BY <1>10 DEF QueueSocket, MadeInOrder, WorkerIsRight, Typed
  <2>3. WorkerIsRight'
    BY <1>10 DEF QueueSocket, WorkerIsRight, Typed
  <2>4. NobodySleeps'
    BY <1>10 DEF QueueSocket, NobodySleeps, Typed
  <2>5. Claimed'
    BY <1>10 DEF QueueSocket, Claimed, Typed, WorkerIsRight
  <2>6. Counted'
    <3>1. Users' = Users
      BY <1>10 DEF QueueSocket, Users, Typed, Idle
    <3>2. UNCHANGED <<mux, refCount>> /\ worker # Idle
      BY <1>10 DEF QueueSocket, Idle
    <3> QED
      BY <3>1, <3>2 DEF Counted
  <2> QED
    BY <2>1, <2>2, <2>3, <2>4, <2>5, <2>6, <1>10 DEF QueueSocket,
       AnswersAreTrue, Recorded, OlderAreBroken, RestTyped
<1>11. ASSUME SignalAccept
      PROVE  IInv'
  <2>1. Typed'
    BY <1>11 DEF SignalAccept, Idle, Wake, Typed, Steps
  <2>2. WorkerIsRight'
    BY <1>11 DEF SignalAccept, Idle, Wake, WorkerIsRight, Typed
  <2>3. NobodySleeps'
    BY <1>11 DEF SignalAccept, Idle, Wake, NobodySleeps, Typed
  <2>4. Claimed'
    BY <1>11 DEF SignalAccept, Idle, Wake, Claimed, Typed
  <2>5. Counted'
    <3>1. Users' = Users
      BY <1>11 DEF SignalAccept, Users, Typed, Idle
    <3>2. UNCHANGED <<mux, refCount>> /\ worker # Idle
      BY <1>11 DEF SignalAccept, Idle
    <3> QED
      BY <3>1, <3>2 DEF Counted
  <2> QED
    BY <2>1, <2>2, <2>3, <2>4, <2>5, <1>11 DEF SignalAccept, AnswersAreTrue,
       MadeInOrder, Recorded, OlderAreBroken, RestTyped
<1>12. ASSUME NEW s \in Connection, Break(s)
      PROVE  IInv'
  <2>1. Typed'
    BY <1>12 DEF Break, Idle, Typed, Socket
  <2>2. OlderAreBroken'
    BY <1>12 DEF Break, Idle, OlderAreBroken
  <2>3. WorkerIsRight'
    BY <1>12 DEF Break, Idle, WorkerIsRight
  <2>4. NobodySleeps'
    BY <1>12 DEF Break, Idle, NobodySleeps
  <2>5. Claimed'
    BY <1>12 DEF Break, Idle, Claimed, Typed
  <2>6. RestTyped'
    BY <1>12 DEF Break, RestTyped, Socket
  <2> QED
    BY <2>1, <2>2, <2>3, <2>4, <2>5, <2>6, <1>12 DEF Break, AnswersAreTrue,
       MadeInOrder, Recorded, Counted, Users
<1>13. ASSUME NEW s \in Connection, Unlist(s)
      PROVE  IInv'
  <2>1. Claimed'
    BY <1>13 DEF Unlist, Claimed, Typed
  <2>2. RestTyped'
    BY <1>13 DEF Unlist, RestTyped
  <2> QED
    BY <2>1, <2>2, <1>13 DEF Unlist, Typed, AnswersAreTrue, MadeInOrder,
       Recorded, OlderAreBroken, WorkerIsRight, NobodySleeps, Counted, Users
<1>14. ASSUME CallAccept
      PROVE  IInv'
  <2>1. Typed'
    BY <1>14 DEF CallAccept, Typed
  <2>2. NobodySleeps'
    BY <1>14 DEF CallAccept, NobodySleeps, Typed
  <2>3. Claimed'
    BY <1>14 DEF CallAccept, Claimed, Typed
  <2> QED
    BY <2>1, <2>2, <2>3, <1>14 DEF CallAccept, AnswersAreTrue, MadeInOrder,
       Recorded, OlderAreBroken, WorkerIsRight, Counted, RestTyped, Users
<1>15. ASSUME NEW s \in Connection, TakeQueued(s)
      PROVE  IInv'
  <2>1. Typed'
    BY <1>15 DEF TakeQueued, Outside, IsFirst, Typed, Socket
  <2>2. MadeInOrder'
    BY <1>15 DEF TakeQueued, Outside, IsFirst, MadeInOrder
  <2>3. WorkerIsRight'
    BY <1>15 DEF TakeQueued, Outside, IsFirst, WorkerIsRight
  <2>4. NobodySleeps'
    BY <1>15 DEF TakeQueued, Outside, IsFirst, NobodySleeps, Typed
  <2>5. Claimed'
    <3>1. s \in sockets /\ of[s] # None /\ s \in queued
      BY <1>15 DEF TakeQueued, IsFirst, Claimed, MadeInOrder
    <3>2. /\ acceptor'.at = "address" /\ acceptor'.socket = s
          /\ queued' = queued \ {s}
          /\ UNCHANGED <<of, worker, sockets, held, pending, broken, onList>>
      BY <1>15 DEF TakeQueued, Outside
    <3> QED
      BY <3>1, <3>2 DEF Claimed
  <2> QED
    BY <2>1, <2>2, <2>3, <2>4, <2>5, <1>15 DEF TakeQueued, AnswersAreTrue,
       Recorded, OlderAreBroken, Counted, RestTyped, Users
<1>16. ASSUME WaitForConnection
      PROVE  IInv'
  <2>1. Typed'
    <3>1. acceptor' \in [at : {"outside", "called", "waiting", "woken", "address"},
                        socket : Connection \cup {None}, late : BOOLEAN]
      <4>1. CASE Listener \in closed
        BY <4>1, <1>16 DEF WaitForConnection, Outside
      <4>2. CASE Listener \notin closed
        <5> DEFINE late == Listener \in broken \ pending
        <5>1. late \in BOOLEAN
          OBVIOUS
        <5>2. acceptor' = [acceptor EXCEPT !.at = "waiting", !.late = late]
          BY <4>2, <1>16 DEF WaitForConnection
        <5> HIDE DEF late
        <5> QED
          BY <5>1, <5>2 DEF Typed
      <4> QED
        BY <4>1, <4>2
    <3> QED
      BY <3>1, <1>16 DEF WaitForConnection, Typed
  <2>2. NobodySleeps'
    BY <1>16 DEF WaitForConnection, Outside, NobodySleeps, Typed
  <2>3. Claimed'
    BY <1>16 DEF WaitForConnection, Outside, Claimed, Typed
  <2> QED
    BY <2>1, <2>2, <2>3, <1>16 DEF WaitForConnection, AnswersAreTrue,
       MadeInOrder, Recorded, OlderAreBroken, WorkerIsRight, Counted,
       RestTyped, Users
<1>17. ASSUME WakeUp
      PROVE  IInv'
  <2>1. Typed'
    BY <1>17 DEF WakeUp, Outside, Typed
  <2>2. NobodySleeps'
    BY <1>17 DEF WakeUp, Outside, NobodySleeps, Typed
  <2>3. Claimed'
    BY <1>17 DEF WakeUp, Outside, Claimed, Typed
  <2> QED
    BY <2>1, <2>2, <2>3, <1>17 DEF WakeUp, AnswersAreTrue, MadeInOrder,
       Recorded, OlderAreBroken, WorkerIsRight, Counted, RestTyped, Users
<1>18. ASSUME GiveAddress
      PROVE  IInv'
  <2>1. Typed'
    BY <1>18 DEF GiveAddress, Outside, Typed, Claimed
  <2>2. NobodySleeps'
    BY <1>18 DEF GiveAddress, Outside, NobodySleeps
  <2>3. Claimed'
    BY <1>18 DEF GiveAddress, Outside, Claimed, Typed, Located
  <2> QED
    BY <2>1, <2>2, <2>3, <1>18 DEF GiveAddress, AnswersAreTrue, MadeInOrder,
       Recorded, OlderAreBroken, WorkerIsRight, Counted, RestTyped, Users
<1>19. ASSUME CloseListener
      PROVE  IInv'
  <2>1. Typed'
    BY <1>19 DEF CloseListener, Located, Typed, Connection, Socket
  <2>2. OlderAreBroken'
    BY <1>19 DEF CloseListener, Located, OlderAreBroken
  <2>3. WorkerIsRight'
    BY <1>19 DEF CloseListener, Located, WorkerIsRight
  <2>4. NobodySleeps'
    BY <1>19 DEF CloseListener, Located, NobodySleeps
  <2>5. Claimed'
    <3>1. \A t \in Connection : t \in broken' => t \in broken
      BY <1>19 DEF CloseListener
    <3>2. worker.at \in {"register", "queue"} => worker.socket # Listener
      BY DEF WorkerIsRight
    <3> QED
      BY <1>19, <3>1, <3>2 DEF CloseListener, Claimed
  <2> QED
    BY <2>1, <2>2, <2>3, <2>4, <2>5, <1>19 DEF CloseListener, AnswersAreTrue,
       MadeInOrder, Recorded, Counted, RestTyped, Users
<1>20. ASSUME BroadcastAccept
      PROVE  IInv'
  <2>1. Typed'
    BY <1>20 DEF BroadcastAccept, Wake, Typed
  <2>2. NobodySleeps'
    BY <1>20 DEF BroadcastAccept, Wake, NobodySleeps, Typed
  <2>3. Claimed'
    BY <1>20 DEF BroadcastAccept, Wake, Claimed, Typed
  <2> QED
    BY <2>1, <2>2, <2>3, <1>20 DEF BroadcastAccept, AnswersAreTrue,
       MadeInOrder, Recorded, OlderAreBroken, WorkerIsRight, Counted,
       RestTyped, Users
<1>21. ASSUME NEW s \in Connection, CloseConnection(s)
      PROVE  IInv'
  <2>1. Typed'
    <3>1. CASE Located(s)
      BY <1>21, <3>1 DEF CloseConnection, Typed, Socket
    <3>2. CASE ~Located(s)
      BY <1>21, <3>2 DEF CloseConnection, Typed, Socket
    <3> QED
      BY <3>1, <3>2
  <2>2. NobodySleeps'
    BY <1>21 DEF CloseConnection, NobodySleeps
  <2>3. Claimed'
    <3>1. CASE Located(s)
      BY <1>21, <3>1 DEF CloseConnection, Claimed
    <3>2. CASE ~Located(s)
      BY <1>21, <3>2 DEF CloseConnection, Claimed
    <3> QED
      BY <3>1, <3>2
  <2>4. RestTyped'
    <3>1. CASE Located(s)
      BY <1>21, <3>1 DEF CloseConnection, RestTyped, Socket
    <3>2. CASE ~Located(s)
      BY <1>21, <3>2 DEF CloseConnection, RestTyped, Socket
    <3> QED
      BY <3>1, <3>2
  <2> QED
    BY <2>1, <2>2, <2>3, <2>4, <1>21 DEF CloseConnection, AnswersAreTrue,
       MadeInOrder, Recorded, OlderAreBroken, WorkerIsRight, Counted, Users
<1>22. ASSUME NEW s \in Connection, FinishClose(s)
      PROVE  IInv'
  <2>1. Typed'
    <3>1. CASE Located(s)
      BY <3>1, <1>22 DEF FinishClose, Typed, Located
    <3>2. CASE ~Located(s)
      BY <3>2, <1>22 DEF FinishClose, Typed
    <3> QED
      BY <3>1, <3>2
  <2>2. MadeInOrder'
    <3>1. CASE Located(s)
      BY <3>1, <1>22 DEF FinishClose, MadeInOrder, Located
    <3>2. CASE ~Located(s)
      BY <3>2, <1>22 DEF FinishClose, MadeInOrder
    <3> QED
      BY <3>1, <3>2
  <2>3. Recorded'
    <3>1. CASE Located(s)
      BY <3>1, <1>22 DEF FinishClose, Recorded, Located
    <3>2. CASE ~Located(s)
      BY <3>2, <1>22 DEF FinishClose, Recorded
    <3> QED
      BY <3>1, <3>2
  <2>4. OlderAreBroken'
    <3>1. CASE Located(s)
      BY <3>1, <1>22 DEF FinishClose, OlderAreBroken
    <3>2. CASE ~Located(s)
      BY <3>2, <1>22 DEF FinishClose, OlderAreBroken
    <3> QED
      BY <3>1, <3>2
  <2>5. WorkerIsRight'
    <3>1. CASE Located(s)
      BY <3>1, <1>22 DEF FinishClose, WorkerIsRight, Located
    <3>2. CASE ~Located(s)
      BY <3>2, <1>22 DEF FinishClose, WorkerIsRight
    <3> QED
      BY <3>1, <3>2
  <2>6. NobodySleeps'
    BY <1>22 DEF FinishClose, NobodySleeps, Typed
  <2>7. Claimed'
    <3>1. s \in held
      BY <1>22 DEF FinishClose, Claimed
    <3>2. /\ held' = held \ {s} /\ pending' = pending \ {s}
          /\ sockets \ {s} \subseteq sockets' /\ sockets' \subseteq sockets
          /\ UNCHANGED <<of, worker, acceptor, queued, broken, onList>>
      BY <1>22 DEF FinishClose
    <3> QED
      BY <3>1, <3>2 DEF Claimed
  <2>8. Counted'
    <3>1. Users' = Users /\ UNCHANGED <<mux, refCount, worker>>
      <4>1. CASE Located(s)
        BY <1>22, <4>1 DEF FinishClose, Located, Users
      <4>2. CASE ~Located(s)
        BY <1>22, <4>2 DEF FinishClose, Users
      <4> QED
        BY <4>1, <4>2
    <3> QED
      BY <3>1 DEF Counted
  <2>9. RestTyped'
    <3>1. CASE Located(s)
      BY <1>22, <3>1 DEF FinishClose, Located, RestTyped, Socket
    <3>2. CASE ~Located(s)
      BY <1>22, <3>2 DEF FinishClose, RestTyped
    <3> QED
      BY <3>1, <3>2
  <2> QED
    BY <2>1, <2>2, <2>3, <2>4, <2>5, <2>6, <2>7, <2>8, <2>9, <1>22 DEF
       FinishClose, AnswersAreTrue
<1>23. ASSUME NEW breaking \in SUBSET Broken, NEW old \in SUBSET Removable,
             Round(breaking, old)
      PROVE  IInv'
  <2>1. Typed'
    BY <1>23 DEF Round, Broken, Removable, Typed, Socket
  <2>2. MadeInOrder'
    BY <1>23 DEF Round, Broken, Removable, MadeInOrder, Typed
  <2>3. Recorded'
    <3> DEFINE gone == IF Listener \in old THEN queued \ breaking ELSE {}
    <3>1. /\ sockets' = sockets \ (breaking \cup gone)
          /\ dead' = (dead \ old) \cup breaking \cup gone
          /\ queued' = IF Listener \in old THEN {} ELSE queued \ breaking
          /\ broken' = broken \cup gone
          /\ closing' = closing \cup gone \cup old
          /\ closed' = closed \cup breaking \cup gone
          /\ peerRec' = [k \in Keys |-> peerRec[k] \ old]
          /\ refCount' = refCount - Cardinality(old)
          /\ mux = "open" /\ mux' = IF refCount' = 0 THEN "joined" ELSE mux
          /\ UNCHANGED <<of, worker, acceptor, held, pending, onList>>
      BY <1>23 DEF Round
    <3>2. /\ old \subseteq dead /\ breaking \subseteq sockets \cap broken
          /\ gone \subseteq queued /\ queued \subseteq sockets
      BY DEF Removable, Broken, Claimed
    <3> HIDE DEF gone
    <3>3. sockets' \cap dead' = {}
      BY <3>1 DEF Recorded
    <3>4. \A k \in Keys : peerRec'[k] = peerRec[k] \ old
      BY <3>1
    <3>5. ASSUME NEW t \in Connection, t \in sockets' \cup dead'
          PROVE  t \in peerRec'[Key(of'[t])]
      <4>1. t \in sockets \cup dead /\ t \notin old
        BY <3>1, <3>2, <3>5 DEF Recorded
      <4>2. of[t] \in Attempt
        BY <4>1 DEF MadeInOrder, Typed, Socket
      <4>3. Key(of[t]) \in Keys
        BY <4>2 DEF Keys
      <4> QED
        BY <4>1, <4>3, <3>1, <3>4 DEF Recorded
    <3> QED
      BY <3>1, <3>3, <3>4, <3>5 DEF Recorded
  <2>4. OlderAreBroken'
    BY <1>23 DEF Round, Broken, Removable, OlderAreBroken
  <2>5. WorkerIsRight'
    BY <1>23 DEF Round, Broken, Removable, WorkerIsRight, Typed
  <2>6. NobodySleeps'
    BY <1>23 DEF Round, Broken, Removable, NobodySleeps, Typed
  <2>7. Claimed'
    <3> DEFINE gone == IF Listener \in old THEN queued \ breaking ELSE {}
    <3>1. /\ sockets' = sockets \ (breaking \cup gone)
          /\ dead' = (dead \ old) \cup breaking \cup gone
          /\ queued' = IF Listener \in old THEN {} ELSE queued \ breaking
          /\ broken' = broken \cup gone
          /\ closing' = closing \cup gone \cup old
          /\ closed' = closed \cup breaking \cup gone
          /\ peerRec' = [k \in Keys |-> peerRec[k] \ old]
          /\ refCount' = refCount - Cardinality(old)
          /\ mux = "open" /\ mux' = IF refCount' = 0 THEN "joined" ELSE mux
          /\ UNCHANGED <<of, worker, acceptor, held, pending, onList>>
      BY <1>23 DEF Round
    <3>2. /\ old \subseteq dead /\ breaking \subseteq sockets \cap broken
          /\ gone \subseteq queued /\ queued \subseteq sockets
      BY DEF Removable, Broken, Claimed
    <3> HIDE DEF gone
    <3>3. gone \cap queued' = {} /\ queued' \subseteq sockets'
      BY <3>1, <3>2 DEF gone
    <3>4. \A t \in Connection : t \in broken' => of[t] # None
      BY <3>1, <3>2 DEF Claimed, MadeInOrder
    <3>5. worker.at \in {"register", "queue"} => worker.socket \notin broken'
      BY <3>1, <3>2 DEF Claimed
    <3>6. worker.at = "queue" => worker.socket \in sockets'
      BY <3>1, <3>2 DEF Claimed
    <3>7. queued' \subseteq queued
      BY <3>1
    <3> QED
      BY <3>1, <3>3, <3>4, <3>5, <3>6, <3>7 DEF Claimed
  <2>8. Counted'
    <3> DEFINE gone == IF Listener \in old THEN queued \ breaking ELSE {}
    <3>1. /\ sockets' = sockets \ (breaking \cup gone)
          /\ dead' = (dead \ old) \cup breaking \cup gone
          /\ queued' = IF Listener \in old THEN {} ELSE queued \ breaking
          /\ broken' = broken \cup gone
          /\ closing' = closing \cup gone \cup old
          /\ closed' = closed \cup breaking \cup gone
          /\ peerRec' = [k \in Keys |-> peerRec[k] \ old]
          /\ refCount' = refCount - Cardinality(old)
          /\ mux = "open" /\ mux' = IF refCount' = 0 THEN "joined" ELSE mux
          /\ UNCHANGED <<of, worker, acceptor, held, pending, onList>>
      BY <1>23 DEF Round
    <3>2. /\ old \subseteq dead /\ breaking \subseteq sockets \cap broken
          /\ gone \subseteq queued /\ queued \subseteq sockets
      BY DEF Removable, Broken, Claimed
    <3> HIDE DEF gone
    <3>3. Users' = Users \ old
      <4>1. old \cap sockets = {}
        BY <3>2 DEF Recorded
      <4>2. worker.at = "register" => worker.socket \notin dead
        BY DEF WorkerIsRight
      <4> QED
        BY <3>1, <3>2, <4>1, <4>2 DEF Users
    <3>4. Users \cap old = old
      BY <3>2 DEF Users
    <3>5. Cardinality(Users') = Cardinality(Users) - Cardinality(old)
      BY <3>3, <3>4, UsersAreSockets, FS_Difference
    <3>6. refCount' = Cardinality(Users')
      BY <3>1, <3>5 DEF Counted
    <3>7. /\ mux' # "open" => refCount' = 0
          /\ mux' # "gone"
      BY <3>1
    <3> QED
      BY <3>6, <3>7 DEF Counted
  <2>9. RestTyped'
    <3> DEFINE gone == IF Listener \in old THEN queued \ breaking ELSE {}
    <3>1. /\ sockets' = sockets \ (breaking \cup gone)
          /\ dead' = (dead \ old) \cup breaking \cup gone
          /\ queued' = IF Listener \in old THEN {} ELSE queued \ breaking
          /\ broken' = broken \cup gone
          /\ closing' = closing \cup gone \cup old
          /\ closed' = closed \cup breaking \cup gone
          /\ peerRec' = [k \in Keys |-> peerRec[k] \ old]
          /\ refCount' = refCount - Cardinality(old)
          /\ mux = "open" /\ mux' = IF refCount' = 0 THEN "joined" ELSE mux
          /\ UNCHANGED <<of, worker, acceptor, held, pending, onList>>
      BY <1>23 DEF Round
    <3>2. /\ old \subseteq dead /\ breaking \subseteq sockets \cap broken
          /\ gone \subseteq queued /\ queued \subseteq sockets
      BY DEF Removable, Broken, Claimed
    <3> HIDE DEF gone
    <3>3. breaking \subseteq Socket /\ gone \subseteq Socket /\ old \subseteq Socket
      BY <3>2 DEF Typed, Socket
    <3>4. \A k \in Keys : peerRec'[k] \subseteq sockets' \cup dead'
      BY <3>1, <3>2 DEF RestTyped
    <3>5. mux' \in {"open", "joined", "gone"}
      BY <3>1
    <3> QED
      BY <3>1, <3>3, <3>4, <3>5 DEF RestTyped
  <2> QED
    BY <2>1, <2>2, <2>3, <2>4, <2>5, <2>6, <2>7, <2>8, <2>9, <1>23 DEF Round,
       AnswersAreTrue
<1>24. ASSUME JoinWorker
      PROVE  IInv'
  <2>1. Counted'
    <3>1. Users' = Users
      BY <1>24 DEF JoinWorker, Users
    <3> QED
      BY <1>24, <3>1 DEF JoinWorker, Counted
  <2>2. RestTyped'
    BY <1>24 DEF JoinWorker, RestTyped
  <2> QED
    BY <2>1, <2>2, <1>24 DEF JoinWorker, Typed, AnswersAreTrue, MadeInOrder,
       Recorded, OlderAreBroken, WorkerIsRight, NobodySleeps, Claimed
<1> QED
  BY <1>1, <1>2, <1>3, <1>4, <1>5, <1>6, <1>7, <1>8, <1>9, <1>10, <1>11,
     <1>12, <1>13, <1>14, <1>15, <1>16, <1>17, <1>18, <1>19, <1>20, <1>21,
     <1>22, <1>23, <1>24 DEF Next, Worker, Handshake, Application, InAccept,
     InClose, Collect

\* Steps that change nothing.
LEMMA StutterIsRight == IInv /\ UNCHANGED vars => IInv'
BY DEF IInv, vars, socketVars, tableVars, appVars, Typed, AnswersAreTrue,
       MadeInOrder, Recorded, OlderAreBroken, WorkerIsRight, NobodySleeps,
       Claimed, Counted, Users, RestTyped

(* Everything that the properties rest on holds in every state.            *)
THEOREM Inductive == Spec => []IInv
<1>1. IInv /\ [Next]_vars => IInv'
  BY StepIsRight, StutterIsRight
<1> QED
  BY InitIsRight, <1>1, PTL DEF Spec

(* A client is connected to a socket of its own, and has no other in use:  *)
(* newConnection answers a repeated request as it answered the first.      *)
THEOREM AgreementHolds == Spec => []Agreement
<1>1. IInv => Agreement
  <2> SUFFICES ASSUME IInv
               PROVE  Agreement
    OBVIOUS
  <2>1. \A a \in Attempt : \A s \in Peers(a) : of[s] = a
    BY DEF Peers, IInv, AnswersAreTrue
  <2>2. ASSUME NEW s \in sockets \ (broken \cup {Listener}),
               NEW t \in sockets \ (broken \cup {Listener}),
               of[s] = of[t]
        PROVE  s = t
    <3>1. s \in Connection /\ t \in Connection
      BY DEF IInv, Typed, Socket
    <3> QED
      BY <3>1, <2>2, ListenerIsApart DEF IInv, OlderAreBroken
  <2> QED
    BY <2>1, <2>2 DEF Agreement
<1> QED
  BY Inductive, <1>1, PTL

(* The tables agree whatever the threads and the collector do in between;  *)
(* removeSocket finds who waits for accept() in m_Sockets, and the         *)
(* multiplexer goes with the last of those who use it.                     *)
THEOREM TablesHold == Spec => []TablesAgree
<1>1. IInv => TablesAgree
  <2> SUFFICES ASSUME IInv
               PROVE  TablesAgree
    OBVIOUS
  <2> USE DEF IInv
  <2>1. TypeOK
    BY DEF TypeOK, Typed, RestTyped, Socket
  <2>2. sockets \cap dead = {} /\ queued \subseteq sockets \ held
    BY DEF Recorded, Claimed
  <2>3. ASSUME NEW k \in Keys
        PROVE  peerRec[k] = {s \in (sockets \cup dead) \ {Listener} : Key(of[s]) = k}
    <3>1. peerRec[k] \subseteq Connection /\ peerRec[k] \subseteq sockets \cup dead
      BY DEF Typed, RestTyped
    <3>2. \A s \in peerRec[k] : Key(of[s]) = k
      BY DEF Recorded
    <3>3. ASSUME NEW s \in (sockets \cup dead) \ {Listener}, Key(of[s]) = k
          PROVE  s \in peerRec[k]
      BY <3>3 DEF Recorded, Typed, Socket
    <3> QED
      BY <3>1, <3>2, <3>3, ListenerIsApart
  <2>4. refCount = Cardinality(Users) /\ (mux # "open" => refCount = 0)
    BY DEF Counted
  <2> QED
    BY <2>1, <2>2, <2>3, <2>4 DEF TablesAgree
<1> QED
  BY Inductive, <1>1, PTL

(* Nobody sleeps in accept() who has been or will be sent for: the signal  *)
(* of newConnection and the broadcast of close() are not lost.             *)
THEOREM NobodyOversleeps == Spec => []NobodySleeps
<1>1. IInv => NobodySleeps
  BY DEF IInv
<1> QED
  BY Inductive, <1>1, PTL

=============================================================================
