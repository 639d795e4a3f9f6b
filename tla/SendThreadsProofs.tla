-------------------------- MODULE SendThreadsProofs --------------------------
(***************************************************************************)
(* Theorems about SendThreads, for any number of connections and any       *)
(* commands.                                                               *)
(*                                                                         *)
(* Two arguments carry them.  Counting: there are as many elements in the  *)
(* list as threads that have not ended, so that a thread that must pick    *)
(* finds one, and an element that nobody serves has a double elsewhere.    *)
(* Order: elements only join at the back, so that while it is calm the     *)
(* back is the element of the one thread that must pick.  Both end where   *)
(* the list is cleared; what is left then is at most the last connection.  *)
(***************************************************************************)
EXTENDS SendThreads, FiniteSetTheorems, WellFoundedInduction, TLAPS

-----------------------------------------------------------------------------
(* The list.                                                               *)

LEMMA ListFinite ==
  ASSUME TypeOK
  PROVE  /\ send_sockets \subseteq Connection /\ IsFiniteSet(send_sockets)
         /\ Cardinality(send_sockets) \in 0..MaxConnections
<1>1. send_sockets \subseteq Connection
  BY MaxConnectionsType DEF TypeOK, Connection
<1>2. IsFiniteSet(Connection) /\ Cardinality(Connection) = MaxConnections
  BY MaxConnectionsType, FS_Interval DEF Connection
<1>3. IsFiniteSet(send_sockets) /\ Cardinality(send_sockets) <= MaxConnections
  BY <1>1, <1>2, FS_Subset
<1>4. Cardinality(send_sockets) \in Nat
  BY <1>3, FS_CardinalityType
<1> QED BY <1>1, <1>3, <1>4, MaxConnectionsType

LEMMA LiveFinite == IsFiniteSet(Live) /\ Live \subseteq Connection
<1>1. Live \subseteq Connection
  BY DEF Live, Serving, Created
<1>2. IsFiniteSet(Connection)
  BY MaxConnectionsType, FS_Interval DEF Connection
<1> QED BY <1>1, <1>2, FS_Subset

(* The least of some connections: what lies below it is not a superset of  *)
(* what lies below another one.                                            *)
LEMMA LeastExists ==
  ASSUME NEW some \in SUBSET Connection, some # {}
  PROVE  \E m \in some : \A e \in some : m <= e
<1> DEFINE below(m) == {e \in some : e < m}
           all == {below(m) : m \in some}
<1>1. IsFiniteSet(some) /\ some \subseteq Nat
  <2>1. IsFiniteSet(Connection) /\ Connection \subseteq Nat
    BY MaxConnectionsType, FS_Interval DEF Connection
  <2> QED BY <2>1, FS_Subset
<1>2. all \subseteq FiniteSubsetsOf(some) /\ all # {}
  <2>1. \A m \in some : below(m) \in SUBSET some /\ IsFiniteSet(below(m))
    BY <1>1, FS_Subset
  <2> QED BY <2>1 DEF FiniteSubsetsOf
<1>3. PICK low \in all : \A y \in all : <<y, low>> \notin StrictSubsetOrdering(some)
  <2> HIDE DEF all
  <2> QED BY <1>2, FS_StrictSubsetOrderingWellFounded, WFMin
<1>4. PICK m \in some : low = below(m)
  BY <1>3
<1>5. ASSUME NEW e \in some, ~(m <= e) PROVE FALSE
  <2>1. e < m /\ e \in Nat /\ m \in Nat
    BY <1>1, <1>5
  <2>2. below(e) \subseteq low /\ e \in low /\ e \notin below(e)
    <3>1. \A d \in some : d < e => d < m
      BY <1>1, <2>1
    <3>2. ~(e < e)
      BY <2>1
    <3> QED BY <1>4, <2>1, <3>1, <3>2
  <2>3. below(e) \in all /\ below(e) \subseteq some /\ low \subseteq some
    BY <1>4
  <2>4. <<below(e), low>> \in StrictSubsetOrdering(some)
    <3> DEFINE b == below(e)
    <3>1. b \subseteq some /\ low \subseteq some /\ b \subseteq low /\ b # low
      BY <2>2, <2>3
    <3> HIDE DEF b
    <3>2. <<b, low>> \in StrictSubsetOrdering(some)
      BY <3>1 DEF StrictSubsetOrdering
    <3> QED BY <3>2 DEF b
  <2> QED BY <1>3, <2>3, <2>4
<1> QED BY <1>5

LEMMA NoneIsNoConnection == None \notin Connection /\ Connection \subseteq Nat
BY MaxConnectionsType, NoneApart DEF Connection

(* What begin and ++ yield. *)
LEMMA AfterFacts ==
  ASSUME NEW list \in SUBSET Connection, NEW c \in Nat
  PROVE  /\ After(list, c) = None => \A d \in list : d <= c
         /\ After(list, c) # None =>
              /\ After(list, c) \in list /\ After(list, c) > c
              /\ \A d \in list : d < After(list, c) => d <= c
         /\ After(list, c) \in Connection \cup {None}
<1> DEFINE above == {d \in list : d > c}
<1>1. CASE above = {}
  <2>1. After(list, c) = None
    BY <1>1 DEF After
  <2>2. \A d \in list : d <= c
    BY <1>1 DEF Connection
  <2> QED BY <2>1, <2>2
<1>2. CASE above # {}
  <2>1. list \subseteq Nat
    BY MaxConnectionsType DEF Connection
  <2>2. PICK d \in above : \A e \in above : d <= e
    BY <1>2, LeastExists
  <2>3. /\ After(list, c) \in list /\ After(list, c) > c
        /\ \A e \in list : e > c => After(list, c) <= e
    BY <2>2 DEF After
  <2>4. After(list, c) # None
    BY <2>3, NoneIsNoConnection
  <2>5. ASSUME NEW e \in list, e < After(list, c) PROVE e <= c
    <3>1. e \in Nat /\ After(list, c) \in Nat
      BY <2>1, <2>3
    <3>2. ~(e > c)
      BY <2>3, <2>5, <3>1
    <3> QED BY <3>1, <3>2
  <2> QED BY <2>3, <2>4, <2>5
<1> QED BY <1>1, <1>2

(* What end and -- yield: the greatest mirrored is the least. *)
LEMMA BackFacts ==
  ASSUME NEW list \in SUBSET Connection, list # {}
  PROVE  Back(list) \in list /\ \A d \in list : d <= Back(list)
<1> DEFINE mirror(c) == MaxConnections + 1 - c
           mirrored == {mirror(c) : c \in list}
<1>1. \A c \in Connection : mirror(c) \in Connection /\ mirror(mirror(c)) = c
  BY MaxConnectionsType DEF Connection
<1>2. mirrored \subseteq Connection /\ mirrored # {}
  BY <1>1
<1>3. PICK m \in mirrored : \A e \in mirrored : m <= e
  <2> HIDE DEF mirrored
  <2> QED BY <1>2, LeastExists
<1>4. PICK c \in list : m = mirror(c)
  BY <1>3
<1>5. ASSUME NEW d \in list PROVE d <= c
  <2>1. mirror(c) <= mirror(d)
    BY <1>3, <1>4
  <2> QED BY <2>1, MaxConnectionsType DEF Connection
<1> QED BY <1>5 DEF Back

LEMMA DividedType ==
  ASSUME NEW v \in Int, NEW n \in Nat \ {0}
  PROVE  Divided(v, n) \in Nat \cup {-1}
BY DEF Divided

-----------------------------------------------------------------------------
(* Types.                                                                  *)

LEMMA InitTypeOK == Init => TypeOK
<1> SUFFICES ASSUME Init PROVE TypeOK
  OBVIOUS
<1>1. \A t \in Connection : thread[t] = "none" /\ t > accepted
  BY MaxConnectionsType DEF Init, Connection
<1>2. accepted \in 0..MaxConnections /\ parts \in 0..MaxConnections
  BY MaxConnectionsType DEF Init
<1> QED BY <1>1, <1>2, SpeedsType DEF Init, TypeOK

(* What is left of a process has its types. *)
LEMMA GoneType == ASSUME NEW how, how \in {"over", "undefined", "segv"}, Gone(how)
                  PROVE  TypeOK'
<1>1. \A t \in Connection : thread'[t] = "none" /\ t > accepted'
  BY MaxConnectionsType DEF Gone, Connection
<1>2. accepted' \in 0..MaxConnections /\ parts' \in 0..MaxConnections
  BY MaxConnectionsType DEF Gone
<1> QED BY <1>1, <1>2, SpeedsType DEF Gone, TypeOK

LEMMA AcceptType ==
  ASSUME TypeOK, Accept PROVE TypeOK'
<1> DEFINE c == accepted + 1
<1>1. c \in Connection /\ accepted' = c
  BY MaxConnectionsType DEF Accept, TypeOK, Connection
<1>2. send_sockets' \subseteq 1..accepted'
  BY <1>1, MaxConnectionsType DEF Accept, TypeOK, Connection
<1>3. thread' = [thread EXCEPT ![c] = "created"]
  BY DEF Accept
<1>4. \A t \in Connection : thread'[t] = "none" <=> t > accepted'
  BY <1>1, <1>3, MaxConnectionsType DEF TypeOK, Connection
<1>5. bandwidth' \in [Connection -> Nat \cup {-1}]
  <2>1. listen_speed \in Nat \cup {-1}
    BY DEF Accept, TypeOK
  <2>2. (IF listen_speed > 0 THEN listen_speed ELSE -1) \in Nat \cup {-1}
    BY <2>1
  <2> QED BY <1>1, <2>2 DEF Accept, TypeOK
<1>6. accepted' \in 0..MaxConnections
  BY <1>1, MaxConnectionsType DEF Connection
<1>7. thread' \in [Connection -> {"none", "created", "serving", "ended"}]
  BY <1>1, <1>3 DEF TypeOK
<1>8. listen_speed' \in Nat \cup {-1, None} /\ listening' = FALSE
  BY DEF Accept, TypeOK
<1>9. UNCHANGED <<process, max_speed, socket_it, usable, status_it, input, ends>>
  BY DEF Accept
<1>10. calm' \in BOOLEAN /\ parts' \in 0..MaxConnections
  BY MaxConnectionsType DEF Accept, TypeOK
<1> QED BY <1>2, <1>4, <1>5, <1>6, <1>7, <1>8, <1>9, <1>10
        DEF TypeOK, input, ends

LEMMA TypeOKStep == TypeOK /\ [Next]_vars => TypeOK'
<1> SUFFICES ASSUME TypeOK, [Next]_vars PROVE TypeOK'
  OBVIOUS
<1> USE DEF main, threads, input, ends, history
<1>1. CASE Listen
  <2>1. Cardinality(send_sockets) + 1 \in Nat \ {0}
    BY ListFinite, MaxConnectionsType
  <2>2. Divided(max_speed, Cardinality(send_sockets) + 1) \in Nat \cup {-1}
    BY <2>1, DividedType DEF TypeOK
  <2>3. listen_speed' \in Nat \cup {-1}
    BY <1>1, <2>2 DEF Listen, TypeOK
  <2> QED BY <1>1, <2>3, NoneApart DEF Listen, TypeOK
<1>2. CASE Accept
  BY <1>2, AcceptType
<1>3. ASSUME NEW t \in Connection, Pick(t) PROVE TypeOK'
  <2>1. CASE send_sockets = {}
    BY <1>3, <2>1, GoneType DEF Pick, Undefined
  <2>2. CASE send_sockets # {}
    <3>1. Back(send_sockets) \in Connection
      BY <2>2, ListFinite, BackFacts
    <3>2. thread' = [thread EXCEPT ![t] = "serving"] /\ thread[t] = "created"
      BY <1>3, <2>2 DEF Pick
    <3>3. \A u \in Connection : thread'[u] = "none" <=> thread[u] = "none"
      BY <3>2 DEF TypeOK
    <3> QED BY <1>3, <2>2, <3>1, <3>2, <3>3 DEF Pick, TypeOK
  <2> QED BY <2>1, <2>2
<1>4. ASSUME NEW t \in Connection, Finish(t) PROVE TypeOK'
  <2>1. CASE socket_it[t] \notin send_sockets
    BY <1>4, <2>1, GoneType DEF Finish, Undefined
  <2>2. CASE socket_it[t] \in send_sockets
    <3>1. thread' = [thread EXCEPT ![t] = "ended"] /\ thread[t] = "serving"
      BY <1>4, <2>2 DEF Finish
    <3>2. \A u \in Connection : thread'[u] = "none" <=> thread[u] = "none"
      BY <3>1 DEF TypeOK
    <3> QED BY <1>4, <2>2, <3>1, <3>2 DEF Finish, TypeOK
  <2> QED BY <2>1, <2>2
<1>5. CASE StatusBegin
  BY <1>5, ListFinite, AfterFacts DEF StatusBegin, TypeOK
<1>6. CASE StatusNext
  <2>1. CASE status_it \notin send_sockets
    BY <1>6, <2>1, GoneType DEF StatusNext, Undefined
  <2>2. CASE status_it \in send_sockets
    <3>1. status_it \in Nat
      BY <2>2, ListFinite, MaxConnectionsType DEF Connection
    <3>2. After(send_sockets, status_it) \in Connection \cup {None}
      BY <3>1, ListFinite, AfterFacts
    <3> QED BY <1>6, <2>2, <3>2 DEF StatusNext, TypeOK
  <2> QED BY <2>1, <2>2
<1>7. ASSUME NEW v \in Speeds, SetMaxSpeed(v) PROVE TypeOK'
  <2>1. v \in Int /\ max_speed' = v
    BY <1>7, SpeedsType DEF SetMaxSpeed
  <2>2. After(send_sockets, 0) \in Connection \cup {None}
    BY ListFinite, AfterFacts
  <2>3. CASE Cardinality(send_sockets) > 1
    <3>1. Divided(v, Cardinality(send_sockets)) \in Nat \cup {-1}
      BY <2>1, <2>3, ListFinite, MaxConnectionsType, DividedType
    <3> QED BY <1>7, <2>1, <2>2, <2>3, <3>1, ListFinite DEF SetMaxSpeed, TypeOK
  <2>4. CASE ~(Cardinality(send_sockets) > 1)
    BY <1>7, <2>1, <2>4, MaxConnectionsType DEF SetMaxSpeed, TypeOK
  <2> QED BY <2>3, <2>4
<1>8. CASE SetBW
  <2>1. CASE input_it \notin send_sockets
    BY <1>8, <2>1, GoneType DEF SetBW, Undefined
  <2>2. CASE input_it \in send_sockets /\ usable[input_it]
    <3>1. input_it \in Nat
      BY <2>2, ListFinite, MaxConnectionsType DEF Connection
    <3>2. After(send_sockets, input_it) \in Connection \cup {None}
      BY <3>1, ListFinite, AfterFacts
    <3> QED BY <1>8, <2>2, <3>2 DEF SetBW, TypeOK
  <2>3. CASE input_it \in send_sockets /\ ~usable[input_it]
    BY <1>8, <2>3, GoneType DEF SetBW
  <2> QED BY <2>1, <2>2, <2>3
<1>9. CASE LeaveLoop \/ ClearAndReturn
  <2>1. CASE LeaveLoop
    BY <2>1 DEF LeaveLoop, TypeOK
  <2>2. CASE ClearAndReturn
    BY <2>2 DEF ClearAndReturn, ListCleared, TypeOK
  <2> QED BY <1>9, <2>1, <2>2
<1>10. ASSUME NEW c \in Connection, Break(c) PROVE TypeOK'
  BY <1>10 DEF Break, TypeOK
<1>11. CASE StopCommand \/ ClearAndExit
  <2>1. CASE StopCommand
    BY <2>1 DEF StopCommand, TypeOK
  <2>2. CASE ClearAndExit
    BY <2>2 DEF ClearAndExit, ListCleared, TypeOK
  <2> QED BY <1>11, <2>1, <2>2
<1>12. CASE Exit
  BY <1>12, GoneType DEF Exit
<1>13. CASE UNCHANGED vars
  BY <1>13 DEF vars, TypeOK
<1> QED BY <1>1, <1>2, <1>3, <1>4, <1>5, <1>6, <1>7, <1>8, <1>9, <1>10, <1>11,
           <1>12, <1>13 DEF Next

-----------------------------------------------------------------------------
(* The inductive invariant.                                                *)

LEMMA InitIInv == Init => IInv
<1> SUFFICES ASSUME Init PROVE IInv
  OBVIOUS
<1>1. Serving = {} /\ Created = {} /\ Live = {}
  BY DEF Init, Serving, Created, Live
<1>2. (1..accepted) \ send_sockets = {}
  BY DEF Init
<1>3. Counted /\ LastAlone /\ PicksNext /\ ErasedByItsThread /\ OwnConnection
  BY <1>1, <1>2, FS_EmptySet
     DEF Init, Counted, LastAlone, PicksNext, ErasedByItsThread, OwnConnection
<1>4. SharesGiven
  BY DEF Init, SharesGiven
<1> QED BY <1>3, <1>4, InitTypeOK DEF IInv

(* A process that has ended owes nothing. *)
LEMMA DeadKeeps ==
  ASSUME TypeOK', process' # "running" PROVE IInv'
BY DEF IInv, OwnConnection, Counted, LastAlone, PicksNext, ErasedByItsThread,
       SharesGiven

LEMMA GoneKeeps ==
  ASSUME NEW how, how \in {"over", "undefined", "segv"}, Gone(how)
  PROVE  IInv'
BY GoneType, DeadKeeps DEF Gone

(* Nor do steps that concern neither the list nor its threads and shares,  *)
(* if they clear nothing and do not accept.                                *)
LEMMA AsideKeeps ==
  ASSUME IInv, TypeOK',
         UNCHANGED <<process, accepted, send_sockets, max_speed, threads,
                     bandwidth, input, history>>,
         Cleared' = Cleared,
         Cleared /\ startSend' = "loop" /\ listening' =>
           startSend = "loop" /\ listening
  PROVE  IInv'
<1> USE DEF threads, input, history
<1>1. UNCHANGED <<Serving, Created, Live>>
  BY DEF Serving, Created, Live
<1>2. OwnConnection' /\ Counted' /\ PicksNext'
  BY <1>1 DEF IInv, OwnConnection, Counted, PicksNext
<1>3. ErasedByItsThread' /\ SharesGiven'
  BY <1>1 DEF IInv, ErasedByItsThread, SharesGiven
<1>4. LastAlone'
  BY DEF IInv, LastAlone
<1> QED BY <1>2, <1>3, <1>4 DEF IInv

(* A list that is cleared owes its threads nothing any more. *)
LEMMA ClearKeeps ==
  ASSUME IInv, TypeOK', send_sockets' = {}, Cleared',
         UNCHANGED <<process, accepted, max_speed, threads, input, history>>
  PROVE  IInv'
<1> USE DEF threads, input, history
<1>1. UNCHANGED <<Serving, Created, Live>>
  BY DEF Serving, Created, Live
<1>2. OwnConnection' /\ PicksNext'
  BY <1>1 DEF IInv, OwnConnection, PicksNext
<1>3. Counted' /\ LastAlone' /\ ErasedByItsThread'
  BY <1>1 DEF IInv, Counted, LastAlone, ErasedByItsThread
<1>4. SharesGiven'
  <2>1. Cardinality(send_sockets') = 0 /\ parts \in Nat
    BY FS_EmptySet, MaxConnectionsType DEF IInv, TypeOK
  <2> QED BY <2>1 DEF IInv, SharesGiven
<1> QED BY <1>2, <1>3, <1>4 DEF IInv

LEMMA AcceptKeeps ==
  ASSUME IInv, Accept PROVE IInv'
<1> DEFINE c == accepted + 1
<1> USE DEF input, ends
<1>1. TypeOK /\ TypeOK'
  BY AcceptType DEF IInv
<1>2. /\ c \in Connection /\ accepted' = c /\ accepted \in Nat
      /\ c \notin send_sockets /\ thread[c] = "none"
  BY <1>1, MaxConnectionsType DEF Accept, TypeOK, Connection
<1>3. /\ process = "running" /\ send_sockets' = send_sockets \cup {c}
      /\ thread' = [thread EXCEPT ![c] = "created"]
      /\ UNCHANGED <<process, socket_it>>
      /\ calm' => calm /\ Created = {}
      /\ parts' = 0 /\ startSend = "loop" /\ listening /\ listening' = FALSE
      /\ Cleared' = Cleared
  BY DEF Accept, Created, Cleared
<1>4. /\ Serving' = Serving /\ Created' = Created \cup {c}
      /\ Live' = Live \cup {c} /\ c \notin Live
  BY <1>1, <1>2, <1>3 DEF TypeOK, Serving, Created, Live
<1>5. OwnConnection'
  BY <1>3, <1>4 DEF IInv, OwnConnection
<1>6. Counted'
  <2> SUFFICES ASSUME ~Cleared
               PROVE  Cardinality(send_sockets') = Cardinality(Live')
    BY <1>3 DEF Counted
  <2>1. IsFiniteSet(send_sockets) /\ IsFiniteSet(Live)
    BY <1>1, ListFinite, LiveFinite
  <2>2. Cardinality(send_sockets \cup {c}) = Cardinality(send_sockets) + 1
    BY <1>2, <2>1, FS_AddElement
  <2>3. Cardinality(Live \cup {c}) = Cardinality(Live) + 1
    BY <1>4, <2>1, FS_AddElement
  <2>4. Cardinality(send_sockets) = Cardinality(Live)
    BY <1>3 DEF IInv, Counted
  <2> QED BY <1>3, <1>4, <2>2, <2>3, <2>4
<1>7. PicksNext'
  BY <1>2, <1>3, <1>4 DEF PicksNext
<1>8. ErasedByItsThread'
  <2>1. \A t \in Serving' : socket_it'[t] \in 1..accepted'
    BY <1>2, <1>3, <1>4 DEF IInv, ErasedByItsThread
  <2>2. ASSUME ~Cleared, NEW d \in (1..accepted') \ send_sockets'
        PROVE  \E u \in Connection : thread'[u] = "ended" /\ socket_it'[u] = d
    <3>1. d \in (1..accepted) \ send_sockets
      BY <1>2, <1>3
    <3>2. PICK u \in Connection : thread[u] = "ended" /\ socket_it[u] = d
      BY <1>3, <2>2, <3>1 DEF IInv, ErasedByItsThread
    <3> QED BY <1>1, <1>2, <1>3, <3>2 DEF TypeOK
  <2> QED BY <1>3, <2>1, <2>2 DEF ErasedByItsThread
<1>9. SharesGiven'
  BY <1>3 DEF SharesGiven
<1>10. LastAlone'
  <2>1. Cleared => send_sockets = {}
    BY <1>3 DEF IInv, LastAlone
  <2>2. thread'[c] = "created"
    BY <1>1, <1>2, <1>3 DEF TypeOK
  <2> QED BY <1>2, <1>3, <2>1, <2>2 DEF LastAlone
<1> QED BY <1>1, <1>5, <1>6, <1>7, <1>8, <1>9, <1>10 DEF IInv

LEMMA PickKeeps ==
  ASSUME IInv, NEW t \in Connection, Pick(t), TypeOK' PROVE IInv'
<1> USE DEF main, input, ends, history
<1>1. CASE send_sockets = {}
  BY <1>1, GoneKeeps DEF Pick, Undefined
<1>2. CASE send_sockets # {}
  <2> DEFINE back == Back(send_sockets)
  <2>1. TypeOK /\ t \in Created /\ process = "running"
    BY DEF IInv, Pick, Created
  <2>2. back \in send_sockets /\ \A d \in send_sockets : d <= back
    BY <1>2, <2>1, ListFinite, BackFacts
  <2>3. /\ thread' = [thread EXCEPT ![t] = "serving"]
        /\ socket_it' = [socket_it EXCEPT ![t] = back]
        /\ UNCHANGED <<process, main, send_sockets, max_speed, bandwidth, input,
                       ends, history>>
        /\ Cleared' = Cleared
    BY <1>2 DEF Pick, Cleared
  <2>4. /\ Serving' = Serving \cup {t} /\ Created' = Created \ {t}
        /\ Live' = Live /\ t \notin Serving
    BY <2>1, <2>3 DEF TypeOK, Serving, Created, Live
  <2>5. back \in 1..accepted
    BY <2>1, <2>2 DEF TypeOK
  <2>6. calm => back = t
    <3>1. SUFFICES ASSUME calm PROVE back = t
      OBVIOUS
    <3>2. t = accepted /\ (Cleared \/ t \in send_sockets)
      BY <2>1, <3>1 DEF IInv, PicksNext
    <3>3. Cleared => back = accepted
      BY <2>1, <2>2 DEF IInv, LastAlone
    <3> QED BY <2>1, <2>2, <2>5, <3>2, <3>3 DEF TypeOK
  <2>7. OwnConnection'
    <3>1. \A u \in Serving : u # t /\ socket_it'[u] = socket_it[u]
      BY <2>1, <2>3, <2>4 DEF TypeOK, Serving
    <3>2. socket_it'[t] = back
      BY <2>1, <2>3 DEF TypeOK
    <3> QED BY <2>1, <2>2, <2>3, <2>4, <2>6, <3>1, <3>2 DEF IInv, OwnConnection
  <2>8. Counted' /\ PicksNext'
    BY <2>3, <2>4 DEF IInv, Counted, PicksNext
  <2>11. LastAlone'
    <3>1. SUFFICES ASSUME Cleared, NEW c \in send_sockets
                   PROVE  /\ c = accepted /\ ~(startSend = "loop" /\ listening)
                          /\ \/ thread'[c] = "created"
                             \/ thread'[c] = "serving" /\ socket_it'[c] = c
      BY <2>3 DEF LastAlone
    <3>2. /\ c = accepted /\ ~(startSend = "loop" /\ listening)
          /\ thread[c] = "created" \/ (thread[c] = "serving" /\ socket_it[c] = c)
          /\ back = accepted
      BY <2>1, <2>2, <3>1 DEF IInv, LastAlone
    <3>3. CASE c = t
      BY <2>1, <2>3, <3>2, <3>3 DEF TypeOK
    <3>4. CASE c # t
      BY <2>1, <2>3, <3>2, <3>4 DEF TypeOK
    <3> QED BY <3>3, <3>4
  <2>9. ErasedByItsThread'
    <3>1. \A u \in Serving' : socket_it'[u] \in 1..accepted'
      BY <2>1, <2>3, <2>4, <2>5 DEF IInv, ErasedByItsThread, TypeOK, Serving
    <3>2. ASSUME ~Cleared, NEW d \in (1..accepted') \ send_sockets'
          PROVE  \E u \in Connection : thread'[u] = "ended" /\ socket_it'[u] = d
      <4>1. PICK u \in Connection : thread[u] = "ended" /\ socket_it[u] = d
        BY <2>1, <2>3, <3>2 DEF IInv, ErasedByItsThread
      <4>2. u # t
        BY <2>1, <4>1 DEF Created
      <4> QED BY <2>1, <2>3, <4>1, <4>2 DEF TypeOK
    <3> QED BY <2>3, <3>1, <3>2 DEF ErasedByItsThread
  <2>10. SharesGiven'
    BY <2>3 DEF IInv, SharesGiven
  <2> QED BY <2>7, <2>8, <2>9, <2>10, <2>11 DEF IInv
<1> QED BY <1>1, <1>2

LEMMA FinishKeeps ==
  ASSUME IInv, NEW t \in Connection, Finish(t), TypeOK' PROVE IInv'
<1> USE DEF main, input, ends, history
<1>1. CASE socket_it[t] \notin send_sockets
  BY <1>1, GoneKeeps DEF Finish, Undefined
<1>2. CASE socket_it[t] \in send_sockets
  <2>1. TypeOK /\ t \in Serving /\ process = "running"
    BY DEF IInv, Finish, Serving
  <2>2. /\ thread' = [thread EXCEPT ![t] = "ended"]
        /\ send_sockets' = send_sockets \ {socket_it[t]}
        /\ UNCHANGED <<process, main, max_speed, socket_it, input, ends,
                       history>>
        /\ Cleared' = Cleared
    BY <1>2 DEF Finish, Cleared
  <2>10. ASSUME NEW c \in send_sockets' PROVE bandwidth'[c] = bandwidth[c]
    <3>1. c \in Connection /\ c # socket_it[t]
      BY <2>1, <2>2, ListFinite
    <3>2. bandwidth' = [bandwidth EXCEPT ![socket_it[t]] = -1]
      BY <1>2 DEF Finish
    <3> QED BY <2>1, <3>1, <3>2 DEF TypeOK
  <2>3. /\ Serving' = Serving \ {t} /\ Created' = Created
        /\ Live' = Live \ {t} /\ t \in Live
    BY <2>1, <2>2 DEF TypeOK, Serving, Created, Live
  <2>4. OwnConnection'
    BY <2>1, <2>2, <2>3 DEF IInv, OwnConnection
  <2>5. Counted'
    <3> SUFFICES ASSUME ~Cleared
                 PROVE  Cardinality(send_sockets') = Cardinality(Live')
      BY <2>2 DEF Counted
    <3>1. IsFiniteSet(send_sockets) /\ IsFiniteSet(Live)
      BY <2>1, ListFinite, LiveFinite
    <3>2. Cardinality(send_sockets \ {socket_it[t]})
            = Cardinality(send_sockets) - 1
      BY <1>2, <3>1, FS_RemoveElement
    <3>3. Cardinality(Live \ {t}) = Cardinality(Live) - 1
      BY <2>3, <3>1, FS_RemoveElement
    <3>4. Cardinality(send_sockets) = Cardinality(Live)
      BY <2>1 DEF IInv, Counted
    <3> QED BY <2>2, <2>3, <3>2, <3>3, <3>4
  <2>6. PicksNext'
    <3>1. calm => socket_it[t] = t
      BY <2>1 DEF IInv, OwnConnection
    <3>2. t \notin Created
      BY <2>1 DEF Serving, Created
    <3> QED BY <2>1, <2>2, <2>3, <3>1, <3>2 DEF IInv, PicksNext
  <2>7. ErasedByItsThread'
    <3>1. \A u \in Serving' : socket_it'[u] \in 1..accepted'
      BY <2>1, <2>2, <2>3 DEF IInv, ErasedByItsThread
    <3>2. ASSUME ~Cleared, NEW d \in (1..accepted') \ send_sockets'
          PROVE  \E u \in Connection : thread'[u] = "ended" /\ socket_it'[u] = d
      <4>1. thread'[t] = "ended"
        BY <2>1, <2>2 DEF TypeOK
      <4>2. CASE d = socket_it[t]
        BY <2>2, <4>1, <4>2
      <4>3. CASE d # socket_it[t]
        <5>1. PICK u \in Connection : thread[u] = "ended" /\ socket_it[u] = d
          BY <2>1, <2>2, <3>2, <4>3 DEF IInv, ErasedByItsThread
        <5> QED BY <2>1, <2>2, <4>1, <5>1 DEF TypeOK
      <4> QED BY <4>2, <4>3
    <3> QED BY <2>2, <3>1, <3>2 DEF ErasedByItsThread
  <2>8. SharesGiven'
    <3>1. /\ IsFiniteSet(send_sockets) /\ IsFiniteSet(send_sockets')
          /\ Cardinality(send_sockets') <= Cardinality(send_sockets)
      BY <2>1, <2>2, ListFinite, FS_Subset
    <3>2. Cardinality(send_sockets') \in Int /\ Cardinality(send_sockets) \in Int
      BY <3>1, FS_CardinalityType
    <3>3. parts \in Int
      BY <2>1 DEF TypeOK
    <3> QED BY <2>2, <2>10, <3>1, <3>2, <3>3 DEF IInv, SharesGiven
  <2>9. LastAlone'
    <3>1. SUFFICES ASSUME Cleared, NEW c \in send_sockets \ {socket_it[t]}
                   PROVE  /\ c = accepted /\ ~(startSend = "loop" /\ listening)
                          /\ \/ thread'[c] = "created"
                             \/ thread'[c] = "serving" /\ socket_it'[c] = c
      BY <2>2 DEF LastAlone
    <3>2. /\ c = accepted /\ ~(startSend = "loop" /\ listening)
          /\ thread[c] = "created" \/ (thread[c] = "serving" /\ socket_it[c] = c)
      BY <2>1, <3>1 DEF IInv, LastAlone
    <3>3. c # t
      BY <2>1, <3>1, <3>2 DEF Serving
    <3> QED BY <2>1, <2>2, <3>2, <3>3 DEF TypeOK
  <2> QED BY <2>4, <2>5, <2>6, <2>7, <2>8, <2>9 DEF IInv
<1> QED BY <1>1, <1>2

LEMMA SetMaxSpeedKeeps ==
  ASSUME IInv, NEW v \in Speeds, SetMaxSpeed(v), TypeOK' PROVE IInv'
<1> USE DEF main, threads, input, ends, history
<1>1. /\ TypeOK /\ Cleared' = Cleared
      /\ UNCHANGED <<process, accepted, listening, send_sockets, thread,
                     socket_it, ends, calm>>
  BY DEF IInv, SetMaxSpeed, Cleared
<1>2. UNCHANGED <<Serving, Created, Live>>
  BY <1>1 DEF Serving, Created, Live
<1>3. OwnConnection' /\ Counted' /\ PicksNext' /\ ErasedByItsThread'
  BY <1>1, <1>2 DEF IInv, OwnConnection, Counted, PicksNext, ErasedByItsThread
<1>6. LastAlone'
  BY <1>1 DEF IInv, LastAlone
<1>4. CASE Cardinality(send_sockets) > 1
  <2>1. /\ share' = Divided(max_speed', parts') /\ parts' = Cardinality(send_sockets)
        /\ input_it' = After(send_sockets, 0)
    BY <1>4 DEF SetMaxSpeed
  <2>2. send_sockets # {}
    BY <1>4, FS_EmptySet
  <2>3. \A c \in send_sockets : c \in Nat /\ c > 0
    BY <1>1, ListFinite, MaxConnectionsType DEF Connection
  <2>4. input_it' # None /\ \A c \in send_sockets : ~(c < input_it')
    <3> DEFINE first == After(send_sockets, 0)
    <3>1. /\ first = None => \A d \in send_sockets : d <= 0
          /\ first # None => first \in send_sockets
                            /\ \A d \in send_sockets : d < first => d <= 0
      BY <1>1, ListFinite, AfterFacts
    <3> HIDE DEF first
    <3>2. first # None /\ \A c \in send_sockets : ~(c < first)
      BY <2>2, <2>3, <3>1
    <3> QED BY <2>1, <3>2 DEF first
  <2>5. Cardinality(send_sockets') <= parts'
    BY <1>1, <2>1, ListFinite
  <2>6. SharesGiven'
    BY <1>1, <2>1, <2>4, <2>5 DEF SharesGiven
  <2> QED BY <1>3, <1>6, <2>6 DEF IInv
<1>5. CASE ~(Cardinality(send_sockets) > 1)
  <2>1. parts' = 0
    BY <1>5 DEF SetMaxSpeed
  <2>2. SharesGiven'
    BY <2>1 DEF SharesGiven
  <2> QED BY <1>3, <1>6, <2>2 DEF IInv
<1> QED BY <1>4, <1>5

LEMMA SetBWKeeps ==
  ASSUME IInv, SetBW, TypeOK' PROVE IInv'
<1> USE DEF main, threads, input, ends, history
<1>1. CASE input_it \notin send_sockets \/ ~usable[input_it]
  BY <1>1, GoneKeeps DEF SetBW, Undefined
<1>2. CASE input_it \in send_sockets /\ usable[input_it]
  <2>1. /\ TypeOK /\ process = "running"
        /\ bandwidth' = [bandwidth EXCEPT ![input_it] = share]
        /\ input_it' = After(send_sockets, input_it)
        /\ share' = IF input_it' = None THEN -1 ELSE share
        /\ UNCHANGED <<process, accepted, listening, send_sockets, max_speed,
                       thread, socket_it, ends, calm, parts>>
        /\ input_it # None /\ Cleared' = Cleared
    BY <1>2 DEF IInv, SetBW, Cleared
  <2>2. UNCHANGED <<Serving, Created, Live>>
    BY <2>1 DEF Serving, Created, Live
  <2>3. OwnConnection' /\ Counted' /\ PicksNext' /\ ErasedByItsThread'
    BY <2>1, <2>2 DEF IInv, OwnConnection, Counted, PicksNext, ErasedByItsThread
  <2>7. LastAlone'
    BY <2>1 DEF IInv, LastAlone
  <2>4. send_sockets \subseteq Connection /\ Connection \subseteq Nat
    BY <2>1, ListFinite, NoneIsNoConnection
  <2>5. ASSUME NEW c \in send_sockets, parts > 0,
               input_it' = None \/ c < input_it'
        PROVE  bandwidth'[c] = Divided(max_speed, parts)
    <3>1. c <= input_it
      <4> DEFINE next == After(send_sockets, input_it)
      <4>1. /\ next = None => \A d \in send_sockets : d <= input_it
            /\ next # None => \A d \in send_sockets : d < next => d <= input_it
        BY <1>2, <2>4, AfterFacts
      <4>2. next = None \/ c < next
        BY <2>1, <2>5
      <4> HIDE DEF next
      <4> QED BY <4>1, <4>2
    <3>2. CASE c = input_it
      <4>1. share = Divided(max_speed, parts)
        BY <2>1, <2>5 DEF IInv, SharesGiven
      <4> QED BY <2>1, <2>4, <3>2, <4>1 DEF TypeOK
    <3>3. CASE c # input_it
      <4>1. c < input_it
        BY <1>2, <2>4, <3>1, <3>3
      <4>2. bandwidth[c] = Divided(max_speed, parts)
        BY <2>1, <2>5, <4>1 DEF IInv, SharesGiven
      <4> QED BY <2>1, <2>4, <3>3, <4>2 DEF TypeOK
    <3> QED BY <3>2, <3>3
  <2>6. SharesGiven'
    BY <2>1, <2>5 DEF IInv, SharesGiven
  <2> QED BY <2>3, <2>6, <2>7 DEF IInv
<1> QED BY <1>1, <1>2

LEMMA IInvStep == IInv /\ [Next]_vars => IInv'
<1> SUFFICES ASSUME IInv, [Next]_vars PROVE IInv'
  OBVIOUS
<1> USE DEF main, threads, input, ends, history
<1>0. TypeOK'
  BY TypeOKStep DEF IInv
<1>1. CASE Listen
  BY <1>0, <1>1, AsideKeeps DEF Listen, send_finished, Cleared
<1>2. CASE Accept
  BY <1>2, AcceptKeeps
<1>3. ASSUME NEW t \in Connection, Pick(t) PROVE IInv'
  BY <1>0, <1>3, PickKeeps
<1>4. ASSUME NEW t \in Connection, Finish(t) PROVE IInv'
  BY <1>0, <1>4, FinishKeeps
<1>5. CASE StatusBegin
  BY <1>0, <1>5, AsideKeeps DEF StatusBegin, Cleared
<1>6. CASE StatusNext
  <2>1. CASE status_it \notin send_sockets
    BY <1>0, <1>6, <2>1, GoneKeeps DEF StatusNext, Undefined
  <2>2. CASE status_it \in send_sockets
    BY <1>0, <1>6, <2>2, AsideKeeps DEF StatusNext, Cleared
  <2> QED BY <2>1, <2>2
<1>7. ASSUME NEW v \in Speeds, SetMaxSpeed(v) PROVE IInv'
  BY <1>0, <1>7, SetMaxSpeedKeeps
<1>8. CASE SetBW
  BY <1>0, <1>8, SetBWKeeps
<1>9. CASE LeaveLoop
  BY <1>0, <1>9, AsideKeeps DEF LeaveLoop, Cleared
<1>10. CASE ClearAndReturn
  BY <1>0, <1>10, ClearKeeps DEF ClearAndReturn, ListCleared, Cleared
<1>11. ASSUME NEW c \in Connection, Break(c) PROVE IInv'
  BY <1>0, <1>11, AsideKeeps DEF Break, Cleared
<1>12. CASE StopCommand
  BY <1>0, <1>12, AsideKeeps DEF StopCommand, Cleared
<1>13. CASE ClearAndExit
  BY <1>0, <1>13, ClearKeeps DEF ClearAndExit, ListCleared, Cleared
<1>14. CASE Exit
  BY <1>14, GoneKeeps DEF Exit
<1>15. CASE UNCHANGED vars
  BY <1>0, <1>15, AsideKeeps DEF vars, Cleared
<1> QED BY <1>1, <1>2, <1>3, <1>4, <1>5, <1>6, <1>7, <1>8, <1>9, <1>10,
           <1>11, <1>12, <1>13, <1>14, <1>15 DEF Next

-----------------------------------------------------------------------------
(* The theorems.                                                           *)

(* The inductive invariant holds in every reachable state.                 *)
THEOREM Invariance == Spec => []IInv
BY InitIInv, IInvStep, PTL DEF Spec

(* Every variable of the program always has its type, and no more shares   *)
(* are counted than there can be connections.                              *)
THEOREM Typing == Spec => []TypeOK
<1>1. IInv => TypeOK
  BY DEF IInv
<1> QED BY <1>1, Invariance, PTL

(* While no accept overtakes a thread that must pick, each sendThread      *)
(* serves the connection that startSend created it for, however many       *)
(* others begin and end around it; and its element is in the list until    *)
(* the list is cleared at the end of the process.                          *)
THEOREM Ownership == Spec => []OwnConnection
<1>1. IInv => OwnConnection
  BY DEF IInv
<1> QED BY <1>1, Invariance, PTL

(* Whatever the order of accepts, starts and ends, a sendThread that comes *)
(* to take the last element of send_sockets finds the list not empty, as   *)
(* long as neither the command stop nor startSend has cleared it.          *)
THEOREM ThreadsFindSockets == Spec => []NeverEmpty
<1>1. ASSUME IInv PROVE NeverEmpty
  <2>1. SUFFICES ASSUME process = "running", ~Cleared, Created # {},
                        send_sockets = {}
                 PROVE  FALSE
    BY DEF NeverEmpty
  <2>2. Cardinality(Live) = 0
    BY <1>1, <2>1, FS_EmptySet DEF IInv, Counted
  <2>3. Live = {}
    BY <2>2, LiveFinite, FS_EmptySet
  <2> QED BY <2>1, <2>3 DEF Live
<1> QED BY <1>1, Invariance, PTL

(* A connection that no thread serves, when all threads have picked, is    *)
(* left out only because two threads took one element: without such twins  *)
(* the iterators are an injection of the serving threads into the list,    *)
(* and as both have one size it reaches every element.  What joins a list  *)
(* that was cleared is alone and has its thread.                           *)
THEOREM LeftOut == Spec => []LeftOutByTwins
<1>1. ASSUME IInv PROVE LeftOutByTwins
  <2>1. SUFFICES ASSUME process = "running", Created = {},
                        \A t \in Serving, u \in Connection :
                           u # t => socket_it[u] # socket_it[t]
                 PROVE  \A c \in send_sockets :
                          \E t \in Serving : socket_it[t] = c
    BY DEF LeftOutByTwins, Serving
  <2>2. CASE Cleared
    <3>1. SUFFICES ASSUME NEW c \in send_sockets
                   PROVE  \E t \in Serving : socket_it[t] = c
      OBVIOUS
    <3>2. c \in Connection
      BY <1>1, ListFinite DEF IInv
    <3>3. thread[c] = "created" \/ (thread[c] = "serving" /\ socket_it[c] = c)
      BY <1>1, <2>1, <2>2, <3>1 DEF IInv, LastAlone
    <3> QED BY <2>1, <3>2, <3>3 DEF Serving, Created
  <2>3. CASE ~Cleared
    <3> DEFINE serves == [t \in Serving |-> socket_it[t]]
    <3>1. \A t \in Serving : socket_it[t] \in send_sockets
      <4>1. SUFFICES ASSUME NEW t \in Serving, socket_it[t] \notin send_sockets
                     PROVE  FALSE
        OBVIOUS
      <4>2. socket_it[t] \in (1..accepted) \ send_sockets
        BY <1>1, <2>1, <4>1 DEF IInv, ErasedByItsThread
      <4>3. PICK u \in Connection :
                   thread[u] = "ended" /\ socket_it[u] = socket_it[t]
        BY <1>1, <2>1, <2>3, <4>2 DEF IInv, ErasedByItsThread
      <4>4. u # t
        BY <4>3 DEF Serving
      <4> QED BY <2>1, <4>3, <4>4
    <3>2. serves \in Injection(Serving, send_sockets)
      <4>1. serves \in [Serving -> send_sockets]
        BY <3>1
      <4>2. \A t, u \in Serving : serves[t] = serves[u] => t = u
        BY <2>1 DEF Serving
      <4> QED BY <4>1, <4>2 DEF Injection, IsInjective
    <3>3. IsFiniteSet(send_sockets)
      BY <1>1, ListFinite DEF IInv
    <3>4. Live = Serving
      BY <2>1 DEF Live
    <3>5. Cardinality(Serving) = Cardinality(send_sockets)
      BY <1>1, <2>1, <2>3, <3>4 DEF IInv, Counted
    <3>6. serves \in Surjection(Serving, send_sockets)
      <4> HIDE DEF serves
      <4> QED BY <3>2, <3>3, <3>5, FS_Injection
    <3> QED BY <3>6 DEF Surjection
  <2> QED BY <2>2, <2>3
<1> QED BY <1>1, Invariance, PTL

(* A share keeps to the limit.                                             *)
LEMMA ShareKeepsTo ==
  ASSUME NEW v \in Nat, NEW n \in Nat \ {0}, v >= n,
         NEW k \in Nat, k <= n
  PROVE  v \div n > 0 /\ (v \div n) * k <= v
<1> DEFINE q == v \div n
<1>1. q \in Nat /\ n * q <= v /\ v < n * q + n
  BY SMT
<1> HIDE DEF q
<1>2. q # 0
  BY <1>1
<1>3. q * k <= q * n
  BY <1>1, SMTT(30)
<1>4. q * k <= v
  BY <1>1, <1>3
<1> QED BY <1>1, <1>2, <1>4 DEF q

(* After the command max_speed has divided its speed among more than one   *)
(* socket, into shares of at least 1, all sockets together keep to the     *)
(* limit, whoever ends in the meantime, until the next connection joins.   *)
(* A connection that is alone when the command comes keeps its speed.      *)
THEOREM Limiting == Spec => []LimitKept
<1>1. ASSUME IInv PROVE LimitKept
  <2>1. SUFFICES ASSUME process = "running", input_it = None, parts > 0,
                        max_speed >= parts, NEW c \in send_sockets
                 PROVE  /\ bandwidth[c] > 0
                        /\ bandwidth[c] * Cardinality(send_sockets) <= max_speed
    BY DEF LimitKept
  <2>2. parts \in Nat \ {0} /\ max_speed \in Nat
    BY <1>1, <2>1, MaxConnectionsType DEF IInv, TypeOK
  <2>3. bandwidth[c] = max_speed \div parts
    BY <1>1, <2>1, <2>2 DEF IInv, SharesGiven, Divided
  <2>4. Cardinality(send_sockets) \in Nat /\ Cardinality(send_sockets) <= parts
    BY <1>1, <2>1, ListFinite DEF IInv, SharesGiven
  <2> QED BY <2>1, <2>2, <2>3, <2>4, ShareKeepsTo
<1> QED BY <1>1, Invariance, PTL

=============================================================================
