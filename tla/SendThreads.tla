----------------------------- MODULE SendThreads -----------------------------
(***************************************************************************)
(* The threads of a NetworkSender and the std::list of sockets that they   *)
(* share without a lock: startSend accepts connections and puts each at    *)
(* the back of send_sockets, a sendThread takes the last element for its   *)
(* own and erases it in the end, statusThread and setMaxSpeed walk the     *)
(* list, and whoever ends the process clears it first: the command stop,   *)
(* and startSend when it has left its loop.                                *)
(*                                                                         *)
(* Connections are numbered as they are accepted, so that the list is a    *)
(* set of numbers in ascending order; thread t is the one that was created *)
(* for connection t.  One operation of the list is one step.  Whoever uses *)
(* an iterator to an erased element leaves what C++ defines: the process   *)
(* is "undefined" from then on, and nothing is said about it any more.     *)
(***************************************************************************)
EXTENDS Integers, FiniteSets

CONSTANTS
  MaxConnections, \* bound on the number of connections
  Speeds,         \* the numbers that the command max_speed may carry
  FirstSpeed,     \* max_speed on the command line
  HolePoke,       \* listen_port = 0: a listening socket per connection
  None

Connection == 1..MaxConnections

ASSUME MaxConnectionsType == MaxConnections \in Nat
ASSUME SpeedsType == Speeds \subseteq Int /\ FirstSpeed \in Int
ASSUME HolePokeType == HolePoke \in BOOLEAN
ASSUME NoneApart == None \notin Int

VARIABLES
  process,      \* "running", "over" (exit), "undefined" or "segv"
  accepted,     \* how many connections were accepted
  send_sockets, \* the numbers in the list
  max_speed,
  listening,    \* startSend waits in accept
  listen_speed, \* UDT_MAXBW of the listening socket; None if there is none
  thread,       \* where each sendThread is
  socket_it,    \* its iterator
  usable,       \* UDT still knows the connection's socket; TRUE outside the list
  bandwidth,    \* what its congestion control has for BW; -1 outside the list
  status_it,    \* the iterator of statusThread; None while it sleeps
  input_it,     \* the iterator of setMaxSpeed; None outside
  share,        \* its speed; -1 outside
  calm,         \* history: no accept came before the last thread had picked
  startSend,    \* in its "loop", "sleeping" a second, or "returning"
  inputThread,  \* "reading" commands, "stopping", or "exiting"
  parts         \* history: into how many shares max_speed was divided last;
                \* 0 if it was not, or a connection has joined since

main == <<accepted, listening, listen_speed>>
threads == <<thread, socket_it>>
input == <<input_it, share>>
history == <<calm, parts>>
ends == <<startSend, inputThread>>
vars == <<process, main, send_sockets, max_speed, threads, usable, bandwidth,
          status_it, input, ends, history>>

(* What the loops of all threads look at. *)
send_finished == startSend # "loop" \/ inputThread # "reading"

(* The list was cleared: by startSend, or by the command stop. *)
Cleared == startSend = "returning" \/ inputThread = "exiting"

Init ==
  /\ process = "running"
  /\ accepted = 0 /\ send_sockets = {}
  /\ max_speed = FirstSpeed
  /\ listening = FALSE /\ listen_speed = None
  /\ thread = [t \in Connection |-> "none"]
  /\ socket_it = [t \in Connection |-> None]
  /\ usable = [c \in Connection |-> TRUE]
  /\ bandwidth = [c \in Connection |-> -1]
  /\ status_it = None /\ input_it = None /\ share = -1
  /\ startSend = "loop" /\ inputThread = "reading"
  /\ calm = TRUE /\ parts = 0

(* Nothing is kept of a process that has ended, or whose memory is not     *)
(* defined any more.                                                       *)
Gone(how) ==
  /\ process' = how
  /\ accepted' = 0 /\ send_sockets' = {}
  /\ max_speed' = FirstSpeed
  /\ listening' = FALSE /\ listen_speed' = None
  /\ thread' = [t \in Connection |-> "none"]
  /\ socket_it' = [t \in Connection |-> None]
  /\ usable' = [c \in Connection |-> TRUE]
  /\ bandwidth' = [c \in Connection |-> -1]
  /\ status_it' = None /\ input_it' = None /\ share' = -1
  /\ startSend' = "loop" /\ inputThread' = "reading"
  /\ calm' = TRUE /\ parts' = 0

-----------------------------------------------------------------------------
(* The list. *)

Back(list) == CHOOSE c \in list : \A d \in list : d <= c

(* The element behind c; c = 0 stands for the place before the first one. *)
After(list, c) ==
  IF \E d \in list : d > c
    THEN CHOOSE d \in list : d > c /\ \A e \in list : e > c => d <= e
    ELSE None

(* An iterator to an erased element was used. *)
Undefined == Gone("undefined")

(* send_sockets.clear(): the elements go, and with them what anyone could  *)
(* look at of their connections.                                           *)
ListCleared ==
  /\ send_sockets' = {}
  /\ usable' = [c \in Connection |-> TRUE]
  /\ bandwidth' = [c \in Connection |-> -1]

(* A speed that is not positive means no limit. *)
Divided(speed, n) == IF speed > 0 THEN speed \div n ELSE -1

-----------------------------------------------------------------------------
(* startSend                                                               *)

(* A new listening socket gets its speed; with a port there is only one.   *)
(* Hole punching that fails is tried again, with another socket.           *)
Listen ==
  /\ process = "running" /\ startSend = "loop" /\ ~send_finished
  /\ HolePoke \/ ~listening
  /\ listening' = TRUE
  /\ listen_speed' =
       IF HolePoke \/ listen_speed = None
         THEN Divided(max_speed, Cardinality(send_sockets) + 1)
         ELSE listen_speed
  /\ UNCHANGED <<process, accepted, send_sockets, max_speed, threads, usable,
                 bandwidth, status_it, input, ends, history>>

(* A speed of 0 is not set, and the default is -1.  After hole punching    *)
(* the listening socket is not used again.  One accept may still come      *)
(* when the process is being stopped, and even when the list is cleared.   *)
Accept ==
  LET c == accepted + 1 IN
  /\ process = "running" /\ startSend = "loop"
  /\ listening /\ accepted < MaxConnections
  /\ accepted' = c
  /\ send_sockets' = send_sockets \cup {c}
  /\ bandwidth' =
       [bandwidth EXCEPT ![c] = IF listen_speed > 0 THEN listen_speed ELSE -1]
  /\ thread' = [thread EXCEPT ![c] = "created"]
  /\ listening' = FALSE
  /\ listen_speed' = IF HolePoke THEN None ELSE listen_speed
  /\ calm' = (calm /\ \A t \in Connection : thread[t] # "created")
  /\ parts' = 0
  /\ UNCHANGED <<process, max_speed, socket_it, usable, status_it, input,
                 ends>>

(* The loop ends when it sees send_finished, which hole punching gives     *)
(* another chance each time it fails; and for want of the daemon's address.*)
LeaveLoop ==
  /\ process = "running" /\ startSend = "loop"
  /\ HolePoke \/ (send_finished /\ ~listening)
  /\ startSend' = "sleeping"
  /\ UNCHANGED <<process, main, send_sockets, max_speed, threads, usable,
                 bandwidth, status_it, input, inputThread, history>>

(* A second later, whoever is still at work: send_sockets.clear().         *)
ClearAndReturn ==
  /\ process = "running" /\ startSend = "sleeping"
  /\ startSend' = "returning"
  /\ ListCleared
  /\ UNCHANGED <<process, main, max_speed, threads, status_it, input,
                 inputThread, history>>

-----------------------------------------------------------------------------
(* sendThread                                                              *)

(* A slip: the thread takes the first element. *)
PickFront(t) ==
  /\ process = "running" /\ thread[t] = "created"
  /\ IF send_sockets = {}
       THEN Undefined
       ELSE /\ socket_it' = [socket_it EXCEPT ![t] = After(send_sockets, 0)]
            /\ thread' = [thread EXCEPT ![t] = "serving"]
            /\ UNCHANGED <<process, main, send_sockets, max_speed, usable,
                           bandwidth, status_it, input, ends, history>>

(* The last element, whichever connection that is by now. *)
Pick(t) ==
  /\ process = "running" /\ thread[t] = "created"
  /\ IF send_sockets = {}
       THEN Undefined
       ELSE /\ socket_it' = [socket_it EXCEPT ![t] = Back(send_sockets)]
            /\ thread' = [thread EXCEPT ![t] = "serving"]
            /\ UNCHANGED <<process, main, send_sockets, max_speed, usable,
                           bandwidth, status_it, input, ends, history>>

(* Slips: the thread also erases what has broken; it erases nothing. *)
FinishSweeping(t) ==
  /\ process = "running" /\ thread[t] = "serving"
  /\ IF socket_it[t] \notin send_sockets
       THEN Undefined
       ELSE /\ send_sockets' =
                 {c \in send_sockets : c # socket_it[t] /\ usable[c]}
            /\ thread' = [thread EXCEPT ![t] = "ended"]
            /\ UNCHANGED <<process, main, max_speed, socket_it, usable,
                           bandwidth, status_it, input, ends, history>>

FinishKeeping(t) ==
  /\ process = "running" /\ thread[t] = "serving"
  /\ thread' = [thread EXCEPT ![t] = "ended"]
  /\ UNCHANGED <<process, main, send_sockets, max_speed, socket_it, usable,
                 bandwidth, status_it, input, ends, history>>

(* Everything is sent, or a call has failed.  The element is read for the  *)
(* output, as it was for the start time, and erased.  Nobody looks at what *)
(* UDT has for its connection any more, and nothing is kept of that.       *)
Finish(t) ==
  /\ process = "running" /\ thread[t] = "serving"
  /\ IF socket_it[t] \notin send_sockets
       THEN Undefined
       ELSE /\ send_sockets' = send_sockets \ {socket_it[t]}
            /\ thread' = [thread EXCEPT ![t] = "ended"]
            /\ usable' = [usable EXCEPT ![socket_it[t]] = TRUE]
            /\ bandwidth' = [bandwidth EXCEPT ![socket_it[t]] = -1]
            /\ UNCHANGED <<process, main, max_speed, socket_it, status_it,
                           input, ends, history>>

-----------------------------------------------------------------------------
(* statusThread: once a second, element by element.                        *)

StatusBegin ==
  /\ process = "running" /\ ~send_finished
  /\ status_it = None /\ send_sockets # {}
  /\ status_it' = After(send_sockets, 0)
  /\ UNCHANGED <<process, main, send_sockets, max_speed, threads, usable,
                 bandwidth, input, ends, history>>

StatusNext ==
  /\ process = "running" /\ status_it # None
  /\ IF status_it \notin send_sockets
       THEN Undefined
       ELSE /\ status_it' = After(send_sockets, status_it)
            /\ UNCHANGED <<process, main, send_sockets, max_speed, threads,
                           usable, bandwidth, input, ends, history>>

-----------------------------------------------------------------------------
(* inputThread                                                             *)

(* Slips: every socket gets the whole of the new speed; a speed that means *)
(* no limit is divided.                                                    *)
SetMaxSpeedWhole(v) ==
  /\ process = "running" /\ inputThread = "reading" /\ input_it = None
  /\ max_speed' = v
  /\ IF Cardinality(send_sockets) > 1
       THEN /\ share' = Divided(v, 1)
            /\ input_it' = After(send_sockets, 0)
            /\ parts' = Cardinality(send_sockets)
       ELSE /\ parts' = 0
            /\ UNCHANGED input
  /\ UNCHANGED <<process, main, send_sockets, threads, usable, bandwidth,
                 status_it, ends, calm>>

SetMaxSpeedUnchecked(v) ==
  /\ process = "running" /\ inputThread = "reading" /\ input_it = None
  /\ max_speed' = v
  /\ IF Cardinality(send_sockets) > 1
       THEN /\ share' = v \div Cardinality(send_sockets)
            /\ input_it' = After(send_sockets, 0)
            /\ parts' = Cardinality(send_sockets)
       ELSE /\ parts' = 0
            /\ UNCHANGED input
  /\ UNCHANGED <<process, main, send_sockets, threads, usable, bandwidth,
                 status_it, ends, calm>>

(* One socket alone keeps what it has.  A command that the thread waits    *)
(* for when startSend has left its loop is carried out all the same.       *)
SetMaxSpeed(v) ==
  /\ process = "running" /\ inputThread = "reading" /\ input_it = None
  /\ max_speed' = v
  /\ IF Cardinality(send_sockets) > 1
       THEN /\ share' = Divided(v, Cardinality(send_sockets))
            /\ input_it' = After(send_sockets, 0)
            /\ parts' = Cardinality(send_sockets)
       ELSE /\ parts' = 0
            /\ UNCHANGED input
  /\ UNCHANGED <<process, main, send_sockets, threads, usable, bandwidth,
                 status_it, ends, calm>>

(* getsockopt gives no handle of a socket that UDT has closed, and the     *)
(* handle is used all the same.                                            *)
SetBW ==
  /\ process = "running" /\ input_it # None
  /\ IF input_it \notin send_sockets THEN Undefined
     ELSE IF usable[input_it]
       THEN /\ bandwidth' = [bandwidth EXCEPT ![input_it] = share]
            /\ input_it' = After(send_sockets, input_it)
            /\ share' = IF input_it' = None THEN -1 ELSE share
            /\ UNCHANGED <<process, main, send_sockets, max_speed, threads,
                           usable, status_it, ends, history>>
       ELSE Gone("segv")

(* The command stop: first the flag, then the list, then exit, while all   *)
(* other threads go on.                                                    *)
StopCommand ==
  /\ process = "running" /\ inputThread = "reading" /\ input_it = None
  /\ inputThread' = "stopping"
  /\ UNCHANGED <<process, main, send_sockets, max_speed, threads, usable,
                 bandwidth, status_it, input, startSend, history>>

ClearAndExit ==
  /\ process = "running" /\ inputThread = "stopping"
  /\ inputThread' = "exiting"
  /\ ListCleared
  /\ UNCHANGED <<process, main, max_speed, threads, status_it, input,
                 startSend, history>>

(* exit of the command stop, the end of startSend, or its return 1 where a *)
(* call of its loop fails.                                                 *)
Exit ==
  /\ process = "running"
  /\ inputThread = "exiting" \/ startSend \in {"loop", "returning"}
  /\ Gone("over")

-----------------------------------------------------------------------------

(* UDT: a connection breaks, and checkBrokenSockets closes its socket. *)
Break(c) ==
  /\ process = "running" /\ c \in send_sockets /\ usable[c]
  /\ usable' = [usable EXCEPT ![c] = FALSE]
  /\ UNCHANGED <<process, main, send_sockets, max_speed, threads, bandwidth,
                 status_it, input, ends, history>>

Next ==
  \/ Listen \/ Accept \/ LeaveLoop \/ ClearAndReturn
  \/ \E t \in Connection : Pick(t) \/ Finish(t)
  \/ StatusBegin \/ StatusNext
  \/ \E v \in Speeds : SetMaxSpeed(v)
  \/ SetBW \/ StopCommand \/ ClearAndExit \/ Exit
  \/ \E c \in Connection : Break(c)

Spec == Init /\ [][Next]_vars

-----------------------------------------------------------------------------
(* Properties.                                                             *)

Serving == {t \in Connection : thread[t] = "serving"}
Created == {t \in Connection : thread[t] = "created"}

(* Every variable has its type, and a bandwidth is -1 or a share.          *)
TypeOK ==
  /\ process \in {"running", "over", "undefined", "segv"}
  /\ accepted \in 0..MaxConnections
  /\ send_sockets \subseteq 1..accepted
  /\ max_speed \in Int
  /\ listening \in BOOLEAN
  /\ listen_speed \in Nat \cup {-1, None}
  /\ listening => listen_speed # None
  /\ thread \in [Connection -> {"none", "created", "serving", "ended"}]
  /\ \A t \in Connection : thread[t] = "none" <=> t > accepted
  /\ socket_it \in [Connection -> Connection \cup {None}]
  /\ usable \in [Connection -> BOOLEAN]
  /\ bandwidth \in [Connection -> Nat \cup {-1}]
  /\ status_it \in Connection \cup {None}
  /\ input_it \in Connection \cup {None}
  /\ share \in Nat \cup {-1}
  /\ startSend \in {"loop", "sleeping", "returning"}
  /\ inputThread \in {"reading", "stopping", "exiting"}
  /\ calm \in BOOLEAN
  /\ parts \in 0..MaxConnections

(* As long as every sendThread has picked its element before the next      *)
(* connection is accepted, every thread serves the connection it was       *)
(* created for, whatever other threads erase meanwhile; and no thread uses *)
(* or erases what is not in the list, unless the end of the process has    *)
(* cleared it: that takes every thread's element from under it.            *)
OwnConnection ==
  process = "running" /\ calm =>
    \A t \in Serving : socket_it[t] = t /\ (Cleared \/ t \in send_sockets)

(* Even if accepts come faster than threads pick, a thread that picks      *)
(* finds an element: end() has one before it, until the end of the process *)
(* clears the list.                                                        *)
NeverEmpty ==
  process = "running" /\ ~Cleared /\ Created # {} => send_sockets # {}

(* A connection that is served by no thread is the counterpart of one that *)
(* two were sent to serve: it is never left out for another reason, and    *)
(* one that was accepted when the list had been cleared is not left out.   *)
LeftOutByTwins ==
  process = "running" /\ Created = {} =>
    \A c \in send_sockets :
      \/ \E t \in Serving : socket_it[t] = c
      \/ \E t, u \in Connection :
           t \in Serving /\ u # t /\ socket_it[u] = socket_it[t]

(* When setMaxSpeed has divided a speed among the sockets, and none has    *)
(* joined since, all together keep to it; unless there are more sockets    *)
(* than units of speed, when the share of 0 means no limit.                *)
LimitKept ==
  process = "running" /\ input_it = None /\ parts > 0 /\ max_speed >= parts =>
    \A c \in send_sockets :
      /\ bandwidth[c] > 0
      /\ bandwidth[c] * Cardinality(send_sockets) <= max_speed

-----------------------------------------------------------------------------
(* What makes the properties inductive.                                    *)

Live == Serving \cup Created

(* Every thread that has not ended will erase one element. *)
Counted ==
  process = "running" /\ ~Cleared =>
    Cardinality(send_sockets) = Cardinality(Live)

(* A list that was cleared gets one connection more at most, the last, and *)
(* that one has its thread.                                                *)
LastAlone ==
  process = "running" /\ Cleared =>
    \A c \in send_sockets :
      /\ c = accepted /\ ~(startSend = "loop" /\ listening)
      /\ thread[c] = "created" \/ (thread[c] = "serving" /\ socket_it[c] = c)

(* While it is calm, only the last connection has a thread that must pick. *)
PicksNext ==
  process = "running" /\ calm =>
    \A t \in Created : t = accepted /\ (Cleared \/ t \in send_sockets)

(* What is gone was erased by a thread that had picked it, or all is gone. *)
ErasedByItsThread ==
  process = "running" =>
    /\ \A t \in Serving : socket_it[t] \in 1..accepted
    /\ ~Cleared =>
         \A c \in (1..accepted) \ send_sockets :
           \E u \in Connection : thread[u] = "ended" /\ socket_it[u] = c

(* The walk of setMaxSpeed has given the new share to what is behind it. *)
SharesGiven ==
  process = "running" /\ parts > 0 =>
    /\ input_it # None => share = Divided(max_speed, parts)
    /\ Cardinality(send_sockets) <= parts
    /\ \A c \in send_sockets :
         input_it = None \/ c < input_it =>
           bandwidth[c] = Divided(max_speed, parts)

IInv ==
  /\ TypeOK /\ OwnConnection
  /\ Counted /\ LastAlone /\ PicksNext /\ ErasedByItsThread /\ SharesGiven

=============================================================================
