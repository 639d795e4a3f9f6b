--------------------------- MODULE HolepokeProofs ---------------------------
(***************************************************************************)
(* Theorems about Holepoke, for any number of senders, receivers, ids and  *)
(* addresses, with or without failing sends.                               *)
(*                                                                         *)
(* The safety properties follow from IInv.  Its proof rests on two facts:  *)
(* an introduction, once made, stands (PartnersStay), and every step adds  *)
(* at most a few datagrams, each of them honest.                           *)
(***************************************************************************)
EXTENDS Holepoke, TLAPS

-----------------------------------------------------------------------------
(* The tables.                                                             *)

(* Sender::Sender's table leads to sender states, or ends the machine. *)
LEMMA SenderFollowing ==
  ASSUME NEW state, NEW event
  PROVE  Following(SenderTable, state, event) \subseteq SenderStates \cup Ends
BY DEF Following, SenderTable, AttemptTable, SenderStates, Ends, Stop,
       NoTransition, Aborted, Connecting, Remotes

(* The same for Receiver::Receiver's table. *)
LEMMA ReceiverFollowing ==
  ASSUME NEW state, NEW event
  PROVE  Following(ReceiverTable, state, event) \subseteq ReceiverStates \cup Ends
BY DEF Following, ReceiverTable, AttemptTable, ReceiverStates, Ends, Stop,
       NoTransition, Aborted, Connecting, Remotes

(* Looking up an event leaves every machine in a state of its own table. *)
LEMMA ReturnType ==
  ASSUME TypeOK, NEW e \in Endpoint, NEW event, Return(e, event)
  PROVE  /\ st' \in [Endpoint -> SenderStates \cup ReceiverStates
                                   \cup {"idle"} \cup Ends]
         /\ \A s \in Sender : st'[s] \in SenderStates \cup Ends
         /\ \A r \in Receiver : st'[r] \in ReceiverStates \cup {"idle"} \cup Ends
         /\ blocked' \in [Endpoint -> BOOLEAN]
<1>1. PICK state \in Following(Table(e), st[e], event) :
        st' = [st EXCEPT ![e] = state]
  BY DEF Return
<1>2. e \in Sender => state \in SenderStates \cup Ends
  BY SenderFollowing DEF Table
<1>3. e \notin Sender => state \in ReceiverStates \cup Ends
  BY ReceiverFollowing DEF Table
<1>4. e \in Receiver => e \notin Sender
  BY KindsDisjoint
<1>5. blocked' \in [Endpoint -> BOOLEAN]
  BY DEF Return, TypeOK
<1> QED BY <1>1, <1>2, <1>3, <1>4, <1>5 DEF TypeOK, Endpoint

(* A state is entered only through Return, or by failing. *)
LEMMA BlockType ==
  ASSUME TypeOK, NEW e \in Endpoint, NEW state, Block(e, state)
  PROVE  UNCHANGED st /\ blocked' \in [Endpoint -> BOOLEAN]
BY DEF TypeOK, Block

(* Every address of an endpoint is an address, and none of them is None. *)
LEMMA AddressTypes ==
  /\ \A e \in Endpoint : Local[e] \in Addr /\ Public[e] \subseteq Addr
  /\ \A e \in Endpoint : AddrsOf(e) \subseteq Addr
  /\ None \notin Addr /\ None \notin ID
BY NoneApart DEF Addr, AddrsOf

(* Whatever its destination, a datagram shows an address of its sender. *)
LEMMA SourceIsOwn ==
  ASSUME NEW e \in Endpoint, NEW to
  PROVE  Source(e, to) \subseteq AddrsOf(e)
BY DEF Source, AddrsOf

(* The initial state is well typed. *)
LEMMA InitTypeOK == Init => TypeOK
<1>1. NoAddress \in AddressPair
  BY DEF NoAddress, AddressPair
<1>2. \A r \in Receiver : r \notin Sender
  BY KindsDisjoint
<1> QED BY <1>1, <1>2 DEF Init, TypeOK, Endpoint, SenderStates

LEMMA SendToServerType ==
  ASSUME TypeOK, NEW e \in Endpoint,
         NEW type \in {"REGISTER", "HEARTBEAT", "CONNECT"},
         NEW id \in ID \cup {BogusID, None}, SendToServer(e, type, id)
  PROVE  requests' \subseteq Request
BY AddressTypes DEF TypeOK, SendToServer, Request

(* A step of a sender's own routines keeps the types. *)
LEMMA SenderStepType ==
  ASSUME TypeOK, NEW s \in Sender, SenderStep(s)
  PROVE  TypeOK'
<1>0. s \in Endpoint
  BY DEF Endpoint
<1>1. CASE AskServerToAssignID(s)
  <2>1. requests' \subseteq Request
    BY <1>0, <1>1, SendToServerType DEF AskServerToAssignID
  <2> QED BY <1>0, <1>1, <2>1, BlockType
          DEF AskServerToAssignID, SendToServer, TypeOK, own, server
<1>2. CASE UpdateAddress(s)
  <2>1. requests' \subseteq Request
    BY <1>0, <1>2, SendToServerType DEF UpdateAddress, TypeOK
  <2> QED BY <1>0, <1>2, <2>1, BlockType
          DEF UpdateAddress, SendToServer, TypeOK, own, server
<1>3. CASE WaitForPeerAddress(s)
  BY <1>0, <1>3, BlockType DEF WaitForPeerAddress, TypeOK, own, net, server
<1>4. CASE GotID(s)
  <2>1. PICK m \in Arrived(s, "REGISTER") :
          /\ identifier' = [identifier EXCEPT ![s] = m.id]
          /\ announced' = announced \cup {m.id}
    BY <1>4 DEF GotID
  <2> QED BY <1>0, <1>4, <2>1, ReturnType
          DEF GotID, TypeOK, Arrived, Response, net, server
<1>5. CASE GotHeartbeatResponse(s)
  BY <1>0, <1>5, ReturnType DEF GotHeartbeatResponse, TypeOK, own, net, server
<1> QED BY <1>1, <1>2, <1>3, <1>4, <1>5 DEF SenderStep

LEMMA SendHelloType ==
  ASSUME TypeOK, NEW e \in Endpoint, SendHello(e)
  PROVE  hellos' \subseteq Hello
<1>1. Target(e) \in Addr \cup {None}
  BY DEF Target, TypeOK, AddressPair
<1>2. PICK a \in Source(e, Target(e)) :
        hellos' = hellos \cup {[from |-> a, to |-> Target(e)]}
  BY DEF SendHello
<1>3. a \in Addr
  BY <1>2, SourceIsOwn, AddressTypes
<1> QED BY <1>1, <1>2, <1>3 DEF TypeOK, Hello

(* A step that senders and receivers have in common keeps the types. *)
LEMMA EndpointStepType ==
  ASSUME TypeOK, NEW e \in Endpoint, EndpointStep(e) \/ SendFails(e)
  PROVE  TypeOK'
<1>1. CASE ConnectToPeer(e)
  <2>1. PICK state \in Connecting : Block(e, state)
    BY <1>1 DEF ConnectToPeer
  <2>2. UNCHANGED st /\ blocked' \in [Endpoint -> BOOLEAN]
    BY <2>1, BlockType
  <2> QED BY <1>1, <2>2, SendHelloType DEF ConnectToPeer, TypeOK, own, server
<1>2. CASE GotPeerAddress(e)
  <2>1. PICK m \in Arrived(e, "CONNECT") :
          IF m.address = NoAddress
            THEN /\ peer' = [peer EXCEPT ![e] = [hole |-> None, local |-> @.local]]
                 /\ Return(e, "timeout")
            ELSE /\ peer' = [peer EXCEPT ![e] = m.address]
                 /\ Return(e, "gotPeerAddress")
    BY <1>2 DEF GotPeerAddress
  <2>2. m.address \in AddressPair
    BY <2>1 DEF Arrived, TypeOK, Response
  <2>3. peer' \in [Endpoint -> AddressPair]
    BY <2>1, <2>2 DEF TypeOK, AddressPair
  <2> QED BY <1>2, <2>1, <2>3, ReturnType DEF GotPeerAddress, TypeOK, net, server
<1>3. CASE GotPeerResponse(e)
  <2>1. hellos' \subseteq Hello
    BY <1>3, SendHelloType DEF GotPeerResponse, TypeOK
  <2>2. link' \in [Endpoint -> {"none", "local", "remote"}]
    BY <1>3 DEF GotPeerResponse, TypeOK
  <2> QED BY <1>3, <2>1, <2>2, ReturnType DEF GotPeerResponse, TypeOK, server
<1>4. CASE Timeout(e)
  BY <1>4, ReturnType DEF Timeout, TypeOK, own, net, server
<1>5. CASE StopMachine(e)
  BY <1>5, ReturnType DEF StopMachine, TypeOK, own, net, server
<1>6. CASE SendFails(e)
  BY <1>6 DEF SendFails, TypeOK, own, net, server, Ends
<1> QED BY <1>1, <1>2, <1>3, <1>4, <1>5, <1>6 DEF EndpointStep

(* What the server writes down and what it sends is well typed. *)
LEMMA AnswerType ==
  ASSUME NEW to \in Addr, NEW type \in {"REGISTER", "HEARTBEAT", "CONNECT"},
         NEW id \in ID \cup {None}, NEW address \in AddressPair,
         NEW successful \in BOOLEAN, type = "REGISTER" => id \in ID
  PROVE  Answer(to, type, id, address, successful) \in Response
BY DEF Answer, Response

LEMMA AddressInType ==
  ASSUME NEW m \in Request
  PROVE  AddressIn(m) \in AddressPair /\ m.from \in Addr
BY DEF AddressIn, AddressPair, Request

(* What holepoked sends when it is asked for m.id: all of it leaves, or    *)
(* what is for the sender does not.                                        *)
News(m) ==
  {Answer(to, "CONNECT", None, AddressIn(m), TRUE) :
     to \in {Lookup(m.id).hole} \ {None}}

Connects(m) ==
  /\ m.type = "CONNECT"
  /\ responses \subseteq responses' /\ unsent \subseteq unsent'
  /\ responses' \subseteq responses \cup News(m)
       \cup {Answer(m.from, "CONNECT", None, Lookup(m.id), TRUE)}
  /\ unsent' \subseteq unsent \cup News(m)
  /\ News(m) \subseteq responses' \cup unsent'

LEMMA ConnectTells ==
  ASSUME Connect
  PROVE  \E m \in requests : Connects(m)
<1>1. PICK m \in requests :
        /\ m.type = "CONNECT"
        /\ \E failed \in SUBSET News(m) :
             /\ unsent' = unsent \cup failed
             /\ responses' = responses \cup (News(m) \ failed)
                  \cup {Answer(m.from, "CONNECT", None, Lookup(m.id), TRUE)}
  BY DEF Connect, News
<1>2. PICK failed \in SUBSET News(m) :
        /\ unsent' = unsent \cup failed
        /\ responses' = responses \cup (News(m) \ failed)
             \cup {Answer(m.from, "CONNECT", None, Lookup(m.id), TRUE)}
  BY <1>1
<1>3. Connects(m)
  BY <1>1, <1>2 DEF Connects
<1> QED BY <1>3

LEMMA ServerStepType ==
  ASSUME TypeOK, ServerStep \/ Restart
  PROVE  TypeOK'
<1>0. NoAddress \in AddressPair
  BY DEF NoAddress, AddressPair
<1>1. CASE Register
  <2>1. PICK m \in requests, id \in ID :
          /\ issuedTo' = [issuedTo EXCEPT ![id] = m.from]
          /\ idToAddressMap' = [idToAddressMap EXCEPT ![id] = AddressIn(m)]
          /\ responses' =
               responses \cup {Answer(m.from, "REGISTER", id, NoAddress, TRUE)}
    BY <1>1 DEF Register
  <2>2. AddressIn(m) \in AddressPair /\ m.from \in Addr
    BY AddressInType DEF TypeOK
  <2>3. responses' \subseteq Response
    BY <1>0, <2>1, <2>2, AnswerType DEF TypeOK
  <2> QED BY <1>1, <2>1, <2>2, <2>3 DEF Register, TypeOK, fsm, own
<1>2. CASE Heartbeat
  <2>1. PICK m \in requests :
          LET known == idToAddressMap[m.id] # NoAddress IN
          /\ idToAddressMap' = IF known
               THEN [idToAddressMap EXCEPT ![m.id] = AddressIn(m)]
               ELSE idToAddressMap
          /\ responses' =
               responses \cup
                 {Answer(m.from, "HEARTBEAT", None, NoAddress, known)}
    BY <1>2 DEF Heartbeat
  <2>2. AddressIn(m) \in AddressPair /\ m.from \in Addr
    BY AddressInType DEF TypeOK
  <2>3. responses' \subseteq Response
    <3> DEFINE known == idToAddressMap[m.id] # NoAddress
    <3>1. Answer(m.from, "HEARTBEAT", None, NoAddress, known) \in Response
      <4>1. known \in BOOLEAN
        OBVIOUS
      <4> HIDE DEF known
      <4> QED BY <1>0, <2>2, <4>1, AnswerType
    <3>2. responses' =
            responses \cup {Answer(m.from, "HEARTBEAT", None, NoAddress, known)}
      BY <2>1
    <3> HIDE DEF known
    <3> QED BY <3>1, <3>2 DEF TypeOK
  <2>4. idToAddressMap' \in [ID -> AddressPair]
    <3>1. \/ idToAddressMap' = idToAddressMap
          \/ idToAddressMap' = [idToAddressMap EXCEPT ![m.id] = AddressIn(m)]
      BY <2>1
    <3> QED BY <2>2, <3>1 DEF TypeOK
  <2> QED BY <1>2, <2>3, <2>4 DEF Heartbeat, TypeOK, fsm, own
<1>3. CASE Connect
  <2>1. PICK m \in requests : Connects(m)
    BY <1>3, ConnectTells
  <2>2. AddressIn(m) \in AddressPair /\ m.from \in Addr
    BY AddressInType DEF TypeOK
  <2>3. Lookup(m.id) \in AddressPair
    BY <1>0 DEF Lookup, TypeOK
  <2>4. Lookup(m.id).hole \in Addr \cup {None}
    BY <2>3 DEF AddressPair
  <2>5. Answer(m.from, "CONNECT", None, Lookup(m.id), TRUE) \in Response
    BY <2>2, <2>3, AnswerType
  <2>6. \A to \in {Lookup(m.id).hole} \ {None} :
          Answer(to, "CONNECT", None, AddressIn(m), TRUE) \in Response
    BY <2>2, <2>4, AnswerType
  <2>7. News(m) \subseteq Response
    BY <2>6 DEF News
  <2>8. responses' \subseteq Response /\ unsent' \subseteq Response
    BY <2>1, <2>5, <2>7 DEF Connects, TypeOK
  <2> QED BY <1>3, <2>8 DEF Connect, TypeOK, fsm, own
<1>4. CASE Restart
  BY <1>0, <1>4 DEF Restart, TypeOK, fsm, own, net
<1> QED BY <1>1, <1>2, <1>3, <1>4 DEF ServerStep

LEMMA ReceiverStepType ==
  ASSUME TypeOK, NEW r \in Receiver, LookupAddressForID(r) \/ ConnectToSender(r)
  PROVE  TypeOK'
<1>0. r \in Endpoint
  BY DEF Endpoint
<1>1. CASE LookupAddressForID(r)
  <2>1. requests' \subseteq Request
    BY <1>0, <1>1, SendToServerType DEF LookupAddressForID, TypeOK
  <2> QED BY <1>0, <1>1, <2>1, BlockType
          DEF LookupAddressForID, SendToServer, TypeOK, own, server
<1>2. CASE ConnectToSender(r)
  <2>1. r \notin Sender
    BY KindsDisjoint
  <2>2. "lookupAddressForID" \in ReceiverStates
    BY DEF ReceiverStates
  <2> QED BY <1>0, <1>2, <2>1, <2>2 DEF ConnectToSender, TypeOK, net, server
<1> QED BY <1>1, <1>2

(* Every step keeps the types. *)
LEMMA TypeOKStep == TypeOK /\ [Next]_vars => TypeOK'
<1> SUFFICES ASSUME TypeOK, [Next]_vars PROVE TypeOK'
  OBVIOUS
<1>1. CASE UNCHANGED vars
  BY <1>1 DEF vars, fsm, own, net, server, TypeOK
<1>2. CASE Next
  BY <1>2, SenderStepType, ReceiverStepType, EndpointStepType, ServerStepType
     DEF Next, Routine
<1> QED BY <1>1, <1>2

(* Every variable keeps its type in every behaviour: in particular every   *)
(* machine is in a state of its own table or has ended, whatever event     *)
(* comes in whatever state.                                                *)
THEOREM Typing == Spec => []TypeOK
BY InitTypeOK, TypeOKStep, PTL DEF Spec

-----------------------------------------------------------------------------
(* What one step can do to the state that the invariant speaks of.         *)

(* What e does is no other endpoint's business. *)
Acts(e) == Routine(e) \/ SendFails(e) \/ (e \in Receiver /\ ConnectToSender(e))

LEMMA NextCases ==
  ASSUME [Next]_vars
  PROVE  \/ UNCHANGED vars
         \/ \E e \in Endpoint : Acts(e)
         \/ ServerStep \/ Restart
BY DEF Next, Acts, Endpoint

LEMMA ReturnIsLocal ==
  ASSUME TypeOK, NEW e \in Endpoint, NEW event, Return(e, event)
  PROVE  /\ st'[e] \in Following(Table(e), st[e], event) /\ ~blocked'[e]
         /\ \A g \in Endpoint \ {e} : st'[g] = st[g] /\ blocked'[g] = blocked[g]
BY DEF Return, TypeOK

LEMMA BlockIsLocal ==
  ASSUME TypeOK, NEW e \in Endpoint, NEW state, Block(e, state)
  PROVE  /\ st[e] = state /\ st' = st
         /\ \A g \in Endpoint \ {e} : blocked'[g] = blocked[g]
BY DEF Block, TypeOK

(* How one machine may move, and the other endpoints do not. *)
Same(g) ==
  /\ st'[g] = st[g] /\ blocked'[g] = blocked[g]
  /\ peer'[g] = peer[g] /\ link'[g] = link[g]
  /\ g \in Sender => identifier'[g] = identifier[g]
  /\ g \in Receiver => senderID'[g] = senderID[g]

LEMMA OthersStay ==
  ASSUME TypeOK, NEW e \in Endpoint, Acts(e), NEW g \in Endpoint \ {e}
  PROVE  Same(g)
<1>1. CASE e \in Sender /\ SenderStep(e)
  <2>1. CASE AskServerToAssignID(e)
    BY <2>1, BlockIsLocal DEF AskServerToAssignID, SendToServer, Same, own
  <2>2. CASE UpdateAddress(e)
    BY <2>2, BlockIsLocal DEF UpdateAddress, SendToServer, Same, own
  <2>3. CASE WaitForPeerAddress(e)
    BY <2>3, BlockIsLocal DEF WaitForPeerAddress, Same, own
  <2>4. CASE GotID(e)
    BY <2>4, ReturnIsLocal DEF GotID, Same, TypeOK
  <2>5. CASE GotHeartbeatResponse(e)
    BY <2>5, ReturnIsLocal DEF GotHeartbeatResponse, Same, own
  <2> QED BY <1>1, <2>1, <2>2, <2>3, <2>4, <2>5 DEF SenderStep
<1>2. CASE e \in Receiver /\ LookupAddressForID(e)
  BY <1>2, BlockIsLocal DEF LookupAddressForID, SendToServer, Same, own
<1>3. CASE ConnectToPeer(e)
  BY <1>3, BlockIsLocal DEF ConnectToPeer, Same, own
<1>4. CASE GotPeerAddress(e)
  BY <1>4, ReturnIsLocal DEF GotPeerAddress, Same, TypeOK
<1>5. CASE GotPeerResponse(e)
  BY <1>5, ReturnIsLocal DEF GotPeerResponse, Same, TypeOK
<1>6. CASE Timeout(e) \/ StopMachine(e)
  BY <1>6, ReturnIsLocal DEF Timeout, StopMachine, Same, own
<1>7. CASE SendFails(e)
  BY <1>7 DEF SendFails, Same, TypeOK, own
<1>8. CASE e \in Receiver /\ ConnectToSender(e)
  BY <1>8 DEF ConnectToSender, Same, TypeOK
<1> QED BY <1>1, <1>2, <1>3, <1>4, <1>5, <1>6, <1>7, <1>8
        DEF Acts, Routine, EndpointStep

(* The server touches no endpoint. *)
LEMMA ServerIsApart ==
  ASSUME ServerStep \/ Restart
  PROVE  /\ \A g \in Endpoint : Same(g)
         /\ requests' = requests /\ hellos' = hellos
BY DEF ServerStep, Register, Heartbeat, Connect, Restart, Same, fsm, own, net

(* No datagram disappears, no id changes hands, and nobody changes his mind *)
(* about the id that he was given.                                          *)
Grows ==
  /\ requests \subseteq requests'
  /\ responses \subseteq responses' /\ unsent \subseteq unsent'
  /\ hellos \subseteq hellos'
  /\ \A id \in ID : issuedTo[id] # None => issuedTo'[id] = issuedTo[id]
  /\ \A r \in Receiver : senderID[r] # None => senderID'[r] = senderID[r]

LEMMA StepGrows ==
  ASSUME TypeOK, IdleIsFresh, [Next]_vars
  PROVE  Grows
<1>1. CASE UNCHANGED vars
  BY <1>1 DEF vars, own, net, server, Grows
<1>2. ASSUME NEW e \in Endpoint, Acts(e)
      PROVE  Grows
  <2>1. CASE e \in Sender /\ SenderStep(e)
    BY <2>1 DEF SenderStep, AskServerToAssignID, UpdateAddress, SendToServer,
      WaitForPeerAddress, GotID, GotHeartbeatResponse, Grows, own, net, server
  <2>2. CASE e \in Receiver /\ LookupAddressForID(e)
    BY <2>2 DEF LookupAddressForID, SendToServer, Grows, own, net, server
  <2>3. CASE EndpointStep(e) \/ SendFails(e)
    BY <2>3 DEF EndpointStep, ConnectToPeer, GotPeerAddress, GotPeerResponse,
      SendHello, Timeout, StopMachine, SendFails, Grows, own, net, server
  <2>4. CASE e \in Receiver /\ ConnectToSender(e)
    BY <2>4 DEF ConnectToSender, IdleIsFresh, TypeOK, Grows, net, server
  <2> QED BY <1>2, <2>1, <2>2, <2>3, <2>4 DEF Acts, Routine
<1>3. CASE ServerStep
  <2>1. CASE Register
    BY <2>1 DEF Register, TypeOK, Grows, own
  <2>2. CASE Heartbeat \/ Connect
    BY <2>2 DEF Heartbeat, Connect, Grows, own, server
  <2> QED BY <1>3, <2>1, <2>2 DEF ServerStep
<1>4. CASE Restart
  BY <1>4 DEF Restart, Grows, own, net
<1> QED BY <1>1, <1>2, <1>3, <1>4, NextCases

(* An introduction stands. *)
LEMMA PartnersStay ==
  ASSUME TypeOK, Grows, NEW e \in Endpoint, NEW f \in Endpoint, Partners(e, f)
  PROVE  Partners(e, f)'
<1>1. ASSUME NEW s \in Sender, NEW r \in Receiver, Introduced(s, r)
      PROVE  Introduced(s, r)'
  <2>1. senderID'[r] = senderID[r]
    BY <1>1, AddressTypes DEF Introduced, Grows
  <2>2. s \in Endpoint
    BY DEF Endpoint
  <2>3. issuedTo[senderID[r]] # None
    BY <1>1, <2>2, AddressTypes DEF Introduced
  <2> QED BY <1>1, <2>1, <2>3 DEF Introduced, Grows
<1> QED BY <1>1 DEF Partners

-----------------------------------------------------------------------------
(* The invariant, conjunct by conjunct.                                    *)

(* Initially nothing has been sent and nobody is connected. *)
LEMMA InitIInv == Init => IInv
<1> SUFFICES ASSUME Init PROVE IInv
  OBVIOUS
<1>1. TypeOK
  BY InitTypeOK
<1>2. IdleIsFresh /\ KnownIsIssued /\ PeerIsPartner /\ MapIsHonest /\ IdentifierIsOwn
  BY KindsDisjoint, NoneApart DEF Init, IdleIsFresh, KnownIsIssued, PeerIsPartner, MapIsHonest,
     IdentifierIsOwn, NoAddress, Endpoint
<1>3. ConnectingKnocks /\ LinkMeansDone /\ ConnectedMet
  BY DEF Init, ConnectingKnocks, LinkMeansDone, ConnectedMet, Connecting,
         Remotes, Endpoint
<1>4. AnswersTellBoth /\ BothTold /\ BlockedIsWaiting
  BY DEF Init, AnswersTellBoth, BothTold, BlockedIsWaiting, NoAddress, Endpoint
<1>5. RequestsHonest /\ ResponsesHonest /\ HellosHonest
  BY DEF Init, RequestsHonest, ResponsesHonest, HellosHonest
<1> QED BY <1>1, <1>2, <1>3, <1>4, <1>5 DEF IInv

(* Only three routines send to the server. *)
LEMMA NewRequests ==
  ASSUME NEW e \in Endpoint, Acts(e), requests' # requests
  PROVE  \/ e \in Sender /\ AskServerToAssignID(e)
         \/ e \in Sender /\ UpdateAddress(e)
         \/ e \in Receiver /\ LookupAddressForID(e)
BY DEF Acts, Routine, SenderStep, WaitForPeerAddress, GotID,
  GotHeartbeatResponse, EndpointStep, ConnectToPeer, GotPeerAddress,
  GotPeerResponse, Timeout, StopMachine, SendFails, ConnectToSender, net

(* Whoever asks the server for something says the truth about himself. *)
LEMMA RequestsHonestStep ==
  ASSUME IInv, Grows, [Next]_vars
  PROVE  RequestsHonest'
<1> DEFINE Honest(m) ==
      /\ m.type \in {"REGISTER", "HEARTBEAT"} =>
           \E s \in Sender :
             /\ AddressIn(m) \in PairOf(s)
             /\ m.type = "HEARTBEAT" =>
                  m.id \in ID /\ issuedTo'[m.id] \in AddrsOf(s)
      /\ m.type = "CONNECT" =>
           \E r \in Receiver : /\ AddressIn(m) \in PairOf(r)
                               /\ m.id = senderID'[r] /\ m.id # None
<1>1. ASSUME NEW m \in requests
      PROVE  Honest(m)
  <2>1. ASSUME NEW s \in Sender, m.id \in ID, issuedTo[m.id] \in AddrsOf(s)
        PROVE  issuedTo'[m.id] \in AddrsOf(s)
    <3>1. issuedTo[m.id] # None
      BY <2>1, AddressTypes DEF Endpoint
    <3> QED BY <2>1, <3>1 DEF Grows
  <2>2. ASSUME NEW r \in Receiver, m.id = senderID[r], m.id # None
        PROVE  m.id = senderID'[r]
    BY <2>2 DEF Grows
  <2> QED BY <2>1, <2>2 DEF IInv, RequestsHonest
<1>2. ASSUME NEW e \in Endpoint, NEW type, NEW id, SendToServer(e, type, id),
             NEW m \in requests' \ requests
      PROVE  m.type = type /\ m.id = id /\ AddressIn(m) \in PairOf(e)
  BY <1>2 DEF SendToServer, AddressIn, PairOf, AddrsOf
<1>3. ASSUME NEW e \in Endpoint, Acts(e), NEW m \in requests' \ requests
      PROVE  Honest(m)
  <2>1. CASE e \in Sender /\ AskServerToAssignID(e)
    <3>1. m.type = "REGISTER" /\ AddressIn(m) \in PairOf(e)
      BY <1>2, <1>3, <2>1 DEF AskServerToAssignID
    <3> QED BY <2>1, <3>1
  <2>2. CASE e \in Sender /\ UpdateAddress(e)
    <3>1. m.type = "HEARTBEAT" /\ m.id = identifier[e] /\ AddressIn(m) \in PairOf(e)
      BY <1>2, <1>3, <2>2 DEF UpdateAddress
    <3>2. m.id \in ID /\ issuedTo[m.id] \in AddrsOf(e)
      BY <2>2, <3>1 DEF UpdateAddress, Block, IInv, IdentifierIsOwn, TypeOK
    <3>3. issuedTo'[m.id] \in AddrsOf(e)
      BY <1>3, <3>2, AddressTypes DEF Grows
    <3> QED BY <2>2, <3>1, <3>2, <3>3
  <2>3. CASE e \in Receiver /\ LookupAddressForID(e)
    <3>1. m.type = "CONNECT" /\ m.id = senderID[e] /\ AddressIn(m) \in PairOf(e)
      BY <1>2, <1>3, <2>3 DEF LookupAddressForID
    <3>2. senderID[e] # None /\ senderID'[e] = senderID[e]
      BY <2>3 DEF LookupAddressForID, SendToServer, Block, IInv, IdleIsFresh, own
    <3> QED BY <2>3, <3>1, <3>2
  <2> QED BY <1>3, <2>1, <2>2, <2>3, NewRequests
<1>4. requests' # requests => \E e \in Endpoint : Acts(e)
  BY NextCases, ServerIsApart DEF vars, net
<1>5. \A m \in requests' : Honest(m)
  BY <1>1, <1>3, <1>4
<1> QED BY <1>5 DEF RequestsHonest, AddressIn, PairOf

(* The server tells partners only of each other. *)
LEMMA ResponsesHonestStep ==
  ASSUME IInv, Grows, [Next]_vars
  PROVE  ResponsesHonest'
<1> DEFINE Honest(m) ==
      /\ m.type = "REGISTER" => issuedTo'[m.id] = m.to
      /\ m.type = "CONNECT" /\ m.address # NoAddress =>
           \E e, f \in Endpoint : /\ Partners(e, f)' /\ m.to \in AddrsOf(e)
                                  /\ m.address \in PairOf(f)
<1>0. TypeOK
  BY DEF IInv
<1>1. ASSUME NEW m \in responses
      PROVE  Honest(m)
  <2>1. CASE m.type = "REGISTER"
    <3>1. m.id \in ID /\ m.to \in Addr
      BY <1>0, <2>1 DEF TypeOK, Response
    <3>2. issuedTo[m.id] = m.to /\ m.to # None
      BY <2>1, <3>1, AddressTypes DEF IInv, ResponsesHonest
    <3> QED BY <2>1, <3>1, <3>2 DEF Grows
  <2>2. CASE m.type = "CONNECT" /\ m.address # NoAddress
    <3>1. PICK e \in Endpoint, f \in Endpoint :
            Partners(e, f) /\ m.to \in AddrsOf(e) /\ m.address \in PairOf(f)
      BY <2>2 DEF IInv, ResponsesHonest
    <3>2. Partners(e, f)'
      BY <1>0, <3>1, PartnersStay
    <3> QED BY <2>2, <3>1, <3>2
  <2> QED BY <2>1, <2>2
<1>2. ASSUME Register, NEW m \in responses' \ responses
      PROVE  Honest(m)
  <2>1. PICK q \in requests, id \in ID :
          /\ issuedTo' = [issuedTo EXCEPT ![id] = q.from]
          /\ m = Answer(q.from, "REGISTER", id, NoAddress, TRUE)
    BY <1>2 DEF Register
  <2> QED BY <1>0, <2>1 DEF Answer, TypeOK
<1>3. ASSUME Heartbeat, NEW m \in responses' \ responses
      PROVE  Honest(m)
  BY <1>3 DEF Heartbeat, Answer
<1>4. ASSUME Connect, NEW m \in responses' \ responses
      PROVE  Honest(m)
  <2>1. PICK q \in requests : Connects(q)
    BY <1>4, ConnectTells
  <2>2. PICK r \in Receiver : /\ AddressIn(q) \in PairOf(r)
                              /\ q.id = senderID[r] /\ q.id # None
    BY <2>1 DEF IInv, RequestsHonest, Connects
  <2>3. q.from \in AddrsOf(r)
    BY <2>2 DEF AddressIn, PairOf
  <2>4. CASE Lookup(q.id) # NoAddress
    <3>1. q.id \in ID /\ Lookup(q.id) = idToAddressMap[q.id]
      BY <2>4 DEF Lookup
    <3>2. PICK s \in Sender : /\ issuedTo[q.id] \in AddrsOf(s)
                              /\ Lookup(q.id) \in PairOf(s)
      BY <2>4, <3>1 DEF IInv, MapIsHonest
    <3>3. Partners(s, r) /\ Partners(r, s) /\ s \in Endpoint /\ r \in Endpoint
      BY <2>2, <3>1, <3>2 DEF Partners, Introduced, Endpoint
    <3>4. Partners(s, r)' /\ Partners(r, s)'
      BY <1>0, <3>3, PartnersStay
    <3>5. Lookup(q.id).hole \in AddrsOf(s)
      BY <3>2 DEF PairOf
    <3>6. \/ m = Answer(q.from, "CONNECT", None, Lookup(q.id), TRUE)
          \/ m = Answer(Lookup(q.id).hole, "CONNECT", None, AddressIn(q), TRUE)
      BY <1>4, <2>1 DEF Connects, News
    <3> QED BY <2>2, <2>3, <3>2, <3>3, <3>4, <3>5, <3>6 DEF Answer
  <2>5. CASE Lookup(q.id) = NoAddress
    <3>1. Lookup(q.id).hole = None
      BY <2>5 DEF NoAddress
    <3>2. m = Answer(q.from, "CONNECT", None, NoAddress, TRUE)
      BY <1>4, <2>1, <2>5, <3>1 DEF Connects, News
    <3> QED BY <3>2 DEF Answer
  <2> QED BY <2>4, <2>5
<1>5. responses' # responses => ServerStep
  BY DEF Next, Routine, SenderStep, AskServerToAssignID, UpdateAddress,
    SendToServer, WaitForPeerAddress, GotID, GotHeartbeatResponse,
    LookupAddressForID, EndpointStep, ConnectToPeer, GotPeerAddress,
    GotPeerResponse, Timeout, StopMachine, SendFails, ConnectToSender, Restart,
    vars, net
<1>6. \A m \in responses' : Honest(m)
  BY <1>1, <1>2, <1>3, <1>4, <1>5 DEF ServerStep
<1> QED BY <1>6 DEF ResponsesHonest

(* The map changes by what its owner says, or is lost. *)
LEMMA MapIsHonestStep ==
  ASSUME IInv, Grows, [Next]_vars
  PROVE  MapIsHonest'
<1>0. TypeOK
  BY DEF IInv
<1>1. ASSUME NEW id \in ID, NEW s \in Sender, issuedTo[id] \in AddrsOf(s)
      PROVE  issuedTo'[id] \in AddrsOf(s)
  <2>1. issuedTo[id] # None
    BY <1>1, AddressTypes DEF Endpoint
  <2> QED BY <1>1, <2>1 DEF Grows
<1>2. CASE UNCHANGED idToAddressMap
  BY <1>1, <1>2 DEF IInv, MapIsHonest
<1>3. CASE Register
  <2>1. PICK m \in requests, id \in ID :
          /\ m.type = "REGISTER"
          /\ issuedTo' = [issuedTo EXCEPT ![id] = m.from]
          /\ idToAddressMap' = [idToAddressMap EXCEPT ![id] = AddressIn(m)]
    BY <1>3 DEF Register
  <2>2. PICK s \in Sender : AddressIn(m) \in PairOf(s)
    BY <2>1 DEF IInv, RequestsHonest
  <2>3. issuedTo'[id] \in AddrsOf(s) /\ idToAddressMap'[id] \in PairOf(s)
    BY <1>0, <2>1, <2>2 DEF TypeOK, AddressIn, PairOf
  <2>4. \A other \in ID \ {id} : idToAddressMap'[other] = idToAddressMap[other]
    BY <1>0, <2>1 DEF TypeOK
  <2> QED BY <1>1, <2>3, <2>4 DEF IInv, MapIsHonest
<1>4. CASE Heartbeat
  <2>1. PICK m \in requests :
          /\ m.type = "HEARTBEAT"
          /\ \/ UNCHANGED idToAddressMap
             \/ idToAddressMap' = [idToAddressMap EXCEPT ![m.id] = AddressIn(m)]
    BY <1>4 DEF Heartbeat
  <2>2. PICK s \in Sender : /\ AddressIn(m) \in PairOf(s)
                            /\ m.id \in ID /\ issuedTo[m.id] \in AddrsOf(s)
    BY <2>1 DEF IInv, RequestsHonest
  <2>3. \A other \in ID \ {m.id} : idToAddressMap'[other] = idToAddressMap[other]
    BY <1>0, <2>1, <2>2 DEF TypeOK
  <2>4. \/ idToAddressMap'[m.id] = idToAddressMap[m.id]
        \/ idToAddressMap'[m.id] \in PairOf(s)
    BY <1>0, <2>1, <2>2 DEF TypeOK
  <2> QED BY <1>1, <2>2, <2>3, <2>4 DEF IInv, MapIsHonest
<1>5. CASE Restart
  BY <1>5 DEF Restart, MapIsHonest
<1>6. UNCHANGED idToAddressMap \/ Register \/ Heartbeat \/ Restart
  BY DEF Next, Routine, SenderStep, AskServerToAssignID, UpdateAddress,
    SendToServer, WaitForPeerAddress, GotID, GotHeartbeatResponse,
    LookupAddressForID, EndpointStep, ConnectToPeer, GotPeerAddress,
    GotPeerResponse, Timeout, StopMachine, SendFails, ConnectToSender,
    ServerStep, Connect, vars, server
<1> QED BY <1>2, <1>3, <1>4, <1>5, <1>6

(* What the tables say of the states that the invariant names. *)
LEMMA TableFacts ==
  ASSUME NEW e, NEW state, NEW event,
         NEW next \in Following(Table(e), state, event)
  PROVE  /\ next # "idle"
         /\ next \in {"waitForPeerAddress", "updateAddress"} =>
              \/ state \in {"waitForPeerAddress", "updateAddress"}
              \/ event = "gotID"
         /\ next \in Connecting =>
              \/ state \in Connecting /\ event = "timeout"
              \/ event = "gotPeerAddress"
         /\ state \in {"connected"} \cup Ends => next \in Ends
         /\ state \in Connecting /\ event = "peerResponse" => next = "connected"
<1>1. \/ next = NoTransition /\ \A t \in Table(e) : ~(t[1] = state /\ t[2] = event)
      \/ <<state, event, next>> \in SenderTable /\ Table(e) = SenderTable
      \/ <<state, event, next>> \in ReceiverTable /\ Table(e) = ReceiverTable
  <2>1. CASE next = NoTransition /\ \A t \in Table(e) : ~(t[1] = state /\ t[2] = event)
    BY <2>1
  <2>2. CASE \E t \in Table(e) : t[1] = state /\ t[2] = event /\ t[3] = next
    <3>1. \A t \in SenderTable \cup ReceiverTable : t = <<t[1], t[2], t[3]>>
      BY DEF SenderTable, ReceiverTable, AttemptTable
    <3> QED BY <2>2, <3>1 DEF Table
  <2> QED BY <2>1, <2>2 DEF Following
<1>2. CASE next = NoTransition /\ \A t \in Table(e) : ~(t[1] = state /\ t[2] = event)
  <2>1. <<state, "peerResponse", "connected">> \in Table(e) \/ state \notin Connecting
    BY DEF Table, SenderTable, ReceiverTable, AttemptTable
  <2> QED BY <1>2, <2>1 DEF NoTransition, Ends, Connecting, Remotes
<1>3. ASSUME <<state, event, next>> \in SenderTable \cup ReceiverTable
      PROVE  /\ next # "idle"
             /\ next \in {"waitForPeerAddress", "updateAddress"} =>
                  \/ state \in {"waitForPeerAddress", "updateAddress"}
                  \/ event = "gotID"
             /\ next \in Connecting =>
                  \/ state \in Connecting /\ event = "timeout"
                  \/ event = "gotPeerAddress"
             /\ state \in {"connected"} \cup Ends => next \in Ends
             /\ state \in Connecting /\ event = "peerResponse" => next = "connected"
  BY <1>3 DEF SenderTable, ReceiverTable, AttemptTable, Ends, Stop,
     NoTransition, Aborted, Connecting, Remotes
<1> QED BY <1>1, <1>2, <1>3

(* A sender has an id of his own before he waits for anybody. *)
LEMMA IdentifierIsOwnStep ==
  ASSUME IInv, Grows, [Next]_vars
  PROVE  IdentifierIsOwn'
<1>0. TypeOK
  BY DEF IInv
<1> DEFINE Fine(s) ==
      /\ identifier'[s] # None => issuedTo'[identifier'[s]] \in AddrsOf(s)
      /\ st'[s] \in {"waitForPeerAddress", "updateAddress"} => identifier'[s] # None
<1>1. ASSUME NEW s \in Sender, identifier'[s] = identifier[s],
             \/ st'[s] = st[s]
             \/ st'[s] \notin {"waitForPeerAddress", "updateAddress"}
             \/ st[s] \in {"waitForPeerAddress", "updateAddress"}
      PROVE  Fine(s)
  <2>1. identifier[s] # None => issuedTo'[identifier[s]] \in AddrsOf(s)
    <3>1. ASSUME identifier[s] # None
          PROVE  issuedTo'[identifier[s]] \in AddrsOf(s)
      <4>1. identifier[s] \in ID /\ issuedTo[identifier[s]] \in AddrsOf(s)
        BY <1>0, <3>1 DEF IInv, IdentifierIsOwn, TypeOK
      <4>2. issuedTo[identifier[s]] # None
        BY <4>1, AddressTypes DEF Endpoint
      <4> QED BY <4>1, <4>2 DEF Grows
    <3> QED BY <3>1
  <2>2. st'[s] \in {"waitForPeerAddress", "updateAddress"} => identifier[s] # None
    BY <1>1 DEF IInv, IdentifierIsOwn
  <2> QED BY <1>1, <2>1, <2>2
<1>2. ASSUME NEW s \in Sender, Same(s)
      PROVE  Fine(s)
  BY <1>1, <1>2 DEF Same
<1>3. ASSUME NEW s \in Sender, GotID(s)
      PROVE  Fine(s)
  <2>1. PICK m \in Arrived(s, "REGISTER") :
          identifier' = [identifier EXCEPT ![s] = m.id]
    BY <1>3 DEF GotID
  <2>2. /\ m \in responses /\ m.type = "REGISTER" /\ m.to \in AddrsOf(s)
        /\ m.id \in ID
    BY <1>0, <2>1 DEF Arrived, TypeOK, Response
  <2>3. issuedTo[m.id] \in AddrsOf(s) /\ issuedTo' = issuedTo
    BY <1>3, <2>2 DEF IInv, ResponsesHonest, GotID, server
  <2>4. identifier'[s] = m.id
    BY <1>0, <2>1 DEF TypeOK
  <2> QED BY <2>2, <2>3, <2>4, AddressTypes
<1>4. ASSUME NEW s \in Sender, Acts(s), ~GotID(s)
      PROVE  Fine(s)
  <2>1. identifier' = identifier
    BY <1>4, KindsDisjoint DEF Acts, Routine, SenderStep, AskServerToAssignID,
      UpdateAddress, SendToServer, WaitForPeerAddress, GotHeartbeatResponse,
      EndpointStep, ConnectToPeer, GotPeerAddress, GotPeerResponse, Timeout,
      StopMachine, SendFails, own
  <2>2. \/ st'[s] = st[s]
        \/ st'[s] = Aborted
        \/ \E event : event # "gotID" /\ Return(s, event)
    <3>1. CASE SenderStep(s)
      BY <1>4, <3>1 DEF SenderStep, AskServerToAssignID, UpdateAddress,
        WaitForPeerAddress, GotHeartbeatResponse, Block
    <3>2. CASE EndpointStep(s)
      BY <3>2 DEF EndpointStep, ConnectToPeer, GotPeerAddress, GotPeerResponse,
        Timeout, StopMachine, Block
    <3>3. CASE SendFails(s)
      BY <1>0, <3>3 DEF SendFails, TypeOK, Endpoint
    <3> QED BY <1>4, <3>1, <3>2, <3>3, KindsDisjoint DEF Acts, Routine
  <2>3. \/ st'[s] = st[s]
        \/ st'[s] \notin {"waitForPeerAddress", "updateAddress"}
        \/ st[s] \in {"waitForPeerAddress", "updateAddress"}
    BY <1>0, <2>2, ReturnIsLocal, TableFacts DEF Aborted, Endpoint
  <2> QED BY <1>1, <2>1, <2>3
<1>5. ASSUME NEW s \in Sender PROVE Fine(s)
  <2>1. s \in Endpoint
    BY DEF Endpoint
  <2>2. CASE UNCHANGED vars
    BY <1>2, <2>2 DEF Same, vars, fsm, own
  <2>3. ASSUME NEW e \in Endpoint, Acts(e) PROVE Fine(s)
    BY <1>0, <1>2, <1>3, <1>4, <2>1, <2>3, OthersStay
  <2>4. CASE ServerStep \/ Restart
    BY <1>2, <2>1, <2>4, ServerIsApart
  <2> QED BY <2>2, <2>3, <2>4, NextCases
<1> QED BY <1>5 DEF IdentifierIsOwn

(* How a machine moves: it stays, it fails, it is started, or it looks up  *)
(* the event of one of its routines.                                       *)
LEMMA MachineMoves ==
  ASSUME TypeOK, NEW e \in Endpoint, Acts(e)
  PROVE  \/ \E state : Block(e, state) /\ (ConnectToPeer(e) \/ state \notin Connecting)
         \/ SendFails(e)
         \/ e \in Receiver /\ ConnectToSender(e)
         \/ GotPeerAddress(e)
         \/ GotPeerResponse(e)
         \/ \E event : /\ event \notin {"gotPeerAddress", "peerResponse"}
                       /\ Return(e, event) /\ UNCHANGED <<peer, link>>
                       /\ event # "timeout" => st[e] \notin Connecting
<1>1. CASE e \in Sender /\ SenderStep(e)
  BY <1>1 DEF SenderStep, AskServerToAssignID, UpdateAddress,
    WaitForPeerAddress, GotID, GotHeartbeatResponse, Connecting, Remotes, own
<1>2. CASE e \in Receiver /\ LookupAddressForID(e)
  BY <1>2 DEF LookupAddressForID, Connecting, Remotes
<1>3. CASE EndpointStep(e)
  BY <1>3 DEF EndpointStep, ConnectToPeer, Timeout, StopMachine, own,
    Connecting, Remotes
<1> QED BY <1>1, <1>2, <1>3 DEF Acts, Routine

LEMMA BlockKeeps ==
  ASSUME TypeOK, NEW e \in Endpoint, Acts(e), NEW state, Block(e, state)
  PROVE  UNCHANGED <<peer, link, senderID, identifier, idToAddressMap, issuedTo>>
<1>1. blocked'[e] /\ ~blocked[e]
  BY DEF Block, TypeOK
<1>2. \A event : ~Return(e, event)
  BY <1>1, ReturnIsLocal
<1>3. ~SendFails(e) /\ ~ConnectToSender(e)
  BY <1>1 DEF SendFails, ConnectToSender, TypeOK
<1> QED BY <1>1, <1>2, <1>3 DEF Acts, Routine, SenderStep, AskServerToAssignID,
    UpdateAddress, SendToServer, WaitForPeerAddress, GotID, GotHeartbeatResponse,
    LookupAddressForID, EndpointStep, ConnectToPeer, GotPeerAddress,
    GotPeerResponse, Timeout, StopMachine, own, server

(* A receiver is idle until it is given an id. *)
LEMMA IdleIsFreshStep ==
  ASSUME IInv, [Next]_vars
  PROVE  IdleIsFresh'
<1>0. TypeOK /\ IdleIsFresh
  BY DEF IInv
<1> DEFINE Fine(r) == /\ st'[r] = "idle" <=> senderID'[r] = None
                      /\ st'[r] = "idle" => ~blocked'[r]
<1>1. ASSUME NEW r \in Receiver, Same(r)
      PROVE  Fine(r)
  BY <1>0, <1>1 DEF IdleIsFresh, Same
<1>2. ASSUME NEW r \in Receiver, ConnectToSender(r)
      PROVE  Fine(r)
  BY <1>0, <1>2, AddressTypes, NoneApart DEF ConnectToSender, TypeOK, Endpoint
<1>3. ASSUME NEW r \in Receiver, r \in Endpoint, Acts(r), ~ConnectToSender(r)
      PROVE  Fine(r)
  <2>1. senderID' = senderID
    BY <1>3, KindsDisjoint DEF Acts, Routine, LookupAddressForID, SendToServer,
      EndpointStep, ConnectToPeer, GotPeerAddress, GotPeerResponse, Timeout,
      StopMachine, SendFails, own
  <2>2. st[r] # "idle"
    <3>1. CASE LookupAddressForID(r)
      BY <3>1 DEF LookupAddressForID, Block
    <3>2. CASE ConnectToPeer(r)
      BY <3>2 DEF ConnectToPeer, Block, Connecting, Remotes
    <3>3. CASE GotPeerAddress(r) \/ GotPeerResponse(r) \/ Timeout(r)
      BY <1>0, <3>3 DEF GotPeerAddress, GotPeerResponse, Timeout, IdleIsFresh
    <3>4. CASE StopMachine(r)
      BY <3>4 DEF StopMachine
    <3>5. CASE SendFails(r)
      BY <3>5 DEF SendFails, Connecting, Remotes
    <3> QED BY <1>3, <3>1, <3>2, <3>3, <3>4, <3>5, KindsDisjoint
            DEF Acts, Routine, EndpointStep
  <2>3. st'[r] # "idle"
    <3>1. ASSUME NEW event, Return(r, event) PROVE st'[r] # "idle"
      BY <1>0, <1>3, <3>1, ReturnIsLocal, TableFacts
    <3>2. ASSUME NEW state, Block(r, state) PROVE st'[r] # "idle"
      BY <2>2, <3>2 DEF Block
    <3>3. CASE SendFails(r)
      BY <1>0, <1>3, <3>3 DEF SendFails, Aborted, TypeOK
    <3>4. CASE GotPeerAddress(r) \/ GotPeerResponse(r)
      BY <3>1, <3>4 DEF GotPeerAddress, GotPeerResponse
    <3> QED BY <1>0, <1>3, <3>1, <3>2, <3>3, <3>4, MachineMoves
  <2> QED BY <1>0, <2>1, <2>2, <2>3 DEF IdleIsFresh
<1>4. ASSUME NEW r \in Receiver PROVE Fine(r)
  <2>1. r \in Endpoint
    BY DEF Endpoint
  <2>2. CASE UNCHANGED vars
    BY <1>1, <2>2 DEF Same, vars, fsm, own
  <2>3. ASSUME NEW e \in Endpoint, Acts(e) PROVE Fine(r)
    BY <1>0, <1>1, <1>2, <1>3, <2>1, <2>3, OthersStay
  <2>4. CASE ServerStep \/ Restart
    BY <1>1, <2>1, <2>4, ServerIsApart
  <2> QED BY <2>2, <2>3, <2>4, NextCases
<1> QED BY <1>4 DEF IdleIsFresh

(* Addresses come from the server, who is honest. *)
LEMMA PeerIsPartnerStep ==
  ASSUME IInv, Grows, [Next]_vars
  PROVE  PeerIsPartner'
<1>0. TypeOK
  BY DEF IInv
<1>1. ASSUME NEW e \in Endpoint, peer'[e] = peer[e], peer[e].hole # None
      PROVE  \E f \in Endpoint : Partners(e, f)' /\ peer'[e] \in PairOf(f)
  BY <1>0, <1>1, PartnersStay DEF IInv, PeerIsPartner
<1>2. ASSUME NEW e \in Endpoint, GotPeerAddress(e), peer'[e].hole # None
      PROVE  \E f \in Endpoint : Partners(e, f)' /\ peer'[e] \in PairOf(f)
  <2>1. PICK m \in Arrived(e, "CONNECT") :
          IF m.address = NoAddress
            THEN peer' = [peer EXCEPT ![e] = [hole |-> None, local |-> @.local]]
            ELSE peer' = [peer EXCEPT ![e] = m.address]
    BY <1>2 DEF GotPeerAddress
  <2>2. m.address # NoAddress /\ peer'[e] = m.address
    BY <1>0, <1>2, <2>1 DEF TypeOK
  <2>3. PICK d \in Endpoint, f \in Endpoint :
          Partners(d, f) /\ m.to \in AddrsOf(d) /\ m.address \in PairOf(f)
    BY <2>1, <2>2 DEF Arrived, IInv, ResponsesHonest
  <2>4. d = e
    BY <2>1, <2>3, AddressesDisjoint DEF Arrived
  <2> QED BY <1>0, <2>2, <2>3, <2>4, PartnersStay
<1>3. ASSUME NEW e \in Endpoint, Acts(e), ~GotPeerAddress(e)
      PROVE  peer' = peer
  BY <1>3 DEF Acts, Routine, SenderStep, AskServerToAssignID, UpdateAddress,
    SendToServer, WaitForPeerAddress, GotID, GotHeartbeatResponse,
    LookupAddressForID, EndpointStep, ConnectToPeer, GotPeerResponse, Timeout,
    StopMachine, SendFails, ConnectToSender, own
<1>4. ASSUME NEW e \in Endpoint PROVE peer'[e] = peer[e] \/ GotPeerAddress(e)
  <2>1. CASE UNCHANGED vars
    BY <2>1 DEF vars, own
  <2>2. ASSUME NEW d \in Endpoint, Acts(d)
        PROVE  peer'[e] = peer[e] \/ GotPeerAddress(e)
    BY <1>0, <1>3, <2>2, OthersStay DEF Same
  <2>3. CASE ServerStep \/ Restart
    BY <2>3, ServerIsApart DEF Same
  <2> QED BY <2>1, <2>2, <2>3, NextCases
<1> QED BY <1>1, <1>2, <1>4 DEF PeerIsPartner

(* A HELLO goes to the peer that its sender knows. *)
LEMMA SendHelloIsHonest ==
  ASSUME IInv, NEW e \in Endpoint, SendHello(e), st[e] \in Connecting
  PROVE  \E a, to : /\ hellos' = hellos \cup {[from |-> a, to |-> to]}
                    /\ a \in AddrsOf(e) /\ to = Target(e)
                    /\ \E f \in Endpoint : /\ Partners(e, f) /\ to \in AddrsOf(f)
                                           /\ peer[e] \in PairOf(f)
<1>1. PICK a \in Source(e, Target(e)) :
        hellos' = hellos \cup {[from |-> a, to |-> Target(e)]}
  BY DEF SendHello
<1>2. PICK f \in Endpoint : Partners(e, f) /\ peer[e] \in PairOf(f)
  BY DEF IInv, ConnectingKnocks, PeerIsPartner
<1>3. Target(e) \in AddrsOf(f)
  BY <1>2 DEF Target, PairOf
<1> QED BY <1>1, <1>2, <1>3, SourceIsOwn

LEMMA NewHellos ==
  ASSUME [Next]_vars, hellos' # hellos
  PROVE  \E e \in Endpoint : SendHello(e) /\ st[e] \in Connecting
BY DEF Next, Routine, SenderStep, AskServerToAssignID, UpdateAddress,
  SendToServer, WaitForPeerAddress, GotID, GotHeartbeatResponse,
  LookupAddressForID, EndpointStep, ConnectToPeer, Block, GotPeerAddress,
  GotPeerResponse, Timeout, StopMachine, SendFails, ConnectToSender,
  ServerStep, Register, Heartbeat, Connect, Restart, vars, net

LEMMA HellosHonestStep ==
  ASSUME IInv, Grows, [Next]_vars
  PROVE  HellosHonest'
<1>0. TypeOK
  BY DEF IInv
<1>1. ASSUME NEW h \in hellos
      PROVE  \E e, f \in Endpoint :
               Partners(e, f)' /\ h.from \in AddrsOf(e) /\ h.to \in AddrsOf(f)
  BY <1>0, <1>1, PartnersStay DEF IInv, HellosHonest
<1>2. ASSUME NEW h \in hellos' \ hellos
      PROVE  \E e, f \in Endpoint :
               Partners(e, f)' /\ h.from \in AddrsOf(e) /\ h.to \in AddrsOf(f)
  <2>1. PICK e \in Endpoint : SendHello(e) /\ st[e] \in Connecting
    BY <1>2, NewHellos
  <2>2. PICK f \in Endpoint :
          Partners(e, f) /\ h.from \in AddrsOf(e) /\ h.to \in AddrsOf(f)
    BY <1>2, <2>1, SendHelloIsHonest
  <2> QED BY <1>0, <2>2, PartnersStay
<1> QED BY <1>1, <1>2 DEF HellosHonest

(* Nobody waits for an answer to a HELLO that he has not sent. *)
LEMMA ConnectingKnocksStep ==
  ASSUME IInv, Grows, [Next]_vars
  PROVE  ConnectingKnocks'
<1>0. TypeOK /\ ConnectingKnocks
  BY DEF IInv
<1> DEFINE Fine(e) == st'[e] \in Connecting =>
      /\ peer'[e].hole # None
      /\ blocked'[e] =>
           \E h \in hellos' : h.from \in AddrsOf(e) /\ h.to = Target(e)'
<1>1. ASSUME NEW e \in Endpoint, Same(e)
      PROVE  Fine(e)
  <2>1. Target(e)' = Target(e)
    BY <1>1 DEF Target, Same
  <2> QED BY <1>0, <1>1, <2>1 DEF ConnectingKnocks, Same, Grows
<1>2. ASSUME NEW e \in Endpoint, Acts(e), st'[e] \in Connecting
      PROVE  /\ peer'[e].hole # None
             /\ blocked'[e] =>
                  \E h \in hellos' : h.from \in AddrsOf(e) /\ h.to = Target(e)'
  <2>1. CASE \E state : Block(e, state) /\ (ConnectToPeer(e) \/ state \notin Connecting)
    <3>1. st' = st /\ peer' = peer /\ ConnectToPeer(e)
      BY <1>0, <1>2, <2>1, BlockKeeps, BlockIsLocal
    <3>2. Target(e)' = Target(e)
      BY <3>1 DEF Target
    <3>3. SendHello(e)
      BY <3>1 DEF ConnectToPeer
    <3>4. PICK a, to : /\ hellos' = hellos \cup {[from |-> a, to |-> to]}
                       /\ a \in AddrsOf(e) /\ to = Target(e)
      BY <1>2, <3>1, <3>3, SendHelloIsHonest
    <3>5. [from |-> a, to |-> to] \in hellos'
      BY <3>4
    <3> QED BY <1>0, <1>2, <3>1, <3>2, <3>4, <3>5 DEF ConnectingKnocks
  <2>2. CASE SendFails(e)
    BY <1>0, <1>2, <2>2 DEF SendFails, Aborted, Connecting, Remotes, TypeOK
  <2>3. CASE e \in Receiver /\ ConnectToSender(e)
    BY <1>0, <1>2, <2>3 DEF ConnectToSender, Connecting, Remotes, TypeOK
  <2>4. CASE GotPeerAddress(e)
    <3>1. st[e] \notin Connecting
      BY <2>4 DEF GotPeerAddress, Connecting, Remotes
    <3>2. PICK m \in Arrived(e, "CONNECT") :
            \/ Return(e, "timeout")
            \/ /\ peer' = [peer EXCEPT ![e] = m.address]
               /\ Return(e, "gotPeerAddress") /\ m.address # NoAddress
      BY <2>4 DEF GotPeerAddress
    <3>3. ~Return(e, "timeout")
      BY <1>0, <1>2, <3>1, ReturnIsLocal, TableFacts
    <3>4. PICK f \in Endpoint : m.address \in PairOf(f)
      BY <3>2, <3>3 DEF Arrived, IInv, ResponsesHonest
    <3>5. peer'[e] = m.address /\ m.address.hole # None /\ ~blocked'[e]
      BY <1>0, <3>2, <3>3, <3>4, AddressTypes, ReturnIsLocal DEF TypeOK, PairOf
    <3> QED BY <3>5
  <2>5. CASE GotPeerResponse(e)
    <3>1. st'[e] = "connected"
      BY <1>0, <2>5, ReturnIsLocal, TableFacts DEF GotPeerResponse
    <3> QED BY <1>2, <3>1 DEF Connecting, Remotes
  <2>6. CASE \E event : /\ event \notin {"gotPeerAddress", "peerResponse"}
                        /\ Return(e, event) /\ UNCHANGED <<peer, link>>
    <3>1. st[e] \in Connecting /\ ~blocked'[e]
      BY <1>0, <1>2, <2>6, ReturnIsLocal, TableFacts
    <3> QED BY <1>0, <2>6, <3>1 DEF ConnectingKnocks
  <2> QED BY <1>0, <1>2, <2>1, <2>2, <2>3, <2>4, <2>5, <2>6, MachineMoves
<1>3. ASSUME NEW e \in Endpoint PROVE Fine(e)
  <2>1. CASE UNCHANGED vars
    BY <1>1, <2>1 DEF Same, vars, fsm, own
  <2>2. ASSUME NEW d \in Endpoint, Acts(d) PROVE Fine(e)
    BY <1>0, <1>1, <1>2, <2>2, OthersStay
  <2>3. CASE ServerStep \/ Restart
    BY <1>1, <2>3, ServerIsApart
  <2> QED BY <2>1, <2>2, <2>3, NextCases
<1> QED BY <1>3 DEF ConnectingKnocks

(* Ids are announced after, and passed on after, they were issued. *)
LEMMA KnownIsIssuedStep ==
  ASSUME IInv, Grows, [Next]_vars
  PROVE  KnownIsIssued'
<1>0. TypeOK /\ KnownIsIssued
  BY DEF IInv
<1>1. ASSUME NEW id \in ID, issuedTo[id] # None
      PROVE  issuedTo'[id] # None
  BY <1>1 DEF Grows
<1>2. ASSUME NEW e \in Endpoint, NEW id \in announced' \ announced, Acts(e)
      PROVE  issuedTo[id] # None
  <2>1. PICK m \in Arrived(e, "REGISTER") : id = m.id
    BY <1>2 DEF Acts, Routine, SenderStep, AskServerToAssignID, UpdateAddress,
      SendToServer, WaitForPeerAddress, GotID, GotHeartbeatResponse,
      LookupAddressForID, EndpointStep, ConnectToPeer, GotPeerAddress,
      GotPeerResponse, Timeout, StopMachine, SendFails, ConnectToSender, own
  <2>2. issuedTo[id] = m.to /\ m.to \in Addr
    BY <1>0, <2>1 DEF Arrived, IInv, ResponsesHonest, TypeOK, Response
  <2> QED BY <2>2, AddressTypes
<1>3. ASSUME NEW e \in Endpoint, Acts(e), NEW r \in Receiver,
             senderID'[r] # senderID[r]
      PROVE  senderID'[r] \in announced \cup {BogusID}
  <2>1. r = e /\ ConnectToSender(r)
    BY <1>3 DEF Acts, Routine, SenderStep, AskServerToAssignID, UpdateAddress,
      SendToServer, WaitForPeerAddress, GotID, GotHeartbeatResponse,
      LookupAddressForID, EndpointStep, ConnectToPeer, GotPeerAddress,
      GotPeerResponse, Timeout, StopMachine, SendFails, ConnectToSender, own,
      TypeOK, IInv
  <2> QED BY <1>0, <2>1 DEF ConnectToSender, TypeOK
<1>4. CASE UNCHANGED <<announced, senderID>>
  BY <1>0, <1>1, <1>4 DEF KnownIsIssued
<1>5. ASSUME NEW e \in Endpoint, Acts(e)
      PROVE  KnownIsIssued'
  BY <1>0, <1>1, <1>2, <1>3, <1>5, BogusApart DEF KnownIsIssued
<1>6. ServerStep \/ Restart \/ UNCHANGED vars => UNCHANGED <<announced, senderID>>
  BY DEF ServerStep, Register, Heartbeat, Connect, Restart, vars, own
<1> QED BY <1>4, <1>5, <1>6, NextCases

(* A machine that is connected learns nothing any more, whatever arrives. *)
LEMMA LinkedStays ==
  ASSUME IInv, [Next]_vars, NEW e \in Endpoint
  PROVE  /\ link[e] # "none" => /\ peer'[e] = peer[e] /\ link'[e] = link[e]
                                /\ st'[e] \in {"connected"} \cup Ends
         /\ link'[e] # link[e] => GotPeerResponse(e)
<1>0. TypeOK /\ LinkMeansDone
  BY DEF IInv
<1>1. CASE Same(e)
  BY <1>0, <1>1 DEF LinkMeansDone, Same
<1>2. CASE Acts(e)
  <2>1. CASE \E state : Block(e, state)
    BY <1>0, <1>2, <2>1, BlockKeeps, BlockIsLocal DEF LinkMeansDone
  <2>2. CASE SendFails(e)
    BY <1>0, <2>2 DEF SendFails, own, Ends, TypeOK
  <2>3. CASE e \in Receiver /\ ConnectToSender(e)
    BY <1>0, <2>3 DEF ConnectToSender, LinkMeansDone, Ends, Stop, NoTransition, Aborted
  <2>4. CASE GotPeerAddress(e)
    BY <1>0, <2>4 DEF GotPeerAddress, LinkMeansDone, Ends, Stop, NoTransition, Aborted
  <2>5. CASE GotPeerResponse(e)
    BY <1>0, <2>5 DEF GotPeerResponse, LinkMeansDone, Ends, Stop, NoTransition,
      Aborted, Connecting, Remotes
  <2>6. CASE \E event : Return(e, event) /\ UNCHANGED <<peer, link>>
    BY <1>0, <2>6, ReturnIsLocal, TableFacts DEF LinkMeansDone
  <2> QED BY <1>0, <1>2, <2>1, <2>2, <2>3, <2>4, <2>5, <2>6, MachineMoves
<1>3. Same(e) \/ Acts(e)
  <2>1. CASE UNCHANGED vars
    BY <2>1 DEF Same, vars, fsm, own
  <2> QED BY <1>0, <2>1, NextCases, OthersStay, ServerIsApart
<1> QED BY <1>1, <1>2, <1>3

LEMMA LinkMeansDoneStep ==
  ASSUME IInv, [Next]_vars
  PROVE  LinkMeansDone'
<1>1. ASSUME NEW e \in Endpoint, link[e] = "none", link'[e] # "none"
      PROVE  st'[e] = "connected"
  <2>1. GotPeerResponse(e)
    BY <1>1, LinkedStays
  <2> QED BY <2>1, ReturnIsLocal, TableFacts DEF GotPeerResponse, IInv
<1> QED BY <1>1, LinkedStays DEF LinkMeansDone

(* Who is connected has met his partner. *)
LEMMA ConnectedMetStep ==
  ASSUME IInv, Grows, [Next]_vars
  PROVE  ConnectedMet'
<1>0. TypeOK
  BY DEF IInv
<1> DEFINE Heard(e, l, p, hs) ==
      \E h \in hs : /\ h.to \in AddrsOf(e)
                    /\ h.from = IF l = "local" THEN p.local ELSE p.hole
<1>1. ASSUME NEW e \in Endpoint, link'[e] # "none"
      PROVE  \E f \in Endpoint :
               /\ Partners(e, f)' /\ peer'[e] \in PairOf(f) /\ Greeted(e, f)'
               /\ Heard(e, link'[e], peer'[e], hellos')
  <2>1. CASE link[e] # "none"
    <3>1. peer'[e] = peer[e] /\ link'[e] = link[e]
      BY <2>1, LinkedStays
    <3>2. PICK f \in Endpoint :
            /\ Partners(e, f) /\ peer[e] \in PairOf(f) /\ Greeted(e, f)
            /\ Heard(e, link[e], peer[e], hellos)
      BY <2>1 DEF IInv, ConnectedMet
    <3>3. Partners(e, f)' /\ Greeted(e, f)'
      BY <1>0, <3>2, PartnersStay DEF Greeted, Grows
    <3> QED BY <3>1, <3>2, <3>3 DEF Grows
  <2>2. CASE link[e] = "none"
    <3>1. GotPeerResponse(e)
      BY <1>1, <2>2, LinkedStays
    <3>2. st[e] \in Connecting /\ blocked[e] /\ HelloArrived(e) /\ peer' = peer
      BY <3>1 DEF GotPeerResponse
    <3>3. PICK f \in Endpoint : Partners(e, f) /\ peer[e] \in PairOf(f)
      BY <3>2 DEF IInv, ConnectingKnocks, PeerIsPartner
    <3>4. Target(e) \in AddrsOf(f)
      BY <3>3 DEF Target, PairOf
    <3>5. Greeted(e, f)'
      BY <3>2, <3>4 DEF IInv, ConnectingKnocks, Greeted, Grows
    <3>6. Heard(e, link'[e], peer'[e], hellos')
      <4>1. link'[e] = IF st[e] = "localConnectToPeer" THEN "local" ELSE "remote"
        BY <1>0, <3>1 DEF GotPeerResponse, TypeOK
      <4> QED BY <3>2, <4>1 DEF HelloArrived, Target, Grows
    <3> QED BY <1>0, <3>2, <3>3, <3>5, <3>6, PartnersStay
  <2> QED BY <2>1, <2>2
<1> QED BY <1>1 DEF ConnectedMet

(* holepoked sends its two CONNECT responses in one turn of its loop, the  *)
(* sender's first; whether that one leaves or not, it is accounted for.    *)
LEMMA AnswersTellBothStep ==
  ASSUME IInv, Grows, [Next]_vars
  PROVE  AnswersTellBoth'
<1>0. TypeOK
  BY DEF IInv
<1> DEFINE Told(r, m) == \E n \in responses' \cup unsent' :
      /\ n.type = "CONNECT" /\ n.to = m.address.hole /\ n.address \in PairOf(r)
<1>1. ASSUME NEW r \in Receiver, NEW m \in responses, m.type = "CONNECT",
             m.address # NoAddress, m.to \in AddrsOf(r)
      PROVE  Told(r, m)
  BY <1>1 DEF IInv, AnswersTellBoth, Grows
<1>2. ASSUME NEW r \in Receiver, NEW m \in responses' \ responses,
             m.type = "CONNECT", m.address # NoAddress, m.to \in AddrsOf(r),
             Connect
      PROVE  Told(r, m)
  <2>1. PICK q \in requests : Connects(q)
    BY <1>2, ConnectTells
  <2>2. PICK c \in Receiver : AddressIn(q) \in PairOf(c)
    BY <2>1 DEF IInv, RequestsHonest, Connects
  <2>3. Lookup(q.id) # NoAddress
    BY <1>2, <2>1 DEF Answer, NoAddress, Connects, News
  <2>4. PICK s \in Sender : Lookup(q.id) \in PairOf(s)
    BY <2>3 DEF Lookup, IInv, MapIsHonest
  <2>5. /\ Lookup(q.id).hole \in AddrsOf(s) /\ Lookup(q.id).hole # None
        /\ q.from \in AddrsOf(c)
    BY <2>2, <2>4, AddressTypes DEF PairOf, AddressIn, Endpoint
  <2>6. r # s /\ r \in Endpoint /\ s \in Endpoint /\ c \in Endpoint
    BY KindsDisjoint DEF Endpoint
  <2>7. m = Answer(q.from, "CONNECT", None, Lookup(q.id), TRUE)
    <3>1. \/ m = Answer(q.from, "CONNECT", None, Lookup(q.id), TRUE)
          \/ m = Answer(Lookup(q.id).hole, "CONNECT", None, AddressIn(q), TRUE)
      BY <1>2, <2>1 DEF Connects, News
    <3> QED BY <1>2, <2>5, <2>6, <3>1, AddressesDisjoint DEF Answer
  <2>8. c = r
    BY <1>2, <2>5, <2>6, <2>7, AddressesDisjoint DEF Answer
  <2>9. Answer(Lookup(q.id).hole, "CONNECT", None, AddressIn(q), TRUE)
          \in responses' \cup unsent'
    BY <2>1, <2>5 DEF Connects, News
  <2> QED BY <2>2, <2>7, <2>8, <2>9 DEF Answer
<1>3. ASSUME NEW m \in responses' \ responses, m.type = "CONNECT"
      PROVE  Connect
  <2>1. ServerStep
    BY <1>3 DEF Next, Routine, SenderStep, AskServerToAssignID, UpdateAddress,
      SendToServer, WaitForPeerAddress, GotID, GotHeartbeatResponse,
      LookupAddressForID, EndpointStep, ConnectToPeer, GotPeerAddress,
      GotPeerResponse, Timeout, StopMachine, SendFails, ConnectToSender,
      Restart, vars, net
  <2>2. ~Register /\ ~Heartbeat
    BY <1>3 DEF Register, Heartbeat, Answer
  <2> QED BY <2>1, <2>2 DEF ServerStep
<1> QED BY <1>1, <1>2, <1>3 DEF AnswersTellBoth

LEMMA NewPeer ==
  ASSUME TypeOK, [Next]_vars, NEW e \in Endpoint, peer'[e] # peer[e]
  PROVE  GotPeerAddress(e)
<1>1. ~Same(e)
  BY DEF Same
<1>2. Acts(e)
  <2>1. CASE UNCHANGED vars
    BY <2>1 DEF vars, own
  <2> QED BY <1>1, <2>1, NextCases, OthersStay, ServerIsApart
<1>3. ~ConnectToSender(e) /\ ~SendFails(e) /\ ~GotPeerResponse(e)
  BY DEF ConnectToSender, SendFails, GotPeerResponse, own
<1> QED BY <1>2, <1>3, MachineMoves, BlockKeeps

LEMMA BothToldStep ==
  ASSUME IInv, Grows, [Next]_vars
  PROVE  BothTold'
<1>0. TypeOK
  BY DEF IInv
<1>1. ASSUME NEW r \in Receiver, peer'[r].hole # None
      PROVE  \E m \in responses' \cup unsent' :
               /\ m.type = "CONNECT" /\ m.to = peer'[r].hole
               /\ m.address \in PairOf(r)
  <2>1. CASE peer'[r] = peer[r]
    BY <1>1, <2>1 DEF IInv, BothTold, Grows
  <2>2. CASE peer'[r] # peer[r]
    <3>1. GotPeerAddress(r) /\ r \in Endpoint
      BY <1>0, <2>2, NewPeer DEF Endpoint
    <3>2. PICK m \in Arrived(r, "CONNECT") :
            IF m.address = NoAddress
              THEN peer' = [peer EXCEPT ![r] = [hole |-> None, local |-> @.local]]
              ELSE peer' = [peer EXCEPT ![r] = m.address]
      BY <3>1 DEF GotPeerAddress
    <3>3. m.address # NoAddress /\ peer'[r] = m.address
      BY <1>0, <1>1, <3>1, <3>2 DEF TypeOK
    <3> QED BY <3>2, <3>3 DEF Arrived, IInv, AnswersTellBoth, Grows
  <2> QED BY <2>1, <2>2
<1> QED BY <1>1 DEF BothTold

LEMMA BlockedIsWaitingStep ==
  ASSUME IInv, [Next]_vars
  PROVE  BlockedIsWaiting'
<1>0. TypeOK /\ BlockedIsWaiting
  BY DEF IInv
<1> DEFINE Waiting == {"askServerToAssignID", "updateAddress",
              "waitForPeerAddress", "lookupAddressForID"} \cup Connecting
<1>1. ASSUME NEW e \in Endpoint, blocked'[e]
      PROVE  st'[e] \in Waiting
  <2>1. CASE Same(e)
    BY <1>0, <1>1, <2>1 DEF BlockedIsWaiting, Same
  <2>2. CASE Acts(e)
    <3>1. \A event : ~Return(e, event)
      BY <1>0, <1>1, ReturnIsLocal
    <3>2. ~SendFails(e)
      BY <1>0, <1>1 DEF SendFails, TypeOK
    <3>3. ~ConnectToSender(e) \/ e \notin Receiver
      BY <1>0, <1>1 DEF ConnectToSender, TypeOK, IInv, IdleIsFresh
    <3> QED BY <2>2, <3>1, <3>2, <3>3 DEF Acts, Routine, SenderStep,
      AskServerToAssignID, UpdateAddress, WaitForPeerAddress, GotID,
      GotHeartbeatResponse, LookupAddressForID, EndpointStep, ConnectToPeer,
      GotPeerAddress, GotPeerResponse, Timeout, StopMachine, Block
  <2>3. Same(e) \/ Acts(e)
    <3>1. CASE UNCHANGED vars
      BY <3>1 DEF Same, vars, fsm, own
    <3> QED BY <1>0, <3>1, NextCases, OthersStay, ServerIsApart
  <2> QED BY <2>1, <2>2, <2>3
<1> QED BY <1>1 DEF BlockedIsWaiting

(* The tables have an entry for every event that a routine returns, except *)
(* for a peer's address that comes instead of the answer to a heartbeat.   *)
LEMMA TablesAnswer ==
  ASSUME NEW e,
         NEW state \in IF e \in Sender THEN SenderStates ELSE ReceiverStates,
         NEW event,
         \/ event = "timeout" /\ state \notin {"connected", "invalidID"}
         \/ event = "gotPeerAddress"
              /\ state \in {"waitForPeerAddress", "lookupAddressForID"}
         \/ event = "peerResponse" /\ state \in Connecting
         \/ event = "stopMachine" /\ state \in {"connected", "invalidID"}
         \/ event = "gotID" /\ state = "askServerToAssignID"
         \/ event \in {"updateAddressACK", "error"} /\ state = "updateAddress"
  PROVE  NoTransition \notin Following(Table(e), state, event)
<1>1. \A t \in SenderTable \cup ReceiverTable : t[3] # NoTransition
  BY DEF SenderTable, ReceiverTable, AttemptTable, NoTransition, Stop
<1>2. \E t \in Table(e) : t[1] = state /\ t[2] = event
  <2>1. CASE e \in Sender
    <3>1. \E next : <<state, event, next>> \in SenderTable
      BY <2>1 DEF SenderTable, AttemptTable, SenderStates, Connecting, Remotes
    <3> QED BY <2>1, <3>1 DEF Table
  <2>2. CASE e \notin Sender
    <3>1. \E next : <<state, event, next>> \in ReceiverTable
      BY <2>2 DEF ReceiverTable, AttemptTable, ReceiverStates, Connecting, Remotes
    <3> QED BY <2>2, <3>1 DEF Table
  <2> QED BY <2>1, <2>2
<1> QED BY <1>1, <1>2 DEF Following, Table

(* Only the overtaken answer to a heartbeat makes a machine throw. *)
LEMMA NoTransitionOnlyByOvertaking ==
  ASSUME IInv, NEW e \in Endpoint, Acts(e), st'[e] = NoTransition,
         st[e] # NoTransition
  PROVE  e \in Sender /\ GotPeerAddress(e) /\ Return(e, "gotPeerAddress")
<1>0. TypeOK /\ BlockedIsWaiting
  BY DEF IInv
<1>1. ASSUME NEW event, Return(e, event)
      PROVE  NoTransition \in Following(Table(e), st[e], event)
  BY <1>0, <1>1, ReturnIsLocal
<1>2. blocked[e] \/ st[e] \in {"connected", "invalidID"} =>
        st[e] \in IF e \in Sender THEN SenderStates ELSE ReceiverStates
  BY <1>0 DEF BlockedIsWaiting, TypeOK, Connecting, Remotes, SenderStates,
     ReceiverStates, Ends, Stop, NoTransition, Aborted, Endpoint
<1>3. blocked[e] => st[e] \notin {"connected", "invalidID"}
  BY <1>0 DEF BlockedIsWaiting, Connecting, Remotes
<1>4. ~Timeout(e)
  BY <1>1, <1>2, <1>3, TablesAnswer DEF Timeout
<1>5. ~StopMachine(e)
  BY <1>1, <1>2, TablesAnswer DEF StopMachine
<1>6. ~GotPeerResponse(e)
  BY <1>1, <1>2, TablesAnswer DEF GotPeerResponse
<1>7. ~(GotID(e) \/ GotHeartbeatResponse(e))
  BY <1>1, <1>2, TablesAnswer DEF GotID, GotHeartbeatResponse
<1>8. \A state : ~Block(e, state)
  BY DEF Block
<1>9. ~SendFails(e) /\ ~ConnectToSender(e)
  BY <1>0 DEF SendFails, ConnectToSender, Aborted, NoTransition, TypeOK
<1>10. GotPeerAddress(e)
  BY <1>4, <1>5, <1>6, <1>7, <1>8, <1>9 DEF Acts, Routine, SenderStep,
     AskServerToAssignID, UpdateAddress, WaitForPeerAddress,
     LookupAddressForID, EndpointStep, ConnectToPeer
<1>11. /\ blocked[e] /\ (Return(e, "timeout") \/ Return(e, "gotPeerAddress"))
       /\ st[e] \in {"updateAddress", "waitForPeerAddress", "lookupAddressForID"}
  BY <1>10 DEF GotPeerAddress
<1>12. ~Return(e, "timeout")
  BY <1>1, <1>2, <1>3, <1>11, TablesAnswer
<1>13. e \in Sender
  BY <1>1, <1>2, <1>11, <1>12, TablesAnswer DEF ReceiverStates, Connecting, Remotes
<1> QED BY <1>10, <1>11, <1>12, <1>13

(* What makes run throw is a partner's addresses, not the empty answer.    *)
LEMMA OnlyMissingTransitionStep ==
  ASSUME IInv, [Next]_vars, NEW e \in Endpoint,
         st[e] # NoTransition, st'[e] = NoTransition
  PROVE  /\ e \in Sender /\ st[e] = "updateAddress"
         /\ GotPeerAddress(e) /\ peer'[e].hole # None
<1>0. TypeOK
  BY DEF IInv
<1>1. Acts(e)
  <2>1. ~Same(e)
    BY DEF Same
  <2>2. ~UNCHANGED vars
    BY DEF vars, fsm
  <2> QED BY <1>0, <2>1, <2>2, NextCases, OthersStay, ServerIsApart
<1>2. e \in Sender /\ GotPeerAddress(e) /\ Return(e, "gotPeerAddress")
  BY <1>1, NoTransitionOnlyByOvertaking
<1>3. /\ st[e] \in {"updateAddress", "waitForPeerAddress", "lookupAddressForID"}
      /\ st[e] \in SenderStates
  BY <1>0, <1>2 DEF GotPeerAddress, TypeOK, Ends, Stop, NoTransition, Aborted
<1>4. NoTransition \in Following(Table(e), st[e], "gotPeerAddress")
  BY <1>0, <1>2, ReturnIsLocal
<1>5. st[e] = "updateAddress"
  <2>1. st[e] # "waitForPeerAddress"
    BY <1>2, <1>3, <1>4, TablesAnswer
  <2>2. "lookupAddressForID" \notin SenderStates
    BY DEF SenderStates, Connecting, Remotes
  <2> QED BY <1>3, <2>1, <2>2
<1>6. PICK m \in Arrived(e, "CONNECT") :
        \/ Return(e, "timeout") /\ m.address = NoAddress
        \/ peer' = [peer EXCEPT ![e] = m.address] /\ m.address # NoAddress
  BY <1>2 DEF GotPeerAddress
<1>7. ~Return(e, "timeout")
  BY <1>0, <1>2, <1>3, ReturnIsLocal, TablesAnswer
<1>8. PICK f \in Endpoint : m.address \in PairOf(f)
  BY <1>6, <1>7 DEF Arrived, IInv, ResponsesHonest
<1>9. peer'[e].hole # None
  BY <1>0, <1>6, <1>7, <1>8, AddressTypes DEF TypeOK, PairOf
<1> QED BY <1>2, <1>5, <1>9

-----------------------------------------------------------------------------
(* The theorems.                                                           *)

LEMMA IInvStep == IInv /\ [Next]_vars => IInv'
<1> SUFFICES ASSUME IInv, [Next]_vars PROVE IInv'
  OBVIOUS
<1>1. Grows
  BY StepGrows DEF IInv
<1>2. TypeOK'
  BY TypeOKStep DEF IInv
<1> QED BY <1>1, <1>2, RequestsHonestStep, ResponsesHonestStep,
     HellosHonestStep, MapIsHonestStep, IdentifierIsOwnStep, IdleIsFreshStep,
     KnownIsIssuedStep, PeerIsPartnerStep, ConnectingKnocksStep, LinkMeansDoneStep,
     ConnectedMetStep, AnswersTellBothStep, BothToldStep,
     BlockedIsWaitingStep DEF IInv

(* The inductive invariant holds of every reachable state. *)
THEOREM Invariance == Spec => []IInv
BY InitIInv, IInvStep, PTL DEF Spec

(* The server never stores for an id an address of anybody but the sender  *)
(* that the id was made for: holepoked.cc's map under restarts, late and   *)
(* repeated heartbeats.                                                    *)
THEOREM MapSafety == Spec => []MapIsHonest
<1>1. IInv => MapIsHonest
  BY DEF IInv
<1> QED BY <1>1, Invariance, PTL

(* The addresses that updatePeerAddresses stores are those of a partner of *)
(* one introduction.                                                       *)
THEOREM IntroductionSafety == Spec => []PeerIsPartner
<1>1. IInv => PeerIsPartner
  BY DEF IInv
<1> QED BY <1>1, Invariance, PTL

(* An endpoint whose isConnected is true has greeted its partner, and the  *)
(* address that getPeerAddress returns is one that the partner's HELLO     *)
(* came from.                                                              *)
THEOREM ConnectionSafety == Spec => []ConnectedMet
<1>1. IInv => ConnectedMet
  BY DEF IInv
<1> QED BY <1>1, Invariance, PTL

(* A receiver that has an address to try is expected: the server has sent  *)
(* its addresses to the address that it will try, unless sendto failed.    *)
THEOREM BothAreTold == Spec => []BothTold
<1>1. IInv => BothTold
  BY DEF IInv
<1> QED BY <1>1, Invariance, PTL

(* No machine throws for want of an entry in its table but a sender's that *)
(* gets a CONNECT response instead of the answer to its heartbeat: every   *)
(* other event that a routine returns in any state has an entry.           *)
THEOREM TablesAreCompleteButForOne == Spec => OnlyMissingTransition
<1>1. IInv /\ [Next]_vars =>
        [\A e \in Endpoint : st[e] # NoTransition /\ st'[e] = NoTransition =>
           /\ e \in Sender /\ st[e] = "updateAddress"
           /\ GotPeerAddress(e) /\ peer'[e].hole # None]_vars
  BY OnlyMissingTransitionStep
<1> QED BY <1>1, Invariance, PTL DEF Spec, OnlyMissingTransition

(* What getPeerAddress returns does not change once it is connected. *)
THEOREM ConnectionFinality == Spec => ConnectionIsFinal
<1>1. IInv /\ [Next]_vars =>
        [\A e \in Endpoint : link[e] # "none" =>
           peer'[e] = peer[e] /\ link'[e] = link[e]]_<<peer, link>>
  BY LinkedStays
<1> QED BY <1>1, Invariance, PTL DEF Spec, ConnectionIsFinal

-----------------------------------------------------------------------------
(* Holepoke implements Introduction: however datagrams are lost, repeated  *)
(* or late, and however often the server restarts, nobody is met who was   *)
(* not introduced and has not knocked.                                     *)

(* An address has one host. *)
LEMMA HostIsUnique ==
  ASSUME NEW e \in Endpoint, NEW a \in AddrsOf(e)
  PROVE  HostOf(a) = e
BY AddressesDisjoint DEF HostOf

LEMMA InitImplements == Init => Introductions!Init
<1> SUFFICES ASSUME Init PROVE Introductions!Init
  OBVIOUS
<1>1. introduced = {}
  BY NoneApart DEF Init, introduced, Introduced
<1>2. knocked = {}
  BY DEF Init, knocked
<1>3. met = [e \in Endpoint |-> None]
  BY DEF Init, met
<1>4. Endpoint = Introductions!End
  BY DEF Endpoint, Introductions!End
<1> QED BY <1>1, <1>2, <1>3, <1>4 DEF Introductions!Init

(* The view of the state. *)
LEMMA KnockedByHello ==
  ASSUME NEW h \in hellos, NEW e \in Endpoint, NEW f \in Endpoint,
         h.from \in AddrsOf(e), h.to \in AddrsOf(f)
  PROVE  <<e, f>> \in knocked
BY HostIsUnique DEF knocked

LEMMA KnockedGrows ==
  ASSUME NEW e \in Endpoint, NEW f \in Endpoint, NEW a \in AddrsOf(e),
         NEW to \in AddrsOf(f),
         hellos' = hellos \cup {[from |-> a, to |-> to]}
  PROVE  knocked' = knocked \cup {<<e, f>>}
<1> DEFINE pair(h) == <<HostOf(h.from), HostOf(h.to)>>
           new == [from |-> a, to |-> to]
<1>1. pair(new) = <<e, f>>
  BY HostIsUnique
<1>2. knocked = {pair(h) : h \in hellos} /\ knocked' = {pair(h) : h \in hellos'}
  BY DEF knocked
<1>3. \A h \in hellos' : h \in hellos \/ h = new
  OBVIOUS
<1>4. new \in hellos' /\ hellos \subseteq hellos'
  OBVIOUS
<1> HIDE DEF pair, new
<1> QED BY <1>1, <1>2, <1>3, <1>4

LEMMA PartnersAreKnown ==
  ASSUME NEW e \in Endpoint, NEW f \in Endpoint, Partners(e, f)
  PROVE  <<e, f>> \in Introductions!Known
<1>1. CASE e \in Sender /\ f \in Receiver /\ Introduced(e, f)
  BY <1>1 DEF introduced, Introductions!Known
<1>2. CASE f \in Sender /\ e \in Receiver /\ Introduced(f, e)
  <2>1. <<f, e>> \in introduced
    BY <1>2 DEF introduced
  <2>2. <<e, f>> \in {<<p[2], p[1]>> : p \in introduced}
    BY <2>1
  <2> QED BY <2>2 DEF Introductions!Known
<1> QED BY <1>1, <1>2 DEF Partners

(* Only ConnectToSender introduces anybody: an id is issued before a user  *)
(* can pass it on.                                                         *)
LEMMA IntroducedStays ==
  ASSUME IInv, [Next]_vars, UNCHANGED senderID
  PROVE  UNCHANGED introduced
<1>1. ASSUME NEW s \in Sender, NEW r \in Receiver
      PROVE  Introduced(s, r)' <=> Introduced(s, r)
  <2>1. CASE senderID[r] \notin ID
    BY <2>1 DEF Introduced
  <2>2. CASE senderID[r] \in ID
    <3>1. issuedTo[senderID[r]] # None
      BY <2>2 DEF IInv, KnownIsIssued
    <3>2. issuedTo'[senderID[r]] = issuedTo[senderID[r]]
      BY <2>2, <3>1, StepGrows DEF Grows, IInv
    <3> QED BY <3>2 DEF Introduced
  <2> QED BY <2>1, <2>2
<1>2. introduced' = {p \in Sender \X Receiver : Introduced(p[1], p[2])'}
  BY DEF introduced
<1>3. \A p \in Sender \X Receiver : p[1] \in Sender /\ p[2] \in Receiver
  OBVIOUS
<1> QED BY <1>1, <1>2, <1>3 DEF introduced

(* Who is met does not change while nobody gets connected. *)
LEMMA MetStays ==
  ASSUME IInv, [Next]_vars, UNCHANGED link
  PROVE  UNCHANGED met
<1>1. \A e \in Endpoint : link[e] # "none" => peer'[e] = peer[e]
  BY LinkedStays
<1> QED BY <1>1 DEF met

LEMMA KnockImplements ==
  ASSUME IInv, [Next]_vars, NEW e \in Endpoint, ConnectToPeer(e)
  PROVE  \E f \in Endpoint : Introductions!Knock(e, f)
<1>1. st[e] \in Connecting /\ SendHello(e) /\ UNCHANGED own
  BY DEF ConnectToPeer, Block
<1>2. PICK f \in Endpoint :
        /\ Partners(e, f)
        /\ \E a \in AddrsOf(e), to \in AddrsOf(f) :
             hellos' = hellos \cup {[from |-> a, to |-> to]}
  BY <1>1, SendHelloIsHonest
<1>3. knocked' = knocked \cup {<<e, f>>}
  BY <1>2, KnockedGrows
<1>4. UNCHANGED <<introduced, met>>
  BY <1>1, IntroducedStays, MetStays DEF own
<1>5. <<e, f>> \in Introductions!Known
  BY <1>2, PartnersAreKnown
<1> QED BY <1>3, <1>4, <1>5 DEF Introductions!Knock

LEMMA MeetImplements ==
  ASSUME IInv, [Next]_vars, NEW e \in Endpoint, GotPeerResponse(e)
  PROVE  \E f \in Endpoint : Introductions!Meet(e, f)
<1>0. TypeOK
  BY DEF IInv
<1>1. st[e] \in Connecting /\ blocked[e] /\ peer' = peer /\ senderID' = senderID
  BY DEF GotPeerResponse
<1>2. PICK f \in Endpoint : Partners(e, f) /\ peer[e] \in PairOf(f)
  BY <1>1 DEF IInv, ConnectingKnocks, PeerIsPartner
<1>3. Target(e) \in AddrsOf(f) /\ peer[e].hole \in AddrsOf(f)
  BY <1>2 DEF Target, PairOf
<1>4. PICK out \in hellos : out.from \in AddrsOf(e) /\ out.to = Target(e)
  BY <1>1 DEF IInv, ConnectingKnocks
<1>5. PICK in \in hellos : in.to \in AddrsOf(e) /\ in.from = Target(e)
  BY DEF GotPeerResponse, HelloArrived
<1>6. <<e, f>> \in knocked /\ <<f, e>> \in knocked
  BY <1>3, <1>4, <1>5, KnockedByHello
<1>7. knocked' = knocked
  <2>1. CASE UNCHANGED hellos
    BY <2>1 DEF knocked
  <2>2. CASE SendHello(e)
    <3>1. PICK a, to : /\ hellos' = hellos \cup {[from |-> a, to |-> to]}
                       /\ a \in AddrsOf(e) /\ to = Target(e)
      BY <1>1, <2>2, SendHelloIsHonest
    <3>2. knocked' = knocked \cup {<<e, f>>}
      BY <1>3, <3>1, KnockedGrows
    <3> QED BY <1>6, <3>2
  <2> QED BY <2>1, <2>2 DEF GotPeerResponse
<1>8. met[e] = None
  <2>1. link[e] = "none"
    BY <1>1 DEF IInv, LinkMeansDone, Ends, Stop, NoTransition, Aborted,
       Connecting, Remotes
  <2> QED BY <2>1 DEF met
<1>9. met' = [met EXCEPT ![e] = f]
  <2>1. link'[e] # "none" /\ \A g \in Endpoint \ {e} : link'[g] = link[g]
    BY <1>0 DEF GotPeerResponse, TypeOK
  <2>2. HostOf(peer[e].hole) = f
    BY <1>3, HostIsUnique
  <2> QED BY <1>1, <2>1, <2>2 DEF met
<1>10. introduced' = introduced
  BY <1>1, IntroducedStays
<1> QED BY <1>6, <1>7, <1>8, <1>9, <1>10 DEF Introductions!Meet

LEMMA IntroduceImplements ==
  ASSUME IInv, [Next]_vars, NEW r \in Receiver, ConnectToSender(r)
  PROVE  \/ \E s \in Sender : Introductions!Introduce(s, r)
         \/ UNCHANGED <<introduced, knocked, met>>
<1>0. TypeOK
  BY DEF IInv
<1>1. UNCHANGED <<knocked, met>>
  <2>1. UNCHANGED hellos /\ UNCHANGED link
    BY DEF ConnectToSender, net
  <2> QED BY <2>1, MetStays DEF knocked
<1>2. \A s \in Sender : ~Introduced(s, r)
  BY AddressTypes DEF ConnectToSender, IInv, IdleIsFresh, Introduced
<1>3. \A s \in Sender, q \in Receiver \ {r} : Introduced(s, q)' <=> Introduced(s, q)
  BY <1>0 DEF ConnectToSender, Introduced, TypeOK, server
<1>4. introduced' = {p \in Sender \X Receiver : Introduced(p[1], p[2])'}
  BY DEF introduced
<1>5. CASE \E s \in Sender : Introduced(s, r)'
  <2>1. PICK s \in Sender : Introduced(s, r)'
    BY <1>5
  <2>2. \A d \in Sender : Introduced(d, r)' => d = s
    BY <2>1, AddressesDisjoint DEF Introduced, Endpoint
  <2>3. introduced' = introduced \cup {<<s, r>>}
    BY <1>2, <1>3, <1>4, <2>1, <2>2 DEF introduced
  <2>4. \A p \in introduced : p[2] # r
    BY <1>2 DEF introduced
  <2> QED BY <1>1, <2>3, <2>4 DEF Introductions!Introduce
<1>6. CASE ~\E s \in Sender : Introduced(s, r)'
  <2>1. introduced' = introduced
    BY <1>2, <1>3, <1>4, <1>6 DEF introduced
  <2> QED BY <1>1, <2>1
<1> QED BY <1>5, <1>6

(* Every step is a step of Introduction or does not show. *)
LEMMA StepImplements ==
  IInv /\ [Next]_vars => [Introductions!Next]_Introductions!vars
<1> SUFFICES ASSUME IInv, [Next]_vars
             PROVE  [Introductions!Next]_Introductions!vars
  OBVIOUS
<1>1. Endpoint = Introductions!End
  BY DEF Endpoint, Introductions!End
<1>2. CASE \E e \in Endpoint : ConnectToPeer(e)
  BY <1>1, <1>2, KnockImplements DEF Introductions!Next
<1>3. CASE \E e \in Endpoint : GotPeerResponse(e)
  BY <1>1, <1>3, MeetImplements DEF Introductions!Next
<1>4. CASE \E r \in Receiver : ConnectToSender(r)
  BY <1>4, IntroduceImplements DEF Introductions!Next, Introductions!vars
<1>5. CASE UNCHANGED <<senderID, link, hellos>>
  <2>1. UNCHANGED <<introduced, met, knocked>>
    BY <1>5, IntroducedStays, MetStays DEF knocked
  <2> QED BY <2>1 DEF Introductions!vars
<1>6. \/ \E e \in Endpoint : ConnectToPeer(e)
      \/ \E e \in Endpoint : GotPeerResponse(e)
      \/ \E r \in Receiver : ConnectToSender(r)
      \/ UNCHANGED <<senderID, link, hellos>>
  BY DEF Next, Routine, SenderStep, AskServerToAssignID, UpdateAddress,
    SendToServer, WaitForPeerAddress, GotID, GotHeartbeatResponse,
    LookupAddressForID, EndpointStep, GotPeerAddress, Timeout, StopMachine,
    SendFails, ServerStep, Register, Heartbeat, Connect, Restart, vars, own, net
<1> QED BY <1>2, <1>3, <1>4, <1>5, <1>6

(* Sender, Receiver and holepoked together implement Introduction. *)
THEOREM Implementation == Spec => ImplementsIntroduction
BY InitImplements, StepImplements, Invariance, PTL
   DEF Spec, ImplementsIntroduction, Introductions!Spec

=============================================================================
