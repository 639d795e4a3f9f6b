------------------------------ MODULE Holepoke ------------------------------
(***************************************************************************)
(* Hole punching: the rendezvous server holepoked, holepoke::Sender and    *)
(* holepoke::Receiver objects, and the datagrams between them.             *)
(*                                                                         *)
(* Every element of Sender or Receiver is one object with its own UDP      *)
(* socket.  Its state machine (HolepokeFsm) runs in two kinds of step: the *)
(* routine of the current state sends, then blocks in select; what arrives *)
(* before the three seconds of _kRetryInterval are over, or nothing, gives *)
(* the event that picks the next state.                                    *)
(*                                                                         *)
(* The network is three sets of datagrams that only grow.  A datagram that *)
(* is never read again was lost; one that is read twice was duplicated;    *)
(* any order of reading is a possible order of arrival.                    *)
(*                                                                         *)
(* A NAT may show any address of Public[e] as the source of a datagram of  *)
(* e that leaves e's network: mappings differ between destinations, expire *)
(* and are renewed.  An endpoint that is not behind a NAT has              *)
(* Public[e] = {Local[e]}.  Filtering by the NAT is loss.                  *)
(***************************************************************************)
EXTENDS HolepokeFsm, Naturals

CONSTANTS
  Sender,      \* the holepoke::Sender objects
  Receiver,    \* the holepoke::Receiver objects
  ID,          \* the uuids that GetUUID returns
  BogusID,     \* an id that no server issued (a typing error of the user)
  None,
  Local,       \* Local[e]: what getsockname says of e's socket
  Public,      \* Public[e]: the sources that e's datagrams may show outside
  SendMayFail  \* whether sendto may fail (no route, no buffers)

Endpoint == Sender \cup Receiver
AddrsOf(e) == {Local[e]} \cup Public[e]
Addr == UNION {AddrsOf(e) : e \in Endpoint}

ASSUME KindsDisjoint == Sender \cap Receiver = {}
ASSUME AddressesDisjoint ==
  \A e, f \in Endpoint : e # f => AddrsOf(e) \cap AddrsOf(f) = {}
ASSUME PublicNonEmpty == \A e \in Endpoint : Public[e] # {}
ASSUME NoneApart == None \notin Addr \cup ID \cup {BogusID}
ASSUME BogusApart == BogusID \notin ID
ASSUME SendMayFailType == SendMayFail \in BOOLEAN

VARIABLES
  st,             \* FiniteStateMachine::_state of every endpoint
  blocked,        \* the routine has sent and is in ProtoBufRecvFromWithTimeout
  identifier,     \* Sender::_identifier
  announced,      \* the ids that SenderDelegate::gotID has shown to a user
  senderID,       \* Receiver::_senderID
  peer,           \* Endpoint::_peerAddress (hole) and _peerLocalAddress (local)
  link,           \* is_connected and connected_locally
  requests,       \* Request datagrams sent to the server
  responses,      \* Response datagrams sent by the server
  hellos,         \* HELLO datagrams between endpoints
  idToAddressMap, \* the server's map
  issuedTo,       \* history: the source of the REGISTER an id was made for
  unsent          \* history: what sendto failed to send to a sender

fsm == <<st, blocked>>
own == <<identifier, announced, senderID, peer, link>>
net == <<requests, responses, hellos>>
server == <<idToAddressMap, issuedTo, unsent>>
vars == <<fsm, own, net, server>>

NoAddress == [hole |-> None, local |-> None]
AddressPair == [hole : Addr \cup {None}, local : Addr \cup {None}]

Request ==
  [type : {"REGISTER", "HEARTBEAT", "CONNECT"}, from : Addr,
   id : ID \cup {BogusID, None}, local : Addr]

Response ==
  {m \in [type : {"REGISTER", "HEARTBEAT", "CONNECT"}, to : Addr,
          id : ID \cup {None}, address : AddressPair, successful : BOOLEAN] :
     m.type = "REGISTER" => m.id \in ID}

Hello == [from : Addr, to : Addr \cup {None}]

Init ==
  /\ st = [e \in Endpoint |->
             IF e \in Sender THEN "askServerToAssignID" ELSE "idle"]
  /\ blocked = [e \in Endpoint |-> FALSE]
  /\ identifier = [s \in Sender |-> None]
  /\ announced = {}
  /\ senderID = [r \in Receiver |-> None]
  /\ peer = [e \in Endpoint |-> NoAddress]
  /\ link = [e \in Endpoint |-> "none"]
  /\ requests = {} /\ responses = {} /\ hellos = {}
  /\ idToAddressMap = [id \in ID |-> NoAddress]
  /\ issuedTo = [id \in ID |-> None]
  /\ unsent = {}

-----------------------------------------------------------------------------
(* FiniteStateMachine::run, around the routines.                           *)

(* run looks up the event that the routine returned.                       *)
Table(e) == IF e \in Sender THEN SenderTable ELSE ReceiverTable

Return(e, event) ==
  /\ \E state \in Following(Table(e), st[e], event) :
       st' = [st EXCEPT ![e] = state]
  /\ blocked' = [blocked EXCEPT ![e] = FALSE]

(* The routine of a state has sent what it sends and waits for an answer.  *)
Block(e, state) ==
  /\ st[e] = state /\ ~blocked[e]
  /\ blocked' = [blocked EXCEPT ![e] = TRUE]
  /\ UNCHANGED st

(* connectToSender: the user passes on an id that a sender showed, or an   *)
(* id that does not exist.                                                 *)
ConnectToSender(r) ==
  /\ st[r] = "idle"
  /\ \E id \in announced \cup {BogusID} :
       senderID' = [senderID EXCEPT ![r] = id]
  /\ st' = [st EXCEPT ![r] = "lookupAddressForID"]
  /\ UNCHANGED <<blocked, identifier, announced, peer, link, net, server>>

-----------------------------------------------------------------------------
(* The first half of each routine: what it sends.                          *)

(* The HELLO that opens the port and that the server ignores is left out.  *)
SendToServer(e, type, id) ==
  /\ \E a \in Public[e] :
       requests' = requests \cup
         {[type |-> type, from |-> a, id |-> id, local |-> Local[e]]}
  /\ UNCHANGED <<own, responses, hellos, server>>

AskServerToAssignID(s) ==
  Block(s, "askServerToAssignID") /\ SendToServer(s, "REGISTER", None)

UpdateAddress(s) ==
  Block(s, "updateAddress") /\ SendToServer(s, "HEARTBEAT", identifier[s])

WaitForPeerAddress(s) ==
  Block(s, "waitForPeerAddress") /\ UNCHANGED <<own, net, server>>

LookupAddressForID(r) ==
  Block(r, "lookupAddressForID") /\ SendToServer(r, "CONNECT", senderID[r])

(* A private address is reached inside its network only, without a NAT.    *)
Private == {Local[e] : e \in Endpoint} \ UNION {Public[e] : e \in Endpoint}
Source(e, to) == IF to \in Private THEN {Local[e]} ELSE Public[e]

Target(e) ==
  IF st[e] = "localConnectToPeer" THEN peer[e].local ELSE peer[e].hole

SendHello(e) ==
  \E a \in Source(e, Target(e)) :
    hellos' = hellos \cup {[from |-> a, to |-> Target(e)]}

(* stLocalConnectToPeer and stRemoteConnectToPeer, up to the wait.         *)
ConnectToPeer(e) ==
  /\ \E state \in Connecting : Block(e, state)
  /\ SendHello(e)
  /\ UNCHANGED <<own, requests, responses, server>>

-----------------------------------------------------------------------------
(* The second half: what the routine makes of what arrives.  A datagram    *)
(* that is not from the server (first four states) or not from the peer    *)
(* (connecting) is skipped and leaves no trace.                            *)

Arrived(e, type) == {m \in responses : m.type = type /\ m.to \in AddrsOf(e)}

GotID(s) ==
  /\ st[s] = "askServerToAssignID" /\ blocked[s]
  /\ \E m \in Arrived(s, "REGISTER") :
       /\ identifier' = [identifier EXCEPT ![s] = m.id]
       /\ announced' = announced \cup {m.id}
  /\ Return(s, "gotID")
  /\ UNCHANGED <<senderID, peer, link, net, server>>

GotHeartbeatResponse(s) ==
  /\ st[s] = "updateAddress" /\ blocked[s]
  /\ \E m \in Arrived(s, "HEARTBEAT") :
       Return(s, IF m.successful THEN "updateAddressACK" ELSE "error")
  /\ UNCHANGED <<own, net, server>>

(* updatePeerAddresses fails on the empty answer to an unknown id, after   *)
(* it has cleared _peerAddressLen; the caller takes that for a timeout.    *)
GotPeerAddress(e) ==
  /\ st[e] \in {"updateAddress", "waitForPeerAddress", "lookupAddressForID"}
  /\ blocked[e]
  /\ \E m \in Arrived(e, "CONNECT") :
       IF m.address = NoAddress
         THEN /\ peer' = [peer EXCEPT ![e] = [hole |-> None, local |-> @.local]]
              /\ Return(e, "timeout")
         ELSE /\ peer' = [peer EXCEPT ![e] = m.address]
              /\ Return(e, "gotPeerAddress")
  /\ UNCHANGED <<identifier, announced, senderID, link, net, server>>

(* A slip: the source of the HELLO is not compared with the peer. *)
HelloArrivedFromAnybody(e) == \E h \in hellos : h.to \in AddrsOf(e)

HelloArrived(e) ==
  \E h \in hellos : h.to \in AddrsOf(e) /\ h.from = Target(e)

(* Only the local routine answers a HELLO before it returns.               *)
GotPeerResponse(e) ==
  /\ st[e] \in Connecting /\ blocked[e] /\ HelloArrived(e)
  /\ IF st[e] = "localConnectToPeer"
       THEN /\ SendHello(e)
            /\ link' = [link EXCEPT ![e] = "local"]
       ELSE /\ link' = [link EXCEPT ![e] = "remote"]
            /\ UNCHANGED hellos
  /\ Return(e, "peerResponse")
  /\ UNCHANGED <<identifier, announced, senderID, peer, requests, responses,
                 server>>

(* select times out, the datagram does not parse, or it is a response of a *)
(* type that the routine does not expect.                                  *)
Timeout(e) ==
  /\ blocked[e]
  /\ Return(e, "timeout")
  /\ UNCHANGED <<own, net, server>>

(* stConnected and stInvalidID.                                            *)
StopMachine(e) ==
  /\ st[e] \in {"connected", "invalidID"}
  /\ Return(e, "stopMachine")
  /\ UNCHANGED <<own, net, server>>

(* A failed sendto makes the routine throw, be it the first HELLO of a     *)
(* routine or the answer to the peer's.                                    *)
SendFails(e) ==
  /\ SendMayFail
  /\ \/ ~blocked[e] /\ st[e] \in {"askServerToAssignID", "updateAddress",
                                  "lookupAddressForID"} \cup Connecting
     \/ blocked[e] /\ st[e] = "localConnectToPeer" /\ HelloArrived(e)
  /\ st' = [st EXCEPT ![e] = Aborted]
  /\ blocked' = [blocked EXCEPT ![e] = FALSE]
  /\ UNCHANGED <<own, net, server>>

-----------------------------------------------------------------------------
(* holepoked: one datagram per turn of the loop, and nothing on disk.  An  *)
(* answer that cannot be sent to who asked is like one that was lost.      *)

Answer(to, type, id, address, successful) ==
  [type |-> type, to |-> to, id |-> id, address |-> address,
   successful |-> successful]

AddressIn(m) == [hole |-> m.from, local |-> m.local]

(* Slips of the server: an id given twice; a case without a break; an      *)
(* answer without a word to the sender.                                    *)
RegisterTwice ==
  \E m \in requests, id \in ID :
    /\ m.type = "REGISTER"
    /\ issuedTo' = [issuedTo EXCEPT ![id] = m.from]
    /\ idToAddressMap' = [idToAddressMap EXCEPT ![id] = AddressIn(m)]
    /\ responses' =
         responses \cup {Answer(m.from, "REGISTER", id, NoAddress, TRUE)}
    /\ UNCHANGED <<fsm, own, requests, hellos, unsent>>

(* ID bounds the number of ids that a run of the model can issue.          *)
Register ==
  \E m \in requests, id \in ID :
    /\ m.type = "REGISTER" /\ issuedTo[id] = None
    /\ issuedTo' = [issuedTo EXCEPT ![id] = m.from]
    /\ idToAddressMap' = [idToAddressMap EXCEPT ![id] = AddressIn(m)]
    /\ responses' =
         responses \cup {Answer(m.from, "REGISTER", id, NoAddress, TRUE)}
    /\ UNCHANGED <<fsm, own, requests, hellos, unsent>>

HeartbeatFallingThrough ==
  \E m \in requests :
    LET known == m.id \in ID /\ idToAddressMap[m.id] # NoAddress IN
    /\ m.type \in {"HEARTBEAT", "CONNECT"}
    /\ idToAddressMap' = IF known
         THEN [idToAddressMap EXCEPT ![m.id] = AddressIn(m)]
         ELSE idToAddressMap
    /\ responses' =
         responses \cup {Answer(m.from, "HEARTBEAT", None, NoAddress, known)}
    /\ UNCHANGED <<fsm, own, requests, hellos, issuedTo, unsent>>

Heartbeat ==
  \E m \in requests :
    LET known == idToAddressMap[m.id] # NoAddress IN
    /\ m.type = "HEARTBEAT"
    /\ idToAddressMap' = IF known
         THEN [idToAddressMap EXCEPT ![m.id] = AddressIn(m)]
         ELSE idToAddressMap
    /\ responses' =
         responses \cup {Answer(m.from, "HEARTBEAT", None, NoAddress, known)}
    /\ UNCHANGED <<fsm, own, requests, hellos, issuedTo, unsent>>

Lookup(id) == IF id \in ID THEN idToAddressMap[id] ELSE NoAddress

ConnectToldToReceiverOnly ==
  \E m \in requests :
    /\ m.type = "CONNECT"
    /\ responses' = responses
         \cup {Answer(m.from, "CONNECT", None, Lookup(m.id), TRUE)}
    /\ UNCHANGED <<fsm, own, requests, hellos, server>>

(* The answer goes to the receiver; when the id is known, the receiver's   *)
(* addresses go to the sender first.  That this fails is only logged.      *)
Connect ==
  \E m \in requests :
    LET entry == Lookup(m.id)
        news == {Answer(to, "CONNECT", None, AddressIn(m), TRUE) :
                   to \in {entry.hole} \ {None}} IN
    /\ m.type = "CONNECT"
    /\ \E failed \in SUBSET news :
         /\ failed # {} => SendMayFail
         /\ unsent' = unsent \cup failed
         /\ responses' = responses \cup (news \ failed)
              \cup {Answer(m.from, "CONNECT", None, entry, TRUE)}
    /\ UNCHANGED <<fsm, own, requests, hellos, idToAddressMap, issuedTo>>

Restart ==
  /\ idToAddressMap' = [id \in ID |-> NoAddress]
  /\ UNCHANGED <<fsm, own, net, issuedTo, unsent>>

-----------------------------------------------------------------------------

SenderStep(s) ==
  \/ AskServerToAssignID(s) \/ UpdateAddress(s) \/ WaitForPeerAddress(s)
  \/ GotID(s) \/ GotHeartbeatResponse(s)

EndpointStep(e) ==
  \/ ConnectToPeer(e) \/ GotPeerAddress(e) \/ GotPeerResponse(e)
  \/ Timeout(e) \/ StopMachine(e)

Routine(e) ==
  \/ e \in Sender /\ SenderStep(e)
  \/ e \in Receiver /\ LookupAddressForID(e)
  \/ EndpointStep(e)

ServerStep == Register \/ Heartbeat \/ Connect

Next ==
  \/ \E e \in Endpoint : Routine(e) \/ SendFails(e)
  \/ \E r \in Receiver : ConnectToSender(r)
  \/ ServerStep \/ Restart

Spec == Init /\ [][Next]_vars

(* connectToReceiver and connectToSender run in a thread of their own, and *)
(* select returns after three seconds at the latest.                       *)
FairSpec == Spec /\ \A e \in Endpoint : WF_vars(Routine(e))

(* The best network and server: every request is served and no answer is   *)
(* late for ever.                                                          *)
ReliableSpec ==
  /\ FairSpec
  /\ WF_vars(ServerStep)
  /\ \A e \in Endpoint : SF_vars(GotPeerAddress(e))

-----------------------------------------------------------------------------
(* Properties.                                                             *)

(* Every variable has its type; a sender or receiver is in a state of its  *)
(* own table, or its machine has ended.                                    *)
TypeOK ==
  /\ st \in [Endpoint -> SenderStates \cup ReceiverStates \cup {"idle"} \cup Ends]
  /\ \A s \in Sender : st[s] \in SenderStates \cup Ends
  /\ \A r \in Receiver : st[r] \in ReceiverStates \cup {"idle"} \cup Ends
  /\ blocked \in [Endpoint -> BOOLEAN]
  /\ identifier \in [Sender -> ID \cup {None}]
  /\ announced \subseteq ID
  /\ senderID \in [Receiver -> ID \cup {BogusID, None}]
  /\ peer \in [Endpoint -> AddressPair]
  /\ link \in [Endpoint -> {"none", "local", "remote"}]
  /\ requests \subseteq Request
  /\ responses \subseteq Response
  /\ hellos \subseteq Hello
  /\ idToAddressMap \in [ID -> AddressPair]
  /\ issuedTo \in [ID -> Addr \cup {None}]
  /\ unsent \subseteq Response

(* r has asked for an id that the server made for s. *)
Introduced(s, r) ==
  senderID[r] \in ID /\ issuedTo[senderID[r]] \in AddrsOf(s)

(* e and f are the two ends of an introduction. *)
Partners(e, f) ==
  \/ e \in Sender /\ f \in Receiver /\ Introduced(e, f)
  \/ f \in Sender /\ e \in Receiver /\ Introduced(f, e)

PairOf(f) == [hole : AddrsOf(f), local : AddrsOf(f)]

Greeted(e, f) == \E h \in hellos : h.from \in AddrsOf(e) /\ h.to \in AddrsOf(f)

(* What the server stores for an id, however often it was restarted and    *)
(* whichever heartbeats were late or came twice, is a pair of addresses of *)
(* the sender that the id was made for.                                    *)
MapIsHonest ==
  \A id \in ID : idToAddressMap[id] # NoAddress =>
    \E s \in Sender : /\ issuedTo[id] \in AddrsOf(s)
                      /\ idToAddressMap[id] \in PairOf(s)

(* Whatever order its messages come in, an endpoint only ever holds the    *)
(* addresses of one partner: a receiver those of the sender whose id it    *)
(* was given, a sender those of a receiver that was given an id of his.    *)
PeerIsPartner ==
  \A e \in Endpoint : peer[e].hole # None =>
    \E f \in Endpoint : Partners(e, f) /\ peer[e] \in PairOf(f)

(* isConnected means that there is a partner, that both have sent the      *)
(* other a HELLO (both NATs are open), and that getPeerAddress returns the *)
(* address that the partner's HELLO came from.                             *)
ConnectedMet ==
  \A e \in Endpoint : link[e] # "none" =>
    \E f \in Endpoint :
      /\ Partners(e, f) /\ peer[e] \in PairOf(f)
      /\ Greeted(e, f)
      /\ \E h \in hellos :
           /\ h.to \in AddrsOf(e)
           /\ h.from = IF link[e] = "local" THEN peer[e].local ELSE peer[e].hole

(* A receiver that tries to connect is expected: the server has sent the   *)
(* receiver's addresses to the very address that the receiver will try, or *)
(* its sendto failed, which only the server's log tells (then the receiver *)
(* tries in vain).                                                         *)
BothTold ==
  \A r \in Receiver : peer[r].hole # None =>
    \E m \in responses \cup unsent :
      /\ m.type = "CONNECT" /\ m.to = peer[r].hole
      /\ m.address \in PairOf(r)

(* The tables have an entry for every event that a routine returns in any  *)
(* state, but for one: no machine ever throws for want of an entry but a   *)
(* sender's, in the state updateAddress, when a CONNECT response with a    *)
(* partner's addresses arrives instead of the answer to its heartbeat.     *)
OnlyMissingTransition ==
  [][\A e \in Endpoint : st[e] # NoTransition /\ st'[e] = NoTransition =>
       /\ e \in Sender /\ st[e] = "updateAddress"
       /\ GotPeerAddress(e) /\ peer'[e].hole # None]_vars

(* A connection is final: the addresses that getPeerAddress returns and    *)
(* the path do not change under a late CONNECT response or HELLO.          *)
ConnectionIsFinal ==
  [][\A e \in Endpoint : link[e] # "none" =>
       peer'[e] = peer[e] /\ link'[e] = link[e]]_<<peer, link>>

(* An attempt to reach a peer is over after at most five waits, whatever   *)
(* the network does: the machine has ended, or (the sender's) starts over. *)
AttemptEnds ==
  \A e \in Endpoint :
    st[e] \in Connecting ~> st[e] \in Ends \cup {"askServerToAssignID"}

(* The rendezvous implements Introduction, under this view of its state:   *)
(* an address stands for the endpoint it belongs to, and nothing else of   *)
(* ids, maps, retries and restarts shows.                                  *)
HostOf(a) == CHOOSE e \in Endpoint : a \in AddrsOf(e)

introduced == {p \in Sender \X Receiver : Introduced(p[1], p[2])}
knocked == {<<HostOf(h.from), HostOf(h.to)>> : h \in hellos}
met == [e \in Endpoint |->
          IF link[e] = "none" THEN None ELSE HostOf(peer[e].hole)]

Introductions ==
  INSTANCE Introduction WITH Caller <- Receiver, Callee <- Sender, Nobody <- None

ImplementsIntroduction == Introductions!Spec

(* fsm.h:53 says of run that it continues until it reaches kFSMStopState.  *)
(* It does not: a CONNECT response that overtakes the answer to a          *)
(* heartbeat makes it throw.                                               *)
MachineRunsToStop == \A e \in Endpoint : st[e] # NoTransition

(* receiver.h:31 says that connectToSender blocks until the client is      *)
(* connected or an error occurred, and the table has a state invalidID.    *)
(* With an id that the server does not know it never returns, even if      *)
(* every request is answered.                                              *)
InvalidIDIsReported ==
  \A r \in Receiver : senderID[r] = BogusID ~> st[r] \in Ends

-----------------------------------------------------------------------------
(* What makes the properties inductive: each datagram in flight, however   *)
(* old, is as truthful as the state that it will be read in.               *)

(* A request carries addresses of its sender; a heartbeat names an id that *)
(* was made for him, a lookup the id that its receiver was given.          *)
RequestsHonest ==
  \A m \in requests :
    /\ m.type \in {"REGISTER", "HEARTBEAT"} =>
         \E s \in Sender :
           /\ AddressIn(m) \in PairOf(s)
           /\ m.type = "HEARTBEAT" =>
                m.id \in ID /\ issuedTo[m.id] \in AddrsOf(s)
    /\ m.type = "CONNECT" =>
         \E r \in Receiver : /\ AddressIn(m) \in PairOf(r)
                             /\ m.id = senderID[r] /\ m.id # None

(* A REGISTER response goes to whom its id was made for; a CONNECT         *)
(* response tells one partner the addresses of the other.                  *)
ResponsesHonest ==
  \A m \in responses :
    /\ m.type = "REGISTER" => issuedTo[m.id] = m.to
    /\ m.type = "CONNECT" /\ m.address # NoAddress =>
         \E e, f \in Endpoint : /\ Partners(e, f) /\ m.to \in AddrsOf(e)
                                /\ m.address \in PairOf(f)

(* A receiver is told of its partner by an answer before which the server  *)
(* sent one to that partner, or failed to.                                 *)
AnswersTellBoth ==
  \A r \in Receiver, m \in responses :
    m.type = "CONNECT" /\ m.address # NoAddress /\ m.to \in AddrsOf(r) =>
      \E n \in responses \cup unsent :
        /\ n.type = "CONNECT" /\ n.to = m.address.hole
        /\ n.address \in PairOf(r)

(* Greetings pass between partners only. *)
HellosHonest ==
  \A h \in hellos : \E e, f \in Endpoint :
    Partners(e, f) /\ h.from \in AddrsOf(e) /\ h.to \in AddrsOf(f)

IdentifierIsOwn ==
  \A s \in Sender :
    /\ identifier[s] # None => issuedTo[identifier[s]] \in AddrsOf(s)
    /\ st[s] \in {"waitForPeerAddress", "updateAddress"} => identifier[s] # None

(* connectToSender runs once, and stores the id before the machine runs. *)
IdleIsFresh ==
  \A r \in Receiver : /\ st[r] = "idle" <=> senderID[r] = None
                      /\ st[r] = "idle" => ~blocked[r]

BlockedIsWaiting ==
  \A e \in Endpoint : blocked[e] =>
    st[e] \in {"askServerToAssignID", "updateAddress", "waitForPeerAddress",
              "lookupAddressForID"} \cup Connecting

(* Every id that a user knows of was issued. *)
KnownIsIssued ==
  \A id \in ID : id \in announced \/ (\E r \in Receiver : senderID[r] = id)
    => issuedTo[id] # None

(* Who connects has an address to try, and who waits has tried it. *)
ConnectingKnocks ==
  \A e \in Endpoint : st[e] \in Connecting =>
    /\ peer[e].hole # None
    /\ blocked[e] =>
         \E h \in hellos : h.from \in AddrsOf(e) /\ h.to = Target(e)

LinkMeansDone ==
  \A e \in Endpoint : link[e] # "none" => st[e] \in {"connected"} \cup Ends

IInv ==
  /\ TypeOK
  /\ RequestsHonest /\ ResponsesHonest /\ HellosHonest /\ MapIsHonest
  /\ IdentifierIsOwn /\ IdleIsFresh /\ KnownIsIssued
  /\ PeerIsPartner /\ ConnectingKnocks
  /\ LinkMeansDone /\ ConnectedMet
  /\ AnswersTellBoth /\ BothTold
  /\ BlockedIsWaiting

=============================================================================
