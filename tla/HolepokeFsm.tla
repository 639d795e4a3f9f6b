---------------------------- MODULE HolepokeFsm ----------------------------
(***************************************************************************)
(* The two tables that drive holepoke::FiniteStateMachine: what            *)
(* Sender::Sender and Receiver::Receiver pass to addTransition, and the    *)
(* lookup that FiniteStateMachine::run makes in them.                      *)
(*                                                                         *)
(* A table is a set of triples <<state, event, newState>>.  A pair of a    *)
(* state and an event that is not in it makes run throw std::logic_error,  *)
(* which is the state NoTransition here.                                   *)
(***************************************************************************)

(* stRemoteConnectToPeer runs in four states, entered one after the other. *)
Remotes == {"remote0", "remote1", "remote2", "remote3"}
Connecting == {"localConnectToPeer"} \cup Remotes

SenderStates ==
  {"askServerToAssignID", "waitForPeerAddress", "updateAddress", "connected"}
    \cup Connecting

ReceiverStates ==
  {"lookupAddressForID", "connected", "invalidID"} \cup Connecting

Stop == "stop"                  \* kFSMStopState
NoTransition == "noTransition"  \* run threw: no entry for the pair
Aborted == "aborted"            \* a routine threw

Ends == {Stop, NoTransition, Aborted}

-----------------------------------------------------------------------------

(* Slips in the tables that the runs must notice: the last retry goes    *)
(* back to the first, stConnected starts another wait, the answer to a     *)
(* heartbeat for a lost id is forgotten, a late REGISTER response is       *)
(* followed by a heartbeat.                                                *)
AttemptTableWithoutEnd(afterLast) ==
  {<<"localConnectToPeer", "timeout", "remote0">>,
   <<"remote0", "timeout", "remote1">>,
   <<"remote1", "timeout", "remote2">>,
   <<"remote2", "timeout", "remote3">>,
   <<"remote3", "timeout", "remote0">>}
  \cup {<<state, "peerResponse", "connected">> : state \in Connecting}
  \cup {<<"connected", "stopMachine", Stop>>}

AttemptTableWaitingAgain(afterLast) ==
  (AttemptTableWithoutEnd(afterLast)
     \ {<<"remote3", "timeout", "remote0">>, <<"connected", "stopMachine", Stop>>})
  \cup {<<"remote3", "timeout", afterLast>>,
        <<"connected", "stopMachine", "waitForPeerAddress">>}

(* One attempt to reach the peer: the local address, then four times the   *)
(* remote one; the two machines differ in what follows when all fail.      *)
AttemptTable(afterLast) ==
  {<<"localConnectToPeer", "timeout", "remote0">>,
   <<"remote0", "timeout", "remote1">>,
   <<"remote1", "timeout", "remote2">>,
   <<"remote2", "timeout", "remote3">>,
   <<"remote3", "timeout", afterLast>>}
  \cup {<<state, "peerResponse", "connected">> : state \in Connecting}
  \cup {<<"connected", "stopMachine", Stop>>}

SenderTableWithoutError ==
  {<<"askServerToAssignID", "timeout", "askServerToAssignID">>,
   <<"askServerToAssignID", "gotID", "waitForPeerAddress">>,
   <<"updateAddress", "timeout", "updateAddress">>,
   <<"updateAddress", "updateAddressACK", "waitForPeerAddress">>,
   <<"waitForPeerAddress", "timeout", "updateAddress">>,
   <<"waitForPeerAddress", "gotPeerAddress", "localConnectToPeer">>}
  \cup AttemptTable("askServerToAssignID")

SenderTableImpatient ==
  SenderTableWithoutError
  \cup {<<"askServerToAssignID", "timeout", "updateAddress">>,
        <<"updateAddress", "error", "askServerToAssignID">>}

(* There is no entry for gotPeerAddress in the state updateAddress.        *)
SenderTable ==
  {<<"askServerToAssignID", "timeout", "askServerToAssignID">>,
   <<"askServerToAssignID", "gotID", "waitForPeerAddress">>,
   <<"updateAddress", "timeout", "updateAddress">>,
   <<"updateAddress", "updateAddressACK", "waitForPeerAddress">>,
   <<"updateAddress", "error", "askServerToAssignID">>,
   <<"waitForPeerAddress", "timeout", "updateAddress">>,
   <<"waitForPeerAddress", "gotPeerAddress", "localConnectToPeer">>}
  \cup AttemptTable("askServerToAssignID")

ReceiverTable ==
  {<<"lookupAddressForID", "gotPeerAddress", "localConnectToPeer">>,
   <<"lookupAddressForID", "timeout", "lookupAddressForID">>,
   <<"lookupAddressForID", "invalidID", "invalidID">>,
   <<"invalidID", "stopMachine", Stop>>}
  \cup AttemptTable(Stop)

(* The state that run goes to: an entry's, or the end by an exception.     *)
Following(table, state, event) ==
  LET found == {t \in table : t[1] = state /\ t[2] = event}
  IN  IF found = {} THEN {NoTransition} ELSE {t[3] : t \in found}

=============================================================================
