---------------------------- MODULE MCUdtSockets ----------------------------
(***************************************************************************)
(* A small instance of UdtSockets: two clients whose numbers give the same *)
(* key in m_PeerRec, because the upper bits of an Id do not fit.           *)
(***************************************************************************)
EXTENDS UdtSockets

MCAttempt == {1, 2}
MCId == <<1, 5>>
MCIsn == <<3, 3>>
MCAddress == <<"here", "there">>

=============================================================================
