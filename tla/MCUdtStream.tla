----------------------------- MODULE MCUdtStream -----------------------------
(***************************************************************************)
(* Instances of UdtStream for TLC.  MCUdtStream.cfg puts four blocks       *)
(* through a ring of three and a receive buffer of three slots, so that    *)
(* every place is filled again, with two ACKs on their way that overtake   *)
(* each other; MCUdtStream_arrives.cfg is smaller, may break and is fair.  *)
(***************************************************************************)
EXTENDS UdtStream

(* The bound on the network of MCUdtStream.cfg: two ACKs are on their way   *)
(* only when nothing else is.                                              *)
TwoAcksAlone ==
  Cardinality(acks) = 2 => data = {} /\ naks = {} /\ ack2s = {}

=============================================================================
