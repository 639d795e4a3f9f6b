----------------------------- MODULE MCUdtParts -----------------------------
(***************************************************************************)
(* The parts of a UDT connection, on small instances.  They do not touch   *)
(* each other, so a behaviour exercises one of them, the one named by      *)
(* "which": the lists of lost packets of both ends, the heap of the        *)
(* sending queue, the ring of sent ACKs, the congestion control.           *)
(*                                                                         *)
(* The circle has 14 sequence numbers, the windows are 4 and 5, so that    *)
(* they and the arrays wrap round; the loss report has room for 2 entries, *)
(* too few for some lists; the heap has three levels and the ring three    *)
(* ACKs of five numbers.  The congestion control starts just before the    *)
(* numbers wrap; its periods are whole microseconds.                       *)
(***************************************************************************)
EXTENDS AckWindow, RcvLossList, SndUList, ZudtCC

CONSTANTS SndSize, SndWindow

VARIABLES which,
          sndList, sndAnswer, sndLastDataAck, sndLastAck, sndCurr

sndVars == <<sndList, sndAnswer, sndLastDataAck, sndLastAck, sndCurr>>

Snd == INSTANCE SndLossList WITH
         Size <- SndSize, Window <- SndWindow, list <- sndList, answer <- sndAnswer

ASSUME Snd!SndLossListConstants
ASSUME ZudtCCConstants

PartsInit ==
  /\ which \in {"snd", "rcv", "heap", "ring", "cc"}
  /\ RingInit /\ Snd!Init /\ RcvInit /\ UListInit /\ Init
  /\ which # "snd" => sndLastDataAck = 0
  /\ which # "rcv" => rcvLastAck = 0
  /\ sndCurrSeqNo = IF which = "cc" THEN MaxSeqNo - 2 ELSE 0

PartsNext ==
  /\ UNCHANGED which
  /\ \/ which = "snd" /\ Snd!Next /\ UNCHANGED <<ringVars, rcvVars, uListVars, vars>>
     \/ which = "rcv" /\ RcvNext /\ UNCHANGED <<ringVars, sndVars, uListVars, vars>>
     \/ which = "heap" /\ UListNext /\ UNCHANGED <<ringVars, sndVars, rcvVars, vars>>
     \/ which = "ring" /\ RingNext /\ UNCHANGED <<sndVars, rcvVars, uListVars, vars>>
     \/ which = "cc" /\ Next /\ UNCHANGED <<ringVars, sndVars, rcvVars, uListVars>>

PartsSpec == PartsInit /\ [][PartsNext]_<<which, ringVars, sndVars, rcvVars, uListVars, vars>>

\* Bound: once a socket was taken out from inside the heap, only lists of at
\* most four sockets are followed further.
SmallOnceCut == fromInside => lastEntry < 4

\* Bound: a congestion control that has sent a third of the circle after the
\* wrap is not followed further.
WrapOnce == which = "cc" => sndCurrSeqNo # 4

\* The sender's list of lost packets is a set: Snd!ImplementsLossSet, where
\* steps of the other structures are not looked at.
SndImplementsLossSet ==
  Snd!Promise!Init
  /\ [][which = "snd" => [Snd!Promise!Next]_(Snd!Promise!vars)]_sndVars

=============================================================================
