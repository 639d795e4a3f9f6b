----------------------------- MODULE MCHolepoke -----------------------------
(***************************************************************************)
(* Small instances of Holepoke.  Every endpoint has a private address;     *)
(* the ones in Roaming are seen under either of two public addresses, the  *)
(* ones in Open are not behind a NAT.                                      *)
(***************************************************************************)
EXTENDS Holepoke, TLC

CONSTANTS Roaming, Open

MCLocal == [e \in Endpoint |-> <<e, "local">>]

MCPublic ==
  [e \in Endpoint |->
     IF e \in Open THEN {MCLocal[e]}
     ELSE {<<e, "hole">>} \cup
          (IF e \in Roaming THEN {<<e, "otherHole">>} ELSE {})]

Symmetry ==
  Permutations(Sender) \cup Permutations(Receiver) \cup Permutations(ID)

=============================================================================
