----------------------------- MODULE MCTransfer -----------------------------
(***************************************************************************)
(* Three files of 1, 0 and 2 bytes: an empty one between two others, and   *)
(* one that can be resumed in the middle behind others that are skipped.   *)
(***************************************************************************)
EXTENDS Transfer

MCEnd == [i \in 0..3 |-> <<0, 1, 1, 3>>[i + 1]]
MCOffsets == -1..3

=============================================================================
