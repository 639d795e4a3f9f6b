---------------------------- MODULE MCSendThreads ----------------------------
(***************************************************************************)
(* Three connections.  A speed of 7 leaves a remainder among two or three; *)
(* 2 divides among two, among three to nothing, which means no limit, and  *)
(* so does -3.                                                             *)
(***************************************************************************)
EXTENDS SendThreads

MCSpeeds == {-3, 2, 7}

=============================================================================
