-------------------------------- MODULE Stream --------------------------------
(***************************************************************************)
(* What a UDT connection promises for one direction: blocks come out as    *)
(* they were put in, in order, none twice and none left out.  It may break *)
(* at either end; what has arrived can still be read.                      *)
(***************************************************************************)
EXTENDS Naturals, Sequences

CONSTANT MaxBlocks  \* bound on the number of blocks put in

Ends == {"sender", "receiver"}

VARIABLES
  put,    \* how many blocks were put in; block k is the k-th
  got,    \* the blocks that were taken out
  broken  \* the ends at which the connection is broken

vars == <<put, got, broken>>

Init == put = 0 /\ got = <<>> /\ broken = {}

Put ==
  /\ "sender" \notin broken /\ put < MaxBlocks
  /\ put' = put + 1
  /\ UNCHANGED <<got, broken>>

Get ==
  /\ Len(got) < put
  /\ got' = Append(got, Len(got) + 1)
  /\ UNCHANGED <<put, broken>>

Break(end) ==
  /\ broken' = broken \cup {end}
  /\ UNCHANGED <<put, got>>

Next == Put \/ Get \/ \E end \in Ends : Break(end)

Spec == Init /\ [][Next]_vars

=============================================================================
