---------------------------- MODULE Introduction ----------------------------
(***************************************************************************)
(* What hole punching promises, without ids, addresses, servers or         *)
(* datagrams: strangers are introduced, knock at each other's door, and    *)
(* only somebody whose knock was heard is met.                             *)
(*                                                                         *)
(*   introduced  the pairs <<s, r>> such that r asked for s                *)
(*   knocked     the pairs <<e, f>> such that e has sent f a greeting      *)
(*   met         what every end is connected to: one other end, or nobody  *)
(*                                                                         *)
(* Meeting is one-sided: nothing makes an end that met another be met.     *)
(***************************************************************************)
CONSTANTS Caller, Callee, Nobody

End == Caller \cup Callee

VARIABLES introduced, knocked, met

vars == <<introduced, knocked, met>>

(* The pairs of strangers that may talk: either one may speak first. *)
Known == introduced \cup {<<p[2], p[1]>> : p \in introduced}

Init ==
  /\ introduced = {}
  /\ knocked = {}
  /\ met = [e \in End |-> Nobody]

(* A caller asks for one callee only. *)
Introduce(s, r) ==
  /\ \A p \in introduced : p[2] # r
  /\ introduced' = introduced \cup {<<s, r>>}
  /\ UNCHANGED <<knocked, met>>

Knock(e, f) ==
  /\ <<e, f>> \in Known
  /\ knocked' = knocked \cup {<<e, f>>}
  /\ UNCHANGED <<introduced, met>>

Meet(e, f) ==
  /\ met[e] = Nobody
  /\ <<e, f>> \in knocked /\ <<f, e>> \in knocked
  /\ met' = [met EXCEPT ![e] = f]
  /\ UNCHANGED <<introduced, knocked>>

Next ==
  \/ \E s \in Callee, r \in Caller : Introduce(s, r)
  \/ \E e, f \in End : Knock(e, f) \/ Meet(e, f)

Spec == Init /\ [][Next]_vars

=============================================================================
