---------------------------- MODULE MCProcurement ----------------------------
(* A small instance of Procurement for TLC. *)
EXTENDS Procurement

CONSTANTS m1, m2, s1, s2

(* m1 is sold by both, with a minimum quantity at s2; m2 only by s2.       *)
MCOffer ==
  [m \in Materials |-> [s \in Suppliers |->
     CASE m = m1 /\ s = s1 -> {[price |-> 2, moq |-> 0]}
       [] m = m1 /\ s = s2 -> {[price |-> 1, moq |-> 3]}
       [] m = m2 /\ s = s1 -> {}
       [] m = m2 /\ s = s2 -> {[price |-> 2, moq |-> 0]}]]
MCFlatFee  == [s \in Suppliers |-> 1]
(* m1 alone (3) reaches s2's minimum, m2 alone (2) does not, both ship free. *)
MCFreeFrom == [s \in Suppliers |-> IF s = s2 THEN 5 ELSE NULL]
MCMinOrder == [s \in Suppliers |-> IF s = s2 THEN 3 ELSE 0]
MCColoured == {m2}
=============================================================================
