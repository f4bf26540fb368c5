------------------------------ MODULE MCPlanRace ------------------------------
(* A small instance of PlanRace for TLC. *)
EXTENDS PlanRace

CONSTANTS m1, m2, s1, s2, s3

(* m1 has a different minimum at each supplier: none, 3 and 5 for a need   *)
(* of 2, so that a move may change quantity, needed_quantity, both or      *)
(* neither.  The unit price differs too.                                   *)
MCMoq   == [m \in Materials |-> [s \in Suppliers |->
              IF m = m2 \/ s = s1 THEN 0 ELSE IF s = s2 THEN 3 ELSE 5]]
MCPrice == [m \in Materials |-> [s \in Suppliers |-> IF s = s1 THEN 1 ELSE IF s = s2 THEN 2 ELSE 4]]
MCNeed  == [m \in Materials |-> 2]
=============================================================================
