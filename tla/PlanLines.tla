------------------------------ MODULE PlanLines ------------------------------
(***************************************************************************)
(* What one allocation line remembers when it moves between suppliers: the *)
(* need behind its quantity (ADR-0045) and the solver's own choice         *)
(* (ADR-0006).  Shared by Procurement and PlanRace.                        *)
(*                                                                         *)
(* A definition marked "faulty" here or in another module is used by no    *)
(* other: it is the mistake the definition after it avoids, kept to show   *)
(* that the properties notice it (README, "Faults the properties notice"). *)
(***************************************************************************)
EXTENDS Integers

CONSTANT NULL  (* SQL NULL / None                                          *)

Larger(a, b) == IF a >= b THEN a ELSE b

(* needed_quantity: the need, when another quantity is ordered for it.     *)
SurplusRecorded(need, quantity) ==                              (* faulty *)
  IF quantity # need THEN need - quantity ELSE NULL
Recorded(need, quantity) == IF quantity # need THEN need ELSE NULL

DemandFromQuantity(line) == line.quantity                       (* faulty *)
DemandOf(line) == IF line.needed # NULL THEN line.needed ELSE line.quantity

(* original_supplier_id and original_unit_price after one more override.   *)
LastOrigin(line) ==                                             (* faulty *)
  [supplier |-> line.supplier, price |-> line.price]
Origin(line) ==
  IF line.overridden THEN [supplier |-> line.original, price |-> line.originalPrice]
  ELSE [supplier |-> line.supplier, price |-> line.price]
=============================================================================
