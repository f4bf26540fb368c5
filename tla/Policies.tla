------------------------------- MODULE Policies -------------------------------
(***************************************************************************)
(* What a project and its allocation runs share: the catalogue, the        *)
(* suppliers and their delivery policies (Supplier.delivery_policy,        *)
(* app/models/supplier.py).                                                *)
(***************************************************************************)
EXTENDS PlanLines

CONSTANTS
  Materials,  (* Material.id                                               *)
  Suppliers,  (* Supplier.id                                               *)
  FlatFee,    (* delivery_policy.flat_fee                                  *)
  FreeFrom,   (* delivery_policy.free_shipping_threshold, or NULL          *)
  MinOrder,   (* delivery_policy.per_order_min_amount                      *)
  Quantities  (* bound: quantities a project item may ask for              *)

ASSUME PolicyAssumption ==
  \A s \in Suppliers : /\ FlatFee[s] \in Nat /\ MinOrder[s] \in Nat
                       /\ FreeFrom[s] = NULL \/ FreeFrom[s] \in Nat
=============================================================================
