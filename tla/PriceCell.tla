------------------------------- MODULE PriceCell -------------------------------
(***************************************************************************)
(* What the price table promises about one (material, supplier) pair, as   *)
(* its readers (the solver, the overrides, the comparison page) rely on    *)
(* it: a register that holds one price or none.  A price is a version;     *)
(* the one in force was, when it came into force, newer than every other   *)
(* version of the pair, its amount never changes, and once it has gone it  *)
(* does not come back.                                                     *)
(***************************************************************************)
EXTENDS Naturals

CONSTANTS Values, NULL

VARIABLES
  current,  (* the version in force, or NULL                               *)
  amount,   (* its price, or NULL                                          *)
  versions  (* versions recorded so far                                    *)

cell == <<current, amount, versions>>

Init == current = NULL /\ amount = NULL /\ versions = 0

(* A new price comes into force, in place of the one in force if any: no   *)
(* reader ever finds the pair between the two.                             *)
Publish(p) ==
  /\ versions' = versions + 1
  /\ current' = versions' /\ amount' = p

(* A price that has ended when it is recorded is history only.             *)
RecordEnded ==
  /\ versions' = versions + 1
  /\ UNCHANGED <<current, amount>>

(* The pair is priced no more: its price deleted, or ended by a version    *)
(* with an end of its own.                                                 *)
Withdraw ==
  /\ current # NULL
  /\ current' = NULL /\ amount' = NULL
  /\ versions' \in {versions, versions + 1}

Next == (\E p \in Values : Publish(p)) \/ RecordEnded \/ Withdraw

Spec == Init /\ [][Next]_cell
=============================================================================
