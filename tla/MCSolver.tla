------------------------------- MODULE MCSolver -------------------------------
(* A small instance of Solver for TLC. *)
EXTENDS Solver

CONSTANTS s1, s2, s3, strict

Sold(price, moq, availability) == [price |-> price, moq |-> moq, availability |-> availability]

(* s1 ships free from 6, s2 has a minimum order of 4 and never ships free, *)
(* s3 says it always ships free.                                           *)
MCFlatFee  == [s \in Suppliers |-> IF s = s2 THEN 0 ELSE 1]
MCFreeFrom == [s \in Suppliers |-> IF s = s1 THEN 6 ELSE IF s = s2 THEN NULL ELSE 0]
MCMinOrder == [s \in Suppliers |-> IF s = s2 THEN 4 ELSE 0]

(* Materials 1 and 2 should come from one supplier, 3 need not.            *)
MCCategory == [m \in Materials |-> IF m = 3 THEN NULL ELSE strict]

(* Prices in thousandths; of the halves, 0.015 * 100 rounds to 2 cents and *)
(* 0.025 * 100 to 2.                                                       *)
MCRoundedUp == {15}

(* Minimum quantities above the need, in stock and not; material 3 is 2    *)
(* cents at both its suppliers, 0.022 and 0.019 dollars (ADR-0047).        *)
Row(a, b, c) == [s \in Suppliers |-> IF s = s1 THEN a ELSE IF s = s2 THEN b ELSE c]
AtS1 == {NULL, Sold(25, 1, NULL), Sold(10, 14, NULL), Sold(12, 3, 2)}
AtS2 == {NULL, Sold(10, 1, 2), Sold(14, 5, NULL)}
AtS3 == {Sold(15, 1, NULL)}
MCTables ==
  {<<Row(a, b, c), Row(d, e, NULL), Row(Sold(22, 1, NULL), Sold(19, 1, NULL), NULL)>> :
     a \in AtS1, b \in AtS2 \ {Sold(10, 1, 2)}, c \in AtS3, d \in AtS1, e \in AtS2}
=============================================================================
