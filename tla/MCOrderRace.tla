----------------------------- MODULE MCOrderRace -----------------------------
(* A small instance of OrderRace for TLC. *)
EXTENDS OrderRace

CONSTANTS m1, m2, s1, s2

(* No answer, all replaced, all added, and one supplier skipped.           *)
MCAnswers == {[s \in Suppliers |-> a] : a \in {"none", "replace", "add"}}
             \cup {[s \in Suppliers |-> IF s = s1 THEN "skip" ELSE "replace"]}
=============================================================================
