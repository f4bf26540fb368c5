-------------------------- MODULE MCReferenceData --------------------------
(* Two categories of their own prefixes and a third that reuses the first's,  *)
(* two materials and suppliers, and one row of every other table.             *)
EXTENDS ReferenceData, TLC

CONSTANTS c1, c2, c3, m1, m2, s1, s2, o1, k1, t1, i1, a1, p1, e1, u1

MCRow == {c1, c2, c3, m1, m2, s1, s2, o1, k1, t1, i1, a1, p1, e1, u1}

MCTableOf ==
  [r \in MCRow |->
     CASE r \in {c1, c2, c3} -> "category" [] r \in {m1, m2} -> "material"
       [] r \in {s1, s2} -> "supplier" [] r = o1 -> "office" [] r = k1 -> "contact"
       [] r = t1 -> "template" [] r = i1 -> "item" [] r = a1 -> "alias"
       [] r = p1 -> "price" [] r = e1 -> "entry" [] r = u1 -> "purchase"]

MCSeed ==
  [r \in {c1, c2, s1} |-> <<>>]
    @@ (o1 :> [column \in {"supplier"} |-> s1])

MCPrefixOf == [c \in {c1, c2, c3} |-> IF c = c2 THEN "b" ELSE "a"]

MCWorkers == Permutations(Worker)
=============================================================================
