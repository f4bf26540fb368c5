-------------------------- MODULE Procurement_proofs --------------------------
(***************************************************************************)
(* Theorems about Procurement, for any number of materials, suppliers,     *)
(* workers, runs, orders and requests, and any offers and policies; and    *)
(* about Solver, for any rows, price tables and policies; and that what    *)
(* Solver proposes is an answer with which Procurement goes on.            *)
(***************************************************************************)
EXTENDS Procurement, Solver, FiniteSetTheorems, WellFoundedInduction, TLAPS

CandidateOffers == [supplier : Suppliers, price : Nat, moq : Nat]

LEMMA CandidateType ==
  ASSUME NEW m \in Materials, NEW c \in Candidates(m)
  PROVE  c \in CandidateOffers
BY ConstantsAssumption DEF Candidates, CandidateOffers

LEMMA SolverLineType ==
  ASSUME NEW q \in Nat, NEW c \in CandidateOffers
  PROVE  SolverLine(q, c) \in Lines
BY DEF SolverLine, Recorded, Larger, Lines, CandidateOffers

LEMMA OverriddenLineType ==
  ASSUME NEW line \in Lines, NEW c \in CandidateOffers, NEW via \in ItemIds \cup {NULL}
  PROVE  OverriddenLine(line, c, via) \in Lines
<1>1. DemandOf(line) \in Nat
  BY DEF DemandOf, Lines
<1>2. Larger(DemandOf(line), c.moq) \in Nat
  BY <1>1 DEF Larger, CandidateOffers
<1>3. Recorded(DemandOf(line), Larger(DemandOf(line), c.moq)) \in Nat \cup {NULL}
  BY <1>1 DEF Recorded
<1>4. /\ Origin(line).supplier \in Suppliers \cup {NULL}
      /\ Origin(line).price \in Nat \cup {NULL}
  BY DEF Origin, Lines
<1>5. line.ordered \in BOOLEAN /\ c.supplier \in Suppliers /\ c.price \in Nat
  BY DEF Lines, CandidateOffers
<1> QED
  BY <1>2, <1>3, <1>4, <1>5 DEF OverriddenLine, Lines

-----------------------------------------------------------------------------
(* Type correctness: one lemma per action that builds lines or items.      *)

LEMMA InitType == Init => TypeOK
<1> SUFFICES ASSUME Init PROVE TypeOK
  OBVIOUS
<1>1. nRuns \in 0..MaxRuns /\ requests \in 0..MaxRequests
  BY ConstantsAssumption DEF Init
<1>2. /\ demand \in [Runs -> [Materials -> Nat]]
      /\ chosen \in [Runs -> [Materials -> Suppliers \cup {NULL}]]
      /\ lines \in [Runs -> [Materials -> Lines \cup {NULL}]]
  BY DEF Init, NoLines
<1>3. /\ orderState \in [Suppliers -> [OrderNos -> {"unused", "draft", "deleted"}]]
      /\ items \in [ItemIds -> Items \cup {NULL}]
      /\ pending \in [Workers -> Syncs \cup {NULL}]
  BY DEF Init
<1> QED
  BY <1>1, <1>2, <1>3 DEF Init, TypeOK

LEMMA ServedType ==
  ASSUME requests \in 0..MaxRequests, Served
  PROVE  requests' \in 0..MaxRequests
BY ConstantsAssumption DEF Served

LEMMA NewRunType ==
  ASSUME TypeOK, NEW need \in [Materials -> Quantities \cup {0}],
         NEW plan \in [Materials -> Lines \cup {NULL}],
         NewRun(need, plan), status' = status \/ status' = "calculated"
  PROVE  TypeOK'
<1> DEFINE r == nRuns + 1
<1>1. r \in Runs
  BY ConstantsAssumption DEF NewRun, TypeOK, Runs
<1>2. nRuns' \in 0..MaxRuns
  BY <1>1, ConstantsAssumption DEF NewRun, Runs
<1>3. demand' \in [Runs -> [Materials -> Nat]]
  <2>1. need \in [Materials -> Nat]
    <3>1. Quantities \cup {0} \subseteq Nat
      BY ConstantsAssumption
    <3> QED
      BY <3>1
  <2>2. demand' = [demand EXCEPT ![r] = need]
    BY DEF NewRun
  <2> QED
    BY <2>1, <2>2 DEF TypeOK
<1>4. chosen' \in [Runs -> [Materials -> Suppliers \cup {NULL}]]
  <2> DEFINE choice == [m \in Materials |-> IF plan[m] = NULL THEN NULL ELSE plan[m].supplier]
  <2>1. choice \in [Materials -> Suppliers \cup {NULL}]
    BY DEF Lines
  <2>2. chosen' = [chosen EXCEPT ![r] = choice]
    BY DEF NewRun
  <2> HIDE DEF choice
  <2> QED
    BY <2>1, <2>2 DEF TypeOK
<1>5. lines' \in [Runs -> [Materials -> Lines \cup {NULL}]]
  BY DEF NewRun, TypeOK
<1>6. requests' \in 0..MaxRequests
  BY ServedType DEF NewRun, TypeOK
<1>7. UNCHANGED <<colorChosen, orderState, items, pending>>
  BY DEF NewRun, orderVars
<1> QED
  BY <1>2, <1>3, <1>4, <1>5, <1>6, <1>7 DEF TypeOK

LEMMA OverridesType ==
  ASSUME TypeOK, NEW r \in Runs, NEW m \in Materials, NEW c \in Candidates(m),
         NEW via \in ItemIds \cup {NULL}, lines[r][m] # NULL, Overrides(r, m, c, via)
  PROVE  /\ lines' \in [Runs -> [Materials -> Lines \cup {NULL}]]
         /\ nRuns' \in 0..MaxRuns
         /\ demand' \in [Runs -> [Materials -> Nat]]
         /\ chosen' \in [Runs -> [Materials -> Suppliers \cup {NULL}]]
<1>1. OverriddenLine(lines[r][m], c, via) \in Lines
  <2>1. lines[r][m] \in Lines
    BY DEF TypeOK
  <2> QED
    BY <2>1, CandidateType, OverriddenLineType
<1>2. lines' = [lines EXCEPT ![r] = [lines[r] EXCEPT ![m] = OverriddenLine(lines[r][m], c, via)]]
  BY DEF Overrides
<1>3. lines' \in [Runs -> [Materials -> Lines \cup {NULL}]]
  BY <1>1, <1>2 DEF TypeOK
<1> QED
  BY <1>3 DEF Overrides, TypeOK

LEMMA RefsType ==
  ASSUME NEW ls \in [Runs -> [Materials -> Lines \cup {NULL}]], NEW gone
  PROVE  WithoutRefs(ls, gone) \in [Runs -> [Materials -> Lines \cup {NULL}]]
<1>1. \A l \in Lines : [l EXCEPT !.via = NULL] \in Lines
  BY DEF Lines
<1> QED
  BY <1>1 DEF WithoutRefs

LEMMA OrderItemType ==
  ASSUME NEW line \in Lines
  PROVE  OrderItemFrom(line) \in Items
BY DEF OrderItemFrom, Lines, Items

LEMMA PlaceOrdersType ==
  ASSUME TypeOK, NEW r \in Runs, NEW gone, NEW made, PlaceOrders(r, gone, made)
  PROVE  /\ status' \in {status, "ordered"}
         /\ lines' \in [Runs -> [Materials -> Lines \cup {NULL}]]
         /\ orderState' \in [Suppliers -> [OrderNos -> {"unused", "draft", "deleted"}]]
         /\ items' \in [ItemIds -> Items \cup {NULL}]
         /\ UNCHANGED <<colorChosen, nRuns, demand, chosen, summaries, pending>>
<1> DEFINE kept == WithoutRefs(lines, gone)
<1>1. status' \in {status, "ordered"}
  BY DEF PlaceOrders
<1>2. lines' \in [Runs -> [Materials -> Lines \cup {NULL}]]
  <2>1. kept \in [Runs -> [Materials -> Lines \cup {NULL}]]
    BY RefsType DEF TypeOK
  <2>2. \A m \in Materials : lines[r][m] # NULL => kept[r][m] # NULL
    <3>1. \A l \in Lines : [l EXCEPT !.via = NULL] \in Lines
      BY DEF Lines
    <3> QED
      BY <3>1, NullAssumption DEF WithoutRefs, TypeOK
  <2> DEFINE stamped == [m \in Materials |->
                          IF lines[r][m] # NULL /\ lines[r][m].supplier \in made
                          THEN [kept[r][m] EXCEPT !.ordered = TRUE] ELSE kept[r][m]]
  <2>3. \A l \in Lines : [l EXCEPT !.ordered = TRUE] \in Lines
    BY DEF Lines
  <2>4. lines' = [kept EXCEPT ![r] = stamped]
    BY DEF PlaceOrders
  <2> HIDE DEF kept
  <2>5. stamped \in [Materials -> Lines \cup {NULL}]
    BY <2>1, <2>2, <2>3
  <2> HIDE DEF stamped
  <2> QED
    BY <2>1, <2>4, <2>5
<1>3. orderState' \in [Suppliers -> [OrderNos -> {"unused", "draft", "deleted"}]]
  BY DEF PlaceOrders, TypeOK
<1>4. items' \in [ItemIds -> Items \cup {NULL}]
  <2>1. \A s \in Suppliers : \A m \in LinesOf(lines[r], s) : OrderItemFrom(lines[r][m]) \in Items
    BY OrderItemType DEF LinesOf, TypeOK
  <2>2. \A i \in ItemIds : i[1] \in Suppliers
    BY DEF ItemIds
  <2> QED
    BY <2>1, <2>2 DEF PlaceOrders, TypeOK
<1> QED
  BY <1>1, <1>2, <1>3, <1>4 DEF PlaceOrders

LEMMA DeletionsType ==
  ASSUME TypeOK, NEW s, NEW k, DeleteOrder(s, k)
  PROVE  TypeOK'
<1>1. lines' \in [Runs -> [Materials -> Lines \cup {NULL}]]
  BY RefsType DEF DeleteOrder, TypeOK
<1>2. orderState' \in [Suppliers -> [OrderNos -> {"unused", "draft", "deleted"}]]
  BY DEF DeleteOrder, TypeOK
<1>3. items' \in [ItemIds -> Items \cup {NULL}]
  BY DEF DeleteOrder, TypeOK
<1>4. requests' \in 0..MaxRequests
  BY ServedType DEF DeleteOrder, TypeOK
<1> QED
  BY <1>1, <1>2, <1>3, <1>4 DEF DeleteOrder, TypeOK

LEMMA ItemEditsType ==
  ASSUME TypeOK
  PROVE  /\ \A s, k : \A q \in Quantities : AddRawItem(s, k, q) => TypeOK'
         /\ \A i \in ItemIds : \A d, c \in BOOLEAN : SetItemFields(i, d, c) => TypeOK'
<1>1. ASSUME NEW s, NEW k, NEW q \in Quantities, AddRawItem(s, k, q)
      PROVE  TypeOK'
  <2> DEFINE raw == [quantity |-> q, needed |-> NULL, quoted |-> 1,
                     declined |-> FALSE, confirmed |-> FALSE]
  <2>1. raw \in Items
    BY ConstantsAssumption DEF Items
  <2>2. items' \in [ItemIds -> Items \cup {NULL}]
    BY <1>1, <2>1 DEF AddRawItem, TypeOK
  <2>3. requests' \in 0..MaxRequests
    BY <1>1, ServedType DEF AddRawItem, TypeOK
  <2> QED
    BY <1>1, <2>2, <2>3 DEF AddRawItem, TypeOK, planVars
<1>2. ASSUME NEW i \in ItemIds, NEW d \in BOOLEAN, NEW c \in BOOLEAN, SetItemFields(i, d, c)
      PROVE  TypeOK'
  <2>1. items[i] \in Items
    BY <1>2 DEF SetItemFields, TypeOK
  <2>2. [items[i] EXCEPT !.declined = d, !.confirmed = c] \in Items
    BY <2>1 DEF Items
  <2>3. items' = [items EXCEPT ![i] = [items[i] EXCEPT !.declined = d, !.confirmed = c]]
    BY <1>2 DEF SetItemFields, TypeOK
  <2>4. items' \in [ItemIds -> Items \cup {NULL}]
    BY <2>2, <2>3 DEF TypeOK
  <2>5. requests' \in 0..MaxRequests
    BY <1>2, ServedType DEF SetItemFields, TypeOK
  <2> QED
    BY <1>2, <2>4, <2>5 DEF SetItemFields, TypeOK, planVars
<1> QED
  BY <1>1, <1>2

LEMMA ReplaceType ==
  ASSUME TypeOK, NEW w \in Workers
  PROVE  /\ \A i \in ItemIds : \A c \in Candidates(i[3]) : ReplaceBegin(w, i, c) => TypeOK'
         /\ ReplaceFinish(w) => TypeOK'
         /\ ReplaceAbort(w) => TypeOK'
<1>1. ASSUME NEW i \in ItemIds, NEW c \in Candidates(i[3]), ReplaceBegin(w, i, c)
      PROVE  TypeOK'
  <2> DEFINE m    == i[3]
             line == OverriddenLine(lines[nRuns][m], c, i)
  <2>1. m \in Materials /\ nRuns \in Runs
    BY <1>1 DEF ReplaceBegin, ItemIds, TypeOK, Runs
  <2>2. c \in CandidateOffers
    BY <2>1, CandidateType
  <2>3. lines[nRuns][m] \in Lines
    BY <1>1, <2>1 DEF ReplaceBegin, TypeOK
  <2>4. line \in Lines
    BY <2>2, <2>3, OverriddenLineType
  <2>5. /\ lines' \in [Runs -> [Materials -> Lines \cup {NULL}]]
        /\ nRuns' \in 0..MaxRuns
        /\ demand' \in [Runs -> [Materials -> Nat]]
        /\ chosen' \in [Runs -> [Materials -> Suppliers \cup {NULL}]]
    BY <1>1, <2>1, OverridesType DEF ReplaceBegin
  <2>6. requests' \in 0..MaxRequests
    BY <1>1, ServedType DEF ReplaceBegin, TypeOK
  <2>7. \A k \in Drafts(c.supplier) : k \in OrderNos
    BY DEF Drafts
  <2> DEFINE target == IF Drafts(c.supplier) = {} THEN NULL ELSE CHOOSE k \in Drafts(c.supplier) : TRUE
             sync == [item |-> i, run |-> nRuns, material |-> m, supplier |-> c.supplier,
                      target |-> target, quantity |-> line.quantity, needed |-> line.needed,
                      quoted |-> c.price]
  <2>8. target \in OrderNos \cup {NULL}
    BY <2>7
  <2>9. sync \in Syncs
    <3> HIDE DEF target, line
    <3> QED
      BY <2>1, <2>2, <2>4, <2>8 DEF Syncs, Lines, CandidateOffers
  <2>10. pending' = [pending EXCEPT ![w] = sync]
    BY <1>1 DEF ReplaceBegin
  <2> HIDE DEF sync
  <2>11. pending' \in [Workers -> Syncs \cup {NULL}]
    BY <2>9, <2>10 DEF TypeOK
  <2> QED
    BY <1>1, <2>5, <2>6, <2>11 DEF ReplaceBegin, TypeOK, orderVars
<1>2. ASSUME ReplaceFinish(w) PROVE TypeOK'
  <2> DEFINE p   == pending[w]
             s   == p.supplier
             k   == IF p.target = NULL THEN NextNo(s) ELSE p.target
             new == [quantity |-> p.quantity, needed |-> p.needed, quoted |-> p.quoted,
                     declined |-> FALSE, confirmed |-> FALSE]
  <2>1. p \in Syncs
    BY <1>2 DEF ReplaceFinish, TypeOK
  <2>2. new \in Items
    BY <2>1 DEF Syncs, Items
  <2>3. items' \in [ItemIds -> Items \cup {NULL}]
    <3> HIDE DEF new
    <3>1. PICK j : items' = [items EXCEPT ![j] = new]
      BY <1>2 DEF ReplaceFinish, new
    <3> QED
      BY <2>2, <3>1 DEF TypeOK
  <2>4. orderState' \in [Suppliers -> [OrderNos -> {"unused", "draft", "deleted"}]]
    BY <1>2 DEF ReplaceFinish, TypeOK
  <2>5. pending' \in [Workers -> Syncs \cup {NULL}]
    BY <1>2 DEF ReplaceFinish, TypeOK
  <2> QED
    BY <1>2, <2>3, <2>4, <2>5 DEF ReplaceFinish, TypeOK, planVars
<1>3. ASSUME ReplaceAbort(w) PROVE TypeOK'
  BY <1>3 DEF ReplaceAbort, TypeOK, planVars, orderVars
<1> QED
  BY <1>1, <1>2, <1>3

LEMMA ProjectType ==
  ASSUME TypeOK
  PROVE  /\ \A b \in BOOLEAN : ChooseColor(b) => TypeOK'
         /\ CompleteProject => TypeOK'
         /\ DeleteProject => TypeOK'
<1>1. ASSUME NEW b \in BOOLEAN, ChooseColor(b) PROVE TypeOK'
  BY <1>1, ServedType DEF ChooseColor, TypeOK, planVars, orderVars
<1>2. ASSUME CompleteProject PROVE TypeOK'
  BY <1>2, ServedType DEF CompleteProject, TypeOK, planVars, orderVars
<1>3. ASSUME DeleteProject PROVE TypeOK'
  <2>1. status' = "deleted" /\ colorChosen' = FALSE /\ UNCHANGED pending
    BY <1>3 DEF DeleteProject
  <2>2. nRuns' \in 0..MaxRuns /\ requests' \in 0..MaxRequests
    BY <1>3, ServedType, ConstantsAssumption DEF DeleteProject, TypeOK
  <2>3. /\ demand' \in [Runs -> [Materials -> Nat]]
        /\ chosen' \in [Runs -> [Materials -> Suppliers \cup {NULL}]]
        /\ lines' \in [Runs -> [Materials -> Lines \cup {NULL}]]
    BY <1>3 DEF DeleteProject, NoLines
  <2>4. /\ orderState' \in [Suppliers -> [OrderNos -> {"unused", "draft", "deleted"}]]
        /\ items' \in [ItemIds -> Items \cup {NULL}]
    BY <1>3 DEF DeleteProject
  <2> QED
    BY <2>1, <2>2, <2>3, <2>4 DEF TypeOK
<1> QED
  BY <1>1, <1>2, <1>3

LEMMA NoLinesType == NoLines \in [Materials -> Lines \cup {NULL}]
BY DEF NoLines

LEMMA PlanOfType ==
  ASSUME NEW need \in [Materials -> Quantities \cup {0}], NEW pick,
         DOMAIN pick \subseteq Wanted(need),
         \A m \in DOMAIN pick : pick[m] \in Candidates(m)
  PROVE  PlanOf(need, pick) \in [Materials -> Lines \cup {NULL}]
<1>1. \A m \in DOMAIN pick : m \in Materials /\ need[m] \in Nat
  <2>1. Quantities \cup {0} \subseteq Nat
    BY ConstantsAssumption
  <2> QED
    BY <2>1 DEF Wanted
<1>2. \A m \in DOMAIN pick : SolverLine(need[m], pick[m]) \in Lines
  BY <1>1, CandidateType, SolverLineType
<1> QED
  BY <1>2 DEF PlanOf

LEMMA TypeStep == TypeOK /\ [Next]_vars => TypeOK'
<1> SUFFICES ASSUME TypeOK, [Next]_vars PROVE TypeOK'
  OBVIOUS
<1>1. ASSUME NEW need \in [Materials -> Quantities \cup {0}], RunInfeasible(need)
      PROVE  TypeOK'
  BY <1>1, NoLinesType, NewRunType DEF RunInfeasible
<1>2. ASSUME NEW need \in [Materials -> Quantities \cup {0}], NEW pick,
             \A m \in DOMAIN pick : pick[m] \in Candidates(m), RunSolved(need, pick)
      PROVE  TypeOK'
  <2>1. PlanOf(need, pick) \in [Materials -> Lines \cup {NULL}]
    BY <1>2, PlanOfType DEF RunSolved
  <2>2. NewRun(need, PlanOf(need, pick)) /\ (status' = status \/ status' = "calculated")
    BY <1>2 DEF RunSolved
  <2> QED
    BY <2>1, <2>2, NewRunType
<1>3. ASSUME NEW r \in Runs, NEW m \in Materials, NEW via \in ItemIds \cup {NULL},
             NEW c \in Candidates(m), OverrideLine(r, m, c, via)
      PROVE  TypeOK'
  <2>1. /\ lines' \in [Runs -> [Materials -> Lines \cup {NULL}]]
        /\ nRuns' \in 0..MaxRuns
        /\ demand' \in [Runs -> [Materials -> Nat]]
        /\ chosen' \in [Runs -> [Materials -> Suppliers \cup {NULL}]]
    BY <1>3, OverridesType DEF OverrideLine
  <2>2. requests' \in 0..MaxRequests
    BY <1>3, ServedType DEF OverrideLine, TypeOK
  <2> QED
    BY <1>3, <2>1, <2>2 DEF OverrideLine, TypeOK, orderVars
<1>4. ASSUME NEW r \in Runs, NEW answer \in Answers, CreateOrders(r, answer)
      PROVE  TypeOK'
  <2>1. PICK gone, made : PlaceOrders(r, gone, made)
    BY <1>4 DEF CreateOrders
  <2>2. requests' \in 0..MaxRequests
    BY <1>4, ServedType DEF CreateOrders, TypeOK
  <2> QED
    BY <2>1, <2>2, PlaceOrdersType DEF TypeOK
<1>5. ASSUME UNCHANGED vars PROVE TypeOK'
  BY <1>5 DEF vars, planVars, orderVars, TypeOK
<1> QED
  BY <1>1, <1>2, <1>3, <1>4, <1>5, DeletionsType, ItemEditsType, ReplaceType, ProjectType DEF Next

(* Every variable keeps its type: the ids, quantities and states of a      *)
(* project's lines, orders, items and half-done replacements stay in range *)
(* whatever the requests and however they interleave.                      *)
THEOREM TypeCorrect == Spec => []TypeOK
BY InitType, TypeStep, PTL DEF Spec

-----------------------------------------------------------------------------
(* The summaries.  Two plans that put the same materials, prices and       *)
(* quantities at a supplier give it the same summary; nothing else of the  *)
(* sums is needed, so they stay opaque.                                    *)

SameAt(p, q, s) ==
  /\ LinesOf(p, s) = LinesOf(q, s)
  /\ \A m \in LinesOf(p, s) : p[m].price = q[m].price /\ p[m].quantity = q[m].quantity

LEMMA SameAtSameSummary ==
  ASSUME NEW p, NEW q, NEW s, SameAt(p, q, s)
  PROVE  Rebuilt(p, s) = Rebuilt(q, s)
<1>1. LineTotals(p, s) = LineTotals(q, s)
  BY DEF SameAt, LineTotals
<1>2. Goods(p, s) = Goods(q, s)
  BY <1>1 DEF Goods
<1> QED
  BY <1>2 DEF SameAt, Rebuilt, Summary

LEMMA NoLinesNoSummary ==
  ASSUME NEW s
  PROVE  Rebuilt(NoLines, s) = NULL
BY DEF Rebuilt, Summary, LinesOf, NoLines

(* What attribution and ordering write to a line is not summarised.        *)
LEMMA RefsKeepSummaries ==
  ASSUME NEW ls \in [Runs -> [Materials -> Lines \cup {NULL}]], NEW gone,
         NEW r \in Runs, NEW s
  PROVE  SameAt(WithoutRefs(ls, gone)[r], ls[r], s)
<1> DEFINE kept == WithoutRefs(ls, gone)[r]
<1>1. ASSUME NEW m \in Materials
      PROVE  /\ kept[m] = NULL <=> ls[r][m] = NULL
             /\ ls[r][m] # NULL => /\ kept[m].supplier = ls[r][m].supplier
                                   /\ kept[m].price = ls[r][m].price
                                   /\ kept[m].quantity = ls[r][m].quantity
  <2>1. \A l \in Lines : /\ [l EXCEPT !.via = NULL] \in Lines
                         /\ [l EXCEPT !.via = NULL].supplier = l.supplier
                         /\ [l EXCEPT !.via = NULL].price = l.price
                         /\ [l EXCEPT !.via = NULL].quantity = l.quantity
    BY DEF Lines
  <2>2. kept[m] = ls[r][m] \/ (ls[r][m] # NULL /\ kept[m] = [ls[r][m] EXCEPT !.via = NULL])
    BY DEF WithoutRefs
  <2>3. ls[r][m] \in Lines \cup {NULL}
    OBVIOUS
  <2> HIDE DEF kept
  <2> QED
    BY <2>1, <2>2, <2>3, NullAssumption
<1> HIDE DEF kept
<1>2. SameAt(kept, ls[r], s)
  BY <1>1 DEF SameAt, LinesOf
<1> QED
  BY <1>2 DEF kept

LEMMA PlaceOrdersKeepsSummaries ==
  ASSUME TypeOK, NEW r \in Runs, NEW gone, NEW made, PlaceOrders(r, gone, made),
         NEW q \in Runs, NEW s
  PROVE  Rebuilt(lines'[q], s) = Rebuilt(lines[q], s)
<1> DEFINE kept == WithoutRefs(lines, gone)
           stamped == [m \in Materials |->
                        IF lines[r][m] # NULL /\ lines[r][m].supplier \in made
                        THEN [kept[r][m] EXCEPT !.ordered = TRUE] ELSE kept[r][m]]
<1>1. lines' = [kept EXCEPT ![r] = stamped]
  BY DEF PlaceOrders
<1>2. kept \in [Runs -> [Materials -> Lines \cup {NULL}]]
  BY RefsType DEF TypeOK
<1>3. \A u \in Runs : SameAt(kept[u], lines[u], s)
  BY RefsKeepSummaries DEF TypeOK
<1>4. \A m \in Materials : lines[r][m] # NULL => kept[r][m] # NULL
  <2>1. \A l \in Lines : [l EXCEPT !.via = NULL] \in Lines
    BY DEF Lines
  <2> QED
    BY <2>1, NullAssumption DEF WithoutRefs, TypeOK
<1>5. SameAt(stamped, kept[r], s)
  <2>1. \A l \in Lines : /\ [l EXCEPT !.ordered = TRUE] \in Lines
                         /\ [l EXCEPT !.ordered = TRUE].supplier = l.supplier
                         /\ [l EXCEPT !.ordered = TRUE].price = l.price
                         /\ [l EXCEPT !.ordered = TRUE].quantity = l.quantity
    BY DEF Lines
  <2> HIDE DEF kept
  <2>2. ASSUME NEW m \in Materials
        PROVE  /\ stamped[m] = NULL <=> kept[r][m] = NULL
               /\ kept[r][m] # NULL => /\ stamped[m].supplier = kept[r][m].supplier
                                       /\ stamped[m].price = kept[r][m].price
                                       /\ stamped[m].quantity = kept[r][m].quantity
    <3>1. kept[r][m] \in Lines \cup {NULL}
      BY <1>2
    <3>2. \/ stamped[m] = kept[r][m]
          \/ kept[r][m] # NULL /\ stamped[m] = [kept[r][m] EXCEPT !.ordered = TRUE]
      BY <1>4
    <3> HIDE DEF stamped
    <3> QED
      BY <2>1, <3>1, <3>2, NullAssumption
  <2> HIDE DEF stamped
  <2> QED
    BY <2>2 DEF SameAt, LinesOf
<1> HIDE DEF kept, stamped
<1>6. CASE q = r
  <2>1. lines'[q] = stamped
    BY <1>1, <1>2, <1>6
  <2> QED
    BY <1>3, <1>5, <1>6, <2>1, SameAtSameSummary
<1>7. CASE q # r
  <2>1. lines'[q] = kept[q]
    BY <1>1, <1>2, <1>7
  <2> QED
    BY <1>3, <2>1, SameAtSameSummary
<1> QED
  BY <1>6, <1>7

(* The inductive form: SummariesMatchLines, and that summaries is exactly  *)
(* the function it speaks of.                                              *)
SummariesInv ==
  summaries = [r \in Runs |-> [s \in Suppliers |-> Rebuilt(lines[r], s)]]

(* Requests that leave every run's plan and summaries as they were.        *)
LEMMA UntouchedSummaries ==
  ASSUME SummariesInv, summaries' = summaries,
         \A q \in Runs : \A s \in Suppliers : Rebuilt(lines'[q], s) = Rebuilt(lines[q], s)
  PROVE  SummariesInv'
BY DEF SummariesInv

LEMMA NewRunSummaries ==
  ASSUME TypeOK, SummariesInv, NEW need, NEW plan, Feasible(plan), NewRun(need, plan)
  PROVE  SummariesInv'
<1> DEFINE r == nRuns + 1
           exported == [s \in Suppliers |-> SolverSummary(plan, s)]
<1>1. ASSUME NEW s \in Suppliers PROVE SolverSummary(plan, s) = Rebuilt(plan, s)
  <2>1. CASE LinesOf(plan, s) = {}
    BY <2>1 DEF SolverSummary, Rebuilt, Summary
  <2>2. CASE LinesOf(plan, s) # {}
    <3>1. Goods(plan, s) >= MinOrder[s]
      BY <2>2 DEF Feasible
    <3> DEFINE below == ~(Goods(plan, s) >= MinOrder[s])
    <3>2. below = FALSE
      BY <3>1
    <3>3. Rebuilt(plan, s) = Summary(plan, s, below)
      BY DEF Rebuilt
    <3> HIDE DEF below
    <3> QED
      BY <3>2, <3>3 DEF SolverSummary
  <2> QED
    BY <2>1, <2>2
<1>2. exported = [s \in Suppliers |-> Rebuilt(plan, s)]
  BY <1>1
<1>3. lines' = [lines EXCEPT ![r] = plan] /\ summaries' = [summaries EXCEPT ![r] = exported]
  BY DEF NewRun
<1>4. \A q \in Runs : lines'[q] = IF q = r THEN plan ELSE lines[q]
  BY <1>3 DEF TypeOK
<1> HIDE DEF exported, r
<1> QED
  BY <1>2, <1>3, <1>4 DEF SummariesInv

LEMMA OverridesSummaries ==
  ASSUME TypeOK, SummariesInv, NEW r \in Runs, NEW m \in Materials,
         NEW c \in Candidates(m), NEW via \in ItemIds \cup {NULL},
         lines[r][m] # NULL, Overrides(r, m, c, via)
  PROVE  SummariesInv'
<1> DEFINE line    == OverriddenLine(lines[r][m], c, via)
           plan    == [lines[r] EXCEPT ![m] = line]
           touched == {lines[r][m].supplier, c.supplier}
           after   == Resummarised(summaries[r], plan, touched)
<1>1. lines' = [lines EXCEPT ![r] = plan] /\ summaries' = [summaries EXCEPT ![r] = after]
  BY DEF Overrides
<1>2. ASSUME NEW s \in Suppliers \ touched
      PROVE  Rebuilt(plan, s) = Rebuilt(lines[r], s)
  <2>1. plan[m].supplier = c.supplier
    BY DEF TypeOK, OverriddenLine
  <2>2. \A n \in Materials \ {m} : plan[n] = lines[r][n]
    BY DEF TypeOK
  <2>3. m \notin LinesOf(plan, s) /\ m \notin LinesOf(lines[r], s)
    BY <2>1 DEF LinesOf
  <2> HIDE DEF plan, touched
  <2>4. SameAt(plan, lines[r], s)
    BY <2>2, <2>3 DEF SameAt, LinesOf
  <2> QED
    BY <2>4, SameAtSameSummary
<1>3. after = [s \in Suppliers |-> Rebuilt(plan, s)]
  <2>1. \A s \in Suppliers : summaries[r][s] = Rebuilt(lines[r], s)
    BY DEF SummariesInv
  <2> HIDE DEF plan, touched
  <2> QED
    BY <1>2, <2>1 DEF Resummarised
<1>4. \A q \in Runs : lines'[q] = IF q = r THEN plan ELSE lines[q]
  BY <1>1 DEF TypeOK
<1> HIDE DEF after, plan
<1> QED
  BY <1>1, <1>3, <1>4 DEF SummariesInv

LEMMA SummariesStep == TypeOK /\ SummariesInv /\ [Next]_vars => SummariesInv'
<1> SUFFICES ASSUME TypeOK, SummariesInv, [Next]_vars PROVE SummariesInv'
  OBVIOUS
<1>1. ASSUME NEW need, RunInfeasible(need) PROVE SummariesInv'
  <2>1. Feasible(NoLines)
    BY DEF Feasible, LinesOf, NoLines
  <2> QED
    BY <1>1, <2>1, NewRunSummaries DEF RunInfeasible
<1>2. ASSUME NEW need, NEW pick, RunSolved(need, pick) PROVE SummariesInv'
  BY <1>2, NewRunSummaries DEF RunSolved
<1>3. ASSUME NEW r \in Runs, NEW m \in Materials, NEW via \in ItemIds \cup {NULL},
             NEW c \in Candidates(m), OverrideLine(r, m, c, via)
      PROVE  SummariesInv'
  BY <1>3, OverridesSummaries DEF OverrideLine
<1>4. ASSUME NEW r \in Runs, NEW answer, CreateOrders(r, answer) PROVE SummariesInv'
  <2>1. PICK gone, made : PlaceOrders(r, gone, made)
    BY <1>4 DEF CreateOrders
  <2>2. summaries' = summaries
    BY <2>1 DEF PlaceOrders
  <2> QED
    BY <2>1, <2>2, PlaceOrdersKeepsSummaries, UntouchedSummaries
<1>5. ASSUME NEW s, NEW k, DeleteOrder(s, k) PROVE SummariesInv'
  <2>1. \A q \in Runs : \A u \in Suppliers : SameAt(lines'[q], lines[q], u)
    BY <1>5, RefsKeepSummaries DEF DeleteOrder, TypeOK
  <2>2. summaries' = summaries
    BY <1>5 DEF DeleteOrder
  <2> QED
    BY <2>1, <2>2, SameAtSameSummary, UntouchedSummaries
<1>6. ASSUME NEW w, NEW i \in ItemIds, NEW c \in Candidates(i[3]), ReplaceBegin(w, i, c)
      PROVE  SummariesInv'
  <2>1. i[3] \in Materials /\ nRuns \in Runs
    BY <1>6 DEF ReplaceBegin, ItemIds, TypeOK, Runs
  <2> QED
    BY <1>6, <2>1, OverridesSummaries DEF ReplaceBegin
<1>7. ASSUME DeleteProject PROVE SummariesInv'
  <2>1. /\ lines' = [r \in Runs |-> NoLines]
        /\ summaries' = [r \in Runs |-> NoSummaries]
    BY <1>7 DEF DeleteProject
  <2> QED
    BY <2>1, NoLinesNoSummary DEF SummariesInv, NoSummaries
<1>8. ASSUME UNCHANGED <<lines, summaries>> PROVE SummariesInv'
  BY <1>8 DEF SummariesInv
<1> QED
  BY <1>1, <1>2, <1>3, <1>4, <1>5, <1>6, <1>7, <1>8
     DEF Next, AddRawItem, SetItemFields, ReplaceFinish, ReplaceAbort, ChooseColor,
         CompleteProject, vars, planVars

(* The stored supplier summaries are those of the stored lines: for any    *)
(* offers, policies and number of runs, no sequence of runs, overrides,    *)
(* orders, deletions and half-done replacements leaves a supplier with a   *)
(* stale, missing or leftover summary, as long as each commit is atomic.   *)
THEOREM SummariesCorrect == Spec => []SummariesMatchLines
<1>1. Init => SummariesInv
  BY NoLinesNoSummary DEF Init, SummariesInv, NoSummaries
<1>2. SummariesInv => SummariesMatchLines
  BY DEF SummariesInv, SummariesMatchLines
<1> QED
  BY InitType, TypeStep, SummariesStep, <1>1, <1>2, PTL DEF Spec

-----------------------------------------------------------------------------
(* A create request that is refused at the first conflict deletes nothing, *)
(* and makes drafts only for suppliers whose drafts are all given up.      *)
LEMMA RefusingCreateMeetsNoConflict ==
  ASSUME NEW r \in Runs, CreateOrders(r, [s \in Suppliers |-> "refuse"])
  PROVE  \E made : /\ PlaceOrders(r, {}, made)
                   /\ \A s \in made : /\ s \in Suppliers /\ Conflicting(s) = {}
                                      /\ FreshNos(s) # {}
<1> DEFINE answer == [s \in Suppliers |-> "refuse"]
           planned == {s \in Suppliers : summaries[r][s] # NULL}
           conflict == {s \in planned : Conflicting(s) # {}}
           gone == {o \in Suppliers \X OrderNos :
                      /\ o[1] \in conflict /\ answer[o[1]] = "replace"
                      /\ o[2] \in Conflicting(o[1])}
           made == {s \in planned : /\ LinesOf(lines[r], s) # {}
                                    /\ ~(s \in conflict /\ answer[s] = "skip")}
<1>1. /\ \A s \in conflict : answer[s] # "refuse"
      /\ \A s \in made : FreshNos(s) # {}
      /\ PlaceOrders(r, gone, made)
  BY DEF CreateOrders
<1>2. conflict = {}
  <2>1. \A s \in conflict : answer[s] = "refuse"
    OBVIOUS
  <2> QED
    BY <1>1, <2>1
<1>3. gone = {}
  BY <1>2
<1>4. \A s \in made : s \in Suppliers /\ Conflicting(s) = {}
  BY <1>2
<1> HIDE DEF gone, made, conflict
<1> QED
  BY <1>1, <1>3, <1>4

(* create_orders_for_run without an answer never removes a draft nor adds  *)
(* one beside a draft somebody still works with.                           *)
THEOREM UnaskedCreateCorrect == Spec => UnaskedCreateIsHarmless
<1> DEFINE Harmless ==
      \A r \in Runs : CreateOrders(r, [s \in Suppliers |-> "refuse"]) =>
        \A s \in Suppliers, k \in OrderNos :
          /\ orderState[s][k] = "draft" => orderState'[s][k] = "draft"
          /\ orderState[s][k] # "draft" /\ orderState'[s][k] = "draft" =>
               \A j \in OrderNos : ~Alive(s, j)
<1>1. [Next]_vars => [Harmless]_vars
  <2> SUFFICES ASSUME NEW r \in Runs, CreateOrders(r, [s \in Suppliers |-> "refuse"]),
                      NEW s \in Suppliers, NEW k \in OrderNos
               PROVE  /\ orderState[s][k] = "draft" => orderState'[s][k] = "draft"
                      /\ orderState[s][k] # "draft" /\ orderState'[s][k] = "draft" =>
                           \A j \in OrderNos : ~Alive(s, j)
    OBVIOUS
  <2>1. PICK made : /\ PlaceOrders(r, {}, made)
                    /\ \A u \in made : /\ u \in Suppliers /\ Conflicting(u) = {}
                                       /\ FreshNos(u) # {}
    BY RefusingCreateMeetsNoConflict
  <2>2. orderState'[s][k] = IF s \in made /\ k = NextNo(s) THEN "draft" ELSE orderState[s][k]
    BY <2>1 DEF PlaceOrders
  <2>3. ASSUME s \in made, NEW j \in OrderNos PROVE ~Alive(s, j)
    <3>1. Conflicting(s) = {}
      BY <2>1, <2>3
    <3>2. orderState[s][j] = "draft" => FullyDeclined(s, j) /\ ~HasConfirmed(s, j)
      BY <3>1 DEF Conflicting, Drafts
    <3> QED
      BY <3>2 DEF Alive, FullyDeclined, HasConfirmed
  <2> QED
    BY <2>2, <2>3
<1> QED
  BY <1>1, PTL DEF Spec, UnaskedCreateIsHarmless

-----------------------------------------------------------------------------
(* What an allocation line remembers: the need it was planned for, the     *)
(* solver's own choice and the declined item it replaces.                  *)

(* DemandPreserved, for one line.                                          *)
Remembers(line, m, need, choice) ==
  /\ choice = IF line.overridden THEN line.original ELSE line.supplier
  /\ line.needed = IF line.quantity = need THEN NULL ELSE need
  /\ \E o \in Offer[m][line.supplier] :
       line.price = o.price /\ line.quantity = Larger(need, o.moq)

LEMMA CandidateOffered ==
  ASSUME NEW m \in Materials, NEW c \in Candidates(m)
  PROVE  \E o \in Offer[m][c.supplier] : c.price = o.price /\ c.moq = o.moq
BY DEF Candidates

LEMMA SolverLineRemembers ==
  ASSUME NEW m \in Materials, NEW need \in Nat, NEW c \in Candidates(m)
  PROVE  Remembers(SolverLine(need, c), m, need, c.supplier)
BY CandidateOffered DEF Remembers, SolverLine, Recorded

(* The need is found again in an inflated line and in a plain one.         *)
LEMMA DemandRecovered ==
  ASSUME NEW m \in Materials, NEW need \in Nat, NEW choice, NEW line \in Lines,
         Remembers(line, m, need, choice)
  PROVE  DemandOf(line) = need
BY ConstantsAssumption DEF DemandOf, Remembers, Lines

LEMMA OverriddenLineRemembers ==
  ASSUME NEW m \in Materials, NEW need \in Nat, NEW choice, NEW line \in Lines,
         Remembers(line, m, need, choice), NEW c \in Candidates(m), NEW via
  PROVE  Remembers(OverriddenLine(line, c, via), m, need, choice)
<1>1. DemandOf(line) = need
  BY DemandRecovered
<1>2. Origin(line).supplier = choice
  BY DEF Origin, Remembers
<1> DEFINE new == OverriddenLine(line, c, via)
<1>3. /\ new.supplier = c.supplier /\ new.price = c.price
      /\ new.quantity = Larger(need, c.moq) /\ new.needed = Recorded(need, Larger(need, c.moq))
      /\ new.overridden = TRUE /\ new.original = choice
  BY <1>1, <1>2 DEF OverriddenLine
<1>4. \E o \in Offer[m][c.supplier] : c.price = o.price /\ c.moq = o.moq
  BY CandidateOffered
<1> HIDE DEF new
<1>5. Remembers(new, m, need, choice)
  BY <1>3, <1>4 DEF Remembers, Recorded
<1> QED
  BY <1>5 DEF new

(* Attribution and ordering touch nothing a line remembers.                *)
LEMMA MarksKeepMemory ==
  ASSUME NEW m, NEW need, NEW choice, NEW line \in Lines, Remembers(line, m, need, choice)
  PROVE  /\ Remembers([line EXCEPT !.via = NULL], m, need, choice)
         /\ Remembers([line EXCEPT !.ordered = TRUE], m, need, choice)
BY DEF Remembers, Lines

LEMMA UnreferencedRemembers ==
  ASSUME TypeOK, DemandPreserved, NEW gone, NEW r \in Runs, NEW m \in Materials,
         WithoutRefs(lines, gone)[r][m] # NULL
  PROVE  Remembers(WithoutRefs(lines, gone)[r][m], m, demand[r][m], chosen[r][m])
<1>0. PICK kept : kept = WithoutRefs(lines, gone)[r][m]
  OBVIOUS
<1>1. kept = lines[r][m] \/ (lines[r][m] # NULL /\ kept = [lines[r][m] EXCEPT !.via = NULL])
  BY <1>0 DEF WithoutRefs
<1>2. lines[r][m] # NULL /\ lines[r][m] \in Lines
  BY <1>0, <1>1 DEF TypeOK
<1>3. Remembers(lines[r][m], m, demand[r][m], chosen[r][m])
  BY <1>2 DEF DemandPreserved, Remembers
<1>4. Remembers([lines[r][m] EXCEPT !.via = NULL], m, demand[r][m], chosen[r][m])
  BY <1>2, <1>3, MarksKeepMemory
<1>5. Remembers(kept, m, demand[r][m], chosen[r][m])
  BY <1>1, <1>3, <1>4
<1> QED
  BY <1>0, <1>5

LEMMA NewRunRemembers ==
  ASSUME TypeOK, DemandPreserved, NEW need \in [Materials -> Quantities \cup {0}],
         NEW plan \in [Materials -> Lines \cup {NULL}], NewRun(need, plan),
         \A m \in Materials : plan[m] # NULL => Remembers(plan[m], m, need[m], plan[m].supplier)
  PROVE  DemandPreserved'
<1>1. PICK r \in Runs : r = nRuns + 1
  BY ConstantsAssumption DEF NewRun, TypeOK, Runs
<1> DEFINE choice == [m \in Materials |-> IF plan[m] = NULL THEN NULL ELSE plan[m].supplier]
<1>2. /\ lines' = [lines EXCEPT ![r] = plan] /\ demand' = [demand EXCEPT ![r] = need]
      /\ chosen' = [chosen EXCEPT ![r] = choice]
  BY <1>1 DEF NewRun
<1> SUFFICES ASSUME NEW q \in Runs, NEW m \in Materials, lines'[q][m] # NULL
             PROVE  Remembers(lines'[q][m], m, demand'[q][m], chosen'[q][m])
  BY DEF DemandPreserved, Remembers
<1>3. CASE q = r
  <2>1. lines'[q] = plan /\ demand'[q] = need /\ chosen'[q] = choice
    BY <1>2, <1>3 DEF TypeOK
  <2> QED
    BY <2>1
<1>4. CASE q # r
  <2>1. lines'[q] = lines[q] /\ demand'[q] = demand[q] /\ chosen'[q] = chosen[q]
    BY <1>2, <1>4 DEF TypeOK
  <2> QED
    BY <2>1 DEF DemandPreserved, Remembers
<1> QED
  BY <1>3, <1>4

LEMMA OverridesRemember ==
  ASSUME TypeOK, DemandPreserved, NEW r \in Runs, NEW m \in Materials,
         NEW c \in Candidates(m), NEW via, lines[r][m] # NULL, Overrides(r, m, c, via)
  PROVE  DemandPreserved'
<1> DEFINE new == OverriddenLine(lines[r][m], c, via)
<1>1. /\ lines' = [lines EXCEPT ![r] = [lines[r] EXCEPT ![m] = new]]
      /\ UNCHANGED <<demand, chosen>>
  BY DEF Overrides
<1>2. Remembers(lines[r][m], m, demand[r][m], chosen[r][m]) /\ lines[r][m] \in Lines
      /\ demand[r][m] \in Nat
  BY DEF DemandPreserved, Remembers, TypeOK
<1>3. Remembers(new, m, demand[r][m], chosen[r][m])
  BY <1>2, OverriddenLineRemembers
<1> HIDE DEF new
<1> SUFFICES ASSUME NEW q \in Runs, NEW n \in Materials, lines'[q][n] # NULL
             PROVE  Remembers(lines'[q][n], n, demand'[q][n], chosen'[q][n])
  BY DEF DemandPreserved, Remembers
<1>4. CASE q = r /\ n = m
  <2>1. lines'[q][n] = new
    BY <1>1, <1>4 DEF TypeOK
  <2> QED
    BY <1>1, <1>3, <1>4, <2>1
<1>5. CASE ~(q = r /\ n = m)
  <2>1. lines'[q][n] = lines[q][n]
    BY <1>1, <1>5 DEF TypeOK
  <2> QED
    BY <1>1, <2>1 DEF DemandPreserved, Remembers
<1> QED
  BY <1>4, <1>5

LEMMA OrdersRemember ==
  ASSUME TypeOK, DemandPreserved, NEW r \in Runs, NEW gone, NEW made, PlaceOrders(r, gone, made)
  PROVE  DemandPreserved'
<1> DEFINE kept == WithoutRefs(lines, gone)
           stamped == [m \in Materials |->
                        IF lines[r][m] # NULL /\ lines[r][m].supplier \in made
                        THEN [kept[r][m] EXCEPT !.ordered = TRUE] ELSE kept[r][m]]
<1>1. lines' = [kept EXCEPT ![r] = stamped] /\ UNCHANGED <<demand, chosen>>
  BY DEF PlaceOrders
<1>2. kept \in [Runs -> [Materials -> Lines \cup {NULL}]]
  BY RefsType DEF TypeOK
<1>3. \A q \in Runs, m \in Materials : kept[q][m] # NULL =>
        Remembers(kept[q][m], m, demand[q][m], chosen[q][m])
  BY UnreferencedRemembers
<1>4. \A m \in Materials : lines[r][m] # NULL => kept[r][m] # NULL
  <2>1. \A l \in Lines : [l EXCEPT !.via = NULL] \in Lines
    BY DEF Lines
  <2> QED
    BY <2>1, NullAssumption DEF WithoutRefs, TypeOK
<1> HIDE DEF kept
<1> SUFFICES ASSUME NEW q \in Runs, NEW m \in Materials, lines'[q][m] # NULL
             PROVE  Remembers(lines'[q][m], m, demand'[q][m], chosen'[q][m])
  BY DEF DemandPreserved, Remembers
<1>5. \/ lines'[q][m] = kept[q][m]
      \/ kept[q][m] # NULL /\ lines'[q][m] = [kept[q][m] EXCEPT !.ordered = TRUE]
  <2>1. CASE q = r
    BY <1>1, <1>2, <1>4, <2>1
  <2>2. CASE q # r
    BY <1>1, <1>2, <2>2
  <2> QED
    BY <2>1, <2>2
<1>6. kept[q][m] # NULL /\ kept[q][m] \in Lines
  BY <1>2, <1>5
<1>7. Remembers(kept[q][m], m, demand[q][m], chosen[q][m])
  BY <1>3, <1>6
<1>8. Remembers([kept[q][m] EXCEPT !.ordered = TRUE], m, demand[q][m], chosen[q][m])
  BY <1>6, <1>7, MarksKeepMemory
<1> QED
  BY <1>1, <1>5, <1>7, <1>8

LEMMA DemandStep == TypeOK /\ DemandPreserved /\ [Next]_vars => DemandPreserved'
<1> SUFFICES ASSUME TypeOK, DemandPreserved, [Next]_vars PROVE DemandPreserved'
  OBVIOUS
<1>1. ASSUME NEW need \in [Materials -> Quantities \cup {0}], RunInfeasible(need)
      PROVE  DemandPreserved'
  BY <1>1, NoLinesType, NewRunRemembers DEF RunInfeasible, NoLines
<1>2. ASSUME NEW need \in [Materials -> Quantities \cup {0}], NEW pick,
             \A m \in DOMAIN pick : pick[m] \in Candidates(m), RunSolved(need, pick)
      PROVE  DemandPreserved'
  <2>1. PICK plan : plan = PlanOf(need, pick)
    OBVIOUS
  <2>2. plan \in [Materials -> Lines \cup {NULL}] /\ NewRun(need, plan)
    BY <1>2, <2>1, PlanOfType DEF RunSolved
  <2>3. ASSUME NEW m \in Materials, plan[m] # NULL
        PROVE  Remembers(plan[m], m, need[m], plan[m].supplier)
    <3>1. m \in DOMAIN pick /\ plan[m] = SolverLine(need[m], pick[m])
      BY <2>1, <2>3 DEF PlanOf
    <3>2. need[m] \in Nat
      <4>1. Quantities \cup {0} \subseteq Nat
        BY ConstantsAssumption
      <4> QED
        BY <4>1
    <3>3. pick[m] \in Candidates(m)
      BY <1>2, <3>1
    <3>4. Remembers(SolverLine(need[m], pick[m]), m, need[m], pick[m].supplier)
      BY <3>2, <3>3, SolverLineRemembers
    <3>5. plan[m].supplier = pick[m].supplier
      BY <3>1 DEF SolverLine
    <3> QED
      BY <3>1, <3>4, <3>5
  <2> QED
    BY <2>2, <2>3, NewRunRemembers
<1>3. ASSUME NEW r \in Runs, NEW m \in Materials, NEW via \in ItemIds \cup {NULL},
             NEW c \in Candidates(m), OverrideLine(r, m, c, via)
      PROVE  DemandPreserved'
  BY <1>3, OverridesRemember DEF OverrideLine
<1>4. ASSUME NEW r \in Runs, NEW answer, CreateOrders(r, answer) PROVE DemandPreserved'
  <2>1. PICK gone, made : PlaceOrders(r, gone, made)
    BY <1>4 DEF CreateOrders
  <2> QED
    BY <2>1, OrdersRemember
<1>5. ASSUME NEW s, NEW k, DeleteOrder(s, k) PROVE DemandPreserved'
  <2>1. lines' = WithoutRefs(lines, {<<s, k>>}) /\ UNCHANGED <<demand, chosen>>
    BY <1>5 DEF DeleteOrder
  <2> SUFFICES ASSUME NEW r \in Runs, NEW m \in Materials, lines'[r][m] # NULL
               PROVE  Remembers(lines'[r][m], m, demand'[r][m], chosen'[r][m])
    BY DEF DemandPreserved, Remembers
  <2> QED
    BY <2>1, UnreferencedRemembers
<1>6. ASSUME NEW w, NEW i \in ItemIds, NEW c \in Candidates(i[3]), ReplaceBegin(w, i, c)
      PROVE  DemandPreserved'
  <2>1. i[3] \in Materials /\ nRuns \in Runs
    BY <1>6 DEF ReplaceBegin, ItemIds, TypeOK, Runs
  <2> QED
    BY <1>6, <2>1, OverridesRemember DEF ReplaceBegin
<1>7. ASSUME DeleteProject PROVE DemandPreserved'
  BY <1>7 DEF DeleteProject, DemandPreserved, NoLines
<1>8. ASSUME UNCHANGED <<lines, demand, chosen>> PROVE DemandPreserved'
  BY <1>8 DEF DemandPreserved
<1> QED
  BY <1>1, <1>2, <1>3, <1>4, <1>5, <1>6, <1>7, <1>8
     DEF Next, AddRawItem, SetItemFields, ReplaceFinish, ReplaceAbort, ChooseColor,
         CompleteProject, vars, planVars

(* However often override_allocation_line_supplier moves a line, it still  *)
(* knows the project's need and the solver's supplier, and orders the      *)
(* larger of that need and its supplier's minimum.                         *)
THEOREM DemandCorrect == Spec => []DemandPreserved
<1>1. Init => DemandPreserved
  BY DEF Init, DemandPreserved, NoLines
<1> QED
  BY InitType, TypeStep, DemandStep, <1>1, PTL DEF Spec

-----------------------------------------------------------------------------
(* Attribution.  The requests that remove items clear what refers to them; *)
(* every other request keeps the items there are.                          *)

LEMMA ItemsKeptKeepRefs ==
  ASSUME TypeOK, AttributionIsLive, lines' = lines,
         \A i \in ItemIds : items[i] # NULL => items'[i] # NULL
  PROVE  AttributionIsLive'
<1> SUFFICES ASSUME NEW r \in Runs, NEW m \in Materials,
                    lines[r][m] # NULL, lines[r][m].via # NULL
             PROVE  items'[lines[r][m].via] # NULL
  BY DEF AttributionIsLive
<1>1. lines[r][m] \in Lines
  BY DEF TypeOK
<1>2. lines[r][m].via \in ItemIds
  BY <1>1 DEF Lines
<1> QED
  BY <1>2 DEF AttributionIsLive

LEMMA RemainingRefs ==
  ASSUME TypeOK, NEW gone, NEW r \in Runs, NEW m \in Materials,
         WithoutRefs(lines, gone)[r][m] # NULL, WithoutRefs(lines, gone)[r][m].via # NULL
  PROVE  /\ lines[r][m] \in Lines /\ lines[r][m].via \in ItemIds
         /\ WithoutRefs(lines, gone)[r][m].via = lines[r][m].via
         /\ <<lines[r][m].via[1], lines[r][m].via[2]>> \notin gone
<1>0. PICK kept : kept = WithoutRefs(lines, gone)[r][m]
  OBVIOUS
<1>1. kept = IF lines[r][m] # NULL /\ lines[r][m].via # NULL
                /\ <<lines[r][m].via[1], lines[r][m].via[2]>> \in gone
             THEN [lines[r][m] EXCEPT !.via = NULL] ELSE lines[r][m]
  BY <1>0 DEF WithoutRefs
<1>2. \A l \in Lines : [l EXCEPT !.via = NULL].via = NULL
  BY DEF Lines
<1>3. lines[r][m] \in Lines
  BY <1>0, <1>1 DEF TypeOK
<1>4. kept = lines[r][m]
  BY <1>0, <1>1, <1>2, <1>3
<1>5. lines[r][m].via \in ItemIds
  BY <1>0, <1>3, <1>4 DEF Lines
<1>6. <<lines[r][m].via[1], lines[r][m].via[2]>> \notin gone
  BY <1>0, <1>1, <1>2, <1>3, <1>4
<1> QED
  BY <1>0, <1>3, <1>4, <1>5, <1>6

LEMMA OverridesRefer ==
  ASSUME TypeOK, AttributionIsLive, NEW r \in Runs, NEW m \in Materials, NEW c, NEW via,
         via # NULL => items[via] # NULL, lines[r][m] # NULL,
         Overrides(r, m, c, via), items' = items
  PROVE  AttributionIsLive'
<1> DEFINE new == OverriddenLine(lines[r][m], c, via)
<1>1. lines' = [lines EXCEPT ![r] = [lines[r] EXCEPT ![m] = new]]
  BY DEF Overrides
<1>2. new.via = via
  BY DEF OverriddenLine
<1> HIDE DEF new
<1>3. \A q \in Runs, n \in Materials :
        lines'[q][n] = IF q = r /\ n = m THEN new ELSE lines[q][n]
  BY <1>1 DEF TypeOK
<1> QED
  BY <1>2, <1>3 DEF AttributionIsLive

LEMMA OrdersRefer ==
  ASSUME TypeOK, AttributionIsLive, NEW r \in Runs, NEW gone, NEW made,
         PlaceOrders(r, gone, made)
  PROVE  AttributionIsLive'
<1> DEFINE kept == WithoutRefs(lines, gone)
           stamped == [m \in Materials |->
                        IF lines[r][m] # NULL /\ lines[r][m].supplier \in made
                        THEN [kept[r][m] EXCEPT !.ordered = TRUE] ELSE kept[r][m]]
<1>1. lines' = [kept EXCEPT ![r] = stamped]
  BY DEF PlaceOrders
<1>2. kept \in [Runs -> [Materials -> Lines \cup {NULL}]]
  BY RefsType DEF TypeOK
<1>3. \A i \in ItemIds : <<i[1], i[2]>> \notin gone /\ items[i] # NULL => items'[i] # NULL
  <2>1. \A s \in Suppliers : \A m \in LinesOf(lines[r], s) : OrderItemFrom(lines[r][m]) \in Items
    BY OrderItemType DEF LinesOf, TypeOK
  <2>2. \A i \in ItemIds : i[1] \in Suppliers
    BY DEF ItemIds
  <2> QED
    BY <2>1, <2>2, NullAssumption DEF PlaceOrders
<1>4. \A m \in Materials : lines[r][m] # NULL => kept[r][m] # NULL
  <2>1. \A l \in Lines : [l EXCEPT !.via = NULL] \in Lines
    BY DEF Lines
  <2> QED
    BY <2>1, NullAssumption DEF WithoutRefs, TypeOK
<1>5. \A q \in Runs, m \in Materials : kept[q][m] # NULL /\ kept[q][m].via # NULL =>
        items'[kept[q][m].via] # NULL
  <2> SUFFICES ASSUME NEW q \in Runs, NEW m \in Materials,
                      kept[q][m] # NULL, kept[q][m].via # NULL
               PROVE  items'[kept[q][m].via] # NULL
    OBVIOUS
  <2>1. /\ lines[q][m] \in Lines /\ lines[q][m].via \in ItemIds
        /\ kept[q][m].via = lines[q][m].via
        /\ <<lines[q][m].via[1], lines[q][m].via[2]>> \notin gone
    BY RemainingRefs
  <2>2. lines[q][m] # NULL /\ lines[q][m].via # NULL
    BY <2>1, NullAssumption, ConstantsAssumption
  <2> HIDE DEF kept
  <2> QED
    BY <1>3, <2>1, <2>2 DEF AttributionIsLive
<1> HIDE DEF kept
<1>6. ASSUME NEW q \in Runs, NEW m \in Materials, lines'[q][m] # NULL
      PROVE  kept[q][m] # NULL /\ lines'[q][m].via = kept[q][m].via
  <2>1. \/ lines'[q][m] = kept[q][m]
        \/ kept[q][m] # NULL /\ lines'[q][m] = [kept[q][m] EXCEPT !.ordered = TRUE]
    <3>1. CASE q = r
      BY <1>1, <1>2, <1>4, <3>1
    <3>2. CASE q # r
      BY <1>1, <1>2, <3>2
    <3> QED
      BY <3>1, <3>2
  <2>2. \A l \in Lines : [l EXCEPT !.ordered = TRUE].via = l.via
    BY DEF Lines
  <2>3. kept[q][m] # NULL
    BY <1>6, <2>1
  <2>4. kept[q][m] \in Lines
    BY <1>2, <2>3
  <2>5. [kept[q][m] EXCEPT !.ordered = TRUE].via = kept[q][m].via
    BY <2>2, <2>4
  <2> QED
    BY <2>1, <2>3, <2>5
<1> QED
  BY <1>5, <1>6 DEF AttributionIsLive

LEMMA DeletionRefers ==
  ASSUME TypeOK, AttributionIsLive, NEW s, NEW k, DeleteOrder(s, k)
  PROVE  AttributionIsLive'
<1> DEFINE kept == WithoutRefs(lines, {<<s, k>>})
<1>1. lines' = kept
  BY DEF DeleteOrder
<1>2. \A i \in ItemIds : <<i[1], i[2]>> \notin {<<s, k>>} => items'[i] = items[i]
  BY DEF DeleteOrder
<1> SUFFICES ASSUME NEW q \in Runs, NEW m \in Materials,
                    kept[q][m] # NULL, kept[q][m].via # NULL
             PROVE  items'[kept[q][m].via] # NULL
  BY <1>1 DEF AttributionIsLive
<1>3. /\ lines[q][m] \in Lines /\ lines[q][m].via \in ItemIds
      /\ kept[q][m].via = lines[q][m].via
      /\ <<lines[q][m].via[1], lines[q][m].via[2]>> \notin {<<s, k>>}
  BY RemainingRefs
<1>4. lines[q][m] # NULL /\ lines[q][m].via # NULL
  BY <1>3, NullAssumption, ConstantsAssumption
<1> HIDE DEF kept
<1> QED
  BY <1>2, <1>3, <1>4 DEF AttributionIsLive

LEMMA AttributionStep == TypeOK /\ AttributionIsLive /\ [Next]_vars => AttributionIsLive'
<1> SUFFICES ASSUME TypeOK, AttributionIsLive, [Next]_vars PROVE AttributionIsLive'
  OBVIOUS
<1>1. ASSUME NEW need, NEW plan \in [Materials -> Lines \cup {NULL}], NewRun(need, plan),
             \A m \in Materials : plan[m] # NULL => plan[m].via = NULL
      PROVE  AttributionIsLive'
  <2>1. PICK r \in Runs : r = nRuns + 1
    BY <1>1, ConstantsAssumption DEF NewRun, TypeOK, Runs
  <2>2. lines' = [lines EXCEPT ![r] = plan] /\ items' = items
    BY <1>1, <2>1 DEF NewRun, orderVars
  <2>3. \A q \in Runs : lines'[q] = IF q = r THEN plan ELSE lines[q]
    BY <2>2 DEF TypeOK
  <2> QED
    BY <1>1, <2>2, <2>3 DEF AttributionIsLive
<1>2. ASSUME NEW need \in [Materials -> Quantities \cup {0}], RunInfeasible(need)
      PROVE  AttributionIsLive'
  BY <1>1, <1>2, NoLinesType DEF RunInfeasible, NoLines
<1>3. ASSUME NEW need \in [Materials -> Quantities \cup {0}], NEW pick,
             \A m \in DOMAIN pick : pick[m] \in Candidates(m), RunSolved(need, pick)
      PROVE  AttributionIsLive'
  <2>1. PICK plan : plan = PlanOf(need, pick)
    OBVIOUS
  <2>2. plan \in [Materials -> Lines \cup {NULL}] /\ NewRun(need, plan)
    BY <1>3, <2>1, PlanOfType DEF RunSolved
  <2>3. \A m \in Materials : plan[m] # NULL => plan[m].via = NULL
    BY <2>1 DEF PlanOf, SolverLine
  <2> QED
    BY <1>1, <2>2, <2>3
<1>4. ASSUME NEW r \in Runs, NEW m \in Materials, NEW via \in ItemIds \cup {NULL},
             NEW c \in Candidates(m), OverrideLine(r, m, c, via)
      PROVE  AttributionIsLive'
  BY <1>4, OverridesRefer DEF OverrideLine, orderVars
<1>5. ASSUME NEW r \in Runs, NEW answer, CreateOrders(r, answer) PROVE AttributionIsLive'
  <2>1. PICK gone, made : PlaceOrders(r, gone, made)
    BY <1>5 DEF CreateOrders
  <2> QED
    BY <2>1, OrdersRefer
<1>6. ASSUME NEW s, NEW k, NEW q \in Quantities, AddRawItem(s, k, q) PROVE AttributionIsLive'
  <2>1. [quantity |-> q, needed |-> NULL, quoted |-> 1, declined |-> FALSE, confirmed |-> FALSE]
          \in Items
    BY ConstantsAssumption DEF Items
  <2>2. \A i \in ItemIds : items[i] # NULL => items'[i] # NULL
    BY <1>6, <2>1, NullAssumption DEF AddRawItem, TypeOK
  <2>3. lines' = lines
    BY <1>6 DEF AddRawItem, planVars
  <2> QED
    BY <2>2, <2>3, ItemsKeptKeepRefs
<1>7. ASSUME NEW i \in ItemIds, NEW d \in BOOLEAN, NEW c \in BOOLEAN, SetItemFields(i, d, c)
      PROVE  AttributionIsLive'
  <2>1. items[i] \in Items
    BY <1>7 DEF SetItemFields, TypeOK
  <2>2. [items[i] EXCEPT !.declined = d, !.confirmed = c] \in Items
    BY <2>1 DEF Items
  <2>3. items' = [items EXCEPT ![i] = [items[i] EXCEPT !.declined = d, !.confirmed = c]]
    BY <1>7 DEF SetItemFields, TypeOK
  <2>4. \A j \in ItemIds : items[j] # NULL => items'[j] # NULL
    BY <2>2, <2>3, NullAssumption DEF TypeOK
  <2>5. lines' = lines
    BY <1>7 DEF SetItemFields, planVars
  <2> QED
    BY <2>4, <2>5, ItemsKeptKeepRefs
<1>8. ASSUME NEW w \in Workers, NEW i \in ItemIds, NEW c \in Candidates(i[3]), ReplaceBegin(w, i, c)
      PROVE  AttributionIsLive'
  <2>1. i[3] \in Materials /\ nRuns \in Runs
    BY <1>8 DEF ReplaceBegin, ItemIds, TypeOK, Runs
  <2> QED
    BY <1>8, <2>1, OverridesRefer DEF ReplaceBegin, orderVars
<1>9. ASSUME NEW w \in Workers, ReplaceFinish(w) PROVE AttributionIsLive'
  <2>1. PICK p : p = pending[w]
    OBVIOUS
  <2>2. p \in Syncs
    BY <1>9, <2>1 DEF ReplaceFinish, TypeOK
  <2> DEFINE new == [quantity |-> p.quantity, needed |-> p.needed, quoted |-> p.quoted,
                     declined |-> FALSE, confirmed |-> FALSE]
  <2>3. new \in Items
    BY <2>2 DEF Items, Syncs
  <2>4. \E j : items' = [items EXCEPT ![j] = new]
    BY <1>9, <2>1 DEF ReplaceFinish
  <2> HIDE DEF new
  <2>5. \A i \in ItemIds : items[i] # NULL => items'[i] # NULL
    BY <2>3, <2>4, NullAssumption DEF TypeOK
  <2>6. lines' = lines
    BY <1>9 DEF ReplaceFinish, planVars
  <2> QED
    BY <2>5, <2>6, ItemsKeptKeepRefs
<1>10. ASSUME DeleteProject PROVE AttributionIsLive'
  BY <1>10 DEF DeleteProject, AttributionIsLive, NoLines
<1>11. ASSUME UNCHANGED <<lines, items>> PROVE AttributionIsLive'
  BY <1>11 DEF AttributionIsLive
<1> QED
  BY <1>2, <1>3, <1>4, <1>5, <1>6, <1>7, <1>8, <1>9, <1>10, <1>11, DeletionRefers
     DEF Next, ReplaceAbort, ChooseColor, CompleteProject, vars, planVars, orderVars

(* overridden_via_order_item_id never names an item that is gone: not      *)
(* after deletions and replacements of orders, nor while a replacement is  *)
(* between its commits.                                                    *)
THEOREM AttributionCorrect == Spec => []AttributionIsLive
<1>1. Init => AttributionIsLive
  BY DEF Init, AttributionIsLive, NoLines
<1> QED
  BY InitType, TypeStep, AttributionStep, <1>1, PTL DEF Spec

-----------------------------------------------------------------------------
(* Sums over finite sets: a fold takes one element after another, so what  *)
(* is wrong with one is wrong with a smallest one.                         *)

(* A nonempty collection of finite sets has one none of whose proper parts *)
(* it holds.                                                               *)
LEMMA LeastSet ==
  ASSUME NEW D, IsFiniteSet(D), NEW T \in SUBSET SUBSET D, T # {}
  PROVE  \E x \in T : \A y \in SUBSET x : y \in T => y = x
<1>1. T \subseteq FiniteSubsetsOf(D)
  BY FS_FiniteSubsetsOfFinite
<1>2. PICK x \in T : \A y \in T : <<y, x>> \notin StrictSubsetOrdering(D)
  BY <1>1, FS_StrictSubsetOrderingWellFounded, WFMin
<1>3. ASSUME NEW y \in SUBSET x, y \in T, y # x PROVE FALSE
  <2>1. x \in SUBSET D /\ y \in SUBSET D
    BY <1>3
  <2>2. <<y, x>> \in StrictSubsetOrdering(D)
    BY <1>3, <2>1 DEF StrictSubsetOrdering
  <2> QED BY <1>2, <1>3, <2>2
<1> QED BY <1>3

Picked(s) == CHOOSE x \in s : TRUE

(* it[s] adds up f over s, one picked element after another.               *)
Unfold(f, it, s) == IF s = {} THEN 0 ELSE f[Picked(s)] + it[s \ {Picked(s)}]
Adds(f, D, it) == it = [s \in SUBSET D |-> Unfold(f, it, s)]

LEMMA SumIsFold ==
  ASSUME NEW f, NEW D
  PROVE  \E it : it = (CHOOSE g : Adds(f, D, g)) /\ SumFunctionOnSet(f, D) = it[D]
<1>1. \E it : /\ it = (CHOOSE g : g = [s \in SUBSET D |->
                         IF s = {} THEN 0
                         ELSE f[CHOOSE x \in s : TRUE] + g[s \ {CHOOSE x \in s : TRUE}]])
              /\ SumFunctionOnSet(f, D) = it[D]
  BY Zenon DEF SumFunctionOnSet, FoldFunctionOnSet, MapThenFoldSet
<1> QED BY <1>1, Zenon DEF Adds, Unfold, Picked

LEMMA PickedIn == ASSUME NEW s, s # {} PROVE Picked(s) \in s
  BY DEF Picked

LEMMA AddsAt ==
  ASSUME NEW f, NEW D, NEW it, Adds(f, D, it), NEW s \in SUBSET D
  PROVE  it[s] = Unfold(f, it, s)
<1>1. it = [x \in SUBSET D |-> Unfold(f, it, x)]
  BY DEF Adds
<1> QED BY <1>1

(* Two such functions agree where both are defined.                        *)
LEMMA AddsUnique ==
  ASSUME NEW f, NEW D, NEW E, IsFiniteSet(D), NEW a, NEW b, Adds(f, D, a), Adds(f, E, b),
         NEW x \in SUBSET D, x \in SUBSET E
  PROVE  a[x] = b[x]
<1> DEFINE T == {s \in SUBSET x : a[s] # b[s]}
<1>1. SUFFICES ASSUME T # {} PROVE FALSE
  OBVIOUS
<1>2. T \in SUBSET SUBSET D
  OBVIOUS
<1>3. PICK s \in T : \A y \in SUBSET s : y \in T => y = s
  <2> HIDE DEF T
  <2> QED BY <1>1, <1>2, LeastSet
<1>4. a[s] = Unfold(f, a, s) /\ b[s] = Unfold(f, b, s)
  BY AddsAt
<1>5. s # {}
  BY <1>4 DEF Unfold
<1>6. PICK r : r = s \ {Picked(s)}
  OBVIOUS
<1>7. r \in SUBSET s /\ r # s
  BY <1>5, <1>6, PickedIn
<1>8. r \notin T
  <2> HIDE DEF T
  <2> QED BY <1>3, <1>7
<1>9. a[r] = b[r]
  BY <1>7, <1>8
<1>10. a[s] = b[s]
  BY <1>4, <1>5, <1>6, <1>9 DEF Unfold
<1> QED BY <1>10

AddedUp(f, s) == (CHOOSE g : Adds(f, s, g))[s]

LEMMA AddsExists ==
  ASSUME NEW f, NEW D, IsFiniteSet(D)
  PROVE  \E it : Adds(f, D, it)
<1> DEFINE T == {s \in SUBSET D : ~ \E it : Adds(f, s, it)}
<1>1. SUFFICES ASSUME T # {} PROVE FALSE
  OBVIOUS
<1>2. PICK s \in T : \A y \in SUBSET s : y \in T => y = s
  <2>1. T \in SUBSET SUBSET D
    OBVIOUS
  <2> HIDE DEF T
  <2> QED BY <1>1, <2>1, LeastSet
<1>3. \A y \in SUBSET s : y # s => \E it : Adds(f, y, it)
  BY <1>2
<1>4. \A y \in SUBSET s : y # s => Adds(f, y, CHOOSE g : Adds(f, y, g))
  BY <1>3
<1>5. PICK last : last = IF s = {} THEN 0 ELSE f[Picked(s)] + AddedUp(f, s \ {Picked(s)})
  OBVIOUS
<1>6. PICK it : it = [y \in SUBSET s |-> IF y = s THEN last ELSE AddedUp(f, y)]
  OBVIOUS
<1>7. ASSUME NEW y \in SUBSET s PROVE it[y] = Unfold(f, it, y)
  <2>1. CASE y = {} /\ y = s
    BY <1>5, <1>6, <2>1 DEF Unfold
  <2>2. CASE y # {} /\ y = s
    <3>1. s \ {Picked(s)} \in SUBSET s /\ s \ {Picked(s)} # s
      BY <2>2, PickedIn
    <3>2. it[s \ {Picked(s)}] = AddedUp(f, s \ {Picked(s)})
      BY <1>6, <3>1
    <3>3. it[s] = last
      BY <1>6
    <3> QED BY <1>5, <2>2, <3>2, <3>3 DEF Unfold
  <2>3. CASE y # s
    <3>1. PICK g : g = CHOOSE h : Adds(f, y, h)
      OBVIOUS
    <3>2. Adds(f, y, g)
      BY <1>4, <2>3, <3>1
    <3>3. it[y] = g[y]
      BY <1>6, <2>3, <3>1 DEF AddedUp
    <3>4. g[y] = Unfold(f, g, y)
      BY <3>2, AddsAt
    <3>5. CASE y = {}
      BY <3>3, <3>4, <3>5 DEF Unfold
    <3>6. CASE y # {}
      <4>1. PICK r : r = y \ {Picked(y)}
        OBVIOUS
      <4>2. r \in SUBSET s /\ r \in SUBSET y /\ r # s
        BY <2>3, <3>6, <4>1, PickedIn
      <4>3. PICK h : h = CHOOSE k : Adds(f, r, k)
        OBVIOUS
      <4>4. Adds(f, r, h)
        BY <1>4, <4>2, <4>3
      <4>5. IsFiniteSet(y)
        BY FS_Subset
      <4>6. g[r] = h[r]
        BY <3>2, <4>2, <4>4, <4>5, AddsUnique
      <4>7. it[r] = h[r]
        BY <1>6, <4>2, <4>3 DEF AddedUp
      <4> QED BY <3>3, <3>4, <3>6, <4>1, <4>6, <4>7 DEF Unfold
    <3> QED BY <3>5, <3>6
  <2> QED BY <2>1, <2>2, <2>3
<1>8. it = [y \in SUBSET s |-> Unfold(f, it, y)]
  <2>1. DOMAIN it = SUBSET s /\ it = [y \in DOMAIN it |-> it[y]]
    BY <1>6
  <2> QED BY <1>7, <2>1
<1>9. Adds(f, s, it)
  BY <1>8, Zenon DEF Adds
<1> QED BY <1>2, <1>9

(* The sum of numbers over a finite set is a number.                       *)
LEMMA SumIsNat ==
  ASSUME NEW D, IsFiniteSet(D), NEW f \in [D -> Nat]
  PROVE  SumFunction(f) \in Nat
<1>1. PICK it : it = (CHOOSE g : Adds(f, D, g)) /\ SumFunctionOnSet(f, D) = it[D]
  BY SumIsFold
<1>2. Adds(f, D, it)
  BY <1>1, AddsExists
<1> DEFINE T == {s \in SUBSET D : it[s] \notin Nat}
<1>3. ASSUME T # {} PROVE FALSE
  <2>1. PICK s \in T : \A y \in SUBSET s : y \in T => y = s
    <3>1. T \in SUBSET SUBSET D
      OBVIOUS
    <3> HIDE DEF T
    <3> QED BY <1>3, <3>1, LeastSet
  <2>2. it[s] = Unfold(f, it, s)
    BY <1>2, AddsAt
  <2>3. CASE s = {}
    BY <2>2, <2>3 DEF Unfold
  <2>4. CASE s # {}
    <3>1. PICK r : r = s \ {Picked(s)}
      OBVIOUS
    <3>2. r \in SUBSET s /\ r # s /\ Picked(s) \in D
      BY <2>4, <3>1, PickedIn
    <3>3. it[r] \in Nat
      BY <2>1, <3>2
    <3>4. it[s] = f[Picked(s)] + it[r]
      BY <2>2, <2>4, <3>1 DEF Unfold
    <3>5. it[s] \in Nat
      BY <3>2, <3>3, <3>4
    <3> QED BY <3>5
  <2> QED BY <2>3, <2>4
<1>4. it[D] \in Nat
  BY <1>3
<1>5. SumFunction(f) = SumFunctionOnSet(f, D)
  BY DEF SumFunction
<1> QED BY <1>1, <1>4, <1>5

(* Two such functions agree where what they add does.                      *)
LEMMA AddsAgree ==
  ASSUME NEW f, NEW g, NEW D, NEW E, IsFiniteSet(D), NEW a, NEW b,
         Adds(f, D, a), Adds(g, E, b),
         NEW x \in SUBSET D, x \in SUBSET E, \A e \in x : f[e] = g[e]
  PROVE  a[x] = b[x]
<1> DEFINE T == {s \in SUBSET x : a[s] # b[s]}
<1>1. SUFFICES ASSUME T # {} PROVE FALSE
  OBVIOUS
<1>2. T \in SUBSET SUBSET D
  OBVIOUS
<1>3. PICK s \in T : \A y \in SUBSET s : y \in T => y = s
  <2> HIDE DEF T
  <2> QED BY <1>1, <1>2, LeastSet
<1>4. a[s] = Unfold(f, a, s) /\ b[s] = Unfold(g, b, s)
  BY AddsAt
<1>5. s # {}
  BY <1>4 DEF Unfold
<1>6. PICK r : r = s \ {Picked(s)}
  OBVIOUS
<1>7. r \in SUBSET s /\ r # s /\ Picked(s) \in x
  BY <1>5, <1>6, PickedIn
<1>8. r \notin T
  <2> HIDE DEF T
  <2> QED BY <1>3, <1>7
<1>9. a[r] = b[r]
  BY <1>7, <1>8
<1>10. a[s] = b[s]
  BY <1>4, <1>5, <1>6, <1>7, <1>9 DEF Unfold
<1> QED BY <1>10

(* Which element is taken first does not matter.                           *)
LEMMA AddsAny ==
  ASSUME NEW D, IsFiniteSet(D), NEW f, \A e \in D : f[e] \in Nat,
         NEW it, Adds(f, D, it), NEW x \in SUBSET D, NEW e \in x
  PROVE  it[x] \in Nat /\ it[x \ {e}] \in Nat /\ it[x] = f[e] + it[x \ {e}]
<1>1. \A s \in SUBSET D : it[s] \in Nat
  <2> DEFINE T == {s \in SUBSET D : it[s] \notin Nat}
  <2>1. SUFFICES ASSUME T # {} PROVE FALSE
    OBVIOUS
  <2>2. PICK s \in T : \A y \in SUBSET s : y \in T => y = s
    <3>1. T \in SUBSET SUBSET D
      OBVIOUS
    <3> HIDE DEF T
    <3> QED BY <2>1, <3>1, LeastSet
  <2>3. it[s] = Unfold(f, it, s)
    BY AddsAt
  <2>4. s # {}
    BY <2>3 DEF Unfold
  <2>5. PICK r : r = s \ {Picked(s)}
    OBVIOUS
  <2>6. r \in SUBSET s /\ r # s /\ Picked(s) \in D
    BY <2>4, <2>5, PickedIn
  <2>7. it[r] \in Nat
    BY <2>2, <2>6
  <2>8. it[s] = f[Picked(s)] + it[r]
    BY <2>3, <2>4, <2>5 DEF Unfold
  <2>9. f[Picked(s)] \in Nat
    BY <2>6
  <2>10. it[s] \in Nat
    BY <2>7, <2>8, <2>9
  <2> QED BY <2>10
<1> DEFINE T == {s \in SUBSET D : \E d \in s : it[s] # f[d] + it[s \ {d}]}
<1>2. T = {}
  <2>1. SUFFICES ASSUME T # {} PROVE FALSE
    OBVIOUS
  <2>2. PICK s \in T : \A y \in SUBSET s : y \in T => y = s
    <3>1. T \in SUBSET SUBSET D
      OBVIOUS
    <3> HIDE DEF T
    <3> QED BY <2>1, <3>1, LeastSet
  <2>3. PICK d \in s : it[s] # f[d] + it[s \ {d}]
    OBVIOUS
  <2>4. PICK p, r, t, u : p = Picked(s) /\ r = s \ {p} /\ t = s \ {d} /\ u = r \ {d}
    OBVIOUS
  <2>5. p \in s
    BY <2>3, <2>4, PickedIn
  <2>6. it[s] = f[p] + it[r]
    <3>1. it[s] = Unfold(f, it, s)
      BY AddsAt
    <3> QED BY <2>3, <2>4, <3>1 DEF Unfold
  <2>7. p # d
    BY <2>3, <2>4, <2>6
  <2>8. /\ d \in r /\ p \in t /\ u = t \ {p}
        /\ r \in SUBSET s /\ r # s /\ t \in SUBSET s /\ t # s
    BY <2>3, <2>4, <2>5, <2>7
  <2>9. r \notin T /\ t \notin T
    <3> HIDE DEF T
    <3> QED BY <2>2, <2>8
  <2>10. it[r] = f[d] + it[u]
    <3>1. r \in SUBSET D
      BY <2>8
    <3>2. \A g \in r : it[r] = f[g] + it[r \ {g}]
      BY <2>9, <3>1
    <3>3. it[r] = f[d] + it[r \ {d}]
      <4> HIDE DEF T
      <4> QED BY <2>8, <3>2
    <3> QED BY <2>4, <3>3
  <2>11. it[t] = f[p] + it[u]
    <3>1. t \in SUBSET D
      BY <2>8
    <3>2. \A g \in t : it[t] = f[g] + it[t \ {g}]
      BY <2>9, <3>1
    <3>3. it[t] = f[p] + it[t \ {p}]
      <4> HIDE DEF T
      <4> QED BY <2>8, <3>2
    <3> QED BY <2>8, <3>3
  <2>12. f[d] \in Nat /\ f[p] \in Nat /\ it[u] \in Nat
    BY <1>1, <2>3, <2>4, <2>5
  <2>13. it[s] = f[d] + it[t]
    BY <2>6, <2>10, <2>11, <2>12
  <2> QED BY <2>3, <2>4, <2>13
<1> QED BY <1>1, <1>2

(* The sum of what f gives the elements of D.                              *)
Total(f, D) == SumFunction([x \in D |-> f[x]])

LEMMA TotalOf == ASSUME NEW f, f = [x \in DOMAIN f |-> f[x]] PROVE SumFunction(f) = Total(f, DOMAIN f)
BY DEF Total

LEMMA TotalAt ==
  ASSUME NEW D, IsFiniteSet(D), NEW f, NEW it, Adds(f, D, it), NEW s \in SUBSET D
  PROVE  Total(f, s) = it[s]
<1>1. PICK g : g = [x \in s |-> f[x]]
  OBVIOUS
<1>2. PICK h : h = (CHOOSE k : Adds(g, s, k)) /\ SumFunctionOnSet(g, s) = h[s]
  BY SumIsFold
<1>3. IsFiniteSet(s)
  BY FS_Subset
<1>4. Adds(g, s, h)
  BY <1>2, <1>3, AddsExists
<1>5. h[s] = it[s]
  BY <1>1, <1>3, <1>4, AddsAgree
<1>6. DOMAIN g = s
  BY <1>1
<1>7. SumFunction(g) = h[s]
  BY <1>2, <1>6 DEF SumFunction
<1> QED BY <1>1, <1>5, <1>7 DEF Total

LEMMA TotalNone == ASSUME NEW f PROVE Total(f, {}) = 0
<1>1. PICK it : Adds(f, {}, it)
  BY FS_EmptySet, AddsExists
<1>2. it[{}] = 0
  BY <1>1, AddsAt DEF Unfold
<1> QED BY <1>1, <1>2, FS_EmptySet, TotalAt

LEMMA TotalMore ==
  ASSUME NEW D, IsFiniteSet(D), NEW f, \A x \in D : f[x] \in Nat, NEW e \in D
  PROVE  /\ Total(f, D) \in Nat /\ Total(f, D \ {e}) \in Nat
         /\ Total(f, D) = f[e] + Total(f, D \ {e})
<1>1. PICK it : Adds(f, D, it)
  BY AddsExists
<1>2. Total(f, D) = it[D] /\ Total(f, D \ {e}) = it[D \ {e}]
  BY <1>1, TotalAt
<1> QED BY <1>1, <1>2, AddsAny

LEMMA TotalNat ==
  ASSUME NEW D, IsFiniteSet(D), NEW f, \A x \in D : f[x] \in Nat
  PROVE  Total(f, D) \in Nat
<1>1. CASE D = {}
  BY <1>1, TotalNone
<1>2. CASE D # {}
  BY <1>2, TotalMore
<1> QED BY <1>1, <1>2

LEMMA TotalSame ==
  ASSUME NEW D, NEW f, NEW g, \A x \in D : f[x] = g[x]
  PROVE  Total(f, D) = Total(g, D)
<1>1. [x \in D |-> f[x]] = [x \in D |-> g[x]]
  OBVIOUS
<1> QED BY <1>1 DEF Total

(* A collection of subsets of D that holds the empty one, and with each of *)
(* them it with one more element, holds D.                                 *)
LEMMA GrowsToAll ==
  ASSUME NEW D, IsFiniteSet(D), NEW T, {} \in T,
         \A s \in SUBSET D : \A e \in s : s \ {e} \in T => s \in T
  PROVE  D \in T
<1> DEFINE U == {s \in SUBSET D : s \notin T}
<1>1. SUFFICES ASSUME U # {} PROVE FALSE
  OBVIOUS
<1>2. PICK s \in U : \A y \in SUBSET s : y \in U => y = s
  <2>1. U \in SUBSET SUBSET D
    OBVIOUS
  <2> HIDE DEF U
  <2> QED BY <1>1, <2>1, LeastSet
<1>3. s # {}
  OBVIOUS
<1>4. PICK e \in s : TRUE
  BY <1>3
<1>5. s \ {e} \notin U
  <2>1. s \ {e} \in SUBSET s /\ s \ {e} # s
    BY <1>4
  <2> HIDE DEF U
  <2> QED BY <1>2, <2>1
<1> QED BY <1>4, <1>5

LEMMA TotalMonotone ==
  ASSUME NEW D, IsFiniteSet(D), NEW f, NEW g, NEW C \in SUBSET D,
         \A x \in D : f[x] \in Nat /\ g[x] \in Nat, \A x \in C : f[x] <= g[x]
  PROVE  Total(f, C) <= Total(g, D)
<1> DEFINE T == {s \in SUBSET D : Total(f, s \cap C) <= Total(g, s)}
<1>1. {} \in T
  <2>1. {} \cap C = {}
    OBVIOUS
  <2> QED BY <2>1, TotalNone
<1>2. ASSUME NEW s \in SUBSET D, NEW e \in s, s \ {e} \in T PROVE s \in T
  <2>1. IsFiniteSet(s) /\ IsFiniteSet(s \cap C)
    BY FS_Subset
  <2>2. PICK r, k, n : r = s \ {e} /\ k = s \cap C /\ n = r \cap C
    OBVIOUS
  <2>3. Total(f, n) <= Total(g, r)
    BY <1>2, <2>2
  <2>4. Total(g, s) = g[e] + Total(g, r) /\ Total(g, r) \in Nat /\ g[e] \in Nat
    BY <2>1, <2>2, TotalMore
  <2>5. CASE e \in C
    <3>1. e \in k /\ n = k \ {e} /\ k \in SUBSET D
      BY <2>2, <2>5
    <3>2. Total(f, k) = f[e] + Total(f, n) /\ Total(f, n) \in Nat /\ f[e] \in Nat /\ f[e] <= g[e]
      <4>1. IsFiniteSet(k) /\ \A x \in k : f[x] \in Nat
        BY <2>1, <2>2, <3>1
      <4> QED BY <2>5, <3>1, <4>1, TotalMore
    <3>3. Total(f, k) <= Total(g, s)
      BY <2>3, <2>4, <3>2
    <3> QED BY <2>2, <3>3
  <2>6. CASE e \notin C
    <3>1. n = k /\ k \in SUBSET D
      BY <2>2, <2>6
    <3>2. Total(f, k) \in Nat
      <4>1. IsFiniteSet(k) /\ \A x \in k : f[x] \in Nat
        BY <2>1, <2>2, <3>1
      <4> QED BY <4>1, TotalNat
    <3>3. Total(f, k) <= Total(g, s)
      BY <2>3, <2>4, <3>1, <3>2
    <3> QED BY <2>2, <3>3
  <2> QED BY <2>5, <2>6
<1>3. D \in T
  <2> HIDE DEF T
  <2> QED BY <1>1, <1>2, GrowsToAll
<1>4. D \cap C = C
  OBVIOUS
<1> QED BY <1>3, <1>4

LEMMA TotalPlus ==
  ASSUME NEW D, IsFiniteSet(D), NEW f, NEW g, NEW h,
         \A x \in D : f[x] \in Nat /\ g[x] \in Nat /\ h[x] = f[x] + g[x]
  PROVE  Total(h, D) = Total(f, D) + Total(g, D)
<1> DEFINE T == {s \in SUBSET D : Total(h, s) = Total(f, s) + Total(g, s)}
<1>1. {} \in T
  BY TotalNone
<1>2. ASSUME NEW s \in SUBSET D, NEW e \in s, s \ {e} \in T PROVE s \in T
  <2>1. IsFiniteSet(s)
    BY FS_Subset
  <2>2. PICK r : r = s \ {e}
    OBVIOUS
  <2>3. Total(h, r) = Total(f, r) + Total(g, r)
    BY <1>2, <2>2
  <2>4. \A x \in s : h[x] \in Nat
    OBVIOUS
  <2>5. /\ Total(f, s) = f[e] + Total(f, r) /\ Total(f, r) \in Nat
        /\ Total(g, s) = g[e] + Total(g, r) /\ Total(g, r) \in Nat
        /\ Total(h, s) = h[e] + Total(h, r)
    BY <2>1, <2>2, <2>4, TotalMore
  <2>6. f[e] \in Nat /\ g[e] \in Nat /\ h[e] = f[e] + g[e]
    OBVIOUS
  <2>7. Total(h, s) = Total(f, s) + Total(g, s)
    BY <2>3, <2>5, <2>6
  <2> QED BY <2>7
<1>3. D \in T
  <2> HIDE DEF T
  <2> QED BY <1>1, <1>2, GrowsToAll
<1> QED BY <1>3

(* Sums that are ten to one, up to five times a third, add up to such.     *)
LEMMA TotalsWithin ==
  ASSUME NEW D, IsFiniteSet(D), NEW f, NEW g, NEW h,
         \A x \in D : f[x] \in Nat /\ g[x] \in Nat /\ h[x] \in Nat,
         \A x \in D : f[x] <= 10 * g[x] + 5 * h[x] /\ 10 * g[x] <= f[x] + 5 * h[x]
  PROVE  /\ Total(f, D) <= 10 * Total(g, D) + 5 * Total(h, D)
         /\ 10 * Total(g, D) <= Total(f, D) + 5 * Total(h, D)
<1> DEFINE T == {s \in SUBSET D : /\ Total(f, s) <= 10 * Total(g, s) + 5 * Total(h, s)
                                  /\ 10 * Total(g, s) <= Total(f, s) + 5 * Total(h, s)}
<1>1. {} \in T
  BY TotalNone
<1>2. ASSUME NEW s \in SUBSET D, NEW e \in s, s \ {e} \in T PROVE s \in T
  <2>1. IsFiniteSet(s)
    BY FS_Subset
  <2>2. PICK r : r = s \ {e}
    OBVIOUS
  <2>3. /\ Total(f, r) <= 10 * Total(g, r) + 5 * Total(h, r)
        /\ 10 * Total(g, r) <= Total(f, r) + 5 * Total(h, r)
    BY <1>2, <2>2
  <2>4. /\ Total(f, s) = f[e] + Total(f, r) /\ Total(f, r) \in Nat
        /\ Total(g, s) = g[e] + Total(g, r) /\ Total(g, r) \in Nat
        /\ Total(h, s) = h[e] + Total(h, r) /\ Total(h, r) \in Nat
    BY <2>1, <2>2, TotalMore
  <2>5. /\ f[e] \in Nat /\ g[e] \in Nat /\ h[e] \in Nat
        /\ f[e] <= 10 * g[e] + 5 * h[e] /\ 10 * g[e] <= f[e] + 5 * h[e]
    OBVIOUS
  <2>6. /\ Total(f, s) <= 10 * Total(g, s) + 5 * Total(h, s)
        /\ 10 * Total(g, s) <= Total(f, s) + 5 * Total(h, s)
    BY <2>3, <2>4, <2>5
  <2> QED BY <2>6
<1>3. D \in T
  <2> HIDE DEF T
  <2> QED BY <1>1, <1>2, GrowsToAll
<1> QED BY <1>3

(* What is zero on F need not be added there.                              *)
LEMMA TotalWithout ==
  ASSUME NEW D, IsFiniteSet(D), NEW F, NEW f, NEW g, \A x \in D : f[x] \in Nat,
         \A x \in D : g[x] = IF x \in F THEN 0 ELSE f[x]
  PROVE  Total(g, D) = Total(f, D \ F)
<1> DEFINE T == {s \in SUBSET D : Total(g, s) = Total(f, s \ F)}
<1>1. {} \in T
  <2>1. {} \ F = {}
    OBVIOUS
  <2> QED BY <2>1, TotalNone
<1>2. ASSUME NEW s \in SUBSET D, NEW e \in s, s \ {e} \in T PROVE s \in T
  <2>1. IsFiniteSet(s) /\ IsFiniteSet(s \ F)
    BY FS_Subset
  <2>2. PICK r, k, n : r = s \ {e} /\ k = s \ F /\ n = r \ F
    OBVIOUS
  <2>3. Total(g, r) = Total(f, n)
    BY <1>2, <2>2
  <2>4. Total(g, s) = g[e] + Total(g, r) /\ Total(g, r) \in Nat
    <3>1. \A x \in s : g[x] \in Nat
      OBVIOUS
    <3> QED BY <2>1, <2>2, <3>1, TotalMore
  <2>5. CASE e \in F
    <3>1. n = k /\ g[e] = 0
      BY <2>2, <2>5
    <3>2. Total(g, s) = Total(f, k)
      BY <2>3, <2>4, <3>1
    <3> QED BY <2>2, <3>2
  <2>6. CASE e \notin F
    <3>1. e \in k /\ n = k \ {e} /\ g[e] = f[e] /\ k \in SUBSET D
      BY <2>2, <2>6
    <3>2. IsFiniteSet(k) /\ \A x \in k : f[x] \in Nat
      BY <2>1, <2>2, <3>1
    <3>3. Total(f, k) = f[e] + Total(f, n)
      BY <3>1, <3>2, TotalMore
    <3>4. Total(g, s) = Total(f, k)
      BY <2>3, <2>4, <3>1, <3>3
    <3> QED BY <2>2, <3>4
  <2> QED BY <2>5, <2>6
<1>3. D \in T
  <2> HIDE DEF T
  <2> QED BY <1>1, <1>2, GrowsToAll
<1> QED BY <1>3

(* Adding up by groups: c over M, by the value x gives each element.       *)
Group(x, M, v) == {m \in M : x[m] = v}

LEMMA TotalByGroups ==
  ASSUME NEW M, IsFiniteSet(M), NEW S, IsFiniteSet(S), NEW x, \A m \in M : x[m] \in S,
         NEW c, \A m \in M : c[m] \in Nat
  PROVE  Total(c, M) = Total([v \in S |-> Total(c, Group(x, M, v))], S)
<1> DEFINE By(s) == [v \in S |-> Total(c, Group(x, s, v))]
<1> DEFINE T == {s \in SUBSET M : Total(c, s) = Total(By(s), S)}
<1>0. ASSUME NEW s \in SUBSET M, NEW v \in S
      PROVE  IsFiniteSet(Group(x, s, v)) /\ By(s)[v] \in Nat
  <2>1. Group(x, s, v) \in SUBSET M
    BY DEF Group
  <2>2. IsFiniteSet(Group(x, s, v))
    BY <2>1, FS_Subset
  <2>3. Total(c, Group(x, s, v)) \in Nat
    BY <2>1, <2>2, TotalNat
  <2> QED BY <2>2, <2>3
<1>1. {} \in T
  <2>1. \A v \in S : By({})[v] = 0
    <3>1. \A v \in S : Group(x, {}, v) = {}
      BY DEF Group
    <3> QED BY <3>1, TotalNone
  <2>2. PICK z : z = By({})
    OBVIOUS
  <2>3. Total(z, S) = Total(z, S \ S)
    <3>1. \A v \in S : z[v] = 0
      BY <2>1, <2>2
    <3>2. \A v \in S : z[v] \in Nat /\ z[v] = IF v \in S THEN 0 ELSE z[v]
      BY <3>1
    <3> HIDE DEF By
    <3> QED BY <3>2, TotalWithout, Zenon
  <2>4. Total(z, S) = 0
    <3>1. S \ S = {}
      OBVIOUS
    <3> QED BY <2>3, <3>1, TotalNone
  <2>5. Total(c, {}) = 0
    BY TotalNone
  <2> HIDE DEF By
  <2> QED BY <2>2, <2>4, <2>5
<1>2. ASSUME NEW s \in SUBSET M, NEW e \in s, s \ {e} \in T PROVE s \in T
  <2>1. PICK r, v, a, b : r = s \ {e} /\ v = x[e] /\ a = By(s) /\ b = By(r)
    OBVIOUS
  <2>2. Total(c, r) = Total(b, S)
    BY <1>2, <2>1
  <2>3. v \in S /\ r \in SUBSET M
    BY <2>1
  <2>4. (\A u \in S : a[u] \in Nat) /\ (\A u \in S : b[u] \in Nat)
    <3> HIDE DEF By
    <3> QED BY <1>0, <2>1, <2>3
  <2>5. \A u \in S \ {v} : a[u] = b[u]
    <3>1. \A u \in S \ {v} : Group(x, s, u) = Group(x, r, u)
      BY <2>1 DEF Group
    <3> QED BY <2>1, <3>1
  <2>6. a[v] = c[e] + b[v]
    <3>1. e \in Group(x, s, v) /\ Group(x, r, v) = Group(x, s, v) \ {e}
      BY <2>1 DEF Group
    <3>2. PICK G : G = Group(x, s, v)
      OBVIOUS
    <3>3. IsFiniteSet(G)
      BY <1>0, <2>3, <3>2
    <3>4. \A m \in G : c[m] \in Nat
      BY <3>2 DEF Group
    <3>5. Total(c, G) = c[e] + Total(c, G \ {e})
      BY <3>1, <3>2, <3>3, <3>4, TotalMore
    <3>6. a[v] = Total(c, G) /\ b[v] = Total(c, G \ {e})
      BY <2>1, <2>3, <3>1, <3>2
    <3> QED BY <3>5, <3>6
  <2>7. /\ Total(a, S) = a[v] + Total(a, S \ {v}) /\ Total(a, S \ {v}) \in Nat
        /\ Total(b, S) = b[v] + Total(b, S \ {v}) /\ Total(b, S \ {v}) \in Nat
    BY <2>3, <2>4, TotalMore
  <2>8. Total(a, S \ {v}) = Total(b, S \ {v})
    BY <2>5, TotalSame
  <2>9. Total(c, s) = c[e] + Total(c, r) /\ Total(c, r) \in Nat
    <3>1. IsFiniteSet(s)
      BY FS_Subset
    <3>2. \A m \in s : c[m] \in Nat
      OBVIOUS
    <3> QED BY <2>1, <3>1, <3>2, TotalMore
  <2>10. c[e] \in Nat /\ b[v] \in Nat
    BY <2>3, <2>4
  <2>11. Total(c, s) = Total(a, S)
    BY <2>2, <2>6, <2>7, <2>8, <2>9, <2>10
  <2> QED BY <2>1, <2>11
<1>3. M \in T
  <2> HIDE DEF T
  <2> QED BY <1>1, <1>2, GrowsToAll
<1> QED BY <1>3

LEMMA GoodsType ==
  ASSUME NEW plan \in [Materials -> Lines \cup {NULL}], NEW s \in Suppliers
  PROVE  Goods(plan, s) \in Nat
<1>1. PICK D : D = LinesOf(plan, s)
  OBVIOUS
<1>2. IsFiniteSet(D) /\ D \subseteq Materials /\ \A m \in D : plan[m] \in Lines
  BY <1>1, ConstantsAssumption, FS_Subset DEF LinesOf
<1>3. \A m \in D : plan[m].price * plan[m].quantity \in Nat
  <2>1. \A a, b \in Nat : a * b \in Nat
    OBVIOUS
  <2> QED BY <1>2, <2>1 DEF Lines
<1>4. LineTotals(plan, s) \in [D -> Nat]
  BY <1>1, <1>3 DEF LineTotals
<1> QED BY <1>2, <1>4, SumIsNat DEF Goods

(* A line ordered with its supplier is marked, whether or not its          *)
(* attribution went with a deleted draft.                                  *)
LEMMA OrderedIsMarked ==
  ASSUME TypeOK, NEW r \in Runs, NEW gone, NEW made, PlaceOrders(r, gone, made),
         NEW m \in Materials, lines[r][m] # NULL, lines[r][m].supplier \in made
  PROVE  lines'[r][m].ordered
<1>1. PICK kept : kept = WithoutRefs(lines, gone)
  OBVIOUS
<1>2. kept \in [Runs -> [Materials -> Lines \cup {NULL}]]
  <2>1. lines \in [Runs -> [Materials -> Lines \cup {NULL}]]
    BY DEF TypeOK
  <2> QED BY <1>1, <2>1, RefsType
<1>3. lines[r][m] \in Lines
  BY DEF TypeOK
<1>4. PICK line : line = kept[r][m]
  OBVIOUS
<1>5. line # NULL
  <2>1. kept[r][m] = lines[r][m] \/ kept[r][m] = [lines[r][m] EXCEPT !.via = NULL]
    BY <1>1 DEF WithoutRefs
  <2>2. [lines[r][m] EXCEPT !.via = NULL] \in Lines
    BY <1>3 DEF Lines
  <2> QED BY <1>3, <1>4, <2>1, <2>2, NullAssumption
<1>6. line \in Lines
  BY <1>2, <1>4, <1>5
<1>7. lines'[r][m] = [line EXCEPT !.ordered = TRUE]
  <2>1. PICK stamped :
          stamped = [n \in Materials |->
                       IF lines[r][n] # NULL /\ lines[r][n].supplier \in made
                       THEN [kept[r][n] EXCEPT !.ordered = TRUE] ELSE kept[r][n]]
    OBVIOUS
  <2>2. lines' = [kept EXCEPT ![r] = stamped]
    BY <1>1, <2>1 DEF PlaceOrders
  <2>3. lines'[r] = stamped
    BY <1>2, <2>2
  <2>4. stamped[m] = [kept[r][m] EXCEPT !.ordered = TRUE]
    BY <2>1
  <2> QED BY <1>4, <2>3, <2>4
<1> QED BY <1>6, <1>7 DEF Lines

(* A supplier with a line has a summary, so it is not passed over.         *)
LEMMA PlannedHasSummary ==
  ASSUME TypeOK, SummariesInv, NEW r \in Runs, NEW s \in Suppliers, LinesOf(lines[r], s) # {}
  PROVE  summaries[r][s] # NULL
<1>1. summaries[r][s] = Rebuilt(lines[r], s)
  BY DEF SummariesInv
<1>2. PICK plan : plan = lines[r]
  OBVIOUS
<1>3. Goods(plan, s) \in Nat
  BY <1>2, GoodsType DEF TypeOK
<1>4. Rebuilt(plan, s) \in Summaries
  <2>1. PICK goods \in Nat : goods = Goods(plan, s)
    BY <1>3
  <2>2. PICK below \in BOOLEAN : below = ~(goods >= MinOrder[s])
    OBVIOUS
  <2>3. PICK free \in BOOLEAN : free = (FreeFrom[s] # NULL /\ goods >= FreeFrom[s])
    OBVIOUS
  <2>4. PICK fee \in Nat : fee = IF free THEN 0 ELSE FlatFee[s]
    BY PolicyAssumption
  <2>5. Rebuilt(plan, s) = [goods |-> goods, fee |-> fee, free |-> free, below |-> below]
    BY <1>2, <2>1, <2>2, <2>3, <2>4 DEF Rebuilt, Summary
  <2> QED BY <2>5 DEF Summaries
<1> QED BY <1>1, <1>2, <1>4, NullAssumption

LEMMA CreateOrdersPlan ==
  ASSUME TypeOK, SummariesInv, NEW r \in Runs, NEW answer, CreateOrders(r, answer),
         status' # status
  PROVE  /\ \E m \in Materials : lines[r][m] # NULL
         /\ \A m \in Materials : lines[r][m] # NULL =>
              lines'[r][m].ordered \/ Drafts(lines[r][m].supplier) # {}
<1>1. PICK plan, planned, conflict, gone, made :
        /\ plan = lines[r]
        /\ planned = {s \in Suppliers : summaries[r][s] # NULL}
        /\ conflict = {s \in planned : Conflicting(s) # {}}
        /\ gone = {o \in Suppliers \X OrderNos :
                     /\ o[1] \in conflict /\ answer[o[1]] = "replace"
                     /\ o[2] \in Conflicting(o[1])}
        /\ made = {s \in planned : /\ LinesOf(plan, s) # {}
                                   /\ ~(s \in conflict /\ answer[s] = "skip")}
  OBVIOUS
<1>5. PlaceOrders(r, gone, made)
  BY <1>1, Zenon DEF CreateOrders
<1>2. made # {}
  BY <1>5 DEF PlaceOrders
<1>3. \E m \in Materials : lines[r][m] # NULL
  BY <1>1, <1>2 DEF LinesOf
<1>4. ASSUME NEW m \in Materials, lines[r][m] # NULL
      PROVE  lines'[r][m].ordered \/ Drafts(lines[r][m].supplier) # {}
  <2>1. PICK s : s = lines[r][m].supplier
    OBVIOUS
  <2>2. s \in Suppliers
    BY <1>4, <2>1 DEF TypeOK, Lines
  <2>3. LinesOf(plan, s) # {}
    BY <1>1, <1>4, <2>1 DEF LinesOf
  <2>4. s \in planned
    BY <1>1, <2>2, <2>3, PlannedHasSummary
  <2>5. CASE s \in made
    BY <1>1, <1>4, <1>5, <2>1, <2>5, OrderedIsMarked
  <2>6. CASE s \notin made
    <3>1. Conflicting(s) # {}
      BY <1>1, <2>3, <2>4, <2>6
    <3> QED BY <2>1, <3>1 DEF Conflicting
  <2> QED BY <2>5, <2>6
<1> QED BY <1>3, <1>4

(* Ordering a plan leaves none of its lines out: the request makes orders  *)
(* for the suppliers of the summaries, and every supplier with a line has  *)
(* a summary whatever was overridden before.                               *)
THEOREM FullyOrderedCorrect == Spec => PlanFullyOrdered
<1> DEFINE Ordered ==
      status # "ordered" /\ status' = "ordered" =>
        \E r \in Runs : /\ \E m \in Materials : lines[r][m] # NULL
                        /\ \A m \in Materials : lines[r][m] # NULL =>
                             lines'[r][m].ordered \/ Drafts(lines[r][m].supplier) # {}
<1>1. ASSUME TypeOK, SummariesInv, [Next]_vars, status # "ordered", status' = "ordered"
      PROVE  \E r \in Runs : /\ \E m \in Materials : lines[r][m] # NULL
                             /\ \A m \in Materials : lines[r][m] # NULL =>
                                  lines'[r][m].ordered \/ Drafts(lines[r][m].supplier) # {}
  <2>1. PICK r \in Runs, answer \in Answers : CreateOrders(r, answer)
    <3>1. ~UNCHANGED vars
      BY <1>1 DEF vars
    <3>2. ASSUME NEW need, NEW pick, RunInfeasible(need) \/ RunSolved(need, pick)
          PROVE  status' # "ordered" \/ status' = status
      BY <3>2 DEF RunInfeasible, RunSolved
    <3>3. ASSUME NEW s, NEW k, NEW q, DeleteOrder(s, k) \/ AddRawItem(s, k, q)
          PROVE  status' = status
      BY <3>3 DEF DeleteOrder, AddRawItem
    <3>4. ASSUME NEW w, NEW i, NEW c, ReplaceBegin(w, i, c) \/ ReplaceFinish(w) \/ ReplaceAbort(w)
          PROVE  status' = status
      BY <3>4 DEF ReplaceBegin, ReplaceFinish, ReplaceAbort
    <3>5. ASSUME NEW a, NEW b, NEW c, NEW d,
                 OverrideLine(a, b, c, d) \/ SetItemFields(a, b, c) \/ ChooseColor(b)
          PROVE  status' = status
      BY <3>5 DEF OverrideLine, SetItemFields, ChooseColor
    <3>6. ~CompleteProject /\ ~DeleteProject
      BY <1>1 DEF CompleteProject, DeleteProject
    <3> QED BY <1>1, <3>1, <3>2, <3>3, <3>4, <3>5, <3>6 DEF Next
  <2> QED BY <1>1, <2>1, CreateOrdersPlan
<1>2. TypeOK /\ SummariesInv /\ [Next]_vars => [Ordered]_vars
  BY <1>1
<1>3. Init => SummariesInv
  BY NoLinesNoSummary DEF Init, SummariesInv, NoSummaries
<1> QED
  BY InitType, TypeStep, SummariesStep, <1>2, <1>3, PTL DEF Spec, PlanFullyOrdered

-----------------------------------------------------------------------------
(* The allocation run itself: what RunSolved and RunInfeasible above take  *)
(* as given, Solver computes.  Both read the same policies (Policies); a   *)
(* theorem about one uses nothing of what the other assumes.               *)

(* Least and greatest of a set of numbers.                                 *)
LEMMA LeastNat ==
  ASSUME NEW T \in SUBSET Nat, T # {}
  PROVE  \E x \in T : \A y \in T : x <= y
<1> DEFINE I == {0 .. x : x \in T}
<1>1. I \subseteq FiniteSubsetsOf(Nat) /\ I # {}
  <2>1. ASSUME NEW x \in T PROVE 0 .. x \in FiniteSubsetsOf(Nat)
    BY FS_Interval DEF FiniteSubsetsOf
  <2> QED BY <2>1
<1>2. PICK i \in I : \A j \in I : <<j, i>> \notin StrictSubsetOrdering(Nat)
  <2> HIDE DEF I
  <2> QED BY <1>1, FS_StrictSubsetOrderingWellFounded, WFMin
<1>3. PICK x \in T : i = 0 .. x
  OBVIOUS
<1>4. ASSUME NEW y \in T, y < x PROVE FALSE
  <2>1. 0 .. y \subseteq 0 .. x
    BY <1>4
  <2>2. x \in 0 .. x /\ x \notin 0 .. y
    BY <1>4
  <2>3. 0 .. y \in SUBSET Nat /\ 0 .. x \in SUBSET Nat
    OBVIOUS
  <2>4. <<0 .. y, 0 .. x>> \in StrictSubsetOrdering(Nat)
    BY <2>1, <2>2, <2>3 DEF StrictSubsetOrdering
  <2> QED BY <1>2, <1>3, <2>4
<1> QED BY <1>4

LEMMA MinIs ==
  ASSUME NEW T \in SUBSET Nat, T # {}
  PROVE  Min(T) \in T /\ \A y \in T : Min(T) <= y
BY LeastNat DEF Min

LEMMA MaxIs ==
  ASSUME NEW n \in Nat, NEW T \in SUBSET (1 .. n), T # {}
  PROVE  Max(T) \in T /\ \A y \in T : y <= Max(T)
<1> DEFINE B == {b \in Nat : \A x \in T : x <= b}
<1>1. PICK b \in B : \A y \in B : b <= y
  <2>1. n \in B /\ B \in SUBSET Nat
    OBVIOUS
  <2> HIDE DEF B
  <2> QED BY <2>1, LeastNat
<1>2. b \in T
  <2>1. SUFFICES ASSUME b \notin T PROVE FALSE
    OBVIOUS
  <2>2. \A x \in T : x <= b - 1
    <3>1. ASSUME NEW x \in T PROVE x <= b - 1
      <4>1. x \in Nat /\ x <= b /\ x # b /\ b \in Nat
        BY <2>1
      <4> QED BY <4>1
    <3> QED BY <3>1
  <2>3. b - 1 \in Nat
    <3>1. PICK x \in T : TRUE
      OBVIOUS
    <3>2. x \in Nat /\ x >= 1 /\ x <= b /\ b \in Nat
      BY <3>1
    <3> QED BY <3>2
  <2>4. b - 1 \in B
    BY <2>2, <2>3
  <2>5. b <= b - 1
    <3> HIDE DEF B
    <3> QED BY <1>1, <2>4
  <2> QED BY <2>5
<1>3. \A y \in T : b >= y /\ y <= b
  BY <1>1
<1>4. Max(T) \in T /\ \A y \in T : Max(T) >= y
  BY <1>2, <1>3 DEF Max
<1> QED BY <1>4

-----------------------------------------------------------------------------
(* The rows, the prices and the solver's model of them.                    *)

InputOk ==
  /\ rows \in UNION {[1..n -> RowSet] : n \in 1..MaxRows}
  /\ offers \in [Materials -> [Suppliers -> Offers \cup {NULL}]]
  /\ solvable \subseteq DOMAIN rows

LEMMA RowsAre ==
  ASSUME InputOk
  PROVE  \E n \in Nat : DOMAIN rows = 1 .. n /\ \A i \in 1 .. n : rows[i] \in RowSet
<1>1. PICK n \in 1..MaxRows : rows \in [1..n -> RowSet]
  BY DEF InputOk
<1> QED BY <1>1, SolverAssumption

(* A row has a material and a need.                                        *)
LEMMA RowIs ==
  ASSUME InputOk, NEW i \in DOMAIN rows
  PROVE  rows[i].material \in Materials /\ rows[i].quantity \in Nat \ {0}
<1>1. rows[i] \in RowSet
  BY RowsAre
<1> QED BY <1>1, SolverAssumption DEF RowSet

LEMMA OfferIs ==
  ASSUME InputOk, NEW m \in Materials, NEW s \in Suppliers, offers[m][s] # NULL
  PROVE  /\ offers[m][s] \in Offers /\ offers[m][s].price \in Nat
         /\ offers[m][s].moq \in Nat \ {0} /\ offers[m][s].availability \in Nat \cup {NULL}
<1>1. offers[m][s] \in Offers
  BY DEF InputOk
<1> QED BY <1>1 DEF Offers

(* Rounded to cents, a price is off by half a cent at most.                *)
LEMMA CentsAre ==
  ASSUME NEW p \in Nat
  PROVE  ToCents(p) \in Nat /\ p <= 10 * ToCents(p) + 5 /\ 10 * ToCents(p) <= p + 5
<1>1. PICK q \in Nat, r \in 0..9 : q = p \div 10 /\ r = p % 10 /\ p = 10 * q + r
  OBVIOUS
<1>2. CASE r > 5 \/ (r = 5 /\ p \in RoundedUp)
  <2>1. ToCents(p) = q + 1
    BY <1>1, <1>2 DEF ToCents
  <2> QED BY <1>1, <1>2, <2>1
<1>3. CASE ~(r > 5 \/ (r = 5 /\ p \in RoundedUp))
  <2>1. ToCents(p) = q
    BY <1>1, <1>3 DEF ToCents
  <2> QED BY <1>1, <1>3, <2>1
<1> QED BY <1>2, <1>3

LEMMA AskedIs ==
  ASSUME InputOk
  PROVE  Asked \in SUBSET Materials /\ IsFiniteSet(Asked)
<1>1. Asked \in SUBSET Materials
  BY RowIs DEF Asked, InputOk
<1> QED BY <1>1, SolverAssumption, FS_Subset

(* The need of an asked material is that of its last row.                  *)
LEMMA QtyIs ==
  ASSUME InputOk, NEW m \in Asked
  PROVE  /\ Qty(m) \in Nat \ {0}
         /\ \E k \in solvable : /\ rows[k].material = m /\ rows[k].quantity = Qty(m)
                                /\ \A j \in solvable : rows[j].material = m => j <= k
<1>1. PICK n \in Nat : DOMAIN rows = 1 .. n
  BY RowsAre
<1>2. PICK T : T = {i \in solvable : rows[i].material = m}
  OBVIOUS
<1>3. T # {} /\ T \in SUBSET (1 .. n)
  BY <1>1, <1>2 DEF Asked, InputOk
<1>4. Max(T) \in T /\ \A j \in T : j <= Max(T)
  BY <1>3, MaxIs
<1>5. PICK k : k = Max(T)
  OBVIOUS
<1>6. Qty(m) = rows[k].quantity
  BY <1>2, <1>5 DEF Qty
<1>7. k \in solvable /\ k \in DOMAIN rows /\ rows[k].material = m
  BY <1>2, <1>4, <1>5 DEF InputOk
<1>8. \A j \in solvable : rows[j].material = m => j <= k
  BY <1>2, <1>4, <1>5
<1> QED BY <1>6, <1>7, <1>8, RowIs

LEMMA OrderQtyIs ==
  ASSUME NEW q \in Nat, NEW o \in Offers
  PROVE  /\ OrderQty(q, o) \in Nat /\ OrderQty(q, o) >= q /\ OrderQty(q, o) >= o.moq
         /\ OrderQty(q, o) = q \/ OrderQty(q, o) = o.moq
BY DEF OrderQty, Larger, Offers

(* What a supplier would ship is what the solver lets it be ordered for.   *)
LEMMA ShippedIs ==
  ASSUME InputOk, NEW m \in Materials, NEW s \in Suppliers, NEW q \in Nat
  PROVE  /\ Shipped(m, s, q) # NULL <=> offers[m][s] # NULL /\ Suffices(q, offers[m][s])
         /\ Shipped(m, s, q) # NULL => Shipped(m, s, q) = OrderQty(q, offers[m][s])
<1>1. CASE offers[m][s] = NULL
  BY <1>1 DEF Shipped
<1>2. CASE offers[m][s] # NULL
  <2>1. PICK o : o = offers[m][s]
    OBVIOUS
  <2>2. o \in Offers /\ o # NULL /\ o.availability \in Nat \cup {NULL}
    BY <1>2, <2>1, OfferIs
  <2>3. PICK n \in Nat : n = Larger(q, o.moq) /\ n = OrderQty(q, o)
    BY <2>2, OrderQtyIs DEF OrderQty
  <2>4. Shipped(m, s, q) = IF o.availability # NULL /\ n > o.availability THEN NULL ELSE n
    BY <2>1, <2>2, <2>3 DEF Shipped
  <2>5. Suffices(q, o) <=> o.availability = NULL \/ o.availability >= n
    BY <2>3 DEF Suffices
  <2>6. n # NULL
    BY SolverAssumption
  <2> QED BY <2>1, <2>2, <2>3, <2>4, <2>5, <2>6
<1> QED BY <1>1, <1>2

LEMMA PairIs ==
  ASSUME InputOk, NEW m \in Asked, NEW s \in Suppliers
  PROVE  <<m, s>> \in Pairs <=> offers[m][s] # NULL /\ Suffices(Qty(m), offers[m][s])
BY DEF Pairs

LEMMA PlansAre == ASSUME InputOk PROVE Plans = Assignments
<1>1. ASSUME NEW m \in Asked, NEW s \in Suppliers
      PROVE  Shipped(m, s, Qty(m)) # NULL <=> <<m, s>> \in Pairs
  <2>1. m \in Materials /\ Qty(m) \in Nat
    BY AskedIs, QtyIs
  <2> QED BY <2>1, ShippedIs, PairIs
<1>2. ASSUME NEW x \in [Asked -> Suppliers]
      PROVE  x \in Plans <=> x \in Assignments
  BY <1>1 DEF Plans, Assignments
<1> QED BY <1>2 DEF Plans, Assignments

LEMMA CostIs ==
  ASSUME InputOk, NEW m \in Asked, NEW s \in Suppliers, <<m, s>> \in Pairs
  PROVE  /\ Cost(m, s) \in Nat
         /\ Shipped(m, s, Qty(m)) * UnitCents(m, s) = Cost(m, s)
         /\ Line(m, s) \in LineSet
         /\ Line(m, s).quantity = Shipped(m, s, Qty(m))
<1>1. m \in Materials /\ Qty(m) \in Nat
  BY AskedIs, QtyIs
<1>2. offers[m][s] # NULL /\ Suffices(Qty(m), offers[m][s])
  BY PairIs
<1>3. PICK q \in Nat, p \in Nat :
        q = OrderQty(Qty(m), offers[m][s]) /\ p = UnitCents(m, s)
  BY <1>1, <1>2, OfferIs, OrderQtyIs, CentsAre DEF UnitCents
<1>4. Shipped(m, s, Qty(m)) = q
  BY <1>1, <1>2, <1>3, ShippedIs
<1>5. Cost(m, s) = p * q
  BY <1>3 DEF Cost
<1>6. p * q \in Nat /\ p * q = q * p
  OBVIOUS
<1>7. Line(m, s) = [supplier |-> s, quantity |-> q, needed |-> Qty(m), price |-> p]
  BY <1>3 DEF Line
<1> QED BY <1>1, <1>3, <1>4, <1>5, <1>6, <1>7 DEF LineSet

-----------------------------------------------------------------------------
(* The amounts of an assignment.                                           *)

CostOf(x) == [m \in Asked |-> Cost(m, x[m])]

LEMMA CostOfNat ==
  ASSUME InputOk, NEW x \in Assignments
  PROVE  \A m \in Asked : x[m] \in Suppliers /\ <<m, x[m]>> \in Pairs /\ CostOf(x)[m] \in Nat
<1>1. ASSUME NEW m \in Asked
      PROVE  x[m] \in Suppliers /\ <<m, x[m]>> \in Pairs /\ CostOf(x)[m] \in Nat
  <2>1. x[m] \in Suppliers /\ <<m, x[m]>> \in Pairs
    BY DEF Assignments
  <2>2. CostOf(x)[m] = Cost(m, x[m])
    BY DEF CostOf
  <2> QED BY <2>1, <2>2, CostIs
<1> QED BY <1>1

LEMMA GoodsAre ==
  ASSUME InputOk, NEW x \in Assignments, NEW s \in Suppliers
  PROVE  /\ OrderTotal(x, s) = Total(CostOf(x), Group(x, Asked, s))
         /\ Bill(x, s) = OrderTotal(x, s)
         /\ OrderTotal(x, s) \in Nat
<1>1. PICK G : G = {n \in Asked : x[n] = s}
  OBVIOUS
<1>2. G = Group(x, Asked, s) /\ G \in SUBSET Asked
  BY <1>1 DEF Group
<1>3. \A m \in G : Cost(m, s) = CostOf(x)[m]
  BY <1>1 DEF CostOf
<1>4. \A m \in G : Shipped(m, s, Qty(m)) * UnitCents(m, s) = Cost(m, s)
  <2>1. \A m \in G : m \in Asked /\ <<m, s>> \in Pairs
    BY <1>1, CostOfNat
  <2> QED BY <2>1, CostIs
<1>5. OrderTotal(x, s) = SumFunction([m \in G |-> Cost(m, s)])
  BY <1>1 DEF OrderTotal
<1>6. Bill(x, s) = SumFunction([m \in G |-> Shipped(m, s, Qty(m)) * UnitCents(m, s)])
  BY <1>1 DEF Bill
<1>7. [m \in G |-> Shipped(m, s, Qty(m)) * UnitCents(m, s)] = [m \in G |-> Cost(m, s)]
  BY <1>4
<1>8. [m \in G |-> Cost(m, s)] = [m \in G |-> CostOf(x)[m]]
  BY <1>3
<1>9. OrderTotal(x, s) = Total(CostOf(x), G)
  BY <1>5, <1>8 DEF Total
<1>10. Total(CostOf(x), G) \in Nat
  <2>1. IsFiniteSet(G)
    BY <1>2, AskedIs, FS_Subset
  <2>2. \A m \in G : CostOf(x)[m] \in Nat
    BY <1>2, CostOfNat
  <2> QED BY <2>1, <2>2, TotalNat
<1> QED BY <1>2, <1>5, <1>6, <1>7, <1>9, <1>10

(* big_m is large enough.                                                  *)
LEMMA OrderTotalBounded ==
  ASSUME InputOk, NEW x \in Assignments, NEW s \in Suppliers
  PROVE  MaxOrderTotal(s) \in Nat /\ OrderTotal(x, s) <= MaxOrderTotal(s)
<1>1. PICK G, D : G = {n \in Asked : x[n] = s} /\ D = {n \in Asked : <<n, s>> \in Pairs}
  OBVIOUS
<1>2. G \in SUBSET D /\ IsFiniteSet(D)
  <2>1. D \in SUBSET Asked
    BY <1>1
  <2>2. \A m \in G : <<m, s>> \in Pairs
    BY <1>1, CostOfNat
  <2> QED BY <1>1, <2>1, <2>2, AskedIs, FS_Subset
<1>3. PICK c : c = [m \in D |-> Cost(m, s)]
  OBVIOUS
<1>4. \A m \in D : c[m] \in Nat
  BY <1>1, <1>3, CostIs
<1>5. MaxOrderTotal(s) = Total(c, D)
  <2>1. MaxOrderTotal(s) = SumFunction([m \in D |-> Cost(m, s)])
    BY <1>1 DEF MaxOrderTotal
  <2>2. [m \in D |-> Cost(m, s)] = [m \in D |-> c[m]]
    BY <1>3
  <2> QED BY <2>1, <2>2 DEF Total
<1>6. OrderTotal(x, s) = Total(c, G)
  <2>1. OrderTotal(x, s) = SumFunction([m \in G |-> Cost(m, s)])
    BY <1>1 DEF OrderTotal
  <2>2. [m \in G |-> Cost(m, s)] = [m \in G |-> c[m]]
    BY <1>2, <1>3
  <2> QED BY <2>1, <2>2 DEF Total
<1>7. \A m \in G : c[m] <= c[m]
  <2>1. \A m \in G : c[m] \in Nat
    BY <1>2, <1>4
  <2> QED BY <2>1
<1> QED BY <1>2, <1>4, <1>5, <1>6, <1>7, TotalMonotone, TotalNat

LEMMA FeesAre ==
  ASSUME NEW S \in SUBSET Suppliers
  PROVE  IsFiniteSet(S) /\ Fees(S) = Total(FlatFee, S) /\ Fees(S) \in Nat
<1>1. IsFiniteSet(S)
  BY SolverAssumption, FS_Subset
<1>2. \A s \in S : FlatFee[s] \in Nat
  BY PolicyAssumption
<1>3. Fees(S) = Total(FlatFee, S)
  BY DEF Fees, Total
<1> QED BY <1>1, <1>2, <1>3, TotalNat

(* Bills and deliveries, supplier by supplier, are the goods and the       *)
(* deliveries.                                                             *)
LEMMA DeliveriesAre ==
  ASSUME InputOk, NEW x \in Assignments
  PROVE  /\ SumFunction([s \in Engaged(x) |-> Delivery(x, s)]) \in Nat
         /\ SumFunction([s \in Engaged(x) |-> Bill(x, s) + Delivery(x, s)]) =
              SumFunction([m \in Asked |-> Cost(m, x[m])])
                + SumFunction([s \in Engaged(x) |-> Delivery(x, s)])
<1>1. PICK E, c : E = Engaged(x) /\ c = CostOf(x)
  OBVIOUS
<1>2. E \in SUBSET Suppliers /\ IsFiniteSet(E) /\ \A m \in Asked : x[m] \in E
  <2>1. E \in SUBSET Suppliers /\ \A m \in Asked : x[m] \in E
    BY <1>1, CostOfNat DEF Engaged
  <2> QED BY <2>1, FeesAre
<1>3. \A m \in Asked : c[m] \in Nat
  BY <1>1, CostOfNat
<1>4. SumFunction([m \in Asked |-> Cost(m, x[m])]) = Total(c, Asked)
  <2>1. [m \in Asked |-> Cost(m, x[m])] = [m \in Asked |-> c[m]]
    BY <1>1 DEF CostOf
  <2> QED BY <2>1 DEF Total
<1>5. PICK b, d, t : /\ b = [s \in E |-> Bill(x, s)] /\ d = [s \in E |-> Delivery(x, s)]
                     /\ t = [s \in E |-> Bill(x, s) + Delivery(x, s)]
  OBVIOUS
<1>6. Total(c, Asked) = Total(b, E)
  <2>1. \A s \in E : b[s] = Total(c, Group(x, Asked, s))
    BY <1>1, <1>2, <1>5, GoodsAre
  <2>2. PICK g : g = [s \in E |-> Total(c, Group(x, Asked, s))]
    OBVIOUS
  <2>3. Total(c, Asked) = Total(g, E)
    BY <1>2, <1>3, <2>2, AskedIs, TotalByGroups
  <2>4. Total(g, E) = Total(b, E)
    <3>1. \A s \in E : g[s] = b[s]
      BY <2>1, <2>2
    <3> QED BY <3>1, TotalSame
  <2> QED BY <2>3, <2>4
<1>7. \A s \in E : b[s] \in Nat /\ d[s] \in Nat /\ t[s] = b[s] + d[s]
  <2>1. \A s \in E : b[s] \in Nat
    BY <1>2, <1>5, GoodsAre
  <2>2. \A s \in E : d[s] \in Nat
    <3>1. \A s \in E : d[s] = 0 \/ d[s] = FlatFee[s]
      BY <1>5 DEF Delivery
    <3> QED BY <1>2, <3>1, PolicyAssumption
  <2> QED BY <1>5, <2>1, <2>2
<1>8. Total(t, E) = Total(b, E) + Total(d, E) /\ Total(d, E) \in Nat
  BY <1>2, <1>7, TotalPlus, TotalNat
<1>9. SumFunction([s \in E |-> Bill(x, s) + Delivery(x, s)]) = Total(t, E)
  <2>1. [s \in E |-> Bill(x, s) + Delivery(x, s)] = [s \in E |-> t[s]]
    BY <1>5
  <2> QED BY <2>1 DEF Total
<1>10. SumFunction([s \in E |-> Delivery(x, s)]) = Total(d, E)
  <2>1. [s \in E |-> Delivery(x, s)] = [s \in E |-> d[s]]
    BY <1>5
  <2> QED BY <2>1 DEF Total
<1> QED BY <1>1, <1>4, <1>6, <1>8, <1>9, <1>10

(* And the deliveries are the fees of those who do not ship free.          *)
LEMMA AmountsAddUp ==
  ASSUME InputOk, NEW x \in Assignments, NEW F,
         \A s \in Engaged(x) : s \in F <=> FreeFrom[s] # NULL /\ Bill(x, s) >= FreeFrom[s]
  PROVE  /\ SumFunction([m \in Asked |-> Cost(m, x[m])]) \in Nat
         /\ SumFunction([s \in Engaged(x) |-> Bill(x, s) + Delivery(x, s)]) =
              SumFunction([m \in Asked |-> Cost(m, x[m])]) + Fees(Engaged(x) \ F)
<1>1. PICK E, d : E = Engaged(x) /\ d = [s \in Engaged(x) |-> Delivery(x, s)]
  OBVIOUS
<1>2. E \in SUBSET Suppliers /\ IsFiniteSet(E)
  <2>1. E \in SUBSET Suppliers
    BY <1>1, CostOfNat DEF Engaged
  <2> QED BY <2>1, FeesAre
<1>3. \A s \in E : d[s] = IF s \in F THEN 0 ELSE FlatFee[s]
  <2>1. ASSUME NEW s \in E PROVE d[s] = IF s \in F THEN 0 ELSE FlatFee[s]
    <3>1. d[s] = Delivery(x, s)
      BY <1>1
    <3>2. s \in F <=> FreeFrom[s] # NULL /\ Bill(x, s) >= FreeFrom[s]
      BY <1>1
    <3> QED BY <3>1, <3>2 DEF Delivery
  <2> QED BY <2>1
<1>4. \A s \in E : FlatFee[s] \in Nat
  BY <1>2, PolicyAssumption
<1>5. Total(d, E) = Total(FlatFee, E \ F)
  BY <1>2, <1>3, <1>4, TotalWithout
<1>6. Fees(E \ F) = Total(FlatFee, E \ F)
  BY <1>2, FeesAre
<1>7. SumFunction([s \in Engaged(x) |-> Delivery(x, s)]) = Total(d, E)
  <2>1. [s \in Engaged(x) |-> Delivery(x, s)] = [s \in E |-> d[s]]
    BY <1>1
  <2> QED BY <2>1 DEF Total
<1>8. SumFunction([m \in Asked |-> Cost(m, x[m])]) \in Nat
  <2>1. SumFunction([m \in Asked |-> Cost(m, x[m])]) = Total(CostOf(x), Asked)
    <3>1. [m \in Asked |-> Cost(m, x[m])] = [m \in Asked |-> CostOf(x)[m]]
      BY DEF CostOf
    <3> QED BY <3>1 DEF Total
  <2> QED BY <2>1, CostOfNat, AskedIs, TotalNat
<1> QED BY <1>1, <1>5, <1>6, <1>7, <1>8, DeliveriesAre

-----------------------------------------------------------------------------
(* The integer program.                                                    *)

SolutionSet ==
  [x : Assignments, y : SUBSET SupplierIds, free : SUBSET SupplierIds, diff : SUBSET Linked]

LEMMA SolutionIs ==
  ASSUME NEW v
  PROVE  v \in Solutions <=> v \in SolutionSet /\ Consistent(v)
BY DEF Solutions, SolutionSet

SplitOff(x) == {m \in Linked : x[m] # x[Reference(m)]}

LEMMA SellerIs == ASSUME NEW m, NEW s, <<m, s>> \in Pairs PROVE s \in SupplierIds
<1>1. PICK p \in Pairs : p = <<m, s>>
  OBVIOUS
<1>2. p[2] = s
  BY <1>1
<1> QED BY <1>2 DEF SupplierIds

LEMMA EngagedAre ==
  ASSUME InputOk, NEW x \in Assignments
  PROVE  Engaged(x) \in SUBSET SupplierIds /\ Engaged(x) \in SUBSET Suppliers
<1>1. ASSUME NEW m \in Asked PROVE x[m] \in SupplierIds /\ x[m] \in Suppliers
  BY CostOfNat, SellerIs
<1> QED BY <1>1 DEF Engaged

LEMMA SuppliersAre == SupplierIds \in SUBSET Suppliers
BY DEF SupplierIds, Pairs

LEMMA LinkedAre == ASSUME InputOk PROVE Linked \in SUBSET Asked /\ IsFiniteSet(Linked)
<1>1. Linked \in SUBSET Asked
  BY DEF Linked
<1> QED BY <1>1, AskedIs, FS_Subset

(* The reference of a material is asked, and of its category.              *)
LEMMA ReferenceIs ==
  ASSUME InputOk, NEW m \in Asked
  PROVE  /\ Reference(m) \in Asked /\ Category[Reference(m)] = Category[m]
         /\ \A n \in Asked : Category[n] = Category[m] => Reference(n) = Reference(m)
<1>1. PICK T : T = {n \in Asked : Category[n] = Category[m]}
  OBVIOUS
<1>2. T \in SUBSET Nat /\ T # {}
  BY <1>1, AskedIs, SolverAssumption
<1>3. Min(T) \in T
  BY <1>2, MinIs
<1>4. Reference(m) = Min(T)
  BY <1>1 DEF Reference
<1>5. ASSUME NEW n \in Asked, Category[n] = Category[m] PROVE Reference(n) = Reference(m)
  BY <1>5 DEF Reference
<1> QED BY <1>1, <1>3, <1>4, <1>5

(* What the export calls split is what a link of the model tells apart.    *)
LEMMA SplitIs ==
  ASSUME InputOk, NEW x \in Assignments
  PROVE  SplitCategories(x) = {Category[m] : m \in SplitOff(x)}
<1>1. ASSUME NEW c \in SplitCategories(x) PROVE \E m \in SplitOff(x) : c = Category[m]
  <2>1. PICK G, I : G = {n \in Asked : Category[n] = c} /\ I = {x[m] : m \in G}
    OBVIOUS
  <2>2. Cardinality(I) > 1 /\ c # NULL
    BY <1>1, <2>1, Zenon DEF SplitCategories
  <2>3. PICK n \in Asked : c = Category[n]
    BY <1>1 DEF SplitCategories
  <2>4. PICK r : r = Reference(n)
    OBVIOUS
  <2>5. r \in G /\ \A m \in G : Reference(m) = r
    BY <2>1, <2>3, <2>4, ReferenceIs
  <2>6. \E m \in G : x[m] # x[r]
    <3>1. SUFFICES ASSUME \A m \in G : x[m] = x[r] PROVE FALSE
      OBVIOUS
    <3>2. I = {x[r]}
      BY <2>1, <2>5, <3>1
    <3>3. Cardinality(I) = 1
      BY <3>2, FS_Singleton
    <3> QED BY <2>2, <3>3
  <2>7. PICK m \in G : x[m] # x[r]
    BY <2>6
  <2>8. m \in Asked /\ Category[m] = c /\ Reference(m) = r
    BY <2>1, <2>5
  <2>9. m \in SplitOff(x)
    BY <2>2, <2>7, <2>8 DEF SplitOff, Linked
  <2> QED BY <2>8, <2>9
<1>2. ASSUME NEW m \in SplitOff(x) PROVE Category[m] \in SplitCategories(x)
  <2>1. PICK c, r : c = Category[m] /\ r = Reference(m)
    OBVIOUS
  <2>2. m \in Asked /\ c # NULL /\ x[m] # x[r]
    BY <2>1 DEF SplitOff, Linked
  <2>3. r \in Asked /\ Category[r] = c
    BY <2>1, <2>2, ReferenceIs
  <2>4. PICK I : I = {x[k] : k \in {n \in Asked : Category[n] = c}}
    OBVIOUS
  <2>5. x[m] \in I /\ x[r] \in I
    BY <2>1, <2>2, <2>3, <2>4
  <2>6. I \in SUBSET Suppliers
    BY <2>4, CostOfNat
  <2>7. IsFiniteSet(I)
    BY <2>6, SolverAssumption, FS_Subset
  <2>8. Cardinality(I) \in Nat /\ Cardinality(I) # 0 /\ Cardinality(I) # 1
    <3>1. Cardinality(I) \in Nat
      BY <2>7, FS_CardinalityType
    <3>2. Cardinality(I) # 0
      BY <2>5, <2>7, FS_EmptySet
    <3>3. Cardinality(I) # 1
      <4>1. ~ \E e : I = {e}
        BY <2>2, <2>5
      <4> QED BY <2>7, <4>1, FS_Singleton
    <3> QED BY <3>1, <3>2, <3>3
  <2>9. Cardinality(I) > 1
    BY <2>8
  <2> QED BY <2>1, <2>2, <2>4, <2>9 DEF SplitCategories
<1> QED BY <1>1, <1>2 DEF SplitCategories

(* The two big-M inequalities decide exactly whether delivery is free.     *)
LEMMA FreeIs ==
  ASSUME InputOk, NEW v \in Solutions, NEW s \in Engaged(v.x)
  PROVE  /\ s \in v.y /\ Bill(v.x, s) >= MinOrder[s]
         /\ s \in v.free <=> FreeFrom[s] # NULL /\ Bill(v.x, s) >= FreeFrom[s]
<1>1. v \in SolutionSet /\ Consistent(v)
  BY SolutionIs
<1>2. v.x \in Assignments
  BY <1>1 DEF SolutionSet
<1>3. s \in SupplierIds /\ s \in Suppliers
  BY <1>2, EngagedAre
<1>4. PICK m \in Asked : s = v.x[m]
  BY DEF Engaged
<1>5. s \in v.y
  BY <1>1, <1>4 DEF Consistent
<1>6. PICK total, max, threshold :
        total = OrderTotal(v.x, s) /\ max = MaxOrderTotal(s) /\ threshold = FreeFrom[s]
  OBVIOUS
<1>7. total \in Nat /\ max \in Nat /\ Bill(v.x, s) = total
  BY <1>2, <1>3, <1>6, GoodsAre, OrderTotalBounded
<1>8. threshold = NULL \/ threshold \in Nat
  BY <1>3, <1>6, PolicyAssumption
<1>9. total >= MinOrder[s] /\ FreeLinked(threshold, max, total, s \in v.free, s \in v.y)
  BY <1>1, <1>3, <1>5, <1>6 DEF Consistent
<1>10. s \in v.free <=> threshold # NULL /\ total >= threshold
  <2>1. CASE threshold = NULL
    BY <1>9, <2>1, SolverAssumption DEF FreeLinked
  <2>2. CASE threshold = 0
    <3>1. threshold # NULL
      BY <2>2, SolverAssumption
    <3> QED BY <1>5, <1>7, <1>9, <2>2, <3>1 DEF FreeLinked
  <2>3. CASE threshold \in Nat \ {0}
    <3>1. threshold # NULL
      BY <2>3, SolverAssumption
    <3>2. s \notin v.free => total <= threshold - 1
      BY <1>9, <2>3, <3>1 DEF FreeLinked
    <3>3. s \in v.free => total >= threshold
      BY <1>9, <2>3, <3>1 DEF FreeLinked
    <3> QED BY <1>7, <2>3, <3>1, <3>2, <3>3
  <2> QED BY <1>8, <2>1, <2>2, <2>3
<1> QED BY <1>5, <1>6, <1>7, <1>9, <1>10

(* Delivery by the supplier's own rule satisfies the inequalities.         *)
LEMMA FreeIsLinked ==
  ASSUME NEW threshold, threshold = NULL \/ threshold \in Nat,
         NEW max \in Nat, NEW total \in Nat, total <= max,
         NEW free \in BOOLEAN, NEW used \in BOOLEAN,
         ~used => total = 0,
         free <=> used /\ threshold # NULL /\ total >= threshold
  PROVE  FreeLinked(threshold, max, total, free, used)
<1>1. CASE threshold = NULL
  BY <1>1 DEF FreeLinked
<1>2. CASE threshold = 0
  <2>1. free <=> used
    BY <1>2, SolverAssumption
  <2> QED BY <1>2, <2>1 DEF FreeLinked
<1>3. CASE threshold \in Nat \ {0}
  <2>1. threshold # NULL
    BY <1>3, SolverAssumption
  <2>2. free => total >= threshold /\ used
    OBVIOUS
  <2>3. ~free => total <= threshold - 1
    <3>1. CASE used
      BY <1>3, <2>1, <3>1
    <3>2. CASE ~used
      BY <1>3, <3>2
    <3> QED BY <3>1, <3>2
  <2>4. total >= threshold - (threshold + max) /\ total <= threshold - 1 + (threshold + max)
    BY <1>3
  <2> QED BY <1>3, <2>1, <2>2, <2>3, <2>4 DEF FreeLinked
<1> QED BY <1>1, <1>2, <1>3

LEMMA HalfToEvenIs == ASSUME NEW a \in Nat, NEW b \in Nat \ {0} PROVE HalfToEven(a, b) \in Nat
<1>1. PICK q \in Nat : q = a \div b
  OBVIOUS
<1>2. HalfToEven(a, b) = q + 1 \/ HalfToEven(a, b) = q
  BY <1>1, Zenon DEF HalfToEven
<1> QED BY <1>2

LEMMA PenaltyIs ==
  ASSUME InputOk, Assignments # {}, Asked # {}
  PROVE  SplitPenalty \in Nat
<1>1. PICK x \in Assignments, m \in Asked : TRUE
  OBVIOUS
<1>2. x[m] \in SupplierIds
  BY CostOfNat, SellerIs
<1>3. Fees(SupplierIds) \in Nat /\ IsFiniteSet(SupplierIds)
  BY SuppliersAre, FeesAre
<1>4. PICK n \in Nat \ {0} : n = Cardinality(SupplierIds)
  BY <1>2, <1>3, FS_CardinalityType, FS_EmptySet
<1>5. PICK f \in Nat : f = Fees(SupplierIds)
  BY <1>3
<1>6. SplitPenalty = HalfToEven(4 * f, n)
  BY <1>4, <1>5 DEF SplitPenalty, K
<1>7. 4 * f \in Nat
  OBVIOUS
<1> QED BY <1>6, <1>7, HalfToEvenIs

LEMMA TimesMonotone ==
  ASSUME NEW p \in Nat, NEW a \in Nat, NEW b \in Nat, a <= b
  PROVE  p * a \in Nat /\ p * b \in Nat /\ p * a <= p * b
<1>1. PICK d \in Nat : b = a + d
  <2>1. b - a \in Nat /\ b = a + (b - a)
    OBVIOUS
  <2> QED BY <2>1
<1>2. p * b = p * a + p * d /\ p * a \in Nat /\ p * d \in Nat
  BY <1>1
<1> QED BY <1>2

(* A solution never has its assignment cheaper than it really is.          *)
LEMMA SolutionCosts ==
  ASSUME InputOk, Asked # {}, NEW v \in Solutions
  PROVE  /\ RealCost(v.x) \in Nat /\ Objective(v) \in Nat
         /\ RealCost(v.x) <= Objective(v)
<1>1. v \in SolutionSet /\ Consistent(v)
  BY SolutionIs
<1>2. /\ v.x \in Assignments /\ v.y \in SUBSET SupplierIds /\ v.diff \in SUBSET Linked
      /\ v.y \in SUBSET Suppliers
  BY <1>1, SuppliersAre DEF SolutionSet
<1>3. PICK x, E, D : x = v.x /\ E = Engaged(v.x) /\ D = SplitOff(v.x)
  OBVIOUS
<1>4. PICK goods : goods = SumFunction([m \in Asked |-> Cost(m, x[m])])
  OBVIOUS
<1>5. /\ goods \in Nat
      /\ SumFunction([s \in E |-> Bill(x, s) + Delivery(x, s)]) = goods + Fees(E \ v.free)
  <2>1. \A s \in E : s \in v.free <=> FreeFrom[s] # NULL /\ Bill(x, s) >= FreeFrom[s]
    BY <1>3, FreeIs
  <2> QED BY <1>2, <1>3, <1>4, <2>1, AmountsAddUp
<1>6. Fees(E \ v.free) \in Nat /\ Fees(v.y \ v.free) \in Nat /\ Fees(E \ v.free) <= Fees(v.y \ v.free)
  <2>1. PICK A, B : A = E \ v.free /\ B = v.y \ v.free
    OBVIOUS
  <2>2. A \in SUBSET B /\ B \in SUBSET Suppliers /\ A \in SUBSET Suppliers
    BY <1>2, <1>3, <2>1, FreeIs
  <2>3. \A s \in B : FlatFee[s] \in Nat
    BY <2>2, PolicyAssumption
  <2>4. \A s \in A : FlatFee[s] <= FlatFee[s]
    BY <2>2, <2>3
  <2>5. Total(FlatFee, A) <= Total(FlatFee, B)
    BY <2>2, <2>3, <2>4, FeesAre, TotalMonotone
  <2> QED BY <2>1, <2>2, <2>5, FeesAre
<1>7. PICK p \in Nat : p = SplitPenalty
  BY <1>2, PenaltyIs
<1>8. PICK a \in Nat, b \in Nat : a = Cardinality(D) /\ b = Cardinality(v.diff) /\ a <= b
  <2>1. D \in SUBSET v.diff
    BY <1>1, <1>3 DEF Consistent, SplitOff
  <2>2. IsFiniteSet(v.diff)
    BY <1>2, LinkedAre, FS_Subset
  <2>3. IsFiniteSet(D) /\ Cardinality(D) <= Cardinality(v.diff)
    BY <2>1, <2>2, FS_Subset
  <2>4. Cardinality(D) \in Nat /\ Cardinality(v.diff) \in Nat
    BY <2>2, <2>3, FS_CardinalityType
  <2> QED BY <2>3, <2>4
<1>9. PICK lo \in Nat, hi \in Nat : lo = p * a /\ hi = p * b /\ lo <= hi
  BY <1>8, TimesMonotone
<1>10. RealCost(x) = (goods + Fees(E \ v.free)) + lo
  <2>1. RealCost(x) = SumFunction([s \in E |-> Bill(x, s) + Delivery(x, s)]) + SplitPenalty * Cardinality(D)
    BY <1>3 DEF RealCost, SplitOff
  <2> QED BY <1>5, <1>7, <1>8, <1>9, <2>1
<1>11. Objective(v) = goods + Fees(v.y \ v.free) + hi
  BY <1>3, <1>4, <1>7, <1>8, <1>9 DEF Objective
<1>12. PICK f \in Nat, g \in Nat : f = Fees(E \ v.free) /\ g = Fees(v.y \ v.free) /\ f <= g
  BY <1>6
<1>13. RealCost(x) = (goods + f) + lo /\ Objective(v) = goods + g + hi
  BY <1>10, <1>11, <1>12
<1> QED BY <1>3, <1>5, <1>9, <1>12, <1>13

(* Every acceptable choice is a solution of the model, at its real cost.   *)
LEMMA ChoiceIsSolution ==
  ASSUME InputOk, NEW x \in Assignments, Acceptable(x)
  PROVE  \E v \in Solutions : v.x = x /\ Objective(v) = RealCost(x)
<1>1. PICK E, F, D : /\ E = Engaged(x) /\ D = SplitOff(x)
                     /\ F = {s \in E : FreeFrom[s] # NULL /\ Bill(x, s) >= FreeFrom[s]}
  OBVIOUS
<1>2. PICK v : v = [x |-> x, y |-> E, free |-> F, diff |-> D]
  OBVIOUS
<1>3. v.x = x /\ v.y = E /\ v.free = F /\ v.diff = D
  BY <1>2
<1>4. E \in SUBSET SupplierIds /\ F \in SUBSET E /\ D \in SUBSET Linked /\ E \in SUBSET Suppliers
  BY <1>1, EngagedAre DEF SplitOff
<1>5. v \in SolutionSet
  BY <1>2, <1>4 DEF SolutionSet
<1>6. \A m \in Asked : v.x[m] \in v.y
  BY <1>1, <1>3 DEF Engaged
<1>7. \A m \in Linked : v.x[m] # v.x[Reference(m)] => m \in v.diff
  BY <1>1, <1>3 DEF SplitOff
<1>8. ASSUME NEW s \in SupplierIds
      PROVE  /\ s \in v.y => OrderTotal(v.x, s) >= MinOrder[s]
             /\ FreeLinked(FreeFrom[s], MaxOrderTotal(s), OrderTotal(v.x, s), s \in v.free, s \in v.y)
  <2>1. PICK total, max, threshold :
          total = OrderTotal(x, s) /\ max = MaxOrderTotal(s) /\ threshold = FreeFrom[s]
    OBVIOUS
  <2>2. s \in Suppliers
    BY SuppliersAre
  <2>3. total \in Nat /\ max \in Nat /\ total <= max /\ Bill(x, s) = total
    BY <2>1, <2>2, GoodsAre, OrderTotalBounded
  <2>4. threshold = NULL \/ threshold \in Nat
    BY <2>1, <2>2, PolicyAssumption
  <2>5. s \in E => total >= MinOrder[s]
    BY <1>1, <2>3 DEF Acceptable
  <2>6. s \notin E => total = 0
    <3>1. SUFFICES ASSUME s \notin E PROVE total = 0
      OBVIOUS
    <3>2. Group(x, Asked, s) = {}
      BY <1>1, <3>1 DEF Engaged, Group
    <3> QED BY <2>1, <2>2, <3>2, GoodsAre, TotalNone
  <2>7. s \in F <=> s \in E /\ threshold # NULL /\ total >= threshold
    BY <1>1, <2>1, <2>3
  <2>8. FreeLinked(threshold, max, total, s \in F, s \in E)
    <3>1. PICK free \in BOOLEAN : free <=> s \in F
      <4>1. CASE s \in F
        BY <4>1
      <4>2. CASE s \notin F
        BY <4>2
      <4> QED BY <4>1, <4>2
    <3>2. PICK used \in BOOLEAN : used <=> s \in E
      <4>1. CASE s \in E
        BY <4>1
      <4>2. CASE s \notin E
        BY <4>2
      <4> QED BY <4>1, <4>2
    <3>3. free <=> used /\ threshold # NULL /\ total >= threshold
      BY <2>7, <3>1, <3>2
    <3>4. ~used => total = 0
      BY <2>6, <3>2
    <3>5. FreeLinked(threshold, max, total, free, used)
      BY <2>3, <2>4, <3>3, <3>4, FreeIsLinked
    <3> QED BY <3>1, <3>2, <3>5 DEF FreeLinked
  <2> QED BY <1>3, <2>1, <2>5, <2>8
<1>9. v \in Solutions
  BY <1>5, <1>6, <1>7, <1>8, SolutionIs DEF Consistent
<1>10. SumFunction([s \in E |-> Bill(x, s) + Delivery(x, s)]) =
         SumFunction([m \in Asked |-> Cost(m, x[m])]) + Fees(E \ F)
  <2>1. \A s \in Engaged(x) : s \in F <=> FreeFrom[s] # NULL /\ Bill(x, s) >= FreeFrom[s]
    BY <1>1
  <2> QED BY <1>1, <2>1, AmountsAddUp
<1>11. RealCost(x) = SumFunction([s \in E |-> Bill(x, s) + Delivery(x, s)]) + SplitPenalty * Cardinality(D)
  BY <1>1 DEF RealCost, SplitOff
<1>12. Objective(v) = SumFunction([m \in Asked |-> Cost(m, x[m])]) + Fees(E \ F) + SplitPenalty * Cardinality(D)
  BY <1>3 DEF Objective
<1>13. Objective(v) = RealCost(x)
  BY <1>10, <1>11, <1>12
<1> QED BY <1>3, <1>9, <1>13

LEMMA OptimalIs ==
  ASSUME InputOk, Asked # {}, NEW v \in Optimal
  PROVE  v \in Solutions /\ \A w \in Solutions : Objective(v) <= Objective(w)
<1>1. PICK V : V = {Objective(w) : w \in Solutions}
  OBVIOUS
<1>2. v \in Solutions /\ Objective(v) = Min(V)
  BY <1>1 DEF Optimal
<1>3. V \in SUBSET Nat /\ V # {}
  BY <1>1, <1>2, SolutionCosts
<1>4. \A y \in V : Min(V) <= y
  BY <1>3, MinIs
<1> QED BY <1>1, <1>2, <1>4

-----------------------------------------------------------------------------
(* What a run has answered, in terms of the model it solved.               *)

RunInput == rows \in UNION {[1..n -> RowSet] : n \in 1..MaxRows} /\ offers \in Tables

SplitDone ==
  /\ solvable = {i \in DOMAIN rows : Solvable(rows[i])}
  /\ \E best \in [DOMAIN rows \ solvable -> Suppliers \cup {NULL}] :
       /\ \A i \in DOMAIN best : best[i] \in BestPartial(rows[i].material)
       /\ orphaned = [i \in DOMAIN best |-> Orphan(rows[i], best[i])]

SolverInv ==
  /\ RunInput
  /\ outcome \in {"asked", "split", "NO_SOLVABLE_MATERIALS", "INFEASIBLE", "OPTIMAL"}
  /\ IF outcome = "asked" THEN solvable = {} /\ orphaned = <<>> ELSE SplitDone
  /\ outcome = "INFEASIBLE" => Solutions = {}
  /\ IF outcome = "OPTIMAL" THEN Asked # {} /\ \E v \in Optimal : proposal = Export(v)
     ELSE proposal = NULL

LEMMA SameSolutions == ASSUME UNCHANGED <<rows, offers, solvable>> PROVE Solutions' = Solutions
BY DEF Pairs, Suffices, Qty, Max, OrderQty, Larger, Asked, Solutions, Assignments, SupplierIds,
       Linked, Reference, Min, Consistent, MaxOrderTotal, OrderTotal, Cost, UnitCents, FreeLinked

LEMMA SameExport ==
  ASSUME UNCHANGED <<rows, offers, solvable>>, NEW v
  PROVE  Export(v)' = Export(v)
BY DEF Suffices, Qty, Max, OrderQty, Larger, Asked, OrderTotal, Cost, UnitCents, Export, Line, Engaged,
       SupplierSummary, Fees, SplitCategories

LEMMA SameOptimal == ASSUME UNCHANGED <<rows, offers, solvable>> PROVE Optimal' = Optimal
<1>1. ASSUME NEW v PROVE Objective(v)' = Objective(v)
  BY DEF Objective, Cost, UnitCents, Fees, SplitPenalty, SupplierIds, Pairs, Suffices, Qty, Max, OrderQty,
         Larger, Asked
<1>2. \A v : Objective(v)' = Objective(v)
  BY <1>1
<1> QED BY <1>2, SameSolutions DEF Optimal, Min

LEMMA SameSolvable ==
  ASSUME UNCHANGED <<rows, offers>>, NEW i
  PROVE  Solvable(rows[i])' <=> Solvable(rows[i])
BY DEF Solvable, Sellers, Suffices, OrderQty, Larger

LEMMA SameBest ==
  ASSUME UNCHANGED <<rows, offers>>, NEW i
  PROVE  BestPartial(rows[i].material)' = BestPartial(rows[i].material)
BY DEF BestPartial, Partial, Sellers

LEMMA SameOrphan ==
  ASSUME UNCHANGED <<rows, offers>>, NEW i, NEW s
  PROVE  Orphan(rows[i], s)' = Orphan(rows[i], s)
BY DEF Orphan, BlockingMoq

LEMMA SplitFollows ==
  ASSUME UNCHANGED <<rows, offers>>,
         solvable' = {i \in DOMAIN rows : Solvable(rows[i])},
         NEW best \in [DOMAIN rows \ solvable' -> Suppliers \cup {NULL}],
         \A i \in DOMAIN best : best[i] \in BestPartial(rows[i].material),
         orphaned' = [i \in DOMAIN best |-> Orphan(rows[i], best[i])]
  PROVE  SplitDone'
<1>1. solvable' = {i \in DOMAIN rows : Solvable(rows[i])'}
  BY SameSolvable
<1>2. \A i \in DOMAIN best : best[i] \in BestPartial(rows[i].material)'
  BY SameBest
<1>3. orphaned' = [i \in DOMAIN best |-> Orphan(rows[i], best[i])']
  BY SameOrphan
<1> QED BY <1>1, <1>2, <1>3 DEF SplitDone

LEMMA SameSplit ==
  ASSUME UNCHANGED <<rows, offers, solvable, orphaned>>, RunInput, SplitDone
  PROVE  RunInput' /\ SplitDone'
<1>1. RunInput'
  BY DEF RunInput
<1>2. PICK best \in [DOMAIN rows \ solvable -> Suppliers \cup {NULL}] :
        /\ \A i \in DOMAIN best : best[i] \in BestPartial(rows[i].material)
        /\ orphaned = [i \in DOMAIN best |-> Orphan(rows[i], best[i])]
  BY DEF SplitDone
<1>3. solvable = {i \in DOMAIN rows : Solvable(rows[i])}
  BY DEF SplitDone
<1> QED BY <1>1, <1>2, <1>3, SplitFollows

LEMMA SolverInitInv == SolverInit => SolverInv
BY DEF SolverInit, SolverInv, RunInput

LEMMA SolverStep == SolverInv /\ [SolverNext]_solverVars => SolverInv'
<1> SUFFICES ASSUME SolverInv, [SolverNext]_solverVars PROVE SolverInv'
  OBVIOUS
<1>1. CASE Split
  <2>1. outcome = "asked" /\ outcome' = "split" /\ UNCHANGED <<rows, offers, proposal>>
    BY <1>1 DEF Split
  <2>2. RunInput' /\ proposal' = NULL
    BY <2>1 DEF SolverInv, RunInput
  <2>3. SplitDone'
    <3>1. solvable' = {i \in DOMAIN rows : Solvable(rows[i])}
      BY <1>1 DEF Split
    <3>2. PICK best \in [DOMAIN rows \ solvable' -> Suppliers \cup {NULL}] :
            /\ \A i \in DOMAIN best : best[i] \in BestPartial(rows[i].material)
            /\ orphaned' = [i \in DOMAIN best |-> Orphan(rows[i], best[i])]
      BY <1>1 DEF Split
    <3> QED BY <2>1, <3>1, <3>2, SplitFollows
  <2> QED BY <2>1, <2>2, <2>3 DEF SolverInv
<1>2. CASE NothingToSolve
  <2>1. /\ outcome = "split" /\ outcome' = "NO_SOLVABLE_MATERIALS"
        /\ UNCHANGED <<rows, offers, solvable, orphaned, proposal>>
    BY <1>2 DEF NothingToSolve
  <2>2. RunInput /\ SplitDone /\ proposal = NULL
    BY <2>1 DEF SolverInv
  <2>3. RunInput' /\ SplitDone'
    BY <2>1, <2>2, SameSplit
  <2> QED BY <2>1, <2>2, <2>3 DEF SolverInv
<1>3. CASE Fail
  <2>1. /\ outcome = "split" /\ outcome' = "INFEASIBLE" /\ Solutions = {}
        /\ UNCHANGED <<rows, offers, solvable, orphaned, proposal>>
    BY <1>3 DEF Fail
  <2>2. RunInput /\ SplitDone /\ proposal = NULL
    BY <2>1 DEF SolverInv
  <2>3. RunInput' /\ SplitDone' /\ Solutions' = {}
    BY <2>1, <2>2, SameSplit, SameSolutions
  <2> QED BY <2>1, <2>2, <2>3 DEF SolverInv
<1>4. CASE Solve
  <2>1. /\ outcome = "split" /\ outcome' = "OPTIMAL" /\ Asked # {}
        /\ UNCHANGED <<rows, offers, solvable, orphaned>>
    BY <1>4 DEF Solve
  <2>2. RunInput /\ SplitDone
    BY <2>1 DEF SolverInv
  <2>3. PICK v \in Optimal : proposal' = Export(v)
    BY <1>4 DEF Solve
  <2>4. Asked' # {}
    <3>1. Asked' = Asked
      BY <2>1 DEF Asked
    <3> QED BY <2>1, <3>1
  <2>5. v \in Optimal' /\ proposal' = Export(v)'
    BY <2>1, <2>3, SameOptimal, SameExport
  <2>6. RunInput' /\ SplitDone'
    BY <2>1, <2>2, SameSplit
  <2> QED BY <2>1, <2>4, <2>5, <2>6 DEF SolverInv
<1>5. CASE UNCHANGED solverVars
  <2>1. UNCHANGED <<rows, offers, solvable, orphaned, outcome, proposal>>
    BY <1>5 DEF solverVars
  <2>2. RunInput' /\ (outcome # "asked" => SplitDone')
    <3>1. CASE outcome = "asked"
      BY <2>1, <3>1 DEF SolverInv, RunInput
    <3>2. CASE outcome # "asked"
      BY <2>1, <3>2, SameSplit DEF SolverInv
    <3> QED BY <3>1, <3>2
  <2>3. Solutions' = Solutions /\ Optimal' = Optimal /\ Asked' = Asked
    <3>1. Asked' = Asked
      BY <2>1 DEF Asked
    <3> QED BY <2>1, <3>1, SameSolutions, SameOptimal
  <2>4. CASE outcome = "OPTIMAL"
    <3>1. PICK v \in Optimal : proposal = Export(v)
      BY <2>4 DEF SolverInv
    <3>2. v \in Optimal' /\ proposal' = Export(v)'
      BY <2>1, <2>3, <3>1, SameExport
    <3> QED BY <2>1, <2>2, <2>3, <2>4, <3>2 DEF SolverInv
  <2>5. CASE outcome # "OPTIMAL"
    BY <2>1, <2>2, <2>3, <2>5 DEF SolverInv
  <2> QED BY <2>4, <2>5
<1> QED BY <1>1, <1>2, <1>3, <1>4, <1>5 DEF SolverNext

LEMMA SolverAlways == SolverSpec => []SolverInv
BY SolverInitInv, SolverStep, PTL DEF SolverSpec

-----------------------------------------------------------------------------
LEMMA InputIs ==
  ASSUME SolverInv
  PROVE  InputOk
<1>1. offers \in [Materials -> [Suppliers -> Offers \cup {NULL}]]
  BY SolverAssumption DEF SolverInv, RunInput
<1>2. solvable \subseteq DOMAIN rows
  BY DEF SolverInv, SplitDone
<1> QED BY <1>1, <1>2 DEF SolverInv, RunInput, InputOk

(* An exported solution: who supplies what, and the shape of the answer.   *)
LEMMA ExportIs ==
  ASSUME InputOk, NEW v \in Solutions, NEW e, e = Export(v)
  PROVE  /\ v.x \in Assignments /\ v.x = [m \in Asked |-> e.lines[m].supplier]
         /\ \A m \in Asked : e.lines[m] = Line(m, v.x[m])
         /\ \A s \in Engaged(v.x) : e.summaries[s] = SupplierSummary(v, s)
         /\ e.total = SumFunction([m \in Asked |-> Cost(m, v.x[m])]) + Fees(Engaged(v.x) \ v.free)
         /\ e.split = SplitCategories(v.x)
         /\ e \in Proposals
<1>1. v.x \in Assignments
  BY SolutionIs DEF SolutionSet
<1>2. PICK x : x = v.x /\ x \in [Asked -> Suppliers]
  BY <1>1 DEF Assignments
<1>3. PICK L, S, t, c : /\ L = [m \in Asked |-> Line(m, v.x[m])]
                        /\ S = [s \in Engaged(v.x) |-> SupplierSummary(v, s)]
                        /\ t = SumFunction([m \in Asked |-> Cost(m, v.x[m])]) + Fees(Engaged(v.x) \ v.free)
                        /\ c = SplitCategories(v.x)
  OBVIOUS
<1>4. e = [lines |-> L, summaries |-> S, total |-> t, split |-> c]
  BY <1>3, Zenon DEF Export
<1>5. e.lines = L /\ e.summaries = S /\ e.total = t /\ e.split = c
  BY <1>4
<1>6. \A m \in Asked : e.lines[m] = Line(m, v.x[m]) /\ e.lines[m].supplier = x[m]
  <2>1. \A m \in Asked : L[m] = Line(m, v.x[m]) /\ L[m].supplier = x[m]
    BY <1>2, <1>3 DEF Line
  <2> QED BY <1>5, <2>1
<1>7. x = [m \in Asked |-> e.lines[m].supplier]
  BY <1>2, <1>6
<1>8. L \in [Asked -> LineSet] /\ Asked \in SUBSET Materials
  <2>1. \A m \in Asked : Line(m, v.x[m]) \in LineSet
    BY <1>1, CostOfNat, CostIs
  <2> QED BY <1>3, <2>1, AskedIs
<1>9. S \in [Engaged(v.x) -> SummarySet] /\ Engaged(v.x) \in SUBSET Suppliers
  <2>1. Engaged(v.x) \in SUBSET Suppliers
    BY <1>1, EngagedAre
  <2>2. ASSUME NEW s \in Engaged(v.x) PROVE SupplierSummary(v, s) \in SummarySet
    <3>1. OrderTotal(v.x, s) \in Nat /\ FlatFee[s] \in Nat
      BY <1>1, <2>1, GoodsAre, PolicyAssumption
    <3>2. CASE s \in v.free
      BY <3>1, <3>2 DEF SupplierSummary, SummarySet
    <3>3. CASE s \notin v.free
      BY <3>1, <3>3 DEF SupplierSummary, SummarySet
    <3> QED BY <3>2, <3>3
  <2> QED BY <1>3, <2>1, <2>2
<1>10. t \in Nat
  <2>1. \A s \in Engaged(v.x) : s \in v.free <=> FreeFrom[s] # NULL /\ Bill(v.x, s) >= FreeFrom[s]
    BY FreeIs
  <2>2. SumFunction([m \in Asked |-> Cost(m, v.x[m])]) \in Nat
    BY <1>1, <2>1, AmountsAddUp
  <2>3. Fees(Engaged(v.x) \ v.free) \in Nat
    <3>1. Engaged(v.x) \ v.free \in SUBSET Suppliers
      BY <1>9
    <3> QED BY <3>1, FeesAre
  <2>4. PICK a \in Nat, b \in Nat :
          a = SumFunction([m \in Asked |-> Cost(m, v.x[m])]) /\ b = Fees(Engaged(v.x) \ v.free)
    BY <2>2, <2>3
  <2> QED BY <1>3, <2>4
<1>11. c \in SUBSET {Category[m] : m \in Materials}
  BY <1>3, AskedIs DEF SplitCategories
<1>12. e \in Proposals
  BY <1>4, <1>8, <1>9, <1>10, <1>11 DEF Proposals
<1> QED BY <1>1, <1>2, <1>3, <1>5, <1>6, <1>7, <1>12

(* What holds of the answer of a run that found one.                       *)
LEMMA AnswerIs ==
  ASSUME SolverInv, outcome = "OPTIMAL"
  PROVE  \E v : /\ InputOk /\ Asked # {} /\ v \in Optimal /\ v \in Solutions
                /\ proposal = Export(v)
<1>1. InputOk
  BY InputIs
<1> QED BY <1>1, OptimalIs DEF SolverInv

(* What the choice costs at the stored prices, against the rounded cents.  *)
LEMMA ListIs ==
  ASSUME InputOk, Asked # {}, NEW x \in Assignments
  PROVE  /\ ListCost(x) \in Nat /\ Pieces(x) \in Nat /\ RealCost(x) \in Nat
         /\ ListCost(x) <= 10 * RealCost(x) + 5 * Pieces(x)
         /\ 10 * RealCost(x) <= ListCost(x) + 5 * Pieces(x)
<1>1. PICK f, g, h : /\ f = [m \in Asked |-> Shipped(m, x[m], Qty(m)) * offers[m][x[m]].price]
                     /\ g = [m \in Asked |-> Cost(m, x[m])]
                     /\ h = [m \in Asked |-> Shipped(m, x[m], Qty(m))]
  OBVIOUS
<1>2. ASSUME NEW m \in Asked
      PROVE  /\ f[m] \in Nat /\ g[m] \in Nat /\ h[m] \in Nat
             /\ f[m] <= 10 * g[m] + 5 * h[m] /\ 10 * g[m] <= f[m] + 5 * h[m]
  <2>1. PICK s : s = x[m]
    OBVIOUS
  <2>2. m \in Materials /\ s \in Suppliers /\ <<m, s>> \in Pairs
    BY <2>1, AskedIs, CostOfNat
  <2>3. offers[m][s] # NULL
    BY <2>2, PairIs
  <2>4. PICK p \in Nat : p = offers[m][s].price
    BY <2>2, <2>3, OfferIs
  <2>5. PICK u \in Nat : u = UnitCents(m, s) /\ p <= 10 * u + 5 /\ 10 * u <= p + 5
    BY <2>4, CentsAre DEF UnitCents
  <2>6. PICK n \in Nat : n = Shipped(m, s, Qty(m))
    <3>1. Line(m, s) \in LineSet /\ Line(m, s).quantity = Shipped(m, s, Qty(m))
      BY <2>2, CostIs
    <3> QED BY <3>1 DEF LineSet
  <2>7. f[m] = n * p /\ h[m] = n /\ g[m] = n * u
    <3>1. n * u = Cost(m, s)
      BY <2>2, <2>5, <2>6, CostIs
    <3> QED BY <1>1, <2>1, <2>4, <2>6, <3>1
  <2>8. n * p <= n * (10 * u + 5) /\ n * (10 * u) <= n * (p + 5)
    BY <2>5, TimesMonotone
  <2>9. n * (10 * u + 5) = 10 * (n * u) + 5 * n /\ n * (10 * u) = 10 * (n * u) /\ n * (p + 5) = n * p + 5 * n
    OBVIOUS
  <2>10. n * p \in Nat /\ n * u \in Nat
    OBVIOUS
  <2> QED BY <2>7, <2>8, <2>9, <2>10
<1>3. PICK F, G, H : F = Total(f, Asked) /\ G = Total(g, Asked) /\ H = Total(h, Asked)
  OBVIOUS
<1>4. /\ F \in Nat /\ G \in Nat /\ H \in Nat
      /\ F <= 10 * G + 5 * H /\ 10 * G <= F + 5 * H
  <2>1. IsFiniteSet(Asked)
    BY AskedIs
  <2>2. F \in Nat
    BY <1>2, <1>3, <2>1, TotalNat
  <2>3. G \in Nat
    BY <1>2, <1>3, <2>1, TotalNat
  <2>4. H \in Nat
    BY <1>2, <1>3, <2>1, TotalNat
  <2>5. F <= 10 * G + 5 * H /\ 10 * G <= F + 5 * H
    BY <1>2, <1>3, <2>1, TotalsWithin
  <2> QED BY <2>2, <2>3, <2>4, <2>5
<1>5. ListBill(x) = F /\ SumFunction([m \in Asked |-> Cost(m, x[m])]) = G /\ Pieces(x) = H
  <2>1. f = [m \in Asked |-> f[m]] /\ g = [m \in Asked |-> g[m]] /\ h = [m \in Asked |-> h[m]]
    BY <1>1
  <2>2. SumFunction(f) = F /\ SumFunction(g) = G /\ SumFunction(h) = H
    BY <1>3, <2>1, Zenon DEF Total
  <2> QED BY <1>1, <2>2, Zenon DEF ListBill, Pieces
<1>6. PICK E, D : E = Engaged(x) /\ D = {m \in Linked : x[m] # x[Reference(m)]}
  OBVIOUS
<1>7. PICK d \in Nat : /\ d = SumFunction([s \in E |-> Delivery(x, s)])
                       /\ SumFunction([s \in E |-> Bill(x, s) + Delivery(x, s)]) = G + d
  BY <1>5, <1>6, DeliveriesAre
<1>8. PICK p \in Nat : p = SplitPenalty * Cardinality(D)
  <2>1. PICK q \in Nat : q = SplitPenalty
    BY PenaltyIs
  <2>2. D \in SUBSET Linked
    BY <1>6
  <2>3. IsFiniteSet(D)
    BY <2>2, LinkedAre, FS_Subset
  <2>4. PICK c \in Nat : c = Cardinality(D)
    BY <2>3, FS_CardinalityType
  <2>5. q * c \in Nat
    OBVIOUS
  <2> QED BY <2>1, <2>4, <2>5
<1>9. RealCost(x) = (G + d) + p
  BY <1>6, <1>7, <1>8, Zenon DEF RealCost
<1>10. ListCost(x) = F + 10 * d + 10 * p
  BY <1>5, <1>6, <1>7, <1>8, Zenon DEF ListCost
<1> QED BY <1>4, <1>5, <1>9, <1>10

LEMMA CheapestHolds == SolverInv => PlanIsCheapest
<1> SUFFICES ASSUME SolverInv, outcome = "OPTIMAL"
             PROVE  LET x == [m \in Asked |-> proposal.lines[m].supplier]
                    IN /\ x \in Plans /\ Acceptable(x)
                       /\ \A other \in Plans : Acceptable(other) =>
                            /\ RealCost(x) <= RealCost(other)
                            /\ ListCost(x) <= ListCost(other) + 5 * (Pieces(x) + Pieces(other))
  BY Zenon DEF PlanIsCheapest
<1>1. PICK v : InputOk /\ Asked # {} /\ v \in Optimal /\ v \in Solutions /\ proposal = Export(v)
  BY AnswerIs
<1>2. PICK x : x = [m \in Asked |-> proposal.lines[m].supplier]
  OBVIOUS
<1>3. v.x \in Assignments /\ x = v.x
  <2>1. PICK e : e = proposal /\ e = Export(v)
    BY <1>1
  <2>2. v.x \in Assignments /\ v.x = [m \in Asked |-> e.lines[m].supplier]
    BY <1>1, <2>1, ExportIs
  <2> QED BY <1>2, <2>1, <2>2
<1>4. x \in Plans
  BY <1>1, <1>3, PlansAre
<1>5. Acceptable(x)
  BY <1>1, <1>3, FreeIs DEF Acceptable
<1>6. ASSUME NEW other \in Plans, Acceptable(other)
      PROVE  /\ RealCost(x) <= RealCost(other)
             /\ ListCost(x) <= ListCost(other) + 5 * (Pieces(x) + Pieces(other))
  <2>1. PICK w \in Solutions : w.x = other /\ Objective(w) = RealCost(other)
    BY <1>1, <1>6, PlansAre, ChoiceIsSolution
  <2>2. Objective(v) <= Objective(w)
    BY <1>1, OptimalIs
  <2>3. /\ RealCost(v.x) \in Nat /\ Objective(v) \in Nat /\ Objective(w) \in Nat
        /\ RealCost(v.x) <= Objective(v)
    BY <1>1, SolutionCosts
  <2>4. PICK a \in Nat, b \in Nat, c \in Nat :
          a = RealCost(v.x) /\ b = Objective(v) /\ c = Objective(w) /\ a <= b /\ b <= c
    BY <2>2, <2>3
  <2>5. a <= c
    BY <2>4
  <2>6. RealCost(x) = a /\ RealCost(other) = c
    BY <1>3, <2>1, <2>4
  <2>7. other \in Assignments
    BY <1>1, PlansAre
  <2>8. PICK i \in Nat, j \in Nat, k \in Nat, l \in Nat :
          /\ i = ListCost(x) /\ j = ListCost(other) /\ k = Pieces(x) /\ l = Pieces(other)
          /\ i <= 10 * a + 5 * k /\ 10 * c <= j + 5 * l
    <3>1. ListCost(x) \in Nat /\ Pieces(x) \in Nat /\ ListCost(x) <= 10 * a + 5 * Pieces(x)
      BY <1>1, <1>3, <2>6, ListIs
    <3>2. /\ ListCost(other) \in Nat /\ Pieces(other) \in Nat
          /\ 10 * c <= ListCost(other) + 5 * Pieces(other)
      BY <1>1, <2>6, <2>7, ListIs
    <3> QED BY <3>1, <3>2
  <2>9. i <= j + 5 * (k + l)
    BY <2>4, <2>5, <2>8
  <2> QED BY <2>5, <2>6, <2>8, <2>9
<1> QED BY <1>2, <1>4, <1>5, <1>6

LEMMA InfeasibleHolds == SolverInv => InfeasibleMeansNone
<1> SUFFICES ASSUME SolverInv, outcome = "INFEASIBLE", NEW x \in Plans, Acceptable(x) PROVE FALSE
  BY DEF InfeasibleMeansNone
<1>1. InputOk /\ Solutions = {}
  BY InputIs DEF SolverInv
<1> QED BY <1>1, PlansAre, ChoiceIsSolution

LEMMA ExportHolds == SolverInv => ExportIsReal
<1> SUFFICES ASSUME SolverInv, outcome = "OPTIMAL"
             PROVE  LET x == [m \in Asked |-> proposal.lines[m].supplier]
                    IN /\ \A s \in Engaged(x) :
                            /\ proposal.summaries[s].goods = Bill(x, s)
                            /\ proposal.summaries[s].fee = Delivery(x, s)
                            /\ proposal.summaries[s].free <=>
                                 FreeFrom[s] # NULL /\ Bill(x, s) >= FreeFrom[s]
                       /\ proposal.total = SumFunction([s \in Engaged(x) |-> Bill(x, s) + Delivery(x, s)])
                       /\ proposal.split = {Category[m] : m \in {n \in Linked : x[n] # x[Reference(n)]}}
  BY Zenon DEF ExportIsReal
<1>1. PICK v : InputOk /\ Asked # {} /\ v \in Optimal /\ v \in Solutions /\ proposal = Export(v)
  BY AnswerIs
<1>2. PICK x : x = [m \in Asked |-> proposal.lines[m].supplier]
  OBVIOUS
<1>3. v.x \in Assignments /\ x = v.x
  <2>1. PICK e : e = proposal /\ e = Export(v)
    BY <1>1
  <2>2. v.x \in Assignments /\ v.x = [m \in Asked |-> e.lines[m].supplier]
    BY <1>1, <2>1, ExportIs
  <2> QED BY <1>2, <2>1, <2>2
<1>4. ASSUME NEW s \in Engaged(x)
      PROVE  /\ proposal.summaries[s].goods = Bill(x, s)
             /\ proposal.summaries[s].fee = Delivery(x, s)
             /\ proposal.summaries[s].free <=> FreeFrom[s] # NULL /\ Bill(x, s) >= FreeFrom[s]
  <2>1. proposal.summaries[s] = SupplierSummary(v, s)
    BY <1>1, <1>3, ExportIs
  <2>2. s \in v.free <=> FreeFrom[s] # NULL /\ Bill(x, s) >= FreeFrom[s]
    BY <1>1, <1>3, FreeIs
  <2>3. OrderTotal(v.x, s) = Bill(x, s)
    <3>1. s \in Suppliers
      BY <1>1, <1>3, EngagedAre
    <3> QED BY <1>1, <1>3, <3>1, GoodsAre
  <2>4. /\ proposal.summaries[s].goods = OrderTotal(v.x, s)
        /\ proposal.summaries[s].fee = IF s \in v.free THEN 0 ELSE FlatFee[s]
        /\ proposal.summaries[s].free = (s \in v.free)
    BY <2>1 DEF SupplierSummary
  <2> QED BY <2>2, <2>3, <2>4 DEF Delivery
<1>5. proposal.total = SumFunction([s \in Engaged(x) |-> Bill(x, s) + Delivery(x, s)])
  <2>1. \A s \in Engaged(x) : s \in v.free <=> FreeFrom[s] # NULL /\ Bill(x, s) >= FreeFrom[s]
    BY <1>1, <1>3, FreeIs
  <2>2. proposal.total = SumFunction([m \in Asked |-> Cost(m, x[m])]) + Fees(Engaged(x) \ v.free)
    BY <1>1, <1>3, ExportIs
  <2> QED BY <1>1, <1>3, <2>1, <2>2, AmountsAddUp
<1>6. proposal.split = {Category[m] : m \in {n \in Linked : x[n] # x[Reference(n)]}}
  <2>1. proposal.split = SplitCategories(x)
    BY <1>1, <1>3, ExportIs
  <2> QED BY <1>1, <1>3, <2>1, SplitIs DEF SplitOff
<1> QED BY <1>2, <1>4, <1>5, <1>6

LEMMA SolverTypeHolds == SolverInv => SolverTypeOK
<1> SUFFICES ASSUME SolverInv PROVE SolverTypeOK
  OBVIOUS
<1>1. InputOk
  BY InputIs
<1>2. DOMAIN rows \subseteq 1..MaxRows /\ \A i \in DOMAIN rows : rows[i] \in RowSet
  <2>1. PICK n \in 1..MaxRows : rows \in [1..n -> RowSet]
    BY <1>1 DEF InputOk
  <2> QED BY <2>1, SolverAssumption
<1>3. \A m \in Materials, s \in Suppliers : offers[m][s] \in Offers \cup {NULL}
  BY <1>1 DEF InputOk
<1>4. proposal # NULL <=> outcome = "OPTIMAL"
  <2>1. CASE outcome = "OPTIMAL"
    <3>1. PICK v : v \in Solutions /\ proposal = Export(v)
      BY <2>1, AnswerIs
    <3>2. proposal \in Proposals
      BY <1>1, <3>1, ExportIs
    <3> QED BY <2>1, <3>2, SolverAssumption
  <2>2. CASE outcome # "OPTIMAL"
    BY <2>2 DEF SolverInv
  <2> QED BY <2>1, <2>2
<1> QED BY <1>1, <1>2, <1>3, <1>4 DEF SolverTypeOK, SolverInv, InputOk

(* A row nobody can ship: the supplier named has the most in stock.        *)
LEMMA OrphanIs ==
  ASSUME InputOk, NEW i \in DOMAIN rows, ~Solvable(rows[i]),
         NEW b \in BestPartial(rows[i].material), NEW o, o = Orphan(rows[i], b)
  PROVE  /\ o.supplier # NULL =>
              /\ o.available >= o.required <=> o.moq # NULL
              /\ o.moq # NULL => o.moq > o.available
         /\ \A s \in Sellers(o.material) :
              /\ offers[o.material][s].availability # NULL
              /\ offers[o.material][s].availability > 0 =>
                   o.supplier # NULL /\ offers[o.material][s].availability <= o.available
<1>1. PICK m, q : m = rows[i].material /\ q = rows[i].quantity
  OBVIOUS
<1>2. m \in Materials /\ q \in Nat \ {0}
  BY <1>1, RowIs
<1>3. o.material = m /\ o.supplier = b /\ o.required = q
  BY <1>1 DEF Orphan
<1>4. \A s \in Sellers(m) : offers[m][s].availability # NULL
  BY <1>1 DEF Solvable, Suffices
<1>5. CASE b = NULL
  <2>1. Partial(m) = {}
    <3>1. Partial(m) \in SUBSET Suppliers
      BY DEF Partial, Sellers
    <3>2. CASE Partial(m) # {}
      <4>1. b \in Partial(m)
        BY <1>1, <3>2 DEF BestPartial
      <4> QED BY <1>5, <3>1, <4>1, SolverAssumption
    <3> QED BY <3>2
  <2> QED BY <1>3, <1>5, <1>4, <2>1 DEF Partial
<1>6. CASE b # NULL
  <2>1. b \in Partial(m) /\ \A t \in Partial(m) : offers[m][t].availability <= offers[m][b].availability
    BY <1>1, <1>6 DEF BestPartial
  <2>2. b \in Suppliers /\ offers[m][b] # NULL
    BY <2>1 DEF Partial, Sellers
  <2>3. PICK f : f = offers[m][b]
    OBVIOUS
  <2>4. f.availability # NULL /\ f.availability > 0
    BY <2>1, <2>3 DEF Partial
  <2>5. f \in Offers /\ f.moq \in Nat /\ f.availability \in Nat
    BY <1>2, <2>2, <2>3, <2>4, OfferIs
  <2>6. o.available = f.availability /\ o.moq = IF f.availability >= q THEN f.moq ELSE NULL
    BY <1>1, <1>6, <2>3 DEF Orphan, BlockingMoq
  <2>7. f.moq # NULL
    BY <2>5, SolverAssumption
  <2>8. ~Suffices(q, f)
    BY <1>1, <2>2, <2>3 DEF Solvable, Sellers
  <2>9. f.availability >= q => f.moq > f.availability
    <3>1. ~(f.availability >= OrderQty(q, f))
      BY <2>8 DEF Suffices
    <3>2. OrderQty(q, f) = q \/ OrderQty(q, f) = f.moq
      BY <1>2, <2>5, OrderQtyIs
    <3> QED BY <1>2, <2>5, <3>1, <3>2
  <2>10. \A s \in Sellers(m) :
           /\ offers[m][s].availability # NULL
           /\ offers[m][s].availability > 0 => offers[m][s].availability <= f.availability
    BY <1>4, <2>1, <2>3 DEF Partial
  <2> QED BY <1>3, <1>6, <2>6, <2>7, <2>9, <2>10
<1> QED BY <1>5, <1>6

LEMMA OrphansHold == SolverInv => OrphansExplained
<1> SUFFICES ASSUME SolverInv PROVE OrphansExplained
  OBVIOUS
<1>1. CASE outcome = "asked"
  <2>1. DOMAIN orphaned = {}
    BY <1>1 DEF SolverInv
  <2> QED BY <2>1 DEF OrphansExplained
<1>2. CASE outcome # "asked"
  <2>1. SplitDone /\ InputOk
    BY <1>2, InputIs DEF SolverInv
  <2>2. PICK best \in [DOMAIN rows \ solvable -> Suppliers \cup {NULL}] :
          /\ \A i \in DOMAIN best : best[i] \in BestPartial(rows[i].material)
          /\ orphaned = [i \in DOMAIN best |-> Orphan(rows[i], best[i])]
    BY <2>1 DEF SplitDone
  <2>3. ASSUME NEW i \in DOMAIN orphaned
        PROVE  /\ i \in DOMAIN rows /\ ~Solvable(rows[i])
               /\ best[i] \in BestPartial(rows[i].material) /\ orphaned[i] = Orphan(rows[i], best[i])
    <3>1. i \in DOMAIN rows /\ i \notin solvable
      BY <2>2
    <3>2. ~Solvable(rows[i])
      BY <2>1, <3>1 DEF SplitDone
    <3> QED BY <2>2, <3>1, <3>2
  <2>4. ASSUME NEW i \in DOMAIN orphaned, NEW o, o = orphaned[i]
        PROVE  /\ o.supplier # NULL =>
                    /\ o.available >= o.required <=> o.moq # NULL
                    /\ o.moq # NULL => o.moq > o.available
               /\ \A s \in Sellers(o.material) :
                    /\ offers[o.material][s].availability # NULL
                    /\ offers[o.material][s].availability > 0 =>
                         o.supplier # NULL /\ offers[o.material][s].availability <= o.available
    BY <2>1, <2>3, <2>4, OrphanIs
  <2> QED BY <2>4, Zenon DEF OrphansExplained
<1> QED BY <1>1, <1>2

(* Somebody can ship a row exactly when the split hands it to the solver.  *)
LEMMA ReachableIs ==
  ASSUME InputOk, SplitDone, NEW i \in DOMAIN rows
  PROVE  Reachable(i) <=> i \in solvable
<1>1. PICK m, q : m = rows[i].material /\ q = rows[i].quantity
  OBVIOUS
<1>2. m \in Materials /\ q \in Nat
  BY <1>1, RowIs
<1>3. \A s \in Suppliers : Shipped(m, s, q) # NULL <=> offers[m][s] # NULL /\ Suffices(q, offers[m][s])
  BY <1>2, ShippedIs
<1>4. Reachable(i) <=> Solvable(rows[i])
  BY <1>1, <1>3 DEF Reachable, Solvable, Sellers
<1> QED BY <1>4 DEF SplitDone

LEMMA RowsHold == SolverInv => RowsPlannedOrSuperseded
<1> SUFFICES ASSUME SolverInv PROVE RowsPlannedOrSuperseded
  OBVIOUS
<1>1. ASSUME Answered, NEW i \in DOMAIN rows, NEW m, m = rows[i].material
      PROVE  /\ i \in DOMAIN orphaned <=> ~Reachable(i)
             /\ outcome = "OPTIMAL" /\ Reachable(i) =>
                  /\ proposal.lines[m].quantity =
                       Shipped(m, proposal.lines[m].supplier, proposal.lines[m].needed)
                  /\ \/ proposal.lines[m].needed = rows[i].quantity
                     \/ \E k \in DOMAIN rows : k > i /\ rows[k].material = m /\ Reachable(k)
  <2>1. InputOk /\ SplitDone
    BY <1>1, InputIs DEF SolverInv, Answered
  <2>2. m \in Materials
    BY <1>1, <2>1, RowIs
  <2>3. \A k \in DOMAIN rows : Reachable(k) <=> k \in solvable
    BY <2>1, ReachableIs
  <2>4. i \in DOMAIN orphaned <=> i \notin solvable
    BY <2>1 DEF SplitDone
  <2>5. ASSUME outcome = "OPTIMAL", i \in solvable
        PROVE  /\ proposal.lines[m].quantity =
                    Shipped(m, proposal.lines[m].supplier, proposal.lines[m].needed)
               /\ \/ proposal.lines[m].needed = rows[i].quantity
                  \/ \E k \in solvable : k > i /\ rows[k].material = m
    <3>1. m \in Asked
      BY <1>1, <2>5 DEF Asked
    <3>2. PICK v : v \in Solutions /\ proposal = Export(v)
      BY <2>5, AnswerIs
    <3>3. PICK s, line : s = v.x[m] /\ line = proposal.lines[m]
      OBVIOUS
    <3>4. v.x \in Assignments /\ line = Line(m, s)
      BY <2>1, <3>1, <3>2, <3>3, ExportIs
    <3>5. s \in Suppliers /\ <<m, s>> \in Pairs
      BY <2>1, <3>1, <3>3, <3>4, CostOfNat
    <3>6. line.supplier = s /\ line.needed = Qty(m) /\ line.quantity = Shipped(m, s, Qty(m))
      <4>1. Line(m, s).quantity = Shipped(m, s, Qty(m))
        BY <2>1, <3>1, <3>5, CostIs
      <4> QED BY <3>4, <4>1 DEF Line
    <3>7. PICK k \in solvable : /\ rows[k].material = m /\ rows[k].quantity = Qty(m)
                                /\ \A j \in solvable : rows[j].material = m => j <= k
      BY <2>1, <3>1, QtyIs
    <3>8. i <= k /\ i \in Nat /\ k \in Nat
      <4>1. PICK n \in Nat : DOMAIN rows = 1 .. n
        BY <2>1, RowsAre
      <4>2. i \in 1 .. n /\ k \in 1 .. n
        BY <2>1, <2>5, <4>1 DEF InputOk
      <4> QED BY <1>1, <2>5, <3>7, <4>2
    <3>9. i = k \/ k > i
      BY <3>8
    <3> QED BY <3>3, <3>6, <3>7, <3>9
  <2>6. \A k \in solvable : k \in DOMAIN rows
    BY <2>1 DEF InputOk
  <2> QED BY <2>3, <2>4, <2>5, <2>6
<1>2. ASSUME Answered, NEW i \in DOMAIN rows
      PROVE  LET m    == rows[i].material
                 line == proposal.lines[m]
             IN /\ i \in DOMAIN orphaned <=> ~Reachable(i)
                /\ outcome = "OPTIMAL" /\ Reachable(i) =>
                     /\ line.quantity = Shipped(m, line.supplier, line.needed)
                     /\ \/ line.needed = rows[i].quantity
                        \/ \E k \in DOMAIN rows : k > i /\ rows[k].material = m /\ Reachable(k)
  <2>1. PICK m : m = rows[i].material
    OBVIOUS
  <2> QED BY <1>1, <1>2, <2>1
<1> QED BY <1>2, SolverTypeHolds, OrphansHold, Zenon DEF RowsPlannedOrSuperseded

(* Whatever rows, prices and policies it is given, a run reports exactly   *)
(* the rows nobody can ship, with what stands in the way, and of the       *)
(* others plans the last row of every material with exactly its need, at a *)
(* supplier that ships it: a row is lost only to a later one of the same   *)
(* material.                                                               *)
THEOREM RowsCorrect == SolverSpec => []RowsPlannedOrSuperseded
BY SolverAlways, RowsHold, PTL

(* In the rounded cents, no choice of shipping suppliers that respects     *)
(* everybody's minimum order costs less than the plan: the encoding        *)
(* neither cuts one off nor prices one below what it is billed.  At the    *)
(* stored prices none costs less by more than half a cent for each piece   *)
(* of either.                                                              *)
THEOREM CheapestCorrect == SolverSpec => []PlanIsCheapest
BY SolverAlways, CheapestHolds, PTL

(* A run called infeasible has no acceptable choice at all.                *)
THEOREM InfeasibleCorrect == SolverSpec => []InfeasibleMeansNone
BY SolverAlways, InfeasibleHolds, PTL

(* The exported summaries, total and split categories are what the chosen  *)
(* lines cost by the suppliers' own delivery rules.                        *)
THEOREM ExportCorrect == SolverSpec => []ExportIsReal
BY SolverAlways, ExportHolds, PTL

-----------------------------------------------------------------------------
(* The two models of a run agree: what Solver proposes is an answer        *)
(* Procurement!RunSolved admits.                                           *)

(* The solver's price table, in cents, is one the project's run may read.  *)
PricesRead ==
  \A m \in Materials, s \in Suppliers :
    offers[m][s] # NULL => [price |-> UnitCents(m, s), moq |-> offers[m][s].moq] \in Offer[m][s]

(* The choice behind the proposal, as RunSolved takes it.                  *)
SolversPick ==
  [m \in DOMAIN proposal.lines |->
     [supplier |-> proposal.lines[m].supplier, price |-> proposal.lines[m].price,
      moq |-> offers[m][proposal.lines[m].supplier].moq]]

(* Needs of a project that the rows the solver keeps are the needs of.     *)
NeedsAsked == {need \in [Materials -> Quantities \cup {0}] : \A m \in Asked : need[m] = Qty(m)}

(* A proposal is a pick of offers for wanted materials, the plan made of   *)
(* it is feasible and orders what was proposed, and the summaries a run    *)
(* stores without looking at the minimum order are those of the proposal.  *)
AnswersRun ==
  outcome = "OPTIMAL" /\ PricesRead =>
    \A need \in NeedsAsked :
      LET plan == PlanOf(need, SolversPick) IN
      /\ SolversPick \in Picks(need) /\ DOMAIN SolversPick # {}
      /\ \A m \in DOMAIN SolversPick : SolversPick[m] \in Candidates(m)
      /\ Feasible(plan)
      /\ \A m \in DOMAIN SolversPick : /\ plan[m].supplier = proposal.lines[m].supplier
                                  /\ plan[m].price = proposal.lines[m].price
                                  /\ plan[m].quantity = proposal.lines[m].quantity
      /\ \A s \in Suppliers :
           SolverSummary(plan, s) =
             IF s \notin DOMAIN proposal.summaries THEN NULL
             ELSE [goods |-> proposal.summaries[s].goods, fee |-> proposal.summaries[s].fee,
                   free |-> proposal.summaries[s].free, below |-> FALSE]

(* Line by line, the plan is what was proposed.                            *)
LEMMA PickedIs ==
  ASSUME InputOk, NEW v \in Solutions, proposal = Export(v), PricesRead,
         NEW need \in NeedsAsked, NEW plan, plan = PlanOf(need, SolversPick)
  PROVE  /\ DOMAIN SolversPick = Asked /\ DOMAIN proposal.summaries = Engaged(v.x)
         /\ \A m \in Asked : SolversPick[m] \in Candidates(m) /\ need[m] > 0
         /\ \A m \in Materials \ Asked : plan[m] = NULL
         /\ \A m \in Asked :
              /\ plan[m] # NULL /\ plan[m].supplier = v.x[m] /\ v.x[m] = proposal.lines[m].supplier
              /\ plan[m].price = proposal.lines[m].price
              /\ plan[m].quantity = proposal.lines[m].quantity
              /\ plan[m].price * plan[m].quantity = Cost(m, v.x[m])
<1>1. PICK e : e = proposal /\ e = Export(v)
  OBVIOUS
<1>2. v.x \in Assignments /\ \A m \in Asked : e.lines[m] = Line(m, v.x[m])
  BY <1>1, ExportIs
<1>3. DOMAIN e.lines = Asked /\ DOMAIN e.summaries = Engaged(v.x)
  <2>1. PICK L, S, t, c : /\ L = [m \in Asked |-> Line(m, v.x[m])]
                          /\ S = [s \in Engaged(v.x) |-> SupplierSummary(v, s)]
                          /\ t = SumFunction([m \in Asked |-> Cost(m, v.x[m])]) + Fees(Engaged(v.x) \ v.free)
                          /\ c = SplitCategories(v.x)
    OBVIOUS
  <2>2. e = [lines |-> L, summaries |-> S, total |-> t, split |-> c]
    BY <1>1, <2>1, Zenon DEF Export
  <2> QED BY <2>1, <2>2
<1>4. PICK P : P = SolversPick
  OBVIOUS
<1>5. DOMAIN P = Asked /\ Asked \in SUBSET Materials
  BY <1>1, <1>3, <1>4, AskedIs DEF SolversPick
<1>6. ASSUME NEW m \in Asked
      PROVE  /\ P[m] \in Candidates(m) /\ need[m] > 0
             /\ plan[m] # NULL /\ plan[m].supplier = v.x[m] /\ v.x[m] = e.lines[m].supplier
             /\ plan[m].price = e.lines[m].price /\ plan[m].quantity = e.lines[m].quantity
             /\ plan[m].price * plan[m].quantity = Cost(m, v.x[m])
  <2>1. PICK s, o, u : s = v.x[m] /\ o = offers[m][s] /\ u = UnitCents(m, s)
    OBVIOUS
  <2>2. m \in Materials /\ s \in Suppliers /\ <<m, s>> \in Pairs
    BY <1>2, <1>5, <1>6, <2>1, CostOfNat
  <2>3. o # NULL /\ o \in Offers
    <3>1. o # NULL
      BY <2>1, <2>2 DEF Pairs
    <3> QED BY <2>1, <2>2, <3>1, OfferIs
  <2>4. PICK q : q = Qty(m)
    OBVIOUS
  <2>5. q \in Nat \ {0} /\ need[m] = q
    BY <1>6, <2>4, QtyIs DEF NeedsAsked
  <2>6. e.lines[m] = [supplier |-> s, quantity |-> OrderQty(q, o), needed |-> q, price |-> u]
    BY <1>2, <1>6, <2>1, <2>4 DEF Line
  <2>7. P[m] = [supplier |-> s, price |-> u, moq |-> o.moq]
    <3>1. P = [n \in Asked |-> [supplier |-> e.lines[n].supplier, price |-> e.lines[n].price,
                                 moq |-> offers[n][e.lines[n].supplier].moq]]
      BY <1>1, <1>3, <1>4 DEF SolversPick
    <3>2. e.lines[m].supplier = s /\ e.lines[m].price = u
      BY <2>6
    <3>3. P[m] = [supplier |-> e.lines[m].supplier, price |-> e.lines[m].price,
                  moq |-> offers[m][e.lines[m].supplier].moq]
      BY <1>6, <3>1
    <3> QED BY <2>1, <3>2, <3>3
  <2>8. [price |-> u, moq |-> o.moq] \in Offer[m][s]
    BY <2>1, <2>2, <2>3 DEF PricesRead
  <2>9. P[m] \in Candidates(m)
    <3>1. PICK d : d = [price |-> u, moq |-> o.moq]
      OBVIOUS
    <3>2. d \in Offer[m][s] /\ P[m] = [supplier |-> s, price |-> d.price, moq |-> d.moq]
      BY <2>7, <2>8, <3>1
    <3> QED BY <2>2, <3>2 DEF Candidates
  <2>10. plan[m] = SolverLine(q, P[m])
    BY <1>4, <1>5, <1>6, <2>2, <2>5 DEF PlanOf
  <2>11. plan[m] # NULL
    <3>1. P[m] \in CandidateOffers
      BY <2>2, <2>9, CandidateType
    <3>2. plan[m] \in Lines
      BY <2>5, <2>10, <3>1, SolverLineType
    <3> QED BY <3>2, NullAssumption
  <2>12. /\ plan[m].supplier = s /\ plan[m].price = u
         /\ plan[m].quantity = Larger(q, o.moq)
    BY <2>7, <2>10 DEF SolverLine
  <2>13. OrderQty(q, o) = Larger(q, o.moq) /\ Cost(m, s) = u * OrderQty(q, o)
    BY <2>1, <2>4 DEF OrderQty, Cost
  <2> QED BY <2>1, <2>5, <2>6, <2>9, <2>11, <2>12, <2>13
<1>7. \A m \in Materials \ Asked : plan[m] = NULL
  BY <1>4, <1>5 DEF PlanOf
<1> QED BY <1>1, <1>3, <1>4, <1>5, <1>6, <1>7

(* Supplier by supplier, it costs what was proposed.                       *)
LEMMA PickedCosts ==
  ASSUME InputOk, NEW v \in Solutions, proposal = Export(v), PricesRead,
         NEW need \in NeedsAsked, NEW plan, plan = PlanOf(need, SolversPick), NEW s \in Suppliers
  PROVE  /\ LinesOf(plan, s) = {m \in Asked : v.x[m] = s}
         /\ Goods(plan, s) = OrderTotal(v.x, s)
<1>1. Asked \in SUBSET Materials
  BY AskedIs
<1>2. /\ \A m \in Materials \ Asked : plan[m] = NULL
      /\ \A m \in Asked : /\ plan[m] # NULL /\ plan[m].supplier = v.x[m]
                          /\ plan[m].price * plan[m].quantity = Cost(m, v.x[m])
  BY PickedIs
<1>3. LinesOf(plan, s) = {m \in Asked : v.x[m] = s}
  BY <1>1, <1>2 DEF LinesOf
<1>4. LineTotals(plan, s) = [m \in {n \in Asked : v.x[n] = s} |-> Cost(m, s)]
  BY <1>2, <1>3 DEF LineTotals
<1> QED BY <1>3, <1>4, Zenon DEF Goods, OrderTotal

LEMMA AnswersHold == SolverInv => AnswersRun
<1> SUFFICES ASSUME SolverInv, outcome = "OPTIMAL", PricesRead,
                    NEW need \in NeedsAsked, NEW plan, plan = PlanOf(need, SolversPick)
             PROVE  /\ SolversPick \in Picks(need) /\ DOMAIN SolversPick # {}
                    /\ \A m \in DOMAIN SolversPick : SolversPick[m] \in Candidates(m)
                    /\ Feasible(plan)
                    /\ \A m \in DOMAIN SolversPick : /\ plan[m].supplier = proposal.lines[m].supplier
                                                /\ plan[m].price = proposal.lines[m].price
                                                /\ plan[m].quantity = proposal.lines[m].quantity
                    /\ \A s \in Suppliers :
                         SolverSummary(plan, s) =
                           IF s \notin DOMAIN proposal.summaries THEN NULL
                           ELSE [goods |-> proposal.summaries[s].goods, fee |-> proposal.summaries[s].fee,
                                 free |-> proposal.summaries[s].free, below |-> FALSE]
  BY Zenon DEF AnswersRun
<1>1. PICK v : InputOk /\ Asked # {} /\ v \in Optimal /\ v \in Solutions /\ proposal = Export(v)
  BY AnswerIs
<1>2. /\ DOMAIN SolversPick = Asked /\ DOMAIN proposal.summaries = Engaged(v.x)
      /\ \A m \in Asked : SolversPick[m] \in Candidates(m) /\ need[m] > 0
      /\ \A m \in Asked : /\ plan[m].supplier = v.x[m] /\ v.x[m] = proposal.lines[m].supplier
                          /\ plan[m].price = proposal.lines[m].price
                          /\ plan[m].quantity = proposal.lines[m].quantity
  BY <1>1, PickedIs
<1>3. v.x \in Assignments /\ \A s \in Engaged(v.x) : proposal.summaries[s] = SupplierSummary(v, s)
  BY <1>1, ExportIs
<1>4. SolversPick \in Picks(need)
  <2>1. PICK P : P = SolversPick
    OBVIOUS
  <2>2. P \in [Asked -> UNION {Candidates(m) : m \in Materials}]
    <3>1. P = [m \in Asked |-> P[m]]
      BY <1>2, <2>1 DEF SolversPick
    <3>2. \A m \in Asked : P[m] \in UNION {Candidates(n) : n \in Materials}
      BY <1>1, <1>2, <2>1, AskedIs
    <3> QED BY <3>1, <3>2
  <2>3. Asked \in SUBSET Wanted(need)
    BY <1>1, <1>2, AskedIs DEF Wanted
  <2> QED BY <2>1, <2>2, <2>3 DEF Picks
<1>5. ASSUME NEW s \in Suppliers
      PROVE  /\ LinesOf(plan, s) # {} <=> s \in Engaged(v.x)
             /\ Goods(plan, s) = OrderTotal(v.x, s)
  <2>1. LinesOf(plan, s) = {m \in Asked : v.x[m] = s} /\ Goods(plan, s) = OrderTotal(v.x, s)
    BY <1>1, PickedCosts
  <2> QED BY <2>1 DEF Engaged
<1>6. ASSUME NEW s \in Engaged(v.x)
      PROVE  /\ OrderTotal(v.x, s) >= MinOrder[s]
             /\ s \in v.free <=> FreeFrom[s] # NULL /\ OrderTotal(v.x, s) >= FreeFrom[s]
  <2>1. s \in Suppliers
    BY <1>1, <1>3, EngagedAre
  <2> QED BY <1>1, <1>3, <2>1, FreeIs, GoodsAre
<1>7. Feasible(plan)
  BY <1>5, <1>6 DEF Feasible
<1>8. ASSUME NEW s \in Suppliers
      PROVE  SolverSummary(plan, s) =
               IF s \notin Engaged(v.x) THEN NULL
               ELSE [goods |-> proposal.summaries[s].goods, fee |-> proposal.summaries[s].fee,
                     free |-> proposal.summaries[s].free, below |-> FALSE]
  <2>1. CASE s \notin Engaged(v.x)
    BY <1>5, <2>1 DEF SolverSummary, Summary
  <2>2. CASE s \in Engaged(v.x)
    <3>1. PICK g : g = OrderTotal(v.x, s) /\ g = Goods(plan, s)
      BY <1>5
    <3>2. LinesOf(plan, s) # {}
      BY <1>5, <2>2
    <3>3. CASE s \in v.free
      <4>1. proposal.summaries[s] = [goods |-> g, fee |-> 0, free |-> TRUE]
        BY <1>3, <2>2, <3>1, <3>3 DEF SupplierSummary
      <4>2. FreeFrom[s] # NULL /\ g >= FreeFrom[s]
        BY <1>6, <2>2, <3>1, <3>3
      <4>3. SolverSummary(plan, s) = [goods |-> g, fee |-> 0, free |-> TRUE, below |-> FALSE]
        BY <3>1, <3>2, <4>2 DEF SolverSummary, Summary
      <4> QED BY <2>2, <4>1, <4>3
    <3>4. CASE s \notin v.free
      <4>1. proposal.summaries[s] = [goods |-> g, fee |-> FlatFee[s], free |-> FALSE]
        <5>1. (s \in v.free) = FALSE
          BY <3>4
        <5>2. SupplierSummary(v, s) = [goods |-> g, fee |-> FlatFee[s], free |-> FALSE]
          BY <3>1, <3>4, <5>1, Zenon DEF SupplierSummary
        <5> QED BY <1>3, <2>2, <5>2
      <4>2. ~(FreeFrom[s] # NULL /\ g >= FreeFrom[s])
        BY <1>6, <2>2, <3>1, <3>4
      <4>3. SolverSummary(plan, s) = [goods |-> g, fee |-> FlatFee[s], free |-> FALSE, below |-> FALSE]
        BY <3>1, <3>2, <4>2 DEF SolverSummary, Summary
      <4> QED BY <2>2, <4>1, <4>3
    <3> QED BY <3>3, <3>4
  <2> QED BY <2>1, <2>2
<1> QED BY <1>1, <1>2, <1>4, <1>7, <1>8

(* Whatever the integer program proposes from prices the project's run may *)
(* read is one of the answers with which Procurement!RunSolved goes on,    *)
(* down to the summaries it stores: the coarse step hides no behaviour, and*)
(* below_min_order = False is right although nobody computes it.           *)
THEOREM SolverAnswersRun == SolverSpec => []AnswersRun
BY SolverAlways, AnswersHold, PTL
=============================================================================
