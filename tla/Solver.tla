-------------------------------- MODULE Solver --------------------------------
(***************************************************************************)
(* One allocation run from the project's rows to the proposed plan:        *)
(* split_orphaned_materials (app/allocation/preprocess.py), the integer    *)
(* program of solve_allocation (app/allocation/solver.py) and the split    *)
(* categories of run_allocation (app/allocation/service.py).               *)
(*                                                                         *)
(* CP-SAT is given no time limit: it answers with some optimal solution,   *)
(* or that there is none.  Amounts are in its integer cents; a Price is in *)
(* thousandths of a dollar, Numeric(12, 3), and is rounded to whole cents  *)
(* before anything is multiplied by it.                                    *)
(***************************************************************************)
EXTENDS Integers, FiniteSets, FiniteSetsExt, Policies

CONSTANTS
  Category,   (* Category[m]: its category if that asks for a single       *)
              (* supplier, NULL otherwise                                  *)
  Tables,     (* the price tables a run may meet: table[m][s] is the       *)
              (* active price of s for m, NULL if there is none            *)
  RoundedUp,  (* prices halfway between two cents that round(float * 100)  *)
              (* takes up: the product is a binary float                   *)
  MaxRows     (* bound: project items                                      *)

K == 4  (* CATEGORY_SPLIT_PENALTY_K *)

RowSet == [material : Materials, quantity : Quantities]
Offers == [price : Nat, moq : Nat \ {0}, availability : Nat \cup {NULL}]

(* What is returned of an optimal solution.                                *)
LineSet    == [supplier : Suppliers, quantity : Nat, needed : Nat, price : Nat]
SummarySet == [goods : Nat, fee : Nat, free : BOOLEAN]
Proposals  ==
  [lines : UNION {[M -> LineSet] : M \in SUBSET Materials},
   summaries : UNION {[S -> SummarySet] : S \in SUBSET Suppliers},
   total : Nat, split : SUBSET {Category[m] : m \in Materials}]

(* Material ids are strings: what matters of them is that they are ordered. *)
ASSUME SolverAssumption ==
  /\ Materials \subseteq Nat /\ IsFiniteSet(Materials) /\ IsFiniteSet(Suppliers)
  /\ NULL \notin Nat /\ NULL \notin Suppliers
  /\ NULL \notin Offers /\ NULL \notin Proposals
  /\ Quantities \subseteq Nat \ {0} /\ MaxRows \in Nat
  /\ Tables \subseteq [Materials -> [Suppliers -> Offers \cup {NULL}]]

VARIABLES
  rows,     (* the project's items; a material may occur more than once    *)
  offers,   (* the price table, inactive suppliers' prices left out        *)
  solvable, (* indices of the rows some offer suffices for                 *)
  orphaned, (* orphaned[i]: what is reported of each other row             *)
  outcome,  (* how far the run is, then the solver's answer                *)
  proposal  (* the answer: lines, summaries, total, split; NULL before     *)

solverVars == <<rows, offers, solvable, orphaned, outcome, proposal>>

(* _to_cents of a price, and what supplier s then asks for one piece of m. *)
ToCents(p) ==
  IF p % 10 > 5 \/ (p % 10 = 5 /\ p \in RoundedUp) THEN p \div 10 + 1 ELSE p \div 10
UnitCents(m, s) == ToCents(offers[m][s].price)

SolverInit ==
  /\ rows \in UNION {[1..n -> RowSet] : n \in 1..MaxRows}
  /\ offers \in Tables
  /\ solvable = {} /\ orphaned = <<>> /\ outcome = "asked" /\ proposal = NULL

-----------------------------------------------------------------------------
(* split_orphaned_materials.                                               *)

OrderQty(need, o) == Larger(need, o.moq)
Suffices(need, o) == o.availability = NULL \/ o.availability >= OrderQty(need, o)

Sellers(m) == {s \in Suppliers : offers[m][s] # NULL}

Solvable(row) == \E s \in Sellers(row.material) : Suffices(row.quantity, offers[row.material][s])

(* _best_partial_offer: a supplier with the most in stock.                 *)
Partial(m) ==
  {s \in Sellers(m) : offers[m][s].availability # NULL /\ offers[m][s].availability > 0}
BestPartial(m) ==
  IF Partial(m) = {} THEN {NULL}
  ELSE {s \in Partial(m) : \A t \in Partial(m) :
          offers[m][t].availability <= offers[m][s].availability}

BlockingMoq(row, o) == IF o.availability >= row.quantity THEN o.moq ELSE NULL

Orphan(row, s) ==
  [material |-> row.material, required |-> row.quantity, supplier |-> s,
   available |-> IF s = NULL THEN NULL ELSE offers[row.material][s].availability,
   moq |-> IF s = NULL THEN NULL ELSE BlockingMoq(row, offers[row.material][s])]

Split ==
  /\ outcome = "asked" /\ outcome' = "split"
  /\ solvable' = {i \in DOMAIN rows : Solvable(rows[i])}
  /\ \E best \in [DOMAIN rows \ solvable' -> Suppliers \cup {NULL}] :
       /\ \A i \in DOMAIN best : best[i] \in BestPartial(rows[i].material)
       /\ orphaned' = [i \in DOMAIN best |-> Orphan(rows[i], best[i])]
  /\ UNCHANGED <<rows, offers, proposal>>

-----------------------------------------------------------------------------
(* solve_allocation: the model.  A dict keyed by material keeps the last   *)
(* row of each.  An assignment x is a function: exactly one supplier per   *)
(* material, among the pairs that are in the model (constraints 1 and 2).  *)

Asked     == {rows[i].material : i \in solvable}
QtyOfFirst(m) ==                                                        (* faulty *)
  rows[Min({i \in solvable : rows[i].material = m})].quantity
Qty(m)    == rows[Max({i \in solvable : rows[i].material = m})].quantity
Pairs     == {p \in Asked \X Suppliers :
                /\ offers[p[1]][p[2]] # NULL
                /\ Suffices(Qty(p[1]), offers[p[1]][p[2]])}
SupplierIds == {p[2] : p \in Pairs}
Assignments == {x \in [Asked -> Suppliers] : \A m \in Asked : <<m, x[m]>> \in Pairs}

Cost(m, s) == UnitCents(m, s) * OrderQty(Qty(m), offers[m][s])

OrderTotal(x, s)  == SumFunction([m \in {n \in Asked : x[n] = s} |-> Cost(m, s)])
MaxTotalOfNeed(s) ==                                                    (* faulty *)
  SumFunction([m \in {n \in Asked : <<n, s>> \in Pairs} |-> UnitCents(m, s) * Qty(m)])
MaxOrderTotal(s)  == SumFunction([m \in {n \in Asked : <<n, s>> \in Pairs} |-> Cost(m, s)])

(* Strict categories: every material but the first one, and that one.      *)
Reference(m) == Min({n \in Asked : Category[n] = Category[m]})
Linked       == {m \in Asked : Category[m] # NULL /\ Reference(m) # m}

(* free[s]: the order total reaches the threshold, by two inequalities     *)
(* with big_m = threshold + the largest possible total, or a constant      *)
(* where there is nothing to compare.                                      *)
FreeLinked(threshold, max, total, free, used) ==
  \/ threshold = NULL /\ ~free
  \/ threshold = 0 /\ (free <=> used)
  \/ /\ threshold \notin {NULL, 0}
     /\ ~free => total >= threshold - (threshold + max)
     /\ free => total >= threshold
     /\ ~free => total <= threshold - 1
     /\ free => total <= threshold - 1 + (threshold + max)
     /\ free => used

Consistent(v) ==
  /\ \A m \in Asked : v.x[m] \in v.y
  /\ \A s \in SupplierIds :
       /\ s \in v.y => OrderTotal(v.x, s) >= MinOrder[s]
       /\ FreeLinked(FreeFrom[s], MaxOrderTotal(s), OrderTotal(v.x, s), s \in v.free, s \in v.y)
  /\ \A m \in Linked : v.x[m] # v.x[Reference(m)] => m \in v.diff

Solutions ==
  {v \in [x : Assignments, y : SUBSET SupplierIds, free : SUBSET SupplierIds,
          diff : SUBSET Linked] : Consistent(v)}

Fees(S) == SumFunction([s \in S |-> FlatFee[s]])

(* round(K * the average flat fee), half to even.                          *)
HalfToEven(a, b) ==
  LET q == a \div b
      r == a % b
  IN IF 2 * r > b \/ (2 * r = b /\ q % 2 = 1) THEN q + 1 ELSE q
SplitPenalty == HalfToEven(K * Fees(SupplierIds), Cardinality(SupplierIds))

(* z[s], the fee that is due, is y[s] and not free[s].                     *)
FeeOfEveryUsed(v) ==                                                    (* faulty *)
  SumFunction([m \in Asked |-> Cost(m, v.x[m])]) + Fees(v.y) + SplitPenalty * Cardinality(v.diff)
Objective(v) ==
  SumFunction([m \in Asked |-> Cost(m, v.x[m])]) + Fees(v.y \ v.free)
    + SplitPenalty * Cardinality(v.diff)

Optimal == LET best == Min({Objective(v) : v \in Solutions})
           IN {v \in Solutions : Objective(v) = best}

-----------------------------------------------------------------------------
(* The answer.                                                             *)

Line(m, s) ==
  [supplier |-> s, quantity |-> OrderQty(Qty(m), offers[m][s]), needed |-> Qty(m),
   price |-> UnitCents(m, s)]

Engaged(x) == {x[m] : m \in Asked}

(* _compute_split_categories.                                              *)
SplitCategories(x) ==
  {c \in {Category[m] : m \in Asked} \ {NULL} :
     Cardinality({x[m] : m \in {n \in Asked : Category[n] = c}}) > 1}

FreeIgnored(v, s) ==                                                    (* faulty *)
  [goods |-> OrderTotal(v.x, s), fee |-> FlatFee[s], free |-> s \in v.free]
SupplierSummary(v, s) ==
  [goods |-> OrderTotal(v.x, s), fee |-> IF s \in v.free THEN 0 ELSE FlatFee[s],
   free |-> s \in v.free]

Export(v) ==
  [lines |-> [m \in Asked |-> Line(m, v.x[m])],
   summaries |-> [s \in Engaged(v.x) |-> SupplierSummary(v, s)],
   total |-> SumFunction([m \in Asked |-> Cost(m, v.x[m])]) + Fees(Engaged(v.x) \ v.free),
   split |-> SplitCategories(v.x)]

NothingToSolve ==
  /\ outcome = "split" /\ Asked = {} /\ outcome' = "NO_SOLVABLE_MATERIALS"
  /\ UNCHANGED <<rows, offers, solvable, orphaned, proposal>>

Fail ==
  /\ outcome = "split" /\ Asked # {} /\ Solutions = {} /\ outcome' = "INFEASIBLE"
  /\ UNCHANGED <<rows, offers, solvable, orphaned, proposal>>

Solve ==
  /\ outcome = "split" /\ Asked # {} /\ Solutions # {} /\ outcome' = "OPTIMAL"
  /\ \E v \in Optimal : proposal' = Export(v)
  /\ UNCHANGED <<rows, offers, solvable, orphaned>>

SolverNext == Split \/ NothingToSolve \/ Fail \/ Solve

SolverSpec == SolverInit /\ [][SolverNext]_solverVars

-----------------------------------------------------------------------------
(* What an allocation should be, said without the integer program.         *)

(* Types of the input, the report and the answer.                          *)
SolverTypeOK ==
  /\ DOMAIN rows \subseteq 1..MaxRows /\ \A i \in DOMAIN rows : rows[i] \in RowSet
  /\ \A m \in Materials, s \in Suppliers : offers[m][s] \in Offers \cup {NULL}
  /\ solvable \subseteq DOMAIN rows
  /\ outcome \in {"asked", "split", "NO_SOLVABLE_MATERIALS", "INFEASIBLE", "OPTIMAL"}
  /\ proposal # NULL <=> outcome = "OPTIMAL"

Answered == outcome \notin {"asked", "split"}

(* What supplier s would really ship of m for a need of q: NULL if its     *)
(* stock does not reach the larger of the need and its minimum.            *)
Shipped(m, s, q) ==
  LET o == offers[m][s]
  IN IF o = NULL THEN NULL
     ELSE LET n == Larger(q, o.moq)
          IN IF o.availability # NULL /\ n > o.availability THEN NULL ELSE n

(* The report on an unreachable row does not contradict itself: it names   *)
(* the largest stock there is, and whenever that covers the need, the      *)
(* minimum quantity that stands in the way (ADR-0045).                     *)
OrphansExplained ==
  \A i \in DOMAIN orphaned :
    LET o == orphaned[i]
    IN /\ o.supplier # NULL =>
            /\ o.available >= o.required <=> o.moq # NULL
            /\ o.moq # NULL => o.moq > o.available
       /\ \A s \in Sellers(o.material) :
            /\ offers[o.material][s].availability # NULL
            /\ offers[o.material][s].availability > 0 =>
                 o.supplier # NULL /\ offers[o.material][s].availability <= o.available

(* Somebody can ship the whole of row i.                                   *)
Reachable(i) == \E s \in Suppliers : Shipped(rows[i].material, s, rows[i].quantity) # NULL

(* A row is reported exactly when nobody can ship it, and the report is in *)
(* keeping with the stock (ADR-0002, 0045); any other row of a solved run  *)
(* is planned, with exactly its need and what its supplier ships of that,  *)
(* unless a later shippable row of the same material takes its place: only *)
(* then is a row lost, and the last one never is.                          *)
RowsPlannedOrSuperseded ==
  /\ SolverTypeOK /\ OrphansExplained
  /\ Answered => \A i \in DOMAIN rows :
      LET m    == rows[i].material
          line == proposal.lines[m]
      IN /\ i \in DOMAIN orphaned <=> ~Reachable(i)
         /\ outcome = "OPTIMAL" /\ Reachable(i) =>
              /\ line.quantity = Shipped(m, line.supplier, line.needed)
              /\ \/ line.needed = rows[i].quantity
                 \/ \E k \in DOMAIN rows : k > i /\ rows[k].material = m /\ Reachable(k)

(* A choice of one shipping supplier per material, what it is billed in    *)
(* the rounded cents that the lines and the orders carry, and whether      *)
(* every supplier it uses reaches its minimum order.                       *)
Plans ==
  {x \in [Asked -> Suppliers] : \A m \in Asked : Shipped(m, x[m], Qty(m)) # NULL}
Bill(x, s)  == SumFunction([m \in {n \in Asked : x[n] = s} |->
                              Shipped(m, s, Qty(m)) * UnitCents(m, s)])
Delivery(x, s) == IF FreeFrom[s] # NULL /\ Bill(x, s) >= FreeFrom[s] THEN 0 ELSE FlatFee[s]
Acceptable(x)  == \A s \in Engaged(x) : Bill(x, s) >= MinOrder[s]
RealCost(x) ==
  SumFunction([s \in Engaged(x) |-> Bill(x, s) + Delivery(x, s)])
    + SplitPenalty * Cardinality({m \in Linked : x[m] # x[Reference(m)]})

(* The same choice at the prices as they are stored, in thousandths, and   *)
(* how many pieces it ships.                                               *)
Pieces(x) == SumFunction([m \in Asked |-> Shipped(m, x[m], Qty(m))])
ListBill(x) ==
  SumFunction([m \in Asked |-> Shipped(m, x[m], Qty(m)) * offers[m][x[m]].price])
ListCost(x) ==
  ListBill(x) + 10 * SumFunction([s \in Engaged(x) |-> Delivery(x, s)])
    + 10 * (SplitPenalty * Cardinality({m \in Linked : x[m] # x[Reference(m)]}))

(* In the rounded cents, the plan is the cheapest acceptable one there is, *)
(* delivery by the suppliers' own rules and split categories included: the *)
(* big-M encoding, the activation and the minimum-order constraints        *)
(* neither cut off nor underprice any choice.  At the stored prices it may *)
(* not be (ADR-0047: 0.019 and 0.022 are both 2 cents), but it is never    *)
(* dearer than another by more than half a cent for each piece of either.  *)
PlanIsCheapest ==
  outcome = "OPTIMAL" =>
    LET x == [m \in Asked |-> proposal.lines[m].supplier]
    IN /\ x \in Plans /\ Acceptable(x)
       /\ \A other \in Plans : Acceptable(other) =>
            /\ RealCost(x) <= RealCost(other)
            /\ ListCost(x) <= ListCost(other) + 5 * (Pieces(x) + Pieces(other))

(* The run is called infeasible only when no choice of suppliers reaches   *)
(* everybody's minimum order, in the rounded cents; a split category alone *)
(* never makes it so (ADR-0028).                                           *)
InfeasibleMeansNone == outcome = "INFEASIBLE" => \A x \in Plans : ~Acceptable(x)

(* What is exported about a supplier is what its delivery policy says of   *)
(* its lines at their rounded unit prices, the total is their sum, and a   *)
(* category is reported as split exactly when it cost the penalty.         *)
ExportIsReal ==
  outcome = "OPTIMAL" =>
    LET x == [m \in Asked |-> proposal.lines[m].supplier]
    IN /\ \A s \in Engaged(x) :
            /\ proposal.summaries[s].goods = Bill(x, s)
            /\ proposal.summaries[s].fee = Delivery(x, s)
            /\ proposal.summaries[s].free <=> FreeFrom[s] # NULL /\ Bill(x, s) >= FreeFrom[s]
       /\ proposal.total = SumFunction([s \in Engaged(x) |-> Bill(x, s) + Delivery(x, s)])
       /\ proposal.split = {Category[m] : m \in {n \in Linked : x[n] # x[Reference(n)]}}

(* ADR-0038: the same material asked for twice is two independent          *)
(* positions, both needed; nothing of them is left out of the plan.        *)
EveryCopyIsPlanned ==
  outcome = "OPTIMAL" => \A m \in DOMAIN proposal.lines :
    proposal.lines[m].quantity >=
      SumFunction([i \in {k \in solvable : rows[k].material = m} |-> rows[i].quantity])
=============================================================================
