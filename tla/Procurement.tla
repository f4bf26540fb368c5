----------------------------- MODULE Procurement -----------------------------
(***************************************************************************)
(* One procurement project of the backend: its status, its allocation      *)
(* runs with their manual overrides, and the draft orders made from them.  *)
(* Sources: app/allocation/service.py (runs, overrides),                   *)
(* app/allocation/order_service.py (orders), app/api/project.py (status,   *)
(* deletion).                                                              *)
(*                                                                         *)
(* An endpoint that commits once is one action.  replace_and_sync_order    *)
(* commits twice (inside the override, then at its end), so it is two      *)
(* actions with every other request, or a crash, possible in between.      *)
(* Statement-level interleaving inside one commit is in PlanRace.          *)
(*                                                                         *)
(* Project items, prices and suppliers' activity change freely between     *)
(* requests and are read by nothing but the allocation and the overrides:  *)
(* they are inputs, any need and any Offer, chosen when they are read.     *)
(***************************************************************************)
EXTENDS Integers, FiniteSets, Functions, Policies

CONSTANTS
  Workers,    (* server threads that may be inside replace_and_sync_order  *)
  Offer,      (* Offer[m][s]: the active prices a read may meet, a set of  *)
              (* [price, moq]; {} = never sold                             *)
  Coloured,   (* materials whose color_options is not NULL                 *)
  MaxRuns,    (* bound: allocation runs of the project                     *)
  MaxDrafts,  (* bound: orders ever made per supplier (ids are not reused) *)
  MaxCopies,  (* bound: rows of one material (or without one) in an order  *)
  MaxRequests (* bound: requests that change something, in one history     *)

Runs     == 1..MaxRuns
OrderNos == 1..MaxDrafts
(* An order item's id: the supplier and number of its order, its material  *)
(* (NULL for a raw item, ADR-0033) and which such row of the order it is.  *)
ItemIds  == Suppliers \X OrderNos \X (Materials \cup {NULL}) \X (1..MaxCopies)

ASSUME ConstantsAssumption ==
  /\ IsFiniteSet(Materials)
  /\ NULL \notin Materials /\ NULL \notin Suppliers /\ NULL \notin Nat
  /\ NULL \notin ItemIds
  /\ Quantities \subseteq Nat \ {0}
  /\ MaxRequests \in Nat /\ MaxRuns \in Nat /\ MaxDrafts \in Nat \ {0} /\ MaxCopies \in Nat \ {0}
  /\ Offer \in [Materials -> [Suppliers -> SUBSET [price : Nat, moq : Nat]]]
  /\ Coloured \subseteq Materials

VARIABLES
  status,       (* Project.status; "deleted" once the row is gone          *)
  colorChosen,  (* Project.color_choice is not NULL                        *)
  nRuns,        (* runs made; the last one is the latest by created_at     *)
  demand,       (* history: what run r was asked to plan per material      *)
  chosen,       (* history: the supplier the solver gave each line         *)
  lines,        (* lines[r][m]: the AllocationLine of run r, or NULL       *)
  summaries,    (* summaries[r][s]: entry of supplier_summaries, or NULL   *)
  orderState,   (* orderState[s][k]: "unused", "draft" or "deleted"        *)
  amounts,      (* amounts[s][k]: the order's total, fee and taxed amount  *)
  items,        (* items[i]: the OrderItem, or NULL                        *)
  pending,      (* pending[w]: replace_and_sync_order between its commits  *)
  requests      (* bound: requests served so far                           *)

planVars  == <<nRuns, demand, chosen, lines, summaries>>
orderVars == <<orderState, amounts, items>>
vars      == <<status, colorChosen, planVars, orderVars, pending, requests>>

Lines ==
  [supplier : Suppliers, price : Nat, quantity : Nat, needed : Nat \cup {NULL},
   overridden : BOOLEAN, original : Suppliers \cup {NULL},
   originalPrice : Nat \cup {NULL}, via : ItemIds \cup {NULL}, ordered : BOOLEAN]
Items ==
  [quantity : Nat, needed : Nat \cup {NULL}, quoted : Nat,
   declined : BOOLEAN, confirmed : BOOLEAN]
Syncs ==
  [item : ItemIds, run : Runs, material : Materials, supplier : Suppliers,
   target : OrderNos \cup {NULL}, quantity : Nat, needed : Nat \cup {NULL},
   quoted : Nat]
Summaries == [goods : Nat, fee : Nat, free : BOOLEAN, below : BOOLEAN]

ASSUME NullAssumption ==
  /\ NULL \notin Lines /\ NULL \notin Summaries
  /\ NULL \notin Items /\ NULL \notin Syncs

NoLines     == [m \in Materials |-> NULL]
NoSummaries == [s \in Suppliers |-> NULL]
NoAmount    == [total |-> 0, fee |-> 0, taxed |-> NULL]

Init ==
  /\ status = "draft" /\ colorChosen = FALSE
  /\ nRuns = 0
  /\ demand = [r \in Runs |-> [m \in Materials |-> 0]]
  /\ chosen = [r \in Runs |-> NoLines]
  /\ lines = [r \in Runs |-> NoLines]
  /\ summaries = [r \in Runs |-> NoSummaries]
  /\ orderState = [s \in Suppliers |-> [k \in OrderNos |-> "unused"]]
  /\ amounts = [s \in Suppliers |-> [k \in OrderNos |-> NoAmount]]
  /\ items = [i \in ItemIds |-> NULL]
  /\ pending = [w \in Workers |-> NULL]
  /\ requests = 0

(* Every request that changes something counts against the bound.          *)
Served == requests < MaxRequests /\ requests' = requests + 1

-----------------------------------------------------------------------------
(* The plan: lines and the summaries derived from them.                    *)

LinesOf(plan, s) == {m \in Materials : plan[m] # NULL /\ plan[m].supplier = s}

LineTotals(plan, s) == [m \in LinesOf(plan, s) |-> plan[m].price * plan[m].quantity]
Goods(plan, s)      == SumFunction(LineTotals(plan, s))

(* A supplier's entry of supplier_summaries, NULL if it has no line.       *)
Summary(plan, s, below) ==
  LET goods == Goods(plan, s)
      free  == FreeFrom[s] # NULL /\ goods >= FreeFrom[s]
  IN IF LinesOf(plan, s) = {} THEN NULL
     ELSE [goods |-> goods, fee |-> IF free THEN 0 ELSE FlatFee[s],
           free |-> free, below |-> below]

(* _rebuild_supplier_summary, and what run_allocation writes for the       *)
(* solver: below_min_order = False without looking at the minimum.         *)
Rebuilt(plan, s)       == Summary(plan, s, ~(Goods(plan, s) >= MinOrder[s]))
SolverSummary(plan, s) == Summary(plan, s, FALSE)

(* The offers an active Price row of material m may carry when it is read. *)
Candidates(m) ==
  UNION {{[supplier |-> s, price |-> o.price, moq |-> o.moq] : o \in Offer[m][s]} :
           s \in Suppliers}

SolverLine(q, c) ==
  LET quantity == Larger(q, c.moq)
  IN [supplier |-> c.supplier, price |-> c.price, quantity |-> quantity,
      needed |-> Recorded(q, quantity),
      overridden |-> FALSE, original |-> NULL, originalPrice |-> NULL,
      via |-> NULL, ordered |-> FALSE]

OverriddenLine(line, c, via) ==
  LET need     == DemandOf(line)
      quantity == Larger(need, c.moq)
  IN [supplier |-> c.supplier, price |-> c.price, quantity |-> quantity,
      needed |-> Recorded(need, quantity), overridden |-> TRUE,
      original |-> Origin(line).supplier, originalPrice |-> Origin(line).price,
      via |-> via, ordered |-> line.ordered]

-----------------------------------------------------------------------------
(* run_allocation.  What the solver answers is any assignment of some of   *)
(* the wanted materials to offers under which every supplier it uses       *)
(* reaches its minimum order (the others are orphaned), or no solution.    *)

Wanted(need) == {m \in Materials : need[m] > 0}

PlanOf(need, pick) ==
  [m \in Materials |-> IF m \in DOMAIN pick THEN SolverLine(need[m], pick[m]) ELSE NULL]

Feasible(plan) ==
  \A s \in Suppliers : LinesOf(plan, s) # {} => Goods(plan, s) >= MinOrder[s]

NewRun(need, plan) ==
  LET r == nRuns + 1
  IN /\ Served /\ status # "deleted" /\ nRuns < MaxRuns /\ Wanted(need) # {}
     /\ nRuns' = r
     /\ demand' = [demand EXCEPT ![r] = need]
     /\ chosen' = [chosen EXCEPT ![r] = [m \in Materials |->
                     IF plan[m] = NULL THEN NULL ELSE plan[m].supplier]]
     /\ lines' = [lines EXCEPT ![r] = plan]
     /\ summaries' = [summaries EXCEPT ![r] = [s \in Suppliers |-> SolverSummary(plan, s)]]
     /\ UNCHANGED <<colorChosen, orderVars, pending>>

RunSolved(need, pick) ==
  /\ DOMAIN pick # {} /\ DOMAIN pick \subseteq Wanted(need)
  /\ Feasible(PlanOf(need, pick))
  /\ NewRun(need, PlanOf(need, pick))
  /\ status' = IF status \in {"draft", "ordered"} THEN "calculated" ELSE status

RunInfeasible(need) ==
  /\ NewRun(need, NoLines)
  /\ status' = status

-----------------------------------------------------------------------------
(* Overrides.                                                              *)

(* The run's summaries after a line moved between the touched suppliers:   *)
(* theirs are rebuilt in place, dropped or appended, the others stay.      *)
InPlaceOnly(sums, plan, touched) ==                                     (* faulty *)
  [s \in Suppliers |-> IF s \in touched /\ sums[s] # NULL THEN Rebuilt(plan, s) ELSE sums[s]]
NeverDropped(sums, plan, touched) ==                                    (* faulty *)
  [s \in Suppliers |-> IF s \in touched /\ LinesOf(plan, s) # {} THEN Rebuilt(plan, s) ELSE sums[s]]
Resummarised(sums, plan, touched) ==
  [s \in Suppliers |-> IF s \in touched THEN Rebuilt(plan, s) ELSE sums[s]]

(* override_allocation_line_supplier, up to its commit.                    *)
Overrides(r, m, c, via) ==
  LET plan    == [lines[r] EXCEPT ![m] = OverriddenLine(lines[r][m], c, via)]
      touched == {lines[r][m].supplier, c.supplier}
  IN /\ lines' = [lines EXCEPT ![r] = plan]
     /\ summaries' = [summaries EXCEPT ![r] = Resummarised(summaries[r], plan, touched)]
     /\ UNCHANGED <<nRuns, demand, chosen>>

(* PATCH .../lines/{line_id}: any run of the project, any active price of  *)
(* the material, and as source item, if one is passed, any item there is.  *)
OverrideLine(r, m, c, via) ==
  /\ Served /\ status # "deleted" /\ r <= nRuns /\ lines[r][m] # NULL
  /\ c \in Candidates(m)
  /\ via # NULL => items[via] # NULL
  /\ Overrides(r, m, c, via)
  /\ UNCHANGED <<status, colorChosen, orderVars, pending>>

-----------------------------------------------------------------------------
(* Orders.                                                                 *)

Drafts(s)      == {k \in OrderNos : orderState[s][k] = "draft"}
FreshNos(s)    == {k \in OrderNos : orderState[s][k] = "unused"}
NextNo(s)      == CHOOSE k \in FreshNos(s) : TRUE
ItemsOf(s, k)  == {i \in ItemIds : i[1] = s /\ i[2] = k /\ items[i] # NULL}
HasConfirmed(s, k)  == \E i \in ItemsOf(s, k) : items[i].confirmed
FullyDeclined(s, k) ==
  ItemsOf(s, k) # {} /\ \A i \in ItemsOf(s, k) : items[i].declined

(* _conflicting_draft_orders_by_supplier, for one supplier.                *)
ConflictingIfNotDeclined(s) == {k \in Drafts(s) : ~FullyDeclined(s, k)}    (* faulty *)
Conflicting(s) ==
  {k \in Drafts(s) : ~(FullyDeclined(s, k) /\ ~HasConfirmed(s, k))}

(* What a create request says of a supplier in conflict: "refuse" when it  *)
(* names no action for it.  replace_drafts and acknowledge_conflict are    *)
(* the requests that answer "replace" and "add" for every supplier.        *)
Answers == [Suppliers -> {"refuse", "replace", "add", "skip"}]

OrderItemFrom(line) ==
  [quantity |-> line.quantity, needed |-> line.needed, quoted |-> line.price,
   declined |-> FALSE, confirmed |-> FALSE]

(* ON DELETE SET NULL of AllocationLine.overridden_via_order_item_id.      *)
RefsKept(ls, gone) == ls                                                   (* faulty *)
WithoutRefs(ls, gone) ==
  [r \in Runs |-> [m \in Materials |->
     IF ls[r][m] # NULL /\ ls[r][m].via # NULL /\ <<ls[r][m].via[1], ls[r][m].via[2]>> \in gone
     THEN [ls[r][m] EXCEPT !.via = NULL] ELSE ls[r][m]]]

(* Drafts for the suppliers in made, from the lines of run r, after the    *)
(* drafts in gone are deleted; total_amount is summed from the lines, the  *)
(* delivery fee is the summary's.                                          *)
PlaceOrders(r, gone, made) ==
  LET plan      == lines[r]
      kept      == WithoutRefs(lines, gone)
      new(s, k) == s \in made /\ k = NextNo(s)
  IN /\ orderState' = [s \in Suppliers |-> [k \in OrderNos |->
                         IF <<s, k>> \in gone THEN "deleted"
                         ELSE IF new(s, k) THEN "draft" ELSE orderState[s][k]]]
     /\ amounts' = [s \in Suppliers |-> [k \in OrderNos |->
                      IF new(s, k)
                      THEN [total |-> Goods(plan, s), fee |-> summaries[r][s].fee,
                            taxed |-> Goods(plan, s)]
                      ELSE amounts[s][k]]]
     /\ items' = [i \in ItemIds |->
                    IF <<i[1], i[2]>> \in gone THEN NULL
                    ELSE IF new(i[1], i[2]) /\ i[3] \in LinesOf(plan, i[1]) /\ i[4] = 1
                         THEN OrderItemFrom(plan[i[3]]) ELSE items[i]]
     /\ lines' = [kept EXCEPT ![r] = [m \in Materials |->
                    IF plan[m] # NULL /\ plan[m].supplier \in made
                    THEN [kept[r][m] EXCEPT !.ordered = TRUE] ELSE kept[r][m]]]
     /\ status' = IF made # {} THEN "ordered" ELSE status
     /\ UNCHANGED <<colorChosen, nRuns, demand, chosen, summaries, pending>>

(* create_orders_for_run.                                                  *)
CreateOrders(r, answer) ==
  LET plan     == lines[r]
      planned  == {s \in Suppliers : summaries[r][s] # NULL}
      conflict == {s \in planned : Conflicting(s) # {}}
      gone     == {o \in Suppliers \X OrderNos :
                     /\ o[1] \in conflict /\ answer[o[1]] = "replace"
                     /\ o[2] \in Conflicting(o[1])}
      made     == {s \in planned : /\ LinesOf(plan, s) # {}
                                   /\ ~(s \in conflict /\ answer[s] = "skip")}
  IN /\ Served /\ status # "deleted" /\ r <= nRuns
     /\ (\E m \in Coloured : plan[m] # NULL) => colorChosen
     /\ \A s \in conflict : answer[s] # "refuse"
     /\ made # {} \/ gone # {}
     /\ \A s \in made : FreshNos(s) # {}
     /\ PlaceOrders(r, gone, made)

(* DELETE /orders/{order_id}: only drafts exist in this backend.           *)
DeleteOrder(s, k) ==
  /\ Served /\ k \in Drafts(s)
  /\ orderState' = [orderState EXCEPT ![s][k] = "deleted"]
  /\ items' = [i \in ItemIds |-> IF i[1] = s /\ i[2] = k THEN NULL ELSE items[i]]
  /\ lines' = WithoutRefs(lines, {<<s, k>>})
  /\ UNCHANGED <<status, colorChosen, nRuns, demand, chosen, summaries, amounts, pending>>

FreeCopies(s, k, m) == {c \in 1..MaxCopies : items[<<s, k, m, c>>] = NULL}

(* POST /orders/{order_id}/items/raw: the order's amounts do not follow.   *)
AddRawItem(s, k, q) ==
  /\ Served /\ k \in Drafts(s) /\ FreeCopies(s, k, NULL) # {}
  /\ items' = [items EXCEPT ![<<s, k, NULL, CHOOSE c \in FreeCopies(s, k, NULL) : TRUE>>] =
                 [quantity |-> q, needed |-> NULL, quoted |-> 1,
                  declined |-> FALSE, confirmed |-> FALSE]]
  /\ UNCHANGED <<status, colorChosen, planVars, orderState, amounts, pending>>

(* PATCH .../items/{item_id}: decline and confirmation in any combination. *)
SetItemFields(i, declined, confirmed) ==
  /\ Served /\ items[i] # NULL /\ <<declined, confirmed>> # <<items[i].declined, items[i].confirmed>>
  /\ items' = [items EXCEPT ![i].declined = declined, ![i].confirmed = confirmed]
  /\ UNCHANGED <<status, colorChosen, planVars, orderState, amounts, pending>>

-----------------------------------------------------------------------------
(* replace_and_sync_order: the checks and the override's own commit, then  *)
(* the draft, the item and the amounts in a second commit.                 *)

ReplaceBegin(w, i, c) ==
  LET m == i[3]
      s == c.supplier
  IN /\ Served /\ status # "deleted" /\ pending[w] = NULL /\ nRuns > 0
     /\ items[i] # NULL /\ m # NULL
     /\ lines[nRuns][m] # NULL
     /\ c \in Candidates(m)
     /\ Cardinality(Drafts(s)) <= 1
     /\ \A k \in Drafts(s) : \A j \in ItemsOf(s, k) : j[3] # m
     /\ Overrides(nRuns, m, c, i)
     /\ pending' = [pending EXCEPT ![w] =
          LET line == OverriddenLine(lines[nRuns][m], c, i)
          IN [item |-> i, run |-> nRuns, material |-> m, supplier |-> s,
              target |-> IF Drafts(s) = {} THEN NULL ELSE CHOOSE k \in Drafts(s) : TRUE,
              quantity |-> line.quantity, needed |-> line.needed, quoted |-> c.price]]
     /\ UNCHANGED <<status, colorChosen, orderVars>>

ReplaceFinish(w) ==
  LET p == pending[w]
      s == p.supplier
      k == IF p.target = NULL THEN NextNo(s) ELSE p.target
      summary == summaries[p.run][s]
      new == [items EXCEPT ![<<s, k, p.material,
                               CHOOSE c \in FreeCopies(s, k, p.material) : TRUE>>] =
                [quantity |-> p.quantity, needed |-> p.needed, quoted |-> p.quoted,
                 declined |-> FALSE, confirmed |-> FALSE]]
  IN /\ p # NULL /\ status # "deleted"
     /\ IF p.target = NULL THEN FreshNos(s) # {} ELSE p.target \in Drafts(s)
     /\ summary # NULL
     /\ FreeCopies(s, k, p.material) # {}
     /\ orderState' = [orderState EXCEPT ![s][k] = "draft"]
     /\ items' = new
     /\ amounts' = [amounts EXCEPT ![s][k].total = summary.goods,
                                   ![s][k].fee = summary.fee]
     /\ pending' = [pending EXCEPT ![w] = NULL]
     /\ UNCHANGED <<status, colorChosen, planVars, requests>>

(* The request dies between its commits: the process stops, or the second  *)
(* transaction raises (draft, summary or project gone) and rolls back.     *)
ReplaceAbort(w) ==
  /\ pending[w] # NULL
  /\ pending' = [pending EXCEPT ![w] = NULL]
  /\ UNCHANGED <<status, colorChosen, planVars, orderVars, requests>>

-----------------------------------------------------------------------------
(* The project itself (app/api/project.py).                                *)

ChooseColor(b) ==
  /\ Served /\ status # "deleted" /\ b # colorChosen
  /\ colorChosen' = b
  /\ UNCHANGED <<status, planVars, orderVars, pending>>

CompleteProject ==
  /\ Served /\ status = "ordered"
  /\ status' = "completed"
  /\ UNCHANGED <<colorChosen, planVars, orderVars, pending>>

(* delete_project: every row that refers to the project goes with it.      *)
DeleteProject ==
  /\ Served /\ status # "deleted" /\ status' = "deleted"
  /\ colorChosen' = FALSE /\ nRuns' = 0
  /\ demand' = [r \in Runs |-> [m \in Materials |-> 0]]
  /\ chosen' = [r \in Runs |-> NoLines]
  /\ lines' = [r \in Runs |-> NoLines]
  /\ summaries' = [r \in Runs |-> NoSummaries]
  /\ orderState' = [s \in Suppliers |-> [k \in OrderNos |-> "deleted"]]
  /\ amounts' = [s \in Suppliers |-> [k \in OrderNos |-> NoAmount]]
  /\ items' = [i \in ItemIds |-> NULL]
  /\ UNCHANGED pending

-----------------------------------------------------------------------------
Picks(need) ==
  UNION {[M -> UNION {Candidates(m) : m \in Materials}] : M \in SUBSET Wanted(need)}

Next ==
  \/ \E need \in [Materials -> Quantities \cup {0}] :
       \/ RunInfeasible(need)
       \/ \E pick \in Picks(need) :
            /\ \A m \in DOMAIN pick : pick[m] \in Candidates(m)
            /\ RunSolved(need, pick)
  \/ \E r \in Runs, m \in Materials, via \in ItemIds \cup {NULL} :
       \E c \in Candidates(m) : OverrideLine(r, m, c, via)
  \/ \E r \in Runs, answer \in Answers : CreateOrders(r, answer)
  \/ \E s \in Suppliers, k \in OrderNos :
       DeleteOrder(s, k) \/ \E q \in Quantities : AddRawItem(s, k, q)
  \/ \E i \in ItemIds, d, c \in BOOLEAN : SetItemFields(i, d, c)
  \/ \E w \in Workers :
       \/ \E i \in ItemIds : i[3] # NULL /\ \E c \in Candidates(i[3]) : ReplaceBegin(w, i, c)
       \/ ReplaceFinish(w)
       \/ ReplaceAbort(w)
  \/ \E b \in BOOLEAN : ChooseColor(b)
  \/ CompleteProject
  \/ DeleteProject

Spec == Init /\ [][Next]_vars

-----------------------------------------------------------------------------
(* What the system promises.                                               *)

(* Types of every variable; amounts are sums, typed by TLC only as keyed   *)
(* records.                                                                *)
TypeOK ==
  /\ status \in {"draft", "calculated", "ordered", "completed", "deleted"}
  /\ colorChosen \in BOOLEAN
  /\ nRuns \in 0..MaxRuns
  /\ demand \in [Runs -> [Materials -> Nat]]
  /\ chosen \in [Runs -> [Materials -> Suppliers \cup {NULL}]]
  /\ lines \in [Runs -> [Materials -> Lines \cup {NULL}]]
  /\ orderState \in [Suppliers -> [OrderNos -> {"unused", "draft", "deleted"}]]
  /\ items \in [ItemIds -> Items \cup {NULL}]
  /\ pending \in [Workers -> Syncs \cup {NULL}]
  /\ requests \in 0..MaxRequests

(* The stored supplier summaries are always those of the stored lines: the *)
(* solver's export and _rebuild_supplier_summary agree on the amounts, the *)
(* free-shipping threshold and the minimum order, and an override leaves   *)
(* no supplier with a stale, missing or leftover summary (ADR-0006).       *)
SummariesMatchLines ==
  \A r \in Runs, s \in Suppliers : summaries[r][s] = Rebuilt(lines[r], s)

(* However often a line moves between suppliers with different minimum     *)
(* quantities, it still knows what the project needs and whom the solver   *)
(* chose, and orders the larger of that need and its present supplier's    *)
(* minimum (ADR-0045).                                                     *)
DemandPreserved ==
  \A r \in Runs, m \in Materials : lines[r][m] # NULL =>
    LET line == lines[r][m]
    IN /\ chosen[r][m] = IF line.overridden THEN line.original ELSE line.supplier
       /\ line.needed = IF line.quantity = demand[r][m] THEN NULL ELSE demand[r][m]
       /\ \E o \in Offer[m][line.supplier] :
            line.price = o.price /\ line.quantity = Larger(demand[r][m], o.moq)

(* A line attributed to a declined item points at an item that still       *)
(* exists, whatever orders were deleted or replaced since, a request       *)
(* between its two commits included.                                       *)
AttributionIsLive ==
  \A r \in Runs, m \in Materials :
    lines[r][m] # NULL /\ lines[r][m].via # NULL =>
      items[lines[r][m].via] # NULL

(* A draft somebody still works with: a position not declined, or a        *)
(* confirmed price.                                                        *)
Alive(s, k) ==
  /\ orderState[s][k] = "draft"
  /\ \E i \in ItemsOf(s, k) : ~items[i].declined \/ items[i].confirmed

(* A create request that answers no conflict neither removes an order nor  *)
(* puts a second draft beside one somebody still works with (ADR-0012,     *)
(* ADR-0026).                                                              *)
UnaskedCreateIsHarmless ==
  [][\A r \in Runs : CreateOrders(r, [s \in Suppliers |-> "refuse"]) =>
       \A s \in Suppliers, k \in OrderNos :
         /\ orderState[s][k] = "draft" => orderState'[s][k] = "draft"
         /\ orderState[s][k] # "draft" /\ orderState'[s][k] = "draft" =>
              \A j \in OrderNos : ~Alive(s, j)]_vars

(* When ordering moves the project to "ordered", some run has every line   *)
(* in an order, but for suppliers that already had a draft to skip: no     *)
(* material of the plan is silently left out.                              *)
PlanFullyOrdered ==
  [][status # "ordered" /\ status' = "ordered" =>
       \E r \in Runs : /\ \E m \in Materials : lines[r][m] # NULL
                       /\ \A m \in Materials : lines[r][m] # NULL =>
                            lines'[r][m].ordered \/ Drafts(lines[r][m].supplier) # {}]_vars

=============================================================================
