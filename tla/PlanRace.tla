------------------------------- MODULE PlanRace -------------------------------
(***************************************************************************)
(* Overrides of one allocation run, statement by statement.  Every request *)
(* has a session and a READ COMMITTED transaction of its own and takes no  *)
(* lock before it writes, so the statements of two requests interleave:    *)
(*   - the AllocationRun is read when the request starts, and its          *)
(*     supplier_summaries are not read again before they are written;      *)
(*   - the line is read, then flushed: the UPDATE names only the columns   *)
(*     that differ from what was read, and locks the row until the commit; *)
(*   - each summary is rebuilt from the rows committed by then and the     *)
(*     request's own, unless that one fails, which rolls back.             *)
(* Sources: app/allocation/service.py, app/api/allocation.py,              *)
(* app/core/database.py.  Procurement has the same request as one step.    *)
(***************************************************************************)
EXTENDS Integers, FiniteSets, Functions, PlanLines

CONSTANTS
  Materials,  (* the materials of the run                                  *)
  Suppliers,  (* the suppliers, every one sells every material             *)
  Workers,    (* requests that may be open at the same time                *)
  Price,      (* Price[m][s]: unit price                                   *)
  Moq,        (* Moq[m][s]: min_order_qty                                  *)
  Need,       (* Need[m]: the quantity the project asks for                *)
  MaxOpened   (* bound: overrides requested in one history                 *)

ASSUME RaceAssumption ==
  /\ IsFiniteSet(Materials)
  /\ Price \in [Materials -> [Suppliers -> Nat]]
  /\ Moq \in [Materials -> [Suppliers -> Nat]]
  /\ Need \in [Materials -> Nat \ {0}]
  /\ NULL \notin Suppliers /\ NULL \notin Nat
  /\ MaxOpened \in Nat

VARIABLES
  rows,      (* rows[m]: the committed AllocationLine                      *)
  summaries, (* summaries[s]: committed goods_total of s, NULL = no entry  *)
  chosen,    (* history: the supplier the solver chose                     *)
  tx,        (* tx[w]: the request worker w serves, or NULL                *)
  overlapped,(* history: two requests were ever open at the same time      *)
  opened     (* bound: overrides requested so far                          *)

vars == <<rows, summaries, chosen, tx, overlapped, opened>>

Rows ==
  [supplier : Suppliers, price : Nat, quantity : Nat, needed : Nat \cup {NULL},
   total : Nat, overridden : BOOLEAN, original : Suppliers \cup {NULL},
   originalPrice : Nat \cup {NULL}]

LinesOf(ls, s) == {m \in Materials : ls[m].supplier = s}

(* _rebuild_supplier_summary, reduced to the total it derives the rest of. *)
Rebuilt(ls, s) ==
  IF LinesOf(ls, s) = {} THEN NULL
  ELSE SumFunction([m \in LinesOf(ls, s) |-> ls[m].total])

SolverRow(m, s) ==
  LET quantity == Larger(Need[m], Moq[m][s])
  IN [supplier |-> s, price |-> Price[m][s], quantity |-> quantity,
      needed |-> Recorded(Need[m], quantity), total |-> Price[m][s] * quantity,
      overridden |-> FALSE, original |-> NULL, originalPrice |-> NULL]

Init ==
  /\ chosen \in [Materials -> Suppliers]
  /\ rows = [m \in Materials |-> SolverRow(m, chosen[m])]
  /\ summaries = [s \in Suppliers |-> Rebuilt(rows, s)]
  /\ tx = [w \in Workers |-> NULL]
  /\ overlapped = FALSE /\ opened = 0

-----------------------------------------------------------------------------
OverriddenRow(row, m, s) ==
  LET quantity == Larger(DemandOf(row), Moq[m][s])
  IN [supplier |-> s, price |-> Price[m][s], quantity |-> quantity,
      needed |-> Recorded(DemandOf(row), quantity), total |-> Price[m][s] * quantity,
      overridden |-> TRUE, original |-> Origin(row).supplier,
      originalPrice |-> Origin(row).price]

(* The UPDATE: columns the request changed, over the row as it now is.     *)
Written(row, read, new) == [col \in DOMAIN row |-> IF new[col] = read[col] THEN row[col] ELSE new[col]]

(* What the request reads back after its flush: its row where the UPDATE   *)
(* put it, with the values its session still holds in memory.              *)
ViewUnflushed(w) == rows                                        (* faulty *)
View(w) ==
  LET t == tx[w]
  IN [rows EXCEPT ![t.material] =
        [t.new EXCEPT !.supplier = Written(rows[t.material], t.read, t.new).supplier]]

(* The run's summaries as the commit writes them, over those it read.      *)
InPlaceOnly(seen, rebuilt) ==                                   (* faulty *)
  [s \in Suppliers |-> IF s \in DOMAIN rebuilt /\ seen[s] # NULL THEN rebuilt[s] ELSE seen[s]]
Merged(seen, rebuilt) ==
  [s \in Suppliers |-> IF s \in DOMAIN rebuilt THEN rebuilt[s] ELSE seen[s]]

At(w, step) == tx[w] # NULL /\ tx[w].step = step

(* The run is loaded by the route.                                         *)
Open(w, m, s) ==
  /\ tx[w] = NULL /\ opened < MaxOpened /\ opened' = opened + 1
  /\ LET others == {v \in Workers : tx[v] # NULL}
     IN /\ tx' = [v \in Workers |->
                    IF v = w THEN [step |-> "opened", material |-> m, to |-> s,
                                   seen |-> summaries, read |-> NULL, new |-> NULL,
                                   rebuilt |-> <<>>, alone |-> others = {}]
                    ELSE IF v \in others THEN [tx[v] EXCEPT !.alone = FALSE] ELSE tx[v]]
        /\ overlapped' = (overlapped \/ others # {})
  /\ UNCHANGED <<rows, summaries, chosen>>

(* The line and the new supplier's price are read, the line is changed.    *)
Read(w) ==
  /\ At(w, "opened")
  /\ LET row == rows[tx[w].material]
     IN tx' = [tx EXCEPT ![w].step = "read", ![w].read = row,
                         ![w].new = OverriddenRow(row, tx[w].material, tx[w].to)]
  /\ UNCHANGED <<rows, summaries, chosen, overlapped, opened>>

(* Nobody else holds the lock of the line's row.                           *)
NobodyElseRead(w) ==                                            (* faulty *)
  \A v \in Workers \ {w} : tx[v] # NULL /\ tx[v].material = tx[w].material => At(v, "opened")
RowFree(w) ==
  \A v \in Workers \ {w} :
    tx[v] # NULL /\ tx[v].material = tx[w].material => At(v, "opened") \/ At(v, "read")

(* db.flush(): waits for the row, then holds it.                           *)
Flush(w) ==
  /\ At(w, "read") /\ RowFree(w)
  /\ tx' = [tx EXCEPT ![w].step = "flushed"]
  /\ UNCHANGED <<rows, summaries, chosen, overlapped, opened>>

Touched(w) == {tx[w].read.supplier, tx[w].to}

(* One SELECT per touched supplier, the old one first.                     *)
Rebuild(w) ==
  /\ At(w, "flushed") /\ DOMAIN tx[w].rebuilt # Touched(w)
  /\ LET s == IF DOMAIN tx[w].rebuilt = {} THEN tx[w].read.supplier ELSE tx[w].to
     IN tx' = [tx EXCEPT ![w].rebuilt =
                 [u \in DOMAIN @ \cup {s} |-> IF u = s THEN Rebuilt(View(w), s) ELSE @[u]]]
  /\ UNCHANGED <<rows, summaries, chosen, overlapped, opened>>

(* The list is written only if it is not the one that was read.            *)
Commit(w) ==
  LET t      == tx[w]
      merged == Merged(t.seen, t.rebuilt)
  IN /\ At(w, "flushed") /\ DOMAIN t.rebuilt = Touched(w)
     /\ rows' = [rows EXCEPT ![t.material] = Written(@, t.read, t.new)]
     /\ summaries' = IF merged = t.seen THEN summaries ELSE merged
     /\ tx' = [tx EXCEPT ![w] = NULL]
     /\ UNCHANGED <<chosen, overlapped, opened>>

(* The request fails or its connection is lost: everything rolls back.     *)
Abort(w) ==
  /\ tx[w] # NULL
  /\ tx' = [tx EXCEPT ![w] = NULL]
  /\ UNCHANGED <<rows, summaries, chosen, overlapped, opened>>

Advance(w) == Read(w) \/ Flush(w) \/ Rebuild(w) \/ Commit(w)

Next ==
  \E w \in Workers :
    \/ \E m \in Materials, s \in Suppliers : Open(w, m, s)
    \/ Advance(w)
    \/ Abort(w)

Spec == Init /\ [][Next]_vars

(* A request's thread keeps running, and the database grants a row lock to *)
(* the requests queued for it in turn, so none of them waits for ever.     *)
FairSpec == Spec /\ \A w \in Workers : WF_vars(Advance(w)) /\ SF_vars(Flush(w))

-----------------------------------------------------------------------------
(* Types of the rows and of the open requests.                             *)
TypeOK ==
  /\ rows \in [Materials -> Rows]
  /\ summaries \in [Suppliers -> Nat \cup {NULL}]
  /\ chosen \in [Materials -> Suppliers]
  /\ overlapped \in BOOLEAN /\ opened \in 0..MaxOpened
  /\ \A w \in Workers : tx[w] # NULL =>
       /\ tx[w].step \in {"opened", "read", "flushed"}
       /\ tx[w].read \in Rows \cup {NULL} /\ tx[w].new \in Rows \cup {NULL}
       /\ DOMAIN tx[w].rebuilt \subseteq Suppliers

(* A line agrees with the plan it stands for: what is needed and the       *)
(* minimum of its supplier give its quantity, and that its total.          *)
LineExact(ls, m) ==
  LET row == ls[m]
  IN /\ DemandOf(row) = Need[m]
     /\ row.quantity = Larger(Need[m], Moq[m][row.supplier])
     /\ row.price = Price[m][row.supplier] /\ row.total = row.price * row.quantity

(* Everything keeps its type; while requests come one after another, failed*)
(* ones included, the stored summaries are exactly those of the lines and  *)
(* every line is exact.                                                    *)
SerialPlanIsExact ==
  /\ TypeOK
  /\ ~overlapped => /\ \A s \in Suppliers : summaries[s] = Rebuilt(rows, s)
                    /\ \A m \in Materials : LineExact(rows, m)

(* An override no other request overlapped leaves exact summaries for the  *)
(* two suppliers it touched, whatever earlier races had made of them.      *)
LoneOverrideRepairs ==
  [][\A w \in Workers :
       At(w, "flushed") /\ tx[w].alone /\ rows' # rows =>
         \A s \in Touched(w) : summaries'[s] = Rebuilt(rows', s)]_vars

(* Two first overrides of one line that both read it untouched still leave *)
(* the solver's supplier as its original one.                              *)
OriginalSurvivesRaces ==
  \A m \in Materials :
    chosen[m] = IF rows[m].overridden THEN rows[m].original ELSE rows[m].supplier

(* Requests that wait for one another's rows never wait for ever.          *)
EveryOverrideEnds == \A w \in Workers : tx[w] # NULL ~> tx[w] = NULL

-----------------------------------------------------------------------------
(* What the repository's documents say and the code does not do.           *)

(* _rebuild_supplier_summary's docstring: the summary is recomputed from   *)
(* the run's current lines and dropped with the supplier's last line.      *)
SummariesMatchLines ==
  (\A w \in Workers : tx[w] = NULL) => \A s \in Suppliers : summaries[s] = Rebuilt(rows, s)
=============================================================================
